----------------------------- MODULE MCServices -----------------------------
(* Components that share no state, each checked by itself: a behaviour       *)
(* chooses one of them, and the others stay as they are.                     *)
EXTENDS SMTPPool, DomainLimiter, JobQueue, Migrations, Reports, TLC

CONSTANTS m1, m2

MCMailings == {<<"1">>, <<"1", "0">>}
MCMailingOf == (m1 :> <<"1">>) @@ (m2 :> <<"1", "0">>)
MCSenderOf == (<<"1">> :> "s1") @@ (<<"1", "0">> :> "s2")
MCDomainOf == ("s1" :> "d1") @@ ("s2" :> "d1")

MCMinuteLimit == [d \in Domains |-> 1]
MCHourLimit == [d \in Domains |-> 2]
MCSymmetry == Permutations(Conns) \cup Permutations(Users)

VARIABLE focus

ServicesInit ==
    /\ focus \in {"pool", "limiter", "queue", "migrations", "reports"}
    /\ PoolInit /\ LimiterInit /\ QueueInit /\ MigrationsInit /\ ReportsInit
    /\ focus # "migrations" => driver = "sqlite"
    /\ focus # "pool" => Len(connections) = 0
    /\ mailed[m2].status = "pending" /\ (focus # "reports" => mailed[m1].status = "pending")
    /\ focus # "reports" => bounceRows = <<>>
    /\ members[m1] = "active" /\ (focus = "reports" <=> members[m2] = "unsubscribed")

Pool ==
    /\ focus = "pool" /\ PoolNext
    /\ UNCHANGED <<limiterVars, queueVars, migrationVars, reportsVars, focus>>
Limiter ==
    /\ focus = "limiter" /\ LimiterNext
    /\ UNCHANGED <<poolVars, queueVars, migrationVars, reportsVars, focus>>
Queue ==
    /\ focus = "queue" /\ QueueNext
    /\ UNCHANGED <<poolVars, limiterVars, migrationVars, reportsVars, focus>>
Starts ==
    /\ focus = "migrations" /\ MigrationsNext
    /\ UNCHANGED <<poolVars, limiterVars, queueVars, reportsVars, focus>>

Reported ==
    /\ focus = "reports" /\ ReportsNext
    /\ UNCHANGED <<poolVars, limiterVars, queueVars, migrationVars, focus>>

ServicesNext == Pool \/ Limiter \/ Queue \/ Starts \/ Reported

servicesVars == <<poolVars, limiterVars, queueVars, migrationVars, reportsVars, focus>>
ServicesSpec == ServicesInit /\ [][ServicesNext]_servicesVars

\* Every variable of these components keeps its type.
ServicesTypeOK ==
    PoolTypeOK /\ LimiterTypeOK /\ QueueTypeOK /\ MigrationsTypeOK /\ ReportsTypeOK
=============================================================================
