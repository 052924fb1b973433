--------------------------- MODULE AutomationRuns ---------------------------
(***************************************************************************)
(* The automation engine, src/internal/core/automation_engine.go, and the  *)
(* handlers that switch automations on and off, src/internal/api/api_v2.go. *)
(* Contacts enter a workflow when an event matches its trigger; a          *)
(* goroutine then walks the graph depth first, one run row per entry, and  *)
(* two schedulers pick up the rows that wait for a time that has passed.   *)
(*                                                                         *)
(* The walk of executeFromNode is a recursion over the graph: `todo` is    *)
(* its stack of nodes still to visit.  A workflow definition is a value    *)
(* of Workflow; what a node does outside (mail, webhook, field, score) is  *)
(* only its success.  The delayed queue in Redis is never initialised by   *)
(* main.go, so the schedulers read the database.  The entered and          *)
(* completed counters of the statistics page are left out.                 *)
(***************************************************************************)
EXTENDS Integers, Sequences, FiniteSets

CONSTANTS
    Automations,     \* AutomationV2 rows
    Contacts,        \* the contacts of the automations' organisation
    Strangers,       \* contacts of another organisation
    Definitions,     \* names of workflow definitions
    Workflow,        \* [Definitions -> [nodes, kind, edges, event, reentry]]
    InitialDef,      \* [Automations -> Definitions]
    Runs,            \* bound: AutomationRunV2 rows that may be created
    Execs,           \* bound: goroutines that walk at one time
    MainExec,        \* the goroutine of main.go's scheduler, which walks itself
    Handlers,        \* HTTP requests in progress at one time
    MaxRequests,     \* bound: requests in a behaviour
    MaxNodeErrors,   \* bound: nodes that fail in a behaviour
    MaxCrashes,      \* bound: restarts of the process
    None             \* absence of a value

AllContacts == Contacts \cup Strangers
Nodes == UNION {Workflow[d].nodes : d \in Definitions}
Kinds == {"trigger", "act", "tag", "untag", "delay", "condition", "split", "exit", "unknown"}
Branches == {"", "yes", "no", "A", "B"}
Events == {"contact_added", "tag_added"}

ASSUME SizesAssumption ==
    /\ IsFiniteSet(Runs)
    /\ MainExec \notin Execs
    /\ {MaxRequests, MaxNodeErrors, MaxCrashes} \subseteq Nat

ASSUME WorkflowAssumption ==
    /\ InitialDef \in [Automations -> Definitions]
    /\ None \notin Definitions \cup Runs \cup Nodes \cup AllContacts
    /\ \A d \in Definitions :
        /\ Workflow[d].kind \in [Workflow[d].nodes -> Kinds]
        /\ Workflow[d].edges \in
              Seq([source : Workflow[d].nodes, target : Workflow[d].nodes, handle : Branches])
        /\ Workflow[d].event \in Events
        /\ Workflow[d].reentry \in BOOLEAN

VARIABLES
    autos,     \* database: status and definition of each automation
    runs,      \* database: the run rows; None is a row not created yet
    tags,      \* database: contacts with the tag
    runners,   \* the registered WorkflowRunners: the definition each one parsed
    execs,     \* the goroutines: where they are, and their copy of the run row
    backlog,   \* rows that ProcessDelayedActions has read and not yet continued
    events,    \* TriggerEvent goroutines that have not run yet
    reqs,      \* requests between the database and the engine
    visited,   \* history: nodes each run executed
    branched,  \* history: branches each run's nodes chose
    budget     \* requests, failures and crashes so far

vars == <<autos, runs, tags, runners, execs, backlog, events, reqs, visited, branched, budget>>
dbVars == <<autos, runs, tags>>
historyVars == <<visited, branched>>

Idle == [pc |-> "idle"]
Walkers == Execs \cup {MainExec}
Waiting(r) == runs[r] # None /\ runs[r].status = "waiting"
Due(r) == Waiting(r) /\ runs[r].next = "past"
Held(r) ==
    \/ \E e \in Walkers : execs[e].pc \in {"exec", "settle", "next"} /\ execs[e].run = r
    \/ \E i \in 1..Len(backlog) : backlog[i].run = r

-----------------------------------------------------------------------------
(* The workflow graph *)

\* Mutant: every outgoing edge is followed.
EdgesFollowedAny(d, n, branch) ==
    {i \in 1..Len(Workflow[d].edges) : Workflow[d].edges[i].source = n}

\* findNextNodes: an edge with a handle is followed only from a result with that branch.
EdgesFollowed(d, n, branch) ==
    {i \in 1..Len(Workflow[d].edges) :
        LET edge == Workflow[d].edges[i]
        IN  /\ edge.source = n
            /\ \/ edge.handle = ""
               \/ branch # "" /\ edge.handle = branch}

\* The targets of some edges, in the order of the edges.
NextNodes(d, taken) ==
    {[k \in 1..Cardinality(taken) |-> Workflow[d].edges[order[k]].target] :
        order \in {s \in [1..Cardinality(taken) -> taken] : \A i, j \in DOMAIN s : i < j => s[i] < s[j]}}

\* Any trigger node may come first: the nodes are in a map.
TriggerNodes(d) == {n \in Workflow[d].nodes : Workflow[d].kind[n] = "trigger"}

\* The branch of an A/B split is a function of the run's number.
CONSTANT SplitBranch      \* [Runs -> {"A", "B"}], int(run.ID) % 100 < split_a

ASSUME SplitAssumption == SplitBranch \in [Runs -> {"A", "B"}]

BranchChoices(kind, r) ==
    CASE kind = "condition" -> {"yes", "no"}
      [] kind = "split"     -> {SplitBranch[r]}
      [] OTHER              -> {""}

-----------------------------------------------------------------------------
Init ==
    /\ autos = [a \in Automations |-> [status |-> "draft", def |-> InitialDef[a]]]
    /\ runs = [r \in Runs |-> None]
    /\ tags = {}
    /\ runners = [a \in Automations |-> None]
    /\ execs = [e \in Walkers |-> Idle]
    /\ backlog = <<>>
    /\ events = {}
    /\ reqs = [h \in Handlers |-> Idle]
    /\ visited = [r \in Runs |-> {}]
    /\ branched = [r \in Runs |-> {}]
    /\ budget = [requests |-> 0, failures |-> 0, crashes |-> 0]

-----------------------------------------------------------------------------
(* Handlers: the row first, then the engine, except for a delete *)

BeginRequest(h) ==
    /\ reqs[h] = Idle
    /\ budget.requests < MaxRequests
    /\ budget' = [budget EXCEPT !.requests = @ + 1]
    /\ UNCHANGED <<runs, tags, execs, backlog, events, historyVars>>

ActivateAutomation(h, a) ==
    /\ BeginRequest(h)
    /\ autos[a].status # "deleted"
    /\ autos' = [autos EXCEPT ![a].status = "active"]
    /\ reqs' = [reqs EXCEPT ![h] = [pc |-> "register", auto |-> a, def |-> autos[a].def]]
    /\ UNCHANGED runners

PauseAutomation(h, a) ==
    /\ BeginRequest(h)
    /\ autos[a].status # "deleted"
    /\ autos' = [autos EXCEPT ![a].status = "paused"]
    /\ reqs' = [reqs EXCEPT ![h] = [pc |-> "unregister", auto |-> a, then |-> "idle"]]
    /\ UNCHANGED runners

\* Mutant: the engine keeps the old definition.
UpdateAutomationRowOnly(h, a) ==
    /\ BeginRequest(h)
    /\ autos[a].status # "deleted"
    /\ \E d \in Definitions : autos' = [autos EXCEPT ![a].def = d]
    /\ UNCHANGED <<reqs, runners>>

\* A new definition reaches the engine only if the automation is active.
UpdateAutomation(h, a) ==
    /\ BeginRequest(h)
    /\ autos[a].status # "deleted"
    /\ \E d \in Definitions : autos' = [autos EXCEPT ![a].def = d]
    /\ reqs' = IF autos[a].status = "active"
               THEN [reqs EXCEPT ![h] = [pc |-> "unregister", auto |-> a, then |-> "register"]]
               ELSE reqs
    /\ UNCHANGED runners

DeleteAutomation(h, a) ==
    /\ BeginRequest(h)
    /\ autos[a].status # "deleted"
    /\ runners' = [runners EXCEPT ![a] = None]
    /\ reqs' = [reqs EXCEPT ![h] = [pc |-> "delete", auto |-> a]]
    /\ UNCHANGED autos

RegisterWorkflow(h) ==
    /\ reqs[h].pc = "register"
    /\ runners' = [runners EXCEPT ![reqs[h].auto] = reqs[h].def]
    /\ reqs' = [reqs EXCEPT ![h] = Idle]
    /\ UNCHANGED <<dbVars, execs, backlog, events, historyVars, budget>>

\* The definition that an update registers is the one it reloaded.
UnregisterWorkflow(h) ==
    /\ reqs[h].pc = "unregister"
    /\ runners' = [runners EXCEPT ![reqs[h].auto] = None]
    /\ reqs' = [reqs EXCEPT ![h] =
                  IF @.then = "idle" THEN Idle
                  ELSE [pc |-> "register", auto |-> @.auto, def |-> autos[@.auto].def]]
    /\ UNCHANGED <<dbVars, execs, backlog, events, historyVars, budget>>

DeleteRow(h) ==
    /\ reqs[h].pc = "delete"
    /\ autos' = [autos EXCEPT ![reqs[h].auto].status = "deleted"]
    /\ reqs' = [reqs EXCEPT ![h] = Idle]
    /\ UNCHANGED <<runs, tags, runners, execs, backlog, events, historyVars, budget>>

-----------------------------------------------------------------------------
(* Entering a workflow *)

Matching(event) == {a \in Automations : runners[a] # None /\ Workflow[runners[a]].event = event}

\* One goroutine per matching runner; all of them start before any of them runs.
TriggerEvent(event, c) ==
    \E start \in [Matching(event) -> {e \in Execs : execs[e] = Idle}] :
        /\ \A a, b \in Matching(event) : a # b => start[a] # start[b]
        /\ execs' = [e \in Walkers |->
               IF \E a \in Matching(event) : start[a] = e
               THEN LET a == CHOOSE x \in Matching(event) : start[x] = e
                    IN  [pc |-> "check", auto |-> a, def |-> runners[a], contact |-> c]
               ELSE execs[e]]

\* AddSubscriber triggers the event itself; a workflow's tag does so in a goroutine.
ContactAdded(c) ==
    /\ Matching("contact_added") # {}
    /\ TriggerEvent("contact_added", c)
    /\ UNCHANGED <<dbVars, runners, backlog, events, reqs, historyVars, budget>>

TagEvent(c) ==
    /\ c \in events
    /\ TriggerEvent("tag_added", c)
    /\ events' = events \ {c}
    /\ UNCHANGED <<dbVars, runners, backlog, reqs, historyVars, budget>>

\* Mutant: a contact of any organisation.
MayEnterAnyContact(a, d, c) == TriggerNodes(d) # {}

\* EnterContact, up to the two queries: a waiting run does not count as inside.
MayEnter(a, d, c) ==
    /\ c \in Contacts
    /\ \/ Workflow[d].reentry
       \/ \A r \in Runs : runs[r] # None /\ runs[r].auto = a /\ runs[r].contact = c
              => runs[r].status \notin {"active", "completed"}
    /\ TriggerNodes(d) # {}

CheckEntry(e) ==
    /\ execs[e].pc = "check"
    /\ execs' = [execs EXCEPT ![e] =
          IF MayEnter(@.auto, @.def, @.contact) THEN [@ EXCEPT !.pc = "create"] ELSE Idle]
    /\ UNCHANGED <<dbVars, runners, backlog, events, reqs, historyVars, budget>>

CreateRun(e) ==
    /\ execs[e].pc = "create"
    /\ \E r \in Runs, n \in TriggerNodes(execs[e].def) :
        LET row == [auto |-> execs[e].auto, contact |-> execs[e].contact, node |-> n,
                    status |-> "active", next |-> "none", errors |-> 0]
        IN  /\ runs[r] = None
            /\ runs' = [runs EXCEPT ![r] = row]
            /\ execs' = [execs EXCEPT ![e] = [pc |-> "exec", def |-> @.def, run |-> r,
                                              row |-> row, todo |-> <<>>, result |-> ""]]
    /\ UNCHANGED <<autos, tags, runners, backlog, events, reqs, historyVars, budget>>

\* A database error; it also stands for the bound on the rows.
CreateFails(e) ==
    /\ execs[e].pc = "create"
    /\ execs' = [execs EXCEPT ![e] = Idle]
    /\ UNCHANGED <<dbVars, runners, backlog, events, reqs, historyVars, budget>>

-----------------------------------------------------------------------------
(* Walking the graph *)

Save(e, row) == runs' = [runs EXCEPT ![execs[e].run] = row]

\* The node's effect and its result; "failed" stands for an error.
Finish(e, row, result) ==
    execs' = [execs EXCEPT ![e] = [@ EXCEPT !.pc = "settle", !.row = row, !.result = result]]

\* Errors of the outside world: mail, webhook, a row that is gone.
MayFail ==
    /\ budget.failures < MaxNodeErrors
    /\ budget' = [budget EXCEPT !.failures = @ + 1]

\* A tag that the contact has is a duplicate key.
AddTag(e, c) ==
    \/ /\ c \notin tags
       /\ tags' = tags \cup {c}
       /\ events' = events \cup {c}
       /\ Finish(e, execs[e].row, "")
    \/ /\ c \in tags
       /\ Finish(e, execs[e].row, "failed")
       /\ UNCHANGED <<tags, events>>

RemoveTag(e, c) ==
    /\ tags' = tags \ {c}
    /\ Finish(e, execs[e].row, "")
    /\ UNCHANGED events

\* Mutant: the time is not stored.
DelayNoTimestamp(e) ==
    LET row == [execs[e].row EXCEPT !.status = "waiting"]
    IN  Save(e, row) /\ Finish(e, row, "")

\* A delay saves the row as waiting and is then over; an unreadable date is past.
Delay(e) ==
    \E next \in {"future", "past"} :
        LET row == [execs[e].row EXCEPT !.status = "waiting", !.next = next]
        IN  Save(e, row) /\ Finish(e, row, "")

OtherNode(e, kind) ==
    /\ \/ /\ kind # "unknown"
          /\ \E b \in BranchChoices(kind, execs[e].run) : Finish(e, execs[e].row, b)
          /\ UNCHANGED budget
       \/ /\ kind = "unknown" /\ Finish(e, execs[e].row, "failed")
          /\ UNCHANGED budget
       \/ /\ kind \in {"act", "condition"} /\ MayFail
          /\ Finish(e, execs[e].row, "failed")
    /\ UNCHANGED <<tags, events>>

ExecuteNode(e) ==
    LET n    == execs[e].row.node
        kind == Workflow[execs[e].def].kind[n]
        c    == execs[e].row.contact
    IN  /\ execs[e].pc = "exec"
        /\ n \in Workflow[execs[e].def].nodes
        /\ \/ kind = "delay" /\ Delay(e) /\ UNCHANGED <<tags, events, budget>>
           \/ kind = "tag" /\ AddTag(e, c) /\ UNCHANGED <<runs, budget>>
           \/ kind = "untag" /\ RemoveTag(e, c) /\ UNCHANGED <<runs, budget>>
           \/ kind \notin {"delay", "tag", "untag"} /\ OtherNode(e, kind) /\ UNCHANGED runs
        /\ visited' = [visited EXCEPT ![execs[e].run] = @ \cup {n}]
        /\ UNCHANGED <<autos, runners, backlog, reqs, branched>>

\* A run that comes back may stand at a node its new definition does not have.
NodeNotFound(e) ==
    /\ execs[e].pc = "exec"
    /\ execs[e].row.node \notin Workflow[execs[e].def].nodes
    /\ execs' = [execs EXCEPT ![e].pc = "next"]
    /\ UNCHANGED <<dbVars, runners, backlog, events, reqs, historyVars, budget>>

\* The error count is saved with the third error, or with a later node.
SettleError(e) ==
    LET errors == execs[e].row.errors + 1
        row == [execs[e].row EXCEPT !.errors = errors,
                                    !.status = IF errors >= 3 THEN "failed" ELSE @]
    IN  /\ execs[e].pc = "settle" /\ execs[e].result = "failed"
        /\ execs' = [execs EXCEPT ![e] = [@ EXCEPT !.pc = "next", !.row = row]]
        /\ IF errors >= 3 THEN Save(e, row) ELSE UNCHANGED runs
        /\ UNCHANGED <<autos, tags, runners, backlog, events, reqs, historyVars, budget>>

\* The next nodes go on the stack; where there are none, the run is complete.
SettleResult(e) ==
    LET n     == execs[e].row.node
        taken == EdgesFollowed(execs[e].def, n, execs[e].result)
        done  == [execs[e].row EXCEPT !.status = "completed"]
    IN  /\ execs[e].pc = "settle" /\ execs[e].result # "failed"
        /\ branched' = [branched EXCEPT ![execs[e].run] = @ \cup {<<n, execs[e].result>>}]
        /\ \/ /\ taken = {}
              /\ Save(e, done)
              /\ execs' = [execs EXCEPT ![e] = [@ EXCEPT !.pc = "next", !.row = done]]
           \/ /\ taken # {}
              /\ \E next \in NextNodes(execs[e].def, taken) :
                    execs' = [execs EXCEPT ![e] = [@ EXCEPT !.pc = "next", !.todo = next \o execs[e].todo]]
              /\ UNCHANGED runs
        /\ UNCHANGED <<autos, tags, runners, backlog, events, reqs, visited, budget>>

\* The loop over the next nodes goes on after an error or a completed branch.
VisitNext(e) ==
    LET row == [execs[e].row EXCEPT !.node = Head(execs[e].todo)]
    IN  /\ execs[e].pc = "next" /\ execs[e].todo # <<>>
        /\ Save(e, row)
        /\ execs' = [execs EXCEPT ![e] =
                       [@ EXCEPT !.pc = "exec", !.row = row, !.todo = Tail(execs[e].todo)]]
        /\ UNCHANGED <<autos, tags, runners, backlog, events, reqs, historyVars, budget>>

WalkEnds(e) ==
    /\ execs[e].pc = "next" /\ execs[e].todo = <<>>
    /\ execs' = [execs EXCEPT ![e] = Idle]
    /\ UNCHANGED <<dbVars, runners, backlog, events, reqs, historyVars, budget>>

Walk(e) ==
    \/ CheckEntry(e) \/ CreateRun(e) \/ CreateFails(e)
    \/ ExecuteNode(e) \/ NodeNotFound(e)
    \/ SettleError(e) \/ SettleResult(e)
    \/ VisitNext(e) \/ WalkEnds(e)

-----------------------------------------------------------------------------
(* The two schedulers *)

\* A copy grows old with its row.
TimePasses(r) ==
    /\ Waiting(r) /\ runs[r].next = "future"
    /\ runs' = [runs EXCEPT ![r].next = "past"]
    /\ execs' = [e \in Walkers |->
           IF execs[e].pc \in {"exec", "settle", "next"} /\ execs[e].run = r
           THEN [execs[e] EXCEPT !.row.next = IF @ = "future" THEN "past" ELSE @]
           ELSE execs[e]]
    /\ UNCHANGED <<autos, tags, runners, backlog, events, reqs, historyVars, budget>>

ContinueRun(e, r, row) ==
    execs' = [execs EXCEPT ![e] = [pc |-> "exec", def |-> runners[row.auto], run |-> r,
                                   row |-> row, todo |-> <<>>, result |-> ""]]

\* processDelayedActions, every 10 seconds: a goroutine for each due row.
ProcessDue(e, r) ==
    /\ execs[e] = Idle
    /\ Due(r)
    /\ runners[runs[r].auto] # None
    /\ ContinueRun(e, r, runs[r])
    /\ UNCHANGED <<dbVars, runners, backlog, events, reqs, historyVars, budget>>

\* ProcessDelayedActions, every 30 seconds: the due rows, read once.
ReadDue ==
    /\ backlog = <<>> /\ execs[MainExec] = Idle
    /\ \E s \in [1..Cardinality({r \in Runs : Due(r)}) -> {r \in Runs : Due(r)}] :
        /\ Len(s) > 0
        /\ \A i, j \in DOMAIN s : i # j => s[i] # s[j]
        /\ backlog' = [i \in DOMAIN s |-> [run |-> s[i], row |-> runs[s[i]]]]
    /\ UNCHANGED <<dbVars, runners, execs, events, reqs, historyVars, budget>>

\* One after the other, in the scheduler's own goroutine.
ContinueNext ==
    /\ execs[MainExec] = Idle
    /\ backlog # <<>>
    /\ IF runners[Head(backlog).row.auto] = None
       THEN UNCHANGED execs
       ELSE ContinueRun(MainExec, Head(backlog).run, Head(backlog).row)
    /\ backlog' = Tail(backlog)
    /\ UNCHANGED <<dbVars, runners, events, reqs, historyVars, budget>>

\* The process dies at any step; Start loads the active automations.
CrashAndRestart ==
    /\ budget.crashes < MaxCrashes
    /\ budget' = [budget EXCEPT !.crashes = @ + 1]
    /\ runners' = [a \in Automations |->
                     IF autos[a].status = "active" THEN autos[a].def ELSE None]
    /\ execs' = [e \in Walkers |-> Idle]
    /\ reqs' = [h \in Handlers |-> Idle]
    /\ backlog' = <<>>
    /\ events' = {}
    /\ UNCHANGED <<dbVars, historyVars>>

-----------------------------------------------------------------------------
Request(h) ==
    \/ \E a \in Automations :
           \/ ActivateAutomation(h, a) \/ PauseAutomation(h, a)
           \/ UpdateAutomation(h, a) \/ DeleteAutomation(h, a)
    \/ RegisterWorkflow(h) \/ UnregisterWorkflow(h) \/ DeleteRow(h)

Next ==
    \/ \E h \in Handlers : Request(h)
    \/ \E c \in AllContacts : ContactAdded(c) \/ TagEvent(c)
    \/ \E e \in Walkers : Walk(e)
    \/ \E r \in Runs : TimePasses(r) \/ \E e \in Execs : ProcessDue(e, r)
    \/ ReadDue \/ ContinueNext
    \/ CrashAndRestart

Spec == Init /\ [][Next]_vars

\* Goroutines run, time passes, and the engine's ticker keeps ticking.
FairSpec ==
    /\ Spec
    /\ \A e \in Walkers : WF_vars(Walk(e))
    /\ \A c \in AllContacts : WF_vars(TagEvent(c))
    /\ \A r \in Runs : WF_vars(TimePasses(r)) /\ SF_vars(\E e \in Execs : ProcessDue(e, r))

-----------------------------------------------------------------------------
(* Properties *)

RunRow == [auto : Automations, contact : Contacts, node : Nodes,
           status : {"active", "waiting", "completed", "failed"},
           next : {"none", "future", "past"}, errors : Nat]

WalkState ==
    [pc : {"check", "create"}, auto : Automations, def : Definitions, contact : AllContacts]
    \cup [pc : {"exec", "settle", "next"}, def : Definitions, run : Runs, row : RunRow,
          todo : Seq(Nodes), result : Branches \cup {"failed"}]

RequestState ==
    [pc : {"register"}, auto : Automations, def : Definitions]
    \cup [pc : {"unregister"}, auto : Automations, then : {"idle", "register"}]
    \cup [pc : {"delete"}, auto : Automations]

TypeOK ==
    /\ autos \in [Automations ->
            [status : {"draft", "active", "paused", "deleted"}, def : Definitions]]
    /\ runs \in [Runs -> RunRow \cup {None}]
    /\ tags \subseteq AllContacts
    /\ runners \in [Automations -> Definitions \cup {None}]
    /\ execs \in [Walkers -> WalkState \cup {Idle}]
    /\ backlog \in Seq([run : Runs, row : RunRow])
    /\ events \subseteq AllContacts
    /\ reqs \in [Handlers -> RequestState \cup {Idle}]
    /\ visited \in [Runs -> SUBSET Nodes]
    /\ branched \in [Runs -> SUBSET (Nodes \X Branches)]
    /\ budget \in [requests : Nat, failures : Nat, crashes : Nat]

(***************************************************************************)
(* With one request at a time, the engine runs exactly the automations     *)
(* whose row is active, and runs the definition in the row: activate,      *)
(* pause, update and delete each change the row and the engine in two or   *)
(* three steps, and a restart may fall between them.                       *)
(***************************************************************************)
RunnersMatchRows ==
    \A a \in Automations :
        (\A h \in Handlers : reqs[h] # Idle => reqs[h].auto # a) =>
            runners[a] = IF autos[a].status = "active" THEN autos[a].def ELSE None

(***************************************************************************)
(* An A/B split sends a run down one branch for good ("deterministic",     *)
(* executeABSplit), although two schedulers and a restart may execute the  *)
(* split of the same run several times.                                    *)
(***************************************************************************)
SplitIsStable ==
    \A r \in Runs : ~ \E n \in Nodes : {<<n, "A">>, <<n, "B">>} \subseteq branched[r]

(***************************************************************************)
(* A run executes a node only if it is a trigger or if an edge leads there *)
(* from a node that the run executed, by the branch that node chose: also  *)
(* when the run is continued by another goroutine, from an old copy, after *)
(* a restart or under a new definition.                                    *)
(***************************************************************************)
WalkFollowsEdges ==
    \A r \in Runs : \A n \in visited[r] :
        \E d \in Definitions :
            /\ n \in Workflow[d].nodes
            /\ \/ Workflow[d].kind[n] = "trigger"
               \/ \E i \in 1..Len(Workflow[d].edges) :
                    LET edge == Workflow[d].edges[i]
                    IN  /\ edge.target = n
                        /\ edge.source \in visited[r]
                        /\ edge.handle # "" => <<edge.source, edge.handle>> \in branched[r]

\* A run walks one way through the graph.
WalkSound == WalkFollowsEdges /\ SplitIsStable

(***************************************************************************)
(* A run that waits is picked up: it moves on, or its node fails once more *)
(* (a failing node is retried for ever, for its error count is not saved), *)
(* unless its automation is switched off or no longer has the node where   *)
(* the run stands.                                                         *)
(***************************************************************************)
Stranded(r) ==
    \/ runners[runs[r].auto] = None
    \/ runs[r].node \notin Workflow[runners[runs[r].auto]].nodes

FailsAgain(r) ==
    \E e \in Walkers : execs[e].pc = "settle" /\ execs[e].run = r /\ execs[e].result = "failed"

WaitingRunsResume ==
    \A r \in Runs : Waiting(r) ~> (~Waiting(r) \/ Stranded(r) \/ FailsAgain(r))

(***************************************************************************)
(* docs/ARCHITECTURE.md: "Nodes that require waiting (delay nodes) store a *)
(* NextActionAt timestamp. The background scheduler picks up runs whose    *)
(* NextActionAt has passed and resumes them."  So no node of a run is      *)
(* executed while its row waits for a time to come.                        *)
(***************************************************************************)
DelayHolds ==
    [][\A r \in Runs : Waiting(r) /\ runs[r].next = "future" => visited'[r] = visited[r]]_vars
=============================================================================
