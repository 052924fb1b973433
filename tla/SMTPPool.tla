------------------------------ MODULE SMTPPool ------------------------------
(***************************************************************************)
(* The pool of SMTP connections, src/internal/core/smtp_pool.go, with the  *)
(* goroutines that send through it (SendEmail), its health checker and     *)
(* Close.  The mutex protects the slice `connections`; the channel         *)
(* `available`, the flag inUse and the connections themselves are used     *)
(* without it, so a step is one critical section, one channel operation or *)
(* one exchange with the server.  The health checker keeps the mutex while *)
(* it talks to the server.  A dial goes through the circuit breaker of     *)
(* CircuitBreaker.tla, which here is one more reason why it may fail.      *)
(***************************************************************************)
EXTENDS Integers, Sequences, FiniteSets

CONSTANTS
    Users,           \* goroutines that call SendEmail
    Conns,           \* bound: connections that exist at one time
    MaxConnections,
    MinConnections,
    MaxHangups,      \* bound: connections that the server or idleness spoils
    NoConn           \* absence of a connection

ASSUME PoolAssumption ==
    /\ IsFiniteSet(Users) /\ IsFiniteSet(Conns)
    /\ NoConn \notin Conns
    /\ MinConnections \in Nat /\ MaxConnections \in Nat \ {0} /\ MaxHangups \in Nat
    /\ MinConnections <= MaxConnections

VARIABLES
    connections,   \* the counted connections, in order
    available,     \* the channel of idle connections
    conn,          \* what became of each connection
    inUse,         \* the flag that the health checker looks at
    user,          \* each SendEmail: where it is and the connection it has
    checker,       \* the health checker's loop
    closing,       \* Close: "no", "flagged", "done"
    hangups,       \* connections spoiled so far
    spilled        \* history: connections the health checker dialled with the channel full

poolVars ==
    <<connections, available, conn, inUse, user, checker, closing, hangups, spilled>>

Away == [pc |-> "idle", c |-> NoConn]
Elements(s) == {s[i] : i \in DOMAIN s}
Held == {user[u].c : u \in Users} \ {NoConn}
Scanned == IF checker.pc = "scan" THEN Elements(checker.slice) \cup Elements(checker.healthy) ELSE {}
Referenced == Elements(connections) \cup Elements(available) \cup Held \cup Scanned

\* Names of connections that nothing refers to any more.
Fresh == {c \in Conns : conn[c] = "closed" /\ c \notin Referenced}

Unlocked == checker.pc \notin {"scan", "refill"}
isHealthy(c) == conn[c] = "open"

\* closeConnectionLocked takes out the first occurrence.
Without(s, c) ==
    IF c \notin Elements(s) THEN s
    ELSE LET i == CHOOSE i \in DOMAIN s : s[i] = c /\ \A j \in 1..(i - 1) : s[j] # c
         IN  SubSeq(s, 1, i - 1) \o SubSeq(s, i + 1, Len(s))

CloseConnection(c) ==
    /\ conn' = [conn EXCEPT ![c] = "closed"]
    /\ connections' = Without(connections, c)

Goto(u, pc, c) == user' = [user EXCEPT ![u] = [pc |-> pc, c |-> c]]
At(u, pc) == user[u].pc = pc

\* NewSMTPPool goes on when an initial dial fails.
PoolInit ==
    /\ \E n \in 0..MinConnections :
        \E s \in [1..n -> Conns] :
            /\ Cardinality(Elements(s)) = n
            /\ connections = s
            /\ available = s
            /\ conn = [c \in Conns |-> IF c \in Elements(s) THEN "open" ELSE "closed"]
    /\ inUse = [c \in Conns |-> FALSE]
    /\ user = [u \in Users |-> Away]
    /\ checker = [pc |-> "idle"]
    /\ closing = "no"
    /\ hangups = 0
    /\ spilled = {}

-----------------------------------------------------------------------------
(* Get *)

GetFromPool(u) ==
    /\ At(u, "idle") /\ Unlocked
    /\ closing = "no"
    /\ Goto(u, "select", NoConn)
    /\ UNCHANGED <<connections, available, conn, inUse, checker, closing, hangups, spilled>>

\* Mutant: the nil of a closed channel is tested like a connection.
ReceiveNil(u) ==
    /\ user[u].pc \in {"select", "wait"}
    /\ \/ /\ available # <<>>
          /\ available' = Tail(available)
          /\ Goto(u, "test", Head(available))
       \/ /\ available = <<>> /\ closing = "done"
          /\ Goto(u, "test", NoConn)
          /\ UNCHANGED available
    /\ UNCHANGED <<connections, conn, inUse, checker, closing, hangups, spilled>>

\* A receive from the closed channel gives nil, and isHealthy(nil) panics.
Receive(u) ==
    /\ user[u].pc \in {"select", "wait"}
    /\ \/ /\ available # <<>>
          /\ available' = Tail(available)
          /\ Goto(u, "test", Head(available))
       \/ /\ available = <<>> /\ closing = "done"
          /\ Goto(u, "panic", NoConn)
          /\ UNCHANGED available
    /\ UNCHANGED <<connections, conn, inUse, checker, closing, hangups, spilled>>

SelectDefault(u) ==
    /\ At(u, "select")
    /\ available = <<>> /\ closing # "done"
    /\ Goto(u, "create", NoConn)
    /\ UNCHANGED <<connections, available, conn, inUse, checker, closing, hangups, spilled>>

TestReceived(u) ==
    /\ At(u, "test")
    /\ Goto(u, IF isHealthy(user[u].c) THEN "mark" ELSE "drop", user[u].c)
    /\ UNCHANGED <<connections, available, conn, inUse, checker, closing, hangups, spilled>>

MarkInUse(u) ==
    /\ At(u, "mark")
    /\ inUse' = [inUse EXCEPT ![user[u].c] = TRUE]
    /\ Goto(u, "using", user[u].c)
    /\ UNCHANGED <<connections, available, conn, checker, closing, hangups, spilled>>

DropReceived(u) ==
    /\ At(u, "drop") /\ Unlocked
    /\ CloseConnection(user[u].c)
    /\ Goto(u, "create", NoConn)
    /\ UNCHANGED <<available, inUse, checker, closing, hangups, spilled>>

-----------------------------------------------------------------------------
(* createAndReturn: the mutex is released while the server is dialled *)

CheckCapacity(u) ==
    /\ At(u, "create") /\ Unlocked
    /\ Goto(u, IF Len(connections) >= MaxConnections THEN "wait" ELSE "dial", NoConn)
    /\ UNCHANGED <<connections, available, conn, inUse, checker, closing, hangups, spilled>>

\* Also the circuit breaker may refuse.
DialFails(u) ==
    /\ At(u, "dial")
    /\ Goto(u, "idle", NoConn)
    /\ UNCHANGED <<connections, available, conn, inUse, checker, closing, hangups, spilled>>

DialSucceeds(u) ==
    /\ At(u, "dial")
    /\ \E c \in Fresh :
        /\ conn' = [conn EXCEPT ![c] = "open"]
        /\ inUse' = [inUse EXCEPT ![c] = FALSE]
        /\ spilled' = spilled \ {c}
        /\ Goto(u, "add", c)
    /\ UNCHANGED <<connections, available, checker, closing, hangups>>

\* Mutant: the connection that lost the race is forgotten.
AddConnectionForgets(u) ==
    /\ At(u, "add") /\ Unlocked
    /\ IF Len(connections) >= MaxConnections
       THEN /\ Goto(u, "wait", NoConn)
            /\ UNCHANGED <<connections, conn, inUse>>
       ELSE /\ connections' = Append(connections, user[u].c)
            /\ inUse' = [inUse EXCEPT ![user[u].c] = TRUE]
            /\ Goto(u, "using", user[u].c)
            /\ UNCHANGED conn
    /\ UNCHANGED <<available, checker, closing, hangups, spilled>>

\* Mutant: the limit is not checked again after the dial.
AddConnectionUnchecked(u) ==
    /\ At(u, "add") /\ Unlocked
    /\ connections' = Append(connections, user[u].c)
    /\ inUse' = [inUse EXCEPT ![user[u].c] = TRUE]
    /\ Goto(u, "using", user[u].c)
    /\ UNCHANGED <<available, conn, checker, closing, hangups, spilled>>

AddConnection(u) ==
    /\ At(u, "add") /\ Unlocked
    /\ IF Len(connections) >= MaxConnections
       THEN /\ conn' = [conn EXCEPT ![user[u].c] = "closed"]
            /\ Goto(u, "wait", NoConn)
            /\ UNCHANGED <<connections, inUse>>
       ELSE /\ connections' = Append(connections, user[u].c)
            /\ inUse' = [inUse EXCEPT ![user[u].c] = TRUE]
            /\ Goto(u, "using", user[u].c)
            /\ UNCHANGED conn
    /\ UNCHANGED <<available, checker, closing, hangups, spilled>>

\* ErrPoolExhausted after five seconds.
WaitTimesOut(u) ==
    /\ At(u, "wait")
    /\ Goto(u, "idle", NoConn)
    /\ UNCHANGED <<connections, available, conn, inUse, checker, closing, hangups, spilled>>

-----------------------------------------------------------------------------
(* SendEmail: a connection that fails the reset is marked bad; then, and in *)
(* every other case, the deferred Put gives it back.                        *)

UseSucceeds(u) ==
    /\ At(u, "using")
    /\ Goto(u, "put", user[u].c)
    /\ UNCHANGED <<connections, available, conn, inUse, checker, closing, hangups, spilled>>

MarkBad(u) ==
    /\ At(u, "using") /\ ~isHealthy(user[u].c) /\ Unlocked
    /\ CloseConnection(user[u].c)
    /\ Goto(u, "put", user[u].c)
    /\ UNCHANGED <<available, inUse, checker, closing, hangups, spilled>>

Put(u) ==
    /\ At(u, "put") /\ Unlocked
    /\ IF closing # "no"
       THEN CloseConnection(user[u].c) /\ Goto(u, "idle", NoConn)
       ELSE Goto(u, "unmark", user[u].c) /\ UNCHANGED <<connections, conn>>
    /\ UNCHANGED <<available, inUse, checker, closing, hangups, spilled>>

PutUnmarks(u) ==
    /\ At(u, "unmark")
    /\ inUse' = [inUse EXCEPT ![user[u].c] = FALSE]
    /\ Goto(u, "send", user[u].c)
    /\ UNCHANGED <<connections, available, conn, checker, closing, hangups, spilled>>

\* Mutant: the connection goes to the channel and is still used.
PutSendsEarly(u) ==
    /\ At(u, "send") /\ closing # "done"
    /\ Len(available) < MaxConnections
    /\ available' = Append(available, user[u].c)
    /\ Goto(u, "using", user[u].c)
    /\ UNCHANGED <<connections, conn, inUse, checker, closing, hangups, spilled>>

\* A send on the channel that Close has closed meanwhile panics.
PutSends(u) ==
    /\ At(u, "send")
    /\ \/ /\ closing = "done"
          /\ Goto(u, "panic", NoConn)
          /\ UNCHANGED available
       \/ /\ closing # "done" /\ Len(available) < MaxConnections
          /\ available' = Append(available, user[u].c)
          /\ Goto(u, "idle", NoConn)
       \/ /\ closing # "done" /\ Len(available) >= MaxConnections
          /\ Goto(u, "overflow", user[u].c)
          /\ UNCHANGED available
    /\ UNCHANGED <<connections, conn, inUse, checker, closing, hangups, spilled>>

PutOverflows(u) ==
    /\ At(u, "overflow") /\ Unlocked
    /\ CloseConnection(user[u].c)
    /\ Goto(u, "idle", NoConn)
    /\ UNCHANGED <<available, inUse, checker, closing, hangups, spilled>>

-----------------------------------------------------------------------------
(* The health checker.  The range statement walks the array that the slice *)
(* had at first, and closing a connection shifts that array under it: the  *)
(* next element is skipped and the last one is seen twice.                 *)

BeginCheck ==
    /\ checker.pc = "idle"
    /\ checker' = [pc |-> "scan", i |-> 1, slice |-> connections, healthy |-> <<>>]
    /\ UNCHANGED <<connections, available, conn, inUse, user, closing, hangups, spilled>>

\* connections is the part of the array that is still counted.
ShiftOut(slice, counted, c) ==
    LET rest == Without(counted, c)
    IN  [i \in DOMAIN slice |-> IF i <= Len(rest) THEN rest[i] ELSE slice[i]]

CheckNext ==
    /\ checker.pc = "scan" /\ checker.i <= Len(checker.slice)
    /\ LET c == checker.slice[checker.i]
       IN  \/ /\ inUse[c] \/ isHealthy(c)
              /\ checker' = [checker EXCEPT !.i = @ + 1, !.healthy = Append(@, c)]
              /\ UNCHANGED <<connections, conn>>
           \/ /\ ~inUse[c] /\ ~isHealthy(c)
              /\ CloseConnection(c)
              /\ checker' = [checker EXCEPT !.i = @ + 1, !.slice = ShiftOut(@, connections, c)]
    /\ UNCHANGED <<available, inUse, user, closing, hangups, spilled>>

EndCheck ==
    /\ checker.pc = "scan" /\ checker.i > Len(checker.slice)
    /\ connections' = checker.healthy
    /\ checker' = [pc |-> "refill"]
    /\ UNCHANGED <<available, conn, inUse, user, closing, hangups, spilled>>

\* A connection that does not fit in the channel is only counted.
Refill ==
    /\ checker.pc = "refill" /\ Len(connections) < MinConnections
    /\ \E c \in Fresh :
        /\ conn' = [conn EXCEPT ![c] = "open"]
        /\ inUse' = [inUse EXCEPT ![c] = FALSE]
        /\ connections' = Append(connections, c)
        /\ IF Len(available) < MaxConnections
           THEN available' = Append(available, c) /\ spilled' = spilled \ {c}
           ELSE spilled' = spilled \cup {c} /\ UNCHANGED available
    /\ UNCHANGED <<user, checker, closing, hangups>>

\* Enough connections, or a dial that failed.
EndRefill ==
    /\ checker.pc = "refill"
    /\ checker' = [pc |-> "idle"]
    /\ UNCHANGED <<connections, available, conn, inUse, user, closing, hangups, spilled>>

Check == BeginCheck \/ CheckNext \/ EndCheck \/ Refill \/ EndRefill

-----------------------------------------------------------------------------
(* Close, and the server *)

FlagClosed ==
    /\ closing = "no" /\ Unlocked
    /\ closing' = "flagged"
    /\ UNCHANGED <<connections, available, conn, inUse, user, checker, hangups, spilled>>

StopChecker ==
    /\ closing = "flagged" /\ checker.pc = "idle"
    /\ checker' = [pc |-> "stopped"]
    /\ UNCHANGED <<connections, available, conn, inUse, user, closing, hangups, spilled>>

CloseAll ==
    /\ closing = "flagged" /\ checker.pc = "stopped"
    /\ conn' = [c \in Conns |-> IF c \in Elements(connections) THEN "closed" ELSE conn[c]]
    /\ connections' = <<>>
    /\ closing' = "done"
    /\ UNCHANGED <<available, inUse, user, checker, hangups, spilled>>

\* The server hangs up, or the connection has been idle for too long.
GoesStale(c) ==
    /\ conn[c] = "open" /\ hangups < MaxHangups
    /\ conn' = [conn EXCEPT ![c] = "stale"]
    /\ hangups' = hangups + 1
    /\ UNCHANGED <<connections, available, inUse, user, checker, closing, spilled>>

-----------------------------------------------------------------------------
Send(u) ==
    \/ Receive(u) \/ SelectDefault(u) \/ TestReceived(u) \/ MarkInUse(u) \/ DropReceived(u)
    \/ CheckCapacity(u) \/ DialFails(u) \/ DialSucceeds(u) \/ AddConnection(u) \/ WaitTimesOut(u)
    \/ UseSucceeds(u) \/ MarkBad(u)
    \/ Put(u) \/ PutUnmarks(u) \/ PutSends(u) \/ PutOverflows(u)

PoolNext ==
    \/ \E u \in Users : GetFromPool(u) \/ Send(u)
    \/ Check
    \/ FlagClosed \/ StopChecker \/ CloseAll
    \/ \E c \in Conns : GoesStale(c)

PoolSpec == PoolInit /\ [][PoolNext]_poolVars

-----------------------------------------------------------------------------
UserStates ==
    [pc : {"idle", "select", "create", "wait", "dial", "panic"}, c : {NoConn}]
    \cup [pc : {"test", "mark", "drop", "add", "using", "put", "unmark", "send", "overflow"},
          c : Conns]

PoolTypeOK ==
    /\ connections \in Seq(Conns)
    /\ available \in Seq(Conns)
    /\ conn \in [Conns -> {"open", "stale", "closed"}]
    /\ inUse \in [Conns -> BOOLEAN]
    /\ user \in [Users -> UserStates]
    /\ checker \in [pc : {"idle", "refill", "stopped"}]
                   \cup [pc : {"scan"}, i : Nat, slice : Seq(Conns), healthy : Seq(Conns)]
    /\ closing \in {"no", "flagged", "done"}
    /\ hangups \in 0..MaxHangups
    /\ spilled \subseteq Conns

(***************************************************************************)
(* A connection is in one hand: two SendEmail calls never have the same    *)
(* one, a connection in the channel is nobody's, and it is there once.     *)
(* SendEmail gives back also the connections that it marked bad, and the   *)
(* health checker puts new ones into the channel beside Put.               *)
(***************************************************************************)
ExclusiveUse ==
    /\ \A u, v \in Users : u # v /\ user[u].c = user[v].c => user[u].c = NoConn
    /\ \A u \in Users : user[u].c \notin Elements(available)
    /\ Cardinality(Elements(available)) = Len(available)

(***************************************************************************)
(* The pool never counts more than MaxConnections, although it dials       *)
(* without the mutex and the health checker dials too.                     *)
(***************************************************************************)
CapacityHolds == Len(connections) <= MaxConnections

(***************************************************************************)
(* Until Close, every connection that is open on our side is in the        *)
(* channel or in the hands of a SendEmail, but those that the health       *)
(* checker dials while the channel is full: they are counted, nobody can   *)
(* take them, and a later check may skip and so forget them.               *)
(***************************************************************************)
NoneLost ==
    closing # "done" =>
        \A c \in Conns \ spilled : conn[c] # "closed" => c \in Elements(available) \cup Held

\* What the pool keeps in every interleaving of Get, Put, Close and the health checker.
PoolSound == ExclusiveUse /\ CapacityHolds /\ NoneLost
=============================================================================
