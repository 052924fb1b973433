--------------------------- MODULE ServicesProofs ---------------------------
(***************************************************************************)
(* What is proved of SMTPPool, JobQueue, DomainLimiter, Migrations and     *)
(* Reports, for any number of callers, connections, workers, jobs,         *)
(* feeders, domains, stops, failures and rows.                             *)
(* None of the properties is inductive: each needs to know what the steps  *)
(* under way have already done and what they are still going to do.        *)
(***************************************************************************)
EXTENDS SMTPPool, JobQueue, DomainLimiter, Migrations, Reports, FiniteSetTheorems, SequenceTheorems,
        WellFoundedInduction, TLAPS

-----------------------------------------------------------------------------
(* SMTPPool *)

\* The health checker keeps at most as many connections as it has looked at.
CheckerSound ==
    checker.pc = "scan" =>
        /\ Len(checker.slice) <= MaxConnections
        /\ Len(checker.healthy) < checker.i
        /\ checker.i <= Len(checker.slice) + 1

PoolInv == PoolTypeOK /\ CheckerSound /\ PoolSound

\* Connections that can be used, now or by the next one who asks.
InHand == Elements(available) \cup Held

-----------------------------------------------------------------------------
LEMMA LeastOf ==
    ASSUME NEW S \in SUBSET Nat, S # {}
    PROVE  \E i \in S : \A j \in S : ~(j < i)
<1>1. \E i \in S : \A j \in S : ~(<<j, i>> \in OpToRel(<, Nat))
  BY NatLessThanWellFounded, WFMin
<1> QED
  BY <1>1 DEF OpToRel

\* What taking out a connection leaves.
LEMMA WithoutShorter ==
    ASSUME NEW s \in Seq(Conns), NEW c
    PROVE  /\ Without(s, c) \in Seq(Conns)
           /\ Len(Without(s, c)) <= Len(s)
<1>1. CASE c \notin Elements(s)
  BY <1>1 DEF Without
<1>2. CASE c \in Elements(s)
  <2> DEFINE First(i) == s[i] = c /\ \A j \in 1..(i - 1) : s[j] # c
             k == CHOOSE i \in DOMAIN s : First(i)
             S == {i \in DOMAIN s : s[i] = c}
  <2>1. S \subseteq Nat /\ S # {}
    BY <1>2 DEF Elements
  <2>2. PICK i \in S : \A j \in S : ~(j < i)
    BY <2>1, LeastOf
  <2>3. i \in DOMAIN s /\ First(i)
    BY <2>2
  <2>4. k \in 1..Len(s)
    <3> HIDE DEF First
    <3> QED BY <2>3
  <2>5. Without(s, c) = SubSeq(s, 1, k - 1) \o SubSeq(s, k + 1, Len(s))
    BY <1>2 DEF Without
  <2> HIDE DEF k
  <2>6. /\ SubSeq(s, 1, k - 1) \in Seq(Conns) /\ Len(SubSeq(s, 1, k - 1)) = k - 1
        /\ SubSeq(s, k + 1, Len(s)) \in Seq(Conns) /\ Len(SubSeq(s, k + 1, Len(s))) = Len(s) - k
    BY <2>4, SubSeqProperties
  <2> DEFINE a == SubSeq(s, 1, k - 1)
             b == SubSeq(s, k + 1, Len(s))
  <2> HIDE DEF a, b
  <2>7. a \in Seq(Conns) /\ Len(a) = k - 1 /\ b \in Seq(Conns) /\ Len(b) = Len(s) - k
    BY <2>6 DEF a, b
  <2>8. a \o b \in Seq(Conns) /\ Len(a \o b) = Len(a) + Len(b)
    BY <2>7, ConcatProperties
  <2>9. Len(s) \in Nat /\ k - 1 + (Len(s) - k) <= Len(s)
    BY <2>4
  <2>10. Without(s, c) = a \o b
    BY <2>5 DEF a, b
  <2> QED BY <2>7, <2>8, <2>9, <2>10
<1> QED
  BY <1>1, <1>2

\* No connection is in the channel twice.
LEMMA OnceIffInjective ==
    ASSUME NEW S, NEW s \in Seq(S)
    PROVE  Cardinality(Elements(s)) = Len(s)
             <=> \A i, j \in DOMAIN s : s[i] = s[j] => i = j
<1> DEFINE D == 1..Len(s)
<1>1. Len(s) \in Nat /\ DOMAIN s = D
  OBVIOUS
<1>2. IsFiniteSet(D) /\ Cardinality(D) = Len(s)
  BY <1>1, FS_Interval
<1>3. s \in Surjection(D, Elements(s))
  BY <1>1 DEF Surjection, Elements
<1>4. Cardinality(Elements(s)) = Len(s) <=> s \in Injection(D, Elements(s))
  BY <1>2, <1>3, FS_Surjection
<1>5. s \in [D -> Elements(s)]
  BY <1>1 DEF Elements
<1> QED
  BY <1>1, <1>4, <1>5 DEF Injection, IsInjective

LEMMA TakeFirst ==
    ASSUME NEW S, NEW s \in Seq(S), s # <<>>
    PROVE  /\ Head(s) \in S /\ Head(s) \in Elements(s) /\ Tail(s) \in Seq(S)
           /\ Elements(s) = Elements(Tail(s)) \cup {Head(s)}
           /\ Cardinality(Elements(s)) = Len(s) =>
                /\ Head(s) \notin Elements(Tail(s))
                /\ Cardinality(Elements(Tail(s))) = Len(Tail(s))
<1>1. /\ Head(s) = s[1] /\ 1 \in DOMAIN s /\ Tail(s) \in Seq(S)
      /\ Len(Tail(s)) = Len(s) - 1 /\ Len(s) \in Nat /\ Len(s) > 0
      /\ \A i \in DOMAIN Tail(s) : i + 1 \in DOMAIN s /\ Tail(s)[i] = s[i + 1]
  BY HeadTailProperties, EmptySeq
<1>2. Elements(s) = Elements(Tail(s)) \cup {Head(s)}
  <2>1. ASSUME NEW i \in DOMAIN s
        PROVE  s[i] \in Elements(Tail(s)) \cup {Head(s)}
    <3>1. CASE i = 1
      BY <1>1, <3>1
    <3>2. CASE i # 1
      <4>1. i - 1 \in DOMAIN Tail(s) /\ Tail(s)[i - 1] = s[i]
        BY <1>1, <3>2
      <4> QED BY <4>1 DEF Elements
    <3> QED BY <3>1, <3>2
  <2>2. Elements(Tail(s)) \subseteq Elements(s)
    BY <1>1 DEF Elements
  <2>3. Head(s) \in Elements(s)
    BY <1>1 DEF Elements
  <2>4. Elements(s) \subseteq Elements(Tail(s)) \cup {Head(s)}
    BY <2>1 DEF Elements
  <2> QED BY <2>2, <2>3, <2>4
<1>3. ASSUME Cardinality(Elements(s)) = Len(s)
      PROVE  Head(s) \notin Elements(Tail(s)) /\ Cardinality(Elements(Tail(s))) = Len(Tail(s))
  <2>1. \A i, j \in DOMAIN s : s[i] = s[j] => i = j
    BY <1>3, OnceIffInjective
  <2>2. \A i, j \in DOMAIN Tail(s) : Tail(s)[i] = Tail(s)[j] => i = j
    BY <1>1, <2>1
  <2>3. Head(s) \notin Elements(Tail(s))
    BY <1>1, <2>1 DEF Elements
  <2> QED BY <1>1, <2>2, <2>3, OnceIffInjective
<1>4. Head(s) \in S
  BY <1>1
<1> QED
  BY <1>1, <1>2, <1>3, <1>4

LEMMA PutLast ==
    ASSUME NEW S, NEW s \in Seq(S), NEW c \in S
    PROVE  /\ Append(s, c) \in Seq(S) /\ Len(Append(s, c)) = Len(s) + 1
           /\ Elements(Append(s, c)) = Elements(s) \cup {c}
           /\ Cardinality(Elements(s)) = Len(s) /\ c \notin Elements(s) =>
                Cardinality(Elements(Append(s, c))) = Len(Append(s, c))
<1> DEFINE t == Append(s, c)
<1>1. /\ t \in Seq(S) /\ Len(t) = Len(s) + 1 /\ Len(s) \in Nat
      /\ \A i \in DOMAIN s : i \in DOMAIN t /\ t[i] = s[i]
      /\ t[Len(s) + 1] = c /\ Len(s) + 1 \in DOMAIN t
      /\ \A i \in DOMAIN t : i \in DOMAIN s \/ i = Len(s) + 1
  BY AppendProperties
<1> HIDE DEF t
<1>2. Elements(t) = Elements(s) \cup {c}
  BY <1>1 DEF Elements
<1>3. ASSUME Cardinality(Elements(s)) = Len(s), c \notin Elements(s)
      PROVE  Cardinality(Elements(t)) = Len(t)
  <2>1. \A i, j \in DOMAIN s : s[i] = s[j] => i = j
    BY <1>3, OnceIffInjective
  <2>2. \A i \in DOMAIN s : s[i] # c
    BY <1>3 DEF Elements
  <2>3. \A i, j \in DOMAIN t : t[i] = t[j] => i = j
    BY <1>1, <2>1, <2>2
  <2> QED BY <1>1, <2>3, OnceIffInjective
<1> QED
  BY <1>1, <1>2, <1>3 DEF t

-----------------------------------------------------------------------------
(* The steps of a SendEmail *)

EmptyHanded == {"idle", "select", "create", "wait", "dial", "panic"}
Holding == {"test", "mark", "drop", "add", "using", "put", "unmark", "send", "overflow"}

LEMMA UserState ==
    ASSUME PoolTypeOK, NEW u \in Users
    PROVE  /\ user[u].pc \in EmptyHanded => user[u].c = NoConn
           /\ user[u].pc \in Holding => user[u].c \in Conns
           /\ user[u].pc \in EmptyHanded \cup Holding
           /\ NoConn \notin Conns
BY PoolAssumption DEF PoolTypeOK, UserStates, EmptyHanded, Holding

LEMMA GotoEmpty ==
    ASSUME PoolTypeOK, NEW u \in Users, NEW pc \in EmptyHanded, Goto(u, pc, NoConn)
    PROVE  user' \in [Users -> UserStates]
<1>1. [pc |-> pc, c |-> NoConn] \in UserStates
  BY DEF UserStates, EmptyHanded
<1> QED
  BY <1>1 DEF Goto, PoolTypeOK

LEMMA GotoHolding ==
    ASSUME PoolTypeOK, NEW u \in Users, NEW pc \in Holding, NEW c \in Conns, Goto(u, pc, c)
    PROVE  user' \in [Users -> UserStates]
<1>1. [pc |-> pc, c |-> c] \in UserStates
  BY DEF UserStates, Holding
<1> QED
  BY <1>1 DEF Goto, PoolTypeOK

\* Where the connections are after a step to c.
LEMMA GotoHands ==
    ASSUME PoolTypeOK, NEW u \in Users, NEW pc, NEW c, Goto(u, pc, c)
    PROVE  /\ user'[u].c = c /\ \A v \in Users \ {u} : user'[v] = user[v]
           /\ \A k \in Held : k # user[u].c => k \in Held'
           /\ c # NoConn => c \in Held'
<1>1. /\ user'[u] = [pc |-> pc, c |-> c] /\ \A v \in Users \ {u} : user'[v] = user[v]
  BY DEF Goto, PoolTypeOK
<1> QED
  BY <1>1 DEF Held

\* A connection is let go, or there was none.
LEMMA LetsGo ==
    ASSUME PoolTypeOK, ExclusiveUse, NEW u \in Users, NEW pc, Goto(u, pc, NoConn),
           available' = available
    PROVE  ExclusiveUse' /\ \A k \in InHand : k # user[u].c => k \in InHand'
<1>1. /\ user'[u].c = NoConn /\ \A v \in Users \ {u} : user'[v] = user[v]
      /\ \A k \in Held : k # user[u].c => k \in Held'
  BY GotoHands
<1>2. Elements(available') = Elements(available) /\ NoConn \notin Elements(available)
  BY PoolAssumption DEF PoolTypeOK, Elements
<1> QED
  BY <1>1, <1>2 DEF ExclusiveUse, InHand

\* The same connection is kept.
LEMMA Keeps ==
    ASSUME PoolTypeOK, ExclusiveUse, NEW u \in Users, NEW pc, Goto(u, pc, user[u].c),
           available' = available
    PROVE  ExclusiveUse' /\ \A k \in InHand : k \in InHand'
<1>1. /\ user'[u].c = user[u].c /\ \A v \in Users \ {u} : user'[v] = user[v]
      /\ \A k \in Held : k # user[u].c => k \in Held'
      /\ user[u].c # NoConn => user[u].c \in Held'
  BY GotoHands
<1>2. Elements(available') = Elements(available)
  BY DEF Elements
<1>3. NoConn \notin Held
  BY DEF Held
<1> QED
  BY <1>1, <1>2, <1>3 DEF ExclusiveUse, InHand

LEMMA Takes ==
    ASSUME PoolTypeOK, ExclusiveUse, NEW u \in Users, NEW pc, user[u].c = NoConn,
           available # <<>>, available' = Tail(available), Goto(u, pc, Head(available))
    PROVE  ExclusiveUse' /\ \A k \in InHand : k \in InHand'
<1>1. /\ user'[u].c = Head(available) /\ \A v \in Users \ {u} : user'[v] = user[v]
      /\ \A k \in Held : k # user[u].c => k \in Held'
      /\ Head(available) # NoConn => Head(available) \in Held'
  BY GotoHands
<1>2. /\ Elements(available) = Elements(available') \cup {Head(available)}
      /\ Head(available) \notin Elements(available') /\ Head(available) \in Conns
      /\ Cardinality(Elements(available')) = Len(available')
  <2>1. available \in Seq(Conns) /\ Cardinality(Elements(available)) = Len(available)
    BY DEF PoolTypeOK, ExclusiveUse
  <2> QED BY <2>1, TakeFirst
<1>3. NoConn \notin Held /\ NoConn \notin Conns
  BY PoolAssumption DEF Held
<1> QED
  BY <1>1, <1>2, <1>3 DEF ExclusiveUse, InHand

LEMMA GivesBack ==
    ASSUME PoolTypeOK, ExclusiveUse, NEW u \in Users, NEW pc, user[u].c \in Conns,
           available' = Append(available, user[u].c), Goto(u, pc, NoConn)
    PROVE  ExclusiveUse' /\ \A k \in InHand : k \in InHand'
<1>1. /\ user'[u].c = NoConn /\ \A v \in Users \ {u} : user'[v] = user[v]
      /\ \A k \in Held : k # user[u].c => k \in Held'
  BY GotoHands
<1>2. /\ Elements(available') = Elements(available) \cup {user[u].c}
      /\ Cardinality(Elements(available')) = Len(available')
  <2>1. /\ available \in Seq(Conns) /\ Cardinality(Elements(available)) = Len(available)
        /\ user[u].c \notin Elements(available)
    BY DEF PoolTypeOK, ExclusiveUse
  <2> QED BY <2>1, PutLast
<1>3. NoConn \notin Conns /\ NoConn \notin Elements(available)
  BY PoolAssumption DEF PoolTypeOK, Elements
<1> QED
  BY <1>1, <1>2, <1>3 DEF ExclusiveUse, InHand

LEMMA FreshIsNobodys ==
    ASSUME NEW c \in Fresh
    PROVE  c \in Conns /\ c \notin Elements(available) /\ c \notin Held
BY DEF Fresh, Referenced

LEMMA Dials ==
    ASSUME PoolTypeOK, ExclusiveUse, NEW u \in Users, NEW pc, user[u].c = NoConn,
           NEW c \in Fresh, available' = available, Goto(u, pc, c)
    PROVE  ExclusiveUse' /\ (\A k \in InHand : k \in InHand') /\ c \in InHand'
<1>1. /\ user'[u].c = c /\ \A v \in Users \ {u} : user'[v] = user[v]
      /\ \A k \in Held : k # user[u].c => k \in Held'
      /\ c # NoConn => c \in Held'
  BY GotoHands
<1>2. c \in Conns /\ c \notin Elements(available) /\ c \notin Held
  BY FreshIsNobodys
<1>3. NoConn \notin Conns /\ Elements(available') = Elements(available) /\ NoConn \notin Held
  BY PoolAssumption DEF Elements, Held
<1>4. \A v \in Users \ {u} : user[v].c # c
  BY <1>2, <1>3 DEF Held
<1> QED
  BY <1>1, <1>2, <1>3, <1>4 DEF ExclusiveUse, InHand

LEMMA Refills ==
    ASSUME PoolTypeOK, ExclusiveUse, NEW c \in Fresh, user' = user,
           available' = Append(available, c)
    PROVE  ExclusiveUse' /\ (\A k \in InHand : k \in InHand') /\ c \in InHand'
<1>1. c \in Conns /\ c \notin Elements(available) /\ c \notin Held
  BY FreshIsNobodys
<1>2. /\ Elements(available') = Elements(available) \cup {c}
      /\ Cardinality(Elements(available')) = Len(available')
  <2>1. available \in Seq(Conns) /\ Cardinality(Elements(available)) = Len(available)
    BY DEF PoolTypeOK, ExclusiveUse
  <2> QED BY <1>1, <2>1, PutLast
<1>3. NoConn \notin Conns /\ Held' = Held
  BY PoolAssumption DEF Held
<1>4. \A v \in Users : user[v].c # c
  BY <1>1, <1>3 DEF Held
<1> QED
  BY <1>1, <1>2, <1>3, <1>4 DEF ExclusiveUse, InHand

\* Nobody's hands and not the channel.
LEMMA HandsStay ==
    ASSUME ExclusiveUse, user' = user, available' = available
    PROVE  ExclusiveUse' /\ InHand' = InHand
BY DEF ExclusiveUse, InHand, Held, Elements

-----------------------------------------------------------------------------
LEMMA HandsNext ==
    ASSUME PoolTypeOK, ExclusiveUse, NoneLost, [PoolNext]_poolVars
    PROVE  ExclusiveUse' /\ NoneLost'
<1>0. closing # "done" => \A c \in Conns \ spilled : conn[c] # "closed" => c \in InHand
  BY DEF NoneLost, InHand
<1>1. ASSUME ExclusiveUse', closing' # "done" => closing # "done",
             \A c \in Conns \ spilled' : conn'[c] # "closed" /\ closing' # "done" =>
                \/ c \in InHand'
                \/ c \notin spilled /\ conn[c] # "closed" /\ (c \in InHand => c \in InHand')
      PROVE  ExclusiveUse' /\ NoneLost'
  BY <1>0, <1>1 DEF NoneLost, InHand
<1>2. ASSUME NEW u \in Users, GetFromPool(u) \/ Send(u)
      PROVE  ExclusiveUse' /\ NoneLost'
  <2>0. /\ user[u].pc \in EmptyHanded => user[u].c = NoConn
        /\ user[u].pc \in Holding => user[u].c \in Conns
        /\ NoConn \notin Conns /\ conn \in [Conns -> {"open", "stale", "closed"}]
    BY UserState DEF PoolTypeOK
  \* Steps that touch neither the channel nor a connection.
  <2>1. ASSUME NEW pc, Goto(u, pc, user[u].c) \/ (user[u].c = NoConn /\ Goto(u, pc, NoConn)),
               available' = available, conn' = conn, closing' = closing, spilled' = spilled
        PROVE  ExclusiveUse' /\ NoneLost'
    <3>1. Goto(u, pc, user[u].c)
      BY <2>1
    <3> QED BY <1>1, <2>1, <3>1, Keeps
  \* Steps that close the connection at hand, if there is one, and let it go.
  <2>2. ASSUME NEW pc, Goto(u, pc, NoConn), available' = available, closing' = closing,
               spilled' = spilled, user[u].c \in Conns,
               conn' = [conn EXCEPT ![user[u].c] = "closed"]
        PROVE  ExclusiveUse' /\ NoneLost'
    <3>1. ExclusiveUse' /\ \A k \in InHand : k # user[u].c => k \in InHand'
      BY <2>2, LetsGo
    <3>2. conn'[user[u].c] = "closed" /\ \A c \in Conns : c # user[u].c => conn'[c] = conn[c]
      BY <2>0, <2>2
    <3> QED BY <1>1, <2>2, <3>1, <3>2
  <2>3. CASE GetFromPool(u)
    BY <2>0, <2>1, <2>3 DEF GetFromPool, At, EmptyHanded
  <2>4. CASE Receive(u)
    <3>0. user[u].c = NoConn
      BY <2>0, <2>4 DEF Receive, EmptyHanded
    <3>1. CASE available # <<>> /\ available' = Tail(available) /\ Goto(u, "test", Head(available))
      <4>1. ExclusiveUse' /\ \A k \in InHand : k \in InHand'
        BY <3>0, <3>1, Takes
      <4> QED BY <1>1, <2>4, <4>1 DEF Receive
    <3>2. CASE Goto(u, "panic", NoConn) /\ available' = available
      BY <2>1, <2>4, <3>0, <3>2 DEF Receive
    <3> QED BY <2>4, <3>1, <3>2 DEF Receive
  <2>5. CASE SelectDefault(u)
    BY <2>0, <2>1, <2>5 DEF SelectDefault, At, EmptyHanded
  <2>6. CASE TestReceived(u)
    BY <2>1, <2>6 DEF TestReceived
  <2>7. CASE MarkInUse(u)
    BY <2>1, <2>7 DEF MarkInUse
  <2>8. CASE DropReceived(u)
    BY <2>0, <2>2, <2>8 DEF DropReceived, At, Holding, CloseConnection
  <2>9. CASE CheckCapacity(u)
    BY <2>0, <2>1, <2>9 DEF CheckCapacity, At, EmptyHanded
  <2>10. CASE DialFails(u)
    BY <2>0, <2>1, <2>10 DEF DialFails, At, EmptyHanded
  <2>11. CASE DialSucceeds(u)
    <3>1. PICK c \in Fresh : /\ conn' = [conn EXCEPT ![c] = "open"]
                            /\ spilled' = spilled \ {c} /\ Goto(u, "add", c)
      BY <2>11 DEF DialSucceeds
    <3>2. user[u].c = NoConn /\ available' = available /\ closing' = closing
      BY <2>0, <2>11 DEF DialSucceeds, At, EmptyHanded
    <3>3. ExclusiveUse' /\ (\A k \in InHand : k \in InHand') /\ c \in InHand'
      BY <3>1, <3>2, Dials
    <3>4. \A k \in Conns : k # c => conn'[k] = conn[k]
      BY <2>0, <3>1
    <3> QED BY <1>1, <3>1, <3>2, <3>3, <3>4
  <2>12. CASE AddConnection(u)
    <3>0. user[u].c \in Conns
      BY <2>0, <2>12 DEF AddConnection, At, Holding
    <3> QED BY <2>1, <2>2, <2>12, <3>0 DEF AddConnection
  <2>13. CASE WaitTimesOut(u)
    BY <2>0, <2>1, <2>13 DEF WaitTimesOut, At, EmptyHanded
  <2>14. CASE UseSucceeds(u)
    BY <2>1, <2>14 DEF UseSucceeds
  <2>15. CASE MarkBad(u)
    <3>0. /\ user[u].c \in Conns /\ conn' = [conn EXCEPT ![user[u].c] = "closed"]
          /\ Goto(u, "put", user[u].c) /\ available' = available /\ closing' = closing
          /\ spilled' = spilled
      BY <2>0, <2>15 DEF MarkBad, At, Holding, CloseConnection
    <3>1. ExclusiveUse' /\ \A k \in InHand : k \in InHand'
      BY <3>0, Keeps
    <3>2. \A c \in Conns : conn'[c] # "closed" => conn'[c] = conn[c]
      BY <2>0, <3>0
    <3> QED BY <1>1, <3>0, <3>1, <3>2
  <2>16. CASE Put(u)
    <3>0. user[u].c \in Conns
      BY <2>0, <2>16 DEF Put, At, Holding
    <3>1. CASE closing # "no"
      BY <2>2, <2>16, <3>0, <3>1 DEF Put, CloseConnection
    <3>2. CASE closing = "no"
      BY <2>1, <2>16, <3>2 DEF Put
    <3> QED BY <3>1, <3>2
  <2>17. CASE PutUnmarks(u)
    BY <2>1, <2>17 DEF PutUnmarks
  <2>18. CASE PutSends(u)
    <3>0. user[u].c \in Conns /\ conn' = conn /\ closing' = closing /\ spilled' = spilled
      BY <2>0, <2>18 DEF PutSends, At, Holding
    <3>1. CASE closing = "done" /\ Goto(u, "panic", NoConn) /\ available' = available
      <4>1. ExclusiveUse'
        BY <3>1, LetsGo
      <4> QED BY <1>1, <3>0, <3>1, <4>1
    <3>2. CASE available' = Append(available, user[u].c) /\ Goto(u, "idle", NoConn)
      <4>1. ExclusiveUse' /\ \A k \in InHand : k \in InHand'
        BY <3>0, <3>2, GivesBack
      <4> QED BY <1>1, <3>0, <4>1
    <3>3. CASE Goto(u, "overflow", user[u].c) /\ available' = available
      BY <2>1, <3>0, <3>3
    <3> QED BY <2>18, <3>1, <3>2, <3>3 DEF PutSends
  <2>19. CASE PutOverflows(u)
    BY <2>0, <2>2, <2>19 DEF PutOverflows, At, Holding, CloseConnection
  <2> QED BY <1>2, <2>3, <2>4, <2>5, <2>6, <2>7, <2>8, <2>9, <2>10, <2>11, <2>12, <2>13, <2>14,
             <2>15, <2>16, <2>17, <2>18, <2>19 DEF Send
\* Steps that at most close connections and leave the channel alone.
<1>3. ASSUME user' = user, available' = available, spilled' = spilled,
             closing' # "done" => closing # "done",
             \A c \in Conns : conn'[c] # "closed" => conn[c] # "closed"
      PROVE  ExclusiveUse' /\ NoneLost'
  <2>1. ExclusiveUse' /\ InHand' = InHand
    BY <1>3, HandsStay
  <2> QED BY <1>1, <1>3, <2>1
<1>4. CASE Check
  <2>0. conn \in [Conns -> {"open", "stale", "closed"}]
    BY DEF PoolTypeOK
  <2>1. CASE BeginCheck \/ EndCheck \/ EndRefill
    BY <1>3, <2>1 DEF BeginCheck, EndCheck, EndRefill
  <2>2. CASE CheckNext
    <3>1. \A c \in Conns : conn'[c] # "closed" => conn[c] # "closed"
      BY <2>0, <2>2 DEF CheckNext, CloseConnection
    <3> QED BY <1>3, <2>2, <3>1 DEF CheckNext
  <2>3. CASE Refill
    <3>1. PICK c \in Fresh :
            /\ conn' = [conn EXCEPT ![c] = "open"]
            /\ IF Len(available) < MaxConnections
               THEN available' = Append(available, c) /\ spilled' = spilled \ {c}
               ELSE spilled' = spilled \cup {c} /\ UNCHANGED available
      BY <2>3 DEF Refill
    <3>2. user' = user /\ closing' = closing
      BY <2>3 DEF Refill
    <3>3. \A k \in Conns : k # c => conn'[k] = conn[k]
      BY <2>0, <3>1
    <3>4. CASE Len(available) < MaxConnections
      <4>1. ExclusiveUse' /\ (\A k \in InHand : k \in InHand') /\ c \in InHand'
        BY <3>1, <3>2, <3>4, Refills
      <4> QED BY <1>1, <3>1, <3>2, <3>3, <3>4, <4>1
    <3>5. CASE ~(Len(available) < MaxConnections)
      <4>1. ExclusiveUse' /\ InHand' = InHand
        BY <3>1, <3>2, <3>5, HandsStay
      <4> QED BY <1>1, <3>1, <3>2, <3>3, <3>5, <4>1
    <3> QED BY <3>4, <3>5
  <2> QED BY <1>4, <2>1, <2>2, <2>3 DEF Check
<1>5. CASE FlagClosed \/ StopChecker
  BY <1>3, <1>5 DEF FlagClosed, StopChecker
<1>6. CASE CloseAll
  <2>1. \A c \in Conns : conn'[c] # "closed" => conn[c] # "closed"
    BY <1>6 DEF CloseAll
  <2> QED BY <1>3, <1>6, <2>1 DEF CloseAll
<1>7. ASSUME NEW c \in Conns, GoesStale(c)
      PROVE  ExclusiveUse' /\ NoneLost'
  <2>1. \A k \in Conns : conn'[k] # "closed" => conn[k] # "closed"
    BY <1>7 DEF GoesStale, PoolTypeOK
  <2> QED BY <1>3, <1>7, <2>1 DEF GoesStale
<1>8. CASE UNCHANGED poolVars
  BY <1>3, <1>8 DEF poolVars
<1> QED
  BY <1>2, <1>4, <1>5, <1>6, <1>7, <1>8 DEF PoolNext

-----------------------------------------------------------------------------
ScanRecords == [pc : {"scan"}, i : Nat, slice : Seq(Conns), healthy : Seq(Conns)]
IdleRecords == [pc : {"idle", "refill", "stopped"}]

LEMMA ScanState ==
    ASSUME PoolTypeOK, CheckerSound, checker.pc = "scan"
    PROVE  /\ checker \in ScanRecords
           /\ Len(checker.slice) \in Nat /\ Len(checker.slice) <= MaxConnections
           /\ Len(checker.healthy) \in Nat /\ Len(checker.healthy) < checker.i
           /\ checker.i <= Len(checker.slice) => checker.slice[checker.i] \in Conns
<1>1. checker \in ScanRecords
  BY DEF PoolTypeOK, ScanRecords
<1>2. /\ checker.slice \in Seq(Conns) /\ checker.healthy \in Seq(Conns) /\ checker.i \in Nat
  BY <1>1 DEF ScanRecords
<1>3. Len(checker.slice) \in Nat /\ Len(checker.healthy) \in Nat
  BY <1>2
<1>4. Len(checker.slice) <= MaxConnections /\ Len(checker.healthy) < checker.i
  BY DEF CheckerSound
<1>5. ASSUME checker.i <= Len(checker.slice)
      PROVE  checker.slice[checker.i] \in Conns
  BY <1>2, <1>3, <1>4, <1>5, ElementOfSeq
<1> QED
  BY <1>1, <1>3, <1>4, <1>5

LEMMA ShiftOutSameLength ==
    ASSUME NEW s \in Seq(Conns), NEW t \in Seq(Conns), NEW c
    PROVE  ShiftOut(s, t, c) \in Seq(Conns) /\ Len(ShiftOut(s, t, c)) = Len(s)
<1> DEFINE rest == Without(t, c)
           f == [i \in DOMAIN s |-> IF i <= Len(rest) THEN rest[i] ELSE s[i]]
<1>1. rest \in Seq(Conns)
  BY WithoutShorter
<1> HIDE DEF rest
<1>2. Len(s) \in Nat /\ DOMAIN s = 1..Len(s)
  OBVIOUS
<1>3. \A i \in 1..Len(s) : (IF i <= Len(rest) THEN rest[i] ELSE s[i]) \in Conns
  BY <1>1, <1>2, ElementOfSeq
<1>4. f \in [1..Len(s) -> Conns]
  BY <1>2, <1>3
<1> HIDE DEF f
<1>5. f \in Seq(Conns) /\ Len(f) = Len(s)
  BY <1>2, <1>4
<1> QED
  BY <1>5 DEF f, rest, ShiftOut

\* Types, and how many connections are counted.
LEMMA PoolTypeNext ==
    ASSUME PoolTypeOK, CheckerSound, CapacityHolds, [PoolNext]_poolVars
    PROVE  PoolTypeOK' /\ CheckerSound' /\ CapacityHolds'
<1> DEFINE Checkers == IdleRecords \cup ScanRecords
<1>0. /\ connections \in Seq(Conns) /\ available \in Seq(Conns)
      /\ conn \in [Conns -> {"open", "stale", "closed"}] /\ inUse \in [Conns -> BOOLEAN]
      /\ user \in [Users -> UserStates] /\ checker \in Checkers
      /\ closing \in {"no", "flagged", "done"} /\ hangups \in 0..MaxHangups
      /\ spilled \subseteq Conns
      /\ Len(connections) <= MaxConnections /\ Len(connections) \in Nat
      /\ MaxConnections \in Nat /\ MinConnections \in Nat /\ MinConnections <= MaxConnections
  BY PoolAssumption DEF PoolTypeOK, CapacityHolds, ScanRecords, IdleRecords
<1>1. ASSUME connections' \in Seq(Conns), available' \in Seq(Conns),
             conn' \in [Conns -> {"open", "stale", "closed"}], inUse' \in [Conns -> BOOLEAN],
             user' \in [Users -> UserStates], checker' \in Checkers,
             closing' \in {"no", "flagged", "done"}, hangups' \in 0..MaxHangups,
             spilled' \subseteq Conns, Len(connections') <= MaxConnections, CheckerSound'
      PROVE  PoolTypeOK' /\ CheckerSound' /\ CapacityHolds'
  BY <1>1 DEF PoolTypeOK, CapacityHolds, ScanRecords, IdleRecords
<1>2. checker' = checker => CheckerSound'
  BY DEF CheckerSound
<1>3. \A c \in Conns : CloseConnection(c) =>
        /\ connections' \in Seq(Conns) /\ Len(connections') <= MaxConnections
        /\ conn' \in [Conns -> {"open", "stale", "closed"}]
  <2> SUFFICES ASSUME NEW c \in Conns, CloseConnection(c)
               PROVE  /\ connections' \in Seq(Conns) /\ Len(connections') <= MaxConnections
                      /\ conn' \in [Conns -> {"open", "stale", "closed"}]
    OBVIOUS
  <2>1. connections' = Without(connections, c) /\ conn' = [conn EXCEPT ![c] = "closed"]
    BY DEF CloseConnection
  <2>2. connections' \in Seq(Conns) /\ Len(connections') <= Len(connections)
    BY <1>0, <2>1, WithoutShorter
  <2>3. Len(connections') \in Nat
    BY <2>2
  <2> QED BY <1>0, <2>1, <2>2, <2>3
<1>4. \A c \in Conns : Len(connections) < MaxConnections /\ connections' = Append(connections, c) =>
        connections' \in Seq(Conns) /\ Len(connections') <= MaxConnections
  BY <1>0, PutLast
<1>5. ASSUME NEW u \in Users, GetFromPool(u) \/ Send(u)
      PROVE  PoolTypeOK' /\ CheckerSound' /\ CapacityHolds'
  <2>0. /\ user[u].pc \in EmptyHanded => user[u].c = NoConn
        /\ user[u].pc \in Holding => user[u].c \in Conns
    BY UserState
  <2>1. \A pc \in EmptyHanded : Goto(u, pc, NoConn) => user' \in [Users -> UserStates]
    BY GotoEmpty
  <2>2. \A pc \in Holding, c \in Conns : Goto(u, pc, c) => user' \in [Users -> UserStates]
    BY GotoHolding
  <2>3. CASE GetFromPool(u)
    <3>1. user' \in [Users -> UserStates]
      BY <2>3, <2>0, <2>1, <2>2 DEF GetFromPool, At, EmptyHanded, Holding
    <3> QED BY <2>3, <1>0, <1>1, <1>2, <3>1 DEF GetFromPool
  <2>4. CASE SelectDefault(u)
    <3>1. user' \in [Users -> UserStates]
      BY <2>4, <2>0, <2>1, <2>2 DEF SelectDefault, At, EmptyHanded, Holding
    <3> QED BY <2>4, <1>0, <1>1, <1>2, <3>1 DEF SelectDefault
  <2>5. CASE TestReceived(u)
    <3>1. user' \in [Users -> UserStates]
      BY <2>5, <2>0, <2>1, <2>2 DEF TestReceived, At, EmptyHanded, Holding
    <3> QED BY <2>5, <1>0, <1>1, <1>2, <3>1 DEF TestReceived
  <2>6. CASE CheckCapacity(u)
    <3>1. user' \in [Users -> UserStates]
      BY <2>6, <2>0, <2>1, <2>2 DEF CheckCapacity, At, EmptyHanded, Holding
    <3> QED BY <2>6, <1>0, <1>1, <1>2, <3>1 DEF CheckCapacity
  <2>7. CASE DialFails(u)
    <3>1. user' \in [Users -> UserStates]
      BY <2>7, <2>0, <2>1, <2>2 DEF DialFails, At, EmptyHanded, Holding
    <3> QED BY <2>7, <1>0, <1>1, <1>2, <3>1 DEF DialFails
  <2>8. CASE WaitTimesOut(u)
    <3>1. user' \in [Users -> UserStates]
      BY <2>8, <2>0, <2>1, <2>2 DEF WaitTimesOut, At, EmptyHanded, Holding
    <3> QED BY <2>8, <1>0, <1>1, <1>2, <3>1 DEF WaitTimesOut
  <2>9. CASE UseSucceeds(u)
    <3>1. user' \in [Users -> UserStates]
      BY <2>9, <2>0, <2>1, <2>2 DEF UseSucceeds, At, EmptyHanded, Holding
    <3> QED BY <2>9, <1>0, <1>1, <1>2, <3>1 DEF UseSucceeds
  <2>10. CASE Receive(u)
    <3>1. CASE available # <<>> /\ available' = Tail(available) /\ Goto(u, "test", Head(available))
      <4>1. Head(available) \in Conns /\ available' \in Seq(Conns)
        BY <1>0, <3>1, TakeFirst
      <4>2. user' \in [Users -> UserStates]
        BY <2>2, <3>1, <4>1 DEF Holding
      <4> QED BY <2>10, <1>0, <1>1, <1>2, <4>1, <4>2 DEF Receive
    <3>2. CASE Goto(u, "panic", NoConn) /\ available' = available
      <4>1. user' \in [Users -> UserStates]
        BY <2>1, <3>2 DEF EmptyHanded
      <4> QED BY <2>10, <1>0, <1>1, <1>2, <3>2, <4>1 DEF Receive
    <3> QED BY <2>10, <3>1, <3>2 DEF Receive
  <2>11. CASE MarkInUse(u)
    <3>1. user' \in [Users -> UserStates]
      BY <2>11, <2>0, <2>1, <2>2 DEF MarkInUse, At, EmptyHanded, Holding
    <3>2. inUse' \in [Conns -> BOOLEAN]
      BY <2>11, <1>0 DEF MarkInUse
    <3> QED BY <2>11, <1>0, <1>1, <1>2, <3>1, <3>2 DEF MarkInUse
  <2>12. CASE PutUnmarks(u)
    <3>1. user' \in [Users -> UserStates]
      BY <2>12, <2>0, <2>1, <2>2 DEF PutUnmarks, At, EmptyHanded, Holding
    <3>2. inUse' \in [Conns -> BOOLEAN]
      BY <2>12, <1>0 DEF PutUnmarks
    <3> QED BY <2>12, <1>0, <1>1, <1>2, <3>1, <3>2 DEF PutUnmarks
  <2>13. CASE DropReceived(u)
    <3>1. user' \in [Users -> UserStates]
      BY <2>13, <2>0, <2>1, <2>2 DEF DropReceived, At, EmptyHanded, Holding
    <3>2. user[u].c \in Conns
      BY <2>13, <2>0 DEF DropReceived, At, Holding
    <3>3. /\ connections' \in Seq(Conns) /\ Len(connections') <= MaxConnections
          /\ conn' \in [Conns -> {"open", "stale", "closed"}]
      BY <2>13, <1>3, <3>2 DEF DropReceived
    <3> QED BY <2>13, <1>0, <1>1, <1>2, <3>1, <3>3 DEF DropReceived
  <2>14. CASE MarkBad(u)
    <3>1. user' \in [Users -> UserStates]
      BY <2>14, <2>0, <2>1, <2>2 DEF MarkBad, At, EmptyHanded, Holding
    <3>2. user[u].c \in Conns
      BY <2>14, <2>0 DEF MarkBad, At, Holding
    <3>3. /\ connections' \in Seq(Conns) /\ Len(connections') <= MaxConnections
          /\ conn' \in [Conns -> {"open", "stale", "closed"}]
      BY <2>14, <1>3, <3>2 DEF MarkBad
    <3> QED BY <2>14, <1>0, <1>1, <1>2, <3>1, <3>3 DEF MarkBad
  <2>15. CASE PutOverflows(u)
    <3>1. user' \in [Users -> UserStates]
      BY <2>15, <2>0, <2>1, <2>2 DEF PutOverflows, At, EmptyHanded, Holding
    <3>2. user[u].c \in Conns
      BY <2>15, <2>0 DEF PutOverflows, At, Holding
    <3>3. /\ connections' \in Seq(Conns) /\ Len(connections') <= MaxConnections
          /\ conn' \in [Conns -> {"open", "stale", "closed"}]
      BY <2>15, <1>3, <3>2 DEF PutOverflows
    <3> QED BY <2>15, <1>0, <1>1, <1>2, <3>1, <3>3 DEF PutOverflows
  <2>16. CASE DialSucceeds(u)
    <3>1. PICK c \in Fresh : /\ conn' = [conn EXCEPT ![c] = "open"]
                            /\ inUse' = [inUse EXCEPT ![c] = FALSE]
                            /\ spilled' = spilled \ {c} /\ Goto(u, "add", c)
      BY <2>16 DEF DialSucceeds
    <3>2. c \in Conns
      BY FreshIsNobodys
    <3>3. user' \in [Users -> UserStates]
      BY <2>2, <3>1, <3>2 DEF Holding
    <3>4. conn' \in [Conns -> {"open", "stale", "closed"}] /\ inUse' \in [Conns -> BOOLEAN]
      BY <1>0, <3>1
    <3>5. spilled' \subseteq Conns
      BY <1>0, <3>1
    <3> QED BY <2>16, <1>0, <1>1, <1>2, <3>3, <3>4, <3>5 DEF DialSucceeds
  <2>17. CASE AddConnection(u)
    <3>0. user[u].c \in Conns
      BY <2>17, <2>0 DEF AddConnection, At, Holding
    <3>1. CASE Len(connections) >= MaxConnections
      <4>1. user' \in [Users -> UserStates]
        BY <2>17, <2>1, <3>1 DEF AddConnection, EmptyHanded
      <4>2. conn' \in [Conns -> {"open", "stale", "closed"}]
        BY <2>17, <1>0, <3>1 DEF AddConnection
      <4> QED BY <2>17, <1>0, <1>1, <1>2, <3>1, <4>1, <4>2 DEF AddConnection
    <3>2. CASE ~(Len(connections) >= MaxConnections)
      <4>1. user' \in [Users -> UserStates]
        BY <2>17, <2>2, <3>0, <3>2 DEF AddConnection, Holding
      <4>2. inUse' \in [Conns -> BOOLEAN]
        BY <2>17, <1>0, <3>2 DEF AddConnection
      <4>3. connections' \in Seq(Conns) /\ Len(connections') <= MaxConnections
        BY <2>17, <1>0, <1>4, <3>0, <3>2 DEF AddConnection
      <4> QED BY <2>17, <1>0, <1>1, <1>2, <3>2, <4>1, <4>2, <4>3 DEF AddConnection
    <3> QED BY <3>1, <3>2
  <2>18. CASE Put(u)
    <3>0. user[u].c \in Conns
      BY <2>18, <2>0 DEF Put, At, Holding
    <3>1. CASE closing # "no"
      <4>1. user' \in [Users -> UserStates]
        BY <2>18, <2>1, <3>1 DEF Put, EmptyHanded
      <4>2. /\ connections' \in Seq(Conns) /\ Len(connections') <= MaxConnections
            /\ conn' \in [Conns -> {"open", "stale", "closed"}]
        BY <2>18, <1>3, <3>0, <3>1 DEF Put
      <4> QED BY <2>18, <1>0, <1>1, <1>2, <4>1, <4>2 DEF Put
    <3>2. CASE closing = "no"
      <4>1. user' \in [Users -> UserStates]
        BY <2>18, <2>2, <3>0, <3>2 DEF Put, Holding
      <4> QED BY <2>18, <1>0, <1>1, <1>2, <3>2, <4>1 DEF Put
    <3> QED BY <3>1, <3>2
  <2>19. CASE PutSends(u)
    <3>0. user[u].c \in Conns
      BY <2>19, <2>0 DEF PutSends, At, Holding
    <3>1. user' \in [Users -> UserStates]
      BY <2>19, <2>1, <2>2, <3>0 DEF PutSends, Holding, EmptyHanded
    <3>2. Append(available, user[u].c) \in Seq(Conns)
      BY <1>0, <3>0, PutLast
    <3>3. available' \in Seq(Conns)
      BY <2>19, <1>0, <3>2 DEF PutSends
    <3> QED BY <2>19, <1>0, <1>1, <1>2, <3>1, <3>3 DEF PutSends
  <2> QED BY <1>5, <2>3, <2>4, <2>5, <2>6, <2>7, <2>8, <2>9, <2>10, <2>11, <2>12, <2>13, <2>14,
             <2>15, <2>16, <2>17, <2>18, <2>19 DEF Send
<1>6. CASE BeginCheck
  <2>1. checker' \in Checkers
    BY <1>6, <1>0 DEF BeginCheck, ScanRecords
  <2>2. CheckerSound'
    BY <1>6, <1>0 DEF BeginCheck, CheckerSound
  <2> QED BY <1>6, <1>0, <1>1, <2>1, <2>2 DEF BeginCheck
<1>7. CASE CheckNext
  <2>0. /\ checker \in ScanRecords
        /\ Len(checker.slice) \in Nat /\ Len(checker.slice) <= MaxConnections
        /\ Len(checker.healthy) \in Nat /\ Len(checker.healthy) < checker.i
        /\ checker.slice[checker.i] \in Conns
        /\ checker.i <= Len(checker.slice)
    BY <1>7, ScanState DEF CheckNext
  <2> DEFINE c == checker.slice[checker.i]
  <2>1. /\ checker.slice \in Seq(Conns) /\ checker.healthy \in Seq(Conns) /\ checker.i \in Nat
    BY <2>0 DEF ScanRecords
  <2> DEFINE Scan(i, slice, healthy) ==
               [pc |-> "scan", i |-> i, slice |-> slice, healthy |-> healthy]
  <2>a. PICK i \in Nat, slice \in Seq(Conns), healthy \in Seq(Conns) :
               checker = [pc |-> "scan", i |-> i, slice |-> slice, healthy |-> healthy]
    <3>1. \A r \in ScanRecords : \E i \in Nat, slice \in Seq(Conns), healthy \in Seq(Conns) :
               r = [pc |-> "scan", i |-> i, slice |-> slice, healthy |-> healthy]
      BY DEF ScanRecords
    <3> QED BY <2>0, <3>1
  <2>b. \A n \in Nat, t, h \in Seq(Conns) : Scan(n, t, h) \in ScanRecords
    BY DEF ScanRecords
  <2>2. CASE /\ checker' = [checker EXCEPT !.i = @ + 1, !.healthy = Append(@, c)]
             /\ UNCHANGED <<connections, conn>>
    <3>1. Append(checker.healthy, c) \in Seq(Conns)
          /\ Len(Append(checker.healthy, c)) = Len(checker.healthy) + 1
      BY <2>0, <2>1, PutLast
    <3>2. /\ checker'.pc = "scan" /\ checker'.i = checker.i + 1 /\ checker'.slice = checker.slice
          /\ checker'.healthy = Append(checker.healthy, c) /\ checker' \in ScanRecords
      <4>1. checker' = Scan(checker.i + 1, checker.slice, Append(checker.healthy, c))
        <5> HIDE DEF c
        <5> QED BY <2>2, <2>a
      <4>2. checker.i + 1 \in Nat
        BY <2>1
      <4>3. checker' \in ScanRecords
        <5> HIDE DEF c, Scan
        <5> QED BY <2>1, <2>b, <3>1, <4>1, <4>2
      <4> HIDE DEF c
      <4> QED BY <4>1, <4>3
    <3>3. CheckerSound'
      BY <2>0, <2>1, <3>1, <3>2 DEF CheckerSound
    <3> QED BY <1>7, <1>0, <1>1, <2>2, <3>2, <3>3 DEF CheckNext
  <2>3. CASE /\ CloseConnection(c)
             /\ checker' = [checker EXCEPT !.i = @ + 1, !.slice = ShiftOut(@, connections, c)]
    <3>1. /\ ShiftOut(checker.slice, connections, c) \in Seq(Conns)
          /\ Len(ShiftOut(checker.slice, connections, c)) = Len(checker.slice)
      BY <1>0, <2>1, ShiftOutSameLength
    <3>2. /\ checker'.pc = "scan" /\ checker'.i = checker.i + 1
          /\ checker'.slice = ShiftOut(checker.slice, connections, c)
          /\ checker'.healthy = checker.healthy /\ checker' \in ScanRecords
      <4>1. checker' = Scan(checker.i + 1, ShiftOut(checker.slice, connections, c), checker.healthy)
        <5> HIDE DEF c
        <5> QED BY <2>3, <2>a
      <4>2. checker.i + 1 \in Nat
        BY <2>1
      <4>3. checker' \in ScanRecords
        <5> HIDE DEF c, Scan
        <5> QED BY <2>1, <2>b, <3>1, <4>1, <4>2
      <4> HIDE DEF c
      <4> QED BY <4>1, <4>3
    <3>3. CheckerSound'
      BY <2>0, <2>1, <3>1, <3>2 DEF CheckerSound
    <3>4. /\ connections' \in Seq(Conns) /\ Len(connections') <= MaxConnections
          /\ conn' \in [Conns -> {"open", "stale", "closed"}]
      BY <1>3, <2>0, <2>3
    <3> QED BY <1>7, <1>0, <1>1, <3>2, <3>3, <3>4 DEF CheckNext
  <2> QED BY <1>7, <2>2, <2>3 DEF CheckNext
<1>8. CASE EndCheck
  <2>0. /\ checker \in ScanRecords /\ Len(checker.slice) <= MaxConnections
        /\ Len(checker.slice) \in Nat
        /\ Len(checker.healthy) \in Nat /\ Len(checker.healthy) < checker.i
        /\ checker.i <= Len(checker.slice) + 1 /\ checker.healthy \in Seq(Conns)
        /\ checker.i \in Nat
    BY <1>8, ScanState DEF EndCheck, CheckerSound, ScanRecords
  <2>1. connections' \in Seq(Conns) /\ Len(connections') <= MaxConnections
    BY <1>8, <1>0, <2>0 DEF EndCheck
  <2>2. checker' \in Checkers /\ CheckerSound'
    BY <1>8 DEF EndCheck, IdleRecords, CheckerSound
  <2> QED BY <1>8, <1>0, <1>1, <2>1, <2>2 DEF EndCheck
<1>9. CASE Refill
  <2>1. PICK c \in Fresh :
          /\ conn' = [conn EXCEPT ![c] = "open"] /\ inUse' = [inUse EXCEPT ![c] = FALSE]
          /\ connections' = Append(connections, c)
          /\ IF Len(available) < MaxConnections
             THEN available' = Append(available, c) /\ spilled' = spilled \ {c}
             ELSE spilled' = spilled \cup {c} /\ UNCHANGED available
    BY <1>9 DEF Refill
  <2>2. c \in Conns
    BY FreshIsNobodys
  <2>3. connections' \in Seq(Conns) /\ Len(connections') <= MaxConnections
    BY <1>0, <1>4, <1>9, <2>1, <2>2 DEF Refill
  <2>4. available' \in Seq(Conns) /\ spilled' \subseteq Conns
    <3>1. Append(available, c) \in Seq(Conns)
      BY <1>0, <2>2, PutLast
    <3> QED BY <1>0, <2>1, <2>2, <3>1
  <2>5. conn' \in [Conns -> {"open", "stale", "closed"}] /\ inUse' \in [Conns -> BOOLEAN]
    BY <1>0, <2>1
  <2> QED BY <1>9, <1>0, <1>1, <1>2, <2>3, <2>4, <2>5 DEF Refill
<1>10. CASE EndRefill
  <2>1. checker' \in Checkers /\ CheckerSound'
    BY <1>10 DEF EndRefill, IdleRecords, CheckerSound
  <2> QED BY <1>10, <1>0, <1>1, <2>1 DEF EndRefill
<1>11. CASE FlagClosed
  BY <1>11, <1>0, <1>1, <1>2 DEF FlagClosed
<1>12. CASE StopChecker
  <2>1. checker' \in Checkers /\ CheckerSound'
    BY <1>12 DEF StopChecker, IdleRecords, CheckerSound
  <2> QED BY <1>12, <1>0, <1>1, <2>1 DEF StopChecker
<1>13. CASE CloseAll
  <2>1. connections' \in Seq(Conns) /\ Len(connections') <= MaxConnections
    BY <1>13, <1>0 DEF CloseAll
  <2>2. conn' \in [Conns -> {"open", "stale", "closed"}]
    BY <1>13, <1>0 DEF CloseAll
  <2> QED BY <1>13, <1>0, <1>1, <1>2, <2>1, <2>2 DEF CloseAll
<1>14. ASSUME NEW c \in Conns, GoesStale(c)
       PROVE  PoolTypeOK' /\ CheckerSound' /\ CapacityHolds'
  <2>1. conn' \in [Conns -> {"open", "stale", "closed"}]
    BY <1>14, <1>0 DEF GoesStale
  <2>2. hangups' \in 0..MaxHangups
    BY <1>14, <1>0, PoolAssumption DEF GoesStale
  <2> QED BY <1>14, <1>0, <1>1, <1>2, <2>1, <2>2 DEF GoesStale
<1>15. CASE UNCHANGED poolVars
  BY <1>15, <1>0, <1>1, <1>2 DEF poolVars
<1> QED
  BY <1>5, <1>6, <1>7, <1>8, <1>9, <1>10, <1>11, <1>12, <1>13, <1>14, <1>15 DEF PoolNext, Check

LEMMA PoolInvInit == PoolInit => PoolInv
<1> SUFFICES ASSUME PoolInit PROVE PoolInv
  OBVIOUS
<1>1. PICK n \in 0..MinConnections : \E s \in [1..n -> Conns] :
        /\ Cardinality(Elements(s)) = n /\ connections = s /\ available = s
        /\ conn = [c \in Conns |-> IF c \in Elements(s) THEN "open" ELSE "closed"]
  BY DEF PoolInit
<1>2. PICK s \in [1..n -> Conns] :
        /\ Cardinality(Elements(s)) = n /\ connections = s /\ available = s
        /\ conn = [c \in Conns |-> IF c \in Elements(s) THEN "open" ELSE "closed"]
  BY <1>1
<1>3. n \in Nat /\ n <= MaxConnections
  BY PoolAssumption
<1>4. s \in Seq(Conns) /\ Len(s) = n
  BY <1>3
<1>5. inUse = [c \in Conns |-> FALSE] /\ user = [u \in Users |-> Away]
      /\ checker = [pc |-> "idle"] /\ closing = "no" /\ hangups = 0 /\ spilled = {}
  BY DEF PoolInit
<1>6. PoolTypeOK
  <2>1. Away \in UserStates
    BY DEF Away, UserStates
  <2> QED BY <1>2, <1>4, <1>5, <2>1, PoolAssumption DEF PoolTypeOK
<1>7. CheckerSound
  BY <1>5 DEF CheckerSound
<1>8. ExclusiveUse
  <2>1. \A u \in Users : user[u].c = NoConn
    BY <1>5 DEF Away
  <2>2. NoConn \notin Elements(available)
    BY <1>2, <1>4, PoolAssumption DEF Elements
  <2> QED BY <1>2, <1>4, <2>1, <2>2 DEF ExclusiveUse
<1>9. CapacityHolds
  BY <1>2, <1>3, <1>4 DEF CapacityHolds
<1>10. NoneLost
  BY <1>2 DEF NoneLost
<1> QED
  BY <1>6, <1>7, <1>8, <1>9, <1>10 DEF PoolInv, PoolSound

LEMMA PoolInvNext == PoolInv /\ [PoolNext]_poolVars => PoolInv'
BY HandsNext, PoolTypeNext DEF PoolInv, PoolSound

(***************************************************************************)
(* The pool keeps its connections apart, counted and at hand, for any      *)
(* number of callers, connections, sizes and hang-ups.                     *)
(***************************************************************************)
THEOREM PoolAlwaysSound == PoolSpec => []PoolSound
<1>1. PoolInv => PoolSound
  BY DEF PoolInv
<1> QED
  BY <1>1, PoolInvInit, PoolInvNext, PTL DEF PoolSpec

-----------------------------------------------------------------------------
(* JobQueue *)

HasJob(w) == worker[w].pc \in {"handle", "nack"}

(***************************************************************************)
(* A job that was promoted with n retries and not yet taken out of the     *)
(* sorted set is somewhere else too: it lies in the list or is with a      *)
(* worker, or it has failed again and waits with more retries, or it is    *)
(* over.  The removal that follows takes none of these away.               *)
(***************************************************************************)
Kept(j, n) ==
    \/ \E i \in DOMAIN ready : ready[i].job = j /\ ready[i].retries >= n
    \/ \E w \in QueueWorkers :
        HasJob(w) /\ worker[w].entry.job = j /\ worker[w].entry.retries >= n
    \/ \E y \in delayed : y.job = j /\ y.retries > n
    \/ j \in acked \cup givenUp \cup excused

\* Only the first entry of a promoter can have been pushed.
PromotedKept ==
    \A p \in Promoters : \A i \in DOMAIN promoter[p] :
        LET x == promoter[p][i]
        IN  IF i = 1 /\ ~x.due THEN Kept(x.job, x.retries) ELSE x.due

QueueInv == QueueTypeOK /\ IsFiniteSet(delayed) /\ JobsKept /\ PromotedKept

-----------------------------------------------------------------------------
LEMMA PushLeft ==
    ASSUME NEW S, NEW s \in Seq(S), NEW x \in S
    PROVE  /\ <<x>> \o s \in Seq(S)
           /\ Len(<<x>> \o s) = Len(s) + 1
           /\ (<<x>> \o s)[1] = x
           /\ \A i \in 1..Len(s) : (<<x>> \o s)[i + 1] = s[i]
<1>1. <<x>> \in Seq(S) /\ Len(<<x>>) = 1 /\ <<x>>[1] = x
  OBVIOUS
<1>2. Len(s) \in Nat
  OBVIOUS
<1> QED
  BY <1>1, <1>2, ConcatProperties

LEMMA TupleType ==
    ASSUME NEW S, NEW n \in Nat, NEW s \in [1..n -> S]
    PROVE  s \in Seq(S)
OBVIOUS

\* What a push leaves in the list.
LEMMA PushKeeps ==
    ASSUME ready \in Seq(Entry), NEW x \in Entry, ready' = <<x>> \o ready
    PROVE  /\ ready' \in Seq(Entry)
           /\ \A i \in DOMAIN ready : i + 1 \in DOMAIN ready' /\ ready'[i + 1] = ready[i]
           /\ 1 \in DOMAIN ready' /\ ready'[1] = x
BY PushLeft, LenProperties

\* What a pop leaves, and what it takes.
LEMMA PopKeeps ==
    ASSUME ready \in Seq(Entry), ready # <<>>, ready' = SubSeq(ready, 1, Len(ready) - 1)
    PROVE  /\ ready' \in Seq(Entry)
           /\ Len(ready) \in DOMAIN ready
           /\ ready[Len(ready)] \in Entry
           /\ \A i \in DOMAIN ready : i # Len(ready) => i \in DOMAIN ready' /\ ready'[i] = ready[i]
<1>1. Len(ready) \in Nat \ {0} /\ DOMAIN ready = 1..Len(ready)
  BY LenProperties, EmptySeq
<1>2. \A i \in 1..(Len(ready) - 1) : ready[i] \in Entry
  BY <1>1, ElementOfSeq
<1>3. /\ ready' \in Seq(Entry)
      /\ Len(ready') = Len(ready) - 1
      /\ \A i \in 1..(Len(ready) - 1) : ready'[i] = ready[i]
  <2>1. /\ SubSeq(ready, 1, Len(ready) - 1) \in Seq(Entry)
        /\ Len(SubSeq(ready, 1, Len(ready) - 1)) =
             IF 1 <= Len(ready) - 1 THEN Len(ready) - 1 - 1 + 1 ELSE 0
        /\ \A i \in 1..(Len(ready) - 1 - 1 + 1) :
             SubSeq(ready, 1, Len(ready) - 1)[i] = ready[1 + i - 1]
    BY <1>1, <1>2, SubSeqProperties
  <2> QED BY <1>1, <2>1
<1> QED
  BY <1>1, <1>3, LenProperties, ElementOfSeq
-----------------------------------------------------------------------------
LEMMA QueueTypeNext ==
    ASSUME QueueTypeOK, IsFiniteSet(delayed), [QueueNext]_queueVars
    PROVE  QueueTypeOK' /\ IsFiniteSet(delayed)'
<1> USE DEF QueueTypeOK
<1>1. ASSUME NEW j \in Jobs, Enqueue(j)
      PROVE  QueueTypeOK' /\ IsFiniteSet(delayed)'
  <2>1. [job |-> j, retries |-> 0] \in Entry
    BY DEF Entry
  <2>2. ready' \in Seq(Entry)
    BY <1>1, <2>1, PushKeeps DEF Enqueue
  <2> QED BY <1>1, <2>2 DEF Enqueue
<1>2. ASSUME NEW x \in delayed, TimeForRetry(x)
      PROVE  QueueTypeOK' /\ IsFiniteSet(delayed)'
  <2>1. [x EXCEPT !.due = TRUE] \in DelayedEntry
    BY DEF DelayedEntry
  <2>2. IsFiniteSet(delayed')
    BY <1>2, FS_RemoveElement, FS_AddElement DEF TimeForRetry
  <2> QED BY <1>2, <2>1, <2>2 DEF TimeForRetry
<1>3. ASSUME NEW p \in Promoters, ReadDelayed(p)
      PROVE  QueueTypeOK' /\ IsFiniteSet(delayed)'
  <2> DEFINE D == {x \in delayed : x.due}
  <2>1. Cardinality(D) \in Nat
    BY FS_Subset, FS_CardinalityType
  <2>2. PICK s \in [1..Cardinality(D) -> D] : promoter' = [promoter EXCEPT ![p] = s]
    BY <1>3 DEF ReadDelayed
  <2>3. s \in Seq(DelayedEntry)
    <3>1. s \in Seq(D)
      BY <2>1, TupleType
    <3> QED BY <3>1
  <2> QED BY <1>3, <2>2, <2>3 DEF ReadDelayed
<1>4. ASSUME NEW p \in Promoters, Promote(p)
      PROVE  QueueTypeOK' /\ IsFiniteSet(delayed)'
  <2> DEFINE x == Head(promoter[p])
  <2>1. x \in DelayedEntry /\ Tail(promoter[p]) \in Seq(DelayedEntry)
    BY <1>4, HeadTailProperties DEF Promote
  <2>2. /\ [x EXCEPT !.due = FALSE] \in DelayedEntry
        /\ [job |-> x.job, retries |-> x.retries] \in Entry
    BY <2>1 DEF DelayedEntry, Entry
  <2>3. <<[x EXCEPT !.due = FALSE]>> \o Tail(promoter[p]) \in Seq(DelayedEntry)
    BY <2>1, <2>2, PushLeft
  <2>4. <<[job |-> x.job, retries |-> x.retries]>> \o ready \in Seq(Entry)
    BY <2>2, PushLeft
  <2>5. ready' \in Seq(Entry) /\ promoter' \in [Promoters -> Seq(DelayedEntry)]
    BY <1>4, <2>1, <2>3, <2>4 DEF Promote
  <2>6. queueBudget' \in [failures : Nat, crashes : Nat]
    BY <1>4 DEF Promote, Fails
  <2> QED BY <1>4, <2>5, <2>6 DEF Promote
<1>5. ASSUME NEW p \in Promoters, RemovePromoted(p)
      PROVE  QueueTypeOK' /\ IsFiniteSet(delayed)'
  <2>1. Tail(promoter[p]) \in Seq(DelayedEntry)
    BY <1>5, HeadTailProperties DEF RemovePromoted
  <2>2. delayed' \subseteq delayed /\ IsFiniteSet(delayed')
    <3>1. delayed' \subseteq delayed
      BY <1>5 DEF RemovePromoted
    <3> QED BY <3>1, FS_Subset
  <2>3. queueBudget' \in [failures : Nat, crashes : Nat]
    BY <1>5 DEF RemovePromoted, Fails
  <2> QED BY <1>5, <2>1, <2>2, <2>3 DEF RemovePromoted
<1>6. ASSUME NEW w \in QueueWorkers, Work(w)
      PROVE  QueueTypeOK' /\ IsFiniteSet(delayed)'
  <2>1. CASE Dequeue(w)
    <3>1. ready' \in Seq(Entry) /\ ready[Len(ready)] \in Entry
      BY <2>1, PopKeeps DEF Dequeue
    <3>2. worker' \in [QueueWorkers -> {AtRest} \cup [pc : {"handle", "nack"}, entry : Entry]]
      BY <2>1, <3>1 DEF Dequeue
    <3> QED BY <2>1, <3>1, <3>2 DEF Dequeue
  <2>2. CASE HandleSucceeds(w)
    <3>1. Hand(w) \subseteq Jobs
      BY DEF Hand, Entry, AtRest
    <3> QED BY <2>2, <3>1 DEF HandleSucceeds
  <2>3. CASE HandleFails(w)
    <3>1. worker[w].entry \in Entry /\ DOMAIN worker[w] = {"pc", "entry"}
      BY <2>3 DEF HandleFails, AtRest
    <3>2. [worker[w] EXCEPT !.pc = "nack"] \in [pc : {"handle", "nack"}, entry : Entry]
      BY <2>3, <3>1 DEF HandleFails, AtRest
    <3> QED BY <2>3, <3>2 DEF HandleFails
  <2>4. CASE Nack(w)
    <3>1. worker[w].entry \in Entry
      BY <2>4 DEF Nack, AtRest
    <3>2. /\ worker[w].entry.job \in Jobs
          /\ [job |-> worker[w].entry.job, retries |-> worker[w].entry.retries + 1, due |-> FALSE]
                \in DelayedEntry
      BY <3>1 DEF Entry, DelayedEntry
    <3>3. delayed' \subseteq DelayedEntry /\ IsFiniteSet(delayed')
      <4> DEFINE e == [job |-> worker[w].entry.job, retries |-> worker[w].entry.retries + 1,
                       due |-> FALSE]
      <4>1. IsFiniteSet(delayed \cup {e})
        BY FS_AddElement
      <4>2. delayed' = delayed \/ delayed' = delayed \cup {e}
        BY <2>4 DEF Nack
      <4> QED BY <3>2, <4>1, <4>2
    <3>4. queueBudget' \in [failures : Nat, crashes : Nat]
      BY <2>4 DEF Nack, Fails
    <3>5. {givenUp', excused'} \subseteq SUBSET Jobs
      BY <2>4, <3>2 DEF Nack
    <3> QED BY <2>4, <3>3, <3>4, <3>5 DEF Nack
  <2> QED BY <1>6, <2>1, <2>2, <2>3, <2>4 DEF Work
<1>7. CASE StopQueue
  BY <1>7 DEF StopQueue
<1>8. CASE QueueRestart
  <2>1. \A w \in QueueWorkers : Hand(w) \subseteq Jobs
    BY DEF Hand, Entry, AtRest
  <2>2. excused' \subseteq Jobs
    BY <1>8, <2>1 DEF QueueRestart, InHands
  <2>3. worker' \in [QueueWorkers -> {AtRest} \cup [pc : {"handle", "nack"}, entry : Entry]]
    BY <1>8 DEF QueueRestart
  <2>4. promoter' \in [Promoters -> Seq(DelayedEntry)]
    <3>1. <<>> \in Seq(DelayedEntry)
      OBVIOUS
    <3> QED BY <1>8, <3>1 DEF QueueRestart
  <2>5. queueBudget' \in [failures : Nat, crashes : Nat]
    <3>1. queueBudget \in [failures : Nat, crashes : Nat]
      OBVIOUS
    <3>2. queueBudget' = [queueBudget EXCEPT !.crashes = queueBudget.crashes + 1]
      BY <1>8 DEF QueueRestart
    <3>3. \A b \in [failures : Nat, crashes : Nat] :
            [b EXCEPT !.crashes = b.crashes + 1] \in [failures : Nat, crashes : Nat]
      OBVIOUS
    <3> HIDE DEF QueueTypeOK
    <3> QED BY <3>1, <3>2, <3>3
  <2> QED BY <1>8, <2>2, <2>3, <2>4, <2>5 DEF QueueRestart
<1>9. CASE UNCHANGED queueVars
  BY <1>9 DEF queueVars
<1> QED
  BY <1>1, <1>2, <1>3, <1>4, <1>5, <1>6, <1>7, <1>8, <1>9 DEF QueueNext, PromoteDelayed

\* No step takes a job away that is kept.
LEMMA KeptStays ==
    ASSUME QueueInv, [QueueNext]_queueVars, NEW j, NEW n \in Int, Kept(j, n)
    PROVE  Kept(j, n)'
<1> USE DEF QueueInv, QueueTypeOK
<1> DEFINE InReady == \E i \in DOMAIN ready : ready[i].job = j /\ ready[i].retries >= n
           AtWork == \E w \in QueueWorkers :
                       HasJob(w) /\ worker[w].entry.job = j /\ worker[w].entry.retries >= n
           InDelayed == \E y \in delayed : y.job = j /\ y.retries > n
           IsOver == j \in acked \cup givenUp \cup excused
<1>0. /\ Kept(j, n) <=> InReady \/ AtWork \/ InDelayed \/ IsOver
      /\ Kept(j, n)' <=> InReady' \/ AtWork' \/ InDelayed' \/ IsOver'
  BY DEF Kept, HasJob
<1> HIDE DEF InReady, AtWork, InDelayed, IsOver
<1>1. ASSUME NEW k \in Jobs, Enqueue(k)
      PROVE  Kept(j, n)'
  <2>1. InReady => InReady'
    <3>1. [job |-> k, retries |-> 0] \in Entry
      BY DEF Entry
    <3> QED BY <1>1, <3>1, PushKeeps DEF Enqueue, InReady
  <2>2. UNCHANGED <<AtWork, InDelayed, IsOver>>
    BY <1>1 DEF Enqueue, AtWork, InDelayed, IsOver, HasJob
  <2> QED BY <1>0, <2>1, <2>2
<1>2. ASSUME NEW x \in delayed, TimeForRetry(x)
      PROVE  Kept(j, n)'
  <2>1. InDelayed => InDelayed'
    <3>1. [x EXCEPT !.due = TRUE].job = x.job /\ [x EXCEPT !.due = TRUE].retries = x.retries
      BY DEF DelayedEntry
    <3> QED BY <1>2, <3>1 DEF TimeForRetry, InDelayed
  <2>2. UNCHANGED <<InReady, AtWork, IsOver>>
    BY <1>2 DEF TimeForRetry, InReady, AtWork, IsOver, HasJob
  <2> QED BY <1>0, <2>1, <2>2
<1>3. ASSUME NEW p \in Promoters, ReadDelayed(p)
      PROVE  Kept(j, n)'
  BY <1>0, <1>3 DEF ReadDelayed, InReady, AtWork, InDelayed, IsOver, HasJob
<1>4. ASSUME NEW p \in Promoters, Promote(p)
      PROVE  Kept(j, n)'
  <2> DEFINE e == [job |-> Head(promoter[p]).job, retries |-> Head(promoter[p]).retries]
  <2>1. e \in Entry
    <3>1. Head(promoter[p]) \in DelayedEntry
      BY <1>4, HeadTailProperties DEF Promote
    <3> QED BY <3>1 DEF DelayedEntry, Entry
  <2>2. InReady => InReady'
    BY <1>4, <2>1, PushKeeps DEF Promote, InReady
  <2>3. UNCHANGED <<AtWork, InDelayed, IsOver>>
    BY <1>4 DEF Promote, AtWork, InDelayed, IsOver, HasJob
  <2> QED BY <1>0, <2>2, <2>3
<1>5. ASSUME NEW p \in Promoters, RemovePromoted(p)
      PROVE  Kept(j, n)'
  <2> DEFINE x == Head(promoter[p])
  <2>1. 1 \in DOMAIN promoter[p] /\ promoter[p][1] = x /\ x \in DelayedEntry /\ ~x.due
    BY <1>5, HeadTailProperties, LenProperties, EmptySeq DEF RemovePromoted
  <2>2. Kept(x.job, x.retries)
    BY <2>1 DEF PromotedKept
  <2>3. delayed \ {[x EXCEPT !.due = TRUE]} \subseteq delayed'
    BY <1>5 DEF RemovePromoted
  <2>4. \A y \in delayed : y \notin delayed' => y.job = x.job /\ y.retries = x.retries
    BY <2>1, <2>3 DEF DelayedEntry
  <2>5. UNCHANGED <<InReady, AtWork, IsOver>>
    BY <1>5 DEF RemovePromoted, InReady, AtWork, IsOver, HasJob
  <2>6. CASE \E y \in delayed' : y.job = j /\ y.retries > n
    BY <1>0, <2>6 DEF InDelayed
  <2>7. CASE InDelayed /\ ~\E y \in delayed' : y.job = j /\ y.retries > n
    <3>1. x.job = j /\ x.retries > n
      BY <2>4, <2>7 DEF InDelayed
    <3>2. x.retries \in Nat /\ \A y \in delayed : y.retries \in Nat
      BY <2>1 DEF DelayedEntry
    <3>3. ~\E y \in delayed : y.job = j /\ y.retries > x.retries
      BY <2>4, <2>7, <3>1, <3>2
    <3>4. (\E i \in DOMAIN ready : ready[i].job = j /\ ready[i].retries >= x.retries) => InReady
      <4>1. \A i \in DOMAIN ready : ready[i].retries \in Nat
        <5>1. \A i \in DOMAIN ready : ready[i] \in Entry
          BY LenProperties, ElementOfSeq
        <5> QED BY <5>1 DEF Entry
      <4> QED BY <3>1, <3>2, <4>1 DEF InReady
    <3>5. (\E w \in QueueWorkers :
             HasJob(w) /\ worker[w].entry.job = j /\ worker[w].entry.retries >= x.retries) => AtWork
      <4>1. \A w \in QueueWorkers : HasJob(w) => worker[w].entry.retries \in Nat
        BY DEF HasJob, AtRest, Entry
      <4> QED BY <3>1, <3>2, <4>1 DEF AtWork
    <3>6. InReady \/ AtWork \/ IsOver
      BY <2>2, <3>1, <3>3, <3>4, <3>5 DEF Kept, IsOver
    <3> QED BY <1>0, <2>5, <3>6
  <2> QED BY <1>0, <2>5, <2>6, <2>7
<1>6. ASSUME NEW w \in QueueWorkers, Work(w)
      PROVE  Kept(j, n)'
  <2>1. CASE Dequeue(w)
    <3>1. /\ ready[Len(ready)] \in Entry
          /\ \A i \in DOMAIN ready : i # Len(ready) => i \in DOMAIN ready' /\ ready'[i] = ready[i]
      BY <2>1, PopKeeps DEF Dequeue
    <3>2. worker[w] = AtRest /\ ~HasJob(w)
      BY <2>1 DEF Dequeue, HasJob, AtRest
    <3>3. AtWork => AtWork'
      BY <2>1, <3>2 DEF Dequeue, AtWork, HasJob
    <3>4. InReady => InReady' \/ AtWork'
      <4>1. HasJob(w)' /\ worker'[w].entry = ready[Len(ready)]
        BY <2>1 DEF Dequeue, HasJob
      <4> QED BY <3>1, <4>1 DEF InReady, AtWork
    <3>5. UNCHANGED <<InDelayed, IsOver>>
      BY <2>1 DEF Dequeue, InDelayed, IsOver
    <3> QED BY <1>0, <3>3, <3>4, <3>5
  <2>2. CASE HandleSucceeds(w)
    <3>1. AtWork => AtWork' \/ IsOver'
      BY <2>2 DEF HandleSucceeds, AtWork, IsOver, HasJob, Hand
    <3>2. (IsOver => IsOver') /\ UNCHANGED <<InReady, InDelayed>>
      BY <2>2 DEF HandleSucceeds, InReady, InDelayed, IsOver
    <3> QED BY <1>0, <3>1, <3>2
  <2>3. CASE HandleFails(w)
    <3>1. AtWork => AtWork'
      BY <2>3 DEF HandleFails, AtWork, HasJob
    <3>2. UNCHANGED <<InReady, InDelayed, IsOver>>
      BY <2>3 DEF HandleFails, InReady, InDelayed, IsOver
    <3> QED BY <1>0, <3>1, <3>2
  <2>4. CASE Nack(w)
    <3> DEFINE e == worker[w].entry
    <3>1. e \in Entry
      BY <2>4 DEF Nack, AtRest
    <3>2. /\ \A v \in QueueWorkers \ {w} : worker'[v] = worker[v]
          /\ \/ e.job \in givenUp' \cup excused'
             \/ [job |-> e.job, retries |-> e.retries + 1, due |-> FALSE] \in delayed'
      BY <2>4 DEF Nack
    <3>3. AtWork => AtWork' \/ InDelayed' \/ IsOver'
      <4>1. CASE e.job = j /\ e.retries >= n
        BY <3>1, <3>2, <4>1 DEF InDelayed, IsOver, Entry
      <4>2. CASE ~(e.job = j /\ e.retries >= n)
        BY <3>2, <4>2 DEF AtWork, HasJob
      <4> QED BY <4>1, <4>2
    <3>4. (IsOver => IsOver') /\ (InDelayed => InDelayed') /\ UNCHANGED InReady
      BY <2>4 DEF Nack, InReady, InDelayed, IsOver
    <3> QED BY <1>0, <3>3, <3>4
  <2> QED BY <1>6, <2>1, <2>2, <2>3, <2>4 DEF Work
<1>7. CASE StopQueue
  BY <1>0, <1>7 DEF StopQueue, InReady, AtWork, InDelayed, IsOver, HasJob
<1>8. CASE QueueRestart
  <2>1. AtWork => IsOver'
    BY <1>8 DEF QueueRestart, AtWork, IsOver, HasJob, Hand, InHands
  <2>2. (IsOver => IsOver') /\ UNCHANGED <<InReady, InDelayed>>
    BY <1>8 DEF QueueRestart, InReady, InDelayed, IsOver
  <2> QED BY <1>0, <2>1, <2>2
<1>9. CASE UNCHANGED queueVars
  BY <1>0, <1>9 DEF queueVars, InReady, AtWork, InDelayed, IsOver, HasJob
<1> QED
  BY <1>1, <1>2, <1>3, <1>4, <1>5, <1>6, <1>7, <1>8, <1>9 DEF QueueNext, PromoteDelayed

LEMMA JobsKeptNext ==
    ASSUME QueueInv, QueueTypeOK', [QueueNext]_queueVars
    PROVE  JobsKept'
<1> USE DEF QueueInv
<1> SUFFICES ASSUME NEW j \in enqueued'
             PROVE  j \in (Lying \cup InHands \cup acked \cup givenUp \cup excused)'
  BY DEF JobsKept
<1>1. CASE Kept(j, -1)'
  BY <1>1 DEF Kept, HasJob, Hand, InHands, Lying
<1>2. CASE j \in enqueued
  <2>1. j \in Lying \cup InHands \cup acked \cup givenUp \cup excused
    BY <1>2 DEF JobsKept
  <2>2. \A i \in DOMAIN ready : ready[i].retries >= -1
    <3>1. \A i \in DOMAIN ready : ready[i] \in Entry
      BY LenProperties, ElementOfSeq DEF QueueTypeOK
    <3> QED BY <3>1 DEF Entry
  <2>3. \A y \in delayed : y.retries > -1
    BY DEF QueueTypeOK, DelayedEntry
  <2>4. \A w \in QueueWorkers : HasJob(w) => worker[w].entry.retries >= -1
    <3>1. \A w \in QueueWorkers : HasJob(w) => worker[w].entry \in Entry
      BY DEF QueueTypeOK, HasJob, AtRest
    <3> QED BY <3>1 DEF Entry
  <2>5. Kept(j, -1)
    BY <2>1, <2>2, <2>3, <2>4 DEF Kept, Lying, Hand, InHands, HasJob
  <2> QED BY <1>1, <2>5, KeptStays
<1>3. CASE j \notin enqueued
  <2>1. PICK k \in Jobs : Enqueue(k)
    BY <1>3 DEF QueueNext, queueVars, PromoteDelayed, Work, TimeForRetry, ReadDelayed, Promote,
       RemovePromoted, Dequeue, HandleSucceeds, HandleFails, Nack, StopQueue, QueueRestart
  <2>2. j = k
    BY <1>3, <2>1 DEF Enqueue
  <2>3. [job |-> k, retries |-> 0] \in Entry
    BY DEF Entry
  <2>4. 1 \in DOMAIN ready' /\ ready'[1] = [job |-> k, retries |-> 0]
    BY <2>1, <2>3, PushKeeps DEF Enqueue, QueueTypeOK
  <2> QED BY <2>2, <2>4 DEF Lying
<1> QED
  BY <1>2, <1>3

\* A promoter that drops its first entry has only entries left that are due.
LEMMA TailIsDue ==
    ASSUME QueueTypeOK, PromotedKept, NEW p \in Promoters, promoter[p] # <<>>
    PROVE  \A i \in DOMAIN Tail(promoter[p]) : Tail(promoter[p])[i].due
<1>1. /\ Tail(promoter[p]) \in Seq(DelayedEntry)
      /\ Len(promoter[p]) \in Nat /\ Len(Tail(promoter[p])) = Len(promoter[p]) - 1
      /\ \A i \in 1..Len(Tail(promoter[p])) : Tail(promoter[p])[i] = promoter[p][i + 1]
  BY HeadTailProperties, LenProperties DEF QueueTypeOK
<1>2. /\ DOMAIN promoter[p] = 1..Len(promoter[p])
      /\ DOMAIN Tail(promoter[p]) = 1..Len(Tail(promoter[p]))
  BY <1>1, LenProperties DEF QueueTypeOK
<1> QED
  BY <1>1, <1>2 DEF PromotedKept

LEMMA PromotedKeptNext ==
    ASSUME QueueInv, QueueTypeOK', [QueueNext]_queueVars
    PROVE  PromotedKept'
<1> USE DEF QueueInv
<1> DEFINE Sound(s, i) ==
       IF i = 1 /\ ~s[i].due
       THEN \A j, n : j = s[i].job /\ n = s[i].retries => Kept(j, n)'
       ELSE s[i].due
<1>1. \A q \in Promoters : \A i \in DOMAIN promoter[q] : Sound(promoter[q], i)
  <2> SUFFICES ASSUME NEW q \in Promoters, NEW i \in DOMAIN promoter[q],
                      i = 1, ~promoter[q][i].due,
                      NEW j, NEW n, j = promoter[q][i].job, n = promoter[q][i].retries
               PROVE  Kept(j, n)'
    BY DEF PromotedKept
  <2>1. promoter[q][i] \in DelayedEntry
    BY LenProperties, ElementOfSeq DEF QueueTypeOK
  <2>2. n \in Int
    BY <2>1 DEF DelayedEntry
  <2>3. Kept(j, n)
    BY DEF PromotedKept
  <2> QED BY <2>2, <2>3, KeptStays
<1> SUFFICES ASSUME NEW q \in Promoters
             PROVE  \A i \in DOMAIN promoter'[q] : Sound(promoter'[q], i)
  BY DEF PromotedKept
<1>2. CASE promoter'[q] = promoter[q]
  BY <1>1, <1>2
<1>3. ASSUME ReadDelayed(q)
      PROVE  \A i \in DOMAIN promoter'[q] : Sound(promoter'[q], i)
  <2>1. PICK s \in [1..Cardinality({x \in delayed : x.due}) -> {x \in delayed : x.due}] :
          promoter'[q] = s
    BY <1>3 DEF ReadDelayed, QueueTypeOK
  <2> QED BY <2>1
<1>4. ASSUME Promote(q)
      PROVE  \A i \in DOMAIN promoter'[q] : Sound(promoter'[q], i)
  <2> DEFINE x == Head(promoter[q])
             t == Tail(promoter[q])
             y == [x EXCEPT !.due = FALSE]
             e == [job |-> x.job, retries |-> x.retries]
  <2>1. x \in DelayedEntry /\ t \in Seq(DelayedEntry)
    BY <1>4, HeadTailProperties DEF Promote, QueueTypeOK
  <2>2. y \in DelayedEntry /\ e \in Entry /\ ~y.due
    BY <2>1 DEF DelayedEntry, Entry
  <2>3. \A i \in DOMAIN t : t[i].due
    BY <1>4, TailIsDue DEF Promote
  <2>4. CASE promoter'[q] = t
    BY <2>3, <2>4
  <2>5. CASE promoter'[q] = <<y>> \o t /\ ready' = <<e>> \o ready
    <3>1. \A j, n : j = y.job /\ n = y.retries => Kept(j, n)'
      <4>1. 1 \in DOMAIN ready' /\ ready'[1] = e
        BY <2>2, <2>5, PushKeeps DEF QueueTypeOK
      <4>2. e.job = y.job /\ e.retries = y.retries /\ e.retries \in Nat
        BY <2>1 DEF DelayedEntry
      <4> QED BY <4>1, <4>2 DEF Kept
    <3>2. /\ Len(t) \in Nat /\ DOMAIN t = 1..Len(t)
          /\ DOMAIN promoter'[q] = 1..(Len(t) + 1)
          /\ promoter'[q][1] = y
          /\ \A i \in 1..Len(t) : promoter'[q][i + 1] = t[i]
      BY <2>1, <2>2, <2>5, PushLeft, LenProperties
    <3>3. \A i \in 2..(Len(t) + 1) : promoter'[q][i].due
      <4>1. \A i \in 2..(Len(t) + 1) : i - 1 \in 1..Len(t) /\ promoter'[q][(i - 1) + 1] = t[i - 1]
        BY <3>2
      <4> QED BY <2>3, <3>2, <4>1
    <3>4. SUFFICES ASSUME NEW i \in DOMAIN promoter'[q]
                   PROVE  Sound(promoter'[q], i)
      OBVIOUS
    <3>5. CASE i = 1
      BY <2>2, <3>1, <3>2, <3>5
    <3>6. CASE i # 1
      BY <3>2, <3>3, <3>6
    <3> QED BY <3>5, <3>6
  <2> QED BY <1>4, <2>4, <2>5 DEF Promote, QueueTypeOK
<1>5. ASSUME RemovePromoted(q)
      PROVE  \A i \in DOMAIN promoter'[q] : Sound(promoter'[q], i)
  <2>1. promoter'[q] = Tail(promoter[q])
    BY <1>5 DEF RemovePromoted, QueueTypeOK
  <2>2. \A i \in DOMAIN Tail(promoter[q]) : Tail(promoter[q])[i].due
    BY <1>5, TailIsDue DEF RemovePromoted
  <2> QED BY <2>1, <2>2
<1>6. CASE QueueRestart
  <2>1. promoter'[q] = <<>>
    BY <1>6 DEF QueueRestart
  <2> QED BY <2>1
<1>7. ASSUME NEW p \in Promoters, PromoteDelayed(p), p # q
      PROVE  promoter'[q] = promoter[q]
  BY <1>7 DEF PromoteDelayed, ReadDelayed, Promote, RemovePromoted, QueueTypeOK
<1>8. ASSUME [QueueNext]_queueVars, ~QueueRestart, \A p \in Promoters : ~PromoteDelayed(p)
      PROVE  promoter' = promoter
  BY <1>8 DEF QueueNext, queueVars, Work, Enqueue, TimeForRetry, Dequeue, HandleSucceeds,
     HandleFails, Nack, StopQueue
<1> QED
  BY <1>2, <1>3, <1>4, <1>5, <1>6, <1>7, <1>8 DEF PromoteDelayed

LEMMA QueueInvInit == QueueInit => QueueInv
<1> SUFFICES ASSUME QueueInit PROVE QueueInv
  OBVIOUS
<1>1. QueueTypeOK
  <2>1. <<>> \in Seq(Entry) /\ <<>> \in Seq(DelayedEntry)
    OBVIOUS
  <2> QED BY <2>1 DEF QueueInit, QueueTypeOK
<1>2. IsFiniteSet(delayed)
  BY FS_EmptySet DEF QueueInit
<1>3. JobsKept
  BY DEF QueueInit, JobsKept
<1>4. PromotedKept
  <2>1. \A p \in Promoters : promoter[p] = <<>>
    BY DEF QueueInit
  <2> QED BY <2>1 DEF PromotedKept
<1> QED
  BY <1>1, <1>2, <1>3, <1>4 DEF QueueInv

LEMMA QueueInvNext == QueueInv /\ [QueueNext]_queueVars => QueueInv'
<1> SUFFICES ASSUME QueueInv, [QueueNext]_queueVars
             PROVE  QueueInv'
  OBVIOUS
<1>1. QueueTypeOK' /\ IsFiniteSet(delayed)'
  BY QueueTypeNext DEF QueueInv
<1> QED
  BY <1>1, JobsKeptNext, PromotedKeptNext DEF QueueInv

(***************************************************************************)
(* No job that was accepted is lost, with any number of workers, jobs,     *)
(* retries, failing commands and restarts, but in the two ways that the    *)
(* property names.                                                         *)
(***************************************************************************)
THEOREM JobsAlwaysKept == QueueSpec => []JobsKept
<1>1. QueueInv => JobsKept
  BY DEF QueueInv
<1> QED
  BY <1>1, QueueInvInit, QueueInvNext, PTL DEF QueueSpec

-----------------------------------------------------------------------------
(* DomainLimiter *)

Plain == Feeders \ WarmingFeeders

(***************************************************************************)
(* The feeders that may still send to d in minute m without being counted  *)
(* for it once more: those that asked earlier, and those that asked in m   *)
(* and were let through.                                                   *)
(***************************************************************************)
Coming(d, m) ==
    {f \in Plain :
        /\ feeder[f].domain = d
        /\ \/ /\ feeder[f].now < m
              /\ feeder[f].pc \in {"minute", "hour", "minuteWait", "hourWait", "send"}
           \/ feeder[f].pc \in {"hour", "send"}}

\* Of the requests that were counted in a minute, those that the limit allows.
Allowed(d, m) == IF minuteCount[d][m] < MinuteLimit[d] THEN minuteCount[d][m] ELSE MinuteLimit[d]

\* A feeder asks at the present minute, and one whose sender is in warmup never feeds.
FeedersSound ==
    \A f \in Feeders :
        /\ feeder[f].now <= clock
        /\ f \in WarmingFeeders => feeder[f].pc \in {"starting", "getLimit"}

FutureIsEmpty == \A d \in Domains : \A m \in Minutes : m > clock => sent[d][m] = 0

\* What was sent in this minute and what is still coming.
PresentBounded ==
    \A d \in Domains :
        sent[d][clock] + Cardinality(Coming(d, clock))
            <= Allowed(d, clock) + Cardinality(Plain) + redisErrors

LimiterInv ==
    LimiterTypeOK /\ FeedersSound /\ FutureIsEmpty /\ PresentBounded /\ MinuteOvershootBounded

-----------------------------------------------------------------------------
LEMMA PlainFinite ==
    /\ IsFiniteSet(Plain)
    /\ Cardinality(Plain) \in Nat
BY LimiterAssumption, FS_Subset, FS_CardinalityType DEF Plain

LEMMA ComingFinite ==
    ASSUME NEW d, NEW m
    PROVE  /\ IsFiniteSet(Coming(d, m))
           /\ Cardinality(Coming(d, m)) \in Nat
           /\ Cardinality(Coming(d, m)) <= Cardinality(Plain)
BY PlainFinite, FS_Subset, FS_CardinalityType DEF Coming

LEMMA LimiterTypeNext ==
    ASSUME LimiterTypeOK, [LimiterNext]_limiterVars
    PROVE  LimiterTypeOK'
<1> DEFINE PCs == {"starting", "getLimit", "next", "minute", "hour",
                   "minuteWait", "hourWait", "send"}
           T == [pc : PCs, domain : Domains, now : Minutes]
<1>0. \A m \in Minutes : HourOf(m) \in Hours
  BY DEF Hours
<1>m. \A f \in Feeders : \A pc \in PCs : Moves(f, pc) => feeder' \in [Feeders -> T]
  <2> SUFFICES ASSUME NEW f \in Feeders, NEW pc \in PCs, Moves(f, pc)
               PROVE  feeder' \in [Feeders -> T]
    OBVIOUS
  <2>1. feeder \in [Feeders -> T] /\ feeder[f] \in T
    BY DEF LimiterTypeOK
  <2>2. feeder' = [feeder EXCEPT ![f] = [feeder[f] EXCEPT !.pc = pc]]
    BY <2>1 DEF Moves
  <2>3. [feeder[f] EXCEPT !.pc = pc] \in T
    BY <2>1
  <2> QED BY <2>1, <2>2, <2>3
<1>1. CASE Tick
  BY <1>1, LimiterAssumption DEF Tick, LimiterTypeOK, Minutes
<1>2. ASSUME NEW f \in Feeders, Feed(f)
      PROVE  LimiterTypeOK'
  <2>0. feeder[f] \in T
    BY DEF LimiterTypeOK
  <2>1. CASE BeginFeeding(f)
    <3>1. feeder' \in [Feeders -> T]
      BY <2>1, <1>m DEF BeginFeeding
    <3> QED BY <2>1, <3>1 DEF BeginFeeding, LimiterTypeOK, Minutes
  <2>2. CASE SetWarmupFactor(f)
    <3>1. feeder' \in [Feeders -> T]
      BY <2>2, <1>m DEF SetWarmupFactor
    <3> QED BY <2>2, <3>1 DEF SetWarmupFactor, LimiterTypeOK, Minutes
  <2>3. CASE Allow(f)
    <3>1. feeder' \in [Feeders -> T]
      BY <2>3 DEF Allow, LimiterTypeOK
    <3> QED BY <2>3, <3>1 DEF Allow, LimiterTypeOK, Minutes
  <2>4. CASE CheckMinute(f)
    <3>1. minuteCount' \in [Domains -> [Minutes -> Nat]]
      BY <2>4, <2>0 DEF CheckMinute, LimiterTypeOK
    <3>2. feeder' \in [Feeders -> T]
      <4>1. Moves(f, "minuteWait") \/ Moves(f, "hour")
        BY <2>4 DEF CheckMinute
      <4> QED BY <4>1, <1>m
    <3> QED BY <2>4, <3>1, <3>2 DEF CheckMinute, LimiterTypeOK, Minutes
  <2>5. CASE CheckHour(f)
    <3>1. hourCount' \in [Domains -> [Hours -> Nat]]
      <4>1. HourOf(feeder[f].now) \in Hours
        BY <1>0, <2>0
      <4> QED BY <2>5, <2>0, <4>1 DEF CheckHour, LimiterTypeOK
    <3>2. feeder' \in [Feeders -> T]
      <4>1. Moves(f, "hourWait") \/ Moves(f, "send")
        BY <2>5 DEF CheckHour
      <4> QED BY <4>1, <1>m
    <3> QED BY <2>5, <3>1, <3>2 DEF CheckHour, LimiterTypeOK, Minutes
  <2>6. CASE RedisFails(f)
    <3>1. feeder' \in [Feeders -> T]
      BY <2>6, <1>m DEF RedisFails
    <3>2. redisErrors' \in 0..MaxRedisErrors
      BY <2>6, LimiterAssumption DEF RedisFails, LimiterTypeOK
    <3> QED BY <2>6, <3>1, <3>2 DEF RedisFails, LimiterTypeOK, Minutes
  <2>7. CASE AwaitWindow(f)
    <3>1. feeder' \in [Feeders -> T]
      BY <2>7, <1>m DEF AwaitWindow
    <3> QED BY <2>7, <3>1 DEF AwaitWindow, LimiterTypeOK, Minutes
  <2>8. CASE PassOn(f)
    <3>1. sent' \in [Domains -> [Minutes -> Nat]]
      BY <2>8, <2>0 DEF PassOn, LimiterTypeOK
    <3>2. feeder' \in [Feeders -> T]
      BY <2>8, <1>m DEF PassOn
    <3> QED BY <2>8, <3>1, <3>2 DEF PassOn, LimiterTypeOK, Minutes
  <2> QED BY <1>2, <2>1, <2>2, <2>3, <2>4, <2>5, <2>6, <2>7, <2>8 DEF Feed
<1>3. CASE UNCHANGED limiterVars
  BY <1>3 DEF limiterVars, LimiterTypeOK, Minutes
<1> QED
  BY <1>1, <1>2, <1>3 DEF LimiterNext

LEMMA FeedersSoundNext ==
    ASSUME LimiterTypeOK, FeedersSound, [LimiterNext]_limiterVars
    PROVE  FeedersSound'
<1> USE DEF LimiterTypeOK, FeedersSound, Minutes
<1>1. CASE Tick
  BY <1>1, LimiterAssumption DEF Tick
<1>2. ASSUME NEW f \in Feeders, Feed(f)
      PROVE  FeedersSound'
  <2>1. \A g \in Feeders \ {f} : feeder'[g] = feeder[g]
    BY <1>2 DEF Feed, BeginFeeding, SetWarmupFactor, Allow, CheckMinute, CheckHour, RedisFails,
                AwaitWindow, PassOn, Moves
  <2>2. clock' = clock
    BY <1>2 DEF Feed, BeginFeeding, SetWarmupFactor, Allow, CheckMinute, CheckHour, RedisFails,
                AwaitWindow, PassOn
  <2>3. feeder'[f].now <= clock
    <3>1. CASE Allow(f)
      BY <3>1 DEF Allow
    <3>2. CASE ~Allow(f)
      <4>1. \E pc : Moves(f, pc)
        BY <1>2, <3>2 DEF Feed, BeginFeeding, SetWarmupFactor, CheckMinute, CheckHour, RedisFails,
                          AwaitWindow, PassOn
      <4> QED BY <4>1 DEF Moves
    <3> QED BY <3>1, <3>2
  <2>4. f \in WarmingFeeders => feeder'[f].pc = "getLimit"
    BY <1>2 DEF Feed, BeginFeeding, SetWarmupFactor, Allow, CheckMinute, CheckHour, RedisFails,
                AwaitWindow, PassOn, Moves, Is
  <2> QED BY <2>1, <2>2, <2>3, <2>4
<1>3. CASE UNCHANGED limiterVars
  BY <1>3 DEF limiterVars
<1> QED
  BY <1>1, <1>2, <1>3 DEF LimiterNext

\* The step of a feeder changes whether that feeder is coming, and no other.
LEMMA ComingChanges ==
    ASSUME NEW f \in Feeders, NEW d \in Domains, clock' = clock,
           \A g \in Feeders \ {f} : feeder'[g] = feeder[g]
    PROVE  Cardinality(Coming(d, clock)') =
                Cardinality(Coming(d, clock)) - (IF f \in Coming(d, clock) THEN 1 ELSE 0)
                                              + (IF f \in Coming(d, clock)' THEN 1 ELSE 0)
<1> DEFINE C == Coming(d, clock)
           R == C \ {f}
<1>1. Coming(d, clock)' = IF f \in Coming(d, clock)' THEN R \cup {f} ELSE R
  BY DEF Coming, Plain
<1>2. IsFiniteSet(C) /\ Cardinality(C) \in Nat
  BY ComingFinite
<1>3. /\ IsFiniteSet(R)
      /\ Cardinality(R) = Cardinality(C) - (IF f \in C THEN 1 ELSE 0)
  BY <1>2, FS_RemoveElement
<1>4. Cardinality(R \cup {f}) = Cardinality(R) + 1
  <2>1. f \notin R
    OBVIOUS
  <2> QED BY <1>3, <2>1, FS_AddElement
<1>5. CASE f \in Coming(d, clock)'
  <2>1. Cardinality(Coming(d, clock)') = Cardinality(R) + 1
    BY <1>1, <1>4, <1>5
  <2> QED BY <1>3, <1>5, <2>1
<1>6. CASE f \notin Coming(d, clock)'
  <2>1. Cardinality(Coming(d, clock)') = Cardinality(R)
    BY <1>1, <1>6
  <2> HIDE DEF R
  <2> QED BY <1>2, <1>3, <1>6, <2>1
<1> QED
  BY <1>5, <1>6

\* Feeders in motion do not warm up.
LEMMA PlainWhenActive ==
    ASSUME FeedersSound, NEW f \in Feeders, feeder[f].pc \notin {"starting", "getLimit"}
    PROVE  f \in Plain
BY DEF FeedersSound, Plain

LEMMA PresentBoundedNext ==
    ASSUME LimiterTypeOK, FeedersSound, FutureIsEmpty, PresentBounded, [LimiterNext]_limiterVars,
           NEW d \in Domains
    PROVE  sent'[d][clock'] + Cardinality(Coming(d, clock)')
             <= Allowed(d, clock)' + Cardinality(Plain) + redisErrors'
<1> DEFINE C == Coming(d, clock)
           Goal == sent'[d][clock'] + Cardinality(Coming(d, clock)')
                     <= Allowed(d, clock)' + Cardinality(Plain) + redisErrors'
<1>1. /\ clock \in Minutes /\ sent[d][clock] \in Nat
      /\ minuteCount[d][clock] \in Nat /\ MinuteLimit[d] \in Nat
      /\ redisErrors \in Nat
      /\ Allowed(d, clock) \in Nat /\ Cardinality(C) \in Nat /\ Cardinality(Plain) \in Nat
  BY LimiterAssumption, ComingFinite, PlainFinite DEF LimiterTypeOK, Allowed
<1>2. sent[d][clock] + Cardinality(C) <= Allowed(d, clock) + Cardinality(Plain) + redisErrors
  BY DEF PresentBounded
<1>3. CASE Tick
  <2>1. clock + 1 \in Minutes /\ clock + 1 > clock
    BY <1>3, <1>1, LimiterAssumption DEF Tick, Minutes
  <2>2. sent'[d][clock'] = 0
    BY <1>3, <2>1 DEF Tick, FutureIsEmpty
  <2>3. /\ Cardinality(Coming(d, clock)') \in Nat
        /\ Cardinality(Coming(d, clock)') <= Cardinality(Plain)
    <3>1. Coming(d, clock)' \subseteq Plain
      BY DEF Coming
    <3> QED BY <3>1, PlainFinite, FS_Subset, FS_CardinalityType
  <2>4. Allowed(d, clock)' \in Nat
    <3>1. minuteCount'[d][clock'] \in Nat
      BY <1>3, <2>1 DEF Tick, LimiterTypeOK
    <3> QED BY <3>1, <1>1 DEF Allowed
  <2>5. redisErrors' = redisErrors
    BY <1>3 DEF Tick
  <2> QED BY <1>1, <2>2, <2>3, <2>4, <2>5
<1>4. ASSUME NEW f \in Feeders, Feed(f)
      PROVE  Goal
  <2> DEFINE was == IF f \in C THEN 1 ELSE 0
             is == IF f \in Coming(d, clock)' THEN 1 ELSE 0
  <2>1. clock' = clock /\ \A g \in Feeders \ {f} : feeder'[g] = feeder[g]
    BY <1>4 DEF Feed, BeginFeeding, SetWarmupFactor, Allow, CheckMinute, CheckHour, RedisFails,
                AwaitWindow, PassOn, Moves, LimiterTypeOK
  <2>2. Cardinality(Coming(d, clock)') = Cardinality(C) - was + is
    BY <2>1, ComingChanges
  <2>3. was \in {0, 1} /\ is \in {0, 1}
    OBVIOUS
  <2>4. ASSUME NEW a \in Nat, Allowed(d, clock)' = a,
               NEW s \in Nat, sent'[d][clock] = s,
               NEW e \in Nat, redisErrors' = e,
               s + is + Allowed(d, clock) + redisErrors <= sent[d][clock] + was + a + e
        PROVE  Goal
    <3> HIDE DEF was, is, C
    <3>1. sent'[d][clock'] = s
      BY <2>1, <2>4
    <3> QED BY <1>1, <1>2, <2>2, <2>3, <2>4, <3>1
  <2>5. ASSUME sent' = sent, minuteCount' = minuteCount, redisErrors' = redisErrors, is <= was
        PROVE  Goal
    <3>1. Allowed(d, clock)' = Allowed(d, clock)
      BY <2>1, <2>5 DEF Allowed
    <3> HIDE DEF was, is, C
    <3>2. sent[d][clock] + is + Allowed(d, clock) + redisErrors
            <= sent[d][clock] + was + Allowed(d, clock) + redisErrors
      BY <2>5, <1>1, <2>3
    <3> QED BY <2>4, <2>5, <3>1, <3>2, <1>1
  <2>6. CASE BeginFeeding(f)
    <3>1. feeder'[f].pc = "next"
      BY <2>6 DEF BeginFeeding, Moves, LimiterTypeOK
    <3>2. f \notin Coming(d, clock)'
      BY <3>1 DEF Coming
    <3> QED BY <2>5, <2>6, <3>2 DEF BeginFeeding
  <2>7. CASE SetWarmupFactor(f)
    <3>1. f \notin Coming(d, clock)'
      BY <2>7 DEF SetWarmupFactor, Coming, Plain
    <3> QED BY <2>5, <2>7, <3>1 DEF SetWarmupFactor
  <2>8. CASE Allow(f)
    <3>1. feeder'[f].pc = "minute" /\ feeder'[f].now = clock
      BY <2>8 DEF Allow, LimiterTypeOK
    <3>2. f \notin Coming(d, clock)'
      BY <2>1, <3>1, <1>1 DEF Coming, Minutes
    <3> QED BY <2>5, <2>8, <3>2 DEF Allow
  <2>9. CASE CheckMinute(f)
    <3> DEFINE e == feeder[f].domain
               m == feeder[f].now
    <3>1. /\ e \in Domains /\ m \in Minutes /\ m <= clock
          /\ feeder[f].pc = "minute" /\ f \in Plain
      BY <2>9, PlainWhenActive DEF CheckMinute, Is, LimiterTypeOK, FeedersSound
    <3>2. /\ feeder'[f].domain = e /\ feeder'[f].now = m
          /\ feeder'[f].pc = IF minuteCount[e][m] + 1 > MinuteLimit[e] THEN "minuteWait" ELSE "hour"
      BY <2>9 DEF CheckMinute, Moves, LimiterTypeOK
    <3>3. /\ minuteCount' = [minuteCount EXCEPT ![e][m] = @ + 1]
          /\ sent' = sent /\ redisErrors' = redisErrors
      BY <2>9 DEF CheckMinute
    <3>4. CASE d = e /\ m = clock
      <4>1. minuteCount'[d][clock'] = minuteCount[d][clock] + 1
        BY <3>1, <3>3, <3>4, <2>1 DEF LimiterTypeOK
      <4>2. Allowed(d, clock)' = Allowed(d, clock) + is
        <5>1. CASE minuteCount[d][clock] + 1 > MinuteLimit[d]
          <6>1. f \notin Coming(d, clock)'
            BY <5>1, <3>1, <3>2, <3>4, <2>1 DEF Coming, Minutes
          <6> QED BY <5>1, <4>1, <6>1, <1>1 DEF Allowed
        <5>2. CASE ~(minuteCount[d][clock] + 1 > MinuteLimit[d])
          <6>1. f \in Coming(d, clock)'
            BY <5>2, <3>1, <3>2, <3>4 DEF Coming
          <6> QED BY <5>2, <4>1, <6>1, <1>1 DEF Allowed
        <5> QED BY <5>1, <5>2
      <4>3. Allowed(d, clock)' \in Nat
        <5> HIDE DEF is
        <5> QED BY <4>2, <1>1, <2>3
      <4> HIDE DEF was, is
      <4>4. sent[d][clock] + is + Allowed(d, clock) + redisErrors
              <= sent[d][clock] + was + (Allowed(d, clock) + is) + redisErrors
        BY <1>1, <2>3
      <4> QED BY <2>4, <3>3, <4>2, <4>3, <4>4, <1>1
    <3>5. CASE ~(d = e /\ m = clock)
      <4>1. minuteCount'[d][clock'] = minuteCount[d][clock]
        BY <3>1, <3>3, <3>5, <2>1, <1>1 DEF LimiterTypeOK
      <4>2. Allowed(d, clock)' = Allowed(d, clock)
        BY <4>1 DEF Allowed
      <4>3. is <= was
        <5>1. CASE d = e
          <6>1. m < clock
            BY <5>1, <3>1, <3>5, <1>1 DEF Minutes
          <6> QED BY <5>1, <6>1, <3>1 DEF Coming
        <5>2. CASE d # e
          BY <5>2, <3>2 DEF Coming
        <5> QED BY <5>1, <5>2
      <4> HIDE DEF was, is
      <4>4. sent[d][clock] + is + Allowed(d, clock) + redisErrors
              <= sent[d][clock] + was + Allowed(d, clock) + redisErrors
        BY <1>1, <2>3, <4>3
      <4> QED BY <2>4, <3>3, <4>2, <4>4, <1>1
    <3> QED BY <3>4, <3>5
  <2>10. CASE CheckHour(f)
    <3>1. feeder[f].pc = "hour" /\ f \in Plain
      BY <2>10, PlainWhenActive DEF CheckHour, Is
    <3>2. feeder'[f].domain = feeder[f].domain
      BY <2>10 DEF CheckHour, Moves, LimiterTypeOK
    <3>3. is <= was
      BY <3>1, <3>2 DEF Coming
    <3> QED BY <2>5, <2>10, <3>3 DEF CheckHour
  <2>11. CASE RedisFails(f)
    <3>1. /\ sent' = sent /\ minuteCount' = minuteCount /\ redisErrors' = redisErrors + 1
      BY <2>11 DEF RedisFails
    <3>2. Allowed(d, clock)' = Allowed(d, clock)
      BY <2>1, <3>1 DEF Allowed
    <3> HIDE DEF was, is
    <3>3. sent[d][clock] + is + Allowed(d, clock) + redisErrors
            <= sent[d][clock] + was + Allowed(d, clock) + (redisErrors + 1)
      BY <1>1, <2>3
    <3>4. redisErrors + 1 \in Nat
      BY <1>1
    <3> QED BY <2>4, <3>1, <3>2, <3>3, <3>4, <1>1
  <2>12. CASE AwaitWindow(f)
    <3>1. /\ feeder[f].pc \in {"minuteWait", "hourWait"} /\ f \in Plain
      BY <2>12, PlainWhenActive DEF AwaitWindow, Is
    <3>2. feeder[f].now < clock
      <4>1. feeder[f].now \in Minutes /\ feeder[f].now <= clock
        BY DEF LimiterTypeOK, FeedersSound
      <4>2. feeder[f].now # clock
        BY <2>12, <4>1, <1>1, LimiterAssumption DEF AwaitWindow, HourOf, Minutes
      <4> QED BY <4>1, <4>2, <1>1 DEF Minutes
    <3>3. feeder'[f].domain = feeder[f].domain
      BY <2>12 DEF AwaitWindow, Moves, LimiterTypeOK
    <3>4. is <= was
      BY <3>1, <3>2, <3>3 DEF Coming
    <3> QED BY <2>5, <2>12, <3>4 DEF AwaitWindow
  <2>13. CASE PassOn(f)
    <3>1. feeder[f].pc = "send" /\ f \in Plain /\ feeder[f].domain \in Domains
      BY <2>13, PlainWhenActive DEF PassOn, Is, LimiterTypeOK
    <3>2. feeder'[f].pc = "next"
      BY <2>13 DEF PassOn, Moves, LimiterTypeOK
    <3>3. f \notin Coming(d, clock)'
      BY <3>2 DEF Coming
    <3>4. sent'[d][clock] = sent[d][clock] + was
      <4>1. f \in C <=> feeder[f].domain = d
        BY <3>1 DEF Coming
      <4> HIDE DEF C
      <4>2. sent' = [sent EXCEPT ![feeder[f].domain][clock] = @ + 1]
        BY <2>13 DEF PassOn
      <4> QED BY <4>1, <4>2, <3>1, <1>1 DEF LimiterTypeOK
    <3>5. /\ minuteCount' = minuteCount /\ redisErrors' = redisErrors
      BY <2>13 DEF PassOn
    <3>6. Allowed(d, clock)' = Allowed(d, clock)
      BY <2>1, <3>5 DEF Allowed
    <3>7. is = 0
      BY <3>3
    <3> HIDE DEF was, is
    <3>8. /\ sent[d][clock] + was \in Nat
          /\ (sent[d][clock] + was) + is + Allowed(d, clock) + redisErrors
                <= sent[d][clock] + was + Allowed(d, clock) + redisErrors
      BY <1>1, <2>3, <3>7
    <3> QED BY <2>4, <3>4, <3>5, <3>6, <3>8, <1>1
  <2> QED BY <1>4, <2>6, <2>7, <2>8, <2>9, <2>10, <2>11, <2>12, <2>13 DEF Feed
<1>5. CASE UNCHANGED limiterVars
  <2>1. /\ sent' = sent /\ clock' = clock /\ redisErrors' = redisErrors
        /\ Allowed(d, clock)' = Allowed(d, clock) /\ Coming(d, clock)' = C
    BY <1>5 DEF limiterVars, Allowed, Coming
  <2> QED BY <2>1, <1>2
<1> QED
  BY <1>3, <1>4, <1>5 DEF LimiterNext

\* Mails are counted in the present minute only, so what was bounded stays bounded.
LEMMA OtherMinutes ==
    ASSUME LimiterTypeOK, [LimiterNext]_limiterVars
    PROVE  /\ \A d \in Domains : \A m \in Minutes : m # clock => sent'[d][m] = sent[d][m]
           /\ clock' \in {clock, clock + 1}
           /\ clock' # clock => sent' = sent
           /\ redisErrors' >= redisErrors
<1> USE DEF LimiterTypeOK
<1>1. CASE Tick
  BY <1>1, LimiterAssumption DEF Tick
<1>2. ASSUME NEW f \in Feeders, PassOn(f)
      PROVE  \A d \in Domains : \A m \in Minutes : m # clock => sent'[d][m] = sent[d][m]
  <2>1. sent' = [sent EXCEPT ![feeder[f].domain][clock] = @ + 1]
    BY <1>2 DEF PassOn
  <2> QED BY <2>1
<1>3. ASSUME NEW f \in Feeders, Feed(f)
      PROVE  /\ clock' = clock /\ redisErrors' >= redisErrors
             /\ sent' = sent \/ PassOn(f)
  BY <1>3, LimiterAssumption DEF Feed, BeginFeeding, SetWarmupFactor, Allow, CheckMinute, CheckHour,
                                RedisFails, AwaitWindow, PassOn
<1>4. CASE UNCHANGED limiterVars
  BY <1>4, LimiterAssumption DEF limiterVars
<1> QED
  BY <1>1, <1>2, <1>3, <1>4 DEF LimiterNext

LEMMA LimiterInvInit == LimiterInit => LimiterInv
<1> SUFFICES ASSUME LimiterInit PROVE LimiterInv
  OBVIOUS
<1>0. 0 \in Minutes
  BY LimiterAssumption DEF Minutes
<1>1. LimiterTypeOK
  BY <1>0, LimiterAssumption DEF LimiterInit, LimiterTypeOK
<1>2. FeedersSound
  BY DEF LimiterInit, FeedersSound
<1>3. FutureIsEmpty
  BY DEF LimiterInit, FutureIsEmpty
<1>4. PresentBounded
  <2> SUFFICES ASSUME NEW d \in Domains
               PROVE  sent[d][clock] + Cardinality(Coming(d, clock))
                        <= Allowed(d, clock) + Cardinality(Plain) + redisErrors
    BY DEF PresentBounded
  <2>1. sent[d][clock] = 0 /\ redisErrors = 0 /\ Allowed(d, clock) \in Nat
    BY <1>0, LimiterAssumption DEF LimiterInit, Allowed
  <2> QED BY <2>1, ComingFinite, PlainFinite
<1>5. MinuteOvershootBounded
  <2>1. \A d \in Domains : \A m \in Minutes : sent[d][m] = 0 /\ MinuteLimit[d] \in Nat
    BY LimiterAssumption DEF LimiterInit
  <2>2. redisErrors = 0
    BY DEF LimiterInit
  <2> QED BY <2>1, <2>2, PlainFinite DEF MinuteOvershootBounded, Plain
<1> QED
  BY <1>1, <1>2, <1>3, <1>4, <1>5 DEF LimiterInv

LEMMA LimiterInvNext == LimiterInv /\ [LimiterNext]_limiterVars => LimiterInv'
<1> SUFFICES ASSUME LimiterInv, [LimiterNext]_limiterVars
             PROVE  LimiterInv'
  OBVIOUS
<1>0. /\ LimiterTypeOK /\ FeedersSound /\ FutureIsEmpty /\ PresentBounded
      /\ MinuteOvershootBounded
  BY DEF LimiterInv
<1>1. LimiterTypeOK'
  BY <1>0, LimiterTypeNext
<1>2. FeedersSound'
  BY <1>0, FeedersSoundNext
<1>3. FutureIsEmpty'
  BY <1>0, <1>1, OtherMinutes DEF FutureIsEmpty, LimiterTypeOK, Minutes
<1>4. PresentBounded'
  BY <1>0, PresentBoundedNext DEF PresentBounded
<1>5. MinuteOvershootBounded'
  <2> SUFFICES ASSUME NEW d \in Domains, NEW m \in Minutes
               PROVE  sent'[d][m] <= MinuteLimit[d] + Cardinality(Plain) + redisErrors'
    BY DEF MinuteOvershootBounded, Plain
  <2>1. /\ sent[d][m] \in Nat /\ sent'[d][m] \in Nat /\ MinuteLimit[d] \in Nat
        /\ redisErrors \in Nat /\ redisErrors' \in Nat /\ Cardinality(Plain) \in Nat
        /\ clock \in Minutes /\ clock' \in Minutes
    BY <1>0, <1>1, PlainFinite, LimiterAssumption DEF LimiterTypeOK
  <2>2. sent[d][m] <= MinuteLimit[d] + Cardinality(Plain) + redisErrors
    BY <1>0 DEF MinuteOvershootBounded, Plain
  <2>3. redisErrors' >= redisErrors
    BY <1>0, OtherMinutes
  <2>4. CASE sent'[d][m] = sent[d][m]
    BY <2>1, <2>2, <2>3, <2>4
  <2>5. CASE sent'[d][m] # sent[d][m]
    <3>1. m = clock'
      BY <2>5, <1>0, OtherMinutes
    <3>2. Cardinality(Coming(d, clock)') \in Nat
      <4>1. Coming(d, clock)' \subseteq Plain
        BY DEF Coming
      <4> QED BY <4>1, PlainFinite, FS_Subset, FS_CardinalityType
    <3>3. sent'[d][m] + Cardinality(Coming(d, clock)')
            <= Allowed(d, clock)' + Cardinality(Plain) + redisErrors'
      BY <3>1, <1>0, PresentBoundedNext
    <3>4. Allowed(d, clock)' \in Nat /\ Allowed(d, clock)' <= MinuteLimit[d]
      <4>1. minuteCount'[d][clock'] \in Nat
        BY <1>1, <2>1 DEF LimiterTypeOK
      <4> QED BY <4>1, <2>1 DEF Allowed
    <3> QED BY <2>1, <3>2, <3>3, <3>4
  <2> QED BY <2>4, <2>5
<1> QED
  BY <1>1, <1>2, <1>3, <1>4, <1>5 DEF LimiterInv

(***************************************************************************)
(* However many campaigns feed, whatever the limits, the hours and the     *)
(* failures of Redis: a minute of a domain never gets more than its limit, *)
(* one mail for each campaign and one for each failure.                    *)
(***************************************************************************)
THEOREM OvershootAlwaysBounded == LimiterSpec => []MinuteOvershootBounded
<1>1. LimiterInv => MinuteOvershootBounded
  BY DEF LimiterInv
<1> QED
  BY <1>1, LimiterInvInit, LimiterInvNext, PTL DEF LimiterSpec

-----------------------------------------------------------------------------
(* Migrations *)

\* What a statement has done when it has succeeded.
Done(s) ==
    /\ Exists(s.table)
    /\ s.make = "index" => [table |-> s.table, columns |-> s.columns] \in indexes

\* The statements before the next one have been executed.
Begun(m, k) == \A i \in DOMAIN Up(m) : i < k => Done(Up(m)[i])

\* The versions are recorded in their order, and none without one of its migrations.
RecordedSound ==
    /\ recorded \subseteq {Version(m) : m \in Migration}
    /\ \A m \in Migration : \A v \in recorded : Version(m) <= v => Version(m) \in recorded
    /\ \A v \in recorded : \E n \in Migration : Version(n) = v /\ Applied(n)

\* Whatever the process has not still to run has been recorded, and it runs the lowest first.
ProgressSound ==
    /\ pending \subseteq Migration
    /\ phase = "next" => \A m \in Migration \ pending : Version(m) \in recorded
    /\ phase = "up" =>
         /\ current \in [migration : Migration, statement : Nat]
         /\ \A m \in Migration \ (pending \cup {current.migration}) : Version(m) \in recorded
         /\ \A m \in pending : Version(current.migration) <= Version(m)
         /\ Begun(current.migration, current.statement)

MigrationsInv == RecordedSound /\ ProgressSound

LEMMA MigrationFacts ==
    /\ Migration = 1..14
    /\ \A m \in Migration : Version(m) \in 1..16
BY DEF Migration, Version, RegisteredMigrations, M

\* Creates makes the tables first.
LEMMA CreatesFacts ==
    ASSUME NEW X, NEW s \in Seq(X)
    PROVE  /\ DOMAIN Creates(s) = 1..(Len(s) + Len(s)) /\ Len(Creates(s)) = Len(s) + Len(s)
           /\ \A i \in 1..Len(s) :
                /\ Creates(s)[i].table = s[i].table /\ Creates(s)[i].columns = s[i].columns
                /\ Creates(s)[i].make = "table"
                /\ Creates(s)[Len(s) + i].table = s[i].table
                /\ Creates(s)[Len(s) + i].columns = s[i].columns
                /\ Creates(s)[Len(s) + i].make = "index"
<1>1. PICK n \in Nat : n = Len(s) /\ DOMAIN s = 1..n
  OBVIOUS
<1>2. PICK a : a = Tables(s)
  OBVIOUS
<1>3. PICK b : b = Indexes(s)
  OBVIOUS
<1>4. /\ a = [i \in 1..n |-> [table |-> s[i].table, columns |-> s[i].columns, make |-> "table"]]
      /\ b = [i \in 1..n |-> [table |-> s[i].table, columns |-> s[i].columns, make |-> "index"]]
  BY <1>1, <1>2, <1>3 DEF Tables, Indexes, Making
<1>5. PICK A : A = {a[i] : i \in 1..n}
  OBVIOUS
<1>6. PICK B : B = {b[i] : i \in 1..n}
  OBVIOUS
<1>7. a \in Seq(A) /\ b \in Seq(B) /\ Len(a) = n /\ Len(b) = n
  <2>1. a \in [1..n -> A] /\ b \in [1..n -> B]
    BY <1>4, <1>5, <1>6
  <2> QED BY <2>1
<1>8. /\ DOMAIN Creates(s) = 1..(n + n) /\ Len(Creates(s)) = n + n
      /\ \A i \in 1..n : Creates(s)[i] = a[i] /\ Creates(s)[n + i] = b[i]
  BY <1>2, <1>3, <1>7 DEF Creates
<1>9. ASSUME NEW i \in 1..n
      PROVE  /\ Creates(s)[i].table = s[i].table /\ Creates(s)[i].columns = s[i].columns
             /\ Creates(s)[i].make = "table"
             /\ Creates(s)[n + i].table = s[i].table
             /\ Creates(s)[n + i].columns = s[i].columns
             /\ Creates(s)[n + i].make = "index"
  <2>1. Creates(s)[i] = [table |-> s[i].table, columns |-> s[i].columns, make |-> "table"]
    BY <1>4, <1>8
  <2>2. Creates(s)[n + i] = [table |-> s[i].table, columns |-> s[i].columns, make |-> "index"]
    BY <1>4, <1>8
  <2> QED BY <2>1, <2>2
<1> QED BY <1>1, <1>8, <1>9

LEMMA SeqsOf ==
    \A a, b, c, d :
        /\ <<a>> \in Seq({a}) /\ <<a, b>> \in Seq({a, b})
        /\ <<a, b, c>> \in Seq({a, b, c}) /\ <<a, b, c, d>> \in Seq({a, b, c, d})
OBVIOUS

\* What the registered migrations are made of.
LEMMA UpShapes ==
    ASSUME NEW m \in Migration
    PROVE  \/ Up(m) = <<>>
           \/ Up(m) = PerformanceIndexes
           \/ \E X : \E s \in Seq(X) : Up(m) = Creates(s)
<1>1. Migration = 1..14
  BY MigrationFacts
<1>2. \/ Up(m) = <<>> \/ Up(m) = PerformanceIndexes
      \/ Up(m) \in {AuditLogs, ProxiesAndIPs, ComplaintLogs, Organizations, ContactsV2,
                    EmailTemplates, CampaignsV2, AutomationWorkflows, ListsV2,
                    SubscriberActivities}
  BY <1>1 DEF Up, RegisteredMigrations, M
<1>3. /\ \E X : \E s \in Seq(X) : AuditLogs = Creates(s)
      /\ \E X : \E s \in Seq(X) : ProxiesAndIPs = Creates(s)
      /\ \E X : \E s \in Seq(X) : ComplaintLogs = Creates(s)
      /\ \E X : \E s \in Seq(X) : Organizations = Creates(s)
      /\ \E X : \E s \in Seq(X) : ContactsV2 = Creates(s)
      /\ \E X : \E s \in Seq(X) : EmailTemplates = Creates(s)
      /\ \E X : \E s \in Seq(X) : CampaignsV2 = Creates(s)
      /\ \E X : \E s \in Seq(X) : AutomationWorkflows = Creates(s)
      /\ \E X : \E s \in Seq(X) : ListsV2 = Creates(s)
      /\ \E X : \E s \in Seq(X) : SubscriberActivities = Creates(s)
  <2>1. \E X : \E s \in Seq(X) : AuditLogs = Creates(s)
    BY SeqsOf DEF AuditLogs
  <2>2. \E X : \E s \in Seq(X) : ProxiesAndIPs = Creates(s)
    BY SeqsOf DEF ProxiesAndIPs
  <2>3. \E X : \E s \in Seq(X) : ComplaintLogs = Creates(s)
    BY SeqsOf DEF ComplaintLogs
  <2>4. \E X : \E s \in Seq(X) : Organizations = Creates(s)
    BY SeqsOf DEF Organizations
  <2>5. \E X : \E s \in Seq(X) : ContactsV2 = Creates(s)
    BY SeqsOf DEF ContactsV2
  <2>6. \E X : \E s \in Seq(X) : EmailTemplates = Creates(s)
    BY SeqsOf DEF EmailTemplates
  <2>7. \E X : \E s \in Seq(X) : CampaignsV2 = Creates(s)
    BY SeqsOf DEF CampaignsV2
  <2>8. \E X : \E s \in Seq(X) : AutomationWorkflows = Creates(s)
    BY SeqsOf DEF AutomationWorkflows
  <2>9. \E X : \E s \in Seq(X) : ListsV2 = Creates(s)
    BY SeqsOf DEF ListsV2
  <2>10. \E X : \E s \in Seq(X) : SubscriberActivities = Creates(s)
    BY SeqsOf DEF SubscriberActivities
  <2> QED BY <2>1, <2>2, <2>3, <2>4, <2>5, <2>6, <2>7, <2>8, <2>9, <2>10
<1> QED BY <1>2, <1>3

\* An index without a column comes after its table.
LEMMA UpFacts ==
    ASSUME NEW m \in Migration
    PROVE  /\ Len(Up(m)) \in Nat /\ DOMAIN Up(m) = 1..Len(Up(m))
           /\ \A i \in DOMAIN Up(m) :
                /\ Up(m)[i].make \in {"table", "index"}
                /\ Up(m)[i].make = "index" =>
                     \/ Up(m)[i].columns # {}
                     \/ \E j \in DOMAIN Up(m) : /\ j < i /\ Up(m)[j].make = "table"
                                                /\ Up(m)[j].table = Up(m)[i].table
<1>1. CASE Up(m) = <<>>
  BY <1>1
<1>2. CASE Up(m) = PerformanceIndexes
  <2>1. PICK s : DOMAIN s = 1..4 /\ Len(s) = 4 /\ (\A i \in 1..4 : s[i].columns # {})
                                  /\ PerformanceIndexes = Indexes(s)
    <3>1. PICK s : s = <<Table("campaign_recipients", {"status", "campaign_id"}),
                         Table("bounce_events", {"email", "processed_at"}),
                         Table("email_stats", {"domain", "date"}),
                         Table("subscriber_activities", {"contact_id", "created_at"})>>
      OBVIOUS
    <3>2. DOMAIN s = 1..4
      BY <3>1
    <3>3. \A i \in 1..4 : s[i].columns # {}
      BY <3>1 DEF Table
    <3>4. Len(s) = 4 /\ PerformanceIndexes = Indexes(s)
      BY <3>1 DEF PerformanceIndexes
    <3> QED BY <3>2, <3>3, <3>4
  <2>2. PICK p : p = Up(m)
    OBVIOUS
  <2>3. Len(p) = 4 /\ DOMAIN p = 1..4
    BY <1>2, <2>1, <2>2 DEF Indexes, Making
  <2>4. \A i \in 1..4 : p[i].make = "index" /\ p[i].columns # {}
    BY <1>2, <2>1, <2>2 DEF Indexes, Making
  <2> QED BY <2>2, <2>3, <2>4
<1>3. ASSUME NEW X, NEW s \in Seq(X), Up(m) = Creates(s)
      PROVE  /\ Len(Up(m)) \in Nat /\ DOMAIN Up(m) = 1..Len(Up(m))
             /\ \A i \in DOMAIN Up(m) :
                  /\ Up(m)[i].make \in {"table", "index"}
                  /\ Up(m)[i].make = "index" =>
                       \E j \in DOMAIN Up(m) : /\ j < i /\ Up(m)[j].make = "table"
                                               /\ Up(m)[j].table = Up(m)[i].table
  <2>1. PICK n \in Nat : n = Len(s)
    OBVIOUS
  <2>2. PICK p : p = Up(m)
    OBVIOUS
  <2>3. /\ DOMAIN p = 1..(n + n) /\ Len(p) = n + n
        /\ \A i \in 1..n : /\ p[i].make = "table" /\ p[n + i].make = "index"
                           /\ p[i].table = p[n + i].table
    BY <1>3, <2>1, <2>2, CreatesFacts
  <2>4. ASSUME NEW i \in DOMAIN p
        PROVE  /\ p[i].make \in {"table", "index"}
               /\ p[i].make = "index" =>
                    \E j \in DOMAIN p : j < i /\ p[j].make = "table" /\ p[j].table = p[i].table
    <3>1. CASE i \in 1..n
      BY <2>3, <3>1
    <3>2. CASE i \notin 1..n
      <4>1. PICK j \in 1..n : i = n + j
        <5>1. i - n \in 1..n /\ i = n + (i - n)
          BY <2>3, <3>2
        <5> QED BY <5>1
      <4>2. j \in DOMAIN p /\ j < i
        BY <2>3, <4>1
      <4> QED BY <2>3, <4>1, <4>2
    <3> QED BY <3>1, <3>2
  <2>5. DOMAIN p = 1..Len(p) /\ Len(p) \in Nat
    BY <2>3
  <2> QED BY <2>2, <2>4, <2>5
<1> QED BY <1>1, <1>2, <1>3, UpShapes

LEMMA HighestOf ==
    ASSUME NEW S \in SUBSET Nat, NEW b \in Nat, \A x \in S : x <= b, S # {}
    PROVE  Max(S) \in S /\ \A x \in S : Max(S) >= x
<1>1. PICK D : D = {b - x : x \in S}
  OBVIOUS
<1>2. D \in SUBSET Nat /\ D # {}
  <2>1. \A x \in S : b - x \in Nat
    OBVIOUS
  <2>2. PICK x : x \in S
    OBVIOUS
  <2>3. b - x \in D
    BY <1>1, <2>2
  <2> QED BY <1>1, <2>1, <2>3
<1>3. PICK d \in D : \A e \in D : ~(e < d)
  BY <1>2, LeastOf
<1>4. PICK x \in S : d = b - x
  BY <1>1, <1>3
<1>5. \A y \in S : x >= y
  BY <1>1, <1>3, <1>4
<1> QED BY <1>5 DEF Max

LEMMA VersionUpTo ==
    ASSUME RecordedSound, NEW m \in Migration, Version(m) <= CurrentVersion
    PROVE  Version(m) \in recorded
<1>1. recorded \subseteq 1..16 /\ Version(m) \in 1..16
  BY MigrationFacts DEF RecordedSound
<1>2. PICK S : S = recorded \cup {0}
  OBVIOUS
<1>3. S \in SUBSET Nat /\ S # {} /\ \A x \in S : x <= 16
  BY <1>1, <1>2
<1>4. Max(S) \in S
  BY <1>3, HighestOf
<1>5. CurrentVersion \in recorded
  BY <1>1, <1>2, <1>4 DEF CurrentVersion
<1> QED BY <1>5 DEF RecordedSound

\* No table and no index is ever lost.
Grows == (\A t : Exists(t) => Exists(t)') /\ indexes \subseteq indexes'

LEMMA DoneStays ==
    ASSUME Grows
    PROVE  /\ \A s : Done(s) => Done(s)'
           /\ \A m : Applied(m) => Applied(m)'
           /\ \A m, k : Begun(m, k) => Begun(m, k)'
<1>1. \A s : Done(s) => Done(s)'
  BY DEF Grows, Done
<1>2. \A m : Applied(m) => Applied(m)'
  BY DEF Grows, Applied
<1>3. \A m, k : Begun(m, k) => Begun(m, k)'
  BY <1>1 DEF Begun
<1> QED BY <1>1, <1>2, <1>3

LEMMA AutoMigrateGrows == AutoMigrate => Grows
<1> SUFFICES ASSUME AutoMigrate PROVE Grows
  OBVIOUS
<1>1. \A y \in AutoMigrated : DOMAIN y = {"table", "columns"} /\ y = [x \in DOMAIN y |-> y[x]]
  BY DEF AutoMigrated, Table
<1>2. ASSUME NEW y \in AutoMigrated, NEW c PROVE [y EXCEPT !.columns = c].table = y.table
  BY <1>1
<1>3. /\ schema' = {x \in schema : \A y \in AutoMigrated : y.table # x.table}
                     \cup {[x EXCEPT !.columns = @ \cup Columns(x.table)] : x \in AutoMigrated}
      /\ indexes' = indexes
  BY DEF AutoMigrate
<1>4. ASSUME NEW t, NEW x \in schema, x.table = t PROVE Exists(t)'
  <2>1. CASE \A y \in AutoMigrated : y.table # t
    <3>1. x \in schema'
      BY <1>3, <1>4, <2>1
    <3> QED BY <1>4, <3>1 DEF Exists
  <2>2. CASE \E y \in AutoMigrated : y.table = t
    <3>1. PICK y \in AutoMigrated : y.table = t
      BY <2>2
    <3>2. PICK z : z = [y EXCEPT !.columns = @ \cup Columns(y.table)]
      OBVIOUS
    <3>3. z \in schema'
      BY <1>3, <3>2
    <3>4. z.table = t
      BY <1>1, <3>1, <3>2
    <3> QED BY <3>3, <3>4 DEF Exists
  <2> QED BY <2>1, <2>2
<1> QED BY <1>3, <1>4 DEF Grows, Exists

\* What has been recorded stays applied.
LEMMA RecordedStays == ASSUME RecordedSound, Grows, recorded' = recorded PROVE RecordedSound'
BY DoneStays DEF RecordedSound

LEMMA StatementKeeps ==
    ASSUME MigrationsInv, Statement
    PROVE  MigrationsInv'
<1>1. PICK m \in Migration : m = current.migration
  BY DEF MigrationsInv, ProgressSound, Statement
<1>2. PICK k \in Nat : k = current.statement
  BY DEF MigrationsInv, ProgressSound, Statement
<1>3. PICK s : s = Up(m)[k]
  OBVIOUS
<1>4. PICK on : on = [table |-> s.table, columns |-> s.columns]
  OBVIOUS
<1>5. PICK fails \in BOOLEAN : fails <=> s.make = "index" /\ ~(s.columns \subseteq Columns(s.table))
  OBVIOUS
<1>6. /\ phase = "up" /\ k <= Len(Up(m)) /\ recorded' = recorded
      /\ schema' = IF s.make = "index" \/ Exists(s.table) THEN schema ELSE schema \cup {on}
      /\ indexes' = IF s.make = "table" \/ fails THEN indexes ELSE indexes \cup {on}
      /\ phase' = IF fails THEN "down" ELSE "up"
      /\ pending' = IF fails THEN {} ELSE pending
      /\ ~fails => current' = [current EXCEPT !.statement = @ + 1]
  BY <1>1, <1>2, <1>3, <1>4, <1>5 DEF Statement
<1>7. Grows
  BY <1>6 DEF Grows, Exists
<1>8. RecordedSound'
  BY <1>6, <1>7, RecordedStays DEF MigrationsInv
<1>9. CASE fails
  BY <1>6, <1>8, <1>9 DEF MigrationsInv, ProgressSound
<1>10. CASE ~fails
  <2>1. Begun(m, k)
    BY <1>1, <1>2, <1>6 DEF MigrationsInv, ProgressSound
  <2>2. ASSUME k \in DOMAIN Up(m) PROVE Done(s)'
    <3>1. CASE s.make = "table"
      <4>1. Exists(s.table)'
        BY <1>4, <1>6, <1>7, <3>1 DEF Exists, Grows
      <4> QED BY <3>1, <4>1 DEF Done
    <3>2. CASE s.make = "index"
      <4>1. s.columns \subseteq Columns(s.table) /\ on \in indexes'
        BY <1>5, <1>6, <1>10, <3>2
      <4>2. Exists(s.table)
        <5>1. CASE s.columns # {}
          BY <4>1, <5>1 DEF Columns, Exists
        <5>2. CASE \E j \in DOMAIN Up(m) : /\ j < k /\ Up(m)[j].make = "table"
                                           /\ Up(m)[j].table = s.table
          BY <2>1, <5>2 DEF Begun, Done
        <5> QED BY <1>3, <2>2, <3>2, <5>1, <5>2, UpFacts
      <4> QED BY <1>4, <1>7, <4>1, <4>2 DEF Done, Grows
    <3> QED BY <1>3, <2>2, <3>1, <3>2, UpFacts
  <2>3. Begun(m, k + 1)'
    <3>1. ASSUME NEW i \in DOMAIN Up(m), i < k + 1 PROVE Done(Up(m)[i])'
      <4>1. i < k \/ i = k
        BY <3>1, UpFacts
      <4> QED BY <1>3, <1>7, <2>1, <2>2, <4>1, DoneStays DEF Begun
    <3> QED BY <3>1 DEF Begun
  <2>4. current'.migration = m /\ current'.statement = k + 1
    BY <1>1, <1>2, <1>6, <1>10 DEF MigrationsInv, ProgressSound
  <2>5. ProgressSound'
    BY <1>1, <1>2, <1>6, <1>10, <2>3, <2>4 DEF MigrationsInv, ProgressSound
  <2> QED BY <1>8, <2>5 DEF MigrationsInv
<1> QED BY <1>9, <1>10

LEMMA RecordKeeps ==
    ASSUME MigrationsInv, Record
    PROVE  MigrationsInv'
<1>1. PICK m \in Migration : m = current.migration
  BY DEF MigrationsInv, ProgressSound, Record
<1>2. PICK v : v = Version(m)
  OBVIOUS
<1>3. /\ phase = "up" /\ current.statement > Len(Up(m)) /\ UNCHANGED <<schema, indexes>>
      /\ recorded' = recorded \cup {v}
      /\ phase' = IF v \in recorded THEN "down" ELSE AfterMigration(pending)
      /\ pending' = IF v \in recorded THEN {} ELSE pending
  BY <1>1, <1>2 DEF Record
<1>4. Grows
  BY <1>3 DEF Grows, Exists
<1>5. Applied(m)
  BY <1>1, <1>3, UpFacts DEF MigrationsInv, ProgressSound, Begun, Applied, Done
<1>6. v \in Nat /\ \A x \in Migration : Version(x) \in Nat
  BY <1>2, MigrationFacts
<1>7. \A x \in Migration : Version(x) <= v => Version(x) \in recorded'
  BY <1>1, <1>2, <1>3, <1>6 DEF MigrationsInv, ProgressSound
<1>8. \A x \in recorded' : \E n \in Migration : Version(n) = x /\ Applied(n)'
  BY <1>2, <1>3, <1>4, <1>5, DoneStays DEF MigrationsInv, RecordedSound
<1>9. RecordedSound'
  BY <1>2, <1>3, <1>7, <1>8 DEF MigrationsInv, RecordedSound
<1>10. ProgressSound'
  BY <1>1, <1>2, <1>3 DEF MigrationsInv, ProgressSound, AfterMigration
<1> QED BY <1>9, <1>10 DEF MigrationsInv

LEMMA MigrationsInvStep == MigrationsInv /\ [MigrationsNext]_migrationVars => MigrationsInv'
<1> SUFFICES ASSUME MigrationsInv, [MigrationsNext]_migrationVars PROVE MigrationsInv'
  OBVIOUS
<1>1. CASE UNCHANGED migrationVars
  BY <1>1 DEF migrationVars, MigrationsInv, RecordedSound, ProgressSound, Applied, Begun, Done, Exists
<1>2. CASE AutoMigrate
  <2>1. RecordedSound'
    BY <1>2, AutoMigrateGrows, RecordedStays DEF AutoMigrate, MigrationsInv
  <2> QED BY <1>2, <2>1 DEF AutoMigrate, MigrationsInv, ProgressSound
<1>3. CASE PendingMigrations
  <2>1. Grows /\ recorded' = recorded
    BY <1>3 DEF PendingMigrations, databaseVars, Grows, Exists
  <2>2. /\ pending' = {m \in Migration : Version(m) > CurrentVersion}
        /\ phase' \in {"serving", "next"}
    BY <1>3 DEF PendingMigrations, AfterMigration
  <2>3. \A m \in Migration \ pending' : Version(m) \in recorded
    <3>1. CurrentVersion \in Nat /\ \A m \in Migration : Version(m) \in Nat
      <4>1. recorded \cup {0} \in SUBSET Nat /\ \A x \in recorded \cup {0} : x <= 16
        BY MigrationFacts DEF MigrationsInv, RecordedSound
      <4>2. Max(recorded \cup {0}) \in recorded \cup {0}
        BY <4>1, HighestOf
      <4> QED BY <4>1, <4>2, MigrationFacts DEF CurrentVersion
    <3> QED BY <2>2, <3>1, VersionUpTo DEF MigrationsInv
  <2> QED BY <2>1, <2>2, <2>3, RecordedStays DEF MigrationsInv, ProgressSound
<1>4. CASE NextMigration
  <2>1. PICK m \in pending :
          /\ \A n \in pending : Version(m) <= Version(n)
          /\ pending' = pending \ {m} /\ current' = [migration |-> m, statement |-> 1]
    BY <1>4 DEF NextMigration
  <2>2. /\ phase = "next" /\ phase' = "up" /\ recorded' = recorded /\ UNCHANGED <<schema, indexes>>
    BY <1>4 DEF NextMigration, databaseVars
  <2>3. Grows
    BY <2>2 DEF Grows, Exists
  <2>4. Begun(m, 1)'
    BY <2>1, UpFacts DEF Begun, MigrationsInv, ProgressSound
  <2>5. ProgressSound'
    BY <2>1, <2>2, <2>4 DEF MigrationsInv, ProgressSound
  <2> QED BY <2>2, <2>3, <2>5, RecordedStays DEF MigrationsInv
<1>5. CASE ServerStops
  <2>1. Grows /\ recorded' = recorded
    BY <1>5 DEF ServerStops, databaseVars, Grows, Exists
  <2> QED BY <1>5, <2>1, RecordedStays DEF ServerStops, MigrationsInv, ProgressSound
<1> QED BY <1>1, <1>2, <1>3, <1>4, <1>5, StatementKeeps, RecordKeeps DEF MigrationsNext, Migrate

(* Of every version up to the one that a database has recorded one of the  *)
(* migrations has been applied to the last statement, so that Migrate may  *)
(* leave them out: for any number of stops and of starts that a failing    *)
(* statement ends, and whichever of two with the same version the sort     *)
(* puts first (migrations.go).                                             *)
THEOREM RecordedAlwaysApplied == MigrationsSpec => []RecordedMeansApplied
<1>1. MigrationsInit => MigrationsInv
  BY DEF MigrationsInit, MigrationsInv, RecordedSound, ProgressSound
<1>2. MigrationsInv => RecordedMeansApplied
  <2> SUFFICES ASSUME MigrationsInv PROVE RecordedMeansApplied
    OBVIOUS
  <2>1. \A m \in Migration : Version(m) <= CurrentVersion => Version(m) \in recorded
    BY VersionUpTo DEF MigrationsInv
  <2> QED BY <2>1 DEF RecordedMeansApplied, MigrationsInv, RecordedSound
<1> QED BY <1>1, <1>2, MigrationsInvStep, PTL DEF MigrationsSpec

(* Reports *)

\* A figure of a report as it stands: read by a query, or what the query would read now.
View(n, got, q, i, now) == IF n > i THEN got[q] ELSE now

LEMMA CountMoves ==
    ASSUME NEW x, NEW A, NEW B, IsFiniteSet(A), IsFiniteSet(B), A \ {x} = B \ {x}
    PROVE  /\ Cardinality(A) \in Nat /\ Cardinality(B) \in Nat
           /\ Cardinality(B) + (IF x \in A THEN 1 ELSE 0) = Cardinality(A) + (IF x \in B THEN 1 ELSE 0)
<1>1. Cardinality(A) \in Nat /\ Cardinality(B) \in Nat
  BY FS_CardinalityType
<1>2. /\ Cardinality(A \ {x}) = IF x \in A THEN Cardinality(A) - 1 ELSE Cardinality(A)
      /\ Cardinality(B \ {x}) = IF x \in B THEN Cardinality(B) - 1 ELSE Cardinality(B)
  BY FS_RemoveElement
<1> QED BY <1>1, <1>2

LEMMA CountTogether ==
    ASSUME NEW A, NEW B, IsFiniteSet(A), IsFiniteSet(B), A \cap B = {}
    PROVE  /\ IsFiniteSet(A \cup B) /\ Cardinality(A \cup B) = Cardinality(A) + Cardinality(B)
           /\ Cardinality(A) \in Nat /\ Cardinality(B) \in Nat
<1>1. IsFiniteSet(A \cup B)
      /\ Cardinality(A \cup B) = Cardinality(A) + Cardinality(B) - Cardinality(A \cap B)
  BY FS_Union
<1>2. Cardinality(A \cap B) = 0 /\ Cardinality(A) \in Nat /\ Cardinality(B) \in Nat
  BY FS_EmptySet, FS_CardinalityType
<1> QED BY <1>1, <1>2

LEMMA CountWithin ==
    ASSUME NEW B, IsFiniteSet(B), NEW A, A \subseteq B
    PROVE  /\ IsFiniteSet(A) /\ Cardinality(A) <= Cardinality(B)
           /\ Cardinality(A) \in Nat /\ Cardinality(B) \in Nat
<1>1. A \in SUBSET B
  OBVIOUS
<1> QED BY <1>1, FS_Subset, FS_CardinalityType

LEMMA MailedFinite == IsFiniteSet(Mailed) /\ Cardinality(Mailed) \in Nat
BY ReportsAssumption, FS_CardinalityType

-----------------------------------------------------------------------------
\* One row is written: of the recipients, the members of a list, or the runs of an automation.
RowWritten(rows, more, r) ==
    /\ DOMAIN more = Mailed /\ \A x \in Mailed : x # r => more[x] = rows[x]

LEMMA StatusMoves ==
    ASSUME NEW rows, NEW more, NEW r \in Mailed, RowWritten(rows, more, r)
    PROVE  \A q : /\ WithStatus(rows, q) \in Nat /\ WithStatus(more, q) \in Nat
                  /\ WithStatus(more, q) + (IF rows[r] = q THEN 1 ELSE 0)
                     = WithStatus(rows, q) + (IF more[r] = q THEN 1 ELSE 0)
<1> SUFFICES ASSUME NEW q
             PROVE  /\ WithStatus(rows, q) \in Nat /\ WithStatus(more, q) \in Nat
                    /\ WithStatus(more, q) + (IF rows[r] = q THEN 1 ELSE 0)
                       = WithStatus(rows, q) + (IF more[r] = q THEN 1 ELSE 0)
  OBVIOUS
<1>1. PICK A, B : A = {x \in Mailed : rows[x] = q} /\ B = {x \in Mailed : more[x] = q}
  OBVIOUS
<1>2. A \ {r} = B \ {r} /\ (r \in A <=> rows[r] = q) /\ (r \in B <=> more[r] = q)
  BY <1>1 DEF RowWritten
<1>3. IsFiniteSet(A) /\ IsFiniteSet(B)
  <2>1. A \subseteq Mailed /\ B \subseteq Mailed
    BY <1>1
  <2> QED BY <2>1, MailedFinite, CountWithin
<1>4. /\ Cardinality(A) \in Nat /\ Cardinality(B) \in Nat
      /\ Cardinality(B) + (IF r \in A THEN 1 ELSE 0) = Cardinality(A) + (IF r \in B THEN 1 ELSE 0)
  BY <1>2, <1>3, CountMoves
<1> QED BY <1>1, <1>2, <1>4 DEF WithStatus

ListSound(n, got, rows, k) ==
    LET active == View(n, got, "active", 1, WithStatus(rows, "active"))
        left == View(n, got, "unsubscribed", 2, WithStatus(rows, "unsubscribed"))
        bounced == View(n, got, "bounced", 3, WithStatus(rows, "bounced"))
        waiting == View(n, got, "pending", 4, WithStatus(rows, "pending"))
    IN  /\ active \in Nat /\ left \in Nat /\ bounced \in Nat /\ waiting \in Nat
        /\ active + left + bounced + waiting <= Cardinality(Mailed) + k
        /\ Cardinality(Mailed) <= active + left + bounced + waiting + k

RunsSound(n, got, rows, k) ==
    LET active == View(n, got, "active", 1, WithStatus(rows, "active"))
        completed == View(n, got, "completed", 2, WithStatus(rows, "completed"))
        failed == View(n, got, "failed", 3, WithStatus(rows, "failed"))
    IN  /\ active \in Nat /\ completed \in Nat /\ failed \in Nat
        /\ active + completed + failed <= Cardinality(Mailed) + k
        /\ Cardinality(Mailed) <= active + completed + failed + k

LEMMA ListMoves ==
    ASSUME NEW n \in Nat, NEW got, NEW rows, NEW more, NEW k \in Nat, ListSound(n, got, rows, k),
           NEW r \in Mailed, RowWritten(rows, more, r)
    PROVE  ListSound(n, got, more, k + 1)
<1>1. PICK a \in Nat, b \in Nat, c \in Nat, d \in Nat, e \in Nat :
        /\ a = WithStatus(rows, "active") /\ b = WithStatus(rows, "unsubscribed")
        /\ c = WithStatus(rows, "bounced") /\ d = WithStatus(rows, "pending") /\ e = Cardinality(Mailed)
  BY StatusMoves, MailedFinite
<1>2. PICK a1 \in Nat, b1 \in Nat, c1 \in Nat, d1 \in Nat :
        /\ a1 = WithStatus(more, "active") /\ b1 = WithStatus(more, "unsubscribed")
        /\ c1 = WithStatus(more, "bounced") /\ d1 = WithStatus(more, "pending")
  BY StatusMoves
<1>3. PICK old, s : old = rows[r] /\ s = more[r]
  OBVIOUS
<1>4. \A q : WithStatus(more, q) + (IF old = q THEN 1 ELSE 0) = WithStatus(rows, q) + (IF s = q THEN 1 ELSE 0)
  BY <1>3, StatusMoves
<1>5. /\ a1 + (IF old = "active" THEN 1 ELSE 0) = a + (IF s = "active" THEN 1 ELSE 0)
      /\ b1 + (IF old = "unsubscribed" THEN 1 ELSE 0) = b + (IF s = "unsubscribed" THEN 1 ELSE 0)
      /\ c1 + (IF old = "bounced" THEN 1 ELSE 0) = c + (IF s = "bounced" THEN 1 ELSE 0)
      /\ d1 + (IF old = "pending" THEN 1 ELSE 0) = d + (IF s = "pending" THEN 1 ELSE 0)
  BY <1>1, <1>2, <1>4
<1> QED BY <1>1, <1>2, <1>5 DEF ListSound, View

LEMMA RunsMoves ==
    ASSUME NEW n \in Nat, NEW got, NEW rows, NEW more, NEW k \in Nat, RunsSound(n, got, rows, k),
           NEW r \in Mailed, RowWritten(rows, more, r)
    PROVE  RunsSound(n, got, more, k + 1)
<1>1. PICK a \in Nat, b \in Nat, c \in Nat, e \in Nat :
        /\ a = WithStatus(rows, "active") /\ b = WithStatus(rows, "completed")
        /\ c = WithStatus(rows, "failed") /\ e = Cardinality(Mailed)
  BY StatusMoves, MailedFinite
<1>2. PICK a1 \in Nat, b1 \in Nat, c1 \in Nat :
        /\ a1 = WithStatus(more, "active") /\ b1 = WithStatus(more, "completed")
        /\ c1 = WithStatus(more, "failed")
  BY StatusMoves
<1>3. PICK old, s : old = rows[r] /\ s = more[r]
  OBVIOUS
<1>4. \A q : WithStatus(more, q) + (IF old = q THEN 1 ELSE 0) = WithStatus(rows, q) + (IF s = q THEN 1 ELSE 0)
  BY <1>3, StatusMoves
<1>5. /\ a1 + (IF old = "active" THEN 1 ELSE 0) = a + (IF s = "active" THEN 1 ELSE 0)
      /\ b1 + (IF old = "completed" THEN 1 ELSE 0) = b + (IF s = "completed" THEN 1 ELSE 0)
      /\ c1 + (IF old = "failed" THEN 1 ELSE 0) = c + (IF s = "failed" THEN 1 ELSE 0)
  BY <1>1, <1>2, <1>4
<1> QED BY <1>1, <1>2, <1>5 DEF RunsSound, View

\* At the start every row has one of the statuses that are asked for.
LEMMA ListBegins ==
    ASSUME NEW rows \in [Mailed -> MemberStatuses], NEW got PROVE ListSound(1, got, rows, 0)
<1>1. PICK A, B, C, D : /\ A = {x \in Mailed : rows[x] = "active"} /\ B = {x \in Mailed : rows[x] = "unsubscribed"}
                        /\ C = {x \in Mailed : rows[x] = "bounced"} /\ D = {x \in Mailed : rows[x] = "pending"}
  OBVIOUS
<1>2. A \cup B = Mailed /\ A \cap B = {} /\ C = {} /\ D = {} /\ A \subseteq Mailed /\ B \subseteq Mailed
  BY <1>1 DEF MemberStatuses
<1>3. IsFiniteSet(A) /\ IsFiniteSet(B)
  BY <1>2, MailedFinite, CountWithin
<1>4. /\ Cardinality(Mailed) = Cardinality(A) + Cardinality(B)
      /\ Cardinality(A) \in Nat /\ Cardinality(B) \in Nat
  BY <1>2, <1>3, CountTogether
<1>5. Cardinality(C) = 0 /\ Cardinality(D) = 0
  BY <1>2, FS_EmptySet
<1>6. PICK a \in Nat, b \in Nat :
        /\ a = WithStatus(rows, "active") /\ b = WithStatus(rows, "unsubscribed")
        /\ 0 = WithStatus(rows, "bounced") /\ 0 = WithStatus(rows, "pending") /\ Cardinality(Mailed) = a + b
  BY <1>1, <1>4, <1>5 DEF WithStatus
<1> QED BY <1>6 DEF ListSound, View

LEMMA RunsBegin ==
    ASSUME NEW rows \in [Mailed -> RunStatuses], NEW got PROVE RunsSound(1, got, rows, 0)
<1>1. PICK A, B, C : /\ A = {x \in Mailed : rows[x] = "active"} /\ B = {x \in Mailed : rows[x] = "completed"}
                     /\ C = {x \in Mailed : rows[x] = "failed"}
  OBVIOUS
<1>2. (A \cup B) \cup C = Mailed /\ A \cap B = {} /\ (A \cup B) \cap C = {}
      /\ A \subseteq Mailed /\ B \subseteq Mailed /\ C \subseteq Mailed
  BY <1>1 DEF RunStatuses
<1>3. IsFiniteSet(A) /\ IsFiniteSet(B) /\ IsFiniteSet(C)
  BY <1>2, MailedFinite, CountWithin
<1>4. /\ Cardinality(A \cup B) = Cardinality(A) + Cardinality(B) /\ IsFiniteSet(A \cup B)
      /\ Cardinality(A) \in Nat /\ Cardinality(B) \in Nat
  BY <1>2, <1>3, CountTogether
<1>5. Cardinality(Mailed) = Cardinality(A \cup B) + Cardinality(C) /\ Cardinality(C) \in Nat
  BY <1>2, <1>3, <1>4, CountTogether
<1>6. PICK a \in Nat, b \in Nat, c \in Nat :
        /\ a = WithStatus(rows, "active") /\ b = WithStatus(rows, "completed")
        /\ c = WithStatus(rows, "failed") /\ Cardinality(Mailed) = a + b + c
  BY <1>1, <1>4, <1>5 DEF WithStatus
<1> QED BY <1>6 DEF RunsSound, View

LEMMA ListAsks ==
    ASSUME NEW n \in 1..4, NEW got, DOMAIN got = QueryNames, NEW rows, NEW k \in Nat,
           ListSound(n, got, rows, k), NEW q, q = Queries("list")[n], NEW more,
           more = [got EXCEPT ![q] = WithStatus(rows, q)]
    PROVE  ListSound(n + 1, more, rows, k)
<1>1. Queries("list") = <<"active", "unsubscribed", "bounced", "pending">>
  BY DEF Queries
<1>2. \/ (n = 1 /\ q = "active") \/ (n = 2 /\ q = "unsubscribed")
      \/ (n = 3 /\ q = "bounced") \/ (n = 4 /\ q = "pending")
  BY <1>1
<1>3. \A x \in QueryNames : more[x] = IF x = q THEN WithStatus(rows, q) ELSE got[x]
  OBVIOUS
<1>4. /\ more["active"] = IF "active" = q THEN WithStatus(rows, q) ELSE got["active"]
      /\ more["unsubscribed"] = IF "unsubscribed" = q THEN WithStatus(rows, q) ELSE got["unsubscribed"]
      /\ more["bounced"] = IF "bounced" = q THEN WithStatus(rows, q) ELSE got["bounced"]
      /\ more["pending"] = IF "pending" = q THEN WithStatus(rows, q) ELSE got["pending"]
  BY <1>3 DEF QueryNames
<1>5. /\ View(n + 1, more, "active", 1, WithStatus(rows, "active"))
         = View(n, got, "active", 1, WithStatus(rows, "active"))
      /\ View(n + 1, more, "unsubscribed", 2, WithStatus(rows, "unsubscribed"))
         = View(n, got, "unsubscribed", 2, WithStatus(rows, "unsubscribed"))
      /\ View(n + 1, more, "bounced", 3, WithStatus(rows, "bounced"))
         = View(n, got, "bounced", 3, WithStatus(rows, "bounced"))
      /\ View(n + 1, more, "pending", 4, WithStatus(rows, "pending"))
         = View(n, got, "pending", 4, WithStatus(rows, "pending"))
  BY <1>2, <1>4 DEF View
<1> QED BY <1>5 DEF ListSound

LEMMA RunsAsk ==
    ASSUME NEW n \in 1..3, NEW got, DOMAIN got = QueryNames, NEW rows, NEW k \in Nat,
           RunsSound(n, got, rows, k), NEW q, q = Queries("automation")[n], NEW more,
           more = [got EXCEPT ![q] = WithStatus(rows, q)]
    PROVE  RunsSound(n + 1, more, rows, k)
<1>1. Queries("automation") = <<"active", "completed", "failed">>
  BY DEF Queries
<1>2. \/ (n = 1 /\ q = "active") \/ (n = 2 /\ q = "completed") \/ (n = 3 /\ q = "failed")
  BY <1>1
<1>3. \A x \in QueryNames : more[x] = IF x = q THEN WithStatus(rows, q) ELSE got[x]
  OBVIOUS
<1>4. /\ more["active"] = IF "active" = q THEN WithStatus(rows, q) ELSE got["active"]
      /\ more["completed"] = IF "completed" = q THEN WithStatus(rows, q) ELSE got["completed"]
      /\ more["failed"] = IF "failed" = q THEN WithStatus(rows, q) ELSE got["failed"]
  BY <1>3 DEF QueryNames
<1>5. /\ View(n + 1, more, "active", 1, WithStatus(rows, "active"))
         = View(n, got, "active", 1, WithStatus(rows, "active"))
      /\ View(n + 1, more, "completed", 2, WithStatus(rows, "completed"))
         = View(n, got, "completed", 2, WithStatus(rows, "completed"))
      /\ View(n + 1, more, "failed", 3, WithStatus(rows, "failed"))
         = View(n, got, "failed", 3, WithStatus(rows, "failed"))
  BY <1>2, <1>4 DEF View
<1> QED BY <1>5 DEF RunsSound

LEMMA StatusesDrift ==
    ASSUME NEW n, NEW got, NEW rows, NEW k \in Nat, NEW m \in Nat, k <= m
    PROVE  /\ ListSound(n, got, rows, k) => ListSound(n, got, rows, m)
           /\ RunsSound(n, got, rows, k) => RunsSound(n, got, rows, m)
<1>1. Cardinality(Mailed) \in Nat
  BY MailedFinite
<1>2. ListSound(n, got, rows, k) => ListSound(n, got, rows, m)
  BY <1>1 DEF ListSound
<1>3. RunsSound(n, got, rows, k) => RunsSound(n, got, rows, m)
  BY <1>1 DEF RunsSound
<1> QED BY <1>2, <1>3

-----------------------------------------------------------------------------
\* The results of a campaign.
InCampaign(rows, c, q) == Cardinality({r \in Mailed : MailingOf[r] = c /\ rows[r].status = q})
OfCampaign(c) == Cardinality({r \in Mailed : MailingOf[r] = c})

CampaignSound(n, got, c, rows, k) ==
    LET mails == View(n, got, "sent", 2, InCampaign(rows, c, "sent"))
        failed == View(n, got, "failed", 3, InCampaign(rows, c, "failed"))
        skipped == View(n, got, "skipped", 4, InCampaign(rows, c, "skipped"))
    IN  /\ mails \in Nat /\ failed \in Nat /\ skipped \in Nat
        /\ n > 1 => got["total"] = OfCampaign(c)
        /\ mails + failed + skipped <= OfCampaign(c) + k

LEMMA CampaignCounts ==
    \A rows, c, q : InCampaign(rows, c, q) \in Nat /\ OfCampaign(c) \in Nat
<1> SUFFICES ASSUME NEW rows, NEW c, NEW q
             PROVE  InCampaign(rows, c, q) \in Nat /\ OfCampaign(c) \in Nat
  OBVIOUS
<1>1. PICK A, B : A = {r \in Mailed : MailingOf[r] = c /\ rows[r].status = q}
                  /\ B = {r \in Mailed : MailingOf[r] = c}
  OBVIOUS
<1>2. A \subseteq Mailed /\ B \subseteq Mailed
  BY <1>1
<1>3. Cardinality(A) \in Nat /\ Cardinality(B) \in Nat
  BY <1>2, MailedFinite, CountWithin
<1> QED BY <1>1, <1>3 DEF InCampaign, OfCampaign

LEMMA CampaignRowMoves ==
    ASSUME NEW rows, NEW more, NEW r \in Mailed, RowWritten(rows, more, r), NEW c
    PROVE  \A q : InCampaign(more, c, q) + (IF MailingOf[r] = c /\ rows[r].status = q THEN 1 ELSE 0)
                  = InCampaign(rows, c, q) + (IF MailingOf[r] = c /\ more[r].status = q THEN 1 ELSE 0)
<1> SUFFICES ASSUME NEW q
             PROVE  InCampaign(more, c, q) + (IF MailingOf[r] = c /\ rows[r].status = q THEN 1 ELSE 0)
                    = InCampaign(rows, c, q) + (IF MailingOf[r] = c /\ more[r].status = q THEN 1 ELSE 0)
  OBVIOUS
<1>1. PICK A, B : /\ A = {x \in Mailed : MailingOf[x] = c /\ rows[x].status = q}
                  /\ B = {x \in Mailed : MailingOf[x] = c /\ more[x].status = q}
  OBVIOUS
<1>2. A \ {r} = B \ {r} /\ (r \in A <=> MailingOf[r] = c /\ rows[r].status = q)
      /\ (r \in B <=> MailingOf[r] = c /\ more[r].status = q)
  BY <1>1 DEF RowWritten
<1>3. A \subseteq Mailed /\ B \subseteq Mailed
  BY <1>1
<1>4. IsFiniteSet(A) /\ IsFiniteSet(B)
  BY <1>3, MailedFinite, CountWithin
<1>5. Cardinality(B) + (IF r \in A THEN 1 ELSE 0) = Cardinality(A) + (IF r \in B THEN 1 ELSE 0)
  BY <1>2, <1>4, CountMoves
<1> QED BY <1>1, <1>2, <1>5 DEF InCampaign

LEMMA CampaignMoves ==
    ASSUME NEW n \in Nat, NEW got, NEW c, NEW rows, NEW more, NEW k \in Nat,
           CampaignSound(n, got, c, rows, k), NEW r \in Mailed, RowWritten(rows, more, r)
    PROVE  CampaignSound(n, got, c, more, k + 1)
<1>1. PICK a1 \in Nat, a2 \in Nat, a3 \in Nat, b1 \in Nat, b2 \in Nat, b3 \in Nat, all \in Nat :
        /\ a1 = InCampaign(rows, c, "sent") /\ b1 = InCampaign(more, c, "sent")
        /\ a2 = InCampaign(rows, c, "failed") /\ b2 = InCampaign(more, c, "failed")
        /\ a3 = InCampaign(rows, c, "skipped") /\ b3 = InCampaign(more, c, "skipped")
        /\ all = OfCampaign(c)
  BY CampaignCounts
<1>2. PICK old, new : old = rows[r].status /\ new = more[r].status
  OBVIOUS
<1> DEFINE mine == MailingOf[r] = c
<1>3. /\ b1 + (IF mine /\ old = "sent" THEN 1 ELSE 0) = a1 + (IF mine /\ new = "sent" THEN 1 ELSE 0)
      /\ b2 + (IF mine /\ old = "failed" THEN 1 ELSE 0) = a2 + (IF mine /\ new = "failed" THEN 1 ELSE 0)
      /\ b3 + (IF mine /\ old = "skipped" THEN 1 ELSE 0) = a3 + (IF mine /\ new = "skipped" THEN 1 ELSE 0)
  BY <1>1, <1>2, CampaignRowMoves
<1>4. b1 - a1 \in {-1, 0, 1} /\ b2 - a2 \in {-1, 0, 1} /\ b3 - a3 \in {-1, 0, 1}
  BY <1>3
<1>5. /\ b1 > a1 => b2 <= a2 /\ b3 <= a3
      /\ b2 > a2 => b1 <= a1 /\ b3 <= a3
      /\ b3 > a3 => b1 <= a1 /\ b2 <= a2
  BY <1>3
<1> QED BY <1>1, <1>4, <1>5 DEF CampaignSound, View

LEMMA CampaignBegins ==
    ASSUME NEW rows, NEW c, NEW got PROVE CampaignSound(1, got, c, rows, 0)
<1>1. PICK A, B, C, W : /\ A = {r \in Mailed : MailingOf[r] = c /\ rows[r].status = "sent"}
                        /\ B = {r \in Mailed : MailingOf[r] = c /\ rows[r].status = "failed"}
                        /\ C = {r \in Mailed : MailingOf[r] = c /\ rows[r].status = "skipped"}
                        /\ W = {r \in Mailed : MailingOf[r] = c}
  OBVIOUS
<1>2. (A \cup B) \cup C \subseteq W /\ A \cap B = {} /\ (A \cup B) \cap C = {} /\ W \subseteq Mailed
      /\ A \subseteq W /\ B \subseteq W /\ C \subseteq W
  BY <1>1
<1>3. IsFiniteSet(W)
  BY <1>2, MailedFinite, CountWithin
<1>4. IsFiniteSet(A) /\ IsFiniteSet(B) /\ IsFiniteSet(C)
  BY <1>2, <1>3, CountWithin
<1>5. /\ Cardinality(A \cup B) = Cardinality(A) + Cardinality(B) /\ IsFiniteSet(A \cup B)
      /\ Cardinality(A) \in Nat /\ Cardinality(B) \in Nat
  BY <1>2, <1>4, CountTogether
<1>6. Cardinality((A \cup B) \cup C) = Cardinality(A \cup B) + Cardinality(C) /\ Cardinality(C) \in Nat
  BY <1>2, <1>4, <1>5, CountTogether
<1>7. Cardinality((A \cup B) \cup C) <= Cardinality(W) /\ Cardinality(W) \in Nat
  BY <1>2, <1>3, CountWithin
<1>8. /\ InCampaign(rows, c, "sent") = Cardinality(A) /\ InCampaign(rows, c, "failed") = Cardinality(B)
      /\ InCampaign(rows, c, "skipped") = Cardinality(C) /\ OfCampaign(c) = Cardinality(W)
  BY <1>1 DEF InCampaign, OfCampaign
<1>9. Cardinality(A) + Cardinality(B) + Cardinality(C) <= Cardinality(W)
  BY <1>5, <1>6, <1>7
<1> QED BY <1>5, <1>6, <1>7, <1>8, <1>9 DEF CampaignSound, View

LEMMA CampaignAsks ==
    ASSUME NEW n \in 1..6, NEW got, DOMAIN got = QueryNames, NEW c, NEW rows, NEW k \in Nat,
           CampaignSound(n, got, c, rows, k), NEW q, q = Queries("campaign")[n], NEW more, NEW v,
           more = [got EXCEPT ![q] = v],
           q = "total" => v = OfCampaign(c),
           q \in {"sent", "failed", "skipped"} => v = InCampaign(rows, c, q)
    PROVE  CampaignSound(n + 1, more, c, rows, k)
<1>1. Queries("campaign") = <<"total", "sent", "failed", "skipped", "bounces", "unsubscribes">>
  BY DEF Queries
<1>2. \/ (n = 1 /\ q = "total") \/ (n = 2 /\ q = "sent") \/ (n = 3 /\ q = "failed")
      \/ (n = 4 /\ q = "skipped") \/ (n = 5 /\ q = "bounces") \/ (n = 6 /\ q = "unsubscribes")
  BY <1>1
<1>3. \A x \in QueryNames : more[x] = IF x = q THEN v ELSE got[x]
  OBVIOUS
<1>4. /\ more["total"] = IF "total" = q THEN v ELSE got["total"]
      /\ more["sent"] = IF "sent" = q THEN v ELSE got["sent"]
      /\ more["failed"] = IF "failed" = q THEN v ELSE got["failed"]
      /\ more["skipped"] = IF "skipped" = q THEN v ELSE got["skipped"]
  BY <1>3 DEF QueryNames
<1>5. /\ View(n + 1, more, "sent", 2, InCampaign(rows, c, "sent"))
         = View(n, got, "sent", 2, InCampaign(rows, c, "sent"))
      /\ View(n + 1, more, "failed", 3, InCampaign(rows, c, "failed"))
         = View(n, got, "failed", 3, InCampaign(rows, c, "failed"))
      /\ View(n + 1, more, "skipped", 4, InCampaign(rows, c, "skipped"))
         = View(n, got, "skipped", 4, InCampaign(rows, c, "skipped"))
  BY <1>2, <1>4 DEF View
<1>6. more["total"] = OfCampaign(c)
  BY <1>2, <1>4 DEF CampaignSound
<1> QED BY <1>5, <1>6 DEF CampaignSound

-----------------------------------------------------------------------------
\* The dashboard: what was ever sent, since when it was asked for, and on the last two days.
EverSent(rows) == Cardinality({r \in Mailed : rows[r].status = "sent"})
SentAfter(rows, t) == Cardinality({r \in Mailed : rows[r].status = "sent" /\ rows[r].at >= t})
SentWithin(rows, t) ==
    Cardinality({r \in Mailed : rows[r].status = "sent" /\ rows[r].at >= t /\ rows[r].at < t + 2})
DayBegan(h) == h - (h % 2)

DashboardSound(n, got, rows, since, h, k) ==
    LET ever == View(n, got, "everSent", 1, EverSent(rows))
        recent == View(n, got, "recentSent", 2, SentAfter(rows, since))
    IN  /\ since <= h - 2 * Days
        /\ ever \in Nat /\ recent \in Nat /\ recent <= ever + k
        /\ n <= 5 => SentAfter(rows, since) <= recent + k
        /\ n = 6 => /\ got["yesterday"] \in Nat
                    /\ \E m \in Int : m <= DayBegan(h)
                        /\ got["yesterday"] + SentAfter(rows, m) <= recent + k
        /\ n > 6 => /\ got["yesterday"] \in Nat /\ got["today"] \in Nat
                    /\ got["yesterday"] + got["today"] <= recent + k

AtTimes(rows) == \A r \in Mailed : rows[r].at \in Int

LEMMA SentCounts ==
    \A rows, t : EverSent(rows) \in Nat /\ SentAfter(rows, t) \in Nat /\ SentWithin(rows, t) \in Nat
                 /\ SentAfter(rows, t) <= EverSent(rows)
<1> SUFFICES ASSUME NEW rows, NEW t
             PROVE  EverSent(rows) \in Nat /\ SentAfter(rows, t) \in Nat /\ SentWithin(rows, t) \in Nat
                    /\ SentAfter(rows, t) <= EverSent(rows)
  OBVIOUS
<1>1. PICK A, B, C : /\ A = {r \in Mailed : rows[r].status = "sent"}
                     /\ B = {r \in Mailed : rows[r].status = "sent" /\ rows[r].at >= t}
                     /\ C = {r \in Mailed : rows[r].status = "sent" /\ rows[r].at >= t /\ rows[r].at < t + 2}
  OBVIOUS
<1>2. A \subseteq Mailed /\ B \subseteq A /\ C \subseteq A
  BY <1>1
<1>3. IsFiniteSet(A)
  BY <1>2, MailedFinite, CountWithin
<1>4. Cardinality(A) \in Nat /\ Cardinality(B) \in Nat /\ Cardinality(C) \in Nat
      /\ Cardinality(B) <= Cardinality(A)
  BY <1>2, <1>3, CountWithin
<1> QED BY <1>1, <1>4 DEF EverSent, SentAfter, SentWithin

LEMMA SentMoves ==
    ASSUME NEW rows, NEW more, NEW r \in Mailed, RowWritten(rows, more, r)
    PROVE  /\ EverSent(more) <= EverSent(rows) + 1 /\ EverSent(rows) <= EverSent(more) + 1
           /\ \A t : SentAfter(more, t) <= SentAfter(rows, t) + 1 /\ SentAfter(rows, t) <= SentAfter(more, t) + 1
<1>1. EverSent(more) <= EverSent(rows) + 1 /\ EverSent(rows) <= EverSent(more) + 1
  <2>1. PICK A, B : A = {x \in Mailed : rows[x].status = "sent"} /\ B = {x \in Mailed : more[x].status = "sent"}
    OBVIOUS
  <2>2. A \ {r} = B \ {r} /\ A \subseteq Mailed /\ B \subseteq Mailed
    BY <2>1 DEF RowWritten
  <2>3. IsFiniteSet(A) /\ IsFiniteSet(B)
    BY <2>2, MailedFinite, CountWithin
  <2>4. /\ Cardinality(A) \in Nat /\ Cardinality(B) \in Nat
        /\ Cardinality(B) + (IF r \in A THEN 1 ELSE 0) = Cardinality(A) + (IF r \in B THEN 1 ELSE 0)
    BY <2>2, <2>3, CountMoves
  <2> QED BY <2>1, <2>4 DEF EverSent
<1>2. ASSUME NEW t
      PROVE  SentAfter(more, t) <= SentAfter(rows, t) + 1 /\ SentAfter(rows, t) <= SentAfter(more, t) + 1
  <2>1. PICK A, B : /\ A = {x \in Mailed : rows[x].status = "sent" /\ rows[x].at >= t}
                    /\ B = {x \in Mailed : more[x].status = "sent" /\ more[x].at >= t}
    OBVIOUS
  <2>2. A \ {r} = B \ {r} /\ A \subseteq Mailed /\ B \subseteq Mailed
    BY <2>1 DEF RowWritten
  <2>3. IsFiniteSet(A) /\ IsFiniteSet(B)
    BY <2>2, MailedFinite, CountWithin
  <2>4. /\ Cardinality(A) \in Nat /\ Cardinality(B) \in Nat
        /\ Cardinality(B) + (IF r \in A THEN 1 ELSE 0) = Cardinality(A) + (IF r \in B THEN 1 ELSE 0)
    BY <2>2, <2>3, CountMoves
  <2> QED BY <2>1, <2>4 DEF SentAfter
<1> QED BY <1>1, <1>2

LEMMA DashboardMoves ==
    ASSUME NEW n \in Nat, NEW got, NEW rows, NEW more, NEW since \in Int, NEW h \in Nat, NEW k \in Nat,
           DashboardSound(n, got, rows, since, h, k), NEW r \in Mailed, RowWritten(rows, more, r)
    PROVE  DashboardSound(n, got, more, since, h, k + 1)
<1>1. PICK e1 \in Nat, e2 \in Nat, s1 \in Nat, s2 \in Nat :
        /\ e1 = EverSent(rows) /\ e2 = EverSent(more) /\ s1 = SentAfter(rows, since) /\ s2 = SentAfter(more, since)
        /\ e2 <= e1 + 1 /\ e1 <= e2 + 1 /\ s2 <= s1 + 1 /\ s1 <= s2 + 1 /\ s2 <= e2
  BY SentCounts, SentMoves
<1>2. since <= h - 2 * Days
  BY DEF DashboardSound
<1>3. PICK recent \in Nat, ever \in Nat, recent2 \in Nat, ever2 \in Nat :
        /\ recent = View(n, got, "recentSent", 2, s1) /\ ever = View(n, got, "everSent", 1, e1)
        /\ recent2 = View(n, got, "recentSent", 2, s2) /\ ever2 = View(n, got, "everSent", 1, e2)
  BY <1>1 DEF DashboardSound, View
<1>4. /\ n > 2 => recent2 = recent /\ ever2 = ever
      /\ n = 2 => recent2 = s2 /\ recent = s1 /\ ever2 = ever
      /\ n < 2 => recent2 = s2 /\ ever2 = e2 /\ recent = s1 /\ ever = e1
  BY <1>3 DEF View
<1>5. recent <= ever + k /\ (n <= 5 => s1 <= recent + k)
  BY <1>1, <1>3 DEF DashboardSound
<1>6. recent2 <= ever2 + (k + 1)
  BY <1>1, <1>4, <1>5
<1>7. n <= 5 => s2 <= recent2 + (k + 1)
  BY <1>1, <1>4, <1>5
<1>8. n = 6 => /\ got["yesterday"] \in Nat
               /\ \E m \in Int : m <= DayBegan(h)
                    /\ got["yesterday"] + SentAfter(more, m) <= recent2 + (k + 1)
  <2> SUFFICES ASSUME n = 6
               PROVE  /\ got["yesterday"] \in Nat
                      /\ \E m \in Int : m <= DayBegan(h)
                            /\ got["yesterday"] + SentAfter(more, m) <= recent2 + (k + 1)
    OBVIOUS
  <2>1. PICK m \in Int : /\ m <= DayBegan(h) /\ got["yesterday"] \in Nat
                         /\ got["yesterday"] + SentAfter(rows, m) <= recent + k
    BY <1>1, <1>3 DEF DashboardSound
  <2>2. /\ SentAfter(rows, m) \in Nat /\ SentAfter(more, m) \in Nat
        /\ SentAfter(more, m) <= SentAfter(rows, m) + 1
    BY SentCounts, SentMoves
  <2>3. got["yesterday"] + SentAfter(more, m) <= recent2 + (k + 1)
    BY <1>4, <2>1, <2>2
  <2> QED BY <2>1, <2>3
<1>9. n > 6 => /\ got["yesterday"] \in Nat /\ got["today"] \in Nat
               /\ got["yesterday"] + got["today"] <= recent2 + (k + 1)
  <2> SUFFICES ASSUME n > 6
               PROVE  /\ got["yesterday"] \in Nat /\ got["today"] \in Nat
                      /\ got["yesterday"] + got["today"] <= recent2 + (k + 1)
    OBVIOUS
  <2>1. /\ got["yesterday"] \in Nat /\ got["today"] \in Nat
        /\ got["yesterday"] + got["today"] <= recent + k
    BY <1>1, <1>3 DEF DashboardSound
  <2> QED BY <1>4, <2>1
<1> QED BY <1>1, <1>2, <1>3, <1>6, <1>7, <1>8, <1>9 DEF DashboardSound

LEMMA DayBeganBounds ==
    \A h \in Nat : /\ DayBegan(h) \in Int /\ DayBegan(h) <= h /\ h - 1 <= DayBegan(h)
                   /\ DayBegan(h) <= DayBegan(h + 1)
<1> SUFFICES ASSUME NEW h \in Nat
             PROVE  /\ DayBegan(h) \in Int /\ DayBegan(h) <= h /\ h - 1 <= DayBegan(h)
                    /\ DayBegan(h) <= DayBegan(h + 1)
  OBVIOUS
<1>1. h % 2 \in {0, 1} /\ (h + 1) % 2 \in {0, 1}
  OBVIOUS
<1>2. h % 2 = 0 => (h + 1) % 2 = 1
  OBVIOUS
<1> QED BY <1>1, <1>2 DEF DayBegan

\* Time passes, or rows change that are not of the dashboard.
LEMMA DashboardDrifts ==
    ASSUME NEW n \in Nat, NEW got, NEW rows, NEW since \in Int, NEW h \in Nat, NEW k \in Nat,
           DashboardSound(n, got, rows, since, h, k), NEW m \in Nat, k <= m
    PROVE  DashboardSound(n, got, rows, since, h, m) /\ DashboardSound(n, got, rows, since, h + 1, m)
<1>1. PICK e \in Nat, s \in Nat : e = EverSent(rows) /\ s = SentAfter(rows, since)
  BY SentCounts
<1>2. PICK recent \in Nat, ever \in Nat :
        /\ recent = View(n, got, "recentSent", 2, s) /\ ever = View(n, got, "everSent", 1, e)
        /\ recent <= ever + k /\ (n <= 5 => s <= recent + k) /\ since <= h - 2 * Days
  BY <1>1 DEF DashboardSound
<1>3. recent <= ever + m /\ (n <= 5 => s <= recent + m) /\ since <= (h + 1) - 2 * Days
  BY <1>1, <1>2 DEF Days
<1>4. ASSUME n = 6
      PROVE  /\ got["yesterday"] \in Nat
             /\ \E b \in Int : /\ b <= DayBegan(h) /\ b <= DayBegan(h + 1)
                               /\ got["yesterday"] + SentAfter(rows, b) <= recent + m
  <2>1. PICK b \in Int : /\ b <= DayBegan(h) /\ got["yesterday"] \in Nat
                         /\ got["yesterday"] + SentAfter(rows, b) <= recent + k
    BY <1>1, <1>2, <1>4 DEF DashboardSound
  <2>2. SentAfter(rows, b) \in Nat
    BY SentCounts
  <2>3. b <= DayBegan(h + 1)
    <3>1. h + 1 \in Nat
      OBVIOUS
    <3>2. DayBegan(h) \in Int /\ DayBegan(h + 1) \in Int /\ DayBegan(h) <= DayBegan(h + 1)
      BY <3>1, DayBeganBounds
    <3> QED BY <2>1, <3>2
  <2>4. got["yesterday"] + SentAfter(rows, b) <= recent + m
    BY <2>1, <2>2
  <2> QED BY <2>1, <2>3, <2>4
<1>5. ASSUME n > 6
      PROVE  /\ got["yesterday"] \in Nat /\ got["today"] \in Nat
             /\ got["yesterday"] + got["today"] <= recent + m
  <2>1. /\ got["yesterday"] \in Nat /\ got["today"] \in Nat
        /\ got["yesterday"] + got["today"] <= recent + k
    BY <1>1, <1>2, <1>5 DEF DashboardSound
  <2> QED BY <2>1
<1> QED BY <1>1, <1>2, <1>3, <1>4, <1>5 DEF DashboardSound

LEMMA CampaignDrifts ==
    ASSUME NEW n, NEW got, NEW c, NEW rows, NEW k \in Nat, NEW m \in Nat, k <= m,
           CampaignSound(n, got, c, rows, k)
    PROVE  CampaignSound(n, got, c, rows, m)
<1>1. OfCampaign(c) \in Nat
  BY CampaignCounts
<1> QED BY <1>1 DEF CampaignSound

LEMMA DashboardBegins ==
    ASSUME NEW got, NEW rows, NEW h \in Nat
    PROVE  DashboardSound(1, got, rows, h - 2 * Days, h, 0)
<1>1. PICK t : t = h - 2 * Days
  OBVIOUS
<1>2. PICK e \in Nat, s \in Nat : e = EverSent(rows) /\ s = SentAfter(rows, t) /\ s <= e
  BY SentCounts
<1>3. t \in Int
  BY <1>1 DEF Days
<1> QED BY <1>1, <1>2, <1>3 DEF DashboardSound, View

\* What was sent on a day is not counted by the next one.
LEMMA DaysApart ==
    ASSUME NEW rows, NEW since \in Int, NEW t \in Int, since <= t, AtTimes(rows)
    PROVE  SentWithin(rows, t) + SentAfter(rows, t + 2) <= SentAfter(rows, since)
<1>1. PICK A, B, C : /\ A = {r \in Mailed : rows[r].status = "sent" /\ rows[r].at >= t /\ rows[r].at < t + 2}
                     /\ B = {r \in Mailed : rows[r].status = "sent" /\ rows[r].at >= t + 2}
                     /\ C = {r \in Mailed : rows[r].status = "sent" /\ rows[r].at >= since}
  OBVIOUS
<1>2. \A r \in Mailed : rows[r].at \in Int
  BY DEF AtTimes
<1>3. A \cap B = {} /\ A \subseteq C /\ B \subseteq C /\ C \subseteq Mailed
  BY <1>1, <1>2
<1>4. IsFiniteSet(C)
  BY <1>3, MailedFinite, CountWithin
<1>5. IsFiniteSet(A) /\ IsFiniteSet(B)
  BY <1>3, <1>4, CountWithin
<1>6. Cardinality(A \cup B) = Cardinality(A) + Cardinality(B)
  BY <1>3, <1>5, CountTogether
<1>7. Cardinality(A \cup B) <= Cardinality(C)
  <2>1. A \cup B \subseteq C
    BY <1>3
  <2> QED BY <2>1, <1>4, CountWithin
<1>8. /\ SentWithin(rows, t) = Cardinality(A) /\ SentAfter(rows, t + 2) = Cardinality(B)
      /\ SentAfter(rows, since) = Cardinality(C)
  BY <1>1 DEF SentWithin, SentAfter
<1> QED BY <1>6, <1>7, <1>8

LEMMA DashboardAsks ==
    ASSUME NEW n \in 1..6, NEW got, DOMAIN got = QueryNames, NEW rows, NEW since \in Int, NEW h \in Nat,
           NEW k \in Nat, DashboardSound(n, got, rows, since, h, k), AtTimes(rows),
           NEW q, q = Queries("dashboard")[n], NEW more, NEW v, more = [got EXCEPT ![q] = v],
           q = "everSent" => v = EverSent(rows),
           q = "recentSent" => v = SentAfter(rows, since),
           q = "yesterday" => v = SentWithin(rows, DayBegan(h) - 2),
           q = "today" => v = SentWithin(rows, DayBegan(h))
    PROVE  DashboardSound(n + 1, more, rows, since, h, k)
<1>1. Queries("dashboard") = <<"everSent", "recentSent", "bounces", "unsubscribes", "yesterday", "today">>
  BY DEF Queries
<1>2. \/ (n = 1 /\ q = "everSent") \/ (n = 2 /\ q = "recentSent") \/ (n = 3 /\ q = "bounces")
      \/ (n = 4 /\ q = "unsubscribes") \/ (n = 5 /\ q = "yesterday") \/ (n = 6 /\ q = "today")
  BY <1>1
<1>3. \A x \in QueryNames : more[x] = IF x = q THEN v ELSE got[x]
  OBVIOUS
<1>4. /\ more["everSent"] = IF "everSent" = q THEN v ELSE got["everSent"]
      /\ more["recentSent"] = IF "recentSent" = q THEN v ELSE got["recentSent"]
      /\ more["yesterday"] = IF "yesterday" = q THEN v ELSE got["yesterday"]
      /\ more["today"] = IF "today" = q THEN v ELSE got["today"]
  BY <1>3 DEF QueryNames
<1>5. PICK e \in Nat, s \in Nat : e = EverSent(rows) /\ s = SentAfter(rows, since)
  BY SentCounts
<1>6. PICK ever \in Nat, recent \in Nat :
        /\ ever = View(n, got, "everSent", 1, e) /\ recent = View(n, got, "recentSent", 2, s)
        /\ recent <= ever + k /\ (n <= 5 => s <= recent + k) /\ since <= h - 2 * Days
  BY <1>5 DEF DashboardSound
<1>7. View(n + 1, more, "everSent", 1, e) = ever /\ View(n + 1, more, "recentSent", 2, s) = recent
  BY <1>2, <1>4, <1>5, <1>6 DEF View
<1>8. ASSUME n + 1 = 6
      PROVE  /\ more["yesterday"] \in Nat
             /\ \E m \in Int : m <= DayBegan(h) /\ more["yesterday"] + SentAfter(rows, m) <= recent + k
  <2>1. PICK t \in Int : t = DayBegan(h) - 2 /\ since <= t /\ t + 2 = DayBegan(h)
    <3>1. DayBegan(h) \in Int /\ h - 1 <= DayBegan(h)
      BY DayBeganBounds
    <3>2. PICK b \in Int : b = DayBegan(h) /\ h - 1 <= b
      BY <3>1
    <3> QED BY <3>2, <1>6 DEF Days
  <2>2. SentWithin(rows, t) + SentAfter(rows, t + 2) <= s
    BY <1>5, <2>1, DaysApart
  <2>3. more["yesterday"] = SentWithin(rows, t)
    BY <1>2, <1>4, <1>8, <2>1
  <2>4. SentWithin(rows, t) \in Nat /\ SentAfter(rows, t + 2) \in Nat
    BY SentCounts
  <2>5. more["yesterday"] + SentAfter(rows, t + 2) <= recent + k
    BY <1>6, <1>8, <2>2, <2>3, <2>4
  <2> QED BY <2>1, <2>3, <2>4, <2>5
<1>9. ASSUME n + 1 > 6
      PROVE  /\ more["yesterday"] \in Nat /\ more["today"] \in Nat
             /\ more["yesterday"] + more["today"] <= recent + k
  <2>1. n = 6
    BY <1>9
  <2>2. PICK m \in Int : /\ m <= DayBegan(h) /\ got["yesterday"] \in Nat
                         /\ got["yesterday"] + SentAfter(rows, m) <= recent + k
    BY <1>5, <1>6, <2>1 DEF DashboardSound
  <2>3. PICK t \in Int : t = DayBegan(h)
    BY DayBeganBounds
  <2>4. SentWithin(rows, t) + SentAfter(rows, t + 2) <= SentAfter(rows, m)
    BY <2>2, <2>3, DaysApart
  <2>5. SentWithin(rows, t) \in Nat /\ SentAfter(rows, t + 2) \in Nat /\ SentAfter(rows, m) \in Nat
    BY SentCounts
  <2>6. more["yesterday"] = got["yesterday"] /\ more["today"] = SentWithin(rows, t)
    BY <1>2, <1>4, <2>1, <2>3
  <2> QED BY <2>2, <2>4, <2>5, <2>6
<1>10. n + 1 <= 5 => s <= recent + k
  BY <1>6
<1> QED BY <1>5, <1>6, <1>7, <1>8, <1>9, <1>10 DEF DashboardSound

-----------------------------------------------------------------------------
\* The statistics of the bounces and of the suppressions.
OfType(rows, type) == Cardinality({i \in DOMAIN rows : rows[i].type = type})
Listed(rows) == Cardinality({i \in DOMAIN rows : rows[i].reason = "hard_bounce"})

BouncesSound(n, got, rows, k) ==
    LET total == View(n, got, "total", 1, Len(rows))
        hard == View(n, got, "hard", 2, OfType(rows, "hard"))
        soft == View(n, got, "soft", 3, OfType(rows, "soft"))
    IN  total \in Nat /\ hard \in Nat /\ soft \in Nat /\ hard + soft <= total + k

SuppressionsSound(n, got, rows, k) ==
    LET total == View(n, got, "total", 1, Len(rows))
        bounces == View(n, got, "bounces", 2, Listed(rows))
        left == View(n, got, "unsubscribes", 3, 0)
    IN  total \in Nat /\ bounces \in Nat /\ left = 0 /\ bounces + left <= total + k

\* A row is added at the end.
Added(rows, more) ==
    /\ Len(rows) \in Nat /\ DOMAIN rows = 1..Len(rows)
    /\ Len(more) = Len(rows) + 1 /\ DOMAIN more = 1..(Len(rows) + 1)
    /\ \A i \in DOMAIN rows : more[i] = rows[i]

LEMMA AppendAdds ==
    ASSUME NEW S, NEW rows \in Seq(S), NEW x \in S, NEW more, more = Append(rows, x)
    PROVE  more \in Seq(S) /\ Added(rows, more)
BY DEF Added

LEMMA TypeMoves ==
    ASSUME NEW rows, NEW more, Added(rows, more)
    PROVE  /\ OfType(rows, "hard") \in Nat /\ OfType(rows, "soft") \in Nat
           /\ OfType(more, "hard") \in Nat /\ OfType(more, "soft") \in Nat
           /\ OfType(more, "hard") <= OfType(rows, "hard") + 1
           /\ OfType(more, "soft") <= OfType(rows, "soft") + 1
           /\ OfType(more, "hard") + OfType(more, "soft") <= OfType(rows, "hard") + OfType(rows, "soft") + 1
<1>1. PICK m \in Nat : m = Len(rows) + 1 /\ DOMAIN rows = 1..Len(rows) /\ DOMAIN more = 1..m
                       /\ 1..m = (1..Len(rows)) \cup {m} /\ m \notin 1..Len(rows)
                       /\ \A i \in DOMAIN rows : more[i] = rows[i]
  BY DEF Added
<1>2. IsFiniteSet(1..m) /\ IsFiniteSet(1..Len(rows))
  <2>1. Len(rows) \in Nat
    BY DEF Added
  <2> QED BY <2>1, FS_Interval
<1> DEFINE Of(f, type) == {i \in DOMAIN f : f[i].type = type}
<1>3. ASSUME NEW type
      PROVE  /\ Cardinality(Of(rows, type)) \in Nat /\ Cardinality(Of(more, type)) \in Nat
             /\ Cardinality(Of(more, type))
                = Cardinality(Of(rows, type)) + (IF more[m].type = type THEN 1 ELSE 0)
  <2>1. PICK A, B : A = Of(rows, type) /\ B = Of(more, type)
    OBVIOUS
  <2>2. A \subseteq 1..Len(rows) /\ B \subseteq 1..m
    BY <1>1, <2>1
  <2>3. IsFiniteSet(A) /\ IsFiniteSet(B)
    BY <1>2, <2>2, CountWithin
  <2>4. A \ {m} = B \ {m}
    BY <1>1, <2>1
  <2>5. m \notin A /\ (m \in B <=> more[m].type = type)
    BY <1>1, <2>1
  <2>6. /\ Cardinality(A) \in Nat /\ Cardinality(B) \in Nat
        /\ Cardinality(B) + (IF m \in A THEN 1 ELSE 0) = Cardinality(A) + (IF m \in B THEN 1 ELSE 0)
    BY <2>3, <2>4, CountMoves
  <2> QED BY <2>1, <2>5, <2>6
<1>4. \A type : OfType(rows, type) = Cardinality(Of(rows, type)) /\ OfType(more, type) = Cardinality(Of(more, type))
  BY DEF OfType
<1> HIDE DEF Of
<1>5. PICK a \in Nat, b \in Nat, c \in Nat, d \in Nat :
        /\ a = OfType(rows, "hard") /\ b = OfType(rows, "soft")
        /\ c = OfType(more, "hard") /\ d = OfType(more, "soft")
        /\ c = a + (IF more[m].type = "hard" THEN 1 ELSE 0)
        /\ d = b + (IF more[m].type = "soft" THEN 1 ELSE 0)
  BY <1>3, <1>4
<1> QED BY <1>5

LEMMA BouncesMove ==
    ASSUME NEW n \in Nat, NEW got, NEW rows, NEW more, NEW k \in Nat, BouncesSound(n, got, rows, k),
           Added(rows, more)
    PROVE  BouncesSound(n, got, more, k + 1)
<1>1. PICK a \in Nat, b \in Nat, c \in Nat, d \in Nat :
        /\ a = OfType(rows, "hard") /\ b = OfType(rows, "soft")
        /\ c = OfType(more, "hard") /\ d = OfType(more, "soft")
        /\ c <= a + 1 /\ d <= b + 1 /\ c + d <= a + b + 1
  BY TypeMoves
<1>2. PICK l \in Nat : l = Len(rows) /\ Len(more) = l + 1
  BY DEF Added
<1>3. PICK total \in Nat, hard \in Nat, soft \in Nat :
        /\ total = View(n, got, "total", 1, l) /\ hard = View(n, got, "hard", 2, a)
        /\ soft = View(n, got, "soft", 3, b) /\ hard + soft <= total + k
  BY <1>1, <1>2 DEF BouncesSound
<1>4. /\ View(n, got, "total", 1, l + 1) = IF n > 1 THEN total ELSE l + 1
      /\ View(n, got, "hard", 2, c) = IF n > 2 THEN hard ELSE c
      /\ View(n, got, "soft", 3, d) = IF n > 3 THEN soft ELSE d
  BY <1>3 DEF View
<1>5. (n <= 1 => total = l) /\ (n <= 2 => hard = a) /\ (n <= 3 => soft = b)
  BY <1>3 DEF View
<1>6. PICK total2 \in Nat, hard2 \in Nat, soft2 \in Nat :
        /\ total2 = (IF n > 1 THEN total ELSE l + 1) /\ hard2 = (IF n > 2 THEN hard ELSE c)
        /\ soft2 = (IF n > 3 THEN soft ELSE d)
  OBVIOUS
<1>7. hard2 + soft2 <= total2 + (k + 1)
  <2>1. CASE n <= 1
    <3>1. hard = a /\ soft = b /\ total = l /\ hard2 = c /\ soft2 = d /\ total2 = l + 1
      BY <2>1, <1>5, <1>6
    <3> QED BY <3>1, <1>1, <1>3
  <2>2. CASE n = 2
    BY <2>2, <1>1, <1>3, <1>5, <1>6
  <2>3. CASE n > 2
    BY <2>3, <1>1, <1>3, <1>5, <1>6
  <2> QED BY <2>1, <2>2, <2>3
<1> QED BY <1>1, <1>2, <1>4, <1>6, <1>7 DEF BouncesSound

LEMMA BouncesBegin ==
    ASSUME NEW S, NEW rows \in Seq(S), NEW got PROVE BouncesSound(1, got, rows, 0)
<1>1. PICK l \in Nat : l = Len(rows) /\ DOMAIN rows = 1..l
  OBVIOUS
<1>2. PICK A, B : A = {i \in DOMAIN rows : rows[i].type = "hard"} /\ B = {i \in DOMAIN rows : rows[i].type = "soft"}
  OBVIOUS
<1>3. A \cap B = {} /\ A \subseteq 1..l /\ B \subseteq 1..l /\ A \cup B \subseteq 1..l
  BY <1>1, <1>2
<1>4. IsFiniteSet(1..l) /\ Cardinality(1..l) = l
  BY FS_Interval
<1>5. IsFiniteSet(A) /\ IsFiniteSet(B) /\ Cardinality(A \cup B) <= Cardinality(1..l)
  BY <1>3, <1>4, CountWithin
<1>6. /\ Cardinality(A \cup B) = Cardinality(A) + Cardinality(B)
      /\ Cardinality(A) \in Nat /\ Cardinality(B) \in Nat
  BY <1>3, <1>5, CountTogether
<1>7. OfType(rows, "hard") = Cardinality(A) /\ OfType(rows, "soft") = Cardinality(B)
  BY <1>2 DEF OfType
<1> QED BY <1>1, <1>4, <1>5, <1>6, <1>7 DEF BouncesSound, View

LEMMA BouncesAsk ==
    ASSUME NEW n \in 1..3, NEW got, DOMAIN got = QueryNames, NEW rows, NEW k \in Nat,
           BouncesSound(n, got, rows, k), NEW q, q = Queries("bounces")[n], NEW more, NEW v,
           more = [got EXCEPT ![q] = v],
           v = IF q = "total" THEN Len(rows) ELSE OfType(rows, q)
    PROVE  BouncesSound(n + 1, more, rows, k)
<1>1. Queries("bounces") = <<"total", "hard", "soft">>
  BY DEF Queries
<1>2. \/ (n = 1 /\ q = "total") \/ (n = 2 /\ q = "hard") \/ (n = 3 /\ q = "soft")
  BY <1>1
<1>3. \A x \in QueryNames : more[x] = IF x = q THEN v ELSE got[x]
  OBVIOUS
<1>4. /\ more["total"] = IF "total" = q THEN v ELSE got["total"]
      /\ more["hard"] = IF "hard" = q THEN v ELSE got["hard"]
      /\ more["soft"] = IF "soft" = q THEN v ELSE got["soft"]
  BY <1>3 DEF QueryNames
<1>5. /\ View(n + 1, more, "total", 1, Len(rows)) = View(n, got, "total", 1, Len(rows))
      /\ View(n + 1, more, "hard", 2, OfType(rows, "hard")) = View(n, got, "hard", 2, OfType(rows, "hard"))
      /\ View(n + 1, more, "soft", 3, OfType(rows, "soft")) = View(n, got, "soft", 3, OfType(rows, "soft"))
  BY <1>2, <1>4 DEF View
<1> QED BY <1>5 DEF BouncesSound

LEMMA SuppressionsMove ==
    ASSUME NEW n \in Nat, NEW got, NEW rows, NEW more, NEW k \in Nat, SuppressionsSound(n, got, rows, k),
           Added(rows, more)
    PROVE  SuppressionsSound(n, got, more, k + 1)
<1>0. PICK l \in Nat : /\ l = Len(rows) /\ Len(more) = l + 1 /\ DOMAIN rows = 1..l /\ DOMAIN more = 1..(l + 1)
                       /\ \A i \in DOMAIN rows : more[i] = rows[i]
  BY DEF Added
<1>1. PICK m \in Nat : /\ l = Len(rows) /\ Len(more) = l + 1 /\ m = l + 1
                       /\ DOMAIN rows = 1..l /\ DOMAIN more = 1..m
                       /\ \A i \in DOMAIN rows : more[i] = rows[i]
  BY <1>0
<1>2. PICK A, B : /\ A = {i \in DOMAIN rows : rows[i].reason = "hard_bounce"}
                  /\ B = {i \in DOMAIN more : more[i].reason = "hard_bounce"}
  OBVIOUS
<1>3. A \subseteq 1..l /\ B \subseteq 1..m /\ A \ {m} = B \ {m} /\ m \notin A
  <2>1. 1..m = (1..l) \cup {m} /\ m \notin 1..l
    BY <1>1
  <2> QED BY <1>1, <1>2, <2>1
<1>4. IsFiniteSet(1..l) /\ IsFiniteSet(1..m)
  BY <1>1, FS_Interval
<1>5. IsFiniteSet(A) /\ IsFiniteSet(B)
  BY <1>3, <1>4, CountWithin
<1>6. /\ Cardinality(A) \in Nat /\ Cardinality(B) \in Nat
      /\ Cardinality(B) + (IF m \in A THEN 1 ELSE 0) = Cardinality(A) + (IF m \in B THEN 1 ELSE 0)
  BY <1>3, <1>5, CountMoves
<1>7. Listed(rows) = Cardinality(A) /\ Listed(more) = Cardinality(B)
  BY <1>2 DEF Listed
<1>8. PICK a \in Nat, b \in Nat : a = Listed(rows) /\ b = Listed(more) /\ b <= a + 1
  BY <1>3, <1>6, <1>7
<1>9. PICK total \in Nat, bounces \in Nat :
        /\ total = View(n, got, "total", 1, l) /\ bounces = View(n, got, "bounces", 2, a)
        /\ bounces <= total + k /\ View(n, got, "unsubscribes", 3, 0) = 0
  BY <1>1, <1>8 DEF SuppressionsSound
<1>10. /\ View(n, got, "total", 1, l + 1) = IF n > 1 THEN total ELSE l + 1
       /\ View(n, got, "bounces", 2, b) = IF n > 2 THEN bounces ELSE b
  BY <1>9 DEF View
<1>11. (n <= 1 => total = l) /\ (n <= 2 => bounces = a)
  BY <1>9 DEF View
<1>12. PICK total2 \in Nat, bounces2 \in Nat :
        /\ total2 = View(n, got, "total", 1, l + 1) /\ bounces2 = View(n, got, "bounces", 2, b)
        /\ bounces2 <= total2 + (k + 1)
  BY <1>8, <1>9, <1>10, <1>11
<1> QED BY <1>1, <1>8, <1>9, <1>12 DEF SuppressionsSound

LEMMA SuppressionsBegin ==
    ASSUME NEW S, NEW rows \in Seq(S), NEW got PROVE SuppressionsSound(1, got, rows, 0)
<1>1. PICK l \in Nat : l = Len(rows) /\ DOMAIN rows = 1..l
  OBVIOUS
<1>2. PICK A : A = {i \in DOMAIN rows : rows[i].reason = "hard_bounce"}
  OBVIOUS
<1>3. A \subseteq 1..l
  BY <1>1, <1>2
<1>4. IsFiniteSet(1..l) /\ Cardinality(1..l) = l
  BY FS_Interval
<1>5. Cardinality(A) <= l /\ Cardinality(A) \in Nat
  BY <1>3, <1>4, CountWithin
<1>6. Listed(rows) = Cardinality(A)
  BY <1>2 DEF Listed
<1> QED BY <1>1, <1>5, <1>6 DEF SuppressionsSound, View

LEMMA SuppressionsAsk ==
    ASSUME NEW n \in 1..3, NEW got, DOMAIN got = QueryNames, NEW rows, NEW k \in Nat,
           SuppressionsSound(n, got, rows, k), NEW q, q = Queries("suppressions")[n], NEW more, NEW v,
           more = [got EXCEPT ![q] = v],
           q = "total" => v = Len(rows), q = "bounces" => v = Listed(rows), q = "unsubscribes" => v = 0
    PROVE  SuppressionsSound(n + 1, more, rows, k)
<1>1. Queries("suppressions") = <<"total", "bounces", "unsubscribes">>
  BY DEF Queries
<1>2. \/ (n = 1 /\ q = "total") \/ (n = 2 /\ q = "bounces") \/ (n = 3 /\ q = "unsubscribes")
  BY <1>1
<1>3. \A x \in QueryNames : more[x] = IF x = q THEN v ELSE got[x]
  OBVIOUS
<1>4. /\ more["total"] = IF "total" = q THEN v ELSE got["total"]
      /\ more["bounces"] = IF "bounces" = q THEN v ELSE got["bounces"]
      /\ more["unsubscribes"] = IF "unsubscribes" = q THEN v ELSE got["unsubscribes"]
  BY <1>3 DEF QueryNames
<1>5. /\ View(n + 1, more, "total", 1, Len(rows)) = View(n, got, "total", 1, Len(rows))
      /\ View(n + 1, more, "bounces", 2, Listed(rows)) = View(n, got, "bounces", 2, Listed(rows))
      /\ View(n + 1, more, "unsubscribes", 3, 0) = View(n, got, "unsubscribes", 3, 0)
  BY <1>2, <1>4 DEF View
<1> QED BY <1>5 DEF SuppressionsSound

LEMMA StatisticsDrift ==
    ASSUME NEW n, NEW got, NEW rows, NEW k \in Nat, NEW m \in Nat, k <= m
    PROVE  /\ BouncesSound(n, got, rows, k) => BouncesSound(n, got, rows, m)
           /\ SuppressionsSound(n, got, rows, k) => SuppressionsSound(n, got, rows, m)
<1>1. BouncesSound(n, got, rows, k) => BouncesSound(n, got, rows, m)
  BY DEF BouncesSound
<1>2. SuppressionsSound(n, got, rows, k) => SuppressionsSound(n, got, rows, m)
  BY DEF SuppressionsSound
<1> QED BY <1>1, <1>2

-----------------------------------------------------------------------------
\* Figures of disjoint parts add up to the count of the whole.
Together(f, C) == Cardinality(UNION {{c} \X (1..f[c]) : c \in C})
PartOf(S, of, c) == Cardinality({s \in S : of[s] = c})
WholeOf(S, of, C) == Cardinality({s \in S : of[s] \in C})

LEMMA PartCount ==
    ASSUME NEW A, IsFiniteSet(A)
    PROVE  \E b \in [1..Cardinality(A) -> A] :
            /\ \A s \in A : \E i \in 1..Cardinality(A) : b[i] = s
            /\ \A i, j \in 1..Cardinality(A) : b[i] = b[j] => i = j
<1>1. PICK m : m = Cardinality(A)
  OBVIOUS
<1>2. PICK b : b \in Bijection(1..m, A)
  BY <1>1, FS_CardinalityType DEF ExistsBijection
<1>3. b \in [1..m -> A] /\ (\A s \in A : \E i \in 1..m : b[i] = s)
      /\ (\A i, j \in 1..m : b[i] = b[j] => i = j)
  BY <1>2 DEF Bijection, Injection, Surjection, IsInjective
<1> QED BY <1>1, <1>3

LEMMA PartsMakeWhole ==
    ASSUME NEW S, IsFiniteSet(S), NEW of, NEW C, NEW n,
           \A c \in C : n[c] = PartOf(S, of, c)
    PROVE  Together(n, C) = WholeOf(S, of, C)
<1> DEFINE Part(c) == {s \in S : of[s] = c}
           Whole == {s \in S : of[s] \in C}
           Pairs == UNION {{c} \X (1..n[c]) : c \in C}
           Counts(c, b) == /\ b \in [1..n[c] -> Part(c)]
                           /\ \A s \in Part(c) : \E i \in 1..n[c] : b[i] = s
                           /\ \A i, j \in 1..n[c] : b[i] = b[j] => i = j
           B == [c \in C |-> CHOOSE b : Counts(c, b)]
           place == [s \in Whole |-> <<of[s], CHOOSE i \in 1..n[of[s]] : B[of[s]][i] = s>>]
<1>1. \A c \in C : Counts(c, B[c])
  <2> SUFFICES ASSUME NEW c \in C PROVE Counts(c, B[c])
    OBVIOUS
  <2>1. PICK A : A = Part(c)
    OBVIOUS
  <2>2. A \subseteq S
    BY <2>1
  <2>3. IsFiniteSet(A) /\ n[c] = Cardinality(A)
    BY <2>1, <2>2, CountWithin DEF PartOf
  <2>4. \E b : Counts(c, b)
    <3>1. PICK b : /\ b \in [1..Cardinality(A) -> A]
                   /\ \A s \in A : \E i \in 1..Cardinality(A) : b[i] = s
                   /\ \A i, j \in 1..Cardinality(A) : b[i] = b[j] => i = j
      BY <2>3, PartCount
    <3>2. Counts(c, b)
      BY <2>1, <2>3, <3>1
    <3> QED BY <3>2
  <2>5. Counts(c, CHOOSE b : Counts(c, b))
    BY <2>4
  <2> QED BY <2>5
<1>2. \A s \in Whole : of[s] \in C /\ s \in Part(of[s])
  OBVIOUS
<1> HIDE DEF B
<1>3. \A s \in Whole : /\ place[s] = <<of[s], place[s][2]>> /\ place[s][2] \in 1..n[of[s]]
                       /\ B[of[s]][place[s][2]] = s
  <2> SUFFICES ASSUME NEW s \in Whole
               PROVE  /\ place[s] = <<of[s], place[s][2]>> /\ place[s][2] \in 1..n[of[s]]
                      /\ B[of[s]][place[s][2]] = s
    OBVIOUS
  <2>1. \E i \in 1..n[of[s]] : B[of[s]][i] = s
    BY <1>1, <1>2
  <2>2. PICK i : /\ i = (CHOOSE j \in 1..n[of[s]] : B[of[s]][j] = s)
                 /\ i \in 1..n[of[s]] /\ B[of[s]][i] = s
    BY <2>1
  <2>3. place[s] = <<of[s], i>>
    BY <2>2
  <2> QED BY <2>2, <2>3
<1>4. place \in [Whole -> Pairs]
  <2>2. ASSUME NEW s \in Whole PROVE place[s] \in Pairs
    <3>1. PICK c \in C : c = of[s]
      BY <1>2
    <3>2. PICK i \in 1..n[c] : place[s] = <<c, i>>
      BY <1>3, <3>1
    <3>3. place[s] \in {c} \X (1..n[c])
      BY <3>2
    <3> QED BY <3>3
  <2>3. place = [s \in Whole |-> place[s]]
    OBVIOUS
  <2> QED BY <2>2, <2>3
<1>5. \A s, u \in Whole : place[s] = place[u] => s = u
  <2> SUFFICES ASSUME NEW s \in Whole, NEW u \in Whole, place[s] = place[u] PROVE s = u
    OBVIOUS
  <2>1. place[s] = <<of[s], place[s][2]>> /\ place[u] = <<of[u], place[u][2]>>
    BY <1>3
  <2>2. of[s] = of[u]
    BY <2>1
  <2>3. B[of[s]][place[s][2]] = s /\ B[of[u]][place[u][2]] = u
    BY <1>3
  <2> QED BY <2>2, <2>3
<1>6. \A p \in Pairs : \E s \in Whole : place[s] = p
  <2> SUFFICES ASSUME NEW p \in Pairs PROVE \E s \in Whole : place[s] = p
    OBVIOUS
  <2>1. PICK c \in C : p \in {c} \X (1..n[c])
    OBVIOUS
  <2>2. PICK i \in 1..n[c] : p = <<c, i>>
    BY <2>1
  <2>3. PICK s : s = B[c][i] /\ s \in Part(c)
    <3>1. B[c] \in [1..n[c] -> Part(c)]
      BY <1>1
    <3> QED BY <3>1
  <2>4. s \in Whole /\ of[s] = c
    BY <2>3
  <2>5. place[s] = <<c, place[s][2]>> /\ place[s][2] \in 1..n[c] /\ B[c][place[s][2]] = s
    BY <1>3, <2>4
  <2>6. PICK j : j = place[s][2]
    OBVIOUS
  <2>7. \A l, m \in 1..n[c] : B[c][l] = B[c][m] => l = m
    BY <1>1
  <2>8. j = i
    BY <2>2, <2>3, <2>5, <2>6, <2>7
  <2> QED BY <2>2, <2>4, <2>5, <2>6, <2>8
<1>7. place \in Bijection(Whole, Pairs)
  BY <1>4, <1>5, <1>6 DEF Bijection, Injection, Surjection, IsInjective
<1>8. IsFiniteSet(Whole)
  <2>1. Whole \subseteq S
    OBVIOUS
  <2> QED BY <2>1, CountWithin
<1> HIDE DEF Whole, Pairs, place
<1>9. ExistsBijection(Whole, Pairs)
  BY <1>7 DEF ExistsBijection
<1>10. Cardinality(Pairs) = Cardinality(Whole)
  BY <1>8, <1>9, FS_Bijection
<1> QED BY <1>10 DEF Whole, Pairs, Together, WholeOf

-----------------------------------------------------------------------------
\* The report of the domains: the campaigns that it finds for a domain, and since when they count.
Chosen(n, got, senders, d) ==
    IF n > 3 THEN {c \in got["campaigns"] : DomainOf[SenderOf[c]] = d}
    ELSE {c \in Mailings : /\ DomainOf[SenderOf[c]] = d
                           /\ SenderOf[c] \in IF n = 3 THEN got["senders"] ELSE senders}
Horizon(n, since, h) == IF n <= 3 THEN h - 2 * Days ELSE since
AskedDomains(n, got, domains) == IF n = 1 THEN domains ELSE got["domains"]

MailedBy(rows, C, t) == Cardinality({r \in Mailed : MailingOf[r] \in C /\ rows[r].at >= t})
BouncedBy(rows, C, t) == Cardinality({i \in DOMAIN rows : rows[i].of \in C /\ rows[i].at >= t})
MailedAt(rows, t) == Cardinality({r \in Mailed : rows[r].at = t})
BouncedAt(rows, t) == Cardinality({i \in DOMAIN rows : rows[i].at = t})
OfSender(s) == Cardinality({r \in Mailed : SenderOf[MailingOf[r]] = s})

Apart(a, b, k) == a \in Nat /\ b \in Nat /\ a <= b + k /\ b <= a + k

DomainSound(n, got, C, rows, bounces, t, mails, bounced, k) ==
    /\ Apart(IF n <= 4 THEN MailedBy(rows, C, t) ELSE Together(got["sent"], C), mails, k)
    /\ Apart(IF n <= 5 THEN BouncedBy(bounces, C, t) ELSE Together(got["bounces"], C), bounced, k)

DomainsSound(n, got, senders, domains, rows, bounces, since, h, begun, k) ==
    \A d \in AskedDomains(n, got, domains) :
        DomainSound(n, got, Chosen(n, got, senders, d), rows, bounces, Horizon(n, since, h),
                    begun.sent[d], begun.bounces[d], k)

Bounces(rows) == /\ Len(rows) \in Nat /\ DOMAIN rows = 1..Len(rows)
                 /\ \A i \in DOMAIN rows : rows[i].at \in Int

LEMMA CountLoses ==
    ASSUME NEW A, IsFiniteSet(A), NEW B, NEW G, IsFiniteSet(G), B \subseteq A, A \subseteq B \cup G
    PROVE  Cardinality(A) \in Nat /\ Cardinality(B) \in Nat /\ Cardinality(G) \in Nat
           /\ Cardinality(B) <= Cardinality(A) /\ Cardinality(A) <= Cardinality(B) + Cardinality(G)
<1>1. /\ IsFiniteSet(B) /\ Cardinality(B) <= Cardinality(A)
      /\ Cardinality(A) \in Nat /\ Cardinality(B) \in Nat
  BY CountWithin
<1>2. Cardinality(G) \in Nat /\ Cardinality(B \cap G) \in Nat
  <2>1. B \cap G \subseteq G
    OBVIOUS
  <2> QED BY <2>1, CountWithin
<1>3. IsFiniteSet(B \cup G) /\ Cardinality(B \cup G) = Cardinality(B) + Cardinality(G) - Cardinality(B \cap G)
  BY <1>1, FS_Union
<1>4. Cardinality(A) <= Cardinality(B \cup G)
  BY <1>3, CountWithin
<1> QED BY <1>1, <1>2, <1>3, <1>4

LEMMA MailedByMoves ==
    ASSUME NEW rows, NEW more, NEW r \in Mailed, RowWritten(rows, more, r), NEW C, NEW t
    PROVE  Apart(MailedBy(rows, C, t), MailedBy(more, C, t), 1)
<1>1. PICK A, B : /\ A = {x \in Mailed : MailingOf[x] \in C /\ rows[x].at >= t}
                  /\ B = {x \in Mailed : MailingOf[x] \in C /\ more[x].at >= t}
  OBVIOUS
<1>2. A \ {r} = B \ {r} /\ A \subseteq Mailed /\ B \subseteq Mailed
  BY <1>1 DEF RowWritten
<1>3. IsFiniteSet(A) /\ IsFiniteSet(B)
  BY <1>2, MailedFinite, CountWithin
<1>4. /\ Cardinality(A) \in Nat /\ Cardinality(B) \in Nat
      /\ Cardinality(B) + (IF r \in A THEN 1 ELSE 0) = Cardinality(A) + (IF r \in B THEN 1 ELSE 0)
  BY <1>2, <1>3, CountMoves
<1>5. MailedBy(rows, C, t) = Cardinality(A) /\ MailedBy(more, C, t) = Cardinality(B)
  BY <1>1 DEF MailedBy
<1> QED BY <1>4, <1>5 DEF Apart

LEMMA BouncedByMoves ==
    ASSUME NEW rows, NEW more, Added(rows, more), NEW C, NEW t
    PROVE  Apart(BouncedBy(rows, C, t), BouncedBy(more, C, t), 1)
<1>0. PICK l \in Nat : /\ l = Len(rows) /\ DOMAIN rows = 1..l /\ DOMAIN more = 1..(l + 1)
                       /\ \A i \in DOMAIN rows : more[i] = rows[i]
  BY DEF Added
<1>1. PICK m \in Nat : m = l + 1 /\ DOMAIN more = 1..m
  BY <1>0
<1>2. PICK A, B : /\ A = {i \in DOMAIN rows : rows[i].of \in C /\ rows[i].at >= t}
                  /\ B = {i \in DOMAIN more : more[i].of \in C /\ more[i].at >= t}
  OBVIOUS
<1>3. A \subseteq 1..l /\ B \subseteq 1..m /\ A \ {m} = B \ {m}
  <2>1. 1..m = (1..l) \cup {m} /\ m \notin 1..l
    BY <1>1
  <2> QED BY <1>0, <1>1, <1>2, <2>1
<1>4. IsFiniteSet(1..l) /\ IsFiniteSet(1..m)
  BY FS_Interval
<1>5. IsFiniteSet(A) /\ IsFiniteSet(B)
  BY <1>3, <1>4, CountWithin
<1>6. /\ Cardinality(A) \in Nat /\ Cardinality(B) \in Nat
      /\ Cardinality(B) + (IF m \in A THEN 1 ELSE 0) = Cardinality(A) + (IF m \in B THEN 1 ELSE 0)
  BY <1>3, <1>5, CountMoves
<1>7. BouncedBy(rows, C, t) = Cardinality(A) /\ BouncedBy(more, C, t) = Cardinality(B)
  BY <1>2 DEF BouncedBy
<1> QED BY <1>6, <1>7 DEF Apart

\* Time passes: the rows of the oldest tick leave the window.
LEMMA WindowMoves ==
    ASSUME NEW rows, NEW C, NEW t \in Int
    PROVE  /\ AtTimes(rows) => /\ MailedAt(rows, t) \in Nat
                               /\ Apart(MailedBy(rows, C, t), MailedBy(rows, C, t + 1), MailedAt(rows, t))
           /\ Bounces(rows) => /\ BouncedAt(rows, t) \in Nat
                               /\ Apart(BouncedBy(rows, C, t), BouncedBy(rows, C, t + 1), BouncedAt(rows, t))
<1>1. ASSUME AtTimes(rows)
      PROVE  /\ MailedAt(rows, t) \in Nat
             /\ Apart(MailedBy(rows, C, t), MailedBy(rows, C, t + 1), MailedAt(rows, t))
  <2>1. PICK A, B, G : /\ A = {x \in Mailed : MailingOf[x] \in C /\ rows[x].at >= t}
                       /\ B = {x \in Mailed : MailingOf[x] \in C /\ rows[x].at >= t + 1}
                       /\ G = {x \in Mailed : rows[x].at = t}
    OBVIOUS
  <2>2. A \subseteq Mailed /\ G \subseteq Mailed /\ B \subseteq A /\ A \subseteq B \cup G
    BY <1>1, <2>1 DEF AtTimes
  <2>3. IsFiniteSet(A) /\ IsFiniteSet(G)
    BY <2>2, MailedFinite, CountWithin
  <2>4. Cardinality(A) \in Nat /\ Cardinality(B) \in Nat /\ Cardinality(G) \in Nat
        /\ Cardinality(B) <= Cardinality(A) /\ Cardinality(A) <= Cardinality(B) + Cardinality(G)
    BY <2>2, <2>3, CountLoses
  <2>5. /\ MailedBy(rows, C, t) = Cardinality(A) /\ MailedBy(rows, C, t + 1) = Cardinality(B)
        /\ MailedAt(rows, t) = Cardinality(G)
    BY <2>1 DEF MailedBy, MailedAt
  <2> QED BY <2>4, <2>5 DEF Apart
<1>2. ASSUME Bounces(rows)
      PROVE  /\ BouncedAt(rows, t) \in Nat
             /\ Apart(BouncedBy(rows, C, t), BouncedBy(rows, C, t + 1), BouncedAt(rows, t))
  <2>1. PICK A, B, G : /\ A = {i \in DOMAIN rows : rows[i].of \in C /\ rows[i].at >= t}
                       /\ B = {i \in DOMAIN rows : rows[i].of \in C /\ rows[i].at >= t + 1}
                       /\ G = {i \in DOMAIN rows : rows[i].at = t}
    OBVIOUS
  <2>2. A \subseteq DOMAIN rows /\ G \subseteq DOMAIN rows /\ B \subseteq A /\ A \subseteq B \cup G
    BY <1>2, <2>1 DEF Bounces
  <2>3. IsFiniteSet(DOMAIN rows)
    BY <1>2, FS_Interval DEF Bounces
  <2>4. IsFiniteSet(A) /\ IsFiniteSet(G)
    BY <2>2, <2>3, CountWithin
  <2>5. Cardinality(A) \in Nat /\ Cardinality(B) \in Nat /\ Cardinality(G) \in Nat
        /\ Cardinality(B) <= Cardinality(A) /\ Cardinality(A) <= Cardinality(B) + Cardinality(G)
    BY <2>2, <2>4, CountLoses
  <2>6. /\ BouncedBy(rows, C, t) = Cardinality(A) /\ BouncedBy(rows, C, t + 1) = Cardinality(B)
        /\ BouncedAt(rows, t) = Cardinality(G)
    BY <2>1 DEF BouncedBy, BouncedAt
  <2> QED BY <2>5, <2>6 DEF Apart
<1> QED BY <1>1, <1>2

\* The campaigns of a sender are found no more.
LEMMA SenderLeaves ==
    ASSUME NEW rows, NEW bounces, Bounces(bounces), NEW C, NEW D, NEW s, NEW t,
           D \subseteq C, \A c \in C \ D : SenderOf[c] = s
    PROVE  /\ OfSender(s) \in Nat
           /\ Apart(MailedBy(rows, C, t), MailedBy(rows, D, t), OfSender(s))
           /\ Apart(BouncedBy(bounces, C, t), BouncedBy(bounces, D, t), Len(bounces))
<1>1. /\ OfSender(s) \in Nat
      /\ Apart(MailedBy(rows, C, t), MailedBy(rows, D, t), OfSender(s))
  <2>1. PICK A, B, G : /\ A = {x \in Mailed : MailingOf[x] \in C /\ rows[x].at >= t}
                       /\ B = {x \in Mailed : MailingOf[x] \in D /\ rows[x].at >= t}
                       /\ G = {x \in Mailed : SenderOf[MailingOf[x]] = s}
    OBVIOUS
  <2>2. A \subseteq Mailed /\ G \subseteq Mailed /\ B \subseteq A /\ A \subseteq B \cup G
    BY <2>1
  <2>3. IsFiniteSet(A) /\ IsFiniteSet(G)
    BY <2>2, MailedFinite, CountWithin
  <2>4. Cardinality(A) \in Nat /\ Cardinality(B) \in Nat /\ Cardinality(G) \in Nat
        /\ Cardinality(B) <= Cardinality(A) /\ Cardinality(A) <= Cardinality(B) + Cardinality(G)
    BY <2>2, <2>3, CountLoses
  <2>5. /\ MailedBy(rows, C, t) = Cardinality(A) /\ MailedBy(rows, D, t) = Cardinality(B)
        /\ OfSender(s) = Cardinality(G)
    BY <2>1 DEF MailedBy, OfSender
  <2> QED BY <2>4, <2>5 DEF Apart
<1>2. Apart(BouncedBy(bounces, C, t), BouncedBy(bounces, D, t), Len(bounces))
  <2>0. PICK l \in Nat : l = Len(bounces) /\ DOMAIN bounces = 1..l
    BY DEF Bounces
  <2>1. PICK A, B : /\ A = {i \in DOMAIN bounces : bounces[i].of \in C /\ bounces[i].at >= t}
                    /\ B = {i \in DOMAIN bounces : bounces[i].of \in D /\ bounces[i].at >= t}
    OBVIOUS
  <2>2. A \subseteq 1..l /\ B \subseteq A /\ A \subseteq B \cup (1..l)
    BY <2>0, <2>1
  <2>3. IsFiniteSet(1..l) /\ Cardinality(1..l) = l
    BY FS_Interval
  <2>4. IsFiniteSet(A)
    BY <2>2, <2>3, CountWithin
  <2>5. Cardinality(A) \in Nat /\ Cardinality(B) \in Nat
        /\ Cardinality(B) <= Cardinality(A) /\ Cardinality(A) <= Cardinality(B) + l
    BY <2>2, <2>3, <2>4, CountLoses
  <2>6. BouncedBy(bounces, C, t) = Cardinality(A) /\ BouncedBy(bounces, D, t) = Cardinality(B)
    BY <2>1 DEF BouncedBy
  <2> QED BY <2>0, <2>5, <2>6 DEF Apart
<1> QED BY <1>1, <1>2

LEMMA ApartMoves ==
    ASSUME NEW a, NEW b, NEW base, NEW k \in Nat, NEW j \in Nat, NEW m \in Nat, k + j <= m,
           Apart(a, base, k), Apart(a, b, j)
    PROVE  Apart(b, base, m)
BY DEF Apart

LEMMA ApartDrifts ==
    ASSUME NEW a, NEW base, NEW k \in Nat, NEW m \in Nat, k <= m, Apart(a, base, k)
    PROVE  Apart(a, base, m)
BY DEF Apart

\* The figures move when a row is written, a bounce is added, the window moves, or a sender leaves.
LEMMA DomainMoves ==
    ASSUME NEW n, NEW got, NEW C, NEW D, NEW rows, NEW more, NEW bounces, NEW others, NEW t, NEW u,
           NEW mails, NEW bounced, NEW k \in Nat, NEW i \in Nat, NEW j \in Nat, NEW m \in Nat,
           k + i <= m, k + j <= m, n \in Nat, n > 3 => C = D,
           DomainSound(n, got, C, rows, bounces, t, mails, bounced, k),
           Apart(MailedBy(rows, C, t), MailedBy(more, D, u), i),
           Apart(BouncedBy(bounces, C, t), BouncedBy(others, D, u), j)
    PROVE  DomainSound(n, got, D, more, others, u, mails, bounced, m)
<1>1. Apart(IF n <= 4 THEN MailedBy(more, D, u) ELSE Together(got["sent"], D), mails, m)
  <2>1. CASE n <= 4
    <3>1. Apart(MailedBy(rows, C, t), mails, k)
      BY <2>1 DEF DomainSound
    <3> QED BY <2>1, <3>1, ApartMoves
  <2>2. CASE n > 4
    <3>1. Apart(Together(got["sent"], D), mails, k) /\ k <= m
      BY <2>2 DEF DomainSound
    <3> QED BY <2>2, <3>1, ApartDrifts
  <2> QED BY <2>1, <2>2
<1>2. Apart(IF n <= 5 THEN BouncedBy(others, D, u) ELSE Together(got["bounces"], D), bounced, m)
  <2>1. CASE n <= 5
    <3>1. Apart(BouncedBy(bounces, C, t), bounced, k)
      BY <2>1 DEF DomainSound
    <3> QED BY <2>1, <3>1, ApartMoves
  <2>2. CASE n > 5
    <3>1. Apart(Together(got["bounces"], D), bounced, k) /\ k <= m
      BY <2>2 DEF DomainSound
    <3> QED BY <2>2, <3>1, ApartDrifts
  <2> QED BY <2>1, <2>2
<1> QED BY <1>1, <1>2 DEF DomainSound

LEMMA DomainCounts ==
    ASSUME NEW rows, NEW bounces, Bounces(bounces)
    PROVE  \A C, t : Apart(MailedBy(rows, C, t), MailedBy(rows, C, t), 0)
                     /\ Apart(BouncedBy(bounces, C, t), BouncedBy(bounces, C, t), 0)
<1> SUFFICES ASSUME NEW C, NEW t
             PROVE  Apart(MailedBy(rows, C, t), MailedBy(rows, C, t), 0)
                    /\ Apart(BouncedBy(bounces, C, t), BouncedBy(bounces, C, t), 0)
  OBVIOUS
<1>1. PICK A, B : /\ A = {r \in Mailed : MailingOf[r] \in C /\ rows[r].at >= t}
                  /\ B = {i \in DOMAIN bounces : bounces[i].of \in C /\ bounces[i].at >= t}
  OBVIOUS
<1>2. A \subseteq Mailed /\ B \subseteq DOMAIN bounces
  BY <1>1
<1>3. IsFiniteSet(DOMAIN bounces)
  BY FS_Interval DEF Bounces
<1>4. Cardinality(A) \in Nat /\ Cardinality(B) \in Nat
  BY <1>2, <1>3, MailedFinite, CountWithin
<1>5. MailedBy(rows, C, t) = Cardinality(A) /\ BouncedBy(bounces, C, t) = Cardinality(B)
  BY <1>1 DEF MailedBy, BouncedBy
<1> QED BY <1>4, <1>5 DEF Apart

LEMMA DomainsMoveRow ==
    ASSUME NEW n \in Nat, NEW got, NEW senders, NEW domains, NEW rows, NEW bounces, NEW since, NEW h,
           NEW begun, NEW k \in Nat, DomainsSound(n, got, senders, domains, rows, bounces, since, h, begun, k),
           Bounces(bounces), NEW more, NEW r \in Mailed, RowWritten(rows, more, r)
    PROVE  DomainsSound(n, got, senders, domains, more, bounces, since, h, begun, k + 1)
<1> SUFFICES ASSUME NEW d \in AskedDomains(n, got, domains)
             PROVE  DomainSound(n, got, Chosen(n, got, senders, d), more, bounces, Horizon(n, since, h),
                                begun.sent[d], begun.bounces[d], k + 1)
  BY DEF DomainsSound
<1>1. PICK C, t : C = Chosen(n, got, senders, d) /\ t = Horizon(n, since, h)
  OBVIOUS
<1>2. DomainSound(n, got, C, rows, bounces, t, begun.sent[d], begun.bounces[d], k)
  BY <1>1 DEF DomainsSound
<1>3. Apart(MailedBy(rows, C, t), MailedBy(more, C, t), 1)
  BY MailedByMoves
<1>4. Apart(BouncedBy(bounces, C, t), BouncedBy(bounces, C, t), 0)
  BY DomainCounts
<1>5. 0 \in Nat /\ 1 \in Nat /\ k + 1 \in Nat /\ k + 0 <= k + 1 /\ k + 1 <= k + 1
  OBVIOUS
<1>6. DomainSound(n, got, C, more, bounces, t, begun.sent[d], begun.bounces[d], k + 1)
  BY <1>2, <1>3, <1>4, <1>5, DomainMoves
<1> QED BY <1>1, <1>6

LEMMA DomainsMoveBounce ==
    ASSUME NEW n \in Nat, NEW got, NEW senders, NEW domains, NEW rows, NEW bounces, NEW since, NEW h,
           NEW begun, NEW k \in Nat, DomainsSound(n, got, senders, domains, rows, bounces, since, h, begun, k),
           Bounces(bounces), NEW others, Added(bounces, others)
    PROVE  DomainsSound(n, got, senders, domains, rows, others, since, h, begun, k + 1)
<1> SUFFICES ASSUME NEW d \in AskedDomains(n, got, domains)
             PROVE  DomainSound(n, got, Chosen(n, got, senders, d), rows, others, Horizon(n, since, h),
                                begun.sent[d], begun.bounces[d], k + 1)
  BY DEF DomainsSound
<1>1. PICK C, t : C = Chosen(n, got, senders, d) /\ t = Horizon(n, since, h)
  OBVIOUS
<1>2. DomainSound(n, got, C, rows, bounces, t, begun.sent[d], begun.bounces[d], k)
  BY <1>1 DEF DomainsSound
<1>3. Apart(MailedBy(rows, C, t), MailedBy(rows, C, t), 0)
  BY DomainCounts
<1>4. Apart(BouncedBy(bounces, C, t), BouncedBy(others, C, t), 1)
  BY BouncedByMoves
<1>5. 0 \in Nat /\ 1 \in Nat /\ k + 1 \in Nat /\ k + 0 <= k + 1 /\ k + 1 <= k + 1
  OBVIOUS
<1>6. DomainSound(n, got, C, rows, others, t, begun.sent[d], begun.bounces[d], k + 1)
  BY <1>2, <1>3, <1>4, <1>5, DomainMoves
<1> QED BY <1>1, <1>6

LEMMA DomainsDrift ==
    ASSUME NEW n \in Nat, NEW got, NEW senders, NEW domains, NEW rows, NEW bounces, NEW since, NEW h,
           NEW begun, NEW k \in Nat, DomainsSound(n, got, senders, domains, rows, bounces, since, h, begun, k),
           Bounces(bounces), NEW m \in Nat, k <= m, NEW fewer, fewer \subseteq domains
    PROVE  DomainsSound(n, got, senders, fewer, rows, bounces, since, h, begun, m)
<1> SUFFICES ASSUME NEW d \in AskedDomains(n, got, fewer)
             PROVE  DomainSound(n, got, Chosen(n, got, senders, d), rows, bounces, Horizon(n, since, h),
                                begun.sent[d], begun.bounces[d], m)
  BY DEF DomainsSound
<1>1. PICK C, t : C = Chosen(n, got, senders, d) /\ t = Horizon(n, since, h)
  OBVIOUS
<1>2. d \in AskedDomains(n, got, domains)
  BY DEF AskedDomains
<1>3. DomainSound(n, got, C, rows, bounces, t, begun.sent[d], begun.bounces[d], k)
  BY <1>1, <1>2 DEF DomainsSound
<1>4. Apart(MailedBy(rows, C, t), MailedBy(rows, C, t), 0) /\ Apart(BouncedBy(bounces, C, t), BouncedBy(bounces, C, t), 0)
  BY DomainCounts
<1>5. 0 \in Nat /\ k + 0 <= m
  OBVIOUS
<1>6. DomainSound(n, got, C, rows, bounces, t, begun.sent[d], begun.bounces[d], m)
  BY <1>3, <1>4, <1>5, DomainMoves
<1> QED BY <1>1, <1>6

LEMMA DomainsHour ==
    ASSUME NEW n \in Nat, NEW got, NEW senders, NEW domains, NEW rows, NEW bounces, NEW since, NEW h \in Nat,
           NEW begun, NEW k \in Nat, DomainsSound(n, got, senders, domains, rows, bounces, since, h, begun, k),
           Bounces(bounces), AtTimes(rows), NEW m,
           m = k + MailedAt(rows, h - 2 * Days) + BouncedAt(bounces, h - 2 * Days)
    PROVE  m \in Nat /\ k <= m /\ DomainsSound(n, got, senders, domains, rows, bounces, since, h + 1, begun, m)
<1>1. PICK o \in Int : o = h - 2 * Days
  BY DEF Days
<1>2. PICK i \in Nat, j \in Nat : i = MailedAt(rows, o) /\ j = BouncedAt(bounces, o)
  BY WindowMoves
<1>3. m = k + i + j
  BY <1>1, <1>2
<1>4. m \in Nat /\ k <= m /\ 0 \in Nat /\ k + 0 <= m /\ k + i <= m /\ k + j <= m
  BY <1>3
<1>5. ASSUME NEW d \in AskedDomains(n, got, domains)
      PROVE  DomainSound(n, got, Chosen(n, got, senders, d), rows, bounces, Horizon(n, since, h + 1),
                         begun.sent[d], begun.bounces[d], m)
  <2>1. PICK C, t, u : C = Chosen(n, got, senders, d) /\ t = Horizon(n, since, h) /\ u = Horizon(n, since, h + 1)
    OBVIOUS
  <2>2. DomainSound(n, got, C, rows, bounces, t, begun.sent[d], begun.bounces[d], k)
    BY <1>5, <2>1 DEF DomainsSound
  <2>3. CASE n > 3
    <3>1. u = t
      BY <2>1, <2>3 DEF Horizon
    <3>2. Apart(MailedBy(rows, C, t), MailedBy(rows, C, u), 0) /\ Apart(BouncedBy(bounces, C, t), BouncedBy(bounces, C, u), 0)
      BY <3>1, DomainCounts
    <3>3. DomainSound(n, got, C, rows, bounces, u, begun.sent[d], begun.bounces[d], m)
      BY <1>4, <2>2, <3>2, DomainMoves
    <3> QED BY <2>1, <3>3
  <2>4. CASE n <= 3
    <3>1. t = o /\ u = o + 1
      BY <1>1, <2>1, <2>4 DEF Horizon, Days
    <3>2. Apart(MailedBy(rows, C, t), MailedBy(rows, C, u), i) /\ Apart(BouncedBy(bounces, C, t), BouncedBy(bounces, C, u), j)
      BY <1>2, <3>1, WindowMoves
    <3>3. DomainSound(n, got, C, rows, bounces, u, begun.sent[d], begun.bounces[d], m)
      BY <1>4, <2>2, <3>2, DomainMoves
    <3> QED BY <2>1, <3>3
  <2> QED BY <2>3, <2>4
<1> QED BY <1>4, <1>5 DEF DomainsSound

LEMMA DomainsSenderLeaves ==
    ASSUME NEW n \in Nat, NEW got, NEW senders, NEW domains, NEW rows, NEW bounces, NEW since, NEW h,
           NEW begun, NEW k \in Nat, DomainsSound(n, got, senders, domains, rows, bounces, since, h, begun, k),
           Bounces(bounces), NEW s, NEW m, m = k + (OfSender(s) + Len(bounces))
    PROVE  m \in Nat /\ k <= m /\ DomainsSound(n, got, senders \ {s}, domains, rows, bounces, since, h, begun, m)
<1>1. PICK i \in Nat, j \in Nat : i = OfSender(s) /\ j = Len(bounces)
  <2>1. OfSender(s) \in Nat
    BY SenderLeaves
  <2> QED BY <2>1 DEF Bounces
<1>2. m \in Nat /\ k <= m /\ k + i <= m /\ k + j <= m
  BY <1>1
<1>3. ASSUME NEW d \in AskedDomains(n, got, domains)
      PROVE  DomainSound(n, got, Chosen(n, got, senders \ {s}, d), rows, bounces, Horizon(n, since, h),
                         begun.sent[d], begun.bounces[d], m)
  <2>1. PICK C, D, t : C = Chosen(n, got, senders, d) /\ D = Chosen(n, got, senders \ {s}, d) /\ t = Horizon(n, since, h)
    OBVIOUS
  <2>2. DomainSound(n, got, C, rows, bounces, t, begun.sent[d], begun.bounces[d], k)
    BY <1>3, <2>1 DEF DomainsSound
  <2>3. n > 3 => C = D
    BY <2>1 DEF Chosen
  <2>4. D \subseteq C /\ \A c \in C \ D : SenderOf[c] = s
    BY <2>1 DEF Chosen
  <2>5. Apart(MailedBy(rows, C, t), MailedBy(rows, D, t), i) /\ Apart(BouncedBy(bounces, C, t), BouncedBy(bounces, D, t), j)
    BY <1>1, <2>4, SenderLeaves
  <2>6. DomainSound(n, got, D, rows, bounces, t, begun.sent[d], begun.bounces[d], m)
    BY <1>2, <2>2, <2>3, <2>5, DomainMoves
  <2> QED BY <2>1, <2>6
<1> QED BY <1>2, <1>3 DEF DomainsSound

\* The report is begun: what its queries would find is what a count of the rows finds.
LEMMA DomainsBegin ==
    ASSUME NEW got, NEW since, mailDomains \subseteq MailDomains, Bounces(bounceRows), NEW begun,
           begun = [sent |-> [d \in MailDomains |-> SentFrom(d)],
                    bounces |-> [d \in MailDomains |-> BouncedFrom(d)]]
    PROVE  DomainsSound(1, got, mailSenders, mailDomains, mailed, bounceRows, since, hour, begun, 0)
<1> SUFFICES ASSUME NEW d \in mailDomains
             PROVE  DomainSound(1, got, Chosen(1, got, mailSenders, d), mailed, bounceRows, hour - 2 * Days,
                                SentFrom(d), BouncedFrom(d), 0)
  <2>1. \A d \in mailDomains : begun.sent[d] = SentFrom(d) /\ begun.bounces[d] = BouncedFrom(d)
    OBVIOUS
  <2>2. AskedDomains(1, got, mailDomains) = mailDomains /\ Horizon(1, since, hour) = hour - 2 * Days
    BY DEF AskedDomains, Horizon
  <2> QED BY <2>1, <2>2 DEF DomainsSound
<1>1. PICK C, t : C = Chosen(1, got, mailSenders, d) /\ t = hour - 2 * Days
  OBVIOUS
<1>2. C = {c \in Mailings : DomainOf[SenderOf[c]] = d /\ SenderOf[c] \in mailSenders}
  BY <1>1 DEF Chosen
<1>3. MailedBy(mailed, C, t) = SentFrom(d)
  <2>1. \A r \in Mailed : MailingOf[r] \in Mailings
    BY ReportsAssumption
  <2>2. {r \in Mailed : LET s == SenderOf[MailingOf[r]] IN s \in mailSenders /\ DomainOf[s] = d /\ mailed[r].at >= t}
        = {r \in Mailed : MailingOf[r] \in C /\ mailed[r].at >= t}
    BY <1>2, <2>1
  <2> QED BY <1>1, <2>2 DEF MailedBy, SentFrom, Since
<1>4. BouncedBy(bounceRows, C, t) = BouncedFrom(d)
  <2>1. \A x : x \in C <=> \E c \in Mailings : x = c /\ SenderOf[c] \in mailSenders /\ DomainOf[SenderOf[c]] = d
    BY <1>2
  <2>2. {i \in DOMAIN bounceRows : bounceRows[i].of \in C /\ bounceRows[i].at >= t}
        = {i \in DOMAIN bounceRows : bounceRows[i].at >= t
            /\ \E c \in Mailings : bounceRows[i].of = c /\ SenderOf[c] \in mailSenders /\ DomainOf[SenderOf[c]] = d}
    BY <2>1
  <2> QED BY <1>1, <2>2 DEF BouncedBy, BouncedFrom, CountBounces, Since
<1>5. Apart(MailedBy(mailed, C, t), MailedBy(mailed, C, t), 0) /\ Apart(BouncedBy(bounceRows, C, t), BouncedBy(bounceRows, C, t), 0)
  BY DomainCounts
<1> QED BY <1>1, <1>3, <1>4, <1>5 DEF DomainSound

\* What the queries of the report read.
SendersFound(got, senders) == {s \in senders : DomainOf[s] \in got["domains"]}
CampaignsFound(got) == {c \in Mailings : SenderOf[c] \in got["senders"]}
MailedFound(got, rows, t) == [c \in got["campaigns"] |->
    Cardinality({r \in Mailed : MailingOf[r] = c /\ rows[r].at >= t})]
BouncesFound(got, rows, t) == [c \in got["campaigns"] |->
    Cardinality({i \in DOMAIN rows : rows[i].of = c /\ rows[i].at >= t})]

DomainAnswer(more, q, v, got, senders, domains, rows, bounces, t) ==
    /\ \A x \in QueryNames : more[x] = IF x = q THEN v ELSE got[x]
    /\ q = "domains" => v = domains
    /\ q = "senders" => v = SendersFound(got, senders)
    /\ q = "campaigns" => v = CampaignsFound(got)
    /\ q = "sent" => v = MailedFound(got, rows, t)
    /\ q = "bounces" => v = BouncesFound(got, bounces, t)

\* It is what they would have found before.
LEMMA DomainsAsk ==
    ASSUME NEW n \in 1..5, NEW got, NEW senders, NEW domains, NEW rows, NEW bounces,
           NEW since, NEW h, NEW begun, NEW k,
           DomainsSound(n, got, senders, domains, rows, bounces, since, h, begun, k),
           Bounces(bounces), NEW q, q = Queries("domains")[n], NEW more, NEW v,
           NEW m, m = n + 1, NEW then, Horizon(m, then, h) = Horizon(n, since, h),
           DomainAnswer(more, q, v, got, senders, domains, rows, bounces, since)
    PROVE  DomainsSound(m, more, senders, domains, rows, bounces, then, h, begun, k)
<1>1. Queries("domains") = <<"domains", "senders", "campaigns", "sent", "bounces">>
  BY DEF Queries
<1>2. \/ (n = 1 /\ q = "domains") \/ (n = 2 /\ q = "senders") \/ (n = 3 /\ q = "campaigns")
      \/ (n = 4 /\ q = "sent") \/ (n = 5 /\ q = "bounces")
  BY <1>1
<1>3. \A x \in QueryNames : more[x] = IF x = q THEN v ELSE got[x]
  BY DEF DomainAnswer
<1>4. /\ more["domains"] = IF "domains" = q THEN v ELSE got["domains"]
      /\ more["senders"] = IF "senders" = q THEN v ELSE got["senders"]
      /\ more["campaigns"] = IF "campaigns" = q THEN v ELSE got["campaigns"]
      /\ more["sent"] = IF "sent" = q THEN v ELSE got["sent"]
      /\ more["bounces"] = IF "bounces" = q THEN v ELSE got["bounces"]
  BY <1>3 DEF QueryNames
<1>5. AskedDomains(m, more, domains) = AskedDomains(n, got, domains)
  BY <1>2, <1>4 DEF AskedDomains, DomainAnswer
<1> SUFFICES ASSUME NEW d \in AskedDomains(n, got, domains)
             PROVE  DomainSound(m, more, Chosen(m, more, senders, d), rows, bounces, Horizon(n, since, h),
                                begun.sent[d], begun.bounces[d], k)
  BY <1>5 DEF DomainsSound
<1>7. PICK C, t : C = Chosen(n, got, senders, d) /\ t = Horizon(n, since, h)
  OBVIOUS
<1>8. Chosen(m, more, senders, d) = C
  <2>1. CASE n = 1
    BY <2>1, <1>7 DEF Chosen
  <2>2. CASE n = 2
    <3>1. d \in got["domains"] /\ more["senders"] = {s \in senders : DomainOf[s] \in got["domains"]}
      BY <2>2, <1>2, <1>4 DEF AskedDomains, SendersFound, DomainAnswer
    <3>2. C = {c \in Mailings : DomainOf[SenderOf[c]] = d /\ SenderOf[c] \in senders}
      BY <2>2, <1>7 DEF Chosen
    <3>3. Chosen(m, more, senders, d) = {c \in Mailings : DomainOf[SenderOf[c]] = d /\ SenderOf[c] \in more["senders"]}
      BY <2>2 DEF Chosen
    <3> QED BY <3>1, <3>2, <3>3
  <2>3. CASE n = 3
    <3>1. more["campaigns"] = {c \in Mailings : SenderOf[c] \in got["senders"]}
      BY <2>3, <1>2, <1>4 DEF CampaignsFound, DomainAnswer
    <3>2. C = {c \in Mailings : DomainOf[SenderOf[c]] = d /\ SenderOf[c] \in got["senders"]}
      BY <2>3, <1>7 DEF Chosen
    <3>3. Chosen(m, more, senders, d) = {c \in more["campaigns"] : DomainOf[SenderOf[c]] = d}
      BY <2>3 DEF Chosen
    <3> QED BY <3>1, <3>2, <3>3
  <2>4. CASE n > 3
    <3>1. more["campaigns"] = got["campaigns"]
      BY <2>4, <1>2, <1>4
    <3> QED BY <2>4, <1>7, <3>1 DEF Chosen
  <2> QED BY <2>1, <2>2, <2>3, <2>4
<1>9. DomainSound(n, got, C, rows, bounces, t, begun.sent[d], begun.bounces[d], k)
  BY <1>7 DEF DomainsSound
<1>10. n = 4 => Together(more["sent"], C) = MailedBy(rows, C, t)
  <2> SUFFICES ASSUME n = 4 PROVE Together(more["sent"], C) = MailedBy(rows, C, t)
    OBVIOUS
  <2>1. t = since /\ C = {c \in got["campaigns"] : DomainOf[SenderOf[c]] = d}
    BY <1>7 DEF Horizon, Chosen
  <2>2. PICK S, f : S = {r \in Mailed : rows[r].at >= t} /\ f = more["sent"]
    OBVIOUS
  <2>3. S \subseteq Mailed
    BY <2>2
  <2>4. IsFiniteSet(S)
    BY <2>3, MailedFinite, CountWithin
  <2>5. \A c \in C : f[c] = PartOf(S, MailingOf, c)
    <3> SUFFICES ASSUME NEW c \in C PROVE f[c] = PartOf(S, MailingOf, c)
      OBVIOUS
    <3>1. {r \in S : MailingOf[r] = c} = {r \in Mailed : MailingOf[r] = c /\ rows[r].at >= since}
      BY <2>1, <2>2
    <3>2. f = v /\ c \in got["campaigns"]
      BY <1>2, <1>4, <2>1, <2>2
    <3>3. f[c] = Cardinality({r \in Mailed : MailingOf[r] = c /\ rows[r].at >= since})
      BY <1>2, <3>2 DEF MailedFound, DomainAnswer
    <3> QED BY <3>1, <3>3 DEF PartOf
  <2>6. Together(f, C) = WholeOf(S, MailingOf, C)
    BY <2>4, <2>5, PartsMakeWhole
  <2>7. {r \in S : MailingOf[r] \in C} = {r \in Mailed : MailingOf[r] \in C /\ rows[r].at >= t}
    BY <2>2
  <2> QED BY <2>2, <2>6, <2>7 DEF MailedBy, WholeOf
<1>11. n = 5 => Together(more["bounces"], C) = BouncedBy(bounces, C, t)
  <2> SUFFICES ASSUME n = 5 PROVE Together(more["bounces"], C) = BouncedBy(bounces, C, t)
    OBVIOUS
  <2>1. t = since /\ C = {c \in got["campaigns"] : DomainOf[SenderOf[c]] = d}
    BY <1>7 DEF Horizon, Chosen
  <2>2. PICK S, f, of : /\ S = {i \in DOMAIN bounces : bounces[i].at >= t} /\ f = more["bounces"]
                        /\ of = [i \in DOMAIN bounces |-> bounces[i].of]
    OBVIOUS
  <2>3. S \subseteq DOMAIN bounces
    BY <2>2
  <2>4. IsFiniteSet(S)
    <3>1. IsFiniteSet(DOMAIN bounces)
      BY FS_Interval DEF Bounces
    <3> QED BY <2>3, <3>1, CountWithin
  <2>5. \A c \in C : f[c] = PartOf(S, of, c)
    <3> SUFFICES ASSUME NEW c \in C PROVE f[c] = PartOf(S, of, c)
      OBVIOUS
    <3>1. {i \in S : of[i] = c} = {i \in DOMAIN bounces : bounces[i].of = c /\ bounces[i].at >= since}
      BY <2>1, <2>2
    <3>2. f = v /\ c \in got["campaigns"]
      BY <1>2, <1>4, <2>1, <2>2
    <3>3. f[c] = Cardinality({i \in DOMAIN bounces : bounces[i].of = c /\ bounces[i].at >= since})
      BY <1>2, <3>2 DEF BouncesFound, DomainAnswer
    <3> QED BY <3>1, <3>3 DEF PartOf
  <2>6. Together(f, C) = WholeOf(S, of, C)
    BY <2>4, <2>5, PartsMakeWhole
  <2>7. {i \in S : of[i] \in C} = {i \in DOMAIN bounces : bounces[i].of \in C /\ bounces[i].at >= t}
    BY <2>2
  <2> QED BY <2>2, <2>6, <2>7 DEF BouncedBy, WholeOf
<1>12. Apart(IF m <= 4 THEN MailedBy(rows, C, t) ELSE Together(more["sent"], C), begun.sent[d], k)
  <2>1. CASE n <= 3
    BY <2>1, <1>9 DEF DomainSound
  <2>2. CASE n = 4
    BY <2>2, <1>9, <1>10 DEF DomainSound
  <2>3. CASE n = 5
    <3>1. more["sent"] = got["sent"]
      BY <2>3, <1>2, <1>4
    <3> QED BY <2>3, <3>1, <1>9 DEF DomainSound
  <2> QED BY <2>1, <2>2, <2>3
<1>13. Apart(IF m <= 5 THEN BouncedBy(bounces, C, t) ELSE Together(more["bounces"], C), begun.bounces[d], k)
  <2>1. CASE n <= 4
    BY <2>1, <1>9 DEF DomainSound
  <2>2. CASE n = 5
    BY <2>2, <1>9, <1>11 DEF DomainSound
  <2> QED BY <2>1, <2>2
<1>14. DomainSound(m, more, C, rows, bounces, t, begun.sent[d], begun.bounces[d], k)
  BY <1>12, <1>13 DEF DomainSound
<1> QED BY <1>7, <1>8, <1>14

-----------------------------------------------------------------------------
\* The invariant: every report that is being made is as sound as its queries so far.
MailedRows == [status : {"pending", "sent", "failed", "skipped"}, at : Int]
BouncedRows == [of : Mailings \cup {<<>>}, type : {"hard", "soft"}, at : Int]
OptOutRows == [reason : {"mailbox_unavailable", "unsubscribe"}, source : Sources]

ReportTypes ==
    /\ hour \in Nat /\ drift \in Nat
    /\ mailed \in [Mailed -> MailedRows]
    /\ bounceRows \in Seq(BouncedRows) /\ optOuts \in Seq(OptOutRows)
    /\ members \in [Mailed -> MemberStatuses] /\ runs \in [Mailed -> RunStatuses]
    /\ mailDomains \subseteq MailDomains
    /\ report.next \in Nat /\ report.next >= 1 /\ report.since \in Int /\ DOMAIN report.got = QueryNames

ListHolds == report.kind = "list" => ListSound(report.next, report.got, members, drift)
RunsHold == report.kind = "automation" => RunsSound(report.next, report.got, runs, drift)
CampaignHolds == report.kind = "campaign" => CampaignSound(report.next, report.got, report.of, mailed, drift)
DashboardHolds ==
    report.kind = "dashboard" => DashboardSound(report.next, report.got, mailed, report.since, hour, drift)
BouncesHold == report.kind = "bounces" => BouncesSound(report.next, report.got, bounceRows, drift)
SuppressionsHold == report.kind = "suppressions" => SuppressionsSound(report.next, report.got, optOuts, drift)
DomainsHold ==
    report.kind = "domains" => DomainsSound(report.next, report.got, mailSenders, mailDomains, mailed, bounceRows,
                                            report.since, hour, start, drift)

ReportsHold ==
    /\ ListHolds /\ RunsHold /\ CampaignHolds /\ DashboardHolds
    /\ BouncesHold /\ SuppressionsHold /\ DomainsHold

LEMMA RowsAreBounces ==
    ASSUME NEW rows \in Seq(BouncedRows) PROVE Bounces(rows)
<1>1. /\ Len(rows) \in Nat /\ DOMAIN rows = 1..Len(rows)
      /\ \A i \in DOMAIN rows : rows[i] \in BouncedRows
  OBVIOUS
<1>2. \A b \in BouncedRows : b.at \in Int
  BY DEF BouncedRows
<1> QED BY <1>1, <1>2 DEF Bounces

LEMMA MailedHaveTimes ==
    ASSUME NEW rows \in [Mailed -> MailedRows] PROVE AtTimes(rows)
<1>1. \A m \in MailedRows : m.at \in Int
  BY DEF MailedRows
<1> QED BY <1>1 DEF AtTimes

\* What a change leaves alone, it leaves sound.
LEMMA OthersHold ==
    ASSUME ReportTypes, ReportsHold, drift' \in Nat, drift <= drift', report' = report, start' = start
    PROVE  /\ members' = members => ListHolds'
           /\ runs' = runs => RunsHold'
           /\ mailed' = mailed => CampaignHolds' /\ (hour' = hour => DashboardHolds')
           /\ bounceRows' = bounceRows => BouncesHold'
           /\ optOuts' = optOuts => SuppressionsHold'
           /\ mailed' = mailed /\ bounceRows' = bounceRows /\ mailSenders' = mailSenders /\ hour' = hour
                /\ mailDomains' \subseteq mailDomains => DomainsHold'
<1>1. drift \in Nat /\ report.next \in Nat /\ report.since \in Int /\ hour \in Nat /\ Bounces(bounceRows)
  BY RowsAreBounces DEF ReportTypes
<1>2. members' = members => ListHolds'
  BY <1>1, StatusesDrift DEF ReportsHold, ListHolds
<1>3. runs' = runs => RunsHold'
  BY <1>1, StatusesDrift DEF ReportsHold, RunsHold
<1>4. mailed' = mailed => CampaignHolds'
  BY <1>1, CampaignDrifts DEF ReportsHold, CampaignHolds
<1>5. mailed' = mailed /\ hour' = hour => DashboardHolds'
  BY <1>1, DashboardDrifts DEF ReportsHold, DashboardHolds
<1>6. bounceRows' = bounceRows => BouncesHold'
  BY <1>1, StatisticsDrift DEF ReportsHold, BouncesHold
<1>7. optOuts' = optOuts => SuppressionsHold'
  BY <1>1, StatisticsDrift DEF ReportsHold, SuppressionsHold
<1>8. mailed' = mailed /\ bounceRows' = bounceRows /\ mailSenders' = mailSenders /\ hour' = hour
        /\ mailDomains' \subseteq mailDomains => DomainsHold'
  BY <1>1, DomainsDrift DEF ReportsHold, DomainsHold
<1> QED BY <1>2, <1>3, <1>4, <1>5, <1>6, <1>7, <1>8

LEMMA ResultKeepsReports ==
    ASSUME ReportTypes, ReportsHold, NEW r \in Mailed, ResultRecorded(r)
    PROVE  ReportTypes' /\ ReportsHold'
<1>1. /\ drift' = drift + 1 /\ report' = report /\ start' = start
      /\ UNCHANGED <<hour, bounceRows, optOuts, members, runs, mailSenders, mailDomains>>
  BY DEF ResultRecorded, Changed
<1>2. \/ mailed' = [mailed EXCEPT ![r] = [status |-> "sent", at |-> hour]]
      \/ mailed' = [mailed EXCEPT ![r].status = "failed"]
      \/ mailed' = [mailed EXCEPT ![r].status = "skipped"]
  BY DEF ResultRecorded
<1>3. RowWritten(mailed, mailed', r)
  BY <1>2 DEF RowWritten, ReportTypes
<1>4. mailed' \in [Mailed -> MailedRows]
  <2>1. PICK m : m = mailed[r] /\ m \in MailedRows
    BY DEF ReportTypes
  <2>2. /\ [status |-> "sent", at |-> hour] \in MailedRows
        /\ [m EXCEPT !.status = "failed"] \in MailedRows /\ [m EXCEPT !.status = "skipped"] \in MailedRows
    BY <2>1 DEF MailedRows, ReportTypes
  <2>3. PICK x \in MailedRows : mailed' = [mailed EXCEPT ![r] = x]
    BY <1>2, <2>1, <2>2
  <2> QED BY <2>3 DEF ReportTypes
<1>5. ReportTypes'
  BY <1>1, <1>4 DEF ReportTypes
<1>6. drift \in Nat /\ drift' \in Nat /\ drift <= drift' /\ report.next \in Nat /\ report.since \in Int
      /\ hour \in Nat /\ Bounces(bounceRows)
  BY <1>1, RowsAreBounces DEF ReportTypes
<1>7. CampaignHolds'
  <2> SUFFICES ASSUME report.kind = "campaign"
               PROVE  CampaignSound(report.next, report.got, report.of, mailed', drift + 1)
    BY <1>1 DEF CampaignHolds
  <2>1. CampaignSound(report.next, report.got, report.of, mailed, drift)
    BY DEF ReportsHold, CampaignHolds
  <2> QED BY <1>3, <1>6, <2>1, CampaignMoves
<1>8. DashboardHolds'
  <2> SUFFICES ASSUME report.kind = "dashboard"
               PROVE  DashboardSound(report.next, report.got, mailed', report.since, hour, drift + 1)
    BY <1>1 DEF DashboardHolds
  <2>1. DashboardSound(report.next, report.got, mailed, report.since, hour, drift)
    BY DEF ReportsHold, DashboardHolds
  <2> QED BY <1>3, <1>6, <2>1, DashboardMoves
<1>9. DomainsHold'
  <2> SUFFICES ASSUME report.kind = "domains"
               PROVE  DomainsSound(report.next, report.got, mailSenders, mailDomains, mailed', bounceRows,
                                   report.since, hour, start, drift + 1)
    BY <1>1 DEF DomainsHold
  <2>1. DomainsSound(report.next, report.got, mailSenders, mailDomains, mailed, bounceRows,
                     report.since, hour, start, drift)
    BY DEF ReportsHold, DomainsHold
  <2> QED BY <1>3, <1>6, <2>1, DomainsMoveRow
<1> QED BY <1>1, <1>5, <1>6, <1>7, <1>8, <1>9, OthersHold DEF ReportsHold

LEMMA BounceKeepsReports ==
    ASSUME ReportTypes, ReportsHold, NEW c \in Mailings \cup {<<>>}, NEW type \in {"hard", "soft"},
           BounceRecorded(c, type)
    PROVE  ReportTypes' /\ ReportsHold'
<1>1. /\ drift' = drift + 1 /\ report' = report /\ start' = start
      /\ UNCHANGED <<hour, mailed, members, runs, mailSenders, mailDomains>>
  BY DEF BounceRecorded, Changed
<1>2. PICK b : b = [of |-> c, type |-> type, at |-> hour] /\ b \in BouncedRows
  <2>1. [of |-> c, type |-> type, at |-> hour] \in BouncedRows
    BY DEF BouncedRows, ReportTypes
  <2> QED BY <2>1
<1>3. bounceRows' = Append(bounceRows, b)
  BY <1>2 DEF BounceRecorded
<1>4. bounceRows' \in Seq(BouncedRows) /\ Added(bounceRows, bounceRows')
  BY <1>2, <1>3, AppendAdds DEF ReportTypes
<1>5. \/ optOuts' = optOuts
      \/ optOuts' \in Seq(OptOutRows) /\ Added(optOuts, optOuts')
  <2>1. CASE type = "soft"
    BY <2>1 DEF BounceRecorded
  <2>2. CASE type = "hard"
    <3>1. PICK s : /\ s = IF c = <<>> THEN <<"bounce", "reason">> ELSE <<"campaign">> \o c \o <<":", "reason">>
                   /\ s \in Sources
      BY DEF Sources
    <3>2. PICK o : o = [reason |-> "mailbox_unavailable", source |-> s] /\ o \in OptOutRows
      <4>1. [reason |-> "mailbox_unavailable", source |-> s] \in OptOutRows
        BY <3>1 DEF OptOutRows
      <4> QED BY <4>1
    <3>3. optOuts' = Append(optOuts, o)
      BY <2>2, <3>1, <3>2 DEF BounceRecorded
    <3> QED BY <3>2, <3>3, AppendAdds DEF ReportTypes
  <2> QED BY <2>1, <2>2
<1>6. drift \in Nat /\ drift' \in Nat /\ drift <= drift' /\ report.next \in Nat /\ Bounces(bounceRows)
  BY <1>1, RowsAreBounces DEF ReportTypes
<1>7. ReportTypes'
  BY <1>1, <1>4, <1>5, <1>6 DEF ReportTypes
<1>8. BouncesHold'
  <2> SUFFICES ASSUME report.kind = "bounces"
               PROVE  BouncesSound(report.next, report.got, bounceRows', drift + 1)
    BY <1>1 DEF BouncesHold
  <2>1. BouncesSound(report.next, report.got, bounceRows, drift)
    BY DEF ReportsHold, BouncesHold
  <2> QED BY <1>4, <1>6, <2>1, BouncesMove
<1>9. SuppressionsHold'
  <2>1. CASE optOuts' = optOuts
    BY <2>1, <1>1, <1>6, OthersHold
  <2>2. CASE Added(optOuts, optOuts')
    <3> SUFFICES ASSUME report.kind = "suppressions"
                 PROVE  SuppressionsSound(report.next, report.got, optOuts', drift + 1)
      BY <1>1 DEF SuppressionsHold
    <3>1. SuppressionsSound(report.next, report.got, optOuts, drift)
      BY DEF ReportsHold, SuppressionsHold
    <3> QED BY <1>6, <2>2, <3>1, SuppressionsMove
  <2> QED BY <1>5, <2>1, <2>2
<1>10. DomainsHold'
  <2> SUFFICES ASSUME report.kind = "domains"
               PROVE  DomainsSound(report.next, report.got, mailSenders, mailDomains, mailed, bounceRows',
                                   report.since, hour, start, drift + 1)
    BY <1>1 DEF DomainsHold
  <2>1. DomainsSound(report.next, report.got, mailSenders, mailDomains, mailed, bounceRows,
                     report.since, hour, start, drift)
    BY DEF ReportsHold, DomainsHold
  <2> QED BY <1>4, <1>6, <2>1, DomainsMoveBounce
<1> QED BY <1>1, <1>6, <1>7, <1>8, <1>9, <1>10, OthersHold DEF ReportsHold

LEMMA UnsubscribeKeepsReports ==
    ASSUME ReportTypes, ReportsHold, NEW c \in Mailings, Unsubscribed(c)
    PROVE  ReportTypes' /\ ReportsHold'
<1>1. /\ drift' = drift + 1 /\ report' = report /\ start' = start
      /\ UNCHANGED <<hour, mailed, bounceRows, members, runs, mailSenders, mailDomains>>
  BY DEF Unsubscribed, Changed
<1>2. PICK o : o = [reason |-> "unsubscribe", source |-> <<"campaign">> \o c] /\ o \in OptOutRows
  <2>1. <<"campaign">> \o c \in Sources
    BY DEF Sources
  <2>2. [reason |-> "unsubscribe", source |-> <<"campaign">> \o c] \in OptOutRows
    BY <2>1 DEF OptOutRows
  <2> QED BY <2>2
<1>3. optOuts' = Append(optOuts, o)
  BY <1>2 DEF Unsubscribed
<1>4. optOuts' \in Seq(OptOutRows) /\ Added(optOuts, optOuts')
  BY <1>2, <1>3, AppendAdds DEF ReportTypes
<1>5. drift \in Nat /\ drift' \in Nat /\ drift <= drift' /\ report.next \in Nat
  BY <1>1 DEF ReportTypes
<1>6. ReportTypes'
  BY <1>1, <1>4, <1>5 DEF ReportTypes
<1>7. SuppressionsHold'
  <2> SUFFICES ASSUME report.kind = "suppressions"
               PROVE  SuppressionsSound(report.next, report.got, optOuts', drift + 1)
    BY <1>1 DEF SuppressionsHold
  <2>1. SuppressionsSound(report.next, report.got, optOuts, drift)
    BY DEF ReportsHold, SuppressionsHold
  <2> QED BY <1>4, <1>5, <2>1, SuppressionsMove
<1> QED BY <1>1, <1>5, <1>6, <1>7, OthersHold DEF ReportsHold

LEMMA MemberKeepsReports ==
    ASSUME ReportTypes, ReportsHold, NEW r \in Mailed, UnsubscribeFromList(r) \/ AddSubscriber(r)
    PROVE  ReportTypes' /\ ReportsHold'
<1>1. /\ drift' = drift + 1 /\ report' = report /\ start' = start
      /\ UNCHANGED <<hour, mailed, bounceRows, optOuts, runs, mailSenders, mailDomains>>
  BY DEF UnsubscribeFromList, AddSubscriber, Changed
<1>2. PICK s \in MemberStatuses : members' = [members EXCEPT ![r] = s]
  BY DEF UnsubscribeFromList, AddSubscriber, MemberStatuses
<1>3. members' \in [Mailed -> MemberStatuses] /\ RowWritten(members, members', r)
  BY <1>2 DEF RowWritten, ReportTypes
<1>4. drift \in Nat /\ drift' \in Nat /\ drift <= drift' /\ report.next \in Nat
  BY <1>1 DEF ReportTypes
<1>5. ReportTypes'
  BY <1>1, <1>3, <1>4 DEF ReportTypes
<1>6. ListHolds'
  <2> SUFFICES ASSUME report.kind = "list" PROVE ListSound(report.next, report.got, members', drift + 1)
    BY <1>1 DEF ListHolds
  <2>1. ListSound(report.next, report.got, members, drift)
    BY DEF ReportsHold, ListHolds
  <2> QED BY <1>3, <1>4, <2>1, ListMoves
<1> QED BY <1>1, <1>4, <1>5, <1>6, OthersHold DEF ReportsHold

LEMMA RunKeepsReports ==
    ASSUME ReportTypes, ReportsHold, NEW r \in Mailed, NEW s \in RunStatuses, RunEnded(r, s)
    PROVE  ReportTypes' /\ ReportsHold'
<1>1. /\ drift' = drift + 1 /\ report' = report /\ start' = start /\ runs' = [runs EXCEPT ![r] = s]
      /\ UNCHANGED <<hour, mailed, bounceRows, optOuts, members, mailSenders, mailDomains>>
  BY DEF RunEnded, Changed
<1>2. runs' \in [Mailed -> RunStatuses] /\ RowWritten(runs, runs', r)
  BY <1>1 DEF RowWritten, ReportTypes
<1>3. drift \in Nat /\ drift' \in Nat /\ drift <= drift' /\ report.next \in Nat
  BY <1>1 DEF ReportTypes
<1>4. ReportTypes'
  BY <1>1, <1>2, <1>3 DEF ReportTypes
<1>5. RunsHold'
  <2> SUFFICES ASSUME report.kind = "automation" PROVE RunsSound(report.next, report.got, runs', drift + 1)
    BY <1>1 DEF RunsHold
  <2>1. RunsSound(report.next, report.got, runs, drift)
    BY DEF ReportsHold, RunsHold
  <2> QED BY <1>2, <1>3, <2>1, RunsMoves
<1> QED BY <1>1, <1>3, <1>4, <1>5, OthersHold DEF ReportsHold

LEMMA SenderKeepsReports ==
    ASSUME ReportTypes, ReportsHold, NEW s, MailSenderDeleted(s)
    PROVE  ReportTypes' /\ ReportsHold'
<1>1. /\ drift' = drift + (OfSender(s) + Len(bounceRows)) /\ report' = report /\ start' = start
      /\ mailSenders' = mailSenders \ {s}
      /\ UNCHANGED <<hour, mailed, bounceRows, optOuts, members, runs, mailDomains>>
  BY DEF MailSenderDeleted, Changed, OfSender
<1>2. drift \in Nat /\ report.next \in Nat /\ Bounces(bounceRows)
  BY RowsAreBounces DEF ReportTypes
<1>3. OfSender(s) \in Nat /\ Len(bounceRows) \in Nat
  BY <1>2, SenderLeaves DEF Bounces
<1>4. drift' \in Nat /\ drift <= drift'
  BY <1>1, <1>2, <1>3
<1>5. ReportTypes'
  BY <1>1, <1>4 DEF ReportTypes
<1>6. DomainsHold'
  <2> SUFFICES ASSUME report.kind = "domains"
               PROVE  DomainsSound(report.next, report.got, mailSenders \ {s}, mailDomains, mailed, bounceRows,
                                   report.since, hour, start, drift')
    BY <1>1 DEF DomainsHold
  <2>1. DomainsSound(report.next, report.got, mailSenders, mailDomains, mailed, bounceRows,
                     report.since, hour, start, drift)
    BY DEF ReportsHold, DomainsHold
  <2> QED BY <1>1, <1>2, <2>1, DomainsSenderLeaves
<1> QED BY <1>1, <1>4, <1>5, <1>6, OthersHold DEF ReportsHold

LEMMA DomainKeepsReports ==
    ASSUME ReportTypes, ReportsHold, NEW d, MailDomainDeleted(d)
    PROVE  ReportTypes' /\ ReportsHold'
<1>1. /\ drift' = drift + 0 /\ report' = report /\ start' = start /\ mailDomains' = mailDomains \ {d}
      /\ UNCHANGED <<hour, mailed, bounceRows, optOuts, members, runs, mailSenders>>
  BY DEF MailDomainDeleted, Changed
<1>2. drift' \in Nat /\ drift <= drift' /\ mailDomains' \subseteq mailDomains
  BY <1>1 DEF ReportTypes
<1>3. ReportTypes'
  BY <1>1, <1>2 DEF ReportTypes
<1> QED BY <1>1, <1>2, <1>3, OthersHold DEF ReportsHold

LEMMA HourKeepsReports ==
    ASSUME ReportTypes, ReportsHold, HourPasses
    PROVE  ReportTypes' /\ ReportsHold'
<1>1. /\ hour' = hour + 1 /\ report' = report /\ start' = start
      /\ UNCHANGED <<mailed, bounceRows, optOuts, members, runs, mailSenders, mailDomains>>
  BY DEF HourPasses
<1>2. drift' = drift + MailedAt(mailed, hour - 2 * Days) + BouncedAt(bounceRows, hour - 2 * Days)
  BY DEF HourPasses, Count, CountBounces, MailedAt, BouncedAt, Since
<1>3. drift \in Nat /\ report.next \in Nat /\ report.since \in Int /\ hour \in Nat /\ hour + 1 \in Nat
      /\ Bounces(bounceRows) /\ AtTimes(mailed)
  BY RowsAreBounces, MailedHaveTimes DEF ReportTypes
<1>4. drift' \in Nat /\ drift <= drift'
  <2>1. PICK o \in Int : o = hour - 2 * Days
    BY <1>3 DEF Days
  <2>2. MailedAt(mailed, o) \in Nat /\ BouncedAt(bounceRows, o) \in Nat
    BY <1>3, WindowMoves
  <2> QED BY <1>2, <1>3, <2>1, <2>2
<1>5. ReportTypes'
  BY <1>1, <1>3, <1>4 DEF ReportTypes
<1>6. DashboardHolds'
  <2> SUFFICES ASSUME report.kind = "dashboard"
               PROVE  DashboardSound(report.next, report.got, mailed, report.since, hour + 1, drift')
    BY <1>1 DEF DashboardHolds
  <2>1. DashboardSound(report.next, report.got, mailed, report.since, hour, drift)
    BY DEF ReportsHold, DashboardHolds
  <2> QED BY <1>3, <1>4, <2>1, DashboardDrifts
<1>7. DomainsHold'
  <2> SUFFICES ASSUME report.kind = "domains"
               PROVE  DomainsSound(report.next, report.got, mailSenders, mailDomains, mailed, bounceRows,
                                   report.since, hour + 1, start, drift')
    BY <1>1 DEF DomainsHold
  <2>1. DomainsSound(report.next, report.got, mailSenders, mailDomains, mailed, bounceRows,
                     report.since, hour, start, drift)
    BY DEF ReportsHold, DomainsHold
  <2> QED BY <1>2, <1>3, <2>1, DomainsHour
<1> QED BY <1>1, <1>4, <1>5, <1>6, <1>7, OthersHold DEF ReportsHold

LEMMA BeginKeepsReports ==
    ASSUME ReportTypes, NEW kind \in Kinds, NEW c, BeginReport(kind, c)
    PROVE  ReportTypes' /\ ReportsHold'
<1>1. /\ report'.kind = kind /\ report'.of = c /\ report'.next = 1 /\ report'.since = hour - 2 * Days
      /\ report'.got = NoReport.got /\ drift' = 0
      /\ start' = [sent |-> [d \in MailDomains |-> SentFrom(d)],
                   bounces |-> [d \in MailDomains |-> BouncedFrom(d)]]
      /\ UNCHANGED <<hour, mailed, bounceRows, optOuts, members, runs, mailSenders, mailDomains>>
  BY DEF BeginReport, Since
<1>2. PICK got : got = NoReport.got /\ DOMAIN got = QueryNames
  <2>1. DOMAIN NoReport.got = QueryNames
    BY DEF NoReport
  <2> QED BY <2>1
<1>3. hour \in Nat /\ hour - 2 * Days \in Int /\ Bounces(bounceRows)
  BY RowsAreBounces DEF ReportTypes, Days
<1>4. ReportTypes'
  BY <1>1, <1>2, <1>3 DEF ReportTypes
<1>5. ListHolds' /\ RunsHold'
  BY <1>1, ListBegins, RunsBegin DEF ReportTypes, ListHolds, RunsHold
<1>6. CampaignHolds'
  BY <1>1, CampaignBegins DEF CampaignHolds
<1>7. DashboardHolds'
  BY <1>1, <1>3, DashboardBegins DEF DashboardHolds
<1>8. BouncesHold' /\ SuppressionsHold'
  <2>1. BouncesSound(1, got, bounceRows, 0) /\ SuppressionsSound(1, got, optOuts, 0)
    BY BouncesBegin, SuppressionsBegin DEF ReportTypes
  <2> QED BY <1>1, <1>2, <2>1 DEF BouncesHold, SuppressionsHold
<1>9. DomainsHold'
  <2>1. PICK begun : begun = [sent |-> [d \in MailDomains |-> SentFrom(d)],
                              bounces |-> [d \in MailDomains |-> BouncedFrom(d)]]
    OBVIOUS
  <2>2. mailDomains \subseteq MailDomains
    BY DEF ReportTypes
  <2>3. DomainsSound(1, got, mailSenders, mailDomains, mailed, bounceRows, hour - 2 * Days, hour, begun, 0)
    BY <1>3, <2>1, <2>2, DomainsBegin
  <2>4. start' = begun
    BY <1>1, <2>1
  <2> QED BY <1>1, <1>2, <2>3, <2>4 DEF DomainsHold
<1> QED BY <1>4, <1>5, <1>6, <1>7, <1>8, <1>9 DEF ReportsHold

\* A query is answered with what it would have found before: the figures stay as they were.
LEMMA QueryKeepsReports ==
    ASSUME ReportTypes, ReportsHold, NextQuery
    PROVE  ReportTypes' /\ ReportsHold'
<1>1. /\ report.kind # "none" /\ report.next <= Len(Queries(report.kind))
      /\ UNCHANGED <<hour, mailed, bounceRows, optOuts, members, runs, mailSenders, mailDomains, start, drift>>
  BY DEF NextQuery
<1>2. PICK n, got, q, v, then :
        /\ n = report.next /\ got = report.got /\ q = Queries(report.kind)[report.next] /\ v = Answer(report, q)
        /\ then = IF q = "campaigns" THEN hour - 2 * Days ELSE report.since
  OBVIOUS
<1>3. PICK more : more = [got EXCEPT ![q] = v]
  OBVIOUS
<1>4. /\ report'.kind = report.kind /\ report'.of = report.of /\ report'.next = n + 1
      /\ report'.since = then /\ report'.got = more
  BY <1>2, <1>3 DEF NextQuery, Since
<1>5. n \in Nat /\ n >= 1 /\ n <= Len(Queries(report.kind)) /\ DOMAIN got = QueryNames /\ report.since \in Int
      /\ then \in Int /\ drift \in Nat /\ hour \in Nat
  BY <1>1, <1>2 DEF ReportTypes, Days
<1>6. DOMAIN more = QueryNames
  BY <1>3, <1>5
<1>7. ReportTypes'
  BY <1>1, <1>4, <1>5, <1>6 DEF ReportTypes
<1>8. Bounces(bounceRows) /\ AtTimes(mailed)
  BY RowsAreBounces, MailedHaveTimes DEF ReportTypes
<1>9. ListHolds'
  <2> SUFFICES ASSUME report.kind = "list" PROVE ListSound(n + 1, more, members, drift)
    BY <1>1, <1>4 DEF ListHolds
  <2>1. ListSound(n, got, members, drift) /\ q = Queries("list")[n] /\ n \in 1..4
    BY <1>2, <1>5 DEF ReportsHold, ListHolds, Queries
  <2>2. v = WithStatus(members, q)
    BY <1>2 DEF Answer
  <2> QED BY <1>3, <1>5, <2>1, <2>2, ListAsks
<1>10. RunsHold'
  <2> SUFFICES ASSUME report.kind = "automation" PROVE RunsSound(n + 1, more, runs, drift)
    BY <1>1, <1>4 DEF RunsHold
  <2>1. RunsSound(n, got, runs, drift) /\ q = Queries("automation")[n] /\ n \in 1..3
    BY <1>2, <1>5 DEF ReportsHold, RunsHold, Queries
  <2>2. v = WithStatus(runs, q)
    BY <1>2 DEF Answer
  <2> QED BY <1>3, <1>5, <2>1, <2>2, RunsAsk
<1>11. CampaignHolds'
  <2> SUFFICES ASSUME report.kind = "campaign" PROVE CampaignSound(n + 1, more, report.of, mailed, drift)
    BY <1>1, <1>4 DEF CampaignHolds
  <2>1. CampaignSound(n, got, report.of, mailed, drift) /\ q = Queries("campaign")[n] /\ n \in 1..6
    BY <1>2, <1>5 DEF ReportsHold, CampaignHolds, Queries
  <2>2. v = CampaignQuery(report, q)
    BY <1>2 DEF Answer
  <2>3. q = "total" => v = OfCampaign(report.of)
    BY <2>2 DEF CampaignQuery, OfCampaign
  <2>4. q \in {"sent", "failed", "skipped"} => v = InCampaign(mailed, report.of, q)
    <3> SUFFICES ASSUME q \in {"sent", "failed", "skipped"} PROVE v = InCampaign(mailed, report.of, q)
      OBVIOUS
    <3>1. {r \in {x \in Mailed : MailingOf[x] = report.of} : mailed[r].status = q}
          = {r \in Mailed : MailingOf[r] = report.of /\ mailed[r].status = q}
      OBVIOUS
    <3>2. v = Cardinality({r \in {x \in Mailed : MailingOf[x] = report.of} : mailed[r].status = q})
      BY <2>2 DEF CampaignQuery
    <3> QED BY <3>1, <3>2 DEF InCampaign
  <2> QED BY <1>3, <1>5, <2>1, <2>3, <2>4, CampaignAsks
<1>12. DashboardHolds'
  <2> SUFFICES ASSUME report.kind = "dashboard" PROVE DashboardSound(n + 1, more, mailed, then, hour, drift)
    BY <1>1, <1>4 DEF DashboardHolds
  <2>1. DashboardSound(n, got, mailed, report.since, hour, drift) /\ q = Queries("dashboard")[n] /\ n \in 1..6
    BY <1>2, <1>5 DEF ReportsHold, DashboardHolds, Queries
  <2>2. then = report.since
    BY <1>2, <2>1 DEF Queries
  <2>3. v = DashboardQuery(report, q)
    BY <1>2 DEF Answer
  <2>4. q = "everSent" => v = EverSent(mailed)
    BY <2>3 DEF DashboardQuery, Count, EverSent
  <2>5. q = "recentSent" => v = SentAfter(mailed, report.since)
    BY <2>3 DEF DashboardQuery, Count, SentAfter
  <2>6. /\ q = "yesterday" => v = SentWithin(mailed, DayBegan(hour) - 2)
        /\ q = "today" => v = SentWithin(mailed, DayBegan(hour))
    <3>1. \A t : SentOn(t) = SentWithin(mailed, t)
      BY DEF SentOn, Count, SentWithin
    <3> QED BY <2>3, <3>1 DEF DashboardQuery, DayBegan, Midnight
  <2> QED BY <1>3, <1>5, <1>8, <2>1, <2>2, <2>4, <2>5, <2>6, DashboardAsks
<1>13. BouncesHold'
  <2> SUFFICES ASSUME report.kind = "bounces" PROVE BouncesSound(n + 1, more, bounceRows, drift)
    BY <1>1, <1>4 DEF BouncesHold
  <2>1. BouncesSound(n, got, bounceRows, drift) /\ q = Queries("bounces")[n] /\ n \in 1..3
    BY <1>2, <1>5 DEF ReportsHold, BouncesHold, Queries
  <2>2. v = handleBounceStats(q)
    BY <1>2 DEF Answer
  <2>3. v = IF q = "total" THEN Len(bounceRows) ELSE OfType(bounceRows, q)
    BY <2>2 DEF handleBounceStats, CountBounces, OfType
  <2> QED BY <1>3, <1>5, <2>1, <2>3, BouncesAsk
<1>14. SuppressionsHold'
  <2> SUFFICES ASSUME report.kind = "suppressions" PROVE SuppressionsSound(n + 1, more, optOuts, drift)
    BY <1>1, <1>4 DEF SuppressionsHold
  <2>1. SuppressionsSound(n, got, optOuts, drift) /\ q = Queries("suppressions")[n] /\ n \in 1..3
    BY <1>2, <1>5 DEF ReportsHold, SuppressionsHold, Queries
  <2>2. v = HandleStats(q)
    BY <1>2 DEF Answer
  <2>3. (q = "total" => v = Len(optOuts)) /\ (q = "bounces" => v = Listed(optOuts))
    BY <2>2 DEF HandleStats, CountOptOuts, Listed
  <2>4. q = "unsubscribes" => v = 0
    <3>1. {i \in DOMAIN optOuts : optOuts[i].reason = "hard_bounce" /\ optOuts[i].reason = "unsubscribe"} = {}
      OBVIOUS
    <3> QED BY <2>2, <3>1, FS_EmptySet DEF HandleStats, CountOptOuts
  <2> QED BY <1>3, <1>5, <2>1, <2>3, <2>4, SuppressionsAsk
<1>15. DomainsHold'
  <2> SUFFICES ASSUME report.kind = "domains"
               PROVE  DomainsSound(n + 1, more, mailSenders, mailDomains, mailed, bounceRows, then, hour, start, drift)
    BY <1>1, <1>4 DEF DomainsHold
  <2>1. DomainsSound(n, got, mailSenders, mailDomains, mailed, bounceRows, report.since, hour, start, drift)
        /\ q = Queries("domains")[n] /\ n \in 1..5
    BY <1>2, <1>5 DEF ReportsHold, DomainsHold, Queries
  <2>2. v = DomainQuery(report, q)
    BY <1>2 DEF Answer
  <2>3. /\ q = "domains" => v = mailDomains
        /\ q = "senders" => v = SendersFound(got, mailSenders)
        /\ q = "campaigns" => v = CampaignsFound(got)
    BY <1>2, <2>2 DEF DomainQuery, SendersFound, CampaignsFound
  <2>4. q = "sent" => v = MailedFound(got, mailed, report.since)
    BY <1>2, <2>2 DEF DomainQuery, MailedFound
  <2>5. q = "bounces" => v = BouncesFound(got, bounceRows, report.since)
    BY <1>2, <2>2 DEF DomainQuery, CountBounces, BouncesFound
  <2>6. PICK m : m = n + 1
    OBVIOUS
  <2>7. Horizon(m, then, hour) = Horizon(n, report.since, hour)
    BY <1>2, <2>1, <2>6 DEF Horizon, Queries
  <2>8. DOMAIN got = QueryNames
    BY <1>5
  <2>9. DomainAnswer(more, q, v, got, mailSenders, mailDomains, mailed, bounceRows, report.since)
    BY <1>3, <2>3, <2>4, <2>5, <2>8 DEF DomainAnswer
  <2>10. DomainsSound(m, more, mailSenders, mailDomains, mailed, bounceRows, then, hour, start, drift)
    BY <1>8, <2>1, <2>6, <2>7, <2>9, DomainsAsk
  <2> QED BY <2>6, <2>10
<1> QED BY <1>7, <1>9, <1>10, <1>11, <1>12, <1>13, <1>14, <1>15 DEF ReportsHold

LEMMA ReportsStart == ReportsInit => ReportTypes /\ ReportsHold
<1> SUFFICES ASSUME ReportsInit PROVE ReportTypes /\ ReportsHold
  OBVIOUS
<1>1. hour \in Nat /\ Since \in Int /\ drift = 0
  BY ReportsAssumption DEF ReportsInit, Since, Days
<1>2. mailed \in [Mailed -> MailedRows]
  <2>1. {[status |-> "sent", at |-> Since], [status |-> "pending", at |-> Never]} \subseteq MailedRows
    BY <1>1 DEF MailedRows, Never
  <2> QED BY <2>1 DEF ReportsInit
<1>3. bounceRows \in Seq(BouncedRows)
  <2>1. CASE bounceRows = <<>>
    BY <2>1
  <2>2. CASE bounceRows \in {<<[of |-> c, type |-> "soft", at |-> Since]>> : c \in Mailings}
    <3>1. PICK c \in Mailings : bounceRows = <<[of |-> c, type |-> "soft", at |-> Since]>>
      BY <2>2
    <3>2. [of |-> c, type |-> "soft", at |-> Since] \in BouncedRows
      BY <1>1 DEF BouncedRows
    <3> QED BY <3>1, <3>2
  <2> QED BY <2>1, <2>2 DEF ReportsInit
<1>4. optOuts \in Seq(OptOutRows)
  BY DEF ReportsInit
<1>5. members \in [Mailed -> MemberStatuses] /\ runs \in [Mailed -> RunStatuses] /\ mailDomains \subseteq MailDomains
  BY DEF ReportsInit, MemberStatuses, RunStatuses
<1>6. report.kind = "none" /\ report.next = 1 /\ report.since = 0 /\ DOMAIN report.got = QueryNames
  BY DEF ReportsInit, NoReport
<1>7. ReportTypes
  BY <1>1, <1>2, <1>3, <1>4, <1>5, <1>6 DEF ReportTypes
<1>8. ReportsHold
  BY <1>6 DEF ReportsHold, ListHolds, RunsHold, CampaignHolds, DashboardHolds, BouncesHold, SuppressionsHold, DomainsHold
<1> QED BY <1>7, <1>8

LEMMA ReportsStep == ReportTypes /\ ReportsHold /\ [ReportsNext]_reportsVars => (ReportTypes /\ ReportsHold)'
<1> SUFFICES ASSUME ReportTypes, ReportsHold, [ReportsNext]_reportsVars PROVE ReportTypes' /\ ReportsHold'
  OBVIOUS
<1>1. ASSUME NEW kind \in Kinds \ {"campaign"}, BeginReport(kind, <<>>) PROVE ReportTypes' /\ ReportsHold'
  BY <1>1, BeginKeepsReports
<1>2. ASSUME NEW c \in Mailings, BeginReport("campaign", c) PROVE ReportTypes' /\ ReportsHold'
  <2>1. "campaign" \in Kinds
    BY DEF Kinds
  <2> QED BY <1>2, <2>1, BeginKeepsReports
<1>3. CASE NextQuery
  BY <1>3, QueryKeepsReports
<1>4. CASE HourPasses
  BY <1>4, HourKeepsReports
<1>5. ASSUME NEW r \in Mailed, ResultRecorded(r) PROVE ReportTypes' /\ ReportsHold'
  BY <1>5, ResultKeepsReports
<1>6. ASSUME NEW r \in Mailed, UnsubscribeFromList(r) \/ AddSubscriber(r) PROVE ReportTypes' /\ ReportsHold'
  BY <1>6, MemberKeepsReports
<1>7. ASSUME NEW r \in Mailed, NEW s \in RunStatuses, RunEnded(r, s) PROVE ReportTypes' /\ ReportsHold'
  BY <1>7, RunKeepsReports
<1>8. ASSUME NEW c \in Mailings \cup {<<>>}, NEW type \in {"hard", "soft"}, BounceRecorded(c, type)
      PROVE  ReportTypes' /\ ReportsHold'
  BY <1>8, BounceKeepsReports
<1>9. ASSUME NEW c \in Mailings, Unsubscribed(c) PROVE ReportTypes' /\ ReportsHold'
  BY <1>9, UnsubscribeKeepsReports
<1>10. ASSUME NEW s \in MailSenders, MailSenderDeleted(s) PROVE ReportTypes' /\ ReportsHold'
  BY <1>10, SenderKeepsReports
<1>11. ASSUME NEW d \in MailDomains, MailDomainDeleted(d) PROVE ReportTypes' /\ ReportsHold'
  BY <1>11, DomainKeepsReports
<1>12. CASE UNCHANGED reportsVars
  BY <1>12 DEF reportsVars, ReportTypes, ReportsHold, AtTimes, ListHolds, RunsHold, CampaignHolds, DashboardHolds,
               BouncesHold, SuppressionsHold, DomainsHold
<1> QED BY <1>1, <1>2, <1>3, <1>4, <1>5, <1>6, <1>7, <1>8, <1>9, <1>10, <1>11, <1>12 DEF ReportsNext

\* A report that has all its answers adds up.
LEMMA ReportsHoldAddsUp == ReportTypes /\ ReportsHold => ReportsAddUp
<1> SUFFICES ASSUME ReportTypes, ReportsHold PROVE ReportsAddUp
  OBVIOUS
<1>0. PICK got : got = report.got
  OBVIOUS
<1>1. PICK n \in Nat, k \in Nat : n = report.next /\ got = report.got /\ k = drift
  BY <1>0 DEF ReportTypes
<1>2. StatusesCoverRows
  <2>1. ASSUME Complete("list")
        PROVE  Near(got["active"] + got["unsubscribed"] + got["bounced"] + got["pending"], Cardinality(Mailed))
    <3>1. n > 4 /\ ListSound(n, got, members, k)
      BY <1>1, <2>1 DEF Complete, Queries, ReportsHold, ListHolds
    <3>2. /\ got["active"] \in Nat /\ got["unsubscribed"] \in Nat /\ got["bounced"] \in Nat /\ got["pending"] \in Nat
          /\ got["active"] + got["unsubscribed"] + got["bounced"] + got["pending"] <= Cardinality(Mailed) + k
          /\ Cardinality(Mailed) <= got["active"] + got["unsubscribed"] + got["bounced"] + got["pending"] + k
      BY <3>1 DEF ListSound, View
    <3> QED BY <1>1, <3>2, MailedFinite DEF Near
  <2>2. ASSUME Complete("automation")
        PROVE  Near(got["active"] + got["completed"] + got["failed"], Cardinality(Mailed))
    <3>1. n > 3 /\ RunsSound(n, got, runs, k)
      BY <1>1, <2>2 DEF Complete, Queries, ReportsHold, RunsHold
    <3>2. /\ got["active"] \in Nat /\ got["completed"] \in Nat /\ got["failed"] \in Nat
          /\ got["active"] + got["completed"] + got["failed"] <= Cardinality(Mailed) + k
          /\ Cardinality(Mailed) <= got["active"] + got["completed"] + got["failed"] + k
      BY <3>1 DEF RunsSound, View
    <3> QED BY <1>1, <3>2, MailedFinite DEF Near
  <2> QED BY <1>1, <2>1, <2>2 DEF StatusesCoverRows
<1>3. DomainFiguresReal
  <2> SUFFICES ASSUME Complete("domains"), NEW d \in got["domains"]
               PROVE  /\ Near(DomainFigure(report, "sent", d), start.sent[d])
                      /\ Near(DomainFigure(report, "bounces", d), start.bounces[d])
    BY <1>1 DEF DomainFiguresReal
  <2>1. n > 5 /\ DomainsSound(n, got, mailSenders, mailDomains, mailed, bounceRows, report.since, hour, start, k)
    BY <1>1 DEF Complete, Queries, ReportsHold, DomainsHold
  <2>2. PICK C, t : C = Chosen(n, got, mailSenders, d) /\ t = Horizon(n, report.since, hour)
    OBVIOUS
  <2>3. DomainSound(n, got, C, mailed, bounceRows, t, start.sent[d], start.bounces[d], k)
    BY <2>1, <2>2 DEF DomainsSound, AskedDomains
  <2>4. C = Under(report, d)
    BY <1>1, <2>1, <2>2 DEF Chosen, Under
  <2>5. /\ Together(got["sent"], C) = DomainFigure(report, "sent", d)
        /\ Together(got["bounces"], C) = DomainFigure(report, "bounces", d)
    BY <1>1, <2>4 DEF Together, DomainFigure
  <2>6. Apart(Together(got["sent"], C), start.sent[d], k) /\ Apart(Together(got["bounces"], C), start.bounces[d], k)
    BY <2>1, <2>3 DEF DomainSound
  <2>7. \A a, b : Apart(a, b, k) => Near(a, b)
    BY <1>1 DEF Apart, Near
  <2> QED BY <2>5, <2>6, <2>7
<1>4. PartsFitWhole
  <2>1. Complete("campaign") => got["sent"] + got["failed"] + got["skipped"] <= got["total"] + k
    <3> SUFFICES ASSUME Complete("campaign") PROVE got["sent"] + got["failed"] + got["skipped"] <= got["total"] + k
      OBVIOUS
    <3>1. n > 6 /\ CampaignSound(n, got, report.of, mailed, k)
      BY <1>1 DEF Complete, Queries, ReportsHold, CampaignHolds
    <3> QED BY <3>1 DEF CampaignSound, View
  <2>2. Complete("dashboard") => /\ got["recentSent"] <= got["everSent"] + k
                                 /\ got["yesterday"] + got["today"] <= got["recentSent"] + k
    <3> SUFFICES ASSUME Complete("dashboard")
                 PROVE  /\ got["recentSent"] <= got["everSent"] + k
                        /\ got["yesterday"] + got["today"] <= got["recentSent"] + k
      OBVIOUS
    <3>1. n > 6 /\ DashboardSound(n, got, mailed, report.since, hour, k)
      BY <1>1 DEF Complete, Queries, ReportsHold, DashboardHolds
    <3> QED BY <3>1 DEF DashboardSound, View
  <2>3. Complete("bounces") => got["hard"] + got["soft"] <= got["total"] + k
    <3> SUFFICES ASSUME Complete("bounces") PROVE got["hard"] + got["soft"] <= got["total"] + k
      OBVIOUS
    <3>1. n > 3 /\ BouncesSound(n, got, bounceRows, k)
      BY <1>1 DEF Complete, Queries, ReportsHold, BouncesHold
    <3> QED BY <3>1 DEF BouncesSound, View
  <2>4. Complete("suppressions") => got["bounces"] + got["unsubscribes"] <= got["total"] + k
    <3> SUFFICES ASSUME Complete("suppressions") PROVE got["bounces"] + got["unsubscribes"] <= got["total"] + k
      OBVIOUS
    <3>1. n > 3 /\ SuppressionsSound(n, got, optOuts, k)
      BY <1>1 DEF Complete, Queries, ReportsHold, SuppressionsHold
    <3> QED BY <3>1 DEF SuppressionsSound, View
  <2> QED BY <1>1, <2>1, <2>2, <2>3, <2>4 DEF PartsFitWhole
<1> QED BY <1>2, <1>3, <1>4 DEF ReportsAddUp

\* The figures of every report, read by one query after the other while the rows change, miss
\* what a single count of the rows says by the rows that changed in the meantime at most, for
\* every number of rows, campaigns, senders and domains.
THEOREM ReportsAlwaysAddUp == ReportsSpec => []ReportsAddUp
<1>1. ReportsSpec => [](ReportTypes /\ ReportsHold)
  BY ReportsStart, ReportsStep, PTL DEF ReportsSpec
<1> QED BY <1>1, ReportsHoldAddsUp, PTL
=============================================================================
