----------------------------- MODULE PanelProofs ----------------------------
(***************************************************************************)
(* What is proved of Accounts, PanelRows, MTAPolicy and LogStats, for any  *)
(* number of requests: how often a second factor can be guessed, how the   *)
(* last administrator can be lost, which edits of a row can be lost, what  *)
(* the mail server has to do with the rows while the files are replaced,   *)
(* and what is true of the statistics that are read from its logs.         *)
(***************************************************************************)
EXTENDS Accounts, PanelRows, MTAPolicy, LogStats, FiniteSetTheorems, WellFoundedInduction, TLAPS

-----------------------------------------------------------------------------
(* Accounts *)

OwnOps == {"setup2FA", "enable2FA", "disable2FA", "theme"}

Operations == {"none", "register", "login", "2fa", "verify"} \cup PanelOps
Stages == {"ready", "locked?", "judge", "lock", "count", "session", "drop", "save"} \cup PanelOps

NewRows == [email : AdminEmails, super : BOOLEAN, secret : BOOLEAN, enabled : BOOLEAN]

AnyRequest ==
    [pc : Stages, op : Operations, who : AdminRows \cup {NoAdmin},
     row : AdminRows \cup NewRows \cup {NoAdmin},
     code : Codes, aim : Nat, token : Nat, seen : BOOLEAN]

\* What a request knows of the account it acts for, and of the row it will write.
RequestSound(q) ==
    /\ q \in AnyRequest
    /\ q.pc \notin {"ready", "create"} => q.who \in AdminRows
    /\ q.pc = "create" /\ q.row # NoAdmin => q.row \in NewRows
    /\ q.pc = "save" => q.row \in AdminRows
    /\ q.pc = "save" /\ q.seen /\ ~q.row.super => q.row.id # q.who.id
    /\ q.pc \in OwnOps => q.seen = q.who.super
    /\ q.pc = "delete" /\ q.aim # 0 => q.aim # q.who.id

RowsKnown ==
    /\ admins \subseteq AdminRows /\ lastAdmin \in Nat
    /\ IsFiniteSet(sessions) /\ lastSession \in Nat /\ \A s \in sessions : s.token \in Nat
    /\ request \in [AuthRequests -> AnyRequest]
    /\ \A r \in AuthRequests : RequestSound(request[r])

Judging(id) == {r \in AuthRequests : IsAt(r, "judge") /\ request[r].who.id = id}
Locking(id) == {r \in AuthRequests : IsAt(r, "lock") /\ request[r].who.id = id}

\* A wrong code is counted by a request that then locks, or has been counted before
\* the lock; while the lock holds nobody new comes to be judged.
GuessesSound ==
    /\ tries \in [AdminIds -> Nat] /\ guesses \in [AdminIds -> Nat]
    /\ locked \subseteq AdminIds /\ redis \in BOOLEAN
    /\ ~redis => \A id \in AdminIds : Locking(id) = {}
    /\ \A id \in AdminIds :
        /\ tries[id] <= MaxAttempts - 1 + Cardinality(Locking(id))
        /\ id \notin locked => guesses[id] <= tries[id]
        /\ id \in locked =>
             guesses[id] + Cardinality(Judging(id)) <= MaxAttempts - 1 + Cardinality(AuthRequests)

AccountsInv == RowsKnown /\ GuessesSound

LEMMA AtFacts ==
    ASSUME NEW id
    PROVE  /\ IsFiniteSet(Judging(id)) /\ IsFiniteSet(Locking(id))
           /\ Cardinality(Judging(id)) \in Nat /\ Cardinality(Locking(id)) \in Nat
           /\ Cardinality(AuthRequests) \in Nat
           /\ Cardinality(Judging(id)) + Cardinality(Locking(id)) <= Cardinality(AuthRequests)
<1>1. IsFiniteSet(AuthRequests)
  BY AccountsAssumption
<1>2. IsFiniteSet(Judging(id)) /\ IsFiniteSet(Locking(id))
  <2>1. Judging(id) \subseteq AuthRequests /\ Locking(id) \subseteq AuthRequests
    BY DEF Judging, Locking
  <2> QED BY <1>1, <2>1, FS_Subset
<1>3. Judging(id) \cap Locking(id) = {}
  BY DEF Judging, Locking, IsAt
<1>4. Cardinality(Judging(id) \cup Locking(id)) = Cardinality(Judging(id)) + Cardinality(Locking(id))
  <2>1. Cardinality(Judging(id) \cup Locking(id)) =
          Cardinality(Judging(id)) + Cardinality(Locking(id)) - Cardinality(Judging(id) \cap Locking(id))
    BY <1>2, FS_Union
  <2>2. Cardinality(Judging(id) \cap Locking(id)) = 0
    BY <1>3, FS_EmptySet
  <2>3. Cardinality(Judging(id)) \in Nat /\ Cardinality(Locking(id)) \in Nat
    BY <1>2, FS_CardinalityType
  <2> HIDE DEF Judging, Locking
  <2> QED BY <2>1, <2>2, <2>3
<1>5. Cardinality(Judging(id) \cup Locking(id)) <= Cardinality(AuthRequests)
  <2>1. Judging(id) \cup Locking(id) \subseteq AuthRequests
    BY DEF Judging, Locking
  <2> QED BY <1>1, <2>1, FS_Subset
<1> QED BY <1>1, <1>2, <1>4, <1>5, FS_CardinalityType

\* A request that goes on leaves the counts of the second factor alone, unless it is
\* judged or locks.
LEMMA QuietKeeps ==
    ASSUME AccountsInv, UNCHANGED <<redis, codeVars>>, NEW r \in AuthRequests,
           NEW g \in AnyRequest, request' = [request EXCEPT ![r] = g],
           request[r].pc \notin {"judge", "lock"}, g.pc # "lock",
           g.pc = "judge" => g.who.id \notin locked
    PROVE  GuessesSound'
<1>0. /\ request'[r] = g /\ request' \in [AuthRequests -> AnyRequest]
      /\ \A q \in AuthRequests \ {r} : request'[q] = request[q]
  BY DEF AccountsInv, RowsKnown
<1>1. \A id \in AdminIds : Locking(id)' = Locking(id)
  <2> SUFFICES ASSUME NEW id \in AdminIds PROVE Locking(id)' = Locking(id)
    OBVIOUS
  <2>1. \A q \in AuthRequests : q \in Locking(id)' <=> q \in Locking(id)
    BY <1>0 DEF Locking, IsAt
  <2>2. Locking(id)' \subseteq AuthRequests /\ Locking(id) \subseteq AuthRequests
    BY DEF Locking
  <2> QED BY <2>1, <2>2
<1>2. \A id \in locked : Judging(id)' = Judging(id)
  <2> SUFFICES ASSUME NEW id \in locked PROVE Judging(id)' = Judging(id)
    OBVIOUS
  <2>1. \A q \in AuthRequests : q \in Judging(id)' <=> q \in Judging(id)
    BY <1>0 DEF Judging, IsAt
  <2>2. Judging(id)' \subseteq AuthRequests /\ Judging(id) \subseteq AuthRequests
    BY DEF Judging
  <2> QED BY <2>1, <2>2
<1>3. UNCHANGED <<tries, guesses, locked, redis>>
  BY DEF codeVars
<1> QED BY <1>1, <1>2, <1>3 DEF AccountsInv, GuessesSound

LEMMA LeastNumber ==
    ASSUME NEW S \in SUBSET Nat, S # {}
    PROVE  Min(S) \in S /\ \A j \in S : Min(S) <= j
<1>1. \E i \in S : \A j \in S : ~(<<j, i>> \in OpToRel(<, Nat))
  BY NatLessThanWellFounded, WFMin
<1>2. \E i \in S : \A j \in S : ~(j < i)
  BY <1>1 DEF OpToRel
<1>3. \E i \in S : \A j \in S : i <= j
  BY <1>2
<1> QED
  BY <1>3 DEF Min

LEMMA NoRequestSound == RequestSound(NoRequest) /\ NoRequest.pc = "ready"
<1>1. NoRequest \in AnyRequest
  <2>1. NoAdmin \in AdminRows \cup {NoAdmin} /\ NoAdmin \in AdminRows \cup NewRows \cup {NoAdmin}
    OBVIOUS
  <2>2. "none" \in Codes /\ "ready" \in Stages /\ "none" \in Operations
    BY DEF Codes, Stages, Operations
  <2> QED BY <2>1, <2>2 DEF NoRequest, AnyRequest
<1> QED BY <1>1 DEF NoRequest, RequestSound, OwnOps, NoAdmin

\* A request goes on; only accounts and sessions may change with it.
LEMMA GoesOn ==
    ASSUME AccountsInv, UNCHANGED <<redis, codeVars>>, NEW r \in AuthRequests,
           NEW g, Goes(r, g), RequestSound(g),
           request[r].pc \notin {"judge", "lock"}, g.pc # "lock",
           g.pc = "judge" => g.who.id \notin locked,
           admins' \subseteq AdminRows, lastAdmin' \in Nat,
           IsFiniteSet(sessions'), lastSession' \in Nat, \A s \in sessions' : s.token \in Nat
    PROVE  AccountsInv'
<1>1. g \in AnyRequest /\ request' = [request EXCEPT ![r] = g]
  BY DEF RequestSound, Goes
<1>2. /\ request'[r] = g /\ request' \in [AuthRequests -> AnyRequest]
      /\ \A q \in AuthRequests \ {r} : request'[q] = request[q]
  BY <1>1 DEF AccountsInv, RowsKnown
<1>3. \A q \in AuthRequests : RequestSound(request'[q])
  BY <1>2 DEF AccountsInv, RowsKnown
<1>4. RowsKnown'
  BY <1>2, <1>3 DEF RowsKnown
<1>5. GuessesSound'
  BY <1>1, QuietKeeps
<1> QED BY <1>4, <1>5 DEF AccountsInv

LEMMA MovesOn ==
    ASSUME AccountsInv, UNCHANGED <<redis, codeVars, adminVars, sessionVars>>, NEW r \in AuthRequests,
           NEW g, Goes(r, g), RequestSound(g),
           request[r].pc \notin {"judge", "lock"}, g.pc # "lock",
           g.pc = "judge" => g.who.id \notin locked
    PROVE  AccountsInv'
<1>1. UNCHANGED <<admins, lastAdmin, sessions, lastSession>> /\ UNCHANGED <<redis, codeVars>>
  BY DEF adminVars, sessionVars
<1>2. /\ admins' \subseteq AdminRows /\ lastAdmin' \in Nat
      /\ IsFiniteSet(sessions') /\ lastSession' \in Nat /\ \A s \in sessions' : s.token \in Nat
  BY <1>1 DEF AccountsInv, RowsKnown
<1> QED BY <1>1, <1>2, GoesOn

LEMMA AnswerKeeps ==
    ASSUME AccountsInv, UNCHANGED <<redis, codeVars, adminVars, sessionVars>>, NEW r \in AuthRequests,
           Answers(r), request[r].pc \notin {"judge", "lock"}
    PROVE  AccountsInv'
<1>1. Goes(r, NoRequest)
  BY DEF Answers
<1> QED BY <1>1, NoRequestSound, MovesOn

LEMMA RequestsBegin ==
    ASSUME AccountsInv, NEW r \in AuthRequests,
           Register(r) \/ Login(r) \/ Verify2FA(r) \/ authMiddleware(r)
    PROVE  AccountsInv'
<1>0. NoRequest \in AnyRequest
  BY NoRequestSound DEF RequestSound
<1>1. request[r].pc = "ready" /\ UNCHANGED <<redis, adminVars, sessionVars, codeVars>>
  BY DEF Register, Login, Verify2FA, authMiddleware, Admitted, IsAt
<1>2. admins \subseteq AdminRows /\ \A s \in sessions : s.token \in Nat
  BY DEF AccountsInv, RowsKnown
<1>3. CASE Register(r)
  <2>1. PICK e \in AdminEmails : Goes(r, [NoRequest EXCEPT !.pc = "create", !.op = "register",
            !.row = [email |-> e, super |-> FALSE, secret |-> FALSE, enabled |-> FALSE]])
    BY <1>3 DEF Register
  <2> DEFINE new == [email |-> e, super |-> FALSE, secret |-> FALSE, enabled |-> FALSE]
             g == [NoRequest EXCEPT !.pc = "create", !.op = "register", !.row = new]
  <2>2. new \in NewRows
    BY DEF NewRows
  <2> HIDE DEF new
  <2>3. g \in AnyRequest
    BY <1>0, <2>2 DEF AnyRequest, Stages, Operations, PanelOps
  <2>4. g.pc = "create" /\ g.row = new
    BY <1>0 DEF AnyRequest
  <2>5. Goes(r, g)
    BY <2>1 DEF new
  <2> HIDE DEF g
  <2>6. RequestSound(g)
    BY <2>2, <2>3, <2>4 DEF RequestSound, OwnOps
  <2> QED BY <1>1, <2>4, <2>5, <2>6, MovesOn
<1>4. CASE Login(r)
  <2>1. PICK a \in admins, c \in Codes, pc \in {"count", "locked?"}, op \in {"2fa", "login"} :
          Goes(r, [NoRequest EXCEPT !.pc = pc, !.who = a, !.code = c, !.op = op])
    <3>1. PICK a \in admins, c \in Codes :
        LET second == a.enabled /\ a.secret
            pc == CASE ~second -> "count"
                    [] second /\ c = "none" -> "count"
                    [] OTHER -> "locked?"
        IN  Goes(r, [NoRequest EXCEPT !.pc = pc, !.who = a, !.code = c,
                        !.op = IF second /\ c = "none" THEN "2fa" ELSE "login"])
      BY <1>4 DEF Login
    <3>2. \A A \in BOOLEAN, B \in BOOLEAN :
             /\ (CASE ~A -> "count" [] A /\ B -> "count" [] OTHER -> "locked?") \in {"count", "locked?"}
             /\ (IF A /\ B THEN "2fa" ELSE "login") \in {"2fa", "login"}
      OBVIOUS
    <3>3. /\ (a.enabled /\ a.secret) \in BOOLEAN
          /\ (c = "none") \in BOOLEAN
      BY <1>2 DEF AdminRows
    <3> QED BY <3>1, <3>2, <3>3
  <2> DEFINE g == [NoRequest EXCEPT !.pc = pc, !.who = a, !.code = c, !.op = op]
  <2>2. g \in AnyRequest
    BY <1>0, <1>2 DEF AnyRequest, Stages, Operations
  <2>3. g.pc = pc /\ g.who = a
    BY <1>0 DEF AnyRequest
  <2>4. Goes(r, g)
    BY <2>1
  <2> HIDE DEF g
  <2>5. RequestSound(g)
    BY <1>2, <2>2, <2>3 DEF RequestSound, OwnOps
  <2> QED BY <1>1, <2>3, <2>4, <2>5, MovesOn
<1>5. CASE Verify2FA(r)
  <2>1. PICK s \in sessions, a \in admins, c \in Codes \ {"none"} :
          Goes(r, [NoRequest EXCEPT !.pc = "locked?", !.op = "verify", !.who = a, !.code = c,
                        !.token = s.token])
    BY <1>5 DEF Verify2FA
  <2> DEFINE g == [NoRequest EXCEPT !.pc = "locked?", !.op = "verify", !.who = a, !.code = c,
                        !.token = s.token]
  <2>2. g \in AnyRequest
    BY <1>0, <1>2 DEF AnyRequest, Stages, Operations
  <2>3. g.pc = "locked?" /\ g.who = a
    BY <1>0 DEF AnyRequest
  <2>4. Goes(r, g)
    BY <2>1
  <2> HIDE DEF g
  <2>5. RequestSound(g)
    BY <1>2, <2>2, <2>3 DEF RequestSound, OwnOps
  <2> QED BY <1>1, <2>3, <2>4, <2>5, MovesOn
<1>6. CASE authMiddleware(r)
  <2>1. PICK s \in sessions, a \in admins, op \in PanelOps :
          Goes(r, [NoRequest EXCEPT !.pc = op, !.op = op, !.who = a, !.seen = a.super,
                        !.token = IF op = "logout" THEN s.token ELSE 0])
    BY <1>6 DEF authMiddleware
  <2> DEFINE token == IF op = "logout" THEN s.token ELSE 0
             g == [NoRequest EXCEPT !.pc = op, !.op = op, !.who = a, !.seen = a.super, !.token = token]
  <2>2. token \in Nat /\ a.super \in BOOLEAN /\ a \in AdminRows
    BY <1>2 DEF AdminRows
  <2> HIDE DEF token
  <2>3. g \in AnyRequest
    BY <1>0, <2>2 DEF AnyRequest, Stages, Operations
  <2>4. g.pc = op /\ g.who = a /\ g.seen = a.super /\ g.row = NoAdmin /\ g.aim = 0
    BY <1>0 DEF AnyRequest, NoRequest
  <2>5. Goes(r, g)
    BY <2>1 DEF token
  <2> HIDE DEF g
  <2>6. op \notin {"ready", "save", "judge", "lock"}
    BY DEF PanelOps
  <2>7. RequestSound(g)
    BY <2>2, <2>3, <2>4, <2>6 DEF RequestSound
  <2> QED BY <1>1, <2>4, <2>5, <2>6, <2>7, MovesOn
<1> QED BY <1>3, <1>4, <1>5, <1>6

LEMMA StageOnly ==
    ASSUME NEW x, RequestSound(x), x.pc \notin {"ready", "create"},
           NEW pc \in {"judge", "lock", "count", "drop"}
    PROVE  /\ RequestSound([x EXCEPT !.pc = pc])
           /\ [x EXCEPT !.pc = pc].pc = pc /\ [x EXCEPT !.pc = pc].who = x.who
<1> DEFINE g == [x EXCEPT !.pc = pc]
<1>1. x \in AnyRequest /\ x.who \in AdminRows
  BY DEF RequestSound
<1>2. g \in AnyRequest
  BY <1>1 DEF AnyRequest, Stages
<1>3. g.pc = pc /\ g.who = x.who
  BY <1>1 DEF AnyRequest
<1> HIDE DEF g
<1>4. RequestSound(g)
  BY <1>1, <1>2, <1>3 DEF RequestSound, OwnOps
<1> QED BY <1>3, <1>4 DEF g

LEMMA LockChecked ==
    ASSUME AccountsInv, NEW r \in AuthRequests, check2FALocked(r) PROVE AccountsInv'
<1>1. /\ request[r].pc = "locked?" /\ UNCHANGED <<redis, adminVars, sessionVars, codeVars>>
      /\ RequestSound(request[r])
  BY DEF check2FALocked, IsAt, AccountsInv, RowsKnown
<1>2. CASE Answers(r)
  BY <1>1, <1>2, AnswerKeeps
<1>3. CASE request[r].who.id \notin locked /\ Goes(r, [request[r] EXCEPT !.pc = "judge"])
  <2> DEFINE g == [request[r] EXCEPT !.pc = "judge"]
  <2>1. RequestSound(g) /\ g.pc = "judge" /\ g.who = request[r].who
    BY <1>1, StageOnly
  <2>2. Goes(r, g)
    BY <1>3
  <2> HIDE DEF g
  <2> QED BY <1>1, <1>3, <2>1, <2>2, MovesOn
<1> QED BY <1>2, <1>3 DEF check2FALocked

LEMMA SessionsKeep ==
    ASSUME AccountsInv, NEW r \in AuthRequests,
           DeleteSession(r) \/ CountSessions(r) \/ CreateSession(r) \/ handleLogout(r)
    PROVE  AccountsInv'
<1>1. /\ request[r].pc \in {"drop", "count", "session", "logout"}
      /\ UNCHANGED <<redis, adminVars, codeVars>> /\ UNCHANGED <<admins, lastAdmin>>
      /\ RequestSound(request[r])
  BY DEF DeleteSession, CountSessions, CreateSession, handleLogout, IsAt, AccountsInv, RowsKnown, adminVars
<1>2. /\ admins' \subseteq AdminRows /\ lastAdmin' \in Nat
      /\ IsFiniteSet(sessions) /\ lastSession \in Nat /\ \A s \in sessions : s.token \in Nat
  BY <1>1 DEF AccountsInv, RowsKnown
<1>4. CASE DeleteSession(r)
  <2>1. sessions' \subseteq sessions /\ lastSession' = lastSession
    BY <1>4 DEF DeleteSession
  <2>2. IsFiniteSet(sessions') /\ \A s \in sessions' : s.token \in Nat
    BY <1>2, <2>1, FS_Subset
  <2> DEFINE g == [request[r] EXCEPT !.pc = "count"]
  <2>3. RequestSound(g) /\ g.pc = "count"
    BY <1>1, StageOnly
  <2>4. Goes(r, NoRequest) \/ Goes(r, g)
    BY <1>4 DEF DeleteSession, Answers
  <2> HIDE DEF g
  <2>5. CASE Goes(r, NoRequest)
    BY <1>1, <1>2, <2>1, <2>2, <2>5, NoRequestSound, GoesOn
  <2>6. CASE Goes(r, g)
    BY <1>1, <1>2, <2>1, <2>2, <2>3, <2>6, GoesOn
  <2> QED BY <2>4, <2>5, <2>6
<1>5. CASE CountSessions(r)
  <2> DEFINE id == request[r].who.id
             S == {s.token : s \in SessionsOf(id)}
             aim == IF Cardinality(SessionsOf(id)) < MaxSessions THEN 0 ELSE Min(S)
             g == [request[r] EXCEPT !.pc = "session", !.token = aim]
  <2>1. aim \in Nat
    <3>1. CASE Cardinality(SessionsOf(id)) < MaxSessions
      BY <3>1
    <3>2. CASE ~(Cardinality(SessionsOf(id)) < MaxSessions)
      <4>1. SessionsOf(id) # {}
        BY <3>2, FS_EmptySet, AccountsAssumption
      <4>2. S \in SUBSET Nat /\ S # {}
        BY <1>2, <4>1 DEF SessionsOf
      <4> HIDE DEF S
      <4>3. Min(S) \in Nat
        BY <4>2, LeastNumber
      <4> QED BY <3>2, <4>3
    <3> QED BY <3>1, <3>2
  <2>2. Goes(r, g) /\ UNCHANGED sessionVars
    BY <1>5 DEF CountSessions
  <2> HIDE DEF aim
  <2>3. RequestSound(g) /\ g.pc = "session"
    <3>1. request[r] \in AnyRequest /\ request[r].who \in AdminRows
      BY <1>1 DEF RequestSound
    <3>2. g \in AnyRequest
      BY <2>1, <3>1 DEF AnyRequest, Stages
    <3>3. g.pc = "session" /\ g.who = request[r].who
      BY <3>1 DEF AnyRequest
    <3> HIDE DEF g
    <3> QED BY <3>1, <3>2, <3>3 DEF RequestSound, OwnOps
  <2> HIDE DEF g
  <2> QED BY <1>1, <2>2, <2>3, MovesOn
<1>6. CASE CreateSession(r)
  <2> DEFINE left == {s \in sessions : s.token # request[r].token}
             new == [token |-> lastSession', admin |-> request[r].who.id,
                     kind |-> IF request[r].op = "2fa" THEN "2fa" ELSE "full"]
  <2>1. lastSession' = lastSession + 1 /\ sessions' = left \cup {new} /\ Goes(r, NoRequest)
    BY <1>6 DEF CreateSession, Answers
  <2>2. lastSession' \in Nat /\ new.token \in Nat
    BY <1>2, <2>1
  <2> HIDE DEF new
  <2>3. IsFiniteSet(left)
    BY <1>2, FS_Subset
  <2>4. IsFiniteSet(sessions') /\ \A s \in sessions' : s.token \in Nat
    <3>1. IsFiniteSet(left \cup {new})
      BY <2>3, FS_AddElement
    <3> QED BY <1>2, <2>1, <2>2, <3>1
  <2> QED BY <1>1, <1>2, <2>1, <2>2, <2>4, NoRequestSound, GoesOn
<1>7. CASE handleLogout(r)
  <2> DEFINE g == [request[r] EXCEPT !.pc = "drop"]
  <2>1. RequestSound(g) /\ g.pc = "drop"
    BY <1>1, StageOnly
  <2>2. Goes(r, g) /\ UNCHANGED sessionVars
    BY <1>7 DEF handleLogout
  <2> HIDE DEF g
  <2> QED BY <1>1, <2>1, <2>2, MovesOn
<1> QED BY <1>4, <1>5, <1>6, <1>7

LEMMA OwnSettingsKeep ==
    ASSUME AccountsInv, NEW r \in AuthRequests, OwnSettings(r) PROVE AccountsInv'
<1>1. PICK x \in AnyRequest : /\ x = request[r] /\ RequestSound(x) /\ x.pc \in OwnOps
                              /\ x.who \in AdminRows /\ x.seen = x.who.super
  <2>1. RequestSound(request[r]) /\ request[r].pc \in OwnOps
    BY DEF OwnSettings, IsAt, OwnOps, AccountsInv, RowsKnown
  <2> QED BY <2>1 DEF RequestSound, OwnOps
<1>2. UNCHANGED <<redis, adminVars, sessionVars, codeVars>> /\ request[r].pc \notin {"judge", "lock"}
  BY <1>1 DEF OwnSettings, OwnOps
<1>3. ASSUME NEW a \in AdminRows, a.super = x.who.super, Goes(r, [x EXCEPT !.pc = "save", !.row = a])
      PROVE  AccountsInv'
  <2> DEFINE g == [x EXCEPT !.pc = "save", !.row = a]
  <2>1. g \in AnyRequest
    BY DEF AnyRequest, Stages
  <2>2. g.pc = "save" /\ g.row = a /\ g.who = x.who /\ g.seen = x.seen
    BY DEF AnyRequest
  <2>3. Goes(r, g)
    BY <1>3
  <2> HIDE DEF g
  <2>4. RequestSound(g)
    BY <1>1, <1>3, <2>1, <2>2 DEF RequestSound, OwnOps
  <2> QED BY <1>2, <2>2, <2>3, <2>4, MovesOn
<1> DEFINE a == x.who
<1>4. /\ [a EXCEPT !.secret = TRUE] \in AdminRows /\ [a EXCEPT !.secret = TRUE].super = a.super
      /\ [a EXCEPT !.enabled = TRUE] \in AdminRows /\ [a EXCEPT !.enabled = TRUE].super = a.super
      /\ [a EXCEPT !.enabled = FALSE, !.secret = FALSE] \in AdminRows
      /\ [a EXCEPT !.enabled = FALSE, !.secret = FALSE].super = a.super
  BY <1>1 DEF AdminRows
<1>5. \/ Answers(r)
      \/ \E b \in {a, [a EXCEPT !.secret = TRUE], [a EXCEPT !.enabled = TRUE],
                   [a EXCEPT !.enabled = FALSE, !.secret = FALSE]} :
           Goes(r, [x EXCEPT !.pc = "save", !.row = b])
  BY <1>1 DEF OwnSettings, Saves
<1> QED BY <1>1, <1>2, <1>3, <1>4, <1>5, AnswerKeeps

LEMMA UsersKeep ==
    ASSUME AccountsInv, NEW r \in AuthRequests,
           CreateUser(r) \/ UpdateUser(r) \/ DeleteUser(r) \/ AssignUserToOrg(r) \/ RemoveUserFromOrg(r)
    PROVE  AccountsInv'
<1>1. PICK x \in AnyRequest :
        /\ x = request[r] /\ RequestSound(x)
        /\ x.pc \in {"create", "update", "delete", "assign", "unassign"}
  BY DEF CreateUser, UpdateUser, DeleteUser, AssignUserToOrg, RemoveUserFromOrg, IsAt,
         AccountsInv, RowsKnown, RequestSound
<1>2. UNCHANGED <<redis, admins, lastAdmin, sessionVars, codeVars>>
  BY DEF CreateUser, UpdateUser, DeleteUser, AssignUserToOrg, RemoveUserFromOrg, adminVars
<1>3. /\ admins' \subseteq AdminRows /\ lastAdmin' \in Nat /\ IsFiniteSet(sessions')
      /\ lastSession' \in Nat /\ \A s \in sessions' : s.token \in Nat
  BY <1>2 DEF AccountsInv, RowsKnown, sessionVars
<1>4. ASSUME NEW g, Goes(r, g), RequestSound(g), g.pc \notin {"judge", "lock"}
      PROVE  AccountsInv'
  BY <1>1, <1>2, <1>3, <1>4, GoesOn
<1>5. CASE Answers(r)
  BY <1>4, <1>5, NoRequestSound DEF Answers
<1>6. CASE CreateUser(r) /\ ~Answers(r)
  <2>1. x.pc = "create"
    BY <1>1, <1>6 DEF CreateUser, IsAt
  <2>2. PICK e \in AdminEmails, super \in BOOLEAN :
          Goes(r, [x EXCEPT !.row = [email |-> e, super |-> super, secret |-> FALSE, enabled |-> FALSE]])
    BY <1>1, <1>6 DEF CreateUser
  <2> DEFINE new == [email |-> e, super |-> super, secret |-> FALSE, enabled |-> FALSE]
             g == [x EXCEPT !.row = new]
  <2>3. new \in NewRows
    BY DEF NewRows
  <2> HIDE DEF new
  <2>4. g \in AnyRequest
    BY <2>3 DEF AnyRequest
  <2>5. g.pc = "create" /\ g.row = new
    BY <2>1 DEF AnyRequest
  <2>6. Goes(r, g)
    BY <2>2 DEF new
  <2> HIDE DEF g
  <2>7. RequestSound(g)
    BY <2>3, <2>4, <2>5 DEF RequestSound, OwnOps
  <2> QED BY <1>4, <2>5, <2>6, <2>7
<1>7. CASE UpdateUser(r) /\ ~Answers(r)
  <2>1. PICK a \in admins, e \in AdminEmails, super \in BOOLEAN :
          /\ ~(a.id = x.who.id /\ super # a.super /\ ~super)
          /\ Goes(r, [x EXCEPT !.pc = "save", !.seen = a.super, !.row = [a EXCEPT !.email = e, !.super = super]])
    BY <1>1, <1>7 DEF UpdateUser
  <2> DEFINE row == [a EXCEPT !.email = e, !.super = super]
             g == [x EXCEPT !.pc = "save", !.seen = a.super, !.row = row]
  <2>2. a \in AdminRows
    BY DEF AccountsInv, RowsKnown
  <2>3. row \in AdminRows /\ row.id = a.id /\ row.super = super /\ a.super \in BOOLEAN
    BY <2>2 DEF AdminRows
  <2>4. x.who \in AdminRows
    <3>1. x.pc = "update"
      BY <1>1, <1>7 DEF UpdateUser, IsAt
    <3> QED BY <1>1, <3>1 DEF RequestSound
  <2>5. Goes(r, g)
    BY <2>1
  <2> HIDE DEF row
  <2>6. g \in AnyRequest
    BY <2>3 DEF AnyRequest, Stages
  <2>7. g.pc = "save" /\ g.row = row /\ g.seen = a.super /\ g.who = x.who
    BY DEF AnyRequest
  <2> HIDE DEF g
  <2>8. RequestSound(g)
    BY <2>1, <2>3, <2>4, <2>6, <2>7 DEF RequestSound, OwnOps
  <2> QED BY <1>4, <2>5, <2>7, <2>8
<1>8. ASSUME DeleteUser(r) \/ AssignUserToOrg(r), ~Answers(r) PROVE AccountsInv'
  <2>1. PICK id \in AdminIds :
          Goes(r, [x EXCEPT !.aim = id]) /\ (x.pc = "delete" => id # x.who.id)
    <3>1. CASE DeleteUser(r)
      BY <1>1, <1>8, <3>1 DEF DeleteUser
    <3>2. CASE AssignUserToOrg(r)
      BY <1>1, <1>8, <3>2 DEF AssignUserToOrg, IsAt
    <3> QED BY <1>8, <3>1, <3>2
  <2> DEFINE g == [x EXCEPT !.aim = id]
  <2>2. x.pc \in {"delete", "assign"}
    BY <1>1, <1>8 DEF DeleteUser, AssignUserToOrg, IsAt
  <2>3. id \in Nat
    BY AccountsAssumption DEF AdminIds
  <2>4. g \in AnyRequest
    BY <2>3 DEF AnyRequest
  <2>5. g.pc = x.pc /\ g.who = x.who /\ g.aim = id
    BY DEF AnyRequest
  <2>6. Goes(r, g)
    BY <2>1
  <2> HIDE DEF g
  <2>7. RequestSound(g)
    BY <1>1, <2>1, <2>2, <2>4, <2>5 DEF RequestSound, OwnOps
  <2> QED BY <1>4, <2>2, <2>5, <2>6, <2>7
<1>9. RemoveUserFromOrg(r) => Answers(r)
  BY DEF RemoveUserFromOrg
<1> QED BY <1>5, <1>6, <1>7, <1>8, <1>9

LEMMA AdminsKeep ==
    ASSUME AccountsInv, NEW r \in AuthRequests,
           CreateAdmin(r) \/ UpdateAdmin(r) \/ DeleteAdmin(r)
    PROVE  AccountsInv'
<1>1. PICK x \in AnyRequest :
        x = request[r] /\ RequestSound(x) /\ x.pc \in {"create", "save", "delete"}
  BY DEF CreateAdmin, UpdateAdmin, DeleteAdmin, IsAt, AccountsInv, RowsKnown, RequestSound
<1>2. UNCHANGED <<redis, sessionVars, codeVars>>
  BY DEF CreateAdmin, UpdateAdmin, DeleteAdmin
<1>3. /\ IsFiniteSet(sessions') /\ lastSession' \in Nat /\ \A s \in sessions' : s.token \in Nat
      /\ admins \subseteq AdminRows /\ lastAdmin \in Nat
  BY <1>2 DEF AccountsInv, RowsKnown, sessionVars
<1>4. ASSUME NEW g, Goes(r, g), RequestSound(g), g.pc \notin {"judge", "lock"},
             admins' \subseteq AdminRows, lastAdmin' \in Nat
      PROVE  AccountsInv'
  BY <1>1, <1>2, <1>3, <1>4, GoesOn
<1>5. CASE UpdateAdmin(r) \/ DeleteAdmin(r)
  <2>1. Goes(r, NoRequest) /\ lastAdmin' = lastAdmin
    BY <1>5 DEF UpdateAdmin, DeleteAdmin, Answers
  <2>2. admins' \subseteq AdminRows
    <3>1. CASE UpdateAdmin(r)
      <4>1. x.row \in AdminRows
        BY <1>1, <3>1 DEF UpdateAdmin, IsAt, RequestSound
      <4> QED BY <1>1, <1>3, <3>1, <4>1 DEF UpdateAdmin
    <3>2. CASE DeleteAdmin(r)
      BY <1>3, <3>2 DEF DeleteAdmin
    <3> QED BY <1>5, <3>1, <3>2
  <2> QED BY <1>3, <1>4, <2>1, <2>2, NoRequestSound
<1>6. CASE CreateAdmin(r)
  <2>1. x.pc = "create" /\ x.row \in NewRows
    BY <1>1, <1>6 DEF CreateAdmin, IsAt, RequestSound
  <2> DEFINE a == [id |-> lastAdmin + 1, email |-> x.row.email, super |-> x.row.super,
                   secret |-> FALSE, enabled |-> FALSE]
             g == [x EXCEPT !.pc = "count", !.who = a, !.row = NoAdmin]
  <2>2. \/ Goes(r, NoRequest) /\ UNCHANGED <<admins, lastAdmin>>
        \/ /\ lastAdmin < MaxAdmins /\ lastAdmin' = lastAdmin + 1 /\ admins' = admins \cup {a}
           /\ Goes(r, NoRequest) \/ Goes(r, g)
    BY <1>1, <1>6 DEF CreateAdmin, Answers
  <2>3. CASE Goes(r, NoRequest) /\ UNCHANGED <<admins, lastAdmin>>
    BY <1>3, <1>4, <2>3, NoRequestSound
  <2>4. CASE /\ lastAdmin < MaxAdmins /\ lastAdmin' = lastAdmin + 1 /\ admins' = admins \cup {a}
             /\ Goes(r, NoRequest) \/ Goes(r, g)
    <3>1. a \in AdminRows
      <4>1. x.row.email \in AdminEmails /\ x.row.super \in BOOLEAN
        BY <2>1 DEF NewRows
      <4>2. lastAdmin + 1 \in AdminIds
        BY <1>3, <2>4, AccountsAssumption DEF AdminIds
      <4> QED BY <4>1, <4>2 DEF AdminRows
    <3> HIDE DEF a
    <3>2. g \in AnyRequest
      BY <3>1 DEF AnyRequest, Stages
    <3>3. g.pc = "count" /\ g.who = a
      BY DEF AnyRequest
    <3> HIDE DEF g
    <3>4. RequestSound(g)
      BY <3>1, <3>2, <3>3 DEF RequestSound, OwnOps
    <3>5. admins' \subseteq AdminRows /\ lastAdmin' \in Nat
      BY <1>3, <2>4, <3>1
    <3> QED BY <1>4, <2>4, <3>3, <3>4, <3>5, NoRequestSound
  <2> QED BY <2>2, <2>3, <2>4
<1> QED BY <1>5, <1>6

\* The account of a request that is judged or locks.
LEMMA SecondFactor ==
    ASSUME AccountsInv, NEW r \in AuthRequests, request[r].pc \in {"judge", "lock"}
    PROVE  request[r].who.id \in AdminIds
<1>1. request[r].who \in AdminRows
  BY DEF AccountsInv, RowsKnown, RequestSound
<1> QED BY <1>1 DEF AdminRows

\* Only the rows that requests hold stay known: the counts are another matter.
LEMMA HoldsOn ==
    ASSUME AccountsInv, UNCHANGED <<adminVars, sessionVars>>,
           \A r \in AuthRequests : request'[r] = request[r] \/ RequestSound(request'[r]),
           request' \in [AuthRequests -> AnyRequest]
    PROVE  RowsKnown'
<1>1. UNCHANGED <<admins, lastAdmin, sessions, lastSession>>
  BY DEF adminVars, sessionVars
<1>2. \A r \in AuthRequests : RequestSound(request'[r])
  BY DEF AccountsInv, RowsKnown
<1> QED BY <1>1, <1>2 DEF AccountsInv, RowsKnown

\* A request leaves its place for another one that is neither, or for the lock.
LEMMA Leaves ==
    ASSUME AccountsInv, NEW r \in AuthRequests, NEW g, Goes(r, g), RequestSound(g), g.pc # "judge",
           NEW me \in AdminIds, me = request[r].who.id
    PROVE  /\ \A q \in AuthRequests : request'[q] = request[q] \/ RequestSound(request'[q])
           /\ request' \in [AuthRequests -> AnyRequest]
           /\ request[r].pc = "judge" =>
                /\ \A id \in AdminIds : Cardinality(Judging(id)') <= Cardinality(Judging(id))
                /\ Cardinality(Judging(me)') = Cardinality(Judging(me)) - 1
           /\ request[r].pc # "judge" => \A id \in AdminIds : Judging(id)' = Judging(id)
           /\ request[r].pc = "judge" /\ g.pc # "lock" => \A id \in AdminIds : Locking(id)' = Locking(id)
           /\ request[r].pc = "judge" /\ g.pc = "lock" /\ g.who = request[r].who =>
                /\ \A id \in AdminIds \ {me} : Locking(id)' = Locking(id)
                /\ Cardinality(Locking(me)') = Cardinality(Locking(me)) + 1
           /\ request[r].pc = "lock" /\ g.pc # "lock" =>
                \A id \in AdminIds \ {me} : Locking(id)' = Locking(id)
<1>1. /\ request'[r] = g /\ request' \in [AuthRequests -> AnyRequest]
      /\ \A q \in AuthRequests \ {r} : request'[q] = request[q]
  BY DEF Goes, AccountsInv, RowsKnown, RequestSound
<1>2. \A id : /\ Judging(id) \subseteq AuthRequests /\ Judging(id)' \subseteq AuthRequests
              /\ Locking(id) \subseteq AuthRequests /\ Locking(id)' \subseteq AuthRequests
  BY DEF Judging, Locking
<1>3. \A id \in AdminIds :
         /\ \A q \in AuthRequests \ {r} : q \in Judging(id)' <=> q \in Judging(id)
         /\ r \notin Judging(id)'
         /\ r \in Judging(id) <=> request[r].pc = "judge" /\ me = id
  BY <1>1 DEF Judging, IsAt
<1>4. \A id \in AdminIds : Judging(id)' = Judging(id) \ {r}
  BY <1>2, <1>3
<1>5. \A id \in AdminIds :
         /\ \A q \in AuthRequests \ {r} : q \in Locking(id)' <=> q \in Locking(id)
         /\ r \in Locking(id)' <=> g.pc = "lock" /\ g.who.id = id
         /\ r \in Locking(id) <=> request[r].pc = "lock" /\ me = id
  BY <1>1 DEF Locking, IsAt
<1>12. \A id \in AdminIds :
         Locking(id)' = (Locking(id) \ {r}) \cup (IF g.pc = "lock" /\ g.who.id = id THEN {r} ELSE {})
  <2> SUFFICES ASSUME NEW id \in AdminIds
               PROVE  Locking(id)' =
                 (Locking(id) \ {r}) \cup (IF g.pc = "lock" /\ g.who.id = id THEN {r} ELSE {})
    OBVIOUS
  <2>1. CASE g.pc = "lock" /\ g.who.id = id
    BY <1>2, <1>5, <2>1
  <2>2. CASE ~(g.pc = "lock" /\ g.who.id = id)
    BY <1>2, <1>5, <2>2
  <2> QED BY <2>1, <2>2
<1>13. \A id \in AdminIds : request[r].pc # "lock" \/ me # id => Locking(id) \ {r} = Locking(id)
  BY <1>5
<1>6. \A id \in AdminIds : IsFiniteSet(Judging(id)) /\ IsFiniteSet(Locking(id))
  BY AtFacts
<1>7. request[r].pc = "judge" =>
        /\ \A id \in AdminIds : Cardinality(Judging(id)') <= Cardinality(Judging(id))
        /\ Cardinality(Judging(me)') = Cardinality(Judging(me)) - 1
  <2> SUFFICES ASSUME request[r].pc = "judge"
               PROVE  /\ \A id \in AdminIds : Cardinality(Judging(id)') <= Cardinality(Judging(id))
                      /\ Cardinality(Judging(me)') = Cardinality(Judging(me)) - 1
    OBVIOUS
  <2>2. r \in Judging(me)
    BY <1>3
  <2>3. Cardinality(Judging(me) \ {r}) = Cardinality(Judging(me)) - 1
    BY <1>6, <2>2, FS_RemoveElement
  <2>4. \A id \in AdminIds : Cardinality(Judging(id) \ {r}) <= Cardinality(Judging(id))
    <3>1. \A id \in AdminIds : Judging(id) \ {r} \subseteq Judging(id)
      OBVIOUS
    <3> QED BY <1>6, <3>1, FS_Subset
  <2> QED BY <1>4, <2>3, <2>4
<1>8. request[r].pc # "judge" => \A id \in AdminIds : Judging(id)' = Judging(id)
  BY <1>3, <1>4
<1>9. request[r].pc = "judge" /\ g.pc # "lock" => \A id \in AdminIds : Locking(id)' = Locking(id)
  BY <1>12, <1>13
<1>10. request[r].pc = "judge" /\ g.pc = "lock" /\ g.who = request[r].who =>
                /\ \A id \in AdminIds \ {me} : Locking(id)' = Locking(id)
                /\ Cardinality(Locking(me)') = Cardinality(Locking(me)) + 1
  <2> SUFFICES ASSUME request[r].pc = "judge", g.pc = "lock", g.who = request[r].who
               PROVE  /\ \A id \in AdminIds \ {me} : Locking(id)' = Locking(id)
                      /\ Cardinality(Locking(me)') = Cardinality(Locking(me)) + 1
    OBVIOUS
  <2>2. \A id \in AdminIds \ {me} : Locking(id)' = Locking(id)
    BY <1>12, <1>13
  <2>3. Locking(me)' = Locking(me) \cup {r} /\ r \notin Locking(me)
    BY <1>5, <1>12, <1>13
  <2> QED BY <1>6, <2>2, <2>3, FS_AddElement
<1>11. request[r].pc = "lock" /\ g.pc # "lock" => \A id \in AdminIds \ {me} : Locking(id)' = Locking(id)
  BY <1>12, <1>13
<1> QED BY <1>1, <1>7, <1>8, <1>9, <1>10, <1>11

LEMMA FailureKeeps ==
    ASSUME AccountsInv, NEW r \in AuthRequests, record2FAFailure(r) PROVE AccountsInv'
<1>1. PICK me \in AdminIds : me = request[r].who.id
  BY SecondFactor DEF record2FAFailure, IsAt
<1>2. /\ request[r].pc = "judge" /\ UNCHANGED <<redis, adminVars, sessionVars>>
      /\ guesses' = [guesses EXCEPT ![me] = @ + 1] /\ RequestSound(request[r])
  BY <1>1 DEF record2FAFailure, IsAt, AccountsInv, RowsKnown
<1>3. PICK n \in Nat, m \in Nat, k \in Nat, total \in Nat :
        /\ n = Cardinality(Locking(me)) /\ m = Cardinality(Judging(me))
        /\ k = MaxAttempts - 1 /\ total = Cardinality(AuthRequests) /\ n + m <= total
  <2>1. /\ Cardinality(Judging(me)) \in Nat /\ Cardinality(Locking(me)) \in Nat
        /\ Cardinality(AuthRequests) \in Nat
        /\ Cardinality(Judging(me)) + Cardinality(Locking(me)) <= Cardinality(AuthRequests)
    BY AtFacts
  <2>2. MaxAttempts - 1 \in Nat
    BY AccountsAssumption
  <2> QED BY <2>1, <2>2
<1>4. \A id \in AdminIds : Cardinality(Judging(id)) \in Nat /\ Cardinality(Judging(id)') \in Nat
  <2>1. \A id \in AdminIds : Cardinality(Judging(id)) \in Nat
    BY AtFacts
  <2>2. \A id \in AdminIds : IsFiniteSet(Judging(id)')
    <3>1. \A id \in AdminIds : Judging(id)' \subseteq AuthRequests
      BY DEF Judging
    <3> QED BY <3>1, FS_Subset, AccountsAssumption
  <2> QED BY <2>1, <2>2, FS_CardinalityType
<1>5. /\ tries \in [AdminIds -> Nat] /\ guesses \in [AdminIds -> Nat] /\ locked \subseteq AdminIds
      /\ tries[me] <= k + n
      /\ me \notin locked => guesses[me] <= tries[me]
      /\ me \in locked => guesses[me] + m <= k + total
      /\ redis \in BOOLEAN /\ (~redis => Locking(me) = {})
  BY <1>3 DEF AccountsInv, GuessesSound
<1>6. ASSUME NEW g, Goes(r, g), RequestSound(g), g.pc # "judge"
      PROVE  /\ RowsKnown'
             /\ \A id \in AdminIds : Cardinality(Judging(id)') <= Cardinality(Judging(id))
             /\ Cardinality(Judging(me)') = m - 1
             /\ g.pc # "lock" => \A id \in AdminIds : Locking(id)' = Locking(id)
             /\ g.pc = "lock" /\ g.who = request[r].who =>
                  /\ \A id \in AdminIds \ {me} : Locking(id)' = Locking(id)
                  /\ Cardinality(Locking(me)') = n + 1
  <2>1. /\ \A q \in AuthRequests : request'[q] = request[q] \/ RequestSound(request'[q])
        /\ request' \in [AuthRequests -> AnyRequest]
        /\ \A id \in AdminIds : Cardinality(Judging(id)') <= Cardinality(Judging(id))
        /\ Cardinality(Judging(me)') = Cardinality(Judging(me)) - 1
        /\ g.pc # "lock" => \A id \in AdminIds : Locking(id)' = Locking(id)
        /\ g.pc = "lock" /\ g.who = request[r].who =>
             /\ \A id \in AdminIds \ {me} : Locking(id)' = Locking(id)
             /\ Cardinality(Locking(me)') = Cardinality(Locking(me)) + 1
    BY <1>1, <1>2, <1>6, Leaves
  <2>2. RowsKnown'
    BY <1>2, <2>1, HoldsOn
  <2> QED BY <1>3, <2>1, <2>2
<1>7. guesses' \in [AdminIds -> Nat] /\ guesses'[me] = guesses[me] + 1
      /\ \A id \in AdminIds \ {me} : guesses'[id] = guesses[id]
  BY <1>2, <1>5
\* The others stay as they are.
<1>8. ASSUME NEW id \in AdminIds \ {me}, locked \subseteq locked', locked' \subseteq locked \cup {me},
             tries'[id] = tries[id], Locking(id)' = Locking(id),
             Cardinality(Judging(id)') <= Cardinality(Judging(id))
      PROVE  /\ tries'[id] <= MaxAttempts - 1 + Cardinality(Locking(id)')
             /\ id \notin locked' => guesses'[id] <= tries'[id]
             /\ id \in locked' =>
                  guesses'[id] + Cardinality(Judging(id)') <= MaxAttempts - 1 + Cardinality(AuthRequests)
  <2>1. /\ tries[id] <= MaxAttempts - 1 + Cardinality(Locking(id))
        /\ id \notin locked => guesses[id] <= tries[id]
        /\ id \in locked =>
             guesses[id] + Cardinality(Judging(id)) <= MaxAttempts - 1 + Cardinality(AuthRequests)
    BY DEF AccountsInv, GuessesSound
  <2>2. guesses'[id] = guesses[id] /\ (id \in locked' <=> id \in locked)
    BY <1>7, <1>8
  <2>3. /\ guesses[id] \in Nat /\ Cardinality(Judging(id)) \in Nat /\ Cardinality(Judging(id)') \in Nat
        /\ MaxAttempts \in Nat /\ Cardinality(AuthRequests) \in Nat
    BY <1>3, <1>4, <1>5, AccountsAssumption
  <2>4. id \in locked' =>
          guesses'[id] + Cardinality(Judging(id)') <= MaxAttempts - 1 + Cardinality(AuthRequests)
    BY <1>8, <2>1, <2>2, <2>3
  <2> QED BY <1>8, <2>1, <2>2, <2>4
<1>9. CASE tries[me] + 1 < MaxAttempts
  <2>1. tries' = [tries EXCEPT ![me] = @ + 1] /\ Goes(r, NoRequest) /\ locked' = locked
    BY <1>1, <1>9 DEF record2FAFailure, Answers
  <2>2. /\ RowsKnown' /\ \A id \in AdminIds : Cardinality(Judging(id)') <= Cardinality(Judging(id))
        /\ Cardinality(Judging(me)') = m - 1 /\ \A id \in AdminIds : Locking(id)' = Locking(id)
    BY <1>6, <2>1, NoRequestSound
  <2>3. /\ tries' \in [AdminIds -> Nat] /\ tries'[me] = tries[me] + 1
        /\ \A id \in AdminIds \ {me} : tries'[id] = tries[id]
    BY <1>5, <2>1
  <2>4. /\ tries'[me] <= k + n
        /\ me \notin locked' => guesses'[me] <= tries'[me]
        /\ me \in locked' => guesses'[me] + (m - 1) <= k + total
    BY <1>3, <1>5, <1>7, <1>9, <2>1, <2>3, AccountsAssumption
  <2>5. \A id \in AdminIds :
          /\ tries'[id] <= MaxAttempts - 1 + Cardinality(Locking(id)')
          /\ id \notin locked' => guesses'[id] <= tries'[id]
          /\ id \in locked' =>
               guesses'[id] + Cardinality(Judging(id)') <= MaxAttempts - 1 + Cardinality(AuthRequests)
    BY <1>3, <1>8, <2>1, <2>2, <2>3, <2>4
  <2>6. GuessesSound'
    BY <1>2, <1>5, <1>7, <2>1, <2>2, <2>3, <2>5 DEF AccountsInv, GuessesSound
  <2> QED BY <2>2, <2>6 DEF AccountsInv
<1>10. CASE ~(tries[me] + 1 < MaxAttempts) /\ redis
  <2> DEFINE g == [request[r] EXCEPT !.pc = "lock"]
  <2>1. tries' = [tries EXCEPT ![me] = @ + 1] /\ Goes(r, g) /\ locked' = locked
    BY <1>1, <1>10 DEF record2FAFailure
  <2>2. RequestSound(g) /\ g.pc = "lock" /\ g.who = request[r].who
    BY <1>2, StageOnly
  <2> HIDE DEF g
  <2>3. /\ RowsKnown' /\ \A id \in AdminIds : Cardinality(Judging(id)') <= Cardinality(Judging(id))
        /\ Cardinality(Judging(me)') = m - 1
        /\ \A id \in AdminIds \ {me} : Locking(id)' = Locking(id)
        /\ Cardinality(Locking(me)') = n + 1
    BY <1>6, <2>1, <2>2
  <2>4. /\ tries' \in [AdminIds -> Nat] /\ tries'[me] = tries[me] + 1
        /\ \A id \in AdminIds \ {me} : tries'[id] = tries[id]
    BY <1>5, <2>1
  <2>5. /\ tries'[me] <= k + (n + 1)
        /\ me \notin locked' => guesses'[me] <= tries'[me]
        /\ me \in locked' => guesses'[me] + (m - 1) <= k + total
    BY <1>3, <1>5, <1>7, <2>1, <2>4
  <2>6. \A id \in AdminIds :
          /\ tries'[id] <= MaxAttempts - 1 + Cardinality(Locking(id)')
          /\ id \notin locked' => guesses'[id] <= tries'[id]
          /\ id \in locked' =>
               guesses'[id] + Cardinality(Judging(id)') <= MaxAttempts - 1 + Cardinality(AuthRequests)
    BY <1>3, <1>8, <2>1, <2>3, <2>4, <2>5
  <2>7. GuessesSound'
    BY <1>2, <1>5, <1>7, <1>10, <2>1, <2>4, <2>6 DEF GuessesSound
  <2> QED BY <2>3, <2>7 DEF AccountsInv
<1>11. CASE ~(tries[me] + 1 < MaxAttempts) /\ ~redis
  <2>1. tries' = [tries EXCEPT ![me] = 0] /\ Goes(r, NoRequest) /\ locked' = locked \cup {me}
    BY <1>1, <1>11 DEF record2FAFailure, Answers, Locks
  <2>2. /\ RowsKnown' /\ \A id \in AdminIds : Cardinality(Judging(id)') <= Cardinality(Judging(id))
        /\ Cardinality(Judging(me)') = m - 1 /\ \A id \in AdminIds : Locking(id)' = Locking(id)
    BY <1>6, <2>1, NoRequestSound
  <2>3. /\ tries' \in [AdminIds -> Nat] /\ tries'[me] = 0
        /\ \A id \in AdminIds \ {me} : tries'[id] = tries[id]
    BY <1>5, <2>1
  <2>4. n = 0
    BY <1>3, <1>5, <1>11, FS_EmptySet
  <2>5. tries'[me] <= k + n /\ guesses'[me] + (m - 1) <= k + total
    BY <1>3, <1>5, <1>7, <2>3, <2>4
  <2>6. \A id \in AdminIds :
          /\ tries'[id] <= MaxAttempts - 1 + Cardinality(Locking(id)')
          /\ id \notin locked' => guesses'[id] <= tries'[id]
          /\ id \in locked' =>
               guesses'[id] + Cardinality(Judging(id)') <= MaxAttempts - 1 + Cardinality(AuthRequests)
    BY <1>3, <1>8, <2>1, <2>2, <2>3, <2>5
  <2>7. ~redis' => \A id \in AdminIds : Locking(id)' = {}
    BY <1>2, <2>2 DEF AccountsInv, GuessesSound
  <2>8. GuessesSound'
    BY <1>2, <1>5, <1>7, <2>1, <2>3, <2>6, <2>7 DEF GuessesSound
  <2> QED BY <2>2, <2>8 DEF AccountsInv
<1> QED BY <1>5, <1>9, <1>10, <1>11

\* Any step that resets what an account has guessed, and unlocks it.
LEMMA ResetKeeps ==
    ASSUME AccountsInv, UNCHANGED redis, RowsKnown', NEW me \in AdminIds,
           guesses' = [guesses EXCEPT ![me] = 0], locked' = locked \ {me},
           tries' \in [AdminIds -> Nat], \A id \in AdminIds : tries'[id] <= tries[id],
           \A id \in AdminIds \ {me} : tries'[id] = tries[id],
           \A id \in AdminIds : Locking(id)' = Locking(id),
           \A id \in AdminIds : Cardinality(Judging(id)') <= Cardinality(Judging(id))
    PROVE  AccountsInv'
<1>1. /\ tries \in [AdminIds -> Nat] /\ guesses \in [AdminIds -> Nat] /\ locked \subseteq AdminIds
      /\ redis \in BOOLEAN
  BY DEF AccountsInv, GuessesSound
<1>2. /\ guesses' \in [AdminIds -> Nat] /\ guesses'[me] = 0
      /\ \A id \in AdminIds \ {me} : guesses'[id] = guesses[id]
  BY <1>1
<1>3. \A id \in AdminIds : Cardinality(Judging(id)) \in Nat /\ Cardinality(Locking(id)) \in Nat
  BY AtFacts
<1>4. \A id \in AdminIds : Cardinality(Judging(id)') \in Nat
  <2>1. \A id \in AdminIds : IsFiniteSet(Judging(id)')
    <3>1. \A id \in AdminIds : Judging(id)' \subseteq AuthRequests
      BY DEF Judging
    <3> QED BY <3>1, FS_Subset, AccountsAssumption
  <2> QED BY <2>1, FS_CardinalityType
<1>5. ASSUME NEW id \in AdminIds
      PROVE  /\ tries'[id] <= MaxAttempts - 1 + Cardinality(Locking(id)')
             /\ id \notin locked' => guesses'[id] <= tries'[id]
             /\ id \in locked' =>
                  guesses'[id] + Cardinality(Judging(id)') <= MaxAttempts - 1 + Cardinality(AuthRequests)
  <2>1. /\ tries[id] <= MaxAttempts - 1 + Cardinality(Locking(id))
        /\ id \notin locked => guesses[id] <= tries[id]
        /\ id \in locked =>
             guesses[id] + Cardinality(Judging(id)) <= MaxAttempts - 1 + Cardinality(AuthRequests)
    BY DEF AccountsInv, GuessesSound
  <2>2. /\ MaxAttempts - 1 \in Int /\ Cardinality(AuthRequests) \in Nat
        /\ tries'[id] \in Nat /\ tries[id] \in Nat /\ guesses[id] \in Nat
    BY <1>1, AtFacts, AccountsAssumption
  <2>3. tries'[id] <= MaxAttempts - 1 + Cardinality(Locking(id)')
    <3>1. Locking(id)' = Locking(id) /\ tries'[id] <= tries[id]
      OBVIOUS
    <3> QED BY <1>3, <2>1, <2>2, <3>1
  <2>4. CASE id = me
    BY <1>2, <2>2, <2>3, <2>4
  <2>5. CASE id # me
    <3>1. guesses'[id] = guesses[id] /\ tries'[id] = tries[id] /\ (id \in locked' <=> id \in locked)
      BY <1>2, <2>5
    <3>2. Cardinality(Judging(id)') <= Cardinality(Judging(id))
      OBVIOUS
    <3>3. id \in locked' =>
            guesses'[id] + Cardinality(Judging(id)') <= MaxAttempts - 1 + Cardinality(AuthRequests)
      BY <1>3, <1>4, <2>1, <2>2, <3>1, <3>2
    <3> QED BY <2>1, <2>3, <3>1, <3>3
  <2> QED BY <2>4, <2>5
<1>6. GuessesSound'
  BY <1>1, <1>2, <1>5 DEF AccountsInv, GuessesSound
<1> QED BY <1>6 DEF AccountsInv

LEMMA ClearKeeps ==
    ASSUME AccountsInv, NEW r \in AuthRequests, clear2FAAttempts(r) PROVE AccountsInv'
<1>1. PICK me \in AdminIds : me = request[r].who.id
  BY SecondFactor DEF clear2FAAttempts, IsAt
<1>2. /\ request[r].pc = "judge" /\ UNCHANGED <<redis, adminVars, sessionVars>>
      /\ guesses' = [guesses EXCEPT ![me] = 0] /\ locked' = locked \ {me}
      /\ tries' = [tries EXCEPT ![me] = 0] /\ RequestSound(request[r])
  BY <1>1 DEF clear2FAAttempts, IsAt, AccountsInv, RowsKnown
<1>3. PICK pc \in {"drop", "count"} : Goes(r, [request[r] EXCEPT !.pc = pc])
  BY DEF clear2FAAttempts
<1> DEFINE g == [request[r] EXCEPT !.pc = pc]
<1>4. RequestSound(g) /\ g.pc = pc
  <2>1. /\ RequestSound([request[r] EXCEPT !.pc = "drop"])
        /\ [request[r] EXCEPT !.pc = "drop"].pc = "drop"
    BY <1>2, StageOnly
  <2>2. /\ RequestSound([request[r] EXCEPT !.pc = "count"])
        /\ [request[r] EXCEPT !.pc = "count"].pc = "count"
    BY <1>2, StageOnly
  <2> QED BY <2>1, <2>2
<1>5. Goes(r, g)
  BY <1>3
<1> HIDE DEF g
<1>6. /\ \A q \in AuthRequests : request'[q] = request[q] \/ RequestSound(request'[q])
      /\ request' \in [AuthRequests -> AnyRequest]
      /\ \A id \in AdminIds : Cardinality(Judging(id)') <= Cardinality(Judging(id))
      /\ \A id \in AdminIds : Locking(id)' = Locking(id)
  BY <1>1, <1>2, <1>4, <1>5, Leaves
<1>7. RowsKnown'
  BY <1>2, <1>6, HoldsOn
<1>8. /\ tries' \in [AdminIds -> Nat] /\ \A id \in AdminIds : tries'[id] <= tries[id]
      /\ \A id \in AdminIds \ {me} : tries'[id] = tries[id]
  BY <1>2 DEF AccountsInv, GuessesSound
<1> QED BY <1>2, <1>6, <1>7, <1>8, ResetKeeps

LEMMA SetLockKeeps ==
    ASSUME AccountsInv, NEW r \in AuthRequests, SetLock(r) PROVE AccountsInv'
<1>1. PICK me \in AdminIds : me = request[r].who.id
  BY SecondFactor DEF SetLock, IsAt
<1>2. /\ request[r].pc = "lock" /\ UNCHANGED <<redis, adminVars, sessionVars, guesses>>
      /\ tries' = [tries EXCEPT ![me] = 0] /\ locked' = locked \cup {me} /\ Goes(r, NoRequest)
  BY <1>1 DEF SetLock, IsAt, Locks, Answers
<1>3. PICK n \in Nat, m \in Nat, k \in Nat, total \in Nat :
        /\ n = Cardinality(Locking(me)) /\ m = Cardinality(Judging(me))
        /\ k = MaxAttempts - 1 /\ total = Cardinality(AuthRequests) /\ n + m <= total
  <2>1. /\ Cardinality(Judging(me)) \in Nat /\ Cardinality(Locking(me)) \in Nat
        /\ Cardinality(AuthRequests) \in Nat
        /\ Cardinality(Judging(me)) + Cardinality(Locking(me)) <= Cardinality(AuthRequests)
    BY AtFacts
  <2>2. MaxAttempts - 1 \in Nat
    BY AccountsAssumption
  <2> QED BY <2>1, <2>2
<1>4. /\ tries \in [AdminIds -> Nat] /\ guesses \in [AdminIds -> Nat] /\ locked \subseteq AdminIds
      /\ tries[me] <= k + n
      /\ me \notin locked => guesses[me] <= tries[me]
      /\ me \in locked => guesses[me] + m <= k + total
      /\ redis \in BOOLEAN
  BY <1>3 DEF AccountsInv, GuessesSound
<1>5. /\ \A q \in AuthRequests : request'[q] = request[q] \/ RequestSound(request'[q])
      /\ request' \in [AuthRequests -> AnyRequest]
      /\ \A id \in AdminIds : Judging(id)' = Judging(id)
      /\ \A id \in AdminIds \ {me} : Locking(id)' = Locking(id)
  BY <1>1, <1>2, NoRequestSound, Leaves
<1>6. RowsKnown'
  <2>1. UNCHANGED <<adminVars, sessionVars>>
    BY <1>2
  <2> QED BY <1>5, <2>1, HoldsOn
<1>7. redis
  <2>1. r \in Locking(me)
    BY <1>1, <1>2 DEF Locking, IsAt
  <2> QED BY <2>1 DEF AccountsInv, GuessesSound
<1>8. /\ tries' \in [AdminIds -> Nat] /\ tries'[me] = 0 /\ me \in locked'
      /\ \A id \in AdminIds \ {me} : tries'[id] = tries[id]
  BY <1>2, <1>4
<1>9. guesses[me] + m <= k + total
  BY <1>3, <1>4
<1>10. Cardinality(Locking(me)') \in Nat
  <2>1. Locking(me)' \subseteq AuthRequests
    BY DEF Locking
  <2> QED BY <2>1, FS_Subset, FS_CardinalityType, AccountsAssumption
<1>11. tries'[me] <= MaxAttempts - 1 + Cardinality(Locking(me)')
  <2>1. MaxAttempts - 1 \in Nat
    BY AccountsAssumption
  <2> QED BY <1>8, <1>10, <2>1
<1>12. \A id \in AdminIds :
          /\ tries'[id] <= MaxAttempts - 1 + Cardinality(Locking(id)')
          /\ id \notin locked' => guesses'[id] <= tries'[id]
          /\ id \in locked' =>
               guesses'[id] + Cardinality(Judging(id)') <= MaxAttempts - 1 + Cardinality(AuthRequests)
  <2> SUFFICES ASSUME NEW id \in AdminIds
               PROVE  /\ tries'[id] <= MaxAttempts - 1 + Cardinality(Locking(id)')
                      /\ id \notin locked' => guesses'[id] <= tries'[id]
                      /\ id \in locked' =>
                           guesses'[id] + Cardinality(Judging(id)')
                             <= MaxAttempts - 1 + Cardinality(AuthRequests)
    OBVIOUS
  <2>1. CASE id = me
    BY <1>2, <1>3, <1>5, <1>8, <1>9, <1>11, <2>1
  <2>2. CASE id # me
    <3>1. /\ tries[id] <= MaxAttempts - 1 + Cardinality(Locking(id))
          /\ id \notin locked => guesses[id] <= tries[id]
          /\ id \in locked =>
               guesses[id] + Cardinality(Judging(id)) <= MaxAttempts - 1 + Cardinality(AuthRequests)
      BY DEF AccountsInv, GuessesSound
    <3> QED BY <1>2, <1>5, <1>8, <2>2, <3>1
  <2> QED BY <2>1, <2>2
<1>13. GuessesSound'
  BY <1>2, <1>4, <1>7, <1>8, <1>12 DEF GuessesSound
<1> QED BY <1>6, <1>13 DEF AccountsInv

LEMMA TimeKeeps == ASSUME AccountsInv, SessionEnds \/ LockEnds \/ CountEnds PROVE AccountsInv'
<1>1. UNCHANGED <<redis, admins, lastAdmin, request, lastSession>>
  BY DEF SessionEnds, LockEnds, CountEnds, Lapses, adminVars, sessionVars
<1>2. /\ \A id \in AdminIds : Locking(id)' = Locking(id) /\ Judging(id)' = Judging(id)
      /\ \A id \in AdminIds : Cardinality(Judging(id)) \in Nat
  <2>1. \A id \in AdminIds : Locking(id)' = Locking(id) /\ Judging(id)' = Judging(id)
    BY <1>1 DEF Locking, Judging, IsAt
  <2> QED BY <2>1, AtFacts
<1>3. tries \in [AdminIds -> Nat] /\ locked \subseteq AdminIds
  BY DEF AccountsInv, GuessesSound
<1>4. CASE SessionEnds
  <2>1. sessions' \subseteq sessions /\ UNCHANGED codeVars
    BY <1>4 DEF SessionEnds
  <2>2. IsFiniteSet(sessions') /\ \A s \in sessions' : s.token \in Nat
    BY <2>1, FS_Subset DEF AccountsInv, RowsKnown
  <2>3. RowsKnown'
    BY <1>1, <2>2 DEF AccountsInv, RowsKnown
  <2>4. GuessesSound'
    BY <1>1, <1>2, <2>1 DEF AccountsInv, GuessesSound, codeVars
  <2> QED BY <2>3, <2>4 DEF AccountsInv
<1>5. CASE LockEnds \/ CountEnds
  <2>1. UNCHANGED sessions
    BY <1>5 DEF LockEnds, CountEnds, sessionVars
  <2>2. RowsKnown'
    BY <1>1, <2>1 DEF AccountsInv, RowsKnown
  <2>3. PICK me \in AdminIds :
          /\ guesses' = [guesses EXCEPT ![me] = 0] /\ locked' = locked \ {me}
          /\ tries' = [tries EXCEPT ![me] = 0] \/ tries' = [tries EXCEPT ![me] = tries[me]]
    <3>1. CASE LockEnds
      <4>1. PICK me \in locked :
              /\ locked' = locked \ {me}
              /\ tries' = [tries EXCEPT ![me] = IF redis THEN @ ELSE 0]
              /\ guesses' = [guesses EXCEPT ![me] = 0]
        BY <3>1 DEF LockEnds
      <4> QED BY <1>3, <4>1
    <3>2. CASE CountEnds
      BY <3>2 DEF CountEnds
    <3> QED BY <1>5, <3>1, <3>2
  <2>4. /\ tries' \in [AdminIds -> Nat] /\ \A id \in AdminIds : tries'[id] <= tries[id]
        /\ \A id \in AdminIds \ {me} : tries'[id] = tries[id]
    BY <1>3, <2>3
  <2>5. \A id \in AdminIds : Cardinality(Judging(id)') <= Cardinality(Judging(id))
    BY <1>2
  <2> QED BY <1>1, <1>2, <2>2, <2>3, <2>4, <2>5, ResetKeeps
<1> QED BY <1>4, <1>5

LEMMA AccountsInvStep == AccountsInv /\ [AccountsNext]_accountVars => AccountsInv'
<1> SUFFICES ASSUME AccountsInv, [AccountsNext]_accountVars PROVE AccountsInv'
  OBVIOUS
<1>1. ASSUME NEW r \in AuthRequests, Handles(r) PROVE AccountsInv'
  BY <1>1, RequestsBegin, LockChecked, FailureKeeps, SetLockKeeps, ClearKeeps, SessionsKeep,
     OwnSettingsKeep, UsersKeep, AdminsKeep DEF Handles
<1>2. CASE UNCHANGED accountVars
  <2>1. UNCHANGED <<redis, admins, lastAdmin, sessions, lastSession, request, tries, locked, guesses>>
    BY <1>2 DEF accountVars, codeVars, adminVars, sessionVars
  <2>2. RowsKnown'
    BY <2>1 DEF AccountsInv, RowsKnown
  <2>3. \A id \in AdminIds : Locking(id)' = Locking(id) /\ Judging(id)' = Judging(id)
    BY <2>1 DEF Locking, Judging, IsAt
  <2>4. GuessesSound'
    BY <2>1, <2>3 DEF AccountsInv, GuessesSound
  <2> QED BY <2>2, <2>4 DEF AccountsInv
<1> QED BY <1>1, <1>2, TimeKeeps DEF AccountsNext

LEMMA AccountsInvInit == AccountsInit => AccountsInv
<1> SUFFICES ASSUME AccountsInit PROVE AccountsInv
  OBVIOUS
<1>1. PICK n \in 0..MaxAdmins, second \in BOOLEAN, e \in [AdminIds -> AdminEmails] :
        /\ admins = {[id |-> i, email |-> e[i], super |-> TRUE,
                      secret |-> second, enabled |-> second] : i \in 1..n}
        /\ sessions = {[token |-> i, admin |-> i, kind |-> "full"] : i \in 1..n}
        /\ lastAdmin = n /\ lastSession = n
        /\ tries \in [AdminIds -> IF second THEN {0, MaxAttempts - 1} ELSE {0}]
  BY DEF AccountsInit
<1>2. MaxAdmins \in Nat /\ n \in Nat /\ \A i \in 1..n : i \in AdminIds
  BY AccountsAssumption DEF AdminIds
<1>3. admins \subseteq AdminRows
  <2> SUFFICES ASSUME NEW i \in 1..n
               PROVE  [id |-> i, email |-> e[i], super |-> TRUE, secret |-> second,
                       enabled |-> second] \in AdminRows
    BY <1>1
  <2> QED BY <1>2 DEF AdminRows
<1>4. IsFiniteSet(sessions) /\ \A s \in sessions : s.token \in Nat
  <2> DEFINE f == [i \in 1..n |-> [token |-> i, admin |-> i, kind |-> "full"]]
  <2>1. f \in Surjection(1..n, sessions)
    BY <1>1 DEF Surjection
  <2>2. IsFiniteSet(sessions)
    BY <1>2, <2>1, FS_NatSurjection DEF ExistsSurjection
  <2> QED BY <1>1, <1>2, <2>2
<1>5. request = [r \in AuthRequests |-> NoRequest] /\ NoRequest \in AnyRequest
  BY NoRequestSound DEF AccountsInit, RequestSound
<1>6. RowsKnown
  BY <1>1, <1>2, <1>3, <1>4, <1>5, NoRequestSound DEF RowsKnown
<1>7. /\ tries \in [AdminIds -> Nat] /\ \A id \in AdminIds : tries[id] <= MaxAttempts - 1
  BY <1>1, AccountsAssumption
<1>8. guesses = tries /\ locked = {} /\ redis \in BOOLEAN
  BY DEF AccountsInit
<1>9. \A id \in AdminIds : Locking(id) = {} /\ Cardinality(Locking(id)) = 0
  <2>1. \A id \in AdminIds : Locking(id) = {}
    BY <1>5, NoRequestSound DEF Locking, IsAt
  <2> QED BY <2>1, FS_EmptySet
<1>10. GuessesSound
  <2>1. \A id \in AdminIds : tries[id] <= MaxAttempts - 1 + Cardinality(Locking(id)) /\ guesses[id] <= tries[id]
    BY <1>7, <1>8, <1>9, AccountsAssumption
  <2> QED BY <1>7, <1>8, <1>9, <2>1 DEF GuessesSound
<1> QED BY <1>6, <1>10 DEF AccountsInv

(***************************************************************************)
(* The guesses at a second factor stay below the limit and the requests    *)
(* under way, for any number of accounts, sessions, requests, lockouts,    *)
(* lapses of Redis and resets: the lock is looked at before a code is      *)
(* judged and set after it was counted (auth.go:160, :181).                *)
(***************************************************************************)
THEOREM GuessesAlwaysBounded == AccountsSpec => []GuessesBounded
<1>1. ASSUME AccountsInv PROVE GuessesBounded
  <2> SUFFICES ASSUME NEW id \in AdminIds
               PROVE  guesses[id] < MaxAttempts + Cardinality(AuthRequests)
    BY DEF GuessesBounded
  <2>1. /\ Cardinality(Judging(id)) \in Nat /\ Cardinality(Locking(id)) \in Nat
        /\ Cardinality(AuthRequests) \in Nat
        /\ Cardinality(Judging(id)) + Cardinality(Locking(id)) <= Cardinality(AuthRequests)
    BY AtFacts
  <2>2. /\ guesses[id] \in Nat /\ tries[id] \in Nat
        /\ tries[id] <= MaxAttempts - 1 + Cardinality(Locking(id))
        /\ id \notin locked => guesses[id] <= tries[id]
        /\ id \in locked =>
             guesses[id] + Cardinality(Judging(id)) <= MaxAttempts - 1 + Cardinality(AuthRequests)
    BY <1>1 DEF AccountsInv, GuessesSound
  <2> QED BY <2>1, <2>2, AccountsAssumption
<1> QED BY <1>1, AccountsInvInit, AccountsInvStep, PTL DEF AccountsSpec

LEMMA LeavingSuper ==
    ASSUME AccountsInv, NEW r \in AuthRequests, UpdateAdmin(r) \/ DeleteAdmin(r),
           Supers # {}, Supers' = {}, request[r].seen,
           NEW b \in Supers, b.id = request[r].who.id
    PROVE  FALSE
<1>1. PICK x \in AnyRequest : x = request[r] /\ RequestSound(x)
  BY DEF AccountsInv, RowsKnown, RequestSound
<1>2. b \in admins /\ b.super /\ b.id = x.who.id /\ x.seen
  BY <1>1 DEF Supers
<1>3. ~\E a \in admins' : a.super
  BY DEF Supers
<1>4. CASE UpdateAdmin(r)
  <2>1. x.pc = "save"
    BY <1>1, <1>4 DEF UpdateAdmin, IsAt
  <2>2. admins' = admins \/ admins' = {a \in admins : a.id # x.row.id} \cup {x.row}
    BY <1>1, <1>4 DEF UpdateAdmin
  <2>3. ~x.row.super
    BY <1>2, <1>3, <2>2
  <2>4. x.row.id # x.who.id
    BY <1>1, <1>2, <2>1, <2>3 DEF RequestSound
  <2>5. b \in admins'
    BY <1>2, <2>2, <2>4
  <2> QED BY <1>2, <1>3, <2>5
<1>5. CASE DeleteAdmin(r)
  <2>1. x.pc = "delete" /\ x.aim # 0 /\ admins' = {a \in admins : a.id # x.aim}
    BY <1>1, <1>5 DEF DeleteAdmin, IsAt
  <2>2. x.aim # x.who.id
    BY <1>1, <2>1 DEF RequestSound
  <2> QED BY <1>2, <1>3, <2>1, <2>2
<1> QED BY <1>4, <1>5

(***************************************************************************)
(* The last super administrator is demoted or deleted only by a request    *)
(* that acts on what it has read before: UpdateUser and DeleteUser refuse  *)
(* a caller that would do so to itself (users_handler.go), and no other    *)
(* handler takes the role away.                                            *)
(***************************************************************************)
THEOREM AdministratorAlwaysKept == AccountsSpec => AdministratorKept
<1> DEFINE Kept ==
      Supers # {} /\ Supers' = {} =>
        \E r \in AuthRequests :
            /\ request[r].pc \in {"save", "delete"} /\ request'[r] # request[r]
            /\ \/ request[r].who.id \notin {a.id : a \in Supers}
               \/ ~request[r].seen
<1>1. ASSUME AccountsInv, AccountsNext PROVE Kept
  <2> SUFFICES ASSUME Supers # {}, Supers' = {}
               PROVE  \E r \in AuthRequests :
                        /\ request[r].pc \in {"save", "delete"} /\ request'[r] # request[r]
                        /\ \/ request[r].who.id \notin {a.id : a \in Supers}
                           \/ ~request[r].seen
    OBVIOUS
  <2>1. ~(admins \subseteq admins')
    BY DEF Supers
  <2>2. PICK r \in AuthRequests : Handles(r)
    BY <1>1, <2>1 DEF AccountsNext, SessionEnds, LockEnds, CountEnds, Lapses, adminVars
  <2>3. UpdateAdmin(r) \/ DeleteAdmin(r)
    <3>1. CASE Register(r) \/ Login(r) \/ Verify2FA(r) \/ authMiddleware(r) \/ check2FALocked(r)
               \/ record2FAFailure(r) \/ SetLock(r) \/ clear2FAAttempts(r)
      BY <2>1, <3>1 DEF Register, Login, Verify2FA, authMiddleware, check2FALocked, record2FAFailure,
                        SetLock, clear2FAAttempts, adminVars
    <3>2. CASE DeleteSession(r) \/ CountSessions(r) \/ CreateSession(r) \/ handleLogout(r) \/ OwnSettings(r)
      BY <2>1, <3>2 DEF DeleteSession, CountSessions, CreateSession, handleLogout, OwnSettings, adminVars
    <3>3. CASE CreateUser(r) \/ UpdateUser(r) \/ DeleteUser(r) \/ AssignUserToOrg(r) \/ RemoveUserFromOrg(r)
      BY <2>1, <3>3 DEF CreateUser, UpdateUser, DeleteUser, AssignUserToOrg, RemoveUserFromOrg, adminVars
    <3>4. CASE CreateAdmin(r)
      BY <2>1, <3>4 DEF CreateAdmin
    <3> QED BY <2>2, <3>1, <3>2, <3>3, <3>4 DEF Handles
  <2>4. request[r].pc \in {"save", "delete"} /\ request'[r] # request[r]
    <3>1. request[r].pc \in {"save", "delete"} /\ request' = [request EXCEPT ![r] = NoRequest]
      BY <2>3 DEF UpdateAdmin, DeleteAdmin, IsAt, Answers, Goes
    <3>2. request'[r] = NoRequest
      BY <1>1, <3>1 DEF AccountsInv, RowsKnown
    <3> QED BY <3>1, <3>2, NoRequestSound
  <2>5. request[r].who.id \notin {a.id : a \in Supers} \/ ~request[r].seen
    BY <1>1, <2>3, LeavingSuper
  <2> QED BY <2>4, <2>5
<1>2. AccountsInv /\ [AccountsNext]_accountVars => [Kept]_accountVars
  BY <1>1
<1> QED BY <1>2, AccountsInvInit, AccountsInvStep, PTL DEF AccountsSpec, AdministratorKept

-----------------------------------------------------------------------------
(* MTAPolicy *)

Applying == {"load", "write", "validate", "restart"}
Files == {"sources", "queues", "listener", "dkim", "auth", "init"}

\* What a file says of an address is true of the sender that has the name.
FilesTrue(policy) ==
    /\ \A q \in policy.queues : q.pool = q.tenant
    /\ \A s \in policy.sources : \E p \in Parts : s.name = SourceName(p) /\ s.ip \in had[p]

\* So is what the rows and the snapshots say, which the files are written from.
SendersTrue(rows) == \A p \in Parts : rows[p].exists => rows[p].ip \in had[p]

AddressesTrue ==
    /\ had = [p \in Parts |-> had[p]]
    /\ FilesTrue(files) /\ FilesTrue(running) /\ SendersTrue(senders)
    /\ apply = [a \in Appliers |-> apply[a]]
    /\ \A a \in Appliers : SendersTrue(apply[a].senders)

Rows == [senders |-> senders, listen |-> listen]

\* Of an apply that is alone: the others rest, its snapshot is what the rows say, and the
\* files that it has been through are written from it.
Alone(a) ==
    /\ \A b \in Appliers \ {a} : apply[b].pc \notin Applying
    /\ apply[a].pc \in Applying => apply[a].listen = listen
    /\ apply[a].pc \in {"write", "validate", "restart"} => apply[a].senders = senders
    /\ apply[a].pc = "write" =>
         \A k \in 1..(apply[a].file - 1) : files[FileOrder[k]] = Generated(Rows)[FileOrder[k]]
    /\ apply[a].pc \in {"validate", "restart", "done"} => files = Generated(Rows)
    /\ apply[a].pc = "done" => running = Generated(Rows)

ApplySound ==
    /\ files = [f \in Files |-> files[f]]
    /\ \A a \in Appliers :
        /\ apply[a] = [pc |-> apply[a].pc, senders |-> apply[a].senders,
                       listen |-> apply[a].listen, file |-> apply[a].file]
        /\ apply[a].file \in 1..6
        /\ apply[a].pc = "load" => apply[a].file = 1
    /\ \A a \in Appliers : fresh[a] => Alone(a)

PolicyInv == AddressesTrue /\ ApplySound

LEMMA SnapshotAlone ==
    ASSUME NEW s, NEW t, s.senders = t.senders, s.listen = t.listen
    PROVE  Generated(s) = Generated(t)
<1>1. Snapped(s) = Snapped(t) /\ GenerateInitLua(s) = GenerateInitLua(t)
  BY DEF Snapped, GenerateInitLua
<1>2. GenerateSourcesTOML(s) = GenerateSourcesTOML(t)
  BY <1>1 DEF GenerateSourcesTOML
<1>3. GenerateQueuesTOML(s) = GenerateQueuesTOML(t)
  BY <1>1 DEF GenerateQueuesTOML
<1>4. GenerateDKIMDataTOML(s) = GenerateDKIMDataTOML(t)
  BY <1>1 DEF GenerateDKIMDataTOML
<1>5. GenerateAuthTOML(s) = GenerateAuthTOML(t)
  BY <1>1 DEF GenerateAuthTOML
<1>6. GenerateListenerDomainsTOML(s) = GenerateListenerDomainsTOML(t)
  BY DEF GenerateListenerDomainsTOML
<1> HIDE DEF Generated
<1> QED BY <1>1, <1>2, <1>3, <1>4, <1>5, <1>6 DEF Generated

\* What is generated from a snapshot that is true is true.
LEMMA GeneratedTrue ==
    ASSUME NEW s, SendersTrue(s.senders)
    PROVE  /\ FilesTrue(Generated(s))
           /\ Generated(s) = [f \in Files |-> Generated(s)[f]]
<1>1. \A q \in GenerateQueuesTOML(s) : q.pool = q.tenant
  BY DEF GenerateQueuesTOML
<1>2. ASSUME NEW x \in GenerateSourcesTOML(s)
      PROVE  \E p \in Parts : x.name = SourceName(p) /\ x.ip \in had[p]
  <2>1. PICK p \in Snapped(s) : x = [name |-> SourceName(p), ip |-> s.senders[p].ip]
    BY <1>2 DEF GenerateSourcesTOML
  <2>2. p \in Parts /\ s.senders[p].exists
    BY DEF Snapped
  <2>3. s.senders[p].ip \in had[p]
    BY <2>2 DEF SendersTrue
  <2> QED BY <2>1, <2>2, <2>3
<1>3. Generated(s).queues = GenerateQueuesTOML(s) /\ Generated(s).sources = GenerateSourcesTOML(s)
  BY DEF Generated
<1>4. FilesTrue(Generated(s))
  BY <1>1, <1>2, <1>3 DEF FilesTrue
<1>5. Generated(s) = [f \in Files |-> Generated(s)[f]]
  BY DEF Generated, Files
<1> QED BY <1>4, <1>5

LEMMA PolicyInvInit == PolicyInit => PolicyInv
<1> SUFFICES ASSUME PolicyInit PROVE PolicyInv
  OBVIOUS
<1> DEFINE none == [p \in Parts |-> NoSender]
           nothing == [senders |-> none, listen |-> <<>>]
<1>1. \A p \in Parts : ~none[p].exists
  BY DEF NoSender
<1>2. SendersTrue(none)
  BY <1>1 DEF SendersTrue
<1>3. FilesTrue(Empty) /\ Empty = [f \in Files |-> Empty[f]]
  <2>1. nothing.senders = none
    OBVIOUS
  <2> HIDE DEF none
  <2> HIDE DEF nothing
  <2>2. FilesTrue(Generated(nothing)) /\ Generated(nothing) = [f \in Files |-> Generated(nothing)[f]]
    BY <1>2, <2>1, GeneratedTrue
  <2> QED BY <2>2 DEF Empty, nothing, none
<1>4. /\ apply = [a \in Appliers |-> Idle] /\ files = Empty /\ running = Empty /\ senders = none
      /\ fresh = [a \in Appliers |-> FALSE] /\ had = [p \in Parts |-> {}]
  BY DEF PolicyInit
<1>5. Idle = [pc |-> "idle", senders |-> none, listen |-> <<>>, file |-> 1]
  BY DEF Idle
<1> HIDE DEF none
<1>6. AddressesTrue
  <2>1. FilesTrue(files) /\ FilesTrue(running) /\ SendersTrue(senders)
    BY <1>2, <1>3, <1>4
  <2>2. \A a \in Appliers : SendersTrue(apply[a].senders)
    BY <1>2, <1>4, <1>5
  <2>3. apply = [a \in Appliers |-> apply[a]] /\ had = [p \in Parts |-> had[p]]
    BY <1>4
  <2> QED BY <2>1, <2>2, <2>3 DEF AddressesTrue
<1>7. ApplySound
  <2>1. files = [f \in Files |-> files[f]]
    BY <1>3, <1>4
  <2>2. ASSUME NEW a \in Appliers
        PROVE  /\ apply[a] = [pc |-> apply[a].pc, senders |-> apply[a].senders,
                              listen |-> apply[a].listen, file |-> apply[a].file]
               /\ apply[a].file \in 1..6
               /\ apply[a].pc # "load" /\ ~fresh[a]
    BY <1>4, <1>5
  <2> QED BY <2>1, <2>2 DEF ApplySound
<1> QED BY <1>6, <1>7 DEF PolicyInv

\* The addresses that a sender has had are not forgotten, so what is true stays so.
LEMMA StaysTrue ==
    ASSUME NEW x, \A p \in Parts : had[p] \subseteq had'[p]
    PROVE  /\ FilesTrue(x) => FilesTrue(x)'
           /\ SendersTrue(x) => SendersTrue(x)'
<1>1. ASSUME FilesTrue(x) PROVE FilesTrue(x)'
  <2>1. \A q \in x.queues : q.pool = q.tenant
    BY <1>1 DEF FilesTrue
  <2>2. ASSUME NEW s \in x.sources PROVE \E p \in Parts : s.name = SourceName(p) /\ s.ip \in had'[p]
    <3>1. PICK p \in Parts : s.name = SourceName(p) /\ s.ip \in had[p]
      BY <1>1 DEF FilesTrue
    <3> QED BY <3>1
  <2>3. \A s \in x.sources : \E p \in Parts : s.name = SourceName(p) /\ s.ip \in had'[p]
    BY <2>2
  <2> QED BY <2>1, <2>3 DEF FilesTrue
<1>2. ASSUME SendersTrue(x) PROVE SendersTrue(x)'
  BY <1>2 DEF SendersTrue
<1> QED BY <1>1, <1>2

\* A step that only moves an applier, whose snapshot is then true.
LEMMA MovesTrue ==
    ASSUME AddressesTrue, NEW a \in Appliers, NEW step, SendersTrue(step.senders), Move(a, step),
           UNCHANGED <<senders, had>>, FilesTrue(files'), FilesTrue(running')
    PROVE  AddressesTrue'
<1>1. apply' = [b \in Appliers |-> IF b = a THEN step ELSE apply[b]]
  BY DEF Move, AddressesTrue
<1>2. \A b \in Appliers : SendersTrue(apply'[b].senders)
  BY <1>1 DEF AddressesTrue
<1>3. \A x : (FilesTrue(x) <=> FilesTrue(x)') /\ (SendersTrue(x) <=> SendersTrue(x)')
  BY DEF FilesTrue, SendersTrue
<1>4. FilesTrue(files)' /\ FilesTrue(running)' /\ SendersTrue(senders)'
  BY DEF AddressesTrue, FilesTrue, SendersTrue
<1>5. \A b \in Appliers : SendersTrue(apply[b].senders)'
  BY <1>2 DEF SendersTrue
<1>6. had' = [p \in Parts |-> had'[p]] /\ apply' = [b \in Appliers |-> apply'[b]]
  BY <1>1 DEF AddressesTrue
<1> QED BY <1>4, <1>5, <1>6 DEF AddressesTrue

LEMMA AddressesStep == PolicyInv /\ [PolicyNext]_policyVars => AddressesTrue'
<1> SUFFICES ASSUME AddressesTrue, ApplySound, [PolicyNext]_policyVars PROVE AddressesTrue'
  BY DEF PolicyInv
<1> USE DEF policyVars
<1>1. CASE UNCHANGED policyVars
  BY <1>1 DEF AddressesTrue, FilesTrue, SendersTrue
<1>2. ASSUME NEW p \in Parts, SenderChanges(p) PROVE AddressesTrue'
  <2>1. PICK s \in Senders(p) \cup {NoSender} :
           /\ senders' = [senders EXCEPT ![p] = s]
           /\ had' = [had EXCEPT ![p] = IF s.exists THEN had[p] \cup {s.ip} ELSE had[p]]
    BY <1>2 DEF SenderChanges
  <2>2. /\ had' = [q \in Parts |-> IF q = p THEN (IF s.exists THEN had[p] \cup {s.ip} ELSE had[p]) ELSE had[q]]
        /\ UNCHANGED <<files, running, apply>>
    BY <1>2, <2>1 DEF SenderChanges, AddressesTrue
  <2>3. \A q \in Parts : had[q] \subseteq had'[q]
    BY <2>2
  <2>4. FilesTrue(files)' /\ FilesTrue(running)'
    <3>1. PICK x, y : x = files /\ y = running
      OBVIOUS
    <3>2. FilesTrue(x)' /\ FilesTrue(y)'
      BY <2>3, <3>1, StaysTrue DEF AddressesTrue
    <3> QED BY <2>2, <3>1, <3>2 DEF FilesTrue
  <2>5. SendersTrue(senders)'
    <3> SUFFICES ASSUME NEW q \in Parts, senders'[q].exists PROVE senders'[q].ip \in had'[q]
      BY DEF SendersTrue
    <3>1. CASE q # p
      <4>1. senders'[q] = senders[q]
        BY <2>1, <3>1
      <4> QED BY <4>1, <2>3 DEF AddressesTrue, SendersTrue
    <3>2. CASE q = p /\ p \in DOMAIN senders
      BY <2>1, <2>2, <3>2
    <3>3. CASE q = p /\ p \notin DOMAIN senders
      <4>1. senders'[q] = senders[q]
        BY <2>1, <3>3
      <4> QED BY <4>1, <2>3 DEF AddressesTrue, SendersTrue
    <3> QED BY <3>1, <3>2, <3>3
  <2>6. \A b \in Appliers : SendersTrue(apply[b].senders)'
    <3> SUFFICES ASSUME NEW b \in Appliers PROVE SendersTrue(apply[b].senders)'
      OBVIOUS
    <3>1. PICK x : x = apply[b].senders
      OBVIOUS
    <3>2. SendersTrue(x)'
      BY <2>3, <3>1, StaysTrue DEF AddressesTrue
    <3> QED BY <2>2, <3>1, <3>2 DEF SendersTrue
  <2>7. had' = [q \in Parts |-> had'[q]] /\ apply' = [b \in Appliers |-> apply'[b]]
    BY <2>2 DEF AddressesTrue
  <2> QED BY <2>4, <2>5, <2>6, <2>7 DEF AddressesTrue
<1>3. CASE ChangeListener
  BY <1>3 DEF ChangeListener, AddressesTrue, FilesTrue, SendersTrue
<1>4. CASE OtherRestart
  BY <1>4 DEF OtherRestart, AddressesTrue, FilesTrue, SendersTrue
<1>5. SendersTrue(Idle.senders)
  <2>1. ~NoSender.exists
    BY DEF NoSender
  <2> QED BY <2>1 DEF Idle, SendersTrue
<1>6. ASSUME NEW a \in Appliers, LoadSettings(a) PROVE AddressesTrue'
  <2>1. PICK step : step = [Idle EXCEPT !.pc = "load", !.listen = listen]
    OBVIOUS
  <2>2. step.senders = Idle.senders
    BY <2>1 DEF Idle
  <2> QED BY <1>5, <1>6, <2>1, <2>2, MovesTrue DEF LoadSettings, AddressesTrue
<1>7. ASSUME NEW a \in Appliers, LoadDomains(a) PROVE AddressesTrue'
  <2>1. PICK step : step = [apply[a] EXCEPT !.pc = "write", !.senders = senders]
    OBVIOUS
  <2>2. PICK rest : rest = Idle
    OBVIOUS
  <2>3. step.senders = senders
    BY <2>1 DEF ApplySound
  <2> QED BY <1>5, <1>7, <2>1, <2>2, <2>3, MovesTrue DEF LoadDomains, AddressesTrue
<1>8. ASSUME NEW a \in Appliers, ApplyFile(a) PROVE AddressesTrue'
  <2> DEFINE x == apply[a]
             step == IF x.file = Len(FileOrder) THEN [x EXCEPT !.pc = "validate"]
                     ELSE [x EXCEPT !.file = @ + 1]
  <2>1. UNCHANGED <<senders, had, running>> /\ FilesTrue(running')
    BY <1>8 DEF ApplyFile, AddressesTrue
  <2>2. SendersTrue(step.senders) /\ SendersTrue(x.senders)
    BY DEF AddressesTrue, ApplySound
  <2>3. CASE Move(a, Idle) /\ UNCHANGED files
    <3>1. PICK rest : rest = Idle
      OBVIOUS
    <3> QED BY <1>5, <2>1, <2>3, <3>1, MovesTrue DEF AddressesTrue
  <2>4. CASE /\ Move(a, step)
             /\ files' = [files EXCEPT ![FileOrder[x.file]] = Generated(x)[FileOrder[x.file]]]
    <3>1. FilesTrue(Generated(x)) /\ files = [f \in Files |-> files[f]]
      BY <2>2, GeneratedTrue DEF ApplySound
    <3>2. /\ files'["queues"] \in {files["queues"], Generated(x)["queues"]}
          /\ files'["sources"] \in {files["sources"], Generated(x)["sources"]}
      <4> HIDE DEF x
      <4>1. PICK f, c : f = FileOrder[x.file] /\ c = Generated(x)[f]
        OBVIOUS
      <4>2. files' = [g \in Files |-> IF g = f THEN c ELSE files[g]]
        BY <2>4, <3>1, <4>1
      <4> QED BY <4>1, <4>2 DEF Files
    <3>3. files'.queues = files'["queues"] /\ files'.sources = files'["sources"]
      OBVIOUS
    <3>4. FilesTrue(files')
      BY <3>1, <3>2, <3>3 DEF FilesTrue, AddressesTrue
    <3> HIDE DEF step
    <3>5. PICK t : t = step
      OBVIOUS
    <3> QED BY <2>1, <2>2, <2>4, <3>4, <3>5, MovesTrue
  <2> QED BY <1>8, <2>3, <2>4 DEF ApplyFile
<1>9. ASSUME NEW a \in Appliers, Validate(a) PROVE AddressesTrue'
  <2>1. PICK step : step = [apply[a] EXCEPT !.pc = "restart"]
    OBVIOUS
  <2>2. PICK rest : rest = Idle
    OBVIOUS
  <2>3. step.senders = apply[a].senders
    BY <2>1 DEF ApplySound
  <2> QED BY <1>5, <1>9, <2>1, <2>2, <2>3, MovesTrue DEF Validate, AddressesTrue
<1>10. ASSUME NEW a \in Appliers, Restart(a) PROVE AddressesTrue'
  <2>1. PICK step : step = [Idle EXCEPT !.pc = "done"]
    OBVIOUS
  <2>2. PICK rest : rest = Idle
    OBVIOUS
  <2>3. step.senders = Idle.senders
    BY <2>1 DEF Idle
  <2>4. UNCHANGED <<senders, had>> /\ FilesTrue(files') /\ FilesTrue(running')
    BY <1>10 DEF Restart, AddressesTrue
  <2> QED BY <1>5, <1>10, <2>1, <2>2, <2>3, <2>4, MovesTrue DEF Restart
<1> QED BY <1>1, <1>2, <1>3, <1>4, <1>6, <1>7, <1>8, <1>9, <1>10 DEF PolicyNext

\* A step of one applier: what it knows of its own snapshot and of the files is all that
\* has to be seen to; an apply that is alone beside it rests.
LEMMA OwnMoveSound ==
    ASSUME PolicyInv, NEW a \in Appliers, NEW step, Move(a, step), UNCHANGED <<senders, listen>>,
           files' = [f \in Files |-> files'[f]],
           step = [pc |-> step.pc, senders |-> step.senders, listen |-> step.listen, file |-> step.file],
           step.file \in 1..6, step.pc = "load" => step.file = 1,
           apply[a].pc \in Applying, UNCHANGED fresh,
           fresh[a] =>
             /\ step.pc \in Applying => step.listen = listen
             /\ step.pc \in {"write", "validate", "restart"} => step.senders = senders
             /\ step.pc = "write" =>
                  \A k \in 1..(step.file - 1) : files'[FileOrder[k]] = Generated(Rows)[FileOrder[k]]
             /\ step.pc \in {"validate", "restart", "done"} => files' = Generated(Rows)
             /\ step.pc = "done" => running' = Generated(Rows)
    PROVE  ApplySound'
<1>1. apply' = [b \in Appliers |-> IF b = a THEN step ELSE apply[b]]
  BY DEF Move, PolicyInv, AddressesTrue
<1>2. Rows' = Rows
  BY DEF Rows
<1>3. Generated(Rows)' = Generated(Rows)
  BY <1>2, SnapshotAlone DEF Generated, Snapped, GenerateSourcesTOML, GenerateQueuesTOML,
     GenerateListenerDomainsTOML, GenerateDKIMDataTOML, GenerateAuthTOML, GenerateInitLua, Rows
<1>4. ASSUME NEW b \in Appliers
      PROVE  /\ apply'[b] = [pc |-> apply'[b].pc, senders |-> apply'[b].senders,
                             listen |-> apply'[b].listen, file |-> apply'[b].file]
             /\ apply'[b].file \in 1..6
             /\ apply'[b].pc = "load" => apply'[b].file = 1
  BY <1>1 DEF PolicyInv, ApplySound
<1>5. ASSUME NEW b \in Appliers, fresh'[b] PROVE Alone(b)'
  <2>1. fresh[b] /\ Alone(b)
    BY <1>5 DEF PolicyInv, ApplySound
  <2>2. b = a
    BY <2>1 DEF Alone
  <2>3. \A c \in Appliers \ {a} : apply'[c].pc \notin Applying
    BY <1>1, <2>1, <2>2 DEF Alone
  <2>4. apply'[a] = step
    BY <1>1
  <2> QED BY <1>2, <1>3, <2>1, <2>2, <2>3, <2>4 DEF Alone
<1> QED BY <1>4, <1>5 DEF ApplySound

\* Where an apply fails it says so and goes back to rest.
LEMMA FailureSound ==
    ASSUME PolicyInv, NEW a \in Appliers, Move(a, Idle), UNCHANGED <<senders, listen, files, fresh>>,
           apply[a].pc \in Applying
    PROVE  ApplySound'
<1>1. PICK rest : rest = Idle
  OBVIOUS
<1>2. /\ rest = [pc |-> rest.pc, senders |-> rest.senders, listen |-> rest.listen, file |-> rest.file]
      /\ rest.file = 1 /\ rest.pc = "idle"
  BY <1>1 DEF Idle
<1>3. files' = [f \in Files |-> files'[f]]
  BY DEF PolicyInv, ApplySound
<1> QED BY <1>1, <1>2, <1>3, OwnMoveSound DEF Applying

LEMMA ApplySoundStep == PolicyInv /\ [PolicyNext]_policyVars => ApplySound'
<1> SUFFICES ASSUME PolicyInv, [PolicyNext]_policyVars PROVE ApplySound'
  OBVIOUS
<1>a. Rows' = Rows => Generated(Rows)' = Generated(Rows)
  BY SnapshotAlone DEF Generated, Snapped, GenerateSourcesTOML, GenerateQueuesTOML,
     GenerateListenerDomainsTOML, GenerateDKIMDataTOML, GenerateAuthTOML, GenerateInitLua, Rows
<1>1. CASE UNCHANGED policyVars
  <2>1. UNCHANGED <<senders, listen, files, running, apply, fresh>> /\ Rows' = Rows
    BY <1>1 DEF policyVars, Rows
  <2>2. \A a \in Appliers : Alone(a) => Alone(a)'
    BY <1>a, <2>1 DEF Alone
  <2> QED BY <2>1, <2>2 DEF PolicyInv, ApplySound
<1>2. CASE ChangeListener \/ \E p \in Parts : SenderChanges(p)
  <2>1. /\ UNCHANGED <<files, apply>>
        /\ \A a \in Appliers : ~fresh'[a]
    BY <1>2 DEF ChangeListener, SenderChanges, Disturb
  <2> QED BY <2>1 DEF PolicyInv, ApplySound
<1>3. CASE OtherRestart
  <2>1. UNCHANGED <<senders, listen, files, apply, fresh>> /\ running' = files
    BY <1>3 DEF OtherRestart
  <2>2. Rows' = Rows
    BY <2>1 DEF Rows
  <2>3. \A a \in Appliers : Alone(a) => Alone(a)'
    BY <1>a, <2>1, <2>2 DEF Alone
  <2> QED BY <2>1, <2>3 DEF PolicyInv, ApplySound
<1>4. ASSUME NEW a \in Appliers, LoadSettings(a) PROVE ApplySound'
  <2>1. PICK step : step = [Idle EXCEPT !.pc = "load", !.listen = listen]
    OBVIOUS
  <2>2. /\ step = [pc |-> step.pc, senders |-> step.senders, listen |-> step.listen, file |-> step.file]
        /\ step.file = 1 /\ step.pc = "load" /\ step.listen = listen
    BY <2>1 DEF Idle
  <2>3. /\ apply' = [b \in Appliers |-> IF b = a THEN step ELSE apply[b]]
        /\ UNCHANGED <<senders, listen, files, running>>
        /\ \A b \in Appliers : fresh'[b] =>
             b = a /\ \A c \in Appliers \ {a} : apply[c].pc \in {"idle", "done"}
    BY <1>4, <2>1 DEF LoadSettings, Move, ApplyAt, PolicyInv, AddressesTrue
  <2>4. ASSUME NEW b \in Appliers, fresh'[b] PROVE Alone(b)'
    <3>1. b = a /\ \A c \in Appliers \ {a} : apply'[c].pc \in {"idle", "done"}
      BY <2>3, <2>4
    <3>2. apply'[b] = step
      BY <2>3, <3>1
    <3> QED BY <2>2, <2>3, <3>1, <3>2 DEF Alone, Applying
  <2> QED BY <2>2, <2>3, <2>4 DEF PolicyInv, ApplySound
<1>5. ASSUME NEW a \in Appliers, LoadDomains(a) PROVE ApplySound'
  <2>0. PICK x : x = apply[a]
    OBVIOUS
  <2>1. PICK step : step = [x EXCEPT !.pc = "write", !.senders = senders]
    OBVIOUS
  <2>2. /\ x = [pc |-> "load", senders |-> x.senders, listen |-> x.listen, file |-> 1]
        /\ fresh[a] => x.listen = listen
    BY <1>5, <2>0 DEF LoadDomains, ApplyAt, PolicyInv, ApplySound, Alone, Applying
  <2>3. /\ step = [pc |-> step.pc, senders |-> step.senders, listen |-> step.listen, file |-> step.file]
        /\ step.file = 1 /\ step.pc = "write" /\ step.listen = x.listen /\ step.senders = senders
    <3>1. PICK l : l = x.listen
      OBVIOUS
    <3>2. PICK rows : rows = senders
      OBVIOUS
    <3>3. PICK old : old = x.senders
      OBVIOUS
    <3>4. x = [pc |-> "load", senders |-> old, listen |-> l, file |-> 1]
      BY <2>2, <3>1, <3>3
    <3>5. step = [pc |-> "write", senders |-> rows, listen |-> l, file |-> 1]
      BY <2>1, <3>2, <3>4
    <3> QED BY <3>1, <3>2, <3>5
  <2>4. UNCHANGED <<senders, listen, files, fresh>> /\ apply[a].pc \in Applying
    BY <1>5 DEF LoadDomains, ApplyAt, Applying
  <2>5. files' = [f \in Files |-> files'[f]]
    BY <2>4 DEF PolicyInv, ApplySound
  <2>6. Move(a, step) \/ Move(a, Idle)
    BY <1>5, <2>0, <2>1 DEF LoadDomains
  <2>7. CASE Move(a, step)
    BY <2>2, <2>3, <2>4, <2>5, <2>7, OwnMoveSound
  <2> QED BY <2>4, <2>6, <2>7, FailureSound
<1>6. ASSUME NEW a \in Appliers, ApplyFile(a) PROVE ApplySound'
  <2>0. PICK x : x = apply[a]
    OBVIOUS
  <2>1. PICK step : step = IF x.file = 6 THEN [x EXCEPT !.pc = "validate"] ELSE [x EXCEPT !.file = @ + 1]
    OBVIOUS
  <2>2. /\ x = [pc |-> "write", senders |-> x.senders, listen |-> x.listen, file |-> x.file]
        /\ x.file \in 1..6
        /\ fresh[a] => x.listen = listen /\ x.senders = senders
        /\ fresh[a] => \A k \in 1..(x.file - 1) : files[FileOrder[k]] = Generated(Rows)[FileOrder[k]]
    BY <1>6, <2>0 DEF ApplyFile, ApplyAt, PolicyInv, ApplySound, Alone, Applying
  <2>3. /\ step = [pc |-> step.pc, senders |-> step.senders, listen |-> step.listen, file |-> step.file]
        /\ step.file \in 1..6 /\ step.pc \in {"write", "validate"}
        /\ step.listen = x.listen /\ step.senders = x.senders
        /\ x.file = 6 => step.pc = "validate"
        /\ x.file # 6 => step.pc = "write" /\ step.file = x.file + 1
    BY <2>1, <2>2
  <2>4. UNCHANGED <<senders, listen, fresh>> /\ apply[a].pc \in Applying
    BY <1>6 DEF ApplyFile, ApplyAt, Applying
  <2>5. Len(FileOrder) = 6
    BY DEF FileOrder
  <2>6. \/ /\ Move(a, step)
           /\ files' = [files EXCEPT ![FileOrder[x.file]] = Generated(x)[FileOrder[x.file]]]
        \/ Move(a, Idle) /\ UNCHANGED files
    BY <1>6, <2>0, <2>1, <2>5 DEF ApplyFile
  <2>7. CASE /\ Move(a, step)
             /\ files' = [files EXCEPT ![FileOrder[x.file]] = Generated(x)[FileOrder[x.file]]]
    <3>1. PICK f, c : f = FileOrder[x.file] /\ c = Generated(x)[f]
      OBVIOUS
    <3>2. files' = [g \in Files |-> IF g = f THEN c ELSE files[g]]
      BY <2>7, <3>1 DEF PolicyInv, ApplySound
    <3>3. files' = [g \in Files |-> files'[g]]
      BY <3>2
    <3>4. ASSUME fresh[a], NEW k \in 1..6, k <= x.file
          PROVE files'[FileOrder[k]] = Generated(Rows)[FileOrder[k]]
      <4>1. Generated(x) = Generated(Rows)
        BY <2>2, <3>4, SnapshotAlone DEF Rows
      <4>2. FileOrder[k] \in Files
        BY DEF FileOrder, Files
      <4>3. CASE FileOrder[k] = f
        BY <3>1, <3>2, <4>1, <4>2, <4>3
      <4>4. CASE FileOrder[k] # f
        <5>1. k \in 1..(x.file - 1)
          BY <2>2, <3>1, <3>4, <4>4
        <5> QED BY <2>2, <3>2, <3>4, <4>2, <4>4, <5>1
      <4> QED BY <4>3, <4>4
    <3>5. ASSUME fresh[a], x.file = 6 PROVE files' = Generated(Rows)
      <4>1. \A k \in 1..6 : files'[FileOrder[k]] = Generated(Rows)[FileOrder[k]]
        BY <3>4, <3>5
      <4>2. \A g \in Files : \E k \in 1..6 : g = FileOrder[k]
        <5>1. /\ FileOrder[1] = "sources" /\ FileOrder[2] = "queues" /\ FileOrder[3] = "listener"
              /\ FileOrder[4] = "dkim" /\ FileOrder[5] = "auth" /\ FileOrder[6] = "init"
          BY DEF FileOrder
        <5>2. 1 \in 1..6 /\ 2 \in 1..6 /\ 3 \in 1..6 /\ 4 \in 1..6 /\ 5 \in 1..6 /\ 6 \in 1..6
          OBVIOUS
        <5> QED BY <5>1, <5>2 DEF Files
      <4>3. \A g \in Files : files'[g] = Generated(Rows)[g]
        BY <4>1, <4>2
      <4>4. Generated(Rows) = [g \in Files |-> Generated(Rows)[g]]
        BY DEF Generated, Files
      <4> QED BY <3>3, <4>3, <4>4
    <3>6. fresh[a] /\ step.pc = "write" =>
            \A k \in 1..(step.file - 1) : files'[FileOrder[k]] = Generated(Rows)[FileOrder[k]]
      BY <2>2, <2>3, <3>4
    <3> QED BY <2>2, <2>3, <2>4, <2>7, <3>3, <3>5, <3>6, OwnMoveSound
  <2> QED BY <2>4, <2>6, <2>7, FailureSound
<1>7. ASSUME NEW a \in Appliers, Validate(a) PROVE ApplySound'
  <2>0. PICK x : x = apply[a]
    OBVIOUS
  <2>1. PICK step : step = [x EXCEPT !.pc = "restart"]
    OBVIOUS
  <2>2. /\ x = [pc |-> "validate", senders |-> x.senders, listen |-> x.listen, file |-> x.file]
        /\ x.file \in 1..6
        /\ fresh[a] => x.listen = listen /\ x.senders = senders /\ files = Generated(Rows)
    BY <1>7, <2>0 DEF Validate, ApplyAt, PolicyInv, ApplySound, Alone, Applying
  <2>3. /\ step = [pc |-> step.pc, senders |-> step.senders, listen |-> step.listen, file |-> step.file]
        /\ step.file \in 1..6 /\ step.pc = "restart" /\ step.listen = x.listen /\ step.senders = x.senders
    BY <2>1, <2>2
  <2>4. UNCHANGED <<senders, listen, files, fresh>> /\ apply[a].pc \in Applying
    BY <1>7 DEF Validate, ApplyAt, Applying
  <2>5. files' = [f \in Files |-> files'[f]]
    BY <2>4 DEF PolicyInv, ApplySound
  <2>6. Move(a, step) \/ Move(a, Idle)
    BY <1>7, <2>0, <2>1 DEF Validate
  <2>7. CASE Move(a, step)
    BY <2>2, <2>3, <2>4, <2>5, <2>7, OwnMoveSound
  <2> QED BY <2>4, <2>6, <2>7, FailureSound
<1>8. ASSUME NEW a \in Appliers, Restart(a) PROVE ApplySound'
  <2>1. PICK step : step = [Idle EXCEPT !.pc = "done"]
    OBVIOUS
  <2>2. /\ step = [pc |-> step.pc, senders |-> step.senders, listen |-> step.listen, file |-> step.file]
        /\ step.file = 1 /\ step.pc = "done"
    BY <2>1 DEF Idle
  <2>3. /\ UNCHANGED <<senders, listen, files, fresh>> /\ apply[a].pc \in Applying
        /\ fresh[a] => files = Generated(Rows)
    BY <1>8 DEF Restart, ApplyAt, Applying, PolicyInv, ApplySound, Alone
  <2>4. files' = [f \in Files |-> files'[f]]
    BY <2>3 DEF PolicyInv, ApplySound
  <2>5. (running' = files /\ Move(a, step)) \/ Move(a, Idle)
    BY <1>8, <2>1 DEF Restart
  <2>6. CASE running' = files /\ Move(a, step)
    BY <2>2, <2>3, <2>4, <2>6, OwnMoveSound DEF Applying
  <2> QED BY <2>3, <2>5, <2>6, FailureSound
<1> QED BY <1>1, <1>2, <1>3, <1>4, <1>5, <1>6, <1>7, <1>8 DEF PolicyNext

(***************************************************************************)
(* Whatever number of applies, restarts, failures and edits overlap, the   *)
(* server sends the mail of a sender only from an address that this sender *)
(* has had, and an apply that was alone and answers with success leaves it *)
(* with what the rows say (apply.go, configgen.go).                        *)
(***************************************************************************)
THEOREM PolicyAlwaysSound == PolicySpec => []PolicySound
<1>1. PolicyInv /\ [PolicyNext]_policyVars => PolicyInv'
  BY AddressesStep, ApplySoundStep DEF PolicyInv
<1>2. ASSUME PolicyInv PROVE PolicySound
  <2>1. ASSUME NEW p \in Parts PROVE LeavesFrom(running, Address(p)) \subseteq had[p]
    <3> DEFINE tenant == get_tenant_from_sender(Address(p))
               queue == get_queue_config(running, tenant)
    <3>1. tenant = SourceName(p)
      BY DEF get_tenant_from_sender, Address, SourceName
    <3>2. queue.pool = tenant
      <4> HIDE DEF tenant
      <4>1. CASE \E q \in running.queues : q.tenant = tenant
        <5>1. queue \in running.queues /\ queue.tenant = tenant
          BY <4>1 DEF get_queue_config
        <5> QED BY <1>2, <5>1 DEF PolicyInv, AddressesTrue, FilesTrue
      <4>2. CASE ~\E q \in running.queues : q.tenant = tenant
        BY <4>2 DEF get_queue_config
      <4> QED BY <4>1, <4>2
    <3>3. ASSUME NEW s \in running.sources, s.name = SourceName(p) PROVE s.ip \in had[p]
      <4>1. PICK q \in Parts : s.name = SourceName(q) /\ s.ip \in had[q]
        BY <1>2, <3>3 DEF PolicyInv, AddressesTrue, FilesTrue
      <4>2. q = p
        BY <3>3, <4>1 DEF SourceName
      <4> QED BY <4>1, <4>2
    <3> QED BY <3>1, <3>2, <3>3 DEF LeavesFrom, get_egress_pool
  <2>2. ASSUME NEW a \in Appliers, ApplyAt(a, "done"), fresh[a]
        PROVE  running = Generated([senders |-> senders, listen |-> listen])
    BY <1>2, <2>2 DEF PolicyInv, ApplySound, Alone, ApplyAt, Rows
  <2> QED BY <2>1, <2>2 DEF PolicySound, OwnAddressOnly, AppliedMeansRun
<1> QED BY <1>1, <1>2, PolicyInvInit, PTL DEF PolicySpec

-----------------------------------------------------------------------------
(* PanelRows *)

\* What is computed of a row fits it.
Fitting(row) ==
    \A c \in Columns :
        \/ row.made[c] = row.col[c]
        \/ table = "domains" /\ row.made[c] = 0
        \/ table = "templatesV2" /\ row.col[c] = 0

\* A copy that will be saved whole has in every column that its request does not edit
\* what the row was last told, unless that has been excused since.
Faithful(x) ==
    \A c \in Columns \ x.cols :
        c \in excused[Told(x.key)] \/ x.row.col[c] = told[Told(x.key)][c]

CallSound(x) ==
    /\ x.pc = "save" =>
         /\ table \in Whole /\ x.key \in Keys /\ x.key <= lastRow
         /\ x.row \in RowsOf(table) /\ Fitting(x.row) /\ Faithful(x)
         /\ table \in Single => x.key \in Present /\ x.key = First
    /\ x.pc = "create" =>
         /\ x.row \in RowsOf(table) /\ Fitting(x.row)
         /\ \A c \in Columns \ x.cols : table \in Single /\ x.row.col[c] = 0
    /\ x.pc = "columns" => table \in Columnar /\ x.key \in Keys /\ x.row \in RowsOf(table)
    /\ x.pc = "delete" => table \notin Single

\* A table with one row that has none yet has been told nothing.
TableSound ==
    /\ table \in Tables /\ lastRow \in Nat
    /\ entries \in [Keys -> RowsOf(table) \cup {Gone}]
    /\ \A k \in Present : k <= lastRow
    /\ told \in [Keys -> [Columns -> Values]]
    /\ excused = [k \in Keys |-> excused[k]]
    /\ call = [q \in Calls |-> call[q]]
    /\ table \in Single /\ Present = {} => \A c \in Columns : told[1][c] = 0

RowsInv == TableSound /\ (\A q \in Calls : CallSound(call[q])) /\ RowsSound

LEMMA TableFacts ==
    ASSUME TableSound
    PROVE  /\ Present \subseteq Nat /\ 1 \in Keys /\ 0 \in Values
           /\ \A k \in Keys : Told(k) \in Keys
           /\ Present # {} => First \in Present /\ \A k \in Present : First <= k
           /\ "row" \notin Columns
<1>1. Present \subseteq Nat /\ 1 \in Keys /\ 0 \in Values
  BY PanelAssumption DEF Present, Keys, Values
<1>2. Present # {} => First \in Present /\ \A k \in Present : First <= k
  BY <1>1, LeastNumber DEF First
<1>3. "row" \notin Columns
  BY DEF Columns, ColumnsOf, TableSound, Tables, Whole, Columnar, Plain
<1>4. \A k \in Keys : Told(k) \in Keys
  BY <1>1 DEF Told
<1> QED BY <1>1, <1>2, <1>3, <1>4

LEMMA RowIsThere ==
    ASSUME NEW t, NEW row \in RowsOf(t)
    PROVE  row # Gone
BY DEF RowsOf, Gone

LEMMA PutFacts ==
    ASSUME NEW D, NEW f \in [D -> Values], NEW e
    PROVE  /\ (\A c \in DOMAIN e : e[c] \in Values) => Put(f, e) \in [D -> Values]
           /\ \A c \in D : Put(f, e)[c] = IF c \in DOMAIN e THEN e[c] ELSE f[c]
BY DEF Put

LEMMA EditFacts ==
    ASSUME NEW t, NEW row \in RowsOf(t), NEW D, NEW e \in [D -> Values]
    PROVE  /\ Edit(row, e) \in RowsOf(t)
           /\ Edit(row, e).made = row.made
           /\ \A c \in ColumnsOf(t) : Edit(row, e).col[c] = IF c \in D THEN e[c] ELSE row.col[c]
<1> DEFINE new == Put(row.col, e)
<1>1. row.col \in [ColumnsOf(t) -> Values]
  BY DEF RowsOf
<1>2. new \in [ColumnsOf(t) -> Values] /\ \A c \in ColumnsOf(t) : new[c] = IF c \in D THEN e[c] ELSE row.col[c]
  BY <1>1, PutFacts
<1>3. Edit(row, e) = [row EXCEPT !.col = new]
  BY DEF Edit
<1> HIDE DEF new
<1>4. Edit(row, e) \in RowsOf(t) /\ Edit(row, e).made = row.made /\ Edit(row, e).col = new
  BY <1>2, <1>3 DEF RowsOf
<1> QED BY <1>2, <1>4

LEMMA MadeFacts ==
    ASSUME NEW t, NEW row \in RowsOf(t)
    PROVE  Made(row) \in RowsOf(t) /\ Made(row).col = row.col /\ Made(row).made = row.col
BY DEF Made, RowsOf

LEMMA BlankFacts ==
    ASSUME NEW t
    PROVE  Blank(t) \in RowsOf(t) /\ \A c \in ColumnsOf(t) : Blank(t).col[c] = 0 /\ Blank(t).made[c] = 0
BY PanelAssumption DEF Blank, RowsOf, Values

LEMMA MadeFits ==
    ASSUME NEW row \in RowsOf(table)
    PROVE  Fitting(Made(row))
BY MadeFacts DEF Fitting

-----------------------------------------------------------------------------
(* Steps that only read *)

\* What a call knows depends on the rows alone.
LEMMA CallStays ==
    ASSUME NEW x, CallSound(x), UNCHANGED <<table, entries, lastRow, told, excused>>
    PROVE  CallSound(x)'
<1>1. Columns' = Columns /\ Present' = Present /\ First' = First
  BY DEF Columns, Present, First
<1>2. Fitting(x.row)' = Fitting(x.row)
  BY <1>1 DEF Fitting
<1>3. Faithful(x)' = Faithful(x)
  BY <1>1 DEF Faithful, Told
<1> QED BY <1>1, <1>2, <1>3 DEF CallSound

LEMMA CallsOn ==
    ASSUME RowsInv, NEW q \in Calls, NEW x, CallSound(x), call' = [call EXCEPT ![q] = x],
           UNCHANGED <<table, entries, lastRow, told, excused>>
    PROVE  RowsInv'
<1>1. Columns' = Columns /\ Present' = Present /\ First' = First
  BY DEF Columns, Present, First
<1>2. call' = [p \in Calls |-> call'[p]] /\ \A p \in Calls : call'[p] = IF p = q THEN x ELSE call[p]
  BY DEF RowsInv, TableSound
<1>3. ASSUME NEW p \in Calls PROVE CallSound(call[p])'
  <2>1. PICK y : y = call'[p]
    OBVIOUS
  <2>2. CallSound(y)
    BY <1>2, <2>1 DEF RowsInv
  <2>3. CallSound(y)'
    BY <2>2, CallStays
  <2> QED BY <2>1, <2>3
<1>4. TableSound'
  BY <1>1, <1>2 DEF RowsInv, TableSound
<1>5. RowsSound'
  BY <1>1 DEF RowsInv, RowsSound, EditsHold, DerivedMatches, Shown, Told
<1> QED BY <1>3, <1>4, <1>5 DEF RowsInv

LEMMA NoCallSound == CallSound(NoCall)
BY DEF CallSound, NoCall

LEMMA CreatesKeep ==
    ASSUME RowsInv, NEW q \in Calls, NEW t, NEW row,
           table = t => row \in RowsOf(t) /\ Fitting(row),
           Creates(q, t, row)
    PROVE  RowsInv'
<1>1. PICK x : x = [pc |-> "create", key |-> 0, row |-> row, cols |-> Columns]
  OBVIOUS
<1>2. table = t /\ call' = [call EXCEPT ![q] = x]
  BY <1>1 DEF Creates, Begins, Writes
<1>3. CallSound(x)
  BY <1>1, <1>2 DEF CallSound
<1> QED BY <1>2, <1>3, CallsOn DEF Creates, OnlyReads

LEMMA FreshRows ==
    ASSUME NEW t, NEW D, NEW e \in [D -> Values]
    PROVE  /\ Made(Edit(Blank(t), e)) \in RowsOf(t)
           /\ table = t => Fitting(Made(Edit(Blank(t), e)))
BY BlankFacts, EditFacts, MadeFacts, MadeFits

LEMMA BuiltInFacts ==
    ASSUME NEW row \in RowsOf(table), Fitting(row), NEW b \in BOOLEAN
    PROVE  [row EXCEPT !.builtIn = b] \in RowsOf(table) /\ Fitting([row EXCEPT !.builtIn = b])
<1>1. [row EXCEPT !.builtIn = b] \in RowsOf(table)
  BY DEF RowsOf
<1>2. [row EXCEPT !.builtIn = b].col = row.col /\ [row EXCEPT !.builtIn = b].made = row.made
  BY DEF RowsOf
<1> QED BY <1>1, <1>2 DEF Fitting

LEMMA RowFacts ==
    ASSUME RowsInv, NEW k \in Present
    PROVE  /\ k \in Keys /\ k \in Nat /\ k <= lastRow
           /\ entries[k] \in RowsOf(table) /\ Fitting(entries[k])
           /\ Shown(k) => \A c \in Columns : c \in excused[Told(k)] \/ entries[k].col[c] = told[Told(k)][c]
<1>1. k \in Keys /\ entries[k] # Gone /\ k \in Nat
  BY TableFacts DEF Present, RowsInv
<1>2. entries[k] \in RowsOf(table) /\ k <= lastRow
  BY <1>1 DEF RowsInv, TableSound
<1> QED BY <1>1, <1>2 DEF RowsInv, RowsSound, EditsHold, DerivedMatches, Fitting

\* The copy of a row that was read, with some columns edited.
LEMMA EditedCopy ==
    ASSUME RowsInv, table \in Whole, NEW k \in Present, Shown(k), NEW x,
           x.pc = "save", x.key = k, x.row \in RowsOf(table), Fitting(x.row),
           \A c \in Columns \ x.cols : x.row.col[c] = entries[k].col[c]
    PROVE  CallSound(x)
<1>1. Faithful(x)
  BY RowFacts DEF Faithful
<1>2. table \in Single => k = First
  BY DEF Shown
<1> QED BY <1>1, <1>2, RowFacts DEF CallSound

LEMMA UpdatesKeep ==
    ASSUME RowsInv, NEW q \in Calls, NEW t, NEW pc \in {"save", "columns"}, NEW D,
           NEW e \in [D -> Values], t \notin Single,
           pc = "save" => t \in Whole, pc = "columns" => t \in Columnar,
           Updates(q, t, pc, e)
    PROVE  RowsInv'
<1>1. table = t /\ UNCHANGED <<table, entries, lastRow, told, excused>>
  BY DEF Updates, Begins, OnlyReads
<1>2. PICK k \in Present : Writes(q, pc, k, IF pc = "save" THEN Made(Edit(entries[k], e))
                                                         ELSE Edit(entries[k], e), DOMAIN e)
  BY DEF Updates
<1>3. PICK x : x = [pc |-> pc, key |-> k, row |-> IF pc = "save" THEN Made(Edit(entries[k], e))
                                                  ELSE Edit(entries[k], e), cols |-> DOMAIN e]
  OBVIOUS
<1>4. call' = [call EXCEPT ![q] = x]
  BY <1>2, <1>3 DEF Writes
<1>5. PICK old : old = entries[k]
  OBVIOUS
<1>6. old \in RowsOf(table) /\ k \in Keys
  BY <1>5, RowFacts
<1>7. Edit(old, e) \in RowsOf(table)
      /\ \A c \in Columns : Edit(old, e).col[c] = IF c \in D THEN e[c] ELSE old.col[c]
  BY <1>6, EditFacts DEF Columns
<1>8. CASE pc = "save"
  <2>1. x.pc = "save" /\ x.key = k /\ x.cols = D /\ x.row = Made(Edit(old, e))
    BY <1>3, <1>5, <1>8
  <2>2. x.row \in RowsOf(table) /\ x.row.col = Edit(old, e).col /\ Fitting(x.row)
    BY <1>7, <2>1, MadeFacts, MadeFits
  <2>3. Shown(k)
    BY <1>1 DEF Shown
  <2>4. CallSound(x)
    BY <1>1, <1>5, <1>7, <1>8, <2>1, <2>2, <2>3, EditedCopy
  <2> QED BY <1>1, <1>4, <2>4, CallsOn
<1>9. CASE pc = "columns"
  <2>1. x.pc = "columns" /\ x.key = k /\ x.row = Edit(old, e)
    BY <1>3, <1>5, <1>9
  <2>2. CallSound(x)
    BY <1>1, <1>6, <1>7, <1>9, <2>1 DEF CallSound
  <2> QED BY <1>1, <1>4, <2>2, CallsOn
<1> QED BY <1>8, <1>9

LEMMA ReadsToDeleteKeep ==
    ASSUME RowsInv, NEW q \in Calls, NEW t, t \notin Single,
           ReadsToDelete(q, t) \/ DeletesTag(q, t)
    PROVE  RowsInv'
<1>1. table = t /\ UNCHANGED <<table, entries, lastRow, told, excused>>
  BY DEF ReadsToDelete, DeletesTag, Begins, OnlyReads
<1>2. PICK k, row : Writes(q, "delete", k, row, {})
  BY DEF ReadsToDelete, DeletesTag
<1>3. PICK x : x = [pc |-> "delete", key |-> k, row |-> row, cols |-> {}]
  OBVIOUS
<1>4. call' = [call EXCEPT ![q] = x]
  BY <1>2, <1>3 DEF Writes
<1>5. CallSound(x)
  BY <1>1, <1>3 DEF CallSound
<1> QED BY <1>1, <1>4, <1>5, CallsOn

\* A change of what hangs on a row.
LEMMA ChildrenKeep ==
    ASSUME RowsInv, NEW q \in Calls,
           AddToSubscriber(q) \/ RemoveFromSubscriber(q) \/ AddOwner(q) \/ DeleteMembers(q)
    PROVE  RowsInv'
<1>1. UNCHANGED <<table, entries, lastRow, told, excused>>
  BY DEF AddToSubscriber, RemoveFromSubscriber, AddOwner, DeleteMembers
<1>2. CASE AddOwner(q) \/ DeleteMembers(q)
  <2>1. call' = [call EXCEPT ![q] = NoCall]
    BY <1>2 DEF AddOwner, DeleteMembers, Ends
  <2> QED BY <1>1, <2>1, NoCallSound, CallsOn
<1>3. CASE AddToSubscriber(q) \/ RemoveFromSubscriber(q)
  <2>1. call' = call
    BY <1>3 DEF AddToSubscriber, RemoveFromSubscriber
  <2>2. call' = [call EXCEPT ![q] = call[q]] /\ CallSound(call[q])
    BY <2>1 DEF RowsInv, TableSound
  <2> QED BY <1>1, <2>2, CallsOn
<1> QED BY <1>2, <1>3

-----------------------------------------------------------------------------
(* Tables with one row *)

LEMMA SettingsKeep ==
    ASSUME RowsInv, NEW q \in Calls, NEW D, NEW e \in [D -> Values], NEW blind \in BOOLEAN,
           EditsSettings(q, e, blind)
    PROVE  RowsInv'
<1>1. /\ table = "settings" /\ table \in Single /\ table \in Whole
      /\ UNCHANGED <<table, entries, lastRow, told, excused>>
  BY DEF EditsSettings, Begins, OnlyReads, Single, Whole
<1>2. CASE Present = {} \/ blind
  <2>1. PICK x : x = [pc |-> "create", key |-> 0, row |-> Made(Edit(Blank(table), e)), cols |-> DOMAIN e]
    OBVIOUS
  <2>2. call' = [call EXCEPT ![q] = x]
    BY <1>2, <2>1 DEF EditsSettings, Writes
  <2>3. x.row \in RowsOf(table) /\ Fitting(x.row)
    BY <2>1, FreshRows
  <2>4. ASSUME NEW c \in Columns \ x.cols PROVE x.row.col[c] = 0
    <3>1. c \in ColumnsOf(table) /\ c \notin D
      BY <2>1, <2>4 DEF Columns
    <3>2. Edit(Blank(table), e) \in RowsOf(table) /\ Edit(Blank(table), e).col[c] = 0
      BY <3>1, BlankFacts, EditFacts
    <3> QED BY <2>1, <3>2, MadeFacts
  <2>5. CallSound(x)
    BY <1>1, <2>1, <2>3, <2>4 DEF CallSound
  <2> QED BY <1>1, <2>2, <2>5, CallsOn
<1>3. CASE ~(Present = {} \/ blind)
  <2>1. PICK old : old = entries[First]
    OBVIOUS
  <2>2. PICK x : x = [pc |-> "save", key |-> First, row |-> Made(Edit(old, e)), cols |-> DOMAIN e]
    OBVIOUS
  <2>3. call' = [call EXCEPT ![q] = x]
    BY <1>3, <2>1, <2>2 DEF EditsSettings, Writes
  <2>4. First \in Present
    BY <1>3, TableFacts DEF RowsInv
  <2>5. old \in RowsOf(table)
    BY <2>1, <2>4, RowFacts
  <2>6. /\ Edit(old, e) \in RowsOf(table)
        /\ \A c \in Columns : c \notin D => Edit(old, e).col[c] = old.col[c]
    BY <2>5, EditFacts DEF Columns
  <2>7. x.row \in RowsOf(table) /\ Fitting(x.row) /\ x.row.col = Edit(old, e).col
    BY <2>2, <2>6, MadeFacts, MadeFits
  <2>8. x.pc = "save" /\ x.key = First /\ x.cols = D
    BY <2>2
  <2>9. Shown(First)
    BY DEF Shown
  <2>10. CallSound(x)
    BY <1>1, <2>1, <2>4, <2>6, <2>7, <2>8, <2>9, EditedCopy
  <2> QED BY <1>1, <2>3, <2>10, CallsOn
<1> QED BY <1>2, <1>3

\* The made values of a copy, set to other values.
LEMMA RemadeFacts ==
    ASSUME NEW t, NEW row \in RowsOf(t), NEW m \in [ColumnsOf(t) -> Values]
    PROVE  /\ [row EXCEPT !.made = m] \in RowsOf(t)
           /\ [row EXCEPT !.made = m].made = m /\ [row EXCEPT !.made = m].col = row.col
BY DEF RowsOf

LEMMA UpdateConfigKeeps ==
    ASSUME RowsInv, NEW q \in Calls, UpdateConfig(q)
    PROVE  RowsInv'
<1>1. /\ table = "domains" /\ table \in Single /\ table \in Whole
      /\ UNCHANGED <<table, entries, lastRow, told, excused>>
  BY DEF UpdateConfig, Begins, OnlyReads, Single, Whole
<1>2. PICK old : old = IF Present = {} THEN Blank(table) ELSE entries[First]
  OBVIOUS
<1>3. PICK e \in Edits(Columns) : \E respelled \in SUBSET DOMAIN e :
        LET new == {c \in DOMAIN e : e[c] # old.col[c]} \cup respelled
        IN  Writes(q, IF Present = {} THEN "create" ELSE "save", IF Present = {} THEN 0 ELSE First,
                   [Edit(old, e) EXCEPT !.made = [c \in DOMAIN @ |-> IF c \in new THEN 0 ELSE @[c]]],
                   DOMAIN e)
  BY <1>2 DEF UpdateConfig
<1>4. PICK new :
        /\ {c \in DOMAIN e : e[c] # old.col[c]} \subseteq new
        /\ Writes(q, IF Present = {} THEN "create" ELSE "save", IF Present = {} THEN 0 ELSE First,
                  [Edit(old, e) EXCEPT !.made = [c \in DOMAIN @ |-> IF c \in new THEN 0 ELSE @[c]]],
                  DOMAIN e)
  BY <1>3
<1>5. PICK D : e \in [D -> Values] /\ DOMAIN e = D
  BY DEF Edits
<1>6. Present # {} => First \in Present
  BY TableFacts DEF RowsInv
<1>7. old \in RowsOf(table) /\ Fitting(old)
  <2>1. CASE Present = {}
    BY <1>2, <2>1, BlankFacts DEF Fitting, Columns
  <2>2. CASE Present # {}
    BY <1>2, <1>6, <2>2, RowFacts
  <2> QED BY <2>1, <2>2
<1>8. PICK row : row = Edit(old, e)
  OBVIOUS
<1>9. /\ row \in RowsOf(table) /\ row.made = old.made
      /\ \A c \in Columns : row.col[c] = IF c \in D THEN e[c] ELSE old.col[c]
  BY <1>5, <1>7, <1>8, EditFacts DEF Columns
<1>10. row.made \in [Columns -> Values]
  BY <1>9 DEF RowsOf, Columns
<1>11. PICK m : m = [c \in DOMAIN row.made |-> IF c \in new THEN 0 ELSE row.made[c]]
  OBVIOUS
<1>12. m \in [Columns -> Values] /\ \A c \in Columns : m[c] = IF c \in new THEN 0 ELSE row.made[c]
  BY <1>10, <1>11, PanelAssumption DEF Values
<1>13. PICK copy : copy = [row EXCEPT !.made = m]
  OBVIOUS
<1>14. copy \in RowsOf(table) /\ copy.made = m /\ copy.col = row.col
  BY <1>9, <1>12, <1>13, RemadeFacts DEF Columns
<1>15. Fitting(copy)
  <2> SUFFICES ASSUME NEW c \in Columns, m[c] # 0 PROVE m[c] = row.col[c]
    BY <1>1, <1>14 DEF Fitting
  <2>1. c \notin new /\ m[c] = old.made[c]
    BY <1>9, <1>12
  <2>2. old.made[c] = old.col[c]
    BY <1>1, <1>7, <2>1 DEF Fitting
  <2>3. c \in D => e[c] = old.col[c]
    BY <1>4, <1>5, <2>1
  <2> QED BY <1>9, <2>1, <2>2, <2>3
<1>16. PICK x : x = [pc |-> IF Present = {} THEN "create" ELSE "save",
                     key |-> IF Present = {} THEN 0 ELSE First, row |-> copy, cols |-> DOMAIN e]
  OBVIOUS
<1>17. call' = [call EXCEPT ![q] = x]
  BY <1>4, <1>8, <1>11, <1>13, <1>16 DEF Writes
<1>18. \A c \in Columns \ x.cols : copy.col[c] = old.col[c]
  BY <1>5, <1>9, <1>14, <1>16
<1>19. CASE Present = {}
  <2>1. x.pc = "create" /\ x.row = copy
    BY <1>16, <1>19
  <2>2. \A c \in Columns : old.col[c] = 0
    BY <1>2, <1>19, BlankFacts DEF Columns
  <2>3. CallSound(x)
    BY <1>1, <1>14, <1>15, <1>18, <2>1, <2>2 DEF CallSound
  <2> QED BY <1>1, <1>17, <2>3, CallsOn
<1>20. CASE Present # {}
  <2>1. x.pc = "save" /\ x.key = First /\ x.row = copy /\ Shown(First)
    BY <1>16, <1>20 DEF Shown
  <2>2. CallSound(x)
    BY <1>1, <1>2, <1>6, <1>14, <1>15, <1>18, <1>20, <2>1, EditedCopy
  <2> QED BY <1>1, <1>17, <2>2, CallsOn
<1> QED BY <1>19, <1>20

LEMMA VerifiesKeeps ==
    ASSUME RowsInv, NEW q \in Calls, NEW c \in {"tracking", "unsubscribe"}, Verifies(q, c)
    PROVE  RowsInv'
<1>1. /\ table = "domains" /\ table \in Single /\ table \in Whole /\ Present # {}
      /\ UNCHANGED <<table, entries, lastRow, told, excused>>
  BY DEF Verifies, Begins, OnlyReads, Single, Whole
<1>2. PICK old : old = entries[First]
  OBVIOUS
<1>3. First \in Present
  BY <1>1, TableFacts DEF RowsInv
<1>4. old \in RowsOf(table) /\ Fitting(old)
  BY <1>2, <1>3, RowFacts
<1>5. PICK v \in {old.col[c], 0} :
        Writes(q, "save", First, [entries[First] EXCEPT !.made[c] = v], {})
  BY <1>2 DEF Verifies
<1>6. c \in Columns
  BY <1>1 DEF Columns, ColumnsOf
<1>7. old.made \in [Columns -> Values] /\ old.col \in [Columns -> Values]
  BY <1>4 DEF RowsOf, Columns
<1>8. PICK m : m = [old.made EXCEPT ![c] = v]
  OBVIOUS
<1>9. m \in [Columns -> Values] /\ m[c] = v /\ \A d \in Columns \ {c} : m[d] = old.made[d]
  BY <1>6, <1>7, <1>8, PanelAssumption DEF Values
<1>10. PICK copy : copy = [old EXCEPT !.made = m]
  OBVIOUS
<1>11. copy \in RowsOf(table) /\ copy.made = m /\ copy.col = old.col
  BY <1>4, <1>9, <1>10, RemadeFacts DEF Columns
<1>12. Fitting(copy)
  BY <1>1, <1>4, <1>5, <1>9, <1>11 DEF Fitting
<1>13. PICK x : x = [pc |-> "save", key |-> First, row |-> copy, cols |-> {}]
  OBVIOUS
<1>14. call' = [call EXCEPT ![q] = x]
  BY <1>2, <1>5, <1>8, <1>10, <1>13 DEF Writes
<1>15. CallSound(x)
  <2>1. x.pc = "save" /\ x.key = First /\ x.row = copy /\ Shown(First)
    BY <1>13 DEF Shown
  <2> QED BY <1>1, <1>2, <1>3, <1>11, <1>12, <2>1, EditedCopy
<1> QED BY <1>1, <1>14, <1>15, CallsOn

-----------------------------------------------------------------------------
(* Steps that write *)

\* What a caller is told, and what is excused by it.
LEMMA TellsFacts ==
    ASSUME RowsInv, NEW q \in Calls, NEW k \in Keys, NEW blind \in BOOLEAN, UNCHANGED table,
           call[q].row \in RowsOf(table), Tells(q, k, blind)
    PROVE  /\ told' \in [Keys -> [Columns -> Values]]
           /\ excused' = [m \in Keys |-> excused'[m]]
           /\ \A m \in Keys : \A c \in Columns :
                told'[m][c] = IF m = Told(k) /\ c \in call[q].cols THEN call[q].row.col[c] ELSE told[m][c]
           /\ \A m \in Keys : \A c \in Columns :
                m # Told(k) \/ c \notin call[q].cols => (c \in excused'[m] <=> c \in excused[m])
           /\ table \in Whole /\ (blind \/ Copies(q, k) # {}) =>
                \A c \in call[q].cols : c \in excused'[Told(k)]
<1> DEFINE n == Told(k)
           new == [x \in Columns |-> IF x \in call[q].cols THEN call[q].row.col[x] ELSE told[n][x]]
<1>1. n \in Keys /\ told \in [Keys -> [Columns -> Values]] /\ excused = [m \in Keys |-> excused[m]]
  BY TableFacts DEF RowsInv, TableSound
<1>2. call[q].row.col \in [Columns -> Values]
  BY DEF RowsOf, Columns
<1>3. new \in [Columns -> Values]
  BY <1>1, <1>2
<1>4. told' = [told EXCEPT ![n] = new]
  BY <1>1 DEF Tells
<1>5. \A c \in Columns : new[c] = IF c \in call[q].cols THEN call[q].row.col[c] ELSE told[n][c]
  OBVIOUS
<1>6. PICK e : /\ excused' = [excused EXCEPT ![n] = e]
               /\ e = IF table \in Whole /\ (blind \/ Copies(q, k) # {}) THEN excused[n] \cup call[q].cols
                      ELSE excused[n] \ call[q].cols
  BY <1>1 DEF Tells
<1>7. excused' = [m \in Keys |-> excused'[m]] /\ \A m \in Keys : excused'[m] = IF m = n THEN e ELSE excused[m]
  BY <1>1, <1>6
<1> HIDE DEF new, n
<1>8. /\ told' \in [Keys -> [Columns -> Values]]
      /\ \A m \in Keys : told'[m] = IF m = n THEN new ELSE told[m]
  BY <1>1, <1>3, <1>4
<1>9. \A m \in Keys : \A c \in Columns :
        told'[m][c] = IF m = n /\ c \in call[q].cols THEN call[q].row.col[c] ELSE told[m][c]
  BY <1>5, <1>8
<1>10. \A m \in Keys : \A c \in Columns :
        m # n \/ c \notin call[q].cols => (c \in excused'[m] <=> c \in excused[m])
  BY <1>6, <1>7
<1>11. table \in Whole /\ (blind \/ Copies(q, k) # {}) => \A c \in call[q].cols : c \in excused'[n]
  BY <1>1, <1>6, <1>7
<1> QED BY <1>7, <1>8, <1>9, <1>10, <1>11 DEF n

\* The copies that others hold are excused where they are out of date now.
LEMMA OthersFaithful ==
    ASSUME RowsInv, NEW q \in Calls, NEW k \in Keys, NEW blind \in BOOLEAN, UNCHANGED table,
           call[q].row \in RowsOf(table), Tells(q, k, blind),
           NEW p \in Calls, p # q, NEW x, x = call[p], x.pc = "save"
    PROVE  Faithful(x)'
<1>1. table \in Whole /\ x.key \in Keys /\ Faithful(x) /\ Told(x.key) \in Keys /\ Columns' = Columns
  BY TableFacts DEF RowsInv, CallSound, Columns
<1>2. ASSUME NEW c \in Columns \ x.cols
      PROVE  c \in excused'[Told(x.key)] \/ x.row.col[c] = told'[Told(x.key)][c]
  <2>1. CASE Told(x.key) = Told(k) /\ c \in call[q].cols
    <3>1. p \in Copies(q, k)
      BY <2>1 DEF Copies, Told
    <3> QED BY <1>1, <2>1, <3>1, TellsFacts
  <2>2. CASE ~(Told(x.key) = Told(k) /\ c \in call[q].cols)
    BY <1>1, <2>2, TellsFacts DEF Faithful
  <2> QED BY <2>1, <2>2
<1>3. Told(x.key)' = Told(x.key)
  BY DEF Told
<1> QED BY <1>1, <1>2, <1>3 DEF Faithful

LEMMA EndsFacts ==
    ASSUME RowsInv, NEW q \in Calls, Ends(q)
    PROVE  /\ call' = [p \in Calls |-> call'[p]]
           /\ \A p \in Calls : call'[p] = IF p = q THEN NoCall ELSE call[p]
BY DEF RowsInv, TableSound, Ends

LEMMA SaveRowKeeps ==
    ASSUME RowsInv, NEW q \in Calls, SaveRow(q)
    PROVE  RowsInv'
<1>1. PICK x : x = call[q]
  OBVIOUS
<1>2. /\ x.pc = "save" /\ UNCHANGED <<table, lastRow>>
      /\ entries' = [entries EXCEPT ![x.key] = x.row] /\ Tells(q, x.key, FALSE) /\ Ends(q)
  BY <1>1 DEF SaveRow
<1>3. PICK k : k = x.key
  OBVIOUS
<1>4. /\ table \in Whole /\ k \in Keys /\ k <= lastRow /\ x.row \in RowsOf(table) /\ Fitting(x.row)
      /\ Faithful(x) /\ (table \in Single => k \in Present /\ k = First)
  BY <1>1, <1>2, <1>3 DEF RowsInv, CallSound
<1>5. TableSound /\ call[q].row \in RowsOf(table) /\ Told(k) \in Keys
  BY <1>1, <1>4, TableFacts DEF RowsInv
<1>6. /\ entries' \in [Keys -> RowsOf(table) \cup {Gone}]
      /\ \A m \in Keys : entries'[m] = IF m = k THEN x.row ELSE entries[m]
  BY <1>2, <1>3, <1>4, <1>5 DEF TableSound
<1>7. Present' = Present \cup {k} /\ Columns' = Columns
  BY <1>2, <1>4, <1>6, RowIsThere DEF Present, Columns
<1>8. table \in Single => Present' = Present /\ First' = First
  BY <1>4, <1>7 DEF First
<1>9. /\ told' \in [Keys -> [Columns -> Values]]
      /\ excused' = [m \in Keys |-> excused'[m]]
      /\ \A m \in Keys : \A c \in Columns :
           told'[m][c] = IF m = Told(k) /\ c \in x.cols THEN x.row.col[c] ELSE told[m][c]
      /\ \A m \in Keys : \A c \in Columns :
           m # Told(k) \/ c \notin x.cols => (c \in excused'[m] <=> c \in excused[m])
  <2>1. PICK blind \in BOOLEAN : Tells(q, k, blind)
    BY <1>2, <1>3
  <2>2. /\ told' \in [Keys -> [Columns -> Values]]
        /\ excused' = [m \in Keys |-> excused'[m]]
        /\ \A m \in Keys : \A c \in Columns :
             told'[m][c] = IF m = Told(k) /\ c \in call[q].cols THEN call[q].row.col[c] ELSE told[m][c]
        /\ \A m \in Keys : \A c \in Columns :
             m # Told(k) \/ c \notin call[q].cols => (c \in excused'[m] <=> c \in excused[m])
    <3>1. UNCHANGED table
      BY <1>2
    <3>2. k \in Keys /\ call[q].row \in RowsOf(table)
      BY <1>4, <1>5
    <3> QED BY <2>1, <3>1, <3>2, TellsFacts, SMTT(60)
  <2> QED BY <1>1, <2>2, Zenon
<1>10. TableSound'
  <2>1. \A m \in Present' : m <= lastRow'
    BY <1>2, <1>4, <1>5, <1>7 DEF TableSound
  <2>2. Present' # {}
    BY <1>7
  <2>3. call' = [p \in Calls |-> call'[p]]
    BY <1>2, EndsFacts
  <2> QED BY <1>2, <1>5, <1>6, <1>7, <1>9, <2>1, <2>2, <2>3 DEF TableSound
<1>11. ASSUME NEW p \in Calls PROVE CallSound(call[p])'
  <2>1. CASE p = q
    <3>1. CallSound(NoCall)'
      BY DEF CallSound, NoCall
    <3>2. call'[p] = NoCall
      BY <1>2, <2>1, EndsFacts
    <3> QED BY <3>1, <3>2
  <2>2. CASE p # q
    <3>1. PICK y : y = call[p]
      OBVIOUS
    <3>2. CallSound(y) /\ call'[p] = y
      BY <1>2, <2>2, <3>1, EndsFacts DEF RowsInv
    <3>3. y.pc = "save" => Faithful(y)'
      BY <1>1, <1>2, <1>3, <1>4, <1>5, <2>2, <3>1, OthersFaithful
    <3>4. Fitting(y.row)' = Fitting(y.row)
      BY <1>2, <1>7 DEF Fitting
    <3>5. CallSound(y)'
      BY <1>2, <1>7, <1>8, <3>2, <3>3, <3>4 DEF CallSound
    <3> QED BY <3>2, <3>5
  <2> QED BY <2>1, <2>2
<1>12. EditsHold'
  <2> SUFFICES ASSUME NEW m \in Present', Shown(m)', NEW c \in Columns
               PROVE  c \in excused'[Told(m)] \/ entries'[m].col[c] = told'[Told(m)][c]
    BY <1>2, <1>7 DEF EditsHold, Told
  <2>1. CASE m = k
    <3>1. CASE c \in x.cols
      BY <1>5, <1>6, <1>9, <2>1, <3>1, <1>4
    <3>2. CASE c \notin x.cols
      <4>1. c \in excused[Told(k)] \/ x.row.col[c] = told[Told(k)][c]
        BY <1>3, <1>4, <3>2 DEF Faithful
      <4> QED BY <1>4, <1>5, <1>6, <1>9, <2>1, <3>2, <4>1
    <3> QED BY <3>1, <3>2
  <2>2. CASE m # k
    <3>1. m \in Present /\ table \notin Single /\ Shown(m)
      BY <1>2, <1>4, <1>7, <1>8, <2>2 DEF Shown
    <3>2. Told(m) = m /\ Told(k) = k /\ m \in Keys
      BY <3>1 DEF Told, Present
    <3>3. c \in excused[m] \/ entries[m].col[c] = told[m][c]
      BY <3>1, <3>2, RowFacts
    <3> QED BY <1>6, <1>9, <2>2, <3>2, <3>3
  <2> QED BY <2>1, <2>2
<1>13. DerivedMatches'
  <2>1. ASSUME NEW m \in Present' PROVE Fitting(entries'[m])
    <3>1. CASE m = k
      BY <1>4, <1>6, <3>1
    <3>2. CASE m # k
      BY <1>6, <1>7, <3>2, RowFacts DEF Present
    <3> QED BY <3>1, <3>2
  <2> QED BY <1>2, <1>7, <2>1 DEF DerivedMatches, Fitting
<1> QED BY <1>10, <1>11, <1>12, <1>13 DEF RowsInv, RowsSound

LEMMA TablesApart ==
    ASSUME TableSound
    PROVE  /\ table \in Columnar => table \notin Whole /\ table \notin Single
           /\ table \in Single => table \in Whole
BY DEF Columnar, Whole, Single

LEMMA UpdateColumnsKeeps ==
    ASSUME RowsInv, NEW q \in Calls, UpdateColumns(q)
    PROVE  RowsInv'
<1>1. PICK x : x = call[q]
  OBVIOUS
<1>2. PICK k : k = x.key
  OBVIOUS
<1>3. /\ x.pc = "columns" /\ UNCHANGED <<table, lastRow>> /\ Tells(q, k, FALSE) /\ Ends(q)
  BY <1>1, <1>2 DEF UpdateColumns
<1>4. table \in Columnar /\ table \notin Whole /\ table \notin Single
      /\ k \in Keys /\ x.row \in RowsOf(table) /\ TableSound /\ Told(k) = k
  BY <1>1, <1>2, <1>3, TablesApart DEF RowsInv, CallSound, Told
<1>5. PICK e : e = [c \in x.cols |-> x.row.col[c]]
  OBVIOUS
<1>6. PICK m : m = [c \in {d \in DOMAIN e : table # "templatesV2" \/ e[d] # 0} |-> e[c]]
  OBVIOUS
<1>7. entries' = IF entries[k] = Gone THEN entries
                 ELSE [entries EXCEPT ![k] = [entries[k] EXCEPT !.col = Put(@, e), !.made = Put(@, m)]]
  BY <1>1, <1>2, <1>5, <1>6 DEF UpdateColumns
<1>8. Columns' = Columns /\ x.row.col \in [Columns -> Values]
  BY <1>3, <1>4 DEF Columns, RowsOf
<1>9. /\ told' \in [Keys -> [Columns -> Values]]
      /\ excused' = [n \in Keys |-> excused'[n]]
      /\ \A n \in Keys : \A c \in Columns :
           told'[n][c] = IF n = k /\ c \in x.cols THEN x.row.col[c] ELSE told[n][c]
      /\ \A n \in Keys : \A c \in Columns :
           n # k \/ c \notin x.cols => (c \in excused'[n] <=> c \in excused[n])
  <2>1. PICK blind \in BOOLEAN : Tells(q, k, blind)
    BY <1>3
  <2>2. UNCHANGED table /\ call[q].row \in RowsOf(table)
    BY <1>1, <1>3, <1>4
  <2>3. k \in Keys
    BY <1>4
  <2> QED BY <1>1, <1>4, <2>1, <2>2, <2>3, TellsFacts, SMTT(60)
<1>10. /\ \A j \in Keys \ {k} : entries'[j] = entries[j]
       /\ entries[k] = Gone => entries'[k] = Gone
       /\ entries[k] # Gone =>
            /\ entries'[k] \in RowsOf(table) /\ entries'[k] # Gone
            /\ \A c \in Columns : entries'[k].col[c] = IF c \in x.cols THEN x.row.col[c] ELSE entries[k].col[c]
            /\ Fitting(entries'[k])
       /\ entries' \in [Keys -> RowsOf(table) \cup {Gone}]
  <2>1. CASE entries[k] = Gone
    BY <1>4, <1>7, <2>1 DEF TableSound
  <2>2. CASE entries[k] # Gone
    <3>1. PICK old : old = entries[k]
      OBVIOUS
    <3>2. old \in RowsOf(table) /\ Fitting(old)
      BY <1>4, <2>2, <3>1, RowFacts DEF Present
    <3>3. old.col \in [Columns -> Values] /\ old.made \in [Columns -> Values]
      BY <3>2 DEF RowsOf, Columns
    <3>4. PICK col, made : col = Put(old.col, e) /\ made = Put(old.made, m)
      OBVIOUS
    <3>5. \A c \in Columns : col[c] = IF c \in x.cols THEN x.row.col[c] ELSE old.col[c]
      BY <1>5, <3>3, <3>4, PutFacts
    <3>6. \A c \in Columns :
            made[c] = IF c \in x.cols /\ (table # "templatesV2" \/ x.row.col[c] # 0)
                      THEN x.row.col[c] ELSE old.made[c]
      <4>1. \A c : c \in DOMAIN m <=> c \in x.cols /\ (table # "templatesV2" \/ x.row.col[c] # 0)
        BY <1>5, <1>6
      <4>2. \A c \in DOMAIN m : m[c] = x.row.col[c]
        BY <1>5, <1>6
      <4> QED BY <3>3, <3>4, <4>1, <4>2, PutFacts
    <3>7. col \in [Columns -> Values] /\ made \in [Columns -> Values]
      BY <1>8, <3>3, <3>4, <3>5, <3>6 DEF Put
    <3>8. PICK new : new = [old EXCEPT !.col = Put(@, e), !.made = Put(@, m)]
      OBVIOUS
    <3>9. new \in RowsOf(table) /\ new.col = col /\ new.made = made
      <4>1. new = [old EXCEPT !.col = col, !.made = made]
        BY <3>2, <3>4, <3>8 DEF RowsOf
      <4> QED BY <3>2, <3>7, <4>1 DEF RowsOf, Columns
    <3>10. entries' = [entries EXCEPT ![k] = new]
      <4>1. [entries[k] EXCEPT !.col = Put(@, e), !.made = Put(@, m)] = new
        BY <3>1, <3>8
      <4>2. entries' = [entries EXCEPT ![k] = [entries[k] EXCEPT !.col = Put(@, e), !.made = Put(@, m)]]
        BY <1>7, <2>2, Zenon
      <4> QED BY <4>1, <4>2, Zenon
    <3>11. entries' \in [Keys -> RowsOf(table) \cup {Gone}] /\ entries'[k] = new
           /\ \A j \in Keys \ {k} : entries'[j] = entries[j]
      BY <1>4, <3>9, <3>10 DEF TableSound
    <3>12. Fitting(new)
      <4> SUFFICES ASSUME NEW c \in Columns
                   PROVE  \/ made[c] = col[c]
                          \/ table = "domains" /\ made[c] = 0
                          \/ table = "templatesV2" /\ col[c] = 0
        BY <3>9 DEF Fitting
      <4>1. \/ old.made[c] = old.col[c]
            \/ table = "domains" /\ old.made[c] = 0
            \/ table = "templatesV2" /\ old.col[c] = 0
        BY <3>2 DEF Fitting
      <4> QED BY <3>5, <3>6, <4>1
    <3>13. new # Gone
      BY <3>9, RowIsThere
    <3> QED BY <2>2, <3>1, <3>5, <3>9, <3>11, <3>12, <3>13
  <2> QED BY <2>1, <2>2
<1>11. Present' = Present
  BY <1>4, <1>10 DEF Present
<1>12. TableSound'
  <2>1. call' = [p \in Calls |-> call'[p]]
    BY <1>3, EndsFacts
  <2> QED BY <1>3, <1>4, <1>8, <1>9, <1>10, <1>11, <2>1 DEF TableSound
<1>13. ASSUME NEW p \in Calls PROVE CallSound(call[p])'
  <2>1. CASE p = q
    <3>1. CallSound(NoCall)'
      BY DEF CallSound, NoCall
    <3>2. call'[p] = NoCall
      BY <1>3, <2>1, EndsFacts
    <3> QED BY <3>1, <3>2
  <2>2. CASE p # q
    <3>1. PICK y : y = call[p]
      OBVIOUS
    <3>2. CallSound(y) /\ call'[p] = y
      BY <1>3, <2>2, <3>1, EndsFacts DEF RowsInv
    <3>3. y.pc # "save"
      BY <1>4, <3>2 DEF CallSound
    <3>4. Fitting(y.row)' = Fitting(y.row)
      BY <1>3, <1>8 DEF Fitting
    <3>5. CallSound(y)'
      BY <1>3, <1>8, <3>2, <3>3, <3>4 DEF CallSound
    <3> QED BY <3>2, <3>5
  <2> QED BY <2>1, <2>2
<1>14. EditsHold'
  <2> SUFFICES ASSUME NEW j \in Present', NEW c \in Columns
               PROVE  c \in excused'[j] \/ entries'[j].col[c] = told'[j][c]
    BY <1>3, <1>4, <1>8 DEF EditsHold, Told
  <2>1. j \in Present /\ j \in Keys /\ Told(j) = j /\ Shown(j)
    BY <1>4, <1>11 DEF Present, Told, Shown
  <2>2. c \in excused[j] \/ entries[j].col[c] = told[j][c]
    BY <2>1, RowFacts
  <2> QED BY <1>4, <1>9, <1>10, <2>1, <2>2 DEF Present
<1>15. DerivedMatches'
  <2>1. ASSUME NEW j \in Present' PROVE Fitting(entries'[j])
    BY <1>10, <1>11, RowFacts DEF Present
  <2> QED BY <1>3, <1>8, <2>1 DEF DerivedMatches, Fitting
<1> QED BY <1>12, <1>13, <1>14, <1>15 DEF RowsInv, RowsSound

\* A call that ends, or that goes on to name the owner.
LEMMA AfterCreate ==
    ASSUME RowsInv, NEW q \in Calls, CreateRow(q)
    PROVE  \E y : call' = [call EXCEPT ![q] = y] /\ CallSound(y) /\ CallSound(y)'
<1>1. CASE table = "organizations"
  <2>1. PICK k, row : Writes(q, "owner", k, row, {})
    BY <1>1 DEF CreateRow
  <2>2. PICK y : y = [pc |-> "owner", key |-> k, row |-> row, cols |-> {}]
    OBVIOUS
  <2>3. call' = [call EXCEPT ![q] = y]
    BY <2>1, <2>2 DEF Writes
  <2>4. CallSound(y)
    BY <2>2 DEF CallSound
  <2>5. CallSound(y)'
    BY <2>2 DEF CallSound
  <2> QED BY <2>3, <2>4, <2>5
<1>2. CASE table # "organizations"
  <2>1. call' = [call EXCEPT ![q] = NoCall]
    BY <1>2 DEF CreateRow, Ends
  <2>2. CallSound(NoCall)'
    BY DEF CallSound, NoCall
  <2> QED BY <2>1, <2>2, NoCallSound
<1> QED BY <1>1, <1>2

LEMMA CreateRowKeeps ==
    ASSUME RowsInv, NEW q \in Calls, CreateRow(q)
    PROVE  RowsInv'
<1>1. PICK x : x = call[q]
  OBVIOUS
<1>2. PICK y : call' = [call EXCEPT ![q] = y] /\ CallSound(y) /\ CallSound(y)'
  BY AfterCreate
<1>3. /\ x.pc = "create" /\ UNCHANGED table /\ TableSound
      /\ x.row \in RowsOf(table) /\ Fitting(x.row)
      /\ \A c \in Columns \ x.cols : table \in Single /\ x.row.col[c] = 0
  BY <1>1 DEF CreateRow, RowsInv, CallSound
<1>4. CASE table = "domains" /\ Present # {}
  <2>1. UNCHANGED <<table, entries, lastRow, told, excused>>
    BY <1>4 DEF CreateRow
  <2> QED BY <1>2, <2>1, CallsOn
<1>5. CASE ~(table = "domains" /\ Present # {})
  <2>1. PICK n : n = lastRow + 1
    OBVIOUS
  <2>2. PICK blind \in BOOLEAN : blind = (table = "settings" /\ Present # {})
    OBVIOUS
  <2>3. /\ lastRow < MaxRows /\ lastRow' = n /\ entries' = [entries EXCEPT ![n] = x.row]
        /\ Tells(q, n, blind)
    BY <1>1, <1>5, <2>1, <2>2 DEF CreateRow
  <2>4. n \in Keys /\ n \in Nat /\ n > lastRow /\ lastRow \in Nat
    BY <1>3, <2>1, <2>3, PanelAssumption DEF Keys, TableSound
  <2>5. /\ entries' \in [Keys -> RowsOf(table) \cup {Gone}]
        /\ \A j \in Keys : entries'[j] = IF j = n THEN x.row ELSE entries[j]
    BY <1>3, <2>3, <2>4 DEF TableSound
  <2>6. /\ Present' = Present \cup {n} /\ Columns' = Columns
        /\ \A k \in Present : k \in Nat /\ k \in Keys /\ k <= lastRow /\ k < n
    <3>1. Present' = Present \cup {n} /\ Columns' = Columns
      BY <1>3, <2>4, <2>5, RowIsThere DEF Present, Columns
    <3>2. \A k \in Present : k \in Nat /\ k \in Keys /\ k <= lastRow
      BY RowFacts
    <3> QED BY <2>4, <3>1, <3>2
  <2>7. /\ Present # {} => First' = First /\ First \in Present
        /\ Present = {} => First' = n
    <3>1. Present' \subseteq Nat /\ Present' # {}
      BY <2>4, <2>6
    <3>2. First' \in Present' /\ \A j \in Present' : First' <= j
      BY <3>1, LeastNumber DEF First
    <3>3. Present # {} => First \in Present /\ \A k \in Present : First <= k
      BY <1>3, TableFacts
    <3>4. ASSUME Present # {} PROVE First' = First
      <4>1. First \in Nat /\ First < n /\ First \in Present'
        BY <2>6, <3>3, <3>4
      <4>2. First' <= First /\ First' \in Nat
        BY <3>1, <3>2, <4>1
      <4>3. First' # n
        BY <2>4, <4>1, <4>2
      <4>4. First <= First'
        BY <2>6, <3>2, <3>3, <3>4, <4>3
      <4> QED BY <4>1, <4>2, <4>4
    <3> QED BY <2>6, <3>2, <3>3, <3>4
  <2>8. Told(n) \in Keys /\ call[q].row \in RowsOf(table)
    BY <1>1, <1>3, <2>4, TableFacts
  <2>9. /\ told' \in [Keys -> [Columns -> Values]]
        /\ excused' = [m \in Keys |-> excused'[m]]
        /\ \A m \in Keys : \A c \in Columns :
             told'[m][c] = IF m = Told(n) /\ c \in x.cols THEN x.row.col[c] ELSE told[m][c]
        /\ \A m \in Keys : \A c \in Columns :
             m # Told(n) \/ c \notin x.cols => (c \in excused'[m] <=> c \in excused[m])
        /\ table \in Whole /\ blind => \A c \in x.cols : c \in excused'[Told(n)]
    <3>1. /\ told' \in [Keys -> [Columns -> Values]]
          /\ excused' = [m \in Keys |-> excused'[m]]
          /\ \A m \in Keys : \A c \in Columns :
               told'[m][c] = IF m = Told(n) /\ c \in call[q].cols THEN call[q].row.col[c] ELSE told[m][c]
          /\ \A m \in Keys : \A c \in Columns :
               m # Told(n) \/ c \notin call[q].cols => (c \in excused'[m] <=> c \in excused[m])
          /\ table \in Whole /\ (blind \/ Copies(q, n) # {}) =>
               \A c \in call[q].cols : c \in excused'[Told(n)]
      <4>1. UNCHANGED table /\ Tells(q, n, blind)
        BY <1>3, <2>3
      <4>2. n \in Keys /\ call[q].row \in RowsOf(table)
        BY <2>4, <2>8
      <4>3. table \in Whole /\ (blind \/ Copies(q, n) # {}) =>
               \A c \in call[q].cols : c \in excused'[Told(n)]
        BY <4>1, <4>2, TellsFacts, SMTT(60)
      <4> QED BY <4>1, <4>2, <4>3, TellsFacts, SMTT(60)
    <3> QED BY <1>1, <3>1, Zenon
  <2>10. call' = [p \in Calls |-> call'[p]] /\ \A p \in Calls : call'[p] = IF p = q THEN y ELSE call[p]
    BY <1>2, <1>3 DEF TableSound
  <2>11. TableSound'
    <3>1. \A m \in Present' : m <= lastRow'
      BY <2>3, <2>4, <2>6
    <3>2. Present' # {} /\ lastRow' \in Nat
      BY <2>3, <2>4, <2>6
    <3> QED BY <1>3, <2>5, <2>6, <2>9, <2>10, <3>1, <3>2 DEF TableSound
  <2>12. ASSUME NEW p \in Calls PROVE CallSound(call[p])'
    <3>1. CASE p = q
      BY <1>2, <2>10, <3>1
    <3>2. CASE p # q
      <4>1. PICK z : z = call[p]
        OBVIOUS
      <4>2. CallSound(z) /\ call'[p] = z
        BY <2>10, <3>2, <4>1 DEF RowsInv
      <4>3. z.pc = "save" => Faithful(z)'
        <5>1. UNCHANGED table /\ Tells(q, n, blind)
          BY <1>3, <2>3
        <5> QED BY <2>4, <2>8, <3>2, <4>1, <5>1, OthersFaithful, SMTT(60)
      <4>4. Fitting(z.row)' = Fitting(z.row)
        BY <1>3, <2>6 DEF Fitting
      <4>5. ASSUME z.pc = "save"
            PROVE  /\ (table \in Whole)' /\ (z.key \in Keys)' /\ (z.key <= lastRow)'
                   /\ (table \in Single => z.key \in Present /\ z.key = First)'
        <5>1. table \in Whole /\ z.key \in Keys /\ z.key <= lastRow
              /\ (table \in Single => z.key \in Present /\ z.key = First)
          BY <4>2, <4>5 DEF CallSound
        <5>2. z.key <= lastRow'
          BY <2>3, <2>4, <5>1, PanelAssumption DEF Keys
        <5> QED BY <1>3, <2>6, <2>7, <5>1, <5>2
      <4>6. CallSound(z)'
        BY <1>3, <2>6, <4>2, <4>3, <4>4, <4>5 DEF CallSound
      <4> QED BY <4>2, <4>6
    <3> QED BY <3>1, <3>2
  <2>13. EditsHold'
    <3> SUFFICES ASSUME NEW m \in Present', Shown(m)', NEW c \in Columns
                 PROVE  c \in excused'[Told(m)] \/ entries'[m].col[c] = told'[Told(m)][c]
      BY <1>3, <2>6 DEF EditsHold, Told
    <3>1. CASE m = n
      <4>1. CASE c \in x.cols
        BY <2>4, <2>5, <2>8, <2>9, <3>1, <4>1
      <4>2. CASE c \notin x.cols
        <5>1. table \in Single /\ x.row.col[c] = 0
          BY <1>3, <4>2
        <5>2. First' = n
          BY <1>3, <3>1, <5>1 DEF Shown
        <5>3. Present = {}
          BY <2>6, <2>7, <5>2
        <5>4. told[1][c] = 0 /\ Told(n) = 1
          BY <1>3, <5>1, <5>3 DEF TableSound, Told
        <5> QED BY <2>4, <2>5, <2>8, <2>9, <3>1, <4>2, <5>1, <5>4
      <4> QED BY <4>1, <4>2
    <3>2. CASE m # n
      <4>1. m \in Present /\ m \in Keys /\ Told(m) \in Keys
        BY <1>3, <2>6, <3>2, TableFacts
      <4>2. Shown(m)
        BY <1>3, <2>7, <4>1 DEF Shown
      <4>3. c \in excused[Told(m)] \/ entries[m].col[c] = told[Told(m)][c]
        BY <4>1, <4>2, RowFacts
      <4>4. CASE table \in Single
        <5>1. Told(m) = Told(n) /\ table = "settings"
          BY <1>5, <4>1, <4>4 DEF Told, Single
        <5>2. blind /\ table \in Whole
          BY <2>2, <4>1, <5>1 DEF Whole
        <5>3. CASE c \in x.cols
          BY <2>9, <5>1, <5>2, <5>3
        <5>4. CASE c \notin x.cols
          BY <2>5, <2>9, <3>2, <4>1, <4>3, <5>4
        <5> QED BY <5>3, <5>4
      <4>5. CASE table \notin Single
        <5>1. Told(m) = m /\ Told(n) = n
          BY <4>5 DEF Told
        <5> QED BY <2>5, <2>9, <3>2, <4>1, <4>3, <5>1
      <4> QED BY <4>4, <4>5
    <3> QED BY <3>1, <3>2
  <2>14. DerivedMatches'
    <3>1. ASSUME NEW m \in Present' PROVE Fitting(entries'[m])
      <4>1. CASE m = n
        BY <1>3, <2>4, <2>5, <4>1
      <4>2. CASE m # n
        BY <2>5, <2>6, <4>2, RowFacts
      <4> QED BY <4>1, <4>2
    <3> QED BY <1>3, <2>6, <3>1 DEF DerivedMatches, Fitting
  <2> QED BY <2>11, <2>12, <2>13, <2>14 DEF RowsInv, RowsSound
<1> QED BY <1>4, <1>5

\* A row that goes takes no promise with it: nothing that was excused is held against a copy.
LEMMA DeleteKeeps ==
    ASSUME RowsInv, NEW q \in Calls, NEW k, table \notin Single, DeleteRow(q, k),
           UNCHANGED <<table, lastRow, told>>, NEW y, CallSound(y)', call' = [call EXCEPT ![q] = y]
    PROVE  RowsInv'
<1>1. TableSound /\ "row" \notin Columns /\ Columns' = Columns
  BY TableFacts DEF RowsInv, Columns
<1>2. /\ entries' \in [Keys -> RowsOf(table) \cup {Gone}]
      /\ \A m \in Keys : entries'[m] = IF m = k THEN Gone ELSE entries[m]
  BY <1>1 DEF TableSound, DeleteRow
<1>3. Present' = Present \ {k}
  BY <1>2 DEF Present
<1>4. excused' = [m \in Keys |-> excused'[m]]
      /\ \A m \in Keys : \A c \in Columns : c \in excused[m] => c \in excused'[m]
  <2>1. PICK e : /\ excused' = [excused EXCEPT ![k] = e]
                 /\ e = IF table \in Whole /\ Copies(q, k) # {} THEN Columns \cup {"row"}
                        ELSE excused[k] \ {"row"}
    BY DEF DeleteRow
  <2>2. excused = [m \in Keys |-> excused[m]]
    BY <1>1 DEF TableSound
  <2> QED BY <1>1, <2>1, <2>2
<1>5. call' = [p \in Calls |-> call'[p]] /\ \A p \in Calls : call'[p] = IF p = q THEN y ELSE call[p]
  BY <1>1 DEF TableSound
<1>6. TableSound'
  BY <1>1, <1>2, <1>3, <1>4, <1>5 DEF TableSound
<1>7. ASSUME NEW p \in Calls PROVE CallSound(call[p])'
  <2>1. CASE p = q
    BY <1>5, <2>1
  <2>2. CASE p # q
    <3>1. PICK x : x = call[p]
      OBVIOUS
    <3>2. CallSound(x) /\ call'[p] = x
      BY <1>5, <2>2, <3>1 DEF RowsInv
    <3>3. Fitting(x.row)' = Fitting(x.row)
      BY <1>1 DEF Fitting
    <3>4. x.pc = "save" => Faithful(x)'
      <4> SUFFICES ASSUME x.pc = "save", NEW c \in Columns \ x.cols
                   PROVE  c \in excused'[Told(x.key)] \/ x.row.col[c] = told[Told(x.key)][c]
        BY <1>1 DEF Faithful, Told
      <4>1. x.key \in Keys /\ Told(x.key) \in Keys
        BY <1>1, <3>2, TableFacts DEF CallSound
      <4>2. c \in excused[Told(x.key)] \/ x.row.col[c] = told[Told(x.key)][c]
        BY <3>2 DEF CallSound, Faithful
      <4> QED BY <1>4, <4>1, <4>2
    <3>5. CallSound(x)'
      BY <1>1, <3>2, <3>3, <3>4 DEF CallSound
    <3> QED BY <3>2, <3>5
  <2> QED BY <2>1, <2>2
<1>8. EditsHold'
  <2> SUFFICES ASSUME NEW m \in Present', NEW c \in Columns
               PROVE  c \in excused'[m] \/ entries'[m].col[c] = told[m][c]
    BY <1>1 DEF EditsHold, Told
  <2>1. m \in Present /\ m \in Keys /\ m # k /\ Told(m) = m /\ Shown(m)
    BY <1>3, RowFacts DEF Told, Shown
  <2> QED BY <1>2, <1>4, <2>1, RowFacts
<1>9. DerivedMatches'
  <2>1. ASSUME NEW m \in Present' PROVE Fitting(entries'[m])
    BY <1>2, <1>3, RowFacts
  <2> QED BY <1>1, <2>1 DEF DerivedMatches, Fitting
<1> QED BY <1>6, <1>7, <1>8, <1>9 DEF RowsInv, RowsSound

\* What a call that is not about a copy knows holds whatever the rows are.
LEMMA OtherCallSound ==
    ASSUME NEW y, y.pc \notin {"save", "create", "columns", "delete"}
    PROVE  CallSound(y) /\ CallSound(y)'
<1>1. CallSound(y)
  BY DEF CallSound
<1>2. CallSound(y)'
  BY DEF CallSound
<1> QED BY <1>1, <1>2

LEMMA DeleteOrganizationKeeps ==
    ASSUME RowsInv, NEW q \in Calls, DeleteOrganization(q)
    PROVE  RowsInv'
<1>1. table \notin Single /\ UNCHANGED <<table, lastRow, told>>
  BY DEF DeleteOrganization, Begins, Single
<1>2. PICK k : DeleteRow(q, k) /\ Writes(q, "members", k, Blank(table), {})
  BY DEF DeleteOrganization
<1>3. PICK y : y = [pc |-> "members", key |-> k, row |-> Blank(table), cols |-> {}]
  OBVIOUS
<1>4. call' = [call EXCEPT ![q] = y]
  BY <1>2, <1>3 DEF Writes
<1>5. CallSound(y)'
  BY <1>3, OtherCallSound
<1> QED BY <1>1, <1>2, <1>4, <1>5, DeleteKeeps

LEMMA DeleteReadKeeps ==
    ASSUME RowsInv, NEW q \in Calls, DeleteRead(q)
    PROVE  RowsInv'
<1>1. table \notin Single
  BY DEF DeleteRead, RowsInv, CallSound
<1>2. call' = [call EXCEPT ![q] = NoCall] /\ UNCHANGED <<table, lastRow, told>>
  BY DEF DeleteRead, Ends
<1>3. PICK k : DeleteRow(q, k)
  BY DEF DeleteRead
<1>4. CallSound(NoCall)'
  BY DEF CallSound, NoCall
<1> QED BY <1>1, <1>2, <1>3, <1>4, DeleteKeeps

LEMMA DeletesKeep ==
    ASSUME RowsInv, NEW q \in Calls, NEW t, t \notin Single, Deletes(q, t)
    PROVE  RowsInv'
<1>1. table \notin Single /\ call[q].pc = "ready" /\ UNCHANGED <<table, lastRow, told, call>>
  BY DEF Deletes, Begins
<1>2. PICK k : DeleteRow(q, k)
  BY DEF Deletes
<1>3. PICK y : y = call[q]
  OBVIOUS
<1>4. call' = [call EXCEPT ![q] = y]
  BY <1>1, <1>3 DEF RowsInv, TableSound
<1>5. CallSound(y)'
  BY <1>1, <1>3, OtherCallSound
<1> QED BY <1>1, <1>2, <1>4, <1>5, DeleteKeeps

LEMMA RowsInvInit == PanelRowsInit => RowsInv
<1> SUFFICES ASSUME PanelRowsInit PROVE RowsInv
  OBVIOUS
<1>1. PICK v \in {0, 1} : \E builtIn \in BOOLEAN :
        LET row == [Made(Edit(Blank(table), [c \in Columns |-> v])) EXCEPT !.builtIn = builtIn] IN
        /\ entries = [k \in Keys |-> IF k <= lastRow THEN row ELSE Gone]
        /\ told = [k \in Keys |-> IF k <= lastRow THEN row.col ELSE Blank(table).col]
  BY DEF PanelRowsInit
<1>2. PICK builtIn \in BOOLEAN :
        LET row == [Made(Edit(Blank(table), [c \in Columns |-> v])) EXCEPT !.builtIn = builtIn] IN
        /\ entries = [k \in Keys |-> IF k <= lastRow THEN row ELSE Gone]
        /\ told = [k \in Keys |-> IF k <= lastRow THEN row.col ELSE Blank(table).col]
  BY <1>1
<1>3. PICK row : row = [Made(Edit(Blank(table), [c \in Columns |-> v])) EXCEPT !.builtIn = builtIn]
  OBVIOUS
<1>4. PICK made : made = Made(Edit(Blank(table), [c \in Columns |-> v]))
  OBVIOUS
<1>5. 0 \in Values /\ 1 \in Values /\ 1 \in Keys /\ lastRow \in {0, 1} /\ table \in Tables
  BY PanelAssumption DEF PanelRowsInit, Values, Keys
<1>6. [c \in Columns |-> v] \in [Columns -> Values]
  BY <1>5
<1>7. made \in RowsOf(table) /\ Fitting(made)
  BY <1>4, <1>6, FreshRows
<1>8. row \in RowsOf(table) /\ Fitting(row)
  BY <1>3, <1>4, <1>7, BuiltInFacts
<1>9. row.col \in [Columns -> Values] /\ Blank(table).col \in [Columns -> Values]
      /\ \A c \in Columns : Blank(table).col[c] = 0
  BY <1>8, BlankFacts DEF RowsOf, Columns
<1>10. /\ entries = [k \in Keys |-> IF k <= lastRow THEN row ELSE Gone]
       /\ told = [k \in Keys |-> IF k <= lastRow THEN row.col ELSE Blank(table).col]
  BY <1>2, <1>3
<1>11. \A k \in Present : k \in Keys /\ k <= lastRow /\ entries[k] = row /\ told[k] = row.col /\ k = 1
  BY <1>5, <1>10 DEF Present, Keys
<1>12. Present = {} => lastRow = 0
  BY <1>5, <1>8, <1>10, RowIsThere DEF Present
<1>13. TableSound
  <2>1. lastRow \in Nat
    BY <1>5
  <2>2. entries \in [Keys -> RowsOf(table) \cup {Gone}] /\ told \in [Keys -> [Columns -> Values]]
    BY <1>8, <1>9, <1>10
  <2>3. excused = [k \in Keys |-> excused[k]] /\ call = [q \in Calls |-> call[q]]
    BY DEF PanelRowsInit
  <2>4. Present = {} => \A c \in Columns : told[1][c] = 0
    BY <1>5, <1>9, <1>10, <1>12
  <2> QED BY <1>5, <1>11, <2>1, <2>2, <2>3, <2>4 DEF TableSound
<1>14. ASSUME NEW q \in Calls PROVE CallSound(call[q])
  <2>1. call[q] = NoCall
    BY DEF PanelRowsInit
  <2> QED BY <2>1, NoCallSound
<1>15. RowsSound
  BY <1>8, <1>11 DEF RowsSound, EditsHold, DerivedMatches, Told, Fitting
<1> QED BY <1>13, <1>14, <1>15 DEF RowsInv

-----------------------------------------------------------------------------
(* Every step *)

LEMMA EditsAre ==
    ASSUME NEW cols, NEW e \in Edits(cols)
    PROVE  \E D : e \in [D -> Values]
BY DEF Edits

LEMMA OneRowKeeps ==
    ASSUME RowsInv, NEW q \in Calls, OneRow(q)
    PROVE  RowsInv'
<1>1. CASE \E D : \E e \in [D -> Values] : \E blind \in BOOLEAN : EditsSettings(q, e, blind)
  <2>1. PICK D : \E e \in [D -> Values] : \E blind \in BOOLEAN : EditsSettings(q, e, blind)
    BY <1>1
  <2>2. PICK e \in [D -> Values] : \E blind \in BOOLEAN : EditsSettings(q, e, blind)
    BY <2>1
  <2> QED BY <2>2, SettingsKeep
<1>2. ASSUME NEW c, NEW v \in Values, NEW blind \in BOOLEAN, EditsSettings(q, [d \in {c} |-> v], blind)
      PROVE  RowsInv'
  <2>1. [d \in {c} |-> v] \in [{c} -> Values]
    OBVIOUS
  <2> QED BY <1>1, <1>2, <2>1
<1>3. CASE handleSetSettings(q)
  BY <1>2, <1>3 DEF handleSetSettings
<1>4. CASE handleSetRuntimeConfig(q)
  BY <1>2, <1>4 DEF handleSetRuntimeConfig
<1>5. CASE handleSetBotConfig(q)
  BY <1>2, <1>5 DEF handleSetBotConfig
<1>6. CASE handleSetWebhookSettings(q) \/ handleCreateWebhook(q)
  BY <1>2, <1>6 DEF handleSetWebhookSettings, handleCreateWebhook
<1>7. CASE handleDeleteWebhook(q)
  <2>1. 0 \in Values
    BY PanelAssumption DEF Values
  <2> QED BY <1>2, <1>7, <2>1 DEF handleDeleteWebhook
<1>8. CASE UpdateConfig(q)
  BY <1>8, UpdateConfigKeeps
<1>9. CASE VerifyTracking(q) \/ VerifyUnsubscribe(q)
  BY <1>9, VerifiesKeeps DEF VerifyTracking, VerifyUnsubscribe
<1> QED BY <1>3, <1>4, <1>5, <1>6, <1>7, <1>8, <1>9 DEF OneRow

\* A request for a row with the given values.
LEMMA FreshKeeps ==
    ASSUME RowsInv, NEW q \in Calls, NEW t, NEW D, NEW e \in [D -> Values],
           Creates(q, t, Made(Edit(Blank(table), e)))
    PROVE  RowsInv'
<1>1. PICK row : row = Made(Edit(Blank(table), e))
  OBVIOUS
<1>2. row \in RowsOf(table) /\ Fitting(row)
  BY <1>1, FreshRows
<1>3. table = t /\ Creates(q, t, row)
  BY <1>1 DEF Creates, Begins
<1> QED BY <1>2, <1>3, CreatesKeep

\* A request for a row of a table whose rows have nothing to edit.
LEMMA BlankKeeps ==
    ASSUME RowsInv, NEW q \in Calls, NEW t, Creates(q, t, Blank(t))
    PROVE  RowsInv'
<1>1. Blank(t) \in RowsOf(t) /\ (table = t => Fitting(Blank(t)))
  BY BlankFacts DEF Fitting, Columns
<1> QED BY <1>1, CreatesKeep

LEMMA TextsKeep ==
    ASSUME RowsInv, NEW q \in Calls, Texts(q)
    PROVE  RowsInv'
<1>1. {"templates", "templatesV2", "campaignsV2"} \cap Single = {}
      /\ "templates" \in Whole /\ {"templatesV2", "campaignsV2"} \subseteq Columnar
  BY DEF Single, Whole, Columnar
<1>2. CASE CreateTemplate(q)
  <2>1. PICK e \in [{"content"} -> Values], b \in BOOLEAN :
          Creates(q, "templates", [Made(Edit(Blank(table), e)) EXCEPT !.builtIn = b])
    BY <1>2 DEF CreateTemplate
  <2>2. PICK row : row = Made(Edit(Blank(table), e))
    OBVIOUS
  <2>3. row \in RowsOf(table) /\ Fitting(row)
    BY <2>2, FreshRows
  <2>4. PICK copy : copy = [row EXCEPT !.builtIn = b]
    OBVIOUS
  <2>5. copy \in RowsOf(table) /\ Fitting(copy) /\ Creates(q, "templates", copy)
    BY <2>1, <2>2, <2>3, <2>4, BuiltInFacts
  <2> QED BY <2>5, CreatesKeep
<1>3. CASE UpdateTemplate(q)
  BY <1>1, <1>3, UpdatesKeep DEF UpdateTemplate
<1>4. CASE DeleteTemplate(q) \/ DeleteCampaignV2(q)
  BY <1>1, <1>4, ReadsToDeleteKeep DEF DeleteTemplate, DeleteCampaignV2
<1>5. CASE CloneTemplate(q)
  <2>1. PICK k \in Present : Creates(q, "templates", [entries[k] EXCEPT !.builtIn = FALSE])
    BY <1>5 DEF CloneTemplate
  <2>2. PICK row : row = entries[k]
    OBVIOUS
  <2>3. row \in RowsOf(table) /\ Fitting(row)
    BY <2>2, RowFacts
  <2>4. PICK copy : copy = [row EXCEPT !.builtIn = FALSE]
    OBVIOUS
  <2>5. copy \in RowsOf(table) /\ Fitting(copy) /\ Creates(q, "templates", copy)
    BY <2>1, <2>2, <2>3, <2>4, BuiltInFacts
  <2> QED BY <2>5, CreatesKeep
<1>6. CASE SeedBuiltInTemplates(q)
  <2>1. table = "templates" /\ Creates(q, "templates", [Blank("templates") EXCEPT !.builtIn = TRUE])
    BY <1>6 DEF SeedBuiltInTemplates, Creates, Begins
  <2>2. PICK row : row = Blank("templates")
    OBVIOUS
  <2>3. row \in RowsOf(table) /\ Fitting(row)
    BY <2>1, <2>2, BlankFacts DEF Fitting, Columns
  <2>4. PICK copy : copy = [row EXCEPT !.builtIn = TRUE]
    OBVIOUS
  <2>5. copy \in RowsOf(table) /\ Fitting(copy) /\ Creates(q, "templates", copy)
    BY <2>1, <2>2, <2>3, <2>4, BuiltInFacts
  <2> QED BY <2>5, CreatesKeep
<1>7. CASE CreateTemplateV2(q) \/ CreateCampaignV2(q)
  BY <1>7, FreshKeeps DEF CreateTemplateV2, CreateCampaignV2
<1>8. CASE UpdateTemplateV2(q) \/ UpdateCampaignV2(q)
  <2>1. PICK t \in {"templatesV2", "campaignsV2"}, e \in Edits(Columns) : Updates(q, t, "columns", e)
    BY <1>8 DEF UpdateTemplateV2, UpdateCampaignV2
  <2>2. PICK D : e \in [D -> Values]
    BY EditsAre
  <2> QED BY <1>1, <2>1, <2>2, UpdatesKeep
<1>9. CASE DeleteTemplateV2(q)
  BY <1>1, <1>9, DeletesKeep DEF DeleteTemplateV2
<1> QED BY <1>2, <1>3, <1>4, <1>5, <1>6, <1>7, <1>8, <1>9 DEF Texts

LEMMA GroupsKeep ==
    ASSUME RowsInv, NEW q \in Calls, Groups(q)
    PROVE  RowsInv'
<1>1. {"tags", "tagsV2", "segments", "segmentsV2"} \cap Single = {}
      /\ {"tags", "segments", "segmentsV2"} \subseteq Whole /\ "tagsV2" \in Columnar
  BY DEF Single, Whole, Columnar
<1>2. CASE CreateTag(q) \/ CreateTagV2(q) \/ CreateSegment(q) \/ CreateSegmentV2(q)
  BY <1>2, FreshKeeps DEF CreateTag, CreateTagV2, CreateSegment, CreateSegmentV2
<1>3. CASE UpdateTag(q) \/ UpdateTagV2(q)
  <2>1. PICK e \in Edits(Columns) : Updates(q, "tags", "save", e) \/ Updates(q, "tagsV2", "columns", e)
    BY <1>3 DEF UpdateTag, UpdateTagV2
  <2>2. PICK D : e \in [D -> Values]
    BY EditsAre
  <2>3. CASE Updates(q, "tags", "save", e)
    BY <1>1, <2>2, <2>3, UpdatesKeep
  <2>4. CASE Updates(q, "tagsV2", "columns", e)
    BY <1>1, <2>2, <2>4, UpdatesKeep
  <2> QED BY <2>1, <2>3, <2>4
<1>4. CASE UpdateSegment(q)
  BY <1>1, <1>4, UpdatesKeep DEF UpdateSegment
<1>5. CASE RefreshSegment(q) \/ RefreshSegmentV2(q)
  <2>1. NoEdits \in [{} -> Values]
    BY DEF NoEdits
  <2>2. PICK t \in {"segments", "segmentsV2"} : Updates(q, t, "save", NoEdits)
    BY <1>5 DEF RefreshSegment, RefreshSegmentV2
  <2> QED BY <1>1, <2>1, <2>2, UpdatesKeep
<1>6. CASE DeleteTag(q) \/ DeleteTagV2(q)
  BY <1>1, <1>6, ReadsToDeleteKeep DEF DeleteTag, DeleteTagV2
<1>7. CASE AddToSubscriber(q) \/ RemoveFromSubscriber(q)
  BY <1>7, ChildrenKeep
<1>8. CASE DeleteSegment(q) \/ DeleteSegmentV2(q)
  BY <1>1, <1>8, DeletesKeep DEF DeleteSegment, DeleteSegmentV2
<1> QED BY <1>2, <1>3, <1>4, <1>5, <1>6, <1>7, <1>8 DEF Groups

LEMMA OthersKeep ==
    ASSUME RowsInv, NEW q \in Calls, Others(q)
    PROVE  RowsInv'
<1>1. {"webhooksV2", "organizations", "keys", "keysV2", "suppressions", "ips"} \cap Single = {}
      /\ "webhooksV2" \in Whole /\ "organizations" \in Columnar
  BY DEF Single, Whole, Columnar
<1>2. CASE CreateWebhookV2(q) \/ CreateOrganization(q)
  BY <1>2, FreshKeeps DEF CreateWebhookV2, CreateOrganization
<1>3. CASE UpdateWebhookV2(q) \/ UpdateOrganization(q)
  <2>1. PICK e \in Edits(Columns) :
          Updates(q, "webhooksV2", "save", e) \/ Updates(q, "organizations", "columns", e)
    BY <1>3 DEF UpdateWebhookV2, UpdateOrganization
  <2>2. PICK D : e \in [D -> Values]
    BY EditsAre
  <2>3. CASE Updates(q, "webhooksV2", "save", e)
    BY <1>1, <2>2, <2>3, UpdatesKeep
  <2>4. CASE Updates(q, "organizations", "columns", e)
    BY <1>1, <2>2, <2>4, UpdatesKeep
  <2> QED BY <2>1, <2>3, <2>4
<1>4. CASE CreateKey(q) \/ CreateKeyV2(q) \/ AddSuppressionV2(q) \/ AddIP(q) \/ BulkAddIPs(q)
  BY <1>4, BlankKeeps DEF CreateKey, CreateKeyV2, AddSuppressionV2, AddIP, BulkAddIPs
<1>5. CASE DeleteKey(q)
  BY <1>1, <1>5, ReadsToDeleteKeep DEF DeleteKey
<1>6. CASE DeleteWebhookV2(q) \/ DeleteKeyV2(q) \/ DeleteSuppressionV2(q) \/ DeleteIP(q)
  BY <1>1, <1>6, DeletesKeep DEF DeleteWebhookV2, DeleteKeyV2, DeleteSuppressionV2, DeleteIP
<1>7. CASE DeleteOrganization(q)
  BY <1>7, DeleteOrganizationKeeps
<1> QED BY <1>2, <1>3, <1>4, <1>5, <1>6, <1>7 DEF Others

LEMMA RowsInvStep == RowsInv /\ [PanelRowsNext]_panelRowVars => RowsInv'
<1> SUFFICES ASSUME RowsInv, [PanelRowsNext]_panelRowVars PROVE RowsInv'
  OBVIOUS
<1>1. CASE PanelRowsNext
  <2>1. PICK q \in Calls :
          \/ OneRow(q) \/ Texts(q) \/ Groups(q) \/ Others(q)
          \/ SaveRow(q) \/ UpdateColumns(q) \/ CreateRow(q) \/ DeleteRead(q)
          \/ AddOwner(q) \/ DeleteMembers(q)
    BY <1>1 DEF PanelRowsNext
  <2>2. CASE OneRow(q)
    BY <2>2, OneRowKeeps
  <2>3. CASE Texts(q)
    BY <2>3, TextsKeep
  <2>4. CASE Groups(q)
    BY <2>4, GroupsKeep
  <2>5. CASE Others(q)
    BY <2>5, OthersKeep
  <2>6. CASE SaveRow(q)
    BY <2>6, SaveRowKeeps
  <2>7. CASE UpdateColumns(q)
    BY <2>7, UpdateColumnsKeeps
  <2>8. CASE CreateRow(q)
    BY <2>8, CreateRowKeeps
  <2>9. CASE DeleteRead(q)
    BY <2>9, DeleteReadKeeps
  <2>10. CASE AddOwner(q) \/ DeleteMembers(q)
    BY <2>10, ChildrenKeep
  <2> QED BY <2>1, <2>2, <2>3, <2>4, <2>5, <2>6, <2>7, <2>8, <2>9, <2>10
<1>2. CASE UNCHANGED panelRowVars
  <2>1. UNCHANGED <<table, entries, lastRow, told, excused, call>>
    BY <1>2 DEF panelRowVars
  <2>2. CASE \E q \in Calls : TRUE
    <3>1. PICK q \in Calls : TRUE
      BY <2>2
    <3>2. PICK y : y = call[q]
      OBVIOUS
    <3>3. CallSound(y) /\ call' = [call EXCEPT ![q] = y]
      BY <2>1, <3>2 DEF RowsInv, TableSound
    <3> QED BY <2>1, <3>3, CallsOn
  <2>3. CASE ~\E q \in Calls : TRUE
    <3>1. TableSound'
      BY <2>1 DEF RowsInv, TableSound, Present, Columns
    <3>2. RowsSound'
      BY <2>1 DEF RowsInv, RowsSound, EditsHold, DerivedMatches, Shown, Told, Present, First, Columns
    <3> QED BY <2>3, <3>1, <3>2 DEF RowsInv
  <2> QED BY <2>2, <2>3
<1> QED BY <1>1, <1>2

\* In every table, for every number of requests in progress, rows and values: a row shows the
\* last edit that was answered with success, unless a request with an older copy overlapped
\* it, and what is computed of a column was computed of the value it has (api_v2.go,
\* org_domains.go, tags_segments.go, settings.go).
THEOREM RowsAlwaysSound == PanelRowsSpec => []RowsSound
<1>1. RowsInv => RowsSound
  BY DEF RowsInv
<1> QED BY <1>1, RowsInvInit, RowsInvStep, PTL DEF PanelRowsSpec

(* LogStats *)

LEMMA DayBounds ==
    /\ DayLength \in Nat \ {0}
    /\ \A d \in Nat : DayStart(d) \in Nat /\ DayStart(d + 1) = DayStart(d) + DayLength
    /\ \A d, e \in Nat : d < e => DayStart(d + 1) <= DayStart(e)
<1>1. DayLength \in Nat \ {0}
  BY LogStatsAssumption
<1>2. ASSUME NEW d \in Nat PROVE DayStart(d) \in Nat /\ DayStart(d + 1) = DayStart(d) + DayLength
  BY <1>1 DEF DayStart
<1>3. ASSUME NEW d \in Nat, NEW e \in Nat, d < e PROVE DayStart(d + 1) <= DayStart(e)
  <2>1. PICK k \in Nat : e = (d + 1) + k
    <3>1. e - (d + 1) \in Nat /\ e = (d + 1) + (e - (d + 1))
      BY <1>3
    <3> QED BY <3>1
  <2>2. k * DayLength \in Nat
    BY <1>1
  <2>3. ((d + 1) + k) * DayLength = (d + 1) * DayLength + k * DayLength
    BY <1>1
  <2>4. (d + 1) * DayLength \in Nat
    BY <1>1
  <2> QED BY <2>1, <2>2, <2>3, <2>4 DEF DayStart
<1> QED BY <1>1, <1>2, <1>3

LEMMA DayOfBounds ==
    /\ \A t \in Nat : DayOf(t) \in Nat /\ DayStart(DayOf(t)) <= t /\ t < DayStart(DayOf(t)) + DayLength
    /\ AllDays \subseteq Nat /\ 0 \in AllDays
    /\ \A t \in 0..LastMoment : DayOf(t) \in AllDays
<1>1. ASSUME NEW t \in Nat
      PROVE  DayOf(t) \in Nat /\ DayStart(DayOf(t)) <= t /\ t < DayStart(DayOf(t)) + DayLength
  <2>1. DayLength \in Nat \ {0}
    BY LogStatsAssumption
  <2>2. t \div DayLength \in Nat
    BY <2>1
  <2>3. (t \div DayLength) * DayLength <= t /\ t < (t \div DayLength) * DayLength + DayLength
    BY <2>1
  <2> QED BY <2>2, <2>3 DEF DayOf, DayStart
<1>2. LastMoment \in Nat
  BY LogStatsAssumption
<1>3. AllDays \subseteq Nat /\ 0 \in AllDays
  BY <1>1, <1>2 DEF AllDays
<1>4. ASSUME NEW t \in 0..LastMoment PROVE DayOf(t) \in AllDays
  <2>1. PICK d \in Nat, last \in Nat : d = DayOf(t) /\ last = DayOf(LastMoment)
    BY <1>1, <1>2
  <2>2. DayStart(d) <= t /\ LastMoment < DayStart(last) + DayLength
    BY <1>1, <1>2, <2>1
  <2>3. DayStart(d) \in Nat /\ DayStart(last + 1) = DayStart(last) + DayLength /\ DayStart(last) \in Nat
        /\ DayLength \in Nat
    BY DayBounds
  <2>4. ~(last < d)
    <3>1. last < d => DayStart(last + 1) <= DayStart(d)
      BY DayBounds
    <3> QED BY <1>2, <2>2, <2>3, <3>1
  <2> QED BY <2>1, <2>4 DEF AllDays
<1> QED BY <1>1, <1>3, <1>4

\* The log only grows, and nothing in it is of a time to come.
LogSound ==
    /\ moment \in 0..LastMoment /\ logged \in [0..(LastMoment + 1) -> Nat]
    /\ \A s, t \in 0..(LastMoment + 1) : s <= t => logged[s] <= logged[t]
    /\ \A t \in (moment + 1)..(LastMoment + 1) : logged[t] = logged[moment + 1]

\* Where the events of a day, of a time and of those before another begin and end.
FirstOf(d, from) == IF from > DayStart(d) THEN from ELSE DayStart(d)
EndOf(d, to) == IF to < DayStart(d + 1) THEN to + 1 ELSE DayStart(d + 1)

LEMMA LoggedIs ==
    \A d, from, to :
        LoggedOn(d, from, to) =
            IF FirstOf(d, from) < EndOf(d, to) THEN logged[EndOf(d, to)] - logged[FirstOf(d, from)] ELSE 0
BY DEF LoggedOn, FirstOf, EndOf

LEMMA SpanEnds ==
    ASSUME NEW d \in Nat, NEW from \in Int, NEW to \in Int
    PROVE  /\ FirstOf(d, from) \in Nat /\ FirstOf(d, from) >= DayStart(d) /\ FirstOf(d, from) >= from
           /\ EndOf(d, to) \in Int /\ EndOf(d, to) <= to + 1
           /\ FirstOf(d, 0) = DayStart(d) /\ (from <= DayStart(d) => FirstOf(d, from) = DayStart(d))
           /\ \A e \in Int : to <= e => EndOf(d, to) <= EndOf(d, e)
<1>1. DayStart(d) \in Nat /\ DayStart(d + 1) \in Nat
  BY DayBounds
<1>2. FirstOf(d, from) \in Nat /\ FirstOf(d, from) >= DayStart(d) /\ FirstOf(d, from) >= from
  BY <1>1 DEF FirstOf
<1>3. EndOf(d, to) \in Int /\ EndOf(d, to) <= to + 1
  BY <1>1 DEF EndOf
<1>4. FirstOf(d, 0) = DayStart(d) /\ (from <= DayStart(d) => FirstOf(d, from) = DayStart(d))
  BY <1>1 DEF FirstOf
<1>5. ASSUME NEW e \in Int, to <= e PROVE EndOf(d, to) <= EndOf(d, e)
  BY <1>1, <1>5 DEF EndOf
<1> QED BY <1>2, <1>3, <1>4, <1>5

\* A part of a day holds no more than the day so far.
LEMMA PartOfDay ==
    ASSUME LogSound, NEW d \in Nat, NEW from \in Int, NEW to \in Int, to <= moment
    PROVE  /\ LoggedOn(d, from, to) \in Nat
           /\ LoggedOn(d, from, to) <= LoggedOn(d, 0, moment)
           /\ LoggedOn(d, 0, moment) \in Nat
           /\ \A e \in Int : to <= e /\ e <= moment => LoggedOn(d, from, to) <= LoggedOn(d, from, e)
<1>1. /\ moment \in Nat /\ LastMoment \in Nat /\ moment <= LastMoment
      /\ logged \in [0..(LastMoment + 1) -> Nat]
      /\ \A s, t \in 0..(LastMoment + 1) : s <= t => logged[s] <= logged[t]
  BY LogStatsAssumption DEF LogSound
<1>2. ASSUME NEW f \in Int, NEW g \in Int, NEW t \in Int, NEW u \in Int,
             g <= f, t <= u, u <= moment, FirstOf(d, g) <= FirstOf(d, f)
      PROVE  /\ LoggedOn(d, f, t) \in Nat /\ LoggedOn(d, g, u) \in Nat
             /\ LoggedOn(d, f, t) <= LoggedOn(d, g, u)
  <2>1. PICK a \in Nat, b \in Nat, x \in Int, y \in Int :
          a = FirstOf(d, g) /\ b = FirstOf(d, f) /\ x = EndOf(d, t) /\ y = EndOf(d, u)
    BY SpanEnds
  <2>2. a <= b /\ x <= y /\ y <= u + 1
    BY <1>2, <2>1, SpanEnds
  <2>3. /\ LoggedOn(d, f, t) = IF b < x THEN logged[x] - logged[b] ELSE 0
        /\ LoggedOn(d, g, u) = IF a < y THEN logged[y] - logged[a] ELSE 0
    BY <2>1, LoggedIs
  <2>4. y <= LastMoment + 1
    BY <1>1, <1>2, <2>2
  <2>5. a < y => /\ logged[y] \in Nat /\ logged[a] \in Nat /\ logged[a] <= logged[y]
    BY <1>1, <2>4
  <2>6. b < x => /\ logged[x] \in Nat /\ logged[b] \in Nat /\ logged[b] <= logged[x]
                 /\ logged[x] <= logged[y] /\ logged[a] <= logged[b] /\ a < y
    BY <1>1, <2>2, <2>4
  <2> QED BY <2>3, <2>5, <2>6
<1>3. FirstOf(d, 0) <= FirstOf(d, from) /\ 0 \in Int /\ FirstOf(d, from) \in Nat
  BY SpanEnds
<1>4. CASE from >= 0
  BY <1>1, <1>2, <1>3, <1>4
<1>5. CASE from < 0
  <2>1. FirstOf(d, from) = FirstOf(d, 0)
    <3>1. DayStart(d) \in Nat
      BY DayBounds
    <3> QED BY <1>5, <3>1, SpanEnds
  <2>2. \A t \in Int : LoggedOn(d, from, t) = LoggedOn(d, 0, t)
    BY <2>1, LoggedIs
  <2> QED BY <1>1, <1>2, <1>3, <2>2
<1> QED BY <1>1, <1>4, <1>5

\* What the log has of the past stays as it is, and what it has of a day only grows.
LogGrows ==
    /\ moment \in Nat /\ moment' \in Nat /\ moment <= moment'
    /\ \A d \in Nat : \A from, to \in Int : to < moment => LoggedOn(d, from, to)' = LoggedOn(d, from, to)
    /\ \A d \in Nat : LoggedOn(d, 0, moment)' >= LoggedOn(d, 0, moment)
    /\ \A d \in Nat : LoggedOn(d, 0, moment)' \in Nat /\ LoggedOn(d, 0, moment) \in Nat
    /\ logged'[moment' + 1] >= logged[moment + 1]
    /\ logged'[moment' + 1] \in Nat /\ logged[moment + 1] \in Nat

LEMMA EventGrows == ASSUME LogSound, EventLogged PROVE LogSound' /\ LogGrows
<1>1. /\ moment \in Nat /\ LastMoment \in Nat /\ moment <= LastMoment /\ moment \in 0..LastMoment
      /\ logged \in [0..(LastMoment + 1) -> Nat]
      /\ \A s, t \in 0..(LastMoment + 1) : s <= t => logged[s] <= logged[t]
      /\ \A t \in (moment + 1)..(LastMoment + 1) : logged[t] = logged[moment + 1]
  BY LogStatsAssumption DEF LogSound
<1>2. /\ moment' = moment
      /\ logged' = [t \in 0..(LastMoment + 1) |-> IF t > moment THEN logged[t] + 1 ELSE logged[t]]
  BY <1>1 DEF EventLogged
<1>3. /\ logged' \in [0..(LastMoment + 1) -> Nat]
      /\ \A t \in 0..(LastMoment + 1) : logged[t] \in Nat
           /\ logged'[t] = IF t > moment THEN logged[t] + 1 ELSE logged[t]
  BY <1>1, <1>2
<1>4. \A s, t \in 0..(LastMoment + 1) : s <= t => logged'[s] <= logged'[t]
  <2> SUFFICES ASSUME NEW s \in 0..(LastMoment + 1), NEW t \in 0..(LastMoment + 1), s <= t
               PROVE  logged'[s] <= logged'[t]
    OBVIOUS
  <2>1. logged[s] <= logged[t] /\ logged[s] \in Nat /\ logged[t] \in Nat
    BY <1>1
  <2> QED BY <1>1, <1>3, <2>1
<1>5. \A t \in (moment + 1)..(LastMoment + 1) : logged'[t] = logged'[moment + 1]
  <2> SUFFICES ASSUME NEW t \in (moment + 1)..(LastMoment + 1) PROVE logged'[t] = logged'[moment + 1]
    OBVIOUS
  <2>1. /\ t \in 0..(LastMoment + 1) /\ moment + 1 \in 0..(LastMoment + 1) /\ t > moment
        /\ moment + 1 > moment
    BY <1>1
  <2> QED BY <1>1, <1>3, <2>1
<1>6. LogSound'
  BY <1>1, <1>2, <1>3, <1>4, <1>5 DEF LogSound
<1>7. ASSUME NEW d \in Nat, NEW from \in Int, NEW to \in Int, to < moment
      PROVE  LoggedOn(d, from, to)' = LoggedOn(d, from, to)
  <2>1. PICK a \in Nat, x \in Int : a = FirstOf(d, from) /\ x = EndOf(d, to)
    BY SpanEnds
  <2>2. /\ LoggedOn(d, from, to) = IF a < x THEN logged[x] - logged[a] ELSE 0
        /\ LoggedOn(d, from, to)' = IF a < x THEN logged'[x] - logged'[a] ELSE 0
    BY <2>1 DEF LoggedOn, FirstOf, EndOf
  <2>3. x <= to + 1
    BY <2>1, SpanEnds
  <2>4. a < x => logged'[x] = logged[x] /\ logged'[a] = logged[a]
    BY <1>1, <1>3, <1>7, <2>3
  <2> QED BY <2>2, <2>4
<1>8. ASSUME NEW d \in Nat
      PROVE  /\ LoggedOn(d, 0, moment)' >= LoggedOn(d, 0, moment)
             /\ LoggedOn(d, 0, moment)' \in Nat /\ LoggedOn(d, 0, moment) \in Nat
  <2>0. FirstOf(d, 0) \in Nat /\ EndOf(d, moment) \in Int /\ EndOf(d, moment) <= moment + 1
    <3>1. 0 \in Int /\ moment \in Int
      BY <1>1
    <3> QED BY <3>1, SpanEnds
  <2>1. PICK a \in Nat, x \in Int : a = FirstOf(d, 0) /\ x = EndOf(d, moment)
    BY <2>0
  <2>2. /\ LoggedOn(d, 0, moment) = IF a < x THEN logged[x] - logged[a] ELSE 0
        /\ LoggedOn(d, 0, moment)' = IF a < x THEN logged'[x] - logged'[a] ELSE 0
    BY <1>2, <2>1 DEF LoggedOn, FirstOf, EndOf
  <2>3. x <= moment + 1
    BY <2>0, <2>1
  <2>4. a < x => /\ logged[x] \in Nat /\ logged[a] \in Nat /\ logged[a] <= logged[x]
                 /\ logged'[x] >= logged[x] /\ logged'[a] = logged[a] /\ logged'[x] \in Nat
    BY <1>1, <1>3, <2>3
  <2> QED BY <2>2, <2>4
<1>9. /\ logged'[moment' + 1] >= logged[moment + 1]
      /\ logged'[moment' + 1] \in Nat /\ logged[moment + 1] \in Nat
  BY <1>1, <1>2, <1>3
<1>10. moment \in Nat /\ moment' \in Nat /\ moment <= moment'
  BY <1>1, <1>2
<1>11. LogGrows
  BY <1>7, <1>8, <1>9, <1>10 DEF LogGrows
<1> QED BY <1>6, <1>11

LEMMA MomentGrows == ASSUME LogSound, MomentPasses PROVE LogSound' /\ LogGrows
<1>1. /\ moment \in Nat /\ LastMoment \in Nat /\ moment < LastMoment
      /\ logged \in [0..(LastMoment + 1) -> Nat]
      /\ \A s, t \in 0..(LastMoment + 1) : s <= t => logged[s] <= logged[t]
      /\ \A t \in (moment + 1)..(LastMoment + 1) : logged[t] = logged[moment + 1]
      /\ moment' = moment + 1 /\ logged' = logged
  BY LogStatsAssumption DEF LogSound, MomentPasses
<1>2. /\ moment + 2 \in (moment + 1)..(LastMoment + 1) /\ moment' \in 0..LastMoment
      /\ \A t \in (moment' + 1)..(LastMoment + 1) : t \in (moment + 1)..(LastMoment + 1)
      /\ moment' + 1 = moment + 2
  BY <1>1
<1>3. logged[moment + 2] = logged[moment + 1] /\ logged[moment + 1] \in Nat
  BY <1>1, <1>2
<1>4. LogSound'
  BY <1>1, <1>2, <1>3 DEF LogSound
<1>5. ASSUME NEW d \in Nat, NEW from \in Int, NEW to \in Int, to < moment
      PROVE  LoggedOn(d, from, to)' = LoggedOn(d, from, to)
  BY <1>1 DEF LoggedOn
<1>6. ASSUME NEW d \in Nat
      PROVE  /\ LoggedOn(d, 0, moment)' >= LoggedOn(d, 0, moment)
             /\ LoggedOn(d, 0, moment)' \in Nat /\ LoggedOn(d, 0, moment) \in Nat
  <2>0. 0 \in Int /\ moment \in Int /\ moment + 1 \in Int /\ moment <= moment /\ moment <= moment + 1
    BY <1>1
  <2>1. LoggedOn(d, 0, moment) \in Nat
    BY <2>0, PartOfDay
  <2>7. /\ FirstOf(d, 0) \in Nat /\ EndOf(d, moment) \in Int /\ EndOf(d, moment + 1) \in Int
        /\ EndOf(d, moment + 1) <= (moment + 1) + 1 /\ EndOf(d, moment) <= EndOf(d, moment + 1)
    BY <2>0, SpanEnds
  <2>2. PICK a \in Nat, x \in Int, y \in Int : a = FirstOf(d, 0) /\ x = EndOf(d, moment) /\ y = EndOf(d, moment + 1)
    BY <2>7
  <2>3. /\ LoggedOn(d, 0, moment) = IF a < x THEN logged[x] - logged[a] ELSE 0
        /\ LoggedOn(d, 0, moment)' = IF a < y THEN logged[y] - logged[a] ELSE 0
    BY <1>1, <2>2 DEF LoggedOn, FirstOf, EndOf
  <2>4. y <= moment + 2 /\ x <= y
    BY <2>0, <2>2, <2>7
  <2>5. a < y => /\ logged[y] \in Nat /\ logged[a] \in Nat /\ logged[a] <= logged[y]
    BY <1>1, <2>4
  <2>6. a < x => logged[x] \in Nat /\ logged[x] <= logged[y] /\ a < y
    BY <1>1, <2>4
  <2> QED BY <2>1, <2>3, <2>5, <2>6
<1>7. /\ logged'[moment' + 1] >= logged[moment + 1]
      /\ logged'[moment' + 1] \in Nat /\ logged[moment + 1] \in Nat
  BY <1>1, <1>2, <1>3
<1>8. moment \in Nat /\ moment' \in Nat /\ moment <= moment'
  BY <1>1
<1>9. LogGrows
  BY <1>5, <1>6, <1>7, <1>8 DEF LogGrows
<1> QED BY <1>4, <1>9

LEMMA StillGrows == ASSUME LogSound, UNCHANGED <<moment, logged>> PROVE LogSound' /\ LogGrows
<1>1. moment \in Nat /\ LastMoment \in Nat /\ moment + 1 \in 0..(LastMoment + 1)
      /\ logged[moment + 1] \in Nat
  BY LogStatsAssumption DEF LogSound
<1>2. \A d \in Nat : LoggedOn(d, 0, moment) \in Nat
  BY <1>1, PartOfDay
<1>3. \A d, from, to : LoggedOn(d, from, to)' = LoggedOn(d, from, to)
  BY DEF LoggedOn
<1>4. \A d \in Nat : LoggedOn(d, 0, moment)' = LoggedOn(d, 0, moment)
  BY DEF LoggedOn
<1>5. LogSound'
  BY DEF LogSound
<1> QED BY <1>1, <1>2, <1>3, <1>4, <1>5 DEF LogGrows

-----------------------------------------------------------------------------
Figures == UNION {[S -> Nat] : S \in SUBSET AllDays}
Steps ==
    [pc : {"rest", "scan", "told", "delete", "create", "notify"}, why : Purposes, since : Int,
     cutoff : Int, base : Figures, got : Figures, at : Int, left : SUBSET AllDays]

\* No figure exceeds the log.
Grounded(stats) == \A d \in DOMAIN stats : stats[d] <= LoggedOn(d, 0, moment)

\* All the events of a day that were logged before a time, but for those of days long gone.
SeenBy(stats, cutoff, s) == \A d \in AllDays : Figure(stats, d) >= LoggedOn(d, cutoff, s - 1)

StepSound(x) ==
    /\ x \in Steps
    /\ x.pc = "scan" =>
         /\ x.since \in 0..moment /\ moment - x.since <= ScanTicks
         /\ x.cutoff <= x.since - DayLength
         /\ DOMAIN x.base = AllDays /\ SeenBy(x.base, x.cutoff, x.since)
    /\ x.pc \in {"told", "delete", "create", "notify"} =>
         /\ x.at \in 0..moment /\ Grounded(x.got)
         /\ Figure(x.got, DayOf(x.at)) >= LoggedOn(DayOf(x.at), 0, x.at - CacheTicks - ScanTicks)
    /\ x.pc \in {"delete", "create"} => x.left # {} /\ x.left \subseteq DOMAIN x.got
    /\ x.pc = "notify" => DOMAIN x.got # {}

CacheSound ==
    /\ cached.stats \in Figures /\ Grounded(cached.stats)
    /\ cached.expires \in Int
    /\ \/ cached.expires = 0
       \/ \E s \in 0..moment, cutoff \in Int :
            /\ cached.expires <= s + ScanTicks + CacheTicks
            /\ cutoff <= s - DayLength /\ SeenBy(cached.stats, cutoff, s)

\* Those who have deleted the rows of a day and not yet made theirs.
Creators(d) == {q \in Askers : asker[q].pc = "create" /\ Min(asker[q].left) = d}

TableGrounded ==
    /\ statRows \in [AllDays -> Seq(Nat)]
    /\ \A d \in AllDays :
        /\ \A i \in 1..Len(statRows[d]) : statRows[d][i] <= LoggedOn(d, 0, moment)
        /\ Len(statRows[d]) + Cardinality(Creators(d)) <= Cardinality(Askers)

NoticeGrounded ==
    /\ notices.day \in AllDays /\ notices.n \in Nat
    /\ notices.n <= IF notices.kind = "alarm" THEN LoggedOn(notices.day, 0, moment)
                    ELSE logged[moment + 1]

LogsInv ==
    /\ LogSound /\ CacheSound
    /\ DOMAIN asker = Askers /\ \A q \in Askers : \A x : asker[q] = x => StepSound(x)
    /\ TableGrounded /\ NoticeGrounded

LEMMA SizesOfLogs ==
    /\ CacheTicks \in Nat /\ CacheTicks >= 1 /\ ScanTicks \in Nat /\ DayLength \in Nat /\ DayLength >= 1
    /\ LastMoment \in Nat /\ IsFiniteSet(Askers) /\ Periods \subseteq Nat \ {0} /\ MaxLogged \in Nat
BY LogStatsAssumption

LEMMA GroundedKept ==
    ASSUME LogGrows, NEW stats \in Figures, Grounded(stats) PROVE Grounded(stats)'
<1>1. ASSUME NEW d \in DOMAIN stats PROVE stats[d] <= LoggedOn(d, 0, moment)'
  <2>1. d \in Nat /\ stats[d] \in Nat
    BY DayOfBounds DEF Figures
  <2>2. stats[d] <= LoggedOn(d, 0, moment)
    BY DEF Grounded
  <2>3. LoggedOn(d, 0, moment)' >= LoggedOn(d, 0, moment)
        /\ LoggedOn(d, 0, moment)' \in Nat /\ LoggedOn(d, 0, moment) \in Nat
    BY <2>1 DEF LogGrows
  <2> QED BY <2>1, <2>2, <2>3
<1> QED BY <1>1 DEF Grounded

LEMMA SeenKept ==
    ASSUME LogGrows, NEW stats, NEW cutoff \in Int, NEW s \in 0..moment, SeenBy(stats, cutoff, s)
    PROVE  SeenBy(stats, cutoff, s)'
<1>1. ASSUME NEW d \in AllDays PROVE Figure(stats, d) >= LoggedOn(d, cutoff, s - 1)'
  <2>1. d \in Nat /\ s - 1 \in Int /\ s - 1 < moment
    BY DayOfBounds DEF LogGrows
  <2>2. LoggedOn(d, cutoff, s - 1)' = LoggedOn(d, cutoff, s - 1)
    BY <2>1 DEF LogGrows
  <2> QED BY <2>2 DEF SeenBy
<1> QED BY <1>1 DEF SeenBy, Figure

LEMMA StepKept ==
    ASSUME LogGrows, NEW x, StepSound(x), x.pc = "scan" => moment' - x.since <= ScanTicks
    PROVE  StepSound(x)'
<1>1. x \in Steps
  BY DEF StepSound
<1>2. ASSUME x.pc = "scan"
      PROVE  /\ x.since \in 0..moment' /\ moment' - x.since <= ScanTicks
             /\ x.cutoff <= x.since - DayLength
             /\ DOMAIN x.base = AllDays /\ SeenBy(x.base, x.cutoff, x.since)'
  <2>1. /\ x.since \in 0..moment /\ x.cutoff <= x.since - DayLength
        /\ DOMAIN x.base = AllDays /\ SeenBy(x.base, x.cutoff, x.since)
    BY <1>2 DEF StepSound
  <2>2. x.cutoff \in Int /\ x.since \in Int
    BY <1>1 DEF Steps
  <2>3. SeenBy(x.base, x.cutoff, x.since)'
    BY <2>1, <2>2, SeenKept
  <2>4. x.since \in 0..moment'
    BY <2>1 DEF LogGrows
  <2> QED BY <1>2, <2>1, <2>3, <2>4
<1>3. ASSUME x.pc \in {"told", "delete", "create", "notify"}
      PROVE  /\ x.at \in 0..moment' /\ Grounded(x.got)'
             /\ Figure(x.got, DayOf(x.at)) >= LoggedOn(DayOf(x.at), 0, x.at - CacheTicks - ScanTicks)'
  <2>1. /\ x.at \in 0..moment /\ Grounded(x.got)
        /\ Figure(x.got, DayOf(x.at)) >= LoggedOn(DayOf(x.at), 0, x.at - CacheTicks - ScanTicks)
    BY <1>3 DEF StepSound
  <2>2. x.got \in Figures
    BY <1>1 DEF Steps
  <2>3. Grounded(x.got)'
    BY <2>1, <2>2, GroundedKept
  <2>4. moment \in Nat /\ moment' \in Nat /\ moment <= moment'
    BY DEF LogGrows
  <2>5. x.at \in Nat /\ x.at \in 0..moment' /\ x.at - CacheTicks - ScanTicks \in Int
        /\ x.at - CacheTicks - ScanTicks < moment
    BY <2>1, <2>4, SizesOfLogs
  <2>6. DayOf(x.at) \in Nat
    BY <2>5, DayOfBounds
  <2>7. PICK d \in Nat, to \in Int : d = DayOf(x.at) /\ to = x.at - CacheTicks - ScanTicks
    BY <2>5, <2>6
  <2>8. LoggedOn(d, 0, to)' = LoggedOn(d, 0, to)
    <3>1. 0 \in Int /\ to < moment
      BY <2>5, <2>7
    <3> QED BY <3>1 DEF LogGrows
  <2>9. Figure(x.got, d) >= LoggedOn(d, 0, to)'
    BY <2>1, <2>7, <2>8
  <2>10. Figure(x.got, DayOf(x.at)) >= LoggedOn(DayOf(x.at), 0, x.at - CacheTicks - ScanTicks)'
    BY <2>7, <2>9
  <2> QED BY <2>3, <2>5, <2>10
<1>4. /\ x.pc \in {"delete", "create"} => x.left # {} /\ x.left \subseteq DOMAIN x.got
      /\ x.pc = "notify" => DOMAIN x.got # {}
  BY DEF StepSound
<1> QED BY <1>1, <1>2, <1>3, <1>4 DEF StepSound

LEMMA CacheKept ==
    ASSUME CacheSound, LogGrows, cached' = cached PROVE CacheSound'
<1>1. cached.stats \in Figures /\ Grounded(cached.stats) /\ cached.expires \in Int
  BY DEF CacheSound
<1>2. PICK stats \in Figures, expires \in Int : cached.stats = stats /\ cached.expires = expires
  BY <1>1
<1>3. Grounded(stats)'
  BY <1>1, <1>2, GroundedKept
<1>4. CASE expires = 0
  BY <1>2, <1>3, <1>4 DEF CacheSound
<1>5. ASSUME NEW s \in 0..moment, NEW cutoff \in Int,
             expires <= s + ScanTicks + CacheTicks, cutoff <= s - DayLength, SeenBy(stats, cutoff, s)
      PROVE  CacheSound'
  <2>1. SeenBy(stats, cutoff, s)'
    BY <1>5, SeenKept
  <2>2. s \in 0..moment'
    BY DEF LogGrows
  <2>3. \E t \in 0..moment', c \in Int :
            /\ expires <= t + ScanTicks + CacheTicks
            /\ c <= t - DayLength /\ SeenBy(stats, c, t)'
    BY <1>5, <2>1, <2>2
  <2>4. cached'.stats = stats /\ cached'.expires = expires
    BY <1>2
  <2> QED BY <1>3, <2>3, <2>4 DEF CacheSound
<1> QED BY <1>2, <1>4, <1>5 DEF CacheSound

\* The answer of a scan that began at s, given at a time that is little later.
LEMMA FreshAnswer ==
    ASSUME LogSound, NEW stats \in Figures, NEW s \in 0..moment, NEW cutoff \in Int,
           cutoff <= s - DayLength, SeenBy(stats, cutoff, s), moment - CacheTicks - ScanTicks < s
    PROVE  Figure(stats, DayOf(moment)) >= LoggedOn(DayOf(moment), 0, moment - CacheTicks - ScanTicks)
<1>1. /\ moment \in Nat /\ moment \in 0..LastMoment /\ 0 \in Int /\ s - 1 \in Int /\ s - 1 <= moment
      /\ CacheTicks \in Nat /\ ScanTicks \in Nat /\ DayLength \in Nat
  BY SizesOfLogs DEF LogSound
<1>2. PICK d \in Nat, to \in Int : d = DayOf(moment) /\ to = moment - CacheTicks - ScanTicks
  BY <1>1, DayOfBounds
<1>3. d \in AllDays /\ moment < DayStart(d) + DayLength /\ DayStart(d) \in Nat
  BY <1>1, <1>2, DayOfBounds, DayBounds
<1>4. cutoff <= DayStart(d)
  BY <1>1, <1>3
<1>5. to <= s - 1 /\ to <= moment
  BY <1>1, <1>2
<1>6. FirstOf(d, cutoff) = FirstOf(d, 0)
  BY <1>1, <1>4, SpanEnds
<1>7. LoggedOn(d, 0, to) = LoggedOn(d, cutoff, to)
  BY <1>6, LoggedIs
<1>8. LoggedOn(d, cutoff, to) \in Nat /\ LoggedOn(d, cutoff, to) <= LoggedOn(d, cutoff, s - 1)
  BY <1>1, <1>5, PartOfDay
<1>9. LoggedOn(d, cutoff, s - 1) \in Nat
  BY <1>1, PartOfDay
<1>10. Figure(stats, d) >= LoggedOn(d, cutoff, s - 1)
  BY <1>3 DEF SeenBy
<1>11. Figure(stats, d) \in Nat
  BY <1>3, DayOfBounds DEF Figure, Figures
<1>12. Figure(stats, d) >= LoggedOn(d, 0, to)
  BY <1>7, <1>8, <1>9, <1>10, <1>11
<1> QED BY <1>2, <1>12

\* What whoever asks holds after the answer.
LEMMA NoStatsFigures == NoStats \in Figures /\ DOMAIN NoStats = {}
<1>1. NoStats \in [{} -> Nat]
  BY DEF NoStats
<1>2. {} \in SUBSET AllDays
  OBVIOUS
<1>3. NoStats \in Figures
  BY <1>1, <1>2 DEF Figures
<1> QED BY <1>1, <1>3

LEMMA AnswerSound ==
    ASSUME LogSound, NEW stats \in Figures, Grounded(stats), NEW why \in Purposes,
           Figure(stats, DayOf(moment)) >= LoggedOn(DayOf(moment), 0, moment - CacheTicks - ScanTicks)
    PROVE  \A y : y = [pc |-> IF stats = NoStats \/ why = "show" THEN "told"
                              ELSE IF why = "refresh" THEN "delete" ELSE "notify",
                       why |-> why, since |-> 0, cutoff |-> 0, base |-> NoStats, got |-> stats,
                       at |-> moment, left |-> IF why = "refresh" THEN DOMAIN stats ELSE {}]
                  => StepSound(y) /\ y.pc \in {"told", "delete", "notify"}
<1>1. moment \in Nat /\ moment \in 0..moment /\ moment \in Int /\ 0 \in Int
  BY SizesOfLogs DEF LogSound
<1>2. DOMAIN stats \in SUBSET AllDays
  BY DEF Figures
<1>3. PICK left \in SUBSET AllDays, pc \in {"told", "delete", "notify"} :
         /\ left = IF why = "refresh" THEN DOMAIN stats ELSE {}
         /\ pc = IF stats = NoStats \/ why = "show" THEN "told"
                 ELSE IF why = "refresh" THEN "delete" ELSE "notify"
  BY <1>2
<1>4. PICK none \in Figures : none = NoStats
  BY NoStatsFigures
<1>5. stats # NoStats => DOMAIN stats # {}
  BY NoStatsFigures DEF NoStats, Figures
<1>6. pc = "delete" => left = DOMAIN stats /\ left # {}
  BY <1>3, <1>5
<1>7. pc = "notify" => DOMAIN stats # {}
  BY <1>3, <1>5
<1>8. SUFFICES ASSUME NEW y,
                      y = [pc |-> pc, why |-> why, since |-> 0, cutoff |-> 0, base |-> none, got |-> stats,
                           at |-> moment, left |-> left]
               PROVE  StepSound(y) /\ y.pc \in {"told", "delete", "notify"}
  BY <1>3, <1>4
<1>9. y.pc = pc /\ y.got = stats /\ y.at = moment /\ y.left = left
  BY <1>8
<1>10. y \in Steps
  <2>1. pc \in {"rest", "scan", "told", "delete", "create", "notify"}
    BY <1>3
  <2> QED BY <1>1, <1>3, <1>4, <1>8, <2>1 DEF Steps
<1> QED BY <1>1, <1>3, <1>6, <1>7, <1>9, <1>10 DEF StepSound

AskersSound == DOMAIN asker = Askers /\ \A q \in Askers : \A x : asker[q] = x => StepSound(x)

\* While the time stands, one asker takes a step.
LEMMA AskerTurns ==
    ASSUME LogSound, AskersSound, UNCHANGED <<moment, logged>>,
           NEW q \in Askers, NEW y, StepSound(y), Turn(q, y)
    PROVE  AskersSound'
<1>1. LogGrows /\ moment' = moment
  BY StillGrows
<1>2. ASSUME NEW x, StepSound(x) PROVE StepSound(x)'
  <2>1. x.pc = "scan" => moment' - x.since <= ScanTicks
    BY <1>1, <1>2 DEF StepSound
  <2> QED BY <1>1, <1>2, <2>1, StepKept
<1>3. StepSound(y)'
  BY <1>2
<1>4. DOMAIN asker' = Askers
  BY DEF Turn, AskersSound
<1>5. ASSUME NEW p \in Askers, NEW x, asker'[p] = x PROVE StepSound(x)'
  <2>1. x = IF p = q THEN y ELSE asker[p]
    BY <1>5 DEF Turn, AskersSound
  <2>2. CASE p = q
    BY <1>3, <2>1, <2>2
  <2>3. CASE p # q
    <3>1. StepSound(x)
      BY <2>1, <2>3 DEF AskersSound
    <3> QED BY <1>2, <3>1
  <2> QED BY <2>2, <2>3
<1> QED BY <1>4, <1>5 DEF AskersSound

\* The askers are unchanged, and the log has grown.
LEMMA AskersKept ==
    ASSUME AskersSound, LogGrows, UNCHANGED asker,
           \A q \in Askers : asker[q].pc = "scan" => moment' - asker[q].since <= ScanTicks
    PROVE  AskersSound'
<1>1. ASSUME NEW p \in Askers, NEW x, asker'[p] = x PROVE StepSound(x)'
  <2>1. StepSound(x) /\ asker[p] = x
    BY <1>1 DEF AskersSound
  <2>2. x.pc = "scan" => moment' - x.since <= ScanTicks
    BY <2>1
  <2> QED BY <2>1, <2>2, StepKept
<1> QED BY <1>1 DEF AskersSound

LEMMA NoticeKept ==
    ASSUME LogSound, NoticeGrounded, LogGrows, UNCHANGED notices PROVE NoticeGrounded'
<1>1. PICK d \in Nat, n \in Nat : notices.day = d /\ notices.n = n
  BY DayOfBounds DEF NoticeGrounded
<1>2. LoggedOn(d, 0, moment)' >= LoggedOn(d, 0, moment)
      /\ LoggedOn(d, 0, moment)' \in Nat /\ LoggedOn(d, 0, moment) \in Nat
  BY DEF LogGrows
<1>3. CASE notices.kind = "alarm"
  <2>1. n <= LoggedOn(d, 0, moment)
    BY <1>1, <1>3 DEF NoticeGrounded
  <2>2. n <= LoggedOn(d, 0, moment)'
    BY <1>2, <2>1
  <2> QED BY <1>1, <1>3, <2>2 DEF NoticeGrounded
<1>4. CASE notices.kind # "alarm"
  <2>1. n <= logged[moment + 1]
    BY <1>1, <1>4 DEF NoticeGrounded
  <2>2. logged'[moment' + 1] >= logged[moment + 1]
        /\ logged'[moment' + 1] \in Nat /\ logged[moment + 1] \in Nat
    BY DEF LogGrows
  <2>3. n <= logged'[moment' + 1]
    BY <2>1, <2>2
  <2> QED BY <1>1, <1>4, <2>3 DEF NoticeGrounded
<1> QED BY <1>3, <1>4

LEMMA TableKept ==
    ASSUME TableGrounded, LogGrows, UNCHANGED statRows,
           \A d \in AllDays : Creators(d)' = Creators(d)
    PROVE  TableGrounded'
<1>1. statRows' \in [AllDays -> Seq(Nat)]
  BY DEF TableGrounded
<1>2. ASSUME NEW d \in AllDays
      PROVE  /\ \A i \in 1..Len(statRows'[d]) : statRows'[d][i] <= LoggedOn(d, 0, moment)'
             /\ Len(statRows'[d]) + Cardinality(Creators(d)') <= Cardinality(Askers)
  <2>1. PICK rows \in Seq(Nat) : rows = statRows[d]
    BY DEF TableGrounded
  <2>2. /\ \A i \in 1..Len(rows) : rows[i] <= LoggedOn(d, 0, moment)
        /\ Len(rows) + Cardinality(Creators(d)) <= Cardinality(Askers)
    BY <2>1 DEF TableGrounded
  <2>3. /\ LoggedOn(d, 0, moment)' >= LoggedOn(d, 0, moment)
        /\ LoggedOn(d, 0, moment)' \in Nat /\ LoggedOn(d, 0, moment) \in Nat
    BY DayOfBounds DEF LogGrows
  <2>4. ASSUME NEW i \in 1..Len(rows) PROVE rows[i] <= LoggedOn(d, 0, moment)'
    <3>1. rows[i] \in Nat /\ rows[i] <= LoggedOn(d, 0, moment)
      BY <2>1, <2>2
    <3> QED BY <2>3, <3>1
  <2>5. statRows'[d] = rows /\ Creators(d)' = Creators(d)
    BY <2>1
  <2> QED BY <2>2, <2>4, <2>5
<1> QED BY <1>1, <1>2 DEF TableGrounded

\* The set of those who are between a delete and a create changes only with their steps.
LEMMA CreatorsTurn ==
    ASSUME AskersSound, NEW q \in Askers, NEW y, Turn(q, y)
    PROVE  \A d : Creators(d)' =
               IF y.pc = "create" /\ Min(y.left) = d THEN Creators(d) \cup {q} ELSE Creators(d) \ {q}
<1>1. \A p \in Askers : asker'[p] = IF p = q THEN y ELSE asker[p]
  BY DEF AskersSound, Turn
<1> QED BY <1>1 DEF Creators

LEMMA CreatorsFinite ==
    \A d : /\ IsFiniteSet(Creators(d)) /\ Cardinality(Creators(d)) \in Nat
           /\ Cardinality(Creators(d)) <= Cardinality(Askers) /\ Cardinality(Askers) \in Nat
<1> SUFFICES ASSUME NEW d
             PROVE  /\ IsFiniteSet(Creators(d)) /\ Cardinality(Creators(d)) \in Nat
                    /\ Cardinality(Creators(d)) <= Cardinality(Askers) /\ Cardinality(Askers) \in Nat
  OBVIOUS
<1>1. Creators(d) \in SUBSET Askers
  BY DEF Creators
<1> QED BY <1>1, SizesOfLogs, FS_Subset, FS_CardinalityType

\* Who neither was nor comes between a delete and a create leaves the table as it was.
LEMMA TableTurns ==
    ASSUME LogSound, AskersSound, TableGrounded, NEW q \in Askers, NEW y, Turn(q, y),
           asker[q].pc # "create", y.pc # "create", UNCHANGED <<moment, logged, statRows>>
    PROVE  TableGrounded'
<1>1. LogGrows
  BY StillGrows
<1>2. \A d : q \notin Creators(d)
  BY DEF Creators
<1>3. \A d \in AllDays : Creators(d)' = Creators(d)
  BY <1>2, CreatorsTurn
<1> QED BY <1>1, <1>3, TableKept

LEMMA LogsParts ==
    LogsInv <=> LogSound /\ CacheSound /\ AskersSound /\ TableGrounded /\ NoticeGrounded
BY DEF LogsInv, AskersSound

LEMMA FromCacheLogs ==
    ASSUME LogsInv, NEW q \in Askers, NEW why \in Purposes, FromCache(q, why) PROVE LogsInv'
<1>1. LogSound /\ CacheSound /\ AskersSound /\ TableGrounded /\ NoticeGrounded
  BY LogsParts
<1>2. LogSound' /\ LogGrows
  BY <1>1, StillGrows DEF FromCache
<1>3. PICK stats \in Figures, expires \in Int : cached.stats = stats /\ cached.expires = expires
  BY <1>1 DEF CacheSound
<1>4. moment \in Nat /\ moment < expires /\ Grounded(stats)
  BY <1>1, <1>3, SizesOfLogs DEF FromCache, Fresh, LogSound, CacheSound
<1>5. PICK s \in 0..moment, cutoff \in Int :
        /\ expires <= s + ScanTicks + CacheTicks /\ cutoff <= s - DayLength /\ SeenBy(stats, cutoff, s)
  BY <1>1, <1>3, <1>4 DEF CacheSound
<1>6. moment - CacheTicks - ScanTicks < s
  BY <1>3, <1>4, <1>5, SizesOfLogs
<1>7. Figure(stats, DayOf(moment)) >= LoggedOn(DayOf(moment), 0, moment - CacheTicks - ScanTicks)
  BY <1>1, <1>5, <1>6, FreshAnswer
<1>8. PICK y : /\ Turn(q, y) /\ y = [pc |-> IF stats = NoStats \/ why = "show" THEN "told"
                              ELSE IF why = "refresh" THEN "delete" ELSE "notify",
                       why |-> why, since |-> 0, cutoff |-> 0, base |-> NoStats, got |-> stats,
                       at |-> moment, left |-> IF why = "refresh" THEN DOMAIN stats ELSE {}]
  BY <1>3 DEF FromCache, Answered
<1>9. StepSound(y) /\ y.pc \in {"told", "delete", "notify"}
  BY <1>1, <1>4, <1>7, <1>8, AnswerSound
<1>10. /\ UNCHANGED <<moment, logged>> /\ UNCHANGED <<moment, logged, statRows>> /\ UNCHANGED notices
       /\ cached' = cached /\ asker[q].pc # "create"
  BY DEF FromCache, Asks
<1>11. AskersSound'
  BY <1>1, <1>8, <1>9, <1>10, AskerTurns
<1>12. TableGrounded'
  BY <1>1, <1>8, <1>9, <1>10, TableTurns
<1>13. NoticeGrounded' /\ CacheSound'
  BY <1>1, <1>2, <1>10, NoticeKept, CacheKept
<1> QED BY <1>2, <1>11, <1>12, <1>13 DEF LogsInv, AskersSound

\* The events of some days, by day.
LEMMA BaseFigures ==
    ASSUME LogSound, NEW cutoff \in Int
    PROVE  [d \in AllDays |-> LoggedOn(d, cutoff, moment)] \in [AllDays -> Nat]
<1>1. moment \in Int /\ moment <= moment
  BY SizesOfLogs DEF LogSound
<1>2. \A d \in AllDays : LoggedOn(d, cutoff, moment) \in Nat
  BY <1>1, DayOfBounds, PartOfDay
<1> QED BY <1>2

LEMMA BeginScanLogs ==
    ASSUME LogsInv, NEW q \in Askers, NEW why \in Purposes, NEW days \in Periods, BeginScan(q, why, days)
    PROVE  LogsInv'
<1>1. LogSound /\ CacheSound /\ AskersSound /\ TableGrounded /\ NoticeGrounded
  BY LogsParts
<1>2. LogSound' /\ LogGrows
  BY <1>1, StillGrows DEF BeginScan
<1>3. moment \in Nat /\ DayLength \in Nat /\ days \in Nat /\ days >= 1 /\ ScanTicks \in Nat
  BY <1>1, SizesOfLogs DEF LogSound
<1>4. PICK cutoff \in Int : cutoff = moment - days * DayLength
  BY <1>3
<1>5. cutoff <= moment - DayLength
  <2>1. PICK more \in Nat : days = more + 1
    <3>1. days - 1 \in Nat /\ days = (days - 1) + 1
      BY <1>3
    <3> QED BY <3>1
  <2>2. (more + 1) * DayLength = more * DayLength + DayLength /\ more * DayLength \in Nat
    BY <1>3
  <2> QED BY <1>3, <1>4, <2>1, <2>2
<1>6. PICK y : y = Scanning(why, cutoff) /\ Turn(q, y)
  BY <1>4 DEF BeginScan
<1>7. PICK base \in [AllDays -> Nat], none \in Figures :
        base = [d \in AllDays |-> LoggedOn(d, cutoff, moment)] /\ none = NoStats
  BY <1>1, BaseFigures, NoStatsFigures
<1>8. y = [pc |-> "scan", why |-> why, since |-> moment, cutoff |-> cutoff, base |-> base,
           got |-> none, at |-> 0, left |-> {}]
  BY <1>6, <1>7 DEF Scanning
<1>9. SeenBy(base, cutoff, moment)
  <2>1. ASSUME NEW d \in AllDays PROVE Figure(base, d) >= LoggedOn(d, cutoff, moment - 1)
    <3>1. d \in Nat /\ moment - 1 \in Int /\ moment \in Int /\ moment - 1 <= moment /\ moment <= moment
      BY <1>3, DayOfBounds
    <3>2. /\ LoggedOn(d, cutoff, moment - 1) \in Nat
          /\ LoggedOn(d, cutoff, moment - 1) <= LoggedOn(d, cutoff, moment)
      BY <1>1, <3>1, PartOfDay
    <3>3. LoggedOn(d, cutoff, moment) \in Nat
      BY <1>1, <3>1, PartOfDay
    <3>4. Figure(base, d) = LoggedOn(d, cutoff, moment)
      BY <1>7 DEF Figure
    <3> QED BY <3>2, <3>3, <3>4
  <2> QED BY <2>1 DEF SeenBy
<1>10. StepSound(y)
  <2>1. base \in Figures /\ DOMAIN base = AllDays
    BY DEF Figures
  <2>2. y \in Steps
    <3>1. moment \in Int /\ 0 \in Int /\ {} \in SUBSET AllDays
      BY <1>3
    <3> QED BY <1>7, <1>8, <2>1, <3>1 DEF Steps
  <2>3. y.pc = "scan" /\ y.since = moment /\ y.cutoff = cutoff /\ y.base = base
    BY <1>8
  <2>4. moment \in 0..moment /\ moment - moment <= ScanTicks
    BY <1>3
  <2> QED BY <1>5, <1>9, <2>1, <2>2, <2>3, <2>4 DEF StepSound
<1>11. /\ UNCHANGED <<moment, logged>> /\ UNCHANGED <<moment, logged, statRows>> /\ UNCHANGED notices
       /\ cached' = cached /\ asker[q].pc # "create" /\ y.pc # "create"
  BY <1>8 DEF BeginScan, Asks
<1>12. AskersSound'
  BY <1>1, <1>6, <1>10, <1>11, AskerTurns
<1>13. TableGrounded'
  BY <1>1, <1>6, <1>11, TableTurns
<1>14. NoticeGrounded' /\ CacheSound'
  BY <1>1, <1>2, <1>11, NoticeKept, CacheKept
<1> QED BY <1>2, <1>12, <1>13, <1>14 DEF LogsInv, AskersSound

LEMMA EndScanLogs ==
    ASSUME LogsInv, NEW q \in Askers, EndScan(q) PROVE LogsInv'
<1>1. LogSound /\ CacheSound /\ AskersSound /\ TableGrounded /\ NoticeGrounded
  BY LogsParts
<1>2. LogSound' /\ LogGrows
  BY <1>1, StillGrows DEF EndScan
<1>3. PICK x : x = asker[q] /\ StepSound(x) /\ x.pc = "scan"
  BY <1>1 DEF EndScan, AskersSound
<1>4. PICK cutoff \in Int, s \in 0..moment, base \in Figures, why \in Purposes :
        x.cutoff = cutoff /\ x.since = s /\ x.base = base /\ x.why = why
  BY <1>3 DEF StepSound, Steps
<1>5. /\ moment - s <= ScanTicks /\ cutoff <= s - DayLength
      /\ DOMAIN base = AllDays /\ SeenBy(base, cutoff, s)
  BY <1>3, <1>4 DEF StepSound
<1>6. moment \in Nat /\ s \in Nat /\ s <= moment /\ moment \in Int /\ moment <= moment /\ s - 1 \in Int
      /\ s - 1 <= moment
  BY <1>1, SizesOfLogs DEF LogSound
<1>7. PICK seen \in [AllDays -> 0..MaxLogged] :
        /\ \A d \in AllDays : seen[d] \in base[d]..[e \in AllDays |-> LoggedOn(e, cutoff, moment)][d]
        /\ cached' = [stats |-> [d \in {e \in AllDays : seen[e] > 0} |-> seen[d]],
                      expires |-> moment + CacheTicks]
        /\ Answered(q, why, [d \in {e \in AllDays : seen[e] > 0} |-> seen[d]])
  BY <1>3, <1>4 DEF EndScan
<1>8. \A d \in AllDays : seen[d] \in Nat
  BY <1>7, SizesOfLogs
<1>9. PICK stats : stats = [d \in {e \in AllDays : seen[e] > 0} |-> seen[d]]
  OBVIOUS
<1>10. /\ stats \in Figures
       /\ DOMAIN stats \subseteq AllDays /\ \A d \in DOMAIN stats : stats[d] = seen[d]
       /\ \A d \in AllDays : Figure(stats, d) = seen[d]
  <2>1. DOMAIN stats = {e \in AllDays : seen[e] > 0} /\ \A d \in DOMAIN stats : stats[d] = seen[d]
    BY <1>9
  <2>2. stats \in [{e \in AllDays : seen[e] > 0} -> Nat]
    BY <1>8, <1>9
  <2>3. stats \in Figures
    BY <2>2 DEF Figures
  <2>4. \A d \in AllDays : Figure(stats, d) = seen[d]
    BY <1>8, <2>1 DEF Figure
  <2> QED BY <2>1, <2>3, <2>4
<1>11. ASSUME NEW d \in AllDays
       PROVE  base[d] \in Nat /\ base[d] <= seen[d] /\ seen[d] <= LoggedOn(d, 0, moment)
  <2>1. d \in Nat /\ base[d] \in Nat
    BY <1>5, DayOfBounds DEF Figures
  <2>2. /\ LoggedOn(d, cutoff, moment) \in Nat /\ LoggedOn(d, 0, moment) \in Nat
        /\ LoggedOn(d, cutoff, moment) <= LoggedOn(d, 0, moment)
    BY <1>1, <1>6, <2>1, PartOfDay
  <2>3. seen[d] \in base[d]..LoggedOn(d, cutoff, moment)
    BY <1>7
  <2> QED BY <2>1, <2>2, <2>3
<1>12. Grounded(stats)
  BY <1>10, <1>11 DEF Grounded
<1>13. SeenBy(stats, cutoff, s)
  <2>1. ASSUME NEW d \in AllDays PROVE Figure(stats, d) >= LoggedOn(d, cutoff, s - 1)
    <3>1. Figure(base, d) = base[d] /\ Figure(base, d) >= LoggedOn(d, cutoff, s - 1)
      BY <1>5 DEF Figure, SeenBy
    <3>2. LoggedOn(d, cutoff, s - 1) \in Nat
      BY <1>1, <1>6, DayOfBounds, PartOfDay
    <3>3. base[d] \in Nat /\ base[d] <= seen[d] /\ seen[d] \in Nat /\ Figure(stats, d) = seen[d]
      BY <1>8, <1>10, <1>11
    <3> QED BY <3>1, <3>2, <3>3
  <2> QED BY <2>1 DEF SeenBy
<1>14. moment - CacheTicks - ScanTicks < s
  BY <1>5, <1>6, SizesOfLogs
<1>15. Figure(stats, DayOf(moment)) >= LoggedOn(DayOf(moment), 0, moment - CacheTicks - ScanTicks)
  BY <1>1, <1>5, <1>10, <1>13, <1>14, FreshAnswer
<1>16. PICK y : /\ Turn(q, y) /\ y = [pc |-> IF stats = NoStats \/ why = "show" THEN "told"
                              ELSE IF why = "refresh" THEN "delete" ELSE "notify",
                       why |-> why, since |-> 0, cutoff |-> 0, base |-> NoStats, got |-> stats,
                       at |-> moment, left |-> IF why = "refresh" THEN DOMAIN stats ELSE {}]
  BY <1>7, <1>9 DEF Answered
<1>17. StepSound(y) /\ y.pc \in {"told", "delete", "notify"}
  BY <1>1, <1>10, <1>12, <1>15, <1>16, AnswerSound
<1>18. /\ UNCHANGED <<moment, logged>> /\ UNCHANGED <<moment, logged, statRows>> /\ UNCHANGED notices
       /\ asker[q].pc # "create"
  BY <1>3 DEF EndScan
<1>19. AskersSound'
  BY <1>1, <1>16, <1>17, <1>18, AskerTurns
<1>20. TableGrounded'
  BY <1>1, <1>16, <1>17, <1>18, TableTurns
<1>21. NoticeGrounded'
  BY <1>1, <1>2, <1>18, NoticeKept
<1>22. CacheSound'
  <2>1. Grounded(stats)' /\ SeenBy(stats, cutoff, s)'
    BY <1>2, <1>10, <1>12, <1>13, GroundedKept, SeenKept
  <2>2. PICK expires \in Int : expires = moment + CacheTicks /\ expires <= s + ScanTicks + CacheTicks
    BY <1>5, <1>6, SizesOfLogs
  <2>3. cached'.stats = stats /\ cached'.expires = expires /\ moment' = moment
    BY <1>7, <1>9, <1>18, <2>2
  <2>4. \E t \in 0..moment', c \in Int :
            /\ expires <= t + ScanTicks + CacheTicks
            /\ c <= t - DayLength /\ SeenBy(stats, c, t)'
    BY <1>5, <2>1, <2>2, <2>3
  <2> QED BY <1>10, <2>1, <2>3, <2>4 DEF CacheSound
<1> QED BY <1>2, <1>19, <1>20, <1>21, <1>22 DEF LogsInv, AskersSound

\* The day whose rows are replaced next.
LEMMA NextDay ==
    ASSUME AskersSound, NEW q \in Askers, asker[q].pc \in {"delete", "create"}
    PROVE  /\ asker[q] \in Steps /\ StepSound(asker[q]) /\ asker[q].left # {}
           /\ Min(asker[q].left) \in asker[q].left /\ Min(asker[q].left) \in AllDays
           /\ Min(asker[q].left) \in DOMAIN asker[q].got /\ asker[q].got \in Figures
<1>1. StepSound(asker[q]) /\ asker[q] \in Steps /\ asker[q].left # {}
      /\ asker[q].left \subseteq DOMAIN asker[q].got
  BY DEF AskersSound, StepSound
<1>2. asker[q].left \in SUBSET AllDays /\ asker[q].got \in Figures
  BY <1>1 DEF Steps
<1>3. asker[q].left \in SUBSET Nat
  BY <1>2, DayOfBounds
<1>4. Min(asker[q].left) \in asker[q].left
  BY <1>1, <1>3, LeastNumber
<1> QED BY <1>1, <1>2, <1>4

LEMMA DeleteStatsLogs ==
    ASSUME LogsInv, NEW q \in Askers, DeleteStats(q) PROVE LogsInv'
<1>1. LogSound /\ CacheSound /\ AskersSound /\ TableGrounded /\ NoticeGrounded
  BY LogsParts
<1>2. LogSound' /\ LogGrows
  BY <1>1, StillGrows DEF DeleteStats
<1>3. PICK x \in Steps, day \in AllDays :
        /\ x = asker[q] /\ StepSound(x) /\ x.pc = "delete" /\ x.left # {} /\ day = Min(x.left)
  BY <1>1, NextDay DEF DeleteStats
<1>4. PICK y : y = [x EXCEPT !.pc = "create"] /\ Turn(q, y)
  BY <1>3 DEF DeleteStats
<1>5. y.pc = "create" /\ y.left = x.left /\ y.got = x.got /\ y.at = x.at /\ y \in Steps
  BY <1>3, <1>4 DEF Steps
<1>6. StepSound(y)
  BY <1>3, <1>5 DEF StepSound
<1>7. /\ UNCHANGED <<moment, logged>> /\ UNCHANGED notices /\ cached' = cached
      /\ statRows' = [statRows EXCEPT ![day] = <<>>]
  BY <1>3 DEF DeleteStats
<1>8. AskersSound'
  BY <1>1, <1>4, <1>6, <1>7, AskerTurns
<1>9. NoticeGrounded' /\ CacheSound'
  BY <1>1, <1>2, <1>7, NoticeKept, CacheKept
<1>10. \A d : Creators(d)' = IF day = d THEN Creators(d) \cup {q} ELSE Creators(d)
  <2>1. \A d : q \notin Creators(d)
    BY <1>3 DEF Creators
  <2>2. AskersSound /\ Turn(q, y) /\ y.pc = "create" /\ Min(y.left) = day
    BY <1>1, <1>3, <1>4, <1>5
  <2>3. ASSUME NEW d PROVE Creators(d)' = IF day = d THEN Creators(d) \cup {q} ELSE Creators(d)
    <3>1. Creators(d)' = IF day = d THEN Creators(d) \cup {q} ELSE Creators(d) \ {q}
      BY <2>2, CreatorsTurn
    <3>2. Creators(d) \ {q} = Creators(d)
      BY <2>1
    <3> QED BY <3>1, <3>2
  <2> QED BY <2>3
<1>11. statRows \in [AllDays -> Seq(Nat)]
  BY <1>1 DEF TableGrounded
<1>12. statRows' \in [AllDays -> Seq(Nat)]
  BY <1>7, <1>11
<1>13. ASSUME NEW d \in AllDays
       PROVE  /\ \A i \in 1..Len(statRows'[d]) : statRows'[d][i] <= LoggedOn(d, 0, moment)'
              /\ Len(statRows'[d]) + Cardinality(Creators(d)') <= Cardinality(Askers)
  <2>1. CASE d = day
    <3>1. statRows'[d] = <<>> /\ Len(<<>>) = 0
      BY <1>7, <1>11, <2>1
    <3>2. Creators(d)' \in SUBSET Askers
      BY <1>10 DEF Creators
    <3>3. Cardinality(Creators(d)') <= Cardinality(Askers) /\ Cardinality(Creators(d)') \in Nat
      BY <3>2, SizesOfLogs, FS_Subset, FS_CardinalityType
    <3> QED BY <3>1, <3>3
  <2>2. CASE d # day
    <3>1. PICK rows \in Seq(Nat) : rows = statRows[d]
      BY <1>11
    <3>2. /\ \A i \in 1..Len(rows) : rows[i] <= LoggedOn(d, 0, moment)
          /\ Len(rows) + Cardinality(Creators(d)) <= Cardinality(Askers)
      BY <1>1, <3>1 DEF TableGrounded
    <3>3. /\ LoggedOn(d, 0, moment)' >= LoggedOn(d, 0, moment)
          /\ LoggedOn(d, 0, moment)' \in Nat /\ LoggedOn(d, 0, moment) \in Nat
      BY <1>2, DayOfBounds DEF LogGrows
    <3>4. ASSUME NEW i \in 1..Len(rows) PROVE rows[i] <= LoggedOn(d, 0, moment)'
      <4>1. rows[i] \in Nat /\ rows[i] <= LoggedOn(d, 0, moment)
        BY <3>1, <3>2
      <4> QED BY <3>3, <4>1
    <3>5. statRows'[d] = rows /\ Creators(d)' = Creators(d)
      BY <1>7, <1>10, <1>11, <2>2, <3>1
    <3> QED BY <3>2, <3>4, <3>5
  <2> QED BY <2>1, <2>2
<1>14. TableGrounded'
  BY <1>12, <1>13 DEF TableGrounded
<1> QED BY <1>2, <1>8, <1>9, <1>14 DEF LogsInv, AskersSound

LEMMA CreateStatsLogs ==
    ASSUME LogsInv, NEW q \in Askers, CreateStats(q) PROVE LogsInv'
<1>1. LogSound /\ CacheSound /\ AskersSound /\ TableGrounded /\ NoticeGrounded
  BY LogsParts
<1>2. LogSound' /\ LogGrows
  BY <1>1, StillGrows DEF CreateStats
<1>3. PICK x \in Steps, day \in AllDays :
        /\ x = asker[q] /\ StepSound(x) /\ x.pc = "create" /\ x.left # {} /\ day = Min(x.left)
        /\ day \in x.left /\ day \in DOMAIN x.got /\ x.got \in Figures
  BY <1>1, NextDay DEF CreateStats
<1>4. PICK n \in Nat : n = x.got[day] /\ n <= LoggedOn(day, 0, moment)
  <2>1. x.got[day] \in Nat
    BY <1>3 DEF Figures
  <2>2. Grounded(x.got)
    BY <1>3 DEF StepSound
  <2> QED BY <1>3, <2>1, <2>2 DEF Grounded
<1>5. PICK y, pc : /\ pc = (IF x.left = {day} THEN "told" ELSE "delete")
                   /\ y = [x EXCEPT !.left = x.left \ {day}, !.pc = pc] /\ Turn(q, y)
  BY <1>3 DEF CreateStats
<1>6. y.pc = pc /\ y.left = x.left \ {day} /\ y.got = x.got /\ y.at = x.at /\ y \in Steps
  <2>1. PICK days : days = SUBSET AllDays
    OBVIOUS
  <2>2. x.left \ {day} \in days /\ pc \in {"rest", "scan", "told", "delete", "create", "notify"}
    BY <1>3, <1>5, <2>1 DEF Steps
  <2> QED BY <1>3, <1>5, <2>1, <2>2 DEF Steps
<1>7. StepSound(y)
  <2>1. pc \in {"told", "delete"} /\ (pc = "delete" => x.left \ {day} # {})
    BY <1>3, <1>5
  <2>2. /\ x.at \in 0..moment /\ Grounded(x.got) /\ x.left \subseteq DOMAIN x.got
        /\ Figure(x.got, DayOf(x.at)) >= LoggedOn(DayOf(x.at), 0, x.at - CacheTicks - ScanTicks)
    BY <1>3 DEF StepSound
  <2> QED BY <1>6, <2>1, <2>2 DEF StepSound
<1>8. /\ UNCHANGED <<moment, logged>> /\ UNCHANGED notices /\ cached' = cached
      /\ statRows' = [statRows EXCEPT ![day] = Append(statRows[day], n)]
  BY <1>3, <1>4 DEF CreateStats
<1>9. AskersSound'
  BY <1>1, <1>5, <1>7, <1>8, AskerTurns
<1>10. NoticeGrounded' /\ CacheSound'
  BY <1>1, <1>2, <1>8, NoticeKept, CacheKept
<1>11. /\ \A d : Creators(d)' = Creators(d) \ {q}
       /\ \A d : q \in Creators(d) <=> d = day
  <2>1. pc # "create"
    BY <1>5
  <2>2. \A d : q \in Creators(d) <=> d = day
    BY <1>3 DEF Creators
  <2>3. AskersSound /\ Turn(q, y) /\ y.pc # "create"
    BY <1>1, <1>5, <1>6, <2>1
  <2>4. ASSUME NEW d PROVE Creators(d)' = Creators(d) \ {q}
    BY <2>3, CreatorsTurn
  <2> QED BY <2>2, <2>4
<1>12. statRows \in [AllDays -> Seq(Nat)]
  BY <1>1 DEF TableGrounded
<1>13. statRows' \in [AllDays -> Seq(Nat)]
  <2>1. Append(statRows[day], n) \in Seq(Nat)
    BY <1>12
  <2> QED BY <1>8, <1>12, <2>1
<1>14. ASSUME NEW d \in AllDays
       PROVE  /\ \A i \in 1..Len(statRows'[d]) : statRows'[d][i] <= LoggedOn(d, 0, moment)'
              /\ Len(statRows'[d]) + Cardinality(Creators(d)') <= Cardinality(Askers)
  <2>1. PICK rows \in Seq(Nat) : rows = statRows[d]
    BY <1>12
  <2>2. /\ \A i \in 1..Len(rows) : rows[i] <= LoggedOn(d, 0, moment)
        /\ Len(rows) + Cardinality(Creators(d)) <= Cardinality(Askers)
    BY <1>1, <2>1 DEF TableGrounded
  <2>3. /\ LoggedOn(d, 0, moment)' >= LoggedOn(d, 0, moment)
        /\ LoggedOn(d, 0, moment)' \in Nat /\ LoggedOn(d, 0, moment) \in Nat
    BY <1>2, DayOfBounds DEF LogGrows
  <2>4. ASSUME NEW i \in 1..Len(rows) PROVE rows[i] <= LoggedOn(d, 0, moment)'
    <3>1. rows[i] \in Nat /\ rows[i] <= LoggedOn(d, 0, moment)
      BY <2>1, <2>2
    <3> QED BY <2>3, <3>1
  <2>5. CASE d = day
    <3>1. statRows'[d] = Append(rows, n)
      BY <1>8, <1>12, <2>1, <2>5
    <3>2. Len(Append(rows, n)) = Len(rows) + 1 /\ Len(rows) \in Nat
      BY <2>1
    <3>3. n <= LoggedOn(d, 0, moment)'
      BY <1>4, <2>3, <2>5
    <3>4. \A i \in 1..(Len(rows) + 1) : Append(rows, n)[i] <= LoggedOn(d, 0, moment)'
      <4> SUFFICES ASSUME NEW i \in 1..(Len(rows) + 1) PROVE Append(rows, n)[i] <= LoggedOn(d, 0, moment)'
        OBVIOUS
      <4>1. CASE i = Len(rows) + 1
        BY <2>1, <3>3, <4>1
      <4>2. CASE i # Len(rows) + 1
        <5>1. i \in 1..Len(rows)
          BY <3>2, <4>2
        <5>2. Append(rows, n)[i] = rows[i]
          BY <2>1, <5>1
        <5> QED BY <2>4, <5>1, <5>2
      <4> QED BY <4>1, <4>2
    <3>5. Cardinality(Creators(d)') = Cardinality(Creators(d)) - 1
      BY <1>11, <2>5, CreatorsFinite, FS_RemoveElement
    <3>6. Cardinality(Creators(d)) \in Nat /\ Cardinality(Askers) \in Nat
      BY CreatorsFinite
    <3> QED BY <2>2, <3>1, <3>2, <3>4, <3>5, <3>6
  <2>6. CASE d # day
    <3>1. statRows'[d] = rows /\ Creators(d)' = Creators(d)
      BY <1>8, <1>11, <1>12, <2>1, <2>6
    <3> QED BY <2>2, <2>4, <3>1
  <2> QED BY <2>5, <2>6
<1>15. TableGrounded'
  BY <1>13, <1>14 DEF TableGrounded
<1> QED BY <1>2, <1>9, <1>10, <1>15 DEF LogsInv, AskersSound

\* A figure that is in the log ends before now and within its day.
LEMMA FigureInLog ==
    ASSUME LogSound, NEW d \in Nat, NEW n \in Nat, n >= 1, n <= LoggedOn(d, 0, moment)
    PROVE  /\ DayStart(d) \in 0..moment
           /\ logged[DayStart(d)] \in Nat /\ logged[moment + 1] \in Nat
           /\ logged[DayStart(d)] + n <= logged[moment + 1]
           /\ \A e \in Nat : d < e /\ DayStart(e) <= moment =>
                logged[DayStart(e)] \in Nat /\ logged[DayStart(d)] + n <= logged[DayStart(e)]
<1>1. /\ moment \in Nat /\ LastMoment \in Nat /\ moment <= LastMoment
      /\ logged \in [0..(LastMoment + 1) -> Nat]
      /\ \A s, t \in 0..(LastMoment + 1) : s <= t => logged[s] <= logged[t]
  BY SizesOfLogs DEF LogSound
<1>2. PICK a \in Nat, b \in Nat, x \in Int : a = DayStart(d) /\ b = DayStart(d + 1) /\ x = EndOf(d, moment)
  <2>1. moment \in Int
    BY <1>1
  <2>2. EndOf(d, moment) \in Int
    BY <2>1, SpanEnds
  <2>3. DayStart(d) \in Nat /\ DayStart(d + 1) \in Nat
    BY DayBounds
  <2> QED BY <2>2, <2>3
<1>3. FirstOf(d, 0) = a /\ x <= moment + 1 /\ x <= b
  <2>1. 0 \in Int /\ moment \in Int
    BY <1>1
  <2>2. FirstOf(d, 0) = a /\ x <= moment + 1
    BY <1>2, <2>1, SpanEnds
  <2>3. x <= b
    BY <1>1, <1>2 DEF EndOf
  <2> QED BY <2>2, <2>3
<1>4. LoggedOn(d, 0, moment) = IF a < x THEN logged[x] - logged[a] ELSE 0
  BY <1>2, <1>3, LoggedIs
<1>5. a < x /\ n <= logged[x] - logged[a]
  BY <1>4
<1>6. a \in 0..moment /\ x \in 0..(LastMoment + 1) /\ a \in 0..(LastMoment + 1)
      /\ moment + 1 \in 0..(LastMoment + 1)
  BY <1>1, <1>3, <1>5
<1>7. logged[a] \in Nat /\ logged[x] \in Nat /\ logged[moment + 1] \in Nat /\ logged[x] <= logged[moment + 1]
  BY <1>1, <1>3, <1>6
<1>8. ASSUME NEW e \in Nat, d < e, DayStart(e) <= moment
      PROVE  logged[DayStart(e)] \in Nat /\ logged[a] + n <= logged[DayStart(e)]
  <2>1. PICK c \in Nat : c = DayStart(e) /\ b <= c
    BY <1>2, <1>8, DayBounds
  <2>2. c \in 0..(LastMoment + 1) /\ x <= c
    BY <1>1, <1>2, <1>3, <1>8, <2>1
  <2>3. logged[c] \in Nat /\ logged[x] <= logged[c]
    BY <1>1, <1>6, <2>2
  <2> QED BY <1>5, <1>7, <2>1, <2>3
<1> QED BY <1>2, <1>5, <1>6, <1>7, <1>8

\* The figures of some days together do not exceed the log.
LEMMA TotalGrounded ==
    ASSUME LogSound, NEW stats \in Figures, Grounded(stats)
    PROVE  Total(stats) \in Nat /\ Total(stats) <= logged[moment + 1]
<1>1. PICK all \in Nat : all = logged[moment + 1]
  BY SizesOfLogs DEF LogSound
<1>2. PICK pairs : pairs = UNION {{d} \X (1..stats[d]) : d \in DOMAIN stats}
  OBVIOUS
<1>3. ASSUME NEW p \in pairs
      PROVE  p[1] \in DOMAIN stats /\ p[2] \in 1..stats[p[1]] /\ p = <<p[1], p[2]>>
  BY <1>2
<1>4. ASSUME NEW p \in pairs
      PROVE  /\ p[1] \in Nat /\ p[2] \in Nat /\ p[2] >= 1
             /\ DayStart(p[1]) <= moment /\ logged[DayStart(p[1])] \in Nat
             /\ logged[DayStart(p[1])] + p[2] <= all
             /\ \A e \in Nat : p[1] < e /\ DayStart(e) <= moment =>
                  logged[DayStart(e)] \in Nat /\ logged[DayStart(p[1])] + p[2] <= logged[DayStart(e)]
  <2>1. PICK d \in Nat, n \in Nat : d = p[1] /\ n = p[2] /\ d \in DOMAIN stats /\ n \in 1..stats[d]
    <3>1. p[1] \in DOMAIN stats /\ p[2] \in 1..stats[p[1]]
      BY <1>3
    <3>2. DOMAIN stats \subseteq Nat /\ \A d \in DOMAIN stats : stats[d] \in Nat
      BY DayOfBounds DEF Figures
    <3> QED BY <3>1, <3>2
  <2>2. stats[d] \in Nat /\ stats[d] <= LoggedOn(d, 0, moment)
    BY <2>1 DEF Figures, Grounded
  <2>3. LoggedOn(d, 0, moment) \in Nat
    <3>1. 0 \in Int /\ moment \in Int /\ moment <= moment
      BY SizesOfLogs DEF LogSound
    <3> QED BY <3>1, PartOfDay
  <2>4. n >= 1 /\ n <= LoggedOn(d, 0, moment)
    BY <2>1, <2>2, <2>3
  <2>5. moment \in Nat
    BY SizesOfLogs DEF LogSound
  <2> QED BY <1>1, <2>1, <2>4, <2>5, FigureInLog
<1>5. PICK f : f = [p \in pairs |-> logged[DayStart(p[1])] + p[2]]
  OBVIOUS
<1>6. f \in [pairs -> 1..all]
  <2>1. ASSUME NEW p \in pairs PROVE logged[DayStart(p[1])] + p[2] \in 1..all
    BY <1>1, <1>4
  <2> QED BY <1>5, <2>1
<1>7. ASSUME NEW p \in pairs, NEW r \in pairs, f[p] = f[r] PROVE p = r
  <2>1. PICK d \in Nat, i \in Nat, e \in Nat, j \in Nat : d = p[1] /\ i = p[2] /\ e = r[1] /\ j = r[2]
    BY <1>4
  <2>2. PICK a \in Nat, b \in Nat : a = logged[DayStart(d)] /\ b = logged[DayStart(e)]
    BY <1>4, <2>1
  <2>3. a + i = b + j /\ i >= 1 /\ j >= 1
    BY <1>4, <1>5, <1>7, <2>1, <2>2
  <2>4. /\ d < e => a + i <= b
        /\ e < d => b + j <= a
    BY <1>4, <2>1, <2>2
  <2>5. d = e
    BY <2>3, <2>4
  <2>6. i = j
    BY <2>2, <2>3, <2>5
  <2>7. p = <<d, i>> /\ r = <<e, j>>
    BY <1>3, <2>1
  <2> QED BY <2>5, <2>6, <2>7
<1>8. f \in Injection(pairs, 1..all)
  BY <1>6, <1>7 DEF Injection, IsInjective
<1>9. IsFiniteSet(1..all) /\ Cardinality(1..all) = all
  <2>1. 1 \in Int /\ all \in Int
    BY <1>1
  <2>2. IsFiniteSet(1..all) /\ Cardinality(1..all) = IF 1 > all THEN 0 ELSE all - 1 + 1
    BY <2>1, FS_Interval
  <2> QED BY <1>1, <2>2
<1>10. IsFiniteSet(pairs) /\ Cardinality(pairs) <= all
  BY <1>8, <1>9, FS_Injection
<1> QED BY <1>1, <1>2, <1>10, FS_CardinalityType DEF Total

LEMMA GreatestDay == ASSUME NEW S \in SUBSET AllDays, S # {} PROVE Max(S) \in S
<1>1. PICK last \in Nat : last = DayOf(LastMoment)
  BY SizesOfLogs, DayOfBounds
<1>2. S \subseteq 0..last
  BY <1>1 DEF AllDays
<1>3. PICK T : T = {last - d : d \in S}
  OBVIOUS
<1>4. T \in SUBSET Nat /\ T # {}
  BY <1>1, <1>2, <1>3
<1>5. Min(T) \in T /\ \A j \in T : Min(T) <= j
  BY <1>4, LeastNumber
<1>6. PICK x \in S : Min(T) = last - x
  BY <1>3, <1>5
<1>7. \A y \in S : x >= y
  <2> SUFFICES ASSUME NEW y \in S PROVE x >= y
    OBVIOUS
  <2>1. last - y \in T
    BY <1>3
  <2>2. last - x <= last - y
    BY <1>5, <1>6, <2>1
  <2> QED BY <1>2, <2>2
<1> QED BY <1>7 DEF Max

LEMMA NotifyLogs ==
    ASSUME LogsInv, NEW q \in Askers, Notify(q) PROVE LogsInv'
<1>1. LogSound /\ CacheSound /\ AskersSound /\ TableGrounded /\ NoticeGrounded
  BY LogsParts
<1>2. LogSound' /\ LogGrows
  BY <1>1, StillGrows DEF Notify
<1>3. PICK x \in Steps : x = asker[q] /\ StepSound(x) /\ x.pc = "notify"
  BY <1>1 DEF Notify, AskersSound, StepSound
<1>4. PICK y : y = [x EXCEPT !.pc = "told"] /\ Turn(q, y)
  BY <1>3 DEF Notify
<1>5. y.pc = "told" /\ y.got = x.got /\ y.at = x.at /\ y \in Steps
  BY <1>3, <1>4 DEF Steps
<1>6. StepSound(y)
  BY <1>3, <1>5 DEF StepSound
<1>7. /\ UNCHANGED <<moment, logged>> /\ UNCHANGED <<moment, logged, statRows>> /\ cached' = cached
      /\ asker[q].pc # "create" /\ y.pc # "create"
  BY <1>3, <1>5 DEF Notify
<1>8. AskersSound'
  BY <1>1, <1>4, <1>6, <1>7, AskerTurns
<1>9. CacheSound' /\ TableGrounded'
  BY <1>1, <1>2, <1>4, <1>7, CacheKept, TableTurns
<1>10. PICK got \in Figures : got = x.got /\ Grounded(got) /\ DOMAIN got # {}
  BY <1>3 DEF Steps, StepSound
<1>11. PICK top \in AllDays : top = Max(DOMAIN got) /\ top \in DOMAIN got
  BY <1>10, GreatestDay DEF Figures
<1>12. got[top] \in Nat /\ got[top] <= LoggedOn(top, 0, moment)
  BY <1>10, <1>11 DEF Figures, Grounded
<1>13. Total(got) \in Nat /\ Total(got) <= logged[moment + 1]
  BY <1>1, <1>10, TotalGrounded
<1>14. DayOf(moment) \in AllDays
  BY <1>1, DayOfBounds DEF LogSound
<1>15. PICK n \in Nat, m \in Nat, day \in AllDays : n = got[top] /\ m = Total(got) /\ day = DayOf(moment)
  BY <1>12, <1>13, <1>14
<1>16. \/ notices' = notices
       \/ notices' = [kind |-> "alarm", day |-> top, n |-> n]
       \/ notices' = [kind |-> "summary", day |-> day, n |-> m]
  BY <1>3, <1>10, <1>11, <1>15 DEF Notify
<1>17. CASE notices' = notices
  BY <1>1, <1>2, <1>8, <1>9, <1>17, NoticeKept DEF LogsInv, AskersSound
<1>18. CASE notices' = [kind |-> "alarm", day |-> top, n |-> n]
  <2>1. n <= LoggedOn(top, 0, moment)'
    <3>1. LoggedOn(top, 0, moment)' = LoggedOn(top, 0, moment)
      BY <1>7 DEF LoggedOn
    <3> QED BY <1>12, <1>15, <3>1
  <2>2. notices'.day = top /\ notices'.n = n /\ notices'.kind = "alarm"
    BY <1>18
  <2>3. NoticeGrounded'
    BY <2>1, <2>2 DEF NoticeGrounded
  <2> QED BY <1>2, <1>8, <1>9, <2>3 DEF LogsInv, AskersSound
<1>19. CASE notices' = [kind |-> "summary", day |-> day, n |-> m]
  <2>1. m <= logged'[moment' + 1]
    BY <1>7, <1>13, <1>15
  <2>2. notices'.day = day /\ notices'.n = m /\ notices'.kind = "summary"
    BY <1>19
  <2>3. NoticeGrounded'
    BY <2>1, <2>2 DEF NoticeGrounded
  <2> QED BY <1>2, <1>8, <1>9, <2>3 DEF LogsInv, AskersSound
<1> QED BY <1>16, <1>17, <1>18, <1>19

LEMMA LogMoves ==
    ASSUME LogsInv, EventLogged \/ MomentPasses \/ UNCHANGED logStatsVars PROVE LogsInv'
<1>1. LogSound /\ CacheSound /\ AskersSound /\ TableGrounded /\ NoticeGrounded
  BY LogsParts
<1>2. LogSound' /\ LogGrows
  BY <1>1, EventGrows, MomentGrows, StillGrows DEF logStatsVars
<1>3. UNCHANGED asker /\ UNCHANGED notices /\ UNCHANGED statRows /\ cached' = cached
  BY DEF EventLogged, MomentPasses, logStatsVars
<1>4. \A q \in Askers : asker[q].pc = "scan" => moment' - asker[q].since <= ScanTicks
  <2> SUFFICES ASSUME NEW q \in Askers, asker[q].pc = "scan" PROVE moment' - asker[q].since <= ScanTicks
    OBVIOUS
  <2>1. PICK x \in Steps : x = asker[q] /\ StepSound(x) /\ x.pc = "scan"
    BY <1>1 DEF AskersSound, StepSound
  <2>2. PICK s \in Int : s = x.since /\ moment - s <= ScanTicks
    BY <2>1 DEF Steps, StepSound
  <2>3. moment \in Nat /\ ScanTicks \in Nat
    BY <1>1, SizesOfLogs DEF LogSound
  <2>4. CASE MomentPasses
    <3>1. moment - s < ScanTicks /\ moment' = moment + 1
      BY <2>1, <2>2, <2>4 DEF MomentPasses
    <3> QED BY <2>1, <2>2, <2>3, <3>1
  <2>5. CASE moment' = moment
    BY <2>1, <2>2, <2>5
  <2> QED BY <2>4, <2>5 DEF EventLogged, logStatsVars
<1>5. AskersSound'
  BY <1>1, <1>2, <1>3, <1>4, AskersKept
<1>6. \A d \in AllDays : Creators(d)' = Creators(d)
  BY <1>3 DEF Creators
<1>7. CacheSound' /\ TableGrounded' /\ NoticeGrounded'
  BY <1>1, <1>2, <1>3, <1>6, CacheKept, TableKept, NoticeKept
<1> QED BY <1>2, <1>5, <1>7 DEF LogsInv, AskersSound

LEMMA LogsStart == LogStatsInit => LogsInv
<1> SUFFICES ASSUME LogStatsInit PROVE LogsInv
  OBVIOUS
<1> USE DEF LogStatsInit
<1>1. LogSound
  <2>1. moment \in 0..LastMoment /\ logged \in [0..(LastMoment + 1) -> Nat]
    BY SizesOfLogs
  <2>2. \A t \in 0..(LastMoment + 1) : logged[t] = 0
    OBVIOUS
  <2>3. \A t \in (moment + 1)..(LastMoment + 1) : t \in 0..(LastMoment + 1) /\ moment + 1 \in 0..(LastMoment + 1)
    BY SizesOfLogs
  <2> QED BY <2>1, <2>2, <2>3 DEF LogSound
<1>2. CacheSound
  BY NoStatsFigures DEF CacheSound, Grounded
<1>3. AskersSound
  <2>1. PICK none \in Figures : none = NoStats
    BY NoStatsFigures
  <2>2. Resting \in Steps /\ Resting.pc = "rest"
    <3>1. "show" \in Purposes /\ {} \in SUBSET AllDays
      BY DEF Purposes
    <3> QED BY <2>1, <3>1 DEF Resting, Steps
  <2>3. StepSound(Resting)
    BY <2>2 DEF StepSound
  <2> QED BY <2>3 DEF AskersSound
<1>4. TableGrounded
  <2>1. statRows \in [AllDays -> Seq(Nat)]
    OBVIOUS
  <2>2. \A d \in AllDays : statRows[d] = <<>> /\ Len(<<>>) = 0
    OBVIOUS
  <2>3. ASSUME NEW d \in AllDays
        PROVE  /\ \A i \in 1..Len(statRows[d]) : statRows[d][i] <= LoggedOn(d, 0, moment)
               /\ Len(statRows[d]) + Cardinality(Creators(d)) <= Cardinality(Askers)
    <3>1. statRows[d] = <<>> /\ Len(statRows[d]) = 0 /\ 1..Len(statRows[d]) = {}
      BY <2>2
    <3> QED BY <3>1, CreatorsFinite
  <2> QED BY <2>1, <2>3 DEF TableGrounded
<1>5. NoticeGrounded
  <2>1. logged[moment + 1] = 0
    BY SizesOfLogs
  <2> QED BY <2>1, DayOfBounds DEF NoticeGrounded, NoNotice
<1> QED BY <1>1, <1>2, <1>3, <1>4, <1>5 DEF LogsInv, AskersSound

LEMMA LogsNext == LogsInv /\ [LogStatsNext]_logStatsVars => LogsInv'
<1> SUFFICES ASSUME LogsInv, [LogStatsNext]_logStatsVars PROVE LogsInv'
  OBVIOUS
<1>1. CASE EventLogged \/ MomentPasses \/ UNCHANGED logStatsVars
  BY <1>1, LogMoves
<1>2. ASSUME NEW q \in Askers, NEW why \in Purposes, FromCache(q, why) PROVE LogsInv'
  BY <1>2, FromCacheLogs
<1>3. ASSUME NEW q \in Askers, NEW why \in Purposes, NEW days \in Periods, BeginScan(q, why, days)
      PROVE  LogsInv'
  BY <1>3, BeginScanLogs
<1>4. ASSUME NEW q \in Askers, EndScan(q) \/ DeleteStats(q) \/ CreateStats(q) \/ Notify(q) PROVE LogsInv'
  BY <1>4, EndScanLogs, DeleteStatsLogs, CreateStatsLogs, NotifyLogs
<1> QED BY <1>1, <1>2, <1>3, <1>4 DEF LogStatsNext

LEMMA LogsImply == LogsInv => StatsSound
<1> SUFFICES ASSUME LogsInv PROVE StatsSound
  OBVIOUS
<1>1. LogSound /\ CacheSound /\ AskersSound /\ TableGrounded /\ NoticeGrounded
  BY LogsParts
<1>2. TodayFresh
  BY <1>1 DEF AskersSound, StepSound, TodayFresh
<1>3. RowsGrounded
  <2>1. \A d \in DOMAIN cached.stats : cached.stats[d] <= LoggedOn(d, 0, moment)
    BY <1>1 DEF CacheSound, Grounded
  <2>2. ASSUME NEW d \in AllDays
        PROVE  /\ \A i \in DOMAIN statRows[d] : statRows[d][i] <= LoggedOn(d, 0, moment)
               /\ Len(statRows[d]) <= Cardinality(Askers)
    <3>1. /\ \A i \in 1..Len(statRows[d]) : statRows[d][i] <= LoggedOn(d, 0, moment)
          /\ Len(statRows[d]) + Cardinality(Creators(d)) <= Cardinality(Askers)
      BY <1>1 DEF TableGrounded
    <3>2. PICK rows \in Seq(Nat) : rows = statRows[d]
      BY <1>1 DEF TableGrounded
    <3>3. DOMAIN rows = 1..Len(rows) /\ Len(rows) \in Nat
      BY <3>2
    <3> QED BY <3>1, <3>2, <3>3, CreatorsFinite
  <2> QED BY <1>1, <2>1, <2>2 DEF RowsGrounded, NoticeGrounded
<1> QED BY <1>2, <1>3 DEF StatsSound

\* Whatever scans overlap and overtake each other, an answer has all of its own day but what
\* came within a minute and the length of a scan, and no figure that is kept, saved or sent
\* exceeds the log (stats.go:148, db.go:441).
THEOREM StatsAlwaysSound == LogStatsSpec => []StatsSound
<1>1. LogStatsInit => LogsInv
  BY LogsStart
<1>2. LogsInv /\ [LogStatsNext]_logStatsVars => LogsInv'
  BY LogsNext
<1>3. LogsInv => StatsSound
  BY LogsImply
<1> QED BY <1>1, <1>2, <1>3, PTL DEF LogStatsSpec
=============================================================================
