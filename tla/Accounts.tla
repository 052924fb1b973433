------------------------------ MODULE Accounts ------------------------------
(***************************************************************************)
(* Accounts of the control panel and their sessions (src/internal/api/     *)
(* auth.go, users_handler.go, middleware.go; queries in src/internal/      *)
(* store/db.go).  The middleware reads the row of the account before the   *)
(* handler runs, and a handler that changes it writes the whole copy back, *)
(* so what changed in between is undone.  Wrong codes of the second factor *)
(* are counted in Redis or, without it, in memory.                         *)
(*                                                                         *)
(* Password, theme and secret are columns of the same row and are saved    *)
(* with it; of the secret only its presence is kept.                       *)
(***************************************************************************)
EXTENDS Integers, FiniteSets, FiniteSetsExt, Functions

CONSTANTS
    AdminEmails,   \* addresses that accounts can have
    AuthRequests,  \* bound: requests in progress at one time
    MaxAttempts,   \* twoFAMaxAttempts
    MaxSessions,   \* sessions of one account, 3 in CreateSession
    MaxAdmins,     \* bound: accounts created in a behaviour
    MaxAuthWork,   \* bound: requests in a behaviour
    MaxWaits       \* bound: expiries in a behaviour

ASSUME AccountsAssumption ==
    /\ IsFiniteSet(AuthRequests)
    /\ MaxAttempts \in Nat \ {0} /\ MaxSessions \in Nat \ {0} /\ MaxAdmins \in Nat \ {0}
    /\ MaxAuthWork \in Nat /\ MaxWaits \in Nat

VARIABLES
    redis,     \* GetRedisClient returns a client
    admins,    \* admin_users
    joined,    \* organization_users: memberships of each account
    sessions,  \* auth_sessions
    tries,     \* wrong codes counted for an account
    locked,    \* accounts whose second factor is locked
    request,   \* requests in progress
    guesses,   \* history: wrong codes judged since the last lock or success
    lastAdmin, lastSession, authWork, waits

accountVars == <<redis, admins, joined, sessions, tries, locked, request, guesses,
                 lastAdmin, lastSession, authWork, waits>>
codeVars == <<tries, locked, guesses>>
adminVars == <<admins, joined, lastAdmin>>
sessionVars == <<sessions, lastSession>>

AdminIds == 1..MaxAdmins
Codes == {"none", "right", "wrong"}
AdminRows == [id : AdminIds, email : AdminEmails, super : BOOLEAN,
              secret : BOOLEAN, enabled : BOOLEAN]
NoAdmin == [id |-> 0]
NoRequest == [pc |-> "ready", op |-> "none", who |-> NoAdmin, row |-> NoAdmin, code |-> "none",
              aim |-> 0, token |-> 0, seen |-> FALSE]

Supers == {a \in admins : a.super}
IsAt(r, pc) == request[r].pc = pc
Goes(r, q) == request' = [request EXCEPT ![r] = q]
Answers(r) == Goes(r, NoRequest)
SessionsOf(id) == {s \in sessions : s.admin = id}

\* An empty database, or one with super admins (an operator has made the first) who
\* are logged in: one with or without a second factor and wrong codes, or several without.
AccountsInit ==
    /\ redis \in BOOLEAN
    /\ \E n \in 0..MaxAdmins, second \in BOOLEAN, e \in [AdminIds -> AdminEmails] :
        /\ IsInjective(Restrict(e, 1..n))
        /\ second => n <= 1
        /\ admins = {[id |-> i, email |-> e[i], super |-> TRUE,
                      secret |-> second, enabled |-> second] : i \in 1..n}
        /\ sessions = {[token |-> i, admin |-> i, kind |-> "full"] : i \in 1..n}
        /\ lastAdmin = n /\ lastSession = n
        /\ tries \in [AdminIds -> IF second THEN {0, MaxAttempts - 1} ELSE {0}]
        /\ \A i \in AdminIds \ (1..n) : tries[i] = 0
    /\ joined = [i \in AdminIds |-> 0]
    /\ guesses = tries /\ locked = {}
    /\ request = [r \in AuthRequests |-> NoRequest]
    /\ authWork = 0 /\ waits = 0

Admitted(r) == IsAt(r, "ready") /\ authWork < MaxAuthWork /\ authWork' = authWork + 1

-----------------------------------------------------------------------------
(* Requests without a session. *)

\* handleRegister looks for any account, and creates one later.
Register(r) ==
    /\ Admitted(r) /\ admins = {}
    /\ \E e \in AdminEmails :
        Goes(r, [NoRequest EXCEPT !.pc = "create", !.op = "register",
            !.row = [email |-> e, super |-> FALSE, secret |-> FALSE, enabled |-> FALSE]])
    /\ UNCHANGED <<redis, adminVars, sessionVars, codeVars, waits>>

\* handleLogin with the right password: the second factor decides what follows.
Login(r) ==
    /\ Admitted(r)
    /\ \E a \in admins, c \in Codes :
        LET second == a.enabled /\ a.secret
            pc == CASE ~second -> "count"
                    [] second /\ c = "none" -> "count"
                    [] OTHER -> "locked?"
        IN  Goes(r, [NoRequest EXCEPT !.pc = pc, !.who = a, !.code = c,
                        !.op = IF second /\ c = "none" THEN "2fa" ELSE "login"])
    /\ UNCHANGED <<redis, adminVars, sessionVars, codeVars, waits>>

\* handleVerify2FA: the temporary session names the account.
Verify2FA(r) ==
    /\ Admitted(r)
    /\ \E s \in sessions, a \in admins, c \in Codes \ {"none"} :
        /\ s.kind = "2fa" /\ s.admin = a.id
        /\ Goes(r, [NoRequest EXCEPT !.pc = "locked?", !.op = "verify", !.who = a, !.code = c,
                        !.token = s.token])
    /\ UNCHANGED <<redis, adminVars, sessionVars, codeVars, waits>>

-----------------------------------------------------------------------------
(* The second factor. *)

check2FALocked(r) ==
    /\ IsAt(r, "locked?")
    /\ IF request[r].who.id \in locked THEN Answers(r)
       ELSE Goes(r, [request[r] EXCEPT !.pc = "judge"])
    /\ UNCHANGED <<redis, adminVars, sessionVars, codeVars, authWork, waits>>

Locks(id) ==
    /\ tries' = [tries EXCEPT ![id] = 0]
    /\ locked' = locked \cup {id}

\* Mutant: the count is compared before the code at hand is added.
record2FAFailureLate(r) ==
    LET id == request[r].who.id IN
    /\ IsAt(r, "judge") /\ request[r].code = "wrong"
    /\ guesses' = [guesses EXCEPT ![id] = @ + 1]
    /\ IF tries[id] < MaxAttempts
         THEN tries' = [tries EXCEPT ![id] = @ + 1] /\ Answers(r) /\ UNCHANGED locked
         ELSE Locks(id) /\ Answers(r)
    /\ UNCHANGED <<redis, adminVars, sessionVars, authWork, waits>>

\* record2FAFailure: one critical section in memory, several commands in Redis.
record2FAFailure(r) ==
    LET id == request[r].who.id IN
    /\ IsAt(r, "judge") /\ request[r].code = "wrong"
    /\ guesses' = [guesses EXCEPT ![id] = @ + 1]
    /\ IF tries[id] + 1 < MaxAttempts
         THEN tries' = [tries EXCEPT ![id] = @ + 1] /\ Answers(r) /\ UNCHANGED locked
       ELSE IF redis
         THEN /\ tries' = [tries EXCEPT ![id] = @ + 1]
              /\ Goes(r, [request[r] EXCEPT !.pc = "lock"])
              /\ UNCHANGED locked
       ELSE Locks(id) /\ Answers(r)
    /\ UNCHANGED <<redis, adminVars, sessionVars, authWork, waits>>

SetLock(r) ==
    /\ IsAt(r, "lock")
    /\ Locks(request[r].who.id) /\ Answers(r)
    /\ UNCHANGED <<redis, adminVars, sessionVars, guesses, authWork, waits>>

\* The temporary session is deleted after the count is cleared.
clear2FAAttempts(r) ==
    LET q == request[r] IN
    /\ IsAt(r, "judge") /\ q.code = "right"
    /\ tries' = [tries EXCEPT ![q.who.id] = 0]
    /\ locked' = locked \ {q.who.id}
    /\ guesses' = [guesses EXCEPT ![q.who.id] = 0]
    /\ Goes(r, [q EXCEPT !.pc = IF q.op = "verify" THEN "drop" ELSE "count"])
    /\ UNCHANGED <<redis, adminVars, sessionVars, authWork, waits>>

DeleteSession(r) ==
    LET q == request[r] IN
    /\ IsAt(r, "drop")
    /\ sessions' = {s \in sessions : s.token # q.token}
    /\ IF q.op = "logout" THEN Answers(r) ELSE Goes(r, [q EXCEPT !.pc = "count"])
    /\ UNCHANGED <<redis, adminVars, lastSession, codeVars, authWork, waits>>

-----------------------------------------------------------------------------
(* CreateSession counts, and deletes the oldest and creates later. *)

CountSessions(r) ==
    LET id == request[r].who.id
        aim == IF Cardinality(SessionsOf(id)) < MaxSessions THEN 0
               ELSE Min({s.token : s \in SessionsOf(id)})
    IN  /\ IsAt(r, "count")
        /\ Goes(r, [request[r] EXCEPT !.pc = "session", !.token = aim])
        /\ UNCHANGED <<redis, adminVars, sessionVars, codeVars, authWork, waits>>

CreateSession(r) ==
    LET q == request[r] IN
    /\ IsAt(r, "session")
    /\ lastSession' = lastSession + 1
    /\ sessions' = {s \in sessions : s.token # q.token}
         \cup {[token |-> lastSession', admin |-> q.who.id,
                kind |-> IF q.op = "2fa" THEN "2fa" ELSE "full"]}
    /\ Answers(r)
    /\ UNCHANGED <<redis, adminVars, codeVars, authWork, waits>>

-----------------------------------------------------------------------------
(* Requests with a session: what the middleware reads goes with them. *)

PanelOps == {"logout", "setup2FA", "enable2FA", "disable2FA", "theme", "create", "update",
             "delete", "assign", "unassign"}
SuperOps == {"create", "update", "delete", "assign", "unassign"}

\* authMiddleware, and requireSuperAdmin on the row that it read.
authMiddleware(r) ==
    /\ Admitted(r)
    /\ \E s \in sessions, a \in admins, op \in PanelOps :
        /\ s.kind = "full" /\ s.admin = a.id
        /\ op \in SuperOps => a.super
        /\ Goes(r, [NoRequest EXCEPT !.pc = op, !.op = op, !.who = a, !.seen = a.super,
                        !.token = IF op = "logout" THEN s.token ELSE 0])
    /\ UNCHANGED <<redis, adminVars, sessionVars, codeVars, waits>>

handleLogout(r) ==
    /\ IsAt(r, "logout")
    /\ Goes(r, [request[r] EXCEPT !.pc = "drop"])
    /\ UNCHANGED <<redis, adminVars, sessionVars, codeVars, authWork, waits>>

Saves(r, a) == Goes(r, [request[r] EXCEPT !.pc = "save", !.row = a])

\* The handlers of the account's own settings, with the right password or code.
OwnSettings(r) ==
    LET a == request[r].who IN
    /\ \/ IsAt(r, "setup2FA") /\ Saves(r, [a EXCEPT !.secret = TRUE])
       \/ IsAt(r, "enable2FA") /\ a.secret /\ Saves(r, [a EXCEPT !.enabled = TRUE])
       \/ IsAt(r, "enable2FA") /\ ~a.secret /\ Answers(r)
       \/ IsAt(r, "disable2FA") /\ Saves(r, [a EXCEPT !.enabled = FALSE, !.secret = FALSE])
       \/ IsAt(r, "theme") /\ Saves(r, a)
    /\ UNCHANGED <<redis, adminVars, sessionVars, codeVars, authWork, waits>>

\* CreateUser looks for the address first.
CreateUser(r) ==
    /\ IsAt(r, "create") /\ request[r].op = "create" /\ request[r].row = NoAdmin
    /\ \E e \in AdminEmails, super \in BOOLEAN :
        IF \E a \in admins : a.email = e THEN Answers(r)
        ELSE Goes(r, [request[r] EXCEPT !.row =
                 [email |-> e, super |-> super, secret |-> FALSE, enabled |-> FALSE]])
    /\ UNCHANGED <<redis, adminVars, sessionVars, codeVars, authWork, waits>>

\* CreateAdmin: the address is a unique index.  Only a registration logs in.
CreateAdmin(r) ==
    LET q == request[r] IN
    /\ IsAt(r, "create") /\ q.row # NoAdmin
    /\ IF \E a \in admins : a.email = q.row.email
         THEN Answers(r) /\ UNCHANGED <<admins, lastAdmin>>
         ELSE /\ lastAdmin < MaxAdmins /\ lastAdmin' = lastAdmin + 1
              /\ LET a == [id |-> lastAdmin', email |-> q.row.email, super |-> q.row.super,
                           secret |-> FALSE, enabled |-> FALSE]
                 IN  /\ admins' = admins \cup {a}
                     /\ IF q.op = "create" THEN Answers(r)
                        ELSE Goes(r, [q EXCEPT !.pc = "count", !.who = a, !.row = NoAdmin])
    /\ UNCHANGED <<redis, joined, sessionVars, codeVars, authWork, waits>>

\* Mutant: UpdateUser does not look whose account it is.
UpdateUserUnchecked(r) ==
    /\ IsAt(r, "update")
    /\ \E a \in admins, e \in AdminEmails, super \in BOOLEAN :
        Goes(r, [request[r] EXCEPT !.pc = "save", !.seen = a.super,
                    !.row = [a EXCEPT !.email = e, !.super = super]])
    /\ UNCHANGED <<redis, adminVars, sessionVars, codeVars, authWork, waits>>

\* UpdateUser reads the row of the account and keeps one from demoting oneself.
UpdateUser(r) ==
    LET q == request[r] IN
    /\ IsAt(r, "update")
    /\ \E a \in admins, e \in AdminEmails, super \in BOOLEAN :
        IF a.id = q.who.id /\ super # a.super /\ ~super THEN Answers(r)
        ELSE Goes(r, [q EXCEPT !.pc = "save", !.seen = a.super,
                         !.row = [a EXCEPT !.email = e, !.super = super]])
    /\ UNCHANGED <<redis, adminVars, sessionVars, codeVars, authWork, waits>>

\* Save updates the row with that key or, when there is none, inserts it.
UpdateAdmin(r) ==
    LET a == request[r].row
        others == {b \in admins : b.id # a.id}
    IN  /\ IsAt(r, "save")
        /\ admins' = IF \E b \in others : b.email = a.email THEN admins ELSE others \cup {a}
        /\ Answers(r)
        /\ UNCHANGED <<redis, joined, lastAdmin, sessionVars, codeVars, authWork, waits>>

\* DeleteUser keeps one from deleting oneself; the memberships go first.
DeleteUser(r) ==
    LET q == request[r] IN
    /\ IsAt(r, "delete") /\ q.aim = 0
    /\ \E id \in AdminIds :
        IF id = q.who.id THEN Answers(r) /\ UNCHANGED joined
        ELSE /\ joined' = [joined EXCEPT ![id] = 0]
             /\ Goes(r, [q EXCEPT !.aim = id])
    /\ UNCHANGED <<redis, admins, lastAdmin, sessionVars, codeVars, authWork, waits>>

DeleteAdmin(r) ==
    /\ IsAt(r, "delete") /\ request[r].aim # 0
    /\ admins' = {a \in admins : a.id # request[r].aim}
    /\ Answers(r)
    /\ UNCHANGED <<redis, joined, lastAdmin, sessionVars, codeVars, authWork, waits>>

\* AssignUserToOrg looks for the membership and creates it later.
AssignUserToOrg(r) ==
    LET q == request[r] IN
    /\ IsAt(r, "assign")
    /\ IF q.aim = 0
         THEN /\ \E id \in AdminIds :
                  IF joined[id] > 0 THEN Answers(r) ELSE Goes(r, [q EXCEPT !.aim = id])
              /\ UNCHANGED joined
         ELSE Answers(r) /\ joined' = [joined EXCEPT ![q.aim] = @ + 1]
    /\ UNCHANGED <<redis, admins, lastAdmin, sessionVars, codeVars, authWork, waits>>

RemoveUserFromOrg(r) ==
    /\ IsAt(r, "unassign")
    /\ \E id \in AdminIds : joined' = [joined EXCEPT ![id] = 0]
    /\ Answers(r)
    /\ UNCHANGED <<redis, admins, lastAdmin, sessionVars, codeVars, authWork, waits>>

-----------------------------------------------------------------------------
(* What time ends. *)

Waits == waits < MaxWaits /\ waits' = waits + 1
Lapses == UNCHANGED <<redis, adminVars, request, authWork>>

SessionEnds ==
    /\ Waits /\ \E s \in sessions : sessions' = sessions \ {s}
    /\ Lapses /\ UNCHANGED <<lastSession, codeVars>>

\* After fifteen minutes the lock ends.
LockEnds ==
    /\ Waits
    /\ \E id \in locked :
        /\ locked' = locked \ {id}
        /\ tries' = [tries EXCEPT ![id] = IF redis THEN @ ELSE 0]
        /\ guesses' = [guesses EXCEPT ![id] = 0]
    /\ Lapses /\ UNCHANGED sessionVars

\* A key of Redis ends fifteen minutes after the last wrong code.

CountEnds ==
    /\ Waits /\ redis
    /\ \E id \in AdminIds \ locked :
        /\ tries[id] > 0
        /\ tries' = [tries EXCEPT ![id] = 0]
        /\ guesses' = [guesses EXCEPT ![id] = 0]
    /\ Lapses /\ UNCHANGED <<sessionVars, locked>>

Handles(r) ==
    \/ Register(r) \/ Login(r) \/ Verify2FA(r) \/ authMiddleware(r)
    \/ check2FALocked(r) \/ record2FAFailure(r) \/ SetLock(r) \/ clear2FAAttempts(r)
    \/ DeleteSession(r) \/ CountSessions(r) \/ CreateSession(r) \/ handleLogout(r)
    \/ OwnSettings(r) \/ CreateUser(r) \/ CreateAdmin(r) \/ UpdateUser(r) \/ UpdateAdmin(r)
    \/ DeleteUser(r) \/ DeleteAdmin(r) \/ AssignUserToOrg(r) \/ RemoveUserFromOrg(r)

AccountsNext == (\E r \in AuthRequests : Handles(r)) \/ SessionEnds \/ LockEnds \/ CountEnds

AccountsSpec == AccountsInit /\ [][AccountsNext]_accountVars

-----------------------------------------------------------------------------
(* Properties *)

\* Every variable keeps its type, and no two accounts share a key or an address.
AccountsTypeOK ==
    /\ admins \subseteq AdminRows
    /\ \A a, b \in admins : a.id = b.id \/ a.email = b.email => a = b
    /\ joined \in [AdminIds -> 0..MaxAuthWork]
    /\ \A s \in sessions : s.token \in 1..lastSession /\ s.admin \in AdminIds
    /\ tries \in [AdminIds -> 0..(MaxAttempts + MaxAuthWork)] /\ locked \subseteq AdminIds

\* After MaxAttempts wrong codes the second factor is locked (auth.go:160).  Beyond
\* them only requests that had passed the check of the lock are judged, one each.
GuessesBounded ==
    \A id \in AdminIds : guesses[id] < MaxAttempts + Cardinality(AuthRequests)

\* UpdateUser and DeleteUser keep a super admin from removing oneself, so the last one
\* goes only by a request that acts on the past: its account has lost the right since
\* it was admitted, or it writes back a row read before the right was granted.
AdministratorKept ==
    [][Supers # {} /\ Supers' = {} =>
        \E r \in AuthRequests :
            /\ request[r].pc \in {"save", "delete"} /\ request'[r] # request[r]
            /\ \/ request[r].who.id \notin {a.id : a \in Supers}
               \/ ~request[r].seen]_accountVars
=============================================================================
