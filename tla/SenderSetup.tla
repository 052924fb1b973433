---------------------------- MODULE SenderSetup ----------------------------
(***************************************************************************)
(* What a sender needs besides its row: a pair of DKIM keys in two files   *)
(* (src/internal/core/dkim.go) and, for its bounces, an account row with a *)
(* system user (src/internal/core/helpers.go, bounce.go).  The CSV import  *)
(* (src/internal/api/import.go), the setup of one sender, the generation   *)
(* of all keys of a domain and the requests on bounce accounts create them *)
(* one step after the other, and nothing orders these requests.            *)
(*                                                                         *)
(* One domain name; a sender is its local part, which names its selector   *)
(* and its bounce user.  A key is the number of its generation.            *)
(***************************************************************************)
EXTENDS Integers, FiniteSets

CONSTANTS
    Parts,          \* local parts
    SetupWorkers,   \* bound: requests and imports in progress at one time
    MaxSetups,      \* bound: requests and imports in a behaviour
    MaxSetupFaults  \* bound: failing statements and commands, and restarts

ASSUME SetupAssumption == MaxSetups \in Nat /\ MaxSetupFaults \in Nat

VARIABLES
    domain,     \* id of the row with the domain's name, 0 if there is none
    senderRows, \* local part and domain id
    keys,       \* the two files of a selector, 0 if there is no file
    accounts,   \* id of the bounce account with the sender's username, or 0
    users,      \* usernames in the system
    worker,     \* requests and imports in progress
    lastId,     \* last primary key or generation
    torn,       \* history: selectors whose two files two writers may have mixed
    estranged,  \* history: accounts that lost their user
    setups, setupFaults

setupVars == <<domain, senderRows, keys, accounts, users, worker, lastId, torn, estranged,
               setups, setupFaults>>
rowsOfSetup == <<domain, senderRows>>
mailboxVars == <<accounts, users>>
historyOfSetup == <<torn, estranged>>
boundsOfSetup == <<setups, setupFaults>>

Idle == [pc |-> "idle", op |-> "none", todo |-> {}, part |-> "none", domain |-> 0,
         number |-> 0, alone |-> TRUE]
In(w, pc) == worker[w].pc = pc
Sets(w, state) == worker' = [worker EXCEPT ![w] = state]
To(w, pc) == Sets(w, [worker[w] EXCEPT !.pc = pc])
Fails == setupFaults < MaxSetupFaults /\ setupFaults' = setupFaults + 1
NewId == lastId' = lastId + 1
Working(pc, p) == \E w \in SetupWorkers : In(w, pc) /\ worker[w].part = p

\* A new installation, or one with senders or an account.
SetupInit ==
    /\ \/ domain = 0 /\ senderRows = {}
       \/ domain = 1 /\ senderRows \in SUBSET (Parts \X {1})
    /\ keys = [p \in Parts |-> [private |-> 0, public |-> 0]]
    /\ users \in SUBSET Parts /\ Cardinality(users) <= 1
    /\ accounts = [p \in Parts |-> IF p \in users THEN 1 ELSE 0]
    /\ worker = [w \in SetupWorkers |-> Idle]
    /\ lastId = 1 /\ torn = {} /\ estranged = {}
    /\ setups = 0 /\ setupFaults = 0

Begins(w, state) ==
    /\ In(w, "idle") /\ setups < MaxSetups /\ setups' = setups + 1
    /\ Sets(w, state)

\* What comes after the last step for one sender.
Onwards(w) ==
    IF worker[w].op \in {"import", "generate"}
    THEN [worker[w] EXCEPT !.pc = "line", !.part = "none", !.number = 0, !.alone = TRUE]
    ELSE Idle

-----------------------------------------------------------------------------
(* Who sets senders up *)

BeginImport(w) ==
    /\ \E S \in SUBSET Parts : Begins(w, [Idle EXCEPT !.pc = "line", !.op = "import", !.todo = S])
    /\ UNCHANGED <<rowsOfSetup, keys, mailboxVars, lastId, historyOfSetup, setupFaults>>

PartsUnder(d) == {p \in Parts : <<p, d>> \in senderRows}

BeginSetup(w) ==
    /\ domain # 0
    /\ \E p \in PartsUnder(domain) :
        Begins(w, [Idle EXCEPT !.pc = "private", !.op = "setup", !.part = p])
    /\ UNCHANGED <<rowsOfSetup, keys, mailboxVars, lastId, historyOfSetup, setupFaults>>

\* One sender of the domain or all of them; they are read with the domain.
BeginGenerate(w) ==
    /\ domain # 0
    /\ \E S \in {PartsUnder(domain)} \cup {{p} : p \in PartsUnder(domain)} :
        Begins(w, [Idle EXCEPT !.pc = "line", !.op = "generate", !.todo = S])
    /\ UNCHANGED <<rowsOfSetup, keys, mailboxVars, lastId, historyOfSetup, setupFaults>>

\* A line of the file: the domain is looked up once, and its id kept.
NextLine(w) ==
    /\ In(w, "line")
    /\ \/ worker[w].todo = {} /\ Sets(w, Idle)
       \/ \E p \in worker[w].todo :
            LET line == [worker[w] EXCEPT !.todo = @ \ {p}, !.part = p]
            IN  Sets(w, IF worker[w].op = "generate" THEN [line EXCEPT !.pc = "private"]
                        ELSE IF worker[w].domain # 0 THEN [line EXCEPT !.pc = "sender"]
                        ELSE IF domain # 0 THEN [line EXCEPT !.pc = "sender", !.domain = domain]
                        ELSE [line EXCEPT !.pc = "domain"])
    /\ UNCHANGED <<rowsOfSetup, keys, mailboxVars, lastId, historyOfSetup, boundsOfSetup>>

\* If another request has created the domain meanwhile, the line is skipped.
CreateDomain(w) ==
    /\ In(w, "domain")
    /\ IF domain = 0
       THEN /\ NewId /\ domain' = lastId'
            /\ Sets(w, [worker[w] EXCEPT !.pc = "sender", !.domain = lastId'])
       ELSE /\ Sets(w, [worker[w] EXCEPT !.pc = "line", !.part = "none"])
            /\ UNCHANGED <<domain, lastId>>
    /\ UNCHANGED <<senderRows, keys, mailboxVars, historyOfSetup, boundsOfSetup>>

\* Under the id that was kept, whether the domain still exists or not.
CreateSenderRow(w) ==
    /\ In(w, "sender")
    /\ senderRows' = senderRows \cup {<<worker[w].part, worker[w].domain>>}
    /\ IF worker[w].op = "import" THEN To(w, "private") ELSE Sets(w, Idle)
    /\ UNCHANGED <<domain, keys, mailboxVars, lastId, historyOfSetup, boundsOfSetup>>

-----------------------------------------------------------------------------
(* Requests on the rows themselves *)

AddDomain ==
    /\ domain = 0 /\ setups < MaxSetups /\ setups' = setups + 1
    /\ NewId /\ domain' = lastId'
    /\ UNCHANGED <<senderRows, keys, mailboxVars, worker, historyOfSetup, setupFaults>>

BeginUpdateDomain(w) ==
    /\ domain # 0
    /\ Begins(w, [Idle EXCEPT !.pc = "save domain", !.domain = domain, !.todo = PartsUnder(domain)])
    /\ UNCHANGED <<rowsOfSetup, keys, mailboxVars, lastId, historyOfSetup, setupFaults>>

\* Save puts the row and the senders read with it back, if they are gone; with
\* another name the row leaves this model, and its senders with it.
SaveDomain(w) ==
    LET id == worker[w].domain
    IN  /\ In(w, "save domain")
        /\ domain' \in {IF domain = 0 THEN id ELSE domain, IF domain = id THEN 0 ELSE domain}
        /\ senderRows' = senderRows \cup (worker[w].todo \X {id})
        /\ Sets(w, Idle)
        /\ UNCHANGED <<keys, mailboxVars, lastId, historyOfSetup, boundsOfSetup>>

\* SQLite does not enforce the cascade: the senders' rows stay.
DeleteDomain ==
    /\ domain # 0 /\ setups < MaxSetups /\ setups' = setups + 1
    /\ domain' = 0
    /\ UNCHANGED <<senderRows, keys, mailboxVars, worker, lastId, historyOfSetup, setupFaults>>

BeginAddSender(w) ==
    /\ domain # 0
    /\ \E p \in Parts : Begins(w, [Idle EXCEPT !.pc = "sender", !.part = p, !.domain = domain])
    /\ UNCHANGED <<rowsOfSetup, keys, mailboxVars, lastId, historyOfSetup, setupFaults>>

BeginUpdateSender(w) ==
    /\ \E row \in senderRows, p \in Parts :
        Begins(w, [Idle EXCEPT !.pc = "save sender", !.part = row[1], !.domain = row[2], !.todo = {p}])
    /\ UNCHANGED <<rowsOfSetup, keys, mailboxVars, lastId, historyOfSetup, setupFaults>>

\* The row may get another local part; its keys and its account do not follow.
SaveSender(w) ==
    LET h == worker[w]
    IN  /\ In(w, "save sender")
        /\ senderRows' = (senderRows \ {<<h.part, h.domain>>}) \cup (h.todo \X {h.domain})
        /\ Sets(w, Idle)
        /\ UNCHANGED <<domain, keys, mailboxVars, lastId, historyOfSetup, boundsOfSetup>>

DeleteSender ==
    /\ setups < MaxSetups /\ setups' = setups + 1
    /\ \E s \in senderRows : senderRows' = senderRows \ {s}
    /\ UNCHANGED <<domain, keys, mailboxVars, worker, lastId, historyOfSetup, setupFaults>>

-----------------------------------------------------------------------------
(* GenerateDKIMKey *)

WritePrivateKey(w) ==
    LET p == worker[w].part
        meets == Working("public", p)
    IN  /\ In(w, "private")
        /\ NewId
        /\ keys' = [keys EXCEPT ![p].private = lastId']
        /\ worker' = [v \in SetupWorkers |->
              IF v = w THEN [worker[w] EXCEPT !.pc = "public", !.number = lastId', !.alone = ~meets]
              ELSE IF In(v, "public") /\ worker[v].part = p THEN [worker[v] EXCEPT !.alone = FALSE]
              ELSE worker[v]]
        /\ UNCHANGED <<rowsOfSetup, mailboxVars, historyOfSetup, boundsOfSetup>>

Written(w) ==
    Sets(w, IF worker[w].op = "generate" THEN Onwards(w) ELSE [worker[w] EXCEPT !.pc = "user"])

\* Mutant: a public key that is there is kept.
WritePublicKeyOnce(w) ==
    LET p == worker[w].part
    IN  /\ In(w, "public")
        /\ keys' = [keys EXCEPT ![p].public = IF @ = 0 THEN worker[w].number ELSE @]
        /\ torn' = IF worker[w].alone THEN torn \ {p} ELSE torn \cup {p}
        /\ Written(w)
        /\ UNCHANGED <<rowsOfSetup, mailboxVars, lastId, estranged, boundsOfSetup>>

WritePublicKey(w) ==
    LET p == worker[w].part
    IN  /\ In(w, "public")
        /\ keys' = [keys EXCEPT ![p].public = worker[w].number]
        /\ torn' = IF worker[w].alone THEN torn \ {p} ELSE torn \cup {p}
        /\ Written(w)
        /\ UNCHANGED <<rowsOfSetup, mailboxVars, lastId, estranged, boundsOfSetup>>

\* The import and the setup go on; the generation for all senders ends.
PublicKeyFails(w) ==
    /\ In(w, "public") /\ Fails
    /\ torn' = torn \cup {worker[w].part}
    /\ IF worker[w].op = "generate" THEN Sets(w, Idle) ELSE To(w, "user")
    /\ UNCHANGED <<rowsOfSetup, keys, mailboxVars, lastId, estranged, setups>>

-----------------------------------------------------------------------------
(* CreateBounceAccountWithPassword *)

\* A user that exists is taken to have an account.
AddUser(w) ==
    LET p == worker[w].part
    IN  /\ In(w, "user")
        /\ users' = users \cup {p}
        /\ IF p \in users THEN Sets(w, Onwards(w)) ELSE To(w, "account")
        /\ UNCHANGED <<rowsOfSetup, keys, accounts, lastId, historyOfSetup, boundsOfSetup>>

\* A second row with the username is refused.
AddAccount(w) ==
    LET p == worker[w].part
    IN  /\ In(w, "account")
        /\ IF accounts[p] = 0
           THEN NewId /\ accounts' = [accounts EXCEPT ![p] = lastId']
           ELSE UNCHANGED <<accounts, lastId>>
        /\ Sets(w, Onwards(w))
        /\ UNCHANGED <<rowsOfSetup, keys, users, historyOfSetup, boundsOfSetup>>
-----------------------------------------------------------------------------
(* Requests on bounce accounts *)

\* handleSaveBounceAccount without an id: the row comes first.
CreateAccount(w) ==
    /\ \E p \in Parts :
        /\ accounts[p] = 0
        /\ NewId /\ accounts' = [accounts EXCEPT ![p] = lastId']
        /\ Begins(w, [Idle EXCEPT !.pc = "ensure", !.op = "save", !.part = p])
    /\ UNCHANGED <<rowsOfSetup, keys, users, historyOfSetup, setupFaults>>

\* With the id of a row: it may get another username.
BeginUpdate(w) ==
    /\ \E old, p \in Parts :
        /\ accounts[old] # 0
        /\ Begins(w, [Idle EXCEPT !.pc = "update", !.op = "save", !.part = p,
                                  !.number = accounts[old]])
    /\ UNCHANGED <<rowsOfSetup, keys, mailboxVars, lastId, historyOfSetup, setupFaults>>

\* Save puts a row back that has been deleted meanwhile.
UpdateAccount(w) ==
    LET p == worker[w].part
        n == worker[w].number
    IN  /\ In(w, "update")
        /\ IF accounts[p] \in {0, n}
           THEN /\ accounts' = [x \in Parts |-> IF x = p THEN n
                                                ELSE IF accounts[x] = n THEN 0 ELSE accounts[x]]
                /\ To(w, "ensure")
           ELSE Sets(w, Idle) /\ UNCHANGED accounts
        /\ UNCHANGED <<rowsOfSetup, keys, users, lastId, historyOfSetup, boundsOfSetup>>

\* EnsureBounceAccount
EnsureUser(w) ==
    /\ In(w, "ensure")
    /\ users' = users \cup {worker[w].part}
    /\ estranged' = estranged \ {worker[w].part}
    /\ Sets(w, Idle)
    /\ UNCHANGED <<rowsOfSetup, keys, accounts, lastId, torn, boundsOfSetup>>

EnsureFails(w) ==
    /\ In(w, "ensure") /\ Fails
    /\ estranged' = (estranged \cup {worker[w].part}) \ users
    /\ Sets(w, Idle)
    /\ UNCHANGED <<rowsOfSetup, keys, mailboxVars, lastId, torn, setups>>

BeginDelete(w) ==
    /\ \E p \in Parts :
        /\ accounts[p] # 0
        /\ Begins(w, [Idle EXCEPT !.pc = "remove", !.op = "delete", !.part = p,
                                  !.number = accounts[p]])
    /\ UNCHANGED <<rowsOfSetup, keys, mailboxVars, lastId, historyOfSetup, setupFaults>>

\* The user goes by the name that was read; if userdel fails, the row goes all the same.
RemoveSystemUser(w) ==
    LET p == worker[w].part
    IN  /\ In(w, "remove")
        /\ \/ /\ users' = users \ {p}
              /\ estranged' = IF accounts[p] \notin {0, worker[w].number} \/ Working("account", p)
                              THEN estranged \cup {p} ELSE estranged
              /\ UNCHANGED setupFaults
           \/ Fails /\ UNCHANGED <<users, estranged>>
        /\ To(w, "delete")
        /\ UNCHANGED <<rowsOfSetup, keys, accounts, lastId, torn, setups>>

\* The row goes by its id.
DeleteAccount(w) ==
    /\ In(w, "delete")
    /\ accounts' = [x \in Parts |-> IF accounts[x] = worker[w].number THEN 0 ELSE accounts[x]]
    /\ Sets(w, Idle)
    /\ UNCHANGED <<rowsOfSetup, keys, users, lastId, historyOfSetup, boundsOfSetup>>

\* handleApplyBounceAccounts: all accounts that it has read get their user.
BeginApplyAll(w) ==
    /\ Begins(w, [Idle EXCEPT !.pc = "apply", !.op = "apply",
                              !.todo = {p \in Parts : accounts[p] # 0}])
    /\ UNCHANGED <<rowsOfSetup, keys, mailboxVars, lastId, historyOfSetup, setupFaults>>

ApplyNext(w) ==
    /\ In(w, "apply")
    /\ \/ /\ worker[w].todo = {} /\ Sets(w, Idle)
          /\ UNCHANGED <<users, estranged>>
       \/ \E p \in worker[w].todo :
            /\ users' = users \cup {p} /\ estranged' = estranged \ {p}
            /\ Sets(w, [worker[w] EXCEPT !.todo = @ \ {p}])
    /\ UNCHANGED <<rowsOfSetup, keys, accounts, lastId, torn, boundsOfSetup>>

\* An import is not taken up again.
SetupRestart ==
    /\ Fails
    /\ torn' = torn \cup {p \in Parts : Working("public", p)}
    /\ estranged' = (estranged \cup {p \in Parts : Working("ensure", p) \/ Working("delete", p)})
                      \ users
    /\ worker' = [w \in SetupWorkers |-> Idle]
    /\ UNCHANGED <<rowsOfSetup, keys, mailboxVars, lastId, setups>>

GenerateDKIMKey(w) == WritePrivateKey(w) \/ WritePublicKey(w) \/ PublicKeyFails(w)
CreateBounceAccount(w) == AddUser(w) \/ AddAccount(w)
SetUp(w) ==
    \/ BeginImport(w) \/ BeginSetup(w) \/ BeginGenerate(w)
    \/ NextLine(w) \/ CreateDomain(w) \/ CreateSenderRow(w)
EditRows(w) ==
    \/ BeginUpdateDomain(w) \/ SaveDomain(w)
    \/ BeginAddSender(w) \/ BeginUpdateSender(w) \/ SaveSender(w)
SaveAccount(w) ==
    CreateAccount(w) \/ BeginUpdate(w) \/ UpdateAccount(w) \/ EnsureUser(w) \/ EnsureFails(w)
RemoveAccount(w) == BeginDelete(w) \/ RemoveSystemUser(w) \/ DeleteAccount(w)

SetupNext ==
    \/ \E w \in SetupWorkers :
        \/ SetUp(w) \/ EditRows(w) \/ GenerateDKIMKey(w) \/ CreateBounceAccount(w)
        \/ SaveAccount(w) \/ RemoveAccount(w) \/ BeginApplyAll(w) \/ ApplyNext(w)
    \/ AddDomain \/ DeleteDomain \/ DeleteSender
    \/ SetupRestart

SetupSpec == SetupInit /\ [][SetupNext]_setupVars

-----------------------------------------------------------------------------
SetupTypeOK ==
    /\ domain \in Nat /\ lastId \in Nat
    /\ \A s \in senderRows : s \in Parts \X (Nat \ {0})
    /\ keys \in [Parts -> [private : Nat, public : Nat]]
    /\ accounts \in [Parts -> Nat] /\ users \subseteq Parts
    /\ \A w \in SetupWorkers : worker[w].pc \in
          {"idle", "line", "domain", "sender", "private", "public", "user", "account",
           "save domain", "save sender", "update", "ensure", "remove", "delete", "apply"}
    /\ torn \subseteq Parts /\ estranged \subseteq Parts
    /\ setups \in 0..MaxSetups /\ setupFaults \in 0..MaxSetupFaults

(***************************************************************************)
(* What is written in two steps belongs together.  The two files of a      *)
(* selector hold one key pair, unless a generation is between them, or two *)
(* generations met there, or a failure or a restart came between: then the *)
(* next generation that meets none heals it.  A bounce account has its     *)
(* system user, unless a request is between the two, or failed there, or a *)
(* deletion removed a user that had come to be that of another row: then   *)
(* applying the accounts heals it.                                         *)
(***************************************************************************)
PairsBelongTogether ==
    \A p \in Parts :
        /\ \/ keys[p].private = keys[p].public
           \/ p \in torn \/ Working("public", p)
        /\ \/ accounts[p] = 0 \/ p \in users
           \/ p \in estranged \/ Working("ensure", p) \/ Working("delete", p)
=============================================================================
