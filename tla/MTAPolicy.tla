----------------------------- MODULE MTAPolicy -----------------------------
(***************************************************************************)
(* The policy of the mail server: what core/configgen.go writes for the    *)
(* senders of the panel, how core/apply.go puts the files in place, and    *)
(* what the generated init.lua makes of them for a message.  The files are *)
(* replaced one by one, then checked, then the server is restarted; any    *)
(* number of requests and warmup passes may do so at the same time.        *)
(*                                                                         *)
(* Names are sequences of tokens, because a conversion drops some of them. *)
(* There is one domain; the backups that are written before a file is      *)
(* replaced are read by nobody and left out.                               *)
(***************************************************************************)
EXTENDS Integers, Sequences, FiniteSets, SequencesExt

CONSTANTS
    Parts,              \* local parts of the senders
    IPs,                \* addresses that a sender can have
    Appliers,           \* requests and passes that apply the configuration
    MaxPolicyChanges,   \* bound: changes of the senders
    MaxPolicyApplies,   \* bound: applies that begin
    MaxRestarts         \* bound: restarts of the mail server by others

ASSUME PolicyAssumption ==
    /\ IsFiniteSet(Parts) /\ IsFiniteSet(IPs) /\ IsFiniteSet(Appliers)
    /\ MaxPolicyChanges \in Nat /\ MaxPolicyApplies \in Nat /\ MaxRestarts \in Nat

VARIABLES
    senders,      \* the sender of each local part, or none
    listen,    \* AppSettings.SMTPListenAddr
    files,     \* the files of the policy directory
    running,   \* what the mail server read when it started
    apply,     \* of each applier: where it is and its snapshot; "done" is a success
    fresh,     \* history: no row and no other apply has come between since it began
    had,       \* history: the addresses that each sender has had
    budget     \* changes, applies and restarts so far

policyVars == <<senders, listen, files, running, apply, fresh, had, budget>>

Domain == "example.com"
Address(p) == <<p, "@", Domain>>
NoSender == [exists |-> FALSE, email |-> <<>>, ip |-> "", warming |-> FALSE]

\* The panel composes the e-mail address, unless a client sends another.  An IP address of
\* the sixth version is saved like any other.
Senders(p) == [exists : {TRUE}, email : {Address(p)}, ip : IPs \cup {"v6"}, warming : BOOLEAN]
Listens == {<<>>, <<"127.0.0.1", ":", "25">>}

-----------------------------------------------------------------------------
(* configgen.go *)

\* All but letters, digits, '-', '_' and '.' is dropped.
sanitizeLuaString(s) == SelectSeq(s, LAMBDA t : t \notin {"@", ":", "/"})

SourceName(p) == <<Domain, "__", p>>
PoolName(p) == <<Domain, "__", p>>
validateIP(ip) == ip # "v6"

\* The rate of a day of the schedule.
GetSenderRate(s) == IF s.warming THEN <<"50", "/", "hr">> ELSE <<>>

Snapped(snap) == {p \in Parts : snap.senders[p].exists}

GenerateSourcesTOML(snap) ==
    {[name |-> SourceName(p), ip |-> snap.senders[p].ip] :
        p \in {q \in Snapped(snap) : validateIP(snap.senders[q].ip)}}

GenerateQueuesTOML(snap) ==
    {[tenant |-> PoolName(p), pool |-> PoolName(p),
      rate |-> sanitizeLuaString(GetSenderRate(snap.senders[p]))] : p \in Snapped(snap)}

GenerateListenerDomainsTOML(snap) == {Domain}

GenerateDKIMDataTOML(snap) ==
    {[selector |-> <<p>>, match |-> sanitizeLuaString(snap.senders[p].email)] : p \in Snapped(snap)}

\* The users that may log in, each with a password.
GenerateAuthTOML(snap) == {sanitizeLuaString(snap.senders[p].email) : p \in Snapped(snap)}

GenerateInitLua(snap) ==
    IF snap.listen = <<>> THEN <<"127.0.0.1", ":", "25">> ELSE sanitizeLuaString(snap.listen)

FileOrder == <<"sources", "queues", "listener", "dkim", "auth", "init">>

Generated(snap) ==
    [sources |-> GenerateSourcesTOML(snap), queues |-> GenerateQueuesTOML(snap),
     listener |-> GenerateListenerDomainsTOML(snap), dkim |-> GenerateDKIMDataTOML(snap),
     auth |-> GenerateAuthTOML(snap), init |-> GenerateInitLua(snap)]

-----------------------------------------------------------------------------
(* What init.lua makes of a message with a sender in its From header. *)

get_tenant_from_sender(from) == <<from[3], "__", from[1]>>

\* The pool of a tenant that no file names has the name of the tenant.
get_queue_config(policy, tenant) ==
    IF \E q \in policy.queues : q.tenant = tenant
    THEN CHOOSE q \in policy.queues : q.tenant = tenant
    ELSE [tenant |-> tenant, pool |-> tenant, rate |-> <<>>]

\* Mutant: a pool without a source takes any source.
get_egress_poolAny(policy, pool) ==
    LET own == {s \in policy.sources : s.name = pool} IN
    IF own # {} THEN own ELSE policy.sources

get_egress_pool(policy, pool) == {s \in policy.sources : s.name = pool}

\* The addresses that mail with this From header can leave from.
LeavesFrom(policy, from) ==
    {s.ip : s \in get_egress_pool(policy, get_queue_config(policy, get_tenant_from_sender(from)).pool)}

\* dkim_sign_message compares the whole address with each policy of the domain.
dkim_sign_message(policy, from) == \E k \in policy.dkim : k.match = from

-----------------------------------------------------------------------------
Idle == [pc |-> "idle", senders |-> [p \in Parts |-> NoSender], listen |-> <<>>, file |-> 1]
Empty == Generated([senders |-> [p \in Parts |-> NoSender], listen |-> <<>>])

PolicyInit ==
    /\ senders = [p \in Parts |-> NoSender]
    /\ listen = <<>>
    /\ files = Empty /\ running = Empty
    /\ apply = [a \in Appliers |-> Idle]
    /\ fresh = [a \in Appliers |-> FALSE]
    /\ had = [p \in Parts |-> {}]
    /\ budget = [changes |-> 0, applies |-> 0, restarts |-> 0]

ApplyAt(a, pc) == apply[a].pc = pc
Move(a, step) == apply' = [apply EXCEPT ![a] = step]
Disturb(others) == fresh' = [a \in Appliers |-> fresh[a] /\ a \notin others]
Changes == budget.changes < MaxPolicyChanges /\ budget' = [budget EXCEPT !.changes = @ + 1]

\* A sender is added, edited or deleted.
SenderChanges(p) ==
    /\ Changes
    /\ \E s \in Senders(p) \cup {NoSender} :
        /\ s # senders[p]
        /\ senders' = [senders EXCEPT ![p] = s]
        /\ had' = [had EXCEPT ![p] = IF s.exists THEN @ \cup {s.ip} ELSE @]
    /\ Disturb(Appliers)
    /\ UNCHANGED <<listen, files, running, apply>>

\* The assistant sets the address of the listener, with its port.
ChangeListener ==
    /\ Changes
    /\ listen' \in Listens \ {listen}
    /\ Disturb(Appliers)
    /\ UNCHANGED <<senders, files, running, apply, had>>

-----------------------------------------------------------------------------
(* LoadSnapshot and ApplyKumoConfig *)

\* The settings are read first.
LoadSettings(a) ==
    /\ ApplyAt(a, "idle") \/ ApplyAt(a, "done")
    /\ budget.applies < MaxPolicyApplies
    /\ budget' = [budget EXCEPT !.applies = @ + 1]
    /\ Move(a, [Idle EXCEPT !.pc = "load", !.listen = listen])
    /\ fresh' = [b \in Appliers |-> b = a /\ \A c \in Appliers \ {a} : ApplyAt(c, "idle") \/ ApplyAt(c, "done")]
    /\ UNCHANGED <<senders, listen, files, running, had>>

\* An error of the database ends the request before anything is written.
LoadDomains(a) ==
    /\ ApplyAt(a, "load")
    /\ Move(a, [apply[a] EXCEPT !.pc = "write", !.senders = senders]) \/ Move(a, Idle)
    /\ UNCHANGED <<senders, listen, files, running, fresh, had, budget>>

\* smartUpdateFile: a rename puts the new content in place; an error, which can only come
\* when there is something to write, ends the apply.
ApplyFile(a) ==
    /\ ApplyAt(a, "write")
    /\ LET f == FileOrder[apply[a].file] IN
        \/ /\ Move(a, IF apply[a].file = Len(FileOrder) THEN [apply[a] EXCEPT !.pc = "validate"]
                      ELSE [apply[a] EXCEPT !.file = @ + 1])
           /\ files' = [files EXCEPT ![f] = Generated(apply[a])[f]]
        \/ Generated(apply[a])[f] # files[f] /\ Move(a, Idle) /\ UNCHANGED files
    /\ UNCHANGED <<senders, listen, running, fresh, had, budget>>

\* kumod --validate may find a fault in any policy; then nothing is restarted.
Validate(a) ==
    /\ ApplyAt(a, "validate")
    /\ Move(a, [apply[a] EXCEPT !.pc = "restart"]) \/ Move(a, Idle)
    /\ UNCHANGED <<senders, listen, files, running, fresh, had, budget>>

\* systemctl restart: the server reads the files that are there now, or fails to start.
Restart(a) ==
    /\ ApplyAt(a, "restart")
    /\ \/ running' = files /\ Move(a, [Idle EXCEPT !.pc = "done"])
       \/ UNCHANGED running /\ Move(a, Idle)
    /\ UNCHANGED <<senders, listen, files, fresh, had, budget>>

\* The service page, or the server itself, restarts it in between.
OtherRestart ==
    /\ budget.restarts < MaxRestarts /\ files # running
    /\ budget' = [budget EXCEPT !.restarts = @ + 1]
    /\ running' = files
    /\ UNCHANGED <<senders, listen, files, apply, fresh, had>>

PolicyNext ==
    \/ \E p \in Parts : SenderChanges(p)
    \/ ChangeListener \/ OtherRestart
    \/ \E a \in Appliers :
        LoadSettings(a) \/ LoadDomains(a) \/ ApplyFile(a) \/ Validate(a) \/ Restart(a)

PolicySpec == PolicyInit /\ [][PolicyNext]_policyVars

-----------------------------------------------------------------------------
(* Properties *)

\* Every variable keeps its type.
PolicyTypeOK ==
    /\ listen \in Listens /\ \A p \in Parts : senders[p] \in Senders(p) \cup {NoSender}
    /\ fresh \in [Appliers -> BOOLEAN]
    /\ \A p \in Parts : had[p] \subseteq IPs \cup {"v6"}
    /\ \A a \in Appliers :
        /\ apply[a].pc \in {"idle", "load", "write", "validate", "restart", "done"}
        /\ apply[a].file \in 1..Len(FileOrder)
    /\ budget.changes \in 0..MaxPolicyChanges /\ budget.applies \in 0..MaxPolicyApplies
    /\ budget.restarts \in 0..MaxRestarts

\* Whatever applies overlap, fail or are cut short, mail of a sender leaves only from an
\* address that this sender has had, or not at all: sources and queues of different
\* snapshots are tied together by names that no two senders share (configgen.go:23, :382).
OwnAddressOnly ==
    \A p \in Parts : LeavesFrom(running, Address(p)) \subseteq had[p]

\* An apply that answers "restarted" and was alone since it began leaves the server with
\* what the rows say: no file is left out or kept from before (apply.go:41).
AppliedMeansRun ==
    \A a \in Appliers :
        ApplyAt(a, "done") /\ fresh[a] =>
            running = Generated([senders |-> senders, listen |-> listen])

\* What the files and the server have to do with the rows, in every interleaving of
\* applies, restarts and edits.
PolicySound == OwnAddressOnly /\ AppliedMeansRun

\* "DKIM signing" (README.md:26): after an apply that was alone, mail from the address of
\* a sender is signed.
SendersSign ==
    \A a \in Appliers, p \in Parts :
        ApplyAt(a, "done") /\ fresh[a] /\ senders[p].exists =>
            dkim_sign_message(running, senders[p].email)
=============================================================================
