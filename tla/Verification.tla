---------------------------- MODULE Verification ----------------------------
(***************************************************************************)
(* The verification of addresses (src/internal/core/verifier.go) and the   *)
(* requests that ask for it (src/internal/api/contacts.go, lists.go): a    *)
(* talk with the mail server of the domain, through proxies or from own    *)
(* addresses, and Reacher, a service or program that does the same.  Each  *)
(* is the fallback of the other, and a result of the first kind is checked *)
(* for catch-all domains with the second.                                  *)
(*                                                                         *)
(* A batch gives each address a goroutine and lets some of them run at     *)
(* once; the cleaning of a list takes its contacts one by one and saves    *)
(* each of them.  Scores keep the values that the code gives.              *)
(***************************************************************************)
EXTENDS Integers, FiniteSets, FiniteSetsExt, Sequences

CONSTANTS
    Addresses,     \* addresses of one request
    AtOnce         \* concurrency of VerifyEmailBatch

ASSUME VerificationAssumption == IsFiniteSet(Addresses) /\ AtOnce \in Nat \ {0}

VARIABLES
    options,   \* VerifierOptions of this request
    purpose,   \* "batch" (also that of an import) or "clean"
    kind,      \* of each address: its syntax and its domain
    check,     \* the verification of each address: where it is, and its result so far
    heard,     \* history: what the servers and Reacher have said of each address
    contact    \* what the cleaning has saved of each contact

verificationVars == <<options, purpose, kind, check, heard, contact>>

Reaches == {"none", "safe", "risky", "invalid", "unknown"}
Scores == {0, 40, 50, 80, 100}
Results == [reach : Reaches, score : Scores, catchAll : BOOLEAN, connect : BOOLEAN]
NoResult == [reach |-> "none", score |-> 0, catchAll |-> FALSE, connect |-> FALSE]
NotSaved == [valid |-> FALSE, score |-> -1]

\* What buildVerifierOpts makes of the settings; ImportSubscribers leaves all but the
\* first two unset.  Proxies come before own addresses; without either the default
\* interface is used.
Options ==
    {o \in [reacher : BOOLEAN, only : BOOLEAN, skipCatchAll : BOOLEAN, force : BOOLEAN,
            ways : {<<"own">>, <<"proxy">>, <<"proxy", "own">>}] :
        o.force => ~o.skipCatchAll}  \* without the test the force has no meaning

Ready == [pc |-> "ready", way |-> 1, call |-> "direct", res |-> NoResult, kept |-> NoResult]

VerificationInit ==
    /\ purpose \in {"batch", "clean"}
    /\ options \in Options
    /\ kind \in [Addresses -> {"malformed", "disposable", "hard", "plain"}]
    /\ check = [a \in Addresses |-> Ready]
    /\ heard = [a \in Addresses |-> {}]
    /\ contact = [a \in Addresses |-> NotSaved]

HasReacher == options.reacher  \* by URL or as a program
At(a, pc) == check[a].pc = pc

\* Verifications that hold a place of the semaphore.
Running == {a \in Addresses : check[a].pc \notin {"ready", "left"}}
Slots == IF purpose = "clean" THEN 1 ELSE AtOnce
Hears(a, what) == heard' = [heard EXCEPT ![a] = @ \cup ({what} \cap {"accepted", "vouched", "catchAll"})]
Continues(a, c) == check' = [check EXCEPT ![a] = c]

\* Mutant: the second opinion is checked like the first.
ReturnsAsksAgain(a, r) ==
    LET c == check[a]
        asks == c.call # "direct" /\ HasReacher /\ r.connect /\ ~r.catchAll /\ ~options.skipCatchAll
    IN  Continues(a, IF asks THEN [c EXCEPT !.pc = "reacher", !.call = "second", !.res = r, !.kept = r]
                     ELSE [c EXCEPT !.pc = "done", !.res = r])

\* The end of a call.  A result of the local talk that VerifyEmail asked for is taken
\* to Reacher if that may find a catch-all domain; of the second opinion only that counts.
Returns(a, r) ==
    LET c == check[a]
        asks == c.call = "local" /\ HasReacher /\ r.connect /\ ~r.catchAll /\ ~options.skipCatchAll
        risky == [c.kept EXCEPT !.catchAll = TRUE, !.reach = "risky", !.score = 50]
    IN  Continues(a,
          CASE asks -> [c EXCEPT !.pc = "reacher", !.call = "second", !.res = r, !.kept = r]
            [] ~asks /\ c.call = "second" ->
                 [c EXCEPT !.pc = "done", !.res = IF r.catchAll THEN risky ELSE c.kept]
            [] OTHER -> [c EXCEPT !.pc = "done", !.res = r])

-----------------------------------------------------------------------------
(* VerifyEmail *)

\* The syntax, the kind of the domain, and its mail servers.
VerifyEmail(a) ==
    /\ At(a, "ready") /\ Cardinality(Running) < Slots
    /\ LET bad == [NoResult EXCEPT !.reach = "invalid"]
           first == IF kind[a] = "disposable"
                      THEN [NoResult EXCEPT !.reach = "risky", !.score = 80] ELSE NoResult
           direct == HasReacher /\ (kind[a] = "hard" \/ options.only)
       IN  \/ /\ kind[a] = "malformed"
              /\ Continues(a, [Ready EXCEPT !.pc = "done", !.res = bad])
           \/ /\ kind[a] # "malformed"  \* no mail server, or no answer of the name server
              /\ Continues(a, [Ready EXCEPT !.pc = "done", !.res = [first EXCEPT !.reach = "invalid"]])
           \/ /\ kind[a] # "malformed"
              /\ Continues(a, [Ready EXCEPT !.pc = IF direct THEN "reacher" ELSE "talk",
                                 !.call = IF direct THEN "direct" ELSE "local", !.res = first])
    /\ UNCHANGED <<options, purpose, kind, heard, contact>>

-----------------------------------------------------------------------------
(* verifyWithLocalSMTP: one attempt for each way, until a server decides. *)

\* What performSMTPCheck finds.  "blocked" is a refusal of the greeting or the sender
\* with the number 550, which is taken for one of the recipient.
Findings(probes) ==
    {"accepted", "refused", "blocked", "deferred", "failed"} \cup (IF probes THEN {"catchAll"} ELSE {})

\* An invented address may be tried over a proxy, and over others when that is forced.
MayProbe(way) == ~options.skipCatchAll /\ (way = "proxy" \/ options.force)

\* Whether the talk reached a server is read off the text of the error, "RCPT" or "550".
Connected(f) == f \in {"accepted", "catchAll", "refused", "blocked", "deferred"}

\* Mutant: a recipient that is deferred passes.
PassesDeferred(f) == f \in {"accepted", "catchAll", "deferred"}

Passes(f) == f \in {"accepted", "catchAll"}

Attempt(a) ==
    LET c == check[a]
        probes == MayProbe(options.ways[c.way])
    IN  /\ At(a, "talk") /\ c.way <= Len(options.ways)
        /\ \E f \in Findings(probes) :
            LET r == [c.res EXCEPT !.connect = Connected(f), !.catchAll = f = "catchAll"] IN
            /\ Hears(a, f)
            /\ \/ /\ Passes(f)
                  /\ Returns(a, IF f = "catchAll" THEN [r EXCEPT !.reach = "risky", !.score = 50]
                                ELSE [r EXCEPT !.reach = "safe", !.score = 0])
               \/ /\ ~Passes(f) /\ f \in {"refused", "blocked"}
                  /\ Returns(a, [r EXCEPT !.reach = "invalid", !.score = 100])
               \/ /\ ~Passes(f) /\ f \in {"deferred", "failed"}
                  /\ Continues(a, [c EXCEPT !.way = @ + 1, !.res = r])
        /\ UNCHANGED <<options, purpose, kind, contact>>

\* After the last way: Reacher, unless it alone was wanted.
GiveUp(a) ==
    LET c == check[a] IN
    /\ At(a, "talk") /\ c.way > Len(options.ways)
    /\ IF HasReacher /\ ~options.only THEN Continues(a, [c EXCEPT !.pc = "reacher"])
       ELSE Returns(a, [c.res EXCEPT !.reach = "unknown", !.score = 50])
    /\ UNCHANGED <<options, purpose, kind, heard, contact>>

-----------------------------------------------------------------------------
(* Reacher *)

Answers == [reach : {"safe", "risky", "invalid", "unknown"}, catchAll : BOOLEAN, connect : BOOLEAN]

\* An answer for a catch-all domain is "risky" at best, one without a talk is not "safe".
Sensible(o) ==
    /\ o.catchAll => o.reach # "safe" /\ o.connect
    /\ o.reach = "safe" => o.connect

Base(reach) == CASE reach = "safe" -> 0 [] reach \in {"risky", "unknown"} -> 50 [] reach = "invalid" -> 100

\* mapReacherResponse
Mapped(a, o) ==
    LET s == IF kind[a] = "disposable" THEN Max({Base(o.reach), 80}) ELSE Base(o.reach) IN
    [reach |-> o.reach, score |-> IF o.catchAll THEN Max({s, 40}) ELSE s,
     catchAll |-> o.catchAll, connect |-> o.connect]

ReacherAnswers(a) ==
    /\ At(a, "reacher")
    /\ \E o \in {x \in Answers : Sensible(x)} :
        /\ Hears(a, IF o.catchAll THEN "catchAll" ELSE IF o.reach = "safe" THEN "vouched" ELSE "other")
        /\ Returns(a, Mapped(a, o))
    /\ UNCHANGED <<options, purpose, kind, contact>>

\* No connection, an error status or a failing program: back to the mail server, if the
\* name server still knows one.
ReacherFails(a) ==
    /\ At(a, "reacher")
    /\ \/ ~options.only /\ Continues(a, [check[a] EXCEPT !.pc = "talk", !.way = 1])
       \/ Returns(a, [check[a].res EXCEPT !.reach = "unknown"])
    /\ UNCHANGED <<options, purpose, kind, heard, contact>>

\* A program that is killed after thirty seconds, or an answer that cannot be parsed.
ReacherUnreadable(a) ==
    /\ At(a, "reacher")
    /\ Returns(a, [check[a].res EXCEPT !.reach = "unknown"])
    /\ UNCHANGED <<options, purpose, kind, heard, contact>>

-----------------------------------------------------------------------------
(* What is done with a result. *)

\* A cleaned contact is valid when it is safe; an error of the save is logged.  An
\* import writes columns that contacts do not have, so nothing is stored.
Leave(a) ==
    LET r == check[a].res IN
    /\ At(a, "done")
    /\ Continues(a, [Ready EXCEPT !.pc = "left"])
    /\ contact' \in IF purpose # "clean" THEN {contact}
         ELSE {contact, [contact EXCEPT ![a] = [valid |-> r.reach = "safe", score |-> r.score]]}
    /\ UNCHANGED <<options, purpose, kind, heard>>

VerificationStep(a) ==
    \/ VerifyEmail(a) \/ Attempt(a) \/ GiveUp(a)
    \/ ReacherAnswers(a) \/ ReacherFails(a) \/ ReacherUnreadable(a) \/ Leave(a)

VerificationNext == \E a \in Addresses : VerificationStep(a)

VerificationSpec == VerificationInit /\ [][VerificationNext]_verificationVars

\* Goroutines are scheduled; a way that is tried over and over decides at some time.
VerificationFairness ==
    \A a \in Addresses :
        /\ WF_verificationVars(VerificationStep(a))
        /\ SF_verificationVars(ReacherAnswers(a))

-----------------------------------------------------------------------------
(* Properties *)

\* Every variable keeps its type, and no more verifications run than are allowed.
VerificationTypeOK ==
    /\ options \in Options /\ purpose \in {"batch", "clean"}
    /\ \A a \in Addresses :
        /\ check[a].pc \in {"ready", "talk", "reacher", "done", "left"}
        /\ check[a].way \in 1..3 /\ check[a].call \in {"direct", "local", "second"}
        /\ check[a].res \in Results /\ check[a].kept \in Results
        /\ contact[a] = NotSaved \/ contact[a] \in [valid : BOOLEAN, score : Scores]
    /\ Cardinality(Running) <= Slots

\* An address is called safe, and a contact valid, only when its mail server accepted it or
\* Reacher vouched for it, and never when anyone in this verification had said that the
\* domain takes everything (verifier.go:252, :529).
SafeMeansAccepted ==
    \A a \in Addresses :
        (check[a].pc = "done" /\ check[a].res.reach = "safe") \/ contact[a].valid =>
            heard[a] \cap {"accepted", "vouched"} # {} /\ "catchAll" \notin heard[a]

\* Every address of a request that has begun gets its result, so the request is answered
\* and the cleaning goes on, provided that Reacher, where it is the last resort, answers at some time: as
\* long as it does not, it and the mail server are tried in turns without an end.
VerdictsGiven ==
    (\E a \in Addresses : check[a].pc # "ready") ~> \A a \in Addresses : check[a].pc = "left"
=============================================================================
