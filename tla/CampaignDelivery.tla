-------------------------- MODULE CampaignDelivery --------------------------
(***************************************************************************)
(* What the sending pipeline promises of a campaign, whatever happens to   *)
(* its goroutines and its process: mail is delivered at least once, never  *)
(* to a suppressed address, a row is recorded as sent only after the MTA   *)
(* took the mail and never becomes pending again, and the campaign is      *)
(* completed only when every row has been recorded.                        *)
(***************************************************************************)
EXTENDS Integers

CONSTANTS Recipients, InitiallySuppressed, LaterSuppressed

VARIABLES
    rows,        \* status of each recipient row
    handed,      \* copies of each recipient's mail the MTA took (2 = more)
    suppressed,  \* the suppression list
    dbStatus     \* status of the campaign row

vars == <<rows, handed, suppressed, dbStatus>>

Init ==
    /\ rows = [r \in Recipients |-> "pending"]
    /\ handed = [r \in Recipients |-> 0]
    /\ suppressed = InitiallySuppressed
    /\ dbStatus \in {"draft", "scheduled"}

Mail(r) ==
    /\ r \notin InitiallySuppressed
    /\ handed' = [handed EXCEPT ![r] = IF @ < 2 THEN @ + 1 ELSE @]
    /\ UNCHANGED <<rows, suppressed, dbStatus>>

Record(r, s) ==
    /\ s = "sent" => handed[r] > 0
    /\ s = "skipped" => r \in suppressed
    /\ rows' = [rows EXCEPT ![r] = s]
    /\ UNCHANGED <<handed, suppressed, dbStatus>>

Suppress(r) ==
    /\ suppressed' = suppressed \cup {r}
    /\ UNCHANGED <<rows, handed, dbStatus>>

SetStatus(s) ==
    /\ s = "completed" => \A r \in Recipients : rows[r] # "pending"
    /\ dbStatus' = s
    /\ UNCHANGED <<rows, handed, suppressed>>

Next ==
    \/ \E r \in Recipients : Mail(r)
    \/ \E r \in Recipients, s \in {"sent", "failed", "skipped"} : Record(r, s)
    \/ \E r \in LaterSuppressed : Suppress(r)
    \/ \E s \in {"sending", "paused", "cancelled", "completed"} : SetStatus(s)

Spec == Init /\ [][Next]_vars
=============================================================================
