------------------------------- MODULE Tracking -------------------------------
(***************************************************************************)
(* Open and click tracking (src/internal/api/tracking.go) beside the       *)
(* campaign that it counts for (src/internal/core/campaign.go) and the     *)
(* cleaning of the list (src/internal/api/contacts.go).  Each of them      *)
(* reads whole rows and saves whole rows later, in goroutines of their     *)
(* own; only the collector of the campaign writes a single column.         *)
(*                                                                         *)
(* One campaign; a recipient that comes from a list has one contact there. *)
(***************************************************************************)
EXTENDS Integers, FiniteSets

CONSTANTS
    Recips,        \* the rows of campaign_recipients
    Listed,        \* those with a contact
    Hits,          \* requests for a pixel or a link, one of each kind for a recipient at most
    MaxMails,      \* bound: mails to one recipient
    TrackErrors    \* bound: errors of the database

ASSUME TrackingAssumption ==
    /\ IsFiniteSet(Recips) /\ Listed \subseteq Recips /\ IsFiniteSet(Hits)
    /\ MaxMails \in Nat \ {0} /\ TrackErrors \in Nat

VARIABLES
    recip,      \* the recipient rows
    camp,       \* the campaign row
    person,     \* the contact rows
    hit,        \* of each request: where it is and the copies it works on
    sending,    \* the processor of the campaign and its copy of the row
    cleaning,   \* the cleaning of the list and its copies of the contacts
    mails,      \* history: mails handed over for each recipient
    trackFaults \* errors of the database so far

trackingVars == <<recip, camp, person, hit, sending, cleaning, mails, trackFaults>>

Recipient == [status : {"pending", "sent"}, opened : BOOLEAN, clicked : BOOLEAN]
Counters == 0..Cardinality(Hits)
CampaignRow == [status : {"draft", "sending", "completed"}, sent : BOOLEAN, opens : Counters, clicks : Counters]
Person == [opens : Counters, clicks : Counters, score : 0..(6 * Cardinality(Hits)), valid : BOOLEAN]

NewRecipient == [status |-> "pending", opened |-> FALSE, clicked |-> FALSE]
NewCampaign == [status |-> "draft", sent |-> FALSE, opens |-> 0, clicks |-> 0]
NewPerson == [opens |-> 0, clicks |-> 0, score |-> 0, valid |-> FALSE]
NoHit == [pc |-> "none", kind |-> "open", of |-> CHOOSE r \in Recips : TRUE,
          row |-> NewRecipient, camp |-> NewCampaign, person |-> NewPerson]

TrackingInit ==
    /\ recip = [r \in Recips |-> NewRecipient]
    /\ camp = NewCampaign
    /\ person = [r \in Listed |-> NewPerson]
    /\ hit = [h \in Hits |-> NoHit]
    /\ sending = [pc |-> "off", copy |-> NewCampaign, jobs |-> {}]
    /\ cleaning = [pc |-> "off", copies |-> [r \in Listed |-> NewPerson], left |-> {}]
    /\ mails = [r \in Recips |-> 0]
    /\ trackFaults = 0

-----------------------------------------------------------------------------
(* The requests *)

Counted(row, kind) == IF kind = "open" THEN row.opened ELSE row.clicked
Marked(row, kind) ==
    IF kind = "open" THEN [row EXCEPT !.opened = TRUE] ELSE [row EXCEPT !.clicked = TRUE]
Increment(row, kind) ==
    IF kind = "open" THEN [row EXCEPT !.opens = @ + 1] ELSE [row EXCEPT !.clicks = @ + 1]
Points(kind) == IF kind = "open" THEN 1 ELSE 5

HitAt(h, pc) == hit[h].pc = pc
HitMoves(h, step) == hit' = [hit EXCEPT ![h] = step]
Done(h) == [NoHit EXCEPT !.pc = "done", !.kind = hit[h].kind, !.of = hit[h].of]
Fault == trackFaults < TrackErrors /\ trackFaults' = trackFaults + 1

\* A signed request of no bot; the answer does not wait for what follows.  The reader has
\* the mail before the collector has noted that it was sent.
HandleTrack(h, kind, r) ==
    /\ HitAt(h, "none") /\ mails[r] > 0
    /\ HitMoves(h, [NoHit EXCEPT !.pc = "recip", !.kind = kind, !.of = r])
    /\ UNCHANGED <<recip, camp, person, sending, cleaning, mails, trackFaults>>

\* The first open or click of this recipient goes on; an error ends the record.
ReadRecipient(h) ==
    LET t == hit[h]
        row == recip[t.of]
    IN  /\ HitAt(h, "recip")
        /\ \/ /\ HitMoves(h, IF Counted(row, t.kind) THEN Done(h)
                         ELSE [t EXCEPT !.pc = "saveRecip", !.row = Marked(row, t.kind)])
              /\ UNCHANGED trackFaults
           \/ Fault /\ HitMoves(h, Done(h))
        /\ UNCHANGED <<recip, camp, person, sending, cleaning, mails>>

\* The whole row is saved, its status as well; an error is not noticed.
SaveRecipient(h) ==
    LET t == hit[h] IN
    /\ HitAt(h, "saveRecip")
    /\ HitMoves(h, [t EXCEPT !.pc = "camp", !.row = NewRecipient])
    /\ \/ recip' = [recip EXCEPT ![t.of] = t.row] /\ UNCHANGED trackFaults
       \/ Fault /\ UNCHANGED recip
    /\ UNCHANGED <<camp, person, sending, cleaning, mails>>

ReadCounter(h) ==
    LET t == hit[h] IN
    /\ HitAt(h, "camp")
    /\ \/ HitMoves(h, [t EXCEPT !.pc = "saveCamp", !.camp = Increment(camp, t.kind)]) /\ UNCHANGED trackFaults
       \/ Fault /\ HitMoves(h, [t EXCEPT !.pc = "person"])
    /\ UNCHANGED <<recip, camp, person, sending, cleaning, mails>>

SaveCounter(h) ==
    LET t == hit[h] IN
    /\ HitAt(h, "saveCamp")
    /\ HitMoves(h, [t EXCEPT !.pc = "person", !.camp = NewCampaign])
    /\ \/ camp' = t.camp /\ UNCHANGED trackFaults
       \/ Fault /\ UNCHANGED camp
    /\ UNCHANGED <<recip, person, sending, cleaning, mails>>

ReadContact(h) ==
    LET t == hit[h] IN
    /\ HitAt(h, "person")
    /\ \/ /\ t.of \notin Listed
          /\ HitMoves(h, Done(h)) /\ UNCHANGED trackFaults
       \/ /\ t.of \in Listed
          /\ HitMoves(h, [t EXCEPT !.pc = "savePerson", !.person =
                        [Increment(person[t.of], t.kind) EXCEPT !.score = @ + Points(t.kind)]])
          /\ UNCHANGED trackFaults
       \/ t.of \in Listed /\ Fault /\ HitMoves(h, Done(h))
    /\ UNCHANGED <<recip, camp, person, sending, cleaning, mails>>

\* Mutant: the score is added to what the row has by now.
SaveContactScore(h) ==
    LET t == hit[h] IN
    /\ HitAt(h, "savePerson")
    /\ HitMoves(h, Done(h))
    /\ person' = [person EXCEPT ![t.of] = [t.person EXCEPT !.score = person[t.of].score + Points(t.kind)]]
    /\ UNCHANGED <<recip, camp, sending, cleaning, mails, trackFaults>>

SaveContact(h) ==
    LET t == hit[h] IN
    /\ HitAt(h, "savePerson")
    /\ HitMoves(h, Done(h))
    /\ \/ person' = [person EXCEPT ![t.of] = t.person] /\ UNCHANGED trackFaults
       \/ Fault /\ UNCHANGED person
    /\ UNCHANGED <<recip, camp, sending, cleaning, mails>>

-----------------------------------------------------------------------------
(* The campaign *)

\* StartCampaign reads the row; it saves it when it has checked the keys and recipients.
BeginCampaign ==
    /\ sending.pc = "off"
    /\ sending' = [sending EXCEPT !.pc = "start", !.copy = [camp EXCEPT !.status = "sending"]]
    /\ UNCHANGED <<recip, camp, person, hit, cleaning, mails, trackFaults>>

CampaignBegun ==
    /\ sending.pc = "start"
    /\ camp' = sending.copy
    /\ sending' = [sending EXCEPT !.pc = "run"]
    /\ UNCHANGED <<recip, person, hit, cleaning, mails, trackFaults>>

\* A pending recipient is fetched and its mail handed over.
HandMail(r) ==
    /\ sending.pc = "run" /\ recip[r].status = "pending" /\ r \notin sending.jobs
    /\ mails[r] < MaxMails
    /\ mails' = [mails EXCEPT ![r] = @ + 1]
    /\ sending' = [sending EXCEPT !.jobs = @ \cup {r}]
    /\ UNCHANGED <<recip, camp, person, hit, cleaning, trackFaults>>

\* The collector writes the columns of the result.
CollectResult(r) ==
    /\ r \in sending.jobs
    /\ recip' = [recip EXCEPT ![r].status = "sent"]
    /\ sending' = [sending EXCEPT !.jobs = @ \ {r}]
    /\ UNCHANGED <<camp, person, hit, cleaning, mails, trackFaults>>

\* When no more is pending the row is saved as it was read at the start; the bound ends it too.
FinishCampaign ==
    /\ sending.pc = "run" /\ sending.jobs = {}
    /\ \A r \in Recips : recip[r].status = "sent" \/ mails[r] = MaxMails
    /\ camp' = [sending.copy EXCEPT !.status = "completed", !.sent = TRUE]
    /\ sending' = [sending EXCEPT !.pc = "over"]
    /\ UNCHANGED <<recip, person, hit, cleaning, mails, trackFaults>>

-----------------------------------------------------------------------------
(* HandleCleanList: all contacts are read at once and saved one after the other. *)

CleanList ==
    /\ cleaning.pc = "off"
    /\ cleaning' = [pc |-> "run", copies |-> person, left |-> Listed]
    /\ UNCHANGED <<recip, camp, person, hit, sending, mails, trackFaults>>

CleanContact(r) ==
    /\ cleaning.pc = "run" /\ r \in cleaning.left
    /\ cleaning' = [cleaning EXCEPT !.left = @ \ {r}, !.copies[r] = NewPerson]
    /\ \E valid \in BOOLEAN : person' = [person EXCEPT ![r] = [cleaning.copies[r] EXCEPT !.valid = valid]]
    /\ UNCHANGED <<recip, camp, hit, sending, mails, trackFaults>>

TrackingNext ==
    \/ \E h \in Hits :
        \/ \E kind \in {"open", "click"}, r \in Recips : HandleTrack(h, kind, r)
        \/ ReadRecipient(h) \/ SaveRecipient(h) \/ ReadCounter(h) \/ SaveCounter(h)
        \/ ReadContact(h) \/ SaveContact(h)
    \/ BeginCampaign \/ CampaignBegun \/ FinishCampaign \/ CleanList
    \/ \E r \in Recips : HandMail(r) \/ CollectResult(r)
    \/ \E r \in Listed : CleanContact(r)

TrackingSpec == TrackingInit /\ [][TrackingNext]_trackingVars

-----------------------------------------------------------------------------
(* Properties *)

\* Every variable keeps its type.
TrackingTypeOK ==
    /\ recip \in [Recips -> Recipient] /\ camp \in CampaignRow /\ person \in [Listed -> Person]
    /\ \A h \in Hits :
        /\ hit[h].pc \in {"none", "recip", "saveRecip", "camp", "saveCamp", "person", "savePerson", "done"}
        /\ hit[h].kind \in {"open", "click"} /\ hit[h].of \in Recips
        /\ hit[h].row \in Recipient /\ hit[h].camp \in CampaignRow /\ hit[h].person \in Person
    /\ sending.pc \in {"off", "start", "run", "over"} /\ sending.copy \in CampaignRow
    /\ sending.jobs \subseteq Recips
    /\ cleaning.pc \in {"off", "run"} /\ cleaning.copies \in [Listed -> Person]
    /\ cleaning.left \subseteq Listed
    /\ mails \in [Recips -> 0..MaxMails] /\ trackFaults \in 0..TrackErrors

\* Whatever saves of old copies overtake each other, the lead score of a contact is the one
\* of the opens and clicks beside it: points are lost with their count (tracking.go:155, :185).
ScoreFitsCounters ==
    \A r \in Listed : person[r].score = person[r].opens + 5 * person[r].clicks

\* "Marks the recipient row as opened (atomic, first-open only).  Increments
\* Campaign.TotalOpens atomically." (docs/ARCHITECTURE.md:255-256): when nothing is under
\* way, the campaign counts the recipients that are marked as opened.
OpensCounted ==
    (\A h \in Hits : hit[h].pc \in {"none", "done"}) /\ sending.pc = "over" /\ trackFaults = 0 =>
        camp.opens = Cardinality({r \in Recips : recip[r].opened})
=============================================================================
