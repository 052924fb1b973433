------------------------------- MODULE Warmup -------------------------------
(***************************************************************************)
(* The warmup schedule of a sender: the daily pass                         *)
(* (src/internal/core/warmup.go), which main.go runs at startup and every  *)
(* five minutes in two goroutines, the requests that change the sender's   *)
(* row (src/internal/api/warmup.go, domains.go), and the MTA's             *)
(* configuration that a pass or a request generates from the rows          *)
(* (src/internal/core/snapshot.go, apply.go).                              *)
(*                                                                         *)
(* Whoever changes the row reads it, and later saves all of it; nothing    *)
(* orders the savers, nor those who write the configuration.               *)
(***************************************************************************)
EXTENDS Integers, FiniteSets

CONSTANTS
    Plans,        \* names in WarmupSchedules
    PlanLength,   \* [Plans -> Nat], its days
    Day,          \* ticks of the clock in 24 hours
    MaxTicks,     \* bound: length of a behaviour
    Requesters,   \* HTTP requests in progress at one time
    MaxEdits      \* bound: requests in a behaviour

ASSUME WarmupAssumption ==
    /\ PlanLength \in [Plans -> Nat \ {0}]
    /\ Day \in Nat \ {0} /\ MaxTicks \in Nat /\ MaxEdits \in Nat

Passes == {"startup", "ticker"}
NoTime == -1

VARIABLES
    ticks,     \* the clock
    sender,    \* the row: enabled, plan, day, last (WarmupLastUpdate)
    actor,     \* passes and requests, each with its copy of the row
    file,      \* the row that the MTA's configuration was generated from
    began,     \* history: when the schedule began
    finished,  \* history: when a pass switched warmup off
    edits      \* requests so far

warmupVars == <<ticks, sender, actor, file, began, finished, edits>>

Actors == Passes \cup Requesters
Rest == [pc |-> "rest"]
Has(a, pc) == actor[a].pc = pc
Steps(a, pc, row) == actor' = [actor EXCEPT ![a] = [pc |-> pc, row |-> row]]
EarlierOf(t) == IF began = NoTime THEN t ELSE began

\* CreateSender stores what the request says: warmup may be on, without a time.
WarmupInit ==
    /\ ticks = 0
    /\ sender \in [enabled : BOOLEAN, plan : Plans, day : {0}, last : {NoTime}]
    /\ actor = [a \in Actors |-> Rest]
    /\ file = sender
    /\ began = NoTime /\ finished = NoTime
    /\ edits = 0

-----------------------------------------------------------------------------
(* The pass *)

ReadSenders(p) ==
    /\ Has(p, "rest")
    /\ Steps(p, "decide", sender)
    /\ UNCHANGED <<ticks, sender, file, began, finished, edits>>

\* Warmup is off, or the last step is less than a day old.
NothingDue(p) ==
    /\ Has(p, "decide")
    /\ LET row == actor[p].row
       IN  \/ ~row.enabled
           \/ row.last # NoTime /\ ticks - row.last < Day
    /\ actor' = [actor EXCEPT ![p] = Rest]
    /\ UNCHANGED <<ticks, sender, file, began, finished, edits>>

\* The first pass only sets the time, and does not regenerate the configuration.
Stamp(p) ==
    LET row == [actor[p].row EXCEPT !.last = ticks]
    IN  /\ Has(p, "decide") /\ actor[p].row.enabled /\ actor[p].row.last = NoTime
        /\ sender' = row
        /\ actor' = [actor EXCEPT ![p] = Rest]
        /\ began' = EarlierOf(ticks)
        /\ UNCHANGED <<ticks, file, finished, edits>>

StepDue(p) ==
    /\ Has(p, "decide") /\ actor[p].row.enabled
    /\ actor[p].row.last # NoTime /\ ticks - actor[p].row.last >= Day

\* Mutant: the plan is over with its last day.
FinishEarly(p) ==
    /\ StepDue(p)
    /\ actor[p].row.day + 1 >= PlanLength[actor[p].row.plan]
    /\ sender' = [actor[p].row EXCEPT !.enabled = FALSE]
    /\ finished' = ticks
    /\ Steps(p, "snapshot", sender')
    /\ UNCHANGED <<ticks, file, began, edits>>

\* A plan that is over switches warmup off and leaves the time as it is.
Finish(p) ==
    /\ StepDue(p)
    /\ actor[p].row.day >= PlanLength[actor[p].row.plan]
    /\ sender' = [actor[p].row EXCEPT !.enabled = FALSE]
    /\ finished' = ticks
    /\ Steps(p, "snapshot", sender')
    /\ UNCHANGED <<ticks, file, began, edits>>

\* Mutant: the time is not taken anew.
AdvanceUnstamped(p) ==
    /\ StepDue(p)
    /\ actor[p].row.day < PlanLength[actor[p].row.plan]
    /\ sender' = [actor[p].row EXCEPT !.day = @ + 1]
    /\ Steps(p, "snapshot", sender')
    /\ UNCHANGED <<ticks, file, began, finished, edits>>

\* The brake, for a bounce or a deferral rate that is too high, holds the day.
Advance(p) ==
    /\ StepDue(p)
    /\ actor[p].row.day < PlanLength[actor[p].row.plan]
    /\ \E brake \in BOOLEAN :
        sender' = [actor[p].row EXCEPT !.day = IF brake THEN @ ELSE @ + 1, !.last = ticks]
    /\ Steps(p, "snapshot", sender')
    /\ UNCHANGED <<ticks, file, began, finished, edits>>

-----------------------------------------------------------------------------
(* Requests *)

BeginEdit(r) ==
    /\ Has(r, "rest") /\ edits < MaxEdits
    /\ edits' = edits + 1
    /\ \E pc \in {"warmup", "edit"} : Steps(r, pc, sender)
    /\ UNCHANGED <<ticks, sender, file, began, finished>>

\* handleUpdateWarmup: off, or on with a plan; the first time starts at day 1.
UpdateWarmup(r) ==
    LET row == actor[r].row
    IN  /\ Has(r, "warmup")
        /\ \/ /\ sender' = [row EXCEPT !.enabled = FALSE]
              /\ UNCHANGED began
           \/ /\ row.day # 0
              /\ \E plan \in Plans : sender' = [row EXCEPT !.enabled = TRUE, !.plan = plan]
              /\ UNCHANGED began
           \/ /\ row.day = 0
              /\ \E plan \in Plans :
                    sender' = [enabled |-> TRUE, plan |-> plan, day |-> 1, last |-> ticks]
              /\ began' = EarlierOf(ticks)
        /\ Steps(r, "snapshot", sender')
        /\ UNCHANGED <<ticks, file, finished, edits>>

\* handleUpdateSender changes other columns and saves all of them.
UpdateSender(r) ==
    /\ Has(r, "edit")
    /\ sender' = actor[r].row
    /\ actor' = [actor EXCEPT ![r] = Rest]
    /\ UNCHANGED <<ticks, file, began, finished, edits>>

-----------------------------------------------------------------------------
(* The configuration *)

LoadSnapshot(a) ==
    /\ Has(a, "snapshot")
    /\ Steps(a, "write", sender)
    /\ UNCHANGED <<ticks, sender, file, began, finished, edits>>

\* If they are valid, KumoMTA is restarted with them, otherwise it keeps what it has.
WriteFiles(a) ==
    /\ Has(a, "write")
    /\ file' = actor[a].row
    /\ actor' = [actor EXCEPT ![a] = Rest]
    /\ UNCHANGED <<ticks, sender, began, finished, edits>>

ClockTick ==
    /\ ticks < MaxTicks
    /\ ticks' = ticks + 1
    /\ UNCHANGED <<sender, actor, file, began, finished, edits>>

Pass(p) == ReadSenders(p) \/ NothingDue(p) \/ Stamp(p) \/ Finish(p) \/ Advance(p)
Edit(r) == BeginEdit(r) \/ UpdateWarmup(r) \/ UpdateSender(r)
ApplyKumoConfig(a) == LoadSnapshot(a) \/ WriteFiles(a)

WarmupNext ==
    \/ \E p \in Passes : Pass(p)
    \/ \E r \in Requesters : Edit(r)
    \/ \E a \in Actors : ApplyKumoConfig(a)
    \/ ClockTick

WarmupSpec == WarmupInit /\ [][WarmupNext]_warmupVars

-----------------------------------------------------------------------------
Row == [enabled : BOOLEAN, plan : Plans, day : Nat, last : Int]

WarmupTypeOK ==
    /\ ticks \in 0..MaxTicks
    /\ sender \in Row /\ file \in Row
    /\ actor \in [Actors -> {Rest} \cup
           [pc : {"decide", "snapshot", "write", "warmup", "edit"}, row : Row]]
    /\ began \in Int /\ finished \in Int
    /\ edits \in 0..MaxEdits

Copies == {actor[a].row : a \in {b \in Actors : actor[b] # Rest}}

(***************************************************************************)
(* The schedule never runs faster than the calendar: a row that stands at  *)
(* day n is at least n - 1 days into the warmup, although two passes and   *)
(* any number of requests save old copies over each other's steps; the     *)
(* same holds of every configuration that the MTA is given.                *)
(***************************************************************************)
WarmupPace ==
    \A row \in Copies \cup {sender, file} :
        row.day > 0 =>
            /\ began # NoTime /\ row.last # NoTime
            /\ (row.day - 1) * Day <= row.last - began

(***************************************************************************)
(* Only a pass that found the plan finished lets the sender run unlimited, *)
(* and no plan is finished before its days have passed.                    *)
(***************************************************************************)
WarmupRunsItsCourse ==
    finished # NoTime => \E plan \in Plans : finished - began >= PlanLength[plan] * Day

\* A sender is slowed down for as many days as its plan has, at least.
WarmupSound == WarmupPace /\ WarmupRunsItsCourse
=============================================================================
