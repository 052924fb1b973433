--------------------------- MODULE CampaignsProofs --------------------------
(***************************************************************************)
(* What is proved of Tracking and RateLimits: that a score and its         *)
(* counters are lost together, and how many requests the two limiters let  *)
(* pass.                                                                   *)
(***************************************************************************)
EXTENDS Tracking, RateLimits, FiniteSetTheorems, WellFoundedInduction, TLAPS

-----------------------------------------------------------------------------
(* Tracking *)

ContactRow == [opens : Nat, clicks : Nat, score : Nat, valid : BOOLEAN]
Fits(p) == p \in ContactRow /\ p.score = p.opens + 5 * p.clicks

AHit(t) ==
    /\ t = [pc |-> t.pc, kind |-> t.kind, of |-> t.of, row |-> t.row, camp |-> t.camp, person |-> t.person]
    /\ t.kind \in {"open", "click"} /\ Fits(t.person)

\* Every copy of a contact fits, wherever it is kept and however old it is.
CopiesFit ==
    /\ person = [r \in Listed |-> person[r]] /\ \A r \in Listed : Fits(person[r])
    /\ hit = [h \in Hits |-> hit[h]]
    /\ \A h \in Hits : AHit(hit[h])
    /\ cleaning = [pc |-> cleaning.pc, copies |-> cleaning.copies, left |-> cleaning.left]
    /\ cleaning.copies = [r \in Listed |-> cleaning.copies[r]]
    /\ \A r \in Listed : Fits(cleaning.copies[r])

LEMMA NewFits == Fits(NewPerson)
BY DEF Fits, ContactRow, NewPerson

LEMMA HitFits ==
    ASSUME CopiesFit, NEW h \in Hits, NEW step, HitMoves(h, step), AHit(step), UNCHANGED cleaning,
           person' = [r \in Listed |-> person'[r]], \A r \in Listed : Fits(person'[r])
    PROVE  CopiesFit'
<1>1. hit' = [g \in Hits |-> IF g = h THEN step ELSE hit[g]]
  BY DEF HitMoves, CopiesFit
<1>2. hit' = [g \in Hits |-> hit'[g]] /\ \A g \in Hits : AHit(hit'[g])
  BY <1>1 DEF CopiesFit
<1> QED BY <1>2 DEF CopiesFit

\* A request that moves and saves no contact.
LEMMA MovesOnly ==
    ASSUME CopiesFit, NEW h \in Hits, NEW step, HitMoves(h, step), AHit(step),
           UNCHANGED <<person, cleaning>>
    PROVE  CopiesFit'
<1>1. person' = [r \in Listed |-> person'[r]] /\ \A r \in Listed : Fits(person'[r])
  BY DEF CopiesFit
<1> QED BY <1>1, HitFits

LEMMA NoHitFits == AHit(NoHit)
BY NewFits DEF NoHit, AHit

LEMMA DoneFits == ASSUME CopiesFit, NEW h \in Hits PROVE AHit(Done(h))
<1>1. PICK t : t = hit[h] /\ AHit(t)
  BY DEF CopiesFit
<1>2. PICK none : none = NoHit /\ AHit(none)
  BY NoHitFits
<1>3. PICK d : d = [none EXCEPT !.pc = "done", !.kind = t.kind, !.of = t.of]
  OBVIOUS
<1>4. AHit(d)
  BY <1>1, <1>2, <1>3 DEF AHit
<1> QED BY <1>1, <1>2, <1>3, <1>4 DEF Done

\* One more open is a point more, one more click five.
LEMMA PointsFit ==
    ASSUME NEW p, Fits(p), NEW kind \in {"open", "click"}
    PROVE  Fits([Increment(p, kind) EXCEPT !.score = @ + Points(kind)])
<1>1. PICK n \in Nat, m \in Nat, s \in Nat, v \in BOOLEAN :
        n = p.opens /\ m = p.clicks /\ s = p.score /\ v = p.valid
  BY DEF Fits, ContactRow
<1>2. s = n + 5 * m
  BY <1>1 DEF Fits
<1>3. CASE kind = "open"
  <2> DEFINE q == [p EXCEPT !.opens = n + 1]
             t == [q EXCEPT !.score = s + 1]
  <2>1. q \in ContactRow /\ q.opens = n + 1 /\ q.clicks = m /\ q.score = s
    BY <1>1 DEF Fits, ContactRow
  <2>2. t \in ContactRow /\ t.opens = n + 1 /\ t.clicks = m /\ t.score = s + 1
    <3> HIDE DEF q
    <3> QED BY <1>1, <2>1 DEF ContactRow
  <2>3. q = Increment(p, kind) /\ Points(kind) = 1
    BY <1>1, <1>3 DEF Increment, Points
  <2>4. Fits(t)
    <3> HIDE DEF t
    <3> QED BY <1>2, <2>2 DEF Fits
  <2>5. t = [Increment(p, kind) EXCEPT !.score = @ + Points(kind)]
    <3> HIDE DEF q
    <3> QED BY <2>1, <2>3
  <2> QED BY <2>4, <2>5
<1>4. CASE kind = "click"
  <2> DEFINE q == [p EXCEPT !.clicks = m + 1]
             t == [q EXCEPT !.score = s + 5]
  <2>1. q \in ContactRow /\ q.opens = n /\ q.clicks = m + 1 /\ q.score = s
    BY <1>1 DEF Fits, ContactRow
  <2>2. t \in ContactRow /\ t.opens = n /\ t.clicks = m + 1 /\ t.score = s + 5
    <3> HIDE DEF q
    <3> QED BY <1>1, <2>1 DEF ContactRow
  <2>3. q = Increment(p, kind) /\ Points(kind) = 5
    BY <1>1, <1>4 DEF Increment, Points
  <2>4. Fits(t)
    <3> HIDE DEF t
    <3> QED BY <1>2, <2>2 DEF Fits
  <2>5. t = [Increment(p, kind) EXCEPT !.score = @ + Points(kind)]
    <3> HIDE DEF q
    <3> QED BY <2>1, <2>3
  <2> QED BY <2>4, <2>5
<1> QED BY <1>3, <1>4

LEMMA HitStep ==
    ASSUME CopiesFit, NEW h \in Hits,
           \/ \E kind \in {"open", "click"}, r \in Recips : HandleTrack(h, kind, r)
           \/ ReadRecipient(h) \/ SaveRecipient(h) \/ ReadCounter(h) \/ SaveCounter(h)
           \/ ReadContact(h) \/ SaveContact(h)
    PROVE  CopiesFit'
<1>1. PICK t : t = hit[h] /\ AHit(t)
  BY DEF CopiesFit
<1>2. PICK none : none = NoHit /\ AHit(none)
  BY NoHitFits
<1>3. PICK d : d = Done(h) /\ AHit(d)
  BY DoneFits
<1>4. ASSUME NEW kind \in {"open", "click"}, NEW r \in Recips, HandleTrack(h, kind, r) PROVE CopiesFit'
  <2>1. PICK step : step = [none EXCEPT !.pc = "recip", !.kind = kind, !.of = r]
    OBVIOUS
  <2>2. AHit(step)
    BY <1>2, <2>1 DEF AHit
  <2> QED BY <1>2, <1>4, <2>1, <2>2, MovesOnly DEF HandleTrack
<1>5. CASE ReadRecipient(h)
  <2>1. PICK step : step = [t EXCEPT !.pc = "saveRecip", !.row = Marked(recip[t.of], t.kind)]
    OBVIOUS
  <2>2. AHit(step)
    BY <1>1, <2>1 DEF AHit
  <2>3. HitMoves(h, step) \/ HitMoves(h, d)
    BY <1>1, <1>3, <1>5, <2>1 DEF ReadRecipient
  <2>4. UNCHANGED <<person, cleaning>>
    BY <1>5 DEF ReadRecipient
  <2> QED BY <1>3, <2>2, <2>3, <2>4, MovesOnly
<1>6. CASE SaveRecipient(h)
  <2>1. PICK step : step = [t EXCEPT !.pc = "camp", !.row = NewRecipient]
    OBVIOUS
  <2>2. AHit(step)
    BY <1>1, <2>1 DEF AHit
  <2> QED BY <1>1, <1>6, <2>1, <2>2, MovesOnly DEF SaveRecipient
<1>7. CASE ReadCounter(h)
  <2>1. PICK step, over :
          step = [t EXCEPT !.pc = "saveCamp", !.camp = Increment(camp, t.kind)] /\ over = [t EXCEPT !.pc = "person"]
    OBVIOUS
  <2>2. AHit(step) /\ AHit(over)
    BY <1>1, <2>1 DEF AHit
  <2>3. HitMoves(h, step) \/ HitMoves(h, over)
    BY <1>1, <1>7, <2>1 DEF ReadCounter
  <2>4. UNCHANGED <<person, cleaning>>
    BY <1>7 DEF ReadCounter
  <2> QED BY <2>2, <2>3, <2>4, MovesOnly
<1>8. CASE SaveCounter(h)
  <2>1. PICK step : step = [t EXCEPT !.pc = "person", !.camp = NewCampaign]
    OBVIOUS
  <2>2. AHit(step)
    BY <1>1, <2>1 DEF AHit
  <2> QED BY <1>1, <1>8, <2>1, <2>2, MovesOnly DEF SaveCounter
<1>9. CASE ReadContact(h)
  <2>1. UNCHANGED <<person, cleaning>>
    BY <1>9 DEF ReadContact
  <2>2. CASE HitMoves(h, d)
    BY <1>3, <2>1, <2>2, MovesOnly
  <2>3. CASE /\ t.of \in Listed
             /\ HitMoves(h, [t EXCEPT !.pc = "savePerson", !.person =
                        [Increment(person[t.of], t.kind) EXCEPT !.score = @ + Points(t.kind)]])
    <3>1. PICK p : p = [Increment(person[t.of], t.kind) EXCEPT !.score = @ + Points(t.kind)]
      OBVIOUS
    <3>2. Fits(p)
      BY <1>1, <2>3, <3>1, PointsFit DEF CopiesFit, AHit
    <3>3. PICK step : step = [t EXCEPT !.pc = "savePerson", !.person = p]
      OBVIOUS
    <3>4. AHit(step)
      BY <1>1, <3>2, <3>3 DEF AHit
    <3> QED BY <2>1, <2>3, <3>1, <3>3, <3>4, MovesOnly
  <2>4. \/ HitMoves(h, d)
        \/ /\ t.of \in Listed
           /\ HitMoves(h, [t EXCEPT !.pc = "savePerson", !.person =
                        [Increment(person[t.of], t.kind) EXCEPT !.score = @ + Points(t.kind)]])
    BY <1>1, <1>3, <1>9 DEF ReadContact
  <2> QED BY <2>2, <2>3, <2>4
<1>10. CASE SaveContact(h)
  <2>1. HitMoves(h, d) /\ UNCHANGED cleaning
    BY <1>3, <1>10 DEF SaveContact
  <2>2. person' = person \/ person' = [person EXCEPT ![t.of] = t.person]
    BY <1>1, <1>10 DEF SaveContact
  <2>3. Fits(t.person)
    BY <1>1 DEF AHit
  <2>4. person' = [r \in Listed |-> person'[r]] /\ \A r \in Listed : Fits(person'[r])
    BY <2>2, <2>3 DEF CopiesFit
  <2> QED BY <1>3, <2>1, <2>4, HitFits
<1> QED BY <1>4, <1>5, <1>6, <1>7, <1>8, <1>9, <1>10

LEMMA CleaningStep ==
    ASSUME CopiesFit, CleanList \/ \E r \in Listed : CleanContact(r)
    PROVE  CopiesFit'
<1>1. CASE CleanList
  <2>1. UNCHANGED <<person, hit>> /\ cleaning' = [pc |-> "run", copies |-> person, left |-> Listed]
    BY <1>1 DEF CleanList
  <2>2. cleaning'.copies = person
    BY <2>1
  <2> QED BY <2>1, <2>2 DEF CopiesFit
<1>2. ASSUME NEW r \in Listed, CleanContact(r) PROVE CopiesFit'
  <2>1. PICK valid \in BOOLEAN :
          person' = [person EXCEPT ![r] = [cleaning.copies[r] EXCEPT !.valid = valid]]
    BY <1>2 DEF CleanContact
  <2>2. PICK p : p = cleaning.copies[r] /\ Fits(p)
    BY DEF CopiesFit
  <2>3. PICK q : q = [p EXCEPT !.valid = valid]
    OBVIOUS
  <2>4. Fits(q)
    BY <2>2, <2>3 DEF Fits, ContactRow
  <2>5. person' = [person EXCEPT ![r] = q]
    BY <2>1, <2>2, <2>3
  <2>6. person' = [s \in Listed |-> person'[s]] /\ \A s \in Listed : Fits(person'[s])
    BY <2>4, <2>5 DEF CopiesFit
  <2>7. PICK copies : copies = [cleaning.copies EXCEPT ![r] = NewPerson]
    OBVIOUS
  <2>8. PICK left : left = cleaning.left \ {r}
    OBVIOUS
  <2>9. cleaning' = [cleaning EXCEPT !.left = left, !.copies = copies]
    BY <1>2, <2>7, <2>8 DEF CleanContact
  <2>10. cleaning' = [pc |-> cleaning'.pc, copies |-> cleaning'.copies, left |-> cleaning'.left]
         /\ cleaning'.copies = copies
    BY <2>9 DEF CopiesFit
  <2>11. copies = [s \in Listed |-> copies[s]] /\ \A s \in Listed : Fits(copies[s])
    BY <2>7, NewFits DEF CopiesFit
  <2>12. UNCHANGED hit
    BY <1>2 DEF CleanContact
  <2> QED BY <2>6, <2>10, <2>11, <2>12 DEF CopiesFit
<1> QED BY <1>1, <1>2

(***************************************************************************)
(* The lead score of a contact is that of the opens and clicks beside it,  *)
(* for any number of recipients, requests, faults and saves of old copies  *)
(* (tracking.go, contacts.go).                                             *)
(***************************************************************************)
THEOREM ScoreAlwaysFits == TrackingSpec => []ScoreFitsCounters
<1>1. TrackingInit => CopiesFit
  <2> SUFFICES ASSUME TrackingInit PROVE CopiesFit
    OBVIOUS
  <2>1. PICK none : none = NoHit /\ AHit(none)
    BY NoHitFits
  <2>2. hit = [h \in Hits |-> none]
    BY <2>1 DEF TrackingInit
  <2>3. hit = [h \in Hits |-> hit[h]] /\ \A h \in Hits : AHit(hit[h])
    BY <2>1, <2>2
  <2> QED BY <2>3, NewFits DEF TrackingInit, CopiesFit
<1>2. CopiesFit /\ [TrackingNext]_trackingVars => CopiesFit'
  <2> SUFFICES ASSUME CopiesFit, [TrackingNext]_trackingVars PROVE CopiesFit'
    OBVIOUS
  <2>1. CASE UNCHANGED <<person, hit, cleaning>>
    BY <2>1 DEF CopiesFit
  <2>2. CASE BeginCampaign \/ CampaignBegun \/ FinishCampaign
               \/ \E r \in Recips : HandMail(r) \/ CollectResult(r)
    BY <2>1, <2>2 DEF BeginCampaign, CampaignBegun, FinishCampaign, HandMail, CollectResult
  <2> QED BY <2>1, <2>2, HitStep, CleaningStep DEF TrackingNext, trackingVars
<1>3. CopiesFit => ScoreFitsCounters
  BY DEF CopiesFit, Fits, ScoreFitsCounters
<1> QED BY <1>1, <1>2, <1>3, PTL DEF TrackingSpec

-----------------------------------------------------------------------------
(* RateLimits *)

Largest(S) == \E x \in S : \A y \in S : x >= y

LEMMA LargestExists ==
    ASSUME NEW S \in SUBSET Nat, S # {}, IsFiniteSet(S)
    PROVE  Largest(S)
<1> DEFINE Bad == {T \in FiniteSubsetsOf(S) : T # {} /\ ~Largest(T)}
<1>1. SUFFICES ASSUME ~Largest(S) PROVE FALSE
  OBVIOUS
<1>2. S \in Bad
  BY <1>1 DEF FiniteSubsetsOf
<1>3. PICK T \in Bad : \A U \in Bad : ~(<<U, T>> \in StrictSubsetOrdering(S))
  <2>1. IsWellFoundedOn(StrictSubsetOrdering(S), FiniteSubsetsOf(S))
    BY FS_StrictSubsetOrderingWellFounded
  <2>2. Bad \subseteq FiniteSubsetsOf(S) /\ Bad # {}
    BY <1>2
  <2> HIDE DEF Bad
  <2> QED BY <2>1, <2>2, WFMin
<1>4. PICK x \in T : TRUE
  OBVIOUS
<1>5. T \subseteq S /\ IsFiniteSet(T) /\ T # {} /\ ~Largest(T)
  BY DEF FiniteSubsetsOf
<1> DEFINE U == T \ {x}
<1>6. IsFiniteSet(U) /\ U \subseteq S /\ U # T
  BY <1>4, <1>5, FS_RemoveElement
<1>7. <<U, T>> \in StrictSubsetOrdering(S)
  BY <1>4, <1>5, <1>6 DEF StrictSubsetOrdering
<1>8. U = {} \/ Largest(U)
  BY <1>3, <1>6, <1>7 DEF FiniteSubsetsOf
<1>9. CASE U = {}
  BY <1>4, <1>5, <1>9 DEF Largest
<1>10. CASE Largest(U)
  <2>1. PICK m \in U : \A y \in U : m >= y
    BY <1>10 DEF Largest
  <2>2. m \in Nat /\ x \in Nat /\ m \in T
    BY <1>4, <1>5, <2>1
  <2>3. CASE m >= x
    BY <1>5, <2>1, <2>2, <2>3 DEF Largest
  <2>4. CASE x > m
    <3>1. \A y \in T : x >= y
      BY <1>5, <2>1, <2>2, <2>4
    <3> QED BY <1>4, <1>5, <3>1 DEF Largest
  <2> QED BY <2>2, <2>3, <2>4
<1> QED BY <1>8, <1>9, <1>10

\* The clocks of two processes are apart by the spread at most.
LEMMA SpreadBounds ==
    /\ Spread \in Int
    /\ \A o, p \in Offsets : o \in Nat /\ o - p <= Spread
<1>1. Offsets \subseteq Nat /\ Offsets # {} /\ IsFiniteSet(Offsets)
  BY RateLimitsAssumption
<1>2. Largest(Offsets)
  BY <1>1, LargestExists
<1>3. Max(Offsets) \in Offsets /\ \A y \in Offsets : Max(Offsets) >= y
  BY <1>2 DEF Largest, Max
<1>4. \E i \in Offsets : \A j \in Offsets : ~(<<j, i>> \in OpToRel(<, Nat))
  BY <1>1, NatLessThanWellFounded, WFMin
<1>5. \E i \in Offsets : \A j \in Offsets : i <= j
  <2>1. PICK i \in Offsets : \A j \in Offsets : ~(<<j, i>> \in OpToRel(<, Nat))
    BY <1>4
  <2>2. ASSUME NEW j \in Offsets PROVE i <= j
    <3>1. i \in Nat /\ j \in Nat
      BY <1>1
    <3>2. ~(j < i)
      BY <2>1, <3>1 DEF OpToRel
    <3> QED BY <3>1, <3>2
  <2> QED BY <2>2
<1>6. Min(Offsets) \in Offsets /\ \A y \in Offsets : Min(Offsets) <= y
  BY <1>5 DEF Min
<1>7. Max(Offsets) \in Nat /\ Min(Offsets) \in Nat
  BY <1>1, <1>3, <1>6
<1>8. ASSUME NEW o \in Offsets, NEW p \in Offsets PROVE o - p <= Max(Offsets) - Min(Offsets)
  <2>1. o \in Nat /\ p \in Nat /\ Max(Offsets) >= o /\ Min(Offsets) <= p
    BY <1>1, <1>3, <1>6
  <2> QED BY <1>7, <2>1
<1> QED BY <1>1, <1>7, <1>8 DEF Spread

\* The stamps of what Redis let through in the span that ends at a time.
Span(to) == {s[2] : s \in {x \in stamps : x[1] \in (to - Window + Spread + 1)..to}}

\* What was let through of late is still in the sorted set, which therefore was at most as
\* long as the limit when the last of it came.
WindowInv ==
    /\ tick \in Nat /\ expires \in Int
    /\ inWindow \subseteq Nat /\ IsFiniteSet(inWindow)
    /\ \A x \in stamps :
        /\ x[1] \in Nat /\ x[1] <= tick /\ x[2] \in Nat /\ x[2] - x[1] \in Offsets
        /\ x[1] + Window <= expires
        /\ tick - Window + Spread < x[1] => x[2] \in inWindow
    /\ \A to \in 0..tick : IsFiniteSet(Span(to)) /\ Cardinality(Span(to)) <= WindowLimit

LEMMA SpanPasses ==
    ASSUME WindowInv, stamps' = stamps, UNCHANGED tick \/ tick' = tick + 1
    PROVE  \A to \in 0..tick' : IsFiniteSet(Span(to)') /\ Cardinality(Span(to)') <= WindowLimit
<1> SUFFICES ASSUME NEW to \in 0..tick'
             PROVE  IsFiniteSet(Span(to)') /\ Cardinality(Span(to)') <= WindowLimit
  OBVIOUS
<1>1. Span(to)' = Span(to)
  BY DEF Span, Spread
<1>2. CASE to \in 0..tick
  BY <1>1, <1>2 DEF WindowInv
<1>3. CASE to = tick + 1
  <2>1. Window \in Nat /\ tick \in Nat /\ tick \in 0..tick /\ Spread \in Int
    BY RateLimitsAssumption, SpreadBounds DEF WindowInv
  <2>2. Span(to) \subseteq Span(tick)
    <3>1. ASSUME NEW x \in stamps, x[1] \in (to - Window + Spread + 1)..to
          PROVE  x[1] \in (tick - Window + Spread + 1)..tick
      BY <1>3, <2>1, <3>1 DEF WindowInv
    <3> QED BY <3>1 DEF Span
  <2>3. IsFiniteSet(Span(tick)) /\ Cardinality(Span(tick)) <= WindowLimit
    BY <2>1 DEF WindowInv
  <2>4. IsFiniteSet(Span(to)) /\ Cardinality(Span(to)) <= Cardinality(Span(tick))
    BY <2>2, <2>3, FS_Subset
  <2>5. Cardinality(Span(to)) \in Nat /\ Cardinality(Span(tick)) \in Nat /\ WindowLimit \in Nat
    BY <2>3, <2>4, FS_CardinalityType, RateLimitsAssumption
  <2> QED BY <1>1, <2>3, <2>4, <2>5
<1> QED BY <1>2, <1>3 DEF WindowInv

\* What a script removes is older than any span that ends now.
LEMMA RemovedIsOld ==
    ASSUME WindowInv, NEW o \in Offsets, NEW x \in stamps, tick - Window + Spread < x[1]
    PROVE  x[2] \in inWindow /\ x[2] > tick + o - Window
<1>1. x[2] \in inWindow /\ x[1] \in Nat /\ x[2] \in Nat /\ x[2] - x[1] \in Offsets /\ tick \in Nat
  BY DEF WindowInv
<1>2. o - (x[2] - x[1]) <= Spread /\ o \in Nat /\ Spread \in Int /\ Window \in Nat
  BY <1>1, SpreadBounds, RateLimitsAssumption
<1> QED BY <1>1, <1>2

LEMMA AllowKeeps ==
    ASSUME WindowInv, NEW o \in Offsets, RedisAllow(o) PROVE WindowInv'
<1> DEFINE now == tick + o
           inside == {s \in inWindow : s > now - Window}
<1>1. /\ tick \in Nat /\ o \in Nat /\ now \in Nat /\ Window \in Nat \ {0} /\ WindowLimit \in Nat \ {0}
      /\ Spread \in Int /\ expires \in Int
  BY SpreadBounds, RateLimitsAssumption DEF WindowInv
<1>2. UNCHANGED tick
  BY DEF RedisAllow
<1>3. \A x \in stamps : tick - Window + Spread < x[1] => x[2] \in inside
  <2> SUFFICES ASSUME NEW x \in stamps, tick - Window + Spread < x[1] PROVE x[2] \in inside
    OBVIOUS
  <2>1. x[2] \in inWindow /\ x[2] > tick + o - Window
    BY RemovedIsOld
  <2> QED BY <1>1, <2>1
<1>4. inside \subseteq Nat /\ IsFiniteSet(inside)
  <2>1. inside \subseteq inWindow
    OBVIOUS
  <2> QED BY <2>1, FS_Subset DEF WindowInv
<1>5. CASE Cardinality(inside) < WindowLimit
  <2>1. inWindow' = inside \cup {now} /\ expires' = tick + Window /\ stamps' = stamps \cup {<<tick, now>>}
    BY <1>5 DEF RedisAllow
  <2>2. ASSUME NEW x \in stamps'
        PROVE  /\ x[1] \in Nat /\ x[1] <= tick' /\ x[2] \in Nat /\ x[2] - x[1] \in Offsets
               /\ x[1] + Window <= expires'
               /\ tick' - Window + Spread < x[1] => x[2] \in inWindow'
    <3>1. CASE x \in stamps
      <4>1. x[1] \in Nat /\ x[1] <= tick /\ x[2] \in Nat /\ x[2] - x[1] \in Offsets
        BY <3>1 DEF WindowInv
      <4> HIDE DEF now, inside
      <4> QED BY <1>1, <1>2, <1>3, <2>1, <3>1, <4>1
    <3>2. CASE x = <<tick, now>>
      <4>1. x[1] = tick /\ x[2] = tick + o
        BY <3>2
      <4> QED BY <1>1, <1>2, <2>1, <4>1
    <3> QED BY <2>1, <3>1, <3>2
  <2>3. ASSUME NEW to \in 0..tick', to # tick
        PROVE  IsFiniteSet(Span(to)') /\ Cardinality(Span(to)') <= WindowLimit
    <3>1. Span(to)' = Span(to)
      <4>1. to < tick /\ to \in Int
        BY <1>1, <1>2, <2>3
      <4>2. {x \in stamps' : x[1] \in (to - Window + Spread + 1)..to}
             = {x \in stamps : x[1] \in (to - Window + Spread + 1)..to}
        <5>1. <<tick, now>>[1] = tick
          OBVIOUS
        <5>2. ~(tick \in (to - Window + Spread + 1)..to)
          BY <1>1, <4>1
        <5> QED BY <2>1, <5>1, <5>2
      <4> QED BY <4>2 DEF Span, Spread
    <3>2. to \in 0..tick
      BY <1>2
    <3> QED BY <3>1, <3>2 DEF WindowInv
  <2>4. IsFiniteSet(Span(tick)') /\ Cardinality(Span(tick)') <= WindowLimit
    <3>1. ASSUME NEW x \in stamps', x[1] \in (tick - Window + Spread + 1)..tick
          PROVE  x[2] \in inside \cup {now}
      <4>1. CASE x \in stamps
        <5>1. x[1] \in Nat /\ tick - Window + Spread < x[1]
          BY <1>1, <3>1, <4>1 DEF WindowInv
        <5> QED BY <1>3, <4>1, <5>1
      <4>2. CASE x = <<tick, now>>
        BY <4>2
      <4> QED BY <2>1, <4>1, <4>2
    <3>2. Span(tick)' = {s[2] : s \in {x \in stamps' : x[1] \in (tick - Window + Spread + 1)..tick}}
      BY <1>2 DEF Span, Spread
    <3>3. Span(tick)' \subseteq inside \cup {now}
      BY <3>1, <3>2
    <3> HIDE DEF inside, now
    <3>4. IsFiniteSet(inside \cup {now}) /\ Cardinality(inside \cup {now}) <= WindowLimit
      <4>1. Cardinality(inside) \in Nat /\ Cardinality(inside) + 1 <= WindowLimit
        BY <1>1, <1>4, <1>5, FS_CardinalityType
      <4>2. IsFiniteSet(inside \cup {now})
            /\ Cardinality(inside \cup {now}) = IF now \in inside THEN Cardinality(inside) ELSE Cardinality(inside) + 1
        BY <1>4, FS_AddElement
      <4> QED BY <1>1, <4>1, <4>2
    <3>5. IsFiniteSet(Span(tick)') /\ Cardinality(Span(tick)') <= Cardinality(inside \cup {now})
      BY <3>3, <3>4, FS_Subset
    <3>6. Cardinality(Span(tick)') \in Nat /\ Cardinality(inside \cup {now}) \in Nat
      BY <3>4, <3>5, FS_CardinalityType
    <3> QED BY <1>1, <3>4, <3>5, <3>6
  <2>5. inWindow' \subseteq Nat /\ IsFiniteSet(inWindow') /\ expires' \in Int /\ tick' \in Nat
    <3> HIDE DEF inside, now
    <3>1. IsFiniteSet(inside \cup {now})
      BY <1>4, FS_AddElement
    <3>2. inWindow' \subseteq Nat /\ IsFiniteSet(inWindow')
      BY <1>1, <1>4, <2>1, <3>1
    <3> QED BY <1>1, <1>2, <2>1, <3>2
  <2>6. \A to \in 0..tick' : IsFiniteSet(Span(to)') /\ Cardinality(Span(to)') <= WindowLimit
    BY <1>2, <2>3, <2>4
  <2> QED BY <2>2, <2>5, <2>6 DEF WindowInv
<1>6. CASE ~(Cardinality(inside) < WindowLimit)
  <2>1. inWindow' = inside /\ UNCHANGED <<expires, stamps>>
    BY <1>6 DEF RedisAllow
  <2>2. \A to \in 0..tick' : IsFiniteSet(Span(to)') /\ Cardinality(Span(to)') <= WindowLimit
    BY <1>2, <2>1, SpanPasses
  <2>3. inWindow' \subseteq Nat /\ IsFiniteSet(inWindow') /\ expires' \in Int /\ tick' \in Nat
    BY <1>1, <1>2, <1>4, <2>1
  <2>4. ASSUME NEW x \in stamps'
        PROVE  /\ x[1] \in Nat /\ x[1] <= tick' /\ x[2] \in Nat /\ x[2] - x[1] \in Offsets
               /\ x[1] + Window <= expires'
               /\ tick' - Window + Spread < x[1] => x[2] \in inWindow'
    BY <1>2, <1>3, <2>1 DEF WindowInv
  <2> QED BY <2>2, <2>3, <2>4 DEF WindowInv
<1> QED BY <1>5, <1>6

\* An error of Redis may add a stamp of a request that nobody refused.
LEMMA UnansweredKeeps ==
    ASSUME WindowInv, NEW o \in Offsets, RedisUnanswered(o) PROVE WindowInv'
<1> DEFINE now == tick + o
           inside == {s \in inWindow : s > now - Window}
<1>1. /\ tick \in Nat /\ o \in Nat /\ now \in Nat /\ Window \in Nat \ {0}
      /\ Spread \in Int /\ expires \in Int
  BY SpreadBounds, RateLimitsAssumption DEF WindowInv
<1>2. /\ UNCHANGED <<tick, stamps>>
      /\ expires' = expires \/ expires' = tick + Window
      /\ inWindow' = inWindow \/ inWindow' = inside \cup {now}
  <2>1. UNCHANGED <<tick, stamps>>
    BY DEF RedisUnanswered
  <2>2. expires' = expires \/ expires' = tick + Window
    BY DEF RedisUnanswered
  <2>3. inWindow' = inWindow \/ inWindow' = inside \cup {now}
    <3>1. inWindow' \in {inWindow, {s \in inWindow : s > tick + o - Window} \cup {tick + o}}
      BY DEF RedisUnanswered
    <3>2. PICK kept : kept = {s \in inWindow : s > tick + o - Window}
      OBVIOUS
    <3>3. inWindow' = inWindow \/ inWindow' = kept \cup {tick + o}
      BY <3>1, <3>2
    <3>4. kept = inside
      <4>1. inWindow \subseteq Nat
        BY DEF WindowInv
      <4>2. \A s \in inWindow : s \in kept <=> s \in inside
        BY <1>1, <3>2, <4>1
      <4> QED BY <3>2, <4>2
    <3> QED BY <3>3, <3>4
  <2> QED BY <2>1, <2>2, <2>3
<1>3. \A x \in stamps : tick - Window + Spread < x[1] => x[2] \in inside
  <2> SUFFICES ASSUME NEW x \in stamps, tick - Window + Spread < x[1] PROVE x[2] \in inside
    OBVIOUS
  <2>1. x[2] \in inWindow /\ x[2] > tick + o - Window
    BY RemovedIsOld
  <2> QED BY <1>1, <2>1
<1>4. inside \subseteq Nat /\ IsFiniteSet(inside)
  <2>1. inside \subseteq inWindow
    OBVIOUS
  <2> QED BY <2>1, FS_Subset DEF WindowInv
<1> HIDE DEF inside, now
<1>5. IsFiniteSet(inside \cup {now})
  BY <1>4, FS_AddElement
<1>6. inWindow' \subseteq Nat /\ IsFiniteSet(inWindow') /\ expires' \in Int /\ tick' \in Nat
  <2>1. inWindow \subseteq Nat /\ IsFiniteSet(inWindow)
    BY DEF WindowInv
  <2>2. inside \cup {now} \subseteq Nat
    BY <1>1, <1>4
  <2>3. inWindow' \subseteq Nat /\ IsFiniteSet(inWindow')
    BY <1>2, <1>5, <2>1, <2>2
  <2>4. expires' \in Int /\ tick' \in Nat
    BY <1>1, <1>2
  <2> QED BY <2>3, <2>4
<1>7. ASSUME NEW x \in stamps'
      PROVE  /\ x[1] \in Nat /\ x[1] <= tick' /\ x[2] \in Nat /\ x[2] - x[1] \in Offsets
             /\ x[1] + Window <= expires'
             /\ tick' - Window + Spread < x[1] => x[2] \in inWindow'
  <2>1. x[1] \in Nat /\ x[1] <= tick /\ x[2] \in Nat /\ x[2] - x[1] \in Offsets
        /\ x[1] + Window <= expires
        /\ (tick - Window + Spread < x[1] => x[2] \in inWindow /\ x[2] \in inside)
    BY <1>2, <1>3 DEF WindowInv
  <2>2. x[1] + Window <= expires'
    BY <1>1, <1>2, <2>1
  <2> QED BY <1>2, <2>1, <2>2
<1>8. \A to \in 0..tick' : IsFiniteSet(Span(to)') /\ Cardinality(Span(to)') <= WindowLimit
  BY <1>2, SpanPasses
<1> QED BY <1>6, <1>7, <1>8 DEF WindowInv

\* When Redis drops the key, all that it held is older than the window.
LEMMA TickKeeps == ASSUME WindowInv, RatesTick PROVE WindowInv'
<1>1. /\ tick \in Nat /\ Window \in Nat \ {0} /\ Spread \in Int /\ expires \in Int
  BY SpreadBounds, RateLimitsAssumption DEF WindowInv
<1>2. UNCHANGED <<stamps, expires>> /\ tick' = tick + 1
      /\ inWindow' = IF tick' >= expires THEN {} ELSE inWindow
  BY DEF RatesTick
<1>3. Spread >= 0
  <2>1. PICK o \in Offsets : TRUE
    BY RateLimitsAssumption
  <2>2. o \in Nat /\ o - o <= Spread
    BY SpreadBounds
  <2> QED BY <1>1, <2>2
<1>4. ASSUME NEW x \in stamps'
      PROVE  /\ x[1] \in Nat /\ x[1] <= tick' /\ x[2] \in Nat /\ x[2] - x[1] \in Offsets
             /\ x[1] + Window <= expires'
             /\ tick' - Window + Spread < x[1] => x[2] \in inWindow'
  <2>1. x[1] \in Nat /\ x[1] <= tick /\ x[2] \in Nat /\ x[2] - x[1] \in Offsets
        /\ x[1] + Window <= expires
        /\ (tick - Window + Spread < x[1] => x[2] \in inWindow)
    BY <1>2 DEF WindowInv
  <2>2. tick' - Window + Spread < x[1] => tick' < expires
    BY <1>1, <1>2, <1>3, <2>1
  <2> QED BY <1>1, <1>2, <2>1, <2>2
<1>5. \A to \in 0..tick' : IsFiniteSet(Span(to)') /\ Cardinality(Span(to)') <= WindowLimit
  BY <1>2, SpanPasses
<1>6. inWindow' \subseteq Nat /\ IsFiniteSet(inWindow')
  BY <1>2, FS_EmptySet DEF WindowInv
<1> QED BY <1>1, <1>2, <1>4, <1>5, <1>6 DEF WindowInv

(***************************************************************************)
(* For any number of processes, offsets of their clocks, window and limit, *)
(* the script of Redis lets no more stamps pass in a span that is shorter  *)
(* than the window by the spread of the clocks, also when it fails and     *)
(* when it drops the key (redis_ratelimit.go).                             *)
(***************************************************************************)
THEOREM WindowAlwaysHolds == RatesSpec => []WindowHolds
<1>1. RatesInit => WindowInv
  <2> SUFFICES ASSUME RatesInit PROVE WindowInv
    OBVIOUS
  <2>1. \A to \in 0..tick : Span(to) = {}
    BY DEF RatesInit, Span
  <2>2. \A to \in 0..tick : IsFiniteSet(Span(to)) /\ Cardinality(Span(to)) <= WindowLimit
    BY <2>1, FS_EmptySet, RateLimitsAssumption
  <2> QED BY <2>2, FS_EmptySet DEF RatesInit, WindowInv
<1>2. WindowInv /\ [RatesNext]_rateVars => WindowInv'
  <2> SUFFICES ASSUME WindowInv, [RatesNext]_rateVars PROVE WindowInv'
    OBVIOUS
  <2>1. CASE UNCHANGED <<tick, inWindow, expires, stamps>>
    <3>1. \A to \in 0..tick' : IsFiniteSet(Span(to)') /\ Cardinality(Span(to)') <= WindowLimit
      BY <2>1, SpanPasses
    <3> QED BY <2>1, <3>1, SpreadBounds DEF WindowInv, Spread
  <2>2. CASE cleanupVisitors \/ \E q \in Waiting : getVisitor(q) \/ Limit(q)
    BY <2>1, <2>2 DEF cleanupVisitors, getVisitor, Limit
  <2> QED BY <2>1, <2>2, AllowKeeps, UnansweredKeeps, TickKeeps DEF RatesNext, rateVars
<1>3. WindowInv => WindowHolds
  BY DEF WindowInv, WindowHolds, Span
<1> QED BY <1>1, <1>2, <1>3, PTL DEF RatesSpec

SoFar == passed[tick + 1]
Tokens == 0..Burst

\* Nobody holds a bucket but the one of the entry; what the client got and the tokens it has
\* left are no more than a full bucket and the time; a client whose entry is gone has had the
\* time to fill a bucket.
BucketInv ==
    /\ tick \in 0..LastTick /\ passed \in [0..(LastTick + 1) -> Int]
    /\ buckets \in Seq(Tokens)
    /\ visitor = Absent \/ (visitor.limiter \in 1..Len(buckets) /\ visitor.seen \in 0..tick)
    /\ \A t \in (tick + 1)..(LastTick + 1) : passed[t] = SoFar
    /\ holding \in [Waiting -> [limiter : Nat, since : Nat]]
    /\ \A q \in Waiting : holding[q] # NotWaiting =>
        /\ visitor # Absent /\ holding[q].limiter = visitor.limiter
        /\ holding[q].since <= visitor.seen /\ tick - holding[q].since <= MaxStall
    /\ visitor = Absent => \A from \in 0..tick : SoFar - passed[from] <= tick - from
    /\ visitor # Absent =>
        /\ \A from \in 0..tick :
            SoFar - passed[from] + buckets[visitor.limiter] <= Burst + (tick - from)
        /\ \A t \in 0..tick : t > visitor.seen + MaxStall => passed[t] = SoFar
    /\ BucketHolds

LEMMA BucketTypes ==
    ASSUME BucketInv
    PROVE  /\ tick \in Nat /\ LastTick \in Nat /\ tick <= LastTick /\ Burst \in Nat /\ MaxStall \in Nat
           /\ IdleTicks \in Nat /\ IdleTicks >= Burst + MaxStall /\ Burst >= 1
           /\ SoFar \in Int
           /\ \A t \in 0..(LastTick + 1) : passed[t] \in Int
           /\ visitor # Absent =>
                /\ visitor.limiter \in 1..Len(buckets) /\ visitor.seen \in 0..tick
                /\ buckets[visitor.limiter] \in 0..Burst
<1>1. /\ tick \in Nat /\ LastTick \in Nat /\ tick <= LastTick /\ Burst \in Nat /\ MaxStall \in Nat
      /\ IdleTicks \in Nat /\ IdleTicks >= Burst + MaxStall /\ Burst >= 1
  BY RateLimitsAssumption DEF BucketInv
<1>2. \A t \in 0..(LastTick + 1) : passed[t] \in Int
  BY DEF BucketInv
<1>3. tick + 1 \in 0..(LastTick + 1)
  BY <1>1
<1>4. visitor # Absent => buckets[visitor.limiter] \in 0..Burst
  <2>1. visitor # Absent => visitor.limiter \in 1..Len(buckets)
    BY DEF BucketInv
  <2>2. buckets \in Seq(Tokens)
    BY DEF BucketInv
  <2>3. \A l \in 1..Len(buckets) : buckets[l] \in Tokens
    BY <2>2
  <2> QED BY <2>1, <2>3 DEF Tokens
<1> QED BY <1>1, <1>2, <1>3, <1>4 DEF BucketInv, SoFar

\* No span holds more because time passes.
LEMMA SpansKept ==
    ASSUME BucketInv, passed' = passed, tick' = tick \/ (tick' = tick + 1 /\ tick < LastTick)
    PROVE  BucketHolds'
<1> SUFFICES ASSUME NEW from \in 0..tick', NEW to \in 0..tick', from <= to
             PROVE  passed[to + 1] - passed[from] <= Burst + (to - from)
  BY DEF BucketHolds
<1>1. tick \in Nat /\ LastTick \in Nat /\ tick <= LastTick /\ Burst \in Nat /\ SoFar \in Int
      /\ \A t \in 0..(LastTick + 1) : passed[t] \in Int
  BY BucketTypes
<1>2. CASE to <= tick
  <2>1. from \in 0..tick /\ to \in 0..tick
    BY <1>1, <1>2
  <2> QED BY <2>1 DEF BucketInv, BucketHolds
<1>3. CASE to > tick
  <2>1. tick' = tick + 1 /\ tick < LastTick /\ to = tick + 1
    BY <1>1, <1>3
  <2>2. tick + 2 \in (tick + 1)..(LastTick + 1) /\ to + 1 = tick + 2
    BY <1>1, <2>1
  <2>3. passed[to + 1] = SoFar
    BY <2>2 DEF BucketInv
  <2>4. CASE from = to
    <3>1. passed[from] = SoFar
      BY <2>1, <2>4 DEF SoFar
    <3> QED BY <1>1, <2>1, <2>3, <2>4, <3>1
  <2>5. CASE from # to
    <3>1. from \in 0..tick
      BY <1>1, <2>1, <2>5
    <3>2. passed[tick + 1] - passed[from] <= Burst + (tick - from)
      BY <1>1, <3>1 DEF BucketInv, BucketHolds
    <3>3. passed[from] \in Int /\ passed[tick + 1] = SoFar
      BY <1>1, <3>1 DEF SoFar
    <3> QED BY <1>1, <2>1, <2>3, <3>1, <3>2, <3>3
  <2> QED BY <2>4, <2>5
<1> QED BY <1>1, <1>2, <1>3

LEMMA VisitorKeeps ==
    ASSUME BucketInv, NEW q \in Waiting, getVisitor(q) PROVE BucketInv'
<1>1. PICK limiter : limiter = IF visitor = Absent THEN Len(buckets) + 1 ELSE visitor.limiter
  OBVIOUS
<1>2. PICK entry : entry = [limiter |-> limiter, seen |-> tick]
  OBVIOUS
<1>3. PICK held : held = [limiter |-> limiter, since |-> tick]
  OBVIOUS
<1>4. /\ visitor' = entry /\ holding' = [holding EXCEPT ![q] = held]
      /\ buckets' = IF visitor = Absent THEN Append(buckets, Burst) ELSE buckets
      /\ tick' = tick /\ passed' = passed /\ SoFar' = SoFar
  BY <1>1, <1>2, <1>3 DEF getVisitor, SoFar
<1>5. /\ tick \in Nat /\ LastTick \in Nat /\ tick <= LastTick /\ Burst \in Nat /\ MaxStall \in Nat
      /\ SoFar \in Int /\ \A t \in 0..(LastTick + 1) : passed[t] \in Int
      /\ buckets \in Seq(Tokens)
  BY BucketTypes DEF BucketInv
<1>6. /\ buckets' \in Seq(Tokens) /\ limiter \in 1..Len(buckets') /\ limiter \in Nat /\ limiter >= 1
      /\ visitor = Absent => buckets'[limiter] = Burst
      /\ visitor # Absent => limiter = visitor.limiter /\ buckets'[limiter] = buckets[visitor.limiter]
  <2>1. CASE visitor = Absent
    <3>1. buckets' = Append(buckets, Burst) /\ limiter = Len(buckets) + 1 /\ Burst \in Tokens
      BY <1>1, <1>4, <1>5, <2>1 DEF Tokens
    <3> QED BY <1>5, <2>1, <3>1
  <2>2. CASE visitor # Absent
    BY <1>1, <1>4, <1>5, <2>2, BucketTypes
  <2> QED BY <2>1, <2>2
<1>7. /\ entry # Absent /\ entry.limiter = limiter /\ entry.seen = tick
      /\ held.limiter = limiter /\ held.since = tick /\ held \in [limiter : Nat, since : Nat]
  BY <1>2, <1>3, <1>5, <1>6 DEF Absent
<1>8. holding' \in [Waiting -> [limiter : Nat, since : Nat]]
  BY <1>4, <1>7 DEF BucketInv
<1>9. ASSUME NEW p \in Waiting, holding'[p] # NotWaiting
      PROVE  /\ visitor' # Absent /\ holding'[p].limiter = visitor'.limiter
             /\ holding'[p].since <= visitor'.seen /\ tick' - holding'[p].since <= MaxStall
  <2>1. CASE p = q
    BY <1>4, <1>5, <1>7, <2>1 DEF BucketInv
  <2>2. CASE p # q
    <3>1. holding'[p] = holding[p]
      BY <1>4, <2>2 DEF BucketInv
    <3>2. /\ visitor # Absent /\ holding[p].limiter = visitor.limiter
          /\ holding[p].since <= visitor.seen /\ tick - holding[p].since <= MaxStall
      BY <1>9, <3>1 DEF BucketInv
    <3>3. holding[p].since \in Nat /\ visitor.seen \in 0..tick
      BY <3>2, BucketTypes DEF BucketInv
    <3> QED BY <1>4, <1>5, <1>6, <1>7, <3>1, <3>2, <3>3
  <2> QED BY <2>1, <2>2
<1>10. ASSUME NEW from \in 0..tick
       PROVE  SoFar - passed[from] + buckets'[limiter] <= Burst + (tick - from)
  <2>1. passed[from] \in Int
    BY <1>5
  <2>2. CASE visitor = Absent
    <3>1. SoFar - passed[from] <= tick - from
      BY <2>2 DEF BucketInv
    <3> QED BY <1>5, <1>6, <2>1, <2>2, <3>1
  <2>3. CASE visitor # Absent
    BY <1>6, <2>3 DEF BucketInv
  <2> QED BY <2>2, <2>3
<1>11. \A t \in 0..tick' : ~(t > visitor'.seen + MaxStall)
  BY <1>4, <1>5, <1>7
<1>12. \A t \in (tick + 1)..(LastTick + 1) : passed[t] = SoFar
  BY DEF BucketInv
<1>13. BucketHolds'
  BY <1>4, SpansKept
<1>14. visitor'.limiter \in 1..Len(buckets') /\ visitor'.seen \in 0..tick'
  BY <1>4, <1>5, <1>6, <1>7
<1>15. tick \in 0..LastTick /\ passed \in [0..(LastTick + 1) -> Int]
  BY DEF BucketInv
<1> QED BY <1>4, <1>6, <1>7, <1>8, <1>9, <1>10, <1>11, <1>12, <1>13, <1>14, <1>15 DEF BucketInv

LEMMA LimitKeeps ==
    ASSUME BucketInv, NEW q \in Waiting, Limit(q) PROVE BucketInv'
<1>1. PICK b : b = holding[q].limiter
  OBVIOUS
<1>2. /\ holding[q] # NotWaiting /\ holding' = [holding EXCEPT ![q] = NotWaiting]
      /\ tick' = tick /\ visitor' = visitor
      /\ IF buckets[b] > 0
           THEN /\ buckets' = [buckets EXCEPT ![b] = @ - 1]
                /\ passed' = [t \in DOMAIN passed |-> IF t > tick THEN passed[t] + 1 ELSE passed[t]]
           ELSE UNCHANGED <<buckets, passed>>
  BY <1>1 DEF Limit
<1>3. /\ tick \in Nat /\ LastTick \in Nat /\ tick <= LastTick /\ Burst \in Nat /\ MaxStall \in Nat
      /\ SoFar \in Int /\ \A t \in 0..(LastTick + 1) : passed[t] \in Int
      /\ buckets \in Seq(Tokens) /\ passed \in [0..(LastTick + 1) -> Int] /\ tick \in 0..LastTick
      /\ holding \in [Waiting -> [limiter : Nat, since : Nat]]
  BY BucketTypes DEF BucketInv
<1>4. /\ visitor # Absent /\ b = visitor.limiter /\ b \in 1..Len(buckets) /\ buckets[b] \in 0..Burst
      /\ holding[q].since <= visitor.seen /\ tick - holding[q].since <= MaxStall
      /\ holding[q].since \in Nat /\ visitor.seen \in 0..tick
  <2>1. /\ visitor # Absent /\ holding[q].limiter = visitor.limiter
        /\ holding[q].since <= visitor.seen /\ tick - holding[q].since <= MaxStall
    BY <1>2 DEF BucketInv
  <2> QED BY <1>1, <1>3, <2>1, BucketTypes
<1>5. holding' \in [Waiting -> [limiter : Nat, since : Nat]] /\ holding'[q] = NotWaiting
      /\ \A p \in Waiting \ {q} : holding'[p] = holding[p]
  <2>1. NotWaiting \in [limiter : Nat, since : Nat]
    BY DEF NotWaiting
  <2> QED BY <1>2, <1>3, <2>1
<1>6. \A p \in Waiting : holding'[p] # NotWaiting =>
        /\ visitor' # Absent /\ holding'[p].limiter = visitor'.limiter
        /\ holding'[p].since <= visitor'.seen /\ tick' - holding'[p].since <= MaxStall
  BY <1>2, <1>5 DEF BucketInv
<1>7. CASE ~(buckets[b] > 0)
  <2>1. buckets' = buckets /\ passed' = passed /\ SoFar' = SoFar
    BY <1>2, <1>7 DEF SoFar
  <2>2. BucketHolds'
    BY <1>2, <2>1, SpansKept
  <2> QED BY <1>2, <1>5, <1>6, <2>1, <2>2 DEF BucketInv
<1>8. CASE buckets[b] > 0
  <2>1. /\ buckets' = [buckets EXCEPT ![b] = @ - 1]
        /\ passed' = [t \in 0..(LastTick + 1) |-> IF t > tick THEN passed[t] + 1 ELSE passed[t]]
    BY <1>2, <1>3, <1>8
  <2>20. PICK old \in 1..Burst : old = buckets[b]
    BY <1>3, <1>4, <1>8
  <2>21. buckets' = [buckets EXCEPT ![b] = old - 1] /\ old - 1 \in 0..Burst
    BY <1>3, <2>1, <2>20
  <2>22. PICK new \in 0..Burst : new = old - 1
    BY <2>21
  <2>2. buckets' \in Seq(Tokens) /\ Len(buckets') = Len(buckets) /\ buckets'[b] = new
    <3>1. new \in Tokens /\ buckets' = [buckets EXCEPT ![b] = new]
      BY <2>21, <2>22 DEF Tokens
    <3> QED BY <1>3, <1>4, <3>1
  <2>3. /\ passed' \in [0..(LastTick + 1) -> Int]
        /\ \A t \in 0..(LastTick + 1) : passed'[t] = IF t > tick THEN passed[t] + 1 ELSE passed[t]
    BY <1>3, <2>1
  <2>4. SoFar' = SoFar + 1 /\ passed'[tick + 1] = SoFar + 1
    BY <1>2, <1>3, <2>3 DEF SoFar
  <2>5. \A t \in 0..tick : passed'[t] = passed[t]
    BY <1>3, <2>3
  <2>6. \A t \in (tick + 1)..(LastTick + 1) : passed'[t] = SoFar + 1
    <3> SUFFICES ASSUME NEW t \in (tick + 1)..(LastTick + 1) PROVE passed'[t] = SoFar + 1
      OBVIOUS
    <3>1. passed[t] = SoFar
      BY DEF BucketInv
    <3>2. t \in 0..(LastTick + 1) /\ t > tick
      BY <1>3
    <3> QED BY <2>3, <3>1, <3>2
  <2>7. ASSUME NEW from \in 0..tick
        PROVE  SoFar' - passed'[from] + new <= Burst + (tick - from)
    <3>1. SoFar - passed[from] + old <= Burst + (tick - from)
      BY <1>4, <2>20 DEF BucketInv
    <3>2. passed[from] \in Int /\ passed'[from] = passed[from]
      BY <1>3, <2>5
    <3>3. new = old - 1 /\ old \in Int /\ Burst \in Int /\ tick \in Int /\ from \in Int /\ SoFar \in Int
      BY <1>3, <2>20, <2>22
    <3> QED BY <2>4, <3>1, <3>2, <3>3
  <2>8. \A t \in 0..tick : ~(t > visitor.seen + MaxStall)
    BY <1>3, <1>4
  <2>9. BucketHolds'
    <3> SUFFICES ASSUME NEW from \in 0..tick, NEW to \in 0..tick, from <= to
                 PROVE  passed'[to + 1] - passed'[from] <= Burst + (to - from)
      BY <1>2 DEF BucketHolds
    <3>1. CASE to = tick
      <4>1. SoFar' - passed'[from] + new <= Burst + (tick - from)
        BY <2>7
      <4>2. passed[from] \in Int /\ passed'[from] = passed[from] /\ new \in Nat /\ Burst \in Nat
        BY <1>3, <2>5, <2>22
      <4> QED BY <1>3, <2>4, <3>1, <4>1, <4>2
    <3>2. CASE to # tick
      <4>1. to + 1 \in 0..tick
        BY <1>3, <3>2
      <4>2. passed[to + 1] - passed[from] <= Burst + (to - from)
        BY DEF BucketInv, BucketHolds
      <4> QED BY <2>5, <4>1, <4>2
    <3> QED BY <3>1, <3>2
  <2>10. visitor'.limiter \in 1..Len(buckets') /\ visitor'.seen \in 0..tick'
    BY <1>2, <1>4, <2>2
  <2> QED BY <1>2, <1>3, <1>4, <1>5, <1>6, <2>2, <2>3, <2>4, <2>6, <2>7, <2>8, <2>9, <2>10 DEF BucketInv
<1> QED BY <1>7, <1>8

\* Who was not seen for so long has a full bucket, and nobody still holds it.
LEMMA CleanupKeeps == ASSUME BucketInv, cleanupVisitors PROVE BucketInv'
<1>1. /\ visitor # Absent /\ tick - visitor.seen > IdleTicks /\ visitor' = Absent
      /\ UNCHANGED <<tick, buckets, holding, passed>> /\ SoFar' = SoFar
  BY DEF cleanupVisitors, SoFar
<1>2. /\ tick \in Nat /\ LastTick \in Nat /\ tick <= LastTick /\ Burst \in Nat /\ MaxStall \in Nat
      /\ SoFar \in Int /\ \A t \in 0..(LastTick + 1) : passed[t] \in Int
      /\ IdleTicks \in Nat /\ IdleTicks >= Burst + MaxStall /\ visitor.seen \in 0..tick
  BY <1>1, BucketTypes
<1>3. ASSUME NEW q \in Waiting PROVE holding[q] = NotWaiting
  <2> SUFFICES ASSUME holding[q] # NotWaiting PROVE FALSE
    OBVIOUS
  <2>1. holding[q].since <= visitor.seen /\ tick - holding[q].since <= MaxStall /\ holding[q].since \in Nat
    BY DEF BucketInv
  <2> QED BY <1>1, <1>2, <2>1
<1>4. ASSUME NEW from \in 0..tick PROVE SoFar - passed[from] <= tick - from
  <2>1. PICK last : last = visitor.seen + MaxStall
    OBVIOUS
  <2>2. last \in Nat /\ last + 1 \in 0..tick /\ last + 1 > visitor.seen + MaxStall /\ last \in 0..tick
        /\ tick >= last + 1 + Burst /\ passed[from] \in Int
    BY <1>1, <1>2, <2>1
  <2>3. \A t \in 0..tick : t > visitor.seen + MaxStall => passed[t] = SoFar
    BY <1>1 DEF BucketInv
  <2>4. passed[last + 1] = SoFar
    BY <2>2, <2>3
  <2>5. CASE from > last
    <3>1. passed[from] = SoFar
      BY <1>2, <2>1, <2>3, <2>5
    <3> QED BY <1>2, <3>1
  <2>6. CASE from <= last
    <3>1. passed[last + 1] - passed[from] <= Burst + (last - from)
      BY <2>2, <2>6 DEF BucketInv, BucketHolds
    <3> QED BY <1>2, <2>2, <2>4, <3>1
  <2> QED BY <1>2, <2>2, <2>5, <2>6
<1>5. BucketHolds'
  BY <1>1, SpansKept
<1> QED BY <1>1, <1>3, <1>4, <1>5 DEF BucketInv

LEMMA RatesTickKeeps == ASSUME BucketInv, RatesTick PROVE BucketInv'
<1>1. /\ tick < LastTick /\ tick' = tick + 1
      /\ \A q \in Waiting : holding[q] # NotWaiting => tick - holding[q].since < MaxStall
      /\ buckets' = [b \in DOMAIN buckets |-> IF buckets[b] < Burst THEN buckets[b] + 1 ELSE Burst]
      /\ UNCHANGED <<visitor, holding, passed>>
  BY DEF RatesTick
<1>2. /\ tick \in Nat /\ LastTick \in Nat /\ tick <= LastTick /\ Burst \in Nat /\ MaxStall \in Nat
      /\ SoFar \in Int /\ \A t \in 0..(LastTick + 1) : passed[t] \in Int
      /\ buckets \in Seq(Tokens)
  BY BucketTypes DEF BucketInv
<1>3. tick + 2 \in (tick + 1)..(LastTick + 1)
  BY <1>1, <1>2
<1>4. SoFar' = SoFar /\ passed[tick + 1] = SoFar
  <2>1. SoFar' = passed[tick + 2]
    BY <1>1, <1>2 DEF SoFar
  <2> QED BY <1>3, <2>1 DEF BucketInv, SoFar
<1>5. \A t \in (tick' + 1)..(LastTick + 1) : passed[t] = SoFar
  <2>1. \A t \in (tick' + 1)..(LastTick + 1) : t \in (tick + 1)..(LastTick + 1)
    BY <1>1, <1>2
  <2> QED BY <2>1 DEF BucketInv
<1>6. /\ buckets' \in Seq(Tokens) /\ Len(buckets') = Len(buckets)
      /\ \A b \in 1..Len(buckets) : buckets[b] \in 0..Burst /\ buckets'[b] = IF buckets[b] < Burst THEN buckets[b] + 1 ELSE Burst
  <2>1. \A b \in 1..Len(buckets) : buckets[b] \in 0..Burst
    <3>1. \A b \in 1..Len(buckets) : buckets[b] \in Tokens
      BY <1>2
    <3> QED BY <3>1 DEF Tokens
  <2>2. /\ buckets' = [b \in 1..Len(buckets) |-> IF buckets[b] < Burst THEN buckets[b] + 1 ELSE Burst]
        /\ Len(buckets) \in Nat
    BY <1>1, <1>2
  <2>3. \A b \in 1..Len(buckets) : (IF buckets[b] < Burst THEN buckets[b] + 1 ELSE Burst) \in 0..Burst
    BY <1>2, <2>1
  <2>4. buckets' \in [1..Len(buckets) -> Tokens]
    BY <2>2, <2>3 DEF Tokens
  <2>5. buckets' \in Seq(Tokens) /\ Len(buckets') = Len(buckets)
    BY <2>2, <2>4
  <2> QED BY <2>1, <2>2, <2>5
<1>7. \A q \in Waiting : holding'[q] # NotWaiting =>
        /\ visitor' # Absent /\ holding'[q].limiter = visitor'.limiter
        /\ holding'[q].since <= visitor'.seen /\ tick' - holding'[q].since <= MaxStall
  BY <1>1, <1>2 DEF BucketInv
<1>8. ASSUME visitor = Absent, NEW from \in 0..tick' PROVE SoFar - passed[from] <= tick' - from
  <2>1. CASE from = tick + 1
    BY <1>1, <1>2, <1>4, <2>1
  <2>2. CASE from # tick + 1
    <3>1. from \in 0..tick /\ passed[from] \in Int
      BY <1>1, <1>2, <2>2
    <3>2. SoFar - passed[from] <= tick - from
      BY <1>8, <3>1 DEF BucketInv
    <3> QED BY <1>1, <1>2, <3>1, <3>2
  <2> QED BY <2>1, <2>2
<1>9. ASSUME visitor # Absent
      PROVE  /\ \A from \in 0..tick' :
                  SoFar - passed[from] + buckets'[visitor.limiter] <= Burst + (tick' - from)
             /\ \A t \in 0..tick' : t > visitor.seen + MaxStall => passed[t] = SoFar
             /\ visitor.limiter \in 1..Len(buckets') /\ visitor.seen \in 0..tick'
  <2>1. visitor.limiter \in 1..Len(buckets) /\ visitor.seen \in 0..tick
    BY <1>9, BucketTypes
  <2>2. PICK old \in 0..Burst : old = buckets[visitor.limiter]
    BY <1>6, <2>1
  <2>3. PICK new : new = buckets'[visitor.limiter]
    OBVIOUS
  <2>4. new = IF old < Burst THEN old + 1 ELSE Burst
    BY <1>6, <2>1, <2>2, <2>3
  <2>5. ASSUME NEW from \in 0..tick' PROVE SoFar - passed[from] + new <= Burst + (tick' - from)
    <3>1. CASE from = tick + 1
      BY <1>1, <1>2, <1>4, <2>2, <2>4, <3>1
    <3>2. CASE from # tick + 1
      <4>1. from \in 0..tick /\ passed[from] \in Int
        BY <1>1, <1>2, <3>2
      <4>2. SoFar - passed[from] + old <= Burst + (tick - from)
        BY <1>9, <2>2, <4>1 DEF BucketInv
      <4>3. new \in Int /\ new <= old + 1 /\ old \in Int
        BY <1>2, <2>2, <2>4
      <4>4. /\ tick' = tick + 1 /\ tick \in Int /\ from \in Int /\ SoFar \in Int /\ Burst \in Int
            /\ passed[from] \in Int
        BY <1>1, <1>2, <4>1
      <4> QED BY <4>2, <4>3, <4>4
    <3> QED BY <3>1, <3>2
  <2>6. ASSUME NEW t \in 0..tick', t > visitor.seen + MaxStall PROVE passed[t] = SoFar
    <3>1. CASE t = tick + 1
      BY <1>4, <3>1
    <3>2. CASE t # tick + 1
      <4>1. t \in 0..tick
        BY <1>1, <1>2, <3>2
      <4> QED BY <1>9, <2>6, <4>1 DEF BucketInv
    <3> QED BY <3>1, <3>2
  <2>7. visitor.seen \in 0..tick'
    BY <1>1, <1>2, <2>1
  <2> QED BY <1>6, <2>1, <2>3, <2>5, <2>6, <2>7
<1>10. BucketHolds'
  BY <1>1, SpansKept
<1>11. tick' \in 0..LastTick
  BY <1>1, <1>2
<1>12. passed' \in [0..(LastTick + 1) -> Int] /\ holding' \in [Waiting -> [limiter : Nat, since : Nat]]
  BY <1>1 DEF BucketInv
<1> QED BY <1>1, <1>4, <1>5, <1>6, <1>7, <1>8, <1>9, <1>10, <1>11, <1>12 DEF BucketInv

(***************************************************************************)
(* In no span of time does a client get more than a full bucket and what   *)
(* it gains, for any number of requests that are handled at a time, any    *)
(* size of the bucket and any delay between the two steps of a request,    *)
(* although the entry of an idle client is forgotten and made again with a *)
(* full bucket (ratelimit.go).                                             *)
(***************************************************************************)
THEOREM BucketAlwaysHolds == RatesSpec => []BucketHolds
<1>1. RatesInit => BucketInv
  <2> SUFFICES ASSUME RatesInit PROVE BucketInv
    OBVIOUS
  <2>1. /\ tick = 0 /\ passed = [t \in 0..(LastTick + 1) |-> 0] /\ buckets = <<>> /\ visitor = Absent
        /\ holding = [q \in Waiting |-> NotWaiting] /\ LastTick \in Nat /\ Burst \in Nat
    BY RateLimitsAssumption DEF RatesInit
  <2>2. NotWaiting \in [limiter : Nat, since : Nat]
    BY DEF NotWaiting
  <2>3. \A t \in 0..(LastTick + 1) : passed[t] = 0
    BY <2>1
  <2>4. SoFar = 0
    BY <2>1, <2>3 DEF SoFar
  <2>5. BucketHolds
    BY <2>1, <2>3 DEF BucketHolds
  <2>6. \A t \in (tick + 1)..(LastTick + 1) : passed[t] = SoFar
    BY <2>1, <2>3, <2>4
  <2>7. \A from \in 0..tick : SoFar - passed[from] <= tick - from
    BY <2>1, <2>3, <2>4
  <2>8. passed \in [0..(LastTick + 1) -> Int] /\ tick \in 0..LastTick /\ buckets \in Seq(Tokens)
    BY <2>1
  <2> QED BY <2>1, <2>2, <2>5, <2>6, <2>7, <2>8 DEF BucketInv
<1>2. BucketInv /\ [RatesNext]_rateVars => BucketInv'
  <2> SUFFICES ASSUME BucketInv, [RatesNext]_rateVars PROVE BucketInv'
    OBVIOUS
  <2>1. CASE UNCHANGED <<tick, buckets, visitor, holding, passed>>
    BY <2>1 DEF BucketInv, SoFar, BucketHolds
  <2>2. CASE \E o \in Offsets : RedisAllow(o) \/ RedisUnanswered(o)
    BY <2>1, <2>2 DEF RedisAllow, RedisUnanswered
  <2> QED BY <2>1, <2>2, VisitorKeeps, LimitKeeps, CleanupKeeps, RatesTickKeeps DEF RatesNext, rateVars
<1>3. BucketInv => BucketHolds
  BY DEF BucketInv
<1> QED BY <1>1, <1>2, <1>3, PTL DEF RatesSpec

(***************************************************************************)
(* Both limiters keep their promise (ratelimit.go, redis_ratelimit.go).    *)
(***************************************************************************)
THEOREM ClientsAlwaysBounded == RatesSpec => []ClientsBounded
<1>1. BucketHolds /\ WindowHolds => ClientsBounded
  BY DEF ClientsBounded
<1> QED BY <1>1, BucketAlwaysHolds, WindowAlwaysHolds, PTL
=============================================================================
