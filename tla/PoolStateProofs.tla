-------------------------- MODULE PoolStateProofs --------------------------
(***************************************************************************)
(* What is learned of a pool rests on evidence, for any costs, thresholds  *)
(* and bounds, whatever order scrapes, clock steps, restarts and upgrades  *)
(* come in.  Three inductive invariants:                                   *)
(*   CostInv    the estimate, and the least reading that may lower it;     *)
(*   TrustInv   the stored times of the evidence against the time that has *)
(*              really passed;                                             *)
(*   TypesHold  the types, which need the other two, and the histogram,    *)
(*              which is a sum (SumTheorems).                              *)
(***************************************************************************)
EXTENDS PoolState, SumTheorems, TLAPS

LEMMA MinPair ==
    ASSUME NEW a \in Int, NEW b \in Int
    PROVE  Min({a, b}) = IF a <= b THEN a ELSE b
BY DEF Min

LEMMA MaxPair ==
    ASSUME NEW a \in Int, NEW b \in Int
    PROVE  Max({a, b}) = IF a >= b THEN a ELSE b
BY DEF Max

LEMMA PeakIsACost ==
    ASSUME NEW o \in Scrapes
    PROVE  Peak(o) \in Costs \cup {0} /\ Peak(o) \in Nat
<1>1. o.workers \in Workers BY DEF Scrapes
<1>2. CASE o.workers = <<>> BY <1>2, CostsAssumption DEF Peak
<1>3. CASE \E c \in Costs : o.workers = <<c>>
    <2>1. PICK c \in Costs : o.workers = <<c>> BY <1>3
    <2>2. Last(o.workers) = c /\ o.workers # <<>> BY <2>1 DEF Last
    <2> QED BY <2>2, CostsAssumption DEF Peak
<1>4. CASE \E w \in Costs \X Costs : o.workers = w
    <2>1. PICK c \in Costs, d \in Costs : o.workers = <<c, d>> BY <1>4
    <2>2. Last(o.workers) = d /\ o.workers # <<>> BY <2>1 DEF Last
    <2> QED BY <2>2, CostsAssumption DEF Peak
<1> QED BY <1>1, <1>2, <1>3, <1>4 DEF Workers

-----------------------------------------------------------------------------
(* The estimate.                                                           *)

CostInv ==
    /\ typical \in Nat /\ last \in Nat /\ least \in Nat
    /\ EstimateIsBacked

LEMMA CostStarts == Init => CostInv
<1> SUFFICES ASSUME Init PROVE CostInv OBVIOUS
<1>1. typical = 0 \/ typical \in Costs BY DEF Init
<1>2. typical \in Nat
    <2>1. CASE typical = 0 BY <2>1
    <2>2. CASE typical \in Costs BY <2>2, CostsAssumption
    <2> QED BY <1>1, <2>1, <2>2
<1>3. last = 0 /\ least = typical BY DEF Init
<1> QED BY <1>2, <1>3 DEF CostInv, EstimateIsBacked

(* A reading below the estimate counts downward only from mature workers:
   what the waiver lets through is above it. *)
LEMMA LowerOnlyMature ==
    ASSUME CostInv, NEW o \in Scrapes, Counts(o), Peak(o) < typical
    PROVE  o.mature > 0
<1>0. o.mature \in 0 .. 2 BY DEF Scrapes
<1>1. CASE o.mature >= 2 BY <1>0, <1>1
<1>2. CASE Sole(o) BY <1>2 DEF Sole
<1>3. CASE Peak(o) > SizingBytes
    <2>1. SizingBytes >= typical BY MaxPair DEF SizingBytes, CostInv
    <2>2. SizingBytes \in Int BY MaxPair DEF SizingBytes, CostInv
    <2> QED BY <1>3, <2>1, <2>2, PeakIsACost DEF CostInv
<1>4. CASE Recycled(o) /\ Peak(o) > SizingBytes BY <1>3, <1>4
<1> QED BY <1>1, <1>2, <1>4 DEF Counts

LEMMA MovedBetween ==
    ASSUME CostInv, NEW o \in Scrapes, Counts(o), typical > 0,
           NEW to \in Moved(o)
    PROVE  /\ to \in Nat /\ to > 0
           /\ to < typical => Worked(o) /\ Peak(o) < typical /\ to >= Peak(o)
<1>1. Peak(o) \in Nat /\ Peak(o) > 0 BY PeakIsACost DEF Counts
<1>2. typical \in Nat BY DEF CostInv
<1>3. CASE Peak(o) > typical BY <1>1, <1>2, <1>3 DEF Moved
<1>4. CASE Peak(o) <= typical /\ (~Worked(o) \/ Peak(o) = typical)
    BY <1>1, <1>2, <1>4 DEF Moved
<1>5. CASE Peak(o) < typical /\ Worked(o)
    BY <1>1, <1>2, <1>5 DEF Moved, Lowered
<1> QED BY <1>1, <1>2, <1>3, <1>4, <1>5

LEMMA LearnKeepsCost ==
    ASSUME CostInv, NEW o \in Scrapes, LearnCost(o)
    PROVE  CostInv' /\ (typical > 0 => typical' > 0)
<1> USE DEF CostInv, EstimateIsBacked
<1>1. CASE ~Counts(o) BY <1>1 DEF LearnCost
<1>2. CASE Counts(o) /\ typical = 0
    BY <1>2, PeakIsACost DEF LearnCost, Moved
<1>3. CASE Counts(o) /\ typical > 0
    <2>1. PICK to \in Moved(o) : typical' = to BY <1>3 DEF LearnCost
    <2>2. last' = Peak(o) /\ last' \in Nat BY <1>3, PeakIsACost DEF LearnCost
    <2>3. /\ to \in Nat /\ to > 0
          /\ to < typical => Worked(o) /\ Peak(o) < typical /\ to >= Peak(o)
        BY <1>3, MovedBetween
    <2>4. least' = IF MayLower(o) THEN Min({least, Peak(o)}) ELSE least
        BY <1>3 DEF LearnCost
    <2>5. least' \in Nat /\ least' <= least BY <2>4, PeakIsACost, MinPair
    <2>6. CASE to >= typical BY <2>1, <2>2, <2>3, <2>5, <2>6
    <2>7. CASE to < typical
        <3>1. MayLower(o) BY <1>3, <2>3, <2>7, LowerOnlyMature DEF MayLower
        <3>2. least' <= Peak(o) BY <2>4, <3>1, PeakIsACost, MinPair
        <3> QED BY <2>1, <2>2, <2>3, <2>5, <2>7, <3>2, PeakIsACost
    <2> QED BY <2>3, <2>6, <2>7
<1> QED BY <1>1, <1>2, <1>3

LEMMA StepKeepsCost ==
    ASSUME CostInv, [Next]_vars
    PROVE  CostInv'
<1>1. CASE Learn
    <2>1. PICK o \in Scrapes : LearnCost(o) BY <1>1 DEF Learn
    <2> QED BY <2>1, LearnKeepsCost
<1>2. CASE UNCHANGED <<typical, last, least>>
    BY <1>2 DEF CostInv, EstimateIsBacked
<1>3. Load \/ Upgrade \/ Settle \/ UNCHANGED vars => UNCHANGED <<typical, last, least>>
    BY DEF Load, Upgrade, Settle, vars, cost
<1> QED BY <1>1, <1>2, <1>3 DEF Next

(***************************************************************************)
(* The estimate is never below every reading that had a right to lower it: *)
(* quiet and young workers teach nothing downward.  (Learn's decay and its *)
(* waiver)                                                                 *)
(***************************************************************************)
THEOREM EstimateBacked == Spec => []EstimateIsBacked
<1>1. CostInv => EstimateIsBacked BY DEF CostInv
<1> QED BY <1>1, CostStarts, StepKeepsCost, PTL DEF Spec

-----------------------------------------------------------------------------
(* Trust.                                                                  *)

(* The age that as many clock steps as are left cannot bring under the mark. *)
Safe(h) == ConfidenceSpan * (1 + MaxHappened - h)

LEMMA SafeAges ==
    ASSUME NEW h \in 0 .. MaxHappened
    PROVE  /\ Safe(h) \in Int /\ Safe(h) >= ConfidenceSpan
           /\ Safe(h) <= Cap /\ Cap \in Int
           /\ Safe(h + 1) = Safe(h) - ConfidenceSpan
<1> DEFINE left == MaxHappened - h
<1>1. ConfidenceSpan \in Nat /\ MaxHappened \in Nat BY OptionsAssumption
<1>2. left \in Nat BY <1>1
<1>3. /\ Safe(h) = ConfidenceSpan + ConfidenceSpan * left
      /\ Safe(h + 1) = ConfidenceSpan * left
    BY <1>1, <1>2 DEF Safe
<1>4. Cap = Safe(h) + ConfidenceSpan * h BY <1>1 DEF Cap, Safe
<1>5. ConfidenceSpan * left \in Nat /\ ConfidenceSpan * h \in Nat BY <1>1, <1>2
<1> QED BY <1>1, <1>3, <1>4, <1>5

TimeShapes ==
    /\ {first, latest, elapsed} \subseteq Int \cup {None}
    /\ {busy, span, shown} \subseteq Int
    /\ happened \in 0 .. MaxHappened

(* What has been shown was there to be seen. *)
ShownHasPassed ==
    /\ span <= shown /\ 0 <= shown /\ shown <= ConfidenceSpan
    /\ IF elapsed = None THEN shown = 0
       ELSE elapsed >= 0 /\ shown <= elapsed /\ elapsed <= ConfidenceSpan

(* No stored time is older than the evidence is. *)
AgesAreReal ==
    first # None =>
        elapsed # None /\ (first <= elapsed \/ elapsed = ConfidenceSpan)

(* The span is that between the two times, unless the first of them is so
   far back that no clock step brings it under the mark. *)
SpanIsBacked ==
    /\ first = None /\ latest # None => span <= 0
    /\ first # None /\ latest # None =>
            first - latest >= span \/ first >= Safe(happened)

TrustInv == TimeShapes /\ ShownHasPassed /\ AgesAreReal /\ SpanIsBacked

LEMMA TrustStarts == Init => TrustInv
<1> SUFFICES ASSUME Init PROVE TrustInv OBVIOUS
<1>1. /\ first = None /\ latest = None /\ span = 0 /\ elapsed = None
      /\ shown = 0 /\ happened = 0
    BY DEF Init
<1>2. busy \in Int
    <2>1. busy = 0 \/ busy = ConfidenceSamples BY Zenon DEF Init
    <2> QED BY <2>1, OptionsAssumption
<1>3. 0 \in 0 .. MaxHappened /\ 0 <= ConfidenceSpan BY OptionsAssumption
<1> QED BY <1>1, <1>2, <1>3
    DEF TrustInv, TimeShapes, ShownHasPassed, AgesAreReal, SpanIsBacked

(* What one scrape may do to the times: a busy sample moves time forward,  *)
(* and only a clock step moves it back.                                     *)
LEMMA Aged ==
    ASSUME NEW age \in Int \cup {None}, NEW time \in Int
    PROVE  After(age, time) =
                IF age = None THEN None
                ELSE IF age + time <= Cap THEN age + time ELSE Cap
<1>1. Cap \in Int BY OptionsAssumption DEF Cap
<1> QED BY <1>1, MinPair DEF After

LEMMA LearnKeepsTrust ==
    ASSUME TrustInv, NEW o \in Scrapes, NEW wait \in Waits,
           BusySample(o) => wait > 0,
           IF wait < 0 THEN SomethingHappens ELSE UNCHANGED happened,
           LearnTrust(o, wait), Passes(o, wait)
    PROVE  /\ TrustInv'
           /\ busy >= ConfidenceSamples => busy' >= ConfidenceSamples
           /\ span >= ConfidenceSpan /\ first # None /\ latest # None
                => span' >= ConfidenceSpan
<1>1. /\ ConfidenceSpan \in Int /\ ConfidenceSpan > 0
      /\ ConfidenceSamples \in Int /\ None \notin Int /\ MaxHappened \in Nat
    BY OptionsAssumption
<1>2. wait \in Int /\ (wait < 0 => wait = -ConfidenceSpan) /\ (wait >= 0 => wait > 0)
    BY <1>1 DEF Waits
<1>3. /\ happened' \in 0 .. MaxHappened
      /\ happened' = IF wait < 0 THEN happened + 1 ELSE happened
    BY <1>1 DEF TrustInv, TimeShapes, SomethingHappens
<1>4. /\ Safe(happened) \in Int /\ Safe(happened') \in Int /\ Cap \in Int
      /\ Safe(happened) >= ConfidenceSpan /\ Safe(happened') <= Cap
      /\ Safe(happened') = IF wait < 0 THEN Safe(happened) - ConfidenceSpan
                           ELSE Safe(happened)
      /\ Cap >= ConfidenceSpan
    <2>1. happened \in 0 .. MaxHappened BY DEF TrustInv, TimeShapes
    <2>2. Safe(happened') = IF wait < 0 THEN Safe(happened + 1) ELSE Safe(happened)
        BY <1>3
    <2> QED BY <1>1, <1>3, <2>1, <2>2, SafeAges
<1>5. /\ elapsed' \in Int \cup {None}
      /\ elapsed = None /\ ~BusySample(o) => elapsed' = None
      /\ elapsed # None \/ BusySample(o) =>
            elapsed' # None /\ elapsed' >= 0 /\ elapsed' <= ConfidenceSpan
      /\ elapsed # None =>
            /\ elapsed' >= elapsed
            /\ elapsed' >= elapsed + wait \/ elapsed' = ConfidenceSpan
            /\ elapsed = ConfidenceSpan => elapsed' = ConfidenceSpan
      /\ shown' = IF BusySample(o) THEN elapsed' ELSE shown
    <2> DEFINE real == IF wait > 0 THEN wait ELSE 1
    <2>1. shown' = IF BusySample(o) THEN elapsed' ELSE shown BY DEF Passes
    <2>2. CASE elapsed = None BY <1>1, <2>1, <2>2 DEF Passes
    <2>3. CASE elapsed # None
        <3>1. elapsed \in Int /\ real \in Int /\ real > 0 /\ real >= wait
            BY <1>1, <1>2, <2>3 DEF TrustInv, TimeShapes
        <3>2. elapsed' = Min({elapsed + real, ConfidenceSpan})
            BY <2>3 DEF Passes
        <3>3. elapsed' = IF elapsed + real <= ConfidenceSpan
                         THEN elapsed + real ELSE ConfidenceSpan
            BY <1>1, <3>1, <3>2, MinPair
        <3>4. elapsed >= 0 /\ elapsed <= ConfidenceSpan
            BY <2>3 DEF TrustInv, ShownHasPassed
        <3> HIDE DEF real
        <3> QED BY <1>1, <1>2, <2>1, <2>3, <3>1, <3>3, <3>4
    <2> QED BY <2>2, <2>3
<1>6. /\ first' \in Int \cup {None}
      /\ first # None => first' = IF first + wait <= Cap THEN first + wait ELSE Cap
      /\ first = None => first' = IF BusySample(o) THEN 0 ELSE None
    <2>1. first' = IF BusySample(o) /\ first = None THEN 0 ELSE After(first, wait)
        BY DEF LearnTrust
    <2>2. first \in Int \cup {None} BY DEF TrustInv, TimeShapes
    <2> QED BY <1>1, <1>2, <1>4, <2>1, <2>2, Aged
<1> DEFINE now == After(latest, wait)
<1>7. /\ now \in Int \cup {None} /\ (now = None <=> latest = None)
      /\ latest # None => now = IF latest + wait <= Cap THEN latest + wait ELSE Cap
    <2>1. latest \in Int \cup {None} BY DEF TrustInv, TimeShapes
    <2> QED BY <1>1, <1>2, <1>4, <2>1, Aged
<1>8. busy' = busy \/ busy' = Min({busy + 1, ConfidenceSamples})
    BY DEF LearnTrust
<1>9. busy' \in Int /\ (busy >= ConfidenceSamples => busy' >= ConfidenceSamples)
    BY <1>1, <1>8, MinPair DEF TrustInv, TimeShapes
<1>10. AgesAreReal'
    BY <1>1, <1>2, <1>5, <1>6 DEF TrustInv, TimeShapes, AgesAreReal, ShownHasPassed
<1>11. CASE ~BusySample(o)
    <2>1. latest' = now /\ span' = span BY <1>11 DEF LearnTrust
    <2> HIDE DEF now
    <2>2. TimeShapes'
        BY <1>3, <1>5, <1>6, <1>7, <1>9, <1>11, <2>1 DEF TrustInv, TimeShapes
    <2>3. ShownHasPassed'
        BY <1>1, <1>5, <1>11, <2>1 DEF TrustInv, TimeShapes, ShownHasPassed
    <2>4. SpanIsBacked'
        BY <1>1, <1>2, <1>4, <1>6, <1>7, <1>11, <2>1
        DEF TrustInv, TimeShapes, SpanIsBacked
    <2> QED BY <1>9, <1>10, <2>1, <2>2, <2>3, <2>4 DEF TrustInv
<1>12. CASE BusySample(o)
    <2>1. wait > 0 /\ happened' = happened BY <1>3, <1>12, <1>2
    <2>2. first' # None /\ first' \in Int /\ elapsed' \in Int /\ elapsed' # None
        BY <1>1, <1>4, <1>5, <1>6, <1>12, <1>2 DEF TrustInv, TimeShapes
    <2>3. CASE now = None \/ now > 0
        <3>1. latest' = 0 /\ span' = Min({first', ConfidenceSpan})
            BY <1>12, <2>3 DEF LearnTrust
        <3>2. span' = IF first' <= ConfidenceSpan THEN first' ELSE ConfidenceSpan
            BY <1>1, <2>2, <3>1, MinPair
        <3> HIDE DEF now
        <3>3. TimeShapes'
            BY <1>1, <1>3, <1>5, <1>9, <1>12, <2>2, <3>1, <3>2 DEF TimeShapes
        <3>4. ShownHasPassed'
            BY <1>1, <1>5, <1>10, <1>12, <2>2, <3>2 DEF ShownHasPassed, AgesAreReal
        <3>5. SpanIsBacked' BY <1>1, <2>2, <3>1, <3>2 DEF SpanIsBacked
        <3>6. ASSUME span >= ConfidenceSpan, first # None, latest # None
              PROVE  span' >= ConfidenceSpan
            <4>1. now > 0 BY <1>7, <2>3, <3>6
            <4>2. first - latest >= span \/ first >= Safe(happened)
                BY <3>6 DEF TrustInv, SpanIsBacked
            <4>3. first \in Int /\ latest \in Int /\ span \in Int
                BY <3>6 DEF TrustInv, TimeShapes
            <4>4. first + wait >= ConfidenceSpan
                BY <1>1, <1>2, <1>4, <1>7, <2>1, <3>6, <4>1, <4>2, <4>3
            <4>5. first' >= ConfidenceSpan
                BY <1>1, <1>2, <1>4, <1>6, <3>6, <4>3, <4>4
            <4> QED BY <1>1, <2>2, <3>2, <4>5
        <3> QED BY <1>9, <1>10, <3>3, <3>4, <3>5, <3>6 DEF TrustInv
    <2>4. CASE now # None /\ now <= 0
        <3>1. latest' = now /\ span' = span
            BY <1>7, <1>12, <2>4, <1>1 DEF LearnTrust
        <3> HIDE DEF now
        <3>2. TimeShapes'
            BY <1>3, <1>5, <1>6, <1>7, <1>9, <3>1 DEF TrustInv, TimeShapes
        <3>3. ShownHasPassed'
            BY <1>1, <1>5, <1>12, <2>2, <3>1 DEF TrustInv, TimeShapes, ShownHasPassed
        <3>4. SpanIsBacked'
            BY <1>1, <1>2, <1>4, <1>6, <1>7, <1>12, <2>1, <2>2, <2>4, <3>1
            DEF TrustInv, TimeShapes, SpanIsBacked
        <3> QED BY <1>9, <1>10, <3>1, <3>2, <3>3, <3>4 DEF TrustInv
    <2> QED BY <1>7, <2>3, <2>4
<1> QED BY <1>11, <1>12

LEMMA LoadKeepsTrust ==
    ASSUME TrustInv, Load
    PROVE  TrustInv'
<1>1. /\ first' = IF first # None /\ first < 0 THEN None ELSE first
      /\ latest' = IF latest # None /\ latest < 0 THEN None ELSE latest
      /\ span' = IF latest # None /\ latest < 0 THEN 0 ELSE span
      /\ UNCHANGED <<busy, elapsed, shown, happened>>
    BY DEF Load
<1>2. TimeShapes' BY <1>1 DEF TrustInv, TimeShapes
<1>3. ConfidenceSpan > 0 /\ ConfidenceSpan \in Int BY OptionsAssumption
<1>4. ShownHasPassed'
    BY <1>1, <1>3 DEF TrustInv, TimeShapes, ShownHasPassed
<1>5. AgesAreReal' BY <1>1 DEF TrustInv, AgesAreReal
<1>6. Safe(happened) >= ConfidenceSpan /\ Safe(happened) \in Int
    BY SafeAges DEF TrustInv, TimeShapes
<1>7. /\ first = None \/ first \in Int
      /\ latest = None \/ latest \in Int
      /\ span \in Int /\ None \notin Int
    BY OptionsAssumption DEF TrustInv, TimeShapes
<1>8. Safe(happened)' = Safe(happened) BY <1>1 DEF Safe
<1>9. SpanIsBacked'
    <2>1. CASE first' = None /\ latest' # None
        <3>1. latest \in Int /\ latest >= 0 /\ span' = span /\ latest # None
            BY <1>1, <1>7, <2>1
        <3>2. CASE first = None BY <2>1, <3>1, <3>2 DEF TrustInv, SpanIsBacked
        <3>3. CASE first # None
            <4>1. first \in Int /\ first < 0 BY <1>1, <1>7, <2>1, <3>3
            <4>2. first - latest >= span
                BY <1>3, <1>6, <3>1, <3>3, <4>1 DEF TrustInv, SpanIsBacked
            <4> QED BY <1>7, <2>1, <3>1, <4>1, <4>2 DEF SpanIsBacked
        <3> QED BY <3>2, <3>3
    <2>2. CASE first' # None /\ latest' # None
        <3>1. first' = first /\ latest' = latest /\ span' = span BY <1>1, <2>2
        <3> QED BY <1>8, <2>2, <3>1 DEF TrustInv, SpanIsBacked
    <2>3. CASE latest' = None BY <2>3 DEF SpanIsBacked
    <2> QED BY <2>1, <2>2, <2>3
<1> QED BY <1>2, <1>4, <1>5, <1>9 DEF TrustInv

LEMMA StepKeepsTrust ==
    ASSUME CostInv, TrustInv, [Next]_vars
    PROVE  /\ TrustInv'
           /\ Trusted /\ first' # None /\ latest' # None => Trusted'
<1>1. CASE Learn
    <2>1. PICK o \in Scrapes, wait \in Waits :
            /\ Measured(o, wait)
            /\ IF wait < 0 THEN SomethingHappens ELSE UNCHANGED happened
            /\ LearnCost(o) /\ LearnTrust(o, wait) /\ Passes(o, wait)
        BY <1>1, Zenon DEF Learn
    <2>2. BusySample(o) => wait > 0
        BY <2>1 DEF BusySample, Worked, Measured, Served
    <2>3. /\ TrustInv'
          /\ busy >= ConfidenceSamples => busy' >= ConfidenceSamples
          /\ span >= ConfidenceSpan /\ first # None /\ latest # None
                => span' >= ConfidenceSpan
        BY <2>1, <2>2, LearnKeepsTrust
    <2>4. typical > 0 => typical' > 0 BY <2>1, LearnKeepsCost
    <2> QED BY <2>3, <2>4 DEF Trusted
<1>2. CASE Load
    <2>1. TrustInv' BY <1>2, LoadKeepsTrust
    <2>2. UNCHANGED <<busy, typical>> BY <1>2 DEF Load, cost
    <2>3. latest' # None => UNCHANGED <<latest, span>> BY <1>2 DEF Load
    <2>4. first' # None => UNCHANGED first BY <1>2 DEF Load
    <2> QED BY <2>1, <2>2, <2>3, <2>4 DEF Trusted
<1>3. CASE Upgrade
    <2>1. UNCHANGED <<trust, typical>> /\ SomethingHappens BY <1>3 DEF Upgrade
    <2>2. happened' \in 0 .. MaxHappened /\ happened' = happened + 1
        BY <2>1, OptionsAssumption DEF TrustInv, TimeShapes, SomethingHappens
    <2>3. Safe(happened') <= Safe(happened)
        BY <2>2, SafeAges, OptionsAssumption DEF TrustInv, TimeShapes
    <2>4. Safe(happened) \in Int /\ Safe(happened') \in Int
        BY <2>2, SafeAges DEF TrustInv, TimeShapes
    <2>5. TrustInv'
        BY <2>1, <2>2, <2>3, <2>4
        DEF TrustInv, TimeShapes, ShownHasPassed, AgesAreReal, SpanIsBacked, trust
    <2> QED BY <2>1, <2>5 DEF Trusted, trust
<1>4. CASE UNCHANGED <<trust, happened, typical>>
    BY <1>4
    DEF TrustInv, TimeShapes, ShownHasPassed, AgesAreReal, SpanIsBacked, Safe,
        trust, Trusted
<1>5. Settle \/ UNCHANGED vars => UNCHANGED <<trust, happened, typical>>
    BY DEF Settle, vars, cost
<1> QED BY <1>1, <1>2, <1>3, <1>4, <1>5 DEF Next

(***************************************************************************)
(* CostInv and TrustInv hold in every reachable state.                     *)
(***************************************************************************)
THEOREM EvidenceIsSound == Spec => [](CostInv /\ TrustInv)
<1>1. Init => CostInv /\ TrustInv BY CostStarts, TrustStarts
<1>2. CostInv /\ TrustInv /\ [Next]_vars => CostInv' /\ TrustInv'
    BY StepKeepsCost, StepKeepsTrust
<1> QED BY <1>1, <1>2, PTL DEF Spec

-----------------------------------------------------------------------------
(* The histogram.                                                          *)

Hists == [Costs -> 0 .. DecayAfter]

(* One more reading does not take the histogram past the readings it is    *)
(* halved at: no bucket holds more than all of them together.              *)
LEMMA AddKeepsHist ==
    ASSUME NEW h \in Hists, NEW c \in Costs
    PROVE  HistogramAdd(h, c) \in Hists
<1> DEFINE more == [h EXCEPT ![c] = @ + 1]
<1>1. DecayAfter \in Nat /\ DecayAfter > 0 BY OptionsAssumption
<1>2. more \in [Costs -> 0 .. DecayAfter + 1]
    <2>1. \A d \in Costs : h[d] \in 0 .. DecayAfter BY DEF Hists
    <2>2. \A d \in Costs : h[d] \in 0 .. DecayAfter + 1 /\ h[d] + 1 \in 0 .. DecayAfter + 1
        BY <1>1, <2>1
    <2> QED BY <2>2 DEF Hists
<1>3. HistogramAdd(h, c) = IF SumFunction(more) > DecayAfter
                           THEN [d \in Costs |-> more[d] \div 2] ELSE more
    BY DEF HistogramAdd
<1> HIDE DEF more
<1>4. CASE SumFunction(more) > DecayAfter
    <2>1. ASSUME NEW d \in Costs PROVE more[d] \div 2 \in 0 .. DecayAfter
        <3>1. more[d] \in 0 .. DecayAfter + 1 BY <1>2
        <3> QED BY <1>1, <3>1
    <2> QED BY <1>3, <1>4, <2>1 DEF Hists
<1>5. CASE ~(SumFunction(more) > DecayAfter)
    <2>1. IsFiniteSet(Costs) /\ \A d \in Costs : more[d] \in Nat
        BY <1>1, <1>2, CostsAssumption
    <2>2. SumFunction(more) = SumFunctionOnSet(more, Costs)
        BY <1>2 DEF SumFunction
    <2>3. SumFunctionOnSet(more, Costs) \in Nat BY <2>1, SumNat
    <2>4. ASSUME NEW d \in Costs PROVE more[d] \in 0 .. DecayAfter
        <3>1. more[d] <= SumFunctionOnSet(more, Costs) BY <2>1, PartOfSum
        <3>2. more[d] \in Nat BY <2>1
        <3> QED BY <1>1, <1>5, <2>2, <2>3, <3>1, <3>2
    <2> QED BY <1>2, <1>3, <1>5, <2>4 DEF Hists
<1> QED BY <1>4, <1>5

(* A scrape adds a reading for each of its workers. *)
LEMMA ScrapeKeepsHist ==
    ASSUME NEW h \in Hists, NEW w \in Workers
    PROVE  FoldLeft(HistogramAdd, h, w) \in Hists
<1> DEFINE D == DOMAIN w
           Folds(e) == e = [s \in SUBSET D |->
                IF s = {} THEN h ELSE HistogramAdd(e[s \ {Max(s)}], w[Max(s)])]
<1>1. FoldLeft(HistogramAdd, h, w) = (CHOOSE e : Folds(e))[D]
    BY DEF FoldLeft, MapThenFoldSet
<1>2. D \in {{}, {1}, {1, 2}} /\ \A i \in D : w[i] \in Costs
    BY DEF Workers
<1>3. Max({1}) = 1 /\ Max({2}) = 2 /\ Max({1, 2}) = 2
    BY DEF Max
<1>4. \E e : Folds(e)
    <2> DEFINE one == HistogramAdd(h, w[1])
               e == [s \in SUBSET D |->
                        IF s = {} THEN h ELSE IF s = {1} THEN one
                        ELSE IF s = {2} THEN HistogramAdd(h, w[2])
                        ELSE HistogramAdd(one, w[2])]
    <2>1. ASSUME NEW s \in SUBSET D, s # {}
          PROVE  e[s] = HistogramAdd(e[s \ {Max(s)}], w[Max(s)])
        <3>1. s \in {{1}, {2}, {1, 2}} BY <1>2, <2>1
        <3>2. CASE s = {1} BY <1>3, <3>2
        <3>3. CASE s = {2} BY <1>3, <3>3
        <3>4. CASE s = {1, 2} BY <1>3, <3>4
        <3> QED BY <3>1, <3>2, <3>3, <3>4
    <2>2. e[{}] = h OBVIOUS
    <2>3. Folds(e) BY <2>1, <2>2
    <2> QED BY <2>3
<1> DEFINE fold == CHOOSE e : Folds(e)
<1>5. Folds(fold) BY <1>4
<1> HIDE DEF fold
<1>6. /\ fold[{}] = h
      /\ \A s \in SUBSET D : s # {} =>
            fold[s] = HistogramAdd(fold[s \ {Max(s)}], w[Max(s)])
    BY <1>5
<1>7. CASE D = {} BY <1>1, <1>6, <1>7 DEF fold
<1>8. CASE D = {1}
    <2>0. {1} \ {1} = {} /\ {1} \in SUBSET D /\ {1} # {} BY <1>8
    <2>1. fold[D] = HistogramAdd(fold[{}], w[1]) BY <1>3, <1>6, <1>8, <2>0
    <2>2. w[1] \in Costs BY <1>2, <1>8
    <2> QED BY <1>1, <1>6, <2>1, <2>2, AddKeepsHist DEF fold
<1>9. CASE D = {1, 2}
    <2>0. /\ {1} \ {1} = {} /\ {1} \in SUBSET D /\ {1} # {}
          /\ {1, 2} \ {2} = {1} /\ {1, 2} \in SUBSET D
        BY <1>9
    <2>1. fold[{1}] = HistogramAdd(fold[{}], w[1]) BY <1>3, <1>6, <2>0
    <2>2. fold[D] = HistogramAdd(fold[{1}], w[2]) BY <1>3, <1>6, <1>9, <2>0
    <2>3. w[1] \in Costs /\ w[2] \in Costs BY <1>2, <1>9
    <2> QED BY <1>1, <1>6, <2>1, <2>2, <2>3, AddKeepsHist DEF fold
<1> QED BY <1>2, <1>7, <1>8, <1>9

-----------------------------------------------------------------------------
(* The types.  An age goes below zero only with the clock, which steps back *)
(* so often and so far.                                                     *)

Recent(age) == age # None => age >= -(happened * ConfidenceSpan)

TypesHold == TypeOK /\ Recent(first) /\ Recent(latest)

LEMMA Dearest ==
    Max(Costs) \in Nat /\ \A c \in Costs : c \in 1 .. Max(Costs)
<1>1. IsFiniteSet(Costs) /\ Costs # {} /\ \A c \in Costs : c \in Nat /\ c # 0
    BY CostsAssumption
<1>2. Max(Costs) \in Nat /\ \A c \in Costs : c \in 0 .. Max(Costs) BY <1>1, MaxBounds
<1> QED BY <1>1, <1>2

LEMMA StepsBack ==
    ASSUME NEW h \in 0 .. MaxHappened
    PROVE  /\ h * ConfidenceSpan \in Nat /\ h * ConfidenceSpan <= Cap
           /\ (h + 1) * ConfidenceSpan = h * ConfidenceSpan + ConfidenceSpan
           /\ Cap \in Nat /\ Cap >= ConfidenceSpan
<1> DEFINE left == MaxHappened - h
<1>1. ConfidenceSpan \in Nat /\ MaxHappened \in Nat BY OptionsAssumption
<1>2. left \in Nat /\ h \in Nat BY <1>1
<1>3. h * ConfidenceSpan \in Nat /\ left * ConfidenceSpan \in Nat BY <1>1, <1>2
<1>4. Cap = h * ConfidenceSpan + left * ConfidenceSpan + ConfidenceSpan
    BY <1>1, <1>2 DEF Cap
<1>5. (h + 1) * ConfidenceSpan = h * ConfidenceSpan + ConfidenceSpan
    BY <1>1, <1>2
<1> HIDE DEF left
<1> QED BY <1>1, <1>3, <1>4, <1>5

LEMMA TypesStart == Init => TypesHold
<1> SUFFICES ASSUME Init PROVE TypesHold
    OBVIOUS
<1>1. typical \in 0 .. Max(Costs)
    <2>1. typical = 0 \/ typical \in Costs BY DEF Init
    <2>2. 0 \in 0 .. Max(Costs) BY Dearest
    <2>3. typical \in Costs => typical \in 0 .. Max(Costs) BY Dearest
    <2> QED BY <2>1, <2>2, <2>3
<1>2. last \in 0 .. Max(Costs) /\ least \in 0 .. Max(Costs)
    BY <1>1, Dearest DEF Init
<1>3. hist \in Hists BY OptionsAssumption DEF Init, Empty, Hists
<1>4. busy \in 0 .. ConfidenceSamples /\ seen \in BOOLEAN
    <2>1. busy = 0 \/ busy = ConfidenceSamples BY Zenon DEF Init
    <2>2. seen \in BOOLEAN BY Zenon DEF Init
    <2> QED BY <2>1, <2>2, OptionsAssumption
<1>5. 0 \in 0 .. MaxHappened BY OptionsAssumption
<1>6. span \in -Cap .. ConfidenceSpan
    <2>1. Cap \in Nat BY <1>5, StepsBack
    <2> QED BY <2>1, OptionsAssumption DEF Init
<1>7. /\ immature \in 0 .. SamplesBeforeMaturityIsWaived /\ peak \in 0 .. 2
      /\ happened \in 0 .. MaxHappened /\ round \in {0, 1}
      /\ shown \in 0 .. ConfidenceSpan
    BY OptionsAssumption DEF Init
<1>8. first = None /\ latest = None /\ elapsed = None /\ habit = Unsettled
    BY DEF Init
<1> QED BY <1>1, <1>2, <1>3, <1>4, <1>6, <1>7, <1>8
    DEF TypesHold, TypeOK, Hists, Ages, Recent

LEMMA LearnKeepsCostTypes ==
    ASSUME TypesHold, CostInv, NEW o \in Scrapes, LearnCost(o), ObservePeak(o)
    PROVE  /\ {typical', last', least'} \subseteq 0 .. Max(Costs)
           /\ hist' \in Hists
           /\ immature' \in 0 .. SamplesBeforeMaturityIsWaived
           /\ peak' \in 0 .. 2
<1> DEFINE dear == Max(Costs)
<1>1. dear \in Nat /\ Peak(o) \in 0 .. dear
    <2>1. dear \in Nat BY Dearest
    <2>2. Peak(o) \in Costs => Peak(o) \in 0 .. dear BY Dearest
    <2> QED BY <2>1, <2>2, PeakIsACost
<1>2. typical \in 0 .. dear /\ last \in 0 .. dear /\ least \in 0 .. dear
    BY DEF TypesHold, TypeOK
<1> HIDE DEF dear
<1>3. {typical', last', least'} \subseteq 0 .. dear
    <2>1. CASE ~Counts(o) BY <1>2, <2>1 DEF LearnCost
    <2>2. CASE Counts(o)
        <3>1. PICK to \in Moved(o) : typical' = to BY <2>2 DEF LearnCost
        <3>2. to \in 0 .. dear
            <4>1. CASE typical = 0 BY <1>1, <4>1 DEF Moved
            <4>2. CASE typical # 0 /\ Peak(o) > typical
                <5>1. to = (Peak(o) + typical) \div 2 BY <4>2 DEF Moved
                <5> QED BY <1>1, <1>2, <5>1
            <4>3. CASE typical # 0 /\ Peak(o) <= typical
                <5>1. to = typical \/ to \in Lowered(o)
                    BY <1>1, <1>2, <4>3 DEF Moved
                <5> QED BY <1>1, <1>2, <5>1 DEF Lowered
            <4> QED BY <1>1, <1>2, <4>1, <4>2, <4>3
        <3>3. last' = Peak(o) BY <2>2 DEF LearnCost
        <3>4. least' \in {Peak(o), least, Min({least, Peak(o)})}
            BY <2>2 DEF LearnCost
        <3>5. Min({least, Peak(o)}) \in {least, Peak(o)} BY <1>1, <1>2, MinPair
        <3> QED BY <1>1, <1>2, <3>1, <3>2, <3>3, <3>4, <3>5
    <2> QED BY <2>1, <2>2
<1>4. hist' \in Hists
    <2>1. o.workers \in Workers BY DEF Scrapes
    <2>2. hist \in Hists BY DEF TypesHold, TypeOK, Hists
    <2> QED BY <2>1, <2>2, ScrapeKeepsHist DEF LearnCost
<1>5. immature' \in 0 .. SamplesBeforeMaturityIsWaived
    <2>1. immature \in 0 .. SamplesBeforeMaturityIsWaived
        BY DEF TypesHold, TypeOK
    <2>2. SamplesBeforeMaturityIsWaived \in Nat BY OptionsAssumption
    <2>3. immature' \in {immature, 0, Min({immature + 1, SamplesBeforeMaturityIsWaived})}
        BY DEF LearnCost, Immature
    <2> QED BY <2>1, <2>2, <2>3, MinPair
<1>6. peak' \in 0 .. 2
    <2>1. peak \in 0 .. 2 BY DEF TypesHold, TypeOK
    <2>2. o.active \in 1 .. 2 BY DEF Scrapes
    <2>3. CASE o.active > peak BY <2>2, <2>3 DEF ObservePeak
    <2>4. CASE ~(o.active > peak)
        <3>1. peak' = peak \/ peak' = peak - (peak - o.active + 1) \div 2
            BY <2>4 DEF ObservePeak
        <3> QED BY <2>1, <2>2, <2>4, <3>1
    <2> QED BY <2>3, <2>4
<1> QED BY <1>3, <1>4, <1>5, <1>6 DEF dear

LEMMA LearnKeepsTrustTypes ==
    ASSUME TypesHold, TrustInv', NEW o \in Scrapes, NEW wait \in Waits,
           IF wait < 0 THEN SomethingHappens ELSE UNCHANGED happened,
           LearnTrust(o, wait), Passes(o, wait)
    PROVE  /\ busy' \in 0 .. ConfidenceSamples /\ happened' \in 0 .. MaxHappened
           /\ first' \in Ages /\ latest' \in Ages
           /\ span' \in -Cap .. ConfidenceSpan
           /\ elapsed' \in Ages /\ shown' \in 0 .. ConfidenceSpan
           /\ Recent(first)' /\ Recent(latest)'
<1> DEFINE back == happened * ConfidenceSpan
           further == happened' * ConfidenceSpan
<1>1. /\ ConfidenceSpan \in Nat /\ ConfidenceSpan > 0
      /\ ConfidenceSamples \in Nat /\ MaxHappened \in Nat /\ None \notin Int
    BY OptionsAssumption
<1>2. happened \in 0 .. MaxHappened BY DEF TypesHold, TypeOK
<1>3. /\ happened' \in 0 .. MaxHappened
      /\ happened' = IF wait < 0 THEN happened + 1 ELSE happened
    BY <1>1, <1>2 DEF SomethingHappens
<1>4. wait \in Int /\ wait >= -ConfidenceSpan BY <1>1 DEF Waits
<1>5. /\ Cap \in Nat /\ Cap >= ConfidenceSpan
      /\ back \in Nat /\ further \in Nat /\ further <= Cap
      /\ further = IF wait < 0 THEN back + ConfidenceSpan ELSE back
    BY <1>2, <1>3, StepsBack
<1>6. /\ Recent(first) <=> (first # None => first >= -back)
      /\ Recent(latest) <=> (latest # None => latest >= -back)
      /\ Recent(first)' <=> (first' # None => first' >= -further)
      /\ Recent(latest)' <=> (latest' # None => latest' >= -further)
    BY DEF Recent
<1> HIDE DEF back, further
<1>7. ASSUME NEW age \in Ages, age # None => age >= -back
      PROVE  /\ After(age, wait) \in Ages
             /\ After(age, wait) # None => After(age, wait) >= -further
             /\ age # None => After(age, wait) \in Int
    <2>1. CASE age = None BY <1>1, <2>1 DEF After, Ages
    <2>2. CASE age # None
        <3>1. age \in Int /\ age >= -back BY <1>5, <1>7, <2>2 DEF Ages
        <3>2. After(age, wait) = IF age + wait <= Cap THEN age + wait ELSE Cap
            BY <1>4, <1>5, <2>2, <3>1, MinPair DEF After
        <3>3. After(age, wait) \in Int /\ After(age, wait) <= Cap
              /\ After(age, wait) >= -further
            BY <1>1, <1>4, <1>5, <3>1, <3>2
        <3> QED BY <1>5, <3>3 DEF Ages
    <2> QED BY <2>1, <2>2
<1>8. /\ first \in Ages /\ latest \in Ages /\ Recent(first) /\ Recent(latest)
      /\ span \in -Cap .. ConfidenceSpan /\ busy \in 0 .. ConfidenceSamples
    BY DEF TypesHold, TypeOK
<1>9. 0 \in Ages /\ 0 >= -further BY <1>5 DEF Ages
<1>10. first' \in Ages /\ (first' # None => first' >= -further)
    <2>1. first' = 0 \/ first' = After(first, wait) BY DEF LearnTrust
    <2> QED BY <1>6, <1>7, <1>8, <1>9, <2>1
<1>11. latest' \in Ages /\ (latest' # None => latest' >= -further)
    <2>1. latest' = 0 \/ latest' = After(latest, wait) BY DEF LearnTrust
    <2> QED BY <1>6, <1>7, <1>8, <1>9, <2>1
<1>12. span' \in -Cap .. ConfidenceSpan
    <2>1. CASE span' = span BY <1>8, <2>1
    <2>2. CASE BusySample(o) /\ span' = Min({first', ConfidenceSpan})
        <3>1. first' # None
            <4>1. first' = IF first = None THEN 0 ELSE After(first, wait)
                BY <2>2 DEF LearnTrust
            <4>2. first # None => After(first, wait) \in Int BY <1>6, <1>7, <1>8
            <4> QED BY <1>1, <4>1, <4>2
        <3>2. first' \in Int /\ first' >= -Cap BY <1>5, <1>10, <3>1 DEF Ages
        <3>3. span' = IF first' <= ConfidenceSpan THEN first' ELSE ConfidenceSpan
            BY <1>1, <2>2, <3>2, MinPair
        <3> QED BY <1>1, <1>5, <3>2, <3>3
    <2> QED BY <2>1, <2>2 DEF LearnTrust
<1>13. busy' \in 0 .. ConfidenceSamples
    <2>1. busy' = busy \/ busy' = Min({busy + 1, ConfidenceSamples}) BY DEF LearnTrust
    <2> QED BY <1>1, <1>8, <2>1, MinPair
<1>14. elapsed' \in Ages /\ shown' \in 0 .. ConfidenceSpan
    BY <1>1, <1>5 DEF TrustInv, TimeShapes, ShownHasPassed, Ages
<1> QED BY <1>3, <1>6, <1>10, <1>11, <1>12, <1>13, <1>14

LEMMA StepKeepsTypes ==
    ASSUME TypesHold, CostInv, TrustInv, TrustInv', [Next]_vars
    PROVE  TypesHold'
<1>1. CASE Learn
    <2>1. PICK o \in Scrapes, wait \in Waits :
            /\ IF wait < 0 THEN SomethingHappens ELSE UNCHANGED happened
            /\ LearnCost(o) /\ ObservePeak(o) /\ LearnTrust(o, wait) /\ Passes(o, wait)
        BY <1>1, Zenon DEF Learn
    <2>2. /\ {typical', last', least'} \subseteq 0 .. Max(Costs)
          /\ hist' \in Hists
          /\ immature' \in 0 .. SamplesBeforeMaturityIsWaived
          /\ peak' \in 0 .. 2
        BY <2>1, LearnKeepsCostTypes
    <2>3. /\ busy' \in 0 .. ConfidenceSamples /\ happened' \in 0 .. MaxHappened
          /\ first' \in Ages /\ latest' \in Ages
          /\ span' \in -Cap .. ConfidenceSpan
          /\ elapsed' \in Ages /\ shown' \in 0 .. ConfidenceSpan
          /\ Recent(first)' /\ Recent(latest)'
        BY <2>1, LearnKeepsTrustTypes
    <2>4. seen' \in BOOLEAN /\ habit' \in Habits \cup {Unsettled} /\ round' \in {0, 1}
        BY <1>1 DEF Learn, TypesHold, TypeOK
    <2> QED BY <2>2, <2>3, <2>4 DEF TypesHold, TypeOK, Hists
<1>2. CASE Load
    <2>1. UNCHANGED <<seen, cost, busy, elapsed, shown, habit, happened, round>>
        BY <1>2 DEF Load
    <2>2. first' \in {None, first} /\ latest' \in {None, latest} /\ span' \in {0, span}
        BY <1>2 DEF Load
    <2>3. span' \in -Cap .. ConfidenceSpan
        <3>1. Cap \in Nat /\ ConfidenceSpan \in Nat
            BY StepsBack, OptionsAssumption DEF TypesHold, TypeOK
        <3> QED BY <2>2, <3>1 DEF TypesHold, TypeOK
    <2>4. first' \in Ages /\ latest' \in Ages /\ Recent(first)' /\ Recent(latest)'
        BY <2>1, <2>2 DEF TypesHold, TypeOK, Ages, Recent
    <2> QED BY <2>1, <2>3, <2>4 DEF TypesHold, TypeOK, cost
<1>3. CASE Upgrade
    <2>1. /\ happened' \in 0 .. MaxHappened /\ happened' = happened + 1
          /\ UNCHANGED <<seen, typical, last, immature, peak, least, trust, habit, round>>
        BY <1>3, OptionsAssumption DEF Upgrade, SomethingHappens, TypesHold, TypeOK
    <2>2. hist' \in [Costs -> 0 .. DecayAfter]
        BY <1>3, OptionsAssumption DEF Upgrade, Empty
    <2>3. Recent(first)' /\ Recent(latest)'
        <3> DEFINE back == happened * ConfidenceSpan
                   further == happened' * ConfidenceSpan
        <3>0. happened \in 0 .. MaxHappened BY DEF TypesHold, TypeOK
        <3>1. /\ back \in Nat /\ further \in Nat /\ further >= back /\ Cap \in Nat
            <4>1. back \in Nat /\ further = back + ConfidenceSpan /\ Cap \in Nat
                BY <2>1, <3>0, StepsBack
            <4> HIDE DEF back, further
            <4> QED BY <4>1, OptionsAssumption
        <3>2. /\ first # None => first >= -back
              /\ latest # None => latest >= -back
            BY DEF TypesHold, Recent
        <3>3. first \in Ages /\ latest \in Ages /\ first' = first /\ latest' = latest
            BY <2>1 DEF TypesHold, TypeOK, trust
        <3> HIDE DEF back, further
        <3>4. ASSUME NEW age \in Ages, age # None, age >= -back PROVE age >= -further
            <4>1. age \in Int BY <3>1, <3>4 DEF Ages
            <4> QED BY <3>1, <3>4, <4>1
        <3> QED BY <3>2, <3>3, <3>4 DEF Recent, further
    <2> QED BY <2>1, <2>2, <2>3 DEF TypesHold, TypeOK, trust
<1>4. CASE Settle
    <2>1. habit' \in Habits BY <1>4 DEF Settle
    <2>2. UNCHANGED <<seen, cost, trust, happened, round>> BY <1>4 DEF Settle
    <2> QED BY <2>1, <2>2 DEF TypesHold, TypeOK, Recent, cost, trust
<1>5. CASE UNCHANGED vars
    BY <1>5 DEF TypesHold, TypeOK, Recent, vars, cost, trust
<1> QED BY <1>1, <1>2, <1>3, <1>4, <1>5 DEF Next

(***************************************************************************)
(* Every reachable state of a record has the declared types: no bucket of  *)
(* the histogram passes what it is halved at, no estimate the dearest      *)
(* reading, and no stored time lies further ahead than the clock was ever  *)
(* set back.  (Learn, HistogramAdd, forgetTheFuture)                       *)
(***************************************************************************)
THEOREM TypeCorrect == Spec => []TypeOK
<1>1. Init => TypesHold BY TypesStart
<1>2. TypesHold /\ CostInv /\ TrustInv /\ [Next]_vars => TypesHold'
    BY StepKeepsTypes, StepKeepsTrust
<1>3. TypesHold => TypeOK BY DEF TypesHold
<1> QED BY <1>1, <1>2, <1>3, EvidenceIsSound, PTL DEF Spec

(***************************************************************************)
(* A pool that may be cut has really been seen at work over the whole      *)
(* span, however the clock was set and the file was read in between.       *)
(* (Confidence, Trusted, forgetTheFuture)                                  *)
(***************************************************************************)
THEOREM TrustEarned == Spec => []TrustIsEarned
<1>1. TrustInv => TrustIsEarned
    BY OptionsAssumption
    DEF TrustInv, TimeShapes, ShownHasPassed, TrustIsEarned, Trusted
<1> QED BY <1>1, EvidenceIsSound, PTL

(***************************************************************************)
(* Trust is lost only with a time that a reading of the file finds has not *)
(* come yet.  (Learn's LastBusyAt)                                         *)
(***************************************************************************)
THEOREM TrustKept == Spec => TrustIsKept
<1>1. CostInv /\ TrustInv /\ [Next]_vars =>
        [Trusted /\ ~Trusted' => None \in {first', latest'}]_vars
    BY StepKeepsTrust
<1> QED BY <1>1, EvidenceIsSound, PTL DEF Spec, TrustIsKept
=============================================================================
