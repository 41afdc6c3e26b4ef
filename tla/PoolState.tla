------------------------------ MODULE PoolState ------------------------------
(***************************************************************************)
(* What is learned about one pool (state/state.go, PoolState): what a      *)
(* worker costs, and whether the pool has been watched under load long     *)
(* enough to be cut.  Both come from the same scrapes, through gates that  *)
(* differ.                                                                 *)
(*                                                                         *)
(* Times are ages: how far back a stored time lies, negative when it lies  *)
(* in the future because the clock has been set back.  Readings are the    *)
(* floors of the buckets they fall in.  How fast the estimate falls is     *)
(* left open between the least and the most that decayAlpha allows.        *)
(***************************************************************************)
EXTENDS Integers, FiniteSets, Sequences, SequencesExt

CONSTANTS
    Costs,              \* what one worker may be read at
    Guess,              \* Profile.WorkerBytes, for a pool not yet measured
    Percent, Margin,    \* Options.Sizing, of 100; the percentile 0 is the peak
    SamplesBeforeMaturityIsWaived, ConfidenceSamples, ConfidenceSpan,
    Ways,               \* what a pool may do in the long run
    DecayAfter,         \* readings in the histogram before it is halved
    MaxHappened,        \* bound: clock steps and upgrades
    None

ASSUME CostsAssumption == IsFiniteSet(Costs) /\ Costs # {} /\ Costs \subseteq Nat \ {0}
ASSUME OptionsAssumption ==
    /\ {Guess, SamplesBeforeMaturityIsWaived, ConfidenceSamples,
        ConfidenceSpan, DecayAfter} \subseteq Nat \ {0}
    /\ Percent \in 0 .. 100 /\ Margin \in Nat
    /\ Ways \subseteq {"young", "alone", "steady"}
    /\ MaxHappened \in Nat /\ None \notin Int

VARIABLES
    seen,       \* there is a record, and a scrape to measure the next one from
    typical,    \* TypicalPeakBytes
    last,       \* LastPeakBytes
    hist,       \* RSSHistogram
    immature,   \* ImmatureRounds
    peak,       \* PeakWorkers
    busy,       \* BusySamples
    first,      \* the age of FirstBusyAt
    latest,     \* the age of LastBusyAt
    span,       \* LastBusyAt - FirstBusyAt
    habit,      \* what the pool does from now on
    happened,
    round,      \* once it has settled, changes with every scrape, for fairness
    least,      \* history: the least reading that had a right to lower typical
    elapsed,    \* history: time that has really passed since the first busy sample
    shown       \* history: elapsed at the last busy sample

cost == <<typical, last, hist, immature, peak, least>>
trust == <<busy, first, latest, span, elapsed, shown>>
vars == <<seen, cost, trust, habit, happened, round>>

Unsettled == [kind |-> "any", at |-> 0]
Habits == [kind : Ways, at : Costs]

(* No clock step can bring a span that is long enough under the mark. *)
Cap == (1 + MaxHappened) * ConfidenceSpan
Ages == {None} \cup -Cap .. Cap

TypeOK ==
    /\ seen \in BOOLEAN
    /\ {typical, last, least} \subseteq 0 .. Max(Costs)
    /\ hist \in [Costs -> 0 .. DecayAfter]
    /\ immature \in 0 .. SamplesBeforeMaturityIsWaived
    /\ peak \in 0 .. 2
    /\ busy \in 0 .. ConfidenceSamples
    /\ first \in Ages /\ latest \in Ages /\ span \in -Cap .. ConfidenceSpan
    /\ habit \in Habits \cup {Unsettled} /\ happened \in 0 .. MaxHappened
    /\ round \in {0, 1}
    /\ elapsed \in Ages /\ shown \in 0 .. ConfidenceSpan

Empty == [c \in Costs |-> 0]

(* No record, or one from a build that did not say when the evidence came. *)
Init ==
    /\ \/ seen = FALSE /\ typical = 0 /\ busy = 0
       \/ seen = TRUE /\ typical \in Costs /\ busy = ConfidenceSamples
    /\ last = 0 /\ hist = Empty /\ immature = 0 /\ peak = 0
    /\ first = None /\ latest = None /\ span = 0
    /\ habit = Unsettled /\ happened = 0 /\ round = 0
    /\ least = typical /\ elapsed = None /\ shown = 0

SomethingHappens == happened < MaxHappened /\ happened' = happened + 1

-----------------------------------------------------------------------------
(* What the record is used for.                                            *)

(* SizingBytes: the estimate, never below the last reading. *)
SizingBytes == Max({typical, last})

Readings == SumFunction(hist)

UpTo(c) == SumFunctionOnSet(hist, {d \in Costs : d <= c})

Percentile == Min({c \in Costs : 100 * UpTo(c) >= Percent * Readings /\ UpTo(c) > 0})

SizingBytesAt ==
    IF Percent > 0 /\ Readings > 0
    THEN Max({(Percentile * (100 + Margin)) \div 100, last})
    ELSE SizingBytes

(* What poolFor plans with: the guess until there is a reading, and no less
   than the guess until the pool was seen working. *)
WorkerBytes ==
    IF SizingBytesAt = 0 THEN Guess
    ELSE IF busy = 0 THEN Max({SizingBytesAt, Guess})
    ELSE SizingBytesAt

Trusted ==
    /\ busy >= ConfidenceSamples /\ typical > 0
    /\ first # None /\ latest # None
    /\ span >= ConfidenceSpan

-----------------------------------------------------------------------------
(* One scrape.                                                             *)

Workers == {<<>>} \cup {<<c>> : c \in Costs}
                  \cup {w \in Costs \X Costs : w[1] <= w[2]}

(* The workers, how many of them are mature, the rate at which the pool has
   served since the last scrape, against the one that counts as work, and
   max_active_processes. *)
Scrapes ==
    {o \in [workers : Workers, mature : 0 .. 2,
            effort : {"none", "some", "full"}, active : 1 .. 2] :
        o.mature <= Len(o.workers)}

Peak(o) == IF o.workers = <<>> THEN 0 ELSE Last(o.workers)

Served(o) == o.effort # "none"
Worked(o) == o.effort = "full"

(* Time on the clock since the last scrape; it may have been set back. *)
Waits == {-ConfidenceSpan, 1, ConfidenceSpan}

(* Without an interval there is no rate. *)
Measured(o, wait) == (seen /\ wait > 0) \/ ~Served(o)

(* Wrong: nothing is ever forgotten. *)
HistogramAddForEver(h, c) == [h EXCEPT ![c] = @ + 1]

(* Wrong: what is full takes nothing more. *)
HistogramAddWhileRoom(h, c) ==
    IF SumFunction(h) = DecayAfter THEN h ELSE [h EXCEPT ![c] = @ + 1]

HistogramAdd(h, c) ==
    LET more == [h EXCEPT ![c] = @ + 1] IN
    IF SumFunction(more) > DecayAfter
    THEN [d \in Costs |-> more[d] \div 2] ELSE more

(* Wrong: recycling is looked for in busy pools only. *)
ImmatureWorking(o) ==
    IF Peak(o) = 0 \/ (o.mature = 0 /\ ~Worked(o)) THEN immature
    ELSE IF o.mature > 0 THEN 0
    ELSE Min({immature + 1, SamplesBeforeMaturityIsWaived})

Immature(o) ==
    IF Peak(o) = 0 \/ (o.mature = 0 /\ ~Served(o)) THEN immature
    ELSE IF o.mature > 0 THEN 0
    ELSE Min({immature + 1, SamplesBeforeMaturityIsWaived})

(* One worker counts where there were never two. *)
Sole(o) == o.mature = 1 /\ peak <= 1

(* Workers that are recycled before they mature. *)
Recycled(o) ==
    /\ o.mature = 0 /\ Served(o)
    /\ Immature(o) >= SamplesBeforeMaturityIsWaived

Counts(o) ==
    /\ Peak(o) > 0
    /\ o.mature >= 2 \/ Sole(o) \/ (Recycled(o) /\ Peak(o) > SizingBytes)

(* The time that counts is at most the pool's own cadence, so that a hole in
   the observations does no more than a scrape, and no time at all takes off
   more than half the way. *)
Lowered(o) == (Peak(o) + typical) \div 2 .. typical - 1

(* Wrong: a quiet pool lowers it too. *)
MovedByQuiet(o) ==
    IF typical = 0 THEN {Peak(o)}
    ELSE IF Peak(o) > typical THEN {(Peak(o) + typical) \div 2}
    ELSE IF Peak(o) = typical THEN {typical}
    ELSE Lowered(o)

(* Half way up at once, and down only while the pool works. *)
Moved(o) ==
    IF typical = 0 THEN {Peak(o)}
    ELSE IF Peak(o) > typical THEN {(Peak(o) + typical) \div 2}
    ELSE IF ~Worked(o) \/ Peak(o) = typical THEN {typical}
    ELSE Lowered(o)

MayLower(o) == typical = 0 \/ (Worked(o) /\ o.mature > 0)

LearnCost(o) ==
    /\ hist' = FoldLeft(HistogramAdd, hist, o.workers)
    /\ immature' = Immature(o)
    /\ IF Counts(o)
       THEN /\ typical' \in Moved(o) /\ last' = Peak(o)
            /\ least' = IF typical = 0 THEN Peak(o)
                        ELSE IF MayLower(o) THEN Min({least, Peak(o)}) ELSE least
       ELSE UNCHANGED <<typical, last, least>>

(* ObservePeak, where the peak may be past its window. *)
ObservePeak(o) ==
    peak' \in IF o.active > peak THEN {o.active}
              ELSE {peak, peak - (peak - o.active + 1) \div 2}

-----------------------------------------------------------------------------
(* Trust.                                                                  *)

After(age, time) == IF age = None THEN None ELSE Min({age + time, Cap})

BusySample(o) == Counts(o) /\ Worked(o) /\ o.mature >= 2

(* Wrong: the span runs to the last scrape. *)
LearnTrustWaiting(o, wait) ==
    /\ busy' = IF BusySample(o) THEN Min({busy + 1, ConfidenceSamples}) ELSE busy
    /\ first' = IF first = None /\ BusySample(o) THEN 0 ELSE After(first, wait)
    /\ latest' = IF first' = None THEN None ELSE 0
    /\ span' = IF first' = None THEN 0 ELSE Max({0, Min({first', ConfidenceSpan})})

(* Wrong: the last busy sample is the latest, whatever the clock says. *)
LearnTrustStepping(o, wait) ==
    IF BusySample(o)
    THEN /\ busy' = Min({busy + 1, ConfidenceSamples})
         /\ first' = IF first = None THEN 0 ELSE After(first, wait)
         /\ latest' = 0 /\ span' = Max({0, Min({first', ConfidenceSpan})})
    ELSE first' = After(first, wait) /\ latest' = After(latest, wait) /\ UNCHANGED <<busy, span>>

LearnTrust(o, wait) ==
    LET now == After(latest, wait) IN
    IF BusySample(o)
    THEN /\ busy' = Min({busy + 1, ConfidenceSamples})
         /\ first' = IF first = None THEN 0 ELSE After(first, wait)
         /\ IF now = None \/ now > 0
            THEN latest' = 0 /\ span' = Min({first', ConfidenceSpan})
            ELSE latest' = now /\ UNCHANGED span
    ELSE first' = After(first, wait) /\ latest' = now /\ UNCHANGED <<busy, span>>

(* However far the clock was set back, some time has passed. *)
Passes(o, wait) ==
    LET real == IF wait > 0 THEN wait ELSE 1 IN
    /\ elapsed' = IF elapsed = None /\ BusySample(o) THEN 0
                  ELSE IF elapsed = None THEN None ELSE Min({elapsed + real, ConfidenceSpan})
    /\ shown' = IF BusySample(o) THEN elapsed' ELSE shown

-----------------------------------------------------------------------------
(* What the pool does in the long run.                                     *)

(* young: recycled before they mature.  alone: one worker, and never two.
   steady: two warm workers at work. *)
Fits(o, wait) ==
    CASE habit.kind = "any" -> TRUE
      [] habit.kind = "young" ->
            o.workers # <<>> /\ Range(o.workers) = {habit.at} /\ o.mature = 0 /\ Served(o)
      [] habit.kind = "alone" -> o.workers = <<habit.at>> /\ o.mature = 1 /\ o.active = 1
      [] habit.kind = "steady" ->
            /\ o.workers = <<habit.at, habit.at>> /\ o.mature = 2 /\ Worked(o)
            /\ wait = 1

Settle ==
    /\ habit = Unsettled /\ seen
    /\ \E h \in Habits : (h.kind = "alone" => peak <= 1) /\ habit' = h
    /\ UNCHANGED <<seen, cost, trust, happened, round>>

Learn ==
    /\ \E o \in Scrapes, wait \in Waits :
        /\ Measured(o, wait) /\ Fits(o, wait)
        /\ IF wait < 0 THEN SomethingHappens ELSE UNCHANGED happened
        /\ LearnCost(o) /\ ObservePeak(o)
        /\ LearnTrust(o, wait) /\ Passes(o, wait)
    /\ seen' = TRUE
    /\ round' = IF habit = Unsettled THEN round ELSE 1 - round
    /\ UNCHANGED habit

(* The file is read again: forgetTheFuture. *)
Load ==
    LET future(age) == age # None /\ age < 0 IN
    /\ first' = IF future(first) THEN None ELSE first
    /\ latest' = IF future(latest) THEN None ELSE latest
    /\ span' = IF future(latest) THEN 0 ELSE span
    /\ UNCHANGED <<seen, cost, busy, elapsed, shown, habit, happened, round>>

(* By a build with other buckets: dropMisshapenHistograms. *)
Upgrade ==
    /\ SomethingHappens
    /\ hist' = Empty
    /\ UNCHANGED <<seen, typical, last, immature, peak, least, trust, habit, round>>

Next == Learn \/ Load \/ Upgrade \/ Settle

Spec == Init /\ [][Next]_vars

(* The daemon looks at its pools in every round. *)
FairSpec == Spec /\ WF_round(habit # Unsettled /\ round' = 1 - round)
-----------------------------------------------------------------------------
(* What is learned can be relied on.                                       *)

(***************************************************************************)
(* Permission to cut a pool comes from load seen over the whole span, and  *)
(* not from waiting, from a clock that was set back, or from a file that   *)
(* does not say when the evidence came.  (Learn, Confidence,               *)
(* forgetTheFuture)                                                        *)
(***************************************************************************)
TrustIsEarned == Trusted => shown >= ConfidenceSpan

(***************************************************************************)
(* The estimate is never below every reading that had a right to lower     *)
(* it: quiet workers shrink and young ones are small, and neither says     *)
(* what the work costs.  (Learn's decay and its waiver)                    *)
(***************************************************************************)
EstimateIsBacked == typical >= least

(***************************************************************************)
(* Trust, once earned, is lost only with a time that a reading of the file *)
(* finds has not come yet; a clock set back under a running daemon does    *)
(* not take it away.  (Learn's LastBusyAt)                                 *)
(***************************************************************************)
TrustIsKept == [][Trusted /\ ~Trusted' => None \in {first', latest'}]_vars

(***************************************************************************)
(* A pool whose workers are recycled before they mature, and one that has  *)
(* a single worker, are measured all the same, and a deploy that makes     *)
(* them heavier is noticed.  (Learn's sole and recycled)                   *)
(***************************************************************************)
EveryShapeIsMeasured ==
    \A h \in [kind : {"young", "alone"}, at : Costs] :
        habit = h ~> typical > 0 /\ SizingBytes >= h.at

(***************************************************************************)
(* A pool that works steadily comes to be planned for at what it costs,    *)
(* however it was measured before, and to be trusted.  (Learn, Percentile, *)
(* SizingBytesAt, poolFor)                                                 *)
(***************************************************************************)
SteadyIsBelieved ==
    \A c \in Costs :
        habit = [kind |-> "steady", at |-> c] ~>
            /\ Trusted /\ SizingBytes = c
            /\ WorkerBytes = IF Percent = 0 THEN c ELSE (c * (100 + Margin)) \div 100

=============================================================================
