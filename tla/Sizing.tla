------------------------------- MODULE Sizing -------------------------------
(***************************************************************************)
(* Round after round of sizing on one host: the scrape and the remembered  *)
(* peak, plan.Build's question for each pool, Compute's division of the    *)
(* memory, and the part of it Apply carries out, while traffic, costs and  *)
(* the operator move.  How a change reaches the host is ApplyTxn's         *)
(* business; here it does or it does not.                                  *)
(***************************************************************************)
EXTENDS Resize

CONSTANTS
    Rooms,          \* what the budget less the reserve may be
    FirstSizes,     \* the ceilings a pool may have at the start
    FirstCost,      \* what a worker of each pool costs at the start
    FirstTrusted,   \* which pools may have been watched long enough by then
    Demands,        \* bound: how many requests a pool may have at a time
    MaxCost,        \* bound: what a worker may come to cost
    MaxHappened     \* bound: events that are not the tool's own doing

ASSUME SizeAssumption ==
    /\ Rooms \subseteq Nat
    /\ FirstSizes \subseteq Nat \ {0}
    /\ Demands \subseteq Nat /\ IsFiniteSet(Demands)
    /\ MaxCost \in Nat /\ FirstCost \in [Pools -> 1 .. MaxCost]
    /\ FirstTrusted \subseteq SUBSET Pools
    /\ MaxHappened \in Nat

VARIABLES
    (* the host *)
    room,       \* the budget less the reserve
    ceiling,    \* pm.max_children as php-fpm has it
    demand,     \* requests at a time
    high,       \* max_active_processes: most busy since the last reload
    reached,    \* pools whose max_children_reached has moved since it was recorded
    starved,    \* the host's CPU is full
    sight,      \* of each pool: read, silent (no answer), unparsed (no ceiling),
                \* or lost (neither)
    (* what is learned *)
    cost,       \* of one worker
    peak,       \* PeakWorkers
    trusted,    \* pools watched long enough to be cut
    waited,     \* rounds since LastAppliedAt
    (* the round *)
    asked,      \* what the scrape said of each pool, until Apply is through
    plan,       \* the last plan published
    happened    \* how many outside events so far

host == <<room, ceiling, demand, high, reached, starved, sight>>
learned == <<cost, peak, trusted, waited>>
round == <<asked, plan>>
vars == <<host, learned, round, happened>>

Sights == {"read", "silent", "unparsed", "lost"}

TypeOK ==
    /\ room \in Rooms
    /\ ceiling \in [Pools -> Nat \ {0}] /\ demand \in [Pools -> Demands \cup {0}]
    /\ high \in [Pools -> 0 .. Max(Demands \cup {0})]
    /\ reached \subseteq Pools /\ starved \in BOOLEAN
    /\ sight \in [Pools -> Sights]
    /\ cost \in [Pools -> 1 .. MaxCost]
    /\ peak \in [Pools -> 0 .. Max(Demands \cup {0})] /\ trusted \subseteq Pools
    /\ waited \in [Pools -> 1 .. ShrinkMinInterval]
    /\ asked = None \/ DOMAIN asked = Pools
    /\ plan = None \/ plan \in [grant : [Pools -> Nat \ {0}], want : [Pools -> Nat \ {0}],
                               room : Rooms, exhausted : BOOLEAN]
    /\ happened \in 0 .. MaxHappened

Init ==
    /\ room \in Rooms
    /\ ceiling \in [Pools -> FirstSizes]
    /\ demand = [p \in Pools |-> 0] /\ high = demand
    /\ reached = {} /\ starved = FALSE
    /\ sight = [p \in Pools |-> "read"]
    /\ cost = FirstCost /\ peak = demand
    /\ trusted \in FirstTrusted
    /\ waited = [p \in Pools |-> ShrinkMinInterval]
    /\ asked = None /\ plan = None
    /\ happened = 0

SomethingHappens == happened < MaxHappened /\ happened' = happened + 1

-----------------------------------------------------------------------------
(* The question put to the allocator.                                      *)

Answering == {p \in Pools : sight[p] \in {"read", "unparsed"}}

(* What the scrape says of a pool that cannot be written: the ceiling it was
   configured with, and the most it has had busy. *)
Configured(p) == IF sight[p] = "silent" THEN ceiling[p] ELSE 0
Shown(p) == IF sight[p] = "unparsed" THEN high[p] ELSE 0

Busy(d, c) == [p \in Pools |-> Min({d[p], c[p]})]

(* A queue at the ceiling, or a counter that moved since the last round. *)
HitCeiling(p) == demand[p] > ceiling[p] \/ p \in reached

(* PeakWorkers after this scrape, where that of the pools in old is past
   its window and gives back half the distance. *)
ObservePeak(p, old) ==
    IF high[p] > peak[p] THEN high[p]
    ELSE IF p \in old THEN peak[p] - (peak[p] - high[p] + 1) \div 2
    ELSE peak[p]

(* A pool that was read, with what has just been learned of it: its floor is
   what it has until it is trusted. *)
Known(p) ==
    LET hit == HitCeiling(p) IN
    [cost |-> cost'[p], current |-> ceiling[p],
     peak |-> peak'[p],
     queue |-> demand[p] > ceiling[p], hit |-> hit /\ ~starved,
     reducible |-> p \in trusted', unknown |-> FALSE,
     floor |-> IF p \in trusted' THEN 0 ELSE ceiling[p], ceiling |-> 0,
     cpu |-> IF hit /\ starved THEN ceiling[p] ELSE 0]

(* Wrong: only what the scrape has just said is reserved. *)
UnknownForgetting(p) ==
    LET reserve == Max({Configured(p), Shown(p)}) IN
    [cost |-> cost'[p], current |-> Configured(p), peak |-> 0,
     queue |-> FALSE, hit |-> FALSE, reducible |-> FALSE, unknown |-> TRUE,
     floor |-> reserve, ceiling |-> reserve, cpu |-> 0]

(* One that cannot be written: reserved for at the most anybody remembers. *)
Unknown(p) ==
    LET reserve == Max({Configured(p), peak[p], Shown(p)}) IN
    [cost |-> cost'[p], current |-> Configured(p), peak |-> 0,
     queue |-> FALSE, hit |-> FALSE, reducible |-> FALSE, unknown |-> TRUE,
     floor |-> reserve, ceiling |-> reserve, cpu |-> 0]

Ask == [p \in Pools |-> IF sight[p] = "read" THEN Known(p) ELSE Unknown(p)]

-----------------------------------------------------------------------------
(* A round: it looks and plans, and some time later applies.               *)

(* Learn: workers turn out to cost something else, a pool seen with two warm
   workers for long enough comes to be trusted, and the peaks move. *)
Learn ==
    /\ \/ UNCHANGED <<cost, happened>>
       \/ /\ SomethingHappens
          /\ \E p \in Answering, c \in 1 .. MaxCost :
                c # cost[p] /\ cost' = [cost EXCEPT ![p] = c]
    /\ \E proven \in SUBSET {p \in Answering : demand[p] > 0 /\ ceiling[p] >= 2} :
            trusted' = trusted \cup proven
    /\ \E old \in SUBSET {p \in Pools : sight[p] = "read" /\ peak[p] > high[p]} :
            peak' = [p \in Pools |-> IF sight[p] = "read" THEN ObservePeak(p, old) ELSE peak[p]]

Look == asked = None /\ Learn /\ asked' = Ask

Observe ==
    /\ Look
    /\ plan' = Compute(asked', room)
    /\ reached' = IF plan' = None THEN reached ELSE reached \ Answering
    /\ UNCHANGED <<room, ceiling, demand, high, starved, sight, waited>>

(* A reload is of the whole master: its counters begin again. *)
Reload ==
    /\ high' = Busy(demand, ceiling')
    /\ reached' = {p \in Pools : demand[p] > ceiling'[p]}

(* A round changes these pools, perhaps none; time has passed either way. *)
EndRound(changed) ==
    /\ asked # None
    /\ asked' = None
    /\ ceiling' = [p \in Pools |-> IF p \in changed THEN plan.grant[p] ELSE ceiling[p]]
    /\ IF changed = {} THEN UNCHANGED <<high, reached>> ELSE Reload
    /\ waited' = [p \in Pools |->
                    IF p \in changed THEN 1
                    ELSE IF waited[p] < ShrinkMinInterval THEN waited[p] + 1 ELSE waited[p]]
    /\ UNCHANGED <<room, demand, starved, sight, cost, peak, trusted, plan>>

Apply ==
    /\ asked # None /\ plan # None
    /\ \E changed \in Resizes(asked, plan, waited, Damping) : EndRound(changed)
    /\ UNCHANGED happened

(* An apply-now: the damping is for the daemon's own ideas. *)
ForcedApply ==
    /\ asked # None /\ plan # None
    /\ SomethingHappens
    /\ \E changed \in Resizes(asked, plan, waited, NoDamping) : EndRound(changed)

(* Refused, or rolled back. *)
ApplyFails == SomethingHappens /\ EndRound({})

NothingToApply == plan = None /\ EndRound({}) /\ UNCHANGED happened

-----------------------------------------------------------------------------
(* What comes from outside.                                                *)

TrafficMoves ==
    /\ SomethingHappens
    /\ \E p \in Pools, d \in Demands :
        /\ d # demand[p]
        /\ demand' = [demand EXCEPT ![p] = d]
        /\ high' = [high EXCEPT ![p] = Max({@, Min({d, ceiling[p]})})]
        /\ reached' = IF d > ceiling[p] THEN reached \cup {p} ELSE reached
    /\ UNCHANGED <<room, ceiling, starved, sight, learned, round>>

(* By hand, with a reload. *)
OperatorResizes ==
    /\ SomethingHappens
    /\ \E p \in Pools, n \in FirstSizes :
        /\ n # ceiling[p]
        /\ ceiling' = [ceiling EXCEPT ![p] = n]
    /\ Reload
    /\ UNCHANGED <<room, demand, starved, sight, learned, round>>

SightChanges ==
    /\ SomethingHappens
    /\ \E p \in Pools, s \in Sights :
        s # sight[p] /\ sight' = [sight EXCEPT ![p] = s]
    /\ UNCHANGED <<room, ceiling, demand, high, reached, starved, learned, round>>

LoadChanges ==
    /\ SomethingHappens
    /\ starved' = ~starved
    /\ UNCHANGED <<room, ceiling, demand, high, reached, sight, learned, round>>

(* The host or its cgroup gets more memory, or less. *)
BudgetMoves ==
    /\ SomethingHappens
    /\ room' \in Rooms \ {room}
    /\ UNCHANGED <<ceiling, demand, high, reached, starved, sight, learned, round>>

Outside ==
    \/ TrafficMoves \/ OperatorResizes \/ SightChanges \/ LoadChanges \/ BudgetMoves

Round == Observe \/ Apply \/ ForcedApply \/ ApplyFails \/ NothingToApply

Next == Round \/ Outside

Spec == Init /\ [][Next]_vars

Applies == asked # None /\ asked' = None

(* The ticker ticks, and a round that has begun comes to its end.  And a pool
   that keeps two workers busy has warm ones to be measured by. *)
FairSpec ==
    /\ Spec
    /\ WF_asked(Look) /\ WF_asked(Applies)
    /\ \A p \in Pools : []<>(\/ p \in trusted \/ p \notin Answering
                              \/ demand[p] < 2 \/ ceiling[p] < 2)

-----------------------------------------------------------------------------
(* What a plan promises.                                                   *)

Planned == asked # None /\ plan # None

(***************************************************************************)
(* No plan commits more than the budget, although it reserves for every    *)
(* pool it cannot write what that pool has or was ever seen to use.        *)
(* (Compute: "the one invariant this package exists to hold"; poolFor)     *)
(***************************************************************************)
PlanFits ==
    Planned =>
        /\ Bytes(asked, plan.grant, Pools) <= plan.room
        /\ \A p \in Pools : asked[p].unknown =>
                plan.grant[p] >= peak[p] /\ plan.grant[p] >= asked[p].current

(***************************************************************************)
(* A pool left wanting in a finished plan could not have been given one    *)
(* worker more: "unmet" means the host is full, never that the division    *)
(* stopped early.  (Compute, allocateDemand)                               *)
(***************************************************************************)
UnmetMeansFull ==
    Planned =>
        \A p \in Pools : plan.grant[p] < plan.want[p]
            => Bytes(asked, plan.grant, Pools) + asked[p].cost > plan.room

(***************************************************************************)
(* A pool nobody has watched long enough is planned below its ceiling only *)
(* when one worker each for all the trusted ones would not have made room. *)
(* (allocateFloors, poolFor)                                               *)
(***************************************************************************)
TrustedGiveWayFirst ==
    Planned =>
        LET may == {p \in Pools : asked[p].reducible}
            has == [p \in Pools |-> IF asked[p].unknown THEN plan.grant[p]
                                    ELSE Capped(asked[p].current, HostCap)]
        IN  \A p \in Pools \ may : plan.grant[p] < has[p] =>
                Bytes(asked, has, Pools \ may) + Bytes(asked, OneEach, may) > plan.room

-----------------------------------------------------------------------------
(* What Apply makes of it.                                                 *)

(* By the tool, in a step that applies. *)
Changed == {p \in Pools : waited'[p] = 1}
Growths == {p \in Changed : plan.grant[p] > asked[p].current}
Cuts == {p \in Changed : plan.grant[p] < asked[p].current}

(* Nobody has touched the host since the scrape. *)
Unmoved == \A p \in Pools : asked[p].current \in {0, ceiling[p]}

(***************************************************************************)
(* A growth never takes the host past its budget: the part of a plan that  *)
(* is carried out fits with everything that is left where it is.           *)
(* (requireShrinksWithGrowth, holdGrowths)                                 *)
(***************************************************************************)
GrowthFits ==
    [][Applies /\ Unmoved /\ Growths # {} =>
        Bytes(asked, [p \in Pools |-> IF asked[p].current = 0 THEN plan.grant[p]
                                      ELSE ceiling'[p]], Pools) <= plan.room]_vars

(***************************************************************************)
(* Left to itself the daemon does not change a pool again inside its       *)
(* interval, whatever a neighbour needs.  (decide, and                     *)
(* requireShrinksWithGrowth: "never the time brake")                       *)
(***************************************************************************)
BrakeIsKept ==
    [][Applies /\ UNCHANGED happened =>
        /\ \A p \in Growths : waited[p] >= MinInterval
        /\ \A p \in Cuts : waited[p] >= ShrinkMinInterval]_vars

-----------------------------------------------------------------------------
(* Liveness, once no more happens from outside.                            *)

Full == plan # None /\ plan.exhausted

(***************************************************************************)
(* On a host with room for everybody, under traffic that does not change,  *)
(* the sizes stop changing: growth, damping and the remembered peak do not *)
(* chase one another.  (poolWant, decide, ObservePeak)                     *)
(***************************************************************************)
RoomMeansRest == []<>Full \/ <>[][ceiling' = ceiling]_vars

(* Nobody could give it more: the cores and the memory have no more, or it
   cannot be written. *)
Limited(p) ==
    \/ sight[p] # "read" \/ starved \/ (HostCap > 0 /\ ceiling[p] >= HostCap)
    \/ plan = None \/ Full

OneUnproven(p) == ceiling[p] = 1 /\ p \notin trusted

(***************************************************************************)
(* A pool that needs more than it has gets it in the end, unless the host  *)
(* has no more to give; but for those that have one worker and no history. *)
(* (poolWant's growth, decide, requireShrinksWithGrowth)                   *)
(***************************************************************************)
DemandIsMet ==
    \A p \in Pools : []<>(demand[p] <= ceiling[p] \/ Limited(p) \/ OneUnproven(p))

-----------------------------------------------------------------------------
(* What the comments say and the code does not do.                         *)

(***************************************************************************)
(* allocate.go, poolWant: a saturated pool "grows by a bounded factor and  *)
(* converges over successive runs"; plan.go, hitCeiling: "the signal that  *)
(* lets a pool recover from having been cut too far".                      *)
(***************************************************************************)
SaturatedRecovers == \A p \in Pools : []<>(demand[p] <= ceiling[p] \/ Limited(p))
=============================================================================
