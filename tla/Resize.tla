------------------------------- MODULE Resize -------------------------------
(***************************************************************************)
(* Which parts of a plan Apply carries out: decide damps each pool on its  *)
(* own, and requireShrinksWithGrowth puts the two halves of one division   *)
(* together again.  Time is counted in rounds.                             *)
(***************************************************************************)
EXTENDS Allocate

CONSTANTS
    MinInterval,        \* rounds between a pool's last change and a growth
    ShrinkMinInterval   \* and a cut

ASSUME IntervalAssumption ==
    MinInterval \in Nat /\ ShrinkMinInterval \in Nat \ {0, 1} /\ MinInterval <= ShrinkMinInterval

(* Percent of the present ceiling, and rounds; nothing at all for a change
   a person asked for. *)
Damping == [change |-> 15, shrinkChange |-> 30,
            interval |-> MinInterval, shrinkInterval |-> ShrinkMinInterval]
NoDamping == [change |-> 0, shrinkChange |-> 0, interval |-> 0, shrinkInterval |-> 0]

Sooner(current, grant, waited, damp) ==
    waited < (IF grant < current THEN damp.shrinkInterval ELSE damp.interval)

Smaller(current, grant, damp) ==
    IF grant < current THEN 100 * (current - grant) < damp.shrinkChange * current
    ELSE 100 * (grant - current) < damp.change * current

(* decide.  A pool that can be written has a ceiling that was read. *)
Decide(a, grant, waited, damp) ==
    IF a.unknown THEN "unknown"
    ELSE IF grant = a.current THEN "unchanged"
    ELSE IF Sooner(a.current, grant, waited, damp) THEN "too_soon"
    ELSE IF Smaller(a.current, grant, damp) THEN "too_small"
    ELSE "applied"

Worth(ask, plan, waited, damp) ==
    {p \in Pools : Decide(ask[p], plan.grant[p], waited[p], damp) = "applied"}

(* What the host is committed to with these changes and no others. *)
Committed(changes, ask, plan) ==
    Bytes(ask, [p \in Pools |-> IF p \in changes \/ ask[p].current = 0
                                THEN plan.grant[p] ELSE ask[p].current], Pools)

-----------------------------------------------------------------------------

(* S is what a walk through T has taken that goes from the largest to the
   smallest and stops as soon as it has taken enough. *)
JustEnough(T, size, enough) ==
    {S \in SUBSET T :
        /\ \A x \in S, y \in T \ S : size[x] >= size[y]
        /\ S = T \/ SumFunctionOnSet(size, S) >= enough
        /\ \A x \in S : (\A y \in S : size[x] <= size[y])
                           => SumFunctionOnSet(size, S \ {x}) < enough}

(* Wrong: whatever was damped may be pulled in, the reload brake or not. *)
PulledInBraked(changes, ask, plan, waited, damp) ==
    LET cut == {p \in Pools \ changes : /\ ~ask[p].unknown
                                        /\ plan.grant[p] < ask[p].current}
        frees == [p \in Pools |-> (ask[p].current - plan.grant[p]) * ask[p].cost]
    IN  JustEnough(cut, frees, Committed(changes, ask, plan) - plan.room)

(* Wrong: what was damped stays damped, whatever a neighbour needs. *)
PulledInNothing(changes, ask, plan, waited, damp) == {{}}

(* The reductions a growth cannot fit without: those damped for their size,
   never those inside their interval. *)
PulledIn(changes, ask, plan, waited, damp) ==
    LET small == {p \in Pools : /\ plan.grant[p] < ask[p].current
                                /\ Decide(ask[p], plan.grant[p], waited[p], damp)
                                        = "too_small"}
        frees == [p \in Pools |-> (ask[p].current - plan.grant[p]) * ask[p].cost]
    IN  JustEnough(small, frees, Committed(changes, ask, plan) - plan.room)

Growing(changes, ask, plan) ==
    {p \in changes : ask[p].current > 0 /\ plan.grant[p] > ask[p].current}

Claims(ask, plan) == [p \in Pools |-> (plan.grant[p] - ask[p].current) * ask[p].cost]

(* Wrong: what is pulled in is taken to be enough. *)
DroppedNone(changes, ask, plan) == {{}}

(* The growths that still do not fit, the largest claims first. *)
Dropped(changes, ask, plan) ==
    JustEnough(Growing(changes, ask, plan), Claims(ask, plan),
               Committed(changes, ask, plan) - plan.room)

(* On a full host nobody is cut for a neighbour: the growths that fit one
   after the other, the largest claims offered first. *)
HoldGrowths(changes, ask, plan) ==
    LET growing == Growing(changes, ask, plan)
        claims  == Claims(ask, plan)
        orders  == {s \in SetToSeqs(growing) :
                        \A i, j \in DOMAIN s : i < j => claims[s[i]] >= claims[s[j]]}
    IN  {(changes \ growing) \cup kept : kept \in
            {K \in SUBSET growing : \E s \in orders : \A i \in DOMAIN s :
                LET before == (changes \ growing) \cup {s[j] : j \in 1 .. i - 1}
                IN  s[i] \in K <=> Committed((before \ (growing \ K)) \cup {s[i]}, ask, plan)
                                        <= plan.room}}

(* The sets of pools Apply may end up changing: sort.Slice leaves the order
   of equals open. *)
Resizes(ask, plan, waited, damp) ==
    LET changes == Worth(ask, plan, waited, damp)
    IN  IF Committed(changes, ask, plan) <= plan.room THEN {changes}
        ELSE IF plan.exhausted THEN HoldGrowths(changes, ask, plan)
        ELSE UNION {{all \ out : out \in Dropped(all, ask, plan)} :
                        all \in {changes \cup in :
                                    in \in PulledIn(changes, ask, plan, waited, damp)}}
=============================================================================
