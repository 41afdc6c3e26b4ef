------------------------------ MODULE Allocate ------------------------------
(***************************************************************************)
(* How one memory budget is divided over the pools of a host: Compute and  *)
(* everything it calls.  Memory is counted in units of any size.  The      *)
(* factors are those of Options.Defaults, as fractions; a product of       *)
(* floats cut to an integer is the exact product cut to an integer.        *)
(*                                                                         *)
(* A pool asks with a record:                                              *)
(*   cost        what one of its workers costs                             *)
(*   current     its ceiling as observed                                   *)
(*   peak        the most workers seen busy at once                        *)
(*   queue, hit  requests are waiting; the ceiling was reached             *)
(*   reducible   it has been watched long enough to be cut                 *)
(*   unknown     nothing may be written for it                             *)
(*   floor, ceiling, cpu    bounds on its size, 0 for none                 *)
(***************************************************************************)
EXTENDS Integers, SequencesExt

CONSTANTS
    Pools,      \* the pools, numbered as the plan lists them
    HostCap,    \* cores times MaxWorkersPerCPU
    None        \* no plan: Compute returned an error

ASSUME PoolAssumption == Pools \subseteq Nat /\ IsFiniteSet(Pools)
ASSUME HostCapAssumption == HostCap \in Nat
ASSUME NoneAssumption == None \notin [Pools -> Int]

DefaultFloor == 2

Capped(n, cap) == IF cap > 0 /\ n > cap THEN cap ELSE n

(* step after step, until one changes nothing. *)
Repeat(step, start) ==
    LET end[x \in DOMAIN step] == IF step[x] = x THEN x ELSE end[step[x]]
    IN  end[start]

(* What n workers in each of the pools S cost. *)
Bytes(ask, n, S) == SumFunctionOnSet([p \in S |-> n[p] * ask[p].cost], S)

-----------------------------------------------------------------------------
(* What a pool would take of an unlimited budget, and the least it may be  *)
(* given.                                                                  *)

PoolFloor(a) ==
    Max({1, Capped(IF a.floor > 0 THEN a.floor ELSE DefaultFloor, a.ceiling)})

(* Wrong: the headroom is taken off. *)
PoolWantTight(a) ==
    LET steady == (3 * a.peak) \div 4
        grown  == (3 * Max({a.current, a.peak})) \div 2
        demand == IF a.hit THEN Max({steady, grown}) ELSE steady
    IN  Capped(Max({demand, PoolFloor(a)}), a.ceiling)

PoolWant(a) ==
    LET steady == (5 * a.peak) \div 4
        grown  == (3 * Max({a.current, a.peak})) \div 2
        seen   == (15 * a.peak) \div 8
        demand == IF a.hit THEN Max({steady, Min({grown, seen})}) ELSE steady
    IN  Capped(Max({demand, PoolFloor(a)}), a.ceiling)

(* A pool nothing can be written for is proposed nothing: the host's cores
   and its own measured ceiling do not bound what it already has. *)
Floor(a) == IF a.unknown THEN PoolFloor(a) ELSE Capped(PoolFloor(a), HostCap)

Want(a) ==
    LET memory == Capped(PoolWant(a), HostCap)
        fill   == IF a.cpu > 0 /\ ~a.unknown THEN Max({a.cpu, PoolFloor(a)}) ELSE 0
    IN  Capped(memory, fill)

-----------------------------------------------------------------------------
(* allocateFloors.                                                         *)

Floors(ask) == [p \in Pools |-> Floor(ask[p])]
OneEach == [p \in Pools |-> 1]

Writable(ask) == {p \in Pools : ~ask[p].unknown}
Reducible(ask) == {p \in Writable(ask) : ask[p].reducible}

(* What cannot be cut, plus one worker for everything in cut that can. *)
FitsCutting(cut, ask, room) ==
    Bytes(ask, Floors(ask), Pools \ cut) + Bytes(ask, OneEach, cut) <= room

(* Rounding each pool up to one worker can put the total over again. *)
TrimToFit(start, cut, ask, room) ==
    LET most(n) == CHOOSE p \in cut : \A q \in cut :
                        n[p] > n[q] \/ (n[p] = n[q] /\ p <= q)
        trim == [n \in [Pools -> Int] \cup {None} |->
                    IF n = None \/ Bytes(ask, n, Pools) <= room THEN n
                    ELSE IF n[most(n)] <= 1 THEN None
                    ELSE [n EXCEPT ![most(n)] = @ - 1]]
    IN  Repeat(trim, start)

(* Wrong: a share that rounds to nothing stays nothing. *)
ShrunkToNothing(cut, ask, room) ==
    LET floors == Floors(ask)
        spare  == room - Bytes(ask, floors, Pools \ cut)
    IN  TrimToFit([p \in Pools |-> IF p \in cut
                                   THEN (floors[p] * spare) \div Bytes(ask, floors, cut)
                                   ELSE floors[p]],
                  cut, ask, room)

(* The pools in cut give way in proportion to their floors. *)
Shrunk(cut, ask, room) ==
    LET floors == Floors(ask)
        spare  == room - Bytes(ask, floors, Pools \ cut)
    IN  TrimToFit([p \in Pools |->
                      IF p \in cut
                      THEN Max({1, (floors[p] * spare) \div Bytes(ask, floors, cut)})
                      ELSE floors[p]],
                  cut, ask, room)

(* Wrong: everything that can be written gives way at once. *)
AllocateFloorsEvenly(ask, room) ==
    CASE Bytes(ask, Floors(ask), Pools) <= room -> Floors(ask)
      [] Bytes(ask, Floors(ask), Pools) > room /\ FitsCutting(Writable(ask), ask, room)
            -> Shrunk(Writable(ask), ask, room)
      [] OTHER -> None

(* Those watched long enough give way first, and alone if that will do. *)
AllocateFloors(ask, room) ==
    CASE Bytes(ask, Floors(ask), Pools) <= room -> Floors(ask)
      [] Bytes(ask, OneEach, Pools) > room -> None
      [] OTHER ->
            IF Reducible(ask) # {} /\ FitsCutting(Reducible(ask), ask, room)
            THEN Shrunk(Reducible(ask), ask, room)
            ELSE IF FitsCutting(Writable(ask), ask, room)
            THEN Shrunk(Writable(ask), ask, room)
            ELSE None

-----------------------------------------------------------------------------
(* allocateDemand.                                                         *)

Urgent(a) == a.hit \/ a.queue

(* The ones that hurt first, cheapest to put right before dearest; then the
   largest gaps; the plan's own order where these do not tell. *)
Before(gap, ask, p, q) ==
    LET key(r) == IF Urgent(ask[r]) THEN gap[r] * ask[r].cost ELSE -gap[r]
    IN  \/ Urgent(ask[p]) /\ ~Urgent(ask[q])
        \/ /\ Urgent(ask[p]) <=> Urgent(ask[q])
           /\ key(p) < key(q) \/ (key(p) = key(q) /\ p < q)

(* One pass: every share is of what was left when the pass began. *)
Pass(n, ask, room) ==
    LET pot   == room - Bytes(ask, n, Pools)
        gap   == [p \in Pools |-> Want(ask[p]) - n[p]]
        short == {p \in Pools : gap[p] > 0 /\ ask[p].cost <= pot}
        all   == SumFunctionOnSet(gap, short)
        share(p) == IF Urgent(ask[p]) THEN gap[p]
                    ELSE Max({1, (pot * gap[p]) \div (all * ask[p].cost)})
        first(S) == CHOOSE p \in S : \A q \in S \ {p} : Before(gap, ask, p, q)
        left(m, p) == (room - Bytes(ask, m, Pools)) \div ask[p].cost
        give(m, p) == [m EXCEPT ![p] = @ + Min({gap[p], share(p), left(m, p)})]
        serve == [x \in (SUBSET short) \X [Pools -> Int] |->
                    IF x[1] = {} THEN x
                    ELSE LET p == first(x[1]) IN <<x[1] \ {p}, give(x[2], p)>>]
    IN  Repeat(serve, <<short, n>>)[2]

(* Wrong: one pass and no more. *)
AllocateDemandOnce(start, ask, room) == Pass(start, ask, room)

AllocateDemand(start, ask, room) ==
    Repeat([n \in [Pools -> Int] |-> Pass(n, ask, room)], start)

-----------------------------------------------------------------------------

Compute(ask, room) ==
    LET floors == AllocateFloors(ask, room)
        grant  == AllocateDemand(floors, ask, room)
        want   == [p \in Pools |-> Want(ask[p])]
    IN  IF room <= 0 \/ floors = None THEN None
        ELSE [grant |-> grant, want |-> want, room |-> room,
              exhausted |-> \E p \in Pools : grant[p] < want[p]]
=============================================================================
