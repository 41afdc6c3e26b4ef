---------------------------- MODULE SizingProofs ----------------------------
(***************************************************************************)
(* A plan never commits more memory than there is, and neither does what   *)
(* Apply carries out of it: for every number of pools, every cost, demand  *)
(* and budget, and every history of scrapes, plans, reloads and operators. *)
(*                                                                         *)
(* The proof goes the way the code does.  Bytes, what workers cost         *)
(* together, is a sum (SumTheorems).  A loop is a function repeated until  *)
(* it changes nothing: what every round of it keeps holds at the end, and  *)
(* there is an end if something counts down (RepeatEnds).  So trimming     *)
(* ends in something that fits, the floors fit, a pass keeps the total     *)
(* within the budget, and the passes end when nobody who is short could be *)
(* given one worker more.  ComputeIsFair puts these together; the          *)
(* inductive invariant says that the plan a round holds is such a one, of  *)
(* a question whose floors are what the scrape said; and what is changed   *)
(* of a plan that fits, fits.                                              *)
(***************************************************************************)
EXTENDS Sizing, SumTheorems, TLAPS

-----------------------------------------------------------------------------
(* Repetition: what every step keeps holds at the end, and there is an end *)
(* if something that counts down goes with it.                             *)

Closed(step, X) == \A x \in X : step[x] \in X

(* Where the steps from x come to rest, if they do. *)
Rests(step, x) ==
    {m \in DOMAIN step :
        /\ step[m] = m
        /\ \A X \in SUBSET DOMAIN step : x \in X /\ Closed(step, X) => m \in X}

(* Repeating is one step and repeating, until a step changes nothing. *)
LEMMA RepeatIsRecursive ==
    ASSUME NEW D, NEW step \in [D -> D], NEW x \in D
    PROVE  Repeat(step, x) = IF step[x] = x THEN x ELSE Repeat(step, step[x])
<1> DEFINE End(e) == e = [y \in D |-> IF step[y] = y THEN y ELSE e[step[y]]]
           h == [y \in D |-> CHOOSE m : m \in Rests(step, y)]
<1>1. ASSUME NEW y \in D, step[y] = y
      PROVE  h[y] = y
    <2>1. y \in Rests(step, y) BY <1>1 DEF Rests
    <2>2. ASSUME NEW m \in Rests(step, y) PROVE m = y
        <3>1. {y} \in SUBSET DOMAIN step /\ Closed(step, {y}) BY <1>1 DEF Closed
        <3> QED BY <2>2, <3>1 DEF Rests
    <2> QED BY <2>1, <2>2
<1>2. ASSUME NEW y \in D, step[y] # y
      PROVE  h[y] = h[step[y]]
    <2>1. ASSUME NEW m \in Rests(step, y) PROVE m \in Rests(step, step[y])
        <3> SUFFICES ASSUME NEW X \in SUBSET D, step[y] \in X, Closed(step, X)
                     PROVE  m \in X
            BY DEF Rests
        <3>1. X \cup {y} \in SUBSET DOMAIN step /\ Closed(step, X \cup {y})
            BY DEF Closed
        <3>2. m \in X \cup {y} /\ step[m] = m BY <3>1 DEF Rests
        <3> QED BY <1>2, <3>2
    <2>2. ASSUME NEW m \in Rests(step, step[y]) PROVE m \in Rests(step, y)
        BY DEF Rests, Closed
    <2>3. Rests(step, y) = Rests(step, step[y]) BY <2>1, <2>2
    <2> QED BY <2>3
<1>3. End(h) BY <1>1, <1>2
<1>4. End(CHOOSE e : End(e)) BY <1>3
<1>5. \A y : Repeat(step, y) = (CHOOSE e : End(e))[y]
    BY DEF Repeat
<1> HIDE DEF End
<1>6. (CHOOSE e : End(e))[x]
        = IF step[x] = x THEN x ELSE (CHOOSE e : End(e))[step[x]]
    BY <1>4 DEF End
<1> QED BY <1>5, <1>6

(* If every step that changes something keeps inside I and counts down,
   repeating comes to an end, inside I. *)
LEMMA RepeatEnds ==
    ASSUME NEW D, NEW step \in [D -> D],
           NEW I \in SUBSET D, Closed(step, I),
           NEW count \in [I -> Nat],
           \A x \in I : step[x] # x => count[step[x]] < count[x],
           NEW start \in I
    PROVE  /\ Repeat(step, start) \in I
           /\ step[Repeat(step, start)] = Repeat(step, start)
<1> DEFINE Good(x) == /\ Repeat(step, x) \in I
                      /\ step[Repeat(step, x)] = Repeat(step, x)
           Bad == {k \in Nat : \E x \in I : count[x] = k /\ ~Good(x)}
<1> SUFFICES ASSUME ~Good(start) PROVE FALSE
    OBVIOUS
<1>1. count[start] \in Bad OBVIOUS
<1>2. PICK k \in Bad : \A j \in Bad : k <= j
    <2>1. Bad \in SUBSET Nat /\ Bad # {} BY <1>1
    <2> HIDE DEF Bad
    <2> QED BY <2>1, LeastNatural
<1>3. PICK x \in I : count[x] = k /\ ~Good(x) OBVIOUS
<1>4. Repeat(step, x) = IF step[x] = x THEN x ELSE Repeat(step, step[x])
    BY RepeatIsRecursive
<1>5. step[x] # x BY <1>3, <1>4
<1>6. step[x] \in I /\ count[step[x]] \in Nat /\ count[step[x]] < k
    BY <1>3, <1>5 DEF Closed
<1>7. ~Good(step[x]) BY <1>3, <1>4, <1>5
<1>8. count[step[x]] \in Bad BY <1>6, <1>7
<1> QED BY <1>2, <1>6, <1>8

-----------------------------------------------------------------------------
(* What workers cost together.                                             *)

Costed(ask) == \A p \in Pools : ask[p].cost \in Nat \ {0}

(* There are finitely many pools. *)
LEMMA PoolsFinite ==
    ASSUME NEW S \in SUBSET Pools
    PROVE  IsFiniteSet(S)
  BY PoolAssumption, FS_Subset

(* What some workers of a pool cost. *)
LEMMA TimesCost ==
    ASSUME NEW ask, Costed(ask), NEW p \in Pools, NEW k \in Int
    PROVE  k * ask[p].cost \in Int
  BY DEF Costed

(* What workers cost together is an integer, *)
LEMMA BytesType ==
    ASSUME NEW ask, Costed(ask), NEW S \in SUBSET Pools, NEW n, \A p \in S : n[p] \in Int
    PROVE  Bytes(ask, n, S) \in Int
<1>1. \A p \in S : n[p] * ask[p].cost \in Int BY TimesCost
<1> QED BY <1>1, PoolsFinite, SumType DEF Bytes

(* and no less than nothing; *)
LEMMA BytesNat ==
    ASSUME NEW ask, Costed(ask), NEW S \in SUBSET Pools, NEW n, \A p \in S : n[p] \in Nat
    PROVE  Bytes(ask, n, S) \in Nat
<1> DEFINE f == [p \in S |-> n[p] * ask[p].cost]
<1>1. ASSUME NEW p \in S PROVE f[p] \in Nat
    <2>1. n[p] \in Nat /\ ask[p].cost \in Nat BY DEF Costed
    <2> QED BY <2>1
<1>2. Bytes(ask, n, S) = SumFunctionOnSet(f, S) BY DEF Bytes
<1> HIDE DEF f
<1> QED BY <1>1, <1>2, PoolsFinite, SumNat

(* depends on the sizes of these pools only; *)
LEMMA BytesSame ==
    ASSUME NEW ask, NEW S \in SUBSET Pools, NEW n, NEW m, \A p \in S : n[p] = m[p]
    PROVE  Bytes(ask, n, S) = Bytes(ask, m, S)
<1>1. [p \in S |-> n[p] * ask[p].cost] = [p \in S |-> m[p] * ask[p].cost]
    OBVIOUS
<1> QED BY <1>1 DEF Bytes

(* does not fall when no size does; *)
LEMMA BytesMonotone ==
    ASSUME NEW ask, Costed(ask), NEW S \in SUBSET Pools, NEW n, NEW m,
           \A p \in S : n[p] \in Int /\ m[p] \in Int /\ n[p] <= m[p]
    PROVE  Bytes(ask, n, S) <= Bytes(ask, m, S)
<1> DEFINE f == [p \in S |-> n[p] * ask[p].cost]
           g == [p \in S |-> m[p] * ask[p].cost]
<1>1. ASSUME NEW p \in S
      PROVE  f[p] \in Int /\ g[p] \in Int /\ f[p] <= g[p]
    <2>1. /\ n[p] \in Int /\ m[p] \in Int /\ n[p] <= m[p]
          /\ ask[p].cost \in Nat
        BY DEF Costed
    <2> QED BY <2>1
<1> HIDE DEF f, g
<1>2. SumFunctionOnSet(f, S) <= SumFunctionOnSet(g, S)
    BY <1>1, PoolsFinite, SumMonotone
<1> QED BY <1>2 DEF Bytes, f, g

(* is that of these pools and of those; *)
LEMMA BytesSplit ==
    ASSUME NEW ask, Costed(ask), NEW S \in SUBSET Pools, NEW A \in SUBSET S,
           NEW n, \A p \in S : n[p] \in Int
    PROVE  Bytes(ask, n, S) = Bytes(ask, n, A) + Bytes(ask, n, S \ A)
<1> DEFINE f(T) == [p \in T |-> n[p] * ask[p].cost]
<1>1. \A p \in S : f(S)[p] \in Int BY TimesCost
<1>2. \A T \in SUBSET S : SumFunctionOnSet(f(S), T) = SumFunctionOnSet(f(T), T)
    BY PoolsFinite, SumSame
<1>3. SumFunctionOnSet(f(S), S)
        = SumFunctionOnSet(f(S), A) + SumFunctionOnSet(f(S), S \ A)
    <2> HIDE DEF f
    <2> QED BY <1>1, PoolsFinite, SumSplit
<1>4. A \in SUBSET S /\ S \ A \in SUBSET S OBVIOUS
<1>5. \A T : Bytes(ask, n, T) = SumFunctionOnSet(f(T), T) BY DEF Bytes
<1> HIDE DEF f
<1> QED BY <1>2, <1>3, <1>4, <1>5

(* for a single pool is its own cost; *)
LEMMA BytesOfOne ==
    ASSUME NEW ask, Costed(ask), NEW p \in Pools, NEW n, n[p] \in Int
    PROVE  Bytes(ask, n, {p}) = n[p] * ask[p].cost
<1> DEFINE f == [q \in {p} |-> n[q] * ask[q].cost]
<1>1. f[p] = n[p] * ask[p].cost /\ f[p] \in Int BY TimesCost
<1>2. SumFunctionOnSet(f, {p}) = f[p] + SumFunctionOnSet(f, {p} \ {p})
    <2>1. \A x \in {p} : f[x] \in Int BY <1>1
    <2> HIDE DEF f
    <2> QED BY <2>1, FS_Singleton, SumRemove
<1>3. SumFunctionOnSet(f, {p} \ {p}) = 0 
    <2>1. {p} \ {p} = {} OBVIOUS
    <2> QED BY <2>1, SumEmpty
<1>4. Bytes(ask, n, {p}) = SumFunctionOnSet(f, {p}) BY DEF Bytes
<1> HIDE DEF f
<1> QED BY <1>1, <1>2, <1>3, <1>4

(* is that of one pool and of the rest; *)
LEMMA BytesWithOne ==
    ASSUME NEW ask, Costed(ask), NEW n \in [Pools -> Int], NEW p \in Pools
    PROVE  /\ Bytes(ask, n, Pools) = n[p] * ask[p].cost + Bytes(ask, n, Pools \ {p})
           /\ Bytes(ask, n, Pools \ {p}) \in Int
<1>1. {p} \in SUBSET Pools /\ Pools \ {p} \in SUBSET Pools /\ n[p] \in Int
    OBVIOUS
<1>2. Bytes(ask, n, Pools) = Bytes(ask, n, {p}) + Bytes(ask, n, Pools \ {p})
    BY <1>1, BytesSplit
<1> QED BY <1>1, <1>2, BytesOfOne, BytesType

(* changes by the workers one pool is given; *)
LEMMA BytesChanged ==
    ASSUME NEW ask, Costed(ask), NEW n \in [Pools -> Int],
           NEW p \in Pools, NEW k \in Int
    PROVE  Bytes(ask, [n EXCEPT ![p] = @ + k], Pools)
             = Bytes(ask, n, Pools) + k * ask[p].cost
<1> DEFINE m == [n EXCEPT ![p] = @ + k]
<1>1. m \in [Pools -> Int] /\ m[p] = n[p] + k /\ \A q \in Pools \ {p} : m[q] = n[q]
    OBVIOUS
<1> HIDE DEF m
<1>2. Bytes(ask, m, Pools \ {p}) = Bytes(ask, n, Pools \ {p})
    BY <1>1, BytesSame
<1>3. /\ Bytes(ask, n, Pools) = n[p] * ask[p].cost + Bytes(ask, n, Pools \ {p})
      /\ Bytes(ask, m, Pools) = m[p] * ask[p].cost + Bytes(ask, m, Pools \ {p})
      /\ Bytes(ask, n, Pools \ {p}) \in Int
    BY <1>1, BytesWithOne
<1>4. (n[p] + k) * ask[p].cost = n[p] * ask[p].cost + k * ask[p].cost
    <2>1. n[p] \in Int /\ ask[p].cost \in Int BY DEF Costed
    <2> QED BY <2>1
<1>5. n[p] * ask[p].cost \in Int /\ k * ask[p].cost \in Int BY TimesCost
<1>6. Bytes(ask, m, Pools) = Bytes(ask, n, Pools) + k * ask[p].cost
    BY <1>1, <1>2, <1>3, <1>4, <1>5
<1> QED BY <1>6 DEF m

(* More for one and no less for the others costs more. *)
LEMMA BytesGrow ==
    ASSUME NEW ask, Costed(ask), NEW n \in [Pools -> Int], NEW m \in [Pools -> Int],
           \A q \in Pools : n[q] <= m[q], NEW p \in Pools, n[p] < m[p]
    PROVE  Bytes(ask, n, Pools) < Bytes(ask, m, Pools)
<1>1. /\ Bytes(ask, n, Pools) = n[p] * ask[p].cost + Bytes(ask, n, Pools \ {p})
      /\ Bytes(ask, m, Pools) = m[p] * ask[p].cost + Bytes(ask, m, Pools \ {p})
      /\ Bytes(ask, n, Pools \ {p}) \in Int /\ Bytes(ask, m, Pools \ {p}) \in Int
    BY BytesWithOne
<1>2. Bytes(ask, n, Pools \ {p}) <= Bytes(ask, m, Pools \ {p})
    BY BytesMonotone
<1>3. n[p] * ask[p].cost < m[p] * ask[p].cost
    <2>1. n[p] \in Int /\ m[p] \in Int /\ ask[p].cost \in Nat \ {0} BY DEF Costed
    <2> QED BY <2>1
<1>4. n[p] * ask[p].cost \in Int /\ m[p] * ask[p].cost \in Int BY TimesCost
<1> QED BY <1>1, <1>2, <1>3, <1>4

-----------------------------------------------------------------------------
(* The question, and the bounds it sets.                                   *)

Asked(ask) ==
    \A p \in Pools :
        /\ ask[p].cost \in Nat \ {0}
        /\ ask[p].current \in Nat /\ ask[p].peak \in Nat /\ ask[p].cpu \in Nat
        /\ ask[p].floor \in Nat /\ ask[p].ceiling \in Nat
        /\ {ask[p].queue, ask[p].hit, ask[p].reducible, ask[p].unknown} \subseteq BOOLEAN

(* A question that is asked says what a worker costs. *)
LEMMA AskedIsCosted ==
    ASSUME NEW ask, Asked(ask)
    PROVE  Costed(ask)
  BY DEF Asked, Costed

(* What a cap does. *)
LEMMA CappedBounds ==
    ASSUME NEW n \in Nat, NEW cap \in Nat
    PROVE  /\ Capped(n, cap) \in Nat /\ Capped(n, cap) <= n
           /\ cap > 0 => Capped(n, cap) <= cap
           /\ n > 0 => Capped(n, cap) > 0
           /\ cap = 0 \/ n <= cap => Capped(n, cap) = n
  BY DEF Capped

(* Nobody's floor is less than one worker, nor less than was asked for,
   unless a ceiling is in the way. *)
LEMMA FloorBounds ==
    ASSUME NEW ask, Asked(ask), NEW p \in Pools
    PROVE  /\ PoolFloor(ask[p]) \in Nat \ {0} /\ Floor(ask[p]) \in Nat \ {0}
           /\ ask[p].floor <= ask[p].ceiling \/ ask[p].ceiling = 0
                => PoolFloor(ask[p]) >= ask[p].floor
<1> DEFINE a == ask[p]
           least == IF a.floor > 0 THEN a.floor ELSE DefaultFloor
<1>1. a.floor \in Nat /\ a.ceiling \in Nat BY DEF Asked
<1>2. least \in Nat \ {0} /\ least >= a.floor BY <1>1 DEF DefaultFloor
<1> HIDE DEF a
<1>3. Capped(least, a.ceiling) \in Nat BY <1>1, <1>2, CappedBounds
<1>4. PoolFloor(a) = Max({1, Capped(least, a.ceiling)}) BY DEF PoolFloor
<1>5. PoolFloor(a) \in Nat \ {0} /\ PoolFloor(a) >= Capped(least, a.ceiling)
    BY <1>3, <1>4, TwoBounds
<1>6. Floor(a) \in Nat \ {0}
    BY <1>5, CappedBounds, HostCapAssumption DEF Floor
<1>7. a.floor <= a.ceiling \/ a.ceiling = 0 => Capped(least, a.ceiling) >= a.floor
    BY <1>1, <1>2 DEF Capped
<1> QED BY <1>1, <1>3, <1>5, <1>6, <1>7 DEF a

(* Everybody wants at least one worker. *)
LEMMA WantType ==
    ASSUME NEW ask, Asked(ask), NEW p \in Pools
    PROVE  Want(ask[p]) \in Nat \ {0}
<1> DEFINE a == ask[p]
           steady == (5 * a.peak) \div 4
           grown  == (3 * Max({a.current, a.peak})) \div 2
           seen   == (15 * a.peak) \div 8
           likely == IF a.hit THEN Max({steady, Min({grown, seen})}) ELSE steady
           most == Max({likely, PoolFloor(a)})
           memory == Capped(PoolWant(a), HostCap)
           fill == IF a.cpu > 0 /\ ~a.unknown THEN Max({a.cpu, PoolFloor(a)}) ELSE 0
<1>1. /\ a.peak \in Nat /\ a.current \in Nat /\ a.ceiling \in Nat /\ a.cpu \in Nat
      /\ PoolFloor(a) \in Nat \ {0}
    BY FloorBounds DEF Asked
<1> HIDE DEF a
<1>2. likely \in Int
    <2>1. Max({a.current, a.peak}) \in Int
        <3>1. a.current \in Int /\ a.peak \in Int BY <1>1
        <3>2. Max({a.current, a.peak}) \in {a.current, a.peak} BY <3>1, TwoBounds
        <3> QED BY <3>1, <3>2
    <2>2. steady \in Int /\ grown \in Int /\ seen \in Int BY <1>1, <2>1
    <2> HIDE DEF steady, grown, seen
    <2>3. Min({grown, seen}) \in Int BY <2>2, TwoBounds
    <2>4. Max({steady, Min({grown, seen})}) \in Int BY <2>2, <2>3, TwoBounds
    <2> QED BY <2>2, <2>4
<1>3. PoolWant(a) = Capped(most, a.ceiling) BY DEF PoolWant
<1> HIDE DEF likely
<1>4. most \in Nat \ {0}
    <2>1. PoolFloor(a) \in Int BY <1>1
    <2>2. most \in {likely, PoolFloor(a)} /\ most >= PoolFloor(a)
        BY <1>2, <2>1, TwoBounds
    <2> QED BY <1>1, <1>2, <2>2
<1> HIDE DEF most
<1>5. memory \in Nat \ {0}
    <2>1. PoolWant(a) \in Nat \ {0} BY <1>1, <1>3, <1>4, CappedBounds
    <2> QED BY <2>1, CappedBounds, HostCapAssumption
<1>6. fill \in Nat
    <2>1. a.cpu \in Int /\ PoolFloor(a) \in Int BY <1>1
    <2>2. Max({a.cpu, PoolFloor(a)}) \in {a.cpu, PoolFloor(a)} BY <2>1, TwoBounds
    <2> QED BY <1>1, <2>2
<1>7. Want(a) = Capped(memory, fill) BY DEF Want
<1> HIDE DEF memory, fill
<1>8. Want(a) \in Nat \ {0} BY <1>5, <1>6, <1>7, CappedBounds
<1> QED BY <1>8 DEF a

-----------------------------------------------------------------------------
(* allocateFloors.                                                         *)

(* The pools that give way, at one worker each. *)
AtLeast(n, cut) == [p \in Pools |-> IF p \in cut THEN 1 ELSE n[p]]

(* There is a largest pool to take from. *)
LEMMA MostExists ==
    ASSUME NEW cut \in SUBSET Pools, cut # {}, NEW n \in [Pools -> Int]
    PROVE  \E p \in cut : \A q \in cut : n[p] > n[q] \/ (n[p] = n[q] /\ p <= q)
<1> DEFINE R == {x \in cut \X cut : \/ n[x[1]] > n[x[2]]
                                    \/ n[x[1]] = n[x[2]] /\ x[1] < x[2]}
<1>0. \A p, q \in cut :
        <<p, q>> \in R <=> (n[p] > n[q] \/ (n[p] = n[q] /\ p < q))
    OBVIOUS
<1>1. \A p \in cut : n[p] \in Int /\ p \in Nat BY PoolAssumption
<1> HIDE DEF R
<1>2. \A p \in cut : <<p, p>> \notin R BY <1>0, <1>1
<1>3. \A p, q, r \in cut : <<p, q>> \in R /\ <<q, r>> \in R => <<p, r>> \in R
    BY <1>0, <1>1
<1>4. ASSUME NEW p \in cut, NEW q \in cut
      PROVE  p = q \/ <<p, q>> \in R \/ <<q, p>> \in R
    <2>1. n[p] \in Int /\ n[q] \in Int /\ p \in Nat /\ q \in Nat BY <1>1
    <2>2. p = q \/ (n[p] > n[q] \/ (n[p] = n[q] /\ p < q))
                \/ (n[q] > n[p] \/ (n[q] = n[p] /\ q < p))
        BY <2>1
    <2> QED BY <1>0, <2>2
<1>5. PICK p \in cut : \A q \in cut \ {p} : <<p, q>> \in R
    BY <1>2, <1>3, <1>4, PoolsFinite, FirstExists
<1>6. ASSUME NEW q \in cut
      PROVE  n[p] > n[q] \/ (n[p] = n[q] /\ p <= q)
    <2>1. CASE q = p BY <1>1, <2>1
    <2>2. CASE q # p
        <3>1. <<p, q>> \in R BY <1>5, <2>2
        <3>2. n[p] > n[q] \/ (n[p] = n[q] /\ p < q) BY <1>0, <3>1
        <3>3. p \in Nat /\ q \in Nat BY <1>1
        <3> QED BY <3>2, <3>3
    <2> QED BY <2>1, <2>2
<1> QED BY <1>6

(* Taking one at a time from the largest ends in something that fits, if one
   worker for each of them would. *)
LEMMA TrimFits ==
    ASSUME NEW ask, Costed(ask), NEW limit \in Int, NEW cut \in SUBSET Pools,
           NEW start \in [Pools -> Int], \A p \in cut : start[p] >= 1,
           Bytes(ask, AtLeast(start, cut), Pools) <= limit
    PROVE  LET n == TrimToFit(start, cut, ask, limit) IN
           /\ n \in [Pools -> Int]
           /\ \A p \in cut : n[p] >= 1
           /\ \A p \in Pools \ cut : n[p] = start[p]
           /\ Bytes(ask, n, Pools) <= limit
<1> DEFINE D == [Pools -> Int] \cup {None}
           most(n) == CHOOSE p \in cut : \A q \in cut :
                        n[p] > n[q] \/ (n[p] = n[q] /\ p <= q)
           trim == [n \in D |->
                    IF n = None \/ Bytes(ask, n, Pools) <= limit THEN n
                    ELSE IF n[most(n)] <= 1 THEN None
                    ELSE [n EXCEPT ![most(n)] = @ - 1]]
           I == {n \in [Pools -> Int] : /\ \A p \in cut : n[p] >= 1
                                        /\ \A p \in Pools \ cut : n[p] = start[p]}
           count == [n \in I |-> IF Bytes(ask, n, Pools) <= limit THEN 0
                                 ELSE Bytes(ask, n, Pools) - limit]
<1>1. trim \in [D -> D]
    <2> SUFFICES ASSUME NEW n \in D PROVE trim[n] \in D
        OBVIOUS
    <2>1. CASE n = None \/ Bytes(ask, n, Pools) <= limit BY <2>1
    <2>2. CASE ~(n = None \/ Bytes(ask, n, Pools) <= limit)
        <3>1. n \in [Pools -> Int] BY <2>2
        <3> DEFINE t == most(n)
        <3> HIDE DEF most
        <3>2. [n EXCEPT ![t] = @ - 1] \in [Pools -> Int]
            <4> HIDE DEF t
            <4>1. CASE t \in Pools BY <3>1, <4>1
            <4>2. CASE t \notin Pools
                <5>1. [n EXCEPT ![t] = @ - 1] = n BY <3>1, <4>2
                <5> QED BY <3>1, <5>1
            <4> QED BY <4>1, <4>2
        <3> QED BY <2>2, <3>2
    <2> QED BY <2>1, <2>2
<1>2. ASSUME NEW n \in I
      PROVE  /\ n \in [Pools -> Int] /\ n # None
             /\ Bytes(ask, n, Pools) \in Int
             /\ IF Bytes(ask, n, Pools) <= limit THEN trim[n] = n
                ELSE /\ trim[n] \in I
                     /\ Bytes(ask, trim[n], Pools) \in Int
                     /\ Bytes(ask, trim[n], Pools) < Bytes(ask, n, Pools)
    <2>1. n \in [Pools -> Int] /\ n # None /\ n \in D BY NoneAssumption
    <2>2. Bytes(ask, n, Pools) \in Int BY <2>1, BytesType
    <2>3. CASE Bytes(ask, n, Pools) <= limit BY <2>1, <2>2, <2>3
    <2>4. CASE ~(Bytes(ask, n, Pools) <= limit)
        <3> DEFINE t == most(n)
        <3>1. ~ \A p \in Pools : n[p] = AtLeast(start, cut)[p]
            BY <2>4, BytesSame
        <3>2. PICK p \in cut : n[p] > 1
            <4>1. PICK p \in Pools : n[p] # AtLeast(start, cut)[p] BY <3>1
            <4>2. p \in cut /\ n[p] # 1 /\ n[p] >= 1 /\ n[p] \in Int
                BY <2>1, <4>1 DEF AtLeast
            <4> QED BY <4>2
        <3>3. t \in cut /\ \A q \in cut : n[t] > n[q] \/ (n[t] = n[q] /\ t <= q)
            BY <2>1, <3>2, MostExists
        <3> HIDE DEF most
        <3>4. n[t] \in Int /\ n[t] > 1
            BY <2>1, <3>2, <3>3
        <3>5. trim[n] = [n EXCEPT ![t] = @ - 1]
            <4>1. ~(n = None \/ Bytes(ask, n, Pools) <= limit) BY <2>1, <2>4
            <4>2. ~(n[t] <= 1) BY <3>4
            <4> QED BY <2>1, <4>1, <4>2
        <3> HIDE DEF t, trim
        <3>6. trim[n] \in I /\ trim[n] \in [Pools -> Int]
            BY <2>1, <3>3, <3>4, <3>5
        <3>7. Bytes(ask, trim[n], Pools) < Bytes(ask, n, Pools)
            <4>1. \A q \in Pools : trim[n][q] <= n[q] BY <2>1, <3>3, <3>4, <3>5
            <4>2. t \in Pools /\ trim[n][t] < n[t] BY <2>1, <3>3, <3>4, <3>5
            <4> QED BY <2>1, <3>6, <4>1, <4>2, BytesGrow
        <3> QED BY <2>1, <2>2, <2>4, <3>6, <3>7, BytesType
    <2> QED BY <2>3, <2>4
<1>3. count \in [I -> Nat]
    <2> SUFFICES ASSUME NEW n \in I PROVE count[n] \in Nat
        OBVIOUS
    <2>1. Bytes(ask, n, Pools) \in Int BY <1>2
    <2> HIDE DEF I
    <2> QED BY <2>1
<1>4. ASSUME NEW n \in I
      PROVE  trim[n] \in I /\ (trim[n] # n => count[trim[n]] < count[n])
    <2> HIDE DEF trim, I
    <2> QED BY <1>2
<1>5. start \in I OBVIOUS
<1>6. TrimToFit(start, cut, ask, limit) = Repeat(trim, start)
    BY DEF TrimToFit
<1> HIDE DEF trim, I, count, D
<1>7. I \in SUBSET D BY DEF I, D
<1>8. Repeat(trim, start) \in I /\ trim[Repeat(trim, start)] = Repeat(trim, start)
    BY <1>1, <1>3, <1>4, <1>5, <1>7, RepeatEnds DEF Closed
<1>9. Bytes(ask, Repeat(trim, start), Pools) <= limit
    BY <1>2, <1>8
<1> QED BY <1>6, <1>8, <1>9 DEF I

(* Floors are sizes. *)
LEMMA FloorsType ==
    ASSUME NEW ask, Asked(ask)
    PROVE  Floors(ask) \in [Pools -> Nat \ {0}] /\ Floors(ask) \in [Pools -> Int]
  BY FloorBounds DEF Floors

(* Cutting keeps what is not cut, leaves one worker to the others, and fits:
   the error trimToFit can return is never returned. *)
LEMMA ShrunkFits ==
    ASSUME NEW ask, Asked(ask), NEW limit \in Int, NEW cut \in SUBSET Pools,
           FitsCutting(cut, ask, limit)
    PROVE  LET n == Shrunk(cut, ask, limit) IN
           /\ n \in [Pools -> Int]
           /\ \A p \in cut : n[p] >= 1
           /\ \A p \in Pools \ cut : n[p] = Floor(ask[p])
           /\ Bytes(ask, n, Pools) <= limit
<1> DEFINE floors == Floors(ask)
           spare == limit - Bytes(ask, floors, Pools \ cut)
           all == Bytes(ask, floors, cut)
           start == [p \in Pools |->
                        IF p \in cut THEN Max({1, (floors[p] * spare) \div all})
                        ELSE floors[p]]
<1>1. Costed(ask) BY AskedIsCosted
<1>2. \A p \in Pools : floors[p] \in Nat \ {0} /\ floors[p] = Floor(ask[p])
    BY FloorsType DEF Floors
<1>3. spare \in Int /\ all \in Int
    BY <1>1, <1>2, BytesType
<1>4. ASSUME NEW p \in cut
      PROVE  start[p] \in Int /\ start[p] >= 1
    <2>1. all > 0
        <3>1. all = Bytes(ask, floors, {p}) + Bytes(ask, floors, cut \ {p})
            BY <1>1, <1>2, BytesSplit
        <3>2. Bytes(ask, floors, {p}) = floors[p] * ask[p].cost
            <4>1. p \in Pools /\ floors[p] \in Int BY <1>2
            <4> HIDE DEF floors
            <4> QED BY <1>1, <4>1, BytesOfOne
        <3>3. floors[p] * ask[p].cost > 0
            <4>1. floors[p] \in Nat \ {0} /\ ask[p].cost \in Nat \ {0}
                BY <1>1, <1>2 DEF Costed
            <4> QED BY <4>1
        <3>4. floors[p] * ask[p].cost \in Int BY <1>1, <1>2, TimesCost
        <3>5. Bytes(ask, floors, cut \ {p}) \in Nat BY <1>1, <1>2, BytesNat
        <3> HIDE DEF all
        <3> QED BY <1>3, <3>1, <3>2, <3>3, <3>4, <3>5
    <2>2. (floors[p] * spare) \div all \in Int
        <3> HIDE DEF all, spare, floors
        <3>1. floors[p] * spare \in Int /\ all \in Nat \ {0} BY <1>2, <1>3, <2>1
        <3> QED BY <3>1, Divided
    <2> DEFINE share == (floors[p] * spare) \div all
    <2>3. start[p] = Max({1, share}) /\ share \in Int BY <2>2
    <2> HIDE DEF start, share
    <2>4. Max({1, share}) \in {1, share} /\ Max({1, share}) >= 1
        BY <2>3, TwoBounds
    <2> QED BY <2>3, <2>4
<1>5. \A p \in Pools \ cut : start[p] = floors[p] OBVIOUS
<1>6. start \in [Pools -> Int]
    <2> SUFFICES ASSUME NEW p \in Pools PROVE start[p] \in Int
        OBVIOUS
    <2> HIDE DEF start
    <2> QED BY <1>2, <1>4, <1>5
<1>7. Shrunk(cut, ask, limit) = TrimToFit(start, cut, ask, limit)
    BY DEF Shrunk
<1> HIDE DEF start
<1>8. Bytes(ask, AtLeast(start, cut), Pools) <= limit
    <2> DEFINE least == AtLeast(start, cut)
    <2>1. least \in [Pools -> Int]
          /\ (\A p \in cut : least[p] = OneEach[p])
          /\ (\A p \in Pools \ cut : least[p] = floors[p])
        BY <1>5, <1>6 DEF AtLeast, OneEach
    <2> HIDE DEF least
    <2>2. Bytes(ask, least, Pools) = Bytes(ask, least, cut) + Bytes(ask, least, Pools \ cut)
        BY <1>1, <2>1, BytesSplit
    <2>3. Bytes(ask, least, cut) = Bytes(ask, OneEach, cut)
        BY <2>1, BytesSame
    <2>4. Bytes(ask, least, Pools \ cut) = Bytes(ask, floors, Pools \ cut)
        BY <2>1, BytesSame
    <2>5. Bytes(ask, OneEach, cut) \in Int /\ Bytes(ask, floors, Pools \ cut) \in Int
        BY <1>1, <1>2, BytesType DEF OneEach
    <2>6. Bytes(ask, least, Pools) <= limit
        BY <2>2, <2>3, <2>4, <2>5 DEF FitsCutting
    <2> QED BY <2>6 DEF least
<1> DEFINE n == TrimToFit(start, cut, ask, limit)
<1>9. \A p \in cut : start[p] >= 1 BY <1>4
<1>10. /\ n \in [Pools -> Int]
       /\ \A p \in cut : n[p] >= 1
       /\ \A p \in Pools \ cut : n[p] = start[p]
       /\ Bytes(ask, n, Pools) <= limit
    BY <1>1, <1>6, <1>8, <1>9, TrimFits
<1>11. \A p \in Pools \ cut : start[p] = Floor(ask[p]) BY <1>2, <1>5
<1> HIDE DEF floors, n
<1> QED BY <1>7, <1>10, <1>11 DEF n

(* What the floors come to. *)
FloorsAreFair(g, ask, limit) ==
    /\ g \in [Pools -> Int]
    /\ Bytes(ask, g, Pools) <= limit
    /\ \A p \in Pools : g[p] >= 1
    /\ \A p \in Pools \ Writable(ask) : g[p] = Floor(ask[p])
    /\ \A p \in Pools \ Reducible(ask) : g[p] < Floor(ask[p]) =>
            Bytes(ask, Floors(ask), Pools \ Reducible(ask))
              + Bytes(ask, OneEach, Reducible(ask)) > limit

(* allocateFloors does that, if it does not give up. *)
LEMMA FloorsFit ==
    ASSUME NEW ask, Asked(ask), NEW limit \in Int, AllocateFloors(ask, limit) # None
    PROVE  FloorsAreFair(AllocateFloors(ask, limit), ask, limit)
<1> DEFINE g == AllocateFloors(ask, limit)
           may == Reducible(ask)
<1>1. Costed(ask) BY AskedIsCosted
<1>2. \A p \in Pools : Floors(ask)[p] = Floor(ask[p]) /\ Floor(ask[p]) \in Nat \ {0}
    BY FloorBounds DEF Floors
<1>3. may \in SUBSET Pools /\ may \subseteq Writable(ask) /\ Writable(ask) \in SUBSET Pools
    BY DEF Reducible, Writable
<1>4. CASE Bytes(ask, Floors(ask), Pools) <= limit
    <2>1. g = Floors(ask) BY <1>4 DEF AllocateFloors
    <2> HIDE DEF g
    <2>2. g \in [Pools -> Int] BY <2>1, FloorsType
    <2>3. \A p \in Pools : g[p] = Floor(ask[p]) /\ g[p] \in Nat \ {0}
        BY <1>2, <2>1
    <2>4. FloorsAreFair(g, ask, limit)
        BY <1>3, <1>4, <2>1, <2>2, <2>3 DEF FloorsAreFair
    <2> QED BY <2>4 DEF g
<1>5. CASE /\ ~(Bytes(ask, Floors(ask), Pools) <= limit)
           /\ may # {} /\ FitsCutting(may, ask, limit)
    <2>1. g = Shrunk(may, ask, limit) BY <1>5 DEF AllocateFloors
    <2>2. /\ g \in [Pools -> Int]
          /\ \A p \in may : g[p] >= 1
          /\ \A p \in Pools \ may : g[p] = Floor(ask[p])
          /\ Bytes(ask, g, Pools) <= limit
        BY <1>3, <1>5, <2>1, ShrunkFits
    <2> HIDE DEF g
    <2>3. FloorsAreFair(g, ask, limit)
        BY <1>2, <1>3, <2>2 DEF FloorsAreFair
    <2> QED BY <2>3 DEF g
<1>6. CASE /\ ~(Bytes(ask, Floors(ask), Pools) <= limit)
           /\ ~(may # {} /\ FitsCutting(may, ask, limit))
    <2>1. g = Shrunk(Writable(ask), ask, limit) /\ FitsCutting(Writable(ask), ask, limit)
        BY <1>6 DEF AllocateFloors
    <2>2. /\ g \in [Pools -> Int]
          /\ \A p \in Writable(ask) : g[p] >= 1
          /\ \A p \in Pools \ Writable(ask) : g[p] = Floor(ask[p])
          /\ Bytes(ask, g, Pools) <= limit
        BY <1>3, <2>1, ShrunkFits
    <2> HIDE DEF g
    <2>3. Bytes(ask, Floors(ask), Pools \ may) + Bytes(ask, OneEach, may) > limit
        <3>1. /\ Bytes(ask, Floors(ask), Pools \ may) \in Int
              /\ Bytes(ask, OneEach, may) \in Int
            <4>1. \A p \in Pools : Floors(ask)[p] \in Int /\ OneEach[p] \in Int
                BY <1>2 DEF OneEach
            <4> QED BY <1>1, <1>3, <4>1, BytesType
        <3>2. CASE may # {}
            BY <1>6, <3>1, <3>2 DEF FitsCutting
        <3>3. CASE may = {}
            <4>1. Bytes(ask, OneEach, {}) = 0 BY SumEmpty DEF Bytes
            <4>2. Pools \ may = Pools BY <3>3
            <4>3. Bytes(ask, Floors(ask), Pools) \in Int BY <3>1, <4>2
            <4> QED BY <1>6, <3>1, <3>3, <4>1, <4>2, <4>3
        <3> QED BY <3>2, <3>3
    <2>4. FloorsAreFair(g, ask, limit)
        BY <1>2, <1>3, <2>2, <2>3 DEF FloorsAreFair
    <2> QED BY <2>4 DEF g
<1> QED BY <1>4, <1>5, <1>6

-----------------------------------------------------------------------------
(* allocateDemand.                                                         *)

(* There is a pool to serve first. *)
LEMMA NextExists ==
    ASSUME NEW ask, Asked(ask), NEW gap, \A p \in Pools : gap[p] \in Int,
           NEW S \in SUBSET Pools, S # {}
    PROVE  \E p \in S : \A q \in S \ {p} : Before(gap, ask, p, q)
<1> DEFINE R == {x \in S \X S : Before(gap, ask, x[1], x[2])}
           key(p) == IF Urgent(ask[p]) THEN gap[p] * ask[p].cost ELSE -gap[p]
           ahead(p, q) == \/ Urgent(ask[p]) /\ ~Urgent(ask[q])
                          \/ /\ Urgent(ask[p]) <=> Urgent(ask[q])
                             /\ key(p) < key(q) \/ (key(p) = key(q) /\ p < q)
<1>1. \A p, q \in S : <<p, q>> \in R <=> ahead(p, q)
    BY DEF Before
<1>2. \A p \in S : key(p) \in Int /\ p \in Nat
    <2> SUFFICES ASSUME NEW p \in S PROVE key(p) \in Int /\ p \in Nat
        OBVIOUS
    <2>1. p \in Nat /\ p \in Pools /\ gap[p] \in Int BY PoolAssumption
    <2>2. gap[p] * ask[p].cost \in Int BY <2>1, AskedIsCosted, TimesCost
    <2> QED BY <2>1, <2>2
<1> HIDE DEF key, R
<1>3. \A p \in S : <<p, p>> \notin R BY <1>1, <1>2
<1>4. \A p, q, r \in S : <<p, q>> \in R /\ <<q, r>> \in R => <<p, r>> \in R
    <2> SUFFICES ASSUME NEW p \in S, NEW q \in S, NEW r \in S,
                        ahead(p, q), ahead(q, r)
                 PROVE  ahead(p, r)
        BY <1>1
    <2>1. /\ key(p) \in Int /\ key(q) \in Int /\ key(r) \in Int
          /\ p \in Nat /\ q \in Nat /\ r \in Nat
        BY <1>2
    <2> QED BY <2>1
<1>5. \A p, q \in S : p = q \/ <<p, q>> \in R \/ <<q, p>> \in R
    <2> SUFFICES ASSUME NEW p \in S, NEW q \in S, p # q
                 PROVE  ahead(p, q) \/ ahead(q, p)
        BY <1>1
    <2>1. key(p) \in Int /\ key(q) \in Int /\ p \in Nat /\ q \in Nat
        BY <1>2
    <2> QED BY <2>1
<1>6. IsFiniteSet(S) BY PoolsFinite
<1>7. PICK p \in S : \A q \in S \ {p} : <<p, q>> \in R
    <2> HIDE <1>1, <1>2
    <2> QED BY <1>3, <1>4, <1>5, <1>6, FirstExists
<1>8. ASSUME NEW q \in S \ {p} PROVE Before(gap, ask, p, q)
    BY <1>7 DEF R
<1> QED BY <1>8

(* Nobody loses by a pass, the budget holds, and a pass that gives nothing
   leaves nobody wanting who could have been given one worker more. *)
LEMMA PassGives ==
    ASSUME NEW ask, Asked(ask), NEW limit \in Int, NEW n \in [Pools -> Int]
    PROVE  LET m == Pass(n, ask, limit) IN
           /\ m \in [Pools -> Int]
           /\ \A p \in Pools : m[p] >= n[p]
           /\ Bytes(ask, n, Pools) <= limit => Bytes(ask, m, Pools) <= limit
           /\ m # n => Bytes(ask, n, Pools) <= limit
           /\ m = n => \A p \in Pools : n[p] < Want(ask[p])
                            => Bytes(ask, n, Pools) + ask[p].cost > limit
<1> DEFINE pot == limit - Bytes(ask, n, Pools)
           gap == [p \in Pools |-> Want(ask[p]) - n[p]]
           short == {p \in Pools : gap[p] > 0 /\ ask[p].cost <= pot}
           all == SumFunctionOnSet(gap, short)
           share(p) == IF Urgent(ask[p]) THEN gap[p]
                       ELSE Max({1, (pot * gap[p]) \div (all * ask[p].cost)})
           first(S) == CHOOSE p \in S : \A q \in S \ {p} : Before(gap, ask, p, q)
           left(m, p) == (limit - Bytes(ask, m, Pools)) \div ask[p].cost
           part(m, p) == Min({gap[p], share(p), left(m, p)})
           give(m, p) == [m EXCEPT ![p] = @ + part(m, p)]
           serve == [x \in (SUBSET short) \X [Pools -> Int] |->
                        IF x[1] = {} THEN x
                        ELSE LET p == first(x[1]) IN <<x[1] \ {p}, give(x[2], p)>>]
           D == (SUBSET short) \X [Pools -> Int]
<1>1. Costed(ask) /\ pot \in Int /\ Bytes(ask, n, Pools) \in Int
    BY AskedIsCosted, BytesType
<1>2. \A p \in Pools : gap[p] \in Int /\ gap[p] = Want(ask[p]) - n[p]
    <2> SUFFICES ASSUME NEW p \in Pools
                 PROVE  gap[p] \in Int /\ gap[p] = Want(ask[p]) - n[p]
        OBVIOUS
    <2>1. Want(ask[p]) \in Int BY WantType
    <2> QED BY <2>1
<1>3. /\ short \in SUBSET Pools
      /\ \A p \in Pools : p \in short <=> gap[p] > 0 /\ ask[p].cost <= pot
    OBVIOUS
<1>4. Pass(n, ask, limit) = Repeat(serve, <<short, n>>)[2]
    BY DEF Pass
<1>5. ASSUME NEW p \in short
      PROVE  share(p) \in Int /\ share(p) >= 1
    <2>1. gap[p] \in Int /\ gap[p] > 0 /\ p \in Pools /\ ask[p].cost \in Nat \ {0}
        BY <1>1, <1>2, <1>3 DEF Costed
    <2>2. all \in Nat \ {0}
        <3> HIDE DEF gap, short
        <3>1. IsFiniteSet(short) /\ \A q \in short : gap[q] \in Int
            BY <1>2, <1>3, PoolsFinite
        <3>2. all = gap[p] + SumFunctionOnSet(gap, short \ {p})
            BY <3>1, SumRemove
        <3>3. SumFunctionOnSet(gap, short \ {p}) \in Nat
            <4> DEFINE rest == short \ {p}
            <4>1. IsFiniteSet(rest) /\ \A q \in rest : gap[q] \in Nat
                BY <1>2, <1>3, <3>1, FS_Subset
            <4> HIDE DEF rest
            <4>2. SumFunctionOnSet(gap, rest) \in Nat BY <4>1, SumNat
            <4> QED BY <4>2 DEF rest
        <3> HIDE DEF all
        <3> QED BY <2>1, <3>2, <3>3
    <2> DEFINE portion == (pot * gap[p]) \div (all * ask[p].cost)
    <2>3. portion \in Int
        <3> HIDE DEF pot, gap, all
        <3>1. pot * gap[p] \in Int BY <1>1, <2>1
        <3>2. all * ask[p].cost \in Nat \ {0} BY <2>1, <2>2
        <3> QED BY <3>1, <3>2, Divided
    <2> DEFINE most == Max({1, portion})
    <2>4. share(p) = IF Urgent(ask[p]) THEN gap[p] ELSE most
        OBVIOUS
    <2>6. most \in Int /\ most >= 1
        <3> HIDE DEF portion
        <3> QED BY <2>3, AtLeastOne
    <2> HIDE DEF share, portion, gap, most
    <2> HIDE DEF all, short, pot
    <2> QED BY <2>1, <2>4, <2>6
<1>6. ASSUME NEW p \in short, NEW m \in [Pools -> Int]
      PROVE  /\ part(m, p) \in Int
             /\ Bytes(ask, m, Pools) <= limit => part(m, p) >= 0
             /\ m = n => part(m, p) >= 1
             /\ part(m, p) * ask[p].cost <= limit - Bytes(ask, m, Pools)
             /\ part(m, p) <= gap[p]
    <2> DEFINE l == left(m, p)
               s == share(p)
               c == ask[p].cost
               rest == limit - Bytes(ask, m, Pools)
    <2>1. /\ gap[p] \in Int /\ gap[p] >= 1 /\ c \in Nat \ {0} /\ c <= pot
        BY <1>1, <1>2, <1>3 DEF Costed
    <2>2. rest \in Int BY <1>1, BytesType
    <2>3. s \in Int /\ s >= 1 BY <1>5
    <2>4. l = rest \div c OBVIOUS
    <2>5. m = n => rest = pot OBVIOUS
    <2>6. part(m, p) = Min({gap[p], s, l}) OBVIOUS
    <2> HIDE DEF part, l, s, c, rest, gap, pot, left, share
    <2>7. l \in Int /\ l * c <= rest /\ (rest >= 0 => l >= 0) /\ (rest >= c => l >= 1)
        BY <2>1, <2>2, <2>4, Divided
    <2> DEFINE t == part(m, p)
               g == gap[p]
    <2>8. t \in {gap[p], s, l} /\ t <= gap[p] /\ t <= s /\ t <= l
        <3>1. g \in Int /\ s \in Int /\ l \in Int /\ t = Min({g, s, l})
            BY <2>1, <2>3, <2>6, <2>7
        <3> HIDE DEF g, t
        <3>2. /\ Min({g, s, l}) \in {g, s, l} /\ Min({g, s, l}) <= g
              /\ Min({g, s, l}) <= s /\ Min({g, s, l}) <= l
            BY <3>1, ThreeBounds
        <3> QED BY <3>1, <3>2 DEF g
    <2> HIDE DEF t, g
    <2>9. t \in Int BY <2>1, <2>3, <2>7, <2>8
    <2>10. t * c <= rest
        <3>1. t * c <= l * c BY <2>1, <2>7, <2>8, <2>9
        <3> QED BY <2>1, <2>2, <2>7, <2>9, <3>1
    <2>11. rest >= 0 => t >= 0 BY <2>1, <2>3, <2>7, <2>8
    <2>12. rest >= c => t >= 1 BY <2>1, <2>3, <2>7, <2>8
    <2>13. Bytes(ask, m, Pools) <= limit => rest >= 0
        BY <1>1, BytesType DEF rest
    <2> QED BY <2>1, <2>5, <2>8, <2>9, <2>10, <2>11, <2>12, <2>13 DEF t, c, rest
<1>7. ASSUME NEW x \in D, x[1] # {}
      PROVE  /\ first(x[1]) \in x[1] /\ first(x[1]) \in short
             /\ serve[x] = <<x[1] \ {first(x[1])}, give(x[2], first(x[1]))>>
    <2>1. x[1] \in SUBSET short OBVIOUS
    <2>2. \E p \in x[1] : \A q \in x[1] \ {p} : Before(gap, ask, p, q)
        <3> HIDE DEF gap, short
        <3>1. x[1] \in SUBSET Pools BY <1>3, <2>1
        <3> QED BY <1>2, <1>7, <3>1, NextExists
    <2>3. first(x[1]) \in x[1] BY <2>2
    <2> QED BY <1>7, <2>1, <2>3
<1>8. ASSUME NEW x \in D PROVE serve[x] \in D
    <2>1. x[1] \in SUBSET short /\ x[2] \in [Pools -> Int] /\ x = <<x[1], x[2]>>
        OBVIOUS
    <2>2. CASE x[1] = {} BY <2>2
    <2>3. CASE x[1] # {}
        <3> DEFINE p == first(x[1])
                   k == part(x[2], p)
        <3>1. p \in x[1] /\ p \in short /\ serve[x] = <<x[1] \ {p}, give(x[2], p)>>
            BY <1>7, <2>3
        <3>2. k \in Int
            <4> HIDE DEF p, short, part
            <4> QED BY <1>6, <2>1, <3>1
        <3>3. give(x[2], p) = [x[2] EXCEPT ![p] = @ + k] OBVIOUS
        <3> HIDE DEF p, k, part, give, serve
        <3>4. give(x[2], p) \in [Pools -> Int]
            BY <1>3, <2>1, <3>1, <3>2, <3>3
        <3>5. x[1] \ {p} \in SUBSET short BY <2>1
        <3> HIDE DEF short
        <3> QED BY <3>1, <3>4, <3>5
    <2> QED BY <2>2, <2>3
<1>9. serve \in [D -> D] /\ DOMAIN serve = D BY <1>8
<1> DEFINE m == Pass(n, ask, limit)
<1>10. CASE short = {}
    <2>1. <<short, n>> \in D /\ serve[<<short, n>>] = <<short, n>> BY <1>10
    <2> HIDE DEF D, serve, short
    <2>2. Repeat(serve, <<short, n>>) = <<short, n>>
        BY <1>9, <2>1, RepeatIsRecursive
    <2>3. m = n BY <1>4, <2>2
    <2>4. ASSUME NEW p \in Pools, n[p] < Want(ask[p])
          PROVE  Bytes(ask, n, Pools) + ask[p].cost > limit
        <3>1. p \notin short BY <1>10
        <3>2. Want(ask[p]) \in Int /\ n[p] \in Int BY WantType
        <3>3. ask[p].cost \in Int BY <1>1 DEF Costed
        <3>4. gap[p] > 0 BY <1>2, <2>4, <3>2
        <3>5. ~(ask[p].cost <= pot) BY <1>3, <3>1, <3>4
        <3> QED BY <1>1, <3>3, <3>5
    <2> HIDE DEF m
    <2>5. \A p \in Pools : n[p] <= n[p] OBVIOUS
    <2> QED BY <2>3, <2>4, <2>5 DEF m
<1>11. CASE short # {}
    <2> DEFINE I == {x \in D : /\ Bytes(ask, x[2], Pools) <= limit
                               /\ \A p \in Pools : x[2][p] >= n[p]
                               /\ \/ x = <<short, n>>
                                  \/ \E p \in Pools : x[2][p] > n[p]}
               count == [x \in I |-> Cardinality(x[1])]
    <2>1. Bytes(ask, n, Pools) <= limit
        <3>1. PICK p \in short : TRUE BY <1>11
        <3>2. ask[p].cost <= pot /\ ask[p].cost \in Nat BY <1>1, <1>3, <3>1 DEF Costed
        <3> QED BY <1>1, <3>2
    <2>2. <<short, n>> \in I
        <3>1. <<short, n>> \in D BY <1>3
        <3>2. \A p \in Pools : n[p] >= n[p] OBVIOUS
        <3> HIDE DEF short, D
        <3> QED BY <2>1, <3>1, <3>2
    <2>3. ASSUME NEW x \in I
          PROVE  serve[x] \in I /\ (serve[x] # x => count[serve[x]] < count[x])
        <3>1. /\ x \in D /\ x[1] \in SUBSET short /\ x[2] \in [Pools -> Int]
              /\ Bytes(ask, x[2], Pools) <= limit
              /\ \A p \in Pools : x[2][p] >= n[p]
            OBVIOUS
        <3>2. CASE x[1] = {} BY <3>1, <3>2
        <3>3. CASE x[1] # {}
            <4> DEFINE p == first(x[1])
                       k == part(x[2], p)
                       y == serve[x]
            <4>1. p \in x[1] /\ p \in short /\ y = <<x[1] \ {p}, give(x[2], p)>>
                BY <1>7, <3>1, <3>3
            <4>2. /\ k \in Int /\ k >= 0 /\ (x[2] = n => k >= 1)
                  /\ k * ask[p].cost <= limit - Bytes(ask, x[2], Pools)
                <5> HIDE DEF p, short, part
                <5> QED BY <1>6, <3>1, <4>1
            <4>3. give(x[2], p) = [x[2] EXCEPT ![p] = @ + k] OBVIOUS
            <4>4. y \in D BY <1>8, <3>1
            <4>5. x = <<short, n>> \/ \E q \in Pools : x[2][q] > n[q] OBVIOUS
            <4> HIDE DEF p, k, part, give, serve, y
            <4>6. p \in Pools BY <1>3, <4>1
            <4>7. Bytes(ask, y[2], Pools) <= limit
                <5>1. Bytes(ask, y[2], Pools) = Bytes(ask, x[2], Pools) + k * ask[p].cost
                    BY <1>1, <3>1, <4>1, <4>2, <4>3, <4>6, BytesChanged
                <5>2. Bytes(ask, x[2], Pools) \in Int /\ k * ask[p].cost \in Int
                    BY <1>1, <3>1, <4>2, <4>6, BytesType, TimesCost
                <5> QED BY <4>2, <5>1, <5>2
            <4>8. \A q \in Pools : y[2][q] >= x[2][q] /\ y[2][q] \in Int /\ x[2][q] \in Int
                BY <3>1, <4>1, <4>2, <4>3, <4>6
            <4>9. \A q \in Pools : y[2][q] >= n[q]
                BY <3>1, <4>8
            <4>10. \E q \in Pools : y[2][q] > n[q]
                <5>1. CASE x[2] = n
                    <6>1. y[2][p] = x[2][p] + k BY <3>1, <4>1, <4>3, <4>6
                    <6>2. y[2][p] > n[p] BY <4>2, <4>6, <5>1, <6>1
                    <6> QED BY <4>6, <6>2
                <5>2. CASE x[2] # n
                    <6>1. PICK q \in Pools : x[2][q] > n[q] BY <4>5, <5>2
                    <6>2. y[2][q] > n[q] BY <4>8, <6>1
                    <6> QED BY <6>2
                <5> QED BY <5>1, <5>2
            <4>11. y \in I BY <4>4, <4>7, <4>9, <4>10
            <4>12. Cardinality(y[1]) < Cardinality(x[1])
                <5>1. IsFiniteSet(x[1])
                    <6>1. x[1] \in SUBSET Pools BY <1>3, <3>1
                    <6> QED BY <6>1, PoolsFinite
                <5>2. Cardinality(x[1] \ {p}) = Cardinality(x[1]) - 1
                    <6> DEFINE S == x[1]
                    <6>1. IsFiniteSet(S) /\ p \in S BY <4>1, <5>1
                    <6> HIDE DEF S
                    <6>2. Cardinality(S \ {p}) = Cardinality(S) - 1
                        BY <6>1, FS_RemoveElement
                    <6> QED BY <6>2 DEF S
                <5>3. Cardinality(x[1]) \in Nat BY <5>1, FS_CardinalityType
                <5>4. y[1] = x[1] \ {p} BY <4>1
                <5> QED BY <5>2, <5>3, <5>4
            <4>13. count[y] < count[x] BY <4>11, <4>12
            <4> HIDE DEF count, I
            <4> QED BY <4>11, <4>13 DEF y
        <3> HIDE DEF serve, I, count
        <3> QED BY <3>2, <3>3
    <2>4. count \in [I -> Nat]
        <3> SUFFICES ASSUME NEW x \in I PROVE Cardinality(x[1]) \in Nat
            OBVIOUS
        <3>1. x[1] \in SUBSET short OBVIOUS
        <3> HIDE DEF short, I
        <3>2. x[1] \in SUBSET Pools BY <1>3, <3>1
        <3> QED BY <3>2, PoolsFinite, FS_CardinalityType
    <2>5. I \in SUBSET D OBVIOUS
    <2> DEFINE e == Repeat(serve, <<short, n>>)
    <2> HIDE DEF I, D, count, serve
    <2>6. e \in I /\ serve[e] = e
        BY <1>9, <2>2, <2>3, <2>4, <2>5, RepeatEnds DEF Closed
    <2>7. /\ e \in D /\ e[2] \in [Pools -> Int]
          /\ Bytes(ask, e[2], Pools) <= limit
          /\ \A p \in Pools : e[2][p] >= n[p]
          /\ e = <<short, n>> \/ \E p \in Pools : e[2][p] > n[p]
        <3> HIDE DEF e
        <3> QED BY <2>6 DEF I, D
    <2>8. e[1] = {}
        <3> HIDE DEF e
        <3> SUFFICES ASSUME e[1] # {} PROVE FALSE
            OBVIOUS
        <3> DEFINE p == first(e[1])
                   w == give(e[2], p)
        <3>1. p \in e[1] /\ serve[e] = <<e[1] \ {p}, w>> BY <1>7, <2>7
        <3> HIDE DEF p, w
        <3>2. e[1] = e[1] \ {p} BY <2>6, <3>1
        <3> QED BY <3>1, <3>2
    <2>9. PICK p \in Pools : e[2][p] > n[p]
        <3> HIDE DEF e, short
        <3> QED BY <1>11, <2>7, <2>8
    <2>10. m = e[2] BY <1>4
    <2> HIDE DEF m, e
    <2>11. m # n BY <2>9, <2>10
    <2> QED BY <2>1, <2>7, <2>10, <2>11 DEF m
<1> QED BY <1>10, <1>11

(* The passes come to an end, within the budget, and what is then still
   wanted nobody could have been given. *)
LEMMA DemandGiven ==
    ASSUME NEW ask, Asked(ask), NEW limit \in Int, NEW start \in [Pools -> Int],
           Bytes(ask, start, Pools) <= limit
    PROVE  LET n == AllocateDemand(start, ask, limit) IN
           /\ n \in [Pools -> Int]
           /\ \A p \in Pools : n[p] >= start[p]
           /\ Bytes(ask, n, Pools) <= limit
           /\ \A p \in Pools : n[p] < Want(ask[p])
                => Bytes(ask, n, Pools) + ask[p].cost > limit
<1> DEFINE D == [Pools -> Int]
           step == [n \in D |-> Pass(n, ask, limit)]
           I == {n \in D : /\ Bytes(ask, n, Pools) <= limit
                           /\ \A p \in Pools : n[p] >= start[p]}
           count == [n \in I |-> limit - Bytes(ask, n, Pools)]
           e == Repeat(step, start)
<1>1. Costed(ask) BY AskedIsCosted
<1>2. ASSUME NEW n \in D
      PROVE  /\ step[n] = Pass(n, ask, limit) /\ step[n] \in D
             /\ \A p \in Pools : step[n][p] >= n[p]
             /\ Bytes(ask, n, Pools) <= limit => Bytes(ask, step[n], Pools) <= limit
             /\ step[n] = n => \A p \in Pools : n[p] < Want(ask[p])
                                => Bytes(ask, n, Pools) + ask[p].cost > limit
    <2>1. step[n] = Pass(n, ask, limit) OBVIOUS
    <2> HIDE DEF step
    <2> QED BY <2>1, PassGives
<1>3. step \in [D -> D]
    <2>1. \A n \in D : Pass(n, ask, limit) \in D BY <1>2
    <2> QED BY <2>1
<1>4. \A n \in D : Bytes(ask, n, Pools) \in Int BY <1>1, BytesType
<1>5. AllocateDemand(start, ask, limit) = e BY DEF AllocateDemand
<1> HIDE DEF step
<1>6. count \in [I -> Nat]
    <2> SUFFICES ASSUME NEW n \in I PROVE limit - Bytes(ask, n, Pools) \in Nat
        OBVIOUS
    <2>1. Bytes(ask, n, Pools) \in Int /\ Bytes(ask, n, Pools) <= limit BY <1>4
    <2> QED BY <2>1
<1>7. start \in I
    <2>1. \A p \in Pools : start[p] >= start[p] OBVIOUS
    <2> QED BY <2>1
<1>8. ASSUME NEW n \in I
      PROVE  step[n] \in I /\ (step[n] # n => count[step[n]] < count[n])
    <2>1. n \in D /\ Bytes(ask, n, Pools) <= limit /\ \A p \in Pools : n[p] >= start[p]
        OBVIOUS
    <2>2. /\ step[n] \in D /\ Bytes(ask, step[n], Pools) <= limit
          /\ \A p \in Pools : step[n][p] >= n[p]
        BY <1>2, <2>1
    <2>3. \A p \in Pools : step[n][p] \in Int /\ n[p] \in Int /\ start[p] \in Int
        BY <2>1, <2>2
    <2>4. \A p \in Pools : step[n][p] >= start[p] BY <2>1, <2>2, <2>3
    <2>5. step[n] \in I BY <2>2, <2>4
    <2>6. ASSUME step[n] # n PROVE Bytes(ask, n, Pools) < Bytes(ask, step[n], Pools)
        <3>1. PICK p \in Pools : step[n][p] # n[p] BY <2>1, <2>2, <2>6
        <3>2. n[p] < step[n][p] BY <2>2, <2>3, <3>1
        <3>3. \A q \in Pools : n[q] <= step[n][q] BY <2>2, <2>3
        <3> DEFINE m == step[n]
        <3>4. m \in D /\ n[p] < m[p] /\ \A q \in Pools : n[q] <= m[q]
            BY <2>2, <3>2, <3>3
        <3> HIDE DEF m
        <3>5. Bytes(ask, n, Pools) < Bytes(ask, m, Pools)
            BY <1>1, <2>1, <3>4, BytesGrow
        <3> QED BY <3>5 DEF m
    <2>7. /\ count[n] = limit - Bytes(ask, n, Pools)
          /\ count[step[n]] = limit - Bytes(ask, step[n], Pools)
        BY <2>5
    <2>8. Bytes(ask, n, Pools) \in Int /\ Bytes(ask, step[n], Pools) \in Int
        BY <1>4, <2>1, <2>2
    <2> HIDE DEF I, count
    <2> QED BY <2>5, <2>6, <2>7, <2>8
<1>9. I \in SUBSET D OBVIOUS
<1> HIDE DEF I, D, count
<1>10. e \in I /\ step[e] = e
    BY <1>3, <1>6, <1>7, <1>8, <1>9, RepeatEnds DEF Closed
<1> HIDE DEF e
<1>11. /\ e \in D /\ Bytes(ask, e, Pools) <= limit
       /\ \A p \in Pools : e[p] >= start[p]
    BY <1>10 DEF I
<1> QED BY <1>2, <1>5, <1>10, <1>11 DEF D

-----------------------------------------------------------------------------
(* Compute.                                                                *)

(* What a plan comes to, of a question that was asked. *)
PlanIsFair(c, ask) ==
    /\ c.grant \in [Pools -> Nat \ {0}]
    /\ c.want \in [Pools -> Nat \ {0}]
    /\ \A p \in Pools : c.want[p] = Want(ask[p])
    /\ Bytes(ask, c.grant, Pools) <= c.room
    /\ \A p \in Pools \ Writable(ask) : c.grant[p] >= Floor(ask[p])
    /\ \A p \in Pools \ Reducible(ask) : c.grant[p] < Floor(ask[p]) =>
            Bytes(ask, Floors(ask), Pools \ Reducible(ask))
              + Bytes(ask, OneEach, Reducible(ask)) > c.room
    /\ \A p \in Pools : c.grant[p] < c.want[p]
            => Bytes(ask, c.grant, Pools) + ask[p].cost > c.room

(* Compute does all that, if it makes a plan at all: the check it ends with
   finds nothing. *)
LEMMA ComputeIsFair ==
    ASSUME NEW ask, Asked(ask), NEW limit \in Int, Compute(ask, limit) # None
    PROVE  LET c == Compute(ask, limit) IN
           /\ c \in [grant : [Pools -> Nat \ {0}], want : [Pools -> Nat \ {0}],
                     room : {limit}, exhausted : BOOLEAN]
           /\ PlanIsFair(c, ask)
<1> DEFINE floors == AllocateFloors(ask, limit)
           grant == AllocateDemand(floors, ask, limit)
           want == [p \in Pools |-> Want(ask[p])]
           full == \E p \in Pools : grant[p] < want[p]
           c == [grant |-> grant, want |-> want, room |-> limit, exhausted |-> full]
<1>1. floors # None /\ Compute(ask, limit) = c
    BY DEF Compute
<1>2. FloorsAreFair(floors, ask, limit)
    BY <1>1, FloorsFit
<1>3. want \in [Pools -> Nat \ {0}] /\ \A p \in Pools : want[p] = Want(ask[p])
    BY WantType
<1> HIDE DEF floors
<1>4. /\ floors \in [Pools -> Int]
      /\ Bytes(ask, floors, Pools) <= limit
      /\ \A p \in Pools : floors[p] >= 1
    BY <1>2 DEF FloorsAreFair
<1>5. /\ grant \in [Pools -> Int]
      /\ \A p \in Pools : grant[p] >= floors[p]
      /\ Bytes(ask, grant, Pools) <= limit
      /\ \A p \in Pools : grant[p] < Want(ask[p])
             => Bytes(ask, grant, Pools) + ask[p].cost > limit
    BY <1>4, DemandGiven
<1>6. full \in BOOLEAN OBVIOUS
<1> HIDE DEF grant, want, full
<1>7. ASSUME NEW p \in Pools
      PROVE  /\ grant[p] \in Nat \ {0} /\ floors[p] \in Int /\ grant[p] >= floors[p]
             /\ Floor(ask[p]) \in Int
    BY <1>4, <1>5, FloorBounds
<1>8. grant \in [Pools -> Nat \ {0}] BY <1>5, <1>7
<1>9. c \in [grant : [Pools -> Nat \ {0}], want : [Pools -> Nat \ {0}],
             room : {limit}, exhausted : BOOLEAN]
    BY <1>3, <1>6, <1>8
<1>10. /\ c.grant = grant /\ c.want = want /\ c.room = limit
    OBVIOUS
<1> HIDE DEF c
<1>11. \A p \in Pools \ Writable(ask) : grant[p] >= Floor(ask[p])
    BY <1>2, <1>7 DEF FloorsAreFair
<1>12. ASSUME NEW p \in Pools \ Reducible(ask), grant[p] < Floor(ask[p])
       PROVE  Bytes(ask, Floors(ask), Pools \ Reducible(ask))
                + Bytes(ask, OneEach, Reducible(ask)) > limit
    <2>1. floors[p] < Floor(ask[p]) BY <1>7, <1>12
    <2> QED BY <1>2, <2>1 DEF FloorsAreFair
<1>13. PlanIsFair(c, ask)
    BY <1>3, <1>5, <1>8, <1>10, <1>11, <1>12 DEF PlanIsFair
<1> QED BY <1>1, <1>9, <1>13

-----------------------------------------------------------------------------
(* The invariant.                                                          *)

(* What the question says of a pool, and what that says of its floor: one
   that cannot be written keeps the most anybody remembers, one that is not
   trusted keeps what it has. *)
AskSays(ask) ==
    \A p \in Pools :
        /\ ask[p].unknown =>
            /\ ask[p].floor = ask[p].ceiling /\ ~ask[p].reducible
            /\ ask[p].floor >= peak[p] /\ ask[p].floor >= ask[p].current
        /\ ~ask[p].unknown =>
            /\ ask[p].current > 0 /\ ask[p].ceiling = 0
            /\ ~ask[p].reducible => ask[p].floor = ask[p].current

RoundIsSound ==
    /\ asked # None => Asked(asked) /\ AskSays(asked)
    /\ Planned => PlanIsFair(plan, asked)

(* The most requests a pool may have. *)
Most == Max(Demands \cup {0})

(* No pool is ever busier than that. *)
LEMMA MostIsMost ==
    Most \in Nat /\ \A d \in Demands \cup {0} : d \in 0 .. Most
<1> DEFINE S == Demands \cup {0}
<1>1. S \in SUBSET Nat /\ S # {} /\ IsFiniteSet(S)
    <2>1. IsFiniteSet(Demands) /\ Demands \subseteq Nat BY SizeAssumption
    <2>2. IsFiniteSet({0}) BY FS_Singleton
    <2>3. IsFiniteSet(S) BY <2>1, <2>2, FS_Union
    <2> QED BY <2>1, <2>3
<1>2. Most = Max(S) BY DEF Most
<1> HIDE DEF S
<1>3. Max(S) \in Nat /\ \A d \in S : d \in 0 .. Max(S) BY <1>1, MaxBounds
<1> QED BY <1>2, <1>3 DEF S

(* What a scrape makes of the peaks. *)
LEMMA PeaksMove ==
    ASSUME TypeOK, Learn
    PROVE  /\ cost' \in [Pools -> 1 .. MaxCost] /\ happened' \in 0 .. MaxHappened
           /\ peak' \in [Pools -> 0 .. Most] /\ trusted' \subseteq Pools
           /\ \A p \in Pools : sight[p] # "read" => peak'[p] = peak[p]
<1> USE MostIsMost, SizeAssumption
<1>1. cost' \in [Pools -> 1 .. MaxCost] /\ happened' \in 0 .. MaxHappened
    BY DEF TypeOK, Learn, SomethingHappens
<1>2. trusted' \subseteq Pools BY DEF TypeOK, Learn, Answering
<1>3. PICK old : peak' = [p \in Pools |-> IF sight[p] = "read" THEN ObservePeak(p, old)
                                          ELSE peak[p]]
    BY DEF Learn
<1>4. ASSUME NEW p \in Pools PROVE ObservePeak(p, old) \in 0 .. Most
    <2>1. peak[p] \in 0 .. Most /\ high[p] \in 0 .. Most BY DEF TypeOK, Most
    <2> QED BY <2>1 DEF ObservePeak
<1>5. peak' \in [Pools -> 0 .. Most] BY <1>3, <1>4 DEF TypeOK, Most
<1> QED BY <1>1, <1>2, <1>3, <1>5

(* The question is a proper one and says what it should. *)
LEMMA AskIsSound ==
    ASSUME TypeOK, Learn, asked' = Ask
    PROVE  Asked(asked)' /\ AskSays(asked)'
<1>1. /\ cost' \in [Pools -> 1 .. MaxCost] /\ peak' \in [Pools -> 0 .. Most]
      /\ \A p \in Pools : sight[p] # "read" => peak'[p] = peak[p]
    BY PeaksMove
<1>2. /\ ceiling \in [Pools -> Nat \ {0}] /\ starved \in BOOLEAN
      /\ high \in [Pools -> 0 .. Most] /\ peak \in [Pools -> 0 .. Most]
    BY DEF TypeOK, Most
<1>3. ASSUME NEW p \in Pools
      PROVE  /\ cost'[p] \in Nat \ {0} /\ peak'[p] \in Nat
             /\ ceiling[p] \in Nat \ {0} /\ high[p] \in Nat /\ peak[p] \in Nat
    BY <1>1, <1>2, MostIsMost, SizeAssumption
<1>4. ASSUME NEW p \in Pools, sight[p] = "read"
      PROVE  asked'[p] = Known(p)
    BY <1>4 DEF Ask
<1>5. ASSUME NEW p \in Pools, sight[p] # "read"
      PROVE  asked'[p] = Unknown(p)
    BY <1>5 DEF Ask
<1>6. ASSUME NEW p \in Pools, sight[p] # "read"
      PROVE  LET r == Unknown(p).floor IN
             /\ r \in Nat /\ Unknown(p).ceiling = r /\ Unknown(p).current \in Nat
             /\ r >= peak'[p] /\ r >= Unknown(p).current
    <2> DEFINE current == Configured(p)
               seen == Shown(p)
               known == peak[p]
               r == Max({current, known, seen})
    <2>1. current \in Nat /\ seen \in Nat /\ known \in Nat /\ peak'[p] = known
        BY <1>1, <1>3, <1>6 DEF Configured, Shown
    <2>2. /\ Unknown(p).floor = r /\ Unknown(p).ceiling = r
          /\ Unknown(p).current = current
        BY DEF Unknown
    <2> HIDE DEF current, seen, known
    <2>3. r \in {current, known, seen} /\ r >= current /\ r >= known
        BY <2>1, ThreeBounds
    <2>4. r \in Nat BY <2>1, <2>3
    <2> HIDE DEF r
    <2> QED BY <2>1, <2>2, <2>3, <2>4
<1>7. ASSUME NEW p \in Pools
      PROVE  /\ asked'[p].cost \in Nat \ {0}
             /\ asked'[p].current \in Nat /\ asked'[p].peak \in Nat
             /\ asked'[p].cpu \in Nat
             /\ asked'[p].floor \in Nat /\ asked'[p].ceiling \in Nat
             /\ asked'[p].queue \in BOOLEAN /\ asked'[p].hit \in BOOLEAN
             /\ asked'[p].reducible \in BOOLEAN /\ asked'[p].unknown \in BOOLEAN
    <2>1. CASE sight[p] = "read"
        <3> DEFINE k == Known(p)
        <3>1. /\ k.cost = cost'[p] /\ k.current = ceiling[p] /\ k.peak = peak'[p]
              /\ k.cpu = (IF HitCeiling(p) /\ starved THEN ceiling[p] ELSE 0)
              /\ k.floor = (IF p \in trusted' THEN 0 ELSE ceiling[p])
              /\ k.ceiling = 0
            BY DEF Known
        <3>2. k.queue \in BOOLEAN BY DEF Known
        <3>3. k.hit \in BOOLEAN BY DEF Known
        <3>4. k.reducible \in BOOLEAN /\ k.unknown \in BOOLEAN BY DEF Known
        <3>5. asked'[p] = k BY <1>4, <2>1
        <3> HIDE DEF k
        <3>6. /\ k.cost \in Nat \ {0} /\ k.current \in Nat /\ k.peak \in Nat
              /\ k.cpu \in Nat /\ k.floor \in Nat /\ k.ceiling \in Nat
            BY <1>3, <3>1
        <3> QED BY <3>2, <3>3, <3>4, <3>5, <3>6
    <2>2. CASE sight[p] # "read"
        <3> DEFINE u == Unknown(p)
        <3>1. u.cost = cost'[p] /\ u.peak = 0 /\ u.cpu = 0
            BY DEF Unknown
        <3>2. /\ u.queue \in BOOLEAN /\ u.hit \in BOOLEAN
              /\ u.reducible \in BOOLEAN /\ u.unknown \in BOOLEAN
            BY DEF Unknown
        <3>3. u.floor \in Nat /\ u.ceiling \in Nat /\ u.current \in Nat
            BY <1>6, <2>2
        <3>4. asked'[p] = u BY <1>5, <2>2
        <3> HIDE DEF u
        <3>5. u.cost \in Nat \ {0} /\ u.peak \in Nat /\ u.cpu \in Nat
            BY <1>3, <3>1
        <3> QED BY <3>2, <3>3, <3>4, <3>5
    <2> QED BY <2>1, <2>2
<1>8. ASSUME NEW p \in Pools
      PROVE  /\ asked'[p].unknown =>
                /\ asked'[p].floor = asked'[p].ceiling /\ ~asked'[p].reducible
                /\ asked'[p].floor >= peak'[p] /\ asked'[p].floor >= asked'[p].current
             /\ ~asked'[p].unknown =>
                /\ asked'[p].current > 0 /\ asked'[p].ceiling = 0
                /\ ~asked'[p].reducible => asked'[p].floor = asked'[p].current
    <2>1. CASE sight[p] = "read"
        <3>1. /\ Known(p).unknown = FALSE /\ Known(p).current = ceiling[p]
              /\ Known(p).ceiling = 0 /\ (Known(p).reducible <=> p \in trusted')
              /\ Known(p).floor = IF p \in trusted' THEN 0 ELSE ceiling[p]
            BY DEF Known
        <3> QED BY <1>3, <1>4, <2>1, <3>1
    <2>2. CASE sight[p] # "read"
        <3>1. Unknown(p).unknown = TRUE /\ Unknown(p).reducible = FALSE
            BY DEF Unknown
        <3> QED BY <1>5, <1>6, <2>2, <3>1
    <2> QED BY <2>1, <2>2
<1> QED BY <1>7, <1>8 DEF Asked, AskSays

(* Nobody is busier than there are requests. *)
LEMMA BusyType ==
    ASSUME NEW d \in [Pools -> 0 .. Most], NEW c \in [Pools -> Nat \ {0}]
    PROVE  Busy(d, c) \in [Pools -> 0 .. Most]
<1>1. ASSUME NEW p \in Pools PROVE Min({d[p], c[p]}) \in 0 .. Most
    <2> DEFINE a == d[p]
               b == c[p]
    <2>1. a \in 0 .. Most /\ a \in Int /\ b \in Nat \ {0} /\ b \in Int /\ Most \in Nat
        BY MostIsMost
    <2> HIDE DEF a, b
    <2>2. Min({a, b}) \in {a, b} /\ Min({a, b}) <= a BY <2>1, TwoBounds
    <2>3. Min({a, b}) \in 0 .. Most BY <2>1, <2>2
    <2> QED BY <2>3 DEF a, b
<1> QED BY <1>1 DEF Busy

(* The end of a round, whatever it changed of a plan that there is. *)
LEMMA EndRoundSound ==
    ASSUME TypeOK, NEW changed, EndRound(changed), changed = {} \/ plan # None,
           happened' \in 0 .. MaxHappened
    PROVE  TypeOK' /\ RoundIsSound'
<1>1. demand \in [Pools -> 0 .. Most]
    BY MostIsMost DEF TypeOK
<1>2. ceiling' \in [Pools -> Nat \ {0}]
    <2>1. ceiling \in [Pools -> Nat \ {0}] BY DEF TypeOK
    <2>2. plan # None => plan.grant \in [Pools -> Nat \ {0}] BY DEF TypeOK
    <2>3. ceiling' = [p \in Pools |-> IF p \in changed THEN plan.grant[p] ELSE ceiling[p]]
        BY DEF EndRound
    <2> QED BY <2>1, <2>2, <2>3
<1>3. high' \in [Pools -> 0 .. Most] /\ reached' \subseteq Pools
    <2>1. CASE changed = {} BY <2>1 DEF EndRound, TypeOK, Most
    <2>2. CASE changed # {}
        <3>1. high' = Busy(demand, ceiling') /\ reached' \subseteq Pools
            BY <2>2 DEF EndRound, Reload
        <3> QED BY <1>1, <1>2, <3>1, BusyType
    <2> QED BY <2>1, <2>2
<1>4. waited' \in [Pools -> 1 .. ShrinkMinInterval]
    BY IntervalAssumption DEF EndRound, TypeOK
<1>5. asked' = None
    BY DEF EndRound
<1>6. TypeOK'
    BY <1>2, <1>3, <1>4, <1>5 DEF TypeOK, EndRound, Most
<1> QED BY <1>5, <1>6 DEF RoundIsSound, Planned

(* A round that looks learns, asks and plans in one go. *)
LEMMA ObserveSound ==
    ASSUME TypeOK, Observe
    PROVE  TypeOK' /\ RoundIsSound'
<1>1. /\ Learn /\ asked' = Ask /\ plan' = Compute(asked', room)
      /\ reached' = (IF plan' = None THEN reached ELSE reached \ Answering)
      /\ UNCHANGED <<room, ceiling, demand, high, starved, sight, waited>>
    BY DEF Observe, Look
<1>2. Asked(asked)' /\ AskSays(asked)'
    BY <1>1, AskIsSound
<1>3. room \in Int /\ room \in Rooms
    BY SizeAssumption DEF TypeOK
<1>4. ASSUME plan' # None
      PROVE  /\ plan' \in [grant : [Pools -> Nat \ {0}], want : [Pools -> Nat \ {0}],
                           room : Rooms, exhausted : BOOLEAN]
             /\ PlanIsFair(plan, asked)'
    <2> DEFINE ask == asked'
               c == Compute(ask, room)
    <2>1. Asked(ask) BY <1>2 DEF Asked
    <2>2. c # None BY <1>1, <1>4
    <2>3. plan' = c BY <1>1
    <2> HIDE DEF ask
    <2>4. /\ c \in [grant : [Pools -> Nat \ {0}], want : [Pools -> Nat \ {0}],
                    room : {room}, exhausted : BOOLEAN]
          /\ PlanIsFair(c, ask)
        BY <1>3, <2>1, <2>2, ComputeIsFair
    <2> HIDE DEF c
    <2>5. c \in [grant : [Pools -> Nat \ {0}], want : [Pools -> Nat \ {0}],
                 room : Rooms, exhausted : BOOLEAN]
        BY <1>3, <2>4
    <2>6. PlanIsFair(c, ask) <=> PlanIsFair(plan, asked)'
        BY <2>3 DEF ask
    <2> QED BY <2>3, <2>4, <2>5, <2>6
<1>5. /\ cost' \in [Pools -> 1 .. MaxCost] /\ happened' \in 0 .. MaxHappened
      /\ peak' \in [Pools -> 0 .. Most] /\ trusted' \subseteq Pools
    BY <1>1, PeaksMove
<1>6. DOMAIN asked' = Pools BY <1>1 DEF Ask
<1>7. TypeOK'
    BY <1>1, <1>4, <1>5, <1>6 DEF TypeOK, Most
<1>8. RoundIsSound'
    BY <1>2, <1>4 DEF RoundIsSound, Planned
<1> QED BY <1>7, <1>8

(* What comes from outside touches neither the question nor the plan. *)
LEMMA OutsideSound ==
    ASSUME TypeOK, RoundIsSound, Outside
    PROVE  TypeOK' /\ RoundIsSound'
<1>1. UNCHANGED <<asked, plan, peak>>
    BY DEF Outside, TrafficMoves, OperatorResizes, SightChanges, LoadChanges, BudgetMoves,
           round, learned
<1>2. RoundIsSound'
    BY <1>1 DEF RoundIsSound, Planned, AskSays, Asked, PlanIsFair
<1>3. happened' \in 0 .. MaxHappened
    BY SizeAssumption DEF TypeOK, Outside, TrafficMoves, OperatorResizes, SightChanges,
                          LoadChanges, BudgetMoves, SomethingHappens
<1>4. UNCHANGED <<learned, round>>
    BY DEF Outside, TrafficMoves, OperatorResizes, SightChanges, LoadChanges, BudgetMoves
<1>5. CASE TrafficMoves
    <2>1. PICK p \in Pools, d \in Demands :
            /\ demand' = [demand EXCEPT ![p] = d]
            /\ high' = [high EXCEPT ![p] = Max({@, Min({d, ceiling[p]})})]
            /\ reached' = IF d > ceiling[p] THEN reached \cup {p} ELSE reached
        BY <1>5 DEF TrafficMoves
    <2> DEFINE h == high[p]
               c == ceiling[p]
               b == Min({d, c})
               t == Max({h, b})
    <2>2. d \in 0 .. Most /\ h \in 0 .. Most /\ c \in Nat \ {0} /\ Most \in Nat
        BY MostIsMost DEF TypeOK, Most
    <2>3. t \in 0 .. Most
        <3> HIDE DEF h, c
        <3>0. d \in Int /\ c \in Int /\ h \in Int BY <2>2
        <3>1. b \in {d, c} /\ b <= d BY <3>0, TwoBounds
        <3> HIDE DEF b
        <3>2. b \in 0 .. Most /\ b \in Int BY <2>2, <3>1
        <3>3. t \in {h, b} BY <3>0, <3>2, TwoBounds
        <3> HIDE DEF t
        <3> QED BY <2>2, <3>2, <3>3
    <2>4. high' \in [Pools -> 0 .. Most]
        <3>1. high' = [high EXCEPT ![p] = t] BY <2>1
        <3> HIDE DEF t
        <3> QED BY <2>3, <3>1 DEF TypeOK, Most
    <2>5. demand' \in [Pools -> Demands \cup {0}] /\ reached' \subseteq Pools
        BY <2>1 DEF TypeOK
    <2> QED BY <1>2, <1>3, <1>4, <1>5, <2>4, <2>5
            DEF TypeOK, Most, TrafficMoves, learned, round
<1>6. CASE OperatorResizes
    <2>1. ceiling' \in [Pools -> Nat \ {0}]
        BY <1>6, SizeAssumption DEF OperatorResizes, TypeOK
    <2>2. demand \in [Pools -> 0 .. Most] BY MostIsMost DEF TypeOK
    <2>3. high' \in [Pools -> 0 .. Most] /\ reached' \subseteq Pools
        BY <1>6, <2>1, <2>2, BusyType DEF OperatorResizes, Reload
    <2> QED BY <1>2, <1>3, <1>4, <1>6, <2>1, <2>3
            DEF TypeOK, Most, OperatorResizes, learned, round
<1>7. CASE SightChanges
    <2>1. sight' \in [Pools -> Sights]
        BY <1>7 DEF SightChanges, TypeOK
    <2> QED BY <1>2, <1>3, <1>4, <1>7, <2>1 DEF TypeOK, SightChanges, learned, round
<1>8. CASE LoadChanges
    <2>1. starved' \in BOOLEAN BY <1>8 DEF LoadChanges
    <2> QED BY <1>2, <1>3, <1>4, <1>8, <2>1 DEF TypeOK, LoadChanges, learned, round
<1>9. CASE BudgetMoves
    BY <1>2, <1>3, <1>4, <1>9 DEF TypeOK, BudgetMoves, learned, round
<1> QED BY <1>5, <1>6, <1>7, <1>8, <1>9 DEF Outside

(* The inductive invariant: the types, what the question says, and what the
   plan made of it is worth. *)
LEMMA RoundsAreSound == Spec => [](TypeOK /\ RoundIsSound)
<1>1. Init => TypeOK /\ RoundIsSound
    <2> SUFFICES ASSUME Init PROVE TypeOK /\ RoundIsSound
        OBVIOUS
    <2>1. 0 \in 0 .. Most /\ 0 \in 0 .. MaxHappened
        BY MostIsMost, SizeAssumption
    <2>2. ShrinkMinInterval \in 1 .. ShrinkMinInterval BY IntervalAssumption
    <2>3. /\ ceiling \in [Pools -> Nat \ {0}] /\ FirstCost \in [Pools -> 1 .. MaxCost]
          /\ trusted \subseteq Pools
        BY SizeAssumption DEF Init
    <2> QED BY <2>1, <2>2, <2>3 DEF Init, TypeOK, Sights, Most, RoundIsSound, Planned
<1>2. TypeOK /\ RoundIsSound /\ [Next]_vars => (TypeOK /\ RoundIsSound)'
    <2> SUFFICES ASSUME TypeOK, RoundIsSound, [Next]_vars
                 PROVE  TypeOK' /\ RoundIsSound'
        OBVIOUS
    <2>1. CASE UNCHANGED vars
        BY <2>1 DEF vars, host, learned, round, TypeOK, RoundIsSound, Planned, AskSays,
                    Asked, PlanIsFair
    <2>2. CASE Observe BY <2>2, ObserveSound
    <2>3. CASE Apply
        <3>1. PICK changed : EndRound(changed) BY <2>3 DEF Apply
        <3>2. plan # None /\ happened' \in 0 .. MaxHappened
            BY <2>3 DEF Apply, TypeOK
        <3> QED BY <3>1, <3>2, EndRoundSound
    <2>4. CASE ForcedApply
        <3>1. PICK changed : EndRound(changed) BY <2>4 DEF ForcedApply
        <3>2. plan # None /\ happened' \in 0 .. MaxHappened
            BY <2>4, SizeAssumption DEF ForcedApply, SomethingHappens, TypeOK
        <3> QED BY <3>1, <3>2, EndRoundSound
    <2>5. CASE ApplyFails
        <3>1. EndRound({}) /\ happened' \in 0 .. MaxHappened
            BY <2>5, SizeAssumption DEF ApplyFails, SomethingHappens, TypeOK
        <3> QED BY <3>1, EndRoundSound
    <2>6. CASE NothingToApply
        <3>1. EndRound({}) /\ happened' \in 0 .. MaxHappened
            BY <2>6 DEF NothingToApply, TypeOK
        <3> QED BY <3>1, EndRoundSound
    <2>7. CASE Outside BY <2>7, OutsideSound
    <2> QED BY <2>1, <2>2, <2>3, <2>4, <2>5, <2>6, <2>7 DEF Next, Round
<1> QED BY <1>1, <1>2, PTL DEF Spec

(***************************************************************************)
(* Every variable keeps its type, whatever happens round after round.      *)
(***************************************************************************)
THEOREM TypeCorrect == Spec => []TypeOK
  BY RoundsAreSound, PTL

(* A pool nothing can be written for has at least the floor it was asked
   with. *)
LEMMA UnknownKept ==
    ASSUME RoundIsSound, Planned, NEW p \in Pools, asked[p].unknown
    PROVE  /\ plan.grant[p] >= asked[p].floor /\ plan.grant[p] >= Floor(asked[p])
           /\ asked[p].floor >= peak[p] /\ asked[p].floor >= asked[p].current
           /\ plan.grant[p] \in Nat /\ asked[p].floor \in Nat /\ asked[p].current \in Nat
<1>1. Asked(asked) /\ AskSays(asked) /\ PlanIsFair(plan, asked)
    BY DEF RoundIsSound, Planned
<1>2. /\ asked[p].floor = asked[p].ceiling
      /\ asked[p].floor >= peak[p] /\ asked[p].floor >= asked[p].current
    BY <1>1 DEF AskSays
<1>3. asked[p].floor \in Nat /\ asked[p].current \in Nat BY <1>1 DEF Asked
<1>4. PoolFloor(asked[p]) \in Nat /\ PoolFloor(asked[p]) >= asked[p].floor
    BY <1>1, <1>2, <1>3, FloorBounds
<1>5. Floor(asked[p]) = PoolFloor(asked[p]) BY DEF Floor
<1>6. plan.grant[p] >= Floor(asked[p]) /\ plan.grant[p] \in Nat
    BY <1>1 DEF PlanIsFair, Writable
<1> QED BY <1>2, <1>3, <1>4, <1>5, <1>6

(***************************************************************************)
(* No plan commits more than the budget, although it reserves for every    *)
(* pool it cannot write what that pool has or was ever seen to use.        *)
(* (Compute: "the one invariant this package exists to hold"; poolFor)     *)
(***************************************************************************)
THEOREM PlanAlwaysFits == Spec => []PlanFits
<1>1. TypeOK /\ RoundIsSound => PlanFits
    <2> SUFFICES ASSUME TypeOK, RoundIsSound, Planned
                 PROVE  /\ Bytes(asked, plan.grant, Pools) <= plan.room
                        /\ \A p \in Pools : asked[p].unknown =>
                             plan.grant[p] >= peak[p] /\ plan.grant[p] >= asked[p].current
        BY DEF PlanFits
    <2>1. Bytes(asked, plan.grant, Pools) <= plan.room
        BY DEF RoundIsSound, PlanIsFair
    <2>2. ASSUME NEW p \in Pools, asked[p].unknown
          PROVE  plan.grant[p] >= peak[p] /\ plan.grant[p] >= asked[p].current
        <3>1. peak[p] \in Nat BY MostIsMost DEF TypeOK, Most
        <3> QED BY <2>2, <3>1, UnknownKept
    <2> QED BY <2>1, <2>2
<1> QED BY <1>1, RoundsAreSound, PTL

(***************************************************************************)
(* A pool left wanting in a finished plan could not have been given one    *)
(* worker more: the passes do not stop early.  (allocateDemand)            *)
(***************************************************************************)
THEOREM UnmetIsFull == Spec => []UnmetMeansFull
<1>1. TypeOK /\ RoundIsSound => UnmetMeansFull
    BY DEF RoundIsSound, PlanIsFair, UnmetMeansFull
<1> QED BY <1>1, RoundsAreSound, PTL

(***************************************************************************)
(* A pool nobody has watched long enough is planned below its ceiling only *)
(* when one worker each for all the trusted ones would not have made room. *)
(* (allocateFloors, poolFor)                                               *)
(***************************************************************************)
THEOREM TrustedFirst == Spec => []TrustedGiveWayFirst
<1>1. TypeOK /\ RoundIsSound => TrustedGiveWayFirst
    <2> DEFINE may == {p \in Pools : asked[p].reducible}
               has == [p \in Pools |-> IF asked[p].unknown THEN plan.grant[p]
                                       ELSE Capped(asked[p].current, HostCap)]
               floors == Floors(asked)
               rest == Pools \ may
    <2> SUFFICES ASSUME TypeOK, RoundIsSound, Planned,
                        NEW p \in rest, plan.grant[p] < has[p]
                 PROVE  Bytes(asked, has, rest) + Bytes(asked, OneEach, may) > plan.room
        BY DEF TrustedGiveWayFirst
    <2>1. /\ Asked(asked) /\ AskSays(asked) /\ PlanIsFair(plan, asked)
          /\ Costed(asked)
        BY AskedIsCosted DEF RoundIsSound, Planned
    <2>2. may = Reducible(asked)
        BY <2>1 DEF Reducible, Writable, AskSays
    <2>3. ASSUME NEW q \in rest, ~asked[q].unknown
          PROVE  has[q] = Floor(asked[q])
        <3> DEFINE a == asked[q]
        <3>1. a.current \in Nat \ {0} /\ a.ceiling = 0 /\ a.floor = a.current
            BY <2>1, <2>3 DEF Asked, AskSays
        <3>2. has[q] = Capped(a.current, HostCap) /\ ~a.unknown BY <2>3
        <3> HIDE DEF a, has
        <3> DEFINE n == a.current
        <3>3. Max({1, n}) = n
            <4> HIDE DEF a
            <4>1. n \in Nat \ {0} BY <3>1
            <4> HIDE DEF n
            <4> DEFINE m == Max({1, n})
            <4>2. m \in {1, n} /\ m >= 1 /\ m >= n
                <5>1. 1 \in Int /\ n \in Int BY <4>1
                <5> QED BY <5>1, TwoBounds
            <4> HIDE DEF m
            <4>3. m = n BY <4>1, <4>2
            <4> QED BY <4>3 DEF m
        <3>4. PoolFloor(a) = n BY <3>1, <3>3 DEF PoolFloor, Capped
        <3> QED BY <3>2, <3>4 DEF Floor, a
    <2>4. ASSUME NEW q \in rest
          PROVE  floors[q] \in Int /\ has[q] \in Int /\ floors[q] <= has[q]
        <3>1. q \in Pools /\ floors[q] = Floor(asked[q]) /\ Floor(asked[q]) \in Nat
            BY <2>1, FloorBounds DEF Floors
        <3>2. CASE ~asked[q].unknown BY <2>3, <3>1, <3>2
        <3>3. CASE asked[q].unknown
            <4>1. has[q] = plan.grant[q] BY <3>1, <3>3
            <4> QED BY <3>1, <3>3, <4>1, UnknownKept
        <3> QED BY <3>2, <3>3
    <2>5. ~asked[p].unknown
        <3>1. p \in Pools /\ plan.grant[p] \in Nat BY <2>1 DEF PlanIsFair
        <3>2. asked[p].unknown => has[p] = plan.grant[p] BY <3>1
        <3> HIDE DEF has
        <3> QED BY <3>1, <3>2
    <2>6. plan.grant[p] < Floor(asked[p]) BY <2>3, <2>5
    <2>7. Bytes(asked, floors, rest) + Bytes(asked, OneEach, may) > plan.room
        BY <2>1, <2>2, <2>6 DEF PlanIsFair
    <2>8. Bytes(asked, floors, rest) <= Bytes(asked, has, rest)
        <3> HIDE DEF floors, has, may
        <3>1. rest \in SUBSET Pools OBVIOUS
        <3> HIDE DEF rest
        <3> QED BY <2>1, <2>4, <3>1, BytesMonotone
    <2>9. /\ Bytes(asked, floors, rest) \in Int /\ Bytes(asked, has, rest) \in Int
          /\ Bytes(asked, OneEach, may) \in Int
        <3>1. \A q \in may : OneEach[q] \in Int BY DEF OneEach
        <3>2. rest \in SUBSET Pools /\ may \in SUBSET Pools OBVIOUS
        <3> HIDE DEF floors, has, may, rest
        <3> QED BY <2>1, <2>4, <3>1, <3>2, BytesType
    <2>10. plan.room \in Int
        BY SizeAssumption DEF TypeOK, Planned
    <2> HIDE DEF floors, has, may, rest
    <2> QED BY <2>7, <2>8, <2>9, <2>10
<1> QED BY <1>1, RoundsAreSound, PTL

-----------------------------------------------------------------------------
(* What Apply makes of a plan.                                             *)

(* An order of a finite set has all of it. *)
LEMMA OrderHasAll ==
    ASSUME NEW S, IsFiniteSet(S), NEW s \in SetToSeqs(S), NEW x \in S
    PROVE  \E i \in 1 .. Cardinality(S) : s[i] = x
<1> DEFINE n == Cardinality(S)
           T == 1 .. n
<1>1. n \in Nat BY FS_CardinalityType
<1>2. s \in [T -> S] /\ \A i, j \in T : i # j => s[i] # s[j] BY DEF SetToSeqs
<1> HIDE DEF n
<1>3. Cardinality(T) = n BY <1>1, FS_Interval
<1> HIDE DEF T
<1>4. s \in Injection(T, S) BY <1>2 DEF Injection, IsInjective
<1>5. s \in Surjection(T, S) BY <1>3, <1>4, FS_Injection DEF n
<1> QED BY <1>5 DEF Surjection, T, n

(* On a full host the growths that are kept fit. *)
LEMMA HeldFit ==
    ASSUME NEW ask, NEW pl, NEW changes \in SUBSET Pools,
           NEW S \in HoldGrowths(changes, ask, pl)
    PROVE  Growing(S, ask, pl) = {} \/ Committed(S, ask, pl) <= pl.room
<1> DEFINE growing == Growing(changes, ask, pl)
           claims == Claims(ask, pl)
           orders == {s \in SetToSeqs(growing) :
                        \A i, j \in DOMAIN s : i < j => claims[s[i]] >= claims[s[j]]}
           Kept(K) == \E s \in orders : \A i \in DOMAIN s :
                LET before == (changes \ growing) \cup {s[j] : j \in 1 .. i - 1}
                IN  s[i] \in K <=> Committed((before \ (growing \ K)) \cup {s[i]}, ask, pl)
                                        <= pl.room
           n == Cardinality(growing)
<1>1. PICK K \in SUBSET growing : S = (changes \ growing) \cup K /\ Kept(K)
    BY DEF HoldGrowths
<1>2. growing \in SUBSET changes /\ IsFiniteSet(growing)
    <2>1. growing \in SUBSET changes BY DEF Growing
    <2> QED BY <2>1, PoolsFinite
<1>3. Growing(S, ask, pl) \subseteq K
    BY <1>1 DEF Growing
<1>4. CASE K = {} BY <1>3, <1>4
<1>5. CASE K # {}
    <2>1. PICK s \in SetToSeqs(growing) : \A i \in DOMAIN s :
                s[i] \in K =>
                  Committed((((changes \ growing) \cup {s[j] : j \in 1 .. i - 1})
                                \ (growing \ K)) \cup {s[i]}, ask, pl) <= pl.room
        BY <1>1
    <2>2. DOMAIN s = 1 .. n BY DEF SetToSeqs
    <2>3. n \in Nat BY <1>2, FS_CardinalityType
    <2>4. \A x \in growing : \E i \in 1 .. n : s[i] = x
        <3> HIDE DEF growing
        <3> QED BY <1>2, OrderHasAll
    <2>5. PICK x \in K : TRUE BY <1>5
    <2>6. PICK a \in 1 .. n : s[a] = x BY <2>4, <2>5
    <2> HIDE DEF growing, n
    <2>7. PICK i \in 1 .. n : s[i] \in K /\ \A j \in 1 .. n : s[j] \in K => j <= i
        BY <2>3, <2>5, <2>6, LastExists
    <2> DEFINE before == {s[j] : j \in 1 .. i - 1}
               U == (((changes \ growing) \cup before) \ (growing \ K)) \cup {s[i]}
    <2>8. Committed(U, ask, pl) <= pl.room
        BY <2>1, <2>2, <2>7
    <2>9. ASSUME NEW y \in K PROVE y \in before \cup {s[i]}
        <3>1. PICK j \in 1 .. n : s[j] = y BY <2>4
        <3>2. j <= i BY <2>7, <3>1
        <3>3. j = i \/ j \in 1 .. i - 1 BY <2>3, <3>2
        <3> QED BY <3>1, <3>3
    <2>10. before \subseteq growing
        <3> SUFFICES ASSUME NEW j \in 1 .. i - 1 PROVE s[j] \in growing
            OBVIOUS
        <3>1. j \in 1 .. n BY <2>3
        <3>2. s \in [1 .. n -> growing] BY DEF SetToSeqs, n
        <3> QED BY <3>1, <3>2
    <2>11. U = S
        <3> HIDE DEF before
        <3> QED BY <1>1, <2>7, <2>9, <2>10
    <2> QED BY <2>8, <2>11
<1> QED BY <1>4, <1>5

(* What is left of the changes when growths are dropped. *)
LEMMA CommittedLess ==
    ASSUME NEW ask, Asked(ask), NEW pl, pl.grant \in [Pools -> Nat \ {0}],
           NEW all \in SUBSET Pools, NEW out \in SUBSET Growing(all, ask, pl)
    PROVE  /\ Committed(all \ out, ask, pl)
                = Committed(all, ask, pl) - SumFunctionOnSet(Claims(ask, pl), out)
           /\ Committed(all, ask, pl) \in Int
           /\ SumFunctionOnSet(Claims(ask, pl), out) \in Int
<1> DEFINE size(c) == [p \in Pools |-> IF p \in c \/ ask[p].current = 0
                                       THEN pl.grant[p] ELSE ask[p].current]
           n == size(all)
           m == size(all \ out)
           claims == Claims(ask, pl)
<1>1. Costed(ask) BY AskedIsCosted
<1>2. out \in SUBSET Pools /\ out \subseteq all /\ \A p \in out : ask[p].current > 0
    BY DEF Growing
<1>3. ASSUME NEW p \in Pools
      PROVE  /\ n[p] \in Int /\ m[p] \in Int
             /\ p \notin out => n[p] = m[p]
             /\ p \in out => n[p] = pl.grant[p] /\ m[p] = ask[p].current
    <2>1. pl.grant[p] \in Int /\ ask[p].current \in Nat BY DEF Asked
    <2>2. p \in out => ask[p].current # 0 BY <1>2, <2>1
    <2> QED BY <1>2, <2>1, <2>2
<1>4. Committed(all, ask, pl) = Bytes(ask, n, Pools)
      /\ Committed(all \ out, ask, pl) = Bytes(ask, m, Pools)
    BY DEF Committed
<1> HIDE DEF n, m, size
<1>5. /\ Bytes(ask, n, Pools) = Bytes(ask, n, out) + Bytes(ask, n, Pools \ out)
      /\ Bytes(ask, m, Pools) = Bytes(ask, m, out) + Bytes(ask, m, Pools \ out)
    BY <1>1, <1>2, <1>3, BytesSplit
<1>6. Bytes(ask, n, Pools \ out) = Bytes(ask, m, Pools \ out)
    <2> DEFINE rest == Pools \ out
    <2>1. rest \in SUBSET Pools /\ \A p \in rest : n[p] = m[p] BY <1>3
    <2> HIDE DEF rest
    <2>2. Bytes(ask, n, rest) = Bytes(ask, m, rest) BY <2>1, BytesSame
    <2> QED BY <2>2 DEF rest
<1>7. /\ Bytes(ask, n, out) \in Int /\ Bytes(ask, m, out) \in Int
      /\ Bytes(ask, n, Pools \ out) \in Int
    BY <1>1, <1>2, <1>3, BytesType
<1>8. SumFunctionOnSet(claims, out) = Bytes(ask, n, out) - Bytes(ask, m, out)
    <2> DEFINE f == [p \in out |-> n[p] * ask[p].cost]
               g == [p \in out |-> m[p] * ask[p].cost]
    <2>1. ASSUME NEW p \in out
          PROVE  f[p] \in Int /\ g[p] \in Int /\ claims[p] = f[p] - g[p]
        <3>1. p \in Pools BY <1>2
        <3>2. /\ f[p] = pl.grant[p] * ask[p].cost /\ g[p] = ask[p].current * ask[p].cost
              /\ claims[p] = (pl.grant[p] - ask[p].current) * ask[p].cost
            BY <1>3, <3>1 DEF Claims
        <3>3. pl.grant[p] \in Int /\ ask[p].current \in Int /\ ask[p].cost \in Int
            BY <3>1 DEF Asked
        <3>4. f[p] \in Int /\ g[p] \in Int BY <1>1, <3>1, <3>2, <3>3, TimesCost
        <3> HIDE DEF f, g, claims
        <3> QED BY <3>2, <3>3, <3>4
    <2>2. IsFiniteSet(out) BY <1>2, PoolsFinite
    <2>3. /\ Bytes(ask, n, out) = SumFunctionOnSet(f, out)
          /\ Bytes(ask, m, out) = SumFunctionOnSet(g, out)
        BY DEF Bytes
    <2> HIDE DEF f, g, claims
    <2> QED BY <2>1, <2>2, <2>3, SumDifference
<1> HIDE DEF claims
<1>9. SumFunctionOnSet(claims, out) \in Int BY <1>7, <1>8
<1> QED BY <1>4, <1>5, <1>6, <1>7, <1>8, <1>9 DEF claims

(* What Apply makes of a plan that fits grows nobody, or fits. *)
LEMMA ResizesFit ==
    ASSUME NEW ask, Asked(ask), NEW pl, pl.grant \in [Pools -> Nat \ {0}],
           pl.room \in Int, NEW w, NEW damp, NEW S \in Resizes(ask, pl, w, damp)
    PROVE  /\ S \in SUBSET Pools
           /\ Growing(S, ask, pl) = {} \/ Committed(S, ask, pl) <= pl.room
<1> DEFINE changes == Worth(ask, pl, w, damp)
<1>1. changes \in SUBSET Pools BY DEF Worth
<1>2. CASE Committed(changes, ask, pl) <= pl.room
    BY <1>1, <1>2 DEF Resizes
<1>3. CASE ~(Committed(changes, ask, pl) <= pl.room) /\ pl.exhausted
    <2>1. S \in HoldGrowths(changes, ask, pl) BY <1>3 DEF Resizes
    <2>2. HoldGrowths(changes, ask, pl) \subseteq SUBSET changes
        BY DEF HoldGrowths, Growing
    <2> HIDE DEF changes
    <2> QED BY <1>1, <2>1, <2>2, HeldFit
<1>4. CASE ~(Committed(changes, ask, pl) <= pl.room) /\ ~pl.exhausted
    <2>0. PICK both \in {changes \cup in : in \in PulledIn(changes, ask, pl, w, damp)} :
                S \in {both \ out : out \in Dropped(both, ask, pl)}
        BY <1>4 DEF Resizes
    <2>1. PICK in \in PulledIn(changes, ask, pl, w, damp) : both = changes \cup in
        BY <2>0
    <2>2. in \in SUBSET Pools BY DEF PulledIn, JustEnough
    <2> DEFINE all == changes \cup in
    <2>3. PICK out \in Dropped(all, ask, pl) : S = all \ out BY <2>0, <2>1
    <2>4. all \in SUBSET Pools BY <1>1, <2>2
    <2> HIDE DEF all, changes
    <2>5. /\ out \in SUBSET Growing(all, ask, pl)
          /\ \/ out = Growing(all, ask, pl)
             \/ SumFunctionOnSet(Claims(ask, pl), out) >= Committed(all, ask, pl) - pl.room
        BY DEF Dropped, JustEnough
    <2>6. CASE out = Growing(all, ask, pl)
        <3>1. Growing(S, ask, pl) = {} BY <2>3, <2>6 DEF Growing
        <3> QED BY <2>3, <2>4, <3>1
    <2>7. CASE SumFunctionOnSet(Claims(ask, pl), out) >= Committed(all, ask, pl) - pl.room
        <3>1. /\ Committed(S, ask, pl)
                   = Committed(all, ask, pl) - SumFunctionOnSet(Claims(ask, pl), out)
              /\ Committed(all, ask, pl) \in Int
              /\ SumFunctionOnSet(Claims(ask, pl), out) \in Int
            BY <2>3, <2>4, <2>5, CommittedLess
        <3> QED BY <2>3, <2>4, <2>7, <3>1
    <2> QED BY <2>5, <2>6, <2>7
<1> QED BY <1>2, <1>3, <1>4

(* What decide leaves damped for its size, or lets through, has waited. *)
LEMMA DecidedHasWaited ==
    ASSUME NEW a, NEW grant, NEW w, NEW damp,
           Decide(a, grant, w, damp) \in {"applied", "too_small"}
    PROVE  ~Sooner(a.current, grant, w, damp)
  BY DEF Decide

(* All that is changed was let through, or was damped for its size. *)
LEMMA ResizedWereDecided ==
    ASSUME NEW ask, NEW pl, NEW w, NEW damp,
           NEW S \in Resizes(ask, pl, w, damp), NEW p \in S
    PROVE  /\ p \in Pools
           /\ Decide(ask[p], pl.grant[p], w[p], damp) \in {"applied", "too_small"}
<1> DEFINE changes == Worth(ask, pl, w, damp)
           small == {q \in Pools : /\ pl.grant[q] < ask[q].current
                                   /\ Decide(ask[q], pl.grant[q], w[q], damp) = "too_small"}
<1>1. changes \subseteq Pools
      /\ \A q \in changes : Decide(ask[q], pl.grant[q], w[q], damp) = "applied"
  BY DEF Worth
<1>2. SUFFICES p \in changes \cup small
  BY <1>1
<1>3. CASE Committed(changes, ask, pl) <= pl.room
  BY <1>3 DEF Resizes
<1>4. CASE ~(Committed(changes, ask, pl) <= pl.room) /\ pl.exhausted
  <2>1. S \in HoldGrowths(changes, ask, pl)
    BY <1>4 DEF Resizes
  <2>2. HoldGrowths(changes, ask, pl) \subseteq SUBSET changes
    BY DEF HoldGrowths, Growing
  <2> QED BY <2>1, <2>2
<1>5. CASE ~(Committed(changes, ask, pl) <= pl.room) /\ ~pl.exhausted
  <2>1. PICK all \in {changes \cup in : in \in PulledIn(changes, ask, pl, w, damp)} :
              S \in {all \ out : out \in Dropped(all, ask, pl)}
    BY <1>5 DEF Resizes
  <2>2. PulledIn(changes, ask, pl, w, damp) \subseteq SUBSET small
    BY DEF PulledIn, JustEnough
  <2> QED BY <2>1, <2>2
<1> QED BY <1>3, <1>4, <1>5

(***************************************************************************)
(* A growth never takes the host past its budget: the part of a plan that  *)
(* is carried out fits with everything that is left where it is.           *)
(* (requireShrinksWithGrowth, holdGrowths)                                 *)
(***************************************************************************)
THEOREM GrowthAlwaysFits == Spec => GrowthFits
<1>1. TypeOK /\ RoundIsSound /\ [Next]_vars
        => [Applies /\ Unmoved /\ Growths # {} =>
              Bytes(asked, [p \in Pools |-> IF asked[p].current = 0 THEN plan.grant[p]
                                            ELSE ceiling'[p]], Pools) <= plan.room]_vars
    <2> DEFINE after == [p \in Pools |-> IF asked[p].current = 0 THEN plan.grant[p]
                                         ELSE ceiling'[p]]
               Fits == Bytes(asked, after, Pools) <= plan.room
    <2> SUFFICES ASSUME TypeOK, RoundIsSound, Next, Applies, Unmoved, Growths # {}
                 PROVE  Fits
        BY DEF vars, round, Applies
    <2>1. ASSUME NEW changed, EndRound(changed)
          PROVE  Changed \subseteq changed
        <3> SUFFICES ASSUME NEW p \in Pools, waited'[p] = 1, p \notin changed PROVE FALSE
            BY DEF Changed
        <3>1. waited[p] \in 1 .. ShrinkMinInterval BY DEF TypeOK
        <3>2. waited'[p] = IF waited[p] < ShrinkMinInterval THEN waited[p] + 1
                           ELSE waited[p]
            BY <2>1 DEF EndRound
        <3> QED BY <3>1, <3>2, IntervalAssumption
    <2>2. ASSUME EndRound({}) PROVE FALSE
        BY <2>1, <2>2 DEF Growths
    <2>3. ASSUME plan # None, NEW damp, NEW changed \in Resizes(asked, plan, waited, damp),
                 EndRound(changed)
          PROVE  Fits
        <3>1. /\ Asked(asked) /\ AskSays(asked) /\ PlanIsFair(plan, asked)
              /\ plan.grant \in [Pools -> Nat \ {0}] /\ plan.room \in Int
            BY <2>3, SizeAssumption DEF EndRound, TypeOK, RoundIsSound, Planned
        <3>2. /\ changed \in SUBSET Pools
              /\ \/ Growing(changed, asked, plan) = {}
                 \/ Committed(changed, asked, plan) <= plan.room
            BY <2>3, <3>1, ResizesFit
        <3>3. PICK p \in Growths : TRUE OBVIOUS
        <3>4. p \in changed /\ p \in Pools /\ plan.grant[p] > asked[p].current
            BY <2>1, <2>3, <3>3 DEF Growths, Changed
        <3>5. ~asked[p].unknown
            BY <2>3, <3>4, ResizedWereDecided DEF Decide
        <3>6. asked[p].current > 0 BY <3>1, <3>4, <3>5 DEF AskSays
        <3>7. Committed(changed, asked, plan) <= plan.room
            BY <3>2, <3>4, <3>6 DEF Growing
        <3> DEFINE n == [q \in Pools |-> IF q \in changed \/ asked[q].current = 0
                                         THEN plan.grant[q] ELSE asked[q].current]
        <3>8. ASSUME NEW q \in Pools PROVE after[q] = n[q]
            <4>1. ceiling'[q] = IF q \in changed THEN plan.grant[q] ELSE ceiling[q]
                BY <2>3 DEF EndRound
            <4>2. asked[q].current \in {0, ceiling[q]} BY DEF Unmoved
            <4> QED BY <4>1, <4>2
        <3>9. Committed(changed, asked, plan) = Bytes(asked, n, Pools)
            BY DEF Committed
        <3> HIDE DEF n, after
        <3>10. Bytes(asked, after, Pools) = Bytes(asked, n, Pools)
            BY <3>8, BytesSame
        <3> QED BY <3>7, <3>9, <3>10
    <2> HIDE DEF Fits
    <2>4. CASE Apply BY <2>3, <2>4 DEF Apply
    <2>5. CASE ForcedApply BY <2>3, <2>5 DEF ForcedApply
    <2>6. CASE ApplyFails \/ NothingToApply
        BY <2>2, <2>6 DEF ApplyFails, NothingToApply
    <2>7. CASE Observe BY <2>7 DEF Observe, Look, Applies
    <2>8. CASE Outside
        BY <2>8 DEF Outside, TrafficMoves, OperatorResizes, SightChanges, LoadChanges,
                    BudgetMoves, round, Applies
    <2> QED BY <2>4, <2>5, <2>6, <2>7, <2>8 DEF Next, Round
<1> QED BY <1>1, RoundsAreSound, PTL DEF Spec, GrowthFits

(***************************************************************************)
(* Left to itself the daemon does not change a pool again inside its       *)
(* interval, whatever a neighbour needs.  (decide, and                     *)
(* requireShrinksWithGrowth: "never the time brake")                       *)
(***************************************************************************)
THEOREM BrakeHolds == Spec => BrakeIsKept
<1> DEFINE Kept == /\ \A p \in Growths : waited[p] >= MinInterval
                   /\ \A p \in Cuts : waited[p] >= ShrinkMinInterval
<1>1. TypeOK /\ [Next]_vars => [Applies /\ UNCHANGED happened => Kept]_vars
  <2> SUFFICES ASSUME TypeOK, Next, Applies, UNCHANGED happened
               PROVE  Kept
    BY DEF vars, round, Applies
  <2>0. waited \in [Pools -> 1 .. ShrinkMinInterval] /\ happened \in Int
    BY SizeAssumption DEF TypeOK
  <2> USE IntervalAssumption
  <2>1. ASSUME NEW changed, EndRound(changed), NEW p \in Changed
        PROVE  p \in changed
    BY <2>0, <2>1 DEF EndRound, Changed
  <2>2. CASE Apply
    <3>1. PICK changed \in Resizes(asked, plan, waited, Damping) : EndRound(changed)
      BY <2>2 DEF Apply
    <3>2. ASSUME NEW p \in Changed
          PROVE  ~Sooner(asked[p].current, plan.grant[p], waited[p], Damping)
      BY <2>1, <3>1, ResizedWereDecided, DecidedHasWaited
    <3>3. \A p \in Changed : waited[p] \in 1 .. ShrinkMinInterval
      BY <2>0 DEF Changed
    <3> QED BY <3>2, <3>3 DEF Sooner, Damping, Growths, Cuts
  <2>3. CASE Observe
    BY <2>3 DEF Observe, Look, Applies
  <2>4. CASE ForcedApply \/ ApplyFails \/ Outside
    BY <2>0, <2>4 DEF ForcedApply, ApplyFails, SomethingHappens, Outside, TrafficMoves,
                OperatorResizes, SightChanges, LoadChanges, BudgetMoves
  <2>5. CASE NothingToApply
    <3>1. Changed = {}
      BY <2>1, <2>5 DEF NothingToApply
    <3> QED BY <3>1 DEF Growths, Cuts
  <2> QED BY <2>2, <2>3, <2>4, <2>5 DEF Next, Round
<1> QED BY <1>1, RoundsAreSound, PTL DEF Spec, BrakeIsKept
=============================================================================
