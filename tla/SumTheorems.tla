---------------------------- MODULE SumTheorems -----------------------------
(***************************************************************************)
(* What the sum of a function over a finite set is.  The community modules *)
(* define it by recursion over the subsets; the facts below are proved by  *)
(* looking at a smallest counterexample, which is a set like any other.    *)
(***************************************************************************)
EXTENDS Integers, FiniteSetsExt, Functions, FiniteSetTheorems,
        WellFoundedInduction, TLAPS

(* Of some subsets of a finite set, one has none of the others inside it. *)
LEMMA LeastSet ==
    ASSUME NEW S, IsFiniteSet(S), NEW F \in SUBSET SUBSET S, F # {}
    PROVE  \E A \in F : \A B \in F : B \subseteq A => B = A
<1>1. F \subseteq FiniteSubsetsOf(S)
    BY FS_Subset DEF FiniteSubsetsOf
<1>2. \E A \in F : \A B \in F : ~ (<<B, A>> \in StrictSubsetOrdering(S))
    BY <1>1, FS_StrictSubsetOrderingWellFounded, WFMin
<1>3. PICK A \in F : \A B \in F : ~ (<<B, A>> \in StrictSubsetOrdering(S))
    BY <1>2
<1>4. ASSUME NEW B \in F, B \subseteq A PROVE B = A
    BY <1>3, <1>4 DEF StrictSubsetOrdering
<1> QED BY <1>4

(* Some numbers have a least. *)
LEMMA LeastNatural ==
    ASSUME NEW T \in SUBSET Nat, T # {}
    PROVE  \E x \in T : \A y \in T : x <= y
<1>1. PICK n \in T : TRUE OBVIOUS
<1> DEFINE F == {0 .. m : m \in {k \in T : k <= n}}
<1>2. IsFiniteSet(0 .. n) BY FS_Interval
<1>3. F \in SUBSET SUBSET (0 .. n) /\ F # {} OBVIOUS
<1>4. PICK A \in F : \A B \in F : B \subseteq A => B = A
    <2> DEFINE N == 0 .. n
    <2>1. IsFiniteSet(N) /\ F \in SUBSET SUBSET N /\ F # {}
        BY <1>2, <1>3
    <2> HIDE DEF F, N
    <2> QED BY <2>1, LeastSet
<1>5. PICK x \in T : x \in Nat /\ x <= n /\ A = 0 .. x OBVIOUS
<1>6. ASSUME NEW y \in T, ~(x <= y) PROVE FALSE
    <2>1. y \in Nat /\ y < x BY <1>5, <1>6
    <2>2. 0 .. y \in F BY <1>5, <2>1
    <2>3. 0 .. y \subseteq A BY <1>5, <2>1
    <2>4. 0 .. y = 0 .. x BY <1>4, <1>5, <2>2, <2>3
    <2>5. x \in 0 .. x BY <1>5
    <2> QED BY <2>1, <2>4, <2>5
<1> QED BY <1>6

-----------------------------------------------------------------------------
(* Numbers in order, and the first of a set that is put in order.          *)

(* The larger and the smaller of two integers. *)
LEMMA TwoBounds ==
    ASSUME NEW a \in Int, NEW b \in Int
    PROVE  /\ Max({a, b}) \in {a, b} /\ Max({a, b}) >= a /\ Max({a, b}) >= b
           /\ Min({a, b}) \in {a, b} /\ Min({a, b}) <= a /\ Min({a, b}) <= b
<1>1. \E x \in {a, b} : \A y \in {a, b} : x >= y OBVIOUS
<1>2. \E x \in {a, b} : \A y \in {a, b} : x <= y OBVIOUS
<1> QED BY <1>1, <1>2 DEF Max, Min

(* The largest and the smallest of three. *)
LEMMA ThreeBounds ==
    ASSUME NEW a \in Int, NEW b \in Int, NEW c \in Int
    PROVE  /\ Max({a, b, c}) \in {a, b, c}
           /\ Max({a, b, c}) >= a /\ Max({a, b, c}) >= b /\ Max({a, b, c}) >= c
           /\ Min({a, b, c}) \in {a, b, c}
           /\ Min({a, b, c}) <= a /\ Min({a, b, c}) <= b /\ Min({a, b, c}) <= c
<1>1. \E x \in {a, b, c} : \A y \in {a, b, c} : x >= y OBVIOUS
<1>2. \E x \in {a, b, c} : \A y \in {a, b, c} : x <= y OBVIOUS
<1> QED BY <1>1, <1>2 DEF Max, Min

(* What is raised to one is one at least. *)
LEMMA AtLeastOne ==
    ASSUME NEW b \in Int
    PROVE  Max({1, b}) \in Int /\ Max({1, b}) >= 1
<1> DEFINE a == 1
<1>1. a \in Int OBVIOUS
<1> HIDE DEF a
<1>2. Max({a, b}) \in {a, b} /\ Max({a, b}) >= a BY <1>1, TwoBounds
<1> QED BY <1>1, <1>2 DEF a

(* What a share cut to whole parts is, and is not. *)
LEMMA Divided ==
    ASSUME NEW a \in Int, NEW b \in Nat \ {0}
    PROVE  /\ a \div b \in Int
           /\ (a \div b) * b <= a
           /\ a >= 0 => a \div b >= 0
           /\ a >= b => a \div b >= 1
  OBVIOUS

(* A finite set that is put in order has a first element. *)
LEMMA FirstExists ==
    ASSUME NEW S, IsFiniteSet(S), S # {}, NEW R,
           \A p \in S : <<p, p>> \notin R,
           \A p, q, r \in S : <<p, q>> \in R /\ <<q, r>> \in R => <<p, r>> \in R,
           \A p, q \in S : p = q \/ <<p, q>> \in R \/ <<q, p>> \in R
    PROVE  \E p \in S : \A q \in S \ {p} : <<p, q>> \in R
<1> DEFINE Ahead(p) == {q \in S : <<q, p>> \in R}
           F == {Ahead(p) : p \in S}
<1>1. PICK A \in F : \A B \in F : B \subseteq A => B = A
    <2>1. F \in SUBSET SUBSET S
        <3>1. \A p \in S : Ahead(p) \in SUBSET S OBVIOUS
        <3> QED BY <3>1
    <2>2. F # {}
        <3>1. PICK p \in S : TRUE OBVIOUS
        <3>2. Ahead(p) \in F OBVIOUS
        <3> QED BY <3>2
    <2> HIDE DEF F
    <2> QED BY <2>1, <2>2, LeastSet
<1>2. PICK p \in S : A = Ahead(p) OBVIOUS
<1>3. ASSUME NEW q \in Ahead(p) PROVE FALSE
    <2>1. Ahead(q) \subseteq A /\ Ahead(q) \in F BY <1>2, <1>3
    <2>2. q \in Ahead(q) BY <1>1, <1>2, <1>3, <2>1
    <2> QED BY <2>2
<1> QED BY <1>3

(* Some numbers that are finitely many have a largest. *)
LEMMA MaxBounds ==
    ASSUME NEW S, IsFiniteSet(S), S # {}, \A x \in S : x \in Nat
    PROVE  Max(S) \in S /\ Max(S) \in Nat /\ \A q \in S : q \in 0 .. Max(S)
<1> DEFINE Above(p) == {q \in S : q > p}
           F == {Above(p) : p \in S}
<1>1. PICK A \in F : \A B \in F : B \subseteq A => B = A
    <2>1. F \in SUBSET SUBSET S OBVIOUS
    <2>2. F # {} OBVIOUS
    <2> HIDE DEF F, Above
    <2> QED BY <2>1, <2>2, LeastSet
<1>2. PICK p \in S : A = Above(p) OBVIOUS
<1>3. ASSUME NEW q \in S PROVE p >= q
    <2> SUFFICES ASSUME q > p PROVE FALSE
        OBVIOUS
    <2>1. Above(q) \in F /\ q \in A BY <1>2
    <2>2. p \in Nat /\ q \in Nat /\ \A r \in S : r \in Nat OBVIOUS
    <2>3. Above(q) \subseteq A
        <3> SUFFICES ASSUME NEW r \in S, r > q PROVE r > p BY <1>2
        <3> QED BY <2>2
    <2>4. q \notin Above(q) BY <2>2
    <2> QED BY <1>1, <2>1, <2>3, <2>4
<1>4. \A q \in S : p >= q BY <1>3
<1>5. Max(S) \in S /\ \A q \in S : Max(S) >= q BY <1>4 DEF Max
<1>6. Max(S) \in Nat BY <1>5
<1>7. ASSUME NEW q \in S PROVE q \in 0 .. Max(S)
    <2>1. q \in Nat /\ Max(S) >= q BY <1>5
    <2> QED BY <1>6, <2>1
<1> QED BY <1>5, <1>6, <1>7

(* The last of an order that is in K. *)
LEMMA LastExists ==
    ASSUME NEW n \in Nat, NEW s, NEW K, NEW a \in 1 .. n, s[a] \in K
    PROVE  \E i \in 1 .. n : s[i] \in K /\ \A j \in 1 .. n : s[j] \in K => j <= i
<1> DEFINE B == {k \in Nat : \E i \in 1 .. n : s[i] \in K /\ k = n - i}
<1>1. n - a \in B OBVIOUS
<1>2. B \in SUBSET Nat /\ B # {} BY <1>1
<1> HIDE DEF B
<1>3. PICK k \in B : \A j \in B : k <= j BY <1>2, LeastNatural
<1>4. PICK i \in 1 .. n : s[i] \in K /\ k = n - i BY <1>3 DEF B
<1>5. ASSUME NEW j \in 1 .. n, s[j] \in K PROVE j <= i
    <2>1. n - j \in B BY <1>5 DEF B
    <2> QED BY <1>3, <1>4, <2>1
<1> QED BY <1>4, <1>5

-----------------------------------------------------------------------------
(* The recursion.                                                          *)

AnyOf(s) == CHOOSE x \in s : TRUE

(* h does what the recursive function is to do, on these sets. *)
SumsOn(h, f, D) ==
    h = [s \in D |-> IF s = {} THEN 0 ELSE f[AnyOf(s)] + h[s \ {AnyOf(s)}]]

Sums(h, f, S) == SumsOn(h, f, SUBSET S)

(* The sum is what such a function, if there is one, says of the whole set. *)
LEMMA SumIsRecursive ==
    ASSUME NEW f, NEW S
    PROVE  SumFunctionOnSet(f, S) = (CHOOSE h : Sums(h, f, S))[S]
BY DEF SumFunctionOnSet, FoldFunctionOnSet, MapThenFoldSet, Sums, SumsOn, AnyOf

(* The element taken out is one of the set's. *)
LEMMA AnyIsIn ==
    ASSUME NEW s, s # {}
    PROVE  AnyOf(s) \in s
BY DEF AnyOf

SubsetsUpTo(S, k) == {s \in SUBSET S : Cardinality(s) <= k}

(* There is such a function, built up from the smaller subsets to the larger. *)
LEMMA SumsExist ==
    ASSUME NEW f, NEW S, IsFiniteSet(S)
    PROVE  \E h : Sums(h, f, S)
<1> DEFINE Bad == {k \in Nat : ~ \E h : SumsOn(h, f, SubsetsUpTo(S, k))}
<1>0. \A s \in SUBSET S : IsFiniteSet(s) /\ Cardinality(s) \in Nat
    BY FS_Subset, FS_CardinalityType
<1>1. Bad = {}
    <2> SUFFICES ASSUME Bad # {} PROVE FALSE
        OBVIOUS
    <2>1. PICK k \in Bad : \A j \in Bad : k <= j
        BY LeastNatural
    <2>2. CASE k = 0
        <3>1. SubsetsUpTo(S, k) = {{}}
            BY <1>0, <2>2, FS_EmptySet DEF SubsetsUpTo
        <3>2. SumsOn([s \in {{}} |-> 0], f, {{}})
            BY DEF SumsOn
        <3> QED BY <3>1, <3>2
    <2>3. CASE k # 0
        <3>1. k - 1 \in Nat /\ k - 1 \notin Bad
            BY <2>1, <2>3
        <3>2. PICK h : SumsOn(h, f, SubsetsUpTo(S, k - 1))
            BY <3>1
        <3> DEFINE g == [s \in SubsetsUpTo(S, k) |->
                            IF s = {} THEN 0 ELSE f[AnyOf(s)] + h[s \ {AnyOf(s)}]]
        <3>3. ASSUME NEW s \in SubsetsUpTo(S, k), s # {}
              PROVE  g[s \ {AnyOf(s)}] = h[s \ {AnyOf(s)}]
            <4> DEFINE t == s \ {AnyOf(s)}
            <4>1. t \in SubsetsUpTo(S, k - 1) /\ t \in SubsetsUpTo(S, k)
                BY <1>0, <3>3, AnyIsIn, FS_RemoveElement DEF SubsetsUpTo
            <4>2. h[t] = IF t = {} THEN 0 ELSE f[AnyOf(t)] + h[t \ {AnyOf(t)}]
                BY <3>2, <4>1 DEF SumsOn
            <4> QED BY <4>1, <4>2
        <3>4. g = [s \in SubsetsUpTo(S, k) |->
                            IF s = {} THEN 0 ELSE f[AnyOf(s)] + g[s \ {AnyOf(s)}]]
            BY <3>3
        <3>5. SumsOn(g, f, SubsetsUpTo(S, k))
            BY <3>4 DEF SumsOn
        <3> QED BY <3>5
    <2> QED BY <2>2, <2>3
<1>2. Cardinality(S) \in Nat /\ SubsetsUpTo(S, Cardinality(S)) = SUBSET S
    BY <1>0, FS_Subset DEF SubsetsUpTo
<1>3. PICK h : SumsOn(h, f, SubsetsUpTo(S, Cardinality(S)))
    BY <1>1, <1>2
<1> QED BY <1>2, <1>3 DEF Sums

(* Two of them agree where they add up the same things. *)
LEMMA SumsAgree ==
    ASSUME NEW S, IsFiniteSet(S), NEW T, IsFiniteSet(T), NEW f, NEW g,
           NEW h, Sums(h, f, S), NEW i, Sums(i, g, T),
           NEW A, A \subseteq S, A \subseteq T, \A x \in A : f[x] = g[x]
    PROVE  h[A] = i[A]
<1> DEFINE Bad == {s \in SUBSET A : h[s] # i[s]}
<1> SUFFICES ASSUME Bad # {} PROVE FALSE
    OBVIOUS
<1>1. IsFiniteSet(A) BY FS_Subset
<1>2. PICK s \in Bad : \A t \in Bad : t \subseteq s => t = s
    <2>1. Bad \in SUBSET SUBSET A OBVIOUS
    <2> HIDE DEF Bad
    <2> QED BY <1>1, <2>1, LeastSet
<1>3. /\ h[s] = IF s = {} THEN 0 ELSE f[AnyOf(s)] + h[s \ {AnyOf(s)}]
      /\ i[s] = IF s = {} THEN 0 ELSE g[AnyOf(s)] + i[s \ {AnyOf(s)}]
    <2>1. s \in SUBSET S /\ s \in SUBSET T OBVIOUS
    <2> QED BY <2>1 DEF Sums, SumsOn
<1>4. s # {} BY <1>3
<1>5. AnyOf(s) \in s BY <1>4, AnyIsIn
<1>6. h[s \ {AnyOf(s)}] = i[s \ {AnyOf(s)}] /\ f[AnyOf(s)] = g[AnyOf(s)]
    BY <1>2, <1>5
<1> QED BY <1>3, <1>6

(* So the sum is that of any of them. *)
LEMMA SumIsSums ==
    ASSUME NEW f, NEW S, IsFiniteSet(S)
    PROVE  \E h : Sums(h, f, S) /\ SumFunctionOnSet(f, S) = h[S]
BY SumsExist, SumIsRecursive

-----------------------------------------------------------------------------

(* Only the values on the set count. *)
LEMMA SumSame ==
    ASSUME NEW S, IsFiniteSet(S), NEW f, NEW g, \A x \in S : f[x] = g[x]
    PROVE  SumFunctionOnSet(f, S) = SumFunctionOnSet(g, S)
<1>1. PICK h : Sums(h, f, S) /\ SumFunctionOnSet(f, S) = h[S]
    BY SumIsSums
<1>2. PICK i : Sums(i, g, S) /\ SumFunctionOnSet(g, S) = i[S]
    BY SumIsSums
<1> QED BY <1>1, <1>2, SumsAgree

(* Nothing adds up to nothing. *)
LEMMA SumEmpty ==
    ASSUME NEW f
    PROVE  SumFunctionOnSet(f, {}) = 0
<1>1. PICK h : Sums(h, f, {}) /\ SumFunctionOnSet(f, {}) = h[{}]
    BY SumIsSums, FS_EmptySet
<1> QED BY <1>1 DEF Sums, SumsOn

(* The sum is one element's share and the sum of the rest. *)
LEMMA SumAny ==
    ASSUME NEW f, NEW S, IsFiniteSet(S), S # {}
    PROVE  SumFunctionOnSet(f, S) = f[AnyOf(S)] + SumFunctionOnSet(f, S \ {AnyOf(S)})
<1> DEFINE T == S \ {AnyOf(S)}
<1>1. PICK h : Sums(h, f, S) /\ SumFunctionOnSet(f, S) = h[S]
    BY SumIsSums
<1>2. IsFiniteSet(T) BY FS_Subset
<1>3. PICK i : Sums(i, f, T) /\ SumFunctionOnSet(f, T) = i[T]
    BY <1>2, SumIsSums
<1>4. h[T] = i[T]
    <2>1. T \subseteq S OBVIOUS
    <2> HIDE DEF T
    <2> QED BY <1>1, <1>2, <1>3, <2>1, SumsAgree
<1>5. h[S] = f[AnyOf(S)] + h[T]
    BY <1>1 DEF Sums, SumsOn
<1> QED BY <1>1, <1>3, <1>4, <1>5

(* Integers add up to an integer. *)
LEMMA SumType ==
    ASSUME NEW S, IsFiniteSet(S), NEW f, \A x \in S : f[x] \in Int
    PROVE  SumFunctionOnSet(f, S) \in Int
<1> DEFINE Bad == {s \in SUBSET S : SumFunctionOnSet(f, s) \notin Int}
<1> SUFFICES ASSUME Bad # {} PROVE FALSE
    OBVIOUS
<1>1. PICK s \in Bad : \A t \in Bad : t \subseteq s => t = s
    <2>1. Bad \in SUBSET SUBSET S OBVIOUS
    <2> HIDE DEF Bad
    <2> QED BY <2>1, LeastSet
<1>2. s # {} BY SumEmpty
<1>3. IsFiniteSet(s) /\ AnyOf(s) \in s BY <1>2, AnyIsIn, FS_Subset
<1>4. SumFunctionOnSet(f, s \ {AnyOf(s)}) \in Int /\ f[AnyOf(s)] \in Int
    BY <1>1, <1>3
<1> QED BY <1>2, <1>3, <1>4, SumAny

(* Natural numbers add up to a natural number. *)
LEMMA SumNat ==
    ASSUME NEW S, IsFiniteSet(S), NEW f, \A x \in S : f[x] \in Nat
    PROVE  SumFunctionOnSet(f, S) \in Nat
<1> DEFINE Bad == {s \in SUBSET S : SumFunctionOnSet(f, s) \notin Nat}
<1> SUFFICES ASSUME Bad # {} PROVE FALSE
    OBVIOUS
<1>1. PICK s \in Bad : \A t \in Bad : t \subseteq s => t = s
    <2>1. Bad \in SUBSET SUBSET S OBVIOUS
    <2> HIDE DEF Bad
    <2> QED BY <2>1, LeastSet
<1>2. s # {} BY SumEmpty
<1>3. IsFiniteSet(s) /\ AnyOf(s) \in s BY <1>2, AnyIsIn, FS_Subset
<1>4. SumFunctionOnSet(f, s \ {AnyOf(s)}) \in Nat /\ f[AnyOf(s)] \in Nat
    BY <1>1, <1>3
<1> QED BY <1>2, <1>3, <1>4, SumAny

(* It does not matter which element is taken out. *)
LEMMA SumRemove ==
    ASSUME NEW S, IsFiniteSet(S), NEW f, \A x \in S : f[x] \in Int, NEW e \in S
    PROVE  SumFunctionOnSet(f, S) = f[e] + SumFunctionOnSet(f, S \ {e})
<1> DEFINE sum(s) == SumFunctionOnSet(f, s)
           Bad == {s \in SUBSET S : \E x \in s : sum(s) # f[x] + sum(s \ {x})}
<1> SUFFICES ASSUME Bad # {} PROVE FALSE
    OBVIOUS
<1>1. PICK s \in Bad : \A t \in Bad : t \subseteq s => t = s
    <2>1. Bad \in SUBSET SUBSET S OBVIOUS
    <2> HIDE DEF Bad
    <2> QED BY <2>1, LeastSet
<1>2. PICK x \in s : sum(s) # f[x] + sum(s \ {x})
    OBVIOUS
<1> DEFINE y == AnyOf(s)
<1>3. \A t \in SUBSET S : IsFiniteSet(t) BY FS_Subset
<1>4. y \in s /\ sum(s) = f[y] + sum(s \ {y})
    BY <1>2, <1>3, AnyIsIn, SumAny
<1>5. x # y BY <1>2, <1>4
<1> HIDE DEF y
<1>6. sum(s \ {y}) = f[x] + sum((s \ {y}) \ {x})
    <2>1. s \ {y} \notin Bad BY <1>1, <1>4
    <2> QED BY <2>1, <1>5
<1>7. sum(s \ {x}) = f[y] + sum((s \ {x}) \ {y})
    <2>1. s \ {x} \notin Bad BY <1>1, <1>2
    <2> QED BY <2>1, <1>4, <1>5
<1>8. (s \ {y}) \ {x} = (s \ {x}) \ {y} OBVIOUS
<1>9. f[x] \in Int /\ f[y] \in Int /\ sum((s \ {x}) \ {y}) \in Int
    <2>1. (s \ {x}) \ {y} \in SUBSET S OBVIOUS
    <2> QED BY <1>3, <1>4, <2>1, SumType
<1> HIDE DEF sum
<1> QED BY <1>2, <1>4, <1>6, <1>7, <1>8, <1>9

(* No natural number is more than a sum it is part of. *)
LEMMA PartOfSum ==
    ASSUME NEW S, IsFiniteSet(S), NEW f, \A x \in S : f[x] \in Nat, NEW e \in S
    PROVE  f[e] <= SumFunctionOnSet(f, S)
<1>1. SumFunctionOnSet(f, S) = f[e] + SumFunctionOnSet(f, S \ {e})
    BY SumRemove
<1>2. SumFunctionOnSet(f, S \ {e}) \in Nat
    <2>1. IsFiniteSet(S \ {e}) /\ \A x \in S \ {e} : f[x] \in Nat BY FS_Subset
    <2> QED BY <2>1, SumNat
<1>3. f[e] \in Nat OBVIOUS
<1> QED BY <1>1, <1>2, <1>3

(* If nothing is less, the sum is not less. *)
LEMMA SumMonotone ==
    ASSUME NEW S, IsFiniteSet(S), NEW f, NEW g,
           \A x \in S : f[x] \in Int /\ g[x] \in Int /\ f[x] <= g[x]
    PROVE  SumFunctionOnSet(f, S) <= SumFunctionOnSet(g, S)
<1> DEFINE Bad == {s \in SUBSET S : ~(SumFunctionOnSet(f, s) <= SumFunctionOnSet(g, s))}
<1> SUFFICES ASSUME Bad # {} PROVE FALSE
    OBVIOUS
<1>1. PICK s \in Bad : \A t \in Bad : t \subseteq s => t = s
    <2>1. Bad \in SUBSET SUBSET S OBVIOUS
    <2> HIDE DEF Bad
    <2> QED BY <2>1, LeastSet
<1>2. s # {} BY SumEmpty
<1> DEFINE y == AnyOf(s)
<1>3. IsFiniteSet(s) /\ IsFiniteSet(s \ {y}) /\ y \in s
    BY <1>2, AnyIsIn, FS_Subset
<1> HIDE DEF y
<1>4. /\ SumFunctionOnSet(f, s) = f[y] + SumFunctionOnSet(f, s \ {y})
      /\ SumFunctionOnSet(g, s) = g[y] + SumFunctionOnSet(g, s \ {y})
    BY <1>3, SumRemove
<1>5. SumFunctionOnSet(f, s \ {y}) <= SumFunctionOnSet(g, s \ {y})
    BY <1>1, <1>3
<1>6. SumFunctionOnSet(f, s \ {y}) \in Int /\ SumFunctionOnSet(g, s \ {y}) \in Int
    BY <1>3, SumType
<1> QED BY <1>3, <1>4, <1>5, <1>6

(* If nothing is more but for one each in K, the sum is no more but for those. *)
LEMMA SumRaised ==
    ASSUME NEW S, IsFiniteSet(S), NEW K, IsFiniteSet(K), NEW f, NEW g,
           \A x \in S : /\ f[x] \in Int /\ g[x] \in Int
                        /\ g[x] <= f[x] + (IF x \in K THEN 1 ELSE 0)
    PROVE  SumFunctionOnSet(g, S) <= SumFunctionOnSet(f, S) + Cardinality(K)
<1> DEFINE Raised(s) == SumFunctionOnSet(g, s)
                            <= SumFunctionOnSet(f, s) + Cardinality(K \cap s)
           Bad == {s \in SUBSET S : ~Raised(s)}
<1>0. \A s \in SUBSET S : /\ IsFiniteSet(K \cap s) /\ Cardinality(K \cap s) \in Nat
                          /\ Cardinality(K \cap s) <= Cardinality(K)
    BY FS_Subset, FS_CardinalityType
<1>1. Bad = {}
    <2> SUFFICES ASSUME Bad # {} PROVE FALSE
        OBVIOUS
    <2>1. PICK s \in Bad : \A t \in Bad : t \subseteq s => t = s
        <3>1. Bad \in SUBSET SUBSET S OBVIOUS
        <3> HIDE DEF Bad
        <3> QED BY <3>1, LeastSet
    <2>2. s \in SUBSET S /\ ~Raised(s) /\ IsFiniteSet(s) BY FS_Subset
    <2>3. s # {}
        <3> SUFFICES ASSUME s = {} PROVE FALSE
            OBVIOUS
        <3>1. K \cap s = {} /\ Cardinality({}) = 0 BY FS_EmptySet
        <3> QED BY <2>2, <3>1, SumEmpty
    <2>4. PICK y \in s : TRUE BY <2>3
    <2> DEFINE t == s \ {y}
    <2>5. t \in SUBSET S /\ Raised(t) /\ IsFiniteSet(t) BY <2>1, <2>2, <2>4, FS_Subset
    <2>6. /\ SumFunctionOnSet(f, s) = f[y] + SumFunctionOnSet(f, t)
          /\ SumFunctionOnSet(g, s) = g[y] + SumFunctionOnSet(g, t)
        BY <2>2, <2>4, SumRemove
    <2>7. SumFunctionOnSet(f, t) \in Int /\ SumFunctionOnSet(g, t) \in Int
        BY <2>5, SumType
    <2>8. Cardinality(K \cap s) = Cardinality(K \cap t) + (IF y \in K THEN 1 ELSE 0)
        <3> DEFINE C == K \cap s
        <3>0. K \cap t = C \ {y} BY <2>4
        <3>1. y \in K <=> y \in C BY <2>4
        <3>2. IsFiniteSet(C) /\ Cardinality(C) \in Nat BY <1>0, <2>2
        <3> HIDE DEF C
        <3>3. Cardinality(C \ {y})
                = IF y \in C THEN Cardinality(C) - 1 ELSE Cardinality(C)
            BY <3>2, FS_RemoveElement
        <3>4. Cardinality(C) = Cardinality(K \cap t) + (IF y \in K THEN 1 ELSE 0)
            <4> DEFINE less == C \ {y}
            <4>1. K \cap t = less /\ IsFiniteSet(less) BY <3>0, <3>2, FS_Subset
            <4> HIDE DEF less, t
            <4>2. Cardinality(K \cap t) = Cardinality(less) BY <4>1
            <4>3. Cardinality(less) = IF y \in C THEN Cardinality(C) - 1 ELSE Cardinality(C)
                BY <3>3 DEF less
            <4>4. CASE y \in K BY <3>1, <3>2, <4>2, <4>3, <4>4
            <4>5. CASE y \notin K BY <3>1, <3>2, <4>2, <4>3, <4>5
            <4> QED BY <4>4, <4>5
        <3> QED BY <3>4 DEF C
    <2>9. /\ f[y] \in Int /\ g[y] \in Int /\ g[y] <= f[y] + (IF y \in K THEN 1 ELSE 0)
          /\ Cardinality(K \cap t) \in Nat
        BY <1>0, <2>2, <2>4, <2>5
    <2> HIDE DEF t, Bad
    <2> QED BY <2>2, <2>5, <2>6, <2>7, <2>8, <2>9
<1>2. Raised(S) BY <1>1
<1>3. SumFunctionOnSet(f, S) \in Int /\ SumFunctionOnSet(g, S) \in Int BY SumType
<1>4. S \in SUBSET S OBVIOUS
<1>5. Cardinality(K \cap S) <= Cardinality(K) /\ Cardinality(K) \in Nat
      /\ Cardinality(K \cap S) \in Nat
    BY <1>0, <1>4, FS_CardinalityType
<1> QED BY <1>2, <1>3, <1>5

(* Nothings add up to nothing. *)
LEMMA SumOfNothing ==
    ASSUME NEW S, IsFiniteSet(S), NEW f, \A x \in S : f[x] = 0
    PROVE  SumFunctionOnSet(f, S) = 0
<1> DEFINE Bad == {s \in SUBSET S : SumFunctionOnSet(f, s) # 0}
<1> SUFFICES ASSUME Bad # {} PROVE FALSE
    OBVIOUS
<1>1. PICK s \in Bad : \A t \in Bad : t \subseteq s => t = s
    <2>1. Bad \in SUBSET SUBSET S OBVIOUS
    <2> HIDE DEF Bad
    <2> QED BY <2>1, LeastSet
<1>2. s # {} BY SumEmpty
<1>3. IsFiniteSet(s) /\ AnyOf(s) \in s BY <1>2, AnyIsIn, FS_Subset
<1>4. SumFunctionOnSet(f, s \ {AnyOf(s)}) = 0 /\ f[AnyOf(s)] = 0
    BY <1>1, <1>3
<1> QED BY <1>2, <1>3, <1>4, SumAny

(* A set that is cut in two has the sum of both parts. *)
LEMMA SumSplit ==
    ASSUME NEW S, IsFiniteSet(S), NEW f, \A x \in S : f[x] \in Int,
           NEW A \in SUBSET S
    PROVE  SumFunctionOnSet(f, S)
             = SumFunctionOnSet(f, A) + SumFunctionOnSet(f, S \ A)
<1> DEFINE sum(s) == SumFunctionOnSet(f, s)
           Bad == {s \in SUBSET A : sum(S) # sum(s) + sum(S \ s)}
<1> SUFFICES ASSUME Bad # {} PROVE FALSE
    OBVIOUS
<1>0. \A t \in SUBSET S : IsFiniteSet(t) /\ sum(t) \in Int
    BY FS_Subset, SumType
<1>1. PICK s \in Bad : \A t \in Bad : t \subseteq s => t = s
    <2>1. Bad \in SUBSET SUBSET S OBVIOUS
    <2> HIDE DEF Bad
    <2> QED BY <2>1, LeastSet
<1>2. s # {}
    <2>1. sum(S) = 0 + sum(S \ {}) BY <1>0
    <2> QED BY <2>1, SumEmpty
<1>3. PICK y \in s : TRUE BY <1>2
<1>4. sum(S) = sum(s \ {y}) + sum(S \ (s \ {y}))
    BY <1>1
<1>5. sum(s) = f[y] + sum(s \ {y})
    BY <1>0, SumRemove
<1>6. sum(S \ (s \ {y})) = f[y] + sum(S \ s)
    <2>1. (S \ (s \ {y})) \ {y} = S \ s OBVIOUS
    <2> QED BY <1>0, <2>1, SumRemove
<1>7. /\ sum(s \ {y}) \in Int /\ sum(S \ s) \in Int /\ f[y] \in Int
      /\ sum(S) # sum(s) + sum(S \ s)
    BY <1>0
<1> HIDE DEF sum
<1> QED BY <1>4, <1>5, <1>6, <1>7

(* Sums of differences are differences of sums. *)
LEMMA SumDifference ==
    ASSUME NEW S, IsFiniteSet(S), NEW f, NEW g, NEW h,
           \A x \in S : f[x] \in Int /\ g[x] \in Int /\ h[x] = f[x] - g[x]
    PROVE  SumFunctionOnSet(h, S) = SumFunctionOnSet(f, S) - SumFunctionOnSet(g, S)
<1> DEFINE Same(T) == SumFunctionOnSet(h, T)
                        = SumFunctionOnSet(f, T) - SumFunctionOnSet(g, T)
           Bad == {T \in SUBSET S : ~Same(T)}
<1> SUFFICES ASSUME Bad # {} PROVE FALSE
    OBVIOUS
<1>1. PICK T \in Bad : \A U \in Bad : U \subseteq T => U = T
    <2>1. Bad \in SUBSET SUBSET S OBVIOUS
    <2> HIDE DEF Bad
    <2> QED BY <2>1, LeastSet
<1>2. T \in SUBSET S /\ ~Same(T) /\ IsFiniteSet(T)
    BY FS_Subset
<1>3. PICK x \in T : TRUE
    <2>1. T # {}
        <3> SUFFICES ASSUME T = {} PROVE FALSE
            OBVIOUS
        <3>1. /\ SumFunctionOnSet(h, {}) = 0 /\ SumFunctionOnSet(f, {}) = 0
              /\ SumFunctionOnSet(g, {}) = 0
            BY SumEmpty
        <3> QED BY <1>2, <3>1
    <2> QED BY <2>1
<1> DEFINE U == T \ {x}
<1>4. Same(U)
    <2>1. U \in SUBSET S /\ U \subseteq T /\ U # T BY <1>2, <1>3
    <2> HIDE DEF Same, U
    <2> QED BY <1>1, <2>1
<1>5. \A y \in T : f[y] \in Int /\ g[y] \in Int /\ h[y] \in Int
    BY <1>2
<1>6. /\ SumFunctionOnSet(h, T) = h[x] + SumFunctionOnSet(h, U)
      /\ SumFunctionOnSet(f, T) = f[x] + SumFunctionOnSet(f, U)
      /\ SumFunctionOnSet(g, T) = g[x] + SumFunctionOnSet(g, U)
    <2> HIDE DEF Bad, Same
    <2> QED BY <1>2, <1>3, <1>5, SumRemove
<1>7. /\ SumFunctionOnSet(f, U) \in Int /\ SumFunctionOnSet(g, U) \in Int
      /\ SumFunctionOnSet(h, U) \in Int
    <2>1. IsFiniteSet(U) /\ \A y \in U : f[y] \in Int /\ g[y] \in Int /\ h[y] \in Int
        BY <1>2, <1>5, FS_Subset
    <2> HIDE DEF U
    <2> QED BY <2>1, SumType
<1>8. f[x] \in Int /\ g[x] \in Int /\ h[x] = f[x] - g[x] BY <1>2, <1>3
<1> HIDE DEF U
<1> QED BY <1>2, <1>4, <1>6, <1>7, <1>8
=============================================================================
