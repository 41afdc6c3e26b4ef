----------------------------- MODULE StoreProofs -----------------------------
(***************************************************************************)
(* Store for any masters, names, scopes and number of rounds: whose        *)
(* evidence a record holds, who reads it, who changes it, and when it goes.*)
(***************************************************************************)
EXTENDS Store, TLAPS

LEMMA PoolsAreKeys ==
    \A p \in Pools :
        /\ p \in Keys /\ p[1] \in Masters /\ p[1] # NoMaster /\ p[2] \in Names
        /\ p = <<p[1], p[2]>>
        /\ OldKey(p) \in Keys /\ OldKey(p)[1] = NoMaster /\ OldKey(p)[2] = p[2]
        /\ OldKey(p) \notin Pools
BY PoolAssumption, MasterAssumption DEF Keys, Scopes, OldKey, PoolKey

LEMMA OldIsNoPool == Old \notin Pools
BY MasterAssumption DEF Old

LEMMA NewRecord == [of |-> {}, missed |-> 0] \in Record /\ OldRecord \in Record
BY ForgetAssumption DEF Record, OldRecord

(* What forWriting does to one key. *)
LEMMA ForWritingAt ==
    ASSUME NEW st \in Stores, NEW pools \in SUBSET Pools, NEW first, NEW k \in Keys
    PROVE  LET new == ForWriting(st, pools, first)[k] IN
           /\ k \in Adopters(st, pools, first) => new = st[OldKey(k)] /\ new \in Record
           /\ k \notin Adopters(st, pools, first) =>
                  \/ new = st[k]
                  \/ new = Absent /\ k \notin Pools
                  \/ k \in pools /\ st[k] = Absent /\ new = [of |-> {}, missed |-> 0]
           /\ k \in pools => new \in Record
           /\ new \in Record \cup {Absent}
<1>1. \A h \in Adopters(st, pools, first) :
          h \in Pools /\ h \in pools /\ st[OldKey(h)] \in Record
    BY PoolsAreKeys DEF Adopters, Stores
<1>2. \A h \in Adopters(st, pools, first) : OldKey(h) \notin Pools
    BY <1>1, PoolsAreKeys
<1>3. st[k] \in Record \cup {Absent}
    BY DEF Stores
<1>4. k \in pools => k \notin {OldKey(h) : h \in Adopters(st, pools, first)}
    BY <1>2
<1>q. QED
    BY <1>1, <1>2, <1>3, <1>4, NewRecord DEF ForWriting

LEMMA ForWritingType ==
    ASSUME NEW st \in Stores, NEW pools \in SUBSET Pools, NEW first
    PROVE  ForWriting(st, pools, first) \in Stores
<1>1. \A k \in Keys : ForWriting(st, pools, first)[k] \in Record \cup {Absent}
    BY ForWritingAt
<1>2. ForWriting(st, pools, first) = [k \in Keys |-> ForWriting(st, pools, first)[k]]
    BY DEF ForWriting
<1>q. QED
    BY <1>1, <1>2 DEF Stores

LEMMA LearnType ==
    ASSUME NEW st \in Stores, NEW pools \in SUBSET Pools, NEW first
    PROVE  /\ Learn(st, pools, first) \in Stores
           /\ \A k \in pools : Learn(st, pools, first)[k] # Absent
<1> DEFINE made == ForWriting(st, pools, first)
<1>1. \A k \in pools : k \in Keys /\ made[k] \in Record
    BY ForWritingAt, PoolsAreKeys
<1>2. \A k \in pools : [made[k] EXCEPT !.of = @ \cup {k}] \in Record
    BY <1>1 DEF Record
<1>3. made \in Stores
    BY ForWritingType
<1> HIDE DEF made
<1>4. Learn(st, pools, first) =
          [k \in Keys |-> IF k \in pools THEN [made[k] EXCEPT !.of = @ \cup {k}] ELSE made[k]]
    BY DEF Learn, made
<1>q. QED
    BY <1>1, <1>2, <1>3, <1>4, AbsentAssumption DEF Stores

LEMMA ForgetType ==
    ASSUME NEW st \in Stores, NEW names, NEW scope
    PROVE  Forget(st, names, scope) \in Stores
<1>1. ASSUME NEW k \in Keys, st[k] # Absent
      PROVE  /\ st[k] \in Record /\ [st[k] EXCEPT !.missed = 0] \in Record
             /\ st[k].missed + 1 < ForgetAfter => [st[k] EXCEPT !.missed = @ + 1] \in Record
    BY <1>1, ForgetAssumption DEF Stores, Record
<1>q. QED
    BY <1>1 DEF Forget, Stores

LEMMA NothingType == Nothing \in Stores
BY DEF Nothing, Stores

LEMMA SessionType == Processes \subseteq Sessions
BY ScopeAssumption DEF Processes, Sessions, Kinds

LEMMA TypeStep == TypeOK /\ [Next]_vars => TypeOK'
<1> SUFFICES ASSUME TypeOK, [Next]_vars PROVE TypeOK'
    OBVIOUS
<1> USE DEF TypeOK
<1>e. Event \/ UNCHANGED events => events' \in 0 .. MaxEvents
    BY ForgetAssumption DEF Event
<1>x. Exit => /\ session' \in Sessions \cup {None} /\ views' \subseteq Pools /\ mem' \in Stores
              /\ unseen' \in [Pools -> 0 .. ForgetAfter \cup {Never}]
    BY NothingType DEF Exit
<1>1. ASSUME NEW s \in Processes, Begin(s) PROVE TypeOK'
    BY <1>1, SessionType DEF Begin, Loaded
<1>2. ASSUME NEW parsed, NEW answering, NEW first, Observe(parsed, answering, first)
      PROVE  TypeOK'
    <2>1. views' \subseteq Pools /\ answering \in SUBSET Pools
        BY <1>2 DEF Observe, InScope
    <2>2. mem' \in Stores
        BY <1>2, <2>1, LearnType, ForgetType DEF Observe
    <2>3. unseen' \in [Pools -> 0 .. ForgetAfter \cup {Never}]
        <3>1. \A k \in Pools : unseen[k] \notin {Never, ForgetAfter} =>
                  unseen[k] + 1 \in 0 .. ForgetAfter
            BY ForgetAssumption
        <3>q. QED
            BY <1>2, <3>1, ForgetAssumption DEF Observe
    <2>q. QED
        BY <1>2, <2>1, <2>2, <2>3 DEF Observe
<1>3. ASSUME NEW applied, NEW first, Finish(applied, first) PROVE TypeOK'
    <2>1. applied \in SUBSET Pools
        BY <1>3 DEF Finish
    <2>2. ForWriting(mem, applied, first) \in Stores
        BY <2>1, ForWritingType
    <2>q. QED
        BY <1>3, <2>2 DEF Finish
<1>4. CASE Return \/ Stop \/ NothingFound \/ Kill
    BY <1>4, <1>e, <1>x DEF Return, Stop, NothingFound, Kill
<1>5. CASE ChangePools
    BY <1>5, <1>e DEF ChangePools
<1>6. CASE UNCHANGED vars
    BY <1>6 DEF vars
<1>q. QED
    BY <1>1, <1>2, <1>3, <1>4, <1>5, <1>6 DEF Next

(* Every state is well-formed. *)
THEOREM TypeCorrect == Spec => []TypeOK
<1>1. ASSUME Init PROVE TypeOK
    <2>1. disk \in Stores
        BY <1>1, NewRecord DEF Init, Stores
    <2>2. present \subseteq Pools /\ unseen \in [Pools -> 0 .. ForgetAfter \cup {Never}]
        BY <1>1, PoolAssumption DEF Init
    <2>q. QED
        BY <1>1, <2>1, <2>2, NothingType, ForgetAssumption DEF Init, TypeOK
<1>q. QED
    BY <1>1, TypeStep, PTL DEF Spec

-----------------------------------------------------------------------------
(* Whose evidence.                                                         *)

Own(st) ==
    /\ \A k \in Keys : st[k] # Absent => st[k].of \subseteq {k, Old}
    /\ \A n \in Names : \A j, k \in Heirs(st, n) : j = k

LEMMA OldRecordsAreOld ==
    ASSUME NEW st \in Stores, Own(st), NEW p \in Pools, st[OldKey(p)] # Absent
    PROVE  st[OldKey(p)].of \subseteq {Old}
<1>1. OldKey(p) \in Keys /\ OldKey(p) \notin Pools
    BY PoolsAreKeys
<1>2. st[OldKey(p)] \in Record
    BY <1>1 DEF Stores
<1>3. st[OldKey(p)].of \subseteq {OldKey(p), Old} /\ st[OldKey(p)].of \subseteq Pools \cup {Old}
    BY <1>1, <1>2 DEF Own, Record
<1>q. QED
    BY <1>1, <1>3

LEMMA ForWritingOwn ==
    ASSUME NEW st \in Stores, Own(st), NEW pools \in SUBSET Pools, NEW first
    PROVE  Own(ForWriting(st, pools, first))
<1> DEFINE made == ForWriting(st, pools, first)
           heirs == Adopters(st, pools, first)
<1>0. \A h \in heirs : /\ h \in Pools /\ h \in Keys /\ st[OldKey(h)] # Absent
                       /\ first[h[2]] = h[1] /\ OldKey(h) \in Keys /\ OldKey(h)[2] = h[2]
                       /\ OldKey(h) \notin heirs /\ h = <<h[1], h[2]>>
    BY PoolsAreKeys DEF Adopters
<1>1. ASSUME NEW k \in Keys, made[k] # Absent
      PROVE  \/ k \in heirs /\ made[k] = st[OldKey(k)]
             \/ k \notin {OldKey(h) : h \in heirs} /\ made[k] = st[k] /\ k \notin heirs
             \/ made[k].of = {} /\ k \notin heirs
    BY <1>1 DEF ForWriting
<1>2. ASSUME NEW k \in Keys, made[k] # Absent PROVE made[k].of \subseteq {k, Old}
    BY <1>0, <1>1, <1>2, OldRecordsAreOld DEF Own
<1>3. ASSUME NEW n \in Names, NEW k \in Heirs(made, n)
      PROVE  \/ k \in heirs /\ k = <<first[n], n>> /\ OldKey(k) \in Heirs(st, n)
             \/ k \in Heirs(st, n) /\ k \notin {OldKey(h) : h \in heirs}
    <2>1. k \in Keys /\ k[2] = n /\ made[k] # Absent /\ Old \in made[k].of
        BY <1>3 DEF Heirs
    <2>2. CASE k \in heirs /\ made[k] = st[OldKey(k)]
        BY <2>1, <2>2, <1>0 DEF Heirs
    <2>3. CASE k \notin {OldKey(h) : h \in heirs} /\ made[k] = st[k]
        BY <2>1, <2>3 DEF Heirs
    <2>q. QED
        BY <2>1, <2>2, <2>3, <1>1
<1>4. ASSUME NEW n \in Names, NEW j \in Heirs(made, n), NEW k \in Heirs(made, n) PROVE j = k
    BY <1>3, <1>0 DEF Own
<1>q. QED
    BY <1>2, <1>4 DEF Own

LEMMA LearnOwn ==
    ASSUME NEW st \in Stores, Own(st), NEW pools \in SUBSET Pools, NEW first
    PROVE  Own(Learn(st, pools, first))
<1> DEFINE made == ForWriting(st, pools, first)
           new == Learn(st, pools, first)
<1>1. Own(made) /\ made \in Stores
    BY ForWritingOwn, ForWritingType
<1>2. ASSUME NEW k \in Keys, new[k] # Absent
      PROVE  /\ made[k] # Absent /\ new[k].of \subseteq made[k].of \cup {k}
             /\ Old \in new[k].of => Old \in made[k].of
    <2>1. CASE k \in pools
        <3>1. made[k] \in Record /\ k # Old
            BY <2>1, ForWritingAt, PoolsAreKeys, MasterAssumption, OldIsNoPool
        <3>2. new[k] = [made[k] EXCEPT !.of = @ \cup {k}]
            BY <2>1 DEF Learn
        <3>3. new[k].of = made[k].of \cup {k}
            BY <3>1, <3>2 DEF Record
        <3>q. QED
            BY <3>1, <3>3, AbsentAssumption
    <2>2. CASE k \notin pools
        BY <1>2, <2>2 DEF Learn
    <2>q. QED
        BY <2>1, <2>2
<1>3. \A n \in Names : Heirs(new, n) \subseteq Heirs(made, n)
    BY <1>2 DEF Heirs
<1>q. QED
    BY <1>1, <1>2, <1>3 DEF Own

LEMMA ForgetOwn ==
    ASSUME NEW st \in Stores, Own(st), NEW names, NEW scope
    PROVE  Own(Forget(st, names, scope))
<1> DEFINE new == Forget(st, names, scope)
<1>1. ASSUME NEW k \in Keys, new[k] # Absent PROVE st[k] # Absent /\ new[k].of = st[k].of
    <2>1. st[k] # Absent /\ st[k] \in Record
        BY <1>1 DEF Forget, Stores
    <2>2. new[k] \in {st[k], [st[k] EXCEPT !.missed = 0], [st[k] EXCEPT !.missed = @ + 1]}
        BY <1>1 DEF Forget
    <2>q. QED
        BY <2>1, <2>2 DEF Record
<1>2. \A n \in Names : Heirs(new, n) \subseteq Heirs(st, n)
    BY <1>1 DEF Heirs
<1>q. QED
    BY <1>1, <1>2 DEF Own

LEMMA OwnStep == TypeOK /\ Own(disk) /\ Own(mem) /\ [Next]_vars => Own(disk)' /\ Own(mem)'
<1> SUFFICES ASSUME TypeOK, Own(disk), Own(mem), [Next]_vars PROVE Own(disk') /\ Own(mem')
    BY DEF Own, Heirs
<1>0. Own(Nothing) /\ disk \in Stores /\ mem \in Stores
    BY DEF Own, Heirs, Nothing, TypeOK
<1>1. ASSUME NEW parsed, NEW answering, NEW first, Observe(parsed, answering, first)
      PROVE  Own(disk') /\ Own(mem')
    <2>1. answering \in SUBSET Pools
        BY <1>1 DEF Observe, InScope, TypeOK
    <2>2. Own(Learn(mem, answering, first)) /\ Learn(mem, answering, first) \in Stores
        BY <1>0, <2>1, LearnOwn, LearnType
    <2>3. \A names, scope : Own(Forget(Learn(mem, answering, first), names, scope))
        BY <2>2, ForgetOwn
    <2>4. disk' = disk /\ \/ mem' = mem
                          \/ mem' = Learn(mem, answering, first)
                          \/ \E names, scope : mem' = Forget(Learn(mem, answering, first), names, scope)
        BY <1>1 DEF Observe
    <2>q. QED
        BY <2>2, <2>3, <2>4
<1>2. ASSUME NEW applied, NEW first, Finish(applied, first)
      PROVE  Own(disk') /\ Own(mem')
    <2>1. applied \in SUBSET Pools
        BY <1>2 DEF Finish, TypeOK
    <2>2. Own(ForWriting(mem, applied, first))
        BY <1>0, <2>1, ForWritingOwn
    <2>q. QED
        BY <1>2, <2>2 DEF Finish
<1>3. ASSUME ~\E parsed, answering, first : Observe(parsed, answering, first),
             ~\E applied, first : Finish(applied, first)
      PROVE  disk' \in {disk, mem} /\ mem' \in {disk, mem, Nothing}
    BY <1>3 DEF Next, Begin, Loaded, Return, Stop, NothingFound, Kill, ChangePools, Exit, vars
<1>q. QED
    BY <1>0, <1>1, <1>2, <1>3

(* Whatever the masters, the scopes and the order of rounds, a record holds
   its own pool's evidence, and the history of a name has one heir. *)
THEOREM HistoryOwn == Spec => []HistoryIsOwn
<1>1. Init => Own(disk) /\ Own(mem)
    BY DEF Init, Own, Heirs, Nothing, OldRecord, Keys
<1>2. Own(disk) /\ Own(mem) => HistoryIsOwn
    BY DEF Own, HistoryIsOwn
<1>q. QED
    BY <1>1, <1>2, OwnStep, TypeCorrect, PTL DEF Spec

(* Two pools of one plan read two records, or none. *)
THEOREM NothingShared == Spec => []NothingSharedInAPlan
<1>1. TypeOK => NothingSharedInAPlan
    <2> SUFFICES ASSUME TypeOK, NEW p \in views, NEW q \in views, p # q,
                        PlannedFrom(mem, p, views) = PlannedFrom(mem, q, views)
                 PROVE  PlannedFrom(mem, p, views) = None
        BY DEF NothingSharedInAPlan
    <2>1. p \in Pools /\ q \in Pools
        BY DEF TypeOK
    <2>q. QED
        BY <2>1, PoolsAreKeys DEF PlannedFrom, Ambiguous, OldKey, PoolKey
<1>q. QED
    BY <1>1, TypeCorrect, PTL

-----------------------------------------------------------------------------
(* Who changes it, and when it goes.                                       *)

(* What a round of process s looks at is in its scope. *)
LEMMA RoundInScope ==
    ASSUME TypeOK, NEW parsed, NEW answering, NEW first, Observe(parsed, answering, first)
    PROVE  /\ answering \in SUBSET Pools /\ answering \subseteq views'
           /\ session.scope # NoMaster => \A k \in views' : k[1] = session.scope
BY DEF Observe, InScope, TypeOK

(* Learning touches the keys that answered, and old ones. *)
LEMMA LearnElsewhere ==
    ASSUME NEW st \in Stores, NEW pools \in SUBSET Pools, NEW first,
           NEW k \in Pools, k \notin pools
    PROVE  Learn(st, pools, first)[k] = st[k]
<1>1. k \in Keys /\ k \notin Adopters(st, pools, first)
    BY PoolsAreKeys DEF Adopters
<1>2. k \notin {OldKey(h) : h \in Adopters(st, pools, first)}
    BY PoolsAreKeys DEF Adopters
<1>q. QED
    BY <1>1, <1>2 DEF Learn, ForWriting

(* A scoped process leaves the other masters' records as they are. *)
THEOREM OthersAlone == Spec => OthersLeftAlone
<1>1. TypeOK /\ [Next]_vars =>
          [views = {} /\ views' # {} /\ session.scope # NoMaster =>
               \A k \in Pools : k[1] # session.scope => mem'[k] = mem[k]]_vars
    <2> SUFFICES ASSUME TypeOK, Next, views = {}, views' # {}, session.scope # NoMaster,
                        NEW k \in Pools, k[1] # session.scope
                 PROVE  mem'[k] = mem[k]
        OBVIOUS
    <2>1. PICK parsed, answering, first : Observe(parsed, answering, first)
        BY DEF Next, Begin, Finish, Return, Stop, NothingFound, Kill, ChangePools, Exit
    <2>2. k \notin answering /\ answering \in SUBSET Pools
        BY <2>1, RoundInScope
    <2>3. Learn(mem, answering, first)[k] = mem[k] /\ k \in Keys
        BY <2>2, LearnElsewhere, PoolsAreKeys DEF TypeOK
    <2>4. \A names : Forget(Learn(mem, answering, first), names, session.scope)[k]
                         = Learn(mem, answering, first)[k]
        BY <2>3 DEF Forget
    <2>q. QED
        BY <2>1, <2>3, <2>4 DEF Observe
<1>q. QED
    BY <1>1, TypeCorrect, PTL DEF Spec, OthersLeftAlone

(* While a daemon has the file, the rounds counted against a record it has
   seen are rounds that it has gone by without. *)
Counted ==
    /\ session = None => \A k \in Pools : unseen[k] = Never
    /\ session # None /\ session.kind = "daemon" =>
           \A k \in Pools : mem[k] # Absent /\ unseen[k] # Never => mem[k].missed <= unseen[k]

LEMMA MissedFields ==
    ASSUME NEW r \in Record
    PROVE  /\ [r EXCEPT !.missed = 0] \in Record /\ [r EXCEPT !.missed = 0].missed = 0
           /\ r.missed \in Nat
           /\ r.missed + 1 < ForgetAfter =>
                  /\ [r EXCEPT !.missed = @ + 1] \in Record
                  /\ [r EXCEPT !.missed = @ + 1].missed = r.missed + 1
BY ForgetAssumption DEF Record

(* What Forget does to one key. *)
LEMMA ForgetAt ==
    ASSUME NEW st \in Stores, NEW names, NEW scope, NEW k \in Keys, NEW new,
           new = Forget(st, names, scope)[k]
    PROVE  /\ st[k] = Absent => new = Absent
           /\ st[k] # Absent /\ k[2] \in names /\ (scope = NoMaster \/ k[1] = scope) =>
                  new # Absent /\ new.missed = 0
           /\ st[k] # Absent =>
                  \/ new = st[k]
                  \/ new # Absent /\ new.missed = 0
                  \/ new # Absent /\ new.missed = st[k].missed + 1
                  \/ new = Absent /\ ~(st[k].missed + 1 < ForgetAfter)
<1>1. CASE st[k] = Absent
    BY <1>1 DEF Forget
<1>2. CASE st[k] # Absent
    <2>1. st[k] \in Record
        BY <1>2 DEF Stores
    <2>2. CASE scope # NoMaster /\ k[1] # scope
        BY <1>2, <2>2 DEF Forget
    <2>3. CASE ~(scope # NoMaster /\ k[1] # scope) /\ k[2] \in names
        <3>1. new = [st[k] EXCEPT !.missed = 0]
            BY <1>2, <2>3 DEF Forget
        <3>q. QED
            BY <1>2, <2>1, <3>1, MissedFields, AbsentAssumption
    <2>4. CASE ~(scope # NoMaster /\ k[1] # scope) /\ k[2] \notin names
        <3>1. new = IF st[k].missed + 1 < ForgetAfter
                    THEN [st[k] EXCEPT !.missed = @ + 1] ELSE Absent
            BY <1>2, <2>4 DEF Forget
        <3>2. CASE st[k].missed + 1 < ForgetAfter
            <4>1. new = [st[k] EXCEPT !.missed = @ + 1]
                BY <3>1, <3>2
            <4>q. QED
                BY <1>2, <2>1, <2>4, <3>2, <4>1, MissedFields, AbsentAssumption
        <3>3. CASE ~(st[k].missed + 1 < ForgetAfter)
            BY <1>2, <2>4, <3>1, <3>3
        <3>q. QED
            BY <3>2, <3>3
    <2>q. QED
        BY <2>2, <2>3, <2>4
<1>q. QED
    BY <1>1, <1>2

(* One pool's part of a daemon's round. *)
LEMMA CountedAt ==
    ASSUME TypeOK, Counted, NEW parsed, NEW answering, NEW first,
           Observe(parsed, answering, first), session.kind = "daemon", NEW k \in Pools
    PROVE  /\ mem[k] # Absent /\ mem'[k] = Absent => unseen'[k] \in {Never, ForgetAfter}
           /\ mem'[k] # Absent /\ unseen'[k] # Never => mem'[k].missed <= unseen'[k]
<1> DEFINE learned == Learn(mem, answering, first)
           names == {p[2] : p \in views'}
<1>1. answering \in SUBSET Pools /\ k \in Keys /\ learned \in Stores
    BY RoundInScope, PoolsAreKeys, LearnType DEF TypeOK
<1>2. session # None /\ mem \in Stores /\ unseen[k] \in 0 .. ForgetAfter \cup {Never}
    BY DEF Observe, TypeOK
<1>3. mem' = Forget(learned, names, session.scope)
    BY DEF Observe
<1>4. unseen'[k] = IF k \in views' THEN 0
                   ELSE IF unseen[k] \in {Never, ForgetAfter} THEN unseen[k] ELSE unseen[k] + 1
    BY DEF Observe
<1>5. CASE k \in views'
    <2>1. k[2] \in names /\ (session.scope = NoMaster \/ k[1] = session.scope)
        BY <1>5, RoundInScope
    <2>2. /\ learned[k] = Absent => mem'[k] = Absent
          /\ learned[k] # Absent => mem'[k] # Absent /\ mem'[k].missed = 0
        BY <1>1, <1>3, <2>1, ForgetAt
    <2>3. mem[k] # Absent => learned[k] # Absent
        BY <1>1, <1>2, LearnElsewhere, LearnType
    <2>q. QED
        BY <1>4, <1>5, <2>2, <2>3
<1>6. CASE k \notin views'
    <2>1. learned[k] = mem[k]
        BY <1>1, <1>2, <1>6, LearnElsewhere, RoundInScope
    <2>2. mem[k] # Absent => mem[k] \in Record /\ mem[k].missed \in 0 .. ForgetAfter - 1
        BY <1>1, <1>2 DEF Stores, Record
    <2>3. mem[k] # Absent =>
              \/ mem'[k] = mem[k]
              \/ mem'[k] # Absent /\ mem'[k].missed = 0
              \/ mem'[k] # Absent /\ mem'[k].missed = mem[k].missed + 1
              \/ mem'[k] = Absent /\ ~(mem[k].missed + 1 < ForgetAfter)
        BY <1>1, <1>3, <2>1, ForgetAt
    <2>4. mem[k] = Absent => mem'[k] = Absent
        BY <1>1, <1>3, <2>1, ForgetAt
    <2>5. mem[k] # Absent /\ unseen[k] # Never => mem[k].missed <= unseen[k]
        BY <1>2 DEF Counted
    <2>q. QED
        BY <1>2, <1>4, <1>6, <2>2, <2>3, <2>4, <2>5, ForgetAssumption, NeverAssumption
<1>q. QED
    BY <1>5, <1>6

LEMMA CountedStep == TypeOK /\ Counted /\ [Next]_vars => Counted'
<1> SUFFICES ASSUME TypeOK, Counted, [Next]_vars PROVE Counted'
    OBVIOUS
<1>1. ASSUME NEW s \in Processes, Begin(s) PROVE Counted'
    <2>1. \A k \in Pools : unseen[k] = Never
        BY <1>1 DEF Begin, Counted
    <2>q. QED
        BY <1>1, <2>1 DEF Begin, Counted
<1>2. ASSUME NEW parsed, NEW answering, NEW first, Observe(parsed, answering, first)
      PROVE  Counted'
    BY <1>2, CountedAt DEF Counted, Observe
<1>3. ASSUME NEW applied, NEW first, Finish(applied, first) PROVE Counted'
    BY <1>3 DEF Finish, Counted
<1>4. CASE Return \/ Stop \/ NothingFound \/ Kill
    BY <1>4 DEF Return, Stop, NothingFound, Kill, Exit, Counted
<1>5. CASE ChangePools \/ UNCHANGED vars
    BY <1>5 DEF ChangePools, vars, Counted
<1>q. QED
    BY <1>1, <1>2, <1>3, <1>4, <1>5 DEF Next

(* A pool that a process has seen loses its record only after ForgetAfter of
   its rounds without the pool, one after the other. *)
THEOREM ForgottenWhenGone == Spec => ForgottenOnlyWhenGone
<1>1. Init => Counted
    BY DEF Init, Counted
<1>2. TypeOK /\ Counted /\ [Next]_vars =>
          [views = {} /\ views' # {} =>
               \A k \in Pools : mem[k] # Absent /\ mem'[k] = Absent =>
                   unseen'[k] \in {Never, ForgetAfter}]_vars
    <2> SUFFICES ASSUME TypeOK, Counted, Next, views = {}, views' # {},
                        NEW k \in Pools, mem[k] # Absent, mem'[k] = Absent
                 PROVE  unseen'[k] \in {Never, ForgetAfter}
        OBVIOUS
    <2>1. PICK parsed, answering, first : Observe(parsed, answering, first)
        BY DEF Next, Begin, Finish, Return, Stop, NothingFound, Kill, ChangePools, Exit
    <2>2. CASE session.kind = "daemon"
        BY <2>1, <2>2, CountedAt
    <2>3. CASE session.kind # "daemon"
        <3>1. answering \in SUBSET Pools /\ k \in Keys /\ mem \in Stores
            BY <2>1, RoundInScope, PoolsAreKeys DEF TypeOK
        <3>2. mem' \in {mem, Learn(mem, answering, first)}
            BY <2>1, <2>3 DEF Observe
        <3>q. QED
            BY <3>1, <3>2, LearnElsewhere, LearnType
    <2>q. QED
        BY <2>2, <2>3
<1>q. QED
    BY <1>1, <1>2, CountedStep, TypeCorrect, PTL DEF Spec, ForgottenOnlyWhenGone
=============================================================================
