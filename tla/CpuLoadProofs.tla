--------------------------- MODULE CpuLoadProofs ---------------------------
(***************************************************************************)
(* CpuLoad for any pools, pids and bounds: a finished request is read      *)
(* once, and CPU time is credited once.  What a memory holds under a pid   *)
(* is the worker's own count as soon as anything of that worker has been   *)
(* taken, or none where a round could not read it, and until then it may   *)
(* be anybody's (Kin).                                                     *)
(***************************************************************************)
EXTENDS CpuLoad, TLAPS

(* A worker and its children have computed no longer than the box is up, and
   its request was counted. *)
Lived(w) ==
    workers[w] # None =>
        /\ workers[w].ticks + workers[w].kids <= 2 * clock
        /\ workers[w].busy \/ workers[w].last # "none" => workers[w].served > 0

(* What was taken of the worker is what is remembered under its pid. *)
Kin(w) ==
    workers[w] # None =>
        /\ Taken(w).served <= workers[w].served
        /\ Taken(w).ticks <= workers[w].ticks
        /\ Taken(w).served # 0 => mem.seen[workers[w].pool][w] = Taken(w).served
        /\ Taken(w).ticks # 0 => mem.ticks[workers[w].pool][w] \in {0, Taken(w).ticks}

WasRead == mem.at # None => mem.at <= clock

IInv ==
    /\ TypeOK /\ WasRead
    /\ \A w \in Pids : Lived(w) /\ Kin(w)

-----------------------------------------------------------------------------

LEMMA NoneIsOther == None \notin Worker /\ None \notin Truth /\ None \notin Int
BY NoneAssumption

LEMMA BoundsAreNat == {MaxClock, MaxServed, MaxTicks} \subseteq Nat
BY BoundsAssumption DEF MaxTicks

LEMMA TakenType ==
    ASSUME TypeOK, NEW w \in Pids
    PROVE  Taken(w).served \in 0 .. MaxServed /\ Taken(w).ticks \in 0 .. MaxTicks
<1>1. mem.met[w] \in Truth \cup {None}
    BY DEF TypeOK, Memory
<1>q. QED
    BY <1>1, BoundsAssumption, BoundsAreNat DEF Taken, Truth

LEMMA WorkerFields ==
    ASSUME NEW r \in Worker
    PROVE  /\ r.pool \in Pools /\ r.served \in 0 .. MaxServed
           /\ r.ticks \in 0 .. MaxTicks /\ r.kids \in 0 .. MaxTicks
           /\ r.busy \in BOOLEAN /\ r.last \in Requests
BY DEF Worker

LEMMA NoLessonType == NoLesson \in Round
BY BoundsAssumption, BoundsAreNat DEF NoLesson, Round, Points

(* Replacing one worker by another. *)
LEMMA WorkersType ==
    ASSUME TypeOK, NEW w \in Pids, NEW r \in Worker \cup {None},
           workers' = [workers EXCEPT ![w] = r]
    PROVE  workers' \in [Pids -> Worker \cup {None}]
BY DEF TypeOK

LEMMA Stranger ==
    ASSUME TypeOK, NEW w \in Pids, mem' = [mem EXCEPT !.met[w] = None]
    PROVE  /\ mem' \in Memory /\ mem'.met = [mem.met EXCEPT ![w] = None]
           /\ mem'.seen = mem.seen /\ mem'.ticks = mem.ticks /\ mem'.at = mem.at
<1>1. mem \in Memory
    BY DEF TypeOK
<1>2. \A m \in Memory : [m EXCEPT !.met[w] = None] =
        [at |-> m.at, seen |-> m.seen, ticks |-> m.ticks,
         met |-> [m.met EXCEPT ![w] = None]]
    BY DEF Memory
<1>3. \A f \in [Pids -> Truth \cup {None}] :
        [f EXCEPT ![w] = None] \in [Pids -> Truth \cup {None}]
    OBVIOUS
<1>q. QED
    BY <1>1, <1>2, <1>3 DEF Memory

LEMMA EventType == TypeOK /\ (Event \/ UNCHANGED events) => events' \in 0 .. MaxEvents
BY BoundsAssumption, BoundsAreNat DEF TypeOK, Event

(* What changes one worker, and leaves the round without a lesson. *)
LEMMA StepOfAWorker ==
    ASSUME IInv, NEW w \in Pids,
           \/ \E p \in Pools : Spawn(w, p)
           \/ Exits(w) \/ StartRequest(w) \/ FinishRequest(w) \/ Reap(w)
    PROVE  IInv'
<1>. USE NoneIsOther, BoundsAssumption, BoundsAreNat
<1>t. TypeOK /\ WasRead /\ Lived(w) /\ Kin(w)
    BY DEF IInv
<1>r. round' \in Round
    BY NoLessonType DEF Spawn, Exits, StartRequest, FinishRequest, Reap
<1>e. events' \in 0 .. MaxEvents
    BY <1>t, EventType DEF Spawn, Exits, StartRequest, FinishRequest, Reap
<1>c. clock' = clock /\ clock' \in 0 .. MaxClock
    BY <1>t DEF Spawn, Exits, StartRequest, FinishRequest, Reap, TypeOK
<1>w. workers[w] \in Worker \cup {None}
    BY <1>t DEF TypeOK
<1>1. ASSUME NEW r \in Worker \cup {None}, workers' = [workers EXCEPT ![w] = r],
             \/ /\ mem' = mem
                /\ r # None => /\ workers[w] # None /\ r.pool = workers[w].pool
                               /\ r.ticks >= workers[w].ticks
                               /\ r.served >= workers[w].served
             \/ /\ mem' = [mem EXCEPT !.met[w] = None]
                /\ r.served = 0 /\ r.ticks = 0,
             r # None =>
                 /\ r.ticks + r.kids <= 2 * clock
                 /\ r.busy \/ r.last # "none" => r.served > 0
      PROVE  IInv'
    <2>1. workers' \in [Pids -> Worker \cup {None}]
        BY <1>1, <1>t, WorkersType
    <2>2. /\ mem' \in Memory /\ mem'.seen = mem.seen /\ mem'.ticks = mem.ticks
          /\ mem'.at = mem.at
          /\ \/ /\ mem' = mem
                /\ r # None => /\ workers[w] # None /\ r.pool = workers[w].pool
                               /\ r.ticks >= workers[w].ticks
                               /\ r.served >= workers[w].served
             \/ /\ mem'.met = [mem.met EXCEPT ![w] = None]
                /\ r.served = 0 /\ r.ticks = 0
        BY <1>1, <1>t, Stranger DEF TypeOK
    <2>3. TypeOK' /\ WasRead'
        BY <2>1, <2>2, <1>t, <1>c, <1>r, <1>e DEF TypeOK, WasRead
    <2>4. ASSUME NEW v \in Pids PROVE Lived(v)' /\ Kin(v)'
        <3>1. CASE v # w
            <4>1. workers'[v] = workers[v]
                BY <1>1, <1>t, <3>1 DEF TypeOK
            <4>2. Taken(v)' = Taken(v)
                BY <2>2, <3>1, <1>t DEF Taken, TypeOK, Memory
            <4>q. QED
                BY <4>1, <4>2, <2>2, <1>c DEF IInv, Lived, Kin
        <3>2. CASE v = w
            <4>1. workers'[w] = r
                BY <1>1, <1>t DEF TypeOK
            <4>2. Lived(w)'
                BY <4>1, <1>1, <1>c DEF Lived
            <4>3. CASE /\ mem' = mem
                       /\ r # None => /\ workers[w] # None /\ r.pool = workers[w].pool
                                      /\ r.ticks >= workers[w].ticks
                                      /\ r.served >= workers[w].served
                <5>1. Taken(w)' = Taken(w)
                    BY <4>3 DEF Taken
                <5>2. r # None => r \in Worker /\ workers[w] \in Worker
                    BY <1>1, <1>w, <4>3
                <5>3. r # None => /\ {r.served, workers[w].served, Taken(w).served} \subseteq Nat
                                  /\ {r.ticks, workers[w].ticks, Taken(w).ticks} \subseteq Nat
                    BY <5>2, WorkerFields, TakenType, <1>t
                <5>q. QED
                    BY <3>2, <4>1, <4>2, <4>3, <5>1, <5>3, <1>1, <1>t DEF Kin
            <4>4. CASE /\ mem'.met = [mem.met EXCEPT ![w] = None]
                       /\ r.served = 0 /\ r.ticks = 0
                <5>1. mem'.met[w] = None
                    BY <4>4, <1>t DEF TypeOK, Memory
                <5>2. Taken(w)' = [served |-> 0, ticks |-> 0]
                    BY <5>1 DEF Taken
                <5>q. QED
                    BY <3>2, <4>1, <4>2, <4>4, <5>2 DEF Kin
            <4>q. QED
                BY <2>2, <4>3, <4>4
        <3>q. QED
            BY <3>1, <3>2
    <2>q. QED
        BY <2>3, <2>4 DEF IInv
<1>2. ASSUME NEW p \in Pools, Spawn(w, p) PROVE IInv'
    <2>1. NewWorker(p) \in Worker
        BY DEF NewWorker, Worker, Requests
    <2>2. /\ NewWorker(p).served = 0 /\ NewWorker(p).ticks = 0 /\ NewWorker(p).kids = 0
          /\ ~NewWorker(p).busy /\ NewWorker(p).last = "none"
        BY DEF NewWorker
    <2>3. workers' = [workers EXCEPT ![w] = NewWorker(p)] /\ mem' = [mem EXCEPT !.met[w] = None]
        BY <1>2 DEF Spawn
    <2>4. 0 + 0 <= 2 * clock
        BY <1>t DEF TypeOK
    <2>q. QED
        BY <1>1, <2>1, <2>2, <2>3, <2>4
<1>3. CASE Exits(w)
    BY <1>1, <1>3 DEF Exits
<1>4. ASSUME NEW n \in {0, 1}, NEW l \in Requests, workers[w] # None, mem' = mem,
             workers[w].served + n <= MaxServed, n = 0 => workers[w].busy,
             n = 1 => l = "none",
             workers' = [workers EXCEPT ![w] = Working(@, n, l)]
      PROVE  IInv'
    <2>1. workers[w] \in Worker
        BY <1>4, <1>w
    <2> DEFINE r == Working(workers[w], n, l)
    <2>2. /\ r.pool = workers[w].pool /\ r.served = workers[w].served + n
          /\ r.ticks = workers[w].ticks /\ r.kids = workers[w].kids
          /\ r.busy = (n = 1) /\ r.last = l
        BY DEF Working
    <2>3. r \in Worker
        BY <2>1, <1>4, WorkerFields DEF Working, Worker
    <2>4. workers[w].served \in Nat
        BY <2>1, WorkerFields
    <2>e. r.ticks >= workers[w].ticks
        BY <2>1, <2>2, WorkerFields
    <2>5. r.ticks + r.kids <= 2 * clock /\ (r.busy \/ r.last # "none" => r.served > 0)
          /\ r.served >= workers[w].served
        BY <2>2, <2>4, <1>4, <1>t DEF Lived
    <2>6. workers' = [workers EXCEPT ![w] = r]
        BY <1>4
    <2> HIDE DEF r
    <2>q. QED
        BY <1>1, <1>4, <2>2, <2>3, <2>e, <2>5, <2>6
<1>5. ASSUME workers[w] # None PROVE workers[w].served \in 0 .. MaxServed
    BY <1>5, <1>w, WorkerFields
<1>6. CASE StartRequest(w)
    <2>1. workers[w].served + 1 <= MaxServed
        BY <1>5, <1>6 DEF StartRequest
    <2>2. "none" \in Requests
        BY DEF Requests
    <2>3. /\ workers[w] # None /\ mem' = mem
          /\ workers' = [workers EXCEPT ![w] = Working(workers[w], 1, "none")]
        BY <1>6 DEF StartRequest
    <2>4. 1 \in {0, 1} /\ (1 = 0 => workers[w].busy) /\ (1 = 1 => "none" = "none")
        OBVIOUS
    <2>q. QED
        BY <1>4, <2>1, <2>2, <2>3, <2>4
<1>7. CASE FinishRequest(w)
    <2>1. workers[w].served + 0 <= MaxServed
        BY <1>5, <1>7 DEF FinishRequest
    <2>2. PICK l \in Requests : workers' = [workers EXCEPT ![w] = Working(workers[w], 0, l)]
        BY <1>7 DEF FinishRequest
    <2>3. workers[w] # None /\ workers[w].busy /\ mem' = mem
        BY <1>7 DEF FinishRequest
    <2>4. 0 \in {0, 1} /\ (0 = 1 => l = "none")
        OBVIOUS
    <2>q. QED
        BY <1>4, <2>1, <2>2, <2>3, <2>4
<1>8. CASE Reap(w)
    <2> DEFINE old == workers[w]
               r == Spent(old, old.kids, -old.kids)
    <2>1. old \in Worker /\ old # None /\ mem' = mem /\ workers' = [workers EXCEPT ![w] = r]
        BY <1>8, <1>w DEF Reap
    <2>3. {old.ticks, old.kids, old.served} \subseteq Nat
        BY <2>1, WorkerFields
    <2>2. /\ r.pool = old.pool /\ r.served = old.served /\ r.busy = old.busy
          /\ r.last = old.last /\ r.ticks = old.ticks + old.kids /\ r.kids = 0
        BY <2>3 DEF Spent
    <2>4. /\ old.ticks + old.kids <= 2 * clock
          /\ old.busy \/ old.last # "none" => old.served > 0
        BY <2>1, <1>t DEF Lived
    <2>5. {old.ticks + old.kids, old.kids + (-old.kids)} \subseteq 0 .. MaxTicks
        BY <2>3, <2>4, <1>t DEF TypeOK, MaxTicks
    <2>6. r \in Worker
        BY <2>1, <2>5, WorkerFields DEF Spent, Worker
    <2>7. /\ r.ticks >= old.ticks /\ r.served >= old.served
          /\ r.ticks + r.kids <= 2 * clock
          /\ r.busy \/ r.last # "none" => r.served > 0
        BY <2>2, <2>3, <2>4
    <2>8. workers[w] # None /\ r.pool = workers[w].pool /\ r.ticks >= workers[w].ticks
          /\ r.served >= workers[w].served
        BY <2>1, <2>2, <2>7
    <2> HIDE DEF old, r
    <2>q. QED
        BY <1>1, <2>1, <2>6, <2>7, <2>8
<1>q. QED
    BY <1>2, <1>3, <1>6, <1>7, <1>8

LEMMA StepOfTime == IInv /\ Compute => IInv'
<1> SUFFICES ASSUME IInv, Compute PROVE IInv'
    OBVIOUS
<1>. USE NoneIsOther, BoundsAssumption, BoundsAreNat
<1>1. PICK work \in SUBSET Running, help \in SUBSET Parents :
        workers' = [w \in Pids |-> IF workers[w] = None THEN None
                                   ELSE Spent(workers[w], Share(w, work), Share(w, help))]
    BY DEF Compute
<1>2. /\ TypeOK /\ WasRead /\ clock < MaxClock /\ clock' = clock + 1 /\ mem' = mem
      /\ round' = NoLesson /\ events' = events
    BY DEF IInv, Compute
<1>3. ASSUME NEW r \in Worker, NEW x \in {0, 1}, NEW y \in {0, 1},
             r.ticks + r.kids <= 2 * clock
      PROVE  /\ Spent(r, x, y) \in Worker
             /\ Spent(r, x, y).pool = r.pool /\ Spent(r, x, y).served = r.served
             /\ Spent(r, x, y).busy = r.busy /\ Spent(r, x, y).last = r.last
             /\ Spent(r, x, y).ticks = r.ticks + x /\ Spent(r, x, y).kids = r.kids + y
    <2>1. r.ticks \in Nat /\ r.kids \in Nat /\ clock + 1 <= MaxClock /\ clock \in Nat
        BY <1>2, WorkerFields DEF TypeOK
    <2>2. {r.ticks + x, r.kids + y} \subseteq 0 .. MaxTicks
        BY <1>3, <2>1 DEF MaxTicks
    <2>q. QED
        BY <2>2, WorkerFields DEF Spent, Worker
<1>4. ASSUME NEW w \in Pids
      PROVE  /\ workers'[w] \in Worker \cup {None}
             /\ workers'[w] # None =>
                 /\ workers[w] # None /\ workers'[w].pool = workers[w].pool
                 /\ workers'[w].served = workers[w].served
                 /\ workers'[w].busy = workers[w].busy /\ workers'[w].last = workers[w].last
                 /\ workers'[w].ticks \in {workers[w].ticks, workers[w].ticks + 1}
                 /\ workers'[w].kids \in {workers[w].kids, workers[w].kids + 1}
    <2>1. CASE workers[w] # None
        <3>1. workers[w] \in Worker /\ workers[w].ticks + workers[w].kids <= 2 * clock
            BY <2>1, <1>2 DEF TypeOK, IInv, Lived
        <3>2. workers'[w] = Spent(workers[w], Share(w, work), Share(w, help))
            BY <1>1, <2>1
        <3>3. Share(w, work) \in {0, 1} /\ Share(w, help) \in {0, 1}
            BY DEF Share
        <3>4. {workers[w].ticks, workers[w].kids} \subseteq Nat
            BY <3>1, WorkerFields
        <3> DEFINE n == workers'[w]
        <3>5. /\ n \in Worker
              /\ n.pool = workers[w].pool /\ n.served = workers[w].served
              /\ n.busy = workers[w].busy /\ n.last = workers[w].last
              /\ n.ticks = workers[w].ticks + Share(w, work)
              /\ n.kids = workers[w].kids + Share(w, help)
            BY <3>1, <3>2, <3>3, <1>3
        <3> HIDE DEF n
        <3>q. QED
            BY <2>1, <3>3, <3>4, <3>5 DEF n
    <2>2. CASE workers[w] = None
        BY <2>2, <1>1
    <2>q. QED
        BY <2>1, <2>2
<1>5. TypeOK'
    <2>1. workers' \in [Pids -> Worker \cup {None}]
        BY <1>1, <1>4
    <2>q. QED
        BY <2>1, <1>2, NoLessonType DEF TypeOK
<1>6. WasRead'
    <2>1. mem.at \in (0 .. MaxClock) \cup {None}
        BY <1>2 DEF TypeOK, Memory
    <2>q. QED
        BY <2>1, <1>2 DEF WasRead, TypeOK
<1>7. ASSUME NEW w \in Pids PROVE Lived(w)' /\ Kin(w)'
    <2>1. Taken(w)' = Taken(w) /\ Taken(w).ticks \in Nat
        BY <1>2, TakenType DEF Taken
    <2>2. workers'[w] # None => workers[w].ticks \in Nat /\ workers[w].kids \in Nat
        BY <1>2, <1>4, WorkerFields DEF TypeOK
    <2>3. Lived(w) /\ Kin(w) /\ clock \in Nat
        BY <1>2 DEF IInv, TypeOK
    <2>4. Lived(w)'
        BY <2>2, <2>3, <1>2, <1>4 DEF Lived
    <2>5. Kin(w)'
        BY <2>1, <2>2, <2>3, <1>2, <1>4 DEF Kin
    <2>q. QED
        BY <2>4, <2>5
<1>q. QED
    BY <1>5, <1>6, <1>7 DEF IInv

-----------------------------------------------------------------------------
(* A round.                                                                *)

LEMMA WallType == IInv => Wall \in 0 .. MaxClock
<1>1. IInv => mem.at \in (0 .. MaxClock) \cup {None}
    BY DEF IInv, TypeOK, Memory
<1>q. QED
    BY <1>1, NoneIsOther, BoundsAssumption, BoundsAreNat DEF IInv, TypeOK, WasRead, Wall

(* The counter of a worker that lives, against what is held under its pid. *)
LEMMA TicksType ==
    ASSUME IInv, NEW w \in Pids, workers[w] # None, NEW unread \in SUBSET Pids
    PROVE  /\ Ticks(workers[w].pool, w, unread) \in 0 .. workers[w].ticks
           /\ workers[w].ticks \in 0 .. MaxTicks
<1>1. workers[w] \in Worker
    BY DEF IInv, TypeOK
<1>2. workers[w].ticks \in 0 .. MaxTicks /\ workers[w].pool \in Pools
    BY <1>1, WorkerFields
<1>3. mem.ticks[workers[w].pool][w] \in (0 .. MaxTicks) \cup {None}
    BY <1>2 DEF IInv, TypeOK, Memory, Counters
<1>q. QED
    BY <1>2, <1>3, BoundsAssumption, BoundsAreNat DEF Ticks, Counter, Workers

LEMMA CreditType ==
    ASSUME IInv, NEW answered \in SUBSET Pools, NEW unread \in SUBSET Pids
    PROVE  Credit(answered, unread) \in [Pids -> 0 .. MaxTicks]
<1>1. ASSUME NEW w \in Pids, workers[w] # None
      PROVE  Ticks(workers[w].pool, w, unread) \in 0 .. MaxTicks
    BY <1>1, TicksType, BoundsAssumption, BoundsAreNat
<1>q. QED
    BY <1>1, BoundsAssumption, BoundsAreNat DEF Credit

LEMMA LessonType ==
    ASSUME IInv, NEW answered \in SUBSET Pools, NEW readable \in BOOLEAN,
           NEW unread \in SUBSET Pids
    PROVE  Lesson(answered, readable, unread) \in Round
<1>1. \A p \in Pools : Point(p, answered, unread) \in Points
    BY DEF Point, Points
<1>2. [p \in Pools |-> IF readable /\ HostKnown THEN Point(p, answered, unread) ELSE "none"]
        \in [Pools -> Points]
    BY <1>1 DEF Points
<1>3. (IF readable THEN Credit(answered, unread) ELSE NoLesson.credit)
        \in [Pids -> 0 .. MaxTicks]
    <2>1. Credit(answered, unread) \in [Pids -> 0 .. MaxTicks]
        BY CreditType
    <2>2. NoLesson.credit \in [Pids -> 0 .. MaxTicks]
        BY BoundsAreNat DEF NoLesson
    <2>q. QED
        BY <2>1, <2>2
<1>4. (IF readable THEN Wall ELSE 0) \in 0 .. MaxClock
    BY WallType, BoundsAssumption, BoundsAreNat
<1>q. QED
    BY <1>2, <1>3, <1>4 DEF Lesson, Round

LEMMA KeptType ==
    ASSUME IInv, NEW answered \in SUBSET Pools, NEW readable \in BOOLEAN,
           NEW unread \in SUBSET Pids
    PROVE  Kept(answered, readable, unread) \in Memory
<1>. USE BoundsAssumption, BoundsAreNat
<1>1. mem \in Memory /\ clock \in 0 .. MaxClock
    BY DEF IInv, TypeOK
<1>w. ASSUME NEW w \in Pids, workers[w] # None
      PROVE  workers[w].served \in 0 .. MaxServed /\ workers[w].ticks \in 0 .. MaxTicks
    BY <1>w, WorkerFields DEF IInv, TypeOK
<1>2. ASSUME NEW p \in Pools, NEW w \in Pids
      PROVE  /\ Remembered(p, w) \in 0 .. MaxServed \cup {None}
             /\ TicksSeen(p, w, unread) \in 0 .. MaxTicks \cup {None}
    <2>1. mem.seen[p][w] \in 0 .. MaxServed \cup {None}
        BY <1>1 DEF Memory, Counters
    <2>q. QED
        BY <2>1, <1>w DEF Remembered, TicksSeen, Counter, Workers
<1>3. Kept(answered, readable, unread).seen \in Counters(MaxServed)
    BY <1>1, <1>2 DEF Kept, Memory, Counters
<1>4. Kept(answered, readable, unread).ticks \in Counters(MaxTicks)
    BY <1>1, <1>2 DEF Kept, Memory, Counters
<1>5. Kept(answered, readable, unread).met \in [Pids -> Truth \cup {None}]
    <2>1. ASSUME NEW w \in Pids
          PROVE  Kept(answered, readable, unread).met[w] \in Truth \cup {None}
        <3>1. mem.met[w] \in Truth \cup {None}
            BY <1>1 DEF Memory
        <3>2. Taken(w).served \in 0 .. MaxServed /\ Taken(w).ticks \in 0 .. MaxTicks
            BY TakenType DEF IInv
        <3>q. QED
            BY <3>1, <3>2, <1>w DEF Kept, Truth
    <2>q. QED
        BY <2>1 DEF Kept
<1>6. Kept(answered, readable, unread).at \in 0 .. MaxClock \cup {None}
    BY <1>1 DEF Kept, Memory
<1>q. QED
    BY <1>3, <1>4, <1>5, <1>6 DEF Kept, Memory

LEMMA StepOfARound ==
    ASSUME IInv, NEW answered \in SUBSET Pools, NEW readable \in BOOLEAN,
           NEW unread \in SUBSET Pids,
           Scrape(answered, readable, unread)
    PROVE  IInv'
<1>1. /\ workers' = workers /\ clock' = clock
      /\ Event \/ UNCHANGED events
      /\ mem' = Kept(answered, readable, unread) /\ round' = Lesson(answered, readable, unread)
    BY DEF Scrape
<1>2. TypeOK'
    BY <1>1, LessonType, KeptType, EventType DEF IInv, TypeOK
<1>3. WasRead'
    <2>1. mem'.at = clock \/ mem'.at = mem.at
        BY <1>1 DEF Kept
    <2>q. QED
        BY <2>1, <1>1 DEF IInv, WasRead, TypeOK
<1>4. ASSUME NEW w \in Pids PROVE Lived(w)' /\ Kin(w)'
    <2>1. Lived(w)'
        BY <1>1 DEF IInv, Lived
    <2>2. ASSUME workers[w] # None PROVE Kin(w)'
        <3> DEFINE p == workers[w].pool
        <3>1. /\ p \in Pools /\ workers[w].served \in 0 .. MaxServed
              /\ workers[w].ticks \in 0 .. MaxTicks
            BY <2>2, WorkerFields DEF IInv, TypeOK
        <3>2. Kin(w) /\ Taken(w).served \in 0 .. MaxServed /\ Taken(w).ticks \in 0 .. MaxTicks
            BY TakenType DEF IInv
        <3>3. CASE p \in answered
            <4>1. Taken(w)' = [served |-> IF workers[w].busy THEN Taken(w).served
                                          ELSE workers[w].served,
                               ticks |-> IF readable /\ w \notin unread THEN workers[w].ticks
                                         ELSE Taken(w).ticks]
                <5> DEFINE t == [served |-> IF workers[w].busy THEN Taken(w).served
                                            ELSE workers[w].served,
                                 ticks |-> IF readable /\ w \notin unread
                                           THEN workers[w].ticks ELSE Taken(w).ticks]
                <5>1. mem'.met[w] = t
                    BY <1>1, <2>2, <3>3 DEF Kept
                <5>2. t \in Truth
                    BY <3>1, <3>2 DEF Truth
                <5>3. t # None
                    BY <5>2, NoneIsOther
                <5> HIDE DEF t
                <5>4. Taken(w)' = t
                    BY <5>1, <5>3 DEF Taken
                <5>q. QED
                    BY <5>4 DEF t
            <4>2. mem'.seen[p][w] = Remembered(p, w)
                BY <1>1, <3>1, <3>3 DEF Kept
            <4>3. mem'.ticks[p][w] = IF readable THEN TicksSeen(p, w, unread) ELSE mem.ticks[p][w]
                BY <1>1, <3>1, <3>3 DEF Kept
            <4>4. /\ Taken(w)'.served <= workers[w].served
                  /\ Taken(w)'.served # 0 => mem'.seen[p][w] = Taken(w)'.served
                BY <4>1, <4>2, <2>2, <3>1, <3>2, BoundsAssumption, BoundsAreNat DEF Kin, Remembered, Workers
            <4>5. /\ Taken(w)'.ticks <= workers[w].ticks
                  /\ Taken(w)'.ticks # 0 => mem'.ticks[p][w] \in {0, Taken(w)'.ticks}
                BY <4>1, <4>3, <2>2, <3>1, <3>2, BoundsAssumption, BoundsAreNat
                DEF Kin, TicksSeen, Counter, Workers
            <4>q. QED
                BY <4>4, <4>5, <1>1 DEF Kin
        <3>4. CASE p \notin answered
            <4>1. Taken(w)' = Taken(w)
                BY <1>1, <3>4 DEF Taken, Kept
            <4>2. mem'.seen[p] = mem.seen[p] /\ mem'.ticks[p] = mem.ticks[p]
                BY <1>1, <3>1, <3>4 DEF Kept
            <4>q. QED
                BY <4>1, <4>2, <3>2, <1>1 DEF Kin
        <3>q. QED
            BY <3>3, <3>4
    <2>q. QED
        BY <2>1, <2>2, <1>1 DEF Kin
<1>q. QED
    BY <1>2, <1>3, <1>4 DEF IInv

-----------------------------------------------------------------------------

LEMMA InvariantHolds == Spec => []IInv
<1>1. ASSUME Init PROVE IInv
    <2>1. TypeOK
        <3>1. mem \in Memory
            BY <1>1 DEF Init, Forgetful, Blank, Memory, Counters
        <3>q. QED
            BY <1>1, <3>1, NoLessonType, BoundsAssumption, BoundsAreNat DEF Init, TypeOK
    <2>2. WasRead
        BY <1>1 DEF Init, Forgetful, WasRead
    <2>3. \A w \in Pids : workers[w] = None
        BY <1>1 DEF Init
    <2>q. QED
        BY <2>1, <2>2, <2>3 DEF IInv, Lived, Kin
<1>2. ASSUME IInv, [Next]_vars PROVE IInv'
    <2>1. CASE Next
        BY <1>2, <2>1, StepOfAWorker, StepOfTime, StepOfARound DEF Next
    <2>2. CASE UNCHANGED vars
        BY <1>2, <2>2 DEF vars, IInv, TypeOK, WasRead, Lived, Kin, Taken
    <2>q. QED
        BY <1>2, <2>1, <2>2
<1>q. QED
    BY <1>1, <1>2, PTL DEF Spec

(* Every state is well-formed. *)
THEOREM TypeCorrect == Spec => []TypeOK
<1>1. IInv => TypeOK
    BY DEF IInv
<1>q. QED
    BY <1>1, InvariantHolds, PTL

(* What observeCPU takes for new is what this memory has not looked at, but
   for a pid used again. *)
LEMMA FreshIsUnread ==
    ASSUME IInv, NEW w \in Pids, workers[w] # None
    PROVE  /\ Fresh(workers[w].pool, w) => Unread(w)
           /\ Unread(w) /\ ~Namesake(w) => Fresh(workers[w].pool, w)
<1>1. workers[w].served \in 0 .. MaxServed
    BY WorkerFields DEF IInv, TypeOK
<1>2. Lived(w) /\ Kin(w) /\ Taken(w).served \in 0 .. MaxServed
    BY TakenType DEF IInv
<1>q. QED
    BY <1>1, <1>2, BoundsAssumption, BoundsAreNat DEF Lived, Kin, Fresh, Unread, Namesake, Workers

(* What poolCPUTicks counts of a worker is what this memory has not taken,
   but for a pid used again. *)
LEMMA TicksAreDue ==
    ASSUME IInv, NEW w \in Pids, workers[w] # None, NEW unread \in SUBSET Pids
    PROVE  /\ 0 <= Due(w) /\ Ticks(workers[w].pool, w, unread) <= Due(w)
           /\ w \notin unread /\ ~PidUsedAgain(w)
                => Ticks(workers[w].pool, w, unread) = Due(w)
<1> DEFINE now == workers[w].ticks
           old == mem.ticks[workers[w].pool][w]
           took == Taken(w).ticks
<1>1. workers[w] \in Worker
    BY DEF IInv, TypeOK
<1>2. now \in Nat /\ workers[w].pool \in Pools
    BY <1>1, WorkerFields, BoundsAreNat
<1>3. took \in Nat /\ took <= now /\ (took # 0 => old \in {0, took})
    BY TakenType, BoundsAreNat DEF IInv, Kin
<1>4. old \in Nat \/ old = None
    BY <1>2, BoundsAreNat DEF IInv, TypeOK, Memory, Counters
<1>5. Due(w) = IF took > 0 /\ old = 0 THEN now ELSE now - took
    BY DEF Due, Misread
<1>6. Ticks(workers[w].pool, w, unread) =
        LET n == IF w \in unread THEN 0 ELSE now
        IN  IF old # None /\ n >= old THEN n - old ELSE n
    BY DEF Ticks, Counter, Workers
<1>7. took = 0 /\ ~PidUsedAgain(w) => old = None
    BY DEF PidUsedAgain
<1> HIDE DEF now, old, took
<1>8. 0 <= Due(w)
    BY <1>2, <1>3, <1>5
<1>9. CASE w \in unread
    BY <1>4, <1>6, <1>8, <1>9, NoneIsOther
<1>10. CASE w \notin unread
    <2>1. Ticks(workers[w].pool, w, unread) =
            IF old # None /\ now >= old THEN now - old ELSE now
        BY <1>6, <1>10
    <2>2. CASE took = 0
        <3>1. Due(w) = now
            BY <1>2, <1>5, <2>2
        <3>2. Ticks(workers[w].pool, w, unread) <= now
            BY <1>2, <1>4, <2>1, NoneIsOther
        <3>3. old = None => Ticks(workers[w].pool, w, unread) = now
            BY <2>1
        <3>q. QED
            BY <1>7, <1>8, <2>2, <3>1, <3>2, <3>3
    <2>3. CASE took # 0
        BY <1>2, <1>3, <1>5, <1>8, <2>1, <2>3, NoneIsOther
    <2>q. QED
        BY <2>2, <2>3
<1>q. QED
    BY <1>8, <1>9, <1>10

LEMMA NoLessonElsewhere ==
    ASSUME [Next]_vars
    PROVE  \/ round' = NoLesson \/ UNCHANGED vars
           \/ \E answered \in SUBSET Pools, readable \in BOOLEAN, unread \in SUBSET Pids :
               Scrape(answered, readable, unread)
BY DEF Next, Spawn, Exits, StartRequest, FinishRequest, Reap, Compute

(* Whatever workers, pools and rounds there are, a finished request is read
   into the histogram once, at the first scrape that finds it finished. *)
THEOREM RequestsOnce == Spec => EachRequestOnce
<1> DEFINE Once(w) ==
        /\ w \in round'.counted => workers[w] # None /\ Unread(w)
        /\ workers[w] # None /\ workers[w].pool \in round'.answered
                /\ Unread(w) /\ ~Namesake(w)
             => w \in round'.counted
<1>1. ASSUME IInv, [Next]_vars PROVE [\A w \in Pids : Once(w)]_vars
    <2>1. CASE round' = NoLesson
        BY <2>1 DEF NoLesson
    <2>2. ASSUME NEW answered \in SUBSET Pools, NEW readable \in BOOLEAN,
                 NEW unread \in SUBSET Pids,
                 Scrape(answered, readable, unread), NEW w \in Pids
          PROVE  Once(w)
        <3>1. /\ round'.counted = {v \in Pids : \E p \in answered : Fresh(p, v)}
              /\ round'.answered = answered
            BY <2>2 DEF Scrape, Lesson
        <3>2. ASSUME w \in round'.counted PROVE workers[w] # None /\ Unread(w)
            <4>1. PICK p \in answered : Fresh(p, w)
                BY <3>1, <3>2
            <4>2. workers[w] # None /\ p = workers[w].pool
                BY <4>1 DEF Fresh, Workers
            <4>q. QED
                BY <1>1, <4>1, <4>2, FreshIsUnread
        <3>3. ASSUME workers[w] # None, workers[w].pool \in round'.answered,
                     Unread(w), ~Namesake(w)
              PROVE  w \in round'.counted
            BY <1>1, <3>1, <3>3, FreshIsUnread
        <3>q. QED
            BY <3>2, <3>3
    <2>q. QED
        BY <1>1, <2>1, <2>2, NoLessonElsewhere
<1>q. QED
    BY <1>1, InvariantHolds, PTL DEF Spec, EachRequestOnce

(* Whatever workers, pools and rounds there are, and whichever rounds could
   not read the box or were not answered, CPU time is credited once. *)
THEOREM TicksOnce == Spec => EveryTickOnce
<1> DEFINE Once(w) ==
        /\ round'.credit[w] <= Due(w)
        /\ workers[w] # None /\ workers[w].pool \in round'.answered
                /\ w \notin round'.unread
                /\ round'.wall > 0 /\ ~PidUsedAgain(w)
             => round'.credit[w] = Due(w)
<1>1. ASSUME IInv, [Next]_vars PROVE [\A w \in Pids : Once(w)]_vars
    <2>0. ASSUME NEW w \in Pids PROVE 0 <= Due(w)
        <3>1. CASE workers[w] # None
            <4>1. {} \in SUBSET Pids
                OBVIOUS
            <4>q. QED
                BY <1>1, <3>1, <4>1, TicksAreDue
        <3>2. CASE workers[w] = None
            BY <3>2 DEF Due
        <3>q. QED
            BY <3>1, <3>2
    <2>1. CASE round' = NoLesson
        BY <2>0, <2>1 DEF NoLesson
    <2>2. ASSUME NEW answered \in SUBSET Pools, NEW readable \in BOOLEAN,
                 NEW unread \in SUBSET Pids,
                 Scrape(answered, readable, unread), NEW w \in Pids
          PROVE  Once(w)
        <3>1. /\ round'.credit = IF readable THEN Credit(answered, unread) ELSE NoLesson.credit
              /\ round'.wall = IF readable THEN Wall ELSE 0
              /\ round'.answered = answered /\ round'.unread = unread
            BY <2>2 DEF Scrape, Lesson
        <3>2. CASE readable /\ workers[w] # None /\ workers[w].pool \in answered /\ Wall > 0
            <4>1. round'.credit[w] = Ticks(workers[w].pool, w, unread)
                BY <3>1, <3>2 DEF Credit
            <4>2. /\ Ticks(workers[w].pool, w, unread) <= Due(w)
                  /\ w \notin unread /\ ~PidUsedAgain(w)
                       => Ticks(workers[w].pool, w, unread) = Due(w)
                BY <1>1, <2>2, <3>2, TicksAreDue
            <4>q. QED
                BY <3>1, <4>1, <4>2
        <3>3. CASE ~(readable /\ workers[w] # None /\ workers[w].pool \in answered /\ Wall > 0)
            <4>1. round'.credit[w] = 0
                BY <3>1, <3>3 DEF Credit, NoLesson
            <4>2. ~(workers[w] # None /\ workers[w].pool \in round'.answered /\ round'.wall > 0)
                BY <3>1, <3>3
            <4>q. QED
                BY <2>0, <4>1, <4>2
        <3>q. QED
            BY <3>2, <3>3
    <2>q. QED
        BY <1>1, <2>1, <2>2, NoLessonElsewhere
<1>q. QED
    BY <1>1, InvariantHolds, PTL DEF Spec, EveryTickOnce

=============================================================================
