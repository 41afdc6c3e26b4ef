------------------------------ MODULE CpuLoad ------------------------------
(***************************************************************************)
(* What a scrape learns of CPU (state/cpu.go, state/cpuload.go): which     *)
(* finished requests are read into the histogram, and how much CPU time a  *)
(* pool is credited with over which stretch of wall time.  Both are        *)
(* differences against what the last scrape remembered of each worker by   *)
(* its pid, while workers come and go, pids are used again, pools do not   *)
(* answer and the box cannot be read.                                      *)
(*                                                                         *)
(* One unit of time is an ordinary interval between rounds, one unit of    *)
(* CPU a core for that long.  A worker's counter is its own time and that  *)
(* of the children it has reaped, which arrives in one lump.  The line,    *)
(* the averages and the buckets are left out, and a box whose counter went *)
(* back: a round says what is added to each.  A daemon killed and          *)
(* restarted on an older state file is one that did not scrape in between, *)
(* so it needs no step of its own.                                         *)
(***************************************************************************)
EXTENDS Integers, FiniteSets, Functions

CONSTANTS
    Pools, Pids,
    Homes,      \* bound: which pool's workers may wear which pid
    Cores,      \* the cores of the box
    Gap,        \* maxCPULoadGap, in intervals
    None,       \* no worker, nothing remembered, no reading yet
    MaxClock, MaxServed, MaxEvents      \* bounds

ASSUME PidsAssumption == IsFiniteSet(Pids)
ASSUME BoundsAssumption ==
    /\ Homes \subseteq Pools \X Pids
    /\ Cores \in Nat \ {0} /\ Gap \in Nat \ {0}
    /\ {MaxClock, MaxServed, MaxEvents} \subseteq Nat

(* The last request of an idle worker: none yet, one that says nothing (too
   brief, or this tool's own), or one to learn from.  A worker that is running
   reports none. *)
Requests == {"none", "other", "long"}

(* A worker and a child of its may compute side by side. *)
MaxTicks == 2 * MaxClock

(* ticks is utime and stime with cutime and cstime, kids what its children
   have spent that it has not reaped. *)
Worker == [pool : Pools, served : 0 .. MaxServed, ticks : 0 .. MaxTicks,
           kids : 0 .. MaxTicks, busy : BOOLEAN, last : Requests]
Truth == [served : 0 .. MaxServed, ticks : 0 .. MaxTicks]
ASSUME NoneAssumption == None \notin Worker \cup Truth \cup Int

Counters(upTo) == [Pools -> [Pids -> 0 .. upTo \cup {None}]]

(* State.HostCPU.At, the pools' CPUSeen and CPUTicksSeen; then, as history,
   what this memory has taken of the worker that wears a pid now. *)
Memory == [at : 0 .. MaxClock \cup {None},
           seen : Counters(MaxServed), ticks : Counters(MaxTicks),
           met : [Pids -> Truth \cup {None}]]

(* What the last step taught: the pools that answered, the workers whose CPU
   could not be read, the requests counted, the CPU credited to each worker
   and over how long, and the point that each pool's line of the box's cost is
   given: the base load, or its own. *)
Points == {"none", "base", "own"}
Round == [answered : SUBSET Pools, unread : SUBSET Pids, counted : SUBSET Pids,
          credit : [Pids -> 0 .. MaxTicks], wall : 0 .. MaxClock, points : [Pools -> Points]]

VARIABLES
    workers,    \* what each pid is, on the box
    clock,
    mem,        \* the daemon's state
    round,
    events      \* how many workers have exited, and rounds could not read one

vars == <<workers, clock, mem, round, events>>

TypeOK ==
    /\ workers \in [Pids -> Worker \cup {None}]
    /\ clock \in 0 .. MaxClock
    /\ mem \in Memory
    /\ round \in Round
    /\ events \in 0 .. MaxEvents

Blank == [p \in Pools |-> [w \in Pids |-> None]]

Forgetful == [at |-> None, seen |-> Blank, ticks |-> Blank,
              met |-> [w \in Pids |-> None]]

NoLesson == [answered |-> {}, unread |-> {}, counted |-> {}, credit |-> [w \in Pids |-> 0],
             wall |-> 0, points |-> [p \in Pools |-> "none"]]

Init ==
    /\ workers = [w \in Pids |-> None]
    /\ clock = 0
    /\ mem = Forgetful
    /\ round = NoLesson /\ events = 0

Event == events < MaxEvents /\ events' = events + 1

Workers(p) == {w \in Pids : workers[w] # None /\ workers[w].pool = p}

-----------------------------------------------------------------------------
(* php-fpm.                                                                *)

NewWorker(p) ==
    [pool |-> p, served |-> 0, ticks |-> 0, kids |-> 0, busy |-> FALSE, last |-> "none"]

(* Nothing remembered under the pid is of the worker that wears it now. *)
Spawn(w, p) ==
    /\ workers[w] = None
    /\ workers' = [workers EXCEPT ![w] = NewWorker(p)]
    /\ mem' = [mem EXCEPT !.met[w] = None]
    /\ round' = NoLesson /\ UNCHANGED <<clock, events>>

Exits(w) ==
    /\ workers[w] # None /\ Event
    /\ workers' = [workers EXCEPT ![w] = None]
    /\ round' = NoLesson /\ UNCHANGED <<clock, mem>>

Working(r, n, last) ==
    [pool |-> r.pool, served |-> r.served + n, ticks |-> r.ticks, kids |-> r.kids,
     busy |-> n = 1, last |-> last]

(* php-fpm counts a request when it starts. *)
StartRequest(w) ==
    /\ workers[w] # None
    /\ ~workers[w].busy /\ workers[w].served < MaxServed
    /\ workers' = [workers EXCEPT ![w] = Working(@, 1, "none")]
    /\ round' = NoLesson /\ UNCHANGED <<clock, mem, events>>

FinishRequest(w) ==
    /\ workers[w] # None /\ workers[w].busy
    /\ \E r \in Requests \ {"none"} :
           workers' = [workers EXCEPT ![w] = Working(@, 0, r)]
    /\ round' = NoLesson /\ UNCHANGED <<clock, mem, events>>

Spent(r, own, children) ==
    [pool |-> r.pool, served |-> r.served, ticks |-> r.ticks + own,
     kids |-> r.kids + children, busy |-> r.busy, last |-> r.last]

(* The kernel adds a child's time to its parent's when the parent waits for
   it; what a worker leaves behind is nobody's. *)
Reap(w) ==
    /\ workers[w] # None /\ workers[w].kids > 0
    /\ workers' = [workers EXCEPT ![w] = Spent(@, @.kids, -@.kids)]
    /\ round' = NoLesson /\ UNCHANGED <<clock, mem, events>>

Running == {w \in Pids : workers[w] # None /\ workers[w].busy}

(* A request may start a child, and leave it running. *)
Parents == {w \in Pids : workers[w] # None /\ workers[w].served > 0}

Share(w, S) == IF w \in S THEN 1 ELSE 0

(* Time passes, and no more of them compute than there are cores. *)
Compute ==
    /\ clock < MaxClock /\ clock' = clock + 1
    /\ \E work \in SUBSET Running, help \in SUBSET Parents :
        /\ Cardinality(work) + Cardinality(help) <= Cores
        /\ workers' = [w \in Pids |->
               IF workers[w] = None THEN None
               ELSE Spent(workers[w], Share(w, work), Share(w, help))]
    /\ round' = NoLesson /\ UNCHANGED <<mem, events>>

-----------------------------------------------------------------------------
(* A round.                                                                *)

(* A mutant: a running worker's counter, as if its request were over. *)
RememberedRunning(p, w) ==
    IF w \notin Workers(p) \/ workers[w].served = 0 THEN None ELSE workers[w].served

(* observeCPU: a running worker's counter names a request that is not over,
   so what was remembered of it before stays. *)
Remembered(p, w) ==
    IF w \notin Workers(p) \/ workers[w].served = 0 THEN None
    ELSE IF workers[w].busy THEN mem.seen[p][w]
    ELSE workers[w].served

Fresh(p, w) ==
    /\ w \in Workers(p)
    /\ ~workers[w].busy /\ workers[w].last = "long"
    /\ workers[w].served # mem.seen[p][w]

(* workerCPUTicks: an entry of /proc that cannot be read is no time at all. *)
Counter(w, unread) == IF w \in unread THEN 0 ELSE workers[w].ticks

(* poolCPUTicks: a counter that is new or has gone down is a whole life. *)
Ticks(p, w, unread) ==
    LET old == mem.ticks[p][w]  now == Counter(w, unread)
    IN  IF w \notin Workers(p) THEN 0
        ELSE IF old # None /\ now >= old THEN now - old
        ELSE now

Wall == IF mem.at = None THEN 0 ELSE clock - mem.at

(* A mutant: only running workers are remembered. *)
TicksSeenRunning(p, w, unread) ==
    IF w \in Workers(p) /\ workers[w].busy THEN Counter(w, unread) ELSE None

TicksSeen(p, w, unread) == IF w \in Workers(p) THEN Counter(w, unread) ELSE None

(* Of the pools that answered; nothing without time to divide by. *)
Credit(answered, unread) ==
    [w \in Pids |-> IF workers[w] # None /\ workers[w].pool \in answered /\ Wall > 0
                    THEN Ticks(workers[w].pool, w, unread) ELSE 0]

Sum(credit, S) == SumFunctionOnSet(credit, S)

(* HostBusy: a hole that nobody watched says nothing of the box. *)
HostKnown == Wall \in 1 .. Gap

(* The box's time goes to the pool that did most of the PHP work. *)
Point(p, answered, unread) ==
    LET credit == Credit(answered, unread)  total == Sum(credit, Pids)
    IN  IF p \notin answered THEN "none"
        ELSE IF total = 0 THEN "base"
        ELSE IF 10 * Sum(credit, Workers(p)) >= 7 * total THEN "own"
        ELSE "none"

(* Learn's observeCPU, then LearnCPULoad where the box could be read. *)
Lesson(answered, readable, unread) ==
    [answered |-> answered, unread |-> unread,
     counted |-> {w \in Pids : \E p \in answered : Fresh(p, w)},
     credit |-> IF readable THEN Credit(answered, unread) ELSE NoLesson.credit,
     wall |-> IF readable THEN Wall ELSE 0,
     points |-> [p \in Pools |-> IF readable /\ HostKnown
                                 THEN Point(p, answered, unread) ELSE "none"]]

(* What this memory has taken of the worker of a pid. *)
Taken(w) == IF mem.met[w] = None THEN [served |-> 0, ticks |-> 0] ELSE mem.met[w]

(* The pids' counters are kept whatever the box said. *)
Kept(answered, readable, unread) ==
    [at |-> IF readable THEN clock ELSE mem.at,
     seen |-> [p \in Pools |-> IF p \in answered
                               THEN [w \in Pids |-> Remembered(p, w)] ELSE mem.seen[p]],
     ticks |-> [p \in Pools |-> IF p \in answered /\ readable
                                THEN [w \in Pids |-> TicksSeen(p, w, unread)]
                                ELSE mem.ticks[p]],
     met |-> [w \in Pids |->
                IF workers[w] # None /\ workers[w].pool \in answered
                THEN [served |-> IF workers[w].busy THEN Taken(w).served
                                 ELSE workers[w].served,
                      ticks |-> IF readable /\ w \notin unread THEN workers[w].ticks
                                ELSE Taken(w).ticks]
                ELSE mem.met[w]]]

Scrape(answered, readable, unread) ==
    /\ \/ unread = {} /\ UNCHANGED events
       \/ unread # {} /\ Event
    /\ round' = Lesson(answered, readable, unread)
    /\ mem' = Kept(answered, readable, unread)
    /\ UNCHANGED <<workers, clock>>

Next ==
    \/ \E w \in Pids :
        \/ \E p \in Pools : <<p, w>> \in Homes /\ Spawn(w, p)
        \/ Exits(w) \/ StartRequest(w) \/ FinishRequest(w) \/ Reap(w)
    \/ Compute
    \/ \E answered \in SUBSET Pools, readable \in BOOLEAN, unread \in SUBSET Pids :
        Scrape(answered, readable, unread)

Spec == Init /\ [][Next]_vars

-----------------------------------------------------------------------------
(* Properties.                                                             *)

(* A finished request of the worker that this memory has not looked at. *)
Unread(w) ==
    /\ ~workers[w].busy /\ workers[w].last = "long"
    /\ workers[w].served > Taken(w).served

(* The pid was another worker's, remembered at this very count, and nothing
   of this one has been read. *)
Namesake(w) ==
    /\ Taken(w).served = 0
    /\ mem.seen[workers[w].pool][w] = workers[w].served

(* A request is read into the histogram once: at the first scrape that finds
   it finished, also when a scrape before found it running, when a pool did
   not answer in between and when the state was rolled back; never a second
   time while its worker sits idle, and never one of the tool's own
   (observeCPU).  The one exception is a pid used again whose new worker is
   at the very count of the old one. *)
EachRequestOnce ==
    [][\A w \in Pids :
        /\ w \in round'.counted => workers[w] # None /\ Unread(w)
        /\ workers[w] # None /\ workers[w].pool \in round'.answered
                /\ Unread(w) /\ ~Namesake(w)
             => w \in round'.counted]_vars

(* The counter of a worker that had been taken could not be read at the last
   round, and is remembered as none. *)
Misread(w) == Taken(w).ticks > 0 /\ mem.ticks[workers[w].pool][w] = 0

(* What a worker has spent, with its children, that this memory has not
   taken; its whole life once more after a round that could not read it. *)
Due(w) ==
    IF workers[w] = None THEN 0
    ELSE IF Misread(w) THEN workers[w].ticks
    ELSE workers[w].ticks - Taken(w).ticks

PidUsedAgain(w) == Taken(w).ticks = 0 /\ mem.ticks[workers[w].pool][w] # None

(* CPU time is credited once: never more to a worker than it has spent since
   it was last read, and all of it to one that can be read, whatever the
   box's own reading said in the rounds between, whichever pools did not
   answer in them and whatever the pid was before (poolCPUTicks, "the per-pid
   counters are kept current on every scrape whatever the box said").  Of a
   pid used again some may be lost; a life is credited a second time only
   where /proc could not be read of that worker in the round before, whose
   zero workerCPUTicks does not tell from a reading. *)
EveryTickOnce ==
    [][\A w \in Pids :
        /\ round'.credit[w] <= Due(w)
        /\ workers[w] # None /\ workers[w].pool \in round'.answered
                /\ w \notin round'.unread
                /\ round'.wall > 0 /\ ~PidUsedAgain(w)
             => round'.credit[w] = Due(w)]_vars

CoresOf(p) == Sum(round'.credit, Workers(p))

(* A pool is not credited more cores than the box has: "the per-pool
   difference since the last scrape, over the wall time between them, is the
   cores that pool used" (state/cpuload.go, LearnCPULoad). *)
CoresAreOfTheInterval ==
    [][\A p \in Pools : CoresOf(p) <= Cores * round'.wall]_vars
=============================================================================
