# fpm-tune in TLA+

fpm-tune watches a PHP-FPM master, learns what a worker of each pool costs, divides
the host's memory among the pools, writes the resulting `pm.max_children` into one
drop-in file of the master's pool directory, reloads the master, and takes the change
back if php-fpm does not survive it.  It runs as a command (`fpm-tune apply`), as a
daemon that only watches (`serve`), or as a daemon that writes (`serve --apply`).

This directory holds models of the parts of it whose mistakes would be expensive and
hard to test: the write-validate-reload-rollback transaction and its recovery, the
daemon's rounds with the locks and the control socket, the second drop-in that turns
status pages on, the division of the memory and the damping that carries it out round after
round, and what is learned of a pool, from which scrapes, and in whose record.  TLC
checks the models on small instances, and TLAPS proves what matters most for every instance.
Paths below are relative to the repository; `Foo.tla` is a file here.

To run them: `tlc -config TxnOneShot.cfg MCApplyTxn` (and likewise for the other runs,
see the table below), `tlapm ApplyTxnProofs.tla`.  `PROJECT.json` lists the runs,
for each property one plausible bug in the code that makes its run fail, which lines
each definition models, the hazards the properties are for, and the proved theorems.

## 1. The system

### Components

| part | state it keeps | operations | modelled in |
|---|---|---|---|
| Apply transaction (`apply/apply.go`, `apply/transaction.go`) | the drop-in, its saved copy (`.bak`), the transaction record | plan, back up, record, write, validate, mark signalled, signal, settle, restore, commit | `ApplyTxn`, `DropIn`, abstractly `UndoLog` |
| Reconcile (`apply/reconcile.go`) | the same files, found after a crash | settle, undo or finish a leftover change; take out a file of ours that alone is rejected | `ApplyTxn` |
| Sizing drop-in (`Render`, `parseOurs`, `overrideSet`, `staleSections`) | the sections of one file | what is ours, what is kept, what is refused | `DropIn` |
| Hysteresis and coupling (`decide`, `requireShrinksWithGrowth`, `holdGrowths`) | `LastAppliedAt` of each pool | which part of a plan is carried out | `Resize` |
| Serve loop (`serve/serve.go`) | `reconciled`, `statusRetries`, the blocked flag, the state in memory | rounds, reconcile, applyPlan, save | `ServeLoop` |
| Control socket (`serve/control.go`, `apply-now`) | the pending request and its answer | ask, run one forced round, answer, give up | `ServeLoop` |
| Commands (`cmd/fpm-tune/main.go`) | a process with a copy of the state | `apply`, `enable-status` | `ServeLoop` |
| Locks (`lock/lock.go`) | two flocks: beside the state file, and for the pool directory | acquire without waiting, release, the kernel's release at exit | `ServeLoop` |
| Remembered master (`apply/remembered.go`, `state.MasterRef`) | a note beside the backups per directory, one reference per state file | find the installation when nothing is running | `ServeLoop` (`Findable`, `Naming`) |
| Sandbox (`apply/sandbox.go`) | none that lasts | php-fpm's verdict on the directory with one file replaced | `ApplyTxn` (`Loads`) |
| Allocator (`allocate/allocate.go`) | none: a function | floors, scaling, trimming, demand passes | `Allocate` |
| Plan (`plan/plan.go`) | none: a function of state and scrape | what to ask the allocator for each pool | `Sizing` (`Known`, `Unknown`, `Ask`) |
| Learned state (`state/state.go`, `state/percentile.go`) | one record per pool | learn, decay, trust | `PoolState`; `Sizing` (peak, trust) |
| Its store (`state/state.go`, `serve/master.go`) | the records by master and pool, their missed rounds | look up, adopt, forget, load, save, keep to one master | `Store`; `ServeLoop` (whose copy is current) |
| CPU measurement (`state/cpu.go`, `state/cpuload.go`) | each worker's counters as last seen, the box's | which requests are new, whose CPU time over which interval | `CpuLoad` |
| Enable-status (`apply/status.go`, `serve/status.go`) | a second drop-in, the daemon's retries | look, carry forward, write, validate, reload, roll back | `StatusDropIn`; its outcome in `ServeLoop` |
| Budget, observation (`budget/`, `observe/`) | none | read `/proc`, cgroups, the FastCGI status page | as nondeterministic inputs |
| Metrics, history, recommendations, top, service installation, load generator | outputs only | | not modelled |

### How they interact

A round of the daemon is one goroutine's work: reconcile if it has not (or no longer)
done so, discover the pools, scrape them, learn, build a plan, and if it applies, apply
it and save.  Its interleavings are with *other processes* and with the host:

* `fpm-tune apply` and `enable-status` runs, kept apart by a flock on the pool directory
  and, for the state file, by a flock beside it.  Neither lock waits.
* A client of the control socket hands the loop a request over a channel and waits, under
  a time limit of its own, for the answer of one forced round.
* php-fpm itself: told by SIGUSR2, asked by `php-fpm -t`, observed through its process
  for a settle window, and restarted by the service manager whenever that sees fit.
* the operator: edits, adds and removes pools, restarts, upgrades (the pool directory
  moves), fills the disk, sets the clock back.
* its own past: a record, a copy, a state file and a note written by a run that was
  killed between any two steps.

### What is hard, and what correct means

* **Crashes between effects** (apply, reconcile).  The three files are written in an
  order such that any prefix can be read correctly by the next run; recovery may itself
  be killed.  Correct: the saved copy is the file as it was, the file is one of the two
  the record accounts for, the record is never written over unread, and a change is
  closed on evidence that the master survived, not on delivery of a signal.
* **Failing steps** (every write, validation, reload).  Each has its own exit, and each
  exit must leave record, file, flag and answer consistent.
* **Two locks and a moving directory** (serve, commands).  Knowledge gained under a lock
  is worthless once the lock was given back.
* **A plan carried out in part** (allocate, hysteresis).  A cut and the growth it pays for
  are damped apart; growth without its cut overcommits the host.  Correct: what is
  carried out fits, left to itself nothing is resized inside its interval, and sizes come
  to rest where the traffic needs them.
* **Gates on evidence** (state).  Quiet workers look cheap, young ones look small, clocks
  step back, and every gate against these can become a reason never to learn at all.
* **Differences against what was remembered** (cpu).  Pids are used again, pools and the box
  are read or not independently of each other, and a difference is worth nothing
  over another stretch of time than its own.
* **Names that are not identities** (state).  Every package calls its pool `www`.
  Correct: no pool is planned on another's history, none is forgotten while it is there,
  and one that is gone is.
* **A second file in the same directory** (enable-status), without a record on disk and with
  a look that may be older than the lock.

`PROJECT.json` lists forty such hazards, each at its line, with the properties that
would notice.

## 2. The modules

`DropIn` <- `ApplyTxn` (refines `UndoLog`) <- `MCApplyTxn`, `ApplyTxnProofs`.
`ServeLoop` <- `MCServeLoop`, `ServeLoopProofs`.
`Allocate` <- `Resize` <- `Sizing` <- `MCSizing`, `SizingProofs`.
`PoolState` <- `MCPoolState`, `PoolStateProofs`.
`StatusDropIn` <- `MCStatusDropIn`, `StatusDropInProofs`.
`Store` <- `MCStore`, `StoreProofs`.
`CpuLoad` <- `MCCpuLoad`, `CpuLoadProofs`.
`SumTheorems` (facts about finite sums and greatest elements) <- `SizingProofs`, `PoolStateProofs`.

`ServeLoop` is where the processes meet; the others look into one part of what happens
there: `ApplyTxn` and `StatusDropIn` into what a holder of the directory's lock does with
its two files, `Store` into what a holder of the state file's lock does with the records,
`Sizing`, `PoolState` and `CpuLoad` into a round.

A definition whose comment begins *"Wrong:"* is a bug the code does not have.  It stands
before the definition it would replace, no specification uses it, and `PROJECT.json`
names the property that notices it.

### DropIn, ApplyTxn, UndoLog

A drop-in is a function from pools to sizes, or `None`, or `Foreign` (a file under our
name that we did not write), or `Edited` (ours, changed by hand so that php-fpm rejects
it).  `Accepts` is what `php-fpm -t` says: the operator's own files are sound and no
section is for a pool that is gone.

`ApplyTxn` is one sequence of runs against one master.  A step is one effect on the disk
or the master with the decision that follows it; `pc` is where the run is.

| code | actions |
|---|---|
| `Reconcile` reading the record | `LookUnusable`, `LookNothing`, `LookNotLanded`, `LookLanded` |
| `repairIfOursIsBroken`, `removeOursIfThatFixesIt` | `Repair`, `Remove`, `Recheck`, `Reinstate` |
| `undoLeftover` | `Undo`, `PutBack`, `Undone` |
| `finishReload` | `Finish`, `Watch`, `TakeOut` |
| `discard`, `sweepOrphanBackups` | `Discard`, `DropCopy`, `Sweep` |
| `Apply` to its first write | `Decline`, `Plan` |
| `writeDropIn` | `Backup`, `Record`, `Live` |
| validation in place, `markSignalled`, reload, settle window | `Validate`, `MarkSignalled`, `Signal`, `Settle` |
| `restore`, `commit` | `Restore`, `Commit`, `Unlink` |
| a crash, a kill, a cancelled context | `Abandon` |

A write may fail with its effect or without it.  `Daemon` says whether `reconciled`
survives from one run to the next (serve) or not (apply); `Provisioning` is
`NoMasterExpected`; `Racing` says which outsiders act *during* a run rather than between
runs; `IOErrors` says which writes can fail.  `pre`, `touched`, `told` and `survived` are
history: they are assigned and only properties read them.  Pids are abstracted to
"the one that is running", "one that is not" and none.

`UndoLog` is what the transaction promises: a value, and a log of at most one entry with
the value before and the one after; every change of the value by the tool is under an
entry or takes out the tool's own value.  `ApplyTxn!Log` instantiates it: the entry is
the open record with the true pre-image, and the spare is the file held in memory while
its removal is tried out.

### ServeLoop

The daemon, the commands and the client, at the granularity of what they lock, decide
and write.  What happens inside a directory is reduced to its outcome: `record[d]` is
none, open, or the process that could not roll its own change back.  Each return of
`round`, `reconcile`, `applyPlan`, `runApply` and `runEnableStatus` is an action, and
each leaves the blocked flag, the answer, the locks and the `reconciled` flag as that
return does.  `dir` is where the running master includes its pools from; an upgrade moves
it at any time.  `fresh[p]` says that p's copy of the state holds everything saved to its
state file.  `Findable` is `masterOnHost`, with the fallbacks of each caller.

Left out: `--drop-in-dir` (one master per host, found), dry runs, `--no-learn`, drift
history and metrics other than `apply_blocked`.

### Allocate, Resize, Sizing

`Allocate` is `Compute` as an operator: what each pool must have (`Floor`), the steps when
even that does not fit (`AllocateFloors`, with `Shrunk`, `TrimToFit`), and the passes over
what is wanted beyond (`AllocateDemand`).  The factors of `Options.Defaults` (growth 3/2,
headroom 5/4) are exact fractions; over the integers of the runs they agree with
the float64 arithmetic of the code.  Left out: the `pm.*` derivatives, the reason texts and
the guards against inputs no scrape produces.

`Resize` is `Apply`'s choice: what `decide` lets through, what
`requireShrinksWithGrowth` pulls in and drops, what `holdGrowths` holds back.  The order in
which equal claims are served is left open, as `sort.Slice` leaves it.  The damping a
forced apply keeps (one second, 0.01 %) is taken as none.

`Sizing` puts them in a loop with the scrape and the learning: `Observe` is a round up to
its plan, `Apply`, `ForcedApply`, `ApplyFails` and `NothingToApply` are the ways it ends,
and traffic, costs, trust, budget, the operator and the scrape's view move around it.
Time is counted in rounds.  The reserve and the neighbours' memory are part of `Rooms`.
What the scrape gets of a pool (`Sights`) is all of it (`read`), the configuration and no
answer (`silent`), an answer and no configuration (`unparsed`), or neither (`lost`); of all but
the first it is reserved for the most that anybody remembers (`Configured`, `peak`, `Shown`).
A pool gains trust in the loop and keeps it; how it is lost is in `PoolState`.

### PoolState

One record.  A scrape is the set of readings, how many workers are mature, whether the pool
served nothing, something or enough to count as work, and `max_active_processes`.  Times are
ages, negative when the clock was set back, so that `Load` (`forgetTheFuture`) and `Learn`
see what the code sees.  Readings are the floors of their histogram buckets.  How far one
scrape lowers the estimate is any step `decayAlpha` can take (`Lowered`), since the cadence
and the half-life only choose among them.  `habit` is how the pool behaves from some
point on, chosen once; it is how the liveness properties speak of a way of working.
`least`, `elapsed` and `shown` are history.

Left out: high-water marks and child processes' memory.

### StatusDropIn

The file with `pm.status_path` for the pools that had none.  `sites` is what the operator's
own files define, `sizing` and `status` are the sections of the tool's two files,
and `master` is what the running php-fpm has read, or none.  php-fpm accepts a
directory in which every section is of a pool that is defined.

| code | actions |
|---|---|
| a round of `serve --apply` begins: reconcile, unless that is done or the lock is refused | `Tick` |
| the start of `runApply` or `runEnableStatus` | `Start` |
| `repairIfOursIsBroken` | `Reconcile` |
| `UnstatusedFor` | `Look` |
| `runEnableStatus` taking the lock, after it has looked | `TakeLock` |
| `EnableStatus`: what is carried forward, the sandbox, the write | `Read`, `Write` |
| validation in place, the reload, its settle window | `Validate`, `Signal`, `Settle` |
| `restore`, the reload after it | `Undo`, `ReloadBack` |
| the rest of the daemon's round: discovery fails, no pools seen, or `noteUntracked` | `Note` (`NothingSeen`, `NoteUntracked`) |
| a budget that cannot be confirmed gives the directory back | `Release` |
| the sizing that follows in a run | `Size` |
| the end; a daemon keeps its lock, a command gives it back | `End` |

There are three kinds of process.  A daemon takes the lock once and keeps it over its rounds;
`reconciled` and `retries` (`statusRetries`) decide whether a round reconciles and enables
again: always while no pool can be seen at all, and at most `MaxStatusRetries` rounds in a row
while others are seen (`tracked` is one more pool of the operator's with a page of its own).
`apply` has the lock from its start to its end, `enable-status` from after its look.

`desired` and `backup` are the writer's memory; there is one of each because only the holder
of the lock has them.  `stranded` is history: the file may differ from what the
master runs because a process was killed with its change in flight, could not restore, or the
operator edited it.  The sizing transaction is reduced to whether it happens: `ApplyTxn`
has its insides.

### Store

A record says whose workers it has evidence of (`of`) and in how many rounds its pool was
missed.  A key is a master and a name, or a name alone for a record of an older build;
`Init` is a host just upgraded.  One process at a time has the file: its lock is in
`ServeLoop`, so a session begins when there is none.  `Observe` is a round up to the plan:
it learns from the pools that answered, in any order of pools with one name (`first`), and,
if a daemon, forgets what this round did not find.  `Finish`, `Return`, `NothingFound`
and `Stop` are the ways on, saving or not, and `Kill` loses the copy.  `Ambiguous` and
`PlannedFrom` are `ambiguousNames` and the lookup of `poolFor`.  `unseen` is history: how
many rounds of this process went by since it saw a pool.

### CpuLoad

Workers and their two counters, requests and CPU ticks, and what the daemon remembers of
both by pid.  `Scrape` is a round's two lessons: `observeCPU` for the pools that answered,
and `LearnCPULoad` for the same pools if the box could be read.  One unit of time is the
interval between two rounds.  A worker's CPU counter is its own time and that of the children
it has waited for: what they spend is in `kids` until `Reap` adds all of it to the parent's at
once, whenever that is.  `unread` are the workers whose `/proc` entry a round could not read;
`workerCPUTicks` says 0 of them, and 0 is remembered.  `round` is what the last step taught: the
requests counted, the CPU credited and the time it is divided by, and which pools
were given a point of the box's line.  `met` is history: what has truly been taken of the
worker that wears a pid now.  A daemon restarted on an older file is one that did not scrape in
between, and needs no action.

Left out: the line and the averages themselves, the buckets of the histogram, a request too
brief to say anything and the tool's own (both are "other"), and a box whose counter goes
back.

## 3. The runs

| run | instance | what it shows |
|---|---|---|
| `TxnOneShot` | 2 pools, 2 sizes, every write failing, 4 troubles, 1.5 M states | the undo record is sound, the transaction refines the undo log, disk and master agree at rest, records settle, our own broken file goes |
| `TxnDaemon` | the same with a daemon that reconciles once, no master expected, supervisor and foreign reloads racing every step; the writes that fail are those before the change; 1.4 M states | the record is still never written over unread, and no change is closed over a master that was not seen to survive it |
| `TxnDaemonOverwrite` | daemon, of all writes only a restore can fail, 3 troubles | *finding*: the next round writes over the open record |
| `ServeLoop` | a daemon, two applies (one with a state file of its own), an enable-status, a client, two directories, 2 retries, 2 outside events, 570 k states | every write is under its lock on a directory reconciled under that lock; no lost learning; the watcher holds nothing; the loop always gets to apply; a taken request is answered |
| `StatusDropIn` | 2 sites and a pool with a page of its own, a daemon with 2 retries, an apply, an enable-status, the operator adding and removing sites at any step, 3 events, 787 k states | what is rolled back is rolled back in the master too, a run keeps the pages that are on, the daemon turns a page on where nothing is in the way and it has not given up |
| `StatusStuck` | a daemon alone, 1 event | *finding*: a stale section keeps php-fpm down for ever |
| `Sizing` | 3 pools of costs 1, 2, 3; a host with and one without room; 2 events; 659 k states | plans fit and protect, what is carried out fits, the brake holds, sizes come to rest and demand is met |
| `SizingStuck` | the same loop | *finding*: one worker is never grown |
| `PoolState` | 2 costs, waiver after 2, trust after 2 samples over 2 units, 1 event, 153 k states | estimate and trust rest on readings that had a right to them; every settled shape is measured |
| `Store` | two masters with a `www` and one more pool, an old record, daemons for one master, for all and without learning, commands for all, 2 missed rounds, 2 events, 122 k states | nobody is planned on another's history, nobody forgets what is not his or not gone, what is gone is forgotten |
| `CpuLoad` | 2 pools whose workers may wear one pid, one core, children, 3 intervals, 3 requests, 2 exits or unreadable workers, 1.7 M states | each request is read once, each tick credited once |
| `CpuSpike` | the same | *finding*: what is credited is not of the time it is divided by |

### Bounds, and why they are enough

* **Transaction.**  Two pools give a file that loses one of two sections, keeps one, or
  has none; two sizes tell "same content" from "same pools".  Four troubles allow a
  failing write, a crash, a crash of the recovery and an operator's change in one
  behaviour.  The two pools and the two sizes are interchangeable; `TxnDaemon` uses that
  symmetry; no run with a liveness property does.  That nothing depends on these bounds is proved (section 4).
* **Serve loop.**  Two directories are needed for one to be left behind, two state files
  for two commands that do not exclude each other.  `MaxStatusRetries` is 2 for the
  code's 5: the bound, the reset and the step before the bound all occur.  Two outside
  events suffice for every exit of every round, alone and in pairs; only failures and
  host events count against them, requests and the restart of the master do not.
* **Sizing.**  Three pools: one to grow, one to be cut for it, and a bystander that must
  not be.  `Rooms` 10 is full with any two of them growing (`TrimToFit` is needed there), 24 is
  not.  `ShrinkMinInterval` is twice `MinInterval`, as a cut is damped harder.  One
  starting trust set is empty, one leaves a pool out, one is full.
* **Pool state.**  Two costs give up, down and equal.  The histogram is halved after 3
  readings instead of 4096, the waiver comes after 2 rounds instead of 20, trust after 2
  samples.  The percentile is 50 so that three readings distinguish it from their maximum;
  the code's default of 95 over three readings would be the maximum.  The clock only ever
  steps back; that it may also run ahead is a longer wait.
* **Status drop-in.**  One process of each kind; a second of a kind would do what the first
  does, and one lock keeps them apart.  `MaxStatusRetries` is 2 for the code's 5: below the bound, at it,
  and the reset all occur.  Three events are a site that goes, a failure and a kill, in any
  combination.  Sites change at any step of a process; foreign reloads wait for the holder of
  the lock here, since with them `PagesAgree` is false, as section 5 says of the master that its
  supervisor restarts.  In `TxnDaemon` they do not wait.
* **Store.**  A record is forgotten after 2 missed rounds instead of 5: one miss that is
  forgiven and one that is not.  Two masters and two names give an ambiguous name and one
  that is not; one old record is enough for two to want it.
* **CPU.**  One pid worn by workers of both pools in turn is the hardest case for a memory
  by pid; what one worker is given takes nothing from another but through `Cores`, which neither
  property of `CpuLoad` rests on.  A hole is longer than 1 interval instead of 5 minutes, so three
  intervals have a hole and its end.  A worker that could not be read counts as an event.

### Fairness, and why the code justifies it

* `ApplyTxn`: the ticker or the timer starts the next run, and a run that has started goes
  on (`WF` on `BeginRun`, `Reconcile`, `Apply`).  The operator mends his own files in the
  end (`WF` on `Mend`): nothing can be promised on a host whose configuration stays
  broken.  The service manager starts a master whose configuration is accepted (`SF` on
  `MasterStarts`, which can act only between runs: runs are seconds long and minutes apart).
* `ServeLoop`: `WF` on the daemon's own steps and on each command's.  Nothing is assumed
  of the client, of php-fpm or of the operator.
* `Sizing`: rounds begin and end (`WF_asked` of each half).  And, as an explicit conjunct
  and not a scheduling claim, a pool that keeps two workers busy is trusted sooner or
  later: that is `PoolState!SteadyIsBelieved`.  A pool that never does need never be trusted.
* `PoolState`: once its habit is chosen a pool goes on being scraped.
* `StatusDropIn`: the daemon's ticker ticks (`WF` on `Tick`), whoever has begun goes on (`WF` on
  `Step`), and the service manager starts a master whose configuration is accepted (`SF` on
  `MasterStarts`).  Nobody need ever run a command.  What the daemon does with its ticks is the
  code's: no fairness makes it look for pages again when its retries are used up.
* `Store`: each daemon gets its turn at the file (`SF` on `Begin`), its rounds find what is
  there again and again (`SF` on `FullRound`, a round in which every configuration could be
  parsed), and a round ends.  Sessions end (`SF` on `Stop`): without it a daemon that never
  stops keeps the others from the file, and nothing is to be expected of them.
* `CpuLoad`: none; all of it is safety.

### What the properties are

Each is stated in words above its definition.  The least obvious ones:

* `Agreement` (ApplyTxn): between runs, with no record and no operator's change waiting for
  a reload, a running master runs the file that is on disk.  No path through
  any rollback may leave the two apart with nothing to notice it.
* `SignalledNeedsSurvival`: delivery of a signal never closes a record.  `TxnDaemon` checks it with
  supervisors and other people's reloads between the probe and the close.
* `NothingUnreadIsWrittenOver` (ServeLoop): whoever is about to write has read
  what is in the directory, *since it last took the lock*.  Its one exception, a record
  the writer itself could not roll back, is the finding of `TxnDaemonOverwrite`.
* `TrustedGiveWayFirst` (Sizing): an unwatched pool is cut below its ceiling only if one
  worker for each watched pool would still not have made room.
* `GrowthFits`: what is carried out of a plan fits in the plan's room together
  with everything that was left where it is.
* `RoomMeansRest`, `DemandIsMet`: damping, growth factors and remembered peaks neither chase
  each other nor starve a pool; on a host with room, and above one worker.
* `TrustIsEarned` (PoolState): permission to cut a pool is never older than the load that was
  really seen, whatever the clock and the file say.
* `PagesAgree` (StatusDropIn): every way out of `EnableStatus` that takes the file back takes
  the master back with it, also where its reload was delivered and then ran out of time.
* `RunsKeepPages`: a run renders the file from a look it took under the lock, so it drops no section of a
  pool that is there.  Of `enable-status`, which looks first, this is false (section 5).
* `RemovedIsForgotten` (Store): stated with the cases in which it is false named in `Gone`.
* `PagesComeOn`: said of a daemon, for each pool that stays while nothing is in the way, and
  only as long as not every daemon has given up (`GivenUp`: reconciled, with its retries used
  up).  On a host where some pool can be seen, a page that is blocked for longer than the
  retries last never comes on by itself; while none can be seen, there is no such limit.
* `EveryTickOnce` (CpuLoad): its exceptions are a pid used again, of which some time may be lost,
  and a life credited a second time after a `/proc` entry could not be read (section 5).  There
  is no bound on what a pool is credited *per interval*: a reaped child's time comes in one lump, and a
  first answer brings the workers' whole lives.  That is the finding of `CpuSpike`.

## 4. What is proved

With TLAPS, for all values of the constants:

| theorem | statement |
|---|---|
| `ApplyTxnProofs!TypeCorrect` | `Spec => []TypeOK`, in every mode |
| `ApplyTxnProofs!CopyIsPreImage` | settling, unedited: `[]SavedCopyIsPreImage` |
| `ApplyTxnProofs!FileIsAccounted` | settling, unedited: `[]OnDiskIsAccounted` |
| `ApplyTxnProofs!RecordIsKept` | settling: `RecordNeverOverwritten` |
| `ApplyTxnProofs!TxnImplementsUndoLog` | settling, unedited: `Spec => Log!Spec`, the refinement |
| `ApplyTxnProofs!SurvivalNeeded` | settling, unedited: `SignalledNeedsSurvival` |
| `ApplyTxnProofs!MasterAgrees` | settling, unedited, undisturbed: `[]Agreement` |
| `SizingProofs!TypeCorrect` | `[]TypeOK` |
| `SizingProofs!PlanAlwaysFits` | `[]PlanFits`: no plan commits more than there is |
| `SizingProofs!UnmetIsFull` | `[]UnmetMeansFull`: what is left over helps nobody who is left wanting |
| `SizingProofs!TrustedFirst` | `[]TrustedGiveWayFirst` |
| `SizingProofs!GrowthAlwaysFits` | `GrowthFits`: nor does the part of a plan that is carried out |
| `SizingProofs!BrakeHolds` | `BrakeIsKept`: the daemon never resizes inside an interval |
| `ServeLoopProofs!WritesLocked` | `[]WritesUnderItsLock` |
| `ServeLoopProofs!NothingUnread` | `[]NothingUnreadIsWrittenOver` |
| `ServeLoopProofs!CopiesFresh` | `[]CopiesAreFresh` |
| `ServeLoopProofs!WatcherLetsGo` | `[]WatcherHoldsNothing` |
| `ServeLoopProofs!TypeCorrect` | `[]TypeOK` |
| `PoolStateProofs!TypeCorrect` | `[]TypeOK` |
| `PoolStateProofs!EstimateBacked` | `[]EstimateIsBacked` |
| `PoolStateProofs!TrustEarned`, `!TrustKept` | `[]TrustIsEarned`, `TrustIsKept` |
| `PoolStateProofs!EvidenceIsSound` | `[](CostInv /\ TrustInv)`, which they rest on |
| `StatusDropInProofs!TypeCorrect`, `!OneHolder` | `[]TypeOK`; who is at work in the directory holds its lock |
| `StatusDropInProofs!RunsKeep` | `RunsKeepPages` |
| `StatusDropInProofs!PagesCorrect` | `[]PagesAgree`, if nobody else reloads under a held lock |
| `StoreProofs!TypeCorrect` | `[]TypeOK` |
| `StoreProofs!HistoryOwn`, `!NothingShared` | `[]HistoryIsOwn`, `[]NothingSharedInAPlan` |
| `StoreProofs!OthersAlone`, `!ForgottenWhenGone` | `OthersLeftAlone`, `ForgottenOnlyWhenGone` |
| `CpuLoadProofs!TypeCorrect` | `[]TypeOK` |
| `CpuLoadProofs!RequestsOnce`, `!TicksOnce` | `EachRequestOnce`, `EveryTickOnce` |

These are all the invariants and action properties the passing runs check, and the refinement;
what is left to the runs is liveness.

*Settling* (`Heeded`) is `"clear" \notin IOErrors` and, for a daemon, neither `"record"` nor
`"restore"` in `IOErrors`; *unedited* adds `"edit" \notin Racing` (`Setting`).  In words:
removing the record works; a daemon, which believes to have reconciled until something tells it
otherwise, meets no failing write of the kind that leaves a record behind when `Apply` returns;
and nobody edits the drop-in while a run is writing it.  `fpm-tune apply` reconciles at the
start of each run, so for it every write may fail.  All three are needed: without the first the
saved copy is deleted under a record that stays; without the second the theorem is false
(`TxnDaemonOverwrite`); the third is the window described in section 6, and that the record is
never written over does not depend on it.

The argument has two layers.  `RecInv` is about the record alone: where the program counter
stands relative to it (`RecordFollowsSteps`: none before "live", an open one through the undoing
steps), that from the record to the commit it is this run's own (`ChangeIsRecorded`), and that a
process between runs which believes to have reconciled has left none (`BeliefIsTrue`, the reason
why a daemon may skip Reconcile).  `Sound` is about the files. `SavedCopyIsPreImage` and
`OnDiskIsAccounted` are not inductive: whether restoring is right depends on what the process
holds in memory (`MemoryFollowsDisk`: in "record" the saved copy is the file; in "putBack" what
is about to be written is the pre-image) and on why a file is being taken out under a record
(`TakenOutForWant`).  `Rendered` says that from "backup" on `next` is a file of ours, which
makes the record well formed.  One lemma per group of actions shows `Sound` kept
(`ReconcileIsSound`, `ApplyIsSound`, `OutsideIsSound`), `PreviousIsPre`, `WritesRecord` and
`ClearIsSure` carry the facts they share, and the refinement follows step by step from the
invariant before and after.

`SurvivalNeeded` adds `SurvivalFollows`: a record about to be closed over a signalled change
that is still in place has had its master seen alive.  `MasterAgrees` adds `MasterFollows`. It
says of a running master that is *in step* (has read what the operator wrote last) that it
accepts the file on disk, and runs that file, or what was there before a change not yet
signalled.  Every way back out of a rejected file is then taken only by a run whose master is
down or not in step, which is why none of them need reload it.  *Undisturbed* is `"start"` and
`"reload"` not in `Racing`; it is needed, since a supervisor that restarts the master inside the
settle window can leave it on a file the run then takes back (section 5).

`Allocate` computes with loops and sums, and what they compute is a matter of induction, for
which the library's theorems are out of reach.  What replaces it is that a set of numbers that
is not empty has a least element (`LeastSet`): nothing goes wrong because there is no first time
it does. `SumTheorems` proves of sums what is needed, from the definition of the folds.  A loop
is `Repeat(step, start)`, a recursive function on the states it can be in, and `RepeatEnds` says
that if every step that changes something keeps an invariant and counts down, the loop comes to
rest within the invariant.  `SizingProofs` follows the code on these: trimming stops, and only
at something that fits (`TrimFits`); the floors fit, whichever way they were found
(`FloorsFit`); a pass over the wants hands out only what is there (`PassGives`), and the last
pass ends where nobody who is short can be given one worker more (`DemandGiven`).
`ComputeIsFair` puts them together.  The inductive invariant `RoundIsSound` says that the plan a
round holds is such a one, for a question whose floors are what the scrape said (`AskSays`).

`GrowthAlwaysFits` starts from a plan that fits.  On a host with room, taking growths back
lowers what is committed by exactly their claims (`CommittedLess`), so the first enough of them
bring it under the room; on a full one each growth is let through only if it fits beside those
before it, and the last of these is the whole (`HeldFit`).  `ResizesFit` has all the ways
through `requireShrinksWithGrowth` and `holdGrowths`, in any order of equal claims.
`BrakeHolds` needs that `waited` never exceeds what is counted to, and the fact that everything
`requireShrinksWithGrowth` pulls in has passed the brake, though not the size threshold.

Two consequences for the code, as far as its float arithmetic is exact.  For inputs that pass
the guards at its top, neither `Compute`'s last check, that it has not promised more than there
is (`allocate.go:469`), nor the errors of the two calls of `trimToFit` are ever reached.  And
that unmet demand in a finished plan cannot be met, which a comment rests on 277,684 generated
plans (`allocate.go:484`), holds of all of them (`UnmetIsFull`).

`ServeLoop`'s four safety properties are proved for any directories, state files and commands,
from `ProcessAssumption` alone.  The pool directories need `IInv`: that a lock is held from
finding a directory to leaving it (`InsideIsLocked`), that the daemon holds one directory at a
time (`OneDirectory`), and what its flag stands for (`ReconciledIsRead`): `reconciled` implies a
directory it holds the lock on, with no record in it but its own or one it is writing.
`WritesUnderItsLock` and `NothingUnreadIsWrittenOver` are not inductive without the last:
`applyPlan` trusts the flag, not the directory.  The state files need `CopyInv`, that whoever
has a state loaded holds the lock beside its file, and the watcher `WatchInv`, that a lock is
held only by a round that applies and no round the client asked for is still marked as such when
the daemon is idle.

`PoolState`: the cost side needs only that every cost is a number (`CostInv`); the estimate
moves between two readings and never below the least of those that may lower it (`MovedBetween`,
`LowerOnlyMature`).  Trust is harder, since times are ages that a clock step changes and a
reading of the file cuts off at zero.  `TrustInv` says, of every age the record holds, that it
is either real (that much time has passed, `AgesAreReal`) or so far in the past that no clock
step that may still come brings it under the mark (`Safe`), and of the span that it is backed by
load that was shown (`SpanIsBacked`, `ShownHasPassed`).

`StatusDropIn`: `Exclusive` says that whoever is past taking the lock has it, that a daemon may
also have it between its steps, and that a daemon which takes itself for reconciled still does:
that is why it may go on to the sizing without asking.  `Accounted` says
what the master serves at each step of the one holder: the file, or, from the write to the
reload, the file as it was before (`backup`), or neither when it has been put back and not yet
reloaded.  The assumption of `PagesCorrect` is needed: somebody else's reload between the write
and the restore adopts a file that is on its way out.  `RunsKeep` needs `SawAll`: what a run saw
to exist holds every section of the file, because its look and its write are under one lock.

`Store`: `Own(disk)` and `Own(mem)` say of each copy that a record's evidence is its own pool's
or old, and that the old history of a name is in one record at most; the copies go their own
ways, and one is only ever replaced by the other.  `NothingShared` rests on the lookup alone:
two pools of one name are ambiguous, so neither falls back.  `ForgottenWhenGone` needs
`Counted`: while a daemon has the file, the missed rounds of a record whose pool it has seen are
rounds since it saw it.

`CpuLoad`: `Kin` says that once anything of a worker has been taken, what is remembered under
its pid is its own count, or zero where the last round could not read it; until then it may be
an earlier wearer's.  It is kept by every action of php-fpm because a worker's counters only
rise (`Lived`), whether by its own time or by a child's.

`PoolState`'s types are not obvious either: a bucket of the histogram stays below the mark
because the sum over all of them is halved when it gets there (`AddKeepsHist`), and a stored
time lies no further ahead than the clock was set back since (`StepsBack`).

Only model-checked: all liveness and everything else that rests on ENABLED, which is out of the
provers' reach here; and the four findings, which are counterexamples.

## 5. Findings

Each is a run whose property quotes the repository and is violated by what the code does.

1. **A failed rollback in serve** (`TxnDaemonOverwrite`; `serve/serve.go:956`).  When php-fpm
   rejects the written file and the restore fails, `Apply` leaves its record open for the next
   Reconcile, but the loop keeps `reconciled`, and its next round writes a second record
   and a second saved copy, now of the rejected file, over the first.
2. **One worker** (`SizingStuck`; `allocate/allocate.go:910`).  1.5 times one worker is one
   worker, and a pool of one is never trusted, so a saturated pool of one stays there.
3. **A stale section of the status drop-in** (`StatusStuck`; `apply/reconcile.go:174`).  A
   page was turned on and its site removed: php-fpm rejects the section that is left, the
   repair knows the sizing drop-in only, and `EnableStatus`, which would drop it, is reached
   only through a configuration php-fpm accepts.  The sentence it is held against
   (`docs/operating/recovering.md:13`) speaks of `zz-fpm-tune.conf`; it is read as a promise for
   whatever the tool itself has put in the directory.
4. **CPU over somebody else's time** (`CpuSpike`; `state/cpuload.go:139`).  A pool's CPU since its
   last answer, or its workers' whole lives at its first, is divided by the time since the box
   was last read, whoever answered then.  A pool that was silent for some rounds can be
   credited more cores than there are, and its averages and its line take that in.  The trace is the
   shortest one: a first answer by a worker older than the last reading.

Met while modelling, and not the subject of a run:

* A change in flight and a pool that is gone (`apply/reconcile.go:433`): if a pool was removed
  while a change was in flight, the new file and the saved one both name it, `undoLeftover`
  refuses to put back what php-fpm would reject, and nothing takes the tool's file out, although
  without a record `repairIfOursIsBroken` would.
* Both `RollbackFailed` returns of `applyPlan` (`serve/serve.go:966`) leave an apply-now answered
  "nothing was applied", although the change failed and is still on disk.
* On a full host two saturated pools are cut for one another in turn, for ever
  (`allocate/allocate.go:764`); damping spaces the reloads and does not end them.
* One mature worker among recycled ones, in a pool that once had two at work, passes neither
  the gate for one worker nor the one for recycled ones (`state/state.go:1019`): the pool is never measured.
* The default basis of a plan reads a histogram that is fed before any gate
  (`state/state.go:937`), so quiet or cold workers lower the planned cost although the estimate
  is protected from them.
* A kill between the write of the status drop-in and its reload leaves a file that the next
  run finds as it would render it, so it is not loaded until somebody reloads
  (`apply/status.go:136`); the comment at `apply/status.go:168` calls such a file harmless.
* `enable-status` looks for pools before it takes the lock (`main.go:709`) and renders from that
  look, so it can drop the section another process has added in between.
* `Forget` keeps a record by its pool's name: for an unscoped daemon a `www` removed from one master
  is there as long as another master has one.  Records without a master are forgotten by
  unscoped daemons only, and a scoped daemon whose master has lost every pool no longer gets that far.
* A pool that has lost its status page counts as absent, and is forgotten after five rounds.
* With `--no-learn`, `serve --apply` does not save when it last applied, so a restart loses the
  brake.
* The gap that makes a reading of the box worthless (`maxCPULoadGap`, "Nothing was watched in a longer
  hole") does not keep the same hole out of a pool's averages (`state/cpuload.go:147`).
* `maxStatusRetries` counts rounds with any pool left without a page, not tries for a pool
  (`serve/serve.go:810`).  Rounds in which the lock was refused use them up, and a pool added after
  another has used them up never gets its page before a restart or an `enable-status`, although
  the log says of it "turning it on this round" (`serve/serve.go:793`).
* An unreadable `/proc` entry counts as zero CPU time (`observe/observe.go:372`) and is remembered as
  a reading (`state/cpuload.go:204` passes over negative ones only), so the next good one credits
  the worker's whole life again.
* A reaped child's CPU time reaches its parent's counter all at once, so even a pool that answers
  every round may be credited more cores than the box has.
* Pools that did not answer are not in the total the dominant pool is measured against, so
  their work becomes part of what the box spends for the others.
* "it was born inside the interval" (`state/cpuload.go:195`) is not so for a pool that answers for the
  first time: its workers' whole lives are credited.
* The span of trust can be negative, after two clock steps with a reading of the file in
  between; it is read as none.
* `docs/operating/recovering.md:31` says a signalled change with no master "is restored";
  `finishReload` leaves the file, for reasons its own comment gives.
* `apply/transaction.go:22` says of `written` that the master "certainly has not been
  signalled"; `finishReload` signals for such a record without rewriting the phase, so a crash
  in its settle window leaves a record that denies a signal that was delivered.
* A daemon that has given up on a repair gives the pool directory back so that the
  operator's `apply` "is not refused" (`serve.go:1079`), but keeps the state file's lock, which
  `apply` asks for first (`main.go:474`), so with the default `--state` it is refused.
* `state_unsaved` is to stay "until a save succeeds" (`serve.go:401`), but the next round that gets
  to `applyPlan` clears it (`serve.go:920`).
* `apply.go:87` describes `MinInterval` as between reloads of one *master*; `decide` measures it per
  pool, so three pools may reload a master three times inside it.
* Between `parseOurs` and the write, php-fpm is asked about a sandbox.  A file put under the tool's
  name in between is overwritten, though `how-it-fails-safe.md:18` says never.
* A cut pulled in for a growth is carried out even when the growth is then dropped.
* `allocate.go:478-486` says neither test of a former guard is reachable; an unknown pool whose
  reserve exceeds the host cap is granted more than it wants.
* `state.go:1075-1081` says that a clock stepping back cannot reach the guard on `LastBusyAt`.  It
  can: the step sets `LastUpdated` back, and the scrape after it has a positive interval
  (`TrustIsKept` needs that guard).
* Busy samples before and after a long wait count as a span of evidence.  The test that
  confidence does not advance on waiting sends no late busy sample.
* The first interval between two scrapes is taken as the cadence whatever its length, although "an
  absence never teaches it that absences are normal" (`state.go:1212`).
* `measuring-workers.md:42` describes a reading as the largest of the mature workers; `Learn` takes
  the largest of all.
* A forced apply that ends inconclusive is answered as changed.
* A master restarted by its supervisor inside the settle window runs the rejected file, and
  the reload after the rollback goes to the pid that died.

## 6. What is not modelled, and why

* **Failing removals** (`clearTransaction` drops its error) and **power loss** (unlinks in
  `commit` are not synced): with either, `SavedCopyIsPreImage` does not hold, and what does is
  planned as a property of its own (section 7).
* **The operator editing the drop-in while a run writes it**: the code takes no lock the
  operator knows of.  The edits of `ApplyTxn` happen between runs, and those of `StatusDropIn`
  while the directory is free.
* **`--cpu`** (`plan/cpu.go`): the ceiling it takes from the measured CPU.  What is measured
  is in `CpuLoad`, and that a full CPU holds a pool at its size in `Sizing` (`starved`).
* **Child processes' memory** and the high-water marks of a record.
* **`--drop-in-dir`'s checks, dry runs, a host on which no master is expected** outside
  `ApplyTxn`.
* **Pure I/O and output**: reading `/proc` and cgroups, the FastCGI scrape, discovery,
  metrics, history, recommendations, `top`, flags, the unit file, the load generator.

## 7. Plan

Done: the transaction and its refinement (`ApplyTxn`), the processes (`ServeLoop`), the
division (`Sizing`), what is learned (`PoolState`, `Store`, `CpuLoad`), the second drop-in
(`StatusDropIn`), and the proofs of section 4.  Next, in this order:

1. Weaker promises under failing removals and power loss, as a variant of `ApplyTxn`'s
   constants: what recovery still guarantees.
2. The ceiling of `--cpu` in `Allocate` and `Sizing`, the child memory in `Ask`.

New questions replace runs whose finding the code has answered, rather than adding to a suite
that takes long already.
