----------------------------- MODULE ServeLoop ------------------------------
(***************************************************************************)
(* The processes that may write one host's pool configuration: the serve   *)
(* daemon with its rounds and its control socket, one-shot "fpm-tune       *)
(* apply" runs and "fpm-tune enable-status" runs, and the two flocks that  *)
(* keep them apart.  What Reconcile and Apply do inside a directory is     *)
(* ApplyTxn's business; here they are their outcomes, and a directory is   *)
(* known by whether a transaction record is open in it.  No drop-in        *)
(* directory is named on the command lines, so the directory is the one    *)
(* the master includes, which a PHP upgrade moves.                         *)
(***************************************************************************)
EXTENDS Naturals, FiniteSets

CONSTANTS
    Dirs,               \* pool directories
    Stores,             \* state files
    Serve,              \* the daemon
    Applies,            \* one-shot apply commands
    Enablers,           \* enable-status commands
    StoreOf,            \* the --state of the daemon and of each apply
    None,
    MaxStatusRetries,   \* maxStatusRetries, 5 in the code
    MaxHappened         \* bound: events that are not the daemon's own doing

ASSUME ProcessAssumption ==
    /\ Serve \notin Applies \cup Enablers
    /\ Applies \cap Enablers = {}
    /\ StoreOf \in [{Serve} \cup Applies -> Stores]
    /\ None \notin {Serve} \cup Applies \cup Enablers \cup Dirs
ASSUME BoundAssumption == MaxStatusRetries \in Nat /\ MaxHappened \in Nat

Procs == {Serve} \cup Applies \cup Enablers

Steps == {"off", "idle", "reconcile", "repair", "look", "plan", "write",
          "writing", "saveApplied", "saveLast", "save", "reply",
          "find", "gather", "enable", "refused"}

Reasons == {"", "no_master", "lock", "budget_unconfirmed", "unrepaired",
            "state_unsaved"}

VARIABLES
    (* the host *)
    up,         \* the master is running
    dir,        \* the pool directory it includes
    pages,      \* whether all, some or none of its pools have a status page
    notes,      \* directories whose master is noted beside the backups
    known,      \* the directory of the master each state file names, and the
                \* daemon's copy of its own
    record,     \* per directory: no record, an open one, or the process that
                \* could not roll its change back and left it open
    dirLock,    \* who holds the pool-directory lock
    stateLock,  \* who holds the lock beside the state file
    (* the processes *)
    pc,
    target,     \* the directory each is working in
    fresh,      \* its copy of the state has everything that was saved
    (* the daemon *)
    mode,       \* it runs with --apply
    reconciled,
    forced,     \* forceApply: this round was asked for
    outcome,    \* what the round will answer
    blocked,    \* applyBlocked
    retries,    \* statusRetries
    request,    \* the apply-now client
    unsaved,    \* a forced save failed and none has succeeded since
    happened    \* how many outside events so far

host == <<up, dir, pages>>
memory == <<notes, known>>
daemon == <<mode, reconciled, forced, outcome, blocked, retries>>
vars == <<host, memory, record, dirLock, stateLock, pc, target, fresh,
          daemon, request, unsaved, happened>>

TypeOK ==
    /\ up \in BOOLEAN /\ dir \in Dirs /\ pages \in {"all", "some", "none"}
    /\ notes \subseteq Dirs /\ known \in [Stores \cup {Serve} -> Dirs \cup {None}]
    /\ record \in [Dirs -> {None, "open"} \cup Procs]
    /\ dirLock \in [Dirs -> Procs \cup {None}]
    /\ stateLock \in [Stores -> Procs \cup {None}]
    /\ pc \in [Procs -> Steps] /\ target \in [Procs -> Dirs \cup {None}]
    /\ fresh \in [Procs -> BOOLEAN]
    /\ {mode, reconciled, forced, unsaved} \subseteq BOOLEAN
    /\ outcome \in {"unreached", "error", "message", "changed"}
    /\ blocked \in Reasons /\ retries \in 0 .. MaxStatusRetries
    /\ request \in {"none", "waiting", "running", "gone"}
    /\ happened \in 0 .. MaxHappened

Init ==
    /\ up = TRUE /\ dir \in Dirs /\ pages \in {"all", "some", "none"}
    /\ notes = {} /\ known = [k \in Stores \cup {Serve} |-> None]
    /\ record = [d \in Dirs |-> None]
    /\ dirLock = [d \in Dirs |-> None] /\ stateLock = [s \in Stores |-> None]
    /\ pc = [p \in Procs |-> "off"] /\ target = [p \in Procs |-> None]
    /\ fresh = [p \in Procs |-> FALSE]
    /\ mode = FALSE /\ reconciled = FALSE /\ forced = FALSE
    /\ outcome = "unreached" /\ blocked = "" /\ retries = 0
    /\ request = "none" /\ unsaved = FALSE
    /\ happened = 0

-----------------------------------------------------------------------------

SomethingHappens == happened < MaxHappened /\ happened' = happened + 1

At(p, step) == pc[p] = step
Goto(p, step) == pc' = [pc EXCEPT ![p] = step]

(* flock, without blocking. *)
Available(lock, key, p) == lock[key] \in {None, p}
Taken(lock, key, p) == [lock EXCEPT ![key] = p]
Released(lock, p) == [key \in DOMAIN lock |-> IF lock[key] = p THEN None ELSE lock[key]]

(* The master as it is now, or as it is remembered when none runs: what the
   state names comes first, and the daemon also reads the note beside the
   backups, when it is the only one. *)
Findable(p) ==
    IF up THEN {dir}
    ELSE IF p = Serve
         THEN IF known[p] # None THEN {known[p]}
              ELSE IF Cardinality(notes) = 1 THEN notes ELSE {}
    ELSE IF p \in Applies THEN {known[StoreOf[p]]} \ {None}
    ELSE {}

Holds(p) == \E d \in Dirs : dirLock[d] = p

Applying == mode \/ forced

(***************************************************************************)
(* The lock on d, given up elsewhere.  Anything but keeping the lock it    *)
(* already has makes what it knew about the directory worthless.           *)
(***************************************************************************)
HoldResource(d) ==
    /\ dirLock' = IF Available(dirLock, d, Serve)
                  THEN Taken(Released(dirLock, Serve), d, Serve)
                  ELSE Released(dirLock, Serve)
    /\ reconciled' = (reconciled /\ dirLock[d] = Serve)

ReleaseResource ==
    /\ dirLock' = Released(dirLock, Serve)
    /\ reconciled' = (reconciled /\ ~Holds(Serve))

EndRound == Goto(Serve, IF forced THEN "reply" ELSE "idle")

(* The process ends and the kernel closes its lock files. *)
Exit(p) ==
    /\ dirLock' = Released(dirLock, p) /\ stateLock' = Released(stateLock, p)
    /\ target' = [target EXCEPT ![p] = None]
    /\ fresh' = [fresh EXCEPT ![p] = FALSE]

(* A state file written whole: nobody else's copy has what it holds now. *)
SavedBy(p) ==
    fresh' = [q \in Procs |->
                /\ fresh[q]
                /\ q # p /\ q \notin Enablers => StoreOf[q] # StoreOf[p]]

(* The master of d is in the state it saves. *)
Naming(p, d) == known' = [known EXCEPT ![StoreOf[p]] = d]

-----------------------------------------------------------------------------
(* The daemon starts, and its rounds begin.                                *)

(* Wrong: New reads the state before it has the lock, and takes a lock in
   use for a reason to carry on watching. *)
StartServeUnlocked ==
    /\ At(Serve, "off")
    /\ stateLock' = IF Available(stateLock, StoreOf[Serve], Serve)
                    THEN Taken(stateLock, StoreOf[Serve], Serve) ELSE stateLock
    /\ fresh' = [fresh EXCEPT ![Serve] = TRUE]
    /\ known' = [known EXCEPT ![Serve] = known[StoreOf[Serve]]]
    /\ Goto(Serve, "idle")
    /\ mode' \in BOOLEAN /\ reconciled' = FALSE /\ forced' = FALSE
    /\ outcome' = "unreached" /\ blocked' = "" /\ retries' = 0
    /\ UNCHANGED <<host, notes, record, dirLock, target, request, unsaved, happened>>

(* New: the lock first, and only then the state. *)
StartServe ==
    /\ At(Serve, "off")
    /\ Available(stateLock, StoreOf[Serve], Serve)
    /\ stateLock' = Taken(stateLock, StoreOf[Serve], Serve)
    /\ fresh' = [fresh EXCEPT ![Serve] = TRUE]
    /\ known' = [known EXCEPT ![Serve] = known[StoreOf[Serve]]]
    /\ Goto(Serve, "idle")
    /\ mode' \in BOOLEAN /\ reconciled' = FALSE /\ forced' = FALSE
    /\ outcome' = "unreached" /\ blocked' = "" /\ retries' = 0
    /\ UNCHANGED <<host, notes, record, dirLock, target, request, unsaved, happened>>

FirstStep(applying) == IF applying /\ ~reconciled THEN "reconcile" ELSE "look"

Tick ==
    /\ At(Serve, "idle")
    /\ Goto(Serve, FirstStep(mode))
    /\ UNCHANGED <<host, memory, record, dirLock, stateLock, target, fresh>>
    /\ UNCHANGED <<daemon, request, unsaved, happened>>

TakeRequest ==
    /\ At(Serve, "idle") /\ request = "waiting"
    /\ request' = "running"
    /\ forced' = TRUE /\ outcome' = "unreached"
    /\ Goto(Serve, FirstStep(TRUE))
    /\ UNCHANGED <<host, memory, record, dirLock, stateLock, target, fresh>>
    /\ UNCHANGED <<mode, reconciled, blocked, retries, unsaved, happened>>

-----------------------------------------------------------------------------
(* reconcile.                                                              *)

(* Nothing running and nothing remembered, or a scan that names no master. *)
NoMasterToReconcile ==
    /\ At(Serve, "reconcile")
    /\ \/ Findable(Serve) = {} /\ UNCHANGED happened
       \/ SomethingHappens
    /\ Goto(Serve, "look")
    /\ UNCHANGED <<host, memory, record, dirLock, stateLock, target, fresh>>
    /\ UNCHANGED <<daemon, request, unsaved>>

FindMaster ==
    /\ At(Serve, "reconcile")
    /\ \E d \in Findable(Serve) :
        /\ HoldResource(d)
        /\ target' = [target EXCEPT ![Serve] = d]
        /\ IF dirLock'[d] = Serve
           THEN Goto(Serve, "repair") /\ UNCHANGED <<blocked, outcome>>
           ELSE Goto(Serve, "look") /\ blocked' = "lock" /\ outcome' = "error"
    /\ UNCHANGED <<host, memory, record, stateLock, fresh>>
    /\ UNCHANGED <<mode, forced, retries, request, unsaved, happened>>

(* Reconcile left no record, and EnsureStatus did what it could. *)
Repaired ==
    /\ At(Serve, "repair")
    /\ record' = [record EXCEPT ![target[Serve]] = None]
    /\ pages' \in IF up THEN {pages, "all"} ELSE {pages}
    /\ reconciled' = TRUE
    /\ Goto(Serve, "look")
    /\ UNCHANGED <<up, dir, memory, dirLock, stateLock, target, fresh>>
    /\ UNCHANGED <<mode, forced, outcome, blocked, retries, request, unsaved, happened>>

NotRepaired ==
    /\ At(Serve, "repair")
    /\ SomethingHappens
    /\ dirLock' = Released(dirLock, Serve)
    /\ blocked' = "unrepaired" /\ outcome' = "error"
    /\ Goto(Serve, "look")
    /\ UNCHANGED <<host, memory, record, stateLock, target, fresh>>
    /\ UNCHANGED <<mode, reconciled, forced, retries, request, unsaved>>

-----------------------------------------------------------------------------
(* The rest of a round.                                                    *)

DiscoveryFails ==
    /\ At(Serve, "look")
    /\ SomethingHappens
    /\ EndRound
    /\ UNCHANGED <<host, memory, record, dirLock, stateLock, target, fresh>>
    /\ UNCHANGED <<daemon, request, unsaved>>

NoTargets ==
    /\ At(Serve, "look")
    /\ ~up \/ pages = "none"
    /\ reconciled' = FALSE
    /\ EndRound
    /\ UNCHANGED <<host, memory, record, dirLock, stateLock, target, fresh>>
    /\ UNCHANGED <<mode, forced, outcome, blocked, retries, request, unsaved, happened>>

(* Wrong: a pool that can never be given a page is tried for ever. *)
NoteUntrackedForEver ==
    /\ reconciled' = (reconciled /\ (pages = "all" \/ ~mode))
    /\ UNCHANGED retries

(* Pools without a page make an applying daemon reconcile again, so many
   rounds in a row.  Asking which they are may fail, and then says none. *)
NoteUntracked ==
    \/ pages \in {"all", "some"} /\ retries' = 0 /\ UNCHANGED reconciled
    \/ /\ pages = "some" /\ mode /\ retries < MaxStatusRetries
       /\ retries' = retries + 1 /\ reconciled' = FALSE
    \/ /\ pages = "some" /\ ~(mode /\ retries < MaxStatusRetries)
       /\ UNCHANGED <<retries, reconciled>>

(* Discovery, the scrape, learning and plan.Build, which may fail. *)
Look ==
    /\ At(Serve, "look")
    /\ up /\ pages # "none"
    /\ NoteUntracked
    /\ \/ Goto(Serve, "plan") /\ UNCHANGED happened
       \/ SomethingHappens /\ Goto(Serve, "saveLast")
    /\ UNCHANGED <<host, memory, record, dirLock, stateLock, target, fresh>>
    /\ UNCHANGED <<mode, forced, outcome, blocked, request, unsaved>>

(* Not a round that writes; an asked-for one says why. *)
NotApplying ==
    /\ At(Serve, "plan")
    /\ ~(Applying /\ reconciled)
    /\ outcome' = IF forced /\ outcome # "error" THEN "message" ELSE outcome
    /\ Goto(Serve, "save")
    /\ UNCHANGED <<host, memory, record, dirLock, stateLock, target, fresh>>
    /\ UNCHANGED <<mode, reconciled, forced, blocked, retries, request, unsaved, happened>>

-----------------------------------------------------------------------------
(* applyPlan.                                                              *)

Refuse(why) == blocked' = why /\ outcome' = "error" /\ Goto(Serve, "save")

MasterLost ==
    /\ At(Serve, "plan") /\ Applying /\ reconciled
    /\ (~up /\ UNCHANGED happened) \/ SomethingHappens
    /\ Refuse("no_master")
    /\ UNCHANGED <<host, memory, record, dirLock, stateLock, target, fresh>>
    /\ UNCHANGED <<mode, reconciled, forced, retries, request, unsaved>>

(* The lock on the directory this call is about to write.  One taken only
   now is on a directory nobody here has reconciled. *)
DirectoryMoved ==
    /\ At(Serve, "plan") /\ Applying /\ reconciled
    /\ up
    /\ HoldResource(dir)
    /\ ~reconciled'
    /\ IF dirLock'[dir] = Serve
       THEN outcome' = "message" /\ Goto(Serve, "save") /\ UNCHANGED blocked
       ELSE Refuse("lock")
    /\ UNCHANGED <<host, memory, record, stateLock, target, fresh>>
    /\ UNCHANGED <<mode, forced, retries, request, unsaved, happened>>

(* Budget.LookupErr: the lock goes back, because the remedy is a one-shot. *)
BudgetUnconfirmed ==
    /\ At(Serve, "plan") /\ Applying /\ reconciled
    /\ up /\ dirLock[dir] = Serve
    /\ SomethingHappens
    /\ ReleaseResource
    /\ Refuse("budget_unconfirmed")
    /\ UNCHANGED <<host, memory, record, stateLock, target, fresh>>
    /\ UNCHANGED <<mode, forced, retries, request, unsaved>>

(* Wrong: whatever directory it holds, it writes where the master is now. *)
GoAheadUnkeyed ==
    /\ At(Serve, "plan") /\ Applying /\ reconciled
    /\ up
    /\ blocked' = ""
    /\ known' = [known EXCEPT ![Serve] = dir]
    /\ target' = [target EXCEPT ![Serve] = dir]
    /\ Goto(Serve, "write")
    /\ UNCHANGED <<host, notes, record, dirLock, stateLock, fresh>>
    /\ UNCHANGED <<mode, reconciled, forced, outcome, retries, request, unsaved, happened>>

GoAhead ==
    /\ At(Serve, "plan") /\ Applying /\ reconciled
    /\ up
    /\ HoldResource(dir)
    /\ dirLock'[dir] = Serve /\ reconciled'
    /\ blocked' = ""
    /\ known' = [known EXCEPT ![Serve] = dir]
    /\ target' = [target EXCEPT ![Serve] = dir]
    /\ Goto(Serve, "write")
    /\ UNCHANGED <<host, notes, record, stateLock, fresh>>
    /\ UNCHANGED <<mode, forced, outcome, retries, request, unsaved, happened>>

-----------------------------------------------------------------------------
(* Apply, by the daemon and by the one-shots.                              *)

Writers == {Serve} \cup Applies

(* Where its caller goes after an Apply that returned no error. *)
AfterApply(p, changed) ==
    Goto(p, CASE p # Serve -> "saveLast"
              [] changed   -> "saveApplied"
              [] OTHER     -> "save")

(* What serve makes of it. *)
Report(p, answer) ==
    IF p = Serve
    THEN outcome' = answer ELSE UNCHANGED outcome

(* Nothing worth a reload, or refused before anything is written. *)
ApplyNothing(p) ==
    /\ At(p, "write")
    /\ \/ Report(p, "message") /\ AfterApply(p, FALSE) /\ UNCHANGED happened
       \/ /\ SomethingHappens
          /\ Report(p, "error")
          /\ Goto(p, IF p = Serve THEN "save" ELSE "off")
    /\ IF pc'[p] = "off" THEN Exit(p)
       ELSE UNCHANGED <<dirLock, stateLock, target, fresh>>
    /\ UNCHANGED <<host, memory, record>>
    /\ UNCHANGED <<mode, reconciled, forced, blocked, retries, request, unsaved>>

BeginWrite(p) ==
    /\ At(p, "write")
    /\ record' = [record EXCEPT ![target[p]] = "open"]
    /\ notes' \in {notes, notes \cup {target[p]}}
    /\ Goto(p, "writing")
    /\ UNCHANGED <<host, known, dirLock, stateLock, target, fresh>>
    /\ UNCHANGED <<daemon, request, unsaved, happened>>

(* Reloaded and seen alive. *)
Adopted(p) ==
    /\ At(p, "writing")
    /\ notes' = notes \cup {target[p]}
    /\ record' = [record EXCEPT ![target[p]] = None]
    /\ Report(p, "changed")
    /\ AfterApply(p, TRUE)
    /\ UNCHANGED <<host, known, dirLock, stateLock, target, fresh>>
    /\ UNCHANGED <<mode, reconciled, forced, blocked, retries, request, unsaved, happened>>

(* Wrong: the flag stays, and with it the record. *)
InconclusiveBelieving(p) ==
    /\ At(p, "writing")
    /\ notes' = notes \cup {target[p]}
    /\ SomethingHappens
    /\ Report(p, "changed")
    /\ AfterApply(p, TRUE)
    /\ UNCHANGED <<host, known, record, dirLock, stateLock, target, fresh>>
    /\ UNCHANGED <<mode, reconciled, forced, blocked, retries, request, unsaved>>

(* The settle window was cut short: the record stays open, no error. *)
Inconclusive(p) ==
    /\ At(p, "writing")
    /\ notes' = notes \cup {target[p]}
    /\ SomethingHappens
    /\ reconciled' = (reconciled /\ p # Serve)
    /\ Report(p, "changed")
    /\ AfterApply(p, TRUE)
    /\ UNCHANGED <<host, known, record, dirLock, stateLock, target, fresh>>
    /\ UNCHANGED <<mode, forced, blocked, retries, request, unsaved>>

(* An error with the file put back, or (RollbackFailed) not: then serve
   keeps its flag and leaves the answer as it was. *)
ApplyFails(p) ==
    /\ At(p, "writing")
    /\ SomethingHappens
    /\ \/ record' = [record EXCEPT ![target[p]] = None] /\ Report(p, "error")
       \/ record' = [record EXCEPT ![target[p]] = p] /\ Report(p, outcome)
    /\ Goto(p, IF p = Serve THEN "save" ELSE "off")
    /\ IF p = Serve THEN UNCHANGED <<dirLock, stateLock, target, fresh>> ELSE Exit(p)
    /\ UNCHANGED <<host, memory>>
    /\ UNCHANGED <<mode, reconciled, forced, blocked, retries, request, unsaved>>

-----------------------------------------------------------------------------
(* save, and the end of a round.                                           *)

SaveForced ==
    /\ At(Serve, "saveApplied") \/ At(Serve, "saveLast")
    /\ IF At(Serve, "saveApplied") THEN Goto(Serve, "save") ELSE EndRound
    /\ \/ /\ SavedBy(Serve) /\ Naming(Serve, known[Serve]) /\ unsaved' = FALSE
          /\ UNCHANGED <<blocked, happened>>
       \/ /\ SomethingHappens
          /\ blocked' = "state_unsaved" /\ unsaved' = TRUE
          /\ UNCHANGED <<fresh, known>>
    /\ UNCHANGED <<host, notes, record, dirLock, stateLock, target>>
    /\ UNCHANGED <<mode, reconciled, forced, outcome, retries, request>>

(* Only when it is due, and not published when it fails. *)
Save ==
    /\ At(Serve, "save")
    /\ EndRound
    /\ \/ UNCHANGED <<fresh, known, unsaved>>
       \/ SavedBy(Serve) /\ Naming(Serve, known[Serve]) /\ unsaved' = FALSE
    /\ UNCHANGED <<host, notes, record, dirLock, stateLock, target>>
    /\ UNCHANGED <<daemon, request, happened>>

(* Wrong: a watching daemon keeps the pool directory after its one write. *)
ReplyHolding ==
    /\ At(Serve, "reply")
    /\ Goto(Serve, "idle")
    /\ request' = "none" /\ forced' = FALSE
    /\ UNCHANGED <<host, memory, record, dirLock, stateLock, target, fresh>>
    /\ UNCHANGED <<mode, reconciled, outcome, blocked, retries, unsaved, happened>>

(* Wrong: a round that did not reach the plan has nothing to answer. *)
ReplyIfReached ==
    /\ At(Serve, "reply")
    /\ Goto(Serve, "idle")
    /\ request' = (IF outcome = "unreached" THEN request ELSE "none") /\ forced' = FALSE
    /\ IF mode THEN UNCHANGED <<dirLock, reconciled, blocked>>
       ELSE /\ ReleaseResource
            /\ blocked' = IF blocked = "state_unsaved" THEN blocked ELSE ""
    /\ UNCHANGED <<host, memory, record, stateLock, target, fresh>>
    /\ UNCHANGED <<mode, outcome, retries, unsaved, happened>>

(* The answer is left in the request's buffer, whoever is still there. *)
Reply ==
    /\ At(Serve, "reply")
    /\ Goto(Serve, "idle")
    /\ request' = "none" /\ forced' = FALSE
    /\ IF mode THEN UNCHANGED <<dirLock, reconciled, blocked>>
       ELSE /\ ReleaseResource
            /\ blocked' = IF blocked = "state_unsaved" THEN blocked ELSE ""
    /\ UNCHANGED <<host, memory, record, stateLock, target, fresh>>
    /\ UNCHANGED <<mode, outcome, retries, unsaved, happened>>

-----------------------------------------------------------------------------
(* fpm-tune apply.                                                         *)

(* The state lock, then the state. *)
StartApply(c) ==
    /\ At(c, "off")
    /\ SomethingHappens
    /\ IF Available(stateLock, StoreOf[c], c)
       THEN stateLock' = Taken(stateLock, StoreOf[c], c) /\ Goto(c, "find")
       ELSE Goto(c, "refused") /\ UNCHANGED stateLock
    /\ UNCHANGED <<host, memory, record, dirLock, target, fresh, daemon, request, unsaved>>

(* The master as it is now, or as the state names it, and the lock on its
   directory, which the command keeps whatever becomes of the master. *)
FindAndLock(c) ==
    /\ At(c, "find")
    /\ \E d \in Findable(c) :
        IF Available(dirLock, d, c)
        THEN /\ dirLock' = Taken(dirLock, d, c)
             /\ target' = [target EXCEPT ![c] = d]
             /\ Goto(c, IF c \in Enablers THEN "enable" ELSE "repair")
             /\ UNCHANGED <<stateLock, fresh>>
        ELSE Goto(c, "refused") /\ Exit(c)
    /\ UNCHANGED <<host, memory, record, daemon, request, unsaved, happened>>

FindNothing(c) ==
    /\ At(c, "find") /\ Findable(c) = {}
    /\ Goto(c, "off") /\ Exit(c)
    /\ UNCHANGED <<host, memory, record, daemon, request, unsaved, happened>>

ApplyRepairs(c) ==
    /\ c \in Applies /\ At(c, "repair")
    /\ \/ /\ record' = [record EXCEPT ![target[c]] = None]
          /\ pages' \in IF up THEN {pages, "all"} ELSE {pages}
          /\ Goto(c, "gather")
          /\ UNCHANGED <<dirLock, stateLock, target, fresh, happened>>
       \/ /\ SomethingHappens
          /\ Goto(c, "off") /\ Exit(c)
          /\ UNCHANGED <<record, pages>>
    /\ UNCHANGED <<up, dir, memory, daemon, request, unsaved>>

(* gather loads the state, learns and saves it; refused with no pools to
   see in that directory, or a budget nobody confirmed. *)
Gather(c) ==
    /\ At(c, "gather")
    /\ \/ /\ up /\ dir = target[c] /\ pages # "none"
          /\ fresh' = [q \in Procs |->
                        \/ q = c
                        \/ fresh[q] /\ (q \in Enablers \/ StoreOf[q] # StoreOf[c])]
          /\ Goto(c, "write")
          /\ UNCHANGED <<dirLock, stateLock, target, happened>>
       \/ /\ IF up /\ dir = target[c] /\ pages # "none"
             THEN SomethingHappens ELSE UNCHANGED happened
          /\ Goto(c, "off") /\ Exit(c)
    /\ UNCHANGED <<host, memory, record, daemon, request, unsaved>>

ApplySaves(c) ==
    /\ c \in Applies /\ At(c, "saveLast")
    /\ Goto(c, "off")
    /\ dirLock' = Released(dirLock, c) /\ stateLock' = Released(stateLock, c)
    /\ target' = [target EXCEPT ![c] = None]
    /\ SavedBy(c) /\ Naming(c, target[c])
    /\ UNCHANGED <<host, notes, record, daemon, request, unsaved, happened>>

Dismiss(c) ==
    /\ At(c, "refused")
    /\ Goto(c, "off")
    /\ UNCHANGED <<host, memory, record, dirLock, stateLock, target, fresh>>
    /\ UNCHANGED <<daemon, request, unsaved, happened>>

-----------------------------------------------------------------------------
(* fpm-tune enable-status: no state lock, no Reconcile, and a file of its  *)
(* own in the same directory, with a reload of the same master.            *)

StartEnable(c) ==
    /\ At(c, "off")
    /\ SomethingHappens
    /\ up
    /\ Goto(c, "find")
    /\ UNCHANGED <<host, memory, record, dirLock, stateLock, target, fresh>>
    /\ UNCHANGED <<daemon, request, unsaved>>

Enable(c) ==
    /\ At(c, "enable")
    /\ pages' \in {pages, "all"}
    /\ Goto(c, "off") /\ Exit(c)
    /\ UNCHANGED <<up, dir, memory, record, daemon, request, unsaved, happened>>

-----------------------------------------------------------------------------
(* What comes from outside.                                                *)

(* A crash, a kill or a SIGTERM, between any two steps. *)
Dies(p) ==
    /\ pc[p] \notin {"off", "refused"}
    /\ SomethingHappens
    /\ Goto(p, "off") /\ Exit(p)
    /\ IF p = Serve
       THEN /\ reconciled' = FALSE /\ forced' = FALSE /\ blocked' = ""
            /\ outcome' = "unreached" /\ retries' = 0 /\ UNCHANGED mode
            /\ request' = "none" /\ unsaved' = FALSE
            /\ known' = [known EXCEPT ![Serve] = None]
       ELSE UNCHANGED <<daemon, request, unsaved, known>>
    /\ UNCHANGED <<host, notes, record>>

Ask ==
    /\ request = "none" /\ ~At(Serve, "off") /\ request' = "waiting"
    /\ UNCHANGED <<host, memory, record, dirLock, stateLock, pc, target, fresh>>
    /\ UNCHANGED <<daemon, unsaved, happened>>

(* The client's or the handler's time is up. *)
GiveUp ==
    /\ request \in {"waiting", "running"}
    /\ request' = CASE request = "waiting" -> "none" [] request = "running" -> "gone"
    /\ UNCHANGED <<host, memory, record, dirLock, stateLock, pc, target, fresh>>
    /\ UNCHANGED <<daemon, unsaved, happened>>

(* Stopped or killed; upgraded into another directory; pools come and go. *)
HostChanges ==
    /\ SomethingHappens
    /\ \/ up' = FALSE /\ UNCHANGED <<dir, pages>>
       \/ dir' \in Dirs \ {dir} /\ UNCHANGED <<up, pages>>
       \/ pages' \in {"all", "some", "none"} \ {pages} /\ UNCHANGED <<up, dir>>
    /\ UNCHANGED <<memory, record, dirLock, stateLock, pc, target, fresh>>
    /\ UNCHANGED <<daemon, request, unsaved>>

MasterStarts ==
    /\ ~up /\ up' = TRUE
    /\ UNCHANGED <<dir, pages, memory, record, dirLock, stateLock, pc, target, fresh>>
    /\ UNCHANGED <<daemon, request, unsaved, happened>>

-----------------------------------------------------------------------------

Writing(p) ==
    ApplyNothing(p) \/ BeginWrite(p) \/ Adopted(p) \/ Inconclusive(p) \/ ApplyFails(p)

Round ==
    \/ Tick \/ TakeRequest
    \/ NoMasterToReconcile \/ FindMaster \/ Repaired \/ NotRepaired
    \/ DiscoveryFails \/ NoTargets \/ Look \/ NotApplying
    \/ MasterLost \/ DirectoryMoved \/ BudgetUnconfirmed \/ GoAhead
    \/ Writing(Serve)
    \/ SaveForced \/ Save \/ Reply

OneShot(c) ==
    \/ FindAndLock(c) \/ FindNothing(c) \/ ApplyRepairs(c) \/ Gather(c)
    \/ Writing(c) \/ ApplySaves(c) \/ Dismiss(c) \/ Enable(c)

Outside ==
    \/ \E c \in Applies : StartApply(c)
    \/ \E c \in Enablers : StartEnable(c)
    \/ \E p \in Procs : Dies(p)
    \/ Ask \/ GiveUp \/ HostChanges \/ MasterStarts

Next == StartServe \/ Round \/ (\E c \in Applies \cup Enablers : OneShot(c)) \/ Outside

Spec == Init /\ [][Next]_vars

(* The ticker ticks and a step once started goes on; php-fpm, the commands
   and the client at the socket are nobody's to promise. *)
Fairness == WF_vars(Round) /\ \A c \in Applies \cup Enablers : WF_vars(OneShot(c))

FairSpec == Spec /\ Fairness

-----------------------------------------------------------------------------
(* Safety.                                                                 *)

(***************************************************************************)
(* Whoever writes, repairs or reloads in a pool directory holds the lock   *)
(* on that directory, although a PHP upgrade can move the directory under  *)
(* a process at any step.  (holdResource, runApply, runEnableStatus)       *)
(***************************************************************************)
WritesUnderItsLock ==
    \A p \in Procs :
        pc[p] \in {"repair", "write", "writing", "enable"} => dirLock[target[p]] = p

(***************************************************************************)
(* Apply is never started over a transaction record somebody left open: by *)
(* then this process has reconciled the directory, and has held its lock   *)
(* ever since.  A record it could not roll back itself is the exception.   *)
(* (releaseResource, holdResource, Inconclusive in applyPlan)              *)
(***************************************************************************)
NothingUnreadIsWrittenOver ==
    \A p \in Writers : At(p, "write") => record[target[p]] \in {None, p}

(***************************************************************************)
(* No process saves over learning it has not read: while it has the state  *)
(* loaded, nobody else saved the file.  (New, runApply, lock.DefaultPath)  *)
(***************************************************************************)
CopiesAreFresh ==
    \A p \in Writers :
        IF p = Serve THEN At(p, "off") \/ fresh[p]
        ELSE pc[p] \in {"write", "writing", "saveLast"} => fresh[p]

(***************************************************************************)
(* A watching daemon holds no pool directory between rounds, whichever way *)
(* the round it was asked for ended.  (Run, after an apply-now round)      *)
(***************************************************************************)
WatcherHoldsNothing == At(Serve, "idle") /\ Holds(Serve) => mode

-----------------------------------------------------------------------------
(* Liveness, once no more happens from outside.                            *)

(***************************************************************************)
(* A daemon in apply mode gets to Apply again and again on a host with a   *)
(* running master and pools it can see, even when some pool can never be   *)
(* given a status page.  (noteUntracked, maxStatusRetries, reconcile)      *)
(***************************************************************************)
ApplyIsReached ==
    []<>(At(Serve, "off") \/ ~mode \/ ~up \/ pages = "none" \/ At(Serve, "write"))

(***************************************************************************)
(* A request the loop has taken is answered, although the client may have  *)
(* gone.  (Run, handleApplyNow)                                            *)
(***************************************************************************)
TakenIsAnswered == request \in {"running", "gone"} ~> request = "none"

=============================================================================
