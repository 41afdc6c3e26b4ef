---------------------------- MODULE StatusDropIn ----------------------------
(***************************************************************************)
(* The second drop-in: the file that turns the status page on for pools    *)
(* that have none, written beside the one that sizes them and under the    *)
(* same lock on the pool directory.  It has no record and no saved copy on *)
(* disk; its backup is in the memory of the process that writes it.        *)
(*                                                                         *)
(* Three kinds of process write it.  fpm-tune apply holds the lock from    *)
(* beginning to end, repairs the sizing file, looks for pools without a    *)
(* page, enables them and sizes what it can see.  serve --apply does the   *)
(* same in its rounds, but keeps the lock between them and repairs and     *)
(* enables again only while it has retries left, or can see no pool at     *)
(* all.  fpm-tune enable-status looks first and takes the lock afterwards. *)
(*                                                                         *)
(* The sizing file's own transaction is in ApplyTxn; here a sizing either  *)
(* happens or does not.                                                    *)
(***************************************************************************)
EXTENDS Naturals

CONSTANTS
    Pools,
    Daemons,        \* serve --apply
    Applies,        \* fpm-tune apply
    Enablers,       \* fpm-tune enable-status
    None,           \* no file, no master, no holder of the lock
    Foreign,        \* a file under the status drop-in's name, not ours
    Racing,         \* what outsiders do while a process holds the lock too:
                    \* a subset of {"sites", "reload"}
    MaxStatusRetries,   \* maxStatusRetries, 5 in the code
    MaxEvents       \* bound: outside events, kills, failures and timeouts

Runs == Daemons \cup Applies
Procs == Runs \cup Enablers

ASSUME ProcAssumption ==
    None \notin Procs /\ Runs \cap Enablers = {} /\ Daemons \cap Applies = {}
ASSUME FileAssumption ==
    None # Foreign /\ \A f \in SUBSET Pools : f \notin {None, Foreign}
ASSUME EventAssumption == MaxEvents \in Nat /\ MaxStatusRetries \in Nat

Master == [sites : SUBSET Pools, pages : SUBSET Pools]
ASSUME MasterAssumption == None \notin Master

VARIABLES
    (* the pool directory *)
    sites,      \* the pools the operator's own files define, without pages
    tracked,    \* one more pool of theirs has a page of its own
    sizing,     \* the pools zz-fpm-tune.conf has a section for
    status,     \* zz-fpm-tune-status.conf: None, Foreign, or its pools
    (* the host *)
    master,     \* what the running master serves, None while there is none
    (* the processes *)
    lock,       \* who holds the pool directory
    pc,
    enable,     \* toEnable of UnstatusedFor, as p saw it
    exists,     \* and the pools that existed then
    desired,    \* what the holder of the lock renders
    backup,     \* what it goes back to
    (* the daemons *)
    reconciled, retries,    \* statusRetries
    (* history *)
    stranded,   \* the file may differ from what runs, and nobody is at work
    events      \* how much has gone wrong or changed outside so far

vars == <<sites, tracked, sizing, status, master, lock, pc, enable, exists,
          desired, backup, reconciled, retries, stranded, events>>
own == <<sites, tracked>>
files == <<own, sizing, status>>
flags == <<reconciled, retries>>
looks == <<enable, exists>>
plans == <<desired, backup>>

(* Steps a process takes with the lock in its hands. *)
Held == {"reconcile", "read", "write", "validate", "signal", "settle",
         "undo", "undoLoaded", "reload", "size", "end"}

Steps == Held \cup {"idle", "look", "lock", "note"}

TypeOK ==
    /\ sites \subseteq Pools /\ tracked \in BOOLEAN /\ sizing \subseteq Pools
    /\ status \in (SUBSET Pools) \cup {None, Foreign}
    /\ master \in Master \cup {None}
    /\ lock \in Procs \cup {None}
    /\ pc \in [Procs -> Steps]
    /\ enable \in [Procs -> SUBSET Pools] /\ exists \in [Procs -> SUBSET Pools]
    /\ desired \subseteq Pools /\ backup \in (SUBSET Pools) \cup {None, Foreign}
    /\ reconciled \in [Daemons -> BOOLEAN]
    /\ retries \in [Daemons -> 0 .. MaxStatusRetries]
    /\ stranded \in BOOLEAN /\ events \in 0 .. MaxEvents

Init ==
    /\ sites \in (SUBSET Pools) \ {{}} /\ tracked \in BOOLEAN
    /\ sizing = {} /\ status \in {None, Foreign}
    /\ master = [sites |-> sites, pages |-> {}]
    /\ lock = None /\ pc = [p \in Procs |-> "idle"]
    /\ enable = [p \in Procs |-> {}] /\ exists = [p \in Procs |-> {}]
    /\ desired = {} /\ backup = None /\ stranded = FALSE /\ events = 0
    /\ reconciled = [p \in Daemons |-> FALSE] /\ retries = [p \in Daemons |-> 0]

-----------------------------------------------------------------------------

(* The pools a status file names; somebody else's is theirs to read. *)
Sections(f) == IF f \in {None, Foreign} THEN {} ELSE f

(* php-fpm -t of the pool directory, or of the sandbox that is a copy of it
   but for st and sz: a section for a pool nobody defines has no listen. *)
Accepts(st, sz) == Sections(st) \cup sz \subseteq sites

Loads == Accepts(status, sizing)

Up == master # None

(* What php-fpm is after reading the directory: the new configuration, or
   dead of it. *)
Adopted == [sites |-> sites, pages |-> Sections(status)]
Reread == IF Loads THEN Adopted ELSE None

Goto(p, step) == pc' = [pc EXCEPT ![p] = step]

Event == events < MaxEvents /\ events' = events + 1

(* What a process knows is gone with the call. *)
ForgetLook(p) ==
    /\ enable' = [enable EXCEPT ![p] = {}]
    /\ exists' = [exists EXCEPT ![p] = {}]
ForgetPlan == desired' = {} /\ backup' = None

(* Where EnableStatus returns to: the rest of the round, the sizing that
   follows it in apply, or nothing. *)
Return(p) == IF p \in Daemons THEN "note" ELSE IF p \in Applies THEN "size" ELSE "end"

(* Nobody is at work in the directory; a daemon may hold it between rounds. *)
Quiet == \A p \in Procs : lock = p => pc[p] = "idle"

-----------------------------------------------------------------------------
(* A process begins.                                                       *)

(* Wrong: EnsureStatus before the directory is locked. *)
StartUnlocked(p) ==
    /\ pc[p] = "idle"
    /\ Goto(p, "look")
    /\ UNCHANGED <<files, master, lock, looks, plans, flags, stranded, events>>

Start(p) ==
    /\ pc[p] = "idle"
    /\ \/ p \in Applies /\ lock = None /\ lock' = p /\ Goto(p, "reconcile")
       \/ p \in Enablers /\ UNCHANGED lock /\ Goto(p, "look")
    /\ UNCHANGED <<files, master, looks, plans, flags, stranded, events>>

(* Its ticker: reconcile, unless that is done, or the lock is refused. *)
Tick(p) ==
    /\ p \in Daemons /\ pc[p] = "idle"
    /\ IF ~reconciled[p] /\ lock \in {None, p}
       THEN lock' = p /\ Goto(p, "reconcile")
       ELSE UNCHANGED lock /\ Goto(p, "note")
    /\ UNCHANGED <<files, master, looks, plans, flags, stranded, events>>

(* repairIfOursIsBroken: it knows the sizing file, and takes it out when
   that alone makes php-fpm accept the rest.  A daemon's reconcile is done
   once EnsureStatus returns, with or without an error; nothing reads the
   flag before. *)
Reconcile(p) ==
    /\ pc[p] = "reconcile"
    /\ sizing' = IF ~Loads /\ Accepts(status, {}) THEN {} ELSE sizing
    /\ reconciled' = [q \in Daemons |-> reconciled[q] \/ q = p]
    /\ Goto(p, "look")
    /\ UNCHANGED <<own, status, master, lock, looks, plans, retries, stranded, events>>

(* UnstatusedFor: discovery starts from a running master and reads what is
   on disk, so a rejected configuration and a stopped master show nothing. *)
Look(p) ==
    /\ pc[p] = "look"
    /\ LET missing == IF Up /\ Loads THEN sites \ Sections(status) ELSE {}
       IN  /\ enable' = [enable EXCEPT ![p] = missing]
           /\ exists' = [exists EXCEPT ![p] = IF missing # {} THEN sites ELSE {}]
           /\ Goto(p, IF missing # {} THEN IF lock = p THEN "read" ELSE "lock"
                      ELSE IF lock = p THEN Return(p) ELSE "idle")
    /\ UNCHANGED <<files, master, lock, plans, stranded, events, flags>>

TakeLock(p) ==
    /\ pc[p] = "lock"
    /\ IF lock = None THEN lock' = p /\ Goto(p, "read") /\ UNCHANGED looks
                      ELSE UNCHANGED lock /\ Goto(p, "idle") /\ ForgetLook(p)
    /\ UNCHANGED <<files, master, plans, stranded, events, flags>>

-----------------------------------------------------------------------------
(* EnableStatus.                                                           *)

(* Carries forward what is there already and still exists. *)
Carried(p) == Sections(status) \cap exists[p]

(* Refuses a foreign file, returns if there is nothing to change, and has
   the sandbox checked. *)
Read(p) ==
    /\ pc[p] = "read"
    /\ desired' = enable[p] \cup Carried(p)
    /\ Goto(p, IF status # Foreign /\ desired' # status /\ Accepts(desired', sizing)
               THEN "write" ELSE Return(p))
    /\ ForgetLook(p)
    /\ UNCHANGED <<files, master, lock, backup, stranded, events, flags>>

(* A failing write has not renamed anything; nothing is restored. *)
Write(p) ==
    /\ pc[p] = "write"
    /\ backup' = status
    /\ \/ status' = desired /\ Goto(p, "validate") /\ UNCHANGED events
       \/ Event /\ Goto(p, Return(p)) /\ UNCHANGED status
    /\ UNCHANGED <<own, sizing, master, lock, looks, desired, stranded, flags>>

(* In place.  A check that ran out of time counts as a rejection. *)
Validate(p) ==
    /\ pc[p] = "validate"
    /\ \/ Loads /\ Goto(p, "signal") /\ UNCHANGED events
       \/ ~Loads /\ Goto(p, "undo") /\ UNCHANGED events
       \/ Event /\ Goto(p, "undo")
    /\ UNCHANGED <<files, master, lock, looks, plans, stranded, flags>>

(* ReloadAndWait: ErrNotAMaster, or the signal is delivered. *)
Signal(p) ==
    /\ pc[p] = "signal"
    /\ IF Up THEN master' = Reread /\ stranded' = FALSE /\ Goto(p, "settle")
             ELSE Goto(p, "undo") /\ UNCHANGED <<master, stranded>>
    /\ UNCHANGED <<files, lock, looks, plans, events, flags>>

(* The settle window: seen alive, seen dead, or out of time. *)
Settle(p) ==
    /\ pc[p] = "settle"
    /\ \/ Up /\ Goto(p, Return(p)) /\ UNCHANGED events
       \/ ~Up /\ Goto(p, "undoLoaded") /\ UNCHANGED events
       \/ Event /\ Goto(p, "undoLoaded")
    /\ UNCHANGED <<files, master, lock, looks, plans, stranded, flags>>

(* Wrong: the master is told again only if it is known to be dead. *)
UndoAsUnsignalled(p) ==
    /\ pc[p] \in {"undo", "undoLoaded"}
    /\ \/ status' = backup /\ Goto(p, Return(p)) /\ UNCHANGED <<events, stranded>>
       \/ Event /\ stranded' = TRUE /\ Goto(p, Return(p)) /\ UNCHANGED status
    /\ UNCHANGED <<own, sizing, master, lock, looks, plans, flags>>

(* restore: RolledBack, or RollbackFailed with the file left where it is. *)
Undo(p) ==
    /\ pc[p] \in {"undo", "undoLoaded"}
    /\ \/ /\ status' = backup
          /\ Goto(p, IF pc[p] = "undoLoaded" THEN "reload" ELSE Return(p))
          /\ UNCHANGED <<events, stranded>>
       \/ Event /\ stranded' = TRUE /\ Goto(p, Return(p)) /\ UNCHANGED status
    /\ UNCHANGED <<own, sizing, master, lock, looks, plans, flags>>

(* ReloadMaster after a restore, best effort. *)
ReloadBack(p) ==
    /\ pc[p] = "reload"
    /\ IF Up THEN master' = Reread /\ stranded' = FALSE
             ELSE UNCHANGED <<master, stranded>>
    /\ Goto(p, Return(p))
    /\ UNCHANGED <<files, lock, looks, plans, events, flags>>

-----------------------------------------------------------------------------

(* Discovery reads the files, as in Look, and finds the pools with a page. *)
Seen == Up /\ Loads /\ (tracked \/ Sections(status) # {})
Untracked == sites \ Sections(status)

(* Wrong: looked for once, at the start. *)
NothingSeenYet(p) == UNCHANGED <<flags, events>>

(* With no pools to see, the next round reconciles again. *)
NothingSeen(p) ==
    /\ reconciled' = [reconciled EXCEPT ![p] = FALSE]
    /\ UNCHANGED <<retries, events>>

(* With pools that have no page, so many rounds in a row do.  Asking which
   they are may fail, and then says none. *)
NoteUntracked(p) ==
    \/ /\ (Untracked = {} /\ UNCHANGED events) \/ Event
       /\ retries' = [retries EXCEPT ![p] = 0] /\ UNCHANGED reconciled
    \/ /\ Untracked # {} /\ retries[p] < MaxStatusRetries
       /\ retries' = [retries EXCEPT ![p] = @ + 1]
       /\ reconciled' = [reconciled EXCEPT ![p] = FALSE]
       /\ UNCHANGED events
    \/ /\ Untracked # {} /\ retries[p] = MaxStatusRetries
       /\ UNCHANGED <<flags, events>>

(* The rest of a daemon's round, which sizes only what it has reconciled;
   discovery may also fail. *)
Note(p) ==
    /\ pc[p] = "note"
    /\ \/ /\ Seen /\ NoteUntracked(p)
          /\ Goto(p, IF reconciled'[p] THEN "size" ELSE "idle")
       \/ /\ ~Seen /\ NothingSeen(p) /\ Goto(p, "idle")
       \/ /\ Event /\ UNCHANGED flags /\ Goto(p, "idle")
    /\ IF lock = p THEN ForgetPlan ELSE UNCHANGED plans
    /\ UNCHANGED <<files, master, lock, looks, stranded>>

(* The rest of the run: Apply writes sections for pools whose page it could
   scrape, keeps those of the others it discovers, and reloads if it changes
   anything.  The plan may also leave everything as it is. *)
Size(p) ==
    /\ pc[p] = "size"
    /\ \/ UNCHANGED <<sizing, master, stranded>>
       \/ /\ Up /\ Loads
          /\ \E new \in SUBSET (master.pages \cap Sections(status)) :
                 sizing' = (sizing \cap Sections(status)) \cup new
          /\ sizing' # sizing
          /\ master' = Adopted /\ stranded' = FALSE
    /\ Goto(p, "end")
    /\ UNCHANGED <<own, status, lock, looks, plans, events, flags>>

(* Without a confirmed budget a daemon gives the directory back. *)
Release(p) ==
    /\ p \in Daemons /\ pc[p] = "size" /\ Event
    /\ Goto(p, "idle") /\ lock' = None
    /\ reconciled' = [reconciled EXCEPT ![p] = FALSE]
    /\ UNCHANGED <<files, master, looks, plans, retries, stranded>>

(* A daemon keeps it over the rounds. *)
End(p) ==
    /\ pc[p] = "end"
    /\ Goto(p, "idle") /\ lock' = IF p \in Daemons THEN p ELSE None
    /\ ForgetPlan
    /\ UNCHANGED <<files, master, looks, stranded, events, flags>>

(* The kernel gives a dead process's lock back; its backup is gone.  A daemon
   is started again. *)
Kill(p) ==
    /\ pc[p] # "idle" \/ p \in Daemons
    /\ Event
    /\ Goto(p, "idle")
    /\ reconciled' = [q \in Daemons |-> reconciled[q] /\ q # p]
    /\ retries' = [q \in Daemons |-> IF q = p THEN 0 ELSE retries[q]]
    /\ lock' = IF lock = p THEN None ELSE lock
    /\ stranded' = (stranded \/ pc[p] \in {"validate", "signal", "undo",
                                           "undoLoaded", "reload"})
    /\ ForgetLook(p) /\ IF lock = p THEN ForgetPlan ELSE UNCHANGED plans
    /\ UNCHANGED <<files, master>>

-----------------------------------------------------------------------------
(* Everybody else.                                                         *)

Allowed(what) == Quiet \/ what \in Racing

ChangeSites ==
    /\ Allowed("sites") /\ Event
    /\ sites' \in (SUBSET Pools) \ {{}} /\ sites' # sites
    /\ UNCHANGED <<tracked, sizing, status, master, lock, pc, looks, plans, stranded, flags>>

(* The operator deletes the file, or puts one of his own there. *)
EditStatus ==
    /\ Quiet /\ Event
    /\ status' \in {None, Foreign} /\ status' # status
    /\ stranded' = TRUE
    /\ UNCHANGED <<own, sizing, master, lock, pc, looks, plans, flags>>

MasterDies ==
    /\ Up /\ Event /\ master' = None
    /\ UNCHANGED <<files, lock, pc, looks, plans, stranded, flags>>

OutsideReload ==
    /\ Allowed("reload") /\ Up /\ Event
    /\ master' = Reread /\ stranded' = FALSE
    /\ UNCHANGED <<files, lock, pc, looks, plans, flags>>

MasterStarts ==
    /\ Allowed("reload") /\ ~Up /\ Loads
    /\ master' = Reread /\ stranded' = FALSE
    /\ UNCHANGED <<files, lock, pc, looks, plans, events, flags>>

-----------------------------------------------------------------------------

Step(p) ==
    \/ Reconcile(p) \/ Look(p) \/ TakeLock(p)
    \/ Read(p) \/ Write(p) \/ Validate(p) \/ Signal(p) \/ Settle(p)
    \/ Undo(p) \/ ReloadBack(p) \/ Note(p) \/ Size(p) \/ Release(p) \/ End(p)

Outside == ChangeSites \/ EditStatus \/ MasterDies \/ OutsideReload \/ MasterStarts

Next == (\E p \in Procs : Start(p) \/ Tick(p) \/ Step(p) \/ Kill(p)) \/ Outside

Spec == Init /\ [][Next]_vars

(* A daemon's ticker ticks and whoever has begun goes on; the service manager
   starts a master whose configuration is accepted.  Nobody need run a command. *)
FairSpec ==
    /\ Spec
    /\ \A p \in Daemons : WF_vars(Tick(p))
    /\ \A p \in Procs : WF_vars(Step(p))
    /\ SF_vars(MasterStarts)

-----------------------------------------------------------------------------
(* Properties                                                              *)

(* When nobody is at work in the pool directory, the pages a running master
   serves are those of the file: every way out of EnableStatus that takes the
   file back takes the master back with it.  Excepted is a file left behind by a
   process that was killed or could not restore, and one the operator has
   edited, until the next reload. *)
PagesAgree ==
    Quiet /\ Up /\ ~stranded => master.pages = Sections(status)

(* A run that writes the status file keeps the page of every pool that is
   still there ("It keeps the page on for any pool this tool enabled before
   that STILL exists"), although enable-status and the operator change the
   directory around it. *)
RunsKeepPages ==
    [][\A p \in Runs : pc[p] = "write" /\ pc'[p] = "validate" =>
           Sections(status) \cap sites \subseteq Sections(status')]_vars

(* A pool that stays gets its page from the daemon and keeps it, also one
   added long after the daemon has started and one whose first tries failed
   ("a pool the startup reconcile missed, or one added since",
   Loop.round).  Excepted is a host where something is in the way again and
   again (a file that is not ours, a section of a pool that is gone, a file
   left unloaded), and a daemon that has used up its retries, which does not
   come back to it while any pool is without a page (noteUntracked). *)
InTheWay == status = Foreign \/ ~Loads \/ stranded

GivenUp == \A p \in Daemons : reconciled[p] /\ retries[p] = MaxStatusRetries

PagesComeOn ==
    \A q \in Pools :
        <>[](q \in sites /\ ~InTheWay) =>
            <>[](Up /\ q \in master.pages) \/ <>[]GivenUp

(* "A daemon in apply mode detects this and takes its own file out": where
   php-fpm rejects nothing but sections the tool wrote, it does not reject
   them for ever (docs/operating/recovering.md:13-15). *)
TakesItsOwnFilesOut == ~Loads ~> Loads
=============================================================================
