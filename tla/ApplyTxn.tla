------------------------------ MODULE ApplyTxn ------------------------------
(***************************************************************************)
(* One run after another of fpm-tune against one php-fpm master: Reconcile *)
(* settles what an earlier run left unfinished, Apply replaces the drop-in *)
(* and reloads the master.  A step is one effect on the disk or on the     *)
(* master together with the decision that follows from it, so a crash, a   *)
(* cancelled context, a failing write, an operator or php-fpm itself can   *)
(* come between any two of them.                                           *)
(*                                                                         *)
(* Only one process is in here at a time: the flock on the pool directory  *)
(* sees to that.                                                           *)
(***************************************************************************)
EXTENDS DropIn, Naturals

CONSTANTS
    NoRec,          \* there is no transaction record
    BadRec,         \* there is one, and readTransaction cannot use it
    Daemon,         \* TRUE: serve, which reconciles until it once succeeds;
                    \* FALSE: apply, which reconciles at the start of each run
    Provisioning,   \* Master.NoMasterExpected: Apply may write with no master
    Racing,         \* which outsiders act while a run is in progress too:
                    \* a subset of {"edit", "start", "reload"}
    IOErrors,       \* the writes and removals that may fail
    MaxTrouble      \* bound: how many things go wrong in a behaviour

ASSUME BoundAssumption == MaxTrouble \in Nat
ASSUME ModeAssumption == {Daemon, Provisioning} \subseteq BOOLEAN

Phases == {"written", "signalled"}

Transaction == [existed : BOOLEAN, wrote : Ours, phase : Phases]

ASSUME RecordAssumption ==
    NoRec \notin Transaction /\ BadRec \notin Transaction /\ NoRec # BadRec

ReconcileSteps ==
    {"look", "repair", "remove", "recheck", "reinstate", "undo", "putBack",
     "undone", "finish", "watch", "takeOut", "discard", "sweep"}

ApplySteps ==
    {"plan", "backup", "record", "live", "validate", "mark", "signal",
     "settle", "restore", "commit", "unlink"}

VARIABLES
    (* the host *)
    sites,      \* the pools the operator's own files define
    broken,     \* something else in those files is rejected
    up,         \* the master is running
    runs,       \* the drop-in it last read
    dirty,      \* the operator changed the configuration since it read it
    (* the files the tool writes *)
    file,       \* the drop-in
    bak,        \* the saved copy of it, None if there is none
    rec,        \* the transaction record
    (* the process *)
    pc,         \* the step it takes next, "idle" between runs
    reconciled, \* serve's: a Reconcile of this process succeeded
    next,       \* the file this Apply renders
    old,        \* what it goes back to: backup.content, or the removed body
    pid,        \* the pid it found: none, current, or stale
    (* what happened since the record was opened; the code cannot see this *)
    pre,        \* the file's content at that time
    touched,    \* somebody else has replaced the file or lost the copy
    told,       \* the tool has delivered a signal to the master
    survived,   \* and has seen the master alive after it
    trouble     \* how many things went wrong so far

host == <<sites, broken, up, runs, dirty>>
proc == <<pc, reconciled, next, old, pid>>
ghost == <<pre, touched, told, survived>>
vars == <<host, file, bak, rec, proc, ghost, trouble>>

HostOK ==
    /\ sites \subseteq Pools /\ broken \in BOOLEAN
    /\ up \in BOOLEAN /\ runs \in Content /\ dirty \in BOOLEAN

DiskOK ==
    /\ file \in Content /\ bak \in Content
    /\ rec \in Transaction \cup {NoRec, BadRec}

ProcOK ==
    /\ pc \in {"idle"} \cup ReconcileSteps \cup ApplySteps
    /\ reconciled \in BOOLEAN
    /\ next \in Ours \cup {None} /\ old \in Content
    /\ pid \in {"none", "current", "stale"}

GhostOK ==
    /\ pre \in Content
    /\ touched \in BOOLEAN /\ told \in BOOLEAN /\ survived \in BOOLEAN

TypeOK == HostOK /\ DiskOK /\ ProcOK /\ GhostOK /\ trouble \in 0 .. MaxTrouble

Init ==
    /\ sites = Pools /\ broken = FALSE
    /\ file \in {None, Foreign} /\ runs = file /\ up = TRUE /\ dirty = FALSE
    /\ bak = None /\ rec = NoRec
    /\ pc = "idle" /\ reconciled = FALSE
    /\ next = None /\ old = None /\ pid = "none"
    /\ pre = None /\ touched = FALSE /\ told = FALSE /\ survived = FALSE
    /\ trouble = 0

-----------------------------------------------------------------------------

Open == rec \in Transaction

(* The file on disk is the one the record says was written. *)
Landed == file = rec.wrote

(* php-fpm -t of the pool directory with c in the drop-in's place: of the
   directory itself, or of the sandbox that is a copy of it but for c. *)
Loads(c) == Accepts(c, sites, broken)

(* Wrong: the copy is never read back. *)
PreviousIgnored == None

(* previousContent: None is also what it answers for "there was no file". *)
Previous == IF rec.existed THEN bak ELSE None
PreviousLost == rec.existed /\ bak = None

SomethingGoesWrong == trouble < MaxTrouble /\ trouble' = trouble + 1

Fails(op) == op \in IOErrors /\ SomethingGoesWrong

Goto(step) == pc' = step /\ UNCHANGED reconciled

(* Wrong: whatever ended the run, serve believes it has reconciled. *)
StopBelieving(ok) ==
    /\ pc' = "idle" /\ reconciled' = Daemon
    /\ next' = None /\ old' = None /\ pid' = "none"

(* The end of a run; ok is what serve remembers about it. *)
Stop(ok) ==
    /\ pc' = "idle" /\ reconciled' = (Daemon /\ ok)
    /\ next' = None /\ old' = None /\ pid' = "none"

(* Reconcile returned no error: the same run goes on to plan. *)
Settled ==
    /\ pc' = "plan" /\ reconciled' = Daemon
    /\ old' = None /\ UNCHANGED <<next, pid>>

(* Wrong: "existed" is looked up afresh when the phase is rewritten. *)
WriteTransactionAfresh(phase) ==
    /\ rec' = [existed |-> file # None, wrote |-> next, phase |-> phase]
    /\ IF Open THEN UNCHANGED ghost
       ELSE /\ pre' = file
            /\ touched' = FALSE /\ told' = FALSE /\ survived' = FALSE

(* A successful record write, keeping what was there when one first opened. *)
WriteTransaction(phase) ==
    /\ rec' = [existed |-> old # None, wrote |-> next, phase |-> phase]
    /\ IF Open THEN UNCHANGED ghost
       ELSE /\ pre' = file
            /\ touched' = FALSE /\ told' = FALSE /\ survived' = FALSE

(* os.Remove of the record; its error is dropped. *)
ClearTransaction ==
    \/ rec' = NoRec /\ UNCHANGED trouble
    \/ Fails("clear") /\ UNCHANGED rec

-----------------------------------------------------------------------------
(* A run begins.                                                           *)

(* Wrong: a run plans without reconciling first. *)
BeginRunUnsettled ==
    /\ pc = "idle"
    /\ Goto("plan")
    /\ pid' = IF up THEN "current" ELSE "none"
    /\ UNCHANGED <<host, file, bak, rec, next, old, ghost, trouble>>

(* Discovery: a running master has a pid, otherwise memory supplies none. *)
BeginRun ==
    /\ pc = "idle"
    /\ reconciled => up
    /\ Goto(IF reconciled THEN "plan" ELSE "look")
    /\ pid' = IF up THEN "current" ELSE "none"
    /\ UNCHANGED <<host, file, bak, rec, next, old, ghost, trouble>>

(***************************************************************************)
(* serve forgets that it reconciled: the round found no target, a lock was *)
(* given up or re-keyed, pools went untracked.                             *)
(***************************************************************************)
Unsettle ==
    /\ pc = "idle" /\ reconciled
    /\ reconciled' = FALSE
    /\ UNCHANGED <<host, file, bak, rec, pc, next, old, pid, ghost, trouble>>

-----------------------------------------------------------------------------
(* Reconcile.                                                              *)

LookUnusable ==
    /\ pc = "look" /\ rec = BadRec
    /\ Stop(FALSE)
    /\ UNCHANGED <<host, file, bak, rec, ghost, trouble>>

(* No record: sweepOrphanBackups, then the repair. *)
LookNothing ==
    /\ pc = "look" /\ rec = NoRec
    /\ bak' = None
    /\ Goto("repair")
    /\ UNCHANGED <<host, file, rec, next, old, pid, ghost, trouble>>

(* Wrong: a change that never reached the disk is left for somebody else. *)
LookNotLandedLeft ==
    /\ pc = "look" /\ Open /\ ~Landed
    /\ Stop(FALSE)
    /\ UNCHANGED <<host, file, bak, rec, ghost, trouble>>

(* Not what the record wrote: close it, unless a signalled master would
   read something php-fpm rejects. *)
LookNotLanded ==
    /\ pc = "look" /\ Open /\ ~Landed
    /\ IF rec.phase = "written" \/ Loads(file)
       THEN Goto("discard") /\ old' = Previous /\ UNCHANGED <<next, pid>>
       ELSE Stop(FALSE)
    /\ UNCHANGED <<host, file, bak, rec, ghost, trouble>>

LookLanded ==
    /\ pc = "look" /\ Open /\ Landed
    /\ Goto(IF Loads(file) THEN "finish" ELSE "undo")
    /\ UNCHANGED <<host, file, bak, rec, next, old, pid, ghost, trouble>>

(* Wrong: nothing in flight is taken for nothing to do. *)
RepairNothing ==
    /\ pc = "repair"
    /\ Settled
    /\ UNCHANGED <<host, file, bak, rec, ghost, trouble>>

(* Nothing in flight, yet the configuration may be rejected because of us. *)
Repair ==
    /\ pc = "repair"
    /\ IF ~Loads(file) /\ IsOurs(file) /\ Loads(None)
       THEN Goto("remove") /\ old' = file /\ UNCHANGED <<next, pid>>
       ELSE Settled
    /\ UNCHANGED <<host, file, bak, rec, ghost, trouble>>

(* The leftover is rejected: rehearse the rollback, or, with no copy to go
   back to, rehearse removing our file. *)
Undo ==
    /\ pc = "undo"
    /\ \/ /\ ~PreviousLost /\ Loads(Previous)
          /\ Goto("putBack") /\ old' = Previous /\ UNCHANGED <<next, pid>>
       \/ /\ PreviousLost /\ IsOurs(file) /\ Loads(None)
          /\ Goto("remove") /\ old' = file /\ UNCHANGED <<next, pid>>
       \/ /\ IF PreviousLost THEN ~(IsOurs(file) /\ Loads(None))
             ELSE ~Loads(Previous)
          /\ Stop(FALSE)
    /\ UNCHANGED <<host, file, bak, rec, ghost, trouble>>

Remove ==
    /\ pc = "remove"
    /\ \/ /\ file' = None /\ Goto("recheck")
          /\ UNCHANGED <<next, old, pid, trouble>>
       \/ Fails("restore") /\ Stop(FALSE) /\ UNCHANGED file
    /\ UNCHANGED <<host, bak, rec, ghost>>

(* The live check after the removal; a cancelled one counts as a failure. *)
Recheck ==
    /\ pc = "recheck"
    /\ \/ /\ Loads(file)
          /\ Settled
          /\ IF Open THEN ClearTransaction ELSE UNCHANGED <<rec, trouble>>
       \/ /\ \/ ~Loads(file) /\ UNCHANGED trouble
             \/ SomethingGoesWrong
          /\ Goto("reinstate") /\ UNCHANGED <<rec, next, old, pid>>
    /\ UNCHANGED <<host, file, bak, ghost>>

Reinstate ==
    /\ pc = "reinstate"
    /\ \/ file' = old /\ UNCHANGED trouble
       \/ Fails("restore") /\ UNCHANGED file
    /\ Stop(FALSE)
    /\ UNCHANGED <<host, bak, rec, ghost>>

PutBack ==
    /\ pc = "putBack"
    /\ \/ /\ file' = old /\ Goto("undone")
          /\ UNCHANGED <<next, old, pid, trouble>>
       \/ Fails("restore") /\ Stop(FALSE) /\ UNCHANGED file
    /\ UNCHANGED <<host, bak, rec, ghost>>

Undone ==
    /\ pc = "undone"
    /\ IF Loads(file) THEN Goto("discard") /\ UNCHANGED <<next, old, pid>>
       ELSE Stop(FALSE)
    /\ UNCHANGED <<host, file, bak, rec, ghost, trouble>>

-----------------------------------------------------------------------------
(* ReloadAndWait: SIGUSR2 to the pid, then the settle window.              *)

(* Delivered: the master reads the file and lives, or does not. *)
Deliver ==
    /\ pid = "current"
    /\ told' = TRUE /\ survived' = FALSE /\ UNCHANGED <<pre, touched>>
    /\ \/ /\ Loads(file)
          /\ runs' = file /\ dirty' = FALSE
          /\ UNCHANGED <<sites, broken, up, pid, trouble>>
       \/ /\ IF Loads(file) THEN SomethingGoesWrong ELSE UNCHANGED trouble
          /\ up' = FALSE /\ pid' = "stale"
          /\ UNCHANGED <<sites, broken, runs, dirty>>

(* ErrNotAMaster: the process with that pid is not the master any more. *)
Undeliverable == pid = "stale" /\ UNCHANGED <<host, pid, ghost, trouble>>

(* It answers for a master that came back under another pid too. *)
SeenAlive == up /\ survived' = TRUE /\ UNCHANGED <<pre, touched, told>>

SeenDead == pid = "stale" /\ UNCHANGED ghost

-----------------------------------------------------------------------------
(* finishReload and discard.                                               *)

(* Wrong: validation is taken for the commit point. *)
FinishOnValidation ==
    /\ pc = "finish"
    /\ Goto("discard") /\ old' = Previous
    /\ UNCHANGED <<host, file, bak, rec, next, pid, ghost, trouble>>

Finish ==
    /\ pc = "finish"
    /\ \/ /\ pid = "none"
          /\ IF rec.phase = "signalled" THEN Stop(FALSE)
             ELSE Goto("discard") /\ old' = Previous /\ UNCHANGED <<next, pid>>
          /\ UNCHANGED <<host, ghost, trouble>>
       \/ Deliver /\ Goto("watch") /\ UNCHANGED <<next, old>>
       \/ Undeliverable /\ Goto("takeOut") /\ UNCHANGED <<next, old>>
    /\ UNCHANGED <<file, bak, rec>>

Watch ==
    /\ pc = "watch"
    /\ \/ SeenAlive /\ Goto("discard") /\ old' = Previous
       \/ SeenDead /\ Goto("takeOut") /\ UNCHANGED old
    /\ UNCHANGED <<host, file, bak, rec, next, pid, trouble>>

(* The completing reload failed: the previous file goes back, the record
   stays. *)
TakeOut ==
    /\ pc = "takeOut"
    /\ \/ ~PreviousLost /\ file' = Previous /\ UNCHANGED trouble
       \/ PreviousLost /\ UNCHANGED <<file, trouble>>
       \/ Fails("restore") /\ UNCHANGED file
    /\ Stop(FALSE)
    /\ UNCHANGED <<host, bak, rec, ghost>>

Discard ==
    /\ pc = "discard"
    /\ ClearTransaction
    /\ Goto("sweep")
    /\ UNCHANGED <<host, file, bak, next, old, pid, ghost>>

(* The copy goes after the record that names it. *)
DropCopy == bak' = IF old = None THEN bak ELSE None

Sweep ==
    /\ pc = "sweep"
    /\ DropCopy
    /\ Settled
    /\ UNCHANGED <<host, file, rec, ghost, trouble>>

-----------------------------------------------------------------------------
(* Apply.                                                                  *)

(* Everything it decides before it writes: nothing to do, held back by the
   thresholds, or refused. *)
Decline ==
    /\ pc = "plan"
    /\ Stop(TRUE)
    /\ UNCHANGED <<host, file, bak, rec, ghost, trouble>>

(* A change set or a stale section, rendered and accepted in the sandbox. *)
Plan ==
    /\ pc = "plan"
    /\ ~Refused(file)
    /\ pid # "none" \/ Provisioning
    /\ \E change \in Changes(sites) :
        /\ DOMAIN change # {} \/ StaleSections(file, sites) # {}
        /\ next' = OverrideSet(file, sites, change)
    /\ Loads(next')
    /\ Goto("backup")
    /\ UNCHANGED <<host, file, bak, rec, old, pid, ghost, trouble>>

(* Wrong: the file is replaced with no record of it. *)
BackupUnrecorded ==
    /\ pc = "backup"
    /\ bak' = (IF file = None THEN bak ELSE file) /\ old' = file
    /\ Goto("live")
    /\ UNCHANGED <<host, file, rec, next, pid, ghost, trouble>>

Backup ==
    /\ pc = "backup"
    /\ \/ /\ bak' = IF file = None THEN bak ELSE file
          /\ old' = file
          /\ Goto("record") /\ UNCHANGED <<next, pid, trouble>>
       \/ /\ file # None /\ Fails("backup")
          /\ Stop(TRUE) /\ UNCHANGED bak
    /\ UNCHANGED <<host, file, rec, ghost>>

(* A durable write can fail after its rename took effect. *)
Record ==
    /\ pc = "record"
    /\ \/ /\ WriteTransaction("written")
          /\ Goto("live") /\ UNCHANGED <<file, next, old, pid, trouble>>
       \/ /\ Fails("record")
          /\ WriteTransaction("written") \/ UNCHANGED <<rec, ghost>>
          /\ file' = old
          /\ Stop(TRUE)
    /\ UNCHANGED <<host, bak>>

(* A failed write is followed by restore, and the record is cleared only if
   that succeeds; the saved copy stays either way. *)
Live ==
    /\ pc = "live"
    /\ \/ /\ file' = next
          /\ Goto("validate") /\ UNCHANGED <<rec, next, old, pid, trouble>>
       \/ /\ Fails("live")
          /\ \/ file' = old /\ rec' = NoRec
             \/ "restore" \in IOErrors /\ UNCHANGED <<file, rec>>
          /\ Stop(TRUE)
    /\ UNCHANGED <<host, bak, ghost>>

(* In place: a rejection and a cancelled check both take it back out. *)
Validate ==
    /\ pc = "validate"
    /\ \/ /\ Loads(file)
          /\ Goto(IF pid = "none" THEN "commit" ELSE "mark")
          /\ UNCHANGED trouble
       \/ /\ IF Loads(file) THEN SomethingGoesWrong ELSE UNCHANGED trouble
          /\ Goto("restore")
    /\ UNCHANGED <<host, file, bak, rec, next, old, pid, ghost>>

MarkSignalled ==
    /\ pc = "mark"
    /\ \/ WriteTransaction("signalled") /\ Goto("signal") /\ UNCHANGED trouble
       \/ /\ Fails("record")
          /\ WriteTransaction("signalled") \/ UNCHANGED <<rec, ghost>>
          /\ Goto("restore")
    /\ UNCHANGED <<host, file, bak, next, old, pid>>

Signal ==
    /\ pc = "signal"
    /\ \/ Deliver /\ Goto("settle")
       \/ Undeliverable /\ Goto("restore")
    /\ UNCHANGED <<file, bak, rec, next, old>>

(* A settle window cut short is Inconclusive: see Abandon. *)
Settle ==
    /\ pc = "settle"
    /\ \/ SeenAlive /\ Goto("commit")
       \/ SeenDead /\ Goto("restore")
    /\ UNCHANGED <<host, file, bak, rec, next, old, pid, trouble>>

(***************************************************************************)
(* restore.  A failure leaves the record open (RollbackFailed), and serve  *)
(* goes on believing it has reconciled.  The reload after it is aimed at a *)
(* pid that has just been seen dead, and reaches nobody.                   *)
(***************************************************************************)
Restore ==
    /\ pc = "restore"
    /\ \/ /\ file' = old /\ Goto("commit")
          /\ UNCHANGED <<next, old, pid, trouble>>
       \/ Fails("restore") /\ Stop(TRUE) /\ UNCHANGED file
    /\ UNCHANGED <<host, bak, rec, ghost>>

Commit ==
    /\ pc = "commit"
    /\ ClearTransaction
    /\ Goto("unlink")
    /\ UNCHANGED <<host, file, bak, next, old, pid, ghost>>

Unlink ==
    /\ pc = "unlink"
    /\ DropCopy
    /\ Stop(TRUE)
    /\ UNCHANGED <<host, file, rec, ghost, trouble>>

-----------------------------------------------------------------------------
(* What comes from outside.                                                *)

(***************************************************************************)
(* The process dies, or its context is cancelled where the code leaves     *)
(* everything for the next start: every check Reconcile makes, its settle  *)
(* window, and Apply's (Inconclusive).                                     *)
(***************************************************************************)
Abandon ==
    /\ pc # "idle"
    /\ SomethingGoesWrong
    /\ Stop(FALSE)
    /\ UNCHANGED <<host, file, bak, rec, ghost>>

MayAct(outsider) == pc = "idle" \/ outsider \in Racing

ChangeSites ==
    /\ \E p \in Pools :
        sites' = IF p \in sites THEN sites \ {p} ELSE sites \cup {p}
    /\ dirty' = TRUE
    /\ SomethingGoesWrong
    /\ UNCHANGED <<broken, up, runs, file, bak, rec, proc, ghost>>

Break ==
    /\ ~broken /\ broken' = TRUE
    /\ dirty' = TRUE
    /\ SomethingGoesWrong
    /\ UNCHANGED <<sites, up, runs, file, bak, rec, proc, ghost>>

Mend ==
    /\ broken /\ broken' = FALSE
    /\ dirty' = TRUE
    /\ UNCHANGED <<sites, up, runs, file, bak, rec, proc, ghost, trouble>>

EditFile ==
    /\ MayAct("edit")
    /\ file' \in {None, Foreign, Edited} \ {file}
    /\ dirty' = TRUE /\ touched' = TRUE
    /\ SomethingGoesWrong
    /\ UNCHANGED <<sites, broken, up, runs, bak, rec, proc>>
    /\ UNCHANGED <<pre, told, survived>>

(* A tmpfiles rule, or somebody tidying /var/lib/fpm-tune. *)
LoseCopy ==
    /\ pc = "idle" /\ bak # None
    /\ bak' = None /\ touched' = TRUE
    /\ SomethingGoesWrong
    /\ UNCHANGED <<host, file, rec, proc, pre, told, survived>>

SpoilRecord ==
    /\ pc = "idle" /\ Open
    /\ rec' = BadRec
    /\ SomethingGoesWrong
    /\ UNCHANGED <<host, file, bak, proc, ghost>>

(* By hand, which leaves it to the operator to reload. *)
DeleteSpoiltRecord ==
    /\ pc = "idle" /\ rec = BadRec
    /\ rec' = NoRec
    /\ dirty' = TRUE
    /\ UNCHANGED <<sites, broken, up, runs, file, bak, proc, ghost, trouble>>

MasterDies ==
    /\ up /\ up' = FALSE
    /\ pid' = IF pid = "current" THEN "stale" ELSE pid
    /\ SomethingGoesWrong
    /\ UNCHANGED <<sites, broken, runs, dirty, file, bak, rec>>
    /\ UNCHANGED <<pc, reconciled, next, old, ghost>>

MasterStarts ==
    /\ MayAct("start")
    /\ ~up /\ Loads(file)
    /\ up' = TRUE /\ runs' = file /\ dirty' = FALSE
    /\ UNCHANGED <<sites, broken, file, bak, rec, proc, ghost, trouble>>

(* Anyone else's reload: the operator's, logrotate's. *)
OutsideReload ==
    /\ MayAct("reload")
    /\ up
    /\ IF Loads(file)
       THEN runs' = file /\ dirty' = FALSE /\ UNCHANGED <<up, pid>>
       ELSE /\ up' = FALSE
            /\ pid' = IF pid = "current" THEN "stale" ELSE pid
            /\ UNCHANGED <<runs, dirty>>
    /\ UNCHANGED <<sites, broken, file, bak, rec, trouble>>
    /\ UNCHANGED <<pc, reconciled, next, old, ghost>>

-----------------------------------------------------------------------------

Reconcile ==
    \/ LookUnusable \/ LookNothing \/ LookNotLanded \/ LookLanded
    \/ Repair \/ Undo \/ Remove \/ Recheck \/ Reinstate \/ PutBack \/ Undone
    \/ Finish \/ Watch \/ TakeOut \/ Discard \/ Sweep

Apply ==
    \/ Decline \/ Plan \/ Backup \/ Record \/ Live \/ Validate
    \/ MarkSignalled \/ Signal \/ Settle \/ Restore \/ Commit \/ Unlink

Outside ==
    \/ ChangeSites \/ Break \/ Mend \/ EditFile \/ LoseCopy
    \/ SpoilRecord \/ DeleteSpoiltRecord
    \/ MasterDies \/ MasterStarts \/ OutsideReload

Next == BeginRun \/ Unsettle \/ Reconcile \/ Apply \/ Abandon \/ Outside

Spec == Init /\ [][Next]_vars

(***************************************************************************)
(* The timer or the daemon's ticker starts the next run, a started run     *)
(* goes on, the operator mends what is broken in his own files, and, runs  *)
(* being seconds long and minutes apart, the service manager gets a turn   *)
(* between them to start a master whose configuration is accepted.         *)
(***************************************************************************)
Fairness ==
    /\ WF_vars(BeginRun) /\ WF_vars(Reconcile) /\ WF_vars(Apply)
    /\ SF_vars(MasterStarts) /\ WF_vars(Mend)

FairSpec == Spec /\ Fairness

-----------------------------------------------------------------------------
(* Safety.                                                                 *)

(***************************************************************************)
(* The saved copy an open record names is there, and is the file as it was *)
(* before the change, through every crash, failed write and recovery:      *)
(* going back goes back to the right file, and a record says "there was    *)
(* none" only if there was none.  A copy others have removed is missing,   *)
(* never wrong.  (writeDropIn, markSignalled, commit, discard)             *)
(***************************************************************************)
SavedCopyIsPreImage ==
    Open => /\ rec.existed <=> pre # None
            /\ rec.existed => bak = pre \/ (bak = None /\ touched)

(***************************************************************************)
(* While a record is open and nobody else has interfered, the file is what *)
(* was there before or what the record says was written, never a third     *)
(* thing recovery would not recognise.                                     *)
(* (writeDropIn, restore, undoLeftover, finishReload)                      *)
(***************************************************************************)
OnDiskIsAccounted == Open /\ ~touched => file \in {pre, rec.wrote}

(***************************************************************************)
(* Between runs, with no change in flight and none by the operator waiting *)
(* for a reload, a running master runs the file that is on disk: no path   *)
(* through Apply, its rollbacks or Reconcile leaves the two apart with     *)
(* nothing to notice.  (the reason finishReload gives for reloading)       *)
(***************************************************************************)
Agreement ==
    pc = "idle" /\ rec = NoRec /\ up /\ ~dirty => runs = file

(***************************************************************************)
(* An open record is never replaced by one for another change: every run   *)
(* settles the last one before it writes.  (the comment on Inconclusive in *)
(* serve's applyPlan; Reconcile before Apply in runApply)                  *)
(***************************************************************************)
RecordNeverOverwritten ==
    [][Open /\ rec' \in Transaction =>
        rec'.existed = rec.existed /\ rec'.wrote = rec.wrote]_vars

(***************************************************************************)
(* Delivery is not survival: a change whose record says "signalled", and   *)
(* which the tool did signal, is left in place with the record closed only *)
(* after the master was seen alive.  (Apply's commit, finishReload)        *)
(***************************************************************************)
SignalledNeedsSurvival ==
    [][/\ Open /\ rec.phase = "signalled" /\ told
       /\ rec' = NoRec
       /\ file = rec.wrote /\ file # pre
       => survived]_vars

-----------------------------------------------------------------------------
(* Liveness, once no more goes wrong.                                      *)

(***************************************************************************)
(* A change in flight does not stay in flight on a host whose              *)
(* configuration php-fpm accepts.  (Reconcile, with finishReload waiting   *)
(* for a master)                                                           *)
(***************************************************************************)
RecordSettles == []<>(~Open \/ ~Loads(file))

(* php-fpm is kept from starting by our file and by nothing else. *)
OursIsTheProblem == ~Loads(file) /\ IsOurs(file) /\ Loads(None)

(***************************************************************************)
(* With nothing in flight, the tool does not leave a file of its own on    *)
(* disk that keeps php-fpm from starting.  (repairIfOursIsBroken)          *)
(***************************************************************************)
RepairedWithoutRecord == []<>(~OursIsTheProblem \/ rec # NoRec)

-----------------------------------------------------------------------------
(* The promise this keeps: a one-entry undo log.                           *)

ASSUME LogAssumption == NoRec \notin [pre : Content, post : Content]

Log == INSTANCE UndoLog WITH
    Values <- Content,
    OutsideValues <- {None, Foreign, Edited},
    Nothing <- None,
    Closed <- NoRec,
    value <- file,
    log <- IF Open THEN [pre |-> pre, post |-> rec.wrote] ELSE NoRec,
    spare <- IF pc \in {"recheck", "reinstate"} THEN old ELSE None

(***************************************************************************)
(* Every step of the transaction is a step of the undo log, or changes     *)
(* nothing the log can see.                                                *)
(***************************************************************************)
ImplementsUndoLog == Log!Spec
=============================================================================
