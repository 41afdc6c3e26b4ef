--------------------------- MODULE ApplyTxnProofs ----------------------------
(***************************************************************************)
(* Proofs about ApplyTxn, for every set of pools and sizes and any number  *)
(* of things going wrong.                                                  *)
(***************************************************************************)
EXTENDS ApplyTxn, TLAPS

(***************************************************************************)
(* The rendered file is always one this tool could read back: a size for   *)
(* each of some set of pools.  (overrideSet, Render)                       *)
(***************************************************************************)
LEMMA OverrideSetIsOurs ==
    ASSUME NEW c \in Content, NEW live \in SUBSET Pools,
           NEW change \in Changes(live)
    PROVE  OverrideSet(c, live, change) \in Ours
<1>1. PICK S \in SUBSET live : change \in [S -> Sizes]
    BY DEF Changes
<1>2. CASE c \in Ours
    <2>1. PICK T \in SUBSET Pools : c \in [T -> Sizes]
        BY <1>2 DEF Ours
    <2>2. OverrideSet(c, live, change) \in [S \cup (live \cap T) -> Sizes]
        BY <1>1, <1>2, <2>1 DEF OverrideSet, Sections
    <2>3. S \cup (live \cap T) \in SUBSET Pools
        OBVIOUS
    <2> QED BY <2>2, <2>3 DEF Ours
<1>3. CASE c \notin Ours
    <2>1. OverrideSet(c, live, change) \in [S -> Sizes]
        BY <1>1, <1>3 DEF OverrideSet, Sections
    <2> QED BY <2>1 DEF HostOK, DiskOK, ProcOK, GhostOK, Ours
<1> QED BY <1>2, <1>3

-----------------------------------------------------------------------------

(***************************************************************************)
(* What the parts of an action do to the types of the variables, whatever  *)
(* step they are a part of.                                                *)
(***************************************************************************)
LEMMA Parts ==
    ASSUME TypeOK
    PROVE  /\ UNCHANGED host => HostOK'
           /\ UNCHANGED <<file, bak, rec>> => DiskOK'
           /\ UNCHANGED ghost => GhostOK'
           /\ UNCHANGED trouble => trouble' \in 0 .. MaxTrouble
           /\ SomethingGoesWrong => trouble' \in 0 .. MaxTrouble
           /\ Stop(TRUE) => ProcOK'
           /\ Stop(FALSE) => ProcOK'
           /\ Settled => ProcOK'
<1>1. UNCHANGED host => HostOK'
    BY DEF TypeOK, HostOK, host
<1>2. UNCHANGED <<file, bak, rec>> => DiskOK'
    BY DEF TypeOK, DiskOK
<1>3. UNCHANGED ghost => GhostOK'
    BY DEF TypeOK, GhostOK, ghost
<1>4. /\ UNCHANGED trouble => trouble' \in 0 .. MaxTrouble
      /\ SomethingGoesWrong => trouble' \in 0 .. MaxTrouble
    BY BoundAssumption DEF TypeOK, SomethingGoesWrong
<1>5. Stop(TRUE) \/ Stop(FALSE) => ProcOK'
    BY ModeAssumption DEF TypeOK, ProcOK, Stop, Content
<1>6. Settled => ProcOK'
    BY ModeAssumption
    DEF TypeOK, ProcOK, Settled, Content, ApplySteps
<1> QED BY <1>1, <1>2, <1>3, <1>4, <1>5, <1>6

Steps == ReconcileSteps \cup ApplySteps

Mem == (next \in Ours \cup {None}) /\ old \in Content
       /\ pid \in {"none", "current", "stale"}

LEMMA GotoOK ==
    ASSUME TypeOK, NEW s \in Steps, Goto(s), Mem'
    PROVE  ProcOK'
BY DEF TypeOK, ProcOK, Mem, Goto, Steps

(* The types alone are not inductive: what Record and Live write is next. *)
Rendered ==
    pc \in {"backup", "record", "live", "validate", "mark"} => next \in Ours

(***************************************************************************)
(* A step of Reconcile keeps the types.                                    *)
(***************************************************************************)
LEMMA ReconcileKeepsTypes ==
    ASSUME TypeOK, Reconcile
    PROVE  TypeOK'
<1>1. Mem
    BY DEF TypeOK, ProcOK, Mem
<1>2. file \in Content /\ bak \in Content /\ None \in Content
      /\ rec \in Transaction \cup {NoRec, BadRec}
    BY DEF TypeOK, DiskOK, Content
<1>3. Previous \in Content
    BY <1>2 DEF Previous
<1>4. {"look", "repair", "remove", "recheck", "reinstate", "undo", "putBack",
       "undone", "finish", "watch", "takeOut", "discard", "sweep"}
      \subseteq Steps
    BY DEF Steps, ReconcileSteps
<1>5. ASSUME ClearTransaction
      PROVE  /\ rec' \in Transaction \cup {NoRec, BadRec}
             /\ trouble' \in 0 .. MaxTrouble
    BY <1>2, <1>5, Parts DEF ClearTransaction, Fails
<1>6. ASSUME Deliver
      PROVE  /\ HostOK' /\ GhostOK' /\ trouble' \in 0 .. MaxTrouble
             /\ pid' \in {"none", "current", "stale"}
    <2>1. HostOK' BY <1>2, <1>6 DEF Deliver, HostOK, TypeOK
    <2>2. GhostOK' BY <1>6 DEF Deliver, GhostOK, TypeOK
    <2>3. trouble' \in 0 .. MaxTrouble BY <1>6, Parts DEF Deliver
    <2>4. pid' \in {"none", "current", "stale"} BY <1>1, <1>6 DEF Deliver, Mem
    <2> QED BY <2>1, <2>2, <2>3, <2>4
<1> USE <1>1, <1>2, <1>4, Parts, GotoOK
<1>7. CASE LookUnusable BY <1>7 DEF LookUnusable, TypeOK
<1>8. CASE LookNothing BY <1>8 DEF LookNothing, TypeOK, DiskOK, Mem
<1>9. CASE LookNotLanded BY <1>3, <1>9 DEF LookNotLanded, TypeOK, Mem
<1>10. CASE LookLanded BY <1>10 DEF LookLanded, TypeOK, Mem
<1>11. CASE Repair BY <1>11 DEF Repair, TypeOK, Mem
<1>12. CASE Undo
    <2>1. ProcOK' BY <1>3, <1>12 DEF Undo, Mem
    <2> QED BY <1>12, <2>1 DEF Undo, TypeOK
<1>13. CASE Remove
    <2>1. DiskOK' BY <1>13 DEF Remove, DiskOK
    <2>2. ProcOK' BY <1>13 DEF Remove, Mem
    <2> QED BY <1>13, <2>1, <2>2 DEF Remove, Fails, TypeOK
<1>14. CASE Recheck
    <2>1. DiskOK' BY <1>5, <1>14 DEF Recheck, DiskOK
    <2>2. ProcOK' BY <1>14 DEF Recheck, Mem
    <2>3. trouble' \in 0 .. MaxTrouble BY <1>5, <1>14 DEF Recheck
    <2> QED BY <1>14, <2>1, <2>2, <2>3 DEF Recheck, TypeOK
<1>15. CASE Reinstate
    <2>1. DiskOK' BY <1>15 DEF Reinstate, DiskOK, Mem
    <2> QED BY <1>15, <2>1 DEF Reinstate, Fails, TypeOK
<1>16. CASE PutBack
    <2>1. DiskOK' BY <1>16 DEF PutBack, DiskOK, Mem
    <2>2. ProcOK' BY <1>16 DEF PutBack, Mem
    <2> QED BY <1>16, <2>1, <2>2 DEF PutBack, Fails, TypeOK
<1>17. CASE Undone BY <1>17 DEF Undone, TypeOK, Mem
<1>18. CASE Finish
    <2>1. DiskOK' BY <1>18 DEF Finish
    <2>2. CASE pid = "none" /\ ~Deliver /\ ~Undeliverable
        BY <1>3, <1>18, <2>1, <2>2 DEF Finish, TypeOK, Mem
    <2>3. CASE Deliver /\ Goto("watch") /\ UNCHANGED <<next, old>>
        <3>1. Mem' BY <1>6, <2>3 DEF Mem
        <3> QED BY <1>6, <2>1, <2>3, <3>1 DEF TypeOK
    <2>4. CASE Undeliverable /\ Goto("takeOut") /\ UNCHANGED <<next, old>>
        BY <2>1, <2>4 DEF Undeliverable, TypeOK, Mem
    <2>5. CASE pid = "none"
        BY <2>2, <2>5, <1>18 DEF Deliver, Undeliverable
    <2> QED BY <1>18, <2>3, <2>4, <2>5 DEF Finish
<1>19. CASE Watch
    <2>1. GhostOK' BY <1>19 DEF Watch, SeenAlive, SeenDead, GhostOK, TypeOK
    <2>2. ProcOK' BY <1>3, <1>19 DEF Watch, Mem
    <2> QED BY <1>19, <2>1, <2>2 DEF Watch, TypeOK
<1>20. CASE TakeOut
    <2>1. DiskOK' BY <1>3, <1>20 DEF TakeOut, DiskOK
    <2> QED BY <1>20, <2>1 DEF TakeOut, Fails, TypeOK
<1>21. CASE Discard
    <2>1. DiskOK' BY <1>5, <1>21 DEF Discard, DiskOK
    <2>2. ProcOK' BY <1>21 DEF Discard, Mem
    <2> QED BY <1>5, <1>21, <2>1, <2>2 DEF Discard, TypeOK
<1>22. CASE Sweep
    <2>1. DiskOK' BY <1>22 DEF Sweep, DropCopy, DiskOK
    <2> QED BY <1>22, <2>1 DEF Sweep, TypeOK
<1> QED
    BY <1>7, <1>8, <1>9, <1>10, <1>11, <1>12, <1>13, <1>14, <1>15, <1>16, <1>17,
       <1>18, <1>19, <1>20, <1>21, <1>22
    DEF Reconcile

(***************************************************************************)
(* A step of Apply keeps the types.                                        *)
(***************************************************************************)
LEMMA ApplyKeepsTypes ==
    ASSUME TypeOK, Rendered, Apply
    PROVE  TypeOK'
<1>1. Mem
    BY DEF TypeOK, ProcOK, Mem
<1>2. file \in Content /\ bak \in Content /\ None \in Content
      /\ rec \in Transaction \cup {NoRec, BadRec}
    BY DEF TypeOK, DiskOK, Content
<1>3. {"plan", "backup", "record", "live", "validate", "mark", "signal",
       "settle", "restore", "commit", "unlink"} \subseteq Steps
    BY DEF Steps, ApplySteps
<1>4. ASSUME Deliver
      PROVE  /\ HostOK' /\ GhostOK' /\ trouble' \in 0 .. MaxTrouble
             /\ pid' \in {"none", "current", "stale"}
    <2>1. HostOK' BY <1>2, <1>4 DEF Deliver, HostOK, TypeOK
    <2>2. GhostOK' BY <1>4 DEF Deliver, GhostOK, TypeOK
    <2>3. trouble' \in 0 .. MaxTrouble BY <1>4, Parts DEF Deliver
    <2>4. pid' \in {"none", "current", "stale"} BY <1>1, <1>4 DEF Deliver, Mem
    <2> QED BY <2>1, <2>2, <2>3, <2>4
<1>5. ASSUME NEW phase \in Phases, WriteTransaction(phase), next \in Ours
      PROVE  rec' \in Transaction /\ GhostOK'
    <2>1. rec' \in Transaction
        BY <1>5 DEF WriteTransaction, Transaction
    <2>2. GhostOK'
        BY <1>2, <1>5 DEF WriteTransaction, ghost, GhostOK, TypeOK
    <2> QED BY <2>1, <2>2
<1>6. "written" \in Phases /\ "signalled" \in Phases
    BY DEF Phases
<1> USE <1>1, <1>2, <1>3, Parts, GotoOK
<1>7. CASE Decline BY <1>7 DEF Decline, TypeOK
<1>8. CASE Plan
    <2>1. sites \in SUBSET Pools BY DEF TypeOK, HostOK
    <2>2. next' \in Ours BY <1>8, <2>1, OverrideSetIsOurs DEF Plan
    <2>3. ProcOK' BY <1>8, <2>2 DEF Plan, Mem
    <2> QED BY <1>8, <2>3 DEF Plan, TypeOK
<1>9. CASE Backup
    <2>1. DiskOK' BY <1>9 DEF Backup, DiskOK
    <2>2. ProcOK' BY <1>9 DEF Backup, Mem
    <2> QED BY <1>9, <2>1, <2>2 DEF Backup, Fails, TypeOK
<1>10. CASE Record
    <2>0. next \in Ours BY <1>10 DEF Record, Rendered
    <2>1. DiskOK' BY <1>5, <1>6, <1>10, <2>0 DEF Record, DiskOK, Mem
    <2>2. ProcOK' BY <1>10 DEF Record, Mem
    <2>3. GhostOK' BY <1>5, <1>6, <1>10, <2>0 DEF Record
    <2> QED BY <1>10, <2>1, <2>2, <2>3 DEF Record, Fails, TypeOK
<1>11. CASE Live
    <2>1. DiskOK' BY <1>11 DEF Live, DiskOK, Mem, Content
    <2>2. ProcOK' BY <1>11 DEF Live, Mem
    <2> QED BY <1>11, <2>1, <2>2 DEF Live, Fails, TypeOK
<1>12. CASE Validate BY <1>12 DEF Validate, TypeOK, Mem
<1>13. CASE MarkSignalled
    <2>0. next \in Ours BY <1>13 DEF MarkSignalled, Rendered
    <2>1. DiskOK' BY <1>5, <1>6, <1>13, <2>0 DEF MarkSignalled, DiskOK
    <2>2. ProcOK' BY <1>13 DEF MarkSignalled, Mem
    <2>3. GhostOK' BY <1>5, <1>6, <1>13, <2>0 DEF MarkSignalled
    <2> QED BY <1>13, <2>1, <2>2, <2>3 DEF MarkSignalled, Fails, TypeOK
<1>14. CASE Signal
    <2>1. CASE Deliver /\ Goto("settle")
        <3>1. Mem' BY <1>4, <1>14, <2>1 DEF Signal, Mem
        <3> QED BY <1>4, <1>14, <2>1, <3>1 DEF Signal, TypeOK
    <2>2. CASE Undeliverable /\ Goto("restore")
        BY <1>14, <2>2 DEF Signal, Undeliverable, TypeOK, Mem
    <2> QED BY <1>14, <2>1, <2>2 DEF Signal
<1>15. CASE Settle
    <2>1. GhostOK' BY <1>15 DEF Settle, SeenAlive, SeenDead, GhostOK, TypeOK
    <2>2. ProcOK' BY <1>15 DEF Settle, Mem
    <2> QED BY <1>15, <2>1, <2>2 DEF Settle, TypeOK
<1>16. CASE Restore
    <2>1. DiskOK' BY <1>16 DEF Restore, DiskOK, Mem
    <2>2. ProcOK' BY <1>16 DEF Restore, Mem
    <2> QED BY <1>16, <2>1, <2>2 DEF Restore, Fails, TypeOK
<1>17. CASE Commit
    <2>1. DiskOK' BY <1>17 DEF Commit, ClearTransaction, DiskOK
    <2>2. ProcOK' BY <1>17 DEF Commit, Mem
    <2> QED BY <1>17, <2>1, <2>2 DEF Commit, ClearTransaction, Fails, TypeOK
<1>18. CASE Unlink
    <2>1. DiskOK' BY <1>18 DEF Unlink, DropCopy, DiskOK
    <2> QED BY <1>18, <2>1 DEF Unlink, TypeOK
<1> QED
    BY <1>7, <1>8, <1>9, <1>10, <1>11, <1>12, <1>13, <1>14, <1>15, <1>16, <1>17,
       <1>18
    DEF Apply

(***************************************************************************)
(* What others do keeps the types.                                         *)
(***************************************************************************)
LEMMA OutsideKeepsTypes ==
    ASSUME TypeOK, Outside
    PROVE  TypeOK'
<1>1. file \in Content /\ {None, Foreign, Edited} \subseteq Content
    BY DEF TypeOK, DiskOK, Content
<1>2. UNCHANGED proc => ProcOK'
    BY DEF TypeOK, ProcOK, proc
<1>3. ASSUME UNCHANGED <<pc, reconciled, next, old>>,
             pid' \in {"none", "current", "stale"}
      PROVE  ProcOK'
    BY <1>3 DEF TypeOK, ProcOK
<1>4. pid \in {"none", "current", "stale"}
    BY DEF TypeOK, ProcOK
<1> USE Parts, <1>2
<1>5. CASE ChangeSites
    <2>1. HostOK' BY <1>5 DEF ChangeSites, TypeOK, HostOK
    <2> QED BY <1>5, <2>1 DEF ChangeSites, TypeOK
<1>6. CASE Break
    <2>1. HostOK' BY <1>6 DEF Break, TypeOK, HostOK
    <2> QED BY <1>6, <2>1 DEF Break, TypeOK
<1>7. CASE Mend
    <2>1. HostOK' BY <1>7 DEF Mend, TypeOK, HostOK
    <2> QED BY <1>7, <2>1 DEF Mend, TypeOK
<1>8. CASE EditFile
    <2>1. HostOK' BY <1>8 DEF EditFile, TypeOK, HostOK
    <2>2. DiskOK' BY <1>1, <1>8 DEF EditFile, TypeOK, DiskOK
    <2>3. GhostOK' BY <1>8 DEF EditFile, TypeOK, GhostOK
    <2> QED BY <1>8, <2>1, <2>2, <2>3 DEF EditFile, TypeOK
<1>9. CASE LoseCopy
    <2>1. DiskOK' BY <1>1, <1>9 DEF LoseCopy, TypeOK, DiskOK
    <2>2. GhostOK' BY <1>9 DEF LoseCopy, TypeOK, GhostOK
    <2> QED BY <1>9, <2>1, <2>2 DEF LoseCopy, TypeOK
<1>10. CASE SpoilRecord
    <2>1. DiskOK' BY <1>10 DEF SpoilRecord, TypeOK, DiskOK
    <2> QED BY <1>10, <2>1 DEF SpoilRecord, TypeOK
<1>11. CASE DeleteSpoiltRecord
    <2>1. HostOK' BY <1>11 DEF DeleteSpoiltRecord, TypeOK, HostOK
    <2>2. DiskOK' BY <1>11 DEF DeleteSpoiltRecord, TypeOK, DiskOK
    <2> QED BY <1>11, <2>1, <2>2 DEF DeleteSpoiltRecord, TypeOK
<1>12. CASE MasterDies
    <2>1. HostOK' BY <1>12 DEF MasterDies, TypeOK, HostOK
    <2>2. ProcOK' BY <1>3, <1>4, <1>12 DEF MasterDies
    <2> QED BY <1>12, <2>1, <2>2 DEF MasterDies, TypeOK
<1>13. CASE MasterStarts
    <2>1. HostOK' BY <1>1, <1>13 DEF MasterStarts, TypeOK, HostOK
    <2> QED BY <1>13, <2>1 DEF MasterStarts, TypeOK
<1>14. CASE OutsideReload
    <2>1. HostOK' BY <1>1, <1>14 DEF OutsideReload, TypeOK, HostOK
    <2>2. ProcOK' BY <1>3, <1>4, <1>14 DEF OutsideReload
    <2> QED BY <1>14, <2>1, <2>2 DEF OutsideReload, TypeOK
<1> QED
    BY <1>5, <1>6, <1>7, <1>8, <1>9, <1>10, <1>11, <1>12, <1>13, <1>14
    DEF Outside

(***************************************************************************)
(* Only Plan leads into the write, and it comes with the file to write.    *)
(***************************************************************************)
LEMMA RenderedKept ==
    ASSUME TypeOK, Rendered, [Next]_vars
    PROVE  Rendered'
<1> USE DEF Rendered
<1>1. CASE BeginRun \/ Unsettle BY <1>1 DEF BeginRun, Unsettle, Goto
<1>2. CASE Reconcile
    BY <1>2
    DEF Reconcile, LookUnusable, LookNothing, LookNotLanded, LookLanded, Repair,
        Undo, Remove, Recheck, Reinstate, PutBack, Undone, Finish, Watch,
        TakeOut, Discard, Sweep, Goto, Stop, Settled
<1>3. CASE Plan
    <2>1. sites \in SUBSET Pools /\ file \in Content
        BY DEF TypeOK, HostOK, DiskOK
    <2> QED BY <1>3, <2>1, OverrideSetIsOurs DEF Plan
<1>4. CASE Apply /\ ~Plan
    BY <1>4
    DEF Apply, Decline, Backup, Record, Live, Validate, MarkSignalled, Signal,
        Settle, Restore, Commit, Unlink, Goto, Stop
<1>5. CASE Abandon BY <1>5 DEF Abandon, Stop
<1>6. CASE Outside
    BY <1>6
    DEF Outside, ChangeSites, Break, Mend, EditFile, LoseCopy, SpoilRecord,
        DeleteSpoiltRecord, MasterDies, MasterStarts, OutsideReload, proc
<1>7. CASE UNCHANGED vars BY <1>7 DEF vars, proc
<1> QED BY <1>1, <1>2, <1>3, <1>4, <1>5, <1>6, <1>7 DEF Next

LEMMA TypesHold == Spec => []TypeOK /\ []Rendered
<1>1. Init => TypeOK /\ Rendered
    <2> USE DEF Init
    <2>1. Init => HostOK BY DEF HostOK, Content
    <2>2. Init => DiskOK BY DEF DiskOK, Content
    <2>3. Init => ProcOK BY DEF ProcOK, Content
    <2>4. Init => GhostOK BY DEF GhostOK, Content
    <2>5. Init => trouble \in 0 .. MaxTrouble BY BoundAssumption
    <2>6. Init => Rendered BY DEF Rendered
    <2> QED BY <2>1, <2>2, <2>3, <2>4, <2>5, <2>6 DEF TypeOK
<1>2. ASSUME TypeOK, Rendered, [Next]_vars
      PROVE  TypeOK' /\ Rendered'
    <2> USE <1>2
    <2>1. CASE BeginRun
        <3>1. "plan" \in Steps /\ "look" \in Steps
            BY DEF Steps, ReconcileSteps, ApplySteps
        <3>2. Mem' BY <2>1 DEF BeginRun, Mem, TypeOK, ProcOK
        <3>3. ProcOK' BY <2>1, <3>1, <3>2, GotoOK DEF BeginRun
        <3> QED BY <2>1, <3>3, Parts, RenderedKept DEF BeginRun, TypeOK
    <2>2. CASE Unsettle
        <3>1. ProcOK' BY <2>2 DEF Unsettle, TypeOK, ProcOK
        <3> QED BY <2>2, <3>1, Parts, RenderedKept DEF Unsettle, TypeOK
    <2>3. CASE Abandon
        BY <2>3, Parts, RenderedKept DEF Abandon, TypeOK
    <2>4. CASE UNCHANGED vars
        <3>1. ProcOK' BY <2>4 DEF vars, proc, TypeOK, ProcOK
        <3> QED BY <2>4, <3>1, Parts, RenderedKept DEF vars, TypeOK
    <2> QED
        BY <2>1, <2>2, <2>3, <2>4, ReconcileKeepsTypes, ApplyKeepsTypes,
           OutsideKeepsTypes, RenderedKept
        DEF Next
<1> QED BY <1>1, <1>2, PTL DEF Spec

(***************************************************************************)
(* Every variable stays in its type, whatever fails and whoever interferes *)
(* (Apply and Reconcile): in particular a record that is written is one    *)
(* readTransaction will accept, and a file that is written is one parseOurs*)
(* will read back, or the one that was there.                              *)
(***************************************************************************)
THEOREM TypeCorrect == Spec => []TypeOK
BY TypesHold, PTL

-----------------------------------------------------------------------------
(***************************************************************************)
(* The record is never written over unread.                                *)
(***************************************************************************)

(***************************************************************************)
(* The setting: removals of the record that work and, for a daemon, which  *)
(* does not reconcile again while it believes it has, no failing write of  *)
(* the kind that leaves a record behind when Apply returns.                *)
(***************************************************************************)
Heeded ==
    /\ "clear" \notin IOErrors
    /\ Daemon => "record" \notin IOErrors /\ "restore" \notin IOErrors

(* Between runs, who believes to have reconciled left no record. *)
BeliefIsTrue == pc = "idle" /\ reconciled => rec = NoRec

(* What the program counter says about the record. *)
RecordFollowsSteps ==
    /\ pc \in {"repair", "plan", "backup", "record", "sweep", "unlink"}
        => rec = NoRec
    /\ pc \in {"undo", "putBack", "undone", "finish", "watch", "takeOut",
               "discard"} => Open
    /\ pc \in {"remove", "recheck", "reinstate"} => rec # BadRec

(* From the record to the commit, it is this run's change that is recorded. *)
ChangeIsRecorded ==
    pc \in {"live", "validate", "mark", "signal", "settle", "restore", "commit"}
        => Open /\ rec.wrote = next /\ rec.existed = (old # None)

RecInv == BeliefIsTrue /\ RecordFollowsSteps /\ ChangeIsRecorded

LEMMA ClearIsSure ==
    ASSUME Heeded, ClearTransaction
    PROVE  rec' = NoRec /\ ~Open'
BY RecordAssumption DEF Heeded, ClearTransaction, Fails, Open

LEMMA WritesRecord ==
    ASSUME NEW phase \in Phases, WriteTransaction(phase), next \in Ours
    PROVE  /\ Open' /\ rec' # NoRec
           /\ rec'.wrote = next /\ rec'.existed = (old # None)
           /\ IF Open THEN UNCHANGED ghost ELSE pre' = file /\ ~touched'
<1>1. rec' \in Transaction /\ rec'.wrote = next /\ rec'.existed = (old # None)
    BY DEF WriteTransaction, Transaction
<1> QED BY <1>1, RecordAssumption DEF WriteTransaction, Open

LEMMA RecStep ==
    ASSUME Heeded, TypeOK, Rendered, RecInv, [Next]_vars
    PROVE  RecInv'
<1> USE DEF RecInv, BeliefIsTrue, RecordFollowsSteps, ChangeIsRecorded, Open
<1>0. NoRec \notin Transaction /\ BadRec \notin Transaction /\ NoRec # BadRec
    BY RecordAssumption
<1>1. CASE BeginRun \/ Unsettle \/ Abandon \/ UNCHANGED vars
    <2>1. CASE BeginRun BY <2>1 DEF BeginRun, Goto
    <2>2. CASE Unsettle BY <2>2 DEF Unsettle
    <2>3. CASE Abandon BY <2>3 DEF Abandon, Stop
    <2>4. CASE UNCHANGED vars BY <2>4 DEF vars, proc
    <2> QED BY <1>1, <2>1, <2>2, <2>3, <2>4
<1>2. CASE Reconcile
    <2>1. CASE Recheck
        <3>1. CASE Settled /\ Open
            BY <2>1, <3>1, ClearIsSure DEF Recheck, Settled, Goto
        <3>2. CASE Settled /\ ~Open
            BY <1>0, <2>1, <3>2 DEF Recheck, Settled, TypeOK, DiskOK, Goto
        <3>3. CASE Goto("reinstate") /\ UNCHANGED <<rec, next, old, pid>>
            BY <2>1, <3>3 DEF Recheck, Goto
        <3> QED BY <2>1, <3>1, <3>2, <3>3 DEF Recheck
    <2>2. CASE Discard
        BY <1>0, <2>2, ClearIsSure DEF Discard, Goto
    <2>3. CASE Reconcile /\ ~Recheck /\ ~Discard
        BY <1>0, <2>3
        DEF Reconcile, LookUnusable, LookNothing, LookNotLanded, LookLanded,
            Repair, Undo, Remove, Reinstate, PutBack, Undone, Finish, Watch,
            TakeOut, Sweep, Goto, Stop, Settled
    <2> QED BY <1>2, <2>1, <2>2, <2>3
<1>3. CASE Apply
    <2>0. "written" \in Phases /\ "signalled" \in Phases
        BY DEF Phases
    <2>1. CASE Record
        <3>1. next \in Ours BY <2>1 DEF Record, Rendered
        <3>2. CASE WriteTransaction("written") /\ Goto("live") /\ UNCHANGED <<next, old>>
            BY <2>0, <3>1, <3>2, WritesRecord DEF Goto
        <3>3. CASE Fails("record") /\ Stop(TRUE)
            BY <3>3 DEF Fails, Stop, Heeded
        <3> QED BY <2>1, <3>2, <3>3 DEF Record
    <2>2. CASE MarkSignalled
        <3>1. next \in Ours BY <2>2 DEF MarkSignalled, Rendered
        <3>2. CASE WriteTransaction("signalled")
            BY <2>0, <2>2, <3>1, <3>2, WritesRecord DEF MarkSignalled, Goto
        <3>3. CASE UNCHANGED <<rec, ghost>>
            BY <2>2, <3>3 DEF MarkSignalled, Goto
        <3> QED BY <2>2, <3>2, <3>3 DEF MarkSignalled
    <2>3. CASE Live \/ Restore
        BY <1>0, <2>3 DEF Live, Restore, Fails, Goto, Stop, Heeded
    <2>4. CASE Commit
        BY <1>0, <2>4, ClearIsSure DEF Commit, Goto
    <2>5. CASE Decline \/ Plan \/ Backup \/ Validate \/ Signal \/ Settle \/ Unlink
        BY <1>0, <2>5
        DEF Decline, Plan, Backup, Validate, Signal, Settle, Unlink, Goto, Stop
    <2> QED BY <1>3, <2>1, <2>2, <2>3, <2>4, <2>5 DEF Apply
<1>4. CASE Outside
    BY <1>0, <1>4
    DEF Outside, ChangeSites, Break, Mend, EditFile, LoseCopy, SpoilRecord,
        DeleteSpoiltRecord, MasterDies, MasterStarts, OutsideReload, proc
<1> QED BY <1>1, <1>2, <1>3, <1>4 DEF Next

LEMMA RecInvHolds ==
    ASSUME Heeded
    PROVE  Spec => []RecInv
<1>1. Init => RecInv
    BY RecordAssumption
    DEF Init, RecInv, BeliefIsTrue, RecordFollowsSteps, ChangeIsRecorded
<1> QED BY <1>1, RecStep, TypesHold, PTL DEF Spec

(***************************************************************************)
(* An open record is only ever marked signalled or closed: no run writes   *)
(* another change on top of it, also not a daemon that reconciled once,    *)
(* and not while others edit, reload and restart at any step.              *)
(***************************************************************************)
THEOREM RecordIsKept ==
    ASSUME Heeded
    PROVE  Spec => RecordNeverOverwritten
<1> DEFINE Kept == Open /\ rec' \in Transaction =>
                     rec'.existed = rec.existed /\ rec'.wrote = rec.wrote
<1>1. ASSUME RecInv, [Next]_vars PROVE Kept
    <2> USE <1>1 DEF Kept
    <2>1. CASE UNCHANGED rec BY <2>1
    <2>2. CASE Record
        BY <2>2, RecordAssumption DEF Record, RecInv, RecordFollowsSteps, Open
    <2>3. CASE MarkSignalled
        BY <2>3
        DEF MarkSignalled, WriteTransaction, RecInv, ChangeIsRecorded, Open
    <2>4. CASE rec' \in {NoRec, BadRec} BY <2>4, RecordAssumption
    <2>5. CASE Reconcile /\ rec' # rec
        BY <2>4, <2>5, ClearIsSure
        DEF Reconcile, LookUnusable, LookNothing, LookNotLanded, LookLanded,
            Repair, Undo, Remove, Recheck, Reinstate, PutBack, Undone, Finish,
            Watch, TakeOut, Discard, Sweep
    <2>6. CASE Apply /\ ~Record /\ ~MarkSignalled /\ rec' # rec
        BY <2>4, <2>6, ClearIsSure
        DEF Apply, Decline, Plan, Backup, Live, Validate, Signal, Settle,
            Restore, Commit, Unlink
    <2>7. CASE Outside /\ rec' # rec
        BY <2>4, <2>7
        DEF Outside, ChangeSites, Break, Mend, EditFile, LoseCopy, SpoilRecord,
            DeleteSpoiltRecord, MasterDies, MasterStarts, OutsideReload
    <2>8. CASE (BeginRun \/ Unsettle \/ Abandon \/ UNCHANGED vars) /\ rec' # rec
        BY <2>8 DEF BeginRun, Unsettle, Abandon, vars
    <2> QED BY <2>1, <2>2, <2>3, <2>5, <2>6, <2>7, <2>8 DEF Next
<1>2. ASSUME RecInv, [Next]_vars PROVE [Kept]_vars
    BY <1>1, <1>2
<1>3. []RecInv /\ [][Next]_vars => [][Kept]_vars
    BY <1>2, PTL
<1> QED BY <1>3, RecInvHolds, PTL DEF Spec, RecordNeverOverwritten

-----------------------------------------------------------------------------
(***************************************************************************)
(* The undo record is sound, for every set of pools and sizes and any      *)
(* number of crashes, dying masters and operators between and beside the   *)
(* runs.  From it follow the refinement, what the master runs, and what    *)
(* closes a change that was signalled.                                     *)
(***************************************************************************)

(* The setting: also, nobody edits the file under a run's hands. *)
Setting == Heeded /\ "edit" \notin Racing

(* What a process holds in memory agrees with the disk. *)
MemoryFollowsDisk ==
    /\ pc = "record" => old = file /\ (old # None => bak = old)
    /\ pc = "remove" => old = file
    /\ pc = "putBack" => old = pre
    /\ pc \in {"live", "validate", "mark", "signal", "settle", "restore",
               "commit"} => old = pre

(* Under a record, a file of ours is taken out only for want of the copy. *)
TakenOutForWant ==
    pc \in {"remove", "recheck", "reinstate"} /\ Open => touched

(* The part of the invariant that speaks of the files. *)
Sound ==
    /\ MemoryFollowsDisk /\ TakenOutForWant
    /\ SavedCopyIsPreImage /\ OnDiskIsAccounted

IInv == TypeOK /\ Rendered /\ RecInv /\ Sound

(* Previous is the content from before the change, or has been lost. *)
LEMMA PreviousIsPre ==
    ASSUME IInv, Open
    PROVE  /\ ~PreviousLost => Previous = pre
           /\ PreviousLost => touched
BY DEF IInv, Sound, SavedCopyIsPreImage, Previous, PreviousLost, TypeOK, DiskOK

LEMMA ReconcileIsSound ==
    ASSUME Setting, IInv, Reconcile
    PROVE  Sound'
<1> USE DEF IInv, Sound, RecInv, RecordFollowsSteps, MemoryFollowsDisk,
            ChangeIsRecorded, TakenOutForWant, SavedCopyIsPreImage,
            OnDiskIsAccounted
<1>0. NoRec \notin Transaction /\ BadRec \notin Transaction
    BY RecordAssumption
<1>1. CASE LookUnusable BY <1>1 DEF LookUnusable, Stop, Open, ghost
<1>2. CASE LookNothing BY <1>0, <1>2 DEF LookNothing, Goto, Open
<1>3. CASE LookNotLanded BY <1>3 DEF LookNotLanded, Goto, Stop, Open, ghost
<1>4. CASE LookLanded BY <1>4 DEF LookLanded, Goto, Open, ghost
<1>5. CASE Repair BY <1>0, <1>5 DEF Repair, Goto, Settled, Open, ghost
<1>6. CASE Undo
    BY <1>6, PreviousIsPre DEF Undo, Goto, Stop, Open, ghost
<1>7. CASE Remove BY <1>0, <1>7 DEF Remove, Goto, Stop, Open, ghost
<1>8. CASE Recheck
    BY <1>0, <1>8, ClearIsSure DEF Setting, Recheck, Goto, Settled, Open, ghost
<1>9. CASE Reinstate BY <1>0, <1>9 DEF Reinstate, Stop, Open, ghost
<1>10. CASE PutBack BY <1>10 DEF PutBack, Goto, Stop, Open, ghost
<1>11. CASE Undone BY <1>11 DEF Undone, Goto, Stop, Open, ghost
<1>12. CASE Finish
    BY <1>12 DEF Finish, Deliver, Undeliverable, Goto, Stop, Open, ghost
<1>13. CASE Watch
    BY <1>13 DEF Watch, SeenAlive, SeenDead, Goto, Open, ghost
<1>14. CASE TakeOut
    BY <1>14, PreviousIsPre DEF TakeOut, Stop, Open, ghost
<1>15. CASE Discard BY <1>15, ClearIsSure DEF Setting, Discard, Goto
<1>16. CASE Sweep BY <1>0, <1>16 DEF Sweep, Settled, Open
<1> QED
    BY <1>1, <1>2, <1>3, <1>4, <1>5, <1>6, <1>7, <1>8, <1>9, <1>10, <1>11,
       <1>12, <1>13, <1>14, <1>15, <1>16
    DEF Reconcile

LEMMA ApplyIsSound ==
    ASSUME Setting, IInv, Apply
    PROVE  Sound'
<1> USE DEF IInv, Sound, RecInv, RecordFollowsSteps, MemoryFollowsDisk,
            ChangeIsRecorded, TakenOutForWant, SavedCopyIsPreImage,
            OnDiskIsAccounted
<1>0. NoRec \notin Transaction /\ BadRec \notin Transaction
    BY RecordAssumption
<1>p. "written" \in Phases /\ "signalled" \in Phases
    BY DEF Phases
<1>1. CASE Decline BY <1>0, <1>1 DEF Decline, Stop, Open
<1>2. CASE Plan BY <1>0, <1>2 DEF Plan, Goto, Open
<1>3. CASE Backup BY <1>0, <1>3 DEF Backup, Goto, Stop, Open
<1>4. CASE Record
    <2>1. next \in Ours /\ ~Open
        BY <1>0, <1>4 DEF Record, Rendered, Open
    <2>2. CASE WriteTransaction("written")
        BY <1>4, WritesRecord, <1>p, <2>1, <2>2 DEF Record, Goto, Stop
    <2>3. CASE UNCHANGED <<rec, ghost>> /\ Stop(TRUE)
        BY <2>1, <2>3 DEF Stop, Open
    <2> QED BY <1>4, <2>2, <2>3 DEF Record
<1>5. CASE Live BY <1>0, <1>5 DEF Live, Goto, Stop, Open, ghost
<1>6. CASE Validate BY <1>6 DEF Validate, Goto, Open, ghost
<1>7. CASE MarkSignalled
    <2>1. next \in Ours /\ Open
        BY <1>7 DEF MarkSignalled, Rendered
    <2>2. CASE WriteTransaction("signalled")
        BY <1>7, WritesRecord, <1>p, <2>1, <2>2 DEF MarkSignalled, Goto, ghost
    <2>3. CASE UNCHANGED <<rec, ghost>>
        BY <1>7, <2>1, <2>3 DEF MarkSignalled, Goto, ghost, Open
    <2> QED BY <1>7, <2>2, <2>3 DEF MarkSignalled
<1>8. CASE Signal
    BY <1>8 DEF Signal, Deliver, Undeliverable, Goto, Open, ghost
<1>9. CASE Settle
    BY <1>9 DEF Settle, SeenAlive, SeenDead, Goto, Open, ghost
<1>10. CASE Restore BY <1>10 DEF Restore, Goto, Stop, Open, ghost
<1>11. CASE Commit BY <1>11, ClearIsSure DEF Setting, Commit, Goto
<1>12. CASE Unlink BY <1>0, <1>12 DEF Unlink, Stop, Open
<1> QED
    BY <1>1, <1>2, <1>3, <1>4, <1>5, <1>6, <1>7, <1>8, <1>9, <1>10, <1>11, <1>12
    DEF Apply

LEMMA OutsideIsSound ==
    ASSUME Setting, IInv, Outside
    PROVE  Sound'
<1> USE DEF IInv, Sound, RecInv, RecordFollowsSteps, MemoryFollowsDisk,
            ChangeIsRecorded, TakenOutForWant, SavedCopyIsPreImage,
            OnDiskIsAccounted
<1>0. NoRec \notin Transaction /\ BadRec \notin Transaction
    BY RecordAssumption
<1>1. CASE EditFile
    BY <1>1 DEF EditFile, MayAct, Setting, Open, proc
<1>2. CASE LoseCopy BY <1>2 DEF LoseCopy, Open, proc
<1>3. CASE SpoilRecord \/ DeleteSpoiltRecord
    BY <1>0, <1>3 DEF SpoilRecord, DeleteSpoiltRecord, Open, proc
<1>4. CASE ChangeSites \/ Break \/ Mend
    BY <1>4 DEF ChangeSites, Break, Mend, Open, proc, ghost
<1>5. CASE MasterDies \/ MasterStarts \/ OutsideReload
    BY <1>5
    DEF MasterDies, MasterStarts, OutsideReload, Open, proc, ghost
<1> QED BY <1>1, <1>2, <1>3, <1>4, <1>5 DEF Outside

LEMMA IInvHolds ==
    ASSUME Setting
    PROVE  Spec => []IInv
<1>1. Init => Sound
    BY RecordAssumption
    DEF Init, Sound, MemoryFollowsDisk, TakenOutForWant, SavedCopyIsPreImage,
        OnDiskIsAccounted, Open
<1>2. ASSUME IInv, [Next]_vars
      PROVE  Sound'
    <2> USE <1>2 DEF IInv, RecInv, Sound, BeliefIsTrue, MemoryFollowsDisk,
        TakenOutForWant, SavedCopyIsPreImage, OnDiskIsAccounted, Open
    <2>1. CASE BeginRun \/ Unsettle
        BY <2>1 DEF BeginRun, Unsettle, Goto, ghost
    <2>2. CASE Abandon BY <2>2 DEF Abandon, Stop, ghost
    <2>3. CASE UNCHANGED vars BY <2>3 DEF vars, proc, ghost
    <2> QED
        BY <2>1, <2>2, <2>3, ReconcileIsSound, ApplyIsSound, OutsideIsSound
        DEF Next
<1>3. Heeded BY DEF Setting
<1> QED
    BY <1>1, <1>2, <1>3, TypesHold, RecInvHolds, PTL DEF Spec, IInv

(***************************************************************************)
(* Whatever crashes, fails or is pulled away, the copy an open record      *)
(* names is the file from before the change (or somebody removed it), and  *)
(* going back is going back to that.                                       *)
(***************************************************************************)
THEOREM CopyIsPreImage ==
    ASSUME Setting
    PROVE  Spec => []SavedCopyIsPreImage
<1>1. IInv => SavedCopyIsPreImage BY DEF IInv, Sound
<1> QED BY <1>1, IInvHolds, PTL

(***************************************************************************)
(* While a change is in flight the file is the old one or the recorded     *)
(* one, so recovery can always tell which.                                 *)
(***************************************************************************)
THEOREM FileIsAccounted ==
    ASSUME Setting
    PROVE  Spec => []OnDiskIsAccounted
<1>1. IInv => OnDiskIsAccounted BY DEF IInv, Sound
<1> QED BY <1>1, IInvHolds, PTL

-----------------------------------------------------------------------------

(* The log and the trial removal as the undo log sees them. *)
Entry == IF Open THEN [pre |-> pre, post |-> rec.wrote] ELSE NoRec
Spare == IF pc \in {"recheck", "reinstate"} THEN old ELSE None

LEMMA EntryIsOpen ==
    ASSUME IInv, Open
    PROVE  Entry # NoRec /\ [pre |-> pre, post |-> rec.wrote] # NoRec
BY LogAssumption
DEF IInv, TypeOK, GhostOK, Open, Transaction, Entry, Content

LEMMA ReconcileImplements ==
    ASSUME Setting, IInv, Reconcile
    PROVE  [Log!Next]_(Log!vars)
<1> USE DEF Log!vars, Log!Next, Open
<1>0. NoRec \notin Transaction /\ BadRec \notin Transaction
    BY RecordAssumption
<1>1. CASE \/ LookUnusable \/ LookNothing \/ LookNotLanded \/ LookLanded
           \/ Repair \/ Undo \/ Undone \/ Finish \/ Watch
    <2>1. UNCHANGED <<file, Entry, Spare>>
        BY <1>1
        DEF LookUnusable, LookNothing, LookNotLanded, LookLanded, Repair, Undo,
            Undone, Finish, Deliver, Undeliverable, Watch, SeenAlive, SeenDead,
            Stop, Goto, Settled, ghost, Entry, Spare
    <2> QED BY <2>1 DEF Entry, Spare
<1>2. CASE Remove
    <2>1. CASE file' = None /\ Goto("recheck") /\ UNCHANGED old
        <3>1. Log!TakeOut
            BY <1>2, <2>1
            DEF Remove, Goto, ghost, IInv, Sound, MemoryFollowsDisk, Log!TakeOut
        <3> QED BY <3>1
    <2>2. CASE Stop(FALSE) /\ UNCHANGED file
        BY <1>2, <2>2 DEF Remove, Stop, ghost
    <2> QED BY <1>2, <2>1, <2>2 DEF Remove
<1>3. CASE Recheck
    <2>1. CASE Settled /\ Open
        <3>1. Log!End
            BY <1>0, <1>3, <2>1, ClearIsSure, EntryIsOpen
            DEF Setting, Recheck, Settled, Goto, Log!End
        <3> QED BY <3>1
    <2>2. CASE Settled /\ ~Open
        <3>1. Log!LeaveOut
            BY <1>3, <2>2 DEF Recheck, Settled, Log!LeaveOut, ghost
        <3> QED BY <3>1
    <2>3. CASE Goto("reinstate") /\ UNCHANGED <<rec, old>>
        BY <1>3, <2>3 DEF Recheck, Goto, ghost
    <2> QED BY <1>3, <2>1, <2>2, <2>3 DEF Recheck
<1>4. CASE Reinstate
    <2>1. CASE file' = old
        <3>1. Log!PutBack BY <1>4, <2>1 DEF Reinstate, Stop, ghost, Log!PutBack
        <3> QED BY <3>1
    <2>2. CASE UNCHANGED file
        <3>1. Log!LeaveOut BY <1>4, <2>2 DEF Reinstate, Stop, ghost, Log!LeaveOut
        <3> QED BY <3>1
    <2> QED BY <1>4, <2>1, <2>2 DEF Reinstate
<1>5. CASE PutBack
    <2>1. CASE file' = old /\ Goto("undone")
        <3>1. Log!Undo
            BY <1>0, <1>5, <2>1, EntryIsOpen
            DEF PutBack, Goto, ghost, IInv, RecInv, Sound, RecordFollowsSteps,
                MemoryFollowsDisk, Transaction, Log!Undo
        <3> QED BY <3>1
    <2>2. CASE Stop(FALSE) /\ UNCHANGED file
        BY <1>5, <2>2 DEF PutBack, Stop, ghost
    <2> QED BY <1>5, <2>1, <2>2 DEF PutBack
<1>6. CASE TakeOut
    <2>1. CASE ~PreviousLost /\ file' = Previous
        <3>1. Open /\ Previous = pre
            BY <1>6, <2>1, PreviousIsPre
            DEF TakeOut, IInv, RecInv, RecordFollowsSteps
        <3>2. Log!Undo
            BY <1>0, <1>6, <2>1, <3>1, EntryIsOpen
            DEF TakeOut, Stop, ghost, Log!Undo
        <3> QED BY <3>2
    <2>2. CASE UNCHANGED file
        BY <1>6, <2>2 DEF TakeOut, Stop, ghost
    <2> QED BY <1>6, <2>1, <2>2 DEF TakeOut
<1>7. CASE Discard
    <2>1. Log!End
        BY <1>0, <1>7, ClearIsSure, EntryIsOpen
        DEF Setting, Discard, Goto, IInv, RecInv, RecordFollowsSteps, Log!End
    <2> QED BY <2>1
<1>8. CASE Sweep
    BY <1>8 DEF Sweep, Settled, ghost
<1> QED
    BY <1>1, <1>2, <1>3, <1>4, <1>5, <1>6, <1>7, <1>8 DEF Reconcile

LEMMA ApplyImplements ==
    ASSUME Setting, IInv, Apply
    PROVE  [Log!Next]_(Log!vars)
<1> USE DEF Log!vars, Log!Next, Open
<1>0. NoRec \notin Transaction /\ BadRec \notin Transaction
    BY RecordAssumption
<1>1. CASE \/ Decline \/ Plan \/ Backup \/ Validate \/ Signal \/ Settle
           \/ Unlink
    <2>1. UNCHANGED <<file, Entry, Spare>>
        BY <1>1
        DEF Decline, Plan, Backup, Validate, Signal, Deliver, Undeliverable,
            Settle, SeenAlive, SeenDead, Unlink, Stop, Goto, ghost, Entry, Spare
    <2> QED BY <2>1 DEF Entry, Spare
<1>2. CASE Record
    <2>1. /\ next \in Ours /\ ~Open /\ old = file /\ file \in Content
          /\ Ours \subseteq Content
        BY <1>0, <1>2
        DEF Record, IInv, RecInv, Sound, Rendered, RecordFollowsSteps,
            MemoryFollowsDisk, TypeOK, DiskOK, Content
    <2>2. UNCHANGED <<file, Spare>>
        BY <1>2, <2>1 DEF Record, Goto, Stop, Spare
    <2>3. CASE WriteTransaction("written")
        <3>1. Open' /\ rec'.wrote = next /\ pre' = file
            BY <2>1, <2>3 DEF WriteTransaction, Transaction, Phases
        <3>2. Log!Begin
            BY <2>1, <2>2, <3>1 DEF Spare, Log!Begin
        <3> QED BY <3>2
    <2>4. CASE UNCHANGED <<rec, ghost>>
        BY <2>2, <2>4 DEF Spare, ghost
    <2> QED BY <1>2, <2>3, <2>4 DEF Record
<1>3. CASE Live
    <2>1. Open /\ rec.wrote = next /\ pre = old
        BY <1>3 DEF Live, IInv, RecInv, Sound, ChangeIsRecorded, MemoryFollowsDisk
    <2>2. CASE file' = next /\ Goto("validate") /\ UNCHANGED <<rec, old>>
        <3>1. Log!Install
            BY <1>3, <2>1, <2>2, EntryIsOpen DEF Live, Goto, ghost, Log!Install
        <3> QED BY <3>1
    <2>3. CASE file' = old /\ rec' = NoRec /\ Stop(TRUE)
        <3>1. Log!UndoAndEnd
            BY <1>0, <1>3, <2>1, <2>3, EntryIsOpen
            DEF Live, Stop, ghost, Log!UndoAndEnd
        <3> QED BY <3>1
    <2>4. CASE UNCHANGED <<file, rec>> /\ Stop(TRUE)
        BY <1>3, <2>4 DEF Live, Stop, ghost
    <2> QED BY <1>3, <2>2, <2>3, <2>4 DEF Live
<1>4. CASE MarkSignalled
    <2>1. Open /\ rec.wrote = next /\ pre = old /\ next \in Ours
        BY <1>4 DEF MarkSignalled, IInv, RecInv, Sound, ChangeIsRecorded,
            MemoryFollowsDisk, Rendered
    <2>2. CASE WriteTransaction("signalled")
        <3>1. Open' /\ rec'.wrote = rec.wrote /\ pre' = pre
            BY <2>1, <2>2 DEF WriteTransaction, Transaction, Phases, ghost
        <3> QED BY <1>4, <2>1, <3>1 DEF MarkSignalled, Goto
    <2>3. CASE UNCHANGED <<rec, ghost>>
        BY <1>4, <2>3 DEF MarkSignalled, Goto, ghost
    <2> QED BY <1>4, <2>2, <2>3 DEF MarkSignalled
<1>5. CASE Restore
    <2>1. CASE file' = old /\ Goto("commit") /\ UNCHANGED old
        <3>1. Log!Undo
            BY <1>5, <2>1, EntryIsOpen
            DEF Restore, Goto, ghost, IInv, RecInv, Sound, ChangeIsRecorded,
                MemoryFollowsDisk, Log!Undo
        <3> QED BY <3>1
    <2>2. CASE UNCHANGED file /\ Stop(TRUE)
        BY <1>5, <2>2 DEF Restore, Stop, ghost
    <2> QED BY <1>5, <2>1, <2>2 DEF Restore
<1>6. CASE Commit
    <2>1. Log!End
        BY <1>0, <1>6, ClearIsSure, EntryIsOpen
        DEF Setting, Commit, Goto, IInv, RecInv, ChangeIsRecorded, Log!End
    <2> QED BY <2>1
<1> QED BY <1>1, <1>2, <1>3, <1>4, <1>5, <1>6 DEF Apply

LEMMA OutsideImplements ==
    ASSUME Setting, IInv, Outside
    PROVE  [Log!Next]_(Log!vars)
<1> USE DEF Log!vars, Log!Next, Open
<1>0. NoRec \notin Transaction /\ BadRec \notin Transaction
    BY RecordAssumption
<1>1. CASE EditFile \/ SpoilRecord \/ DeleteSpoiltRecord
    <2>1. Log!Outside
        BY <1>0, <1>1
        DEF EditFile, SpoilRecord, DeleteSpoiltRecord, proc, ghost, Log!Outside
    <2> QED BY <2>1
<1>2. CASE \/ ChangeSites \/ Break \/ Mend \/ LoseCopy
           \/ MasterDies \/ MasterStarts \/ OutsideReload
    BY <1>2
    DEF ChangeSites, Break, Mend, LoseCopy, MasterDies, MasterStarts,
        OutsideReload, proc, ghost
<1> QED BY <1>1, <1>2 DEF Outside

(***************************************************************************)
(* Apply and Reconcile together keep the promise of an undo log: the file  *)
(* is replaced only under an entry that names what was there and what goes *)
(* in, one entry at a time, and nothing else is ever put back.             *)
(***************************************************************************)
THEOREM TxnImplementsUndoLog ==
    ASSUME Setting
    PROVE  Spec => ImplementsUndoLog
<1>1. Init => Log!Init
    BY RecordAssumption DEF Init, Log!Init, Open, Content
<1>2. ASSUME IInv, [Next]_vars PROVE [Log!Next]_(Log!vars)
    <2> USE <1>2
    <2>1. CASE BeginRun \/ Unsettle \/ UNCHANGED vars
        BY <2>1
        DEF BeginRun, Unsettle, Goto, vars, proc, ghost, Log!vars, Open
    <2>2. CASE Abandon
        <3>1. Log!LeaveOut
            BY <2>2 DEF Abandon, Stop, ghost, Log!LeaveOut, Open
        <3> QED BY <3>1 DEF Log!Next
    <2> QED
        BY <2>1, <2>2, ReconcileImplements, ApplyImplements, OutsideImplements
        DEF Next
<1> QED
    BY <1>1, <1>2, IInvHolds, PTL DEF Spec, ImplementsUndoLog, Log!Spec

-----------------------------------------------------------------------------
(* What the master runs.                                                   *)

(* Nobody reloads or starts php-fpm while a run is at work. *)
Undisturbed == Setting /\ "start" \notin Racing /\ "reload" \notin Racing

(* It has read what the operator wrote last. *)
InStep == up /\ ~dirty

(* The tool went back, or takes its own file out, from one php-fpm rejects. *)
GoingBack == {"undo", "putBack", "undone", "remove", "recheck", "reinstate"}

(* A running master that is in step accepts the file, and runs it, or what
   was there before a change that has not been signalled yet. *)
MasterFollows ==
    /\ pc # "idle" /\ pid # "current" => ~up
    /\ pc = "takeOut" => ~up
    /\ pc \in GoingBack => ~InStep
    /\ InStep =>
        /\ Loads(runs) /\ Loads(file)
        /\ pc \in {"backup", "record", "live"} => Loads(next)
        /\ rec = NoRec => runs = file
        /\ Open => runs = file \/ (Landed /\ runs = pre)
        /\ pc \in {"live", "validate", "mark", "signal", "restore"} => runs = pre
        /\ pc \in {"watch", "settle", "discard", "commit"} => runs = file

LEMMA ReconcileFollows ==
    ASSUME Undisturbed, IInv, MasterFollows, Reconcile
    PROVE  MasterFollows'
<1> USE DEF MasterFollows, InStep, GoingBack, Loads, Landed, Open
<1>0. NoRec \notin Transaction /\ BadRec \notin Transaction
    BY RecordAssumption
<1>1. CASE LookUnusable BY <1>0, <1>1 DEF LookUnusable, Stop, host, ghost
<1>2. CASE LookNothing BY <1>0, <1>2 DEF LookNothing, Goto, host, ghost
<1>3. CASE LookNotLanded BY <1>3 DEF LookNotLanded, Goto, Stop, host, ghost
<1>4. CASE LookLanded BY <1>4 DEF LookLanded, Goto, host, ghost
<1>5. CASE Repair BY <1>5 DEF Repair, Goto, Settled, host, ghost
<1>6. CASE Undo BY <1>6 DEF Undo, Goto, Stop, host, ghost
<1>7. CASE Remove BY <1>7 DEF Remove, Goto, Stop, host, ghost
<1>8. CASE Recheck BY <1>8 DEF Recheck, Goto, Settled, host, ghost
<1>9. CASE Reinstate BY <1>9 DEF Reinstate, Stop, host, ghost
<1>10. CASE PutBack BY <1>10 DEF PutBack, Goto, Stop, host, ghost
<1>11. CASE Undone BY <1>11 DEF Undone, Goto, Stop, host, ghost
<1>12. CASE Finish
    <2>1. Open BY <1>12 DEF Finish, IInv, RecInv, RecordFollowsSteps
    <2>2. CASE pid = "none" /\ UNCHANGED <<host, ghost>>
        BY <1>12, <2>1, <2>2 DEF Finish, Goto, Stop, host, ghost
    <2>3. CASE Deliver /\ Goto("watch")
        BY <1>0, <1>12, <2>1, <2>3 DEF Finish, Deliver, Goto
    <2>4. CASE Undeliverable /\ Goto("takeOut")
        BY <1>12, <2>4 DEF Finish, Undeliverable, Goto, host, ghost
    <2> QED BY <1>12, <2>2, <2>3, <2>4 DEF Finish
<1>13. CASE Watch BY <1>13 DEF Watch, SeenAlive, SeenDead, Goto, host, ghost
<1>14. CASE TakeOut BY <1>14 DEF TakeOut, Stop, host, ghost
<1>15. CASE Discard
    BY <1>15, <1>0, ClearIsSure DEF Discard, Goto, host, ghost, Undisturbed, Setting
<1>16. CASE Sweep BY <1>16 DEF Sweep, Settled, host, ghost
<1> QED
    BY <1>1, <1>2, <1>3, <1>4, <1>5, <1>6, <1>7, <1>8, <1>9, <1>10, <1>11,
       <1>12, <1>13, <1>14, <1>15, <1>16
    DEF Reconcile

LEMMA ApplyFollows ==
    ASSUME Undisturbed, IInv, MasterFollows, Apply
    PROVE  MasterFollows'
<1> USE DEF MasterFollows, InStep, GoingBack, Loads, Landed, Open
<1>0. NoRec \notin Transaction /\ BadRec \notin Transaction
    BY RecordAssumption
<1>c. pc \in {"live", "validate", "mark", "signal", "settle", "restore", "commit"}
        => Open /\ rec.wrote = next /\ pre = old
    BY DEF IInv, RecInv, Sound, ChangeIsRecorded, MemoryFollowsDisk
<1>1. CASE Decline BY <1>1 DEF Decline, Stop, host, ghost
<1>2. CASE Plan BY <1>2 DEF Plan, Goto, host, ghost
<1>3. CASE Backup BY <1>3 DEF Backup, Goto, Stop, host, ghost
<1>4. CASE Record
    <2>1. next \in Ours /\ rec = NoRec /\ old = file /\ "written" \in Phases
        BY <1>4
        DEF Record, IInv, RecInv, Sound, Rendered, RecordFollowsSteps,
            MemoryFollowsDisk, Phases
    <2>2. pc = "record" /\ file' = file /\ UNCHANGED host
        BY <1>4, <2>1 DEF Record
    <2>3. CASE WriteTransaction("written") /\ Goto("live") /\ UNCHANGED <<next, pid>>
        BY <1>0, <1>4, WritesRecord, <2>1, <2>2, <2>3 DEF Goto, host
    <2>4. CASE WriteTransaction("written") /\ Stop(TRUE)
        BY <1>0, <1>4, WritesRecord, <2>1, <2>2, <2>4 DEF Stop, host
    <2>5. CASE UNCHANGED rec /\ Stop(TRUE)
        BY <1>0, <1>4, <2>1, <2>2, <2>5 DEF Stop, host
    <2> QED BY <1>4, <2>3, <2>4, <2>5 DEF Record
<1>5. CASE Live BY <1>0, <1>5, <1>c DEF Live, Goto, Stop, host, ghost
<1>6. CASE Validate BY <1>6, <1>c DEF Validate, Goto, host, ghost
<1>7. CASE MarkSignalled
    <2>1. next \in Ours /\ Open /\ "signalled" \in Phases
        BY <1>7, <1>c DEF MarkSignalled, IInv, Rendered, Phases
    <2>2. Open' /\ rec' # NoRec /\ rec'.wrote = rec.wrote /\ UNCHANGED ghost
        BY <1>0, <1>7, <1>c, WritesRecord, <2>1 DEF MarkSignalled
    <2> QED BY <1>7, <2>1, <2>2 DEF MarkSignalled, Goto, host, ghost
<1>8. CASE Signal
    <2>1. CASE Deliver /\ Goto("settle")
        BY <1>0, <1>8, <1>c, <2>1 DEF Signal, Deliver, Goto
    <2>2. CASE Undeliverable /\ Goto("restore")
        BY <1>8, <1>c, <2>2 DEF Signal, Undeliverable, Goto, host, ghost
    <2> QED BY <1>8, <2>1, <2>2 DEF Signal
<1>9. CASE Settle
    BY <1>9, <1>c DEF Settle, SeenAlive, SeenDead, Goto, host, ghost
<1>10. CASE Restore BY <1>10, <1>c DEF Restore, Goto, Stop, host, ghost
<1>11. CASE Commit
    BY <1>0, <1>11, ClearIsSure DEF Commit, Goto, host, ghost, Undisturbed, Setting
<1>12. CASE Unlink BY <1>12 DEF Unlink, Stop, host, ghost
<1> QED
    BY <1>1, <1>2, <1>3, <1>4, <1>5, <1>6, <1>7, <1>8, <1>9, <1>10, <1>11, <1>12
    DEF Apply

LEMMA OutsideFollows ==
    ASSUME Undisturbed, IInv, MasterFollows, Outside
    PROVE  MasterFollows'
<1> USE DEF MasterFollows, InStep, GoingBack, Loads, Landed, Open
<1>0. NoRec \notin Transaction /\ BadRec \notin Transaction
    BY RecordAssumption
<1>1. CASE EditFile
    BY <1>1 DEF EditFile, MayAct, Undisturbed, Setting, proc
<1>2. CASE LoseCopy \/ SpoilRecord \/ DeleteSpoiltRecord
    BY <1>0, <1>2, RecordAssumption
    DEF LoseCopy, SpoilRecord, DeleteSpoiltRecord, host, proc, ghost
<1>3. CASE ChangeSites \/ Break \/ Mend
    BY <1>3 DEF ChangeSites, Break, Mend, proc, ghost
<1>4. CASE MasterDies
    BY <1>4 DEF MasterDies, ghost
<1>5. CASE MasterStarts
    BY <1>5 DEF MasterStarts, MayAct, Undisturbed, proc, ghost
<1>6. CASE OutsideReload
    BY <1>6 DEF OutsideReload, MayAct, Undisturbed, ghost
<1> QED BY <1>1, <1>2, <1>3, <1>4, <1>5, <1>6 DEF Outside

LEMMA MasterFollowsHolds ==
    ASSUME Undisturbed
    PROVE  Spec => []MasterFollows
<1>1. Init => MasterFollows
    BY RecordAssumption, MarksDiffer
    DEF Init, MasterFollows, InStep, GoingBack, Loads, Accepts, Sections, Open
<1>2. ASSUME IInv, MasterFollows, [Next]_vars
      PROVE  MasterFollows'
    <2> USE <1>2
    <2>1. CASE BeginRun \/ Unsettle
        BY <2>1
        DEF BeginRun, Unsettle, Goto, IInv, MasterFollows, InStep, GoingBack,
            Loads, Landed, Open, host, ghost
    <2>2. CASE Abandon
        BY <2>2
        DEF Abandon, Stop, MasterFollows, InStep, GoingBack, Loads, Landed, Open,
            host, ghost
    <2>3. CASE UNCHANGED vars
        BY <2>3
        DEF vars, host, proc, ghost, MasterFollows, InStep, GoingBack, Loads,
            Landed, Open
    <2> QED
        BY <2>1, <2>2, <2>3, ReconcileFollows, ApplyFollows, OutsideFollows DEF Next
<1>3. Setting BY DEF Undisturbed
<1> QED BY <1>1, <1>2, <1>3, IInvHolds, PTL DEF Spec

(***************************************************************************)
(* Between runs, with nothing in flight, a running master that has read    *)
(* what the operator wrote runs the file that is on disk, whatever writes, *)
(* checks, reloads and rollbacks failed before.                            *)
(***************************************************************************)
THEOREM MasterAgrees ==
    ASSUME Undisturbed
    PROVE  Spec => []Agreement
<1>1. MasterFollows => Agreement BY DEF MasterFollows, Agreement, InStep
<1> QED BY <1>1, MasterFollowsHolds, PTL

-----------------------------------------------------------------------------
(* Delivery and survival.                                                  *)

(* A change about to be closed in place was not signalled, or survived. *)
SurvivalFollows ==
    /\ pc \in {"live", "validate", "mark", "signal"} => ~told
    /\ pc = "undone" => file = pre
    /\ pc = "recheck" => file = None
    /\ /\ pc \in {"discard", "commit"} /\ rec.phase = "signalled" /\ told
       /\ Landed
       => file = pre \/ survived

LEMMA SurvivalStep ==
    ASSUME Setting, IInv, SurvivalFollows, [Next]_vars
    PROVE  SurvivalFollows'
<1> USE DEF SurvivalFollows, Landed
<1>0. NoRec \notin Transaction /\ BadRec \notin Transaction
    BY RecordAssumption
<1>c. pc \in {"live", "validate", "mark", "signal", "settle", "restore", "commit"}
        => Open /\ rec.wrote = next /\ pre = old
    BY DEF IInv, RecInv, Sound, ChangeIsRecorded, MemoryFollowsDisk
<1>1. CASE BeginRun \/ Unsettle \/ Abandon \/ UNCHANGED vars
    BY <1>1 DEF BeginRun, Unsettle, Abandon, Goto, Stop, IInv, vars, proc, ghost
<1>2. CASE Reconcile
    <2>1. CASE \/ LookUnusable \/ LookNothing \/ LookNotLanded \/ LookLanded
               \/ Repair \/ Undo \/ Remove \/ Recheck \/ Reinstate \/ TakeOut
               \/ Discard \/ Sweep
        BY <2>1
        DEF LookUnusable, LookNothing, LookNotLanded, LookLanded, Repair, Undo,
            Remove, Recheck, Reinstate, TakeOut, Discard, Sweep, Goto, Stop,
            Settled, ghost
    <2>2. CASE PutBack \/ Undone
        BY <2>2 DEF PutBack, Undone, Goto, Stop, ghost, IInv, Sound, MemoryFollowsDisk
    <2>3. CASE Finish \/ Watch
        BY <2>3
        DEF Finish, Deliver, Undeliverable, Watch, SeenAlive, SeenDead, Goto, Stop,
            ghost
    <2> QED BY <1>2, <2>1, <2>2, <2>3 DEF Reconcile
<1>3. CASE Apply
    <2>1. CASE Record
        <3>1. ~Open BY <1>0, <2>1 DEF Record, IInv, RecInv, RecordFollowsSteps, Open
        <3> QED BY <2>1, <3>1 DEF Record, WriteTransaction, Goto, Stop
    <2>2. CASE MarkSignalled
        BY <1>c, <2>2 DEF MarkSignalled, WriteTransaction, Goto, ghost
    <2>3. CASE Signal \/ Settle \/ Restore
        BY <1>c, <2>3
        DEF Signal, Deliver, Undeliverable, Settle, SeenAlive, SeenDead, Restore,
            Goto, Stop, ghost
    <2>4. CASE Decline \/ Plan \/ Backup \/ Live \/ Validate \/ Commit \/ Unlink
        BY <2>4
        DEF Decline, Plan, Backup, Live, Validate, Commit, Unlink, Goto, Stop, ghost
    <2> QED BY <1>3, <2>1, <2>2, <2>3, <2>4 DEF Apply
<1>4. CASE Outside
    BY <1>4
    DEF Outside, ChangeSites, Break, Mend, EditFile, LoseCopy, SpoilRecord,
        DeleteSpoiltRecord, MasterDies, MasterStarts, OutsideReload, MayAct,
        Setting, proc, ghost
<1> QED BY <1>1, <1>2, <1>3, <1>4 DEF Next

(***************************************************************************)
(* A change that was signalled is closed in place only on the evidence     *)
(* that the master lives, also when a run was killed in its settle window  *)
(* and another one finishes it, and with reloads and restarts from outside *)
(* at any step.                                                            *)
(***************************************************************************)
THEOREM SurvivalNeeded ==
    ASSUME Setting
    PROVE  Spec => SignalledNeedsSurvival
<1> DEFINE Needed == /\ Open /\ rec.phase = "signalled" /\ told
                     /\ rec' = NoRec
                     /\ file = rec.wrote /\ file # pre
                     => survived
<1>1. Init => SurvivalFollows
    BY DEF Init, SurvivalFollows
<1>2. ASSUME IInv, SurvivalFollows, [Next]_vars
      PROVE  [Needed]_vars
    <2> SUFFICES ASSUME Open, rec' = NoRec, told, rec.phase = "signalled",
                        file = rec.wrote, file # pre
                 PROVE  survived
        BY DEF Needed
    <2> USE DEF SurvivalFollows, Landed
    <2>0. rec \in Transaction /\ rec # NoRec /\ rec # BadRec /\ rec.wrote # None
        BY RecordAssumption, MarksDiffer DEF Open, Transaction
    <2>1. CASE Commit \/ Discard
        BY <1>2, <2>1 DEF Commit, Discard
    <2>2. CASE Recheck BY <1>2, <2>0, <2>2 DEF Recheck
    <2>3. CASE Live BY <1>2, <2>3 DEF Live
    <2>4. CASE Record \/ MarkSignalled
        BY <1>2, <2>0, <2>4, RecordAssumption
        DEF Record, MarkSignalled, WriteTransaction, IInv, RecInv, RecordFollowsSteps
    <2>5. CASE Reconcile /\ ~Recheck /\ ~Discard
        BY <2>0, <2>5
        DEF Reconcile, LookUnusable, LookNothing, LookNotLanded, LookLanded, Repair,
            Undo, Remove, Reinstate, PutBack, Undone, Finish, Watch, TakeOut, Sweep
    <2>6. CASE Apply /\ ~Live /\ ~Record /\ ~MarkSignalled /\ ~Commit
        BY <2>0, <2>6
        DEF Apply, Decline, Plan, Backup, Validate, Signal, Settle, Restore, Unlink
    <2>7. CASE Outside
        BY <2>0, <2>7, RecordAssumption
        DEF Outside, ChangeSites, Break, Mend, EditFile, LoseCopy, SpoilRecord,
            DeleteSpoiltRecord, MasterDies, MasterStarts, OutsideReload
    <2>8. CASE BeginRun \/ Unsettle \/ Abandon \/ UNCHANGED vars
        BY <2>0, <2>8 DEF BeginRun, Unsettle, Abandon, vars
    <2> QED BY <1>2, <2>1, <2>2, <2>3, <2>4, <2>5, <2>6, <2>7, <2>8 DEF Next
<1>3. ASSUME IInv, SurvivalFollows, [Next]_vars PROVE SurvivalFollows'
    BY <1>3, SurvivalStep
<1>4. []IInv /\ []SurvivalFollows /\ [][Next]_vars => [][Needed]_vars
    BY <1>2, PTL
<1> QED BY <1>1, <1>3, <1>4, IInvHolds, PTL DEF Spec, SignalledNeedsSurvival
=============================================================================
