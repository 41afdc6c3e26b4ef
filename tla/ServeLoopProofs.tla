-------------------------- MODULE ServeLoopProofs ---------------------------
(***************************************************************************)
(* The locks do their work, for any number of directories, state files and *)
(* commands, however often processes die and the master moves.  Three      *)
(* inductive invariants, each with its lemmas, one case per action:        *)
(*   IInv      the pool directories: whoever works in one holds its lock,  *)
(*             and nobody writes over a record somebody else left open;    *)
(*   CopyInv   the state files: a copy is loaded under the lock beside it; *)
(*   WatchInv  what a daemon may still hold when its round is over.        *)
(***************************************************************************)
EXTENDS ServeLoop, TLAPS

Shapes ==
    /\ dir \in Dirs /\ notes \subseteq Dirs
    /\ known \in [Stores \cup {Serve} -> Dirs \cup {None}]
    /\ record \in [Dirs -> {None, "open"} \cup Procs]
    /\ dirLock \in [Dirs -> Procs \cup {None}]
    /\ pc \in [Procs -> Steps] /\ target \in [Procs -> Dirs \cup {None}]
    /\ reconciled \in BOOLEAN

(* From finding a directory to leaving it, its lock is held. *)
Inside(p) ==
    pc[p] \in {"repair", "write", "writing", "enable"} \cup
              (IF p = Serve THEN {} ELSE {"gather"})

InsideIsLocked ==
    \A p \in Procs : Inside(p) => target[p] \in Dirs /\ dirLock[target[p]] = p

(* The daemon moves from one directory to the next. *)
OneDirectory ==
    \A d, e \in Dirs : dirLock[d] = Serve /\ dirLock[e] = Serve => d = e

(* What the flag stands for. *)
ReconciledIsRead ==
    reconciled =>
        /\ pc[Serve] \notin {"reconcile", "repair"}
        /\ \E d \in Dirs : /\ dirLock[d] = Serve
                           /\ record[d] \in {None, Serve} \/ At(Serve, "writing")

(* A command has read the directory from its repair to its write. *)
RepairedIsRead ==
    \A c \in Applies : pc[c] \in {"gather", "write"} => record[target[c]] \in {None, c}

IInv ==
    /\ Shapes /\ InsideIsLocked /\ OneDirectory
    /\ ReconciledIsRead /\ RepairedIsRead
    /\ NothingUnreadIsWrittenOver

LEMMA InitIsSound == Init => IInv
BY ProcessAssumption
DEF Init, IInv, Shapes, Inside, InsideIsLocked, OneDirectory, ReconciledIsRead,
    RepairedIsRead, NothingUnreadIsWrittenOver, At, Steps, Procs, Writers

LEMMA RoundIsSound ==
    ASSUME IInv, Round
    PROVE  IInv'
<1> USE ProcessAssumption
    DEF IInv, Shapes, Inside, InsideIsLocked, OneDirectory, ReconciledIsRead,
        RepairedIsRead, NothingUnreadIsWrittenOver, At, Goto, Steps, Procs,
        Writers, host, memory, daemon, EndRound
<1>1. CASE Tick BY <1>1 DEF Tick, FirstStep
<1>2. CASE TakeRequest BY <1>2 DEF TakeRequest, FirstStep
<1>3. CASE NoMasterToReconcile BY <1>3 DEF NoMasterToReconcile
<1>4. CASE FindMaster BY <1>4 DEF FindMaster, HoldResource, Available, Taken, Released, Findable
<1>5. CASE Repaired BY <1>5 DEF Repaired
<1>6. CASE NotRepaired BY <1>6 DEF NotRepaired, Released
<1>7. CASE DiscoveryFails BY <1>7 DEF DiscoveryFails
<1>8. CASE NoTargets BY <1>8 DEF NoTargets
<1>9. CASE Look
    <2>1. /\ At(Serve, "look")
          /\ \E step \in {"plan", "saveLast"} : pc' = [pc EXCEPT ![Serve] = step]
          /\ UNCHANGED <<host, memory, record, dirLock, target>>
        BY <1>9 DEF Look
    <2>2. reconciled' = reconciled \/ reconciled' = FALSE
        BY ONLY Zenon, Look DEF Look, NoteUntracked
    <2>3. PICK step \in {"plan", "saveLast"} : pc' = [pc EXCEPT ![Serve] = step]
        BY <2>1
    <2>4. Shapes' BY <2>1, <2>2, <2>3
    <2>5. InsideIsLocked' /\ OneDirectory' BY <2>1, <2>3
    <2>6. ReconciledIsRead' BY <2>1, <2>2, <2>3
    <2>7. RepairedIsRead' BY <2>1, <2>3
    <2>8. NothingUnreadIsWrittenOver' BY <2>1, <2>3
    <2> QED BY <2>4, <2>5, <2>6, <2>7, <2>8
<1>10. CASE NotApplying BY <1>10 DEF NotApplying
<1>11. CASE MasterLost BY <1>11 DEF MasterLost, Refuse
<1>12. CASE DirectoryMoved BY <1>12 DEF DirectoryMoved, HoldResource, Available, Taken, Released, Refuse, Holds
<1>13. CASE BudgetUnconfirmed BY <1>13 DEF BudgetUnconfirmed, ReleaseResource, Released, Refuse, Holds
<1>14. CASE GoAhead BY <1>14 DEF GoAhead, HoldResource, Available, Taken, Released
<1>15. CASE Writing(Serve)
    <2> USE DEF Report, AfterApply
    <2>1. CASE ApplyNothing(Serve) BY <2>1 DEF ApplyNothing
    <2>2. CASE BeginWrite(Serve) BY <2>2 DEF BeginWrite
    <2>3. CASE Adopted(Serve) BY <2>3 DEF Adopted
    <2>4. CASE Inconclusive(Serve) BY <2>4 DEF Inconclusive
    <2>5. CASE ApplyFails(Serve) BY <2>5 DEF ApplyFails
    <2> QED BY <1>15, <2>1, <2>2, <2>3, <2>4, <2>5 DEF Writing
<1>16. CASE SaveForced BY <1>16 DEF SaveForced, Naming
<1>17. CASE Save BY <1>17 DEF Save, Naming
<1>18. CASE Reply
    <2>1. CASE mode BY <1>18, <2>1 DEF Reply
    <2>2. CASE ~mode
        <3>1. dirLock' = Released(dirLock, Serve) /\ reconciled' = FALSE
            BY <1>18, <2>2 DEF Reply, ReleaseResource, Holds
        <3>2. /\ pc' = [pc EXCEPT ![Serve] = "idle"] /\ pc[Serve] = "reply"
              /\ UNCHANGED <<host, memory, record, target>>
            BY <1>18 DEF Reply
        <3> QED BY <3>1, <3>2 DEF Released
    <2> QED BY <2>1, <2>2
<1> QED BY <1>1, <1>2, <1>3, <1>4, <1>5, <1>6, <1>7, <1>8, <1>9, <1>10, <1>11, <1>12, <1>13, <1>14, <1>15, <1>16, <1>17, <1>18 DEF Round

LEMMA OneShotIsSound ==
    ASSUME IInv, NEW c \in Applies \cup Enablers, OneShot(c)
    PROVE  IInv'
<1> USE ProcessAssumption
    DEF IInv, Shapes, Inside, InsideIsLocked, OneDirectory, ReconciledIsRead,
        RepairedIsRead, NothingUnreadIsWrittenOver, At, Goto, Steps, Procs,
        Writers, host, memory, daemon
<1>1. CASE FindAndLock(c)
    BY <1>1 DEF FindAndLock, Findable, Available, Taken, Released, Exit
<1>2. CASE FindNothing(c) BY <1>2 DEF FindNothing, Released, Exit
<1>3. CASE ApplyRepairs(c) BY <1>3 DEF ApplyRepairs, Released, Exit
<1>4. CASE Gather(c) BY <1>4 DEF Gather, Released, Exit
<1>5. CASE Writing(c)
    <2> USE DEF Report, AfterApply
    <2>1. CASE ApplyNothing(c) BY <2>1 DEF ApplyNothing, Released, Exit
    <2>2. CASE BeginWrite(c) BY <2>2 DEF BeginWrite
    <2>3. CASE Adopted(c) BY <2>3 DEF Adopted
    <2>4. CASE Inconclusive(c) BY <2>4 DEF Inconclusive
    <2>5. CASE ApplyFails(c) BY <2>5 DEF ApplyFails, Released, Exit
    <2> QED BY <1>5, <2>1, <2>2, <2>3, <2>4, <2>5 DEF Writing
<1>6. CASE ApplySaves(c) BY <1>6 DEF ApplySaves, Naming, Released
<1>7. CASE Dismiss(c) BY <1>7 DEF Dismiss
<1>8. CASE Enable(c) BY <1>8 DEF Enable, Released, Exit
<1> QED BY <1>1, <1>2, <1>3, <1>4, <1>5, <1>6, <1>7, <1>8 DEF OneShot

LEMMA OutsideIsSound ==
    ASSUME IInv, Outside
    PROVE  IInv'
<1> USE ProcessAssumption
    DEF IInv, Shapes, Inside, InsideIsLocked, OneDirectory, ReconciledIsRead,
        RepairedIsRead, NothingUnreadIsWrittenOver, At, Goto, Steps, Procs,
        Writers, host, memory, daemon
<1>1. ASSUME NEW c \in Applies, StartApply(c) PROVE IInv'
    BY <1>1 DEF StartApply
<1>2. ASSUME NEW c \in Enablers, StartEnable(c) PROVE IInv'
    BY <1>2 DEF StartEnable
<1>3. ASSUME NEW p \in Procs, Dies(p) PROVE IInv'
    <2>1. CASE p = Serve BY <1>3, <2>1 DEF Dies, Exit, Released
    <2>2. CASE p # Serve BY <1>3, <2>2 DEF Dies, Exit, Released
    <2> QED BY <2>1, <2>2
<1>4. CASE Ask BY <1>4 DEF Ask
<1>5. CASE GiveUp BY <1>5 DEF GiveUp
<1>6. CASE HostChanges BY <1>6 DEF HostChanges
<1>7. CASE MasterStarts BY <1>7 DEF MasterStarts
<1> QED BY <1>1, <1>2, <1>3, <1>4, <1>5, <1>6, <1>7 DEF Outside

LEMMA StepIsSound ==
    ASSUME IInv, [Next]_vars
    PROVE  IInv'
<1>1. CASE StartServe
    BY <1>1, ProcessAssumption
    DEF IInv, Shapes, Inside, InsideIsLocked, OneDirectory, ReconciledIsRead,
        RepairedIsRead, NothingUnreadIsWrittenOver, At, Goto, Steps, Procs,
        Writers, host, StartServe
<1>2. CASE UNCHANGED vars
    BY <1>2
    DEF IInv, Shapes, Inside, InsideIsLocked, OneDirectory, ReconciledIsRead,
        RepairedIsRead, NothingUnreadIsWrittenOver, At, vars, host, memory,
        daemon
<1> QED BY <1>1, <1>2, RoundIsSound, OneShotIsSound, OutsideIsSound DEF Next

(***************************************************************************)
(* Whatever happens in between, IInv holds in every reachable state.       *)
(***************************************************************************)
THEOREM LocksAreSound == Spec => []IInv
<1>1. Init => IInv BY InitIsSound
<1>2. IInv /\ [Next]_vars => IInv' BY StepIsSound
<1> QED BY <1>1, <1>2, PTL DEF Spec

(***************************************************************************)
(* A process that repairs, writes or reloads in a pool directory holds the *)
(* lock on that very directory, wherever an upgrade has moved the master   *)
(* meanwhile.  (holdResource, runApply, runEnableStatus)                   *)
(***************************************************************************)
THEOREM WritesLocked == Spec => []WritesUnderItsLock
<1>1. IInv => WritesUnderItsLock
    BY DEF IInv, InsideIsLocked, Inside, WritesUnderItsLock
<1> QED BY <1>1, LocksAreSound, PTL

(***************************************************************************)
(* Apply is never started over a record another process has left open,     *)
(* however the locks were given up and taken again in between.             *)
(* (reconciled, releaseResource, holdResource)                             *)
(***************************************************************************)
THEOREM NothingUnread == Spec => []NothingUnreadIsWrittenOver
<1>1. IInv => NothingUnreadIsWrittenOver BY DEF IInv
<1> QED BY <1>1, LocksAreSound, PTL

-----------------------------------------------------------------------------
(* The learned state: whoever has it loaded holds the lock beside its file. *)

CopyShapes ==
    /\ stateLock \in [Stores -> Procs \cup {None}]
    /\ pc \in [Procs -> Steps] /\ fresh \in [Procs -> BOOLEAN]
    /\ pc[Serve] # "refused"

LoadedIsLocked ==
    \A p \in Writers : pc[p] \notin {"off", "refused"} => stateLock[StoreOf[p]] = p

(* enable-status loads no state. *)
EnablersOnlyEnable ==
    \A c \in Enablers : pc[c] \in {"off", "find", "enable", "refused"}

CopyInv ==
    CopyShapes /\ LoadedIsLocked /\ EnablersOnlyEnable /\ CopiesAreFresh

LEMMA CopiesStart == Init => CopyInv
BY ProcessAssumption
DEF Init, CopyInv, CopyShapes, LoadedIsLocked, EnablersOnlyEnable,
    CopiesAreFresh, At, Steps, Procs, Writers

LEMMA LeavingKeepsCopies ==
    ASSUME CopyInv, NEW p \in Procs, NEW step \in {"off", "refused"},
           p = Serve => step = "off", Goto(p, step), Exit(p)
    PROVE  CopyInv'
<1> USE ProcessAssumption
    DEF CopyInv, CopyShapes, LoadedIsLocked, EnablersOnlyEnable, CopiesAreFresh,
        At, Goto, Steps, Procs, Writers, Exit
<1>1. CopyShapes' BY DEF Released
<1>2. LoadedIsLocked'
    <2> SUFFICES ASSUME NEW q \in Writers, pc'[q] \notin {"off", "refused"}
                 PROVE  stateLock'[StoreOf[q]] = q
        OBVIOUS
    <2>1. q # p /\ stateLock[StoreOf[q]] = q OBVIOUS
    <2>2. StoreOf[q] \in Stores OBVIOUS
    <2> QED BY <2>1, <2>2 DEF Released
<1>3. EnablersOnlyEnable' OBVIOUS
<1>4. CopiesAreFresh' OBVIOUS
<1> QED BY <1>1, <1>2, <1>3, <1>4

LEMMA MovingKeepsCopies ==
    ASSUME CopyInv, NEW p \in Procs, NEW step \in Steps,
           pc[p] \notin {"off", "refused"}, Goto(p, step),
           p \in Enablers => step = "enable",
           p \in Applies /\ step \in {"write", "writing", "saveLast"} => fresh[p],
           p = Serve => step # "refused", UNCHANGED <<stateLock, fresh>>
    PROVE  CopyInv'
BY ProcessAssumption
DEF CopyInv, CopyShapes, LoadedIsLocked, EnablersOnlyEnable, CopiesAreFresh,
    At, Goto, Steps, Procs, Writers

LEMMA RoundKeepsCopies ==
    ASSUME CopyInv, Round
    PROVE  CopyInv'
<1> USE ProcessAssumption
    DEF CopyInv, CopyShapes, LoadedIsLocked, EnablersOnlyEnable, CopiesAreFresh,
        At, Goto, Steps, Procs, Writers, EndRound
<1>1. CASE Tick BY <1>1 DEF Tick, FirstStep
<1>2. CASE TakeRequest BY <1>2 DEF TakeRequest, FirstStep
<1>3. CASE NoMasterToReconcile BY <1>3 DEF NoMasterToReconcile
<1>4. CASE FindMaster BY <1>4 DEF FindMaster
<1>5. CASE Repaired BY <1>5 DEF Repaired
<1>6. CASE NotRepaired BY <1>6 DEF NotRepaired
<1>7. CASE DiscoveryFails BY <1>7 DEF DiscoveryFails
<1>8. CASE NoTargets BY <1>8 DEF NoTargets
<1>9. CASE Look BY <1>9 DEF Look
<1>10. CASE NotApplying BY <1>10 DEF NotApplying
<1>11. CASE MasterLost BY <1>11 DEF MasterLost, Refuse
<1>12. CASE DirectoryMoved BY <1>12 DEF DirectoryMoved, Refuse
<1>13. CASE BudgetUnconfirmed BY <1>13 DEF BudgetUnconfirmed, Refuse
<1>14. CASE GoAhead BY <1>14 DEF GoAhead
<1>15. CASE Writing(Serve)
    <2> USE DEF AfterApply
    <2>1. CASE ApplyNothing(Serve)
        <3>1. /\ At(Serve, "write") /\ UNCHANGED <<stateLock, fresh>>
              /\ pc' = [pc EXCEPT ![Serve] = "save"]
            BY <2>1 DEF ApplyNothing
        <3> QED BY <3>1, MovingKeepsCopies
    <2>2. CASE BeginWrite(Serve) BY <2>2 DEF BeginWrite
    <2>3. CASE Adopted(Serve) BY <2>3 DEF Adopted
    <2>4. CASE Inconclusive(Serve) BY <2>4 DEF Inconclusive
    <2>5. CASE ApplyFails(Serve) BY <2>5 DEF ApplyFails
    <2> QED BY <1>15, <2>1, <2>2, <2>3, <2>4, <2>5 DEF Writing
<1>16. CASE SaveForced
    <2>1. /\ ~At(Serve, "off") /\ UNCHANGED stateLock
          /\ \E step \in {"save", "reply", "idle"} : pc' = [pc EXCEPT ![Serve] = step]
        BY <1>16 DEF SaveForced
    <2>2. CASE UNCHANGED fresh BY <2>1, <2>2, MovingKeepsCopies
    <2>3. CASE SavedBy(Serve) BY <2>1, <2>3 DEF SavedBy
    <2> QED BY <1>16, <2>2, <2>3 DEF SaveForced
<1>17. CASE Save BY <1>17 DEF Save, SavedBy
<1>18. CASE Reply BY <1>18 DEF Reply
<1> QED BY <1>1, <1>2, <1>3, <1>4, <1>5, <1>6, <1>7, <1>8, <1>9, <1>10, <1>11, <1>12, <1>13, <1>14, <1>15, <1>16, <1>17, <1>18 DEF Round

LEMMA OneShotKeepsCopies ==
    ASSUME CopyInv, NEW c \in Applies \cup Enablers, OneShot(c)
    PROVE  CopyInv'
<1> USE ProcessAssumption
    DEF CopyInv, CopyShapes, LoadedIsLocked, EnablersOnlyEnable, CopiesAreFresh,
        At, Goto, Steps, Procs, Writers
<1>1. CASE FindAndLock(c)
    <2>1. At(c, "find") /\ \/ Goto(c, "refused") /\ Exit(c)
                           \/ /\ Goto(c, IF c \in Enablers THEN "enable" ELSE "repair")
                              /\ UNCHANGED <<stateLock, fresh>>
        BY <1>1 DEF FindAndLock
    <2>2. CASE Goto(c, "refused") /\ Exit(c) BY <2>2, LeavingKeepsCopies
    <2>3. CASE /\ Goto(c, IF c \in Enablers THEN "enable" ELSE "repair")
               /\ UNCHANGED <<stateLock, fresh>>
        BY <2>1, <2>3, MovingKeepsCopies
    <2> QED BY <2>1, <2>2, <2>3
<1>2. CASE FindNothing(c) BY <1>2, LeavingKeepsCopies DEF FindNothing
<1>3. CASE ApplyRepairs(c)
    <2>1. /\ At(c, "repair") /\ c \in Applies
          /\ \/ Goto(c, "off") /\ Exit(c)
             \/ Goto(c, "gather") /\ UNCHANGED <<stateLock, fresh>>
        BY <1>3 DEF ApplyRepairs
    <2>2. CASE Goto(c, "off") /\ Exit(c) BY <2>2, LeavingKeepsCopies
    <2>3. CASE Goto(c, "gather") /\ UNCHANGED <<stateLock, fresh>>
        BY <2>1, <2>3, MovingKeepsCopies
    <2> QED BY <2>1, <2>2, <2>3
<1>4. CASE Gather(c)
    <2>1. At(c, "gather") /\ c \in Applies BY <1>4 DEF Gather
    <2>2. CASE Goto(c, "off") /\ Exit(c) BY <2>2, LeavingKeepsCopies
    <2>3. CASE ~(Goto(c, "off") /\ Exit(c))
        <3>1. /\ pc' = [pc EXCEPT ![c] = "write"] /\ UNCHANGED stateLock
              /\ fresh' = [q \in Procs |->
                        \/ q = c
                        \/ fresh[q] /\ (q \in Enablers \/ StoreOf[q] # StoreOf[c])]
            BY <1>4, <2>3 DEF Gather
        <3>2. fresh' \in [Procs -> BOOLEAN] BY <3>1
        <3>3. CopyShapes' /\ LoadedIsLocked' /\ EnablersOnlyEnable'
            BY <2>1, <3>1, <3>2
        <3>4. ASSUME NEW q \in Writers, q # c, ~At(q, "off"), ~At(q, "refused")
              PROVE  fresh'[q] = fresh[q]
            <4>1. StoreOf[q] # StoreOf[c] BY <2>1, <3>4
            <4>2. q \notin Enablers OBVIOUS
            <4> QED BY <3>1, <4>1, <4>2
        <3>5. fresh'[c] BY <3>1
        <3>6. ASSUME NEW q \in Applies, pc'[q] \in {"write", "writing", "saveLast"}
              PROVE  fresh'[q]
            <4>1. CASE q = c BY <3>5, <4>1
            <4>2. CASE q # c BY <3>1, <3>4, <3>6, <4>2
            <4> QED BY <4>1, <4>2
        <3>7. pc'[Serve] = "off" \/ fresh'[Serve]
            BY <2>1, <3>1, <3>4
        <3>8. CopiesAreFresh' BY <3>6, <3>7
        <3> QED BY <3>3, <3>8
    <2> QED BY <2>2, <2>3
<1>5. CASE Writing(c)
    <2> USE DEF AfterApply
    <2>1. CASE ApplyNothing(c)
        <3>0. At(c, "write") /\ c \in Applies BY <2>1 DEF ApplyNothing
        <3>1. \/ pc' = [pc EXCEPT ![c] = "off"] /\ Exit(c)
              \/ /\ pc' = [pc EXCEPT ![c] = "saveLast"]
                 /\ UNCHANGED <<stateLock, fresh>>
            <4>1. \/ pc' = [pc EXCEPT ![c] = "off"]
                  \/ pc' = [pc EXCEPT ![c] = "saveLast"]
                BY <2>1 DEF ApplyNothing
            <4>2. IF pc'[c] = "off" THEN Exit(c) ELSE UNCHANGED <<stateLock, fresh>>
                BY <2>1 DEF ApplyNothing
            <4> QED BY <4>1, <4>2
        <3>2. CASE pc' = [pc EXCEPT ![c] = "off"] /\ Exit(c)
            BY <3>2, LeavingKeepsCopies
        <3>3. CASE /\ pc' = [pc EXCEPT ![c] = "saveLast"]
                   /\ UNCHANGED <<stateLock, fresh>>
            BY <3>0, <3>3
        <3> QED BY <3>1, <3>2, <3>3
    <2>2. CASE BeginWrite(c) BY <2>2 DEF BeginWrite
    <2>3. CASE Adopted(c) BY <2>3 DEF Adopted
    <2>4. CASE Inconclusive(c) BY <2>4 DEF Inconclusive
    <2>5. CASE ApplyFails(c)
        <3>1. Goto(c, "off") /\ Exit(c) BY <2>5 DEF ApplyFails
        <3> QED BY <3>1, LeavingKeepsCopies
    <2> QED BY <1>5, <2>1, <2>2, <2>3, <2>4, <2>5 DEF Writing
<1>6. CASE ApplySaves(c)
    <2>1. /\ At(c, "saveLast") /\ Goto(c, "off")
          /\ stateLock' = Released(stateLock, c) /\ SavedBy(c)
        BY <1>6 DEF ApplySaves
    <2>2. CopyShapes' /\ EnablersOnlyEnable' BY <2>1 DEF SavedBy, Released
    <2>3. LoadedIsLocked' BY <2>1 DEF Released
    <2>4. ASSUME NEW q \in Writers, q # c, pc[q] \notin {"off", "refused"}
          PROVE  StoreOf[q] # StoreOf[c]
        BY <2>1, <2>4
    <2>5. ASSUME NEW q \in Writers, q # c, pc[q] \notin {"off", "refused"}
          PROVE  fresh'[q] = fresh[q]
        <3>1. StoreOf[q] # StoreOf[c] /\ q \notin Enablers BY <2>4, <2>5
        <3> QED BY <2>1, <2>5, <3>1 DEF SavedBy
    <2>6. ASSUME NEW q \in Applies, pc'[q] \in {"write", "writing", "saveLast"}
          PROVE  fresh'[q]
        BY <2>1, <2>5, <2>6
    <2>7. pc'[Serve] = "off" \/ fresh'[Serve]
        BY <2>1, <2>5
    <2>8. CopiesAreFresh' BY <2>6, <2>7
    <2> QED BY <2>2, <2>3, <2>8
<1>7. CASE Dismiss(c) BY <1>7 DEF Dismiss
<1>8. CASE Enable(c) BY <1>8 DEF Enable, Released, Exit
<1> QED BY <1>1, <1>2, <1>3, <1>4, <1>5, <1>6, <1>7, <1>8 DEF OneShot

LEMMA StepKeepsCopies ==
    ASSUME CopyInv, [Next]_vars
    PROVE  CopyInv'
<1> USE ProcessAssumption
    DEF CopyInv, CopyShapes, LoadedIsLocked, EnablersOnlyEnable, CopiesAreFresh,
        At, Goto, Steps, Procs, Writers
<1>1. CASE StartServe BY <1>1 DEF StartServe, Available, Taken
<1>2. CASE Outside
    <2>1. ASSUME NEW c \in Applies, StartApply(c) PROVE CopyInv'
        BY <2>1 DEF StartApply, Available, Taken
    <2>2. ASSUME NEW c \in Enablers, StartEnable(c) PROVE CopyInv'
        BY <2>2 DEF StartEnable
    <2>3. ASSUME NEW p \in Procs, Dies(p) PROVE CopyInv'
        BY <2>3 DEF Dies, Exit, Released
    <2>4. CASE Ask BY <2>4 DEF Ask
    <2>5. CASE GiveUp BY <2>5 DEF GiveUp
    <2>6. CASE HostChanges BY <2>6 DEF HostChanges
    <2>7. CASE MasterStarts BY <2>7 DEF MasterStarts
    <2> QED BY <1>2, <2>1, <2>2, <2>3, <2>4, <2>5, <2>6, <2>7 DEF Outside
<1>3. CASE UNCHANGED vars BY <1>3 DEF vars
<1> QED BY <1>1, <1>2, <1>3, RoundKeepsCopies, OneShotKeepsCopies DEF Next

(***************************************************************************)
(* No process saves over learning it has not read, whichever state files   *)
(* the commands name and whenever they die.  (New, runApply)               *)
(***************************************************************************)
THEOREM CopiesFresh == Spec => []CopiesAreFresh
<1>1. CopyInv => CopiesAreFresh BY DEF CopyInv
<1> QED BY <1>1, CopiesStart, StepKeepsCopies, PTL DEF Spec

-----------------------------------------------------------------------------
(* The daemon's lock between rounds.                                       *)

WatchShapes ==
    /\ dirLock \in [Dirs -> Procs \cup {None}] /\ pc \in [Procs -> Steps]
    /\ mode \in BOOLEAN /\ forced \in BOOLEAN

(* A lock is held to apply, in this round or in all of them. *)
HeldToApply == Holds(Serve) => ~At(Serve, "off") /\ Applying

AskedForMidRound == forced => pc[Serve] \notin {"off", "idle"}

ReconcilesToApply == At(Serve, "reconcile") => Applying

WatchInv == WatchShapes /\ HeldToApply /\ AskedForMidRound /\ ReconcilesToApply

LEMMA WatchStarts == Init => WatchInv
BY ProcessAssumption
DEF Init, WatchInv, WatchShapes, HeldToApply, AskedForMidRound,
    ReconcilesToApply, Holds, Applying, At, Steps, Procs

LEMMA RoundKeepsWatch ==
    ASSUME WatchInv, Round
    PROVE  WatchInv'
<1> USE ProcessAssumption
    DEF WatchInv, WatchShapes, HeldToApply, AskedForMidRound, ReconcilesToApply,
        Holds, Applying, At, Goto, Steps, Procs, daemon, EndRound
<1>1. CASE Tick BY <1>1 DEF Tick, FirstStep
<1>2. CASE TakeRequest BY <1>2 DEF TakeRequest, FirstStep
<1>3. CASE NoMasterToReconcile BY <1>3 DEF NoMasterToReconcile
<1>4. CASE FindMaster
    <2>1. /\ At(Serve, "reconcile") /\ UNCHANGED <<mode, forced>>
          /\ \E step \in {"repair", "look"} : pc' = [pc EXCEPT ![Serve] = step]
        BY <1>4 DEF FindMaster
    <2>2. dirLock' \in [Dirs -> Procs \cup {None}]
        <3>1. PICK d : HoldResource(d) BY <1>4 DEF FindMaster
        <3>2. Released(dirLock, Serve) \in [Dirs -> Procs \cup {None}] BY DEF Released
        <3>3. \/ dirLock' = Released(dirLock, Serve)
              \/ dirLock' = [Released(dirLock, Serve) EXCEPT ![d] = Serve]
            BY <3>1 DEF HoldResource, Taken
        <3> QED BY <3>2, <3>3
    <2> QED BY <2>1, <2>2
<1>5. CASE Repaired BY <1>5 DEF Repaired
<1>6. CASE NotRepaired BY <1>6 DEF NotRepaired, Released
<1>7. CASE DiscoveryFails BY <1>7 DEF DiscoveryFails
<1>8. CASE NoTargets BY <1>8 DEF NoTargets
<1>9. CASE Look BY <1>9 DEF Look
<1>10. CASE NotApplying BY <1>10 DEF NotApplying
<1>11. CASE MasterLost BY <1>11 DEF MasterLost, Refuse
<1>12. CASE DirectoryMoved BY <1>12 DEF DirectoryMoved, HoldResource, Taken, Released, Refuse
<1>13. CASE BudgetUnconfirmed BY <1>13 DEF BudgetUnconfirmed, ReleaseResource, Released, Refuse
<1>14. CASE GoAhead BY <1>14 DEF GoAhead, HoldResource, Taken, Released
<1>15. CASE Writing(Serve)
    <2> USE DEF AfterApply
    <2>1. CASE ApplyNothing(Serve) BY <2>1 DEF ApplyNothing
    <2>2. CASE BeginWrite(Serve) BY <2>2 DEF BeginWrite
    <2>3. CASE Adopted(Serve) BY <2>3 DEF Adopted
    <2>4. CASE Inconclusive(Serve) BY <2>4 DEF Inconclusive
    <2>5. CASE ApplyFails(Serve) BY <2>5 DEF ApplyFails
    <2> QED BY <1>15, <2>1, <2>2, <2>3, <2>4, <2>5 DEF Writing
<1>16. CASE SaveForced BY <1>16 DEF SaveForced
<1>17. CASE Save BY <1>17 DEF Save
<1>18. CASE Reply
    <2>1. CASE mode BY <1>18, <2>1 DEF Reply
    <2>2. CASE ~mode
        <3>1. dirLock' = Released(dirLock, Serve) /\ mode' = mode /\ forced' = FALSE
            BY <1>18, <2>2 DEF Reply, ReleaseResource
        <3>2. pc' = [pc EXCEPT ![Serve] = "idle"] BY <1>18 DEF Reply
        <3> QED BY <3>1, <3>2 DEF Released
    <2> QED BY <2>1, <2>2
<1> QED BY <1>1, <1>2, <1>3, <1>4, <1>5, <1>6, <1>7, <1>8, <1>9, <1>10, <1>11, <1>12, <1>13, <1>14, <1>15, <1>16, <1>17, <1>18 DEF Round

LEMMA OthersKeepWatch ==
    ASSUME WatchInv, NEW c \in Applies \cup Enablers, OneShot(c)
    PROVE  WatchInv'
<1> USE ProcessAssumption
    DEF WatchInv, WatchShapes, HeldToApply, AskedForMidRound, ReconcilesToApply,
        Holds, Applying, At, Goto, Steps, Procs, daemon
<1>1. CASE FindAndLock(c) BY <1>1 DEF FindAndLock, Taken, Released, Exit
<1>2. CASE FindNothing(c) BY <1>2 DEF FindNothing, Released, Exit
<1>3. CASE ApplyRepairs(c) BY <1>3 DEF ApplyRepairs, Released, Exit
<1>4. CASE Gather(c) BY <1>4 DEF Gather, Released, Exit
<1>5. CASE Writing(c)
    <2> USE DEF AfterApply
    <2>1. CASE ApplyNothing(c)
        <3>1. pc' = [pc EXCEPT ![c] = "off"] \/ pc' = [pc EXCEPT ![c] = "saveLast"]
            BY <2>1 DEF ApplyNothing
        <3>2. UNCHANGED <<mode, forced>> /\ dirLock' \in {dirLock, Released(dirLock, c)}
            BY <2>1 DEF ApplyNothing, Exit
        <3> QED BY <3>1, <3>2 DEF Released
    <2>2. CASE BeginWrite(c) BY <2>2 DEF BeginWrite
    <2>3. CASE Adopted(c) BY <2>3 DEF Adopted
    <2>4. CASE Inconclusive(c) BY <2>4 DEF Inconclusive
    <2>5. CASE ApplyFails(c) BY <2>5 DEF ApplyFails, Released, Exit
    <2> QED BY <1>5, <2>1, <2>2, <2>3, <2>4, <2>5 DEF Writing
<1>6. CASE ApplySaves(c) BY <1>6 DEF ApplySaves, Released
<1>7. CASE Dismiss(c) BY <1>7 DEF Dismiss
<1>8. CASE Enable(c) BY <1>8 DEF Enable, Released, Exit
<1> QED BY <1>1, <1>2, <1>3, <1>4, <1>5, <1>6, <1>7, <1>8 DEF OneShot

LEMMA StepKeepsWatch ==
    ASSUME WatchInv, [Next]_vars
    PROVE  WatchInv'
<1> USE ProcessAssumption
    DEF WatchInv, WatchShapes, HeldToApply, AskedForMidRound, ReconcilesToApply,
        Holds, Applying, At, Goto, Steps, Procs, daemon
<1>1. CASE StartServe BY <1>1 DEF StartServe
<1>2. CASE Outside
    <2>1. ASSUME NEW c \in Applies, StartApply(c) PROVE WatchInv'
        BY <2>1 DEF StartApply
    <2>2. ASSUME NEW c \in Enablers, StartEnable(c) PROVE WatchInv'
        BY <2>2 DEF StartEnable
    <2>3. ASSUME NEW p \in Procs, Dies(p) PROVE WatchInv'
        <3>1. CASE p = Serve BY <2>3, <3>1 DEF Dies, Exit, Released
        <3>2. CASE p # Serve BY <2>3, <3>2 DEF Dies, Exit, Released
        <3> QED BY <3>1, <3>2
    <2>4. CASE Ask BY <2>4 DEF Ask
    <2>5. CASE GiveUp BY <2>5 DEF GiveUp
    <2>6. CASE HostChanges BY <2>6 DEF HostChanges
    <2>7. CASE MasterStarts BY <2>7 DEF MasterStarts
    <2> QED BY <1>2, <2>1, <2>2, <2>3, <2>4, <2>5, <2>6, <2>7 DEF Outside
<1>3. CASE UNCHANGED vars BY <1>3 DEF vars
<1> QED BY <1>1, <1>2, <1>3, RoundKeepsWatch, OthersKeepWatch DEF Next

(***************************************************************************)
(* A daemon that only watches gives the pool directory back at the end of  *)
(* the round it was asked for, whichever way out the round took.           *)
(* (Run, after an apply-now round)                                         *)
(***************************************************************************)
THEOREM WatcherLetsGo == Spec => []WatcherHoldsNothing
<1>1. WatchInv => WatcherHoldsNothing
    BY DEF WatchInv, HeldToApply, AskedForMidRound, WatcherHoldsNothing, Applying, At
<1> QED BY <1>1, WatchStarts, StepKeepsWatch, PTL DEF Spec
-----------------------------------------------------------------------------
(* What the three invariants leave out of TypeOK.                           *)

DaemonShapes ==
    /\ up \in BOOLEAN /\ pages \in {"all", "some", "none"}
    /\ unsaved \in BOOLEAN
    /\ outcome \in {"unreached", "error", "message", "changed"}
    /\ blocked \in Reasons /\ retries \in 0 .. MaxStatusRetries
    /\ request \in {"none", "waiting", "running", "gone"}
    /\ happened \in 0 .. MaxHappened

LEMMA CountedInBounds ==
    ASSUME happened \in 0 .. MaxHappened, SomethingHappens
    PROVE  happened' \in 0 .. MaxHappened
BY BoundAssumption DEF SomethingHappens

LEMMA ZeroInBounds == 0 \in 0 .. MaxStatusRetries /\ 0 \in 0 .. MaxHappened
BY BoundAssumption

LEMMA WritingKeepsDaemon ==
    ASSUME DaemonShapes, NEW p \in Procs, Writing(p)
    PROVE  DaemonShapes'
<1> USE CountedInBounds DEF DaemonShapes, Report, host, daemon
<1>1. CASE ApplyNothing(p) BY <1>1 DEF ApplyNothing
<1>2. CASE BeginWrite(p) BY <1>2 DEF BeginWrite
<1>3. CASE Adopted(p) BY <1>3 DEF Adopted
<1>4. CASE Inconclusive(p) BY <1>4 DEF Inconclusive
<1>5. CASE ApplyFails(p) BY <1>5 DEF ApplyFails
<1> QED BY <1>1, <1>2, <1>3, <1>4, <1>5 DEF Writing

LEMMA RoundKeepsDaemon ==
    ASSUME DaemonShapes, Round
    PROVE  DaemonShapes'
<1> USE CountedInBounds DEF DaemonShapes, Reasons, host, daemon
<1>1. CASE Tick BY <1>1 DEF Tick
<1>2. CASE TakeRequest BY <1>2 DEF TakeRequest
<1>3. CASE NoMasterToReconcile BY <1>3 DEF NoMasterToReconcile
<1>4. CASE FindMaster BY <1>4 DEF FindMaster
<1>5. CASE Repaired BY <1>5 DEF Repaired
<1>6. CASE NotRepaired BY <1>6 DEF NotRepaired
<1>7. CASE DiscoveryFails BY <1>7 DEF DiscoveryFails
<1>8. CASE NoTargets BY <1>8 DEF NoTargets
<1>9. CASE Look
    <2>1. retries' \in 0 .. MaxStatusRetries
        <3>1. \/ retries' = 0 \/ retries' = retries
              \/ retries < MaxStatusRetries /\ retries' = retries + 1
            BY <1>9, Zenon DEF Look, NoteUntracked
        <3>2. retries \in 0 .. MaxStatusRetries OBVIOUS
        <3> QED BY ONLY <3>1, <3>2, BoundAssumption
    <2>2. happened' \in 0 .. MaxHappened
        <3>1. UNCHANGED happened \/ SomethingHappens BY <1>9 DEF Look
        <3> QED BY <3>1
    <2>3. UNCHANGED <<up, pages, outcome, blocked, request, unsaved>>
        BY <1>9 DEF Look
    <2> QED BY <2>1, <2>2, <2>3
<1>10. CASE NotApplying BY <1>10 DEF NotApplying
<1>11. CASE MasterLost BY <1>11 DEF MasterLost, Refuse
<1>12. CASE DirectoryMoved BY <1>12 DEF DirectoryMoved, Refuse
<1>13. CASE BudgetUnconfirmed BY <1>13 DEF BudgetUnconfirmed, Refuse
<1>14. CASE GoAhead BY <1>14 DEF GoAhead
<1>15. CASE Writing(Serve) BY <1>15, WritingKeepsDaemon DEF Procs
<1>16. CASE SaveForced BY <1>16 DEF SaveForced
<1>17. CASE Save BY <1>17 DEF Save
<1>18. CASE Reply BY <1>18 DEF Reply
<1> QED BY <1>1, <1>2, <1>3, <1>4, <1>5, <1>6, <1>7, <1>8, <1>9, <1>10, <1>11, <1>12, <1>13, <1>14, <1>15, <1>16, <1>17, <1>18 DEF Round

LEMMA OthersKeepDaemon ==
    ASSUME DaemonShapes, NEW c \in Applies \cup Enablers, OneShot(c)
    PROVE  DaemonShapes'
<1> USE CountedInBounds DEF DaemonShapes, host, daemon
<1>1. CASE FindAndLock(c) BY <1>1 DEF FindAndLock
<1>2. CASE FindNothing(c) BY <1>2 DEF FindNothing
<1>3. CASE ApplyRepairs(c) BY <1>3 DEF ApplyRepairs
<1>4. CASE Gather(c) BY <1>4 DEF Gather
<1>5. CASE Writing(c) BY <1>5, WritingKeepsDaemon DEF Procs
<1>6. CASE ApplySaves(c) BY <1>6 DEF ApplySaves
<1>7. CASE Dismiss(c) BY <1>7 DEF Dismiss
<1>8. CASE Enable(c) BY <1>8 DEF Enable
<1> QED BY <1>1, <1>2, <1>3, <1>4, <1>5, <1>6, <1>7, <1>8 DEF OneShot

LEMMA StepKeepsDaemon ==
    ASSUME DaemonShapes, [Next]_vars
    PROVE  DaemonShapes'
<1> USE CountedInBounds DEF DaemonShapes, Reasons, host, daemon
<1>1. CASE StartServe BY <1>1, ZeroInBounds DEF StartServe
<1>2. CASE Outside
    <2>1. ASSUME NEW c \in Applies, StartApply(c) PROVE DaemonShapes'
        BY <2>1 DEF StartApply
    <2>2. ASSUME NEW c \in Enablers, StartEnable(c) PROVE DaemonShapes'
        BY <2>2 DEF StartEnable
    <2>3. ASSUME NEW p \in Procs, Dies(p) PROVE DaemonShapes'
        BY <2>3, ZeroInBounds DEF Dies
    <2>4. CASE Ask BY <2>4 DEF Ask
    <2>5. CASE GiveUp BY <2>5 DEF GiveUp
    <2>6. CASE HostChanges BY <2>6 DEF HostChanges
    <2>7. CASE MasterStarts BY <2>7 DEF MasterStarts
    <2> QED BY <1>2, <2>1, <2>2, <2>3, <2>4, <2>5, <2>6, <2>7 DEF Outside
<1>3. CASE UNCHANGED vars BY <1>3 DEF vars
<1> QED BY <1>1, <1>2, <1>3, RoundKeepsDaemon, OthersKeepDaemon DEF Next

(***************************************************************************)
(* Every reachable state has the declared types; the bound on the retries  *)
(* of EnsureStatus among them.  (maxStatusRetries)                         *)
(***************************************************************************)
THEOREM TypeCorrect == Spec => []TypeOK
<1>1. IInv /\ CopyInv /\ WatchInv /\ DaemonShapes => TypeOK
    BY DEF IInv, Shapes, CopyInv, CopyShapes, WatchInv, WatchShapes,
           DaemonShapes, TypeOK
<1>2. Init => DaemonShapes BY ZeroInBounds DEF Init, DaemonShapes, Reasons
<1>3. Spec => []CopyInv BY CopiesStart, StepKeepsCopies, PTL DEF Spec
<1>4. Spec => []WatchInv BY WatchStarts, StepKeepsWatch, PTL DEF Spec
<1> QED
    BY <1>1, <1>2, <1>3, <1>4, LocksAreSound, StepKeepsDaemon, PTL DEF Spec
=============================================================================
