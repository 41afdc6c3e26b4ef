------------------------- MODULE StatusDropInProofs -------------------------
(***************************************************************************)
(* StatusDropIn for any pools, daemons and commands: the lock              *)
(* on the pool directory has one holder, a run drops the page of no pool   *)
(* that is still there, and, if other people's reloads wait for a run, the *)
(* pages that are served are those of the file whenever nobody is at work. *)
(***************************************************************************)
EXTENDS StatusDropIn, TLAPS

(* Who is past taking the lock has it, and a run takes it first; a daemon
   keeps it between rounds, and has it as long as it is reconciled. *)
Exclusive ==
    \A p \in Procs :
        /\ pc[p] \in Held => lock = p
        /\ p \in Runs => pc[p] # "lock" /\ (pc[p] = "look" => lock = p)
        /\ lock = p => \/ pc[p] \in Held \cup {"look"}
                       \/ p \in Daemons /\ pc[p] \in {"idle", "note"}
        /\ pc[p] = "note" => p \in Daemons
        /\ p \in Daemons /\ reconciled[p] => lock = p

(* What a run saw to exist holds every section of the file, and so does what
   it is about to write. *)
SawAll ==
    \A p \in Runs :
        /\ pc[p] = "read" => Sections(status) \subseteq exists[p]
        /\ pc[p] = "write" => Sections(status) \subseteq desired

(* Between the write and the reload the master serves what the file was
   before; before and after, what the file is.  Only a holder that has put
   the file back and not reloaded yet is at neither. *)
Agrees(f) == Up /\ ~stranded => master.pages = Sections(f)

Pending == {"validate", "signal", "undo"}

Accounted ==
    /\ \/ \E p \in Procs : lock = p /\ pc[p] \in Pending \cup {"reload"}
       \/ Agrees(status)
    /\ \A p \in Procs : lock = p /\ pc[p] \in Pending => Agrees(backup)

-----------------------------------------------------------------------------

LEMMA SectionsOfPools == TypeOK => Sections(status) \subseteq Pools
BY DEF TypeOK, Sections

LEMMA RereadType == TypeOK => Adopted \in Master /\ Reread \in Master \cup {None}
BY SectionsOfPools DEF TypeOK, Adopted, Reread, Master

LEMMA GotoType ==
    ASSUME TypeOK, NEW p \in Procs, NEW s \in Steps, Goto(p, s)
    PROVE  pc' \in [Procs -> Steps]
BY DEF TypeOK, Goto

LEMMA EventType == TypeOK /\ (Event \/ UNCHANGED events) => events' \in 0 .. MaxEvents
BY EventAssumption DEF TypeOK, Event

LEMMA ReturnType == \A p : Return(p) \in Steps
BY DEF Return, Steps, Held

LEMMA TypeStep == TypeOK /\ [Next]_vars => TypeOK'
<1> SUFFICES ASSUME TypeOK, [Next]_vars PROVE TypeOK'
    OBVIOUS
<1>u. CASE UNCHANGED vars
    BY <1>u DEF TypeOK, vars
<1>s. CASE Next
    <2>o. CASE Outside
        <3>1. CASE ChangeSites
            BY <3>1, EventType DEF ChangeSites, TypeOK, looks, plans, flags
        <3>2. CASE EditStatus
            BY <3>2, EventType DEF EditStatus, TypeOK, own, looks, plans, flags
        <3>3. CASE MasterDies \/ OutsideReload \/ MasterStarts
            BY <3>3, EventType, RereadType
            DEF MasterDies, OutsideReload, MasterStarts, TypeOK, files, own, looks, plans, flags
        <3>q. QED
            BY <2>o, <3>1, <3>2, <3>3 DEF Outside
    <2>p. ASSUME NEW p \in Procs, Start(p) \/ Tick(p) \/ Step(p) \/ Kill(p) PROVE TypeOK'
        <3>1. CASE Start(p) \/ Tick(p) \/ End(p) \/ TakeLock(p) \/ Reconcile(p)
            BY <3>1, EventType DEF Start, Tick, End, TakeLock, Reconcile, TypeOK, Goto,
                files, own, looks, plans, flags, Held, Steps, Procs, Runs, ForgetLook, ForgetPlan
        <3>9. CASE Release(p)
            BY <3>9, EventType DEF Release, TypeOK, Goto, files, own, looks, plans, Held, Steps, Procs
        <3>11. CASE Kill(p)
            <4>1. Goto(p, "idle") /\ "idle" \in Steps
                BY <3>11 DEF Kill, Steps
            <4>2. /\ reconciled' \in [Daemons -> BOOLEAN]
                  /\ retries' \in [Daemons -> 0 .. MaxStatusRetries]
                BY <3>11, EventAssumption DEF Kill, TypeOK
            <4>3. /\ desired' \subseteq Pools
                  /\ backup' \in (SUBSET Pools) \cup {None, Foreign}
                BY <3>11 DEF Kill, TypeOK, ForgetPlan, plans
            <4>4. /\ enable' \in [Procs -> SUBSET Pools]
                  /\ exists' \in [Procs -> SUBSET Pools]
                BY <3>11 DEF Kill, TypeOK, ForgetLook
            <4>q. QED
                BY <3>11, <4>1, <4>2, <4>3, <4>4, GotoType, EventType DEF Kill, TypeOK, files, own
        <3>10. CASE Note(p)
            <4>1. Goto(p, "size") \/ Goto(p, "idle")
                BY <3>10 DEF Note
            <4>2. pc' \in [Procs -> Steps]
                BY <4>1, GotoType DEF Steps, Held
            <4>3. /\ reconciled' \in [Daemons -> BOOLEAN]
                  /\ retries' \in [Daemons -> 0 .. MaxStatusRetries]
                  /\ UNCHANGED events \/ Event
                <5>1. CASE Seen /\ Untracked # {} /\ retries[p] < MaxStatusRetries
                      /\ retries' = [retries EXCEPT ![p] = @ + 1]
                      /\ reconciled' = [reconciled EXCEPT ![p] = FALSE]
                      /\ UNCHANGED events
                    <6>1. \A q \in Daemons : retries[q] \in 0 .. MaxStatusRetries
                        BY DEF TypeOK
                    <6>2. retries[p] + 1 \in 0 .. MaxStatusRetries \/ p \notin Daemons
                        BY <5>1, <6>1, EventAssumption
                    <6>q. QED
                        BY <5>1, <6>2 DEF TypeOK
                <5>2. CASE NothingSeen(p)
                    BY <5>2 DEF NothingSeen, TypeOK
                <5>3. CASE retries' = [retries EXCEPT ![p] = 0] /\ UNCHANGED reconciled
                           /\ (UNCHANGED events \/ Event)
                    <6>1. 0 \in 0 .. MaxStatusRetries
                        BY EventAssumption
                    <6>q. QED
                        BY <5>3, <6>1 DEF TypeOK
                <5>4. CASE UNCHANGED flags /\ (UNCHANGED events \/ Event)
                    BY <5>4 DEF TypeOK, flags
                <5>q. QED
                    BY <3>10, <5>1, <5>2, <5>3, <5>4 DEF Note, NoteUntracked
            <4>4. /\ desired' \subseteq Pools
                  /\ backup' \in (SUBSET Pools) \cup {None, Foreign}
                BY <3>10 DEF Note, TypeOK, ForgetPlan, plans
            <4>q. QED
                BY <3>10, <4>2, <4>3, <4>4, EventType DEF Note, TypeOK, files, own, looks
        <3>2. CASE Look(p)
            <4>1. \E s \in Steps : Goto(p, s)
                BY <3>2, ReturnType DEF Look, Steps, Held
            <4>2. pc' \in [Procs -> Steps]
                BY <4>1, GotoType
            <4>3. \E new \in SUBSET Pools : enable' = [enable EXCEPT ![p] = new]
                BY <3>2 DEF Look, TypeOK
            <4>4. enable' \in [Procs -> SUBSET Pools]
                BY <4>3 DEF TypeOK
            <4>5. exists' \in [Procs -> SUBSET Pools]
                BY <3>2 DEF Look, TypeOK
            <4>q. QED
                BY <3>2, <4>2, <4>4, <4>5 DEF Look, TypeOK, files, own, plans, flags
        <3>3. CASE Read(p)
            <4>1. \E s \in Steps : Goto(p, s)
                BY <3>3, ReturnType DEF Read, Steps, Held
            <4>2. desired' \subseteq Pools
                BY <3>3, SectionsOfPools DEF Read, Carried, TypeOK
            <4>3. /\ enable' \in [Procs -> SUBSET Pools]
                  /\ exists' \in [Procs -> SUBSET Pools]
                BY <3>3 DEF Read, TypeOK, ForgetLook
            <4>q. QED
                BY <3>3, <4>1, <4>2, <4>3, GotoType DEF Read, TypeOK, files, own, flags
        <3>4. CASE Write(p)
            <4>1. \E s \in Steps : Goto(p, s)
                BY <3>4, ReturnType DEF Write, Steps, Held
            <4>q. QED
                BY <3>4, <4>1, GotoType, EventType DEF Write, TypeOK, own, looks, flags
        <3>5. CASE Validate(p) \/ Settle(p)
            <4>1. \E s \in Steps : Goto(p, s)
                BY <3>5, ReturnType DEF Validate, Settle, Steps, Held
            <4>q. QED
                BY <3>5, <4>1, GotoType, EventType DEF Validate, Settle, TypeOK, files, own, looks, plans, flags
        <3>6. CASE Undo(p)
            <4>1. \E s \in Steps : Goto(p, s)
                BY <3>6, ReturnType DEF Undo, Steps, Held
            <4>q. QED
                BY <3>6, <4>1, GotoType, EventType DEF Undo, TypeOK, own, looks, plans, flags
        <3>7. CASE Signal(p) \/ ReloadBack(p)
            <4>1. \E s \in Steps : Goto(p, s)
                BY <3>7, ReturnType DEF Signal, ReloadBack, Steps, Held
            <4>q. QED
                BY <3>7, <4>1, GotoType, RereadType DEF Signal, ReloadBack, TypeOK, files, own, looks, plans, flags
        <3>8. CASE Size(p)
            <4>1. Goto(p, "end") /\ "end" \in Steps
                BY <3>8 DEF Size, Steps, Held
            <4>2. sizing' \subseteq Pools
                BY <3>8, SectionsOfPools DEF Size, TypeOK
            <4>q. QED
                BY <3>8, <4>1, <4>2, GotoType, RereadType DEF Size, TypeOK, own, looks, plans, flags
        <3>q. QED
            BY <2>p, <3>1, <3>2, <3>3, <3>4, <3>5, <3>6, <3>7, <3>8, <3>9, <3>10, <3>11 DEF Step
    <2>q. QED
        BY <1>s, <2>o, <2>p DEF Next
<1>q. QED
    BY <1>u, <1>s

(* Every state is well-formed. *)
THEOREM TypeCorrect == Spec => []TypeOK
<1>1. ASSUME Init PROVE TypeOK
    <2>1. sites \subseteq Pools /\ master \in Master
        BY <1>1 DEF Init, Master
    <2>2. pc \in [Procs -> Steps] /\ enable \in [Procs -> SUBSET Pools]
          /\ exists \in [Procs -> SUBSET Pools]
        BY <1>1 DEF Init, Steps
    <2>3. /\ events \in 0 .. MaxEvents /\ tracked \in BOOLEAN
          /\ reconciled \in [Daemons -> BOOLEAN]
          /\ retries \in [Daemons -> 0 .. MaxStatusRetries]
        BY <1>1, EventAssumption DEF Init
    <2>4. sizing \subseteq Pools /\ desired \subseteq Pools
        BY <1>1 DEF Init
    <2>5. /\ status \in (SUBSET Pools) \cup {None, Foreign}
          /\ backup \in (SUBSET Pools) \cup {None, Foreign}
          /\ lock \in Procs \cup {None} /\ stranded \in BOOLEAN
        BY <1>1 DEF Init
    <2>q. QED
        BY <2>1, <2>2, <2>3, <2>4, <2>5 DEF TypeOK
<1>q. QED
    BY <1>1, TypeStep, PTL DEF Spec

-----------------------------------------------------------------------------
(* The lock.                                                               *)

LEMMA ExclusiveStep == TypeOK /\ Exclusive /\ [Next]_vars => Exclusive'
<1> SUFFICES ASSUME TypeOK, Exclusive, [Next]_vars PROVE Exclusive'
    OBVIOUS
<1>u. CASE UNCHANGED vars
    BY <1>u DEF Exclusive, vars
<1>o. CASE Outside
    BY <1>o DEF Outside, ChangeSites, EditStatus, MasterDies, OutsideReload, MasterStarts,
        Exclusive, flags
<1>p. ASSUME NEW p \in Procs, Start(p) \/ Tick(p) \/ Step(p) \/ Kill(p) PROVE Exclusive'
    <2>0. /\ \A q \in Procs : q # None
          /\ Return(p) \in {"size", "end", "note"}
          /\ Return(p) = "note" => p \in Daemons
          /\ Daemons \subseteq Runs /\ Applies \subseteq Runs
          /\ Runs \cap Enablers = {} /\ Daemons \cap Applies = {}
        BY ProcAssumption DEF Return, Runs, Procs
    <2>1. CASE Start(p)
        BY <2>1, <2>0 DEF Start, Exclusive, TypeOK, Goto, Held, flags
    <2>15. CASE Tick(p)
        BY <2>15, <2>0 DEF Tick, Exclusive, TypeOK, Goto, Held, flags
    <2>16. CASE Note(p)
        BY <2>16, <2>0 DEF Note, NoteUntracked, NothingSeen, Exclusive, TypeOK, Goto, Held, flags
    <2>17. CASE Release(p)
        BY <2>17, <2>0 DEF Release, Exclusive, TypeOK, Goto, Held
    <2>2. CASE Kill(p)
        BY <2>2, <2>0 DEF Kill, Exclusive, TypeOK, Goto, Held
    <2>3. CASE Reconcile(p)
        BY <2>3, <2>0 DEF Reconcile, Exclusive, TypeOK, Goto, Held
    <2>4. CASE Look(p)
        BY <2>4, <2>0 DEF Look, Exclusive, TypeOK, Goto, Held, flags
    <2>5. CASE TakeLock(p)
        BY <2>5, <2>0 DEF TakeLock, Exclusive, TypeOK, Goto, Held, flags
    <2>6. CASE Read(p)
        BY <2>6, <2>0 DEF Read, Exclusive, TypeOK, Goto, Held, flags
    <2>7. CASE Write(p)
        BY <2>7, <2>0 DEF Write, Exclusive, TypeOK, Goto, Held, flags
    <2>8. CASE Validate(p)
        BY <2>8, <2>0 DEF Validate, Exclusive, TypeOK, Goto, Held, flags
    <2>9. CASE Signal(p)
        BY <2>9, <2>0 DEF Signal, Exclusive, TypeOK, Goto, Held, flags
    <2>10. CASE Settle(p)
        BY <2>10, <2>0 DEF Settle, Exclusive, TypeOK, Goto, Held, flags
    <2>11. CASE Undo(p)
        BY <2>11, <2>0 DEF Undo, Exclusive, TypeOK, Goto, Held, flags
    <2>12. CASE ReloadBack(p)
        BY <2>12, <2>0 DEF ReloadBack, Exclusive, TypeOK, Goto, Held, flags
    <2>13. CASE Size(p)
        BY <2>13, <2>0 DEF Size, Exclusive, TypeOK, Goto, Held, flags
    <2>14. CASE End(p)
        BY <2>14, <2>0 DEF End, Exclusive, TypeOK, Goto, Held, flags
    <2>q. QED
        BY <1>p, <2>1, <2>2, <2>3, <2>4, <2>5, <2>6, <2>7, <2>8, <2>9, <2>10, <2>11,
           <2>12, <2>13, <2>14, <2>15, <2>16, <2>17 DEF Step
<1>q. QED
    BY <1>u, <1>o, <1>p DEF Next

(* One process at a time is past taking the lock, and it is the one the lock
   names; a run is there before it looks. *)
THEOREM OneHolder == Spec => []Exclusive
<1>1. Init => Exclusive
    BY ProcAssumption DEF Init, Exclusive, Held
<1>2. TypeOK /\ Exclusive /\ [Next]_vars => Exclusive'
    BY ExclusiveStep
<1>q. QED
    BY <1>1, <1>2, TypeCorrect, PTL DEF Spec

-----------------------------------------------------------------------------
(* What a run has seen.                                                    *)

(* A process that is not past taking the lock leaves the file alone, and what
   another process saw. *)
LEMMA OnlyTheHolder ==
    ASSUME TypeOK, Exclusive, NEW p \in Procs, NEW q \in Procs, q # p, lock = q,
           Start(p) \/ Tick(p) \/ Step(p) \/ Kill(p)
    PROVE  /\ status' = status /\ desired' = desired /\ backup' = backup
           /\ exists'[q] = exists[q] /\ pc'[q] = pc[q]
           /\ master' = master /\ stranded' = stranded
<1>0. pc[p] \notin Held /\ lock # None
    BY ProcAssumption DEF Exclusive
<1>1. CASE Start(p) \/ Tick(p)
    BY <1>1, <1>0 DEF Start, Tick, Goto, TypeOK, files, own, looks, plans, flags
<1>2. CASE Kill(p)
    BY <1>2, <1>0 DEF Kill, Goto, TypeOK, files, own, looks, plans, Held, ForgetLook
<1>3. CASE Look(p) \/ TakeLock(p) \/ Note(p)
    BY <1>3, <1>0 DEF Look, TakeLock, Note, Goto, TypeOK, files, own, looks, plans, ForgetLook
<1>4. ~(Step(p) /\ ~Look(p) /\ ~TakeLock(p) /\ ~Note(p))
    BY <1>0 DEF Step, Held, Reconcile, Read, Write, Validate, Signal, Settle, Undo,
        ReloadBack, Note, Size, Release, End
<1>q. QED
    BY <1>1, <1>2, <1>3, <1>4

LEMMA SawAllStep == TypeOK /\ Exclusive /\ SawAll /\ [Next]_vars => SawAll'
<1> SUFFICES ASSUME TypeOK, Exclusive, SawAll, [Next]_vars,
                    NEW q \in Runs, q \in Procs
             PROVE  /\ pc'[q] = "read" => Sections(status') \subseteq exists'[q]
                    /\ pc'[q] = "write" => Sections(status') \subseteq desired'
    BY DEF SawAll, Sections, Procs, Runs
<1>0. /\ pc[q] \in {"look", "read", "write"} => lock = q
      /\ pc[q] = "read" => Sections(status) \subseteq exists[q]
      /\ pc[q] = "write" => Sections(status) \subseteq desired
    BY DEF Exclusive, SawAll, Held
<1>u. CASE UNCHANGED vars
    BY <1>u, <1>0 DEF vars, Sections
<1>o. CASE Outside
    BY <1>o, <1>0, ProcAssumption DEF Outside, Quiet, ChangeSites, EditStatus, MasterDies, OutsideReload,
        MasterStarts, Sections, looks, plans, files
<1>p. ASSUME NEW p \in Procs, p # q, Start(p) \/ Tick(p) \/ Step(p) \/ Kill(p)
      PROVE  /\ pc'[q] = "read" => Sections(status') \subseteq exists'[q]
             /\ pc'[q] = "write" => Sections(status') \subseteq desired'
    <2>1. pc'[q] = pc[q]
        BY <1>p, ReturnType DEF Step, Start, Tick, Kill, Reconcile, Look, TakeLock, Read, Write, Validate,
            Signal, Settle, Undo, ReloadBack, Note, Size, Release, End, Goto, TypeOK
    <2>2. CASE pc[q] \in {"read", "write"}
        BY <2>2, <1>p, <1>0, OnlyTheHolder DEF Sections
    <2>q. QED
        BY <2>1, <2>2
<1>r. ASSUME Start(q) \/ Tick(q) \/ Step(q) \/ Kill(q)
      PROVE  /\ pc'[q] = "read" => Sections(status') \subseteq exists'[q]
             /\ pc'[q] = "write" => Sections(status') \subseteq desired'
    <2>0. Return(q) \in {"size", "note", "end"}
        BY DEF Return
    <2>1. CASE Look(q)
        <3>1. CASE pc'[q] = "read"
            <4>1. Loads /\ status' = status /\ exists'[q] = sites
                BY <2>1, <3>1, <2>0 DEF Look, Goto, TypeOK, files
            <4>q. QED
                BY <3>1, <4>1 DEF Loads, Accepts, Sections
        <3>q. QED
            BY <2>1, <3>1, <2>0 DEF Look, Goto, TypeOK
    <2>2. CASE Read(q)
        <3>1. desired' = enable[q] \cup Carried(q) /\ status' = status
            BY <2>2 DEF Read, files
        <3>2. Sections(status) \subseteq exists[q] /\ pc'[q] # "read"
            BY <2>2, <1>0, <2>0 DEF Read, Goto, TypeOK
        <3>q. QED
            BY <3>1, <3>2 DEF Carried, Sections
    <2>3. pc'[q] \notin {"read", "write"} \/ Look(q) \/ Read(q)
        BY <1>r, <2>0, <1>0, ProcAssumption DEF Step, Start, Tick, Kill, Reconcile, TakeLock, Write, Validate,
            Signal, Settle, Undo, ReloadBack, Note, Size, Release, End, Goto, TypeOK, Exclusive
    <2>q. QED
        BY <2>1, <2>2, <2>3
<1>q. QED
    BY <1>u, <1>o, <1>p, <1>r DEF Next

(* A run that writes the status file leaves out no pool that has a page and
   is still there. *)
THEOREM RunsKeep == Spec => RunsKeepPages
<1>1. Init => Exclusive /\ SawAll
    BY ProcAssumption DEF Init, Exclusive, SawAll, Held, Procs
<1>2. TypeOK /\ Exclusive /\ SawAll /\ [Next]_vars => (Exclusive /\ SawAll)'
    BY ExclusiveStep, SawAllStep
<1>3. TypeOK /\ Exclusive /\ SawAll /\ [Next]_vars =>
          [\A p \in Runs : pc[p] = "write" /\ pc'[p] = "validate" =>
               Sections(status) \cap sites \subseteq Sections(status')]_vars
    <2> SUFFICES ASSUME TypeOK, Exclusive, SawAll, Next, NEW q \in Runs, q \in Procs,
                        pc[q] = "write", pc'[q] = "validate"
                 PROVE  Sections(status) \cap sites \subseteq Sections(status')
        BY DEF Procs
    <2>1. Write(q)
        <3>1. pc'[q] = pc[q] \/ Start(q) \/ Tick(q) \/ Step(q) \/ Kill(q)
            BY DEF Next, Outside, ChangeSites, EditStatus, MasterDies, OutsideReload,
                MasterStarts, Step, Start, Tick, Kill, Reconcile, Look, TakeLock, Read, Write,
                Validate, Signal, Settle, Undo, ReloadBack, Note, Size, Release, End, Goto, TypeOK
        <3>q. QED
            BY <3>1 DEF Step, Start, Tick, Kill, Reconcile, Look, TakeLock, Read, Write,
                Validate, Signal, Settle, Undo, ReloadBack, Note, Size, Release, End, Goto, TypeOK
    <2>2. status' = desired
        BY <2>1 DEF Write, Goto, TypeOK, Return
    <2>3. Sections(status) \subseteq desired /\ desired \in SUBSET Pools
        BY DEF SawAll, TypeOK
    <2>4. Sections(desired) = desired
        BY <2>3, FileAssumption DEF Sections
    <2>q. QED
        BY <2>2, <2>3, <2>4
<1>q. QED
    BY <1>1, <1>2, <1>3, TypeCorrect, PTL DEF Spec, RunsKeepPages

-----------------------------------------------------------------------------
(* What the master serves.                                                 *)

LEMMA AccountedStep ==
    ASSUME "reload" \notin Racing
    PROVE  TypeOK /\ Exclusive /\ Accounted /\ [Next]_vars => Accounted'
<1> SUFFICES ASSUME TypeOK, Exclusive, Accounted, [Next]_vars PROVE Accounted'
    OBVIOUS
<1>0. /\ None \notin Procs /\ \A q : Return(q) \in {"size", "end", "note"}
      /\ master \in Master \cup {None} /\ status' = status => Sections(status') = Sections(status)
    BY ProcAssumption DEF Return, TypeOK, Sections
<1>1. Reread # None => Reread.pages = Sections(status)
    BY DEF Reread, Adopted
<1>u. CASE UNCHANGED vars
    BY <1>u DEF Accounted, Agrees, Up, Sections, vars
<1>o. CASE Outside
    <2>1. CASE ChangeSites \/ MasterDies
        BY <2>1 DEF ChangeSites, MasterDies, Accounted, Agrees, Up, Sections, files, own, looks, plans, flags
    <2>2. CASE EditStatus
        BY <2>2, <1>0 DEF EditStatus, Quiet, Pending, Accounted, Agrees, Up, Sections, looks, plans
    <2>3. CASE OutsideReload \/ MasterStarts
        <3>1. Quiet /\ lock' = lock /\ pc' = pc
            BY <2>3 DEF OutsideReload, MasterStarts, Allowed
        <3>2. Agrees(status)'
            BY <2>3, <1>1 DEF OutsideReload, MasterStarts, Agrees, Up, Sections, files
        <3>q. QED
            BY <3>1, <3>2, <1>0 DEF Accounted, Quiet, Pending, Agrees
    <2>q. QED
        BY <1>o, <2>1, <2>2, <2>3 DEF Outside
<1>p. ASSUME NEW p \in Procs, Start(p) \/ Tick(p) \/ Step(p) \/ Kill(p) PROVE Accounted'
    <2>a. CASE lock # p /\ lock # None
        <3>1. PICK q \in Procs : q = lock /\ q # p
            BY <2>a DEF TypeOK
        <3>2. /\ status' = status /\ desired' = desired /\ backup' = backup
              /\ pc'[q] = pc[q] /\ master' = master /\ stranded' = stranded
            BY <3>1, <1>p, OnlyTheHolder
        <3>3. lock' = lock
            BY <3>1, <1>p, <1>0 DEF Step, Start, Tick, Kill, Reconcile, Look, TakeLock, Read, Write,
                Validate, Signal, Settle, Undo, ReloadBack, Note, Size, Release, End, Exclusive, Held
        <3>q. QED
            BY <3>1, <3>2, <3>3, <1>0 DEF Accounted, Agrees, Up, Sections
    <2>b. CASE lock = None
        <3>1. Agrees(status) /\ pc[p] \notin Held
            BY <2>b, <1>0 DEF Accounted, Exclusive
        <3>2. /\ status' = status /\ master' = master /\ stranded' = stranded
              /\ pc'[p] \notin Pending
            BY <1>p, <3>1 DEF Step, Start, Tick, Kill, Reconcile, Look, TakeLock, Read, Write,
                Validate, Signal, Settle, Undo, ReloadBack, Note, Size, Release, End, Held, Goto, TypeOK,
                Return, Pending, files
        <3>3. lock' \in {None, p}
            BY <2>b, <1>p, <3>1 DEF Step, Start, Tick, Kill, Reconcile, Look, TakeLock, Read, Write,
                Validate, Signal, Settle, Undo, ReloadBack, Note, Size, Release, End, Held
        <3>q. QED
            BY <3>1, <3>2, <3>3, <1>0 DEF Accounted, Agrees, Up, Sections
    <2>c. CASE lock = p
        <3>1. CASE Start(p) \/ Tick(p) \/ Reconcile(p) \/ Look(p) \/ TakeLock(p) \/ Read(p)
            BY <3>1, <2>c, <1>0 DEF Start, Tick, Reconcile, Look, TakeLock, Read, Goto, TypeOK, Accounted,
                Agrees, Up, Sections, files, own, plans, Exclusive, Held, Pending
        <3>10. CASE Note(p) \/ Release(p) \/ End(p)
            BY <3>10, <2>c, <1>0 DEF Note, Release, End, Goto, TypeOK, Accounted,
                Agrees, Up, Sections, files, plans, Exclusive, Held, Pending
        <3>2. CASE Write(p)
            BY <3>2, <2>c, <1>0 DEF Write, Goto, TypeOK, Accounted, Agrees, Up, Sections, Pending
        <3>3. CASE Validate(p)
            BY <3>3, <2>c, <1>0 DEF Validate, Goto, TypeOK, Accounted, Agrees, Up, Sections, files,
                plans, Pending
        <3>4. CASE Signal(p)
            BY <3>4, <2>c, <1>0, <1>1 DEF Signal, Goto, TypeOK, Accounted, Agrees, Up, Sections, files,
                plans, Pending
        <3>5. CASE Settle(p)
            BY <3>5, <2>c, <1>0 DEF Settle, Goto, TypeOK, Accounted, Agrees, Up, Sections, files,
                plans, Pending
        <3>6. CASE Undo(p)
            BY <3>6, <2>c, <1>0 DEF Undo, Goto, TypeOK, Accounted, Agrees, Up, Sections, plans, Pending
        <3>7. CASE ReloadBack(p)
            BY <3>7, <2>c, <1>0, <1>1 DEF ReloadBack, Goto, TypeOK, Accounted, Agrees, Up, Sections,
                files, plans, Pending
        <3>8. CASE Size(p)
            <4>1. pc[p] = "size" /\ pc'[p] = "end" /\ lock' = p /\ status' = status
                BY <3>8, <2>c DEF Size, Goto, TypeOK
            <4>2. Agrees(status)
                BY <4>1, <2>c, <1>0 DEF Accounted, Pending
            <4>3. Agrees(status)'
                BY <3>8, <4>1, <4>2, <1>0 DEF Size, Agrees, Up, Adopted
            <4>q. QED
                BY <4>1, <4>3, <1>0 DEF Accounted, Pending
        <3>9. CASE Kill(p)
            BY <3>9, <2>c, <1>0 DEF Kill, Goto, TypeOK, Accounted, Agrees, Up, Sections,
                files, plans, Pending
        <3>q. QED
            BY <1>p, <3>1, <3>2, <3>3, <3>4, <3>5, <3>6, <3>7, <3>8, <3>9, <3>10 DEF Step
    <2>q. QED
        BY <2>a, <2>b, <2>c
<1>q. QED
    BY <1>u, <1>o, <1>p DEF Next

(* While nobody is at work in the directory, the pages served are those of the file,
   for as long as other people's reloads do not fall into a run. *)
THEOREM PagesCorrect ==
    ASSUME "reload" \notin Racing
    PROVE  Spec => []PagesAgree
<1>1. Init => Exclusive /\ Accounted
    BY ProcAssumption DEF Init, Exclusive, Accounted, Agrees, Sections, Held
<1>2. TypeOK /\ Exclusive /\ Accounted /\ [Next]_vars => (Exclusive /\ Accounted)'
    BY ExclusiveStep, AccountedStep
<1>3. Accounted => PagesAgree
    BY ProcAssumption DEF Accounted, Agrees, PagesAgree, Quiet, Pending
<1>q. QED
    BY <1>1, <1>2, <1>3, TypeCorrect, PTL DEF Spec
=============================================================================
