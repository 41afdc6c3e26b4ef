------------------------------ MODULE UndoLog -------------------------------
(***************************************************************************)
(* What the drop-in transaction promises, without saying how: a value is   *)
(* only replaced while a log entry names both the value that was there     *)
(* and the value that goes in; there is one entry at a time; and the tool  *)
(* puts back nothing but the value the entry says was there.  Outsiders    *)
(* may change the value, or destroy the entry, whenever they like.         *)
(***************************************************************************)
CONSTANTS
    Values,         \* everything the protected file can hold
    OutsideValues,  \* what people other than the tool put there
    Nothing,        \* the file is absent
    Closed          \* no change is in flight

VARIABLES
    value,  \* what the file holds
    log,    \* Closed, or the entry [pre, post] of the change in flight
    spare   \* a value taken out on trial, which may be put back

vars == <<value, log, spare>>

Entry == [pre : Values, post : Values]

Init ==
    /\ value \in Values
    /\ log = Closed
    /\ spare = Nothing

(* The intention is logged before anything is replaced. *)
Begin ==
    /\ log = Closed
    /\ \E v \in Values : log' = [pre |-> value, post |-> v]
    /\ UNCHANGED <<value, spare>>

Install ==
    /\ log # Closed
    /\ value' = log.post
    /\ UNCHANGED <<log, spare>>

Undo ==
    /\ log # Closed
    /\ value' = log.pre
    /\ UNCHANGED <<log, spare>>

End ==
    /\ log # Closed
    /\ log' = Closed
    /\ spare' = Nothing
    /\ UNCHANGED value

(* Undo and End, when nothing could be left in between. *)
UndoAndEnd ==
    /\ log # Closed
    /\ value' = log.pre
    /\ log' = Closed
    /\ UNCHANGED spare

TakeOut ==
    /\ spare' = value
    /\ value' = Nothing
    /\ UNCHANGED log

PutBack ==
    /\ value' = spare
    /\ spare' = Nothing
    /\ UNCHANGED log

LeaveOut ==
    /\ spare' = Nothing
    /\ UNCHANGED <<value, log>>

Outside ==
    /\ value' \in OutsideValues \cup {value}
    /\ log' \in {log, Closed}
    /\ UNCHANGED spare

Next ==
    \/ Begin \/ Install \/ Undo \/ End \/ UndoAndEnd
    \/ TakeOut \/ PutBack \/ LeaveOut
    \/ Outside

Spec == Init /\ [][Next]_vars
=============================================================================
