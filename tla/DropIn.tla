------------------------------- MODULE DropIn -------------------------------
(***************************************************************************)
(* What the sizing drop-in, zz-fpm-tune.conf, can hold, and what fpm-tune  *)
(* and php-fpm make of it.  The file's bytes are abstracted to what the    *)
(* code distinguishes: no file; a file this tool wrote, which is a size    *)
(* for each pool that has a section; a file that opens with the tool's     *)
(* marker and was edited by hand into something parseOurs refuses; and a   *)
(* file somebody else wrote under the tool's name.                         *)
(***************************************************************************)
CONSTANTS
    Pools,      \* the pools that may ever exist on this master
    Sizes,      \* the values pm.max_children may take
    None,       \* there is no file
    Foreign,    \* a file without the marker; php-fpm accepts it
    Edited      \* the marker, and a body php-fpm rejects

Ours == UNION {[S -> Sizes] : S \in SUBSET Pools}

Content == Ours \cup {None, Foreign, Edited}

ASSUME MarksDiffer ==
    /\ None \notin Ours /\ Foreign \notin Ours /\ Edited \notin Ours
    /\ None # Foreign /\ None # Edited /\ Foreign # Edited

(* The marker line alone decides this, so a hand-edited body still counts. *)
IsOurs(c) == c \in Ours \cup {Edited}

(* parseOurs will not read these back, so Apply will not replace them. *)
Refused(c) == c \in {Foreign, Edited}

Sections(c) == IF c \in Ours THEN DOMAIN c ELSE {}

(* Sections for pools the plan does not have any more. *)
StaleSections(c, live) == Sections(c) \ live

(***************************************************************************)
(* The file Apply renders: the pools it changes, and, with the settings    *)
(* they already have, the live pools that have a section and do not        *)
(* change.  A section of a pool that is gone is dropped.                   *)
(***************************************************************************)
OverrideSet(c, live, change) ==
    [p \in DOMAIN change \cup (live \cap Sections(c)) |->
        IF p \in DOMAIN change THEN change[p] ELSE c[p]]

(* The changes a plan over the pools "live" can ask for. *)
Changes(live) == UNION {[S -> Sizes] : S \in SUBSET live}

(***************************************************************************)
(* php-fpm -t: the operator's own files are sound, and every section in    *)
(* the drop-in is for a pool some other file gives a listen and a user.    *)
(***************************************************************************)
Accepts(c, sites, broken) ==
    /\ ~broken
    /\ c # Edited
    /\ Sections(c) \subseteq sites
=============================================================================
