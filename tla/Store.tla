-------------------------------- MODULE Store --------------------------------
(***************************************************************************)
(* The store of what is learned, on a host with several PHP-FPM masters.   *)
(* A record belongs to a pool, which is a master and a name, because every *)
(* distribution's package calls its pool www; records from before that was *)
(* so have a name only, and are adopted by whoever observes the name first.*)
(*                                                                         *)
(* One process at a time has the file, under the lock beside it (the lock  *)
(* is in ServeLoop): a daemon, which reads it once and writes it now and   *)
(* then, or a command, which does one round of its own.  Each is about one *)
(* master, or unscoped.  What a record says of its pool's workers is in    *)
(* PoolState; here it is whose workers they were.                          *)
(***************************************************************************)
EXTENDS Naturals

CONSTANTS
    Masters, Names,
    Pools,          \* the pools there may be: masters and names
    NoMaster,       \* the scope of an unscoped process, and of an old key
    Daemons,        \* the scopes of serve
    Commands,       \* the scopes of plan and apply
    Hosts,          \* what may be configured at first
    Remembered,     \* the names an older build had learned something about
    Quiet,          \* the scopes of serve --no-learn
    ForgetAfter,    \* forgetAfterMissedRounds
    Absent,         \* no record
    None,           \* nobody has the file
    Never,          \* not seen since this process started
    MaxEvents       \* bound: operator's changes, kills and failing writes

ASSUME PoolAssumption == Pools \subseteq Masters \X Names /\ Hosts \subseteq SUBSET Pools
ASSUME MasterAssumption == NoMaster \notin Masters \cup Pools
ASSUME ForgetAssumption == ForgetAfter \in Nat \ {0} /\ MaxEvents \in Nat

Scopes == Masters \cup {NoMaster}
Keys == Scopes \X Names
Kinds == {"daemon", "command", "quiet"}
Sessions == [kind : Kinds, scope : Scopes]
ASSUME ScopeAssumption == Daemons \cup Commands \cup Quiet \subseteq Scopes

(* The history a record from before the keys had masters stands for. *)
Old == NoMaster

Record == [of : SUBSET (Pools \cup {Old}), missed : 0 .. ForgetAfter - 1]
ASSUME AbsentAssumption == Absent \notin Record /\ None \notin Sessions
ASSUME NeverAssumption == Never \notin 0 .. ForgetAfter

VARIABLES
    present,    \* the pools that are configured, with a status page
    disk,       \* the state file: a record, or Absent, for each key
    mem,        \* the copy of the process that has the file
    session,    \* that process
    views,      \* the pools its round discovered, empty between rounds
    unseen,     \* history: rounds of this process since it saw the pool
    events      \* how much has gone wrong or changed outside so far

vars == <<present, disk, mem, session, views, unseen, events>>

Stores == [Keys -> Record \cup {Absent}]

TypeOK ==
    /\ present \subseteq Pools /\ views \subseteq Pools
    /\ disk \in Stores /\ mem \in Stores
    /\ session \in Sessions \cup {None}
    /\ unseen \in [Pools -> 0 .. ForgetAfter \cup {Never}]
    /\ events \in 0 .. MaxEvents

Nothing == [k \in Keys |-> Absent]

OldRecord == [of |-> {Old}, missed |-> 0]

(* The tool was upgraded on a host it had learned something about. *)
Init ==
    /\ present \in Hosts
    /\ disk = [k \in Keys |-> IF k[1] = NoMaster /\ k[2] \in Remembered
                              THEN OldRecord ELSE Absent]
    /\ mem = Nothing /\ session = None /\ views = {}
    /\ unseen = [k \in Pools |-> Never] /\ events = 0

Event == events < MaxEvents /\ events' = events + 1

-----------------------------------------------------------------------------
(* The store's operations, as functions of a store.                        *)

PoolKey(m, n) == <<m, n>>
OldKey(k) == PoolKey(NoMaster, k[2])

(* The keys that forWriting gives a record from before: each one's pool is
   the first of its name in the round. *)
Adopters(st, pools, first) ==
    {k \in pools : st[k] = Absent /\ st[OldKey(k)] # Absent /\ first[k[2]] = k[1]}

(* Wrong: copied rather than re-keyed. *)
ForWritingCopied(st, pools, first) ==
    [k \in Keys |->
        IF k \in Adopters(st, pools, first) THEN st[OldKey(k)]
        ELSE IF k \in pools /\ st[k] = Absent THEN [of |-> {}, missed |-> 0]
        ELSE st[k]]

(* For several pools in a row.  A record is made, or re-keyed. *)
ForWriting(st, pools, first) ==
    LET heirs == Adopters(st, pools, first)
    IN  [k \in Keys |->
            IF k \in heirs THEN st[OldKey(k)]
            ELSE IF k \in {OldKey(h) : h \in heirs} THEN Absent
            ELSE IF k \in pools /\ st[k] = Absent THEN [of |-> {}, missed |-> 0]
            ELSE st[k]]

(* Learn, for the views that answered. *)
Learn(st, answering, first) ==
    LET made == ForWriting(st, answering, first)
    IN  [k \in Keys |->
            IF k \in answering THEN [made[k] EXCEPT !.of = @ \cup {k}] ELSE made[k]]

(* Wrong: whoever is there is kept, and only the absent belong to somebody. *)
ForgetKeptFirst(st, names, scope) ==
    [k \in Keys |->
        IF st[k] = Absent THEN Absent
        ELSE IF k[2] \in names THEN [st[k] EXCEPT !.missed = 0]
        ELSE IF scope # NoMaster /\ k[1] # scope THEN st[k]
        ELSE IF st[k].missed + 1 < ForgetAfter THEN [st[k] EXCEPT !.missed = @ + 1]
        ELSE Absent]

(* Wrong: the rounds without the pool need not follow one another. *)
ForgetCounting(st, names, scope) ==
    [k \in Keys |->
        IF st[k] = Absent \/ (scope # NoMaster /\ k[1] # scope) \/ k[2] \in names
        THEN st[k]
        ELSE IF st[k].missed + 1 < ForgetAfter THEN [st[k] EXCEPT !.missed = @ + 1]
        ELSE Absent]

(* Whose scope it is comes first; then the name keeps it. *)
Forget(st, names, scope) ==
    [k \in Keys |->
        IF st[k] = Absent \/ (scope # NoMaster /\ k[1] # scope) THEN st[k]
        ELSE IF k[2] \in names THEN [st[k] EXCEPT !.missed = 0]
        ELSE IF st[k].missed + 1 < ForgetAfter THEN [st[k] EXCEPT !.missed = @ + 1]
        ELSE Absent]

Ambiguous(p, pools) == \E q \in pools : q[2] = p[2] /\ q[1] # p[1]

(* Wrong: the plan looks every pool up alike. *)
PlannedFromByName(st, p, pools) ==
    IF st[p] # Absent THEN p ELSE IF st[OldKey(p)] # Absent THEN OldKey(p) ELSE None

(* The record the plan takes p's numbers from: LookupScoped for a name two
   masters have this round, Lookup otherwise. *)
PlannedFrom(st, p, pools) ==
    IF st[p] # Absent THEN p
    ELSE IF ~Ambiguous(p, pools) /\ st[OldKey(p)] # Absent THEN OldKey(p)
    ELSE None

-----------------------------------------------------------------------------
(* A process has the file.                                                 *)

(* Wrong: the count of missed rounds is not part of the file. *)
LoadedAnew == [k \in Keys |-> IF disk[k] = Absent THEN Absent
                              ELSE [disk[k] EXCEPT !.missed = 0]]

Loaded == disk

Begin(s) ==
    /\ session = None
    /\ session' = s /\ mem' = Loaded
    /\ UNCHANGED <<present, disk, views, unseen, events>>

(* It is gone, and its copy with it. *)
Exit ==
    /\ session' = None /\ views' = {} /\ mem' = Nothing
    /\ unseen' = [k \in Pools |-> Never]

InScope(scope) == {p \in present : scope \in {NoMaster, p[1]}}

(* A round up to its plan: discovery skips the masters whose configuration it
   cannot parse, the scrape the pools that do not answer.  Only a daemon
   forgets, and one that is to record nothing does not learn. *)
Observe(parsed, answering, first) ==
    /\ session # None /\ views = {}
    /\ views' = {p \in InScope(session.scope) : p[1] \in parsed}
    /\ views' # {} /\ answering \subseteq views'
    /\ LET learned == Learn(mem, answering, first)
           names == {p[2] : p \in views'}
       IN  mem' = CASE session.kind = "daemon" -> Forget(learned, names, session.scope)
                    [] session.kind = "command" -> learned
                    [] OTHER -> mem
    /\ unseen' = [k \in Pools |->
           IF k \in views' THEN 0
           ELSE IF unseen[k] \in {Never, ForgetAfter} THEN unseen[k] ELSE unseen[k] + 1]
    /\ UNCHANGED <<present, disk, session, events>>

(* The rest of a daemon's round: the store is saved or not.  One that is to
   record nothing still notes in its own copy what it applied. *)
Finish(applied, first) ==
    /\ views # {} /\ views' = {} /\ session.kind # "command" /\ applied \subseteq views
    /\ IF session.kind = "quiet"
       THEN mem' = ForWriting(mem, applied, first) /\ UNCHANGED disk
       ELSE disk' \in {disk, mem} /\ UNCHANGED mem
    /\ UNCHANGED <<present, session, unseen, events>>

(* A command saves what it learned and is done. *)
Return ==
    /\ views # {} /\ session.kind = "command"
    /\ \/ disk' = mem /\ UNCHANGED events
       \/ UNCHANGED disk /\ Event
    /\ Exit
    /\ UNCHANGED present

(* It finds nothing, and fails. *)
NothingFound ==
    /\ session # None /\ views = {} /\ session.kind = "command"
    /\ Exit
    /\ UNCHANGED <<present, disk, events>>

(* shutdown, which saves, unless it cannot or is not to. *)
Stop ==
    /\ session # None /\ views = {} /\ session.kind # "command"
    /\ \/ session.kind = "daemon" /\ disk' = mem /\ UNCHANGED events
       \/ session.kind = "quiet" /\ UNCHANGED <<disk, events>>
       \/ session.kind = "daemon" /\ Event /\ UNCHANGED disk
    /\ Exit
    /\ UNCHANGED present

Kill ==
    /\ session # None /\ Event
    /\ Exit
    /\ UNCHANGED <<present, disk>>

ChangePools ==
    /\ Event
    /\ \E p \in Pools : present' \in {present \cup {p}, present \ {p}} \ {present}
    /\ UNCHANGED <<disk, mem, session, views, unseen>>

-----------------------------------------------------------------------------

Processes ==
    [kind : {"daemon"}, scope : Daemons] \cup [kind : {"command"}, scope : Commands]
    \cup [kind : {"quiet"}, scope : Quiet]

Firsts == [Names -> Masters]

Next ==
    \/ \E s \in Processes : Begin(s)
    \/ \E parsed \in SUBSET Masters, answering \in SUBSET Pools, first \in Firsts :
           Observe(parsed, answering, first)
    \/ \E applied \in SUBSET Pools, first \in Firsts : Finish(applied, first)
    \/ Return \/ Stop \/ NothingFound \/ Kill \/ ChangePools

Spec == Init /\ [][Next]_vars

(* A round of a daemon with the scope s that finds every master there is. *)
FullRound(s) ==
    /\ session = [kind |-> "daemon", scope |-> s]
    /\ \E answering \in SUBSET Pools, first \in Firsts : Observe(Masters, answering, first)

(* The daemons take turns, their rounds find what is there again and again,
   and nothing stops half-way. *)
FairSpec ==
    /\ Spec
    /\ \A s \in Daemons : SF_vars(Begin([kind |-> "daemon", scope |-> s]))
    /\ \A s \in Daemons : SF_vars(FullRound(s))
    /\ WF_vars(\E applied \in SUBSET Pools, first \in Firsts : Finish(applied, first))
    /\ SF_vars(Stop) /\ WF_vars(Return) /\ WF_vars(NothingFound)

-----------------------------------------------------------------------------
(* Properties                                                              *)

Heirs(st, n) == {k \in Keys : k[2] = n /\ st[k] # Absent /\ Old \in st[k].of}

(* A record holds evidence of its own pool, and what was known of its name
   before is with one record at most: two versions' www never share one. *)
HistoryIsOwn ==
    \A st \in {disk, mem} :
        /\ \A k \in Keys : st[k] # Absent => st[k].of \subseteq {k, Old}
        /\ \A n \in Names : \A j, k \in Heirs(st, n) : j = k

(* No two pools of a plan are sized from one record ("12GiB of floor from a
   single stale entry"). *)
NothingSharedInAPlan ==
    \A p, q \in views :
        PlannedFrom(mem, p, views) = PlannedFrom(mem, q, views) =>
            p = q \/ PlannedFrom(mem, p, views) = None

(* A process about one master leaves the other masters' records as they are,
   their count of missed rounds included. *)
OthersLeftAlone ==
    [][views = {} /\ views' # {} /\ session.scope # NoMaster =>
           \A k \in Pools : k[1] # session.scope => mem'[k] = mem[k]]_vars

(* A pool this process has seen loses its record only when that many rounds
   have gone by without it, one after the other. *)
ForgottenOnlyWhenGone ==
    [][views = {} /\ views' # {} =>
           \A k \in Pools : mem[k] # Absent /\ mem'[k] = Absent =>
               unseen'[k] \in {Never, ForgetAfter}]_vars

(* A removed pool's record does go, through every restart: in the scope of a
   daemon that has something left to look at, and if no daemon is unscoped
   while another master has a pool of that name. *)
Gone(k) ==
    /\ k \notin present
    /\ k[1] \in Daemons => \E p \in present : p[1] = k[1]
    /\ k[1] \notin Daemons => NoMaster \in Daemons /\ present # {}
    /\ NoMaster \in Daemons => \A p \in present : p[2] # k[2]

RemovedIsForgotten ==
    \A k \in Pools : <>[]Gone(k) => <>[](disk[k] = Absent)
=============================================================================
