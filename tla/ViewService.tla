----------------------------- MODULE ViewService -----------------------------
(***************************************************************************)
(* What mountfs.Service promises to whoever opens a file (OpenView), with  *)
(* nothing of how: an open that asked for an entry ends with an error, with *)
(* the object's own bytes, or with a stub.  A stub is known by the versions *)
(* its bytes were read from.  PlanCache implements it, and FuseNodes is    *)
(* built on it.                                                            *)
(***************************************************************************)
EXTENDS Naturals

CONSTANTS Openers, Paths, MaxVersions, OnError, Pinned, Small, None

VARIABLES object,  \* path -> the version its object has now
          open     \* what each opener asked for and was given

Fingerprints == [path: Paths, version: 1..MaxVersions]

Asking == [phase: {"idle", "asked", "view", "error"}, entry: Fingerprints \cup {None},
           stub: BOOLEAN, served: SUBSET Fingerprints]
NotOpen == [phase |-> "idle", entry |-> None, stub |-> FALSE, served |-> {}]

ViewInit == /\ object = [p \in Paths |-> 1]
            /\ open = [o \in Openers |-> NotOpen]

\* The versions a stub of entry e may be made of: its own where reads are pinned to it,
\* which they are not in a Small object, else any that is no older.
Sources(e) == IF Pinned /\ e.version \notin Small THEN {e}
              ELSE {k \in Fingerprints : k.path = e.path /\ k.version >= e.version}

Replaced == \E p \in Paths :
    /\ object[p] < MaxVersions
    /\ object' = [object EXCEPT ![p] = @ + 1]
    /\ UNCHANGED open

Ask(o, e, stub) ==
    /\ open[o].phase = "idle"
    /\ open' = [open EXCEPT ![o] = [phase |-> "asked", entry |-> e, stub |-> stub, served |-> {}]]

Given(o, phase, served) ==
    [phase |-> phase, entry |-> open[o].entry, stub |-> open[o].stub, served |-> served]

GiveStub(o) ==
    /\ open[o].phase = "asked"
    /\ open[o].stub
    /\ \E served \in (SUBSET Sources(open[o].entry)) \ {{}} :
          open' = [open EXCEPT ![o] = Given(o, "view", served)]

\* With `fail' none who is to see stubs is given the object itself.
GiveObject(o) ==
    /\ open[o].phase = "asked"
    /\ open[o].stub => OnError # "fail"
    /\ open' = [open EXCEPT ![o] = Given(o, "view", {})]

GiveError(o) ==
    /\ open[o].phase = "asked"
    /\ open' = [open EXCEPT ![o] = Given(o, "error", {})]

Done(o) ==
    /\ open[o].phase \in {"view", "error"}
    /\ open' = [open EXCEPT ![o] = NotOpen]

Answer(o) == GiveStub(o) \/ GiveObject(o) \/ GiveError(o)

ViewNext ==
    \/ Replaced
    \/ \E o \in Openers :
          /\ \/ \E e \in Fingerprints, stub \in BOOLEAN :
                   e.version <= object[e.path] /\ Ask(o, e, stub)
             \/ Answer(o)
             \/ Done(o)
          /\ UNCHANGED object

ViewSpec == ViewInit /\ [][ViewNext]_<<object, open>>
=============================================================================
