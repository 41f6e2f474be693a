---------------------------- MODULE StateRegister ----------------------------
(***************************************************************************)
(* What the state directory (syncer/state.go) promises, whatever happens   *)
(* to the processes and the machine: one owner at a time works on one      *)
(* state.  A state knows whose it is (`id', the remote and the local root) *)
(* and what was done (`work').  The owner starts from a state of its own   *)
(* identity that was once offered, and that was not ruled out since.       *)
(***************************************************************************)
EXTENDS Naturals

CONSTANTS Procs,  \* the sync processes
          Ids,    \* the pairs of a remote and a local root they are given
          None    \* no process, no identity, no directory

ASSUME RegisterAssumption == None \notin Procs /\ None \notin Ids

VARIABLES owner,     \* the process that works on the state, or None
          known,     \* what the owner knows
          possible,  \* the states that the next owner may find
          acked      \* the state that a Save last reported as saved

register == <<owner, known, possible, acked>>

Nothing == [id |-> None, work |-> {}]

Values == [id: Ids \cup {None}, work: SUBSET Nat]

\* One state that records no work, or none at all.
RegisterInit == /\ owner = None
                /\ known = Nothing
                /\ acked \in [id: Ids \cup {None}, work: {{}}]
                /\ possible = {acked}

RegisterTypeOK == /\ owner \in Procs \cup {None}
                  /\ known \in Values
                  /\ possible \in (SUBSET Values) \ {{}}
                  /\ acked \in Values

\* A process finds one of the possible states and makes it its own.
Begin(p) ==
    /\ owner = None
    /\ owner' = p
    /\ \E v \in possible, i \in Ids :
          /\ v.id \in {None, i}
          /\ known' = [id |-> i, work |-> v.work]
    /\ UNCHANGED <<possible, acked>>

\* Knowledge only grows while one process works.
Learn ==
    /\ owner # None
    /\ known' \in Values
    /\ known'.id = known.id
    /\ known.work \subseteq known'.work
    /\ UNCHANGED <<owner, possible, acked>>

\* What the owner knows may be found from now on.
Offer ==
    /\ owner # None
    /\ \E others \in SUBSET possible : possible' = others \cup {known}
    /\ UNCHANGED <<owner, known, acked>>

\* What the owner knows will be found from now on, and nothing else.
Acknowledge ==
    /\ owner # None
    /\ possible' = {known}
    /\ acked' = known
    /\ UNCHANGED <<owner, known>>

\* Some of the possible states are out of the question from now on.
Settle ==
    /\ possible' \in (SUBSET possible) \ {{}}
    /\ UNCHANGED <<owner, known, acked>>

\* The owner ends, or dies, alone or with the machine.
End ==
    /\ owner # None
    /\ owner' = None
    /\ known' = Nothing
    /\ possible' \in (SUBSET possible) \ {{}}
    /\ UNCHANGED acked

RegisterNext ==
    (\E p \in Procs : Begin(p)) \/ Learn \/ Offer \/ Acknowledge \/ Settle \/ End

RegisterSpec == RegisterInit /\ [][RegisterNext]_register
=============================================================================
