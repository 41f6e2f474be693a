------------------------------ MODULE StateStore ------------------------------
(***************************************************************************)
(* syncer/state.go: the state directory, its lock, and the file state.json *)
(* that Save replaces by a temporary file, fsync, rename and an fsync of   *)
(* the directory.  Processes may die anywhere, and so may the machine:     *)
(* `file' is what a process reads, `durable' what is found after the power *)
(* was lost.  A state is known by its version, its identity (the remote    *)
(* and the local root) and `work', the reconciliations recorded in it.     *)
(***************************************************************************)
EXTENDS Naturals, FiniteSets

CONSTANTS Procs,   \* the sync processes given this state directory
          Ids,     \* the pairs of a remote and a local root they are given
          MaxWork, \* bound: reconciliations that change the state
          None     \* no process, no identity

ASSUME StoreAssumption == /\ MaxWork \in Nat
                          /\ None \notin Procs
                          /\ None \notin Ids

VARIABLES file,      \* state.json as processes see it
          durable,   \* state.json as the disk has it
          tmp,       \* state.json.tmp
          lock,      \* the process that holds the flock
          pc,        \* process -> where in openStateStore or Save it is
          me,        \* process -> the identity it was started with
          mem,       \* process -> its *State
          nextWork,  \* the next fresh reconciliation
          acked      \* the value of the last Save that returned nil (auxiliary)

store == <<file, durable, tmp, lock, pc, me, mem, nextWork, acked>>

-----------------------------------------------------------------------------
stateVersion == 2

\* "cached" data is not on the disk yet; "torn" data was lost with the power.
States == [kind: {"none", "state", "cached", "torn"}, version: 0..3,
           id: Ids \cup {None}, work: SUBSET Nat]

NoState == [kind |-> "none", version |-> 0, id |-> None, work |-> {}]
Torn == [kind |-> "torn", version |-> 0, id |-> None, work |-> {0}]
State(version, id, work) ==
    [kind |-> "state", version |-> version, id |-> id, work |-> work]

OnDisk(s) == IF s.kind = "cached" THEN Torn ELSE s
Value(s) == [id |-> s.id, work |-> s.work]

Running(p) == pc[p] \notin {"down", "locked"}

StoreInit ==
    /\ file \in {NoState} \cup {State(v, i, {}) : v \in 1..3, i \in Ids}
    /\ durable = file
    /\ tmp = NoState
    /\ lock = None
    /\ pc = [p \in Procs |-> "down"]
    /\ me = [p \in Procs |-> None]
    /\ mem = [p \in Procs |-> NoState]
    /\ nextWork = 1
    /\ acked = Value(file)

\* Types, and that a process only works on a state of its own identity in the
\* version this program writes.
StoreTypeOK ==
    /\ {file, durable, tmp} \subseteq States
    /\ lock \in Procs \cup {None}
    /\ pc \in [Procs -> {"down", "locked", "up", "opened", "written", "synced", "renamed"}]
    /\ me \in [Procs -> Ids \cup {None}]
    /\ mem \in [Procs -> States]
    /\ \A p \in Procs : Running(p) => mem[p] = State(stateVersion, me[p], mem[p].work)
    /\ nextWork \in Nat \ {0}
    /\ acked \in [id: Ids \cup {None}, work: SUBSET Nat]

-----------------------------------------------------------------------------
(* openStateStore: the lock, then the file.                                *)

\* LOCK_NB: a process that finds the lock held ends at once.
Lock(p) ==
    /\ pc[p] = "down"
    /\ lock = None
    /\ lock' = p
    /\ pc' = [pc EXCEPT ![p] = "locked"]
    /\ \E i \in Ids : me' = [me EXCEPT ![p] = i]
    /\ UNCHANGED <<file, durable, tmp, mem, nextWork, acked>>

Readable(s) == s.kind \in {"state", "cached"} /\ s.version \in {1, stateVersion}

Loads(p) == file.kind = "none" \/ (Readable(file) /\ file.id = me[p])

\* Mutant of Load: the version that was read is kept.
VersionKept(p) ==
    /\ pc[p] = "locked"
    /\ Loads(p)
    /\ mem' = [mem EXCEPT ![p] = State(IF file.kind = "none" THEN stateVersion ELSE file.version,
                                       me[p], file.work)]
    /\ pc' = [pc EXCEPT ![p] = "up"]
    /\ UNCHANGED <<file, durable, tmp, lock, me, nextWork, acked>>

\* A missing file is a fresh state; version 1 is read as version 2.
Load(p) ==
    /\ pc[p] = "locked"
    /\ Loads(p)
    /\ mem' = [mem EXCEPT ![p] = State(stateVersion, me[p], file.work)]
    /\ pc' = [pc EXCEPT ![p] = "up"]
    /\ UNCHANGED <<file, durable, tmp, lock, me, nextWork, acked>>

\* What remains of a process is what the kernel forgets with it.
Gone(p) ==
    /\ pc' = [pc EXCEPT ![p] = "down"]
    /\ me' = [me EXCEPT ![p] = None]
    /\ mem' = [mem EXCEPT ![p] = NoState]
    /\ lock' = IF lock = p THEN None ELSE lock
    /\ UNCHANGED <<file, durable, tmp, nextWork, acked>>

\* A read error, or a state that cannot be decoded or is not this process's.
Refuse(p) == pc[p] = "locked" /\ Gone(p)

\* Close, and the death of the process.
Close(p) == pc[p] = "up" /\ Gone(p)
Die(p) == pc[p] # "down" /\ Gone(p)

\* A reconciliation changes the state in memory.
Work(p) ==
    /\ pc[p] = "up"
    /\ nextWork <= MaxWork
    /\ mem' = [mem EXCEPT ![p].work = @ \cup {nextWork}]
    /\ nextWork' = nextWork + 1
    /\ UNCHANGED <<file, durable, tmp, lock, pc, me, acked>>

-----------------------------------------------------------------------------
(* Save                                                                    *)

\* O_CREATE|O_TRUNC: whatever an earlier Save left there is gone.
SaveOpen(p) ==
    /\ pc[p] = "up"
    /\ tmp' = Torn
    /\ pc' = [pc EXCEPT ![p] = "opened"]
    /\ UNCHANGED <<file, durable, lock, me, mem, nextWork, acked>>

\* Mutant of SaveWrite: the temporary file is renamed without an fsync.
RenamedUnsynced(p) ==
    /\ pc[p] = "opened"
    /\ tmp' = [mem[p] EXCEPT !.kind = "cached"]
    /\ pc' = [pc EXCEPT ![p] = "synced"]
    /\ UNCHANGED <<file, durable, lock, me, mem, nextWork, acked>>

SaveWrite(p) ==
    /\ pc[p] = "opened"
    /\ tmp' = [mem[p] EXCEPT !.kind = "cached"]
    /\ pc' = [pc EXCEPT ![p] = "written"]
    /\ UNCHANGED <<file, durable, lock, me, mem, nextWork, acked>>

SaveSync(p) ==
    /\ pc[p] = "written"
    /\ tmp' = [tmp EXCEPT !.kind = "state"]
    /\ pc' = [pc EXCEPT ![p] = "synced"]
    /\ UNCHANGED <<file, durable, lock, me, mem, nextWork, acked>>

SaveRename(p) ==
    /\ pc[p] = "synced"
    /\ file' = tmp
    /\ tmp' = NoState
    /\ pc' = [pc EXCEPT ![p] = "renamed"]
    /\ UNCHANGED <<durable, lock, me, mem, nextWork, acked>>

\* The directory is synced and Save returns nil.
SaveDone(p) ==
    /\ pc[p] = "renamed"
    /\ durable' = OnDisk(file)
    /\ acked' = Value(mem[p])
    /\ pc' = [pc EXCEPT ![p] = "up"]
    /\ UNCHANGED <<file, tmp, lock, me, mem, nextWork>>

\* The temporary file cannot be opened; or it cannot be written, synced or
\* renamed, and is removed; or the directory cannot be synced.
SaveFails(p) ==
    /\ pc[p] \in {"up", "opened", "written", "synced", "renamed"}
    /\ tmp' = IF pc[p] \in {"opened", "written", "synced"} THEN NoState ELSE tmp
    /\ pc' = [pc EXCEPT ![p] = "up"]
    /\ UNCHANGED <<file, durable, lock, me, mem, nextWork, acked>>

-----------------------------------------------------------------------------
(* The machine                                                             *)

\* The kernel writes back what was renamed, whether or not anybody waits for it.
WriteBack ==
    /\ durable # OnDisk(file)
    /\ durable' = OnDisk(file)
    /\ UNCHANGED <<file, tmp, lock, pc, me, mem, nextWork, acked>>

PowerLoss ==
    /\ file' = durable
    /\ tmp' \in {NoState, Torn}
    /\ lock' = None
    /\ pc' = [p \in Procs |-> "down"]
    /\ me' = [p \in Procs |-> None]
    /\ mem' = [p \in Procs |-> NoState]
    /\ UNCHANGED <<durable, nextWork, acked>>

StoreStep(p) == \/ Lock(p) \/ Load(p) \/ Refuse(p) \/ Close(p) \/ Die(p) \/ Work(p)
                \/ SaveOpen(p) \/ SaveWrite(p) \/ SaveSync(p) \/ SaveRename(p)
                \/ SaveDone(p) \/ SaveFails(p)

StoreNext == (\E p \in Procs : StoreStep(p)) \/ WriteBack \/ PowerLoss

StoreSpec == StoreInit /\ [][StoreNext]_store

-----------------------------------------------------------------------------
\* The process that has loaded the state, and what it knows.
Owner == IF lock # None /\ Running(lock) THEN lock ELSE None
Known == IF Owner = None THEN Value(NoState) ELSE Value(mem[Owner])

Register == INSTANCE StateRegister WITH
    owner <- Owner, known <- Known, possible <- {Value(file), Value(durable)}

(* The state directory keeps the promise of StateRegister: a process that  *)
(* starts finds a complete state of its own identity which somebody saved, *)
(* and everything that a Save once reported as saved, in spite of other    *)
(* processes, dying ones, failed saves and power losses.                   *)
AtomicState == Register!RegisterSpec
=============================================================================
