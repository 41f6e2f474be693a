--------------------------- MODULE StateStoreProofs ---------------------------
(***************************************************************************)
(* Proofs about StateStore, for any processes and identities: types, and   *)
(* that the state directory implements the register of StateRegister.      *)
(* The invariant says that the flock excludes, that what Save has under    *)
(* way is what its process knows, and that no name ever shows data which   *)
(* is not on the disk.                                                     *)
(***************************************************************************)
EXTENDS StateStore, TLAPS

PCs == {"down", "locked", "up", "opened", "written", "synced", "renamed"}

\* Only the process with the lock is alive.
Exclusive == \A p \in Procs : pc[p] # "down" => lock = p

\* What Save has under way is what the process knows.
InStep == \A p \in Procs :
             /\ pc[p] = "written" => tmp = [mem[p] EXCEPT !.kind = "cached"]
             /\ pc[p] = "synced" => tmp = mem[p]
             /\ pc[p] = "renamed" => file = mem[p]
             /\ pc[p] = "locked" => me[p] \in Ids
             /\ Running(p) => me[p] \in Ids

\* Both views of state.json are complete states, or none.
Whole(s) == s = NoState \/ (s.kind = "state" /\ s.id \in Ids)

IInv == /\ StoreTypeOK
        /\ Exclusive
        /\ lock # None => pc[lock] # "down"
        /\ InStep
        /\ Whole(file)
        /\ Whole(durable)

LEMMA StateTyped ==
  ASSUME NEW v \in 0..3, NEW i \in Ids \cup {None}, NEW w \in SUBSET Nat
  PROVE  /\ State(v, i, w) \in States
         /\ State(v, i, w).kind = "state"
         /\ State(v, i, w).version = v
         /\ State(v, i, w).id = i
         /\ State(v, i, w).work = w
  BY DEF State, States

LEMMA ConstantsTyped == /\ NoState \in States /\ NoState.kind = "none" /\ NoState.id = None
                        /\ NoState.work = {} /\ Torn \in States
  BY DEF NoState, Torn, States

\* A complete state has nothing to lose with the power.
LEMMA WholeOnDisk ==
  ASSUME NEW s, Whole(s)
  PROVE  OnDisk(s) = s
  BY ConstantsTyped DEF Whole, OnDisk

LEMMA Initially == StoreInit => IInv
<1> SUFFICES ASSUME StoreInit PROVE IInv
  OBVIOUS
<1>1. file \in States /\ Whole(file)
  <2>1. CASE file = NoState
    BY <2>1, ConstantsTyped DEF Whole
  <2>2. CASE \E v \in 1..3, i \in Ids : file = State(v, i, {})
    <3>1. PICK v \in 1..3, i \in Ids : file = State(v, i, {})
      BY <2>2
    <3>2. v \in 0..3
      OBVIOUS
    <3>. QED
      BY <3>1, <3>2, StateTyped DEF Whole
  <2>. QED
    BY <2>1, <2>2 DEF StoreInit
<1>2. acked \in [id: Ids \cup {None}, work: SUBSET Nat]
  BY <1>1 DEF StoreInit, Value, States
<1>3. \A p \in Procs : pc[p] = "down" /\ ~Running(p)
  BY DEF StoreInit, Running
<1>4. StoreTypeOK
  BY <1>1, <1>2, <1>3, ConstantsTyped DEF StoreInit, StoreTypeOK
<1>. QED
  BY <1>1, <1>3, <1>4 DEF IInv, StoreInit, Exclusive, InStep

\* What a process that works on the state has in memory.
LEMMA MemTyped ==
  ASSUME IInv, NEW p \in Procs, Running(p)
  PROVE  /\ lock = p
         /\ me[p] \in Ids
         /\ mem[p] \in States
         /\ mem[p].kind = "state"
         /\ mem[p].version = stateVersion
         /\ mem[p].id = me[p]
         /\ mem[p].work \in SUBSET Nat
         /\ Whole(mem[p])
<1>1. lock = p /\ me[p] \in Ids
  BY DEF IInv, Exclusive, InStep, Running
<1>2. mem[p] \in States /\ mem[p] = State(stateVersion, me[p], mem[p].work)
  BY DEF IInv, StoreTypeOK
<1>3. mem[p].work \in SUBSET Nat
  BY <1>2 DEF States
<1>4. stateVersion \in 0..3
  BY DEF stateVersion
<1>. QED
  BY <1>1, <1>2, <1>3, <1>4, StateTyped DEF Whole

-----------------------------------------------------------------------------
(* Every step keeps the invariant.                                         *)

LEMMA LockStep ==
  ASSUME IInv, NEW p \in Procs, Lock(p)
  PROVE  IInv'
<1>1. \A q \in Procs : pc[q] = "down"
  BY StoreAssumption DEF IInv, Exclusive, Lock
<1>2. StoreTypeOK'
  BY <1>1 DEF IInv, StoreTypeOK, Lock, Running, State
<1>3. Exclusive' /\ (lock # None => pc[lock] # "down")'
  BY <1>1 DEF Exclusive, Lock, IInv, StoreTypeOK
<1>4. InStep'
  BY <1>1 DEF InStep, Lock, Running, IInv, StoreTypeOK
<1>5. Whole(file)' /\ Whole(durable)'
  BY DEF IInv, Lock, Whole
<1>. QED
  BY <1>2, <1>3, <1>4, <1>5 DEF IInv

\* What Load makes of the file it accepts.
LEMMA Loaded ==
  ASSUME IInv, NEW p \in Procs, Load(p)
  PROVE  /\ me[p] \in Ids
         /\ file.work \in SUBSET Nat
         /\ file.id \in {None, me[p]}
         /\ mem' = [mem EXCEPT ![p] = State(stateVersion, me[p], file.work)]
         /\ mem'[p] = State(stateVersion, me[p], file.work)
         /\ mem'[p] \in States
<1>1. me[p] \in Ids /\ file \in States
  BY DEF IInv, InStep, Load, StoreTypeOK
<1>2. file.work \in SUBSET Nat
  BY <1>1 DEF States
<1>3. file.id \in {None, me[p]}
  BY ConstantsTyped DEF Load, Loads, Readable, IInv, Whole
<1>4. stateVersion \in 0..3
  BY DEF stateVersion
<1>5. mem'[p] = State(stateVersion, me[p], file.work)
  BY DEF Load, IInv, StoreTypeOK
<1>. QED
  BY <1>1, <1>2, <1>3, <1>4, <1>5, StateTyped DEF Load

LEMMA LoadStep ==
  ASSUME IInv, NEW p \in Procs, Load(p)
  PROVE  IInv'
<1>1. lock = p /\ \A q \in Procs \ {p} : pc[q] = "down"
  BY DEF IInv, Exclusive, Load
<1>2. mem' \in [Procs -> States]
  BY Loaded DEF IInv, StoreTypeOK
<1>3. \A q \in Procs : Running(q)' => mem'[q] = State(stateVersion, me'[q], mem'[q].work)
  <2> SUFFICES ASSUME NEW q \in Procs, Running(q)'
               PROVE  mem'[q] = State(stateVersion, me'[q], mem'[q].work)
    OBVIOUS
  <2>1. q = p
    BY <1>1 DEF Load, Running, IInv, StoreTypeOK
  <2>2. mem'[p].work = file.work
    <3>1. mem'[p] = State(stateVersion, me[p], file.work)
      BY Loaded
    <3>. QED
      BY <3>1 DEF State
  <2>. QED
    BY <2>1, <2>2, Loaded DEF Load
<1>4. StoreTypeOK'
  BY <1>2, <1>3 DEF IInv, StoreTypeOK, Load
<1>5. Exclusive' /\ (lock # None => pc[lock] # "down")' /\ InStep'
  BY <1>1, Loaded DEF Exclusive, InStep, Load, Running, IInv, StoreTypeOK
<1>. QED
  BY <1>4, <1>5 DEF IInv, Load, Whole

LEMMA GoneStep ==
  ASSUME IInv, NEW p \in Procs, Gone(p), pc[p] # "down"
  PROVE  IInv'
<1>1. lock = p /\ \A q \in Procs \ {p} : pc[q] = "down"
  BY DEF IInv, Exclusive
<1>2. \A q \in Procs : pc'[q] = "down" /\ ~Running(q)'
  BY <1>1 DEF Gone, IInv, StoreTypeOK, Running
<1>3. StoreTypeOK'
  BY <1>2, ConstantsTyped DEF IInv, StoreTypeOK, Gone
<1>4. lock' = None
  BY <1>1 DEF Gone
<1>. QED
  BY <1>2, <1>3, <1>4 DEF IInv, Exclusive, InStep, Gone, Whole

\* A step of Save or of a reconciliation: the process stays, its memory changes
\* at most in `work'.
LEMMA RunningStep ==
  ASSUME IInv, NEW p \in Procs, Running(p),
         pc' \in [Procs -> PCs], \A q \in Procs \ {p} : pc'[q] = pc[q], Running(p)',
         lock' = lock, me' = me,
         mem' \in [Procs -> States],
         mem'[p] = State(stateVersion, me[p], mem'[p].work),
         {file', durable', tmp'} \subseteq States,
         Whole(file'), Whole(durable'),
         nextWork' \in Nat \ {0}, acked' \in [id: Ids \cup {None}, work: SUBSET Nat],
         pc'[p] = "written" => tmp' = [mem'[p] EXCEPT !.kind = "cached"],
         pc'[p] = "synced" => tmp' = mem'[p],
         pc'[p] = "renamed" => file' = mem'[p]
  PROVE  IInv'
<1>1. lock = p /\ me[p] \in Ids /\ \A q \in Procs \ {p} : pc[q] = "down"
  BY MemTyped DEF IInv, Exclusive
<1>2. \A q \in Procs : Running(q)' => q = p
  BY <1>1 DEF Running
<1>3. StoreTypeOK'
  BY <1>2 DEF IInv, StoreTypeOK, PCs
<1>4. Exclusive' /\ (lock # None => pc[lock] # "down")' /\ InStep'
  BY <1>1, <1>2 DEF Exclusive, InStep, Running
<1>. QED
  BY <1>3, <1>4 DEF IInv, Whole

LEMMA WorkStep ==
  ASSUME IInv, NEW p \in Procs, Work(p)
  PROVE  IInv'
<1>1. Running(p) /\ Running(p)'
  BY DEF Work, Running
<1>2. nextWork \in Nat /\ mem[p].work \cup {nextWork} \in SUBSET Nat
  BY <1>1, MemTyped DEF IInv, StoreTypeOK
<1>3. mem'[p] = State(stateVersion, me[p], mem[p].work \cup {nextWork})
  <2>1. mem[p] = State(stateVersion, me[p], mem[p].work)
    BY <1>1 DEF IInv, StoreTypeOK
  <2>2. mem'[p] = [mem[p] EXCEPT !.work = mem[p].work \cup {nextWork}]
    BY DEF Work, IInv, StoreTypeOK
  <2>. QED
    BY <2>1, <2>2 DEF State
<1>4. mem'[p] \in States /\ mem'[p].work = mem[p].work \cup {nextWork}
  BY <1>1, <1>2, <1>3, MemTyped, StateTyped DEF stateVersion
<1>5. mem' \in [Procs -> States]
  BY <1>4 DEF Work, IInv, StoreTypeOK
<1>6. nextWork' \in Nat \ {0}
  BY <1>2 DEF Work, IInv, StoreTypeOK
<1>7. mem'[p] = State(stateVersion, me[p], mem'[p].work)
  BY <1>3, <1>4
<1>. QED
  BY <1>1, <1>5, <1>6, <1>7, RunningStep DEF Work, IInv, StoreTypeOK, PCs

LEMMA SaveStep ==
  ASSUME IInv, NEW p \in Procs,
         SaveOpen(p) \/ SaveWrite(p) \/ SaveSync(p) \/ SaveRename(p) \/ SaveDone(p) \/ SaveFails(p)
  PROVE  IInv'
<1>1. Running(p) /\ mem' = mem /\ me' = me /\ lock' = lock /\ nextWork' = nextWork
  BY DEF SaveOpen, SaveWrite, SaveSync, SaveRename, SaveDone, SaveFails, Running
<1>2. mem[p] \in States /\ mem[p].kind = "state" /\ Whole(mem[p]) /\ lock = p
  BY <1>1, MemTyped
<1>3. mem[p] = State(stateVersion, me[p], mem[p].work)
  BY <1>1 DEF IInv, StoreTypeOK
<1>4. /\ tmp \in States /\ file \in States /\ durable \in States
      /\ pc \in [Procs -> PCs] /\ mem \in [Procs -> States] /\ nextWork \in Nat \ {0}
      /\ acked \in [id: Ids \cup {None}, work: SUBSET Nat]
      /\ Whole(file) /\ Whole(durable)
  BY DEF IInv, StoreTypeOK, PCs
<1>5. CASE SaveOpen(p)
  BY <1>1, <1>3, <1>4, <1>5, RunningStep, ConstantsTyped DEF SaveOpen, PCs, Running
<1>6. CASE SaveWrite(p)
  <2>1. tmp' \in States
    BY <1>2, <1>6 DEF SaveWrite, States
  <2>. QED
    BY <1>1, <1>3, <1>4, <1>6, <2>1, RunningStep DEF SaveWrite, PCs, Running
<1>7. CASE SaveSync(p)
  <2>1. tmp = [mem[p] EXCEPT !.kind = "cached"]
    BY <1>7 DEF SaveSync, IInv, InStep
  <2>2. tmp' = mem[p]
    BY <1>2, <1>7, <2>1 DEF SaveSync, States
  <2>. QED
    BY <1>1, <1>2, <1>3, <1>4, <1>7, <2>2, RunningStep DEF SaveSync, PCs, Running
<1>8. CASE SaveRename(p)
  <2>1. file' = mem[p]
    BY <1>8 DEF SaveRename, IInv, InStep
  <2>. QED
    BY <1>1, <1>2, <1>3, <1>4, <1>8, <2>1, RunningStep, ConstantsTyped DEF SaveRename, PCs, Running
<1>9. CASE SaveDone(p)
  <2>1. durable' = file
    BY <1>4, <1>9, WholeOnDisk DEF SaveDone
  <2>2. acked' \in [id: Ids \cup {None}, work: SUBSET Nat]
    BY <1>2, <1>9 DEF SaveDone, Value, States
  <2>. QED
    BY <1>1, <1>3, <1>4, <1>9, <2>1, <2>2, RunningStep DEF SaveDone, PCs, Running
<1>10. CASE SaveFails(p)
  <2>1. tmp' \in States
    BY <1>4, <1>10, ConstantsTyped DEF SaveFails
  <2>. QED
    BY <1>1, <1>3, <1>4, <1>10, <2>1, RunningStep DEF SaveFails, PCs, Running
<1>. QED
  BY <1>5, <1>6, <1>7, <1>8, <1>9, <1>10

LEMMA MachineStep ==
  ASSUME IInv, WriteBack \/ PowerLoss
  PROVE  IInv'
<1>1. CASE WriteBack
  <2>1. durable' = file
    BY <1>1, WholeOnDisk DEF WriteBack, IInv
  <2>. QED
    BY <1>1, <2>1 DEF WriteBack, IInv, StoreTypeOK, Exclusive, InStep, Running, Whole
<1>2. CASE PowerLoss
  <2>1. \A p \in Procs : pc'[p] = "down" /\ ~Running(p)'
    BY <1>2 DEF PowerLoss, Running
  <2>2. StoreTypeOK'
    BY <1>2, <2>1, ConstantsTyped DEF PowerLoss, IInv, StoreTypeOK
  <2>. QED
    BY <1>2, <2>1, <2>2 DEF PowerLoss, IInv, Exclusive, InStep, Whole
<1>. QED
  BY <1>1, <1>2

LEMMA Inductive ==
  ASSUME IInv, [StoreNext]_store
  PROVE  IInv'
<1>1. CASE UNCHANGED store
  BY <1>1 DEF store, IInv, StoreTypeOK, Exclusive, InStep, Running, Whole
<1>2. CASE \E p \in Procs : StoreStep(p)
  <2>1. PICK p \in Procs : StoreStep(p)
    BY <1>2
  <2>. QED
    BY <2>1, LockStep, LoadStep, GoneStep, WorkStep, SaveStep DEF StoreStep, Refuse, Close, Die
<1>3. CASE WriteBack \/ PowerLoss
  BY <1>3, MachineStep
<1>. QED
  BY <1>1, <1>2, <1>3 DEF StoreNext

LEMMA Invariance == StoreSpec => []IInv
<1>1. StoreInit => IInv
  BY Initially
<1>2. IInv /\ [StoreNext]_store => IInv'
  BY Inductive
<1>. QED
  BY <1>1, <1>2, PTL DEF StoreSpec

(* Types; and a process only ever works on a state of its own identity in  *)
(* the version that this program writes.                                   *)
THEOREM StoreTyped == StoreSpec => []StoreTypeOK
<1>1. IInv => StoreTypeOK
  BY DEF IInv
<1>. QED
  BY <1>1, Invariance, PTL

-----------------------------------------------------------------------------
(* The state directory implements the register.                            *)

LEMMA OwnerOf ==
  ASSUME IInv, NEW p \in Procs, Running(p)
  PROVE  Owner = p /\ Known = Value(mem[p]) /\ Owner # None
  BY MemTyped, StoreAssumption DEF Owner, Known

LEMMA NoOwner ==
  ASSUME \A p \in Procs : ~Running(p), lock \in Procs \cup {None}
  PROVE  Owner = None /\ Known = Value(NoState)
  BY DEF Owner, Known

LEMMA InitMaps == StoreInit => Register!RegisterInit
<1> SUFFICES ASSUME StoreInit PROVE Register!RegisterInit
  OBVIOUS
<1>1. Owner = None /\ Known = Value(NoState)
  BY DEF StoreInit, Owner, Known
<1>2. Value(NoState) = Register!Nothing
  BY DEF Value, NoState, Register!Nothing
<1>3. Value(file) \in [id: Ids \cup {None}, work: {{}}]
  <2>1. CASE file = NoState
    BY <2>1, ConstantsTyped DEF Value
  <2>2. CASE \E v \in 1..3, i \in Ids : file = State(v, i, {})
    BY <2>2 DEF Value, State
  <2>. QED
    BY <2>1, <2>2 DEF StoreInit
<1>. QED
  BY <1>1, <1>2, <1>3 DEF StoreInit, Register!RegisterInit

LEMMA ValueTyped ==
  ASSUME NEW s \in States
  PROVE  Value(s) \in [id: Ids \cup {None}, work: SUBSET Nat]
  BY DEF States, Value

\* A step that the register does not see.
LEMMA Hidden ==
  ASSUME Owner' = Owner, Known' = Known, file' = file, durable' = durable, acked' = acked
  PROVE  UNCHANGED Register!register
  BY DEF Register!register, Value

LEMMA LoadMaps ==
  ASSUME IInv, IInv', NEW p \in Procs, Load(p)
  PROVE  Register!Begin(p)
<1>1. lock = p /\ \A q \in Procs : ~Running(q)
  BY DEF IInv, Exclusive, Load, Running
<1>2. Owner = None
  BY <1>1, NoOwner DEF IInv, StoreTypeOK
<1>3. Running(p)'
  BY DEF Load, Running, IInv, StoreTypeOK
<1>4. Owner' = p /\ Known' = Value(mem'[p])
  BY <1>1, <1>3, StoreAssumption DEF Owner, Known, Load
<1>5. Value(mem'[p]) = [id |-> me[p], work |-> file.work]
  <2>1. mem'[p] = State(stateVersion, me[p], file.work)
    BY Loaded
  <2>. QED
    BY <2>1 DEF Value, State
<1>6. /\ Value(file).id = file.id /\ Value(file).work = file.work
      /\ file.id \in {None, me[p]} /\ me[p] \in Ids
  BY Loaded DEF Value
<1>. QED
  BY <1>2, <1>4, <1>5, <1>6 DEF Register!Begin, Load

LEMMA GoneMaps ==
  ASSUME IInv, IInv', NEW p \in Procs, Gone(p), pc[p] # "down"
  PROVE  [Register!RegisterNext]_(Register!register)
<1>1. lock = p /\ \A q \in Procs \ {p} : pc[q] = "down"
  BY DEF IInv, Exclusive
<1>2. \A q \in Procs : ~Running(q)'
  BY <1>1 DEF Gone, Running, IInv, StoreTypeOK
<1>3. Owner' = None /\ Known' = Register!Nothing
  BY <1>1, StoreAssumption DEF Gone, Owner, Known, Value, NoState, Register!Nothing
<1>4. file' = file /\ durable' = durable /\ acked' = acked
  BY DEF Gone
<1>5. CASE Running(p)
  BY <1>3, <1>4, <1>5, OwnerOf DEF Register!End, Register!RegisterNext, Value
<1>6. CASE ~Running(p)
  <2>1. Owner = None /\ Known = Value(NoState)
    BY <1>1, <1>6 DEF Owner, Known
  <2>2. Value(NoState) = Register!Nothing
    BY DEF Value, NoState, Register!Nothing
  <2>. QED
    BY <1>3, <1>4, <2>1, <2>2, Hidden
<1>. QED
  BY <1>5, <1>6

LEMMA WorkMaps ==
  ASSUME IInv, IInv', NEW p \in Procs, Work(p)
  PROVE  Register!Learn
<1>1. Running(p) /\ Running(p)' /\ lock' = lock
  BY DEF Work, Running
<1>2. Owner = p /\ Known = Value(mem[p]) /\ Owner # None
  BY <1>1, OwnerOf
<1>3. Owner' = p /\ Known' = Value(mem'[p])
  BY <1>1, MemTyped, StoreAssumption DEF Owner, Known
<1>4. mem'[p] = [mem[p] EXCEPT !.work = @ \cup {nextWork}] /\ mem'[p] \in States
  BY DEF Work, IInv, StoreTypeOK
<1>5. Value(mem'[p]).id = Value(mem[p]).id /\ Value(mem[p]).work \subseteq Value(mem'[p]).work
  BY <1>1, <1>4, MemTyped DEF Value, States
<1>6. Value(mem'[p]) \in Register!Values
  BY <1>4, ValueTyped DEF Register!Values
<1>7. UNCHANGED <<file, durable, acked>>
  BY DEF Work
<1>. QED
  BY <1>2, <1>3, <1>5, <1>6, <1>7 DEF Register!Learn, Value

LEMMA SaveMaps ==
  ASSUME IInv, IInv', NEW p \in Procs,
         SaveOpen(p) \/ SaveWrite(p) \/ SaveSync(p) \/ SaveRename(p) \/ SaveDone(p) \/ SaveFails(p)
  PROVE  [Register!RegisterNext]_(Register!register)
<1>1. Running(p) /\ mem' = mem /\ lock' = lock
  BY DEF SaveOpen, SaveWrite, SaveSync, SaveRename, SaveDone, SaveFails, Running
<1>2. Running(p)'
  BY DEF SaveOpen, SaveWrite, SaveSync, SaveRename, SaveDone, SaveFails, Running, IInv, StoreTypeOK
<1>3. Owner = p /\ Known = Value(mem[p]) /\ Owner # None
  BY <1>1, OwnerOf
<1>4. Owner' = p /\ Known' = Value(mem[p])
  BY <1>1, <1>2, MemTyped, StoreAssumption DEF Owner, Known
<1>5. CASE SaveOpen(p) \/ SaveWrite(p) \/ SaveSync(p) \/ SaveFails(p)
  BY <1>3, <1>4, <1>5, Hidden DEF SaveOpen, SaveWrite, SaveSync, SaveFails
<1>6. CASE SaveRename(p)
  <2>1. file' = mem[p] /\ durable' = durable /\ acked' = acked
    BY <1>6 DEF SaveRename, IInv, InStep
  <2>2. {Value(file'), Value(durable')} = {Value(durable)} \cup {Known}
    BY <1>3, <2>1
  <2>. QED
    BY <1>3, <1>4, <2>1, <2>2 DEF Register!Offer, Register!RegisterNext, Value
<1>7. CASE SaveDone(p)
  <2>1. file = mem[p] /\ file' = file /\ acked' = Value(mem[p])
    BY <1>7 DEF SaveDone, IInv, InStep
  <2>2. durable' = file
    BY <1>7, WholeOnDisk DEF SaveDone, IInv
  <2>. QED
    BY <1>3, <1>4, <2>1, <2>2 DEF Register!Acknowledge, Register!RegisterNext, Value
<1>. QED
  BY <1>5, <1>6, <1>7

LEMMA MachineMaps ==
  ASSUME IInv, IInv', WriteBack \/ PowerLoss
  PROVE  [Register!RegisterNext]_(Register!register)
<1>1. CASE WriteBack
  <2>1. durable' = file /\ file' = file /\ acked' = acked
    BY <1>1, WholeOnDisk DEF WriteBack, IInv
  <2>2. Owner' = Owner /\ Known' = Known
    BY <1>1 DEF WriteBack, Owner, Known, Running, Value
  <2>. QED
    BY <2>1, <2>2 DEF Register!Settle, Register!RegisterNext, Value
<1>2. CASE PowerLoss
  <2>1. file' = durable /\ durable' = durable /\ acked' = acked
    BY <1>2 DEF PowerLoss
  <2>2. Owner' = None /\ Known' = Register!Nothing
    BY <1>2 DEF PowerLoss, Owner, Known, Value, NoState, Register!Nothing
  <2>3. CASE Owner # None
    BY <2>1, <2>2, <2>3 DEF Register!End, Register!RegisterNext, Value
  <2>4. CASE Owner = None
    <3>1. Known = Register!Nothing
      BY <2>4 DEF Known, Value, NoState, Register!Nothing
    <3>. QED
      BY <2>1, <2>2, <2>4, <3>1 DEF Register!Settle, Register!RegisterNext, Value
  <2>. QED
    BY <2>3, <2>4
<1>. QED
  BY <1>1, <1>2

LEMMA StepMaps ==
  ASSUME IInv, IInv', [StoreNext]_store
  PROVE  [Register!RegisterNext]_(Register!register)
<1>1. CASE UNCHANGED store
  BY <1>1, Hidden DEF store, Owner, Known, Running, Value
<1>2. ASSUME NEW p \in Procs, Lock(p)
      PROVE  UNCHANGED Register!register
  <2>1. \A q \in Procs : pc[q] = "down"
    BY <1>2, StoreAssumption DEF IInv, Exclusive, Lock
  <2>2. Owner = None /\ Known = Value(NoState)
    BY <1>2 DEF Lock, Owner, Known
  <2>3. \A q \in Procs : ~Running(q)'
    BY <1>2, <2>1 DEF Lock, Running, IInv, StoreTypeOK
  <2>4. Owner' = None /\ Known' = Value(NoState)
    BY <1>2, <2>3 DEF Lock, Owner, Known
  <2>. QED
    BY <1>2, <2>2, <2>4, Hidden DEF Lock
<1>3. CASE \E p \in Procs : StoreStep(p)
  <2>1. PICK p \in Procs : StoreStep(p)
    BY <1>3
  <2>2. CASE Load(p)
    BY <2>2, LoadMaps DEF Register!RegisterNext
  <2>3. CASE Work(p)
    BY <2>3, WorkMaps DEF Register!RegisterNext
  <2>. QED
    BY <1>2, <2>1, <2>2, <2>3, GoneMaps, SaveMaps DEF StoreStep, Refuse, Close, Die
<1>4. CASE WriteBack \/ PowerLoss
  BY <1>4, MachineMaps
<1>. QED
  BY <1>1, <1>3, <1>4 DEF StoreNext

(* The state directory implements StateRegister: whatever dies and fails,  *)
(* one process at a time starts from a complete state of its identity that *)
(* somebody saved, no older than the last Save that returned nil.          *)
THEOREM Atomic == StoreSpec => AtomicState
<1>1. StoreInit => Register!RegisterInit
  BY InitMaps
<1>2. IInv /\ IInv' /\ [StoreNext]_store => [Register!RegisterNext]_(Register!register)
  BY StepMaps
<1>. QED
  BY <1>1, <1>2, Invariance, PTL DEF StoreSpec, AtomicState, Register!RegisterSpec
=============================================================================
