--------------------------- MODULE MediaSyncProofs ---------------------------
(***************************************************************************)
(* Proofs about MediaSync for any set of paths and any bounds.             *)
(***************************************************************************)
EXTENDS MediaSync, TLAPS

-----------------------------------------------------------------------------
(* The values the steps are built from.                                     *)

\* The constant records and those made of typed parts have their types.
LEMMA ValueTypes ==
    /\ NoFile \in Files /\ NoStat \in Stats
    /\ NoObject \in Objects /\ NoEntry \in Entries
    /\ \A id \in Nat, wr \in BOOLEAN : RealFile(id, wr) \in Files
    /\ \A etag \in Nat, size \in 0..Full : StubFile(etag, size) \in Files
    /\ \A f \in Files : Stat(f) \in Stats
    /\ \A o \in Objects : Listed(o) \in Entries
BY DEF NoFile, NoStat, NoObject, NoEntry, RealFile, StubFile, Stat, Listed,
       Files, Stats, Objects, Entries, Full

\* A write creates objects.
LEMMA WrittenType ==
    ASSUME NEW size \in 0..Full, nextSeq \in Nat
    PROVE  Written(size) \subseteq Objects
BY DEF Written, Objects

\* Whatever status is written, what is kept of it is a status.
LEMMA KeptType == \A s : KeptStatus(s) \in Statuses
BY DEF KeptStatus, Statuses, Uncertain

LEMMA StatusType ==
    ASSUME media \in [Paths -> Statuses], NEW p, NEW s
    PROVE  Status(p, s) \in [Paths -> Statuses]
BY KeptType DEF Status

LEMMA NoJobType == NoJob \in Jobs /\ NoJob.path = None
BY ValueTypes DEF NoJob, Jobs

\* A step that is done with its path leaves the typed state typed.
LEMMA DoneType ==
    ASSUME NEW m \in [Paths -> Statuses], Done(m)
    PROVE  /\ media' \in [Paths -> Statuses]
           /\ job' \in Jobs
           /\ pc' \in Labels
           /\ (job'.path = None) <=> (pc' \in Idle)
BY NoJobType DEF Done, Go, Labels, Idle

-----------------------------------------------------------------------------
LEMMA TypeInit == Init => TypeOK
<1> SUFFICES ASSUME Init PROVE TypeOK
  OBVIOUS
<1> USE DEF Init, WorldInit, ServiceInit
<1>1. WorldTypeOK
  <2>1. local \in [Paths -> Files] /\ remote \in [Paths -> Objects]
    BY ValueTypes
  <2>2. nextId \in Nat \ {0} /\ nextSeq \in Nat \ {0}
    OBVIOUS
  <2>3. stray \subseteq Requests /\ calm \in BOOLEAN
    OBVIOUS
  <2> QED
    BY <2>1, <2>2, <2>3 DEF WorldTypeOK
<1>2. saved \in [Paths -> Statuses] /\ media \in [Paths -> Statuses]
  BY DEF Untracked, Statuses
<1>3. pc \in Labels /\ (Here = None <=> pc \in Idle)
  BY NoJobType DEF Labels, Idle, Here
<1>4. snap \in [Paths -> Entries] /\ scan \in [Paths -> Stats]
  BY ValueTypes DEF NothingListed, NothingScanned
<1>5. job \in Jobs
  BY NoJobType
<1> QED
  BY <1>1, <1>2, <1>3, <1>4, <1>5 DEF TypeOK

-----------------------------------------------------------------------------
(* A step keeps the types: first what most steps have in common.            *)

\* What is known while a path is in hand.
LEMMA InHand ==
    ASSUME TypeOK, pc \notin Idle
    PROVE  /\ Here \in Paths
           /\ local[Here] \in Files
           /\ Stat(local[Here]) \in Stats
           /\ remote[Here] \in Objects
           /\ Listed(remote[Here]) \in Entries
BY ValueTypes DEF TypeOK, WorldTypeOK, Jobs, Here

\* Jobs with one of their fields changed.
LEMMA JobFields ==
    ASSUME job \in Jobs
    PROVE  /\ \A f \in Stats : [job EXCEPT !.file = f] \in Jobs
           /\ \A f \in Stats : [job EXCEPT !.src = f] \in Jobs
           /\ \A e \in Entries : [job EXCEPT !.ent = e] \in Jobs
           /\ \A n \in Nat : [job EXCEPT !.horizon = n] \in Jobs
           /\ \A q \in {"none", "sent", "stored", "cut", "refused"} : [job EXCEPT !.req = q] \in Jobs
           /\ \A d \in {"materialize", "upload", "recover"} :
                 /\ [job EXCEPT !.mode = d] \in Jobs
                 /\ \A e \in Entries : [job EXCEPT !.mode = d, !.ent = e] \in Jobs
BY DEF Jobs

LEMMA ExamineType ==
    ASSUME TypeOK, pc \notin Idle
    PROVE  Examine(job) \in Jobs /\ Examine(job).path = job.path
BY InHand DEF Examine, Files, Jobs, TypeOK, WorldTypeOK, Here

\* A step of the service on one path: only these five variables have to be looked at.
LEMMA WorkStep ==
    ASSUME TypeOK, UNCHANGED <<world, pass>>,
           saved' \in [Paths -> Statuses],
           media' \in [Paths -> Statuses],
           snap' \in [Paths -> Entries],
           dirty' \in BOOLEAN,
           job' \in Jobs, pc' \in Labels, (job'.path = None) <=> (pc' \in Idle)
    PROVE  TypeOK'
BY DEF TypeOK, WorldTypeOK, world, pass, Here

\* The step is done with the path, or goes on to another call for it.
LEMMA DoneStep ==
    ASSUME TypeOK, UNCHANGED <<world, pass>>, NEW m \in [Paths -> Statuses], Done(m),
           saved' \in [Paths -> Statuses], snap' \in [Paths -> Entries], dirty' \in BOOLEAN
    PROVE  TypeOK'
BY WorkStep, DoneType

LEMMA FinishStep ==
    ASSUME TypeOK, UNCHANGED <<world, pass>>, (\E s : Done(Status(Here, s))) \/ Done(media),
           saved' \in [Paths -> Statuses], snap' \in [Paths -> Entries], dirty' \in BOOLEAN
    PROVE  TypeOK'
<1>1. CASE Done(media)
  BY <1>1, DoneStep DEF TypeOK
<1>2. CASE \E s : Done(Status(Here, s))
  <2>1. PICK s : Done(Status(Here, s))
    BY <1>2
  <2>2. Status(Here, s) \in [Paths -> Statuses]
    BY StatusType DEF TypeOK
  <2> QED
    BY <2>1, <2>2, DoneStep
<1> QED
  BY <1>1, <1>2

LEMMA GoOnStep ==
    ASSUME TypeOK, UNCHANGED <<world, pass>>, pc \notin Idle,
           saved' \in [Paths -> Statuses], media' \in [Paths -> Statuses],
           snap' \in [Paths -> Entries], dirty' \in BOOLEAN,
           job' \in Jobs, job'.path = job.path, pc' \in Labels \ Idle
    PROVE  TypeOK'
BY WorkStep DEF TypeOK, Here

LEMMA AbandonStep == ASSUME TypeOK, Abandon PROVE TypeOK'
BY FinishStep DEF Abandon, TypeOK, pass

-----------------------------------------------------------------------------
(* The steps of the world keep the types.                                   *)

LEMMA LibraryType ==
    ASSUME TypeOK, NEW p \in Paths, LibraryChanges(p)
    PROVE  TypeOK'
<1>1. [job EXCEPT !.src.id = 0] \in Jobs /\ [job EXCEPT !.src.id = 0].path = job.path
  BY DEF TypeOK, Jobs, Stats
<1>2. local' \in [Paths -> Files] /\ nextId' \in Nat \ {0}
  <2>1. CASE WriteInPlace(p)
    <3>1. [local[p] EXCEPT !.id = nextId] \in Files
      BY DEF TypeOK, WorldTypeOK, Files
    <3> QED
      BY <2>1, <3>1 DEF WriteInPlace, TypeOK, WorldTypeOK
  <2>2. CASE Download(p)
    BY <2>2, ValueTypes DEF Download, TypeOK, WorldTypeOK
  <2>3. CASE Chmod(p) \/ BreakMarker(p)
    <3>1. /\ [local[p] EXCEPT !.wr = ~@] \in Files
          /\ [local[p] EXCEPT !.kind = "broken"] \in Files
      BY DEF TypeOK, WorldTypeOK, Files
    <3> QED
      BY <2>3, <3>1 DEF Chmod, BreakMarker, TypeOK, WorldTypeOK
  <2>4. CASE DeleteLocal(p) \/ MoveStubIn(p)
    <3>1. StubFile(0, Full) \in Files
      BY ValueTypes DEF Full
    <3> QED
      BY <2>4, <3>1, ValueTypes DEF DeleteLocal, MoveStubIn, TypeOK, WorldTypeOK
  <2> QED
    BY <2>1, <2>2, <2>3, <2>4 DEF LibraryChanges, Overwrite, ReplaceOrTouch
<1>3. UNCHANGED <<remote, stray, nextSeq, calm>>
  BY DEF LibraryChanges, Overwrite, ReplaceOrTouch, WriteInPlace, Download, DeleteLocal,
         Chmod, BreakMarker, MoveStubIn
<1>4. job' \in Jobs /\ job'.path = job.path
  <2>1. job' = job \/ job' = [job EXCEPT !.src.id = 0]
    BY DEF LibraryChanges, Overwrite
  <2> QED
    BY <1>1, <2>1 DEF TypeOK
<1>5. UNCHANGED <<saved, media, pc, pass, snap, dirty>>
  BY DEF LibraryChanges
<1> QED
  BY <1>2, <1>3, <1>4, <1>5 DEF TypeOK, WorldTypeOK, pass, Here

LEMMA RemoteType ==
    ASSUME TypeOK, \/ \E p \in Paths : RemoteChanges(p)
                   \/ StraysSettle
    PROVE  TypeOK'
<1>1. Written(Cut) \cup Written(Full) \subseteq Objects
  BY WrittenType DEF TypeOK, WorldTypeOK, Cut, Full
<1>2. remote' \in [Paths -> Objects] /\ nextSeq' \in Nat \ {0} /\ stray' \subseteq Requests
  <2>1. ASSUME NEW p \in Paths, RemoteChanges(p)
        PROVE  remote' \in [Paths -> Objects] /\ nextSeq' \in Nat \ {0} /\ stray' \subseteq Requests
    <3>1. CASE RemotePut(p)
      BY <1>1, <3>1 DEF RemotePut, TypeOK, WorldTypeOK
    <3>2. CASE RemoteDelete(p)
      BY <3>2, ValueTypes DEF RemoteDelete, TypeOK, WorldTypeOK
    <3> QED
      BY <2>1, <3>1, <3>2 DEF RemoteChanges, RemoteSide
  <2>2. ASSUME NEW r \in stray, StrayLands(r)
        PROVE  remote' \in [Paths -> Objects] /\ nextSeq' \in Nat \ {0} /\ stray' \subseteq Requests
    <3>1. PICK o \in Objects : remote' = [remote EXCEPT ![r.path] = o]
      BY <1>1, <2>2 DEF StrayLands
    <3>2. nextSeq' = nextSeq + 1 /\ stray' = stray \ {r}
      BY <2>2 DEF StrayLands
    <3>3. remote' \in [Paths -> Objects]
      BY <3>1 DEF TypeOK, WorldTypeOK
    <3> QED
      BY <3>2, <3>3 DEF TypeOK, WorldTypeOK
  <2>3. ASSUME NEW r \in stray, StrayDropped(r)
        PROVE  remote' \in [Paths -> Objects] /\ nextSeq' \in Nat \ {0} /\ stray' \subseteq Requests
    BY <2>3 DEF StrayDropped, TypeOK, WorldTypeOK
  <2> QED
    BY <2>1, <2>2, <2>3 DEF StraysSettle, StraySettles
<1>3. UNCHANGED <<local, nextId, calm, saved, service>>
  BY DEF RemoteChanges, RemoteSide, RemotePut, RemoteDelete, StraysSettle, StraySettles,
         StrayLands, StrayDropped
<1> QED
  BY <1>2, <1>3 DEF TypeOK, WorldTypeOK, service, Here

LEMMA CalmType == ASSUME TypeOK, CalmDown PROVE TypeOK'
BY DEF TypeOK, WorldTypeOK, CalmDown, BecomeCalm, pass, Here

\* A server works on the request of the path in hand.
LEMMA ServerType == ASSUME TypeOK, Server PROVE TypeOK'
<1>1. pc = "put" /\ pc \notin Idle /\ UNCHANGED <<local, stray, nextId, calm, saved, media, pc, pass, snap, dirty>>
  BY DEF Server, ServerStores, ServerCuts, ServerRefuses, Idle, world
<1>2. job.src.size \in 0..Full
  BY DEF TypeOK, Jobs, Stats
<1>3. Written(job.src.size) \subseteq Objects /\ Written(Cut) \subseteq Objects
  BY <1>2, WrittenType DEF TypeOK, WorldTypeOK, Cut, Full
<1>4. job' \in Jobs /\ job'.path = job.path
  <2>1. PICK q \in {"stored", "cut", "refused"} : job' = [job EXCEPT !.req = q]
    BY DEF Server, ServerStores, ServerCuts, ServerRefuses
  <2>2. [job EXCEPT !.req = q] \in Jobs /\ [job EXCEPT !.req = q].path = job.path
    BY DEF TypeOK, Jobs
  <2> QED
    BY <2>1, <2>2
<1>5. remote' \in [Paths -> Objects] /\ nextSeq' \in Nat \ {0}
  BY <1>1, <1>3, InHand DEF Server, ServerStores, ServerCuts, ServerRefuses, world, TypeOK, WorldTypeOK
<1> QED
  BY <1>1, <1>4, <1>5 DEF TypeOK, WorldTypeOK, pass, Here

\* Whether the service ends by itself or is killed, nothing but the disk remains.
LEMMA HaltType ==
    ASSUME TypeOK, Halt, UNCHANGED <<local, remote, nextId, nextSeq, calm>>,
           stray' \subseteq Requests, saved' \in [Paths -> Statuses]
    PROVE  TypeOK'
<1>1. Untracked \in [Paths -> Statuses] /\ NothingListed \in [Paths -> Entries]
      /\ NothingScanned \in [Paths -> Stats]
  BY ValueTypes DEF Untracked, NothingListed, NothingScanned, Statuses
<1>2. pc' \in Labels /\ pc' \in Idle
  BY DEF Halt, Go, Labels, Idle
<1> QED
  BY <1>1, <1>2, NoJobType DEF Halt, TypeOK, WorldTypeOK, Here

LEMMA StopType == ASSUME TypeOK, Stop PROVE TypeOK'
<1>1. CASE Crash
  <2>1. stray' \subseteq Requests
    <3>1. CASE pc = "put"
      <4>1. StrayRequest \in Requests
        BY <3>1, InHand DEF TypeOK, Jobs, StrayRequest, Requests, Idle, Here
      <4> QED
        BY <1>1, <4>1 DEF Crash, Stranded, TypeOK, WorldTypeOK
    <3>2. CASE pc # "put"
      BY <1>1, <3>2 DEF Crash, Stranded, TypeOK, WorldTypeOK
    <3> QED
      BY <3>1, <3>2
  <2> QED
    BY <1>1, <2>1, HaltType DEF Crash, TypeOK
<1>2. CASE Shutdown
  BY <1>2, HaltType DEF Shutdown, TypeOK, WorldTypeOK, world
<1> QED
  BY <1>1, <1>2 DEF Stop

-----------------------------------------------------------------------------
(* The steps of the service keep the types.                                 *)

LEMMA StartType == ASSUME TypeOK, Start PROVE TypeOK'
BY DEF Start, Go, TypeOK, WorldTypeOK, world, Labels, Idle, Here

LEMMA TickType == ASSUME TypeOK, PollTick \/ Debounce PROVE TypeOK'
BY DEF PollTick, Debounce, Go, TypeOK, WorldTypeOK, world, Labels, Idle, Here

\* The scans and the end of a pass.
LEMMA PassType ==
    ASSUME TypeOK, ScanRemote \/ ScanLocal \/ ScanFails \/ FinishPass
    PROVE  TypeOK'
<1>1. CASE ScanRemote
  <2>1. snap' \in [Paths -> Entries] /\ dups' \subseteq Paths
    BY <1>1, ValueTypes DEF ScanRemote, TypeOK, WorldTypeOK
  <2>2. pc' = "scan-local" /\ pc' \in Labels /\ pc' \in Idle /\ pc \in Idle
    BY <1>1 DEF ScanRemote, Go, Labels, Idle
  <2> QED
    BY <1>1, <2>1, <2>2 DEF ScanRemote, TypeOK, WorldTypeOK, world, Here
<1>2. CASE ScanLocal
  <2>1. pc' \in Labels /\ pc' \in Idle /\ pc \in Idle
    BY <1>2 DEF ScanLocal, Go, Labels, Idle
  <2>2. scan' \in [Paths -> Stats] /\ scanned' \in Nat /\ todo' \subseteq Paths /\ initial' \in BOOLEAN
    BY <1>2, ValueTypes DEF ScanLocal, TypeOK, WorldTypeOK
  <2> QED
    BY <1>2, <2>1, <2>2 DEF ScanLocal, TypeOK, WorldTypeOK, world, Here
<1>3. CASE ScanFails
  <2>1. UNCHANGED <<world, saved>> /\ pc \in Idle
    BY <1>3 DEF ScanFails, Idle
  <2>2. CASE initial /\ Halt
    BY <2>1, <2>2, HaltType DEF TypeOK, WorldTypeOK, world
  <2>3. CASE ~(initial /\ Halt)
    BY <1>3, <2>1, <2>3 DEF ScanFails, Go, TypeOK, WorldTypeOK, world, Labels, Idle, Here
  <2> QED
    BY <2>2, <2>3
<1>4. CASE FinishPass
  <2>1. pc' \in Labels /\ pc' \in Idle /\ pc \in Idle
    BY <1>4 DEF FinishPass, Go, Labels, Idle
  <2>2. NothingScanned \in [Paths -> Stats] /\ saved' \in [Paths -> Statuses]
    BY <1>4, ValueTypes DEF FinishPass, NothingScanned, TypeOK
  <2> QED
    BY <1>4, <2>1, <2>2 DEF FinishPass, TypeOK, WorldTypeOK, world, Here
<1> QED
  BY <1>1, <1>2, <1>3, <1>4

LEMMA TakeType == ASSUME TypeOK, NEW p \in Paths, SkipDuplicate(p) \/ TakeAbsent(p) \/ TakePresent(p)
                  PROVE  TypeOK'
<1>1. pc = "next" /\ pc \in Idle /\ Here = None
  BY DEF SkipDuplicate, TakeAbsent, TakePresent, Take, Idle, TypeOK
<1>2. UNCHANGED <<world, saved, initial, poll, dirty, snap, dups, scanned>>
      /\ todo' \subseteq Paths /\ scan' \in [Paths -> Stats]
  BY ValueTypes DEF SkipDuplicate, TakeAbsent, TakePresent, Take, TypeOK
<1>3. media' \in [Paths -> Statuses]
  BY StatusType DEF SkipDuplicate, TakeAbsent, TakePresent, TypeOK
<1>4. JobFor(p) \in Jobs /\ JobFor(p).path = p
  BY ValueTypes DEF JobFor, NoJob, Jobs, TypeOK
<1>5. \/ pc' = pc /\ job' = job
      \/ pc' \in Labels \ Idle /\ job' = JobFor(p)
  BY DEF SkipDuplicate, TakeAbsent, TakePresent, Go, Labels, Idle
<1>6. p # None
  BY WorldAssumption
<1> QED
  BY <1>1, <1>2, <1>3, <1>4, <1>5, <1>6 DEF TypeOK, WorldTypeOK, world, Here

LEMMA InspectType ==
    ASSUME TypeOK, InspectFails \/ InspectInvalid \/ InspectUnmarked \/ InspectStub \/ Access
    PROVE  TypeOK'
<1>1. CASE Abandon
  BY <1>1, AbandonStep
<1>2. CASE ~Abandon
  <2>1. pc \notin Idle /\ UNCHANGED <<world, saved, pass, snap, dirty>>
    BY <1>2 DEF InspectFails, InspectInvalid, InspectUnmarked, InspectStub, Access, Idle
  <2>2. \/ \E s : Done(Status(Here, s))
        \/ Done(media)
        \/ /\ job' = Examine(job) /\ media' = media
           /\ pc' \in {"access", "recheck", "probe", "confirm"}
    BY <1>2 DEF InspectFails, InspectInvalid, InspectUnmarked, InspectStub, Access, Go
  <2>4. CASE (\E s : Done(Status(Here, s))) \/ Done(media)
    BY <2>1, <2>4, FinishStep DEF TypeOK
  <2>5. CASE /\ job' = Examine(job) /\ media' = media
             /\ pc' \in {"access", "recheck", "probe", "confirm"}
    <3>1. pc' \in Labels \ Idle
      BY <2>5 DEF Labels, Idle
    <3>2. job' \in Jobs /\ job'.path = job.path
      BY <2>1, <2>5, ExamineType
    <3> QED
      BY <2>1, <2>5, <3>1, <3>2, GoOnStep DEF TypeOK
  <2> QED
    BY <2>2, <2>4, <2>5
<1> QED
  BY <1>1, <1>2

\* The calls that leave the disk, the state file and the remote alone and go on.
LEMMA LookType ==
    ASSUME TypeOK, \/ RecheckAbsent \/ RecheckFound \/ RemoteStatFails
                   \/ RecoverAbsent \/ RecoverFound \/ RecoverFails
                   \/ Settle \/ SettleFails \/ OpenSource \/ OpenFails
                   \/ ConfirmMissing \/ ConfirmPresent
    PROVE  TypeOK'
<1>0. CASE Abandon
  BY <1>0, AbandonStep
<1>1. CASE OpenFails
  BY <1>0, <1>1, FinishStep DEF OpenFails, TypeOK
<1>2. CASE RecheckAbsent \/ RecoverAbsent \/ ConfirmMissing
  <2>1. [job EXCEPT !.horizon = nextSeq] \in Jobs /\ [job EXCEPT !.horizon = nextSeq].path = job.path
    BY DEF TypeOK, WorldTypeOK, Jobs
  <2>2. pc \notin Idle /\ pc' \in Labels \ Idle /\ UNCHANGED <<world, saved, media, pass, snap, dirty>>
    BY <1>2 DEF RecheckAbsent, RecoverAbsent, ConfirmMissing, Go, Labels, Idle
  <2>3. job' = [job EXCEPT !.horizon = nextSeq]
    BY <1>2 DEF RecheckAbsent, RecoverAbsent, ConfirmMissing
  <2> QED
    BY <2>1, <2>2, <2>3, GoOnStep DEF TypeOK
<1>3. CASE RecheckFound
  <2>1. pc \notin Idle /\ pc' \in Labels \ Idle /\ UNCHANGED <<world, saved, media, pass, dirty>>
    BY <1>3 DEF RecheckFound, Go, Labels, Idle
  <2>2. Listed(remote[Here]) \in Entries
    BY <2>1, InHand
  <2>3. job' \in Jobs /\ job'.path = job.path
    BY <1>3, <2>2 DEF RecheckFound, TypeOK, Jobs
  <2>4. snap' \in [Paths -> Entries]
    BY <1>3, <2>2 DEF RecheckFound, TypeOK
  <2> QED
    BY <2>1, <2>3, <2>4, GoOnStep DEF TypeOK
<1>4. CASE RecoverFound
  <2>1. pc \notin Idle /\ pc' \in Labels \ Idle /\ UNCHANGED <<world, saved, media, pass, snap, dirty>>
    BY <1>4 DEF RecoverFound, Go, Labels, Idle
  <2>2. Listed(remote[Here]) \in Entries
    BY <2>1, InHand
  <2>3. job' \in Jobs /\ job'.path = job.path
    BY <1>4, <2>2 DEF RecoverFound, TypeOK, Jobs
  <2> QED
    BY <2>1, <2>3, GoOnStep DEF TypeOK
<1>5. CASE Settle \/ OpenSource
  <2>1. pc \notin Idle /\ pc' \in Labels \ Idle /\ UNCHANGED <<world, saved, media, pass, snap, dirty>>
    BY <1>5 DEF Settle, OpenSource, Go, Labels, Idle
  <2>2. Stat(local[Here]) \in Stats
    BY <2>1, InHand
  <2>3. job' \in Jobs /\ job'.path = job.path
    BY <1>5, <2>2 DEF Settle, OpenSource, TypeOK, Jobs
  <2> QED
    BY <2>1, <2>3, GoOnStep DEF TypeOK
<1> QED
  BY <1>0, <1>1, <1>2, <1>3, <1>4, <1>5
     DEF RemoteStatFails, RecoverFails, SettleFails, ConfirmPresent

\* The calls that write state.json, and the answers of a PUT.
LEMMA UploadType ==
    ASSUME TypeOK, \/ Pend \/ MarkUploading \/ PutReplies \/ PutFails
                   \/ VerifyFound \/ VerifyFails \/ Complete \/ CompleteFails
    PROVE  TypeOK'
<1>0. pc \notin Idle
  BY DEF Pend, MarkUploading, PutReplies, PutFails, VerifyFound, VerifyFails, Complete,
         CompleteFails, Idle
<1>1. \A s : Status(Here, s) \in [Paths -> Statuses]
  BY StatusType DEF TypeOK
<1>2. CASE Pend
  <2>1. CASE (\E s : Done(Status(Here, s))) /\ saved' = saved
    BY <1>2, <2>1, FinishStep DEF Pend, TypeOK
  <2>2. CASE ~((\E s : Done(Status(Here, s))) /\ saved' = saved)
    <3>1. media' = Status(Here, "pending-upload") /\ saved' = media' /\ pc' \in Labels \ Idle
      BY <1>2, <2>2 DEF Pend, Go, Labels, Idle
    <3>2. UNCHANGED <<world, pass, snap, dirty, job>>
      BY <1>2, <2>2 DEF Pend
    <3> QED
      BY <1>0, <1>1, <3>1, <3>2, GoOnStep DEF TypeOK
  <2> QED
    BY <2>1, <2>2
<1>3. CASE MarkUploading
  <2>1. CASE (\E s : Done(Status(Here, s))) /\ saved' = saved
    BY <1>3, <2>1, FinishStep DEF MarkUploading, TypeOK
  <2>2. CASE ~((\E s : Done(Status(Here, s))) /\ saved' = saved)
    <3>1. media' = Status(Here, "uploading") /\ saved' = media' /\ pc' \in Labels \ Idle
      BY <1>3, <2>2 DEF MarkUploading, Go, Labels, Idle
    <3>2. UNCHANGED <<world, pass, snap, dirty>> /\ job' = [job EXCEPT !.req = "sent"]
      BY <1>3, <2>2 DEF MarkUploading
    <3>3. job' \in Jobs /\ job'.path = job.path
      BY <3>2 DEF TypeOK, Jobs
    <3> QED
      BY <1>0, <1>1, <3>1, <3>2, <3>3, GoOnStep DEF TypeOK
  <2> QED
    BY <2>1, <2>2
<1>4. CASE PutReplies
  <2>1. pc' \in Labels \ Idle /\ UNCHANGED <<world, saved, media, pass, snap, dirty, job>>
    BY <1>4 DEF PutReplies, Go, Labels, Idle
  <2> QED
    BY <1>0, <2>1, GoOnStep DEF TypeOK
<1>5. CASE PutFails
  <2>1. PICK s : Done(Status(Here, s))
    BY <1>5 DEF PutFails
  <2>2. UNCHANGED <<local, remote, nextId, nextSeq, calm, saved, pass, snap, dirty>>
    BY <1>5 DEF PutFails
  <2>3. stray' \subseteq Requests
    <3>1. StrayRequest \in Requests
      BY <1>0, InHand DEF TypeOK, Jobs, StrayRequest, Requests, Here
    <3> QED
      BY <1>5, <3>1 DEF PutFails, Stranded, TypeOK, WorldTypeOK
  <2>4. /\ media' \in [Paths -> Statuses] /\ job' \in Jobs /\ pc' \in Labels
        /\ (job'.path = None) <=> (pc' \in Idle)
    BY <1>1, <2>1, DoneType
  <2> QED
    BY <2>2, <2>3, <2>4 DEF TypeOK, WorldTypeOK, pass, Here
<1>6. CASE VerifyFound
  <2>1. pc' \in Labels \ Idle /\ UNCHANGED <<world, saved, media, pass, snap, dirty>>
    BY <1>6 DEF VerifyFound, Go, Labels, Idle
  <2>2. Listed(remote[Here]) \in Entries
    BY <1>0, InHand
  <2>3. job' \in Jobs /\ job'.path = job.path
    BY <1>6, <2>2 DEF VerifyFound, TypeOK, Jobs
  <2> QED
    BY <1>0, <2>1, <2>3, GoOnStep DEF TypeOK
<1>7. CASE VerifyFails \/ CompleteFails
  <2>1. (\E s : Done(Status(Here, s))) \/ Done(media)
    BY <1>7 DEF VerifyFails, CompleteFails
  <2>2. UNCHANGED <<world, saved, pass, snap, dirty>>
    BY <1>7 DEF VerifyFails, CompleteFails
  <2> QED
    BY <2>1, <2>2, FinishStep DEF TypeOK
<1>8. CASE Complete
  <2>1. snap' \in [Paths -> Entries] /\ UNCHANGED <<world, pass, dirty>>
    BY <1>8 DEF Complete, TypeOK, Jobs
  <2>2. saved' \in [Paths -> Statuses]
    BY <1>8 DEF Complete, TypeOK
  <2>3. \/ Done(media)
        \/ pc' \in Labels \ Idle /\ UNCHANGED <<media, job>>
    BY <1>8 DEF Complete, Go, Labels, Idle
  <2> QED
    BY <1>0, <2>1, <2>2, <2>3, FinishStep, GoOnStep DEF TypeOK
<1> QED
  BY <1>2, <1>3, <1>4, <1>5, <1>6, <1>7, <1>8

\* The calls that replace a file by a stub, or remove it.
LEMMA ReplaceType ==
    ASSUME TypeOK, \/ Finalize \/ Guard \/ GuardFails \/ ProbeRemote \/ ProbeFails
                   \/ Rename \/ RenameFails \/ Record \/ RecordFails \/ RemoveUnit \/ RemoveFails
    PROVE  TypeOK'
<1>0. pc \notin Idle /\ UNCHANGED <<saved, snap, pass, remote, stray, nextId, nextSeq, calm>>
  BY DEF Finalize, Guard, GuardFails, ProbeRemote, ProbeFails, Rename, RenameFails, Record,
         RecordFails, RemoveUnit, RemoveFails, Abandon, Idle, world
<1>1. dirty' \in BOOLEAN
  BY DEF Finalize, Guard, GuardFails, ProbeRemote, ProbeFails, Rename, RenameFails, Record,
         RecordFails, RemoveUnit, RemoveFails, Abandon, TypeOK, WorldTypeOK
<1>2. local' \in [Paths -> Files]
  <2>1. CASE Rename
    <3>1. StubFile(job.ent.etag, StubSize) \in Files
      BY ValueTypes DEF TypeOK, Jobs, Entries, Stats, StubSize
    <3> QED
      BY <2>1, <3>1 DEF Rename, TypeOK, WorldTypeOK
  <2>2. CASE RemoveUnit
    BY <2>2, ValueTypes DEF RemoveUnit, TypeOK, WorldTypeOK
  <2>3. CASE ~Rename /\ ~RemoveUnit
    BY <2>3 DEF Finalize, Guard, GuardFails, ProbeRemote, ProbeFails, RenameFails, Record,
           RecordFails, RemoveFails, Abandon, world, TypeOK, WorldTypeOK
  <2> QED
    BY <2>1, <2>2, <2>3
<1>3. /\ media' \in [Paths -> Statuses] /\ job' \in Jobs /\ pc' \in Labels
      /\ (job'.path = None) <=> (pc' \in Idle)
  <2>1. CASE (\E s : Done(Status(Here, s))) \/ Done(media)
    <3>1. PICK m \in [Paths -> Statuses] : Done(m)
      BY <2>1, StatusType DEF TypeOK
    <3> QED
      BY <3>1, DoneType
  <2>2. CASE ~((\E s : Done(Status(Here, s))) \/ Done(media))
    <3>1. /\ media' = media /\ pc' \in Labels \ Idle
          /\ job' \in {job, Examine(job), [job EXCEPT !.mode = "materialize"]}
      BY <2>2 DEF Finalize, Guard, GuardFails, ProbeRemote, ProbeFails, Rename, RenameFails,
             Record, RecordFails, RemoveUnit, RemoveFails, Abandon, Go, Labels, Idle
    <3>2. job' \in Jobs /\ job'.path = job.path
      BY <1>0, <3>1, ExamineType DEF TypeOK, Jobs
    <3> QED
      BY <1>0, <3>1, <3>2 DEF TypeOK, Here
  <2> QED
    BY <2>1, <2>2
<1> QED
  BY <1>0, <1>1, <1>2, <1>3 DEF TypeOK, WorldTypeOK, pass, Here

-----------------------------------------------------------------------------
LEMMA TypeStep == TypeOK /\ [Next]_vars => TypeOK'
<1> SUFFICES ASSUME TypeOK, [Next]_vars PROVE TypeOK'
  OBVIOUS
<1>1. CASE UNCHANGED vars
  BY <1>1 DEF vars, world, service, TypeOK, WorldTypeOK, Here
<1>2. CASE Service
  <2>1. CASE Start \/ PollTick \/ Debounce
    BY <2>1, StartType, TickType
  <2>2. CASE ScanRemote \/ ScanLocal \/ ScanFails \/ FinishPass
    BY <2>2, PassType
  <2>3. CASE TakeNext
    BY <2>3, TakeType DEF TakeNext
  <2>4. CASE InspectFails \/ InspectInvalid \/ InspectUnmarked \/ InspectStub \/ Access
    BY <2>4, InspectType
  <2>5. CASE \/ RecheckAbsent \/ RecheckFound \/ RemoteStatFails
             \/ RecoverAbsent \/ RecoverFound \/ RecoverFails
             \/ Settle \/ SettleFails \/ OpenSource \/ OpenFails
             \/ ConfirmMissing \/ ConfirmPresent
    BY <2>5, LookType
  <2>6. CASE \/ Pend \/ MarkUploading \/ PutReplies \/ PutFails
             \/ VerifyFound \/ VerifyFails \/ Complete \/ CompleteFails
    BY <2>6, UploadType
  <2>7. CASE \/ Finalize \/ Guard \/ GuardFails \/ ProbeRemote \/ ProbeFails
             \/ Rename \/ RenameFails \/ Record \/ RecordFails \/ RemoveUnit \/ RemoveFails
    BY <2>7, ReplaceType
  <2> QED
    BY <1>2, <2>1, <2>2, <2>3, <2>4, <2>5, <2>6, <2>7 DEF Service
<1>3. CASE Server
  BY <1>3, ServerType
<1>4. CASE Stop
  BY <1>4, StopType
<1>5. CASE World
  BY <1>5, LibraryType, RemoteType, CalmType DEF World
<1> QED
  BY <1>1, <1>2, <1>3, <1>4, <1>5 DEF Next

\* The type invariant: every variable keeps its type, and a path is in hand
\* exactly while the service is at a call for one, whatever fails or crashes.
THEOREM TypeCorrect == Spec => []TypeOK
<1>1. Init => TypeOK
  BY TypeInit
<1>2. TypeOK /\ [Next]_vars => TypeOK'
  BY TypeStep
<1> QED
  BY <1>1, <1>2, PTL DEF Spec

-----------------------------------------------------------------------------
(* The write-ahead mark of an upload.                                       *)

\* A request is in the server's hands only after MarkUploading, or still.
LEMMA PutReached ==
    ASSUME TypeOK, [Next]_vars, pc' = "put"
    PROVE  \/ MarkUploading
           \/ pc = "put" /\ saved' = saved /\ job'.path = job.path
<1>1. CASE UNCHANGED vars
  BY <1>1 DEF vars, service
<1>2. CASE Service /\ ~MarkUploading
  <2>1. CASE Abandon \/ (\E m : Done(m))
    BY <2>1 DEF Abandon, Done, Go
  <2>2. CASE ~Abandon /\ ~(\E m : Done(m))
    <3>1. CASE \/ Start \/ PollTick \/ Debounce \/ ScanRemote \/ ScanLocal \/ ScanFails \/ FinishPass
      BY <3>1 DEF Start, PollTick, Debounce, ScanRemote, ScanLocal, ScanFails, FinishPass, Halt, Go
    <3>2. CASE TakeNext
      BY <3>2 DEF TakeNext, Take, SkipDuplicate, TakeAbsent, TakePresent, Go
    <3>3. CASE \/ InspectFails \/ InspectInvalid \/ InspectUnmarked \/ InspectStub \/ Access
               \/ RecheckAbsent \/ RecheckFound \/ RemoteStatFails
               \/ RecoverAbsent \/ RecoverFound \/ RecoverFails \/ ConfirmMissing \/ ConfirmPresent
      BY <2>2, <3>3 DEF InspectFails, InspectInvalid, InspectUnmarked, InspectStub, Access,
         RecheckAbsent, RecheckFound, RemoteStatFails, RecoverAbsent, RecoverFound, RecoverFails,
         ConfirmMissing, ConfirmPresent, Go
    <3>4. CASE \/ Pend \/ Settle \/ SettleFails \/ OpenSource \/ OpenFails
               \/ PutReplies \/ PutFails \/ VerifyFound \/ VerifyFails \/ Complete \/ CompleteFails
      BY <2>2, <3>4 DEF Pend, Settle, SettleFails, OpenSource, OpenFails, PutReplies, PutFails,
         VerifyFound, VerifyFails, Complete, CompleteFails, Go
    <3>5. CASE \/ Finalize \/ Guard \/ GuardFails \/ ProbeRemote \/ ProbeFails
               \/ Rename \/ RenameFails \/ Record \/ RecordFails \/ RemoveUnit \/ RemoveFails
      BY <2>2, <3>5 DEF Finalize, Guard, GuardFails, ProbeRemote, ProbeFails, Rename, RenameFails,
         Record, RecordFails, RemoveUnit, RemoveFails, Go
    <3> QED
      BY <1>2, <3>1, <3>2, <3>3, <3>4, <3>5 DEF Service
  <2> QED
    BY <2>1, <2>2
<1>3. CASE Server
  BY <1>3 DEF Server, ServerStores, ServerCuts, ServerRefuses, TypeOK, Jobs
<1>4. CASE Stop
  BY <1>4 DEF Stop, Crash, Shutdown, Halt, Go
<1>5. CASE World
  <2>1. ASSUME NEW p \in Paths, LibraryChanges(p)
        PROVE  pc' = pc /\ saved' = saved /\ job'.path = job.path
    <3>1. job' = job \/ job' = [job EXCEPT !.src.id = 0]
      BY <2>1 DEF LibraryChanges, Overwrite
    <3>2. [job EXCEPT !.src.id = 0].path = job.path
      BY DEF TypeOK, Jobs, Stats
    <3> QED
      BY <2>1, <3>1, <3>2 DEF LibraryChanges
  <2>2. ASSUME NEW p \in Paths, RemoteChanges(p)
        PROVE  pc' = pc /\ saved' = saved /\ job' = job
    BY <2>2 DEF RemoteChanges, service
  <2>3. ASSUME StraysSettle \/ CalmDown
        PROVE  pc' = pc /\ saved' = saved /\ job' = job
    BY <2>3 DEF StraysSettle, CalmDown, service
  <2> QED
    BY <1>5, <2>1, <2>2, <2>3 DEF World
<1> QED
  BY <1>1, <1>2, <1>3, <1>4, <1>5 DEF Next

LEMMA DurableStep == TypeOK /\ UploadIsDurable /\ [Next]_vars => UploadIsDurable'
<1> SUFFICES ASSUME TypeOK, UploadIsDurable, [Next]_vars, pc' = "put"
             PROVE  saved'[job'.path] = "uploading"
  BY DEF UploadIsDurable, Here
<1>1. CASE MarkUploading
  <2>1. pc \notin Idle
    BY <1>1 DEF MarkUploading, Idle
  <2>2. saved' = Status(Here, "uploading") /\ job' = [job EXCEPT !.req = "sent"]
    BY <1>1 DEF MarkUploading, Done, Go
  <2>3. Here \in Paths /\ job'.path = Here
    BY <2>1, <2>2, InHand DEF TypeOK, Jobs, Here
  <2> QED
    BY <2>2, <2>3 DEF Status, KeptStatus, TypeOK
<1>2. CASE pc = "put" /\ saved' = saved /\ job'.path = job.path
  BY <1>2 DEF UploadIsDurable, Here
<1> QED
  BY <1>1, <1>2, PutReached

\* Whenever a request is in the server's hands state.json says "uploading" for its
\* path, so that a process that dies looks for the object before it sends it again.
THEOREM UploadMarkDurable == Spec => []UploadIsDurable
<1>1. Init => UploadIsDurable
  BY DEF Init, ServiceInit, UploadIsDurable
<1>2. TypeOK /\ UploadIsDurable /\ [Next]_vars => UploadIsDurable'
  BY DurableStep
<1> QED
  BY <1>1, <1>2, TypeCorrect, PTL DEF Spec
=============================================================================
