-------------------------- MODULE MediaKnownProofs --------------------------
(***************************************************************************)
(* The proofs about what the media service knows when it acts, for any set *)
(* of paths and any bounds: that it never takes away a file with bytes of  *)
(* its own that it has known (NoKnownFileLost), and that uploads and       *)
(* removals act on a confirmed absence only (AbsenceIsConfirmed).          *)
(*                                                                         *)
(* Known files.  Identities are fresh: whatever comes to a path after the  *)
(* service last examined it has an identity of at least job.upto.  A file  *)
(* with a smaller one is therefore the very file that was examined, and    *)
(* what was learned of it then still holds of it.                          *)
(***************************************************************************)
EXTENDS MediaSyncProofs

\* A file with bytes of its own.
Bytes(f) == f.id # 0

\* What is at a path, was scanned or is held came into being before now.
Fresh ==
    /\ \A p \in Paths : local[p].id < nextId /\ scan[p].id < nextId
    /\ job.file.id < nextId
    /\ scanned <= nextId
    /\ job.upto <= nextId

\* A file with a valid marker has no bytes of its own.
StubsBare == \A p \in Paths : local[p].kind = "stub" => ~Bytes(local[p])

\* Where the scan found nothing, a file is newer than the scan.
ScanRecent ==
    \A p \in todo : scan[p] = NoStat /\ Bytes(local[p]) => local[p].id >= scanned

\* A file at the path in hand is the one last examined, or newer.
Looked ==
    pc \notin Idle \cup {"inspect"} /\ Bytes(local[Here]) /\ local[Here].id < job.upto =>
        job.seen.id = local[Here].id

\* Only a writable file is replaced, and no file found to have bytes is removed.
SeenFits ==
    /\ pc \in {"probe", "rename"} /\ job.seen.id # 0 => job.seen.wr
    /\ pc \in {"confirm", "remove"} => job.seen.id = 0

\* An upload that is being completed has been acknowledged.
Answered ==
    \/ pc = "verify"
    \/ pc \in {"complete", "finalize", "guard", "rename"} /\ job.mode = "upload"
    => job.req = "stored"

\* The bytes sent are those of the file at the path, if that one is still the
\* file the upload settled on, or has just been compared with it.
Sent(f) == job.src.id = f.id

Uploaded ==
    \/ pc \in {"mark", "put", "verify"}
    \/ pc \in {"complete", "finalize", "guard"} /\ job.mode = "upload"

SourceFits ==
    /\ Uploaded /\ Bytes(local[Here]) /\ job.file.id = local[Here].id => Sent(local[Here])
    /\ pc = "rename" /\ job.mode = "upload" /\ Bytes(local[Here]) /\ local[Here].id < job.upto =>
          Sent(local[Here])

KnownInv == Fresh /\ StubsBare /\ ScanRecent /\ Looked /\ SeenFits /\ Answered /\ SourceFits

-----------------------------------------------------------------------------
LEMMA KnownInit == Init => KnownInv
BY DEF Init, WorldInit, ServiceInit, KnownInv, Fresh, StubsBare, ScanRecent, Looked, SeenFits,
       Answered, SourceFits, Uploaded, Bytes, NoFile, NoStat, NothingScanned, NoJob, Idle

\* The part of the state the invariant is about stays as it is.
LEMMA KnownStutter ==
    ASSUME KnownInv, UNCHANGED <<local, nextId, pc, scan, scanned, todo, job>>
    PROVE  KnownInv'
BY DEF KnownInv, Fresh, StubsBare, ScanRecent, Looked, SeenFits, Answered, SourceFits, Uploaded,
       Sent, Here, Bytes

\* Once the service is done with a path, only the scan and the fresh identities matter.
LEMMA KnownDone ==
    ASSUME TypeOK, KnownInv, NEW m, Done(m), UNCHANGED <<nextId, scan, scanned, todo>>,
           \A p \in Paths : local'[p] = local[p] \/ ~Bytes(local'[p])
    PROVE  KnownInv'
<1>1. pc' = "next" /\ job' = NoJob
  BY DEF Done, Go
<1>2. Fresh'
  BY <1>1 DEF KnownInv, Fresh, NoJob, NoStat, Bytes, TypeOK, WorldTypeOK
<1>3. ScanRecent' /\ StubsBare'
  BY DEF KnownInv, ScanRecent, StubsBare, TypeOK
<1>4. (Looked /\ SeenFits /\ Answered /\ SourceFits)'
  BY <1>1 DEF Looked, SeenFits, Answered, SourceFits, Uploaded, Idle
<1> QED
  BY <1>2, <1>3, <1>4 DEF KnownInv

LEMMA KnownHalt ==
    ASSUME TypeOK, KnownInv, Halt, UNCHANGED <<local, nextId>>
    PROVE  KnownInv'
BY DEF Halt, Go, KnownInv, Fresh, StubsBare, ScanRecent, Looked, SeenFits, Answered, SourceFits,
       Uploaded, Idle, NoJob, NoStat, NothingScanned, TypeOK, WorldTypeOK

\* At a label without a path in hand the last four parts say nothing.
LEMMA KnownIdle ==
    ASSUME TypeOK, KnownInv, pc' \in Idle, job' = job,
           UNCHANGED <<local, nextId, scan, scanned, todo>>
    PROVE  KnownInv'
BY DEF KnownInv, Fresh, StubsBare, ScanRecent, Looked, SeenFits, Answered, SourceFits, Uploaded,
       Idle

-----------------------------------------------------------------------------
(* The steps of the world.                                                  *)

\* A path changes to what has no bytes of its own, or to a file with a fresh identity,
\* or keeps its file.
LEMMA LibraryFresh ==
    ASSUME TypeOK, NEW p \in Paths, LibraryChanges(p)
    PROVE  /\ nextId' \in {nextId, nextId + 1}
           /\ \A q \in Paths :
                 \/ ~Bytes(local'[q])
                 \/ local'[q].id = local[q].id
                 \/ q = p /\ local'[q].id = nextId /\ nextId' = nextId + 1
           /\ StubsBare => StubsBare'
           /\ UNCHANGED <<pc, scan, scanned, todo>>
<1>1. UNCHANGED <<pc, scan, scanned, todo>>
  BY DEF LibraryChanges, pass
<1>2. CASE WriteInPlace(p)
  BY <1>1, <1>2 DEF WriteInPlace, StubsBare, Bytes, TypeOK, WorldTypeOK, Files
<1>3. CASE Download(p)
  BY <1>1, <1>3 DEF Download, RealFile, StubsBare, TypeOK, WorldTypeOK
<1>4. CASE Chmod(p)
  BY <1>1, <1>4, SMTT(30) DEF Chmod, StubsBare, Bytes, TypeOK, WorldTypeOK, Files
<1>5. CASE DeleteLocal(p) \/ MoveStubIn(p)
  BY <1>1, <1>5 DEF DeleteLocal, MoveStubIn, NoFile, StubFile, StubsBare, Bytes, TypeOK, WorldTypeOK
<1>6. CASE BreakMarker(p)
  BY <1>1, <1>6, SMTT(30) DEF BreakMarker, StubsBare, Bytes, TypeOK, WorldTypeOK, Files
<1> QED
  BY <1>2, <1>3, <1>4, <1>5, <1>6 DEF LibraryChanges, Overwrite, ReplaceOrTouch

\* A write in place spoils an open source only if the file at the path is its file.
LEMMA LibraryJob ==
    ASSUME TypeOK, NEW p \in Paths, LibraryChanges(p)
    PROVE  /\ job'.path = job.path /\ job'.file = job.file /\ job'.seen = job.seen
           /\ job'.upto = job.upto /\ job'.mode = job.mode /\ job'.req = job.req
           /\ \/ job'.src = job.src
              \/ p = Here /\ local'[p].id = nextId
<1>1. CASE job' = job
  BY <1>1
<1>2. CASE job' # job
  <2>1. WriteInPlace(p) /\ Here = p /\ job' = [job EXCEPT !.src.id = 0]
    BY <1>2 DEF LibraryChanges, Overwrite
  <2>2. local'[p].id = nextId
    BY <2>1 DEF WriteInPlace, TypeOK, WorldTypeOK, Files
  <2> QED
    BY <2>1, <2>2 DEF TypeOK, Jobs
<1> QED
  BY <1>1, <1>2

LEMMA KnownLibrary ==
    ASSUME TypeOK, KnownInv, NEW p \in Paths, LibraryChanges(p)
    PROVE  KnownInv'
<1> USE LibraryFresh, LibraryJob
<1>0. /\ nextId \in Nat /\ scanned \in Nat /\ job.upto \in Nat /\ todo \subseteq Paths
      /\ \A q \in Paths : local[q].id \in Nat /\ scan[q].id \in Nat
      /\ job.file.id \in Nat
  BY DEF TypeOK, WorldTypeOK, Jobs, Files, Stats
<1>1. Fresh' /\ StubsBare'
  BY <1>0 DEF KnownInv, Fresh, Bytes
<1>2. ScanRecent'
  BY <1>0 DEF KnownInv, ScanRecent, Fresh, Bytes
<1>3. pc \notin Idle => Here \in Paths /\ Here' = Here
  BY InHand DEF Here
<1>4. Looked'
  BY <1>0, <1>3 DEF KnownInv, Looked, Fresh, Bytes, Idle, Here
<1>5. SeenFits' /\ Answered'
  BY DEF KnownInv, SeenFits, Answered
<1>6. SourceFits'
  <2>1. Uploaded' = Uploaded /\ (Uploaded => pc \notin Idle) /\ (pc = "rename" => pc \notin Idle)
    BY DEF Uploaded, Idle
  <2> QED
    BY <1>0, <1>3, <2>1 DEF KnownInv, SourceFits, Fresh, Sent, Bytes, Here
<1> QED
  BY <1>1, <1>2, <1>4, <1>5, <1>6 DEF KnownInv

-----------------------------------------------------------------------------
(* The steps of the service.                                                *)

LEMMA KnownPass ==
    ASSUME TypeOK, KnownInv,
           \/ Start \/ PollTick \/ Debounce \/ ScanRemote \/ ScanLocal \/ ScanFails \/ FinishPass
    PROVE  KnownInv'
<1>1. CASE Start \/ PollTick \/ Debounce \/ ScanRemote
  <2>1. pc' \in Idle /\ job' = job /\ UNCHANGED <<local, nextId, scan, scanned, todo>>
    BY <1>1 DEF Start, PollTick, Debounce, ScanRemote, Go, Idle, world
  <2> QED
    BY <2>1, KnownIdle
<1>2. CASE ScanLocal
  <2>1. pc' = "next" /\ job' = job /\ scan' = [p \in Paths |-> Stat(local[p])]
        /\ scanned' = nextId
        /\ UNCHANGED <<local, nextId>>
    BY <1>2 DEF ScanLocal, Go, world
  <2>2. Fresh'
    BY <2>1 DEF KnownInv, Fresh, Stat, TypeOK, WorldTypeOK
  <2>3. ScanRecent' /\ StubsBare'
    <3>1. \A p \in Paths : Stat(local[p]) = NoStat => ~Bytes(local[p])
      BY DEF Stat, NoStat, Bytes
    <3>2. todo' \subseteq Paths
      BY <1>2 DEF ScanLocal
    <3> QED
      BY <2>1, <3>1, <3>2 DEF KnownInv, ScanRecent, StubsBare, Bytes
  <2>4. (Looked /\ SeenFits /\ Answered /\ SourceFits)'
    BY <2>1 DEF Looked, SeenFits, Answered, SourceFits, Uploaded, Idle
  <2> QED
    BY <2>2, <2>3, <2>4 DEF KnownInv
<1>3. CASE ScanFails
  <2>1. CASE initial /\ Halt
    BY <1>3, <2>1, KnownHalt DEF ScanFails, world
  <2>2. CASE ~(initial /\ Halt)
    <3>1. pc' \in Idle /\ job' = job /\ UNCHANGED <<local, nextId, scan, scanned, todo>>
      BY <1>3, <2>2 DEF ScanFails, Go, Idle, world
    <3> QED
      BY <3>1, KnownIdle
  <2> QED
    BY <2>1, <2>2
<1>4. CASE FinishPass
  <2>1. pc' = "idle" /\ job' = job /\ scan' = NothingScanned /\ scanned' = 0
        /\ todo' = {} /\ UNCHANGED <<local, nextId>>
    BY <1>4 DEF FinishPass, Go, world
  <2>2. Fresh'
    BY <2>1 DEF KnownInv, Fresh, NothingScanned, NoStat, TypeOK, WorldTypeOK
  <2>3. ScanRecent' /\ StubsBare'
    BY <2>1 DEF KnownInv, ScanRecent, StubsBare
  <2>4. (Looked /\ SeenFits /\ Answered /\ SourceFits)'
    BY <2>1 DEF Looked, SeenFits, Answered, SourceFits, Uploaded, Idle
  <2> QED
    BY <2>2, <2>3, <2>4 DEF KnownInv
<1> QED
  BY <1>1, <1>2, <1>3, <1>4

\* A path that was scanned as absent is taken with the time of the scan, one that
\* was present is inspected first.
LEMMA KnownTake ==
    ASSUME TypeOK, KnownInv, NEW p \in Paths, SkipDuplicate(p) \/ TakeAbsent(p) \/ TakePresent(p)
    PROVE  KnownInv'
<1>1. /\ pc = "next" /\ p \in todo /\ todo' = todo \ {p}
      /\ scan' = [scan EXCEPT ![p] = NoStat] /\ UNCHANGED <<local, nextId, scanned>>
  BY DEF SkipDuplicate, TakeAbsent, TakePresent, Take, world
<1>2. \/ job' = job /\ pc' = pc
      \/ job' = JobFor(p) /\ pc' \in {"probe", "confirm"} /\ scan[p] = NoStat
      \/ job' = JobFor(p) /\ pc' = "inspect"
  BY DEF SkipDuplicate, TakeAbsent, TakePresent, Go
<1>3. /\ JobFor(p).path = p /\ JobFor(p).file = scan[p] /\ JobFor(p).upto = scanned
      /\ JobFor(p).seen.id = 0 /\ JobFor(p).mode = "materialize"
  BY DEF JobFor, NoJob
<1>4. Fresh'
  BY <1>1, <1>2, <1>3 DEF KnownInv, Fresh, NoStat, TypeOK, WorldTypeOK
<1>5. ScanRecent' /\ StubsBare'
  BY <1>1 DEF KnownInv, ScanRecent, StubsBare, TypeOK
<1>6. Looked' /\ SeenFits' /\ Answered' /\ SourceFits'
  <2>1. CASE job' = job /\ pc' = pc
    BY <1>1, <2>1 DEF Looked, SeenFits, Answered, SourceFits, Uploaded, Idle
  <2>2. CASE job' = JobFor(p) /\ pc' \in {"probe", "confirm"} /\ scan[p] = NoStat
    <3>1. ~(Bytes(local'[Here']) /\ local'[Here'].id < job'.upto)
      BY <1>1, <1>3, <2>2 DEF KnownInv, ScanRecent, Here, TypeOK, WorldTypeOK, Files
    <3> QED
      BY <1>3, <2>2, <3>1 DEF Looked, SeenFits, Answered, SourceFits, Uploaded
  <2>3. CASE job' = JobFor(p) /\ pc' = "inspect"
    BY <2>3 DEF Looked, SeenFits, Answered, SourceFits, Uploaded
  <2> QED
    BY <1>2, <2>1, <2>2, <2>3
<1> QED
  BY <1>4, <1>5, <1>6 DEF KnownInv

\* What the other calls have in common: the scan, the identities and the files
\* stay, and so do the file in hand or it becomes the one at the path.
LEMMA KnownGoOn ==
    ASSUME TypeOK, KnownInv, pc \notin Idle,
           UNCHANGED <<local, nextId, scan, scanned, todo>>,
           job' \in Jobs, job'.path = job.path,
           \/ job'.file = job.file
           \/ job'.file = Stat(local[Here]),
           \/ job'.seen = job.seen /\ job'.upto = job.upto /\ pc # "inspect"
           \/ job'.seen.id = local[Here].id /\ job'.upto = nextId,
           SeenFits', Answered', SourceFits'
    PROVE  KnownInv'
<1>1. Here \in Paths /\ Here' = Here
  BY InHand DEF Here
<1>2. Fresh'
  BY <1>1 DEF KnownInv, Fresh, Stat, TypeOK, WorldTypeOK
<1>3. ScanRecent' /\ StubsBare'
  BY DEF KnownInv, ScanRecent, StubsBare
<1>4. Looked'
  BY <1>1 DEF KnownInv, Looked
<1> QED
  BY <1>2, <1>3, <1>4 DEF KnownInv

\* The calls that go on with the path in hand, one case per action.
LEMMA KnownWork ==
    ASSUME TypeOK, KnownInv, pc \notin Idle, pc' \notin Idle,
           UNCHANGED <<local, nextId, scan, scanned, todo>>,
           \/ InspectUnmarked \/ InspectStub \/ Access \/ RecheckAbsent \/ RecheckFound
           \/ RecoverAbsent \/ RecoverFound \/ Pend \/ Settle \/ OpenSource \/ MarkUploading
           \/ PutReplies \/ VerifyFound \/ Complete \/ Finalize \/ Guard \/ ProbeRemote
           \/ ConfirmMissing
    PROVE  KnownInv'
<1>1. Here \in Paths /\ local[Here] \in Files /\ Stat(local[Here]) \in Stats
      /\ remote[Here] \in Objects /\ Listed(remote[Here]) \in Entries
  BY InHand
<1>2. job \in Jobs /\ local[Here].id \in Nat /\ job.upto \in Nat /\ nextId \in Nat
  BY <1>1 DEF TypeOK, WorldTypeOK, Jobs, Files
<1>3. ~\E m : Done(m)
  BY DEF Done, Go, Idle
<1>4. CASE InspectUnmarked \/ InspectStub \/ Access \/ Guard
  <2>1. job' = Examine(job)
    BY <1>3, <1>4 DEF InspectUnmarked, InspectStub, Access, Guard
  <2>2. /\ job' \in Jobs /\ job'.path = job.path /\ job'.file = job.file /\ job'.mode = job.mode
        /\ job'.seen = [id |-> local[Here].id, wr |-> local[Here].wr] /\ job'.upto = nextId /\ job'.src = job.src /\ job'.req = job.req
    BY <2>1, ExamineType DEF Examine, TypeOK, Jobs, Here
  <2>3. CASE InspectUnmarked
    <3>1. pc' \in {"access", "recheck"}
      BY <2>3 DEF InspectUnmarked, Go
    <3> QED
      BY <2>2, <3>1, KnownGoOn DEF SeenFits, Answered, SourceFits, Uploaded
  <2>4. CASE InspectStub
    <3>1. pc' \in {"probe", "confirm"} /\ local[Here].kind = "stub"
      BY <1>3, <2>4 DEF InspectStub, Go, Marker
    <3> QED
      BY <1>1, <2>2, <3>1, KnownGoOn
         DEF KnownInv, StubsBare, Bytes, SeenFits, Answered, SourceFits, Uploaded
  <2>5. CASE Access
    <3>1. pc' = "probe" /\ local[Here].wr
      BY <1>3, <2>5 DEF Access, Go
    <3> QED
      BY <2>2, <3>1, KnownGoOn DEF SeenFits, Answered, SourceFits, Uploaded
  <2>6. CASE Guard
    <3>1. pc = "guard" /\ pc' = "rename" /\ SameFile(job.file, local[Here]) /\ local[Here].wr
      BY <2>6 DEF Guard, Go, MayReplace
    <3>2. Here' = Here /\ local' = local
      BY <2>2 DEF Here
    <3>3. SourceFits'
      BY <2>2, <3>1, <3>2 DEF KnownInv, SourceFits, Uploaded, Sent, SameFile, Stat
    <3>4. SeenFits' /\ Answered'
      BY <2>2, <3>1 DEF KnownInv, SeenFits, Answered
    <3> QED
      BY <2>2, <3>3, <3>4, KnownGoOn
  <2> QED
    BY <1>4, <2>3, <2>4, <2>5, <2>6
<1>5. CASE RecheckAbsent \/ RecoverAbsent \/ ConfirmMissing
  <2>1. job' = [job EXCEPT !.horizon = nextSeq] /\ nextSeq \in Nat
    BY <1>5 DEF RecheckAbsent, RecoverAbsent, ConfirmMissing, TypeOK, WorldTypeOK
  <2>2. /\ job' \in Jobs /\ job'.path = job.path /\ job'.file = job.file /\ job'.seen = job.seen
        /\ job'.upto = job.upto
    BY <1>2, <2>1 DEF Jobs
  <2>3. pc # "inspect" /\ (pc' \in {"recover", "pend"} \/ (pc = "confirm" /\ pc' = "remove"))
    BY <1>5 DEF RecheckAbsent, RecoverAbsent, ConfirmMissing, Go
  <2> QED
    BY <2>2, <2>3, KnownGoOn DEF KnownInv, SeenFits, Answered, SourceFits, Uploaded
<1>6. CASE RecheckFound
  <2>1. job' = [job EXCEPT !.ent = Listed(remote[Here])] /\ pc # "inspect" /\ pc' = "access"
    BY <1>6 DEF RecheckFound, Go
  <2>2. /\ job' \in Jobs /\ job'.path = job.path /\ job'.file = job.file /\ job'.seen = job.seen
        /\ job'.upto = job.upto
    BY <1>1, <1>2, <2>1 DEF Jobs
  <2> QED
    BY <2>1, <2>2, KnownGoOn DEF SeenFits, Answered, SourceFits, Uploaded
<1>7. CASE RecoverFound
  <2>1. job' = [job EXCEPT !.mode = "recover", !.ent = Listed(remote[Here])]
        /\ pc # "inspect" /\ pc' = "complete"
    BY <1>7 DEF RecoverFound, Go
  <2>2. /\ job' \in Jobs /\ job'.path = job.path /\ job'.file = job.file /\ job'.seen = job.seen
        /\ job'.upto = job.upto /\ job'.mode = "recover"
    BY <1>1, <1>2, <2>1 DEF Jobs
  <2> QED
    BY <2>1, <2>2, KnownGoOn DEF SeenFits, Answered, SourceFits, Uploaded
<1>8. CASE Pend \/ Settle
  <2>1. pc # "inspect" /\ pc' \in {"settle", "open"}
    BY <1>3, <1>8 DEF Pend, Settle, Go
  <2>2. /\ job' \in Jobs /\ job'.path = job.path /\ job'.seen = job.seen /\ job'.upto = job.upto
        /\ job'.file \in {job.file, Stat(local[Here])}
    BY <1>1, <1>2, <1>3, <1>8 DEF Pend, Settle, Jobs
  <2> QED
    BY <2>1, <2>2, KnownGoOn DEF SeenFits, Answered, SourceFits, Uploaded
<1>9. CASE OpenSource
  <2>1. job' = [job EXCEPT !.src = Stat(local[Here])] /\ pc # "inspect" /\ pc' = "mark"
    BY <1>9 DEF OpenSource, Go
  <2>2. /\ job' \in Jobs /\ job'.path = job.path /\ job'.file = job.file /\ job'.seen = job.seen
        /\ job'.upto = job.upto /\ job'.src.id = local[Here].id
    BY <1>1, <1>2, <2>1 DEF Jobs, Stat
  <2>3. SourceFits'
    BY <2>1, <2>2 DEF SourceFits, Sent, Here
  <2> QED
    BY <2>1, <2>2, <2>3, KnownGoOn DEF SeenFits, Answered
<1>10. CASE MarkUploading
  <2>1. job' = [job EXCEPT !.req = "sent"] /\ pc = "mark" /\ pc' = "put"
    BY <1>3, <1>10 DEF MarkUploading, Go
  <2>2. /\ job' \in Jobs /\ job'.path = job.path /\ job'.file = job.file /\ job'.seen = job.seen
        /\ job'.upto = job.upto /\ job'.src = job.src
    BY <1>2, <2>1 DEF Jobs
  <2>3. SourceFits'
    BY <2>1, <2>2 DEF KnownInv, SourceFits, Uploaded, Sent, Here
  <2> QED
    BY <2>1, <2>2, <2>3, KnownGoOn DEF SeenFits, Answered
<1>11. CASE PutReplies
  <2>1. job' = job /\ pc = "put" /\ pc' = "verify" /\ job.req = "stored"
    BY <1>11 DEF PutReplies, Go
  <2>2. SourceFits'
    BY <2>1 DEF KnownInv, SourceFits, Uploaded, Sent, Here
  <2> QED
    BY <1>2, <2>1, <2>2, KnownGoOn DEF SeenFits, Answered
<1>12. CASE VerifyFound
  <2>1. job' = [job EXCEPT !.mode = "upload", !.ent = Listed(remote[Here])]
        /\ pc = "verify" /\ pc' = "complete"
    BY <1>12 DEF VerifyFound, Go
  <2>2. /\ job' \in Jobs /\ job'.path = job.path /\ job'.file = job.file /\ job'.seen = job.seen
        /\ job'.upto = job.upto /\ job'.src = job.src /\ job'.req = job.req
    BY <1>1, <1>2, <2>1 DEF Jobs
  <2>3. SourceFits' /\ Answered'
    BY <2>1, <2>2 DEF KnownInv, SourceFits, Uploaded, Sent, Answered, Here
  <2> QED
    BY <2>1, <2>2, <2>3, KnownGoOn DEF SeenFits
<1>13. CASE Complete \/ Finalize
  <2>1. job' = job /\ \/ pc = "complete" /\ pc' = "finalize"
                      \/ pc = "finalize" /\ pc' = "guard"
    BY <1>3, <1>13 DEF Complete, Finalize, Go
  <2>2. SourceFits' /\ Answered'
    BY <2>1 DEF KnownInv, SourceFits, Uploaded, Sent, Answered, Here
  <2> QED
    BY <1>2, <2>1, <2>2, KnownGoOn DEF SeenFits
<1>14. CASE ProbeRemote
  <2>1. job' = [job EXCEPT !.mode = "materialize"] /\ pc = "probe" /\ pc' = "rename"
    BY <1>14 DEF ProbeRemote, Go
  <2>2. /\ job' \in Jobs /\ job'.path = job.path /\ job'.file = job.file /\ job'.seen = job.seen
        /\ job'.upto = job.upto /\ job'.mode = "materialize"
    BY <1>2, <2>1 DEF Jobs
  <2> QED
    BY <2>1, <2>2, KnownGoOn DEF KnownInv, SeenFits, Answered, SourceFits, Uploaded
<1> QED
  BY <1>4, <1>5, <1>6, <1>7, <1>8, <1>9, <1>10, <1>11, <1>12, <1>13, <1>14

\* The two calls that change the disk: neither leaves a file with bytes of its own.
LEMMA KnownReplace ==
    ASSUME TypeOK, KnownInv, Rename \/ RemoveUnit
    PROVE  KnownInv'
<1>1. pc \notin Idle /\ UNCHANGED <<nextId, scan, scanned, todo>>
  BY DEF Rename, RemoveUnit, Idle, pass
<1>2. Here \in Paths
  BY <1>1, InHand
<1>3. /\ \A p \in Paths : local'[p] = local[p] \/ ~Bytes(local'[p])
      /\ ~Bytes(local'[Here])
  BY <1>2 DEF Rename, RemoveUnit, StubFile, NoFile, Bytes, TypeOK, WorldTypeOK
<1>4. CASE \E m : Done(m)
  BY <1>1, <1>3, <1>4, KnownDone
<1>5. CASE ~\E m : Done(m)
  <2>1. pc' = "record" /\ job' = job
    BY <1>5 DEF Rename, RemoveUnit, Go
  <2>2. ~Bytes(local'[Here'])
    BY <1>2, <1>3, <2>1 DEF Here
  <2>3. Fresh'
    BY <1>1, <1>3, <2>1 DEF KnownInv, Fresh, Bytes, TypeOK, WorldTypeOK
  <2>4. ScanRecent' /\ StubsBare'
    BY <1>1, <1>3 DEF KnownInv, ScanRecent, StubsBare, TypeOK
  <2>5. (Looked /\ SeenFits /\ Answered /\ SourceFits)'
    BY <2>1, <2>2 DEF Looked, SeenFits, Answered, SourceFits, Uploaded
  <2> QED
    BY <2>3, <2>4, <2>5 DEF KnownInv
<1> QED
  BY <1>4, <1>5

LEMMA KnownServer == ASSUME TypeOK, KnownInv, Server PROVE KnownInv'
<1>1. /\ pc = "put" /\ UNCHANGED <<local, nextId, pc, scan, scanned, todo>>
      /\ \E q \in {"stored", "cut", "refused"} : job' = [job EXCEPT !.req = q]
  BY DEF Server, ServerStores, ServerCuts, ServerRefuses, pass, world
<1>2. /\ job'.path = job.path /\ job'.file = job.file /\ job'.seen = job.seen
      /\ job'.upto = job.upto /\ job'.src = job.src
  BY <1>1 DEF TypeOK, Jobs
<1>3. Fresh' /\ StubsBare' /\ ScanRecent'
  BY <1>1, <1>2 DEF KnownInv, Fresh, StubsBare, ScanRecent
<1>4. Looked' /\ SeenFits' /\ Answered' /\ SourceFits'
  BY <1>1, <1>2 DEF KnownInv, Looked, SeenFits, Answered, SourceFits, Uploaded, Sent, Here
<1> QED
  BY <1>3, <1>4 DEF KnownInv

\* A step of the service on the path in hand either is done with it, goes on, or
\* changes the disk.
LEMMA ServiceKinds ==
    ASSUME Service
    PROVE  \/ Start \/ PollTick \/ Debounce \/ ScanRemote \/ ScanLocal \/ ScanFails \/ FinishPass
           \/ TakeNext
           \/ Rename \/ RemoveUnit
           \/ (\E m : Done(m)) /\ UNCHANGED <<local, nextId, scan, scanned, todo>>
           \/ /\ pc \notin Idle /\ pc' \notin Idle
              /\ UNCHANGED <<local, nextId, scan, scanned, todo>>
              /\ \/ InspectUnmarked \/ InspectStub \/ Access \/ RecheckAbsent \/ RecheckFound
                 \/ RecoverAbsent \/ RecoverFound \/ Pend \/ Settle \/ OpenSource \/ MarkUploading
                 \/ PutReplies \/ VerifyFound \/ Complete \/ Finalize \/ Guard \/ ProbeRemote
                 \/ ConfirmMissing
<1>1. CASE \/ InspectFails \/ InspectInvalid \/ InspectUnmarked \/ InspectStub \/ Access
           \/ RecheckAbsent \/ RecheckFound \/ RemoteStatFails
  BY <1>1 DEF InspectFails, InspectInvalid, InspectUnmarked, InspectStub, Access, RecheckAbsent,
     RecheckFound, RemoteStatFails, Abandon, Go, Idle, pass, world
<1>2. CASE \/ RecoverAbsent \/ RecoverFound \/ RecoverFails
           \/ Pend \/ Settle \/ SettleFails \/ OpenSource \/ OpenFails \/ MarkUploading
  BY <1>2 DEF RecoverAbsent, RecoverFound, RecoverFails, Pend, Settle, SettleFails, OpenSource,
     OpenFails, MarkUploading, Abandon, Go, Idle, pass, world
<1>3. CASE \/ PutReplies \/ PutFails \/ VerifyFound \/ VerifyFails
           \/ Complete \/ CompleteFails \/ Finalize \/ Guard \/ GuardFails
  BY <1>3 DEF PutReplies, PutFails, VerifyFound, VerifyFails, Complete, CompleteFails, Finalize,
     Guard, GuardFails, Go, Idle, pass, world
<1>4. CASE \/ ProbeRemote \/ ProbeFails \/ RenameFails \/ Record \/ RecordFails
           \/ ConfirmMissing \/ ConfirmPresent \/ RemoveFails
  BY <1>4 DEF ProbeRemote, ProbeFails, RenameFails, Record, RecordFails, ConfirmMissing,
     ConfirmPresent, RemoveFails, Abandon, Go, Idle, pass, world
<1> QED
  BY <1>1, <1>2, <1>3, <1>4 DEF Service

LEMMA KnownStep == TypeOK /\ KnownInv /\ [Next]_vars => KnownInv'
<1> SUFFICES ASSUME TypeOK, KnownInv, [Next]_vars PROVE KnownInv'
  OBVIOUS
<1>1. CASE UNCHANGED vars
  BY <1>1, KnownStutter DEF vars, world, service
<1>2. CASE Service
  <2>1. CASE TakeNext
    BY <2>1, KnownTake DEF TakeNext
  <2>2. CASE (\E m : Done(m)) /\ UNCHANGED <<local, nextId, scan, scanned, todo>>
    BY <2>2, KnownDone
  <2> QED
    BY <1>2, <2>1, <2>2, ServiceKinds, KnownPass, KnownReplace, KnownWork
<1>3. CASE Server
  BY <1>3, KnownServer
<1>4. CASE Stop
  BY <1>4, KnownHalt DEF Stop, Crash, Shutdown, world
<1>5. CASE World
  <2>1. CASE \E p \in Paths : RemoteChanges(p)
    BY <2>1, KnownStutter DEF RemoteChanges, RemoteSide, RemotePut, RemoteDelete, service
  <2>2. CASE StraysSettle \/ CalmDown
    BY <2>2, KnownStutter DEF StraysSettle, StraySettles, StrayLands, StrayDropped, CalmDown,
       BecomeCalm, service, pass
  <2> QED
    BY <1>5, <2>1, <2>2, KnownLibrary DEF World
<1> QED
  BY <1>1, <1>2, <1>3, <1>4, <1>5 DEF Next

LEMMA KnownAlways == Spec => [](TypeOK /\ KnownInv)
<1>1. Init => KnownInv
  BY KnownInit
<1>2. TypeOK /\ KnownInv /\ [Next]_vars => KnownInv'
  BY KnownStep
<1> QED
  BY <1>1, <1>2, TypeCorrect, PTL DEF Spec

-----------------------------------------------------------------------------
\* Only two calls of the service take a file away.
LEMMA TakesAwayKinds ==
    ASSUME TypeOK, [Next]_vars, NEW p \in Paths, TakesAway(p)
    PROVE  p = Here /\ \/ Rename
                       \/ RemoveUnit
<1>1. Service
  <2>1. pc' # pc /\ local' # local
    BY DEF TakesAway
  <2>2. ~Server
    BY <2>1 DEF Server, ServerStores, ServerCuts, ServerRefuses
  <2>3. ~Stop
    BY <2>1 DEF Stop, Crash, Shutdown, world
  <2>4. ~World
    BY <2>1 DEF World, LibraryChanges, RemoteChanges, StraysSettle, CalmDown, service
  <2> QED
    BY <2>1, <2>2, <2>3, <2>4 DEF Next, vars, world
<1>2. Rename \/ RemoveUnit
  <2>1. CASE \/ Start \/ PollTick \/ Debounce \/ ScanRemote \/ ScanLocal \/ ScanFails \/ FinishPass
             \/ TakeNext
    BY <2>1 DEF TakesAway, Start, PollTick, Debounce, ScanRemote, ScanLocal, ScanFails, FinishPass,
       TakeNext, Take, SkipDuplicate, TakeAbsent, TakePresent, world
  <2> QED
    BY <1>1, <2>1, ServiceKinds DEF TakesAway
<1>3. p = Here
  BY <1>2 DEF TakesAway, Rename, RemoveUnit, TypeOK, WorldTypeOK
<1> QED
  BY <1>2, <1>3

\* A file with bytes of its own that the service has examined, its marker broken or
\* not, is taken away only by the rename that follows the examination, only if it was
\* writable, and after an upload only if it is the file whose bytes the server has
\* acknowledged.
THEOREM KnownFilesKept == Spec => NoKnownFileLost
<1> DEFINE Kept(p) ==
        TakesAway(p) /\ local[p].id # 0 /\ local[p].id < job.upto =>
            /\ pc = "rename"
            /\ job.seen.id = local[p].id /\ job.seen.wr
            /\ job.mode = "upload" => job.req = "stored" /\ job.src.id = local[p].id
<1>1. TypeOK /\ KnownInv /\ [Next]_vars => \A p \in Paths : Kept(p)
  <2> SUFFICES ASSUME TypeOK, KnownInv, [Next]_vars, NEW p \in Paths,
                      TakesAway(p), Bytes(local[p]), local[p].id < job.upto
               PROVE  Kept(p)
    BY DEF Bytes
  <2>1. p = Here /\ pc \in {"rename", "remove"}
    BY TakesAwayKinds DEF Rename, RemoveUnit
  <2>2. job.seen.id = local[p].id /\ job.seen.id # 0
    BY <2>1 DEF KnownInv, Looked, Idle, Bytes
  <2>3. pc = "rename" /\ job.seen.wr
    BY <2>1, <2>2 DEF KnownInv, SeenFits
  <2>4. job.mode = "upload" => job.req = "stored" /\ Sent(local[p])
    BY <2>1, <2>3 DEF KnownInv, Answered, SourceFits
  <2> QED
    BY <2>2, <2>3, <2>4 DEF Sent
<1>2. TypeOK /\ KnownInv /\ [Next]_vars => [\A p \in Paths : Kept(p)]_vars
  BY <1>1
<1>3. Spec => [][\A p \in Paths : Kept(p)]_vars
  BY <1>2, KnownAlways, PTL DEF Spec
<1> QED
  BY <1>3 DEF NoKnownFileLost

-----------------------------------------------------------------------------
(* Absences.  A stat that finds nothing notes nextSeq as the attempt's      *)
(* horizon.  What is on the remote later was written later, so its seq is   *)
(* no smaller; this survives the client, whose PUT keeps the horizon.       *)

\* The calls that rely on the absence the attempt has confirmed.
Relying == {"recover", "pend", "settle", "open", "mark", "put", "remove"}

\* Horizons and writes are of the past.
Past ==
    /\ job.horizon <= nextSeq
    /\ \A r \in stray : r.horizon <= nextSeq
    /\ \A p \in Paths : remote[p].seq < nextSeq

\* What is on the remote was written after the attempt, or the dead client, looked.
Since(p, horizon) == remote[p] # NoObject => remote[p].seq >= horizon

Confirmed ==
    /\ pc \in Relying => Since(Here, job.horizon)
    /\ \A r \in stray : Since(r.path, r.horizon)

AbsenceInv == Past /\ Confirmed

LEMMA AbsenceInit == Init => AbsenceInv
BY DEF Init, WorldInit, ServiceInit, AbsenceInv, Past, Confirmed, Since, Relying, NoJob, NoObject

-----------------------------------------------------------------------------
(* What a step may do to the remote, to stray requests and to the attempt.  *)

\* Objects stay, go, or are written with the next sequence number.
RemoteStep ==
    /\ nextSeq' \in {nextSeq, nextSeq + 1}
    /\ \A p \in Paths : \/ remote'[p] = remote[p]
                        \/ remote'[p] = NoObject
                        \/ remote'[p].seq = nextSeq /\ nextSeq' = nextSeq + 1

\* A request is left behind only from the call that sent it.
StrayStep ==
    \A r \in stray' : \/ r \in stray
                      \/ pc = "put" /\ r = StrayRequest

\* The service relies on an absence from the stat that finds it, until it is done.
AttemptStep ==
    /\ job'.horizon \in {0, job.horizon, nextSeq}
    /\ pc' \in Relying =>
          \/ pc \in Relying /\ job'.path = job.path /\ job'.horizon = job.horizon
          \/ /\ remote[Here] = NoObject /\ remote' = remote
             /\ job'.path = job.path /\ job'.horizon = nextSeq

LEMMA AbsenceKept ==
    ASSUME TypeOK, TypeOK', AbsenceInv, RemoteStep, StrayStep, AttemptStep
    PROVE  AbsenceInv'
<1>1. nextSeq \in Nat /\ nextSeq' \in Nat /\ nextSeq <= nextSeq' /\ job.horizon \in Nat
  BY DEF RemoteStep, TypeOK, WorldTypeOK, Jobs
<1>2. \A r \in stray : r \in Requests /\ r.path \in Paths /\ r.horizon \in Nat
  BY DEF TypeOK, WorldTypeOK, Requests
<1>3. \A p \in Paths : remote[p].seq \in Nat /\ remote'[p].seq \in Nat
  BY DEF TypeOK, WorldTypeOK, Objects
<1>4. Here \in Paths => StrayRequest.path = Here /\ StrayRequest.horizon = job.horizon
  BY DEF StrayRequest
<1>5. pc = "put" => Here \in Paths
  BY InHand DEF Idle
<1>6. Past'
  <2>1. job'.horizon <= nextSeq'
    BY <1>1 DEF AttemptStep, AbsenceInv, Past
  <2>2. \A r \in stray' : r.horizon <= nextSeq'
    BY <1>1, <1>2, <1>4, <1>5 DEF StrayStep, AbsenceInv, Past
  <2>3. \A p \in Paths : remote'[p].seq < nextSeq'
    BY <1>1, <1>3 DEF RemoteStep, AbsenceInv, Past, NoObject, TypeOK, WorldTypeOK
  <2> QED
    BY <2>1, <2>2, <2>3 DEF Past
<1>7. ASSUME NEW p \in Paths, NEW h \in Nat, h <= nextSeq, Since(p, h)
      PROVE  remote'[p] # NoObject => remote'[p].seq >= h
  BY <1>1, <1>3, <1>7 DEF RemoteStep, Since
<1>8. \A r \in stray' : remote'[r.path] # NoObject => remote'[r.path].seq >= r.horizon
  <2> SUFFICES ASSUME NEW r \in stray', remote'[r.path] # NoObject
               PROVE  remote'[r.path].seq >= r.horizon
    OBVIOUS
  <2>1. CASE r \in stray
    BY <2>1, <1>2, <1>7 DEF AbsenceInv, Past, Confirmed
  <2>2. CASE pc = "put" /\ r = StrayRequest
    BY <2>2, <1>1, <1>4, <1>5, <1>7 DEF AbsenceInv, Past, Confirmed, Relying
  <2> QED
    BY <2>1, <2>2 DEF StrayStep
<1>9. ASSUME pc' \in Relying, remote'[job'.path] # NoObject
      PROVE  remote'[job'.path].seq >= job'.horizon
  <2>1. CASE pc \in Relying /\ job'.path = job.path /\ job'.horizon = job.horizon
    <3>1. Here \in Paths
      BY <2>1, InHand DEF Idle, Relying
    <3> QED
      BY <2>1, <3>1, <1>1, <1>7, <1>9 DEF AbsenceInv, Past, Confirmed, Here
  <2>2. CASE remote[Here] = NoObject /\ remote' = remote /\ job'.path = job.path
    BY <2>2, <1>9 DEF Here
  <2> QED
    BY <2>1, <2>2, <1>9 DEF AttemptStep
<1> QED
  BY <1>6, <1>8, <1>9 DEF AbsenceInv, Confirmed, Since, Here

\* Done with a path, or without one, the service relies on nothing.
LEMMA AttemptEnds ==
    ASSUME pc' \notin Relying, job' \in {job, NoJob}
    PROVE  AttemptStep
BY DEF AttemptStep, NoJob

LEMMA WorldSteps ==
    ASSUME TypeOK, World
    PROVE  RemoteStep /\ StrayStep /\ AttemptStep
<1>1. ASSUME NEW p \in Paths, LibraryChanges(p) PROVE RemoteStep /\ StrayStep /\ AttemptStep
  <2>1. UNCHANGED <<remote, stray, nextSeq, pc>>
    BY <1>1 DEF LibraryChanges, Overwrite, WriteInPlace, ReplaceOrTouch, Download, DeleteLocal,
       Chmod, BreakMarker, MoveStubIn
  <2>2. job'.path = job.path /\ job'.horizon = job.horizon
    BY <1>1 DEF LibraryChanges, Overwrite, TypeOK, Jobs
  <2> QED
    BY <2>1, <2>2 DEF RemoteStep, StrayStep, AttemptStep
<1>2. ASSUME NEW p \in Paths, RemoteChanges(p) PROVE RemoteStep /\ StrayStep /\ AttemptStep
  <2>1. UNCHANGED <<stray, pc, job>>
    BY <1>2 DEF RemoteChanges, RemoteSide, RemotePut, RemoteDelete, service
  <2>2. RemoteStep
    BY <1>2 DEF RemoteChanges, RemoteSide, RemotePut, RemoteDelete, RemoteStep, Written, TypeOK,
       WorldTypeOK
  <2> QED
    BY <2>1, <2>2 DEF StrayStep, AttemptStep
<1>3. CASE StraysSettle
  <2>1. stray' \subseteq stray /\ UNCHANGED <<pc, job>>
    BY <1>3 DEF StraysSettle, StraySettles, StrayLands, StrayDropped, service
  <2>2. PICK r \in stray : StrayLands(r) \/ StrayDropped(r)
    BY <1>3 DEF StraysSettle, StraySettles
  <2>3. RemoteStep
    BY <2>2 DEF StrayLands, StrayDropped, RemoteStep, Written, TypeOK, WorldTypeOK
  <2> QED
    BY <2>1, <2>3 DEF StrayStep, AttemptStep
<1>4. CASE CalmDown
  BY <1>4 DEF CalmDown, BecomeCalm, pass, RemoteStep, StrayStep, AttemptStep
<1> QED
  BY <1>1, <1>2, <1>3, <1>4 DEF World

LEMMA ServerSteps ==
    ASSUME TypeOK, Server
    PROVE  RemoteStep /\ StrayStep /\ AttemptStep
<1>1. UNCHANGED <<stray, pc>> /\ \E q : job' = [job EXCEPT !.req = q]
  BY DEF Server, ServerStores, ServerCuts, ServerRefuses, world
<1>2. job'.path = job.path /\ job'.horizon = job.horizon
  BY <1>1 DEF TypeOK, Jobs
<1>3. RemoteStep
  BY DEF Server, ServerStores, ServerCuts, ServerRefuses, RemoteStep, Written, TypeOK,
     WorldTypeOK, world
<1> QED
  BY <1>1, <1>2, <1>3 DEF StrayStep, AttemptStep

LEMMA StopSteps ==
    ASSUME TypeOK, Stop
    PROVE  RemoteStep /\ StrayStep /\ AttemptStep
<1>1. UNCHANGED <<remote, nextSeq>> /\ Halt /\ (stray' \in Stranded \/ stray' = stray)
  BY DEF Stop, Crash, Shutdown, world
<1>2. StrayStep
  BY <1>1 DEF StrayStep, Stranded
<1>3. AttemptStep
  BY <1>1, AttemptEnds DEF Halt, Go, Relying
<1> QED
  BY <1>1, <1>2, <1>3 DEF RemoteStep

\* The service never writes to the remote, and leaves a request behind only when
\* a PUT fails.
LEMMA ServiceStrays ==
    ASSUME Service
    PROVE  UNCHANGED <<remote, nextSeq>> /\ StrayStep
<1>1. CASE \/ Start \/ PollTick \/ Debounce \/ ScanRemote \/ ScanLocal \/ ScanFails \/ FinishPass
           \/ TakeNext
  BY <1>1 DEF Start, PollTick, Debounce, ScanRemote, ScanLocal, ScanFails, FinishPass, TakeNext,
     SkipDuplicate, TakeAbsent, TakePresent, Take, world, StrayStep
<1>2. CASE \/ InspectFails \/ InspectInvalid \/ InspectUnmarked \/ InspectStub \/ Access
           \/ RecheckAbsent \/ RecheckFound \/ RemoteStatFails
  BY <1>2 DEF InspectFails, InspectInvalid, InspectUnmarked, InspectStub, Access, RecheckAbsent,
     RecheckFound, RemoteStatFails, Abandon, world, StrayStep
<1>3. CASE \/ RecoverAbsent \/ RecoverFound \/ RecoverFails
           \/ Pend \/ Settle \/ SettleFails \/ OpenSource \/ OpenFails \/ MarkUploading
  BY <1>3 DEF RecoverAbsent, RecoverFound, RecoverFails, Pend, Settle, SettleFails, OpenSource,
     OpenFails, MarkUploading, Abandon, world, StrayStep
<1>4. CASE PutFails
  BY <1>4 DEF PutFails, Stranded, StrayStep
<1>5. CASE \/ PutReplies \/ VerifyFound \/ VerifyFails
           \/ Complete \/ CompleteFails \/ Finalize \/ Guard \/ GuardFails
  BY <1>5 DEF PutReplies, VerifyFound, VerifyFails, Complete, CompleteFails, Finalize,
     Guard, GuardFails, world, StrayStep
<1>6. CASE \/ ProbeRemote \/ ProbeFails \/ Rename \/ RenameFails \/ Record \/ RecordFails
           \/ ConfirmMissing \/ ConfirmPresent \/ RemoveUnit \/ RemoveFails
  BY <1>6 DEF ProbeRemote, ProbeFails, Rename, RenameFails, Record, RecordFails, ConfirmMissing,
     ConfirmPresent, RemoveUnit, RemoveFails, Abandon, world, StrayStep
<1> QED
  BY <1>1, <1>2, <1>3, <1>4, <1>5, <1>6 DEF Service

LEMMA ServiceAttempt ==
    ASSUME TypeOK, Service
    PROVE  AttemptStep
<1>1. CASE \/ Start \/ PollTick \/ Debounce \/ ScanRemote \/ ScanLocal \/ ScanFails \/ FinishPass
  <2>1. pc' \notin Relying /\ job' \in {job, NoJob}
    BY <1>1 DEF Start, PollTick, Debounce, ScanRemote, ScanLocal, ScanFails, FinishPass, Halt, Go,
       Relying
  <2> QED
    BY <2>1, AttemptEnds
<1>2. CASE TakeNext
  <2>1. /\ pc = "next" /\ pc' \in {"next", "probe", "confirm", "inspect"}
        /\ job' = job \/ \E p \in Paths : job' = JobFor(p)
    BY <1>2 DEF TakeNext, SkipDuplicate, TakeAbsent, TakePresent, Take, Go
  <2> QED
    BY <2>1 DEF AttemptStep, Relying, JobFor, NoJob
<1>3. CASE Rename \/ RemoveUnit
  BY <1>3 DEF Rename, RemoveUnit, Done, Go, AttemptStep, Relying, NoJob
<1>4. CASE \E m : Done(m)
  BY <1>4, AttemptEnds DEF Done, Go, Relying
<1>5. CASE InspectUnmarked \/ InspectStub \/ Access \/ Guard
  <2>1. pc' \notin Relying /\ job' \in {job, NoJob, Examine(job)}
    BY <1>5 DEF InspectUnmarked, InspectStub, Access, Guard, Done, Go, Relying
  <2>2. Examine(job).horizon = job.horizon
    BY DEF Examine, TypeOK, Jobs
  <2> QED
    BY <2>1, <2>2 DEF AttemptStep, NoJob
<1>6. CASE RecheckAbsent \/ RecoverAbsent \/ ConfirmMissing
  <2>1. /\ job' = [job EXCEPT !.horizon = nextSeq]
        /\ remote[Here] = NoObject /\ remote' = remote
    BY <1>6 DEF RecheckAbsent, RecoverAbsent, ConfirmMissing, world
  <2>2. job'.path = job.path /\ job'.horizon = nextSeq
    BY <2>1 DEF TypeOK, Jobs
  <2> QED
    BY <2>1, <2>2 DEF AttemptStep
<1>7. CASE \/ RecheckFound \/ RecoverFound \/ PutReplies \/ VerifyFound \/ Complete \/ Finalize
           \/ ProbeRemote
  <2>1. pc' \notin Relying
    BY <1>7 DEF RecheckFound, RecoverFound, PutReplies, VerifyFound, Complete, Finalize,
       ProbeRemote, Done, Go, Relying
  <2>2. job' = NoJob \/ job'.horizon = job.horizon
    BY <1>7 DEF RecheckFound, RecoverFound, PutReplies, VerifyFound, Complete, Finalize,
       ProbeRemote, Done, TypeOK, Jobs
  <2> QED
    BY <2>1, <2>2 DEF AttemptStep, NoJob
<1>8. CASE Pend \/ Settle \/ OpenSource \/ MarkUploading
  <2>1. pc \in Relying
    BY <1>8 DEF Pend, Settle, OpenSource, MarkUploading, Relying
  <2>2. \/ \E m : Done(m)
        \/ job'.path = job.path /\ job'.horizon = job.horizon
    BY <1>8 DEF Pend, Settle, OpenSource, MarkUploading, TypeOK, Jobs
  <2> QED
    BY <1>4, <2>1, <2>2 DEF AttemptStep
<1> QED
  BY <1>1, <1>2, <1>3, <1>4, <1>5, <1>6, <1>7, <1>8, ServiceKinds

LEMMA AbsenceStep == TypeOK /\ AbsenceInv /\ [Next]_vars => AbsenceInv'
<1> SUFFICES ASSUME TypeOK, AbsenceInv, [Next]_vars PROVE AbsenceInv'
  OBVIOUS
<1>1. TypeOK'
  BY TypeStep
<1>2. CASE UNCHANGED vars
  BY <1>1, <1>2, AbsenceKept
  DEF vars, world, service, RemoteStep, StrayStep, AttemptStep
<1>3. CASE Next
  <2>1. RemoteStep /\ StrayStep /\ AttemptStep
    BY <1>3, WorldSteps, ServerSteps, StopSteps, ServiceStrays, ServiceAttempt
    DEF Next, RemoteStep
  <2> QED
    BY <1>1, <2>1, AbsenceKept
<1> QED
  BY <1>2, <1>3

LEMMA AbsenceAlways == Spec => [](TypeOK /\ AbsenceInv)
<1>1. Init => AbsenceInv
  BY AbsenceInit
<1>2. TypeOK /\ AbsenceInv /\ [Next]_vars => AbsenceInv'
  BY AbsenceStep
<1> QED
  BY <1>1, <1>2, TypeCorrect, PTL DEF Spec

-----------------------------------------------------------------------------
\* Of the steps that touch the job, only the server's answer to a PUT changes the remote.
LEMMA RemoteChangedByPut ==
    ASSUME [Next]_vars, remote' # remote, job' # job
    PROVE  pc = "put"
<1>1. ~UNCHANGED vars
  BY DEF vars, world
<1>2. ~Service
  BY ServiceStrays
<1>3. ~Stop
  BY DEF Stop, Crash, Shutdown, world
<1>4. ~World
  <2>1. \A p \in Paths : ~LibraryChanges(p) /\ ~RemoteChanges(p)
    BY DEF LibraryChanges, Overwrite, WriteInPlace, ReplaceOrTouch, Download, DeleteLocal,
       Chmod, BreakMarker, MoveStubIn, RemoteChanges, service
  <2> QED
    BY <2>1 DEF World, StraysSettle, CalmDown, BecomeCalm, service, pass
<1> QED
  BY <1>1, <1>2, <1>3, <1>4 DEF Next, Server, ServerStores, ServerCuts, ServerRefuses

\* What a PUT overwrites, the client's own or one of a dead client, and what is
\* on the remote when the local unit is removed, was written after the attempt
\* had found nothing at the path.
THEOREM AbsencesConfirmed == Spec => AbsenceIsConfirmed
<1> DEFINE Acts ==
        /\ \A p \in Paths :
              remote[p] # NoObject /\ p = Here =>
                 /\ remote'[p] # remote[p] /\ job' # job => remote[p].seq >= job.horizon
                 /\ pc = "remove" /\ TakesAway(p) => remote[p].seq >= job.horizon
        /\ \A r \in stray :
              r \notin stray' /\ remote' # remote /\ remote[r.path] # NoObject =>
                 remote[r.path].seq >= r.horizon
<1>1. TypeOK /\ AbsenceInv /\ [Next]_vars => Acts
  <2> SUFFICES ASSUME TypeOK, AbsenceInv, [Next]_vars PROVE Acts
    OBVIOUS
  <2>1. ASSUME NEW p \in Paths, remote[p] # NoObject, p = Here, pc \in Relying
        PROVE  remote[p].seq >= job.horizon
    BY <2>1 DEF AbsenceInv, Confirmed, Since
  <2>2. ASSUME NEW p \in Paths, remote[p] # NoObject, p = Here
        PROVE  /\ remote'[p] # remote[p] /\ job' # job => remote[p].seq >= job.horizon
               /\ pc = "remove" => remote[p].seq >= job.horizon
    BY <2>1, <2>2, RemoteChangedByPut DEF Relying
  <2>3. ASSUME NEW r \in stray, remote[r.path] # NoObject PROVE remote[r.path].seq >= r.horizon
    BY <2>3 DEF AbsenceInv, Confirmed, Since
  <2> QED
    BY <2>2, <2>3
<1>2. TypeOK /\ AbsenceInv /\ [Next]_vars => [Acts]_vars
  BY <1>1
<1>3. Spec => [][Acts]_vars
  BY <1>2, AbsenceAlways, PTL DEF Spec
<1> QED
  BY <1>3 DEF AbsenceIsConfirmed

=============================================================================
