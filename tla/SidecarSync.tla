----------------------------- MODULE SidecarSync -----------------------------
(***************************************************************************)
(* The sidecar half of `mediastub sync --daemon' (syncer/sidecar.go and    *)
(* reconcileSidecars in syncer/service.go): subtitles, pictures and .nfo   *)
(* files that belong to a tracked medium are kept on both sides.  The      *)
(* local copy wins where both exist, a missing local copy is downloaded,   *)
(* and a medium whose remote object is gone takes its local sidecars with  *)
(* it (removeLocalMediaUnit).                                              *)
(*                                                                         *)
(* Each call that touches the disk, the state file or the remote is an     *)
(* action of its own, with the rest of the world between any two.  Of the  *)
(* media pass only what it does to sidecars and to the set of tracked      *)
(* media is here; MediaSync has the rest of it.                            *)
(***************************************************************************)
EXTENDS Naturals, FiniteSets, Sequences, SequencesExt

CONSTANTS Sidecars,   \* the candidates: records of Names
          Media,      \* the media paths: records of Paths, in the same directory
          Bytes,      \* what somebody may save as a sidecar
          SizeOf,     \* its length
          MaxWrites,  \* bound: remote objects written before the world is calm
          MaxStrays,  \* bound: PUTs a server still works on after the client is gone
          NoETags,    \* whether the server may omit the ETag of an object
          None        \* neither a sidecar, a medium nor bytes

\* A name without its extension is the sequence of its dotted parts; a suffix
\* such as "-poster" counts as a part of its own.
Kinds == {"nfo", "image", "subtitle", "other"}
ImageSuffixes == {"-poster", "-fanart", "-backdrop", "-fanart1"}

ASSUME SidecarAssumption ==
    /\ \A c \in Sidecars : c.base \in Seq(STRING) /\ c.kind \in Kinds
    /\ \A m \in Media : m.stem \in Seq(STRING)
    /\ IsFiniteSet(Media)
    /\ SizeOf \in [Bytes -> Nat \ {0}]
    /\ MaxWrites \in Nat
    /\ MaxStrays \in Nat
    /\ NoETags \in BOOLEAN
    /\ None \notin Sidecars /\ None \notin Media /\ None \notin Bytes

VARIABLES local,    \* sidecar -> the content of the local file
          remote,   \* sidecar -> the remote object
          stray,    \* PUTs whose client has gone and the server has not settled
          nextSeq,  \* the next fresh remote write, also its ETag
          calm,     \* from now on nobody but the service acts and no call fails
          saved,    \* state.json: the tracked media and the sidecar records
          state,    \* the same in memory (s.state)
          pc,       \* the call the service makes next
          poll,     \* whether this pass rescans the remote (remoteScan)
          snap,     \* s.snapshot.Entries, kept from pass to pass
          dups,     \* the candidates of s.snapshot.Duplicates
          scan,     \* the local candidates of the second scan of this pass
          todo,     \* the candidates this pass has yet to take
          job       \* the locals of the candidate, or of the unit, in hand

world == <<local, remote, stray, nextSeq, calm>>
service == <<state, pc, poll, snap, dups, scan, todo, job>>
vars == <<world, saved, service>>

\* What stays put while the service works on one candidate.
pass == <<poll, dups, scan, todo>>

-----------------------------------------------------------------------------
(* Names: which medium a candidate belongs to.                              *)

MatchesSidecarStem(c, stem) ==
    LET rest == SubSeq(c.base, Len(stem) + 1, Len(c.base))
    IN  /\ IsPrefix(stem, c.base)
        /\ \/ c.kind = "nfo" /\ rest = <<>>
           \/ c.kind = "image" /\ (rest = <<>> \/ \E x \in ImageSuffixes : rest = <<x>>)
           \/ c.kind = "subtitle" /\ Len(rest) <= 2 /\ \A i \in DOMAIN rest : rest[i] # ""

Matching(c, media) == {m \in media : MatchesSidecarStem(c, m.stem)}

Longest(ms) == {m \in ms : \A n \in ms : Len(n.stem) <= Len(m.stem)}

\* Mutant: among stems of equal length the last one wins.
ClassifyAnyway(c, media) ==
    LET best == Longest(Matching(c, media))
    IN  IF best = {} THEN None ELSE CHOOSE m \in best : TRUE

\* The medium of the longest matching stem, None if there is none or a tie.
ClassifySidecar(c, media) ==
    LET best == Longest(Matching(c, media))
    IN  IF Cardinality(best) = 1 THEN CHOOSE m \in best : TRUE ELSE None

-----------------------------------------------------------------------------
(* Contents, objects and records.  A content is the first `size' bytes of   *)
(* something somebody saved: all of it, or what a cut transfer left.  Equal *)
(* contents are what equal SHA-256 sums are to the code.                    *)

Contents == {c \in [of : Bytes, size : Nat \ {0}] : c.size <= SizeOf[c.of]}
NoContent == [of |-> None, size |-> 0]
Whole(b) == [of |-> b, size |-> SizeOf[b]]
Prefix(c, n) == [c EXCEPT !.size = n]
Present(c) == c # NoContent

NoObject == [etag |-> 0, mtime |-> 0, content |-> NoContent]
Objects == [etag : Nat, mtime : Nat, content : Contents] \cup {NoObject}
Exists(o) == o # NoObject

\* What PROPFIND tells of an object.
NoEntry == [etag |-> 0, mtime |-> 0, size |-> 0]
Entries == [etag : Nat, mtime : Nat, size : Nat \ {0}] \cup {NoEntry}
Listed(o) == [etag |-> o.etag, mtime |-> o.mtime, size |-> o.content.size]

\* The objects a write may create.  Without an ETag a write that replaces an
\* object may also fall into the second the other was written in.
Written(s, content) ==
    {[etag |-> nextSeq, mtime |-> nextSeq, content |-> content]} \cup
    IF NoETags
       THEN {[etag |-> 0, mtime |-> t, content |-> content] :
               t \in {nextSeq} \cup ({remote[s].mtime} \ {0})}
       ELSE {}

(***************************************************************************)
(* A SidecarState, "unknown" where there is none.  The code tells neither  *)
(* "verification-pending" from "outcome-unknown" ("in-doubt" here), nor    *)
(* reads the local size and mtime back, but for the work plan it logs.     *)
(***************************************************************************)
Statuses == {"unknown", "synchronized", "in-doubt", "upload-failed", "download-failed"}

Records == [status : Statuses, last : Contents \cup {NoContent}, rem : Entries,
            medium : Media \cup {None}]
NoRecord == [status |-> "unknown", last |-> NoContent, rem |-> NoEntry, medium |-> None]

States == [media : SUBSET Media, sidecars : [Sidecars -> Records]]
NoState == [media |-> {}, sidecars |-> [s \in Sidecars |-> NoRecord]]

Known(rec) == rec.status # "unknown"

Requests == [path : Sidecars, content : Contents]

(***************************************************************************)
(* The locals of what is in hand.  `prev' is the record found, `ent' the   *)
(* remote entry (NoEntry: !remoteExists), `size' what the last stat of the *)
(* local file said, `hash' the content that was hashed, `src' the upload   *)
(* source; `unit' and `gone' are those of removeLocalMediaUnit.  `horizon' *)
(* is auxiliary: nextSeq when a stat of this very attempt found no object. *)
(***************************************************************************)
Jobs == [path : Sidecars \cup {None}, prev : Records, ent : Entries, size : Nat,
         hash : Contents \cup {NoContent}, src : Contents \cup {NoContent},
         unit : Media \cup {None}, gone : SUBSET Sidecars, horizon : Nat]

NoJob == [path |-> None, prev |-> NoRecord, ent |-> NoEntry, size |-> 0,
          hash |-> NoContent, src |-> NoContent, unit |-> None, gone |-> {}, horizon |-> 0]

Here == job.path
Idle == {"down", "idle", "scan-remote", "scan-local", "media", "unit", "rescan", "next"}
Labels == Idle \cup {"settle", "hash", "recover", "compare", "open", "put", "verify",
                     "fetch", "rename", "restat"}

Faulty == ~calm
MayWrite == calm \/ nextSeq <= MaxWrites
Go(label) == pc' = label

Owner(s) == ClassifySidecar(s, state.media)

\* The service is done with the candidate in hand and leaves this record of it.
Done(rec) ==
    /\ state' = [state EXCEPT !.sidecars[Here] = rec]
    /\ job' = NoJob
    /\ Go("next")

\* A `continue' that leaves the record as it is.
Continue == Done(state.sidecars[Here]) /\ UNCHANGED <<world, saved, pass, snap>>

Synchronized(last, ent) ==
    [status |-> "synchronized", last |-> last, rem |-> ent, medium |-> Owner(Here)]

\* What a failed upload leaves: the last upload and remote entry stay the old ones.
Failed(status) == [job.prev EXCEPT !.status = status, !.medium = Owner(Here)]

DownloadFailed == [job.prev EXCEPT !.status = "download-failed"]

-----------------------------------------------------------------------------
(* Starting, stopping, and the passes of the daemon.                        *)

Init ==
    /\ local = [s \in Sidecars |-> NoContent]
    /\ remote = [s \in Sidecars |-> NoObject]
    /\ stray = {}
    /\ nextSeq = 1
    /\ calm = FALSE
    /\ saved = NoState
    /\ state = NoState
    /\ pc = "down"
    /\ poll = FALSE
    /\ snap = [s \in Sidecars |-> NoEntry]
    /\ dups = {}
    /\ scan = {}
    /\ todo = {}
    /\ job = NoJob

Start ==
    /\ pc = "down"
    /\ state' = saved
    /\ poll' = TRUE
    /\ Go("scan-remote")
    /\ UNCHANGED <<world, saved, snap, dups, scan, todo, job>>

Halt ==
    /\ Go("down")
    /\ state' = NoState
    /\ poll' = FALSE
    /\ snap' = [s \in Sidecars |-> NoEntry]
    /\ dups' = {}
    /\ scan' = {}
    /\ todo' = {}
    /\ job' = NoJob

\* A PUT the process dies in may be published later, whole.
InFlight == [path |-> Here, content |-> job.src]
Stranded == IF pc = "put" /\ job.src.size = job.size /\ Cardinality(stray) < MaxStrays
               THEN {stray, stray \cup {InFlight}}
               ELSE {stray}

\* A crash; so ends the process, too, whose first scan fails.
Crash ==
    /\ pc # "down"
    /\ Faulty
    /\ stray' \in Stranded
    /\ Halt
    /\ UNCHANGED <<local, remote, nextSeq, calm, saved>>

Shutdown ==
    /\ pc = "idle"
    /\ Faulty
    /\ saved' = state
    /\ Halt
    /\ UNCHANGED world

PollTick ==
    /\ pc = "idle"
    /\ poll' = TRUE
    /\ Go("scan-remote")
    /\ UNCHANGED <<world, saved, state, snap, dups, scan, todo, job>>

\* Any file of the tree may cause the event, the service's own writes included.
Debounce ==
    /\ pc = "idle"
    /\ poll' = FALSE
    /\ Go("scan-local")
    /\ UNCHANGED <<world, saved, state, snap, dups, scan, todo, job>>

\* A path listed twice is a duplicate and has no entry.
ScanRemote ==
    /\ pc = "scan-remote"
    /\ \E twice \in SUBSET {s \in Sidecars : Exists(remote[s])} :
          /\ Faulty \/ twice = {}
          /\ dups' = twice
          /\ snap' = [s \in Sidecars |-> IF s \in twice THEN NoEntry ELSE Listed(remote[s])]
    /\ Go("scan-local")
    /\ UNCHANGED <<world, saved, state, poll, scan, todo, job>>

\* The first local scan serves the media pass only.
ScanLocal ==
    /\ pc = "scan-local"
    /\ Go("media")
    /\ UNCHANGED <<world, saved, state, pass, snap, job>>

EndPass ==
    /\ Go("idle")
    /\ poll' = FALSE
    /\ scan' = {}
    /\ todo' = {}
    /\ job' = NoJob

\* A failed scan ends the pass.
ScanFails ==
    /\ pc \in {"scan-remote", "scan-local", "rescan"}
    /\ Faulty
    /\ EndPass
    /\ UNCHANGED <<world, saved, state, snap, dups>>

-----------------------------------------------------------------------------
(* The media pass, as far as sidecars see it.                               *)

\* A medium is materialized, uploaded or found in some other state, and from then
\* on tracked.  In a calm world all media are.
Track(m) ==
    /\ pc = "media"
    /\ Faulty
    /\ m \notin state.media
    /\ state' = [state EXCEPT !.media = @ \cup {m}]
    /\ UNCHANGED <<world, saved, pc, pass, snap, job>>

\* What removeLocalMediaUnit finds to go with m: it asks of m alone, whatever
\* other medium has a longer stem.
UnitSidecars(m) == {s \in Sidecars : Present(local[s]) /\ ClassifySidecar(s, {m}) = m}

\* The remote object of m, tracked or a marked stub that is not, is confirmed
\* gone, and the local tree is scanned.
BeginRemoval(m) ==
    /\ pc = "media"
    /\ Faulty
    /\ poll
    /\ job' = [NoJob EXCEPT !.unit = m, !.gone = UnitSidecars(m)]
    /\ Go("unit")
    /\ UNCHANGED <<world, saved, state, pass, snap>>

RemoveSidecar(s) ==
    /\ pc = "unit"
    /\ s \in job.gone
    /\ local' = [local EXCEPT ![s] = NoContent]
    /\ state' = [state EXCEPT !.sidecars[s] = NoRecord]
    /\ job' = [job EXCEPT !.gone = @ \ {s}]
    /\ UNCHANGED <<remote, stray, nextSeq, calm, saved, pc, pass, snap>>

\* Mutant: only the records of the sidecars that were deleted are forgotten.
RemoveStubOnly ==
    /\ pc = "unit"
    /\ job.gone = {}
    /\ state' = [state EXCEPT !.media = @ \ {job.unit}]
    /\ job' = NoJob
    /\ Go("media")
    /\ UNCHANGED <<world, saved, pass, snap>>

\* The stub goes last, and with it every record that names the medium or matches it.
RemoveUnit ==
    /\ pc = "unit"
    /\ job.gone = {}
    /\ state' = [media |-> state.media \ {job.unit},
                 sidecars |-> [s \in Sidecars |->
                     IF \/ state.sidecars[s].medium = job.unit
                        \/ ClassifySidecar(s, {job.unit}) = job.unit
                        THEN NoRecord
                        ELSE state.sidecars[s]]]
    /\ job' = NoJob
    /\ Go("media")
    /\ UNCHANGED <<world, saved, pass, snap>>

RemovalFails ==
    /\ pc = "unit"
    /\ Faulty
    /\ job' = NoJob
    /\ Go("media")
    /\ UNCHANGED <<world, saved, state, pass, snap>>

\* The state is saved between the two halves; the pass ends if that fails.
SaveMedia ==
    /\ pc = "media"
    /\ \/ /\ saved' = state
          /\ Go("rescan")
          /\ UNCHANGED <<poll, scan, todo, job>>
       \/ Faulty /\ EndPass /\ UNCHANGED saved
    /\ UNCHANGED <<world, state, snap, dups>>

-----------------------------------------------------------------------------
(* reconcileSidecars: what there is to do, and the next candidate.          *)

Rescan ==
    /\ pc = "rescan"
    /\ scan' = {s \in Sidecars : Present(local[s])}
    /\ todo' = {s \in Sidecars :
                   \/ Owner(s) # None /\ (Present(local[s]) \/ snap[s] # NoEntry)
                   \/ Known(state.sidecars[s])}
    /\ Go("next")
    /\ UNCHANGED <<world, saved, state, poll, snap, dups, job>>

FinishPass ==
    /\ pc = "next"
    /\ todo = {}
    /\ saved' = state \/ (Faulty /\ saved' = saved)
    /\ EndPass
    /\ UNCHANGED <<world, state, snap, dups>>

Take(s) ==
    /\ pc = "next"
    /\ s \in todo
    /\ todo' = todo \ {s}
    /\ UNCHANGED <<world, saved, poll, snap, dups, scan>>

JobFor(s) == [NoJob EXCEPT !.path = s, !.prev = state.sidecars[s], !.ent = snap[s]]

DuplicateBlocked(s) == s \in dups

SkipDuplicate(s) ==
    /\ Take(s)
    /\ DuplicateBlocked(s)
    /\ UNCHANGED <<state, pc, job>>

TakeLocal(s) ==
    /\ Take(s)
    /\ ~DuplicateBlocked(s)
    /\ Owner(s) # None
    /\ s \in scan
    /\ job' = JobFor(s)
    /\ Go("settle")
    /\ UNCHANGED state

\* Mutant: a remote copy is downloaded whether or not there is a local one.
TakeListed(s) ==
    /\ Take(s)
    /\ ~DuplicateBlocked(s)
    /\ Owner(s) # None
    /\ snap[s] # NoEntry
    /\ job' = JobFor(s)
    /\ Go("fetch")
    /\ UNCHANGED state

TakeRemote(s) ==
    /\ Take(s)
    /\ ~DuplicateBlocked(s)
    /\ Owner(s) # None
    /\ s \notin scan
    /\ snap[s] # NoEntry
    /\ job' = JobFor(s)
    /\ Go("fetch")
    /\ UNCHANGED state

\* Neither side has it, or it belongs to no medium any more.
Forget(s) ==
    /\ Take(s)
    /\ ~DuplicateBlocked(s)
    /\ Owner(s) = None \/ (s \notin scan /\ snap[s] = NoEntry)
    /\ state' = [state EXCEPT !.sidecars[s] = NoRecord]
    /\ UNCHANGED <<pc, job>>

-----------------------------------------------------------------------------
(* The local copy exists: does the remote need it?                          *)

\* stableLocalHash: two stats a settle time apart agree, or one fails, or they
\* disagree for a minute.  Only the size of the last one is used.
Settle ==
    /\ pc = "settle"
    /\ Present(local[Here])
    /\ job' = [job EXCEPT !.size = local[Here].size]
    /\ Go("hash")
    /\ UNCHANGED <<world, saved, state, pass, snap>>

SettleFails ==
    /\ pc \in {"settle", "hash"}
    /\ Faulty \/ ~Present(local[Here])
    /\ Continue

\* Mutant: a changed remote object is no reason to upload.
LocalChanged(j) ==
    \/ j.ent = NoEntry
    \/ Known(j.prev) /\ (j.prev.last # j.hash \/ j.prev.status = "upload-failed")

NeedUpload(j) ==
    \/ j.ent = NoEntry
    \/ Known(j.prev) /\ \/ j.prev.last # j.hash
                        \/ j.prev.rem # j.ent
                        \/ j.prev.status = "upload-failed"

\* The remote bytes are read where metadata cannot tell: there is no record, or
\* the entry has no ETag and is the recorded one.
MustCompare(j) ==
    /\ j.ent # NoEntry
    /\ Known(j.prev) => j.prev.rem = j.ent /\ j.ent.etag = 0

\* On with the locals j: upload, or record what is there already.
Proceed(j, need) ==
    IF need
       THEN job' = j /\ Go("open") /\ UNCHANGED state
       ELSE Done(Synchronized(IF Known(j.prev) THEN j.prev.last ELSE j.hash, j.ent))

Decide(j) ==
    IF MustCompare(j)
       THEN job' = j /\ Go("compare") /\ UNCHANGED state
       ELSE Proceed(j, NeedUpload(j))

\* Mutant: an upload in doubt is not looked for.
HashAndDecide ==
    /\ pc = "hash"
    /\ Present(local[Here])
    /\ Decide([job EXCEPT !.hash = local[Here]])
    /\ UNCHANGED <<world, saved, pass, snap>>

Hash ==
    /\ pc = "hash"
    /\ Present(local[Here])
    /\ LET j == [job EXCEPT !.hash = local[Here]]
       IN  IF j.prev.status = "in-doubt"
              THEN job' = j /\ Go("recover") /\ UNCHANGED state
              ELSE Decide(j)
    /\ UNCHANGED <<world, saved, pass, snap>>

\* The object of an upload in doubt is recognized by its size and some ETag.
Recognized(o, size) == o.content.size = size /\ o.etag # 0

RecoverFound ==
    /\ pc = "recover"
    /\ Exists(remote[Here])
    /\ Recognized(remote[Here], job.size)
    /\ LET entry == Listed(remote[Here])
           prev == [job.prev EXCEPT !.last = job.hash, !.rem = entry]
       IN  /\ snap' = [snap EXCEPT ![Here] = entry]
           /\ Decide([job EXCEPT !.prev = prev, !.ent = entry])
    /\ UNCHANGED <<world, saved, pass>>

\* Mutant: "not found" is an error like any other.
AbsentIsError ==
    /\ pc = "recover"
    /\ ~Exists(remote[Here])
    /\ Continue

RecoverAbsent ==
    /\ pc = "recover"
    /\ ~Exists(remote[Here])
    /\ Decide([job EXCEPT !.ent = NoEntry, !.horizon = nextSeq])
    /\ UNCHANGED <<world, saved, pass, snap>>

\* A stat error, or "remote sidecar conflict": only the error text is recorded.
RecoverFails ==
    /\ pc = "recover"
    /\ Faulty \/ (Exists(remote[Here]) /\ ~Recognized(remote[Here], job.size))
    /\ Continue

\* A ranged read answers with the object of the entry's ETag or, where it is
\* another one or none was given, may answer with what lies there now, cut to
\* the entry's size, or with an error.
Readable(e, o) == Exists(o) /\ o.content.size >= e.size
Fetched(e, o) == Prefix(o.content, e.size)
Refused(e, o) == ~Readable(e, o) \/ o.etag # e.etag

Compare ==
    /\ pc = "compare"
    /\ Readable(job.ent, remote[Here])
    /\ LET read == Fetched(job.ent, remote[Here])
       IN  Proceed(job, IF Known(job.prev) THEN NeedUpload(job) \/ read # job.prev.last
                                           ELSE read # job.hash)
    /\ UNCHANGED <<world, saved, pass, snap>>

\* Mutant: the candidate stays in hand.
CompareBreaks ==
    /\ pc = "compare"
    /\ Faulty \/ Refused(job.ent, remote[Here])
    /\ todo' = {}
    /\ Go("next")
    /\ UNCHANGED <<world, saved, state, poll, snap, dups, scan, job>>

\* An error returns from the loop: the candidates after this one wait for the next pass.
CompareFails ==
    /\ pc = "compare"
    /\ Faulty \/ Refused(job.ent, remote[Here])
    /\ job' = NoJob
    /\ todo' = {}
    /\ Go("next")
    /\ UNCHANGED <<world, saved, state, poll, snap, dups, scan>>

-----------------------------------------------------------------------------
(* uploadAndVerify: the path is opened anew, so another file may be sent    *)
(* than was hashed, but never more or fewer bytes than its stat announced.  *)

OpenSource ==
    /\ pc = "open"
    /\ Present(local[Here])
    /\ job' = [job EXCEPT !.src = local[Here]]
    /\ Go("put")
    /\ UNCHANGED <<world, saved, state, pass, snap>>

OpenFails ==
    /\ pc = "open"
    /\ Faulty \/ ~Present(local[Here])
    /\ Done(Failed("upload-failed"))
    /\ UNCHANGED <<world, saved, pass, snap>>

Stores(s, content) ==
    /\ MayWrite
    /\ \E o \in Written(s, content) : remote' = [remote EXCEPT ![s] = o]
    /\ nextSeq' = nextSeq + 1

PutReplies ==
    /\ pc = "put"
    /\ job.src.size = job.size
    /\ Stores(Here, job.src)
    /\ Go("verify")
    /\ UNCHANGED <<local, stray, calm, saved, state, pass, snap, job>>

\* No good answer: nothing is stored, or all, or a part of what was announced.  The
\* error of a file:// origin names no stage: there nothing has been published, or all
\* and only the closing stat failed.
PutFails ==
    /\ pc = "put"
    /\ Faulty \/ job.src.size # job.size
    /\ \E status \in {"in-doubt", "upload-failed"} :
          /\ \/ UNCHANGED world
             \/ /\ \E n \in 1..job.size :
                      /\ n <= job.src.size
                      /\ status = "upload-failed" => n = job.size /\ n = job.src.size
                      /\ Stores(Here, Prefix(job.src, n))
                /\ UNCHANGED <<local, stray, calm>>
             \/ /\ status = "in-doubt"
                /\ stray' \in Stranded
                /\ UNCHANGED <<local, remote, nextSeq, calm>>
          /\ Done(Failed(status))
    /\ UNCHANGED <<saved, pass, snap>>

\* Put's closing stat, and the check of what it says.
VerifyFound ==
    /\ pc = "verify"
    /\ Recognized(remote[Here], job.size)
    /\ LET entry == Listed(remote[Here])
       IN  /\ snap' = [snap EXCEPT ![Here] = entry]
           /\ Done(Synchronized(job.hash, entry))
    /\ UNCHANGED <<world, saved, pass>>

VerifyFails ==
    /\ pc = "verify"
    /\ Faulty \/ ~Recognized(remote[Here], job.size)
    /\ Done(Failed("in-doubt"))
    /\ UNCHANGED <<world, saved, pass, snap>>

-----------------------------------------------------------------------------
(* downloadSidecar: the remote copy is written to a temporary file, which   *)
(* is moved onto the path whatever is there by then.                        *)

Fetch ==
    /\ pc = "fetch"
    /\ Readable(job.ent, remote[Here])
    /\ job' = [job EXCEPT !.hash = Fetched(job.ent, remote[Here])]
    /\ Go("rename")
    /\ UNCHANGED <<world, saved, state, pass, snap>>

FetchFails ==
    /\ pc = "fetch"
    /\ Faulty \/ Refused(job.ent, remote[Here])
    /\ Done(DownloadFailed)
    /\ UNCHANGED <<world, saved, pass, snap>>

Rename ==
    /\ pc = "rename"
    /\ local' = [local EXCEPT ![Here] = job.hash]
    /\ Go("restat")
    /\ UNCHANGED <<remote, stray, nextSeq, calm, saved, state, pass, snap, job>>

\* The write or the rename fails, the sync of the directory after it, or the stat.
DownloadFails ==
    /\ pc \in {"rename", "restat"}
    /\ Faulty \/ (pc = "restat" /\ ~Present(local[Here]))
    /\ Done(DownloadFailed)
    /\ UNCHANGED <<world, saved, pass, snap>>

Restat ==
    /\ pc = "restat"
    /\ Present(local[Here])
    /\ Done(Synchronized(job.hash, job.ent))
    /\ UNCHANGED <<world, saved, pass, snap>>

-----------------------------------------------------------------------------
(* The rest of the world.                                                   *)

LocalChanges(s) ==
    /\ Faulty
    /\ \E c \in {NoContent} \cup {Whole(b) : b \in Bytes} :
          c # local[s] /\ local' = [local EXCEPT ![s] = c]
    /\ UNCHANGED <<remote, stray, nextSeq, calm, saved, service>>

RemoteWrites(s) ==
    /\ Faulty
    /\ \E b \in Bytes : Stores(s, Whole(b))
    /\ UNCHANGED <<local, stray, calm, saved, service>>

RemoteDeletes(s) ==
    /\ Faulty
    /\ Exists(remote[s])
    /\ remote' = [remote EXCEPT ![s] = NoObject]
    /\ UNCHANGED <<local, stray, nextSeq, calm, saved, service>>

\* A server publishes, or drops, a body whose client has gone.
StraySettles(r) ==
    /\ \/ UNCHANGED <<remote, nextSeq>>
       \/ \E n \in 1..r.content.size : Stores(r.path, Prefix(r.content, n))
    /\ stray' = stray \ {r}
    /\ UNCHANGED <<local, calm, saved, service>>

BecomeCalm ==
    /\ ~calm
    /\ calm' = TRUE
    /\ UNCHANGED <<local, remote, stray, nextSeq, saved, service>>

World == \/ \E s \in Sidecars : LocalChanges(s) \/ RemoteWrites(s) \/ RemoteDeletes(s)
         \/ \E r \in stray : StraySettles(r)
         \/ BecomeCalm

MediaPass == \/ \E m \in Media : Track(m) \/ BeginRemoval(m)
             \/ \E s \in Sidecars : RemoveSidecar(s)
             \/ RemoveUnit \/ RemovalFails \/ SaveMedia

TakeNext == \E s \in Sidecars :
               SkipDuplicate(s) \/ TakeLocal(s) \/ TakeRemote(s) \/ Forget(s)

Service ==
    \/ Start \/ PollTick \/ Debounce \/ ScanRemote \/ ScanLocal \/ ScanFails
    \/ MediaPass \/ Rescan \/ TakeNext \/ FinishPass
    \/ Settle \/ SettleFails \/ Hash \/ RecoverFound \/ RecoverAbsent \/ RecoverFails
    \/ Compare \/ CompareFails \/ OpenSource \/ OpenFails \/ PutReplies \/ PutFails
    \/ VerifyFound \/ VerifyFails
    \/ Fetch \/ FetchFails \/ Rename \/ DownloadFails \/ Restat

Next == Service \/ Crash \/ Shutdown \/ World

\* The process runs whenever it can and systemd restarts it (module.nix:263); Go's
\* select chooses at random, so events do not keep the poll ticker from its turn.
Fairness == WF_vars(Service) /\ SF_vars(PollTick)

Spec == Init /\ [][Next]_vars
FairSpec == Spec /\ Fairness

-----------------------------------------------------------------------------
(* What should hold.                                                        *)

\* Every variable has its type, and a candidate is in hand exactly while one is worked on.
TypeOK ==
    /\ local \in [Sidecars -> Contents \cup {NoContent}]
    /\ remote \in [Sidecars -> Objects]
    /\ stray \subseteq Requests
    /\ nextSeq \in Nat \ {0}
    /\ calm \in BOOLEAN
    /\ saved \in States
    /\ state \in States
    /\ pc \in Labels
    /\ poll \in BOOLEAN
    /\ snap \in [Sidecars -> Entries]
    /\ dups \subseteq Sidecars
    /\ scan \subseteq Sidecars
    /\ todo \subseteq Sidecars
    /\ job \in Jobs
    /\ (Here = None) <=> (pc \in Idle)

\* The service's own PUT, or its rename, changes what is at s.
Uploads(s) == s = Here /\ pc = "put" /\ pc' # pc /\ remote'[s] # remote[s]
Restores(s) == s = Here /\ pc = "rename" /\ pc' # pc /\ local'[s] # local[s]

Belongs(s) ==
    \E m \in state.media :
        /\ MatchesSidecarStem(s, m.stem)
        /\ \A n \in state.media \ {m} :
              MatchesSidecarStem(s, n.stem) => Len(n.stem) < Len(m.stem)

\* Bytes move, in either direction, only for a candidate that belongs to exactly
\* one tracked medium, the one of the longest stem (README.md:345, sidecar.go:90),
\* and only where the listing has one object (README.md:359, service.go:285).
OnlyOwned == [][\A s \in Sidecars : Uploads(s) \/ Restores(s) => Belongs(s) /\ s \notin dups]_vars

\* While an upload of s is in doubt, nothing is sent over an object that may be
\* its outcome: what a PUT then replaces was written after a stat of the same
\* attempt had found nothing at the path (service.go:298-320).
DoubtResolvedFirst ==
    [][\A s \in Sidecars :
          Uploads(s) /\ Exists(remote[s]) /\ state.sidecars[s].status = "in-doubt" =>
              job.horizon > 0 /\ remote[s].mtime >= job.horizon]_vars

\* A local sidecar the scan of this pass has found is never replaced by the remote
\* copy: what a restore overwrites has come into being since (service.go:291, 370).
\* Otherwise the service takes local files away only while it removes a unit they match.
ScannedKept ==
    [][\A s \in Sidecars :
          Present(local[s]) /\ local'[s] # local[s] /\ ~UNCHANGED service =>
              \/ Restores(s) /\ s \notin scan
              \/ pc = "unit" /\ MatchesSidecarStem(s, job.unit.stem)]_vars

\* No record, in memory or in state.json, names a medium that is not tracked there:
\* a removal that is cut short keeps the medium, one that ends forgets it everywhere.
RecordsOfTracked ==
    \A s \in Sidecars : /\ state.sidecars[s].medium \in state.media \cup {None}
                        /\ saved.sidecars[s].medium \in saved.media \cup {None}

\* Once the world is calm, every candidate that belongs to a medium comes to exist
\* on both sides or on neither, and the uploads come to an end, whatever crashes,
\* stale snapshots, failed calls and lost answers came before (README.md:349-351).
Settled == \A s \in Sidecars : Owner(s) # None => (Present(local[s]) <=> Exists(remote[s]))
SettlesWhenCalm == <>[](calm => pc # "put" /\ (pc = "idle" => Settled))

\* The record does not claim of the remote object at s what is not so.  It may: it
\* is never read back after an upload, and the local file may have been another
\* one when it was hashed, or when an upload in doubt was recognized by its size.
Truthful(s) ==
    LET rec == state.sidecars[s]
    IN  Known(rec) /\ rec.rem = Listed(remote[s]) /\ rec.rem.etag # 0
            => rec.last = remote[s].content

\* In a calm world the local copy overwrites a remote one that differs, where the
\* record is truthful and no upload is in doubt (README.md:348, service.go:330-339).
LocalWins ==
    \A s \in Sidecars :
        (/\ calm /\ pc = "idle" /\ Owner(s) # None /\ Present(local[s])
         /\ Truthful(s) /\ state.sidecars[s].status # "in-doubt")
            ~> (remote[s].content = local[s])

-----------------------------------------------------------------------------
(* What README.md says and the program does not keep to.                    *)

\* README.md:348 "Sidecars are locally authoritative when both copies exist: local
\* additions and changes overwrite the remote": in a calm world they come to be equal.
LocallyAuthoritative ==
    \A s \in Sidecars :
        (calm /\ pc = "idle" /\ Owner(s) # None /\ Present(local[s]) /\ Exists(remote[s]))
            ~> (remote[s].content = local[s])
=============================================================================
