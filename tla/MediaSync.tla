------------------------------ MODULE MediaSync ------------------------------
(***************************************************************************)
(* The media half of `mediastub sync --daemon' (syncer/service.go,         *)
(* media.go, materialize.go): one sequential service that scans the remote *)
(* and the local root, then takes the media paths one by one and           *)
(* materializes a stub, uploads a real file and replaces it by a stub, or  *)
(* removes a stub whose remote object is gone.                             *)
(*                                                                         *)
(* There is one action per call that touches the disk, the state file or   *)
(* the remote, and the rest of the world (MediaWorld) may act between any  *)
(* two of them: the interleavings of this module are those of the program  *)
(* with downloaders, library owners, other remote clients, and crashes.    *)
(*                                                                         *)
(* `Faulty' marks the outcomes a call may have as long as the world is not *)
(* calm.  Waiting (settle time, poll interval, deadlines) takes no time    *)
(* here: a wait is over when its action is taken.                          *)
(***************************************************************************)
EXTENDS MediaWorld

VARIABLES saved,    \* state.json: path -> status of its media entry
          media,    \* the same in memory (s.state.Media)
          pc,       \* the call the service makes next
          initial,  \* whether this is the pass Run makes before its loop
          poll,     \* whether this pass rescans the remote (remoteScan)
          dirty,    \* in a calm world: an event waits in the watcher's channel
          snap,     \* s.snapshot.Entries, kept from pass to pass
          dups,     \* the paths of s.snapshot.Duplicates
          scan,     \* the local scan of this pass
          scanned,  \* auxiliary: nextId at that scan
          todo,     \* the paths this pass has yet to take
          job       \* the locals of the path in hand

service == <<media, pc, initial, poll, dirty, snap, dups, scan, scanned, todo, job>>
vars == <<world, saved, service>>

\* What stays put while the service works on one path.
pass == <<initial, poll, dups, scan, scanned, todo>>

-----------------------------------------------------------------------------
(***************************************************************************)
(* The status of a media entry, "untracked" where there is none.  The code *)
(* writes eleven and reads back only what KeptStatus keeps of them: that   *)
(* there is an entry, and that an upload was begun and its outcome is not  *)
(* known.  The others are for the log and state.json's reader.             *)
(***************************************************************************)
Uncertain == {"upload-verification-pending", "upload-outcome-unknown", "uploading"}

\* Mutant: a status no reader knows reaches the state.
RawStatus(s) == s

KeptStatus(s) ==
    CASE s \in {"untracked", "uploading"} -> s
      [] s \in Uncertain \ {"uploading"} -> "outcome-unknown"
      [] OTHER -> "settled"

Statuses == {"untracked", "uploading", "outcome-unknown", "settled"}

MayHaveUploaded(s) == s \in {"uploading", "outcome-unknown"}

\* The labels at which no path is in hand.
Idle == {"down", "idle", "scan-remote", "scan-local", "next"}

Labels == Idle \cup
          {"inspect", "access", "recheck", "recover", "pend", "settle", "open", "mark",
           "put", "verify", "complete", "finalize", "guard", "confirm", "remove",
           "probe", "rename", "record"}

(***************************************************************************)
(* The locals of the path in hand: the stat the code compares later ones   *)
(* with (file), the remote entry it acts on (ent), how it came to replace  *)
(* the file (mode), the open upload source (src) and what became of its    *)
(* PUT (req).  `seen' and `horizon' are auxiliary: the file the service    *)
(* last examined with nextId at that moment, and nextSeq when it last      *)
(* learned that the remote path was absent.                                *)
(***************************************************************************)
Jobs == [path: Paths \cup {None}, mode: {"materialize", "upload", "recover"},
         file: Stats, ent: Entries, src: Stats, req: {"none", "sent", "stored", "cut", "refused"},
         seen: [id: Nat, wr: BOOLEAN], upto: Nat, horizon: Nat]

NoJob == [path |-> None, mode |-> "materialize", file |-> NoStat, ent |-> NoEntry,
          src |-> NoStat, req |-> "none", seen |-> [id |-> 0, wr |-> FALSE], upto |-> 0,
          horizon |-> 0]

Here == job.path

\* Extended attributes and access rights are not compared.
SameFile(stat, f) == stat = Stat(f)

\* marker.Inspect: an attribute set is valid if complete and of the stat's size.
Marker(f, size) ==
    CASE f.kind = "real" -> "none"
      [] f.kind = "stub" /\ f.size = size -> "valid"
      [] OTHER -> "invalid"

\* Mutant: the ETag hash of the marker is not compared.
MarkerSizeMatches(f, e) == f.size = e.size

MarkerMatches(f, e) == f.etag = e.etag /\ f.size = e.size

Faulty == ~calm

Go(label) == pc' = label

\* The service goes on to the next path of the pass, with this status map.
Done(m) ==
    /\ media' = m
    /\ job' = NoJob
    /\ Go("next")

Status(p, s) == [media EXCEPT ![p] = KeptStatus(s)]

\* An error return that leaves the entry as it is.
Abandon == Done(media) /\ UNCHANGED <<world, saved, pass, snap, dirty>>

Examine(j) ==
    [j EXCEPT !.seen = [id |-> local[j.path].id, wr |-> local[j.path].wr], !.upto = nextId]

-----------------------------------------------------------------------------
(* Starting, stopping, and the passes of the daemon (Run, scanInputs).      *)

Untracked == [p \in Paths |-> "untracked"]
NothingListed == [p \in Paths |-> NoEntry]
NothingScanned == [p \in Paths |-> NoStat]

ServiceInit ==
    /\ saved = Untracked
    /\ media = Untracked
    /\ pc = "down"
    /\ initial = FALSE
    /\ poll = FALSE
    /\ dirty = FALSE
    /\ snap = NothingListed
    /\ dups = {}
    /\ scan = NothingScanned
    /\ scanned = 0
    /\ todo = {}
    /\ job = NoJob

\* The process is gone, and with it all it held in memory.
Halt ==
    /\ Go("down")
    /\ media' = Untracked
    /\ initial' = FALSE
    /\ poll' = FALSE
    /\ dirty' = FALSE
    /\ snap' = NothingListed
    /\ dups' = {}
    /\ scan' = NothingScanned
    /\ scanned' = 0
    /\ todo' = {}
    /\ job' = NoJob

Start ==
    /\ pc = "down"
    /\ media' = saved
    /\ initial' = TRUE
    /\ poll' = TRUE
    /\ Go("scan-remote")
    /\ UNCHANGED <<world, saved, dirty, snap, dups, scan, scanned, todo, job>>

\* A request whose client goes away before the server has settled it.
StrayRequest == [path |-> Here, horizon |-> job.horizon]
Stranded == IF pc = "put" /\ job.req = "sent" /\ Cardinality(stray) < MaxStrays
               THEN {stray, stray \cup {StrayRequest}}
               ELSE {stray}

Crash ==
    /\ pc # "down"
    /\ Faulty
    /\ stray' \in Stranded
    /\ Halt
    /\ UNCHANGED <<local, remote, nextId, nextSeq, calm, saved>>

\* ctx.Done in the select of Run: the state is saved and the process ends.
Shutdown ==
    /\ pc = "idle"
    /\ Faulty
    /\ saved' = media
    /\ Halt
    /\ UNCHANGED world

PollTick ==
    /\ pc = "idle"
    /\ poll' = TRUE
    /\ Go("scan-remote")
    /\ UNCHANGED <<world, saved, media, initial, dirty, snap, dups, scan, scanned, todo, job>>

\* As long as the world is not calm an event may come from any file of the tree.
Debounce ==
    /\ pc = "idle"
    /\ Faulty \/ dirty
    /\ dirty' = FALSE
    /\ poll' = FALSE
    /\ Go("scan-local")
    /\ UNCHANGED <<world, saved, media, initial, snap, dups, scan, scanned, todo, job>>

\* A path listed twice is a duplicate and has no entry.
ScanRemote ==
    /\ pc = "scan-remote"
    /\ \E twice \in SUBSET {p \in Paths : remote[p] # NoObject} :
          /\ Faulty \/ twice = {}
          /\ dups' = twice
          /\ snap' = [p \in Paths |-> IF p \in twice THEN NoEntry ELSE Listed(remote[p])]
    /\ Go("scan-local")
    /\ UNCHANGED <<world, saved, media, initial, poll, dirty, scan, scanned, todo, job>>

ScanLocal ==
    /\ pc = "scan-local"
    /\ scan' = [p \in Paths |-> Stat(local[p])]
    /\ scanned' = nextId
    /\ todo' = {p \in Paths : \/ snap[p] # NoEntry
                              \/ Present(local[p])
                              \/ media[p] # "untracked"}
    /\ initial' = FALSE
    /\ Go("next")
    /\ UNCHANGED <<world, saved, media, poll, dirty, snap, dups, job>>

\* A failed scan ends the pass before it does anything, and the first one the process.
ScanFails ==
    /\ pc \in {"scan-remote", "scan-local"}
    /\ Faulty
    /\ \/ initial /\ Halt
       \/ /\ ~initial
          /\ Go("idle")
          /\ poll' = FALSE
          /\ UNCHANGED <<media, initial, dirty, snap, dups, scan, scanned, todo, job>>
    /\ UNCHANGED <<world, saved>>

\* All paths are done: the state is saved, unless that fails.
FinishPass ==
    /\ pc = "next"
    /\ todo = {}
    /\ saved' = media \/ (Faulty /\ saved' = saved)
    /\ Go("idle")
    /\ poll' = FALSE
    /\ scan' = NothingScanned
    /\ scanned' = 0
    /\ UNCHANGED <<world, media, initial, dirty, snap, dups, todo, job>>

-----------------------------------------------------------------------------
(* Taking the next path of reconcileMediaFiles.                             *)

\* Its scan entry is read here and never again.
Take(p) ==
    /\ pc = "next"
    /\ p \in todo
    /\ todo' = todo \ {p}
    /\ scan' = [scan EXCEPT ![p] = NoStat]
    /\ UNCHANGED <<world, saved, initial, poll, dirty, snap, dups, scanned>>

JobFor(p) == [NoJob EXCEPT !.path = p, !.file = scan[p], !.ent = snap[p], !.upto = scanned]

SkipDuplicate(p) ==
    /\ Take(p)
    /\ p \in dups
    /\ media' = Status(p, "duplicate-remote-path")
    /\ UNCHANGED <<pc, job>>

TakeAbsent(p) ==
    /\ Take(p)
    /\ p \notin dups
    /\ scan[p] = NoStat
    /\ \/ /\ snap[p] # NoEntry
          /\ job' = JobFor(p)
          /\ Go("probe")
       \/ /\ snap[p] = NoEntry
          /\ media[p] # "untracked" /\ poll
          /\ job' = JobFor(p)
          /\ Go("confirm")
       \/ /\ snap[p] = NoEntry
          /\ ~(media[p] # "untracked" /\ poll)
          /\ UNCHANGED <<pc, job>>
    /\ UNCHANGED media

TakePresent(p) ==
    /\ Take(p)
    /\ p \notin dups
    /\ scan[p] # NoStat
    /\ job' = JobFor(p)
    /\ Go("inspect")
    /\ UNCHANGED media

InspectFails ==
    /\ pc = "inspect"
    /\ Faulty \/ ~Present(local[Here])
    /\ Abandon

InspectInvalid ==
    /\ pc = "inspect"
    /\ Present(local[Here])
    /\ Marker(local[Here], job.file.size) = "invalid"
    /\ Done(Status(Here, "invalid-marker"))
    /\ UNCHANGED <<world, saved, pass, snap, dirty>>

InspectUnmarked ==
    /\ pc = "inspect"
    /\ Marker(local[Here], job.file.size) = "none"
    /\ job' = Examine(job)
    /\ Go(IF job.ent # NoEntry THEN "access" ELSE "recheck")
    /\ UNCHANGED <<world, saved, media, pass, snap, dirty>>

InspectStub ==
    /\ pc = "inspect"
    /\ Present(local[Here])
    /\ Marker(local[Here], job.file.size) = "valid"
    /\ \/ /\ job.ent # NoEntry /\ MarkerMatches(local[Here], job.ent)
          /\ Done(Status(Here, "remote-stub"))
       \/ /\ job.ent # NoEntry /\ ~MarkerMatches(local[Here], job.ent)
          /\ job' = Examine(job)
          /\ Go("probe")
          /\ UNCHANGED media
       \/ /\ job.ent = NoEntry /\ poll
          /\ job' = Examine(job)
          /\ Go("confirm")
          /\ UNCHANGED media
       \/ /\ job.ent = NoEntry /\ ~poll
          /\ Done(media)
    /\ UNCHANGED <<world, saved, pass, snap, dirty>>

\* access(2) on an unmarked file whose remote object exists.
Access ==
    /\ pc = "access"
    /\ \/ /\ ~local[Here].wr
          /\ Done(Status(Here, "remote-present-local-readonly"))
       \/ /\ local[Here].wr
          /\ job' = Examine(job)
          /\ Go("probe")
          /\ UNCHANGED media
    /\ UNCHANGED <<world, saved, pass, snap, dirty>>

-----------------------------------------------------------------------------
(* Uploading a real file whose remote path is absent (uploadLocalMedia).    *)

\* Mutant: the absence the scan reported is taken for the present one.
RecheckSkipped ==
    /\ pc = "recheck"
    /\ job' = [job EXCEPT !.horizon = nextSeq]
    /\ Go(IF MayHaveUploaded(media[Here]) THEN "recover" ELSE "pend")
    /\ UNCHANGED <<world, saved, media, pass, snap, dirty>>

\* The remote path is absent now: an upload of an earlier attempt whose outcome
\* is not known is looked for first.
RecheckAbsent ==
    /\ pc = "recheck"
    /\ remote[Here] = NoObject
    /\ job' = [job EXCEPT !.horizon = nextSeq]
    /\ Go(IF MayHaveUploaded(media[Here]) THEN "recover" ELSE "pend")
    /\ UNCHANGED <<world, saved, media, pass, snap, dirty>>

RecheckFound ==
    /\ pc = "recheck"
    /\ remote[Here] # NoObject
    /\ snap' = [snap EXCEPT ![Here] = Listed(remote[Here])]
    /\ job' = [job EXCEPT !.ent = Listed(remote[Here])]
    /\ Go("access")
    /\ UNCHANGED <<world, saved, media, pass, dirty>>

RemoteStatFails ==
    /\ pc \in {"recheck", "recover", "confirm"}
    /\ Faulty
    /\ Abandon

RecoverAbsent ==
    /\ pc = "recover"
    /\ remote[Here] = NoObject
    /\ job' = [job EXCEPT !.horizon = nextSeq]
    /\ Go("pend")
    /\ UNCHANGED <<world, saved, media, pass, snap, dirty>>

Recovers(o, f) == o.size = f.size /\ o.etag # 0

\* Size and ETag are what they should be: the object passes for the upload.
RecoverFound ==
    /\ pc = "recover"
    /\ remote[Here] # NoObject
    /\ Recovers(remote[Here], job.file)
    /\ Present(local[Here])
    /\ job' = [job EXCEPT !.mode = "recover", !.ent = Listed(remote[Here])]
    /\ Go("complete")
    /\ UNCHANGED <<world, saved, media, pass, snap, dirty>>

\* A conflict, or a local file that is gone or cannot be probed.
RecoverFails ==
    /\ pc = "recover"
    /\ remote[Here] # NoObject
    /\ Recovers(remote[Here], job.file) /\ Present(local[Here]) => Faulty
    /\ Abandon

\* The entry becomes pending, in state.json too unless that fails.
Pend ==
    /\ pc = "pend"
    /\ \/ /\ media' = Status(Here, "pending-upload")
          /\ saved' = media'
          /\ Go("settle")
          /\ UNCHANGED job
       \/ /\ Faulty
          /\ Done(Status(Here, "pending-upload"))
          /\ UNCHANGED saved
    /\ UNCHANGED <<world, pass, snap, dirty>>

\* waitStableMedia: two stats in a row agree, or the later one is kept.
Settle ==
    /\ pc = "settle"
    /\ Present(local[Here])
    /\ job' = [job EXCEPT !.file = Stat(local[Here])]
    /\ IF SameFile(job.file, local[Here]) THEN Go("open") ELSE UNCHANGED pc
    /\ UNCHANGED <<world, saved, media, pass, snap, dirty>>

SettleFails ==
    /\ pc = "settle"
    /\ \/ ~Present(local[Here])
       \/ Faulty /\ ~SameFile(job.file, local[Here])
    /\ Abandon

\* Whatever is at the path now is opened and probed.
OpenSource ==
    /\ pc = "open"
    /\ Present(local[Here])
    /\ job' = [job EXCEPT !.src = Stat(local[Here])]
    /\ Go("mark")
    /\ UNCHANGED <<world, saved, media, pass, snap, dirty>>

OpenFails ==
    /\ pc = "open"
    /\ \/ Abandon /\ (Faulty \/ ~Present(local[Here]))
       \/ /\ Present(local[Here]) /\ Faulty
          /\ Done(Status(Here, "probe-failed"))
          /\ UNCHANGED <<world, saved, pass, snap, dirty>>

\* Mutant: the state is saved only after the upload.
MarkUploadingLate ==
    /\ pc = "mark"
    /\ media' = Status(Here, "uploading")
    /\ job' = [job EXCEPT !.req = "sent"]
    /\ Go("put")
    /\ UNCHANGED <<world, saved, pass, snap, dirty>>

\* The entry is "uploading" on disk before the first byte is sent.
MarkUploading ==
    /\ pc = "mark"
    /\ \/ /\ media' = Status(Here, "uploading")
          /\ saved' = media'
          /\ job' = [job EXCEPT !.req = "sent"]
          /\ Go("put")
       \/ /\ Faulty
          /\ Done(Status(Here, "uploading"))
          /\ UNCHANGED saved
    /\ UNCHANGED <<world, pass, snap, dirty>>

\* The server: it publishes the body, part of it, or refuses it.
ServerStores ==
    /\ pc = "put"
    /\ job.req = "sent"
    /\ MayWrite
    /\ \E o \in Written(job.src.size) : remote' = [remote EXCEPT ![Here] = o]
    /\ nextSeq' = nextSeq + 1
    /\ job' = [job EXCEPT !.req = "stored"]
    /\ UNCHANGED <<local, stray, nextId, calm, saved, media, pc, pass, snap, dirty>>

ServerCuts ==
    /\ pc = "put"
    /\ job.req = "sent"
    /\ Faulty /\ MayWrite
    /\ \E o \in Written(Cut) : remote' = [remote EXCEPT ![Here] = o]
    /\ nextSeq' = nextSeq + 1
    /\ job' = [job EXCEPT !.req = "cut"]
    /\ UNCHANGED <<local, stray, nextId, calm, saved, media, pc, pass, snap, dirty>>

ServerRefuses ==
    /\ pc = "put"
    /\ job.req = "sent"
    /\ Faulty
    /\ job' = [job EXCEPT !.req = "refused"]
    /\ UNCHANGED <<world, saved, media, pc, pass, snap, dirty>>

PutReplies ==
    /\ pc = "put"
    /\ job.req = "stored"
    /\ Go("verify")
    /\ UNCHANGED <<world, saved, media, pass, snap, dirty, job>>

\* A transfer or response error; a file:// origin fails without a stage, and
\* then has published nothing, or everything and only its last stat failed.
PutFails ==
    /\ pc = "put"
    /\ Faulty \/ job.req \in {"cut", "refused"}
    /\ \/ Done(Status(Here, "upload-outcome-unknown"))
       \/ job.req \in {"refused", "stored"} /\ Done(Status(Here, "upload-failed"))
    /\ stray' \in Stranded
    /\ UNCHANGED <<local, remote, nextId, nextSeq, calm, saved, pass, snap, dirty>>

\* The PROPFIND that ends a PUT.
VerifyFound ==
    /\ pc = "verify"
    /\ remote[Here] # NoObject
    /\ job' = [job EXCEPT !.mode = "upload", !.ent = Listed(remote[Here])]
    /\ Go("complete")
    /\ UNCHANGED <<world, saved, media, pass, snap, dirty>>

VerifyFails ==
    /\ pc = "verify"
    /\ Faulty \/ remote[Here] = NoObject
    /\ Done(Status(Here, "upload-verification-pending"))
    /\ UNCHANGED <<world, saved, pass, snap, dirty>>

Verified == job.ent.size = job.file.size /\ job.ent.etag # 0

\* completeMediaUpload: neither side has changed, and the remote is recorded.
Complete ==
    /\ pc = "complete"
    /\ Present(local[Here])
    /\ SameFile(job.file, local[Here])
    /\ Verified
    /\ snap' = [snap EXCEPT ![Here] = job.ent]
    /\ \/ /\ saved' = media
          /\ Go("finalize")
          /\ UNCHANGED <<media, job>>
       \/ /\ Faulty
          /\ Done(media)
          /\ UNCHANGED saved
    /\ UNCHANGED <<world, pass, dirty>>

CompleteFails ==
    /\ pc = "complete"
    /\ \/ ~Present(local[Here]) /\ Done(media)
       \/ /\ Present(local[Here]) /\ ~SameFile(job.file, local[Here])
          /\ Done(Status(Here, "pending-upload"))
       \/ /\ SameFile(job.file, local[Here]) /\ ~Verified
          /\ Done(Status(Here, "upload-verification-pending"))
    /\ UNCHANGED <<world, saved, pass, snap, dirty>>

-----------------------------------------------------------------------------
(* Replacing the file by a stub (finalizeUploadedMedia, materializeRemote). *)

\* A file the service may not write stays, and the entry says so.
Finalize ==
    /\ pc = "finalize"
    /\ \/ /\ ~local[Here].wr
          /\ Done(Status(Here, "remote-present-local-readonly"))
       \/ /\ local[Here].wr /\ ~SameFile(job.file, local[Here])
          /\ Done(media)
       \/ /\ local[Here].wr /\ SameFile(job.file, local[Here])
          /\ Go("guard")
          /\ UNCHANGED <<media, job>>
    /\ UNCHANGED <<world, saved, pass, snap, dirty>>

\* Mutant: the file about to be replaced is not compared with the uploaded one.
MayReplaceAny(f) == f.wr

MayReplace(f) == SameFile(job.file, f) /\ f.wr

\* beforeRename, with the stub complete under its temporary name.
Guard ==
    /\ pc = "guard"
    /\ MayReplace(local[Here])
    /\ job' = Examine(job)
    /\ Go("rename")
    /\ dirty' = calm
    /\ UNCHANGED <<world, saved, media, pass, snap>>

GuardFails ==
    /\ pc = "guard"
    /\ \/ /\ Faulty \/ ~SameFile(job.file, local[Here])
          /\ Done(Status(Here, "stub-generation-failed"))
       \/ /\ Faulty \/ (SameFile(job.file, local[Here]) /\ ~local[Here].wr)
          /\ Done(Status(Here, "remote-present-local-readonly"))
    /\ dirty' = calm
    /\ UNCHANGED <<world, saved, pass, snap>>

\* Range reads carry If-Range: those of an object with another ETag fail, unless one of
\* them asks for all of it.
AsListed(e, o) == o # NoObject /\ (e.etag = 0 \/ o.etag = e.etag)

ProbeRemote ==
    /\ pc = "probe"
    /\ remote[Here] # NoObject
    /\ job' = [job EXCEPT !.mode = "materialize"]
    /\ Go("rename")
    /\ UNCHANGED <<world, saved, media, pass, snap, dirty>>

ProbeFails ==
    /\ pc = "probe"
    /\ Faulty \/ ~AsListed(job.ent, remote[Here])
    /\ Done(Status(Here, "probe-failed"))
    /\ UNCHANGED <<world, saved, pass, snap, dirty>>

StubSize == IF job.mode = "materialize" THEN job.ent.size ELSE job.file.size

\* The rename replaces whatever is at the path; the directory sync may fail after it.
Rename ==
    /\ pc = "rename"
    /\ local' = [local EXCEPT ![Here] = StubFile(job.ent.etag, StubSize)]
    /\ \/ Go("record") /\ UNCHANGED <<media, job>>
       \/ Faulty /\ Done(Status(Here, "stub-generation-failed"))
    /\ dirty' = calm
    /\ UNCHANGED <<remote, stray, nextId, nextSeq, calm, saved, pass, snap>>

RenameFails ==
    /\ pc = "rename"
    /\ Faulty
    /\ \/ Done(Status(Here, "stub-generation-failed"))
       \/ /\ job.mode # "materialize"
          /\ Done(Status(Here, "remote-present-local-readonly"))
    /\ dirty' = calm
    /\ UNCHANGED <<world, saved, pass, snap>>

\* The new stub is read back before the entry says "remote-stub".
Record ==
    /\ pc = "record"
    /\ Done(IF local[Here].kind = "stub" THEN Status(Here, "remote-stub") ELSE media)
    /\ UNCHANGED <<world, saved, pass, snap, dirty>>

RecordFails ==
    /\ pc = "record"
    /\ Faulty
    /\ Abandon

-----------------------------------------------------------------------------
(* Removing a local stub whose remote object is gone.                       *)

ConfirmMissing ==
    /\ pc = "confirm"
    /\ remote[Here] = NoObject
    /\ job' = [job EXCEPT !.horizon = nextSeq]
    /\ Go("remove")
    /\ UNCHANGED <<world, saved, media, pass, snap, dirty>>

ConfirmPresent ==
    /\ pc = "confirm"
    /\ remote[Here] # NoObject
    /\ Abandon

\* removeLocalMediaUnit, without its sidecars: the path is removed as it is now.
RemoveUnit ==
    /\ pc = "remove"
    /\ local' = [local EXCEPT ![Here] = NoFile]
    /\ Done(Status(Here, "untracked"))
    /\ dirty' = calm
    /\ UNCHANGED <<remote, stray, nextId, nextSeq, calm, saved, pass, snap>>

RemoveFails ==
    /\ pc = "remove"
    /\ Faulty
    /\ Abandon

-----------------------------------------------------------------------------
(* The rest of the world, between any two steps of the service.             *)

\* An open upload source sees what is written into its file: the body the
\* server receives is then neither version.
Overwrite(p) ==
    /\ WriteInPlace(p)
    /\ job' = IF Here = p /\ job.src.id = local[p].id
                 THEN [job EXCEPT !.src.id = 0]
                 ELSE job

LibraryChanges(p) ==
    /\ Faulty
    /\ \/ Overwrite(p)
       \/ ReplaceOrTouch(p) /\ UNCHANGED job
    /\ UNCHANGED <<saved, media, pc, pass, snap, dirty>>

RemoteChanges(p) == Faulty /\ RemoteSide(p) /\ UNCHANGED <<saved, service>>
StraysSettle == StraySettles /\ UNCHANGED <<saved, service>>
CalmDown ==
    /\ BecomeCalm
    /\ dirty' = (pc # "down")
    /\ UNCHANGED <<saved, media, pc, pass, snap, job>>

World == \/ \E p \in Paths : LibraryChanges(p) \/ RemoteChanges(p)
         \/ StraysSettle
         \/ CalmDown

TakeNext == \E p \in Paths : SkipDuplicate(p) \/ TakeAbsent(p) \/ TakePresent(p)

Service ==
    \/ Start \/ PollTick \/ Debounce
    \/ ScanRemote \/ ScanLocal \/ ScanFails \/ TakeNext \/ FinishPass
    \/ InspectFails \/ InspectInvalid \/ InspectUnmarked \/ InspectStub \/ Access
    \/ RecheckAbsent \/ RecheckFound \/ RemoteStatFails
    \/ RecoverAbsent \/ RecoverFound \/ RecoverFails
    \/ Pend \/ Settle \/ SettleFails \/ OpenSource \/ OpenFails \/ MarkUploading
    \/ PutReplies \/ PutFails \/ VerifyFound \/ VerifyFails
    \/ Complete \/ CompleteFails \/ Finalize \/ Guard \/ GuardFails
    \/ ProbeRemote \/ ProbeFails \/ Rename \/ RenameFails \/ Record \/ RecordFails
    \/ ConfirmMissing \/ ConfirmPresent \/ RemoveUnit \/ RemoveFails

Server == ServerStores \/ ServerCuts \/ ServerRefuses

Stop == Crash \/ Shutdown

Init == WorldInit /\ ServiceInit
Next == Service \/ Server \/ Stop \/ World

\* The process runs whenever it can, systemd restarts it (module.nix:263), and
\* a server that is asked eventually answers.
Fairness == WF_vars(Service) /\ WF_vars(Server)

Spec == Init /\ [][Next]_vars
FairSpec == Spec /\ Fairness

-----------------------------------------------------------------------------
(* What should hold.                                                        *)

\* Every variable has its type, and a path is in hand exactly while one is worked on.
TypeOK ==
    /\ WorldTypeOK
    /\ saved \in [Paths -> Statuses]
    /\ media \in [Paths -> Statuses]
    /\ pc \in Labels
    /\ initial \in BOOLEAN
    /\ poll \in BOOLEAN
    /\ dirty \in BOOLEAN
    /\ snap \in [Paths -> Entries]
    /\ dups \subseteq Paths
    /\ scan \in [Paths -> Stats]
    /\ scanned \in Nat
    /\ todo \subseteq Paths
    /\ job \in Jobs
    /\ (Here = None) <=> (pc \in Idle)

\* The service, not the library's owners, takes the file at p away.
TakesAway(p) == pc' # pc /\ local'[p] # local[p]

\* A file with bytes of its own, its marker broken or not, that was at its path when
\* the service last examined the path is taken away only by a rename, only if it was
\* writable then, and, after an upload, only if it is the very file whose bytes the
\* server has acknowledged.  (A file that arrives after the last look is at the mercy
\* of the rename: materializePlanGuarded compares before it, and materializePlan not
\* at all; nor is a marker looked at again, so one that breaks later saves no file.)
NoKnownFileLost ==
    [][\A p \in Paths :
          TakesAway(p) /\ local[p].id # 0 /\ local[p].id < job.upto =>
              /\ pc = "rename"
              /\ job.seen.id = local[p].id /\ job.seen.wr
              /\ job.mode = "upload" => job.req = "stored" /\ job.src.id = local[p].id]_vars

\* Neither a PUT nor the removal of a local file acts on an absence that was only
\* scanned: what a PUT overwrites, its own or one left behind by a dead client,
\* and what is on the remote when the local unit goes, was written after a stat
\* of this very attempt had found nothing at the path (media.go:507, 257, 382).
AbsenceIsConfirmed ==
    [][/\ \A p \in Paths :
             remote[p] # NoObject /\ p = Here =>
                /\ remote'[p] # remote[p] /\ job' # job => remote[p].seq >= job.horizon
                /\ pc = "remove" /\ TakesAway(p) => remote[p].seq >= job.horizon
       /\ \A r \in stray :
             r \notin stray' /\ remote' # remote /\ remote[r.path] # NoObject =>
                remote[r.path].seq >= r.horizon]_vars

\* From the first byte of a PUT to its answer state.json says "uploading", so a
\* process that dies in between looks for the object before it sends it again.
UploadIsDurable == pc = "put" => saved[Here] = "uploading"

\* Local and remote agree on a path: a stub of the ETag and the size of the object, a
\* real file the service may not replace, a file with an invalid marker, or nothing on
\* both sides.  An ETag belongs to one object; where neither side has one the size alone
\* must tell objects apart, here as in markerMatchesRemote, and a stub of an equally
\* long object that was there before stays.
Agrees(f, o) ==
    \/ f.kind = "stub" /\ o # NoObject /\ f.etag = o.etag /\ f.size = o.size
    \/ f.kind = "real" /\ o # NoObject /\ ~f.wr
    \/ f.kind = "broken"
    \/ ~Present(f) /\ o = NoObject

\* Once the world is calm, every path comes to agree and stays so, whatever crashes,
\* stale snapshots, failed calls, lost answers and replaced objects came before.
SettlesWhenCalm == <>[](calm => \A p \in Paths : Agrees(local[p], remote[p]))

-----------------------------------------------------------------------------
(* What README.md says and the program does not keep to.                    *)

\* README.md:355 "It never removes an unmarked real local media file": the file
\* os.Remove takes away (media.go:413) is not an unmarked one.
NeverRemovesRealFile ==
    [][\A p \in Paths : pc = "remove" /\ TakesAway(p) => local[p].kind # "real"]_vars

\* README.md:329 "Probe, upload, verification or stub-generation failure
\* preserves the real local file": a file whose upload has ended in doubt is not
\* replaced by a stub of an object that does not have its size.
FailedUploadPreservesFile ==
    [][\A p \in Paths :
          TakesAway(p) /\ local[p].kind = "real" /\ MayHaveUploaded(media[p]) /\ pc = "rename" =>
              job.ent.size = local[p].size]_vars
=============================================================================
