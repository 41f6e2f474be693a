----------------------------- MODULE MediaWorld -----------------------------
(***************************************************************************)
(* What a sync service shares with the rest of the world: the local        *)
(* library directory, the remote collection, and the PUT requests a server *)
(* may still be working on after the service has given up on them.         *)
(*                                                                         *)
(* A file is known by what the code can learn of it.  `id' is its identity *)
(* to sameLocalFile (inode, size and mtime) and the name of its bytes:     *)
(* every download and every rewrite takes a fresh one.  A stub has id 0,   *)
(* since nobody needs its bytes.  It is one by its five user.mediastub.*   *)
(* attributes, of which the remote ETag and size matter here; they also    *)
(* stand for its inode.  A file is `broken' if its attributes are no valid *)
(* marker, and keeps all else that it was.  All sizes are positive.        *)
(***************************************************************************)
EXTENDS Naturals, FiniteSets

CONSTANTS Paths,      \* the included media paths, relative to both roots
          MaxFiles,   \* bound: real local files that come into being
          MaxWrites,  \* bound: remote objects written before the world is calm
          MaxStrays,  \* bound: PUTs a server still works on after the client is gone
          NoETags,    \* whether the server may omit the ETag of an object
          Calming,    \* whether the world ever becomes calm
          None        \* no path

ASSUME WorldAssumption ==
    /\ MaxFiles \in Nat
    /\ MaxWrites \in Nat
    /\ MaxStrays \in Nat
    /\ NoETags \in BOOLEAN
    /\ Calming \in BOOLEAN
    /\ None \notin Paths

VARIABLES local,    \* path -> the file at that path of the local root
          remote,   \* path -> the object at that path of the remote
          stray,    \* PUTs whose client has gone and the server has not settled
          nextId,   \* the next fresh file identity
          nextSeq,  \* the next fresh remote write, also its ETag
          calm      \* from now on nobody but the service acts and no call fails

world == <<local, remote, stray, nextId, nextSeq, calm>>

-----------------------------------------------------------------------------
Full == 2  \* the size of every complete media file
Cut  == 1  \* the size of an object that does not hold a whole media file

Files == [kind: {"none", "real", "stub", "broken"},
          id: Nat, etag: Nat, size: 0..Full, wr: BOOLEAN]

NoFile == [kind |-> "none", id |-> 0, etag |-> 0, size |-> 0, wr |-> FALSE]
RealFile(id, wr) == [kind |-> "real", id |-> id, etag |-> 0, size |-> Full, wr |-> wr]
StubFile(etag, size) == [kind |-> "stub", id |-> 0, etag |-> etag, size |-> size, wr |-> FALSE]

Present(f) == f.kind # "none"

\* What stat tells of a file (localFile), without its contents, attributes and rights.
Stats == [id: Nat, etag: Nat, size: 0..Full]
NoStat == [id |-> 0, etag |-> 0, size |-> 0]
Stat(f) == [id |-> f.id, etag |-> f.etag, size |-> f.size]

\* `seq' orders the objects by the time of their write.
Objects == [seq: Nat, etag: Nat, size: 0..Full]
NoObject == [seq |-> 0, etag |-> 0, size |-> 0]

\* What PROPFIND tells of an object.
Entries == [etag: Nat, size: 0..Full]
NoEntry == [etag |-> 0, size |-> 0]
Listed(o) == [etag |-> o.etag, size |-> o.size]

\* A PUT in the server's hands: `horizon' is nextSeq when the client last
\* learned that the path was absent (an auxiliary field, read by properties only).
Requests == [path: Paths, horizon: Nat]

\* The objects one write may create: it may come without an ETag.
Written(size) ==
    {[seq |-> nextSeq, etag |-> e, size |-> size] :
        e \in IF NoETags THEN {0, nextSeq} ELSE {nextSeq}}

MayWrite == calm \/ nextSeq <= MaxWrites

WorldInit ==
    /\ local = [p \in Paths |-> NoFile]
    /\ remote = [p \in Paths |-> NoObject]
    /\ stray = {}
    /\ nextId = 1
    /\ nextSeq = 1
    /\ calm = FALSE

WorldTypeOK ==
    /\ local \in [Paths -> Files]
    /\ remote \in [Paths -> Objects]
    /\ stray \subseteq Requests
    /\ nextId \in Nat \ {0}
    /\ nextSeq \in Nat \ {0}
    /\ calm \in BOOLEAN

-----------------------------------------------------------------------------
(* The local side: a downloader, and the people who own the library.       *)

\* A downloader moves a finished file onto the path with one rename.
Download(p) ==
    /\ nextId <= MaxFiles
    /\ \E wr \in BOOLEAN : local' = [local EXCEPT ![p] = RealFile(nextId, wr)]
    /\ nextId' = nextId + 1
    /\ UNCHANGED <<remote, stray, nextSeq, calm>>

\* Somebody writes in place into a file that has bytes of its own.
WriteInPlace(p) ==
    /\ local[p].id # 0
    /\ nextId <= MaxFiles
    /\ local' = [local EXCEPT ![p].id = nextId]
    /\ nextId' = nextId + 1
    /\ UNCHANGED <<remote, stray, nextSeq, calm>>

DeleteLocal(p) ==
    /\ Present(local[p])
    /\ local' = [local EXCEPT ![p] = NoFile]
    /\ UNCHANGED <<remote, stray, nextId, nextSeq, calm>>

\* chmod, or a change of owner: whatever the file's marker.
Chmod(p) ==
    /\ Present(local[p])
    /\ local' = [local EXCEPT ![p].wr = ~@]
    /\ UNCHANGED <<remote, stray, nextId, nextSeq, calm>>

\* A stub loses an attribute, or a real file is given one: neither changes the
\* inode, the size or the mtime.
BreakMarker(p) ==
    /\ local[p].kind \in {"stub", "real"}
    /\ local' = [local EXCEPT ![p].kind = "broken"]
    /\ UNCHANGED <<remote, stray, nextId, nextSeq, calm>>

\* A stub of another object is moved onto the path, its attributes with it.
MoveStubIn(p) ==
    /\ local' = [local EXCEPT ![p] = StubFile(0, Full)]
    /\ UNCHANGED <<remote, stray, nextId, nextSeq, calm>>

ReplaceOrTouch(p) == \/ Download(p) \/ DeleteLocal(p) \/ Chmod(p)
                     \/ BreakMarker(p) \/ MoveStubIn(p)

-----------------------------------------------------------------------------
(* The remote side: other clients, and the server settling stray PUTs.     *)

RemotePut(p) ==
    /\ nextSeq <= MaxWrites
    /\ \E o \in Written(Cut) \cup Written(Full) :
          remote' = [remote EXCEPT ![p] = o]
    /\ nextSeq' = nextSeq + 1
    /\ UNCHANGED <<local, stray, nextId, calm>>

RemoteDelete(p) ==
    /\ remote[p] # NoObject
    /\ remote' = [remote EXCEPT ![p] = NoObject]
    /\ UNCHANGED <<local, stray, nextId, nextSeq, calm>>

RemoteSide(p) == RemotePut(p) \/ RemoteDelete(p)

\* The server publishes a body whose client has gone: all of it, or what arrived.
StrayLands(r) ==
    /\ MayWrite
    /\ \E o \in Written(Cut) \cup Written(Full) :
          remote' = [remote EXCEPT ![r.path] = o]
    /\ nextSeq' = nextSeq + 1
    /\ stray' = stray \ {r}
    /\ UNCHANGED <<local, nextId, calm>>

StrayDropped(r) ==
    /\ stray' = stray \ {r}
    /\ UNCHANGED <<local, remote, nextId, nextSeq, calm>>

StraySettles == \E r \in stray : StrayLands(r) \/ StrayDropped(r)

BecomeCalm ==
    /\ Calming
    /\ ~calm
    /\ calm' = TRUE
    /\ UNCHANGED <<local, remote, stray, nextId, nextSeq>>
=============================================================================
