# mediastub: TLA+ models and proofs

mediastub keeps a remote WebDAV (or `file://`) media collection and a local library
directory in step. Locally a media file is a *stub*: a file of the remote's size that
holds only the bytes a media scanner reads (container headers, tables, the tail) and
zeros elsewhere, recognised by five extended attributes (`user.mediastub.*`). `mediastub
sync` makes stubs of remote objects, uploads real files that a downloader puts into the
library and then replaces them by stubs, and synchronizes sidecars (`.nfo`, `.srt`, ...)
in both directions. `mediastub mount` is a read-only FUSE view of such a remote
collection that serves stubs of its media on the fly.

This directory holds the TLA+ modules that model it, the TLC configurations that check
them, and TLAPS proofs of the properties that matter most. Paths of source files below
are relative to the repository, as in `PROJECT.json`, whose `map` names the lines each
definition stands for.

## 1. The system: inventory

| Component | Source | State it keeps | Operations | Interacts with |
|---|---|---|---|---|
| Media reconciliation | `syncer/media.go`, `syncer/materialize.go` | `state.Media[path].Status`; the locals of the path in hand | inspect, upload (recheck, recover, settle, open, mark, PUT, verify), replace by stub, remove | markers, origin, state store, library directory |
| Daemon loop | `syncer/service.go` `Run`, `syncer/watcher.go` | snapshot, debounce timer, poll ticker, watcher channel | initial pass, poll pass, local pass, shutdown | scans, reconciliation, state store, fsnotify |
| State store | `syncer/state.go` | `state.json`, its lock | load with identity check, save by temporary file and rename | file system |
| Scans | `syncer/scan.go` | none (one snapshot per call) | remote walk with duplicates, local walk, removal of empty directories | origin, library directory |
| Sidecar reconciliation | `syncer/service.go` 225-500, `syncer/sidecar.go` | `state.Sidecars[path]` hash and ETag | classify, upload, download, recover, remove with the media unit | as media |
| Markers | `marker/marker.go` | five extended attributes | inspect, set, compare | file system |
| WebDAV origin | `origin/webdav.go` | none | list, stat, range reads with If-Range, PUT with a deadline | server |
| Local origin | `origin/local.go` | none | the same on a directory | file system |
| URLs, credentials | `origin/remote.go`, `auth.go`, `origin.go` | none | parse | - |
| Plan cache and views | `mountfs/service.go` | map of cached calls with their `ready` channels | lookup, single-flight probe, eviction, open a view | core, FUSE nodes |
| FUSE nodes | `mountfs/fuse.go` | an attribute cache per node, a listing cache per directory, each with deadlines | getattr, lookup, readdir, open, read, release | plan cache |
| Stub plans | `core/plan.go` | extents and bytes | build, read at | probes |
| Budgeted source | `core/source.go`, `core/probe.go` | window, byte budget, counters | read at | parsers, origin |
| Container parsers | `core/mp4.go`, `core/matroska.go` | cursor | box and element walks | budgeted source |
| Include filter | `pathfilter/matcher.go` | patterns | match | scans, mount |
| Command line, notification | `cmd/mediastub/main.go`, `internal/sdnotify/notify.go` | none | flags, one datagram | systemd |
| NixOS module | `module.nix`, `package.nix`, `flake.nix` | none | configuration | systemd |

How they interact. One goroutine runs the daemon: it is woken by the poll ticker or by
the debounce timer the watcher's channel restarts, scans the remote (poll passes only)
and the local root, and takes the sidecars and the media paths one after the other. It
shares the library directory with downloaders and its owners, the remote with other
clients, and nothing orders its calls with theirs. Its only memory over a crash is
`state.json`. The mount is a different process and concurrent inside: FUSE requests call
the plan cache from many goroutines under one mutex.

What is hard, and the properties that make each part correct:

- **Media reconciliation.** Each step acts on what an earlier one saw (the scan, the
  inspection, a stat) while others rename files onto the path and write to the remote. A
  real file must never be lost: it may be replaced only once its bytes are known to be
  on the server. A PUT may be answered late, never, or after the client has died. No PUT
  may overwrite an object that was already there when the attempt looked. A stale
  snapshot must not lead to a removal. And when the disturbances end, every path must
  settle by itself.
- **Daemon loop.** Events restart the debounce, the service's own writes raise events, the
  watcher's channel holds one value, a new directory may stay unwatched. A change must be
  followed by a pass, a failed save by no sidecars, and a stop must be obeyed.
- **State store.** A crash at any step of a save leaves a complete state of the right
  identity; two processes never both own it.
- **Scans.** A walk is not atomic: an object moved between two listings is seen twice or
  not at all. A failed listing must not read as an empty one.
- **Sidecars.** Recovery by size, a hash taken before the bytes are sent, a media stem
  that is a prefix of another's, one sidecar's error ending the loop.
- **Plan cache.** One probe per key at a time, no probe in flight evicted, at most
  `CacheEntries` results kept, every follower released, the leader's error shared; and
  none of this may give an opener a view it could not have got alone.
- **FUSE nodes.** Three caches lie one behind the other, and a late answer fills the
  first: how old may what the kernel trusts be? The same inode is a stub to one reader
  and the object to another, and they share a page cache.
- **Stub plans, budgeted source, parsers.** Sizes that an object claims of itself, up to
  the end of the range; a window that outlives the read that filled it, also a failed
  one; a stub that must scan like the object it stands for.

`PROJECT.json` lists every component with its status and every hazard at its line.

## 2. The modules

| Module | What it is |
|---|---|
| `MediaWorld` | what the service shares with everybody: library, remote, abandoned PUTs, and the actions of downloaders, owners, other clients and the server |
| `MediaSync` | the service itself, composed with `MediaWorld`; the properties |
| `MCMediaSync` | instantiates it for TLC |
| `MediaSyncProofs` | theorems `TypeCorrect`, `UploadMarkDurable` |
| `MediaKnownProofs` | the inductive invariants `KnownInv` and `AbsenceInv`, and theorems `KnownFilesKept` and `AbsencesConfirmed` |
| `ViewService` | abstract: what `OpenView` promises one opener |
| `PlanCache` | the plan cache of `mediastub mount` with its openers and the objects they read; the properties; implements `ViewService` |
| `MCPlanCache` | instantiates it for TLC |
| `PlanCacheProofs` | the inductive invariants `CacheInv` and `ViewInv`, the theorems about the cache and the refinement |
| `FuseNodes` | the FUSE nodes with their caches and handles, and the kernel's cache; extends `ViewService`, whose opens it makes |
| `MCFuseNodes` | instantiates it for TLC, with interchangeable request slots |
| `FuseNodesProofs` | the inductive invariant `FreshInv` and the theorems about the nodes |
| `SidecarSync` | the sidecar half of the same service: `reconcileSidecars`, the matching of names, and what the removal of a medium does to its sidecars; the properties |
| `MCSidecarSync` | instantiates it for TLC |
| `SidecarProofs` | the inductive invariant `SidecarInv` and the theorems about sidecars |
| `StateRegister` | abstract: what the state directory promises its owners |
| `StateStore` | `syncer/state.go` step by step, with deaths and power losses; implements `StateRegister` |
| `MCStateStore` | instantiates it for TLC |
| `StateStoreProofs` | its invariant and the refinement |
| `SyncDaemon` | `Run` and the watcher, on top of `StateRegister` |
| `MCSyncDaemon` | instantiates it for TLC |
| `SyncDaemonProofs` | its invariant, and that it uses the register as `StateRegister` says |
| `ProbeSource` | the budgeted source and the plan: what a read may return, what a plan is |
| `Probing` | the state of a probe, and what every parser shares |
| `Mp4Probe`, `MatroskaProbe` | the two parsers, one action per read |
| `CoreProbe` | `core.Probe` over both, the probe of the stub after that of the object; what sound media are; the properties |
| `MCCoreProbe` | lays out the objects and instantiates it for TLC |
| `CoreProbeProofs` | the inductive invariants `ProbeInv` and `ScanInv`, and the theorems about the probe and its stubs |

How they compose. `StateStore` ⇒ `StateRegister` is a refinement, and `SyncDaemon` is
written over `StateRegister`, so what is shown of the daemon holds of one that runs on
`state.go`. `PlanCache` ⇒ `ViewService` likewise, and `FuseNodes` opens through
`ViewService`; in the other direction the nodes are shown to ask only for entries that
the object has or had, which is what `PlanCache` assumes of its openers. `MediaSync` and
`SidecarSync` are the two halves of the pass that `SyncDaemon` takes as one step each.
`CoreProbe` is the probe that `PlanCache` takes as a sequence of reads.

### How `MediaSync` corresponds to the code

The program is sequential, so its state is a program counter `pc`, whose labels are the
calls that touch the disk, the state file or the remote, and the locals of the path in
hand (`job`). There is one action per such call and outcome; whatever else the code does
between two calls (comparisons, early returns, assignments to the entry) belongs to the
action of the call before it. The rest of the world acts between any two.

| Labels, actions | Code |
|---|---|
| `Start`, `Crash`, `Shutdown` | `NewService`, process death, `ctx.Done` in `Run` |
| `PollTick`, `Debounce` | the cases of `Run`'s select |
| `ScanRemote`, `ScanLocal`, `ScanFails`, `FinishPass` | `scanInputs`, `reconcileScanned`, the save at its end |
| `SkipDuplicate`, `TakeAbsent`, `TakePresent` | the loop of `reconcileMediaFiles` |
| `Inspect*`, `Access` | `inspectMediaPath` and the branches after it |
| `Recheck*`, `Recover*`, `Pend`, `Settle*`, `Open*`, `MarkUploading` | `uploadLocalMedia`, `recoverPendingUpload`, `waitStableMedia` |
| `ServerStores`, `ServerCuts`, `ServerRefuses`, `PutReplies`, `PutFails`, `Verify*` | `Put` and its stages, seen from the client and from the server |
| `Complete*`, `Finalize`, `Guard*` | `completeMediaUpload`, `finalizeUploadedMedia`, `beforeRename` |
| `ProbeRemote`, `ProbeFails`, `Rename*`, `Record*` | `materializeRemote`, `materializePlanGuarded` |
| `ConfirmMissing`, `ConfirmPresent`, `RemoveUnit`, `RemoveFails` | `remoteConfirmedMissing`, `removeLocalMediaUnit` |

`media` and `saved` are `s.state.Media` and `state.json`. Of the eleven statuses the
code writes it reads back only two facts: that there is an entry, and that an upload was
begun whose outcome is not known. `KeptStatus` keeps exactly these. Auxiliary fields
(`scanned`, `job.seen`, `job.upto`, `job.horizon`, a request's `horizon`) record what
the service has looked at and when; no action reads them.

Abstractions, each chosen so that no property is made true by it:

- A file is its kind (real, a stub, or one with a broken marker), an identity, its
  marker's ETag and size, and whether the service may write it. What `sameLocalFile`
  compares (inode, size, mtime) is its `Stat`: the identity, and for a stub, which has no
  bytes anybody needs, its ETag and size in its place. A marker that breaks and a chmod
  change neither. An identity never comes back to a path, so two different contents never
  compare equal. This is the code's own assumption about inode, size and mtime.
- Every complete file has size `Full`, a cut one `Cut`; zero-sized media are left out.
- A stub is made with mode 0444, and the service is not root; owners may chmod any file,
  stub, broken or real, at any time.
- A range probe of the remote is one step. It may succeed whenever there is an object, also
  a later one than was listed, since a read of a whole object takes a 200 (`webdav.go:423`);
  it may fail in a calm world only if the object is not as listed.
- Every call may fail as long as the world is not `calm`. Once it is, each object can be
  probed and each call succeeds.
- Time is left out: a wait (settle, poll, debounce, PUT deadline) is over when its
  action is taken, which includes the case that everything happens during it.
- A scan of the local root, and one of the remote, is one atomic observation;
  `RemoteScan` (planned) is about that.
- The number of files to work on (`planWork`) is only logged and left out. `media.go`
  189-205 is never reached (both callers pass a probe), and a missing snapshot is
  subsumed by the initial pass, which always scans the remote.
- Sidecars are independent of media entries except for the removal of a media unit; they
  are in `SidecarSync`.

### How `PlanCache` corresponds to the code

`cache` is `s.cache`, `call` the memory of `probeCall` structures (an address is reused
only when nothing refers to it, as the garbage collector guarantees), `op[o]` the locals
of the open that request `o` has in service. A step is one critical section under
`s.mu`, the end of one wait, or one call on the origin.

| Actions | Code |
|---|---|
| `Open`, `Close` | `node.Open` with the entry the node holds, `Release` |
| `Lead`, `Follow` | `cachedCall` under the mutex |
| `Awake`, `GiveUp` | its select on `ready` and the request's own cancellation |
| `LeaderOpens`, `LeaderOpenFails`, `ProbeReads`, `ProbeSucceeds`, `ProbeInterrupted`, `ProbeFails` | the leader's part of `decide`; one step per read, since the object may be replaced between two |
| `Finish` | `finishCall`: forget, announce and evict in one critical section; any eviction order the map's iteration may give |
| `PassThrough` | the rest of `OpenView` |

Abstractions: a fingerprint is a path and a version number; a plan is the set of
versions its bytes were read from; an open may start from any version up to the present
one (`NodesAskForViews` shows that the nodes ask for no other; how old it may be is
`OpensFresh`); a deleted object shows as failing calls. `Pinned` says whether
reads are tied to the entry's ETag (WebDAV, `If-Range`) or see whatever is there (a
WebDAV object without ETag; a local file, whose open handle sees one of the versions).
`Small` are the versions that one read of a probe asks for as a whole: such a read takes the
200 with which a server answers for another version (`webdav.go:423`), so it is tied to
nothing. `ProbeInterrupted` has three outcomes, for a cancelled request or an expired
deadline ends a read, and only some probes say so: the walk over Matroska elements takes any
failed read for the end of the segment (`matroska.go:112-114`), and what `decide` then sees
is an unsupported file or a plan, which it remembers.

### How `SidecarSync` corresponds to the code

As in `MediaSync`, `pc` names the call the service makes next and `job` holds the locals
of the candidate in hand. `state` and `saved` are `s.state` and `state.json`, `snap` is
the snapshot that outlives a pass, and `scan` the local scan that the sidecar half makes
for itself.

| Actions | Code |
|---|---|
| `Start`, `Crash`, `Shutdown`, `PollTick`, `Debounce`, `ScanRemote`, `ScanLocal`, `ScanFails`, `SaveMedia`, `Rescan`, `FinishPass` | `Run`, `scanInputs`, `reconcileScanned`, with the saves and the second local scan |
| `Track`, `BeginRemoval`, `RemoveSidecar`, `RemoveUnit`, `RemovalFails` | what the media pass does to the tracked media and to their sidecars (`removeLocalMediaUnit`) |
| `SkipDuplicate`, `TakeLocal`, `TakeRemote`, `Forget` | the head of `reconcileSidecars`' loop |
| `Settle`, `Hash`, `Recover*`, `Compare*` | `stableLocalHash`, recovery of an upload in doubt, comparison of the remote bytes |
| `OpenSource`, `Put*`, `Verify*` | `uploadAndVerify` |
| `Fetch*`, `Rename`, `Restat`, `DownloadFails` | `downloadSidecar` |

A name is the sequence of its dotted parts, which is all `ClassifySidecar` looks at. A
content is some saved bytes and how many of them there are, so a cut transfer is a
shorter content and equal SHA-256 sums are equal contents. An object has an ETag (0 where
the server gives none), a modification time and a content; without ETags a write may fall
into the second of the write before it. Left out: the counts of `planWork`, the content
type, a read that takes several ranges, and everything about media except that they come
to be tracked and stop being so; in a calm world they stay as they are. `job.horizon` is
auxiliary.

### How `FuseNodes` corresponds to the code

`node[p]` is the inode of a file with its `entry` and `entryDeadline`, `children[p]` what
the root's `n.children` has for it, `kernel[p]` the attributes, or their absence, that the
kernel trusts because the reply's timeout said so, `req[r]` the request a slot serves and
then the handle it opened, `pages[p]` whose bytes the kernel has cached. Time is a tick;
a cache keeps the ticks it has left (`left`) and drops its entry at zero, as
`time.Now().After(deadline)` does.

| Actions | Code |
|---|---|
| `GetattrCached`, `LookupCached`, `OpenCached` | the handlers where `cachedStat` or `cachedChild` finds something |
| `AsksOrigin`, `OriginAnswers`, `OriginFails`, `NotFound` | their `Stat` and `ReadDir`; the entry is seen at one time and used at a later one |
| `GetattrAnswered`, `LookupAnswered`, `ReaddirAnswered`, `OpenAnswered` | what each handler does with it: `cacheStat`, `NewInode`, `cacheChildren`, the reply |
| `OpenReplies`, `Reads`, `Release` | the outcome of `OpenView` with the open flags, `fileHandle.Read` and `Release` |
| `Replace`, `Tick`, `Forget` | the remote, the clock, the kernel |

Abstractions: an entry is its version (some versions are absent, some empty); one
directory, whose deeper ones would do the same; a caller is matched, not matched, or not
to be found out. External, taken from how the code uses them: the kernel caches a reply
for its timeout, forgets at will, and caches pages of handles without `DIRECT_IO`; go-fuse
keeps the node it has of an inode and throws the new one away, with its cache (`Links`).
A refused write open, offsets and the access log are left out.

### How `StateStore` and `SyncDaemon` correspond to the code

`StateStore` has one action per system call of `openStateStore`, `Save` and `Close`, each
of which may fail, between any two of which the process may die and the machine lose its
power. `file` is what processes see and `durable` what a power loss leaves: a rename
without the fsync of the directory may or may not survive, a file that was renamed before
its own fsync would be torn. `StateRegister` hides all that: an owner, what it knows, what
the next owner may find (`possible`), and what was last acknowledged.

`SyncDaemon`'s `run.at` is the place in `Run`: the watch of the tree, the two scans, the
media half, its save, the sidecar half, its save, the removal of empty directories, the
select. The select's cases are `Stopped`, `Signalled`, `Settled` and `Polled`; `Watch` is
the watcher's goroutine with its one-place channel (`signal`) and `addTree` that may
fail. What a pass does to the tree and to the state is arbitrary (`Reconciles`). A closed
`events` channel, after a stop, is always ready, as in the code.

### How the core modules correspond to the code

A file is a sequence of *cells*, each standing for the bytes of one identifier or one size
and saying which; offsets count cells. What the parsers tell apart (identifiers, sizes,
what is beyond the end) is kept and the encoding of a number is not. Boxes have headers of
two or three cells, elements of two or three, those a prefix is made with three
(`encodeVINT` over eight bytes). `MaxInt` is the largest size a file can claim as a
number (2^63-1 in the code); larger ones are negative once converted and rejected.
`Unknown[n]` is the size of all ones in n cells, which is the largest one they can tell;
`encodeVINT` refuses to write it. `Reads` gives the outcomes of `BudgetedSource.ReadAt`:
from the window, refused, whole, failed, or cut short with `io.EOF`, which is what a body
that ends early is to its reader (`webdav.go:434`). Each read of a parser is an action, so
any of them may fail; its conditions and early returns are the action's disjuncts. After a
plan has been made its stub is probed in turn, with a new source. Precondition: the size
of an object plus one read is below 2^63, so `off+len` in `source.go:86` does not wrap.

What sound media is does not refer to the walk. `SoundMp4` and `SoundMatroska` say of a
list of offsets (a *layout*) that whole boxes, or elements, begin there one after the
other, which of them there must be, and how large they may be. An object comes with a
layout, right or wrong: TLC takes the one its parts were put together by, the theorems
any list of numbers.

## 3. Runs

| Run | Checks | Shows |
|---|---|---|
| `media_safety` | `TypeOK`, `UploadIsDurable`, `NoKnownFileLost`, `AbsenceIsConfirmed` | with crashes at every step, no file with bytes of its own that the service has examined is lost, its marker broken or not; uploads and removals act on a confirmed absence only; the write-ahead mark precedes each upload |
| `media_live` | `SettlesWhenCalm` | after any crashes, failures and changes, a path settles once the world is calm, as far as ETag and size tell |
| `media_removal`, `media_truncated` | one property each, violated | the first two disagreements of section 5 |
| `plan_cache` | `TypeOK`, `OneProbePerVersion`, `CacheBounded`, `StubOfItsVersion`, `FailIsClosed`, `OpensAsPromised`, `OpensEnd` | whatever is evicted, aborted and replaced, concurrent opens share one probe, a stub is of the version asked for where reads are tied to it and never of an older one, the cache implements `ViewService`, and every open ends |
| `fuse_nodes` | `TypeOK`, `KernelFresh`, `OpensFresh`, `StubsStayOutOfPages` | the kernel trusts nothing older than three TTLs and an answer's delay, an open starts from nothing older than two, and no byte of a stub gets into the page cache |
| `state_store` | `StoreTypeOK`, `AtomicState` | whoever dies, and whenever the power is lost, the directory is the register `StateRegister` describes |
| `daemon` | `TypeOK`, `SidecarsAfterSave`, `CleanEndIsSaved`, `WatchedChangeSeen`, `PollSeesAll`, `StopEnds` | sidecars only after the ownership of stubs is on disk; a clean end forgets nothing; a change is seen by a later pass, or by a later poll if that pass's scan fails; a stop is obeyed |
| `core_probe` | `TypeOK`, `WindowIsFile`, `WithinBudget`, `SoundMediaIsStubbed`, `StubRescans`, `StubFillsFile`, `ReadsAdvance` | of every object laid out: probes end within their budget, sound media are stubbed unless a read failed, and a stub scans like its object |
| `sidecar_safety` | `TypeOK`, `RecordsOfTracked`, `OnlyOwned`, `DoubtResolvedFirst`, `ScannedKept` | with crashes, cut, late and unanswered PUTs and other writers on both sides: what the service may send, overwrite, remove and remember |
| `sidecar_live` | `SettlesWhenCalm`, `LocalWins` | once the world is calm, each sidecar comes to exist on both sides or on neither and the uploads end; the local copy wins where the record is right and no upload is in doubt |
| `sidecar_conflict` | `LocallyAuthoritative`, violated | the third disagreement |

**Bounds.** `MaxFiles` bounds the real files that come into being, `MaxWrites` the
remote objects written before the world is calm, `MaxStrays` the PUTs a server still
works on after their client has gone. `media_safety` has one path, two files, two
writes, one stray. The service takes paths one at a time and shares nothing between two
but the status map and the snapshot, each indexed by path, so one path exhibits every
interleaving of the service with the world on that path; a second multiplies the states
(4.4 million and more) and TLC did not finish in the time of a run. The theorems cover
every set of paths. Two files are what it takes to replace a file under the service's
hands, and two writes to have an upload and a competing one; one stray is one PUT that
outlives its client, and the next attempt's own PUT is a second one in flight.
`media_live` has one file instead of two, lets a server omit ETags (`NoETags`) and turns
`Calming` on; passes after that are unbounded. Its two writes before the calm are an object
and one that replaces it. What it calls settled is what `markerMatchesRemote` compares: a
stub of the ETag and the size of the object. Where neither object has an ETag and both are
of equal length, the stub of the first stays, in the code as in the model (section 5).

`plan_cache` has two openers, three versions, the second one small, and room for one finished call, so every
finish is at the limit and a version may be opened again after its eviction; a leader, a
follower and a leader of another version are two of the three roles at a time, and the
theorems have any number. Four call addresses are more than two openers and one cached
call refer to; were they too few, an opener would be stuck at `lookup` and `OpensEnd` would
fail. `OnError = "fail"`, where the outcomes of a probe are most; `fuse_nodes` has
"passthrough", and the theorems either.

`fuse_nodes` has two slots, so an answer may be late while another request fills the same
cache, a TTL of two ticks (an entry can be new, old, or gone), a delay of one, and three
versions: the first a medium, the second absent, the third empty. Both bounds are tight: TLC
finds a counterexample with either one less.

`state_store` has three processes (an owner, one that finds the lock taken, a successor)
of two identities and three reconciliations: two saves are in order only if the second
can be told from the first, and from what was never saved. `daemon` has one process at a
time, started again and again (the register's other owners are `state_store`'s subject),
the root, one directory below it and two changes: the one that makes the directory, and
the one in it.

`core_probe` lays out 1322 objects: an MP4 file of up to four boxes with
right sizes, extended ones, ones up to the end, too small, beyond the file, and negative;
a Matroska file of up to four elements with one- and two-cell sizes, unknown and overlong
ones, a segment of right, cut and unknown size. The window (6 cells) is smaller than a file
and larger than a header, the budget (24 cells, 5 reads) large enough for most of them and
too small for some; `MaxMetadata` and `MaxHeader` are passed by some. `CHECK_DEADLOCK FALSE`
is in this configuration only: a probe is done when it is done.

`sidecar_safety` has one subtitle and two media whose stems both match it equally, so
that it belongs to one medium, to neither, or to either after a removal; one text, one
write before the calm (the service's own writes in a calm world come on top), one stray
PUT, and a server with and without ETags. One candidate is enough for interleavings, as
with media paths: candidates are taken one at a time, and share the tracked media and
nothing else. `sidecar_live` trades the second medium and the stray for a second text of
another length and a second write: a local copy can then differ from the remote one, and
a write of somebody else can replace an upload. There all objects have ETags; objects
without one are in the safety run.

**Fairness.** `WF_vars(Service)`: the process runs whenever it has a step to take, and
systemd restarts it (`Restart=on-failure`, `module.nix:263`). The poll ticker is one of
its steps, so fairness says that time passes. (A service its operator stops for good
settles nothing: the property is about one that is started again.) `WF_vars(Server)`: a
server that has been sent a request eventually stores, cuts or refuses it; the client's
deadline (`putTimeout`) is why the code may assume as much. Nothing is fair that the
code does not control: downloads, deletions, crashes and the calm itself need never
happen. In `PlanCache`, `WF_vars(Progress(o))` for each opener: goroutines run, and each
read of the origin ends by its deadline (`timeouts.RangeRead`, `webdav.go:399`).
Cancellation is not fair. In `SidecarSync`, weak fairness of the service as a whole and
strong fairness of `PollTick`: Go's select chooses at random among the cases that are
ready, so events cannot keep the ticker from its turn forever. `SyncDaemon` says the same
of each case of the select, and weak fairness of the process's other steps and of the
watcher. That scans succeed is not assumed: `PollSeesAll` has as its premise that the remote,
asked again and again, can be listed again and again and that local scans come to succeed;
`WatchedChangeSeen` has no premise, and admits that a pass whose local scan fails while no
event is left misses the change (`missed`, auxiliary) until the next event or poll.
`StateStore`, `FuseNodes` and `CoreProbe` are checked without fairness (that probes end
follows from `ReadsAdvance`, a step property). `SettlesWhenCalm` is `<>[](calm => ...)`, and is interesting
on those behaviours on which the world does become calm.

## 4. Proofs

All theorems assume only the named ASSUMEs (`WorldAssumption`: the bounds are naturals,
the switches Booleans, `None` is not a path; `PlanCacheAssumption` likewise, and that
the openers are finitely many). `Paths` is any set.

- `TypeCorrect == Spec => []TypeOK`. One lemma per group of actions; besides the types
  it shows that a path is in hand exactly while `pc` is not `Idle`.
- `UploadMarkDurable == Spec => []UploadIsDurable`. Inductive with `TypeOK`: `put` is
  reached only through `MarkUploading`, which saves, and nothing changes `saved` at
  `put`.
- `KnownFilesKept == Spec => NoKnownFileLost`. The property speaks of a rename but
  depends on the whole history of the attempt, so it needs a strengthening, `KnownInv`.
  A file has bytes of its own if its identity is not 0, whatever its marker. *Fresh* (every
  identity anywhere is below `nextId`), *StubsBare* (a stub has none), *ScanRecent* (such a
  file where the scan found nothing is newer than the scan), *Looked* (such a file at the
  path in hand that is older than the last look at it is the file that was looked at),
  *SeenFits* (at `rename` such a file that was examined was writable, and at `remove`
  there was none), *Answered* (in mode `upload`, after the PUT the server has stored the
  source) and *SourceFits* (the source's identity is that of the file compared, or the
  file at the path is a later one). *Fresh* is why a file that compares equal is the
  same file; *Answered* and *SourceFits* together say that the file that is replaced has
  its bytes on the server. TLC checked `KnownInv` on the instance of `media_safety`
  before it was proved.
- `AbsencesConfirmed == Spec => AbsenceIsConfirmed`. *Past*: horizons and sequence
  numbers are not of the future. *Confirmed*: at every call that relies on an absence,
  and for every request left behind, what is on the remote is no older than the horizon.
  Preserved because objects only appear with the next sequence number (`RemoteStep`), a
  request left behind takes the horizon of the attempt that sent it (`StrayStep`), and a
  horizon is set by a stat that finds nothing (`AttemptStep`).
- `CacheTypeCorrect`, `ProbesShared`, `CacheStaysBounded` about
  `PlanCache`, for any finite set of openers, any paths and any limit
  (`PlanCacheAssumption`). `OneProbePerVersion` is not inductive: it needs that a
  leader's call is the one cached for its version and unready (*Flights*), which needs
  that eviction spares unready calls and that two versions never share a call
  (*Distinct*). The bound needs *Led*: an unready call in the map has a leader.

- `SidecarTypeCorrect`, `RecordsStayTracked`, `OnlyOwnedMoves`, `DoubtIsResolvedFirst`,
  `ScannedIsKept` about `SidecarSync`, for any candidates, any finite set of media, any
  contents and bounds (`SidecarAssumption`). One invariant, `SidecarInv`, serves all:
  with the types it says that a candidate in hand has an owner and is no duplicate
  (*InHandOwned*: the tracked media do not change while one is in hand), which locals are
  set at which call (*LocalsSet*), and that an upload in doubt reaches a PUT only after a
  stat has found nothing, since when whatever is at the path was written (*HorizonKept*;
  a write dates an object no earlier than what it replaces, `StoresType`). `Classified`
  shows that the owner is the only longest match.

- `StubsOfTheirVersion`, `FailureIsClosed`, `CacheIsViewService` about `PlanCache`: that it
  implements `ViewService`. `ViewInv` adds to `CacheInv`: *Tied* (openers that share a call
  ask for one entry, the one it is cached for if it is), *Sourced* (a call's plan
  is made of versions its entry admits), *Told* and *Finishing* (a call that is ready, or
  about to be, has a plan, an error, or leave to pass the object through), *Honest* (what
  an opener's locals hold is what it asked for). With it goes *Past*: no opener holds an
  entry of the future, so what a read finds is no older than what was asked for. The step
  maps then: `Settled` is `GiveStub`, `GiveObject` or `GiveError`; everything about the map
  is a stutter. `StubsOfTheirVersion` assumes nothing of `Pinned` and `Small`: it says of any
  stub that its bytes are of the path and no older, and that they are of the very version
  where reads are tied to it.
- `NodesTyped`, `KernelStaysFresh`, `OpensStayFresh`, `PagesWithoutStubs`, `NodesAskForViews`
  about `FuseNodes`, for any TTL, delay, paths and slots (`FuseAssumption`). `FreshInv`: the
  age of an entry and the ticks it is still valid add up to at most a TTL and a delay in
  `children`, two TTLs in a node, three in the kernel; an unused answer is as old as its
  delay at most. A tick moves one unit from the second term to the first.
- `StoreTyped`, `Atomic` about `StateStore`, for any processes, identities and number of
  reconciliations. The invariant says who may hold the lock, what the temporary file and
  the disk hold at each step of a save, and that nothing on the disk is torn; with it each
  step maps to one of `StateRegister` or a stutter, a rename to the offer of a state.
- `Typed`, `SidecarsSafe`, `CleanEnd`, `DaemonOnRegister` about `SyncDaemon`, for any
  directories and processes; the last one says that it uses the register as it may.

- `ProbeIsTyped`, `WindowsAreFile`, `BudgetIsKept`, `StubsFillFile`, `ProbesAdvance`,
  `SoundIsStubbed`, `StubsRescan` about `CoreProbe`, for any objects, layouts, window,
  budget and limits. They assume that sizes are at least one (`BudgetAssumption`), that an
  object's size and every size it claims of an element are numbers the code can tell
  (`ObjectsAssumption`: the size is an int64; `UnknownAssumption`: n cells hold no more than
  all ones, which is at most 2^56-1, and at least 2). The argument has two halves.
  - `ProbeInv` holds whatever the object claims and whatever reads fail. The walk is over
    whole boxes that lie one behind the other, and its extents keep just these, in order
    (`Mp4Walk`, with `Trail`), or it is inside a segment and what it has collected are whole
    elements of metadata (`MatroskaWalk`). Therefore a plan is of known parts of the file
    (`Mp4PlanOf`, `MatroskaPlanOf`), and so is a stub of the plan it was read from
    (`PlanStub`), which keeps the invariant through the second probe. The first five
    theorems follow; every read moves on, since a box or an element is at least as long as
    its header and a sum that wraps is refused.
  - `ScanInv` adds `InStep`: over a file that has a sound layout the cursor is always at the
    next part of it, and nothing is collected but the metadata passed so far; it may go on
    only as far as nothing disturbed a read. A probe then returns what there is
    (`ReadSoundly`), so `SoundIsStubbed`; its premise on room is what `buildMatroskaPrefix`
    asks for. For `StubsRescan` the stub is shown to have a sound layout of its own: the
    offsets of its extents (MP4), or Info, Tracks, Tags, the empty cluster and the Void
    (`StubHasLayout`), so that the second probe collects the same and makes the same plan;
    this needs neither the object nor its layout to be sound. No induction over data is
    needed: the walk's own steps are the induction.
  TLC checks the seven properties on `core_probe`'s objects. The two parts of
  `UnknownAssumption` came out of the proofs: without the first the end of an EBML header
  could wrap and pass for one in the file, without the second the size of the stub's
  empty cluster could read as unknown.

Only model-checked: liveness (`SettlesWhenCalm`, `LocalWins`, `OpensEnd`,
`WatchedChangeSeen`, `PollSeesAll`, `StopEnds`; fairness and ENABLED are out of the prover's
reach). Every invariant and every action property that a run checks has a theorem.

## 5. Disagreements found between the documentation and the code

1. `media_removal`: README.md:355 "It never removes an unmarked real local media file".
   `removeLocalMediaUnit` calls `os.Remove` on whatever is at the path (`media.go:413`);
   a download that lands between the inspection (or a scan that found nothing) and it is
   deleted.
2. `media_truncated`: README.md:329 "Probe, upload, verification or stub-generation
   failure preserves the real local file". A PUT that the server cut short leaves a
   short object; the next remote scan lists it and the real file is replaced by a stub
   of it (`media.go:495`).
3. `sidecar_conflict`: README.md:348 "Sidecars are locally authoritative when both copies
   exist: local additions and changes overwrite the remote". A sidecar whose upload ended
   in doubt, while the remote object has another size, is reported as a conflict in each
   pass and never uploaded (`service.go:314-320`).

The first two need somebody to act on the path within a window of one attempt.

Met while modelling and without a run of their own:

- README.md:327 "A file that is only readable by the service is preserved": writability is
  looked at before a network probe, and the rename after it is not guarded (`media.go:101`).
- README.md:304 "A valid marker is never uploaded": the marker is inspected before the
  settle time, and the file opened after it (`media.go:304`).
- README.md:304 also says of invalid markers that such a file is preserved. It is when the
  inspection finds the marker invalid (`media.go:488-493`); one that becomes invalid after
  that is taken for what it was, since the later comparison is of inode, size and mtime only
  (`media.go:123-125`).
- media.go:65 compares a marker by ETag and size: a stub of an object without an ETag is not
  repaired when the object is replaced by one of equal size. No document says it is.
- origin.go:31 "Fingerprint identifies the exact object version used by a cached Plan": the
  fingerprint is that of the entry the node holds; a local file is opened by path, and a
  WebDAV object without ETag, or one so small that a read asks for all of it
  (`webdav.go:423`), is read as it is, so the plan may be of a later version or of two
  (`service.go:155`). It is served only to those who still ask for the old version.
- core/probe.go:19 "ErrUnsupported is returned for recognizable but unsupported inputs": a
  read of the next element that fails, or is refused, ends the Matroska walk as the end of
  the segment does (`matroska.go:113`), so a sound file is called unsupported, and with all
  metadata already seen gets a stub. A body that ends early is `io.EOF` to the parsers
  (`webdav.go:434`) and has the same effect. A cancelled request too: `decide` then does not
  see the cancellation it would forget (`service.go:167`), and the file is remembered as
  unsupported until it is evicted, also for openers that nobody cancels.
- main.go:252 calls `--attr-ttl` the "kernel attribute, entry and negative lookup TTL": what
  the kernel trusts may be three times as old, since the listing and the node hand their
  entries on at the end of their own TTL (`fuse.go:316`, `fuse.go:307`). A late answer can
  take the kernel back to an older version than it had.
- A restore of a sidecar takes a 200 answer for the whole object and cuts it to the listed
  size (`webdav.go:423`); the removal of a medium takes with it a sidecar belonging to a
  medium of a longer stem (`media.go:402`).

## 6. Not modelled, and why

- HTTP, XML and attribute formats, redirects, credentials, remote URLs, logging, flag
  parsing, the include filter's patterns, NixOS packaging: stateless conversions and I/O,
  without an order of changes that could go wrong. The models take what they yield (an
  entry, a listing, the set of included paths) as data.
- The kernel side of FUSE, go-fuse, fsnotify and the WebDAV server, other than by how the
  code uses them.
- The walk of a remote or local tree with changes between two listings: a scan is one
  observation in `MediaSync`, `SidecarSync` and `SyncDaemon`. `MediaSync` confirms each
  absence by a stat before it acts on it, so a path missed by a torn walk costs a pass.
- `putTimeout`'s arithmetic (`webdav.go:112`): it is listed among the hazards; the models
  take the deadline to be some time.
- Read errors of a local object while it is uploaded, and reads of an object in several
  ranges, where the models have one.

## 7. Plan

Done: the media and the sidecar half of a pass, the daemon around them, the state store
below it, the plan cache with its abstract promise, the nodes above it, and the probe it
makes; all with proofs. What could come next:

1. `RemoteScan`: the walk with changes between two listings, against the abstract
   snapshot `MediaSync` takes.
2. `MediaCustody`: the abstract promise "a file's bytes are always in the library or
   acknowledged by the server", implemented by `MediaSync` for files the service has
   examined.
3. `WebDavPut`: the deadline's arithmetic with its width, the stages of a PUT.
