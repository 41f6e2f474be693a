------------------------------ MODULE FuseNodes ------------------------------
(***************************************************************************)
(* The FUSE side of `mediastub mount' (mountfs/fuse.go): the nodes, whose  *)
(* caches lie one behind the other between the origin and the kernel, and  *)
(* the file handles.  Opens are answered as ViewService promises.          *)
(*                                                                         *)
(* Time passes in ticks.  A cache keeps an entry and the ticks it is still *)
(* valid; an entry is known by its version.  A request slot serves one     *)
(* kernel request at a time, and the handle an open returns, until it is   *)
(* released.  The kernel is external: it asks whenever it likes, keeps     *)
(* what it is told as long as it is told, and forgets.                     *)
(***************************************************************************)
EXTENDS ViewService, Integers

CONSTANTS TTL,       \* MountOptions.AttrTTL in ticks
          MaxDelay,  \* bound: ticks from an answer of the origin to its use
          Absent,    \* the versions at which there is no object
          Empty,     \* the versions of no size
          Media      \* the paths that the include filter selects

ASSUME FuseAssumption == /\ TTL \in Nat /\ MaxDelay \in Nat
                         /\ MaxVersions \in Nat \ {0}
                         /\ None \notin Paths \cup Fingerprints

VARIABLES age,       \* path -> version -> ticks since it was replaced (auxiliary)
          node,      \* path -> whether go-fuse has its inode, and n.entry
          children,  \* path -> what n.children of the root has for it
          kernel,    \* path -> the attributes, or their absence, that the kernel trusts
          req,       \* what each slot is doing
          pages      \* path -> whose bytes are in the page cache

vars == <<object, open, age, node, children, kernel, req, pages>>

-----------------------------------------------------------------------------
Versions == 1..MaxVersions

\* Ages are not counted beyond this.
MaxAge == 3 * TTL + MaxDelay + 1

\* A cache without a valid entry has entry 0.
Caches == [entry: 0..MaxVersions, left: 0..TTL]
NoEntry == [entry |-> 0, left |-> 0]

\* An entry with the deadline time.Now().Add(n.attrTTL).
Fresh(v) == [entry |-> v, left |-> TTL]

\* A tick later: an entry is valid up to its deadline.
Later(c) == IF c.left = 0 THEN NoEntry ELSE [c EXCEPT !.left = @ - 1]

\* `got' is what the origin answered, `delay' the ticks since.
Kinds == {"getattr", "lookup", "readdir", "open"}
Requests == [kind: Kinds \cup {None}, phase: {"idle", "asking", "answered", "opening", "opened"},
             path: Paths \cup {None}, stub: BOOLEAN, direct: BOOLEAN,
             got: [Paths -> Versions], delay: 0..MaxDelay]
NoRequest == [kind |-> None, phase |-> "idle", path |-> None, stub |-> FALSE, direct |-> FALSE,
              got |-> [p \in Paths |-> 1], delay |-> 0]

NoNode == [alive |-> FALSE, cache |-> NoEntry]

Init ==
    /\ ViewInit
    /\ age = [p \in Paths |-> [v \in Versions |-> 0]]
    /\ node = [p \in Paths |-> NoNode]
    /\ children = [p \in Paths |-> NoEntry]
    /\ kernel = [p \in Paths |-> NoEntry]
    /\ req = [r \in Openers |-> NoRequest]
    /\ pages = [p \in Paths |-> {}]

-----------------------------------------------------------------------------
(* The world: objects, time, and a kernel that forgets.                    *)

Replace == Replaced /\ UNCHANGED <<age, node, children, kernel, req, pages>>

\* What the origin answered is used within MaxDelay.
Tick ==
    /\ \A r \in Openers : req[r].phase = "answered" => req[r].delay < MaxDelay
    /\ req' = [r \in Openers |-> IF req[r].phase = "answered"
                                 THEN [req[r] EXCEPT !.delay = @ + 1] ELSE req[r]]
    /\ age' = [p \in Paths |-> [v \in Versions |->
                  IF v < object[p] /\ age[p][v] < MaxAge THEN age[p][v] + 1 ELSE age[p][v]]]
    /\ node' = [p \in Paths |-> [node[p] EXCEPT !.cache = Later(@)]]
    /\ children' = [p \in Paths |-> Later(children[p])]
    /\ kernel' = [p \in Paths |-> Later(kernel[p])]
    /\ UNCHANGED <<object, open, pages>>

\* FORGET of an inode that nothing in service uses.
Forget(p) ==
    /\ node[p].alive
    /\ \A r \in Openers : req[r].path # p
    /\ node' = [node EXCEPT ![p] = NoNode]
    /\ kernel' = [kernel EXCEPT ![p] = NoEntry]
    /\ pages' = [pages EXCEPT ![p] = {}]
    /\ UNCHANGED <<object, open, age, children, req>>

-----------------------------------------------------------------------------
(* Requests that a cache answers.                                          *)

\* The reply and its timeout (SetTimeout, SetAttrTimeout, NegativeTimeout).
Replies(p, v) == kernel' = [kernel EXCEPT ![p] = Fresh(v)]

\* Mutant of GetattrCached: a hit renews the deadline.
GetattrRenewing(p) ==
    /\ node[p].alive /\ node[p].cache.entry # 0
    /\ Replies(p, node[p].cache.entry)
    /\ node' = [node EXCEPT ![p].cache = Fresh(@.entry)]
    /\ UNCHANGED <<object, open, age, children, req, pages>>

GetattrCached(p) ==
    /\ node[p].alive /\ node[p].cache.entry # 0
    /\ Replies(p, node[p].cache.entry)
    /\ UNCHANGED <<object, open, age, node, children, req, pages>>

\* NewInode keeps the node it has of an inode, with what that caches.
Links(p, v) ==
    /\ Replies(p, v)
    /\ node' = IF node[p].alive THEN node
               ELSE [node EXCEPT ![p] = [alive |-> TRUE, cache |-> Fresh(v)]]

\* Mutant of LookupCached: the child's entry is renewed with its node's.
LookupRenewing(p) ==
    /\ children[p].entry # 0
    /\ Links(p, children[p].entry)
    /\ children' = [children EXCEPT ![p] = Fresh(@.entry)]
    /\ UNCHANGED <<object, open, age, req, pages>>

LookupCached(p) ==
    /\ children[p].entry # 0
    /\ Links(p, children[p].entry)
    /\ UNCHANGED <<object, open, age, children, req, pages>>

-----------------------------------------------------------------------------
(* Requests that go to the origin.                                         *)

Misses(kind, p) ==
    CASE kind \in {"getattr", "open"} -> node[p].alive /\ node[p].cache.entry = 0
      [] kind = "lookup" -> children[p].entry = 0
      [] kind = "readdir" -> TRUE

\* Who calls, by its uid, its gid and what /proc says of its name.
Callers == [uid: BOOLEAN, gid: BOOLEAN, comm: {"matches", "other", "unreadable"}]

\* processMatcher.match without an error.
Matched(caller) == caller.uid \/ caller.gid \/ caller.comm = "matches"

AsksOrigin(r, kind, p) ==
    /\ req[r].phase = "idle"
    /\ Misses(kind, p)
    /\ \E caller \in Callers :
          req' = [req EXCEPT ![r].kind = kind, ![r].phase = "asking", ![r].path = p,
                             ![r].stub = (kind = "open" /\ Matched(caller))]
    /\ UNCHANGED <<object, open, age, node, children, kernel, pages>>

OriginAnswers(r) ==
    /\ req[r].phase = "asking"
    /\ req' = [req EXCEPT ![r].phase = "answered", ![r].got = object]
    /\ UNCHANGED <<object, open, age, node, children, kernel, pages>>

\* Stat or ReadDir fails: nothing is cached.
OriginFails(r) ==
    /\ req[r].phase = "asking"
    /\ req' = [req EXCEPT ![r] = NoRequest]
    /\ UNCHANGED <<object, open, age, node, children, kernel, pages>>

Answered(r, kind) == req[r].phase = "answered" /\ req[r].kind = kind
Got(r) == req[r].got[req[r].path]
Ends(r) == req' = [req EXCEPT ![r] = NoRequest]

NotFound(r) ==
    /\ Answered(r, "getattr") \/ Answered(r, "open")
    /\ Got(r) \in Absent
    /\ Ends(r)
    /\ UNCHANGED <<object, open, age, node, children, kernel, pages>>

CacheStat(p, v) == node' = [node EXCEPT ![p].cache = Fresh(v)]

GetattrAnswered(r) ==
    /\ Answered(r, "getattr") /\ Got(r) \notin Absent
    /\ CacheStat(req[r].path, Got(r))
    /\ Replies(req[r].path, Got(r))
    /\ Ends(r)
    /\ UNCHANGED <<object, open, age, children, pages>>

LookupAnswered(r) ==
    /\ Answered(r, "lookup")
    /\ \/ Got(r) \notin Absent /\ Links(req[r].path, Got(r))
       \/ Got(r) \in Absent /\ Replies(req[r].path, Got(r)) /\ UNCHANGED node
    /\ Ends(r)
    /\ UNCHANGED <<object, open, age, children, pages>>

\* cacheChildren makes the map anew.
CacheChildren(got) ==
    children' = [p \in Paths |-> IF got[p] \in Absent THEN NoEntry ELSE Fresh(got[p])]

ReaddirAnswered(r) ==
    /\ Answered(r, "readdir")
    /\ CacheChildren(req[r].got)
    /\ Ends(r)
    /\ UNCHANGED <<object, open, age, node, kernel, pages>>

-----------------------------------------------------------------------------
(* Open, Read and Release.                                                 *)

StubCandidate(p, v) == v \notin Empty /\ p \in Media

\* The rest of Open, with the entry it found.
OpensView(r, p, v, matched) ==
    /\ Ask(r, [path |-> p, version |-> v], StubCandidate(p, v) /\ matched)
    /\ req' = [req EXCEPT ![r] = [NoRequest EXCEPT !.kind = "open", !.phase = "opening", !.path = p]]

OpenCached(r, p) ==
    /\ req[r].phase = "idle"
    /\ node[p].alive /\ node[p].cache.entry # 0
    /\ \E caller \in Callers : OpensView(r, p, node[p].cache.entry, Matched(caller))
    /\ UNCHANGED <<object, age, node, children, kernel, pages>>

OpenAnswered(r) ==
    /\ Answered(r, "open") /\ Got(r) \notin Absent
    /\ CacheStat(req[r].path, Got(r))
    /\ OpensView(r, req[r].path, Got(r), req[r].stub)
    /\ UNCHANGED <<object, age, children, kernel, pages>>

\* Mutant of Direct: every handle keeps the page cache.
DirectNever(view) == FALSE

\* FOPEN_DIRECT_IO for a stub, FOPEN_KEEP_CACHE for all else.
Direct(view) == view.served # {}

OpenReplies(r) ==
    /\ req[r].phase = "opening"
    /\ Answer(r)
    /\ req' = [req EXCEPT ![r].phase = "opened", ![r].direct = Direct(open'[r])]
    /\ UNCHANGED <<object, age, node, children, kernel, pages>>

\* Reads of the object itself fail where they name an ETag it no longer has, unless
\* one asks for all of it.
Reads(r) ==
    LET view == open[r]
        p == req[r].path
        bytes == IF view.served # {} THEN "stub" ELSE "object"
    IN  /\ req[r].phase = "opened" /\ view.phase = "view"
        /\ view.served = {} /\ Pinned /\ view.entry.version \notin Small =>
              object[p] = view.entry.version
        /\ pages' = IF req[r].direct THEN pages ELSE [pages EXCEPT ![p] = @ \cup {bytes}]
        /\ UNCHANGED <<object, open, age, node, children, kernel, req>>

\* Mutant of Release: the view is left open.
ReleaseLeaking(r) ==
    /\ req[r].phase = "opened"
    /\ Ends(r)
    /\ UNCHANGED <<object, open, age, node, children, kernel, pages>>

\* Release, or nothing was opened.
Release(r) ==
    /\ req[r].phase = "opened"
    /\ Done(r)
    /\ Ends(r)
    /\ UNCHANGED <<object, age, node, children, kernel, pages>>

Next ==
    \/ Replace \/ Tick
    \/ \E p \in Paths : Forget(p) \/ GetattrCached(p) \/ LookupCached(p)
    \/ \E r \in Openers, p \in Paths : OpenCached(r, p) \/ \E k \in Kinds : AsksOrigin(r, k, p)
    \/ \E r \in Openers :
          \/ OriginAnswers(r) \/ OriginFails(r) \/ NotFound(r)
          \/ GetattrAnswered(r) \/ LookupAnswered(r) \/ ReaddirAnswered(r)
          \/ OpenAnswered(r) \/ OpenReplies(r) \/ Reads(r) \/ Release(r)

Spec == Init /\ [][Next]_vars

-----------------------------------------------------------------------------
\* Types; a view is open or asked for exactly while its slot says so.
TypeOK ==
    /\ object \in [Paths -> Versions]
    /\ open \in [Openers -> Asking]
    /\ age \in [Paths -> [Versions -> 0..MaxAge]]
    /\ node \in [Paths -> [alive: BOOLEAN, cache: Caches]]
    /\ children \in [Paths -> Caches]
    /\ kernel \in [Paths -> Caches]
    /\ req \in [Openers -> Requests]
    /\ pages \in [Paths -> SUBSET {"object", "stub"}]
    /\ \A r \in Openers :
          /\ req[r].phase = "opening" <=> open[r].phase = "asked"
          /\ req[r].phase = "opened" <=> open[r].phase \in {"view", "error"}
          /\ req[r].path = None <=> req[r].phase = "idle"
          /\ open[r].entry = None <=> open[r].phase = "idle"

\* --attr-ttl is the "kernel attribute, entry and negative lookup TTL" (main.go:252).
\* What the kernel trusts may be three times as old, plus an answer's delay: the
\* root's children, the node and the kernel each keep it for a TTL.  It is never older.
KernelFresh ==
    \A p \in Paths : kernel[p].entry # 0 => age[p][kernel[p].entry] <= 3 * TTL + MaxDelay

\* An open starts from an entry that is at most two TTLs and a delay old.
OpensFresh ==
    [][\A r \in Openers : open'[r].phase = "asked" /\ open[r].phase = "idle" =>
          age[open'[r].entry.path][open'[r].entry.version] <= 2 * TTL + MaxDelay]_vars

\* README.md:419 "Stub handles use FUSE direct I/O so their zero-filled pages never
\* contaminate the shared kernel page cache used by passthrough readers".
StubsStayOutOfPages == \A p \in Paths : "stub" \notin pages[p]
=============================================================================
