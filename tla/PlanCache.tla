------------------------------ MODULE PlanCache ------------------------------
(***************************************************************************)
(* The projection service of `mediastub mount' (mountfs/service.go): FUSE  *)
(* requests open media objects concurrently and share the plans of stubs   *)
(* through a map of probe calls, s.cache, under one mutex.  The first      *)
(* opener of a fingerprint leads and probes; the others wait for its call  *)
(* to become ready.                                                        *)
(*                                                                         *)
(* There is one action per critical section, per wait and per call on the  *)
(* origin.  A fingerprint stands for an object version: path, size, mtime  *)
(* and ETag.  A plan is known by the versions its bytes were read from.    *)
(***************************************************************************)
EXTENDS Naturals, FiniteSets

CONSTANTS Openers,      \* the FUSE requests that can be in service together
          Paths,        \* the paths of candidates (StubCandidate)
          MaxVersions,  \* bound: versions an object goes through
          Calls,        \* probe calls, as addresses of their memory
          CacheEntries, \* config.CacheEntries, 1024 where the user gave none
          OnError,      \* config.OnError
          Pinned,       \* whether reads name an ETag and the server honours it
          Small,        \* the versions that one read of a probe asks for as a whole
          None          \* no call, no entry

VARIABLES object,  \* path -> the version its object has now
          cache,   \* s.cache: fingerprint -> call
          call,    \* the calls' ready, plan and err
          op       \* what each opener is doing

vars == <<object, cache, call, op>>

-----------------------------------------------------------------------------
Fingerprints == [path: Paths, version: 1..MaxVersions]

ASSUME PlanCacheAssumption ==
    /\ IsFiniteSet(Openers)
    /\ MaxVersions \in Nat \ {0}
    /\ CacheEntries \in Nat \ {0}
    /\ OnError \in {"passthrough", "fail"}
    /\ Pinned \in BOOLEAN
    /\ Small \subseteq 1..MaxVersions
    /\ None \notin Calls
    /\ None \notin Fingerprints

\* `plan' is empty where there is none.
CallStates == [ready: BOOLEAN, plan: SUBSET Fingerprints,
               err: {"none", "aborted", "failed"}]
NewCall == [ready |-> FALSE, plan |-> {}, err |-> "none"]

(***************************************************************************)
(* The locals of an open.  `leads' is decide's leader, `keep' its          *)
(* cacheable, `seen' what its probe has read so far; `served' is the plan  *)
(* of the view returned, empty for the object's own bytes.  An "aborted"   *)
(* error is a cancelled request or an expired deadline.                    *)
(***************************************************************************)
Leading == {"open", "probe", "finish"}
Phases == {"idle", "lookup", "wait", "passthrough", "view", "error"} \cup Leading

Opens == [phase: Phases, entry: Fingerprints \cup {None}, stub: BOOLEAN, call: Calls \cup {None},
          keep: BOOLEAN, seen: SUBSET Fingerprints, served: SUBSET Fingerprints]
NoOpen == [phase |-> "idle", entry |-> None, stub |-> FALSE, call |-> None,
           keep |-> TRUE, seen |-> {}, served |-> {}]

Cached == {k \in Fingerprints : cache[k] # None}
Ready == {k \in Cached : call[cache[k]].ready}
Leaders == {o \in Openers : op[o].phase \in Leading}

\* Memory that is referenced is not used for another call.
Referenced == {cache[k] : k \in Cached} \cup {op[o].call : o \in Openers}
Free == Calls \ Referenced

Current(o) == [path |-> op[o].entry.path, version |-> object[op[o].entry.path]]

Init ==
    /\ object = [p \in Paths |-> 1]
    /\ cache = [k \in Fingerprints |-> None]
    /\ call = [c \in Calls |-> NewCall]
    /\ op = [o \in Openers |-> NoOpen]

-----------------------------------------------------------------------------
(* The origin's side and the caller's.                                      *)

Replace(p) ==
    /\ object[p] < MaxVersions
    /\ object' = [object EXCEPT ![p] = @ + 1]
    /\ UNCHANGED <<cache, call, op>>

\* OpenView with the entry the FUSE node holds, which may be an old one; a
\* process that is not to see stubs gets the object itself.
Open(o, p) ==
    /\ op[o].phase = "idle"
    /\ \E v \in 1..object[p], stubAllowed \in BOOLEAN :
          op' = [op EXCEPT ![o] =
                   [NoOpen EXCEPT !.phase = IF stubAllowed THEN "lookup" ELSE "passthrough",
                                  !.entry = [path |-> p, version |-> v],
                                  !.stub = stubAllowed]]
    /\ UNCHANGED <<object, cache, call>>

Close(o) ==
    /\ op[o].phase \in {"view", "error"}
    /\ op' = [op EXCEPT ![o] = NoOpen]
    /\ UNCHANGED <<object, cache, call>>

-----------------------------------------------------------------------------
(* cachedCall: look the fingerprint up, or lead.                            *)

Lead(o) ==
    /\ op[o].phase = "lookup"
    /\ cache[op[o].entry] = None
    /\ \E c \in Free :
          /\ c = CHOOSE d \in Free : TRUE
          /\ cache' = [cache EXCEPT ![op[o].entry] = c]
          /\ call' = [call EXCEPT ![c] = NewCall]
          /\ op' = [op EXCEPT ![o].phase = "open", ![o].call = c]
    /\ UNCHANGED object

\* Mutant: calls are looked up by path alone.
FollowByPath(o) ==
    /\ op[o].phase = "lookup"
    /\ \E k \in Cached : /\ k.path = op[o].entry.path
                         /\ op' = [op EXCEPT ![o].phase = "wait", ![o].call = cache[k]]
    /\ UNCHANGED <<object, cache, call>>

Follow(o) ==
    /\ op[o].phase = "lookup"
    /\ cache[op[o].entry] # None
    /\ op' = [op EXCEPT ![o].phase = "wait", ![o].call = cache[op[o].entry]]
    /\ UNCHANGED <<object, cache, call>>

\* Mutant: a follower drops the error of the call it waited for.
SettledLenient(o, c) ==
    [op[o] EXCEPT !.phase = IF c.plan # {} THEN "view" ELSE "passthrough",
                  !.served = c.plan, !.call = None, !.seen = {}, !.keep = TRUE]

\* What decide and OpenView make of a settled call.
Settled(o, c) ==
    [op[o] EXCEPT !.phase = CASE c.err # "none" -> "error"
                              [] c.err = "none" /\ c.plan # {} -> "view"
                              [] OTHER -> "passthrough",
                  !.served = c.plan, !.call = None, !.seen = {}, !.keep = TRUE]

Awake(o) ==
    /\ op[o].phase = "wait"
    /\ call[op[o].call].ready
    /\ op' = [op EXCEPT ![o] = Settled(o, call[op[o].call])]
    /\ UNCHANGED <<object, cache, call>>

\* Mutant: a cancelled follower holds on to its call.
GiveUpHolding(o) ==
    /\ op[o].phase = "wait"
    /\ op' = [op EXCEPT ![o].phase = "error"]
    /\ UNCHANGED <<object, cache, call>>

\* The follower's own request is cancelled.
GiveUp(o) ==
    /\ op[o].phase = "wait"
    /\ op' = [op EXCEPT ![o].phase = "error", ![o].call = None]
    /\ UNCHANGED <<object, cache, call>>

-----------------------------------------------------------------------------
(* The leader's part of decide.                                             *)

\* The call gets its outcome; nobody reads it before it is ready.
Resolve(o, plan, err) ==
    /\ call' = [call EXCEPT ![op[o].call].plan = plan, ![op[o].call].err = err]
    /\ op' = [op EXCEPT ![o].phase = "finish", ![o].keep = (err # "aborted"), ![o].seen = {}]
    /\ UNCHANGED <<object, cache>>

LeaderOpens(o) ==
    /\ op[o].phase = "open"
    /\ op' = [op EXCEPT ![o].phase = "probe"]
    /\ UNCHANGED <<object, cache, call>>

LeaderOpenFails(o) ==
    /\ op[o].phase = "open"
    /\ \E err \in {"aborted", "failed"} : Resolve(o, {}, err)

\* Mutant: the read does not name the version it expects.
ReadableAny(o) == TRUE

\* A read that names an ETag fails when the object has another, since the answer is then
\* a 200; but a 200 is taken where the read asked for the whole object.
Readable(o) == Pinned /\ op[o].entry.version \notin Small => Current(o) = op[o].entry

ProbeReads(o) ==
    /\ op[o].phase = "probe"
    /\ Readable(o)
    /\ op' = [op EXCEPT ![o].seen = @ \cup {Current(o)}]
    /\ UNCHANGED <<object, cache, call>>

ProbeSucceeds(o) ==
    /\ op[o].phase = "probe"
    /\ op[o].seen # {}
    /\ Resolve(o, op[o].seen, "none")

\* What a failed probe, a failed Close included, leaves in the call.
Unprobed == IF OnError = "fail" THEN "failed" ELSE "none"

ProbeFails(o) ==
    /\ op[o].phase = "probe"
    /\ Resolve(o, {}, Unprobed)

\* A cancelled request or an expired deadline ends a read, and decide sees the probe
\* aborted.  But the walk over Matroska elements takes any failed read for the end of
\* the segment: what decide then sees is an unsupported file, or a plan of what was read.
ProbeInterrupted(o) ==
    /\ op[o].phase = "probe"
    /\ \/ Resolve(o, {}, "aborted")
       \/ op[o].seen # {} /\ Resolve(o, {}, Unprobed)
       \/ op[o].seen # {} /\ Resolve(o, op[o].seen, "none")

\* Mutant: eviction does not look whether a call is ready.
EvictableAny(kept, key) == kept \ {key}

\* Mutant: only failures are evicted.
EvictableFailed(kept, key) ==
    {k \in kept \ {key} : call[cache[k]].ready /\ call[cache[k]].plan = {}}

\* The entries finishCall may evict: ready ones, not its own.
Evictable(kept, key) == {k \in kept \ {key} : call[cache[k]].ready}

\* Mutant: a call that is not remembered is not announced either.
AnnouncedIfKept(o) == op[o].keep

\* Whether finishCall closes the call's channel: on every path.
Announced(o) == TRUE

\* finishCall evicts no more than the limit asks for, in the map's random
\* order, and stops short of it only when nothing is left to evict.
Finish(o) ==
    LET key == op[o].entry
        c == op[o].call
        kept == IF op[o].keep THEN Cached ELSE Cached \ {key}
    IN  /\ op[o].phase = "finish"
        /\ \E gone \in SUBSET Evictable(kept, key) :
              /\ gone = {} \/ Cardinality(kept \ gone) >= CacheEntries
              /\ gone = Evictable(kept, key) \/ Cardinality(kept \ gone) <= CacheEntries
              /\ cache' = [k \in Fingerprints |-> IF k \in kept \ gone THEN cache[k] ELSE None]
        /\ call' = [call EXCEPT ![c].ready = Announced(o)]
        /\ op' = [op EXCEPT ![o] = Settled(o, call[c])]
        /\ UNCHANGED object

-----------------------------------------------------------------------------
(* OpenView's passthrough.                                                  *)

PassThrough(o) ==
    /\ op[o].phase = "passthrough"
    /\ \E ok \in BOOLEAN : op' = [op EXCEPT ![o].phase = IF ok THEN "view" ELSE "error"]
    /\ UNCHANGED <<object, cache, call>>

Progress(o) ==
    \/ Lead(o) \/ Follow(o) \/ Awake(o)
    \/ LeaderOpens(o) \/ LeaderOpenFails(o)
    \/ ProbeReads(o) \/ ProbeSucceeds(o) \/ ProbeFails(o) \/ ProbeInterrupted(o)
    \/ Finish(o) \/ PassThrough(o)

Next ==
    \/ \E p \in Paths : Replace(p) \/ \E o \in Openers : Open(o, p)
    \/ \E o \in Openers : Progress(o) \/ GiveUp(o) \/ Close(o)

Spec == Init /\ [][Next]_vars

\* Every goroutine runs, and reads of the origin end, by their deadline at the latest.
FairSpec == Spec /\ \A o \in Openers : WF_vars(Progress(o))

-----------------------------------------------------------------------------
\* Every variable has its type; an open has an entry, and a call while it leads or waits.
TypeOK ==
    /\ object \in [Paths -> 1..MaxVersions]
    /\ cache \in [Fingerprints -> Calls \cup {None}]
    /\ call \in [Calls -> CallStates]
    /\ op \in [Openers -> Opens]
    /\ \A o \in Openers :
          /\ op[o].entry = None <=> op[o].phase = "idle"
          /\ op[o].call = None <=> op[o].phase \notin {"wait"} \cup Leading

\* README.md:469 "Concurrent opens share one probe": no two openers probe the same
\* version at a time, whatever is evicted and aborted meanwhile.
OneProbePerVersion ==
    \A o1, o2 \in Leaders : op[o1].entry = op[o2].entry => o1 = o2

\* The cache holds no more finished calls than its limit, and over it only by
\* the probes that are under way, which eviction must spare (service.go:121).
CacheBounded ==
    /\ Cardinality(Ready) <= CacheEntries
    /\ Cardinality(Cached) <= CacheEntries + Cardinality(Leaders)

\* origin.go:31 "Fingerprint identifies the exact object version used by a cached
\* Plan".  It does where reads are pinned, but for objects so small that a 200 is taken
\* (webdav.go:423).  The bytes of any other stub view are of the path its opener asked
\* for and of no version older than the one it knew, whoever probed it and whenever.
StubOfItsVersion ==
    \A o \in Openers : op[o].phase = "view" =>
        \A k \in op[o].served :
            /\ k.path = op[o].entry.path /\ k.version >= op[o].entry.version
            /\ Pinned /\ op[o].entry.version \notin Small => k = op[o].entry

\* README.md:484 "`fail' instead makes an eligible file unopenable when its media
\* probe fails": leader, follower or later opener, none gets the object's bytes.
FailIsClosed ==
    OnError = "fail" =>
        \A o \in Openers : op[o].phase \in {"passthrough", "view"} /\ op[o].stub => op[o].served # {}

\* An open as its caller sees it.
AsAsked(x) ==
    [phase |-> IF x.phase \in {"idle", "view", "error"} THEN x.phase ELSE "asked",
     entry |-> x.entry,
     stub |-> x.stub,
     served |-> IF x.phase = "view" THEN x.served ELSE {}]

Views == INSTANCE ViewService WITH open <- [o \in Openers |-> AsAsked(op[o])]

\* The service is what ViewService promises: sharing probes, remembering them and
\* forgetting them again give no opener a view it could not have got alone.
OpensAsPromised == Views!ViewSpec

\* Every open ends: no follower waits for a call nobody will announce.
OpensEnd ==
    \A o \in Openers :
        op[o].phase \notin {"idle", "view", "error"} ~> op[o].phase \in {"view", "error"}
=============================================================================
