--------------------------- MODULE FuseNodesProofs ---------------------------
(***************************************************************************)
(* Proofs about FuseNodes, for any TTL, any delay of an answer, any paths   *)
(* and any requests: types, how old an entry can be that the kernel or an  *)
(* open goes by, that no byte of a stub is cached by the kernel, and that  *)
(* the nodes use the views as ViewService says.                            *)
(***************************************************************************)
EXTENDS FuseNodes, TLAPS

-----------------------------------------------------------------------------
(* Types.                                                                  *)

\* What a slot and its view must satisfy besides their types.
Matches(x, view) ==
    /\ x.phase = "opening" <=> view.phase = "asked"
    /\ x.phase = "opened" <=> view.phase \in {"view", "error"}
    /\ x.path = None <=> x.phase = "idle"
    /\ view.entry = None <=> view.phase = "idle"

Slots == /\ open \in [Openers -> Asking]
         /\ req \in [Openers -> Requests]
         /\ \A r \in Openers : Matches(req[r], open[r])

World == /\ object \in [Paths -> Versions]
         /\ age \in [Paths -> [Versions -> 0..MaxAge]]

CachesTyped == /\ node \in [Paths -> [alive: BOOLEAN, cache: Caches]]
               /\ children \in [Paths -> Caches]
               /\ kernel \in [Paths -> Caches]

PagesTyped == pages \in [Paths -> SUBSET {"object", "stub"}]

LEMMA TypeParts == TypeOK <=> World /\ CachesTyped /\ Slots /\ PagesTyped
  BY DEF TypeOK, World, CachesTyped, Slots, PagesTyped, Matches

LEMMA TypePartsPrimed == TypeOK' <=> World' /\ CachesTyped' /\ Slots' /\ PagesTyped'
  BY DEF TypeOK, World, CachesTyped, Slots, PagesTyped, Matches

LEMMA TypeInit == Init => TypeOK
<1> SUFFICES ASSUME Init PROVE TypeOK
  OBVIOUS
<1>1. World
  BY FuseAssumption DEF Init, ViewInit, World, Versions, MaxAge
<1>2. NoEntry \in Caches /\ NoNode \in [alive: BOOLEAN, cache: Caches]
  BY FuseAssumption DEF NoEntry, NoNode, Caches
<1>3. CachesTyped
  BY <1>2 DEF Init, CachesTyped
<1>4. NoRequest \in Requests /\ NotOpen \in Asking
  BY FuseAssumption DEF NoRequest, Requests, NotOpen, Asking, Versions
<1>5. Matches(NoRequest, NotOpen)
  BY DEF Matches, NoRequest, NotOpen
<1>6. Slots
  BY <1>4, <1>5 DEF Init, ViewInit, Slots
<1>7. PagesTyped
  BY DEF Init, PagesTyped
<1>. QED
  BY <1>1, <1>3, <1>6, <1>7, TypeParts

LEMMA FreshTyped ==
  ASSUME NEW v \in Versions
  PROVE  Fresh(v) \in Caches
  BY FuseAssumption DEF Fresh, Caches, Versions

LEMMA LaterTyped ==
  ASSUME NEW c \in Caches
  PROVE  /\ Later(c) \in Caches
         /\ Later(c).entry # 0 => /\ Later(c).entry = c.entry
                                  /\ Later(c).left = c.left - 1
                                  /\ c.left # 0
  BY FuseAssumption DEF Later, NoEntry, Caches

\* A step on one slot keeps the slots well-formed.
LEMMA SlotStep ==
  ASSUME Slots, NEW r \in Openers, NEW x \in Requests, NEW view \in Asking, Matches(x, view),
         req' = [req EXCEPT ![r] = x], open' = [open EXCEPT ![r] = view]
  PROVE  Slots'
  BY DEF Slots, Matches

LEMMA RequestStep ==
  ASSUME Slots, NEW r \in Openers, NEW x \in Requests, Matches(x, open[r]),
         req' = [req EXCEPT ![r] = x], UNCHANGED open
  PROVE  Slots'
  BY DEF Slots, Matches

LEMMA EndStep ==
  ASSUME Slots, NEW r \in Openers, Ends(r), UNCHANGED open,
         req[r].phase \in {"asking", "answered"}
  PROVE  Slots'
<1>1. NoRequest \in Requests
  BY FuseAssumption DEF NoRequest, Requests, Versions
<1>2. Matches(NoRequest, open[r])
  BY DEF Slots, Matches, NoRequest
<1>. QED
  BY <1>1, <1>2, RequestStep DEF Ends

\* What the origin answered to an answered slot.
LEMMA GotTyped ==
  ASSUME TypeOK, NEW r \in Openers, req[r].phase = "answered"
  PROVE  /\ req[r].path \in Paths
         /\ Got(r) \in Versions
         /\ \A p \in Paths : req[r].got[p] \in Versions
  BY DEF TypeOK, Requests, Got

LEMMA LinksTyped ==
  ASSUME CachesTyped, NEW p \in Paths, NEW v \in Versions, Links(p, v)
  PROVE  /\ node' \in [Paths -> [alive: BOOLEAN, cache: Caches]]
         /\ kernel' \in [Paths -> Caches]
<1>1. Fresh(v) \in Caches
  BY FreshTyped
<1>2. [alive |-> TRUE, cache |-> Fresh(v)] \in [alive: BOOLEAN, cache: Caches]
  BY <1>1
<1>3. kernel' \in [Paths -> Caches]
  BY <1>1 DEF Links, Replies, CachesTyped
<1>4. node' \in [Paths -> [alive: BOOLEAN, cache: Caches]]
  BY <1>2 DEF Links, CachesTyped
<1>. QED
  BY <1>3, <1>4

LEMMA AskStep ==
  ASSUME TypeOK, NEW r \in Openers, NEW p \in Paths, NEW v \in Versions, NEW matched \in BOOLEAN,
         OpensView(r, p, v, matched),
         req[r].phase = "idle" \/ (req[r].phase = "answered" /\ req[r].kind = "open")
  PROVE  Slots'
<1> DEFINE x == [NoRequest EXCEPT !.kind = "open", !.phase = "opening", !.path = p]
<1> DEFINE view == [phase |-> "asked", entry |-> [path |-> p, version |-> v],
                    stub |-> (StubCandidate(p, v) /\ matched), served |-> {}]
<1>1. x \in Requests
  <2>1. NoRequest \in Requests
    BY FuseAssumption DEF NoRequest, Requests, Versions
  <2>. QED
    BY <2>1 DEF Requests, Kinds
<1>2. view \in Asking
  BY DEF Asking, Fingerprints, Versions, StubCandidate
<1>3. Matches(x, view)
  BY <1>2, FuseAssumption DEF Matches, NoRequest, Fingerprints, Versions
<1>4. req' = [req EXCEPT ![r] = x] /\ open' = [open EXCEPT ![r] = view]
  BY DEF OpensView, Ask
<1>5. Slots
  BY TypeParts
<1> HIDE DEF x, view
<1>. QED
  BY <1>1, <1>2, <1>3, <1>4, <1>5, SlotStep

\* What an answer leaves of a view.
LEMMA AnswerShape ==
  ASSUME TypeOK, NEW r \in Openers, Answer(r)
  PROVE  \E phase \in {"view", "error"}, served \in SUBSET Fingerprints :
            /\ open' = [open EXCEPT ![r] = Given(r, phase, served)]
            /\ Given(r, phase, served) \in Asking
<1>1. open[r] \in Asking /\ open[r].phase = "asked"
  BY DEF TypeOK, Answer, GiveStub, GiveObject, GiveError
<1>2. req[r].phase = "opening" /\ req[r].path \in Paths
  BY <1>1 DEF TypeOK, Requests
<1>3. \A phase \in {"view", "error"}, served \in SUBSET Fingerprints : Given(r, phase, served) \in Asking
  BY <1>1 DEF Given, Asking
<1>4. open[r].entry \in Fingerprints
  BY <1>1 DEF TypeOK, Asking
<1>5. Sources(open[r].entry) \subseteq Fingerprints
  BY <1>4 DEF Sources
<1>6. CASE GiveStub(r)
  <2>1. PICK served \in (SUBSET Sources(open[r].entry)) \ {{}} :
            open' = [open EXCEPT ![r] = Given(r, "view", served)]
    BY <1>6 DEF GiveStub
  <2>2. served \in SUBSET Fingerprints
    BY <1>5, <2>1
  <2>. QED
    BY <1>3, <2>1, <2>2
<1>7. CASE GiveObject(r)
  <2>1. open' = [open EXCEPT ![r] = Given(r, "view", {})]
    BY <1>7 DEF GiveObject
  <2>2. Given(r, "view", {}) \in Asking
    BY <1>3
  <2>. QED
    BY <2>1, <2>2, Zenon
<1>8. CASE GiveError(r)
  <2>1. open' = [open EXCEPT ![r] = Given(r, "error", {})]
    BY <1>8 DEF GiveError
  <2>2. Given(r, "error", {}) \in Asking
    BY <1>3
  <2>. QED
    BY <2>1, <2>2, Zenon
<1>. QED
  BY <1>6, <1>7, <1>8 DEF Answer

LEMMA TickTyped ==
  ASSUME TypeOK, Tick
  PROVE  World' /\ CachesTyped' /\ Slots'
<1>1. World'
  <2>1. \A p \in Paths : \A v \in Versions :
            (IF v < object[p] /\ age[p][v] < MaxAge THEN age[p][v] + 1 ELSE age[p][v]) \in 0..MaxAge
    BY FuseAssumption DEF TypeOK, MaxAge
  <2>. QED
    BY <2>1, TypeParts DEF Tick, World
<1>2. CachesTyped'
  <2>1. CachesTyped
    BY TypeParts
  <2>2. \A p \in Paths : Later(children[p]) \in Caches /\ Later(kernel[p]) \in Caches
                         /\ Later(node[p].cache) \in Caches
    BY <2>1, LaterTyped DEF CachesTyped
  <2>3. \A p \in Paths : [node[p] EXCEPT !.cache = Later(@)] \in [alive: BOOLEAN, cache: Caches]
    BY <2>1, <2>2 DEF CachesTyped
  <2>. QED
    BY <2>2, <2>3 DEF Tick, CachesTyped
<1>3. Slots'
  <2> DEFINE next(r) == IF req[r].phase = "answered" THEN [req[r] EXCEPT !.delay = @ + 1] ELSE req[r]
  <2>1. Slots
    BY TypeParts
  <2>2. \A r \in Openers : next(r) \in Requests /\ Matches(next(r), open[r])
    <3> SUFFICES ASSUME NEW r \in Openers PROVE next(r) \in Requests /\ Matches(next(r), open[r])
      OBVIOUS
    <3>1. CASE req[r].phase = "answered"
      <4>1. req[r].delay + 1 \in 0..MaxDelay
        BY <2>1, <3>1, FuseAssumption DEF Slots, Requests, Tick
      <4>2. next(r) = [req[r] EXCEPT !.delay = @ + 1]
        BY <3>1
      <4>. QED
        BY <2>1, <4>1, <4>2 DEF Slots, Requests, Matches
    <3>2. CASE req[r].phase # "answered"
      BY <2>1, <3>2 DEF Slots
    <3>. QED
      BY <3>1, <3>2
  <2>3. req' = [r \in Openers |-> next(r)] /\ open' = open
    BY DEF Tick
  <2> HIDE DEF next
  <2>. QED
    BY <2>1, <2>2, <2>3 DEF Slots, Matches
<1>. QED
  BY <1>1, <1>2, <1>3

LEMMA TypeStep == TypeOK /\ [Next]_vars => TypeOK'
<1> SUFFICES ASSUME TypeOK, [Next]_vars PROVE World' /\ CachesTyped' /\ Slots' /\ PagesTyped'
  BY TypePartsPrimed
<1> USE DEF Versions
<1>0. World /\ CachesTyped /\ Slots /\ PagesTyped
  BY TypeParts
<1>1. CASE Replace
  <2>1. PICK p \in Paths : object[p] < MaxVersions /\ object' = [object EXCEPT ![p] = @ + 1]
    BY <1>1 DEF Replace, Replaced
  <2>2. object[p] + 1 \in Versions
    BY <1>0, <2>1, FuseAssumption DEF World
  <2>3. World'
    BY <1>0, <1>1, <2>1, <2>2 DEF World, Replace
  <2>. QED
    BY <1>0, <1>1, <2>3 DEF Replace, Replaced, CachesTyped, Slots, PagesTyped
<1>2. CASE Tick
  BY <1>0, <1>2, TickTyped DEF Tick, PagesTyped
<1>3. CASE \E p \in Paths : Forget(p)
  <2>1. NoNode \in [alive: BOOLEAN, cache: Caches] /\ NoEntry \in Caches
    BY FuseAssumption DEF NoNode, NoEntry, Caches
  <2>2. PICK p \in Paths : Forget(p)
    BY <1>3
  <2>3. CachesTyped' /\ PagesTyped'
    BY <1>0, <2>1, <2>2 DEF Forget, CachesTyped, PagesTyped
  <2>. QED
    <3>1. UNCHANGED <<object, open, age, req>>
      BY <2>2 DEF Forget
    <3>2. World' /\ Slots'
      BY <1>0, <3>1 DEF World, Slots
    <3>. QED
      BY <2>3, <3>2
<1>4. CASE \E p \in Paths : GetattrCached(p)
  <2>1. PICK p \in Paths : GetattrCached(p)
    BY <1>4
  <2>2. Fresh(node[p].cache.entry) \in Caches
    BY <1>0, <2>1, FreshTyped DEF GetattrCached, CachesTyped, Caches
  <2>. QED
    BY <1>0, <2>1, <2>2 DEF GetattrCached, Replies, World, CachesTyped, Slots, PagesTyped
<1>5. CASE \E p \in Paths : LookupCached(p)
  <2>1. PICK p \in Paths : LookupCached(p)
    BY <1>5
  <2>2. children[p].entry \in Versions
    BY <1>0, <2>1 DEF LookupCached, CachesTyped, Caches
  <2>. QED
    BY <1>0, <2>1, <2>2, LinksTyped DEF LookupCached, World, CachesTyped, Slots, PagesTyped
<1>6. CASE \E r \in Openers, p \in Paths : OpenCached(r, p)
  <2>1. PICK r \in Openers, p \in Paths : OpenCached(r, p)
    BY <1>6
  <2>2. node[p].cache.entry \in Versions
    BY <1>0, <2>1 DEF OpenCached, CachesTyped, Caches
  <2>3. Slots'
    BY <2>1, <2>2, AskStep DEF OpenCached, Matched, Callers
  <2>. QED
    BY <1>0, <2>1, <2>3 DEF OpenCached, World, CachesTyped, PagesTyped
<1>7. CASE \E r \in Openers, p \in Paths, k \in Kinds : AsksOrigin(r, k, p)
  <2>1. PICK r \in Openers, p \in Paths, k \in Kinds : AsksOrigin(r, k, p)
    BY <1>7
  <2>2. PICK caller \in Callers :
            req' = [req EXCEPT ![r].kind = k, ![r].phase = "asking", ![r].path = p,
                               ![r].stub = (k = "open" /\ Matched(caller))]
    BY <2>1 DEF AsksOrigin
  <2> DEFINE x == [req[r] EXCEPT !.kind = k, !.phase = "asking", !.path = p,
                                 !.stub = (k = "open" /\ Matched(caller))]
  <2>3. req' = [req EXCEPT ![r] = x]
    BY <1>0, <2>2 DEF Slots
  <2>4. req[r].phase = "idle" /\ open' = open
    BY <2>1 DEF AsksOrigin
  <2>5. x \in Requests
    BY <1>0 DEF Slots, Requests
  <2>6. Matches(x, open[r])
    BY <1>0, <2>4, FuseAssumption DEF Slots, Matches, Requests
  <2>7. Slots'
    <3> HIDE DEF x
    <3>. QED
      BY <1>0, <2>3, <2>4, <2>5, <2>6, RequestStep
  <2>. QED
    BY <1>0, <2>1, <2>7 DEF AsksOrigin, World, CachesTyped, PagesTyped
<1>8. CASE \E r \in Openers : OriginAnswers(r)
  <2>1. PICK r \in Openers : OriginAnswers(r)
    BY <1>8
  <2> DEFINE x == [req[r] EXCEPT !.phase = "answered", !.got = object]
  <2>2. req' = [req EXCEPT ![r] = x]
    BY <1>0, <2>1 DEF OriginAnswers, Slots
  <2>3. x \in Requests
    BY <1>0 DEF Slots, Requests, World
  <2>4. Matches(x, open[r])
    BY <1>0, <2>1 DEF Slots, Matches, Requests, OriginAnswers
  <2>5. open' = open
    BY <2>1 DEF OriginAnswers
  <2>6. Slots'
    <3> HIDE DEF x
    <3>. QED
      BY <1>0, <2>2, <2>3, <2>4, <2>5, RequestStep
  <2>. QED
    BY <1>0, <2>1, <2>6 DEF OriginAnswers, World, CachesTyped, PagesTyped
<1>9. CASE \E r \in Openers : OriginFails(r) \/ NotFound(r)
  <2>1. PICK r \in Openers : OriginFails(r) \/ NotFound(r)
    BY <1>9
  <2>2. Slots'
    BY <1>0, <2>1, EndStep DEF OriginFails, NotFound, Answered, Ends
  <2>. QED
    BY <1>0, <2>1, <2>2 DEF OriginFails, NotFound, World, CachesTyped, PagesTyped
<1>10. CASE \E r \in Openers : GetattrAnswered(r)
  <2>1. PICK r \in Openers : GetattrAnswered(r)
    BY <1>10
  <2>2. req[r].path \in Paths /\ Fresh(Got(r)) \in Caches
    BY <2>1, GotTyped, FreshTyped DEF GetattrAnswered, Answered
  <2>3. Slots'
    BY <1>0, <2>1, EndStep DEF GetattrAnswered, Answered
  <2>. QED
    BY <1>0, <2>1, <2>2, <2>3 DEF GetattrAnswered, CacheStat, Replies, World, CachesTyped, PagesTyped
<1>11. CASE \E r \in Openers : LookupAnswered(r)
  <2>1. PICK r \in Openers : LookupAnswered(r)
    BY <1>11
  <2>2. req[r].path \in Paths /\ Got(r) \in Versions /\ Fresh(Got(r)) \in Caches
    BY <2>1, GotTyped, FreshTyped DEF LookupAnswered, Answered
  <2>3. Slots'
    BY <1>0, <2>1, EndStep DEF LookupAnswered, Answered
  <2>4. CachesTyped'
    <3>1. children' \in [Paths -> Caches]
      BY <1>0, <2>1 DEF LookupAnswered, CachesTyped
    <3>2. CASE Links(req[r].path, Got(r))
      BY <1>0, <2>2, <3>1, <3>2, LinksTyped DEF CachesTyped
    <3>3. CASE Replies(req[r].path, Got(r)) /\ UNCHANGED node
      BY <1>0, <2>2, <3>1, <3>3 DEF CachesTyped, Replies
    <3>. QED
      BY <2>1, <3>2, <3>3 DEF LookupAnswered
  <2>. QED
    BY <1>0, <2>1, <2>3, <2>4 DEF LookupAnswered, World, PagesTyped
<1>12. CASE \E r \in Openers : ReaddirAnswered(r)
  <2>1. PICK r \in Openers : ReaddirAnswered(r)
    BY <1>12
  <2>2. NoEntry \in Caches /\ \A p \in Paths : Fresh(req[r].got[p]) \in Caches
    BY <2>1, GotTyped, FreshTyped, FuseAssumption DEF ReaddirAnswered, CacheChildren, Answered, NoEntry, Caches
  <2>3. Slots'
    BY <1>0, <2>1, EndStep DEF ReaddirAnswered, Answered
  <2>. QED
    BY <1>0, <2>1, <2>2, <2>3 DEF ReaddirAnswered, CacheChildren, World, CachesTyped, PagesTyped
<1>13. CASE \E r \in Openers : OpenAnswered(r)
  <2>1. PICK r \in Openers : OpenAnswered(r)
    BY <1>13
  <2>2. req[r].path \in Paths /\ Got(r) \in Versions /\ Fresh(Got(r)) \in Caches
    BY <2>1, GotTyped, FreshTyped DEF OpenAnswered, Answered
  <2>3. req[r].stub \in BOOLEAN
    BY <1>0 DEF Slots, Requests
  <2>4. Slots'
    BY <2>1, <2>2, <2>3, AskStep DEF OpenAnswered, Answered
  <2>. QED
    BY <1>0, <2>1, <2>2, <2>4 DEF OpenAnswered, CacheStat, World, CachesTyped, PagesTyped
<1>14. CASE \E r \in Openers : OpenReplies(r)
  <2>1. PICK r \in Openers : OpenReplies(r)
    BY <1>14
  <2>2. PICK phase \in {"view", "error"}, served \in SUBSET Fingerprints :
            /\ open' = [open EXCEPT ![r] = Given(r, phase, served)]
            /\ Given(r, phase, served) \in Asking
    BY <2>1, AnswerShape DEF OpenReplies
  <2> DEFINE x == [req[r] EXCEPT !.phase = "opened", !.direct = Direct(open'[r])]
  <2>3. req' = [req EXCEPT ![r] = x]
    BY <1>0, <2>1 DEF OpenReplies, Slots
  <2>4. x \in Requests
    BY <1>0 DEF Slots, Requests, Direct
  <2>5. Matches(x, Given(r, phase, served))
    BY <1>0, <2>1 DEF Slots, Matches, Given, OpenReplies, Requests
  <2>6. Slots'
    <3> HIDE DEF x
    <3>. QED
      BY <1>0, <2>2, <2>3, <2>4, <2>5, SlotStep
  <2>. QED
    BY <1>0, <2>1, <2>6 DEF OpenReplies, World, CachesTyped, PagesTyped
<1>15. CASE \E r \in Openers : Reads(r)
  <2>1. PICK r \in Openers : Reads(r)
    BY <1>15
  <2>2. req[r].path \in Paths
    BY <1>0, <2>1 DEF Reads, Slots, Matches, Requests
  <2>3. PagesTyped'
    BY <1>0, <2>1, <2>2 DEF Reads, PagesTyped
  <2>. QED
    BY <1>0, <2>1, <2>3 DEF Reads, World, CachesTyped, Slots
<1>16. CASE \E r \in Openers : Release(r)
  <2>1. PICK r \in Openers : Release(r)
    BY <1>16
  <2>2. NoRequest \in Requests /\ NotOpen \in Asking /\ Matches(NoRequest, NotOpen)
    BY FuseAssumption DEF NoRequest, Requests, NotOpen, Asking, Matches
  <2>3. Slots'
    BY <1>0, <2>1, <2>2, SlotStep DEF Release, Done, Ends
  <2>. QED
    BY <1>0, <2>1, <2>3 DEF Release, World, CachesTyped, PagesTyped
<1>17. CASE UNCHANGED vars
  BY <1>0, <1>17 DEF vars, World, CachesTyped, Slots, PagesTyped
<1>. QED
  BY <1>1, <1>2, <1>3, <1>4, <1>5, <1>6, <1>7, <1>8, <1>9, <1>10, <1>11, <1>12, <1>13,
     <1>14, <1>15, <1>16, <1>17 DEF Next

\* Every variable has its type, and a slot's phase agrees with its view's.
THEOREM NodesTyped == Spec => []TypeOK
  BY TypeInit, TypeStep, PTL DEF Spec

-----------------------------------------------------------------------------
(* How old entries get.  What a cache holds and the ticks it is still valid *)
(* add up: to a TTL and a delay in the root, and to one TTL more for every  *)
(* cache that an entry has gone through.                                   *)

\* Version v of p was replaced at most `limit' ticks ago.
AtMost(p, v, limit) == v <= object[p] /\ age[p][v] <= limit
Within(c, p, limit) == c.entry # 0 => AtMost(p, c.entry, limit - c.left)

PresentIsNew == \A p \in Paths, v \in Versions : v >= object[p] => age[p][v] = 0
ChildrenFresh == \A p \in Paths : Within(children[p], p, TTL + MaxDelay)
NodesFresh == \A p \in Paths : Within(node[p].cache, p, 2 * TTL + MaxDelay)
TrustFresh == \A p \in Paths : Within(kernel[p], p, 3 * TTL + MaxDelay)
AnswersFresh == \A r \in Openers : req[r].phase = "answered" =>
                    \A p \in Paths : AtMost(p, req[r].got[p], req[r].delay)

FreshInv == TypeOK /\ PresentIsNew /\ ChildrenFresh /\ NodesFresh /\ TrustFresh /\ AnswersFresh

LEMMA FreshInit == Init => FreshInv
<1> SUFFICES ASSUME Init PROVE FreshInv
  OBVIOUS
<1>1. TypeOK
  BY TypeInit
<1>2. PresentIsNew
  BY DEF Init, PresentIsNew
<1>3. ChildrenFresh /\ NodesFresh /\ TrustFresh
  BY DEF Init, ChildrenFresh, NodesFresh, TrustFresh, Within, NoEntry, NoNode
<1>4. AnswersFresh
  BY DEF Init, AnswersFresh, NoRequest
<1>. QED
  BY <1>1, <1>2, <1>3, <1>4 DEF FreshInv

\* An entry may be kept for a TTL by who gets it.
LEMMA FreshWithin ==
  ASSUME FreshInv, NEW p \in Paths, NEW v \in Versions, NEW limit \in Int, AtMost(p, v, limit)
  PROVE  Within(Fresh(v), p, limit + TTL)
  BY FuseAssumption DEF FreshInv, TypeOK, Within, AtMost, Fresh, Versions

\* What an answered slot got, or the present caches hold, in the terms of AtMost.
LEMMA GotFresh ==
  ASSUME FreshInv, NEW r \in Openers, req[r].phase = "answered", NEW p \in Paths
  PROVE  req[r].got[p] \in Versions /\ AtMost(p, req[r].got[p], MaxDelay)
<1>1. req[r].got[p] \in Versions /\ AtMost(p, req[r].got[p], req[r].delay)
  BY GotTyped DEF FreshInv, AnswersFresh
<1>2. req[r].delay \in 0..MaxDelay
  BY DEF FreshInv, TypeOK, Requests
<1>3. age[p][req[r].got[p]] \in Int
  BY <1>1 DEF FreshInv, TypeOK
<1>. QED
  BY <1>1, <1>2, <1>3, FuseAssumption DEF AtMost

LEMMA HeldFresh ==
  ASSUME FreshInv, NEW p \in Paths, NEW c \in Caches, NEW limit \in Int, Within(c, p, limit),
         c.entry # 0
  PROVE  c.entry \in Versions /\ AtMost(p, c.entry, limit)
<1>1. c.entry \in Versions /\ c.left \in Nat
  BY FuseAssumption DEF Caches, Versions
<1>2. age[p][c.entry] \in Int
  BY <1>1 DEF FreshInv, TypeOK
<1>. QED
  BY <1>1, <1>2 DEF AtMost, Within

\* Versions do not get older by a replacement.
LEMMA ReplaceFresh ==
  ASSUME FreshInv, Replace
  PROVE  PresentIsNew' /\ ChildrenFresh' /\ NodesFresh' /\ TrustFresh' /\ AnswersFresh'
<1>1. PICK q \in Paths : object[q] < MaxVersions /\ object' = [object EXCEPT ![q] = @ + 1]
  BY DEF Replace, Replaced
<1>2. \A p \in Paths : object[p] \in Nat /\ object'[p] \in Nat /\ object[p] <= object'[p]
  BY <1>1, FuseAssumption DEF FreshInv, TypeOK, Versions
<1>3. UNCHANGED <<age, node, children, kernel, req>>
  BY DEF Replace
<1>4. \A p \in Paths, v \in Nat, limit \in Int : AtMost(p, v, limit) => AtMost(p, v, limit)'
  BY <1>2, <1>3 DEF AtMost
<1>5. PresentIsNew'
  BY <1>2, <1>3 DEF FreshInv, PresentIsNew, Versions
<1>6. \A p \in Paths, c \in Caches, limit \in Int : Within(c, p, limit) => Within(c, p, limit)'
  BY <1>2, <1>3 DEF Within, AtMost, Caches
<1>7. ChildrenFresh' /\ NodesFresh' /\ TrustFresh'
  BY <1>3, <1>6, FuseAssumption DEF FreshInv, TypeOK, ChildrenFresh, NodesFresh, TrustFresh
<1>8. AnswersFresh'
  BY <1>2, <1>3, GotTyped DEF FreshInv, AnswersFresh, AtMost, Versions
<1>. QED
  BY <1>5, <1>7, <1>8

\* A tick takes from an entry's time what it adds to its age.
LEMMA TickFresh ==
  ASSUME FreshInv, Tick
  PROVE  PresentIsNew' /\ ChildrenFresh' /\ NodesFresh' /\ TrustFresh' /\ AnswersFresh'
<1>1. \A p \in Paths, v \in Versions :
          /\ age[p][v] \in Int /\ age'[p][v] \in Int
          /\ age'[p][v] <= age[p][v] + 1
          /\ v >= object[p] => age'[p][v] = age[p][v]
  BY FuseAssumption DEF FreshInv, TypeOK, Tick, Versions, MaxAge
<1>2. object' = object
  BY DEF Tick
<1>3. PresentIsNew'
  BY <1>1, <1>2 DEF FreshInv, PresentIsNew
<1>4. \A p \in Paths, c \in Caches, limit \in Int : Within(c, p, limit) => Within(Later(c), p, limit)'
  <2> SUFFICES ASSUME NEW p \in Paths, NEW c \in Caches, NEW limit \in Int, Within(c, p, limit),
                      Later(c).entry # 0
               PROVE  AtMost(p, Later(c).entry, limit - Later(c).left)'
    BY DEF Within
  <2>1. Later(c).entry = c.entry /\ Later(c).left = c.left - 1 /\ c.left \in Nat
    BY LaterTyped, FuseAssumption DEF Caches
  <2>2. c.entry \in Versions
    BY <2>1, FuseAssumption DEF Caches, Versions
  <2>3. c.entry <= object[p] /\ age[p][c.entry] <= limit - c.left
    BY <2>1 DEF Within, AtMost
  <2>4. age'[p][c.entry] <= limit - (c.left - 1)
    BY <1>1, <2>1, <2>2, <2>3
  <2>. QED
    BY <1>2, <2>1, <2>3, <2>4 DEF AtMost
<1>5. ChildrenFresh' /\ TrustFresh'
  BY <1>4, FuseAssumption DEF FreshInv, TypeOK, Tick, ChildrenFresh, TrustFresh
<1>6. NodesFresh'
  <2> SUFFICES ASSUME NEW p \in Paths PROVE Within(node[p].cache, p, 2 * TTL + MaxDelay)'
    BY DEF NodesFresh
  <2>1. node'[p].cache = Later(node[p].cache) /\ node[p].cache \in Caches
    BY DEF FreshInv, TypeOK, Tick
  <2>2. Within(node[p].cache, p, 2 * TTL + MaxDelay)
    BY DEF FreshInv, NodesFresh
  <2>3. PICK c \in Caches : c = node[p].cache
    BY <2>1
  <2>4. Within(Later(c), p, 2 * TTL + MaxDelay)'
    BY <1>4, <2>2, <2>3, FuseAssumption
  <2>. QED
    BY <2>1, <2>3, <2>4 DEF Within
<1>7. AnswersFresh'
  <2> SUFFICES ASSUME NEW r \in Openers, req'[r].phase = "answered", NEW p \in Paths
               PROVE  AtMost(p, req[r].got[p], req[r].delay)'
    BY DEF AnswersFresh
  <2>1. req[r].phase = "answered" /\ req[r].delay \in Nat
    BY FuseAssumption DEF FreshInv, TypeOK, Tick, Requests
  <2>2. req'[r].got = req[r].got /\ req'[r].delay = req[r].delay + 1
    BY <2>1 DEF FreshInv, TypeOK, Tick, Requests
  <2>3. AtMost(p, req[r].got[p], req[r].delay) /\ req[r].got[p] \in Versions
    BY <2>1, GotTyped DEF FreshInv, AnswersFresh
  <2>. QED
    BY <1>1, <1>2, <2>1, <2>2, <2>3 DEF AtMost
<1>. QED
  BY <1>3, <1>5, <1>6, <1>7

\* Steps without time or a replacement, one cache at a time.
Still == UNCHANGED <<object, age>>

LEMMA AnswersKept ==
  ASSUME FreshInv, Still, NEW r \in Openers, NEW x, x.phase # "answered", req' = [req EXCEPT ![r] = x]
  PROVE  AnswersFresh'
  BY DEF FreshInv, TypeOK, Still, AnswersFresh, AtMost

LEMMA EndKept ==
  ASSUME FreshInv, Still, NEW r \in Openers, Ends(r)
  PROVE  AnswersFresh'
  BY AnswersKept DEF Ends, NoRequest

LEMMA CacheStatFresh ==
  ASSUME FreshInv, Still, NEW p \in Paths, NEW v \in Versions, AtMost(p, v, MaxDelay),
         CacheStat(p, v)
  PROVE  NodesFresh'
<1>1. Within(Fresh(v), p, MaxDelay + TTL)
  BY FreshWithin, FuseAssumption
<1>2. Within(Fresh(v), p, 2 * TTL + MaxDelay)
  <2>1. Fresh(v).left = TTL /\ Fresh(v).entry = v /\ age[p][v] \in Int
    BY DEF Fresh, FreshInv, TypeOK
  <2>. QED
    BY <1>1, <2>1, FuseAssumption DEF Within, AtMost
<1>3. node' = [node EXCEPT ![p].cache = Fresh(v)]
  BY DEF CacheStat
<1>. QED
  BY <1>2, <1>3 DEF FreshInv, TypeOK, NodesFresh, Still, Within, AtMost

LEMMA RepliesFresh ==
  ASSUME FreshInv, Still, NEW p \in Paths, NEW v \in Versions, AtMost(p, v, 2 * TTL + MaxDelay),
         Replies(p, v)
  PROVE  TrustFresh'
<1>1. Within(Fresh(v), p, 2 * TTL + MaxDelay + TTL)
  BY FreshWithin, FuseAssumption
<1>2. Within(Fresh(v), p, 3 * TTL + MaxDelay)
  BY <1>1, FuseAssumption DEF Fresh, Within, AtMost
<1>. QED
  BY <1>2 DEF FreshInv, TypeOK, TrustFresh, Replies, Still, Within, AtMost

\* A node that is new gets what its parent's cache or the origin has.
LEMMA LinksFresh ==
  ASSUME FreshInv, Still, NEW p \in Paths, NEW v \in Versions, AtMost(p, v, TTL + MaxDelay),
         Links(p, v)
  PROVE  NodesFresh' /\ TrustFresh'
<1>1. age[p][v] \in Int
  BY DEF FreshInv, TypeOK
<1>2. TrustFresh'
  BY <1>1, RepliesFresh, FuseAssumption DEF AtMost, Links
<1>3. Within(Fresh(v), p, TTL + MaxDelay + TTL)
  BY FreshWithin, FuseAssumption
<1>4. Within(Fresh(v), p, 2 * TTL + MaxDelay)
  BY <1>3, FuseAssumption DEF Fresh, Within, AtMost
<1>5. NodesFresh'
  <2>1. CASE node[p].alive
    BY <2>1 DEF Links, FreshInv, NodesFresh, Still, Within, AtMost
  <2>2. CASE ~node[p].alive
    <3>1. node' = [node EXCEPT ![p] = [alive |-> TRUE, cache |-> Fresh(v)]]
      BY <2>2 DEF Links
    <3>. QED
      BY <1>4, <3>1 DEF FreshInv, TypeOK, NodesFresh, Still, Within, AtMost
  <2>. QED
    BY <2>1, <2>2
<1>. QED
  BY <1>2, <1>5

LEMMA StillKeeps ==
  ASSUME FreshInv, Still
  PROVE  /\ PresentIsNew'
         /\ children' = children => ChildrenFresh'
         /\ node' = node => NodesFresh'
         /\ kernel' = kernel => TrustFresh'
         /\ req' = req => AnswersFresh'
  BY DEF FreshInv, Still, PresentIsNew, ChildrenFresh, NodesFresh, TrustFresh, AnswersFresh,
         Within, AtMost

LEMMA FreshStep == FreshInv /\ [Next]_vars => FreshInv'
<1> SUFFICES ASSUME FreshInv, [Next]_vars
             PROVE  PresentIsNew' /\ ChildrenFresh' /\ NodesFresh' /\ TrustFresh' /\ AnswersFresh'
  BY TypeStep DEF FreshInv
<1>1. CASE Replace
  BY <1>1, ReplaceFresh
<1>2. CASE Tick
  BY <1>2, TickFresh
<1>3. CASE \E p \in Paths : Forget(p)
  <2>1. PICK p \in Paths : Forget(p)
    BY <1>3
  <2>2. Still
    BY <2>1 DEF Forget, Still
  <2>3. NodesFresh' /\ TrustFresh'
    BY <2>1 DEF Forget, FreshInv, TypeOK, NodesFresh, TrustFresh, NoNode, NoEntry, Within, AtMost
  <2>. QED
    BY <2>1, <2>2, <2>3, StillKeeps DEF Forget
<1>4. CASE \E p \in Paths : GetattrCached(p)
  <2>1. PICK p \in Paths : GetattrCached(p)
    BY <1>4
  <2>2. Still /\ UNCHANGED <<node, children, req>> /\ node[p].cache.entry # 0
    BY <2>1 DEF GetattrCached, Still
  <2>3. node[p].cache \in Caches /\ Within(node[p].cache, p, 2 * TTL + MaxDelay)
    BY DEF FreshInv, TypeOK, NodesFresh
  <2>4. TrustFresh'
    BY <2>1, <2>2, <2>3, HeldFresh, RepliesFresh, FuseAssumption DEF GetattrCached
  <2>. QED
    BY <2>2, <2>4, StillKeeps
<1>5. CASE \E p \in Paths : LookupCached(p)
  <2>1. PICK p \in Paths : LookupCached(p)
    BY <1>5
  <2>2. Still /\ UNCHANGED <<children, req>> /\ children[p].entry # 0
    BY <2>1 DEF LookupCached, Still
  <2>3. children[p] \in Caches /\ Within(children[p], p, TTL + MaxDelay)
    BY DEF FreshInv, TypeOK, ChildrenFresh
  <2>4. NodesFresh' /\ TrustFresh'
    BY <2>1, <2>2, <2>3, HeldFresh, LinksFresh, FuseAssumption DEF LookupCached
  <2>. QED
    BY <2>2, <2>4, StillKeeps
<1>6. CASE \E r \in Openers, p \in Paths : OpenCached(r, p)
  <2>1. PICK r \in Openers, p \in Paths : OpenCached(r, p)
    BY <1>6
  <2>2. Still /\ UNCHANGED <<children, node, kernel>>
    BY <2>1 DEF OpenCached, Still
  <2>3. AnswersFresh'
    BY <2>1, <2>2, AnswersKept DEF OpenCached, OpensView, NoRequest
  <2>. QED
    BY <2>2, <2>3, StillKeeps
<1>7. CASE \E r \in Openers, p \in Paths, k \in Kinds : AsksOrigin(r, k, p)
  <2>1. PICK r \in Openers, p \in Paths, k \in Kinds : AsksOrigin(r, k, p)
    BY <1>7
  <2>2. Still /\ UNCHANGED <<children, node, kernel>>
    BY <2>1 DEF AsksOrigin, Still
  <2>3. PICK caller \in Callers :
            req' = [req EXCEPT ![r].kind = k, ![r].phase = "asking", ![r].path = p,
                               ![r].stub = (k = "open" /\ Matched(caller))]
    BY <2>1 DEF AsksOrigin
  <2> DEFINE x == [req[r] EXCEPT !.kind = k, !.phase = "asking", !.path = p,
                                 !.stub = (k = "open" /\ Matched(caller))]
  <2>4. req' = [req EXCEPT ![r] = x] /\ x.phase = "asking"
    BY <2>3 DEF FreshInv, TypeOK, Requests
  <2>5. AnswersFresh'
    <3> HIDE DEF x
    <3>. QED
      BY <2>2, <2>4, AnswersKept
  <2>. QED
    BY <2>2, <2>5, StillKeeps
<1>8. CASE \E r \in Openers : OriginAnswers(r)
  <2>1. PICK r \in Openers : OriginAnswers(r)
    BY <1>8
  <2>2. Still /\ UNCHANGED <<children, node, kernel>>
    BY <2>1 DEF OriginAnswers, Still
  <2>3. \A p \in Paths, delay \in 0..MaxDelay : AtMost(p, object[p], delay)
    <3>1. \A p \in Paths : object[p] \in Versions /\ age[p][object[p]] = 0
      BY DEF FreshInv, TypeOK, PresentIsNew, Versions
    <3>. QED
      BY <3>1, FuseAssumption DEF AtMost, Versions
  <2>4. req[r].delay \in 0..MaxDelay
    BY DEF FreshInv, TypeOK, Requests
  <2>5. /\ req'[r].got = object /\ req'[r].delay = req[r].delay
        /\ \A q \in Openers \ {r} : req'[q] = req[q]
    BY <2>1 DEF OriginAnswers, FreshInv, TypeOK, Requests
  <2>6. ASSUME NEW q \in Openers, req'[q].phase = "answered", NEW p \in Paths
        PROVE  AtMost(p, req[q].got[p], req[q].delay)'
    <3>1. CASE q = r
      BY <2>2, <2>3, <2>4, <2>5, <3>1 DEF AtMost, Still
    <3>2. CASE q # r
      BY <2>2, <2>5, <2>6, <3>2 DEF FreshInv, AnswersFresh, AtMost, Still
    <3>. QED
      BY <3>1, <3>2
  <2>. QED
    BY <2>2, <2>6, StillKeeps DEF AnswersFresh
<1>9. CASE \E r \in Openers : OriginFails(r) \/ NotFound(r)
  <2>1. PICK r \in Openers : OriginFails(r) \/ NotFound(r)
    BY <1>9
  <2>2. Still /\ UNCHANGED <<children, node, kernel>> /\ Ends(r)
    BY <2>1 DEF OriginFails, NotFound, Ends, Still
  <2>. QED
    BY <2>2, EndKept, StillKeeps
<1>10. CASE \E r \in Openers : GetattrAnswered(r)
  <2>1. PICK r \in Openers : GetattrAnswered(r)
    BY <1>10
  <2>2. Still /\ UNCHANGED children /\ Ends(r)
    BY <2>1 DEF GetattrAnswered, Still
  <2>3. req[r].path \in Paths /\ Got(r) \in Versions /\ AtMost(req[r].path, Got(r), MaxDelay)
    BY <2>1, GotTyped, GotFresh DEF FreshInv, GetattrAnswered, Answered, Got
  <2>4. AtMost(req[r].path, Got(r), 2 * TTL + MaxDelay)
    BY <2>3, FuseAssumption DEF AtMost, FreshInv, TypeOK
  <2>5. NodesFresh' /\ TrustFresh'
    BY <2>1, <2>2, <2>3, <2>4, CacheStatFresh, RepliesFresh DEF GetattrAnswered
  <2>. QED
    BY <2>2, <2>5, EndKept, StillKeeps
<1>11. CASE \E r \in Openers : LookupAnswered(r)
  <2>1. PICK r \in Openers : LookupAnswered(r)
    BY <1>11
  <2>2. Still /\ UNCHANGED children /\ Ends(r)
    BY <2>1 DEF LookupAnswered, Still
  <2>3. req[r].path \in Paths /\ Got(r) \in Versions /\ AtMost(req[r].path, Got(r), MaxDelay)
    BY <2>1, GotTyped, GotFresh DEF FreshInv, LookupAnswered, Answered, Got
  <2>4. /\ AtMost(req[r].path, Got(r), TTL + MaxDelay)
        /\ AtMost(req[r].path, Got(r), 2 * TTL + MaxDelay)
    BY <2>3, FuseAssumption DEF AtMost, FreshInv, TypeOK
  <2>5. CASE Links(req[r].path, Got(r))
    BY <2>2, <2>3, <2>4, <2>5, LinksFresh, EndKept, StillKeeps
  <2>6. CASE Replies(req[r].path, Got(r)) /\ UNCHANGED node
    BY <2>2, <2>3, <2>4, <2>6, RepliesFresh, EndKept, StillKeeps
  <2>. QED
    BY <2>1, <2>5, <2>6 DEF LookupAnswered
<1>12. CASE \E r \in Openers : ReaddirAnswered(r)
  <2>1. PICK r \in Openers : ReaddirAnswered(r)
    BY <1>12
  <2>2. Still /\ UNCHANGED <<node, kernel>> /\ Ends(r)
    BY <2>1 DEF ReaddirAnswered, Still
  <2>3. \A p \in Paths : Within(Fresh(req[r].got[p]), p, MaxDelay + TTL)
    BY <2>1, GotFresh, FreshWithin, FuseAssumption DEF ReaddirAnswered, Answered
  <2>4. ASSUME NEW p \in Paths PROVE Within(children[p], p, TTL + MaxDelay)'
    <3>1. CASE req[r].got[p] \in Absent
      BY <2>1, <3>1 DEF ReaddirAnswered, CacheChildren, Within, NoEntry
    <3>2. CASE req[r].got[p] \notin Absent
      <4>1. children'[p] = Fresh(req[r].got[p])
        BY <2>1, <3>2 DEF ReaddirAnswered, CacheChildren
      <4>. QED
        BY <2>2, <2>3, <4>1, FuseAssumption DEF Within, AtMost, Still
    <3>. QED
      BY <3>1, <3>2
  <2>. QED
    BY <2>2, <2>4, EndKept, StillKeeps DEF ChildrenFresh
<1>13. CASE \E r \in Openers : OpenAnswered(r)
  <2>1. PICK r \in Openers : OpenAnswered(r)
    BY <1>13
  <2>2. Still /\ UNCHANGED <<children, kernel>>
    BY <2>1 DEF OpenAnswered, Still
  <2>3. req[r].path \in Paths /\ Got(r) \in Versions /\ AtMost(req[r].path, Got(r), MaxDelay)
    BY <2>1, GotTyped, GotFresh DEF FreshInv, OpenAnswered, Answered, Got
  <2>4. AnswersFresh'
    BY <2>1, <2>2, AnswersKept DEF OpenAnswered, OpensView, NoRequest
  <2>. QED
    BY <2>1, <2>2, <2>3, <2>4, CacheStatFresh, StillKeeps DEF OpenAnswered
<1>14. CASE \E r \in Openers : OpenReplies(r)
  <2>1. PICK r \in Openers : OpenReplies(r)
    BY <1>14
  <2>2. Still /\ UNCHANGED <<children, node, kernel>>
    BY <2>1 DEF OpenReplies, Still
  <2> DEFINE x == [req[r] EXCEPT !.phase = "opened", !.direct = Direct(open'[r])]
  <2>3. req' = [req EXCEPT ![r] = x] /\ x.phase = "opened"
    BY <2>1 DEF OpenReplies, FreshInv, TypeOK, Requests
  <2>4. AnswersFresh'
    <3> HIDE DEF x
    <3>. QED
      BY <2>2, <2>3, AnswersKept
  <2>. QED
    BY <2>2, <2>4, StillKeeps
<1>15. CASE \E r \in Openers : Reads(r)
  BY <1>15, StillKeeps DEF Reads, Still
<1>16. CASE \E r \in Openers : Release(r)
  <2>1. PICK r \in Openers : Release(r)
    BY <1>16
  <2>2. Still /\ UNCHANGED <<children, node, kernel>> /\ Ends(r)
    BY <2>1 DEF Release, Still
  <2>. QED
    BY <2>2, EndKept, StillKeeps
<1>17. CASE UNCHANGED vars
  BY <1>17, StillKeeps DEF vars, Still
<1>. QED
  BY <1>1, <1>2, <1>3, <1>4, <1>5, <1>6, <1>7, <1>8, <1>9, <1>10, <1>11, <1>12, <1>13,
     <1>14, <1>15, <1>16, <1>17 DEF Next

LEMMA FreshAlways == Spec => []FreshInv
  BY FreshInit, FreshStep, PTL DEF Spec

\* Whatever the TTL and the delays, the kernel trusts nothing older than three
\* TTLs and a delay.
THEOREM KernelStaysFresh == Spec => []KernelFresh
<1>1. ASSUME FreshInv, NEW p \in Paths, kernel[p].entry # 0
      PROVE  age[p][kernel[p].entry] <= 3 * TTL + MaxDelay
  <2>1. kernel[p] \in Caches /\ Within(kernel[p], p, 3 * TTL + MaxDelay)
    BY <1>1 DEF FreshInv, TypeOK, TrustFresh
  <2>. QED
    BY <1>1, <2>1, HeldFresh, FuseAssumption DEF AtMost
<1>2. FreshInv => KernelFresh
  BY <1>1 DEF KernelFresh
<1>. QED
  BY <1>2, FreshAlways, PTL

\* And no open starts from an entry older than two TTLs and a delay.
THEOREM OpensStayFresh == Spec => OpensFresh
<1> DEFINE Starts(r) == open'[r].phase = "asked" /\ open[r].phase = "idle"
<1> DEFINE Recent(r) ==
        age[open'[r].entry.path][open'[r].entry.version] <= 2 * TTL + MaxDelay
<1>1. ASSUME FreshInv, [Next]_vars, NEW r \in Openers, Starts(r)
      PROVE  Recent(r)
  <2>1. open \in [Openers -> Asking]
    BY <1>1 DEF FreshInv, TypeOK
  <2>2. ASSUME NEW q \in Openers, NEW p \in Paths, NEW v \in Versions, NEW matched \in BOOLEAN,
               OpensView(q, p, v, matched), AtMost(p, v, 2 * TTL + MaxDelay)
        PROVE  Recent(r)
    <3>1. q = r
      BY <1>1, <2>1, <2>2 DEF OpensView, Ask
    <3>2. open'[r].entry = [path |-> p, version |-> v]
      BY <2>1, <2>2, <3>1 DEF OpensView, Ask
    <3>. QED
      BY <2>2, <3>2 DEF AtMost
  <2>3. CASE \E q \in Openers, p \in Paths : OpenCached(q, p)
    <3>1. PICK q \in Openers, p \in Paths : OpenCached(q, p)
      BY <2>3
    <3>2. node[p].cache \in Caches /\ Within(node[p].cache, p, 2 * TTL + MaxDelay)
      BY <1>1 DEF FreshInv, TypeOK, NodesFresh
    <3>3. node[p].cache.entry \in Versions /\ AtMost(p, node[p].cache.entry, 2 * TTL + MaxDelay)
      BY <1>1, <3>1, <3>2, HeldFresh, FuseAssumption DEF OpenCached
    <3>4. PICK caller \in Callers : OpensView(q, p, node[p].cache.entry, Matched(caller))
      BY <3>1 DEF OpenCached
    <3>. QED
      BY <2>2, <3>3, <3>4 DEF Matched, Callers
  <2>4. CASE \E q \in Openers : OpenAnswered(q)
    <3>1. PICK q \in Openers : OpenAnswered(q)
      BY <2>4
    <3>2. /\ req[q].path \in Paths /\ Got(q) \in Versions
          /\ AtMost(req[q].path, Got(q), MaxDelay) /\ req[q].stub \in BOOLEAN
      BY <1>1, <3>1, GotTyped, GotFresh DEF FreshInv, TypeOK, Requests, OpenAnswered, Answered, Got
    <3>3. AtMost(req[q].path, Got(q), 2 * TTL + MaxDelay)
      BY <1>1, <3>2, FuseAssumption DEF AtMost, FreshInv, TypeOK
    <3>. QED
      BY <2>2, <3>1, <3>2, <3>3 DEF OpenAnswered
  <2>5. CASE \E q \in Openers : OpenReplies(q)
    BY <1>1, <2>1, <2>5 DEF OpenReplies, Answer, GiveStub, GiveObject, GiveError, Given
  <2>6. CASE \E q \in Openers : Release(q)
    BY <1>1, <2>1, <2>6 DEF Release, Done, NotOpen
  <2>7. CASE UNCHANGED open
    BY <1>1, <2>7
  <2>8. \/ \E q \in Openers, p \in Paths : OpenCached(q, p)
        \/ \E q \in Openers : OpenAnswered(q) \/ OpenReplies(q) \/ Release(q)
        \/ UNCHANGED open
    BY <1>1 DEF Next, vars, Replace, Replaced, Tick, Forget, GetattrCached, LookupCached,
       AsksOrigin, OriginAnswers, OriginFails, NotFound, GetattrAnswered, LookupAnswered,
       ReaddirAnswered, Reads
  <2>. QED
    BY <2>3, <2>4, <2>5, <2>6, <2>7, <2>8
<1>2. FreshInv /\ [Next]_vars => [\A r \in Openers : Starts(r) => Recent(r)]_vars
  BY <1>1
<1>. QED
  BY <1>2, FreshAlways, PTL DEF Spec, OpensFresh

-----------------------------------------------------------------------------
(* Stubs and the page cache.                                                *)

\* A handle bypasses the page cache exactly when its view is a stub.
DirectAreStubs ==
    \A r \in Openers : open[r].phase = "view" => req[r].direct = (open[r].served # {})

LEMMA DirectStep == TypeOK /\ DirectAreStubs /\ [Next]_vars => DirectAreStubs'
<1> SUFFICES ASSUME TypeOK, DirectAreStubs, [Next]_vars, NEW r \in Openers, open'[r].phase = "view"
             PROVE  req'[r].direct = (open'[r].served # {})
  BY DEF DirectAreStubs
<1>1. open \in [Openers -> Asking] /\ req \in [Openers -> Requests]
  BY DEF TypeOK
<1>2. CASE \E q \in Openers : OpenReplies(q)
  <2>1. PICK q \in Openers : OpenReplies(q)
    BY <1>2
  <2>2. CASE q = r
    BY <1>1, <2>1, <2>2 DEF OpenReplies, Direct, Requests
  <2>3. CASE q # r
    BY <1>1, <2>1, <2>3 DEF OpenReplies, Answer, GiveStub, GiveObject, GiveError, DirectAreStubs
  <2>. QED
    BY <2>2, <2>3
<1>3. SUFFICES ASSUME ~\E q \in Openers : OpenReplies(q)
               PROVE  open'[r] = open[r] /\ req'[r].direct = req[r].direct
  BY <1>2 DEF DirectAreStubs
<1>4. CASE \E q \in Openers, p \in Paths, v \in Versions, matched \in BOOLEAN :
              OpensView(q, p, v, matched)
  <2>1. PICK q \in Openers, p \in Paths, v \in Versions, matched \in BOOLEAN :
            OpensView(q, p, v, matched)
    BY <1>4
  <2>2. q # r
    BY <1>1, <2>1 DEF OpensView, Ask
  <2>. QED
    BY <1>1, <2>1, <2>2 DEF OpensView, Ask
<1>5. CASE \E q \in Openers : Release(q)
  BY <1>1, <1>5 DEF Release, Done, NotOpen, Ends
<1>6. CASE UNCHANGED open
  <2>1. req[r].phase = "opened"
    BY <1>6 DEF TypeOK
  <2>2. CASE Tick
    BY <1>1, <1>6, <2>1, <2>2 DEF Tick
  <2>3. CASE \E q \in Openers, p \in Paths, k \in Kinds : AsksOrigin(q, k, p)
    BY <1>1, <1>6, <2>1, <2>3 DEF AsksOrigin
  <2>4. CASE \E q \in Openers : OriginAnswers(q)
    BY <1>1, <1>6, <2>1, <2>4 DEF OriginAnswers
  <2>5. CASE \E q \in Openers : req[q].phase # "opened" /\ Ends(q)
    BY <1>1, <1>6, <2>1, <2>5 DEF Ends
  <2>6. CASE UNCHANGED req
    BY <1>6, <2>6
  <2>7. CASE \E q \in Openers : OpenReplies(q) \/ Release(q) \/ OpenAnswered(q)
                                \/ \E p \in Paths : OpenCached(q, p)
    <3>1. PICK q \in Openers : Release(q) \/ OpenAnswered(q) \/ \E p \in Paths : OpenCached(q, p)
      BY <1>3, <2>7
    <3>2. open'[q].phase # open[q].phase
      <4>1. CASE Release(q)
        BY <1>1, <4>1 DEF Release, Done, NotOpen
      <4>2. CASE OpenAnswered(q)
        BY <1>1, <4>2 DEF OpenAnswered, OpensView, Ask
      <4>3. CASE \E p \in Paths : OpenCached(q, p)
        BY <1>1, <4>3 DEF OpenCached, OpensView, Ask
      <4>. QED
        BY <3>1, <4>1, <4>2, <4>3
    <3>. QED
      BY <1>6, <3>2
  <2>. QED
    BY <2>2, <2>3, <2>4, <2>5, <2>6, <2>7 DEF Next, vars, Replace, Forget, GetattrCached,
       LookupCached, OriginFails, NotFound, Answered, GetattrAnswered, LookupAnswered,
       ReaddirAnswered, Ends, Reads
<1>7. CASE \E q \in Openers, p \in Paths : OpenCached(q, p)
  <2>1. PICK q \in Openers, p \in Paths : OpenCached(q, p)
    BY <1>7
  <2>2. node[p].cache.entry \in Versions
    BY <2>1, FuseAssumption DEF OpenCached, TypeOK, Caches, Versions
  <2>. QED
    BY <1>4, <2>1, <2>2 DEF OpenCached, Matched, Callers
<1>8. CASE \E q \in Openers : OpenAnswered(q)
  <2>1. PICK q \in Openers : OpenAnswered(q)
    BY <1>8
  <2>2. req[q].path \in Paths /\ Got(q) \in Versions /\ req[q].stub \in BOOLEAN
    BY <1>1, <2>1, GotTyped DEF OpenAnswered, Answered, Requests
  <2>. QED
    BY <1>4, <2>1, <2>2 DEF OpenAnswered
<1>. QED
  BY <1>3, <1>5, <1>6, <1>7, <1>8 DEF Next, vars, Replace, Replaced, Tick, Forget,
     GetattrCached, LookupCached, AsksOrigin, OriginAnswers, OriginFails, NotFound,
     GetattrAnswered, LookupAnswered, ReaddirAnswered, Reads

LEMMA PagesStep ==
  TypeOK /\ DirectAreStubs /\ StubsStayOutOfPages /\ [Next]_vars => StubsStayOutOfPages'
<1> SUFFICES ASSUME TypeOK, DirectAreStubs, StubsStayOutOfPages, [Next]_vars
             PROVE  StubsStayOutOfPages'
  OBVIOUS
<1>1. pages \in [Paths -> SUBSET {"object", "stub"}]
  BY DEF TypeOK
<1>2. CASE \E r \in Openers : Reads(r)
  <2>1. PICK r \in Openers : Reads(r)
    BY <1>2
  <2>2. req[r].direct = (open[r].served # {})
    BY <2>1 DEF Reads, DirectAreStubs
  <2>. QED
    BY <1>1, <2>1, <2>2 DEF Reads, StubsStayOutOfPages
<1>3. CASE \E p \in Paths : Forget(p)
  BY <1>1, <1>3 DEF Forget, StubsStayOutOfPages
<1>4. CASE pages' = pages
  BY <1>4 DEF StubsStayOutOfPages
<1>. QED
  BY <1>2, <1>3, <1>4 DEF Next, vars, Replace, Replaced, Tick, GetattrCached, LookupCached,
     AsksOrigin, OriginAnswers, OriginFails, NotFound, GetattrAnswered, LookupAnswered,
     ReaddirAnswered, OpenCached, OpenAnswered, OpenReplies, Release

\* No byte of a stub gets into the page cache that passthrough readers share.
THEOREM PagesWithoutStubs == Spec => []StubsStayOutOfPages
<1>1. Init => DirectAreStubs /\ StubsStayOutOfPages
  BY DEF Init, ViewInit, NotOpen, DirectAreStubs, StubsStayOutOfPages
<1>2. TypeOK /\ DirectAreStubs /\ StubsStayOutOfPages /\ [Next]_vars
         => (DirectAreStubs /\ StubsStayOutOfPages)'
  BY DirectStep, PagesStep
<1>. QED
  BY <1>1, <1>2, NodesTyped, PTL DEF Spec
-----------------------------------------------------------------------------
(* The nodes ask for what ViewService lets anybody ask for, an entry that   *)
(* the object has or had: PlanCache is proved to implement that.           *)

\* Seen from the views alone, the nodes do what ViewService does.
THEOREM NodesAskForViews == Spec => ViewSpec
<1>1. Init => ViewInit
  BY DEF Init
<1>2. FreshInv /\ [Next]_vars => [ViewNext]_<<object, open>>
  <2> SUFFICES ASSUME FreshInv, [Next]_vars PROVE ViewNext \/ UNCHANGED <<object, open>>
    OBVIOUS
  <2>1. ASSUME NEW q \in Openers, NEW p \in Paths, NEW v \in Versions, NEW matched \in BOOLEAN,
               OpensView(q, p, v, matched), AtMost(p, v, 2 * TTL + MaxDelay), UNCHANGED object
        PROVE  ViewNext
    <3> DEFINE e == [path |-> p, version |-> v]
               stub == StubCandidate(p, v) /\ matched
    <3>1. e \in Fingerprints /\ e.version <= object[e.path]
      BY <2>1 DEF AtMost, Fingerprints, Versions
    <3>2. stub \in BOOLEAN
      BY DEF StubCandidate
    <3>3. Ask(q, e, stub)
      BY <2>1 DEF OpensView
    <3> HIDE DEF e, stub
    <3>. QED
      BY <2>1, <3>1, <3>2, <3>3 DEF ViewNext
  <2>2. CASE \E q \in Openers, p \in Paths : OpenCached(q, p)
    <3>1. PICK q \in Openers, p \in Paths : OpenCached(q, p)
      BY <2>2
    <3>2. node[p].cache \in Caches /\ Within(node[p].cache, p, 2 * TTL + MaxDelay)
      BY DEF FreshInv, TypeOK, NodesFresh
    <3>3. node[p].cache.entry \in Versions /\ AtMost(p, node[p].cache.entry, 2 * TTL + MaxDelay)
      BY <3>1, <3>2, HeldFresh, FuseAssumption DEF OpenCached
    <3>4. PICK caller \in Callers : OpensView(q, p, node[p].cache.entry, Matched(caller))
      BY <3>1 DEF OpenCached
    <3>. QED
      BY <2>1, <3>1, <3>3, <3>4 DEF OpenCached, Matched, Callers
  <2>3. CASE \E q \in Openers : OpenAnswered(q)
    <3>1. PICK q \in Openers : OpenAnswered(q)
      BY <2>3
    <3>2. /\ req[q].path \in Paths /\ Got(q) \in Versions
          /\ AtMost(req[q].path, Got(q), MaxDelay) /\ req[q].stub \in BOOLEAN
      BY <3>1, GotTyped, GotFresh DEF FreshInv, TypeOK, Requests, OpenAnswered, Answered, Got
    <3>3. AtMost(req[q].path, Got(q), 2 * TTL + MaxDelay)
      BY <3>2, FuseAssumption DEF AtMost, FreshInv, TypeOK
    <3>. QED
      BY <2>1, <3>1, <3>2, <3>3 DEF OpenAnswered
  <2>4. CASE \E q \in Openers : OpenReplies(q)
    BY <2>4 DEF OpenReplies, ViewNext
  <2>5. CASE \E q \in Openers : Release(q)
    BY <2>5 DEF Release, ViewNext
  <2>6. CASE Replace
    BY <2>6 DEF Replace, ViewNext
  <2>. QED
    BY <2>2, <2>3, <2>4, <2>5, <2>6 DEF Next, vars, Tick, Forget, GetattrCached, LookupCached,
       AsksOrigin, OriginAnswers, OriginFails, NotFound, GetattrAnswered, LookupAnswered,
       ReaddirAnswered, Reads
<1>. QED
  BY <1>1, <1>2, FreshAlways, PTL DEF Spec, ViewSpec
=============================================================================
