--------------------------- MODULE PlanCacheProofs ---------------------------
(***************************************************************************)
(* Proofs about PlanCache, for any finite set of openers, any paths and    *)
(* any limit: types, one probe per version, the bound on the cache, and    *)
(* that the cache implements ViewService.  They hold together: the probes  *)
(* under way are in the cache because eviction spares them, and so a       *)
(* second opener of the version finds them; a call serves one version      *)
(* while anybody refers to it, and so a follower gets what it could have   *)
(* got by leading.                                                         *)
(***************************************************************************)
EXTENDS PlanCache, FiniteSetTheorems, TLAPS

LEMMA TypeInit == Init => TypeOK
<1> SUFFICES ASSUME Init PROVE TypeOK
  OBVIOUS
<1>1. object \in [Paths -> 1..MaxVersions]
  BY PlanCacheAssumption DEF Init
<1>2. cache \in [Fingerprints -> Calls \cup {None}]
  BY DEF Init
<1>3. call \in [Calls -> CallStates]
  BY DEF Init, NewCall, CallStates
<1>4. op \in [Openers -> Opens]
  BY DEF Init, NoOpen, Opens, Phases
<1>5. \A o \in Openers : op[o] = NoOpen
  BY DEF Init
<1>6. NoOpen.entry = None /\ NoOpen.phase = "idle" /\ NoOpen.call = None
  BY DEF NoOpen
<1>. QED
  BY <1>1, <1>2, <1>3, <1>4, <1>5, <1>6, PlanCacheAssumption DEF TypeOK, Leading

\* What an open record must satisfy besides its type.
Coherent(x) ==
    /\ x \in Opens
    /\ x.entry = None <=> x.phase = "idle"
    /\ x.call = None <=> x.phase \notin {"wait"} \cup Leading

\* A step that changes one opener's locals to coherent ones keeps the part of
\* TypeOK about openers.
LEMMA OpChange ==
  ASSUME TypeOK, NEW o \in Openers, NEW x, Coherent(x), op' = [op EXCEPT ![o] = x]
  PROVE  /\ op' \in [Openers -> Opens]
         /\ \A q \in Openers :
               /\ op'[q].entry = None <=> op'[q].phase = "idle"
               /\ op'[q].call = None <=> op'[q].phase \notin {"wait"} \cup Leading
  BY DEF TypeOK, Coherent

LEMMA CoherentNow ==
  ASSUME TypeOK, NEW o \in Openers
  PROVE  /\ Coherent(op[o])
         /\ op[o].phase # "idle" => op[o].entry \in Fingerprints
         /\ op[o].phase \in {"wait"} \cup Leading => op[o].call \in Calls
  BY DEF TypeOK, Coherent, Opens

LEMMA CurrentTyped ==
  ASSUME TypeOK, NEW o \in Openers, op[o].phase # "idle"
  PROVE  Current(o) \in Fingerprints
  BY CoherentNow DEF TypeOK, Current, Fingerprints

LEMMA SettledCoherent ==
  ASSUME TypeOK, NEW o \in Openers, op[o].phase # "idle", NEW c \in CallStates
  PROVE  Coherent(Settled(o, c))
<1>1. c.plan \in SUBSET Fingerprints
  BY DEF CallStates
<1>2. op[o] \in Opens /\ op[o].entry # None
  BY DEF TypeOK
<1>3. Settled(o, c).phase \in {"error", "view", "passthrough"}
  BY <1>2 DEF Settled, Opens
<1>. QED
  BY <1>1, <1>2, <1>3, PlanCacheAssumption DEF Coherent, Settled, Opens, Phases, Leading

LEMMA OpenTyped ==
  ASSUME TypeOK, NEW o \in Openers, NEW p \in Paths, Open(o, p)
  PROVE  TypeOK'
<1>1. PICK v \in 1..object[p], stubAllowed \in BOOLEAN :
        op' = [op EXCEPT ![o] =
                 [NoOpen EXCEPT !.phase = IF stubAllowed THEN "lookup" ELSE "passthrough",
                                !.entry = [path |-> p, version |-> v],
                                !.stub = stubAllowed]]
  BY DEF Open
<1>. DEFINE x == [NoOpen EXCEPT !.phase = IF stubAllowed THEN "lookup" ELSE "passthrough",
                                !.entry = [path |-> p, version |-> v],
                                !.stub = stubAllowed]
<1>2. object[p] \in 1..MaxVersions
  BY DEF TypeOK
<1>3. [path |-> p, version |-> v] \in Fingerprints
  BY <1>2, PlanCacheAssumption DEF Fingerprints
<1>4. Coherent(x)
  BY <1>3, PlanCacheAssumption DEF Coherent, NoOpen, Opens, Phases, Leading
<1>. HIDE DEF x
<1>5. op' = [op EXCEPT ![o] = x]
  BY <1>1 DEF x
<1>6. UNCHANGED <<object, cache, call>>
  BY DEF Open
<1>. QED
  BY <1>4, <1>5, <1>6, OpChange DEF TypeOK

LEMMA ResolveTyped ==
  ASSUME TypeOK, NEW o \in Openers, op[o].phase \in Leading,
         NEW plan \in SUBSET Fingerprints, NEW err \in {"none", "aborted", "failed"},
         Resolve(o, plan, err)
  PROVE  TypeOK'
<1>. DEFINE x == [op[o] EXCEPT !.phase = "finish", !.keep = (err # "aborted"), !.seen = {}]
<1>1. op' = [op EXCEPT ![o] = x]
  BY CoherentNow DEF Resolve, TypeOK
<1>2. Coherent(x)
  BY CoherentNow DEF Coherent, Opens, Phases, Leading
<1>3. op[o].call \in Calls
  BY CoherentNow
<1>4. call' \in [Calls -> CallStates]
  BY <1>3, SMTT(30) DEF Resolve, TypeOK, CallStates
<1>5. UNCHANGED <<object, cache>>
  BY DEF Resolve
<1>. HIDE DEF x
<1>. QED
  BY <1>1, <1>2, <1>4, <1>5, OpChange DEF TypeOK

LEMMA FinishTyped ==
  ASSUME TypeOK, NEW o \in Openers, Finish(o)
  PROVE  TypeOK'
<1>1. op[o].phase = "finish" /\ op[o].call \in Calls
  BY CoherentNow DEF Finish, Leading
<1>2. cache' \in [Fingerprints -> Calls \cup {None}]
  BY DEF Finish, TypeOK
<1>3. call' \in [Calls -> CallStates]
  BY <1>1 DEF Finish, Announced, TypeOK, CallStates
<1>4. call[op[o].call] \in CallStates
  BY <1>1 DEF TypeOK
<1>5. op' = [op EXCEPT ![o] = Settled(o, call[op[o].call])] /\ UNCHANGED object
  BY DEF Finish
<1>6. Coherent(Settled(o, call[op[o].call]))
  BY <1>1, <1>4, SettledCoherent
<1>. QED
  BY <1>2, <1>3, <1>5, <1>6, OpChange DEF TypeOK

\* A step of an opener that changes nothing but its own locals.
LEMMA LocalTyped ==
  ASSUME TypeOK, NEW o \in Openers,
         Follow(o) \/ Awake(o) \/ GiveUp(o) \/ Close(o) \/ LeaderOpens(o)
         \/ ProbeReads(o) \/ PassThrough(o)
  PROVE  TypeOK'
<1>1. UNCHANGED <<object, cache, call>>
  BY DEF Follow, Awake, GiveUp, Close, LeaderOpens, ProbeReads, PassThrough
<1>2. Coherent(op[o])
  BY CoherentNow
<1>3. SUFFICES ASSUME NEW x, Coherent(x), op' = [op EXCEPT ![o] = x]
               PROVE  TypeOK'
  <2>1. CASE Follow(o)
    <3>1. op[o].entry \in Fingerprints
      BY <2>1, CoherentNow DEF Follow
    <3>2. cache[op[o].entry] \in Calls
      BY <2>1, <3>1 DEF Follow, TypeOK
    <3>. DEFINE x == [op[o] EXCEPT !.phase = "wait", !.call = cache[op[o].entry]]
    <3>3. Coherent(x)
      BY <1>2, <2>1, <3>2, PlanCacheAssumption DEF Coherent, Follow, Opens, Phases
    <3>4. op' = [op EXCEPT ![o] = x]
      BY <2>1 DEF Follow, TypeOK
    <3>. QED
      BY <1>3, <3>3, <3>4
  <2>2. CASE Awake(o)
    <3>1. op[o].call \in Calls
      BY <2>2, CoherentNow DEF Awake
    <3>2. Coherent(Settled(o, call[op[o].call]))
      BY <2>2, <3>1, SettledCoherent DEF Awake, TypeOK
    <3>. QED
      BY <1>3, <2>2, <3>2 DEF Awake
  <2>3. CASE GiveUp(o)
    <3>. DEFINE x == [op[o] EXCEPT !.phase = "error", !.call = None]
    <3>1. Coherent(x)
      BY <1>2, <2>3 DEF Coherent, GiveUp, Opens, Phases, Leading
    <3>2. op' = [op EXCEPT ![o] = x]
      BY <2>3 DEF GiveUp, TypeOK
    <3>. QED
      BY <1>3, <3>1, <3>2
  <2>4. CASE Close(o)
    <3>1. Coherent(NoOpen)
      BY DEF Coherent, NoOpen, Opens, Phases, Leading
    <3>. QED
      BY <1>3, <2>4, <3>1 DEF Close
  <2>5. CASE LeaderOpens(o)
    <3>. DEFINE x == [op[o] EXCEPT !.phase = "probe"]
    <3>1. Coherent(x)
      BY <1>2, <2>5 DEF Coherent, LeaderOpens, Opens, Phases, Leading
    <3>2. op' = [op EXCEPT ![o] = x]
      BY <2>5 DEF LeaderOpens, TypeOK
    <3>. QED
      BY <1>3, <3>1, <3>2
  <2>6. CASE ProbeReads(o)
    <3>. DEFINE x == [op[o] EXCEPT !.seen = @ \cup {Current(o)}]
    <3>1. Current(o) \in Fingerprints
      BY <2>6, CurrentTyped DEF ProbeReads
    <3>2. Coherent(x)
      BY <1>2, <2>6, <3>1 DEF Coherent, Opens
    <3>3. op' = [op EXCEPT ![o] = x]
      BY <2>6 DEF ProbeReads, TypeOK
    <3>. QED
      BY <1>3, <3>2, <3>3
  <2>7. CASE PassThrough(o)
    <3>1. PICK ok \in BOOLEAN :
            op' = [op EXCEPT ![o].phase = IF ok THEN "view" ELSE "error"]
      BY <2>7 DEF PassThrough
    <3>. DEFINE x == [op[o] EXCEPT !.phase = IF ok THEN "view" ELSE "error"]
    <3>2. Coherent(x)
      BY <1>2, <2>7 DEF Coherent, PassThrough, Opens, Phases, Leading
    <3>3. op' = [op EXCEPT ![o] = x]
      BY <3>1 DEF TypeOK
    <3>. QED
      BY <1>3, <3>2, <3>3
  <2>. QED
    BY <2>1, <2>2, <2>3, <2>4, <2>5, <2>6, <2>7
<1>. QED
  BY <1>1, <1>3, OpChange DEF TypeOK

\* The call a leader takes is one that nothing refers to.
LEMMA LeadFresh ==
  ASSUME TypeOK, NEW o \in Openers, Lead(o)
  PROVE  \E c \in Free :
           /\ cache' = [cache EXCEPT ![op[o].entry] = c]
           /\ call' = [call EXCEPT ![c] = NewCall]
           /\ op' = [op EXCEPT ![o] = [op[o] EXCEPT !.phase = "open", !.call = c]]
           /\ Coherent([op[o] EXCEPT !.phase = "open", !.call = c])
<1>1. PICK c \in Free :
         /\ cache' = [cache EXCEPT ![op[o].entry] = c]
         /\ call' = [call EXCEPT ![c] = NewCall]
         /\ op' = [op EXCEPT ![o].phase = "open", ![o].call = c]
  BY DEF Lead
<1>2. c \in Calls
  BY DEF Free
<1>3. op' = [op EXCEPT ![o] = [op[o] EXCEPT !.phase = "open", !.call = c]]
  BY <1>1 DEF TypeOK
<1>4. op[o].phase = "lookup" /\ op[o].entry # None /\ op[o] \in Opens
  BY CoherentNow DEF Lead, Coherent
<1>5. Coherent([op[o] EXCEPT !.phase = "open", !.call = c])
  BY <1>2, <1>4, PlanCacheAssumption DEF Coherent, Opens, Phases, Leading
<1>. QED
  BY <1>1, <1>3, <1>5

LEMMA LeadTyped ==
  ASSUME TypeOK, NEW o \in Openers, Lead(o)
  PROVE  TypeOK'
<1>1. PICK c \in Free :
           /\ cache' = [cache EXCEPT ![op[o].entry] = c]
           /\ call' = [call EXCEPT ![c] = NewCall]
           /\ op' = [op EXCEPT ![o] = [op[o] EXCEPT !.phase = "open", !.call = c]]
           /\ Coherent([op[o] EXCEPT !.phase = "open", !.call = c])
  BY LeadFresh
<1>2. c \in Calls /\ NewCall \in CallStates
  BY DEF Free, NewCall, CallStates
<1>3. UNCHANGED object
  BY DEF Lead
<1>4. cache' \in [Fingerprints -> Calls \cup {None}] /\ call' \in [Calls -> CallStates]
  BY <1>1, <1>2 DEF TypeOK
<1>. QED
  BY <1>1, <1>3, <1>4, OpChange DEF TypeOK

LEMMA TypeStep == TypeOK /\ [Next]_vars => TypeOK'
<1> SUFFICES ASSUME TypeOK, [Next]_vars PROVE TypeOK'
  OBVIOUS
<1>1. ASSUME NEW p \in Paths, Replace(p) PROVE TypeOK'
  BY <1>1, PlanCacheAssumption DEF Replace, TypeOK
<1>2. ASSUME NEW o \in Openers,
             LeaderOpenFails(o) \/ ProbeSucceeds(o) \/ ProbeFails(o) \/ ProbeInterrupted(o)
      PROVE  TypeOK'
  <2>1. op[o].phase \in Leading
    BY <1>2 DEF LeaderOpenFails, ProbeSucceeds, ProbeFails, ProbeInterrupted, Leading
  <2>2. op[o].seen \in SUBSET Fingerprints
    BY DEF TypeOK, Opens
  <2>3. PICK plan \in SUBSET Fingerprints, err \in {"none", "aborted", "failed"} :
          Resolve(o, plan, err)
    BY <1>2, <2>2 DEF LeaderOpenFails, ProbeSucceeds, ProbeFails, ProbeInterrupted, Unprobed
  <2>. QED
    BY <2>1, <2>3, ResolveTyped
<1>3. CASE UNCHANGED vars
  BY <1>3 DEF vars, TypeOK
<1>. QED
  BY <1>1, <1>2, <1>3, OpenTyped, LocalTyped, LeadTyped, FinishTyped DEF Next, Progress

\* Every variable keeps its type, and an open has a call exactly while it leads or waits.
THEOREM CacheTypeCorrect == Spec => []TypeOK
<1>1. Init => TypeOK
  BY TypeInit
<1>2. TypeOK /\ [Next]_vars => TypeOK'
  BY TypeStep
<1>. QED
  BY <1>1, <1>2, PTL DEF Spec

-----------------------------------------------------------------------------
(***************************************************************************)
(* The inductive invariant.  A leader's call is the one cached for its     *)
(* entry, and unready (Flights); calls are not shared between entries      *)
(* (Distinct); an unready call is somebody's (Led).                        *)
(***************************************************************************)
Flights == \A o \in Leaders : /\ cache[op[o].entry] = op[o].call
                              /\ ~call[op[o].call].ready
Distinct == \A k1, k2 \in Cached : cache[k1] = cache[k2] => k1 = k2
Led == \A k \in Cached : ~call[cache[k]].ready => \E o \in Leaders : op[o].entry = k
Limited == IsFiniteSet(Cached) /\ Cardinality(Ready) <= CacheEntries

CacheInv == TypeOK /\ OneProbePerVersion /\ Flights /\ Distinct /\ Led /\ Limited

LEMMA CacheInit == Init => CacheInv
<1> SUFFICES ASSUME Init PROVE CacheInv
  OBVIOUS
<1>1. TypeOK
  BY TypeInit
<1>2. Leaders = {} /\ Cached = {}
  BY DEF Init, Leaders, Cached, NoOpen, Leading
<1>3. Ready = {}
  BY <1>2 DEF Ready
<1>4. Limited
  BY <1>2, <1>3, FS_EmptySet, PlanCacheAssumption DEF Limited
<1>. QED
  BY <1>1, <1>2, <1>3, <1>4
  DEF CacheInv, OneProbePerVersion, Flights, Distinct, Led

LEMMA LeaderFacts ==
  ASSUME CacheInv, NEW o \in Leaders
  PROVE  /\ o \in Openers /\ op[o].phase \in Leading
         /\ op[o].entry \in Cached
         /\ op[o].call \in Calls
         /\ cache[op[o].entry] = op[o].call
         /\ ~call[op[o].call].ready
<1>1. o \in Openers /\ op[o].phase \in Leading /\ TypeOK
  BY DEF Leaders, CacheInv
<1>2. op[o].entry \in Fingerprints /\ op[o].call \in Calls
  BY <1>1, CoherentNow DEF Leading
<1>. QED
  BY <1>1, <1>2, PlanCacheAssumption DEF CacheInv, Flights, Cached

\* A step that leaves the map and the calls alone, and who leads what.
LEMMA QuietKeeps ==
  ASSUME CacheInv, TypeOK', UNCHANGED <<cache, call>>, NEW o \in Openers, NEW x,
         op' = [op EXCEPT ![o] = x],
         x.phase \in Leading <=> op[o].phase \in Leading,
         x.phase \in Leading => x.entry = op[o].entry /\ x.call = op[o].call
  PROVE  CacheInv'
<1>1. /\ op'[o] = x
      /\ \A q \in Openers : q # o => op'[q] = op[q]
  BY DEF CacheInv, TypeOK
<1>2. Leaders' = Leaders
  BY <1>1 DEF Leaders
<1>3. \A q \in Leaders : op'[q].entry = op[q].entry /\ op'[q].call = op[q].call
  BY <1>1 DEF Leaders
<1>4. Cached' = Cached /\ Ready' = Ready
  BY DEF Cached, Ready
<1>5. OneProbePerVersion' /\ Flights' /\ Led'
  BY <1>2, <1>3, <1>4 DEF CacheInv, OneProbePerVersion, Flights, Led
<1>6. Distinct' /\ Limited'
  BY <1>4 DEF CacheInv, Distinct, Limited
<1>. QED
  BY <1>5, <1>6 DEF CacheInv

\* The leader settles its call, which no reader has yet.
LEMMA ResolveKeeps ==
  ASSUME CacheInv, TypeOK', NEW o \in Openers, op[o].phase \in Leading,
         NEW plan, NEW err, Resolve(o, plan, err)
  PROVE  CacheInv'
<1>. DEFINE c == op[o].call
<1>1. o \in Leaders
  BY DEF Leaders
<1>2. c \in Calls /\ ~call[c].ready
  BY <1>1, LeaderFacts
<1>3. /\ call' = [call EXCEPT ![c].plan = plan, ![c].err = err]
      /\ op' = [op EXCEPT ![o].phase = "finish", ![o].keep = (err # "aborted"), ![o].seen = {}]
      /\ UNCHANGED <<object, cache>>
  BY DEF Resolve
<1>4. /\ op'[o].phase = "finish" /\ op'[o].entry = op[o].entry /\ op'[o].call = c
      /\ \A q \in Openers : q # o => op'[q] = op[q]
  BY <1>3 DEF CacheInv, TypeOK, Opens
<1>5. \A d \in Calls : call'[d].ready = call[d].ready
  BY <1>2, <1>3 DEF CacheInv, TypeOK, CallStates
<1>6. Leaders' = Leaders
  BY <1>4 DEF Leaders, Leading
<1>7. Cached' = Cached /\ \A k \in Cached : cache[k] \in Calls
  BY <1>3 DEF Cached, CacheInv, TypeOK
<1>8. Ready' = Ready
  BY <1>3, <1>5, <1>7 DEF Ready
<1>10. \A q \in Leaders : op'[q].entry = op[q].entry /\ op'[q].call = op[q].call
  BY <1>4 DEF Leaders
<1>11. OneProbePerVersion'
  BY <1>6, <1>10 DEF CacheInv, OneProbePerVersion
<1>12. Flights'
  <2>. SUFFICES ASSUME NEW q \in Leaders
                PROVE  cache'[op'[q].entry] = op'[q].call /\ ~call'[op'[q].call].ready
    BY <1>6 DEF Flights
  <2>1. /\ cache[op[q].entry] = op[q].call
        /\ op[q].call \in Calls /\ ~call[op[q].call].ready
    BY LeaderFacts
  <2>. QED
    BY <2>1, <1>3, <1>5, <1>10
<1>13. Led'
  <2>. SUFFICES ASSUME NEW k \in Cached, ~call'[cache'[k]].ready
                PROVE  \E q \in Leaders : op'[q].entry = k
    BY <1>6, <1>7 DEF Led
  <2>1. ~call[cache[k]].ready
    BY <1>3, <1>5, <1>7
  <2>. QED
    BY <2>1, <1>10 DEF CacheInv, Led
<1>14. Distinct' /\ Limited'
  BY <1>3, <1>7, <1>8 DEF CacheInv, Distinct, Limited
<1>. QED
  BY <1>11, <1>12, <1>13, <1>14 DEF CacheInv

\* A leader's call is new, and so was nobody's.
LEMMA LeadKeeps ==
  ASSUME CacheInv, TypeOK', NEW o \in Openers, Lead(o)
  PROVE  CacheInv'
<1>. DEFINE e == op[o].entry
<1>0. TypeOK
  BY DEF CacheInv
<1>1. PICK c \in Free :
           /\ cache' = [cache EXCEPT ![e] = c]
           /\ call' = [call EXCEPT ![c] = NewCall]
           /\ op' = [op EXCEPT ![o] = [op[o] EXCEPT !.phase = "open", !.call = c]]
           /\ Coherent([op[o] EXCEPT !.phase = "open", !.call = c])
  BY <1>0, LeadFresh
<1>2. /\ c \in Calls
      /\ \A k \in Cached : cache[k] # c
      /\ \A q \in Openers : op[q].call # c
  BY DEF Free, Referenced
<1>3. e \in Fingerprints /\ cache[e] = None /\ o \notin Leaders
  BY <1>0, CoherentNow DEF Lead, Leaders, Leading
<1>4. /\ op'[o].phase = "open" /\ op'[o].entry = e /\ op'[o].call = c
      /\ \A q \in Openers : q # o => op'[q] = op[q]
  BY <1>0, <1>1 DEF TypeOK, Opens
<1>5. Leaders' = Leaders \cup {o}
  BY <1>4 DEF Leaders, Leading
<1>6. /\ cache'[e] = c
      /\ \A k \in Fingerprints : k # e => cache'[k] = cache[k]
  BY <1>0, <1>1, <1>3 DEF TypeOK
<1>7. /\ call'[c] = NewCall
      /\ \A d \in Calls : d # c => call'[d] = call[d]
  BY <1>0, <1>1, <1>2 DEF TypeOK
<1>8. Cached' = Cached \cup {e} /\ e \notin Cached
  BY <1>2, <1>3, <1>6, PlanCacheAssumption DEF Cached
<1>9. \A k \in Cached : cache[k] \in Calls /\ cache'[k] = cache[k] /\ call'[cache[k]] = call[cache[k]]
  BY <1>0, <1>2, <1>6, <1>7, <1>8 DEF Cached, TypeOK
<1>10. Ready' = Ready
  BY <1>6, <1>7, <1>8, <1>9 DEF Ready, NewCall
<1>11. \A q \in Leaders : /\ op'[q] = op[q] /\ op[q].entry \in Cached
                          /\ cache[op[q].entry] = op[q].call
                          /\ call'[op[q].call] = call[op[q].call]
                          /\ ~call[op[q].call].ready
  BY <1>3, <1>4, <1>9, LeaderFacts DEF Leaders
<1>12. OneProbePerVersion'
  BY <1>4, <1>5, <1>8, <1>11 DEF CacheInv, OneProbePerVersion
<1>13. Flights'
  BY <1>4, <1>5, <1>6, <1>7, <1>9, <1>11 DEF Flights, NewCall
<1>14. Distinct'
  BY <1>2, <1>6, <1>8, <1>9 DEF CacheInv, Distinct
<1>15. Led'
  <2>. SUFFICES ASSUME NEW k \in Cached', ~call'[cache'[k]].ready
                PROVE  \E q \in Leaders' : op'[q].entry = k
    BY DEF Led
  <2>1. CASE k = e
    BY <2>1, <1>4, <1>5
  <2>2. CASE k # e
    BY <2>2, <1>5, <1>8, <1>9, <1>11 DEF CacheInv, Led
  <2>. QED
    BY <2>1, <2>2
<1>16. Limited'
  BY <1>8, <1>10, FS_AddElement DEF CacheInv, Limited
<1>. QED
  BY <1>12, <1>13, <1>14, <1>15, <1>16 DEF CacheInv

\* What finishCall leaves in the map: all of it that it does not evict, and its
\* own entry unless the call is not to be remembered.
LEMMA FinishKeeps ==
  ASSUME CacheInv, TypeOK', NEW o \in Openers, Finish(o)
  PROVE  CacheInv'
<1>. DEFINE key == op[o].entry
            c == op[o].call
            kept == IF op[o].keep THEN Cached ELSE Cached \ {key}
<1>0. TypeOK
  BY DEF CacheInv
<1>1. PICK gone \in SUBSET Evictable(kept, key) :
        /\ gone = Evictable(kept, key) \/ Cardinality(kept \ gone) <= CacheEntries
        /\ cache' = [k \in Fingerprints |-> IF k \in kept \ gone THEN cache[k] ELSE None]
  BY DEF Finish
<1>2. /\ op[o].phase = "finish"
      /\ call' = [call EXCEPT ![c].ready = TRUE]
      /\ op' = [op EXCEPT ![o] = Settled(o, call[c])]
  BY DEF Finish, Announced
<1>3. o \in Leaders /\ op[o].phase \in Leading
  BY <1>2 DEF Leaders, Leading
<1>4. c \in Calls /\ key \in Cached /\ cache[key] = c /\ ~call[c].ready
  BY <1>3, LeaderFacts
<1>5. Settled(o, call[c]).phase \in {"error", "view", "passthrough"}
  <2>1. op[o] \in Opens
    BY <1>0 DEF TypeOK
  <2>. QED
    BY <2>1 DEF Settled, Opens
<1>6. /\ op'[o].phase \notin Leading
      /\ \A q \in Openers : q # o => op'[q] = op[q]
  BY <1>0, <1>2, <1>5 DEF TypeOK, Leading
<1>7. Leaders' = Leaders \ {o}
  BY <1>6 DEF Leaders
<1>8. /\ call'[c].ready
      /\ \A d \in Calls : d # c => call'[d] = call[d]
  BY <1>0, <1>2, <1>4 DEF TypeOK, CallStates
<1>9. kept \subseteq Cached /\ Cached \subseteq kept \cup {key}
  OBVIOUS
<1>10. /\ gone \subseteq kept /\ key \notin gone
       /\ \A k \in gone : call[cache[k]].ready
  BY <1>1 DEF Evictable
<1>11. \A k \in Cached : cache[k] \in Calls /\ k \in Fingerprints
  BY <1>0 DEF Cached, TypeOK
<1>. HIDE DEF kept
<1>12. Cached' = kept \ gone
  BY <1>1, <1>9, <1>11, PlanCacheAssumption DEF Cached
<1>13. \A k \in kept \ gone : k \in Cached /\ cache'[k] = cache[k]
  BY <1>1, <1>9, <1>11
<1>14. \A k \in Cached : k # key => cache[k] # c /\ call'[cache[k]] = call[cache[k]]
  BY <1>4, <1>8, <1>11 DEF CacheInv, Distinct
<1>15. \A q \in Leaders \ {o} :
          /\ op'[q] = op[q] /\ op[q].entry \in kept \ gone /\ op[q].entry # key
          /\ cache[op[q].entry] = op[q].call /\ op[q].call \in Calls
          /\ call'[op[q].call] = call[op[q].call] /\ ~call[op[q].call].ready
  <2>. SUFFICES ASSUME NEW q \in Leaders, q # o
                PROVE  /\ op'[q] = op[q] /\ op[q].entry \in kept \ gone /\ op[q].entry # key
                       /\ cache[op[q].entry] = op[q].call /\ op[q].call \in Calls
                       /\ call'[op[q].call] = call[op[q].call] /\ ~call[op[q].call].ready
    OBVIOUS
  <2>1. /\ op[q].entry \in Cached /\ cache[op[q].entry] = op[q].call
        /\ op[q].call \in Calls /\ ~call[op[q].call].ready /\ q \in Openers
    BY LeaderFacts
  <2>2. op[q].entry # key
    BY <1>3 DEF CacheInv, OneProbePerVersion
  <2>. QED
    BY <2>1, <2>2, <1>6, <1>9, <1>10, <1>14
<1>16. OneProbePerVersion'
  BY <1>7, <1>15 DEF CacheInv, OneProbePerVersion
<1>17. Flights'
  BY <1>7, <1>13, <1>15 DEF Flights
<1>18. Distinct'
  BY <1>12, <1>13 DEF CacheInv, Distinct
<1>19. Led'
  <2>. SUFFICES ASSUME NEW k \in kept \ gone, ~call'[cache'[k]].ready
                PROVE  \E q \in Leaders' : op'[q].entry = k
    BY <1>12 DEF Led
  <2>1. k \in Cached /\ cache'[k] = cache[k]
    BY <1>13
  <2>2. k # key
    BY <2>1, <1>4, <1>8
  <2>3. PICK q \in Leaders : op[q].entry = k
    BY <2>1, <2>2, <1>14 DEF CacheInv, Led
  <2>. QED
    BY <2>2, <2>3, <1>7, <1>15
<1>21. \A k \in Ready' : k \in kept \ gone /\ (k # key => k \in Ready)
  BY <1>12, <1>13, <1>14 DEF Ready
<1>23. IsFiniteSet(Cached') /\ IsFiniteSet(kept \ gone)
  BY <1>9, <1>12, FS_Subset DEF CacheInv, Limited
<1>24. Cardinality(Ready') <= CacheEntries
  <2>1. CASE gone = Evictable(kept, key)
    <3>1. Ready' \subseteq {key}
      BY <2>1, <1>21 DEF Evictable, Ready
    <3>2. IsFiniteSet({key}) /\ Cardinality({key}) = 1
      BY FS_Singleton
    <3>3. IsFiniteSet(Ready') /\ Cardinality(Ready') <= 1
      BY <3>1, <3>2, FS_Subset
    <3>4. Cardinality(Ready') \in Nat
      BY <3>3, FS_CardinalityType
    <3>. QED
      BY <3>3, <3>4, PlanCacheAssumption
  <2>2. CASE Cardinality(kept \ gone) <= CacheEntries
    <3>1. Ready' \in SUBSET (kept \ gone)
      BY <1>21
    <3>. HIDE DEF kept
    <3>2. Cardinality(Ready') <= Cardinality(kept \ gone) /\ IsFiniteSet(Ready')
      BY <3>1, <1>23, FS_Subset
    <3>. QED
      BY <3>2, <2>2, <1>23, FS_CardinalityType, PlanCacheAssumption
  <2>. QED
    BY <1>1, <2>1, <2>2
<1>. QED
  BY <1>16, <1>17, <1>18, <1>19, <1>23, <1>24 DEF CacheInv, Limited

LEMMA CacheStep == CacheInv /\ [Next]_vars => CacheInv'
<1> SUFFICES ASSUME CacheInv, [Next]_vars PROVE CacheInv'
  OBVIOUS
<1>0. TypeOK /\ TypeOK'
  BY TypeStep DEF CacheInv
<1>1. ASSUME UNCHANGED <<cache, call, op>> PROVE CacheInv'
  <2>1. Leaders' = Leaders /\ Cached' = Cached /\ Ready' = Ready
    BY <1>1 DEF Leaders, Cached, Ready
  <2>. QED
    BY <1>0, <1>1, <2>1
    DEF CacheInv, OneProbePerVersion, Flights, Distinct, Led, Limited
<1>2. ASSUME NEW p \in Paths, Replace(p) PROVE CacheInv'
  BY <1>1, <1>2 DEF Replace
<1>3. ASSUME NEW o \in Openers, NEW p \in Paths, Open(o, p) PROVE CacheInv'
  <2>1. PICK v \in 1..object[p], stubAllowed \in BOOLEAN :
          op' = [op EXCEPT ![o] =
                   [NoOpen EXCEPT !.phase = IF stubAllowed THEN "lookup" ELSE "passthrough",
                                  !.entry = [path |-> p, version |-> v],
                                  !.stub = stubAllowed]]
    BY <1>3 DEF Open
  <2>. QED
    BY <1>0, <1>3, <2>1, QuietKeeps DEF Open, NoOpen, Leading
<1>4. ASSUME NEW o \in Openers, Follow(o) PROVE CacheInv'
  <2>1. op' = [op EXCEPT ![o] = [op[o] EXCEPT !.phase = "wait", !.call = cache[op[o].entry]]]
    BY <1>0, <1>4 DEF Follow, TypeOK
  <2>2. op[o] \in Opens
    BY <1>0 DEF TypeOK
  <2>. QED
    BY <1>0, <1>4, <2>1, <2>2, QuietKeeps DEF Follow, Opens, Leading
<1>5. ASSUME NEW o \in Openers, Awake(o) PROVE CacheInv'
  <2>1. op[o] \in Opens
    BY <1>0 DEF TypeOK
  <2>2. Settled(o, call[op[o].call]).phase \in {"error", "view", "passthrough"}
    BY <2>1 DEF Settled, Opens
  <2>. QED
    BY <1>0, <1>5, <2>2, QuietKeeps DEF Awake, Leading
<1>6. ASSUME NEW o \in Openers, GiveUp(o) PROVE CacheInv'
  <2>1. op' = [op EXCEPT ![o] = [op[o] EXCEPT !.phase = "error", !.call = None]]
    BY <1>0, <1>6 DEF GiveUp, TypeOK
  <2>2. op[o] \in Opens
    BY <1>0 DEF TypeOK
  <2>. QED
    BY <1>0, <1>6, <2>1, <2>2, QuietKeeps DEF GiveUp, Opens, Leading
<1>7. ASSUME NEW o \in Openers, Close(o) PROVE CacheInv'
  BY <1>0, <1>7, QuietKeeps DEF Close, NoOpen, Leading
<1>8. ASSUME NEW o \in Openers, LeaderOpens(o) PROVE CacheInv'
  <2>1. op' = [op EXCEPT ![o] = [op[o] EXCEPT !.phase = "probe"]]
    BY <1>0, <1>8 DEF LeaderOpens, TypeOK
  <2>2. op[o] \in Opens
    BY <1>0 DEF TypeOK
  <2>. QED
    BY <1>0, <1>8, <2>1, <2>2, QuietKeeps DEF LeaderOpens, Opens, Leading
<1>9. ASSUME NEW o \in Openers, ProbeReads(o) PROVE CacheInv'
  <2>. DEFINE x == [op[o] EXCEPT !.seen = @ \cup {Current(o)}]
  <2>1. op' = [op EXCEPT ![o] = x] /\ UNCHANGED <<cache, call>>
    BY <1>0, <1>9 DEF ProbeReads, TypeOK
  <2>2. x.phase = op[o].phase /\ x.call = op[o].call /\ x.entry = op[o].entry /\ x.phase = "probe"
    BY <1>0, <1>9 DEF ProbeReads, TypeOK, Opens
  <2>. HIDE DEF x
  <2>. QED
    BY <1>0, <1>9, <2>1, <2>2, QuietKeeps DEF Leading
<1>10. ASSUME NEW o \in Openers, PassThrough(o) PROVE CacheInv'
  <2>1. PICK ok \in BOOLEAN :
          op' = [op EXCEPT ![o] = [op[o] EXCEPT !.phase = IF ok THEN "view" ELSE "error"]]
    BY <1>0, <1>10 DEF PassThrough, TypeOK
  <2>2. op[o] \in Opens
    BY <1>0 DEF TypeOK
  <2>. QED
    BY <1>0, <1>10, <2>1, <2>2, QuietKeeps DEF PassThrough, Opens, Leading
<1>11. ASSUME NEW o \in Openers,
              LeaderOpenFails(o) \/ ProbeSucceeds(o) \/ ProbeFails(o) \/ ProbeInterrupted(o)
       PROVE  CacheInv'
  <2>1. op[o].phase \in Leading
    BY <1>11 DEF LeaderOpenFails, ProbeSucceeds, ProbeFails, ProbeInterrupted, Leading
  <2>2. \E plan, err : Resolve(o, plan, err)
    BY <1>11 DEF LeaderOpenFails, ProbeSucceeds, ProbeFails, ProbeInterrupted, Unprobed
  <2>. QED
    BY <1>0, <2>1, <2>2, ResolveKeeps
<1>. QED
  BY <1>0, <1>1, <1>2, <1>3, <1>4, <1>5, <1>6, <1>7, <1>8, <1>9, <1>10, <1>11,
     LeadKeeps, FinishKeeps DEF Next, Progress, vars

LEMMA CacheAlways == Spec => []CacheInv
<1>1. Init => CacheInv
  BY CacheInit
<1>2. CacheInv /\ [Next]_vars => CacheInv'
  BY CacheStep
<1>. QED
  BY <1>1, <1>2, PTL DEF Spec

-----------------------------------------------------------------------------
\* Concurrent opens share one probe (README.md:469), whatever is evicted meanwhile.
THEOREM ProbesShared == Spec => []OneProbePerVersion
<1>1. CacheInv => OneProbePerVersion
  BY DEF CacheInv
<1>. QED
  BY <1>1, CacheAlways, PTL

\* Each unready entry of the map is the entry of one leader.
LEMMA BoundFollows == CacheInv => CacheBounded
<1> SUFFICES ASSUME CacheInv PROVE CacheBounded
  OBVIOUS
<1>. DEFINE Unready == Cached \ Ready
            f == [o \in Leaders |-> op[o].entry]
<1>1. IsFiniteSet(Cached) /\ Cardinality(Ready) <= CacheEntries /\ Ready \in SUBSET Cached
  BY DEF CacheInv, Limited, Ready
<1>2. IsFiniteSet(Leaders)
  BY FS_Subset, PlanCacheAssumption DEF Leaders
<1>3. \A o \in Leaders : op[o].entry \in Unready
  BY LeaderFacts DEF Ready
<1>4. \A k \in Unready : \E o \in Leaders : op[o].entry = k
  BY DEF CacheInv, Led, Ready
<1>5. f \in Surjection(Leaders, Unready)
  BY <1>3, <1>4 DEF Surjection
<1>6. Cardinality(Unready) <= Cardinality(Leaders)
  BY <1>2, <1>5, FS_Surjection
<1>7. Cardinality(Unready) = Cardinality(Cached) - Cardinality(Cached \cap Ready)
  BY <1>1, FS_Difference
<1>8. Cached \cap Ready = Ready
  BY <1>1
<1>9. /\ Cardinality(Cached) \in Nat /\ Cardinality(Ready) \in Nat
      /\ Cardinality(Leaders) \in Nat
  BY <1>1, <1>2, FS_Subset, FS_CardinalityType
<1>. HIDE DEF Unready
<1>10. Cardinality(Cached) = Cardinality(Unready) + Cardinality(Ready)
  BY <1>7, <1>8, <1>9 DEF Unready
<1>11. Cardinality(Unready) \in Nat /\ CacheEntries \in Nat
  BY <1>1, FS_Subset, FS_CardinalityType, PlanCacheAssumption DEF Unready
<1>. QED
  BY <1>1, <1>6, <1>9, <1>10, <1>11 DEF CacheBounded

\* The map exceeds its limit only by the probes under way (service.go:121).
THEOREM CacheStaysBounded == Spec => []CacheBounded
BY BoundFollows, CacheAlways, PTL

-----------------------------------------------------------------------------
(***************************************************************************)
(* PlanCache implements ViewService.  The inductive invariant: a call is   *)
(* of one entry, for whoever refers to it (Tied); its plan is made of that *)
(* entry's sources (Sourced); a call that failed has no plan, and with     *)
(* `fail' one that is ready has a plan or an error (Told).                 *)
(***************************************************************************)
Sources(e) == Views!Sources(e)

Tied ==
    /\ \A q \in Openers, k \in Cached : op[q].call = cache[k] => op[q].entry = k
    /\ \A q1, q2 \in Openers : op[q1].call # None /\ op[q1].call = op[q2].call
                                  => op[q1].entry = op[q2].entry

Sourced ==
    /\ \A k \in Cached : call[cache[k]].plan \subseteq Sources(k)
    /\ \A o \in Openers : op[o].call # None => call[op[o].call].plan \subseteq Sources(op[o].entry)

Settles(c) == OnError = "fail" => c.err # "none" \/ c.plan # {}

Told == \A c \in Calls : /\ call[c].err # "none" => call[c].plan = {}
                         /\ call[c].ready => Settles(call[c])

\* What an open record must satisfy by itself.
Honest(x) ==
    /\ x.phase \in {"lookup", "wait"} \cup Leading => x.stub
    /\ x.phase # "idle" => x.seen \subseteq Sources(x.entry)
    /\ x.phase = "passthrough" => x.served = {} /\ (x.stub => OnError # "fail")
    /\ x.phase = "view" => /\ x.served \subseteq Sources(x.entry)
                           /\ x.served # {} => x.stub
                           /\ x.served = {} /\ x.stub => OnError # "fail"

Finishing == \A o \in Openers : op[o].phase = "finish" => Settles(call[op[o].call])

\* An entry that was asked for is of a version that its object has or had.
Past == \A o \in Openers :
            op[o].phase # "idle" => op[o].entry.version <= object[op[o].entry.path]

ViewInv == CacheInv /\ Tied /\ Sourced /\ Told /\ Finishing /\ \A o \in Openers : Honest(op[o])

LEMMA ViewInvInit == Init => ViewInv
<1> SUFFICES ASSUME Init PROVE ViewInv
  OBVIOUS
<1>1. CacheInv
  BY CacheInit
<1>2. Cached = {} /\ \A o \in Openers : op[o] = NoOpen
  BY DEF Init, Cached
<1>3. NoOpen.call = None /\ NoOpen.phase = "idle"
  BY DEF NoOpen
<1>4. Tied /\ Sourced /\ Finishing
  BY <1>2, <1>3 DEF Tied, Sourced, Finishing
<1>5. Told
  BY DEF Init, Told, NewCall
<1>6. \A o \in Openers : Honest(op[o])
  BY <1>2, <1>3 DEF Honest, Leading
<1>. QED
  BY <1>1, <1>4, <1>5, <1>6 DEF ViewInv

\* A step that leaves the map and the calls alone, and what others are doing.
LEMMA QuietHonest ==
  ASSUME ViewInv, CacheInv', UNCHANGED <<cache, call>>, NEW o \in Openers, NEW x,
         op' = [op EXCEPT ![o] = x], Honest(x), x.phase # "finish",
         x.call # None => x.entry = op[o].entry /\ x.call = op[o].call
  PROVE  ViewInv'
<1>1. /\ op'[o] = x
      /\ \A q \in Openers : q # o => op'[q] = op[q]
  BY DEF ViewInv, CacheInv, TypeOK
<1>2. Cached' = Cached /\ \A k \in Cached : cache[k] # None
  BY DEF Cached
<1>3. Tied'
  BY <1>1, <1>2 DEF ViewInv, Tied
<1>4. Sourced'
  BY <1>1, <1>2 DEF ViewInv, Sourced
<1>5. Told' /\ Finishing'
  BY <1>1 DEF ViewInv, Told, Finishing
<1>6. \A q \in Openers : Honest(op'[q])
  BY <1>1 DEF ViewInv
<1>. QED
  BY <1>3, <1>4, <1>5, <1>6 DEF ViewInv, Honest

LEMMA FollowHonest ==
  ASSUME ViewInv, CacheInv', NEW o \in Openers, Follow(o)
  PROVE  ViewInv'
<1>. DEFINE e == op[o].entry
            x == [op[o] EXCEPT !.phase = "wait", !.call = cache[e]]
<1>0. TypeOK /\ op[o] \in Opens
  BY DEF ViewInv, CacheInv, TypeOK
<1>1. op' = [op EXCEPT ![o] = x] /\ UNCHANGED <<object, cache, call>>
  BY <1>0 DEF Follow, TypeOK
<1>2. /\ op'[o] = x
      /\ \A q \in Openers : q # o => op'[q] = op[q]
  BY <1>0, <1>1 DEF TypeOK
<1>3. x.phase = "wait" /\ x.call = cache[e] /\ x.entry = e /\ x.stub = op[o].stub /\ x.seen = op[o].seen
  BY <1>0 DEF Opens
<1>4. op[o].phase = "lookup" /\ e \in Cached
  BY <1>0, CoherentNow DEF Follow, Cached
<1>5. Cached' = Cached
  BY <1>1 DEF Cached
<1>. HIDE DEF x
<1>6. Tied'
  <2>1. \A k \in Cached : cache[e] = cache[k] => e = k
    BY <1>4 DEF ViewInv, CacheInv, Distinct
  <2>2. \A q \in Openers : op[q].call = cache[e] => op[q].entry = e
    BY <1>4 DEF ViewInv, Tied
  <2>. QED
    BY <1>1, <1>2, <1>3, <1>5, <2>1, <2>2 DEF ViewInv, Tied
<1>7. Sourced'
  BY <1>1, <1>2, <1>3, <1>4, <1>5 DEF ViewInv, Sourced
<1>8. Told' /\ Finishing'
  BY <1>1, <1>2, <1>3 DEF ViewInv, Told, Finishing
<1>9. \A q \in Openers : Honest(op'[q])
  <2>1. Honest(x)
    BY <1>3, <1>4 DEF ViewInv, Honest, Leading
  <2>. QED
    BY <2>1, <1>2 DEF ViewInv
<1>. QED
  BY <1>6, <1>7, <1>8, <1>9 DEF ViewInv, Honest

LEMMA LeadHonest ==
  ASSUME ViewInv, CacheInv', NEW o \in Openers, Lead(o)
  PROVE  ViewInv'
<1>. DEFINE e == op[o].entry
<1>0. TypeOK /\ op[o] \in Opens
  BY DEF ViewInv, CacheInv, TypeOK
<1>1. PICK c \in Free :
           /\ cache' = [cache EXCEPT ![e] = c]
           /\ call' = [call EXCEPT ![c] = NewCall]
           /\ op' = [op EXCEPT ![o] = [op[o] EXCEPT !.phase = "open", !.call = c]]
  BY <1>0, LeadFresh
<1>2. /\ c \in Calls /\ c # None
      /\ \A k \in Cached : cache[k] # c
      /\ \A q \in Openers : op[q].call # c
  BY PlanCacheAssumption DEF Free, Referenced
<1>3. e \in Fingerprints /\ cache[e] = None /\ op[o].phase = "lookup"
  BY <1>0, CoherentNow DEF Lead
<1>4. /\ op'[o].phase = "open" /\ op'[o].entry = e /\ op'[o].call = c
      /\ op'[o].stub = op[o].stub /\ op'[o].seen = op[o].seen
      /\ \A q \in Openers : q # o => op'[q] = op[q]
  BY <1>0, <1>1 DEF TypeOK, Opens
<1>5. /\ cache'[e] = c
      /\ \A k \in Fingerprints : k # e => cache'[k] = cache[k]
  BY <1>0, <1>1, <1>3 DEF TypeOK
<1>6. /\ call'[c] = NewCall
      /\ \A d \in Calls : d # c => call'[d] = call[d]
  BY <1>0, <1>1, <1>2 DEF TypeOK
<1>7. Cached' = Cached \cup {e} /\ e \notin Cached
  BY <1>2, <1>3, <1>5 DEF Cached
<1>8. \A k \in Cached : cache[k] \in Calls /\ cache'[k] = cache[k] /\ call'[cache[k]] = call[cache[k]]
  BY <1>0, <1>2, <1>5, <1>6, <1>7 DEF Cached, TypeOK
<1>9. \A q \in Openers : op[q].call # None =>
          op[q].call \in Calls /\ call'[op[q].call] = call[op[q].call]
  BY <1>0, <1>2, <1>6 DEF TypeOK, Opens
<1>10. Tied'
  BY <1>2, <1>4, <1>5, <1>7, <1>8 DEF ViewInv, Tied
<1>11. Sourced'
  <2>1. NewCall.plan = {}
    BY DEF NewCall
  <2>2. \A k \in Cached' : call'[cache'[k]].plan \subseteq Sources(k)
    BY <2>1, <1>5, <1>6, <1>7, <1>8 DEF ViewInv, Sourced
  <2>3. \A q \in Openers : op'[q].call # None =>
            call'[op'[q].call].plan \subseteq Sources(op'[q].entry)
    BY <2>1, <1>4, <1>6, <1>9 DEF ViewInv, Sourced
  <2>. QED
    BY <2>2, <2>3 DEF Sourced
<1>12. Told'
  BY <1>6 DEF ViewInv, Told, NewCall
<1>13. Finishing'
  <2>. SUFFICES ASSUME NEW q \in Openers, op'[q].phase = "finish"
                PROVE  Settles(call'[op'[q].call])
    BY DEF Finishing, Settles
  <2>1. q # o /\ op'[q] = op[q] /\ op[q].phase = "finish"
    BY <1>4
  <2>2. op[q].call # None
    BY <1>0, <2>1, CoherentNow, PlanCacheAssumption DEF Leading
  <2>. QED
    BY <2>1, <2>2, <1>9 DEF ViewInv, Finishing
<1>14. \A q \in Openers : Honest(op'[q])
  <2>1. Honest(op'[o])
    BY <1>3, <1>4 DEF ViewInv, Honest, Leading
  <2>. QED
    BY <2>1, <1>4 DEF ViewInv
<1>. QED
  BY <1>10, <1>11, <1>12, <1>13, <1>14 DEF ViewInv, Honest

\* The plan is of the sources of the leader's entry, and so of those of all who
\* refer to the call.
LEMMA ResolveHonest ==
  ASSUME ViewInv, CacheInv', NEW o \in Openers, op[o].phase \in Leading,
         NEW plan \in SUBSET Sources(op[o].entry), NEW err,
         err # "none" => plan = {},
         OnError = "fail" => err # "none" \/ plan # {},
         Resolve(o, plan, err)
  PROVE  ViewInv'
<1>. DEFINE c == op[o].call
<1>0. TypeOK /\ op[o] \in Opens
  BY DEF ViewInv, CacheInv, TypeOK
<1>1. o \in Leaders
  BY DEF Leaders
<1>2. c \in Calls /\ c # None /\ ~call[c].ready /\ op[o].entry \in Fingerprints
  BY <1>0, <1>1, LeaderFacts, CoherentNow, PlanCacheAssumption DEF ViewInv, Leading
<1>3. /\ call' = [call EXCEPT ![c].plan = plan, ![c].err = err]
      /\ op' = [op EXCEPT ![o].phase = "finish", ![o].keep = (err # "aborted"), ![o].seen = {}]
      /\ UNCHANGED <<object, cache>>
  BY DEF Resolve
<1>4. /\ op'[o].phase = "finish" /\ op'[o].entry = op[o].entry /\ op'[o].call = c
      /\ op'[o].stub = op[o].stub /\ op'[o].seen = {}
      /\ \A q \in Openers : q # o => op'[q] = op[q]
  BY <1>0, <1>3 DEF TypeOK, Opens
<1>5. /\ \A d \in Calls : d # c => call'[d] = call[d]
      /\ call'[c].err = err /\ call'[c].plan = plan /\ ~call'[c].ready
  BY <1>0, <1>2, <1>3 DEF TypeOK, CallStates
<1>6. Cached' = Cached /\ \A k \in Cached : cache[k] \in Calls
  BY <1>0, <1>3 DEF Cached, TypeOK
<1>7. \A q \in Openers : op'[q].call = op[q].call /\ op'[q].entry = op[q].entry
  BY <1>4
<1>8. \A q \in Openers : op[q].call # None => op[q].call \in Calls
  BY <1>0 DEF TypeOK, Opens
<1>9. Tied'
  <2>0. cache' = cache /\ Tied
    BY <1>3 DEF ViewInv
  <2>1. \A q \in Openers, k \in Cached' : op'[q].call = cache'[k] => op'[q].entry = k
    BY <2>0, <1>6, <1>7 DEF Tied
  <2>2. \A q1, q2 \in Openers : op'[q1].call # None /\ op'[q1].call = op'[q2].call
                                   => op'[q1].entry = op'[q2].entry
    BY <1>7 DEF ViewInv, Tied
  <2>. QED
    BY <2>1, <2>2 DEF Tied
<1>10. Sourced'
  <2>1. \A k \in Cached : call'[cache[k]].plan \subseteq Sources(k)
    BY <1>5, <1>6 DEF ViewInv, Sourced, Tied
  <2>2. \A q \in Openers : op[q].call # None =>
            call'[op[q].call].plan \subseteq Sources(op[q].entry)
    BY <1>2, <1>5, <1>8 DEF ViewInv, Sourced, Tied
  <2>. QED
    BY <2>1, <2>2, <1>3, <1>6, <1>7 DEF Sourced
<1>11. Told'
  BY <1>5 DEF ViewInv, Told
<1>12. Finishing'
  <2>. SUFFICES ASSUME NEW q \in Openers, op'[q].phase = "finish"
                PROVE  Settles(call'[op'[q].call])
    BY DEF Finishing, Settles
  <2>1. CASE op[q].call = c
    BY <2>1, <1>5, <1>7 DEF Settles
  <2>2. CASE op[q].call # c
    <3>1. op'[q] = op[q]
      BY <2>2, <1>4
    <3>2. op[q].call \in Calls
      BY <3>1, <1>0, CoherentNow DEF Leading
    <3>. QED
      BY <2>2, <3>1, <3>2, <1>5 DEF ViewInv, Finishing
  <2>. QED
    BY <2>1, <2>2
<1>13. \A q \in Openers : Honest(op'[q])
  <2>1. Honest(op'[o])
    BY <1>4 DEF ViewInv, Honest, Leading
  <2>. QED
    BY <2>1, <1>4 DEF ViewInv
<1>. QED
  BY <1>9, <1>10, <1>11, <1>12, <1>13 DEF ViewInv, Honest

\* What an opener makes of a settled call that is of its entry.
LEMMA SettledHonest ==
  ASSUME NEW o \in Openers, op[o] \in Opens, op[o].stub, NEW c \in CallStates,
         c.plan \subseteq Sources(op[o].entry), Settles(c)
  PROVE  LET x == Settled(o, c)
         IN  /\ Honest(x) /\ x.entry = op[o].entry /\ x.stub /\ x.call = None
             /\ x.phase \in {"error", "view", "passthrough"}
             /\ x.phase = "view" => x.served # {}
<1>. DEFINE x == Settled(o, c)
<1>1. /\ x.entry = op[o].entry /\ x.stub /\ x.call = None /\ x.seen = {} /\ x.served = c.plan
      /\ x.phase = (CASE c.err # "none" -> "error"
                      [] c.err = "none" /\ c.plan # {} -> "view"
                      [] OTHER -> "passthrough")
  BY DEF Settled, Opens
<1>2. x.phase \in {"error", "view", "passthrough"}
  BY <1>1
<1>3. x.phase = "view" => x.served # {}
  BY <1>1
<1>4. x.phase = "passthrough" => x.served = {} /\ OnError # "fail"
  BY <1>1 DEF Settles
<1>. HIDE DEF x
<1>5. Honest(x)
  BY <1>1, <1>2, <1>3, <1>4 DEF Honest, Leading
<1>. QED
  BY <1>1, <1>2, <1>3, <1>5 DEF x

LEMMA AwakeHonest ==
  ASSUME ViewInv, CacheInv', NEW o \in Openers, Awake(o)
  PROVE  ViewInv'
<1>. DEFINE x == Settled(o, call[op[o].call])
<1>0. TypeOK /\ op[o] \in Opens /\ op[o].phase = "wait"
  BY DEF ViewInv, CacheInv, TypeOK, Awake
<1>1. op[o].call \in Calls /\ op[o].call # None /\ op[o].stub
  BY <1>0, CoherentNow, PlanCacheAssumption DEF ViewInv, Honest
<1>2. /\ call[op[o].call] \in CallStates
      /\ call[op[o].call].plan \subseteq Sources(op[o].entry)
      /\ Settles(call[op[o].call])
  BY <1>0, <1>1 DEF TypeOK, ViewInv, Sourced, Told, Awake
<1>3. Honest(x) /\ x.call = None /\ x.phase # "finish"
  BY <1>0, <1>1, <1>2, SettledHonest
<1>4. op' = [op EXCEPT ![o] = x] /\ UNCHANGED <<cache, call>>
  BY DEF Awake
<1>. HIDE DEF x
<1>. QED
  BY <1>3, <1>4, QuietHonest

LEMMA FinishFacts ==
  ASSUME ViewInv, NEW o \in Openers, Finish(o)
  PROVE  /\ op[o] \in Opens /\ op[o].stub /\ op[o].call \in Calls /\ op[o].call # None
         /\ call[op[o].call] \in CallStates
         /\ call[op[o].call].plan \subseteq Sources(op[o].entry)
         /\ Settles(call[op[o].call])
<1>1. TypeOK /\ op[o] \in Opens /\ op[o].phase = "finish"
  BY DEF ViewInv, CacheInv, TypeOK, Finish
<1>2. op[o].call \in Calls /\ op[o].call # None /\ op[o].stub
  BY <1>1, CoherentNow, PlanCacheAssumption DEF ViewInv, Honest, Leading
<1>. QED
  BY <1>1, <1>2 DEF TypeOK, ViewInv, Sourced, Finishing

LEMMA FinishHonest ==
  ASSUME ViewInv, CacheInv', NEW o \in Openers, Finish(o)
  PROVE  ViewInv'
<1>. DEFINE c == op[o].call
            x == Settled(o, call[c])
<1>0. TypeOK
  BY DEF ViewInv, CacheInv
<1>1. /\ op[o] \in Opens /\ op[o].stub /\ c \in Calls /\ c # None
      /\ call[c] \in CallStates /\ Settles(call[c])
      /\ call[c].plan \subseteq Sources(op[o].entry)
  BY FinishFacts
<1>2. /\ Honest(x) /\ x.call = None /\ x.phase # "finish"
      /\ op' = [op EXCEPT ![o] = x]
  BY <1>1, SettledHonest DEF Finish
<1>3. call' = [call EXCEPT ![c].ready = TRUE]
  BY DEF Finish, Announced
<1>4. /\ call'[c].plan = call[c].plan /\ call'[c].err = call[c].err
      /\ \A d \in Calls : d # c => call'[d] = call[d]
  BY <1>0, <1>1, <1>3 DEF TypeOK, CallStates
<1>5. \A d \in Calls : call'[d].plan = call[d].plan /\ call'[d].err = call[d].err
  BY <1>4
<1>6. Cached' \subseteq Cached /\ \A k \in Cached' : cache'[k] = cache[k] /\ cache[k] \in Calls
  BY <1>0 DEF Finish, Cached, TypeOK
<1>. HIDE DEF x
<1>7. /\ op'[o] = x
      /\ \A q \in Openers : q # o => op'[q] = op[q]
  BY <1>0, <1>2 DEF TypeOK
<1>8. \A q \in Openers : op[q].call # None => op[q].call \in Calls
  BY <1>0 DEF TypeOK, Opens
<1>9. Tied'
  <2>1. \A q \in Openers, k \in Cached' : op'[q].call = cache'[k] => op'[q].entry = k
    BY <1>2, <1>6, <1>7, PlanCacheAssumption DEF ViewInv, Tied
  <2>2. \A q1, q2 \in Openers : op'[q1].call # None /\ op'[q1].call = op'[q2].call
                                   => op'[q1].entry = op'[q2].entry
    BY <1>2, <1>7 DEF ViewInv, Tied
  <2>. QED
    BY <2>1, <2>2 DEF Tied
<1>10. Sourced'
  <2>1. \A k \in Cached' : call'[cache'[k]].plan \subseteq Sources(k)
    BY <1>5, <1>6 DEF ViewInv, Sourced
  <2>2. \A q \in Openers : op'[q].call # None =>
            call'[op'[q].call].plan \subseteq Sources(op'[q].entry)
    BY <1>2, <1>5, <1>7, <1>8 DEF ViewInv, Sourced
  <2>. QED
    BY <2>1, <2>2 DEF Sourced
<1>11. Told'
  <2>. SUFFICES ASSUME NEW d \in Calls
                PROVE  /\ call'[d].err # "none" => call'[d].plan = {}
                       /\ call'[d].ready => Settles(call'[d])
    BY DEF Told, Settles
  <2>1. call'[d].err # "none" => call'[d].plan = {}
    BY <1>5 DEF ViewInv, Told
  <2>2. call'[d].ready => Settles(call'[d])
    <3>1. CASE d = c
      BY <3>1, <1>1, <1>4 DEF Settles
    <3>2. CASE d # c
      BY <3>2, <1>4 DEF ViewInv, Told
    <3>. QED
      BY <3>1, <3>2
  <2>. QED
    BY <2>1, <2>2
<1>12. Finishing'
  <2>. SUFFICES ASSUME NEW q \in Openers, op'[q].phase = "finish"
                PROVE  Settles(call'[op'[q].call])
    BY DEF Finishing, Settles
  <2>1. op'[q] = op[q] /\ op[q].phase = "finish"
    BY <1>2, <1>7
  <2>2. op[q].call \in Calls
    BY <2>1, <1>0, CoherentNow DEF Leading
  <2>3. Settles(call[op[q].call])
    BY <2>1 DEF ViewInv, Finishing
  <2>. QED
    BY <2>1, <2>2, <2>3, <1>5 DEF Settles
<1>13. \A q \in Openers : Honest(op'[q])
  BY <1>2, <1>7 DEF ViewInv
<1>. QED
  BY <1>9, <1>10, <1>11, <1>12, <1>13 DEF ViewInv, Honest

\* Objects only get newer.
LEMMA PastStep == TypeOK /\ Past /\ [Next]_vars => Past'
<1> SUFFICES ASSUME TypeOK, Past, [Next]_vars PROVE Past'
  OBVIOUS
<1>1. ASSUME NEW p \in Paths, Replace(p) PROVE Past'
  <2>1. \A q \in Paths : object[q] \in Nat /\ object'[q] \in {object[q], object[q] + 1}
    BY <1>1, PlanCacheAssumption DEF Replace, TypeOK
  <2>. SUFFICES ASSUME NEW o \in Openers, op'[o].phase # "idle"
                PROVE  op'[o].entry.version <= object'[op'[o].entry.path]
    BY DEF Past
  <2>2. op'[o] = op[o] /\ op[o].entry \in Fingerprints
    BY <1>1, CoherentNow DEF Replace
  <2>3. op[o].entry.path \in Paths /\ op[o].entry.version \in Nat
    BY <2>2, PlanCacheAssumption DEF Fingerprints
  <2>4. op[o].entry.version <= object[op[o].entry.path]
    BY <2>2 DEF Past
  <2>. QED
    BY <2>1, <2>2, <2>3, <2>4
<1>2. ASSUME NEW o \in Openers, NEW p \in Paths, Open(o, p) PROVE Past'
  <2>1. PICK v \in 1..object[p], stubAllowed \in BOOLEAN :
          op' = [op EXCEPT ![o] =
                   [NoOpen EXCEPT !.phase = IF stubAllowed THEN "lookup" ELSE "passthrough",
                                  !.entry = [path |-> p, version |-> v],
                                  !.stub = stubAllowed]]
    BY <1>2 DEF Open
  <2>2. op'[o].entry = [path |-> p, version |-> v] /\ \A q \in Openers : q # o => op'[q] = op[q]
    BY <2>1 DEF TypeOK, NoOpen
  <2>3. v <= object[p]
    BY PlanCacheAssumption DEF TypeOK
  <2>. QED
    BY <1>2, <2>2, <2>3 DEF Open, Past
<1>3. ASSUME NEW o \in Openers, Progress(o) \/ GiveUp(o) \/ Close(o) PROVE Past'
  <2>. DEFINE Same(x) == x.phase # "idle" => op[o].phase # "idle" /\ x.entry = op[o].entry
              Own == op'[o] \in Opens /\ Same(op'[o]) /\ \A q \in Openers : q # o => op'[q] = op[q]
  <2>0. op[o] \in Opens /\ op \in [Openers -> Opens] /\ op' \in [Openers -> Opens]
    BY TypeStep DEF TypeOK
  <2>1. Own
    <3>1. CASE Awake(o) \/ Finish(o)
      <4>1. PICK c : op' = [op EXCEPT ![o] = Settled(o, c)]
        BY <3>1 DEF Awake, Finish
      <4>2. op'[o] = Settled(o, c)
        BY <2>0, <4>1
      <4>3. Settled(o, c).entry = op[o].entry
        BY <2>0 DEF Settled, Opens
      <4>. QED
        BY <2>0, <3>1, <4>1, <4>2, <4>3 DEF Awake, Finish
    <3>2. CASE Lead(o) \/ Follow(o) \/ GiveUp(o) \/ Close(o)
      BY <2>0, <3>2 DEF Lead, Follow, GiveUp, Close, NoOpen, Opens
    <3>3. CASE LeaderOpens(o) \/ ProbeReads(o) \/ PassThrough(o)
      BY <2>0, <3>3 DEF LeaderOpens, ProbeReads, PassThrough, Opens
    <3>4. CASE LeaderOpenFails(o) \/ ProbeSucceeds(o) \/ ProbeFails(o) \/ ProbeInterrupted(o)
      BY <2>0, <3>4
      DEF LeaderOpenFails, ProbeSucceeds, ProbeFails, ProbeInterrupted, Resolve, Opens
    <3>. QED
      BY <1>3, <3>1, <3>2, <3>3, <3>4 DEF Progress
  <2>2. UNCHANGED object
    BY <1>3
    DEF Progress, Lead, Follow, Awake, LeaderOpens, LeaderOpenFails, ProbeReads, ProbeSucceeds,
        ProbeFails, ProbeInterrupted, Resolve, Finish, PassThrough, GiveUp, Close
  <2>. QED
    BY <2>1, <2>2 DEF Past, TypeOK
<1>4. CASE UNCHANGED vars
  BY <1>4 DEF vars, Past
<1>. QED
  BY <1>1, <1>2, <1>3, <1>4 DEF Next

LEMMA ViewInvStep == ViewInv /\ Past /\ [Next]_vars => ViewInv'
<1> SUFFICES ASSUME ViewInv, Past, [Next]_vars PROVE ViewInv'
  OBVIOUS
<1>0. TypeOK /\ CacheInv /\ CacheInv' /\ \A o \in Openers : op[o] \in Opens /\ Honest(op[o])
  BY CacheStep DEF ViewInv, CacheInv, TypeOK
<1>1. ASSUME UNCHANGED <<cache, call, op>> PROVE ViewInv'
  <2>1. Cached' = Cached
    BY <1>1 DEF Cached
  <2>. QED
    BY <1>0, <1>1, <2>1 DEF ViewInv, Tied, Sourced, Told, Finishing, Settles, Honest
<1>2. ASSUME NEW p \in Paths, Replace(p) PROVE ViewInv'
  BY <1>1, <1>2 DEF Replace
<1>3. ASSUME NEW o \in Openers, NEW p \in Paths, Open(o, p) PROVE ViewInv'
  <2>1. PICK v \in 1..object[p], stubAllowed \in BOOLEAN :
          op' = [op EXCEPT ![o] =
                   [NoOpen EXCEPT !.phase = IF stubAllowed THEN "lookup" ELSE "passthrough",
                                  !.entry = [path |-> p, version |-> v],
                                  !.stub = stubAllowed]]
    BY <1>3 DEF Open
  <2>. DEFINE x == [NoOpen EXCEPT !.phase = IF stubAllowed THEN "lookup" ELSE "passthrough",
                                  !.entry = [path |-> p, version |-> v],
                                  !.stub = stubAllowed]
  <2>2. /\ x.phase = (IF stubAllowed THEN "lookup" ELSE "passthrough")
        /\ x.stub = stubAllowed /\ x.call = None /\ x.seen = {} /\ x.served = {}
    BY DEF NoOpen
  <2>. HIDE DEF x
  <2>3. Honest(x)
    BY <2>2 DEF Honest, Leading
  <2>4. op' = [op EXCEPT ![o] = x] /\ UNCHANGED <<cache, call>>
    BY <1>3, <2>1 DEF Open, x
  <2>. QED
    BY <1>0, <2>2, <2>3, <2>4, QuietHonest
<1>4. ASSUME NEW o \in Openers, GiveUp(o) PROVE ViewInv'
  <2>1. op' = [op EXCEPT ![o] = [op[o] EXCEPT !.phase = "error", !.call = None]]
    BY <1>0, <1>4 DEF GiveUp, TypeOK
  <2>2. Honest([op[o] EXCEPT !.phase = "error", !.call = None])
    BY <1>0, <1>4 DEF GiveUp, Honest, Opens, Leading
  <2>. QED
    BY <1>0, <1>4, <2>1, <2>2, QuietHonest DEF GiveUp, Opens
<1>5. ASSUME NEW o \in Openers, Close(o) PROVE ViewInv'
  <2>1. Honest(NoOpen)
    BY DEF Honest, NoOpen, Leading
  <2>. QED
    BY <1>0, <1>5, <2>1, QuietHonest DEF Close, NoOpen
<1>6. ASSUME NEW o \in Openers, LeaderOpens(o) PROVE ViewInv'
  <2>1. op' = [op EXCEPT ![o] = [op[o] EXCEPT !.phase = "probe"]]
    BY <1>0, <1>6 DEF LeaderOpens, TypeOK
  <2>2. Honest([op[o] EXCEPT !.phase = "probe"])
    BY <1>0, <1>6 DEF LeaderOpens, Honest, Opens, Leading
  <2>. QED
    BY <1>0, <1>6, <2>1, <2>2, QuietHonest DEF LeaderOpens, Opens
<1>7. ASSUME NEW o \in Openers, ProbeReads(o) PROVE ViewInv'
  <2>1. op' = [op EXCEPT ![o] = [op[o] EXCEPT !.seen = op[o].seen \cup {Current(o)}]]
    BY <1>0, <1>7 DEF ProbeReads, TypeOK
  <2>2. op[o].entry \in Fingerprints
    BY <1>0, <1>7, CoherentNow DEF ProbeReads
  <2>3. Current(o) \in Sources(op[o].entry)
    <3>1. /\ Current(o) \in Fingerprints /\ Current(o).path = op[o].entry.path
          /\ Current(o).version = object[op[o].entry.path]
      BY <1>0, <1>7, CurrentTyped DEF ProbeReads, Current
    <3>2. op[o].entry.version <= object[op[o].entry.path]
      BY <1>7 DEF ProbeReads, Past
    <3>3. Current(o).version >= op[o].entry.version
      BY <3>1, <3>2, <2>2, PlanCacheAssumption DEF Fingerprints
    <3>. QED
      BY <1>7, <3>1, <3>3
      DEF ProbeReads, Readable, Sources, Views!Sources, Fingerprints, Views!Fingerprints
  <2>4. Honest([op[o] EXCEPT !.seen = op[o].seen \cup {Current(o)}])
    BY <1>0, <1>7, <2>3 DEF ProbeReads, Honest, Opens, Leading
  <2>. QED
    BY <1>0, <1>7, <2>1, <2>4, QuietHonest DEF ProbeReads, Opens
<1>8. ASSUME NEW o \in Openers, PassThrough(o) PROVE ViewInv'
  <2>1. PICK ok \in BOOLEAN :
          op' = [op EXCEPT ![o] = [op[o] EXCEPT !.phase = IF ok THEN "view" ELSE "error"]]
    BY <1>0, <1>8 DEF PassThrough, TypeOK
  <2>2. Honest([op[o] EXCEPT !.phase = IF ok THEN "view" ELSE "error"])
    BY <1>0, <1>8 DEF PassThrough, Honest, Opens, Leading
  <2>. QED
    BY <1>0, <1>8, <2>1, <2>2, QuietHonest DEF PassThrough, Opens
<1>9. ASSUME NEW o \in Openers, op[o].phase \in Leading,
             NEW err, err # "none", Resolve(o, {}, err)
      PROVE  ViewInv'
  BY <1>0, <1>9, ResolveHonest
<1>10. ASSUME NEW o \in Openers, op[o].phase \in Leading, Resolve(o, {}, Unprobed)
       PROVE  ViewInv'
  <2>1. OnError = "fail" => Unprobed # "none"
    BY DEF Unprobed
  <2>. QED
    BY <1>0, <1>10, <2>1, ResolveHonest
<1>11. ASSUME NEW o \in Openers, op[o].phase = "probe", op[o].seen # {},
              Resolve(o, op[o].seen, "none")
       PROVE  ViewInv'
  <2>1. op[o].phase \in Leading
    BY <1>11 DEF Leading
  <2>2. op[o].seen \subseteq Sources(op[o].entry)
    BY <1>0, <1>11 DEF Honest
  <2>. QED
    BY <1>0, <1>11, <2>1, <2>2, ResolveHonest
<1>12. ASSUME NEW o \in Openers, LeaderOpenFails(o) \/ ProbeSucceeds(o) \/ ProbeFails(o)
                                 \/ ProbeInterrupted(o)
       PROVE  ViewInv'
  <2>1. op[o].phase \in Leading
    BY <1>12 DEF LeaderOpenFails, ProbeSucceeds, ProbeFails, ProbeInterrupted, Leading
  <2>. QED
    BY <2>1, <1>9, <1>10, <1>11, <1>12
    DEF LeaderOpenFails, ProbeSucceeds, ProbeFails, ProbeInterrupted
<1>. QED
  BY <1>0, <1>1, <1>2, <1>3, <1>4, <1>5, <1>6, <1>7, <1>8, <1>12,
     LeadHonest, FollowHonest, AwakeHonest, FinishHonest DEF Next, Progress, vars

LEMMA ViewInvAlways == Spec => []ViewInv
<1>1. Init => ViewInv /\ Past
  BY ViewInvInit DEF Init, Past, NoOpen
<1>2. ViewInv /\ Past /\ [Next]_vars => ViewInv'
  BY ViewInvStep
<1>3. ViewInv /\ Past /\ [Next]_vars => Past'
  BY PastStep DEF ViewInv, CacheInv
<1>. QED
  BY <1>1, <1>2, <1>3, PTL DEF Spec

\* Each byte of a stub is of the version its opener asked for (origin.go:31) where reads
\* are tied to an ETag and the object is not small, and of none older anywhere.
THEOREM StubsOfTheirVersion == Spec => []StubOfItsVersion
<1>1. ViewInv => StubOfItsVersion
  <2>. SUFFICES ASSUME ViewInv, NEW o \in Openers, op[o].phase = "view",
                       NEW k \in op[o].served
                PROVE  /\ k.path = op[o].entry.path /\ k.version >= op[o].entry.version
                       /\ Pinned /\ op[o].entry.version \notin Small => k = op[o].entry
    BY DEF StubOfItsVersion
  <2>1. op[o].entry \in Fingerprints
    BY CoherentNow DEF ViewInv, CacheInv
  <2>2. k \in Sources(op[o].entry)
    BY DEF ViewInv, Honest
  <2>. QED
    BY <2>1, <2>2, PlanCacheAssumption
    DEF Sources, Views!Sources, Fingerprints, Views!Fingerprints
<1>. QED
  BY <1>1, ViewInvAlways, PTL

\* With `fail' nobody who is to see stubs gets the object's own bytes (README.md:484).
THEOREM FailureIsClosed == Spec => []FailIsClosed
<1>1. ViewInv => FailIsClosed
  BY DEF ViewInv, Honest, FailIsClosed
<1>. QED
  BY <1>1, ViewInvAlways, PTL

-----------------------------------------------------------------------------
\* The opens as ViewService has them.
Shown == [o \in Openers |-> AsAsked(op[o])]

LEMMA ShownChange ==
  ASSUME TypeOK, NEW o \in Openers, NEW x, op' = [op EXCEPT ![o] = x]
  PROVE  Shown' = [Shown EXCEPT ![o] = AsAsked(x)]
<1>1. op'[o] = x /\ \A q \in Openers : q # o => op'[q] = op[q]
  BY DEF TypeOK
<1>2. Shown' = [q \in Openers |-> AsAsked(op'[q])]
  BY DEF Shown, AsAsked
<1>3. \A q \in Openers : Shown'[q] = [Shown EXCEPT ![o] = AsAsked(x)][q]
  BY <1>1, <1>2 DEF Shown
<1>. QED
  BY <1>2, <1>3 DEF Shown

\* A step of an opener whose caller is still waiting.
LEMMA StillAsked ==
  ASSUME TypeOK, NEW o \in Openers, NEW x, op' = [op EXCEPT ![o] = x],
         AsAsked(x) = AsAsked(op[o])
  PROVE  Shown' = Shown
BY ShownChange DEF Shown

\* A settled call is a stub, an error, or still to be passed through.
LEMMA SettledAnswers ==
  ASSUME ViewInv, NEW o \in Openers, op[o].phase \in {"wait", "finish"}, op[o].stub,
         NEW c \in CallStates, c.plan \subseteq Sources(op[o].entry), Settles(c),
         op' = [op EXCEPT ![o] = Settled(o, c)]
  PROVE  \/ Shown' = Shown
         \/ Views!Answer(o)
<1>. DEFINE x == Settled(o, c)
<1>0. TypeOK /\ op[o] \in Opens
  BY DEF ViewInv, CacheInv, TypeOK
<1>1. /\ x.entry = op[o].entry /\ x.stub = op[o].stub /\ x.served = c.plan
      /\ x.phase = (CASE c.err # "none" -> "error"
                      [] c.err = "none" /\ c.plan # {} -> "view"
                      [] OTHER -> "passthrough")
  BY <1>0 DEF Settled, Opens
<1>2. Shown' = [Shown EXCEPT ![o] = AsAsked(x)]
  BY <1>0, ShownChange
<1>3. Shown[o] = AsAsked(op[o]) /\ Shown[o].phase = "asked"
      /\ Shown[o].entry = op[o].entry /\ Shown[o].stub = op[o].stub
  BY DEF Shown, AsAsked
<1>. HIDE DEF x
<1>4. CASE x.phase = "passthrough"
  <2>1. AsAsked(x) = AsAsked(op[o])
    BY <1>1, <1>4 DEF AsAsked
  <2>. QED
    BY <1>2, <2>1 DEF Shown
<1>5. CASE x.phase = "view"
  <2>1. AsAsked(x) = Views!Given(o, "view", c.plan)
    BY <1>1, <1>3, <1>5 DEF AsAsked, Views!Given, Shown
  <2>2. c.plan \in (SUBSET Sources(op[o].entry)) \ {{}}
    BY <1>1, <1>5
  <2>3. Views!GiveStub(o)
    <3>1. Shown' = [Shown EXCEPT ![o] = Views!Given(o, "view", c.plan)]
      BY <1>2, <2>1
    <3>2. c.plan \in (SUBSET Views!Sources(Shown[o].entry)) \ {{}}
      BY <1>3, <2>2 DEF Sources
    <3>3. Shown[o].phase = "asked" /\ Shown[o].stub
      BY <1>3
    <3>. QED
      BY <3>1, <3>2, <3>3, Zenon DEF Views!GiveStub, Shown
  <2>. QED
    BY <2>3 DEF Views!Answer
<1>6. CASE x.phase = "error"
  <2>1. AsAsked(x) = Views!Given(o, "error", {})
    BY <1>1, <1>3, <1>6 DEF AsAsked, Views!Given, Shown
  <2>2. Views!GiveError(o)
    BY <1>2, <1>3, <2>1 DEF Views!GiveError, Shown
  <2>. QED
    BY <2>2 DEF Views!Answer
<1>. QED
  BY <1>1, <1>4, <1>5, <1>6

LEMMA ShownStep ==
  ASSUME ViewInv, [Next]_vars
  PROVE  [Views!ViewNext]_<<object, Shown>>
<1>0. TypeOK /\ \A o \in Openers : op[o] \in Opens /\ Honest(op[o])
  BY DEF ViewInv, CacheInv, TypeOK
<1>1. ASSUME UNCHANGED op PROVE Shown' = Shown
  BY <1>1 DEF Shown, AsAsked
<1>2. ASSUME NEW p \in Paths, Replace(p) PROVE Views!Replaced
  BY <1>1, <1>2 DEF Replace, Views!Replaced, Shown
<1>3. ASSUME NEW o \in Openers, NEW p \in Paths, Open(o, p)
      PROVE  \E e \in Fingerprints, stub \in BOOLEAN :
                e.version <= object[e.path] /\ Views!Ask(o, e, stub)
  <2>1. PICK v \in 1..object[p], stub \in BOOLEAN :
          op' = [op EXCEPT ![o] =
                   [NoOpen EXCEPT !.phase = IF stub THEN "lookup" ELSE "passthrough",
                                  !.entry = [path |-> p, version |-> v],
                                  !.stub = stub]]
    BY <1>3 DEF Open
  <2>. DEFINE e == [path |-> p, version |-> v]
              x == [NoOpen EXCEPT !.phase = IF stub THEN "lookup" ELSE "passthrough",
                                  !.entry = e, !.stub = stub]
  <2>2. e \in Fingerprints /\ e.version <= object[e.path]
    BY <1>0, PlanCacheAssumption DEF TypeOK, Fingerprints
  <2>3. AsAsked(x) = [phase |-> "asked", entry |-> e, stub |-> stub, served |-> {}]
    BY DEF AsAsked, NoOpen
  <2>4. Shown' = [Shown EXCEPT ![o] = AsAsked(x)]
    BY <1>0, <2>1, ShownChange
  <2>5. Shown[o].phase = "idle"
    BY <1>3 DEF Open, Shown, AsAsked
  <2>. HIDE DEF x, e
  <2>6. Views!Ask(o, e, stub)
    BY <2>3, <2>4, <2>5 DEF Views!Ask, Shown
  <2>. QED
    BY <2>2, <2>6
<1>4. ASSUME NEW o \in Openers, Close(o) PROVE Views!Done(o)
  <2>1. AsAsked(NoOpen) = Views!NotOpen
    BY DEF AsAsked, NoOpen, Views!NotOpen
  <2>2. Shown' = [Shown EXCEPT ![o] = AsAsked(NoOpen)]
    BY <1>0, <1>4, ShownChange DEF Close
  <2>3. Shown[o].phase \in {"view", "error"}
    BY <1>4 DEF Close, Shown, AsAsked
  <2>. QED
    BY <2>1, <2>2, <2>3 DEF Views!Done, Shown
<1>5. ASSUME NEW o \in Openers, GiveUp(o) PROVE Views!GiveError(o)
  <2>. DEFINE x == [op[o] EXCEPT !.phase = "error", !.call = None]
  <2>1. op' = [op EXCEPT ![o] = x]
    BY <1>0, <1>5 DEF GiveUp, TypeOK
  <2>2. x.phase = "error" /\ x.entry = op[o].entry /\ x.stub = op[o].stub
    BY <1>0 DEF Opens
  <2>3. Shown[o].phase = "asked" /\ Shown[o].entry = op[o].entry /\ Shown[o].stub = op[o].stub
    BY <1>5 DEF GiveUp, Shown, AsAsked
  <2>4. Shown' = [Shown EXCEPT ![o] = AsAsked(x)]
    BY <1>0, <2>1, ShownChange
  <2>. HIDE DEF x
  <2>5. AsAsked(x) = Views!Given(o, "error", {})
    BY <2>2, <2>3 DEF AsAsked, Views!Given, Shown
  <2>. QED
    BY <2>3, <2>4, <2>5 DEF Views!GiveError, Shown
<1>6. ASSUME NEW o \in Openers, PassThrough(o)
      PROVE  Views!GiveObject(o) \/ Views!GiveError(o)
  <2>1. PICK ok \in BOOLEAN :
          op' = [op EXCEPT ![o] = [op[o] EXCEPT !.phase = IF ok THEN "view" ELSE "error"]]
    BY <1>0, <1>6 DEF PassThrough, TypeOK
  <2>. DEFINE x == [op[o] EXCEPT !.phase = IF ok THEN "view" ELSE "error"]
  <2>2. /\ x.phase = (IF ok THEN "view" ELSE "error") /\ x.entry = op[o].entry
        /\ x.stub = op[o].stub /\ x.served = {}
    BY <1>0, <1>6 DEF Opens, Honest, PassThrough
  <2>3. Shown[o].phase = "asked" /\ Shown[o].entry = op[o].entry /\ Shown[o].stub = op[o].stub
    BY <1>6 DEF PassThrough, Shown, AsAsked
  <2>4. Shown' = [Shown EXCEPT ![o] = AsAsked(x)]
    BY <1>0, <2>1, ShownChange
  <2>. HIDE DEF x
  <2>5. AsAsked(x) = Views!Given(o, IF ok THEN "view" ELSE "error", {})
    BY <2>2, <2>3 DEF AsAsked, Views!Given, Shown
  <2>6. op[o].stub => OnError # "fail"
    BY <1>0, <1>6 DEF Honest, PassThrough
  <2>. QED
    BY <2>3, <2>4, <2>5, <2>6 DEF Views!GiveError, Views!GiveObject, Shown
<1>7. ASSUME NEW o \in Openers, Lead(o) \/ Follow(o) \/ LeaderOpens(o) \/ ProbeReads(o)
                                 \/ LeaderOpenFails(o) \/ ProbeSucceeds(o)
                                 \/ ProbeFails(o) \/ ProbeInterrupted(o)
      PROVE  Shown' = Shown
  <2>1. \E x : /\ op' = [op EXCEPT ![o] = x]
               /\ x.phase \notin {"idle", "view", "error"}
               /\ x.entry = op[o].entry /\ x.stub = op[o].stub
    BY <1>0, <1>7
    DEF Lead, Follow, LeaderOpens, ProbeReads, LeaderOpenFails, ProbeSucceeds, ProbeFails,
        ProbeInterrupted, Resolve, TypeOK, Opens
  <2>2. op[o].phase \notin {"idle", "view", "error"}
    BY <1>7 DEF Lead, Follow, LeaderOpens, ProbeReads, LeaderOpenFails, ProbeSucceeds,
                ProbeFails, ProbeInterrupted
  <2>. QED
    BY <1>0, <2>1, <2>2, StillAsked DEF AsAsked
<1>8. ASSUME NEW o \in Openers, Awake(o) PROVE Shown' = Shown \/ Views!Answer(o)
  <2>. DEFINE c == call[op[o].call]
  <2>1. op[o].phase = "wait" /\ c.ready /\ op' = [op EXCEPT ![o] = Settled(o, c)]
    BY <1>8 DEF Awake
  <2>2. op[o].stub /\ op[o].call \in Calls /\ op[o].call # None
    BY <1>0, <2>1, CoherentNow, PlanCacheAssumption DEF Honest
  <2>3. c \in CallStates /\ c.plan \subseteq Sources(op[o].entry) /\ Settles(c)
    BY <1>0, <2>1, <2>2 DEF TypeOK, ViewInv, Sourced, Told
  <2>. HIDE DEF c
  <2>. QED
    BY <2>1, <2>2, <2>3, SettledAnswers
<1>9. ASSUME NEW o \in Openers, Finish(o) PROVE Shown' = Shown \/ Views!Answer(o)
  BY <1>9, FinishFacts, SettledAnswers DEF Finish
<1>10. ASSUME NEW o \in Openers, NEW p \in Paths, Open(o, p) PROVE UNCHANGED object
  BY <1>10 DEF Open
<1>11. ASSUME NEW o \in Openers, Progress(o) \/ GiveUp(o) \/ Close(o) PROVE UNCHANGED object
  BY <1>11 DEF Progress, Lead, Follow, Awake, LeaderOpens, LeaderOpenFails, ProbeReads,
               ProbeSucceeds, ProbeFails, ProbeInterrupted, Resolve, Finish, PassThrough, GiveUp, Close
<1>12. ASSUME NEW o \in Openers, Progress(o) PROVE Shown' = Shown \/ Views!Answer(o)
  BY <1>6, <1>7, <1>8, <1>9, <1>12 DEF Progress, Views!Answer
<1>13. CASE UNCHANGED vars
  BY <1>1, <1>13 DEF vars
<1>14. CASE Next
  <2>1. CASE \E p \in Paths : Replace(p)
    BY <2>1, <1>2 DEF Views!ViewNext
  <2>2. CASE \E p \in Paths, o \in Openers : Open(o, p)
    <3>1. PICK p \in Paths, o \in Openers : Open(o, p)
      BY <2>2
    <3>2. UNCHANGED object
      BY <3>1, <1>10
    <3>3. PICK e \in Fingerprints, stub \in BOOLEAN :
            e.version <= object[e.path] /\ Views!Ask(o, e, stub)
      BY <3>1, <1>3
    <3>4. Views!ViewNext
      BY <3>2, <3>3 DEF Views!ViewNext, Fingerprints, Views!Fingerprints
    <3>. QED
      BY <3>4
  <2>3. CASE \E o \in Openers : Progress(o)
    BY <2>3, <1>11, <1>12 DEF Views!ViewNext
  <2>4. CASE \E o \in Openers : GiveUp(o)
    BY <2>4, <1>5, <1>11 DEF Views!ViewNext, Views!Answer
  <2>5. CASE \E o \in Openers : Close(o)
    BY <2>5, <1>4, <1>11 DEF Views!ViewNext
  <2>. QED
    BY <1>14, <2>1, <2>2, <2>3, <2>4, <2>5 DEF Next
<1>. QED
  BY <1>13, <1>14

\* PlanCache is a ViewService, for any openers, paths and limits: sharing a probe
\* gives no opener what it could not have got alone.
THEOREM CacheIsViewService == Spec => OpensAsPromised
<1>1. Init => Views!ViewInit
  BY DEF Init, Views!ViewInit, AsAsked, NoOpen, Views!NotOpen
<1>2. ViewInv /\ [Next]_vars => [Views!ViewNext]_<<object, Shown>>
  BY ShownStep
<1>. QED
  BY <1>1, <1>2, ViewInvAlways, PTL DEF Spec, OpensAsPromised, Views!ViewSpec, Shown
=============================================================================
