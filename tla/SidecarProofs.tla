---------------------------- MODULE SidecarProofs ----------------------------
(***************************************************************************)
(* Proofs about SidecarSync for any names, media, contents and bounds.     *)
(***************************************************************************)
EXTENDS SidecarSync, FiniteSetTheorems, TLAPS

(***************************************************************************)
(* The invariant the step proofs carry along: the types, the records, and  *)
(* what is known of the locals at each label.                              *)
(***************************************************************************)

\* What is in hand belongs to a medium, is no duplicate, and its record names a medium still.
InHandOwned ==
    pc \notin Idle => /\ Owner(Here) # None
                      /\ Here \notin dups
                      /\ job.prev.medium \in state.media \cup {None}

\* The locals that have been set, label by label.
LocalsSet ==
    /\ pc \in {"settle", "hash"} => job.prev = state.sidecars[Here]
    /\ pc = "recover" => job.prev.status = "in-doubt"
    /\ pc \in {"compare", "fetch"} => job.ent # NoEntry
    /\ pc \in {"put", "verify"} => job.src \in Contents
    /\ pc \in {"fetch", "rename", "restat"} => Here \notin scan
    /\ pc = "unit" => /\ job.unit \in Media
                      /\ \A s \in job.gone : MatchesSidecarStem(s, job.unit.stem)

\* An upload in doubt gets as far as a PUT only after a stat found nothing, and
\* whatever has been at the path since was written since.
HorizonKept ==
    /\ pc \in {"compare", "open", "put"} /\ state.sidecars[Here].status = "in-doubt" =>
          job.horizon > 0
    /\ job.horizon > 0 =>
          /\ pc \in {"open", "put", "verify"}
          /\ job.horizon <= nextSeq
          /\ Exists(remote[Here]) => remote[Here].mtime >= job.horizon

SidecarInv == TypeOK /\ RecordsOfTracked /\ InHandOwned /\ LocalsSet /\ HorizonKept

-----------------------------------------------------------------------------
(* The values the steps are built from.                                     *)

LEMMA ValueTypes ==
    /\ NoContent \notin Contents
    /\ NoObject \in Objects /\ NoEntry \in Entries
    /\ NoRecord \in Records /\ NoRecord.medium = None
    /\ NoState \in States
    /\ NoJob \in Jobs /\ NoJob.path = None /\ NoJob.horizon = 0
<1>1. NoContent \notin Contents
  BY DEF NoContent, Contents
<1>2. NoObject \in Objects /\ NoEntry \in Entries
  BY DEF NoObject, Objects, NoEntry, Entries
<1>3. NoRecord \in Records /\ NoRecord.medium = None
  BY <1>2 DEF NoRecord, Records, Statuses
<1>4. NoState \in States
  BY <1>3 DEF NoState, States
<1>5. NoJob \in Jobs /\ NoJob.path = None /\ NoJob.horizon = 0
  BY <1>2, <1>3 DEF NoJob, Jobs
<1> QED
  BY <1>1, <1>2, <1>3, <1>4, <1>5

\* The first bytes of a content are a content.
LEMMA PrefixType ==
    ASSUME NEW c \in Contents, NEW n \in Nat \ {0}, n <= c.size
    PROVE  Prefix(c, n) \in Contents
<1>1. c \in [of : Bytes, size : Nat \ {0}] /\ c.size <= SizeOf[c.of]
  BY DEF Contents
<1>2. SizeOf[c.of] \in Nat
  BY <1>1, SidecarAssumption
<1> QED
  BY <1>1, <1>2 DEF Prefix, Contents

LEMMA WholeType == \A b \in Bytes : Whole(b) \in Contents
BY SidecarAssumption DEF Whole, Contents

\* An object that exists has a content and is listed with its size.
LEMMA ExistingObject ==
    ASSUME NEW o \in Objects
    PROVE  /\ Listed(o) \in Entries
           /\ Exists(o) => o.content \in Contents /\ Listed(o) # NoEntry
BY ValueTypes DEF Objects, Entries, Listed, Exists, NoObject, NoEntry, NoContent, Contents

\* A write leaves the objects typed, and dates what it writes no earlier than what it replaces.
LEMMA StoresType ==
    ASSUME remote \in [Sidecars -> Objects], nextSeq \in Nat \ {0},
           NEW s \in Sidecars, NEW c \in Contents, Stores(s, c)
    PROVE  /\ remote' \in [Sidecars -> Objects]
           /\ nextSeq' = nextSeq + 1
           /\ \A t \in Sidecars \ {s} : remote'[t] = remote[t]
           /\ \/ remote'[s].mtime = nextSeq
              \/ Exists(remote[s]) /\ remote'[s].mtime = remote[s].mtime
<1>1. PICK o \in Written(s, c) : remote' = [remote EXCEPT ![s] = o]
  BY DEF Stores
<1>2. /\ o \in Objects
      /\ o.mtime = nextSeq \/ (o.mtime = remote[s].mtime /\ remote[s].mtime # 0)
  BY <1>1 DEF Written, Objects, NoObject
<1> QED
  BY <1>1, <1>2 DEF Stores, Exists, NoObject

\* The medium ClassifySidecar finds is the one candidate of the longest stem.
LEMMA Classified ==
    ASSUME NEW s, NEW ms \in SUBSET Media, ClassifySidecar(s, ms) # None
    PROVE  /\ ClassifySidecar(s, ms) \in ms
           /\ Longest(Matching(s, ms)) = {ClassifySidecar(s, ms)}
<1> DEFINE best == Longest(Matching(s, ms))
<1>1. IsFiniteSet(best)
  BY SidecarAssumption, FS_Subset DEF Longest, Matching
<1>2. Cardinality(best) = 1
  BY DEF ClassifySidecar
<1>3. PICK m : best = {m}
  BY <1>1, <1>2, FS_Singleton
<1>4. ClassifySidecar(s, ms) = m
  BY <1>2, <1>3 DEF ClassifySidecar
<1>5. m \in ms
  BY <1>3 DEF Longest, Matching
<1> QED
  BY <1>3, <1>4, <1>5

LEMMA OwnerType ==
    ASSUME NEW s, state \in States
    PROVE  Owner(s) \in state.media \cup {None} /\ Owner(s) \in Media \cup {None}
BY Classified DEF Owner, States

\* A record in the place of another.
LEMMA RecordStored ==
    ASSUME state \in States, NEW s \in Sidecars, NEW rec \in Records,
           state' = [state EXCEPT !.sidecars[s] = rec]
    PROVE  /\ state' \in States
           /\ state'.media = state.media
           /\ state'.sidecars[s] = rec
           /\ \A t \in Sidecars \ {s} : state'.sidecars[t] = state.sidecars[t]
<1>1. state' = [media |-> state.media, sidecars |-> [state.sidecars EXCEPT ![s] = rec]]
  BY DEF States
<1> QED
  BY <1>1 DEF States

-----------------------------------------------------------------------------
LEMMA InvInit == Init => SidecarInv
<1> SUFFICES ASSUME Init PROVE SidecarInv
  OBVIOUS
<1>1. TypeOK
  <2>1. pc \in Labels /\ pc \in Idle
    BY DEF Init, Labels, Idle
  <2>2. /\ local \in [Sidecars -> Contents \cup {NoContent}]
        /\ remote \in [Sidecars -> Objects]
        /\ snap \in [Sidecars -> Entries]
    BY ValueTypes DEF Init
  <2>3. nextSeq \in Nat \ {0} /\ stray \subseteq Requests
    BY DEF Init
  <2> QED
    BY <2>1, <2>2, <2>3, ValueTypes DEF Init, TypeOK, Here
<1>2. RecordsOfTracked
  BY ValueTypes DEF Init, RecordsOfTracked, NoState
<1>3. InHandOwned /\ LocalsSet /\ HorizonKept
  BY ValueTypes DEF Init, InHandOwned, LocalsSet, HorizonKept, Idle
<1> QED
  BY <1>1, <1>2, <1>3 DEF SidecarInv

-----------------------------------------------------------------------------
(* What the steps of the service have in common.                            *)

\* What is known while a candidate is in hand.
LEMMA InHand ==
    ASSUME SidecarInv, pc \notin Idle
    PROVE  /\ Here \in Sidecars /\ job.path \in Sidecars
           /\ local[Here] \in Contents \cup {NoContent}
           /\ Present(local[Here]) => local[Here] \in Contents
           /\ remote[Here] \in Objects
           /\ Owner(Here) \in state.media /\ Owner(Here) \in Media
           /\ state.sidecars[Here] \in Records
           /\ state.sidecars[Here].medium \in state.media \cup {None}
           /\ job.prev \in Records /\ job.ent \in Entries
           /\ job.hash \in Contents \cup {NoContent}
<1>1. Here \in Sidecars /\ job.path \in Sidecars
  BY DEF SidecarInv, TypeOK, Jobs, Here
<1>2. Owner(Here) \in state.media /\ Owner(Here) \in Media
  BY OwnerType DEF SidecarInv, InHandOwned, TypeOK
<1>3. state.sidecars[Here] \in Records
  BY <1>1 DEF SidecarInv, TypeOK, States
<1>4. state.sidecars[Here].medium \in state.media \cup {None}
  BY <1>1 DEF SidecarInv, RecordsOfTracked
<1>5. job.prev \in Records /\ job.ent \in Entries /\ job.hash \in Contents \cup {NoContent}
  BY DEF SidecarInv, TypeOK, Jobs
<1> QED
  BY <1>1, <1>2, <1>3, <1>4, <1>5 DEF SidecarInv, TypeOK, Present

\* The records the service writes.
LEMMA RecordTypes ==
    ASSUME SidecarInv, pc \notin Idle
    PROVE  /\ \A c \in Contents \cup {NoContent}, e \in Entries :
                 /\ Synchronized(c, e) \in Records
                 /\ Synchronized(c, e).medium \in state.media \cup {None}
           /\ \A t \in Statuses : /\ Failed(t) \in Records
                                  /\ Failed(t).medium \in state.media \cup {None}
           /\ DownloadFailed \in Records
           /\ DownloadFailed.medium \in state.media \cup {None}
<1>1. job.prev \in Records /\ job.prev.medium \in state.media \cup {None}
  BY InHand DEF SidecarInv, InHandOwned
<1> QED
  BY <1>1, InHand DEF Synchronized, Failed, DownloadFailed, Records, Statuses

\* The variables that a step on a candidate may change have their types.
OthersTyped ==
    /\ local \in [Sidecars -> Contents \cup {NoContent}]
    /\ remote \in [Sidecars -> Objects]
    /\ stray \subseteq Requests
    /\ nextSeq \in Nat \ {0}
    /\ snap \in [Sidecars -> Entries]

LEMMA OthersKept ==
    ASSUME SidecarInv
    PROVE  /\ OthersTyped
           /\ UNCHANGED <<world, snap>> => OthersTyped'
BY DEF SidecarInv, TypeOK, OthersTyped, world

\* The step is done with the candidate.
LEMMA DoneStep ==
    ASSUME SidecarInv, pc \notin Idle, NEW rec \in Records, rec.medium \in state.media \cup {None},
           Done(rec), OthersTyped', UNCHANGED <<calm, saved, pass>>
    PROVE  SidecarInv'
<1>1. /\ state' \in States /\ state'.media = state.media
      /\ \A s \in Sidecars : state'.sidecars[s].medium \in state.media \cup {None}
  <2>1. state' = [state EXCEPT !.sidecars[Here] = rec]
    BY DEF Done
  <2>2. state \in States /\ Here \in Sidecars
    BY InHand DEF SidecarInv, TypeOK
  <2>3. /\ state' \in States /\ state'.media = state.media /\ state'.sidecars[Here] = rec
        /\ \A t \in Sidecars \ {Here} : state'.sidecars[t] = state.sidecars[t]
    BY <2>1, <2>2, RecordStored
  <2> QED
    BY <2>3 DEF SidecarInv, RecordsOfTracked
<1>2. pc' = "next" /\ job' = NoJob
  BY DEF Done, Go
<1>3. pc' \in Labels /\ pc' \in Idle
  BY <1>2 DEF Labels, Idle
<1>4. TypeOK'
  BY <1>1, <1>2, <1>3, ValueTypes DEF SidecarInv, TypeOK, OthersTyped, pass, Here
<1>5. RecordsOfTracked'
  BY <1>1 DEF SidecarInv, RecordsOfTracked
<1>6. InHandOwned' /\ LocalsSet' /\ HorizonKept'
  BY <1>2, <1>3, ValueTypes DEF InHandOwned, LocalsSet, HorizonKept
<1> QED
  BY <1>4, <1>5, <1>6 DEF SidecarInv

\* The step goes on with the candidate.
LEMMA GoOnStep ==
    ASSUME SidecarInv, pc \notin Idle, pc' \in Labels \ Idle,
           job' \in Jobs, job'.path = job.path, job'.prev.medium \in state.media \cup {None},
           OthersTyped', UNCHANGED <<calm, saved, state, pass>>, LocalsSet', HorizonKept'
    PROVE  SidecarInv'
<1>1. Here' = Here /\ Owner(Here)' = Owner(Here)
  BY DEF Here, Owner
<1>2. TypeOK'
  BY InHand, ValueTypes DEF SidecarInv, TypeOK, OthersTyped, pass, Here
<1>3. RecordsOfTracked' /\ InHandOwned'
  BY <1>1 DEF SidecarInv, RecordsOfTracked, InHandOwned, pass
<1> QED
  BY <1>2, <1>3 DEF SidecarInv

\* An error that leaves the record as it is.
LEMMA ContinueStep == ASSUME SidecarInv, pc \notin Idle, Continue PROVE SidecarInv'
BY DoneStep, InHand, OthersKept DEF Continue, world

\* No candidate is in hand before the step, nor after it.
LEMMA IdleStep ==
    ASSUME SidecarInv, pc' \in Idle, pc' # "unit",
           job' = NoJob \/ (pc \in Idle /\ job' = job),
           OthersTyped', calm' \in BOOLEAN, poll' \in BOOLEAN,
           dups' \subseteq Sidecars, scan' \subseteq Sidecars, todo' \subseteq Sidecars,
           state' \in States, saved' \in States, RecordsOfTracked'
    PROVE  SidecarInv'
<1>1. job' \in Jobs /\ job'.path = None /\ job'.horizon = 0
  <2>1. CASE pc \in Idle /\ job' = job
    <3>1. job \in Jobs /\ job.path = None
      BY <2>1 DEF SidecarInv, TypeOK, Here
    <3>2. ~(job.horizon > 0)
      BY <2>1 DEF SidecarInv, HorizonKept, Idle
    <3> QED
      BY <2>1, <3>1, <3>2 DEF Jobs
  <2> QED
    BY <2>1, ValueTypes
<1>2. TypeOK'
  <2>1. pc' \in Labels
    BY DEF Labels
  <2> QED
    BY <1>1, <2>1 DEF TypeOK, OthersTyped, Here
<1>3. InHandOwned' /\ LocalsSet' /\ HorizonKept'
  BY <1>1 DEF InHandOwned, LocalsSet, HorizonKept, Idle
<1> QED
  BY <1>2, <1>3 DEF SidecarInv

\* As IdleStep, for a step that leaves both sets of records as they are.
LEMMA QuietStep ==
    ASSUME SidecarInv, pc' \in Idle, pc' # "unit",
           job' = NoJob \/ (pc \in Idle /\ job' = job),
           OthersTyped', calm' = calm, poll' \in BOOLEAN,
           dups' \subseteq Sidecars, scan' \subseteq Sidecars, todo' \subseteq Sidecars,
           UNCHANGED <<state, saved>>
    PROVE  SidecarInv'
<1>1. RecordsOfTracked'
  BY DEF SidecarInv, RecordsOfTracked
<1> QED
  BY <1>1, IdleStep DEF SidecarInv, TypeOK

-----------------------------------------------------------------------------
(* Starting, stopping and the passes.                                       *)

LEMMA HaltStep ==
    ASSUME SidecarInv, Halt, UNCHANGED <<local, remote, nextSeq, calm>>,
           stray' \subseteq Requests, saved' = saved \/ saved' = state
    PROVE  SidecarInv'
<1>1. /\ saved' \in States /\ state' \in States
      /\ RecordsOfTracked'
  BY ValueTypes DEF Halt, SidecarInv, TypeOK, RecordsOfTracked, NoState
<1>2. pc' \in Idle /\ pc' # "unit" /\ job' = NoJob
  BY DEF Halt, Go, Idle
<1>3. OthersTyped'
  BY ValueTypes DEF Halt, OthersTyped, SidecarInv, TypeOK
<1> QED
  BY <1>1, <1>2, <1>3, IdleStep DEF Halt, SidecarInv, TypeOK

LEMMA InFlightType ==
    ASSUME SidecarInv, pc = "put"
    PROVE  InFlight \in Requests
BY InHand DEF SidecarInv, LocalsSet, InFlight, Requests, Idle

LEMMA StrandedType == ASSUME SidecarInv, stray' \in Stranded PROVE stray' \subseteq Requests
BY InFlightType DEF Stranded, SidecarInv, TypeOK

LEMMA StopStep == ASSUME SidecarInv, Crash \/ Shutdown PROVE SidecarInv'
BY HaltStep, StrandedType DEF Crash, Shutdown, world, SidecarInv, TypeOK

LEMMA PassStep ==
    ASSUME SidecarInv, Start \/ PollTick \/ Debounce \/ ScanRemote \/ ScanLocal \/ ScanFails
    PROVE  SidecarInv'
<1> USE DEF Go
<1>1. CASE Start
  <2>1. RecordsOfTracked' /\ state' \in States /\ saved' \in States
    BY <1>1 DEF Start, SidecarInv, RecordsOfTracked, TypeOK
  <2>2. pc \in Idle /\ pc' \in Idle /\ pc' # "unit"
    BY <1>1 DEF Start, Idle
  <2> QED
    BY <1>1, <2>1, <2>2, IdleStep, OthersKept DEF Start, SidecarInv, TypeOK, world
<1>2. CASE PollTick \/ Debounce \/ ScanLocal
  <2>1. pc \in Idle /\ pc' \in Idle /\ pc' # "unit"
    BY <1>2 DEF PollTick, Debounce, ScanLocal, Idle
  <2> QED
    BY <1>2, <2>1, QuietStep, OthersKept
       DEF PollTick, Debounce, ScanLocal, SidecarInv, TypeOK, world, pass
<1>3. CASE ScanRemote
  <2>1. dups' \subseteq Sidecars /\ snap' \in [Sidecars -> Entries]
    <3>1. \A s \in Sidecars : Listed(remote[s]) \in Entries
      BY ExistingObject DEF SidecarInv, TypeOK
    <3> QED
      BY <1>3, <3>1, ValueTypes DEF ScanRemote
  <2>2. pc \in Idle /\ pc' \in Idle /\ pc' # "unit"
    BY <1>3 DEF ScanRemote, Idle
  <2>3. OthersTyped'
    BY <1>3, <2>1 DEF ScanRemote, OthersTyped, SidecarInv, TypeOK, world
  <2> QED
    BY <1>3, <2>1, <2>2, <2>3, QuietStep DEF ScanRemote, SidecarInv, TypeOK, world
<1>4. CASE ScanFails
  <2>1. pc' \in Idle /\ pc' # "unit"
    BY <1>4 DEF ScanFails, EndPass, Idle
  <2> QED
    BY <1>4, <2>1, QuietStep, OthersKept DEF ScanFails, EndPass, SidecarInv, TypeOK, world
<1> QED
  BY <1>1, <1>2, <1>3, <1>4

-----------------------------------------------------------------------------
(* The media pass.                                                          *)

LEMMA TrackStep == ASSUME SidecarInv, NEW m \in Media, Track(m) PROVE SidecarInv'
<1>1. state' = [media |-> state.media \cup {m}, sidecars |-> state.sidecars]
  BY DEF Track, SidecarInv, TypeOK, States
<1>2. state' \in States /\ RecordsOfTracked'
  BY <1>1 DEF Track, SidecarInv, TypeOK, States, RecordsOfTracked
<1>3. pc \in Idle /\ pc' \in Idle /\ pc' # "unit"
  BY DEF Track, Idle
<1> QED
  BY <1>2, <1>3, IdleStep, OthersKept DEF Track, SidecarInv, TypeOK, world, pass

\* While a unit is being removed no candidate is in hand, and all it takes along match.
LEMMA UnitStep ==
    ASSUME SidecarInv, pc' = "unit", job' \in Jobs, job'.path = None, job'.horizon = 0,
           job'.unit \in Media, \A s \in job'.gone : MatchesSidecarStem(s, job'.unit.stem),
           OthersTyped', UNCHANGED <<calm, saved, pass>>, state' \in States, RecordsOfTracked'
    PROVE  SidecarInv'
<1>1. TypeOK'
  BY DEF SidecarInv, TypeOK, OthersTyped, pass, Here, Labels, Idle
<1> QED
  BY <1>1 DEF SidecarInv, InHandOwned, LocalsSet, HorizonKept, Idle

LEMMA BeginRemovalStep == ASSUME SidecarInv, NEW m \in Media, BeginRemoval(m) PROVE SidecarInv'
<1>1. job' = [NoJob EXCEPT !.unit = m, !.gone = UnitSidecars(m)]
  BY DEF BeginRemoval
<1>2. job' \in Jobs /\ job'.path = None /\ job'.horizon = 0 /\ job'.unit = m
      /\ job'.gone = UnitSidecars(m)
  BY <1>1, ValueTypes DEF Jobs, NoJob, UnitSidecars
<1>3. \A s \in UnitSidecars(m) : MatchesSidecarStem(s, m.stem)
  <2>1. ASSUME NEW s \in UnitSidecars(m) PROVE MatchesSidecarStem(s, m.stem)
    <3>1. ClassifySidecar(s, {m}) = m /\ m # None
      BY SidecarAssumption DEF UnitSidecars
    <3>2. m \in Longest(Matching(s, {m}))
      BY <3>1, Classified
    <3> QED
      BY <3>2 DEF Longest, Matching
  <2> QED
    BY <2>1
<1>4. RecordsOfTracked'
  BY DEF BeginRemoval, SidecarInv, RecordsOfTracked
<1> QED
  BY <1>2, <1>3, <1>4, UnitStep, OthersKept DEF BeginRemoval, Go, SidecarInv, TypeOK, world

LEMMA RemoveSidecarStep ==
    ASSUME SidecarInv, NEW s \in Sidecars, RemoveSidecar(s)
    PROVE  SidecarInv'
<1>1. pc \in Idle /\ pc = "unit" /\ pc' = "unit"
  BY DEF RemoveSidecar, Idle
<1>2. job \in Jobs /\ job.path = None /\ job.horizon = 0
  BY <1>1 DEF SidecarInv, TypeOK, Here, HorizonKept, Jobs
<1>3. /\ job' \in Jobs /\ job'.path = None /\ job'.horizon = 0 /\ job'.unit = job.unit
      /\ job'.gone = job.gone \ {s}
  BY <1>2 DEF RemoveSidecar, Jobs
<1>4. /\ state' \in States /\ state'.media = state.media
      /\ \A t \in Sidecars : state'.sidecars[t].medium \in state.media \cup {None}
  <2>1. state \in States /\ state' = [state EXCEPT !.sidecars[s] = NoRecord]
    BY DEF RemoveSidecar, SidecarInv, TypeOK
  <2>2. /\ state' \in States /\ state'.media = state.media /\ state'.sidecars[s] = NoRecord
        /\ \A t \in Sidecars \ {s} : state'.sidecars[t] = state.sidecars[t]
    BY <2>1, RecordStored, ValueTypes
  <2> QED
    BY <2>2, ValueTypes DEF SidecarInv, RecordsOfTracked
<1>5. RecordsOfTracked'
  BY <1>4 DEF RemoveSidecar, SidecarInv, RecordsOfTracked
<1>6. OthersTyped'
  BY DEF RemoveSidecar, OthersTyped, SidecarInv, TypeOK
<1> QED
  BY <1>1, <1>3, <1>4, <1>5, <1>6, UnitStep DEF RemoveSidecar, SidecarInv, LocalsSet

LEMMA RemoveUnitStep == ASSUME SidecarInv, RemoveUnit PROVE SidecarInv'
<1>1. state'.media = state.media \ {job.unit}
  BY DEF RemoveUnit
<1>2. \A s \in Sidecars :
         /\ state'.sidecars[s] \in {NoRecord, state.sidecars[s]}
         /\ state.sidecars[s].medium = job.unit => state'.sidecars[s] = NoRecord
  BY DEF RemoveUnit
<1>3. state' \in States
  <2>1. \A s \in Sidecars : state.sidecars[s] \in Records
    BY DEF SidecarInv, TypeOK, States
  <2>2. state.media \ {job.unit} \subseteq Media
    BY DEF SidecarInv, TypeOK, States
  <2> QED
    BY <2>1, <2>2, ValueTypes DEF RemoveUnit, States
<1>4. RecordsOfTracked'
  BY <1>1, <1>2, ValueTypes DEF RemoveUnit, SidecarInv, RecordsOfTracked
<1>5. pc' \in Idle /\ pc' # "unit"
  BY DEF RemoveUnit, Go, Idle
<1> QED
  BY <1>3, <1>4, <1>5, IdleStep, OthersKept DEF RemoveUnit, SidecarInv, TypeOK, world, pass

LEMMA MediaStep == ASSUME SidecarInv, MediaPass PROVE SidecarInv'
<1>1. CASE RemovalFails
  <2>1. pc' \in Idle /\ pc' # "unit"
    BY <1>1 DEF RemovalFails, Go, Idle
  <2> QED
    BY <1>1, <2>1, QuietStep, OthersKept DEF RemovalFails, SidecarInv, TypeOK, world, pass
<1>2. CASE SaveMedia
  <2>1. pc \in Idle /\ pc' \in Idle /\ pc' # "unit"
    BY <1>2 DEF SaveMedia, EndPass, Go, Idle
  <2>2. saved' \in States /\ RecordsOfTracked'
    BY <1>2 DEF SaveMedia, SidecarInv, TypeOK, RecordsOfTracked
  <2>3. job' = NoJob \/ job' = job
    BY <1>2 DEF SaveMedia, EndPass
  <2> QED
    BY <1>2, <2>1, <2>2, <2>3, IdleStep, OthersKept
       DEF SaveMedia, EndPass, SidecarInv, TypeOK, world
<1> QED
  BY <1>1, <1>2, TrackStep, BeginRemovalStep, RemoveSidecarStep, RemoveUnitStep DEF MediaPass
-----------------------------------------------------------------------------
(* Taking the next candidate.                                               *)

LEMMA BoundsStep == ASSUME SidecarInv, Rescan \/ FinishPass PROVE SidecarInv'
<1>1. pc \in Idle /\ pc' \in Idle /\ pc' # "unit"
  BY DEF Rescan, FinishPass, EndPass, Go, Idle
<1>2. saved' \in States /\ RecordsOfTracked'
  BY DEF Rescan, FinishPass, SidecarInv, TypeOK, RecordsOfTracked
<1>3. job' = NoJob \/ job' = job
  BY DEF Rescan, FinishPass, EndPass
<1> QED
  BY <1>1, <1>2, <1>3, IdleStep, OthersKept
     DEF Rescan, FinishPass, EndPass, SidecarInv, TypeOK, world

\* A candidate that is passed over, or forgotten.
LEMMA PassedOverStep ==
    ASSUME SidecarInv, NEW s \in Sidecars, SkipDuplicate(s) \/ Forget(s)
    PROVE  SidecarInv'
<1>1. pc \in Idle /\ pc' \in Idle /\ pc' # "unit"
  BY DEF SkipDuplicate, Forget, Take, Idle
<1>2. state' \in States /\ RecordsOfTracked'
  <2>1. CASE SkipDuplicate(s)
    BY <2>1 DEF SkipDuplicate, Take, SidecarInv, TypeOK, RecordsOfTracked
  <2>2. CASE Forget(s)
    <3>1. state \in States /\ state' = [state EXCEPT !.sidecars[s] = NoRecord]
      BY <2>2 DEF Forget, SidecarInv, TypeOK
    <3>2. /\ state' \in States /\ state'.media = state.media /\ state'.sidecars[s] = NoRecord
          /\ \A t \in Sidecars \ {s} : state'.sidecars[t] = state.sidecars[t]
      BY <3>1, RecordStored, ValueTypes
    <3> QED
      BY <2>2, <3>2, ValueTypes DEF Forget, Take, SidecarInv, RecordsOfTracked
  <2> QED
    BY <2>1, <2>2
<1> QED
  BY <1>1, <1>2, IdleStep, OthersKept
     DEF SkipDuplicate, Forget, Take, SidecarInv, TypeOK, world

\* A candidate that is taken in hand.
LEMMA TakenStep ==
    ASSUME SidecarInv, NEW s \in Sidecars, TakeLocal(s) \/ TakeRemote(s)
    PROVE  SidecarInv'
<1>1. /\ pc \in Idle /\ pc' \in Labels \ Idle /\ pc' \in {"settle", "fetch"}
      /\ pc' = "fetch" => s \notin scan /\ snap[s] # NoEntry
  BY DEF TakeLocal, TakeRemote, Take, Go, Idle, Labels
<1>2. /\ job' = JobFor(s) /\ s \notin dups /\ Owner(s) # None
      /\ todo' \subseteq Sidecars
      /\ UNCHANGED <<world, saved, state, poll, snap, dups, scan>>
  BY DEF TakeLocal, TakeRemote, Take, DuplicateBlocked, SidecarInv, TypeOK
<1>3. /\ job' \in Jobs /\ job'.path = s /\ job'.horizon = 0
      /\ job'.prev = state.sidecars[s] /\ job'.ent = snap[s]
  <2>1. state.sidecars[s] \in Records /\ snap[s] \in Entries
    BY DEF SidecarInv, TypeOK, States
  <2> QED
    BY <1>2, <2>1, ValueTypes DEF JobFor, NoJob, Jobs
<1>4. Here' = s /\ s # None /\ Owner(s)' = Owner(s)
  BY <1>2, <1>3, SidecarAssumption DEF Here, Owner
<1>5. TypeOK'
  BY <1>1, <1>2, <1>3, <1>4 DEF SidecarInv, TypeOK, world, Here
<1>6. RecordsOfTracked'
  BY <1>2 DEF SidecarInv, RecordsOfTracked
<1>7. InHandOwned'
  BY <1>2, <1>3, <1>4 DEF InHandOwned, SidecarInv, RecordsOfTracked
<1>8. LocalsSet' /\ HorizonKept'
  BY <1>1, <1>2, <1>3, <1>4 DEF LocalsSet, HorizonKept
<1> QED
  BY <1>5, <1>6, <1>7, <1>8 DEF SidecarInv

LEMMA TakeStep == ASSUME SidecarInv, TakeNext PROVE SidecarInv'
BY PassedOverStep, TakenStep DEF TakeNext

-----------------------------------------------------------------------------
(* The local copy exists.                                                   *)

\* A job with some of its fields changed.
LEMMA JobFields ==
    ASSUME SidecarInv
    PROVE  /\ \A n \in Nat : [job EXCEPT !.size = n] \in Jobs
           /\ \A c \in Contents : /\ [job EXCEPT !.hash = c] \in Jobs
                                  /\ [job EXCEPT !.src = c] \in Jobs
           /\ \A e \in Entries, n \in Nat : [job EXCEPT !.ent = e, !.horizon = n] \in Jobs
           /\ \A r \in Records, e \in Entries : [job EXCEPT !.prev = r, !.ent = e] \in Jobs
BY DEF SidecarInv, TypeOK, Jobs

\* A step that goes on with the locals j to the upload, or is done without it.
LEMMA ProceedStep ==
    ASSUME SidecarInv, pc \notin Idle, NEW j \in Jobs, NEW need \in BOOLEAN, Proceed(j, need),
           j.path = job.path, j.prev.medium \in state.media \cup {None},
           OthersTyped', UNCHANGED <<calm, saved, pass, remote, nextSeq>>,
           need /\ state.sidecars[Here].status = "in-doubt" => j.horizon > 0,
           j.horizon > 0 => /\ j.horizon <= nextSeq
                            /\ Exists(remote[Here]) => remote[Here].mtime >= j.horizon
    PROVE  SidecarInv'
<1>1. CASE need
  <2>1. job' = j /\ pc' = "open" /\ state' = state
    BY <1>1 DEF Proceed, Go
  <2>2. pc' \in Labels \ Idle
    BY <2>1 DEF Labels, Idle
  <2>3. LocalsSet' /\ HorizonKept'
    BY <1>1, <2>1 DEF LocalsSet, HorizonKept, Here
  <2> QED
    BY <2>1, <2>2, <2>3, GoOnStep
<1>2. CASE ~need
  <2>1. PICK c \in Contents \cup {NoContent} : Done(Synchronized(c, j.ent))
    BY <1>2 DEF Proceed, Jobs, Records
  <2>2. j.ent \in Entries
    BY DEF Jobs
  <2> QED
    BY <2>1, <2>2, RecordTypes, DoneStep
<1> QED
  BY <1>1, <1>2

\* The same of a step that may have to read the remote bytes first.
LEMMA DecideStep ==
    ASSUME SidecarInv, pc \notin Idle, NEW j \in Jobs, Decide(j),
           j.path = job.path, j.prev.medium \in state.media \cup {None},
           OthersTyped', UNCHANGED <<calm, saved, pass, remote, nextSeq>>,
           MustCompare(j) => j.horizon = 0 /\ state.sidecars[Here].status # "in-doubt",
           NeedUpload(j) /\ state.sidecars[Here].status = "in-doubt" => j.horizon > 0,
           j.horizon > 0 => /\ j.horizon <= nextSeq
                            /\ Exists(remote[Here]) => remote[Here].mtime >= j.horizon
    PROVE  SidecarInv'
<1>1. CASE MustCompare(j)
  <2>1. job' = j /\ pc' = "compare" /\ state' = state
    BY <1>1 DEF Decide, Go
  <2>2. pc' \in Labels \ Idle
    BY <2>1 DEF Labels, Idle
  <2>3. LocalsSet' /\ HorizonKept'
    BY <1>1, <2>1 DEF LocalsSet, HorizonKept, MustCompare, Here
  <2> QED
    BY <2>1, <2>2, <2>3, GoOnStep
<1>2. CASE ~MustCompare(j)
  <2>1. NeedUpload(j) \in BOOLEAN /\ Proceed(j, NeedUpload(j))
    BY <1>2 DEF Decide, NeedUpload
  <2> QED
    BY <2>1, ProceedStep
<1> QED
  BY <1>1, <1>2

LEMMA SettleStep == ASSUME SidecarInv, Settle \/ SettleFails PROVE SidecarInv'
<1>1. pc \notin Idle
  BY DEF Settle, SettleFails, Idle
<1>2. CASE Settle
  <2>1. local[Here].size \in Nat
    BY <1>1, <1>2, InHand DEF Settle, Contents
  <2>2. /\ job' \in Jobs /\ job'.path = job.path /\ job'.prev = job.prev
        /\ job'.horizon = job.horizon
    BY <1>2, <2>1, JobFields DEF Settle, SidecarInv, TypeOK, Jobs
  <2>3. pc = "settle" /\ pc' = "hash" /\ pc' \in Labels \ Idle
    BY <1>2 DEF Settle, Go, Labels, Idle
  <2>4. LocalsSet' /\ HorizonKept'
    BY <1>2, <2>2, <2>3 DEF Settle, SidecarInv, LocalsSet, HorizonKept, Here
  <2> QED
    BY <1>1, <1>2, <2>2, <2>3, <2>4, GoOnStep, OthersKept
       DEF Settle, SidecarInv, InHandOwned, world
<1>3. CASE SettleFails
  BY <1>1, <1>3, ContinueStep DEF SettleFails
<1> QED
  BY <1>2, <1>3

LEMMA HashStep == ASSUME SidecarInv, Hash PROVE SidecarInv'
<1> DEFINE j == [job EXCEPT !.hash = local[Here]]
<1>1. pc \notin Idle /\ pc = "hash"
  BY DEF Hash, Idle
<1>2. j \in Jobs /\ j.path = job.path /\ j.prev = job.prev /\ j.horizon = job.horizon
  <2>1. local[Here] \in Contents
    BY <1>1, InHand DEF Hash
  <2> QED
    BY <2>1, JobFields DEF SidecarInv, TypeOK, Jobs
<1>3. job.horizon = 0 /\ job.prev = state.sidecars[Here]
      /\ job.prev.medium \in state.media \cup {None}
  BY <1>1 DEF SidecarInv, HorizonKept, LocalsSet, InHandOwned, TypeOK, Jobs
<1>4. OthersTyped' /\ UNCHANGED <<calm, saved, pass, remote, nextSeq>>
  BY OthersKept DEF Hash, world
<1>5. CASE job.prev.status = "in-doubt"
  <2>1. job' = j /\ pc' = "recover" /\ state' = state
    BY <1>2, <1>5 DEF Hash, Go
  <2>2. pc' \in Labels \ Idle
    BY <2>1 DEF Labels, Idle
  <2>3. LocalsSet' /\ HorizonKept'
    BY <1>2, <1>3, <1>5, <2>1 DEF LocalsSet, HorizonKept
  <2> HIDE DEF j
  <2> QED
    BY <1>1, <1>2, <1>3, <1>4, <2>1, <2>2, <2>3, GoOnStep
<1>6. CASE job.prev.status # "in-doubt"
  <2>1. Decide(j)
    BY <1>2, <1>6 DEF Hash
  <2> HIDE DEF j
  <2> QED
    BY <1>1, <1>2, <1>3, <1>4, <1>6, <2>1, DecideStep
<1> QED
  BY <1>5, <1>6
LEMMA RecoverFoundStep == ASSUME SidecarInv, RecoverFound PROVE SidecarInv'
<1> DEFINE entry == Listed(remote[Here])
           prev == [job.prev EXCEPT !.last = job.hash, !.rem = entry]
           j == [job EXCEPT !.prev = prev, !.ent = entry]
<1>1. pc \notin Idle /\ pc = "recover"
  BY DEF RecoverFound, Idle
<1>2. /\ entry \in Entries /\ entry.etag # 0
      /\ prev \in Records /\ prev.medium = job.prev.medium
      /\ prev.rem = entry /\ prev.last = job.hash /\ prev.status = job.prev.status
  <2>1. entry \in Entries /\ entry.etag # 0
    BY <1>1, InHand, ExistingObject DEF RecoverFound, Recognized, Listed
  <2> HIDE DEF entry
  <2> QED
    BY <1>1, <2>1, InHand DEF Records
<1>3. /\ j \in Jobs /\ j.path = job.path /\ j.horizon = job.horizon
      /\ j.prev = prev /\ j.ent = entry /\ j.hash = job.hash
  <2> HIDE DEF prev, entry
  <2> QED
    BY <1>2, JobFields DEF SidecarInv, TypeOK, Jobs
<1>4. job.horizon = 0 /\ job.prev.medium \in state.media \cup {None}
  BY <1>1 DEF SidecarInv, HorizonKept, InHandOwned, TypeOK, Jobs
<1>5. Decide(j) /\ UNCHANGED <<world, saved, pass>> /\ snap' = [snap EXCEPT ![Here] = entry]
  BY DEF RecoverFound
<1>6. ~MustCompare(j) /\ ~NeedUpload(j)
  <2>1. job.prev.status = "in-doubt"
    BY <1>1 DEF SidecarInv, LocalsSet
  <2> HIDE DEF j, prev, entry
  <2>2. entry # NoEntry
    BY <1>2 DEF NoEntry
  <2> QED
    BY <1>2, <1>3, <2>1, <2>2 DEF MustCompare, NeedUpload, Known
<1>7. OthersTyped' /\ UNCHANGED <<calm, remote, nextSeq>>
  <2> HIDE DEF entry
  <2> QED
    BY <1>2, <1>5, OthersKept DEF OthersTyped, world
<1> HIDE DEF j, prev, entry
<1> QED
  BY <1>1, <1>2, <1>3, <1>4, <1>5, <1>6, <1>7, DecideStep

LEMMA RecoverAbsentStep == ASSUME SidecarInv, RecoverAbsent PROVE SidecarInv'
<1> DEFINE j == [job EXCEPT !.ent = NoEntry, !.horizon = nextSeq]
<1>1. pc \notin Idle
  BY DEF RecoverAbsent, Idle
<1>2. /\ j \in Jobs /\ j.path = job.path /\ j.prev = job.prev
      /\ j.ent = NoEntry /\ j.horizon = nextSeq /\ nextSeq > 0
  <2>1. nextSeq \in Nat \ {0} /\ job \in Jobs
    BY DEF SidecarInv, TypeOK
  <2>2. j \in Jobs
    BY <2>1, JobFields, ValueTypes
  <2>3. nextSeq > 0
    BY <2>1
  <2> QED
    BY <2>1, <2>2, <2>3 DEF Jobs
<1>3. Decide(j) /\ UNCHANGED <<world, saved, pass, snap>> /\ ~Exists(remote[Here])
  BY DEF RecoverAbsent
<1>4. j.prev.medium \in state.media \cup {None} /\ ~MustCompare(j)
  BY <1>1, <1>2 DEF SidecarInv, InHandOwned, MustCompare
<1>5. OthersTyped' /\ UNCHANGED <<calm, remote, nextSeq>>
  BY <1>3, OthersKept DEF world
<1> HIDE DEF j
<1>6. nextSeq \in Nat
  BY DEF SidecarInv, TypeOK
<1> QED
  BY <1>1, <1>2, <1>3, <1>4, <1>5, <1>6, DecideStep
\* In hand at "compare" is never an upload in doubt.
LEMMA CompareStep == ASSUME SidecarInv, Compare \/ CompareFails \/ RecoverFails PROVE SidecarInv'
<1>1. pc \notin Idle
  BY DEF Compare, CompareFails, RecoverFails, Idle
<1>2. CASE Compare
  <2>1. /\ job.horizon = 0 /\ state.sidecars[Here].status # "in-doubt"
        /\ job \in Jobs /\ job.prev.medium \in state.media \cup {None}
    BY <1>1, <1>2 DEF Compare, SidecarInv, HorizonKept, InHandOwned, TypeOK, Jobs
  <2>2. PICK need \in BOOLEAN : Proceed(job, need)
    BY <1>2 DEF Compare, NeedUpload
  <2>3. OthersTyped' /\ UNCHANGED <<calm, saved, pass, remote, nextSeq>>
    BY <1>2, OthersKept DEF Compare, world
  <2> QED
    BY <1>1, <2>1, <2>2, <2>3, ProceedStep
<1>3. CASE CompareFails
  <2>1. pc' \in Idle /\ pc' # "unit"
    BY <1>3 DEF CompareFails, Go, Idle
  <2> QED
    BY <1>3, <2>1, QuietStep, OthersKept DEF CompareFails, SidecarInv, TypeOK, world
<1>4. CASE RecoverFails
  BY <1>1, <1>4, ContinueStep DEF RecoverFails
<1> QED
  BY <1>2, <1>3, <1>4

-----------------------------------------------------------------------------
(* The upload.                                                              *)

LEMMA FailedStep ==
    ASSUME SidecarInv, pc \notin Idle, NEW t \in Statuses, Done(Failed(t)), OthersTyped',
           UNCHANGED <<calm, saved, pass>>
    PROVE  SidecarInv'
BY RecordTypes, DoneStep

LEMMA OpenStep == ASSUME SidecarInv, OpenSource \/ OpenFails PROVE SidecarInv'
<1>1. pc \notin Idle /\ pc = "open"
  BY DEF OpenSource, OpenFails, Idle
<1>2. CASE OpenSource
  <2>1. local[Here] \in Contents
    BY <1>1, <1>2, InHand DEF OpenSource
  <2>2. /\ job' \in Jobs /\ job'.path = job.path /\ job'.prev = job.prev
        /\ job'.horizon = job.horizon /\ job'.src = local[Here]
    BY <1>2, <2>1, JobFields DEF OpenSource, SidecarInv, TypeOK, Jobs
  <2>3. pc' = "put" /\ pc' \in Labels \ Idle
    BY <1>2 DEF OpenSource, Go, Labels, Idle
  <2>4. LocalsSet' /\ HorizonKept'
    BY <1>1, <1>2, <2>1, <2>2, <2>3 DEF OpenSource, SidecarInv, LocalsSet, HorizonKept, Here, world
  <2> QED
    BY <1>1, <1>2, <2>2, <2>3, <2>4, GoOnStep, OthersKept
       DEF OpenSource, SidecarInv, InHandOwned, world
<1>3. CASE OpenFails
  BY <1>1, <1>3, FailedStep, OthersKept DEF OpenFails, Statuses, world
<1> QED
  BY <1>2, <1>3

LEMMA PutRepliesStep == ASSUME SidecarInv, PutReplies PROVE SidecarInv'
<1>1. pc \notin Idle /\ pc = "put" /\ pc' = "verify" /\ pc' \in Labels \ Idle
  BY DEF PutReplies, Go, Labels, Idle
<1>2. Here \in Sidecars /\ job.src \in Contents
  BY <1>1, InHand DEF SidecarInv, LocalsSet
<1>3. /\ remote' \in [Sidecars -> Objects]
      /\ nextSeq' = nextSeq + 1
      /\ \/ remote'[Here].mtime = nextSeq
         \/ Exists(remote[Here]) /\ remote'[Here].mtime = remote[Here].mtime
  BY <1>2, StoresType DEF PutReplies, SidecarInv, TypeOK
<1>4. nextSeq \in Nat \ {0} /\ job.horizon \in Nat
  BY DEF SidecarInv, TypeOK, Jobs
<1>5. OthersTyped'
  BY <1>3, <1>4 DEF PutReplies, OthersTyped, SidecarInv, TypeOK
<1>6. LocalsSet'
  BY <1>1, <1>2 DEF PutReplies, LocalsSet
<1>7. HorizonKept'
  BY <1>1, <1>3, <1>4 DEF PutReplies, SidecarInv, HorizonKept, Here
<1> QED
  BY <1>1, <1>5, <1>6, <1>7, GoOnStep DEF PutReplies, SidecarInv, TypeOK, InHandOwned

LEMMA PutFailsStep == ASSUME SidecarInv, PutFails PROVE SidecarInv'
<1>1. pc \notin Idle /\ pc = "put"
  BY DEF PutFails, Idle
<1>2. Here \in Sidecars /\ job.src \in Contents
  BY <1>1, InHand DEF SidecarInv, LocalsSet
<1>3. OthersTyped' /\ calm' = calm
  <2>0. \/ UNCHANGED world
        \/ /\ \E n \in 1..job.size : n <= job.src.size /\ Stores(Here, Prefix(job.src, n))
           /\ UNCHANGED <<local, stray, calm>>
        \/ stray' \in Stranded /\ UNCHANGED <<local, remote, nextSeq, calm>>
    BY DEF PutFails
  <2>1. CASE UNCHANGED world
    BY <2>1, OthersKept DEF PutFails, world
  <2>2. CASE /\ \E n \in 1..job.size : n <= job.src.size /\ Stores(Here, Prefix(job.src, n))
             /\ UNCHANGED <<local, stray, calm>>
    <3>1. PICK n \in Nat \ {0} : n <= job.src.size /\ Stores(Here, Prefix(job.src, n))
      BY <2>2 DEF SidecarInv, TypeOK, Jobs
    <3>2. Prefix(job.src, n) \in Contents
      BY <1>2, <3>1, PrefixType
    <3>3. remote' \in [Sidecars -> Objects] /\ nextSeq' = nextSeq + 1
      BY <1>2, <3>1, <3>2, StoresType DEF SidecarInv, TypeOK
    <3> QED
      BY <2>2, <3>3 DEF PutFails, OthersTyped, SidecarInv, TypeOK
  <2>3. CASE stray' \in Stranded /\ UNCHANGED <<local, remote, nextSeq, calm>>
    BY <2>3, StrandedType DEF PutFails, OthersTyped, SidecarInv, TypeOK
  <2> QED
    BY <2>0, <2>1, <2>2, <2>3
<1> QED
  BY <1>1, <1>3, FailedStep DEF PutFails, Statuses

LEMMA VerifyStep == ASSUME SidecarInv, VerifyFound \/ VerifyFails PROVE SidecarInv'
<1>1. pc \notin Idle
  BY DEF VerifyFound, VerifyFails, Idle
<1>2. CASE VerifyFound
  <2>1. Listed(remote[Here]) \in Entries
    BY <1>1, InHand, ExistingObject
  <2>2. Done(Synchronized(job.hash, Listed(remote[Here])))
        /\ snap' = [snap EXCEPT ![Here] = Listed(remote[Here])]
    BY <1>2 DEF VerifyFound
  <2>3. OthersTyped' /\ UNCHANGED <<calm, saved, pass>>
    BY <1>2, <2>1, <2>2, OthersKept DEF VerifyFound, OthersTyped, world
  <2> QED
    BY <1>1, <2>1, <2>2, <2>3, InHand, RecordTypes, DoneStep
<1>3. CASE VerifyFails
  BY <1>1, <1>3, FailedStep, OthersKept DEF VerifyFails, Statuses, world
<1> QED
  BY <1>2, <1>3

-----------------------------------------------------------------------------
(* The download.                                                            *)

LEMMA FetchStep == ASSUME SidecarInv, Fetch PROVE SidecarInv'
<1>1. pc \notin Idle /\ pc = "fetch" /\ pc' = "rename" /\ pc' \in Labels \ Idle
  BY DEF Fetch, Go, Labels, Idle
<1>2. Fetched(job.ent, remote[Here]) \in Contents
  <2>1. job.ent \in Entries /\ job.ent # NoEntry
    BY <1>1, InHand DEF SidecarInv, LocalsSet
  <2>2. job.ent.size \in Nat \ {0}
    BY <2>1 DEF Entries
  <2>3. remote[Here].content \in Contents /\ remote[Here].content.size >= job.ent.size
    BY <1>1, InHand, ExistingObject DEF Fetch, Readable
  <2>4. remote[Here].content.size \in Nat
    BY <2>3 DEF Contents
  <2> QED
    BY <2>2, <2>3, <2>4, PrefixType DEF Fetched
<1>3. /\ job' \in Jobs /\ job'.path = job.path /\ job'.prev = job.prev
      /\ job'.horizon = job.horizon
  BY <1>2, JobFields DEF Fetch, SidecarInv, TypeOK, Jobs
<1>4. LocalsSet' /\ HorizonKept'
  BY <1>1, <1>3 DEF Fetch, pass, SidecarInv, LocalsSet, HorizonKept, Here
<1> QED
  BY <1>1, <1>3, <1>4, GoOnStep, OthersKept DEF Fetch, SidecarInv, InHandOwned, world

LEMMA RenameStep == ASSUME SidecarInv, Rename PROVE SidecarInv'
<1>1. pc \notin Idle /\ pc = "rename" /\ pc' = "restat" /\ pc' \in Labels \ Idle
  BY DEF Rename, Go, Labels, Idle
<1>2. OthersTyped'
  BY <1>1, InHand DEF Rename, OthersTyped, SidecarInv, TypeOK
<1>3. LocalsSet' /\ HorizonKept'
  BY <1>1 DEF Rename, pass, SidecarInv, LocalsSet, HorizonKept, Here
<1> QED
  BY <1>1, <1>2, <1>3, GoOnStep DEF Rename, SidecarInv, TypeOK, InHandOwned

LEMMA DownloadEndStep ==
    ASSUME SidecarInv, FetchFails \/ DownloadFails \/ Restat
    PROVE  SidecarInv'
<1>1. pc \notin Idle
  BY DEF FetchFails, DownloadFails, Restat, Idle
<1>2. OthersTyped' /\ UNCHANGED <<calm, saved, pass>>
  BY OthersKept DEF FetchFails, DownloadFails, Restat, world
<1>3. Done(DownloadFailed) \/ Done(Synchronized(job.hash, job.ent))
  BY DEF FetchFails, DownloadFails, Restat
<1> QED
  BY <1>1, <1>2, <1>3, InHand, RecordTypes, DoneStep

LEMMA ServiceStep == ASSUME SidecarInv, Service PROVE SidecarInv'
BY PassStep, MediaStep, BoundsStep, TakeStep, SettleStep, HashStep, RecoverFoundStep,
   RecoverAbsentStep, CompareStep, OpenStep, PutRepliesStep, PutFailsStep, VerifyStep,
   FetchStep, RenameStep, DownloadEndStep DEF Service

-----------------------------------------------------------------------------
(* The rest of the world.                                                   *)

LEMMA WorldStep ==
    ASSUME SidecarInv, UNCHANGED <<saved, service>>,
           local' \in [Sidecars -> Contents \cup {NoContent}],
           remote' \in [Sidecars -> Objects], stray' \subseteq Requests,
           nextSeq' \in Nat \ {0}, nextSeq' >= nextSeq, calm' \in BOOLEAN,
           \A s \in Sidecars : Exists(remote'[s]) =>
               \/ remote'[s].mtime = nextSeq
               \/ Exists(remote[s]) /\ remote'[s].mtime = remote[s].mtime
    PROVE  SidecarInv'
<1>1. UNCHANGED <<state, pc, poll, snap, dups, scan, todo, job>>
  BY DEF service
<1>2. TypeOK' /\ RecordsOfTracked' /\ InHandOwned' /\ LocalsSet'
  BY <1>1 DEF SidecarInv, TypeOK, RecordsOfTracked, InHandOwned, LocalsSet, Here, Owner
<1>3. HorizonKept'
  <2>1. job.horizon \in Nat /\ nextSeq \in Nat /\ nextSeq' \in Nat
    BY DEF SidecarInv, TypeOK, Jobs
  <2>2. CASE job.horizon > 0
    <3>1. Here \in Sidecars /\ Here' = Here
      BY <1>1, <2>2, InHand DEF SidecarInv, HorizonKept, Idle, Here
    <3>2. Exists(remote'[Here]) => remote'[Here].mtime >= job.horizon
      BY <2>1, <2>2, <3>1 DEF SidecarInv, HorizonKept
    <3> QED
      BY <1>1, <2>1, <2>2, <3>1, <3>2 DEF SidecarInv, HorizonKept, Exists
  <2>3. CASE ~(job.horizon > 0)
    BY <1>1, <2>3 DEF SidecarInv, HorizonKept, Here
  <2> QED
    BY <2>2, <2>3
<1> QED
  BY <1>2, <1>3 DEF SidecarInv

LEMMA OthersStep == ASSUME SidecarInv, World PROVE SidecarInv'
<1> USE DEF SidecarInv, TypeOK
<1>1. ASSUME NEW s \in Sidecars, LocalChanges(s) PROVE SidecarInv'
  <2>1. local' \in [Sidecars -> Contents \cup {NoContent}]
    BY <1>1, WholeType DEF LocalChanges
  <2> QED
    BY <1>1, <2>1, WorldStep DEF LocalChanges
<1>2. ASSUME NEW s \in Sidecars, NEW c \in Contents, Stores(s, c),
             stray' \subseteq stray, UNCHANGED <<local, calm, saved, service>>
      PROVE  SidecarInv'
  <2>1. /\ remote' \in [Sidecars -> Objects]
        /\ nextSeq' = nextSeq + 1
        /\ \A t \in Sidecars \ {s} : remote'[t] = remote[t]
        /\ \/ remote'[s].mtime = nextSeq
           \/ Exists(remote[s]) /\ remote'[s].mtime = remote[s].mtime
    BY <1>2, StoresType
  <2> QED
    BY <1>2, <2>1, WorldStep
<1>3. ASSUME NEW s \in Sidecars, RemoteWrites(s) PROVE SidecarInv'
  BY <1>2, <1>3, WholeType DEF RemoteWrites
<1>4. ASSUME NEW s \in Sidecars, RemoteDeletes(s) PROVE SidecarInv'
  <2>1. /\ remote' \in [Sidecars -> Objects]
        /\ \A t \in Sidecars : remote'[t] = remote[t] \/ ~Exists(remote'[t])
    BY <1>4, ValueTypes DEF RemoteDeletes, Exists
  <2> QED
    BY <1>4, <2>1, WorldStep DEF RemoteDeletes
<1>5. ASSUME NEW r \in stray, StraySettles(r) PROVE SidecarInv'
  <2>1. r.path \in Sidecars /\ r.content \in Contents /\ r.content.size \in Nat
    BY DEF Requests, Contents
  <2>2. CASE UNCHANGED <<remote, nextSeq>>
    BY <1>5, <2>2, WorldStep DEF StraySettles
  <2>3. CASE \E n \in 1..r.content.size : Stores(r.path, Prefix(r.content, n))
    <3>1. PICK n \in 1..r.content.size : Stores(r.path, Prefix(r.content, n))
      BY <2>3
    <3>2. Prefix(r.content, n) \in Contents
      BY <2>1, PrefixType
    <3> QED
      BY <1>2, <1>5, <2>1, <3>1, <3>2 DEF StraySettles
  <2> QED
    BY <1>5, <2>2, <2>3 DEF StraySettles
<1>6. ASSUME BecomeCalm PROVE SidecarInv'
  BY <1>6, WorldStep DEF BecomeCalm
<1> QED
  BY <1>1, <1>3, <1>4, <1>5, <1>6 DEF World

LEMMA StutterStep == ASSUME SidecarInv, UNCHANGED vars PROVE SidecarInv'
<1>1. UNCHANGED <<world, saved, service>>
  BY DEF vars
<1> QED
  BY <1>1, WorldStep DEF world, SidecarInv, TypeOK

LEMMA InvNext == SidecarInv /\ [Next]_vars => SidecarInv'
BY ServiceStep, StopStep, OthersStep, StutterStep DEF Next

LEMMA Invariance == Spec => []SidecarInv
BY InvInit, InvNext, PTL DEF Spec

\* Every variable keeps its type, whatever fails and whoever interferes.
THEOREM SidecarTypeCorrect == Spec => []TypeOK
BY Invariance, PTL DEF SidecarInv

\* Neither the records in memory nor those of state.json ever name a medium that
\* is not tracked there (removeLocalMediaUnit, media.go:396-428).
THEOREM RecordsStayTracked == Spec => []RecordsOfTracked
BY Invariance, PTL DEF SidecarInv

-----------------------------------------------------------------------------
(* What the steps do.                                                       *)

\* What has an owner belongs to it: every other match has a shorter stem.
LEMMA OwnedBelongs ==
    ASSUME state \in States, NEW s, Owner(s) # None
    PROVE  Belongs(s)
<1> DEFINE m == Owner(s)
           matching == Matching(s, state.media)
<1>1. state.media \in SUBSET Media
  BY DEF States
<1>2. m \in state.media /\ Longest(matching) = {m}
  BY <1>1, Classified DEF Owner
<1>3. m \in matching /\ \A n \in matching : Len(n.stem) <= Len(m.stem)
  BY <1>2 DEF Longest
<1>4. \A n \in matching : Len(n.stem) \in Nat
  BY <1>1, SidecarAssumption DEF Matching
<1>5. ASSUME NEW n \in matching, n # m PROVE Len(n.stem) < Len(m.stem)
  <2>1. n \notin Longest(matching)
    BY <1>2, <1>5
  <2>2. PICK k \in matching : ~(Len(k.stem) <= Len(n.stem))
    BY <2>1 DEF Longest
  <2> QED
    BY <1>3, <1>4, <2>2
<1> QED
  BY <1>2, <1>3, <1>5 DEF Belongs, Matching

\* Uploads and restores move the bytes only of candidates that belong to exactly one
\* tracked medium and are listed once (sidecar.go:90, service.go:285).
THEOREM OnlyOwnedMoves == Spec => OnlyOwned
<1> DEFINE Acts ==
        \A s \in Sidecars : Uploads(s) \/ Restores(s) => Belongs(s) /\ s \notin dups
<1>1. SidecarInv => Acts
  <2> SUFFICES ASSUME SidecarInv, NEW s \in Sidecars, s = Here, pc \in {"put", "rename"}
               PROVE  Belongs(s) /\ s \notin dups
    BY DEF Uploads, Restores
  <2>1. pc \notin Idle
    BY DEF Idle
  <2> QED
    BY <2>1, OwnedBelongs DEF SidecarInv, InHandOwned, TypeOK
<1>2. SidecarInv => [Acts]_vars
  BY <1>1
<1>3. Spec => [][Acts]_vars
  BY <1>2, Invariance, PTL DEF Spec
<1> QED
  BY <1>3 DEF OnlyOwned

\* What an upload replaces while an earlier one is in doubt was written after this
\* very attempt had found nothing at the path (service.go:298-320).
THEOREM DoubtIsResolvedFirst == Spec => DoubtResolvedFirst
<1> DEFINE Acts ==
        \A s \in Sidecars :
          Uploads(s) /\ Exists(remote[s]) /\ state.sidecars[s].status = "in-doubt" =>
              job.horizon > 0 /\ remote[s].mtime >= job.horizon
<1>1. SidecarInv => Acts
  BY DEF SidecarInv, HorizonKept, Uploads
<1>2. SidecarInv => [Acts]_vars
  BY <1>1
<1>3. Spec => [][Acts]_vars
  BY <1>2, Invariance, PTL DEF Spec
<1> QED
  BY <1>3 DEF DoubtResolvedFirst

\* The service changes a local sidecar by a restore or a removal, by nothing else.
LEMMA LocalChangedBy ==
    ASSUME [Next]_vars, ~UNCHANGED service, local' # local
    PROVE  Rename \/ \E s \in Sidecars : RemoveSidecar(s)
<1>1. CASE Start \/ PollTick \/ Debounce \/ ScanRemote \/ ScanLocal \/ ScanFails \/ Rescan
           \/ TakeNext \/ FinishPass
  BY <1>1 DEF Start, PollTick, Debounce, ScanRemote, ScanLocal, ScanFails, Rescan, TakeNext,
       FinishPass, SkipDuplicate, TakeLocal, TakeRemote, Forget, Take, world
<1>2. CASE MediaPass
  BY <1>2 DEF MediaPass, Track, BeginRemoval, RemoveUnit, RemovalFails, SaveMedia, world
<1>3. CASE Settle \/ SettleFails \/ Hash \/ RecoverFound \/ RecoverAbsent \/ RecoverFails
           \/ Compare \/ CompareFails
  BY <1>3 DEF Settle, SettleFails, Hash, RecoverFound, RecoverAbsent, RecoverFails,
       Compare, CompareFails, Continue, world
<1>4. CASE OpenSource \/ OpenFails \/ PutReplies \/ PutFails \/ VerifyFound \/ VerifyFails
  BY <1>4 DEF OpenSource, OpenFails, PutReplies, PutFails, VerifyFound, VerifyFails, world
<1>5. CASE Fetch \/ FetchFails \/ Rename \/ DownloadFails \/ Restat
  BY <1>5 DEF Fetch, FetchFails, DownloadFails, Restat, world
<1>6. CASE Crash \/ Shutdown
  BY <1>6 DEF Crash, Shutdown, world
<1>7. CASE World \/ UNCHANGED vars
  BY <1>7 DEF World, LocalChanges, RemoteWrites, RemoteDeletes, StraySettles, BecomeCalm, vars
<1> QED
  BY <1>1, <1>2, <1>3, <1>4, <1>5, <1>6, <1>7 DEF Next, Service

\* A local file that the scan of this pass has found is never replaced by the remote
\* copy, and goes only with a unit whose stem it matches (service.go:291, 370).
THEOREM ScannedIsKept == Spec => ScannedKept
<1> DEFINE Acts ==
        \A s \in Sidecars :
          Present(local[s]) /\ local'[s] # local[s] /\ ~UNCHANGED service =>
              \/ Restores(s) /\ s \notin scan
              \/ pc = "unit" /\ MatchesSidecarStem(s, job.unit.stem)
<1>1. SidecarInv /\ [Next]_vars => Acts
  <2> SUFFICES ASSUME SidecarInv, [Next]_vars, ~UNCHANGED service,
                      NEW s \in Sidecars, local'[s] # local[s]
               PROVE  \/ Restores(s) /\ s \notin scan
                      \/ pc = "unit" /\ MatchesSidecarStem(s, job.unit.stem)
    OBVIOUS
  <2>1. local \in [Sidecars -> Contents \cup {NoContent}]
    BY DEF SidecarInv, TypeOK
  <2>2. CASE Rename
    BY <2>1, <2>2 DEF Rename, Go, Restores, SidecarInv, LocalsSet
  <2>3. ASSUME NEW t \in Sidecars, RemoveSidecar(t)
        PROVE  pc = "unit" /\ MatchesSidecarStem(s, job.unit.stem)
    <3>1. s = t
      BY <2>1, <2>3 DEF RemoveSidecar
    <3> QED
      BY <2>3, <3>1 DEF RemoveSidecar, SidecarInv, LocalsSet
  <2> QED
    BY <2>2, <2>3, LocalChangedBy
<1>2. SidecarInv /\ [Next]_vars => [Acts]_vars
  BY <1>1
<1>3. Spec => [][Acts]_vars
  BY <1>2, Invariance, PTL DEF Spec
<1> QED
  BY <1>3 DEF ScannedKept
=============================================================================
