--------------------------- MODULE SyncDaemonProofs ---------------------------
(***************************************************************************)
(* Proofs about SyncDaemon, for any directories, identities and bounds:    *)
(* types, and that sidecars and a clean end find the state on the disk.    *)
(* Both follow the result of Save through the pass: an error of the first  *)
(* save ends the pass, that of the second or the last one is returned.     *)
(***************************************************************************)
EXTENDS SyncDaemon, TLAPS

Ats == {"none", "watch", "remote", "local", "media", "save1", "sides",
        "save2", "tidy", "select", "final", "close"}

\* The disk holds what the process knows, and nothing else.
OnTheDisk == possible = {known}

\* Where the result of a Save has been taken to be good.
Guarded == /\ run.at = "sides" => OnTheDisk
           /\ run.at = "tidy" /\ ~run.daemon /\ ~run.failed => OnTheDisk
           /\ run.at = "close" /\ ~run.failed => OnTheDisk

IInv == TypeOK /\ (owner = None <=> run.at = "none") /\ Guarded

LEMMA NoRunTyped == NoRun \in Runs /\ NoRun.at = "none"
  BY DEF NoRun, Runs

LEMMA GoesTyped ==
  ASSUME run \in Runs, NEW place \in Ats, NEW e \in BOOLEAN
  PROVE  /\ Goes(place, e) \in Runs
         /\ Goes(place, e).at = place
         /\ Goes(place, e).daemon = run.daemon
         /\ Goes(place, e).failed = (run.failed \/ (e /\ ~run.daemon))
         /\ Returns(e) \in Runs
         /\ Returns(e).at = "close"
         /\ Returns(e).failed = e
  BY DEF Goes, Returns, Runs, Ats

LEMMA AbandonedTyped ==
  ASSUME run \in Runs
  PROVE  /\ Abandoned \in Runs
         /\ Abandoned.at = "select" \/ (Abandoned.at = "close" /\ Abandoned.failed)
<1>1. CASE run.initial
  BY <1>1, GoesTyped DEF Abandoned, Ats
<1>2. CASE ~run.initial
  BY <1>2 DEF Abandoned, Runs
<1>. QED
  BY <1>1, <1>2

LEMMA ToldTyped ==
  ASSUME NEW r \in Runs, NEW events \in SUBSET Events, NEW gone \in SUBSET Places
  PROVE  /\ Told(r, events, gone) \in Runs
         /\ Told(r, events, gone).at = r.at
         /\ Told(r, events, gone).daemon = r.daemon
         /\ Told(r, events, gone).failed = r.failed
  BY DEF Told, Runs

LEMMA EventTyped ==
  ASSUME NEW d \in Places
  PROVE  Event(d) \in Events /\ Event(d).in = d
  BY DEF Event, Events

LEMMA ChangeTyped ==
  ASSUME tree \in Trees, NEW c \in TreeChanges
  PROVE  c.tree \in Trees /\ c.event \in Events /\ c.gone \in SUBSET Places
<1>1. Root \in Places /\ \A d \in Below : d \in Dirs /\ d \in Places
  BY DEF Places, Below
<1>2. Event(Root) \in Events /\ \A d \in Dirs : Event(d) \in Events
  BY EventTyped DEF Places
<1>3. \A d \in Dirs, v \in {"absent", "empty", "full"} : With(d, v) \in Trees
  BY DEF Trees, With
<1>4. \A d \in Dirs : [in |-> Root, made |-> d] \in Events
  BY DEF Events, Places
<1>5. \E t \in Trees, e \in Events, g \in SUBSET Places : c = TreeChange(t, e, g)
  <2>1. CASE c = TreeChange(tree, Event(Root), {})
    BY <1>2, <2>1
  <2>2. CASE c \in Removals
    <3>1. PICK d \in Below : c = TreeChange(With(d, "absent"), Event(Root), {d})
      BY <2>2 DEF Removals
    <3>2. With(d, "absent") \in Trees /\ {d} \in SUBSET Places
      BY <1>1, <1>3
    <3>. QED
      BY <1>2, <3>1, <3>2
  <2>3. CASE c \in Rewrites
    <3>1. PICK d \in Below, v \in {"empty", "full"} : c = TreeChange(With(d, v), Event(d), {})
      BY <2>3 DEF Rewrites
    <3>2. With(d, v) \in Trees /\ Event(d) \in Events
      BY <1>1, <1>2, <1>3
    <3>. QED
      BY <3>1, <3>2
  <2>4. CASE c \in Creations
    <3>1. PICK d \in Dirs, v \in {"empty", "full"} :
                 c = TreeChange(With(d, v), [in |-> Root, made |-> d], {})
      BY <2>4 DEF Creations
    <3>2. With(d, v) \in Trees /\ [in |-> Root, made |-> d] \in Events
      BY <1>3, <1>4
    <3>. QED
      BY <3>1, <3>2
  <2>. QED
    BY <2>1, <2>2, <2>3, <2>4 DEF TreeChanges
<1>. QED
  BY <1>5 DEF TreeChange

-----------------------------------------------------------------------------
LEMMA RegisterInitTyped == RegisterInit => RegisterTypeOK
  BY DEF RegisterInit, RegisterTypeOK, Values, Nothing

LEMMA Initially == Init => IInv
  BY RegisterInitTyped, NoRunTyped, DaemonAssumption
  DEF Init, IInv, TypeOK, Guarded, RegisterInit, Nothing

\* The register keeps its types.
LEMMA RegisterStep ==
  ASSUME RegisterTypeOK, [RegisterNext]_register
  PROVE  RegisterTypeOK'
<1>1. CASE UNCHANGED register
  BY <1>1 DEF register, RegisterTypeOK
<1>2. CASE \E p \in Procs : Begin(p)
  BY <1>2 DEF Begin, RegisterTypeOK, Values
<1>3. CASE Learn
  BY <1>3 DEF Learn, RegisterTypeOK
<1>4. CASE Offer
  <2>1. PICK others \in SUBSET possible : possible' = others \cup {known}
    BY <1>4 DEF Offer
  <2>. QED
    BY <1>4, <2>1 DEF Offer, RegisterTypeOK
<1>5. CASE Acknowledge
  BY <1>5 DEF Acknowledge, RegisterTypeOK
<1>6. CASE Settle
  BY <1>6 DEF Settle, RegisterTypeOK
<1>7. CASE End
  BY <1>7 DEF End, RegisterTypeOK, Values, Nothing
<1>. QED
  BY <1>1, <1>2, <1>3, <1>4, <1>5, <1>6, <1>7 DEF RegisterNext

\* A step of the process on its own, to a place where nothing is claimed of the
\* register, or where it was already.
LEMMA MovesStep ==
  ASSUME IInv, NEW r \in Runs, Moves(r), run.at # "none", r.at # "none",
         r.at = "sides" => OnTheDisk,
         r.at = "tidy" /\ ~r.daemon /\ ~r.failed => OnTheDisk,
         r.at = "close" /\ ~r.failed => OnTheDisk
  PROVE  IInv'
  BY DEF IInv, TypeOK, RegisterTypeOK, Guarded, OnTheDisk, Moves, register, Places, Trees

LEMMA StartStep ==
  ASSUME IInv, NEW p \in Procs, Start(p)
  PROVE  IInv'
<1>1. RegisterTypeOK'
  BY RegisterStep DEF IInv, TypeOK, Start, RegisterNext
<1>2. run' \in Runs /\ run'.at \in {"watch", "remote"}
  BY NoRunTyped DEF Start, NoRun, Runs
<1>3. owner' # None
  BY RegisterAssumption DEF Start, Begin
<1>. QED
  BY <1>1, <1>2, <1>3 DEF IInv, TypeOK, Guarded, Start, Trees

\* The steps of a pass that neither save nor touch the tree.
LEMMA QuietStep ==
  ASSUME IInv, WatchTree \/ RemoteListed \/ RemoteFails \/ LocalScanned \/ LocalScanFails
  PROVE  IInv'
<1>1. run \in Runs /\ run.at # "none"
  BY DEF IInv, TypeOK, WatchTree, RemoteListed, RemoteFails, LocalScanned, LocalScanFails
<1>2. CASE WatchTree
  <2>1. CASE Moves([run EXCEPT !.at = "remote", !.watched = Present])
    <3>1. [run EXCEPT !.at = "remote", !.watched = Present] \in Runs
      BY <1>1 DEF Runs, Present, Below, Places
    <3>. QED
      BY <1>1, <2>1, <3>1, MovesStep DEF Runs
  <2>2. CASE Moves(Returns(TRUE))
    BY <1>1, <2>2, GoesTyped, MovesStep DEF Ats
  <2>. QED
    BY <1>2, <2>1, <2>2 DEF WatchTree
<1>3. CASE RemoteListed
  <2>1. [run EXCEPT !.at = "local"] \in Runs
    BY <1>1 DEF Runs
  <2>. QED
    BY <1>1, <1>3, <2>1, MovesStep DEF RemoteListed, Runs
<1>4. CASE RemoteFails
  BY <1>1, <1>4, AbandonedTyped, MovesStep DEF RemoteFails
<1>5. CASE LocalScanFails
  <2>1. PICK b \in BOOLEAN : Moves([Abandoned EXCEPT !.missed = b])
    BY <1>5 DEF LocalScanFails
  <2>2. [Abandoned EXCEPT !.missed = b] \in Runs
    BY <1>1, <2>1, AbandonedTyped DEF Runs
  <2>. QED
    BY <1>1, <1>5, <2>1, <2>2, AbandonedTyped, MovesStep DEF LocalScanFails, Runs
<1>6. CASE LocalScanned
  <2>1. [run EXCEPT !.at = "media", !.unseen = {}] \in Runs
    BY <1>1 DEF Runs
  <2>. QED
    BY <1>1, <1>6, <2>1, MovesStep DEF LocalScanned, Runs
<1>. QED
  BY <1>2, <1>3, <1>4, <1>5, <1>6

LEMMA WriteStep ==
  ASSUME IInv, NEW r \in Runs, MayWrite(r)
  PROVE  /\ run' \in Runs /\ run'.at = r.at /\ run'.daemon = r.daemon /\ run'.failed = r.failed
         /\ tree' \in Trees /\ changes' \in 0..MaxChanges
<1>1. CASE run' = r /\ UNCHANGED <<tree, changes>>
  BY <1>1 DEF IInv, TypeOK
<1>2. CASE /\ changes < MaxChanges
           /\ \E c \in TreeChanges : tree' = c.tree /\ run' = Told(r, {c.event}, c.gone)
           /\ changes' = changes + 1
  <2>1. PICK c \in TreeChanges : tree' = c.tree /\ run' = Told(r, {c.event}, c.gone)
    BY <1>2
  <2>2. c.tree \in Trees /\ {c.event} \in SUBSET Events /\ c.gone \in SUBSET Places
    BY ChangeTyped DEF IInv, TypeOK
  <2>3. changes' \in 0..MaxChanges
    BY <1>2, DaemonAssumption DEF IInv, TypeOK
  <2>. QED
    BY <2>1, <2>2, <2>3, ToldTyped
<1>. QED
  BY <1>1, <1>2 DEF MayWrite

LEMMA ReconcileStep ==
  ASSUME IInv, NEW r \in Runs, Reconciles(r), run.at # "none", r.at \in {"save1", "save2"}
  PROVE  IInv'
<1>1. RegisterTypeOK' /\ owner' = owner /\ nextWork' \in 1..(MaxWork + 1)
  <2>1. CASE UNCHANGED <<register, nextWork>>
    BY <2>1 DEF IInv, TypeOK, RegisterTypeOK, register
  <2>2. CASE /\ nextWork <= MaxWork
             /\ known' = [known EXCEPT !.work = @ \cup {nextWork}]
             /\ nextWork' = nextWork + 1
             /\ UNCHANGED <<owner, possible, acked>>
    <3>1. nextWork \in Nat /\ known \in Values
      BY DaemonAssumption DEF IInv, TypeOK, RegisterTypeOK
    <3>2. known' \in Values
      BY <2>2, <3>1 DEF Values
    <3>3. nextWork' \in 1..(MaxWork + 1)
      BY <2>2, DaemonAssumption DEF IInv, TypeOK
    <3>. QED
      BY <2>2, <3>2, <3>3 DEF IInv, TypeOK, RegisterTypeOK
  <2>. QED
    BY <2>1, <2>2 DEF Reconciles
<1>2. /\ run' \in Runs /\ run'.at = r.at
      /\ tree' \in Trees /\ changes' \in 0..MaxChanges
  BY WriteStep DEF Reconciles
<1>. QED
  BY <1>1, <1>2 DEF IInv, TypeOK, Guarded

LEMMA PassStep ==
  ASSUME IInv, Media \/ Sidecars
  PROVE  IInv'
<1>1. run \in Runs /\ run.at # "none"
  BY DEF IInv, TypeOK, Media, Sidecars
<1>2. CASE Media
  <2>1. PICK e \in BOOLEAN : Reconciles(Goes("save1", e))
    BY <1>2 DEF Media
  <2>. QED
    BY <1>1, <2>1, GoesTyped, ReconcileStep DEF Ats
<1>3. CASE Sidecars
  <2>1. CASE Moves(Goes("tidy", TRUE))
    BY <1>1, <2>1, GoesTyped, MovesStep DEF Ats
  <2>2. CASE \E e \in BOOLEAN : Reconciles(Goes("save2", e))
    BY <1>1, <2>2, GoesTyped, ReconcileStep DEF Ats
  <2>. QED
    BY <1>3, <2>1, <2>2 DEF Sidecars
<1>. QED
  BY <1>2, <1>3

LEMMA TidyStep ==
  ASSUME IInv, Tidy
  PROVE  IInv'
<1>1. run \in Runs /\ run.at = "tidy" /\ tree \in Trees
  BY DEF IInv, TypeOK, Tidy
<1>2. PICK gone \in SUBSET {d \in Dirs : tree[d] = "empty"} :
        /\ tree' = [d \in Dirs |-> IF d \in gone THEN "absent" ELSE tree[d]]
        /\ run' = Told(AfterPass(\E d \in Dirs \ gone : tree[d] = "empty"),
                       IF gone = {} THEN {} ELSE {Event(Root)}, gone)
  BY DEF Tidy
<1> DEFINE e == \E d \in Dirs \ gone : tree[d] = "empty"
<1> DEFINE r == AfterPass(e)
<1>3. /\ r \in Runs /\ r.at = (IF run.daemon THEN "select" ELSE "close")
      /\ r.daemon = run.daemon /\ r.failed = (run.failed \/ (e /\ ~run.daemon))
  <2>1. (IF run.daemon THEN "select" ELSE "close") \in Ats /\ e \in BOOLEAN
    BY DEF Ats
  <2>2. e \in BOOLEAN
    BY <2>1
  <2> HIDE DEF e
  <2>3. Goes(IF run.daemon THEN "select" ELSE "close", e) \in Runs
    BY <1>1, <2>1, <2>2, GoesTyped
  <2> DEFINE g == Goes(IF run.daemon THEN "select" ELSE "close", e)
  <2>4. /\ g.at = (IF run.daemon THEN "select" ELSE "close")
        /\ g.daemon = run.daemon /\ g.failed = (run.failed \/ (e /\ ~run.daemon))
    BY <1>1, <2>1, <2>2, GoesTyped
  <2>5. r = [g EXCEPT !.initial = FALSE] /\ g \in Runs
    BY <2>3 DEF AfterPass
  <2> HIDE DEF g, r
  <2>6. r \in Runs /\ r.at = g.at /\ r.daemon = g.daemon /\ r.failed = g.failed
    BY <2>5 DEF Runs
  <2>. QED
    BY <2>4, <2>6
<1>4. gone \in SUBSET Places /\ (IF gone = {} THEN {} ELSE {Event(Root)}) \in SUBSET Events
  BY EventTyped DEF Places
<1>5. run' = Told(r, IF gone = {} THEN {} ELSE {Event(Root)}, gone)
  BY <1>2
<1>6. tree' \in Trees
  BY <1>1, <1>2 DEF Trees
<1> HIDE DEF r
<1>7. /\ run' \in Runs /\ run'.at = r.at
      /\ run'.daemon = r.daemon /\ run'.failed = r.failed
  BY <1>3, <1>4, <1>5, ToldTyped
<1>8. UNCHANGED <<register, nextWork, changes>>
  BY DEF Tidy
<1>. QED
  BY <1>1, <1>3, <1>6, <1>7, <1>8 DEF IInv, TypeOK, RegisterTypeOK, Guarded, OnTheDisk, register

LEMMA SavesStep ==
  ASSUME IInv, Saves
  PROVE  IInv'
<1>1. run \in Runs /\ run.at \in {"save1", "save2", "final"}
  BY DEF IInv, TypeOK, Saves
<1>2. RegisterTypeOK' /\ owner' = owner
  <2>1. [RegisterNext]_register
    BY DEF Saves, RegisterNext
  <2>. QED
    BY <2>1, RegisterStep DEF IInv, TypeOK, Saves, Acknowledge, Offer, register
<1>3. ASSUME NEW ok \in BOOLEAN
      PROVE  /\ AfterSave(ok) \in Runs
             /\ AfterSave(ok).at \in {"sides", "tidy", "close"}
             /\ AfterSave(ok).at = "sides" => ok
             /\ AfterSave(ok).at = "tidy" /\ ~AfterSave(ok).daemon /\ ~AfterSave(ok).failed => ok
             /\ AfterSave(ok).at = "close" /\ ~AfterSave(ok).failed => ok
  <2>1. (~ok) \in BOOLEAN
    OBVIOUS
  <2>2. CASE run.at = "save1" /\ ok
    BY <1>1, <2>1, <2>2, GoesTyped DEF AfterSave, Ats
  <2>3. CASE run.at = "save1" /\ ~ok
    BY <1>1, <2>1, <2>3, GoesTyped DEF AfterSave, Ats
  <2>4. CASE run.at = "save2"
    BY <1>1, <2>1, <2>4, GoesTyped DEF AfterSave, Ats
  <2>5. CASE run.at = "final"
    BY <1>1, <2>1, <2>5, GoesTyped DEF AfterSave, Ats
  <2>. QED
    BY <1>1, <2>2, <2>3, <2>4, <2>5
<1>4. CASE Acknowledge /\ run' = AfterSave(TRUE)
  <2>1. OnTheDisk'
    BY <1>4 DEF Acknowledge, OnTheDisk
  <2>. QED
    BY <1>1, <1>2, <1>3, <1>4, <2>1 DEF IInv, TypeOK, Guarded, Saves
<1>5. CASE run' = AfterSave(FALSE)
  BY <1>1, <1>2, <1>3, <1>5 DEF IInv, TypeOK, Guarded, Saves
<1>. QED
  BY <1>4, <1>5 DEF Saves

LEMMA SelectStep ==
  ASSUME IInv, Stopped \/ Signalled \/ Settled \/ Polled \/ Watch \/ Cancel
  PROVE  IInv'
<1>1. run \in Runs
  BY DEF IInv, TypeOK
<1>2. CASE Stopped
  <2>1. [run EXCEPT !.at = "final"] \in Runs
    BY <1>1 DEF Runs
  <2>. QED
    BY <1>1, <1>2, <2>1, MovesStep DEF Stopped, Runs
<1>3. CASE Signalled
  <2>1. [run EXCEPT !.signal = FALSE, !.debounce = TRUE] \in Runs
    BY <1>1 DEF Runs
  <2>. QED
    BY <1>1, <1>3, <2>1, MovesStep DEF Signalled, Runs
<1>4. CASE Settled
  <2>1. [run EXCEPT !.debounce = FALSE, !.at = "local"] \in Runs
    BY <1>1 DEF Runs
  <2>. QED
    BY <1>1, <1>4, <2>1, MovesStep DEF Settled, Runs
<1>5. CASE Polled
  <2>1. [run EXCEPT !.at = "remote"] \in Runs
    BY <1>1 DEF Runs
  <2>. QED
    BY <1>1, <1>5, <2>1, MovesStep DEF Polled, Runs
<1>6. ASSUME NEW r \in Runs, Moves(r), r.at = run.at, r.daemon = run.daemon, r.failed = run.failed
      PROVE  IInv'
  BY <1>6 DEF IInv, TypeOK, RegisterTypeOK, Guarded, OnTheDisk, Moves, register
<1>7. CASE Watch
  <2>1. PICK e \in run.queue, added \in BOOLEAN :
          Moves([run EXCEPT !.queue = @ \ {e},
                            !.watched = IF added THEN @ \cup ({e.made} \cap Present) ELSE @,
                            !.signal = TRUE])
    BY <1>7 DEF Watch
  <2>2. [run EXCEPT !.queue = @ \ {e},
                    !.watched = IF added THEN @ \cup ({e.made} \cap Present) ELSE @,
                    !.signal = TRUE] \in Runs
    BY <1>1 DEF Runs, Present, Below, Places
  <2> DEFINE r == [run EXCEPT !.queue = @ \ {e},
                    !.watched = IF added THEN @ \cup ({e.made} \cap Present) ELSE @,
                    !.signal = TRUE]
  <2>3. r.at = run.at /\ r.daemon = run.daemon /\ r.failed = run.failed
    BY <1>1 DEF Runs
  <2>4. r \in Runs /\ Moves(r)
    BY <2>1, <2>2
  <2> HIDE DEF r
  <2>. QED
    BY <1>6, <2>3, <2>4
<1>8. CASE Cancel
  <2>1. [run EXCEPT !.stop = TRUE] \in Runs
    BY <1>1 DEF Runs
  <2>. QED
    BY <1>1, <1>6, <1>8, <2>1 DEF Cancel, Runs
<1>. QED
  BY <1>2, <1>3, <1>4, <1>5, <1>7, <1>8

LEMMA EndStep ==
  ASSUME IInv, Ends \/ Dies
  PROVE  IInv'
<1>1. RegisterTypeOK' /\ owner' = None
  BY RegisterStep DEF IInv, TypeOK, Ends, Dies, RegisterNext, End
<1>2. run' = NoRun /\ UNCHANGED <<tree, nextWork, changes>>
  BY DEF Ends, Dies
<1>. QED
  BY <1>1, <1>2, NoRunTyped DEF IInv, TypeOK, Guarded

LEMMA ChangeStep ==
  ASSUME IInv, LocalChange
  PROVE  IInv'
<1>1. PICK c \in TreeChanges :
        /\ tree' = c.tree
        /\ run' = IF run.at = "none" THEN run
                  ELSE [Told(run, {c.event}, c.gone) EXCEPT
                           !.unseen = (@ \ c.gone) \cup {c.event.in}]
  BY DEF LocalChange
<1>2. c.tree \in Trees /\ c.event \in Events /\ c.gone \in SUBSET Places
  BY ChangeTyped DEF IInv, TypeOK
<1>3. Told(run, {c.event}, c.gone) \in Runs /\ c.event.in \in Places
  BY <1>2, ToldTyped DEF IInv, TypeOK, Events
<1>4. /\ run' \in Runs /\ run'.at = run.at
      /\ run'.daemon = run.daemon /\ run'.failed = run.failed
  <2>1. CASE run.at = "none"
    BY <1>1, <2>1 DEF IInv, TypeOK
  <2>2. CASE run.at # "none"
    <3>1. /\ Told(run, {c.event}, c.gone).at = run.at
          /\ Told(run, {c.event}, c.gone).daemon = run.daemon
          /\ Told(run, {c.event}, c.gone).failed = run.failed
      BY <1>2, ToldTyped DEF IInv, TypeOK
    <3>. QED
      BY <1>1, <1>3, <2>2, <3>1 DEF Runs
  <2>. QED
    BY <2>1, <2>2
<1>5. changes' \in 0..MaxChanges
  BY DaemonAssumption DEF LocalChange, IInv, TypeOK
<1>. QED
  BY <1>1, <1>2, <1>4, <1>5
  DEF LocalChange, IInv, TypeOK, RegisterTypeOK, Guarded, OnTheDisk, register

LEMMA DiskStep ==
  ASSUME IInv, Disk
  PROVE  IInv'
<1>1. RegisterTypeOK'
  BY RegisterStep DEF IInv, TypeOK, Disk, RegisterNext
<1>2. OnTheDisk => OnTheDisk'
  BY DEF Disk, Settle, OnTheDisk
<1>. QED
  BY <1>1, <1>2 DEF IInv, TypeOK, Guarded, Disk, Settle

LEMMA Inductive ==
  ASSUME IInv, [Next]_vars
  PROVE  IInv'
<1>1. CASE UNCHANGED vars
  BY <1>1 DEF vars, register, IInv, TypeOK, RegisterTypeOK, Guarded, OnTheDisk
<1>2. CASE \E p \in Procs : Start(p)
  BY <1>2, StartStep
<1>3. CASE Body
  BY <1>3, QuietStep, PassStep, TidyStep, SavesStep, EndStep DEF Body
<1>4. CASE Select \/ Watch \/ Cancel
  BY <1>4, SelectStep DEF Select
<1>5. CASE LocalChange \/ Dies \/ Disk
  BY <1>5, ChangeStep, EndStep, DiskStep
<1>. QED
  BY <1>1, <1>2, <1>3, <1>4, <1>5 DEF Next

LEMMA Invariance == Spec => []IInv
<1>1. Init => IInv
  BY Initially
<1>2. IInv /\ [Next]_vars => IInv'
  BY Inductive
<1>. QED
  BY <1>1, <1>2, PTL DEF Spec

(* The register, the process and the tree keep their types.                *)
THEOREM Typed == Spec => []TypeOK
<1>1. IInv => TypeOK
  BY DEF IInv
<1>. QED
  BY <1>1, Invariance, PTL

(* Sidecars are reconciled only when every stub that the pass published is *)
(* owned on the disk, for any number of reconciliations and directories.   *)
THEOREM SidecarsSafe == Spec => []SidecarsAfterSave
<1>1. IInv => SidecarsAfterSave
  BY DEF IInv, Guarded, OnTheDisk, SidecarsAfterSave
<1>. QED
  BY <1>1, Invariance, PTL

(* A process that ends without an error has saved all that it knows.       *)
THEOREM CleanEnd == Spec => []CleanEndIsSaved
<1>1. IInv => CleanEndIsSaved
  BY DEF IInv, Guarded, OnTheDisk, CleanEndIsSaved
<1>. QED
  BY <1>1, Invariance, PTL

-----------------------------------------------------------------------------
LEMMA UsesRegister ==
  ASSUME IInv, [Next]_vars
  PROVE  [RegisterNext]_register
<1>1. CASE UNCHANGED register
  BY <1>1
<1>2. CASE \E p \in Procs : Start(p)
  BY <1>2 DEF Start, RegisterNext
<1>3. CASE Saves \/ Ends \/ Dies \/ Disk
  BY <1>3 DEF Saves, Ends, Dies, Disk, RegisterNext
<1>4. CASE \E r : Reconciles(r) /\ run.at # "none"
  <2>1. CASE /\ nextWork <= MaxWork
             /\ known' = [known EXCEPT !.work = @ \cup {nextWork}]
             /\ UNCHANGED <<owner, possible, acked>>
    <3>1. nextWork \in Nat /\ known \in Values /\ owner # None
      BY <1>4, DaemonAssumption DEF IInv, TypeOK, RegisterTypeOK
    <3>2. known' \in Values /\ known'.id = known.id /\ known.work \subseteq known'.work
      BY <2>1, <3>1 DEF Values
    <3>. QED
      BY <2>1, <3>1, <3>2 DEF Learn, RegisterNext
  <2>. QED
    BY <1>1, <1>4, <2>1 DEF Reconciles
<1>5. CASE Media \/ Sidecars
  <2>1. run.at # "none"
    BY <1>5 DEF Media, Sidecars
  <2>. QED
    BY <1>1, <1>4, <1>5, <2>1 DEF Media, Sidecars, Moves
<1>6. CASE WatchTree \/ RemoteListed \/ RemoteFails \/ LocalScanned \/ LocalScanFails \/ Tidy
  BY <1>1, <1>6 DEF WatchTree, RemoteListed, RemoteFails, LocalScanned, LocalScanFails, Tidy, Moves
<1>7. CASE Select \/ Watch \/ Cancel \/ LocalChange
  BY <1>1, <1>7
  DEF Select, Stopped, Signalled, Settled, Polled, Watch, Cancel, LocalChange, Moves
<1>8. CASE UNCHANGED vars
  BY <1>1, <1>8 DEF vars
<1>. QED
  BY <1>2, <1>3, <1>5, <1>6, <1>7, <1>8 DEF Next, Body

(* A sync process uses its state directory only as the register allows:    *)
(* with Atomic of StateStoreProofs, the two modules fit together.          *)
THEOREM DaemonOnRegister == Spec => RegisterSpec
<1>1. Init => RegisterInit
  BY DEF Init
<1>2. IInv /\ [Next]_vars => [RegisterNext]_register
  BY UsesRegister
<1>. QED
  BY <1>1, <1>2, Invariance, PTL DEF Spec, RegisterSpec
=============================================================================
