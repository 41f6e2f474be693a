------------------------------ MODULE SyncDaemon ------------------------------
(***************************************************************************)
(* syncer/service.go Run and syncer/watcher.go: a process of `mediastub    *)
(* sync', from the state lock to its release, once or as a daemon, with    *)
(* the watcher that turns changes of the local tree into one pending       *)
(* signal; and its successors.  The state directory is the one that        *)
(* StateRegister promises (StateStore keeps the promise).  What a pass     *)
(* does to files and objects is MediaSync and SidecarSync; here a pass is  *)
(* what it scans, when it saves, and that it may change state and tree.    *)
(***************************************************************************)
EXTENDS StateRegister

CONSTANTS Dirs,        \* the directories below the local root
          Root,        \* the local root itself
          MaxWork,     \* bound: reconciliations that change the state
          MaxChanges   \* bound: changes of the local tree

ASSUME DaemonAssumption == /\ Root \notin Dirs
                           /\ None \notin Dirs
                           /\ MaxWork \in Nat
                           /\ MaxChanges \in Nat

VARIABLES run,      \* where in Run the process is, and what its channels hold
          tree,     \* directory below the root -> absent, empty, or holding files
          nextWork, \* the next fresh reconciliation
          changes   \* how often the tree was changed

vars == <<register, run, tree, nextWork, changes>>

-----------------------------------------------------------------------------
Places == Dirs \cup {Root}
Below == {d \in Dirs : tree[d] # "absent"}
Present == {Root} \cup Below

\* Something in the directory `in' changed: perhaps the new directory `made'.
Events == [in: Places, made: Dirs \cup {None}]
Event(d) == [in |-> d, made |-> None]

Runs == [at: {"none", "watch", "remote", "local", "media", "save1", "sides",
              "save2", "tidy", "select", "final", "close"},
         daemon: BOOLEAN,        \* --daemon
         initial: BOOLEAN,       \* the pass before the loop
         failed: BOOLEAN,        \* Run returns an error
         stop: BOOLEAN,          \* ctx has ended: the watcher ends and closes `events'
         watched: SUBSET Places, \* the directories with an inotify watch
         queue: SUBSET Events,   \* what the watcher has not handled yet
         signal: BOOLEAN,        \* the channel `events' holds its one value
         debounce: BOOLEAN,      \* the settle timer runs
         unseen: SUBSET Places,  \* changed since the last scan (auxiliary)
         missed: BOOLEAN]        \* such a scan failed with no event left (auxiliary)

NoRun == [at |-> "none", daemon |-> FALSE, initial |-> FALSE, failed |-> FALSE,
          stop |-> FALSE, watched |-> {}, queue |-> {}, signal |-> FALSE,
          debounce |-> FALSE, unseen |-> {}, missed |-> FALSE]

Trees == [Dirs -> {"absent", "empty", "full"}]

Init == /\ RegisterInit
        /\ run = NoRun
        /\ tree \in Trees
        /\ nextWork = 1
        /\ changes = 0

\* The register, the process and the tree have their types.
TypeOK == /\ RegisterTypeOK
          /\ run \in Runs
          /\ tree \in Trees
          /\ nextWork \in 1..(MaxWork + 1)
          /\ changes \in 0..MaxChanges

-----------------------------------------------------------------------------
(* The local tree and its watches                                          *)

\* Every change of one directory: the tree after it, its event, what is gone.
TreeChange(after, e, gone) == [tree |-> after, event |-> e, gone |-> gone]
With(d, content) == [tree EXCEPT ![d] = content]

Removals == {TreeChange(With(d, "absent"), Event(Root), {d}) : d \in Below}
Rewrites == {TreeChange(With(d, c), Event(d), {}) : d \in Below, c \in {"empty", "full"}}
Creations == {TreeChange(With(d, c), [in |-> Root, made |-> d], {}) :
                 d \in Dirs \ Below, c \in {"empty", "full"}}

TreeChanges == {TreeChange(tree, Event(Root), {})} \cup Removals \cup Rewrites \cup Creations

\* The kernel reports what happens in a watched directory.
Told(r, events, gone) ==
    [r EXCEPT !.queue = @ \cup {e \in events : e.in \in r.watched},
              !.watched = @ \ gone]

\* Somebody changes the library.
LocalChange ==
    /\ changes < MaxChanges
    /\ \E c \in TreeChanges :
          /\ tree' = c.tree
          /\ run' = IF run.at = "none" THEN run
                    ELSE [Told(run, {c.event}, c.gone) EXCEPT
                             !.unseen = (@ \ c.gone) \cup {c.event.in}]
    /\ changes' = changes + 1
    /\ UNCHANGED <<register, nextWork>>

\* The process itself may change the tree on its way to r.
MayWrite(r) ==
    \/ /\ run' = r
       /\ UNCHANGED <<tree, changes>>
    \/ /\ changes < MaxChanges
       /\ \E c \in TreeChanges : /\ tree' = c.tree
                                 /\ run' = Told(r, {c.event}, c.gone)
       /\ changes' = changes + 1

\* An error of a pass is only logged by a daemon, and returned without --daemon.
Goes(place, error) == [run EXCEPT !.at = place, !.failed = @ \/ (error /\ ~run.daemon)]
Returns(error) == [run EXCEPT !.at = "close", !.failed = error]

\* A step of the process that touches neither the register nor the tree.
Moves(r) == run' = r /\ UNCHANGED <<register, tree, nextWork, changes>>

-----------------------------------------------------------------------------
(* The start of Run                                                        *)

\* openStateStore; a store that refuses ends the process before this.
Start(p) ==
    /\ run.at = "none"
    /\ Begin(p)
    /\ \E d \in BOOLEAN :
          run' = [NoRun EXCEPT !.at = IF d THEN "watch" ELSE "remote",
                               !.daemon = d, !.initial = TRUE]
    /\ UNCHANGED <<tree, nextWork, changes>>

\* A daemon watches the tree before it scans it for the first time.
WatchTree ==
    /\ run.at = "watch"
    /\ \/ Moves([run EXCEPT !.at = "remote", !.watched = Present])
       \/ Moves(Returns(TRUE))

-----------------------------------------------------------------------------
(* scanInputs and applyReconcile                                           *)

\* A scan that fails ends Run at first, and later only the pass.
Abandoned == IF run.initial THEN Returns(TRUE) ELSE [run EXCEPT !.at = "select"]

\* Mutant of RemoteListed: a pass that listed the remote uses the last local scan.
LocalScanSkipped ==
    /\ run.at = "remote"
    /\ Moves([run EXCEPT !.at = "media"])

RemoteListed ==
    /\ run.at = "remote"
    /\ Moves([run EXCEPT !.at = "local"])

RemoteFails == run.at = "remote" /\ Moves(Abandoned)

LocalScanned ==
    /\ run.at = "local"
    /\ Moves([run EXCEPT !.at = "media", !.unseen = {}, !.missed = FALSE])

\* WalkDir fails on what vanishes under it, of which an event may tell as well, or
\* for any other reason; in the initial pass `ready' may fail after the scan.
LocalScanFails ==
    /\ run.at = "local"
    /\ Moves([Abandoned EXCEPT
                  !.missed = run.unseen # {} /\ ~run.signal /\ run.queue = {}])

\* A reconciliation goes on to r; the state and the tree may change.
Reconciles(r) ==
    /\ \/ UNCHANGED <<register, nextWork>>
       \/ /\ nextWork <= MaxWork
          /\ known' = [known EXCEPT !.work = @ \cup {nextWork}]
          /\ nextWork' = nextWork + 1
          /\ UNCHANGED <<owner, possible, acked>>
    /\ MayWrite(r)

Media ==
    /\ run.at = "media"
    /\ \E e \in BOOLEAN : Reconciles(Goes("save1", e))

\* A second local scan; if it fails, there are no sidecars and no second save.
Sidecars ==
    /\ run.at = "sides"
    /\ \/ Moves(Goes("tidy", TRUE))
       \/ \E e \in BOOLEAN : Reconciles(Goes("save2", e))

AfterPass(error) ==
    [Goes(IF run.daemon THEN "select" ELSE "close", error) EXCEPT !.initial = FALSE]

\* removeEmptyLocalDirs, deferred by applyReconcile: all of them, or an error.
Tidy ==
    /\ run.at = "tidy"
    /\ \E gone \in SUBSET {d \in Dirs : tree[d] = "empty"} :
          /\ tree' = [d \in Dirs |-> IF d \in gone THEN "absent" ELSE tree[d]]
          /\ run' = Told(AfterPass(\E d \in Dirs \ gone : tree[d] = "empty"),
                         IF gone = {} THEN {} ELSE {Event(Root)}, gone)
    /\ UNCHANGED <<register, nextWork, changes>>

-----------------------------------------------------------------------------
(* Save, from its three callers                                            *)

\* Mutant of AfterSave: an error of Save does not end the pass.
SaveErrorIgnored(ok) ==
    CASE run.at = "save1" -> Goes("sides", ~ok)
      [] run.at = "save2" -> Goes("tidy", ~ok)
      [] run.at = "final" -> Returns(~ok)

\* The first save of a pass guards its sidecars; the last one ends Run.
AfterSave(ok) ==
    CASE run.at = "save1" -> Goes(IF ok THEN "sides" ELSE "tidy", ~ok)
      [] run.at = "save2" -> Goes("tidy", ~ok)
      [] run.at = "final" -> Returns(~ok)

Saves ==
    /\ run.at \in {"save1", "save2", "final"}
    /\ \/ Acknowledge /\ run' = AfterSave(TRUE)
       \/ (Offer \/ UNCHANGED register) /\ run' = AfterSave(FALSE)
    /\ UNCHANGED <<tree, nextWork, changes>>

-----------------------------------------------------------------------------
(* The loop                                                                *)

\* Mutant of Stopped: the loop returns nil without a last save.
NoLastSave ==
    /\ run.at = "select"
    /\ run.stop
    /\ Moves(Returns(FALSE))

\* Mutant of Stopped: ctx is looked at when `events' has nothing to receive.
EventsFirst ==
    /\ run.at = "select"
    /\ run.stop
    /\ ~(run.signal \/ run.stop)
    /\ Moves([run EXCEPT !.at = "final"])

Stopped ==
    /\ run.at = "select"
    /\ run.stop
    /\ Moves([run EXCEPT !.at = "final"])

\* Every signal starts the settle time again, and a closed channel always.
Signalled ==
    /\ run.at = "select"
    /\ run.signal \/ run.stop
    /\ Moves([run EXCEPT !.signal = FALSE, !.debounce = TRUE])

\* A pass on the last remote snapshot.
Settled ==
    /\ run.at = "select"
    /\ run.debounce
    /\ Moves([run EXCEPT !.debounce = FALSE, !.at = "local"])

\* poll.C holds a tick, or gets the next one while the loop waits.
Polled ==
    /\ run.at = "select"
    /\ Moves([run EXCEPT !.at = "remote"])

\* The deferred calls: the watcher is closed, then the store.
Ends ==
    /\ run.at = "close"
    /\ End
    /\ run' = NoRun
    /\ UNCHANGED <<tree, nextWork, changes>>

-----------------------------------------------------------------------------
(* The watcher, signals and deaths                                         *)

\* Mutant of Watch: the channel has no buffer, so a busy loop misses its value.
Unbuffered ==
    /\ ~run.stop
    /\ \E e \in run.queue, added \in BOOLEAN :
          Moves([run EXCEPT !.queue = @ \ {e},
                            !.watched = IF added THEN @ \cup ({e.made} \cap Present) ELSE @,
                            !.signal = @ \/ run.at = "select"])

\* Mutant of Watch: what was made is watched whether or not it is a directory.
AnythingWatched ==
    /\ ~run.stop
    /\ \E e \in run.queue :
          Moves([run EXCEPT !.queue = @ \ {e}, !.watched = @ \cup {e.made}, !.signal = TRUE])

\* A new directory is watched, unless addTree fails; then `events' gets a
\* value, unless it holds one.
Watch ==
    /\ ~run.stop
    /\ \E e \in run.queue, added \in BOOLEAN :
          Moves([run EXCEPT !.queue = @ \ {e},
                            !.watched = IF added THEN @ \cup ({e.made} \cap Present) ELSE @,
                            !.signal = TRUE])

Cancel ==
    /\ run.at # "none"
    /\ ~run.stop
    /\ Moves([run EXCEPT !.stop = TRUE])

Dies ==
    /\ End
    /\ run' = NoRun
    /\ UNCHANGED <<tree, nextWork, changes>>

Disk == Settle /\ UNCHANGED <<run, tree, nextWork, changes>>

\* What the process does once it has begun, outside its select.
Body == \/ WatchTree \/ RemoteListed \/ RemoteFails \/ LocalScanned \/ LocalScanFails
        \/ Media \/ Sidecars \/ Tidy \/ Saves \/ Ends

Select == Stopped \/ Signalled \/ Settled \/ Polled

Next == \/ \E p \in Procs : Start(p)
        \/ Body \/ Select
        \/ Watch \/ Cancel
        \/ LocalChange \/ Dies \/ Disk

Spec == Init /\ [][Next]_vars

\* The process goes on; its select takes a case that is ready again and again; the
\* settle time passes, for changes end, unless a closed channel restarts it for ever.
\* Nobody need start the process, stop it, or change a file, and the remote need
\* not answer.
Fairness ==
    /\ WF_vars(Body) /\ WF_vars(Watch)
    /\ SF_vars(Stopped) /\ SF_vars(Signalled) /\ SF_vars(Polled)
    /\ SF_vars(Settled /\ ~run.stop)

FairSpec == Spec /\ Fairness

-----------------------------------------------------------------------------
(* While sidecars are reconciled, the ownership of every stub published by *)
(* the media part of the pass is on the disk (service.go:144).             *)
SidecarsAfterSave ==
    run.at = "sides" => possible = {known}

(* A process that ends without an error leaves all that it knows on the    *)
(* disk, where the next process finds it.                                  *)
CleanEndIsSaved ==
    run.at = "close" /\ ~run.failed => possible = {known}

(* Whatever becomes of the remote: a change in a watched directory is seen *)
(* by a later scan, unless that scan fails while no event is left to ask   *)
(* for another, or the process ends first.                                 *)
WatchedChangeSeen ==
    run.unseen \cap run.watched # {} ~> run.unseen \cap run.watched = {} \/ run.missed

(* If the remote, asked again and again, can be listed again and again and *)
(* local scans come to succeed, polls alone make a daemon see every        *)
(* change: also one in a directory that it could not watch, or that a      *)
(* failed scan has missed.                                                 *)
PollSeesAll ==
    (/\ []<>(run.at = "remote") => []<><<RemoteListed>>_vars
     /\ <>[][~LocalScanFails]_vars)
       => (run.daemon /\ run.unseen # {} ~> run.unseen = {})

(* A process that is asked to stop ends, in the midst of any events and    *)
(* although its closed event channel is always ready.                      *)
StopEnds == run.stop ~> run.at = "none"
=============================================================================
