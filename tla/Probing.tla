------------------------------- MODULE Probing -------------------------------
(***************************************************************************)
(* What the two container probes of core share: the object, the source     *)
(* they read it through, the cursor, and the results.  An object is probed *)
(* as in core/probe.go, and the stub its plan describes is probed again,   *)
(* as a media scanner would read it (core/probe_test.go does so as well).  *)
(***************************************************************************)
EXTENDS ProbeSource

CONSTANTS Objects,      \* the objects: [cells, layout], where their parts should begin
          MaxMetadata,  \* maxMetadataElementSize
          MaxHeader,    \* the limit of the EBML header
          MaxInt        \* the largest int64

ASSUME ProbingAssumption == MaxMetadata \in Nat /\ MaxHeader \in Nat /\ MaxInt \in Nat

\* The size of an object is an int64 (Source.Size).
ASSUME ObjectsAssumption ==
    \A o \in Objects : /\ o.cells \in Seq(Cells) /\ Len(o.cells) <= MaxInt
                       /\ o.layout \in Seq(Nat)

VARIABLES object,   \* the object under probe
          file,     \* the cells the source reads: the object's, or its stub's
          src,      \* the BudgetedSource
          walk,     \* where the probe is: its locals
          results   \* of the first probe, and of the second

vars == <<object, file, src, walk, results>>

\* int64 arithmetic.
Wrap(n) == IF n > MaxInt THEN n - 2 * (MaxInt + 1) ELSE n

NoItem == [id |-> "none", offset |-> 0, header |-> 0, size |-> 0, unknown |-> FALSE, cells |-> <<>>]

\* `at' names the read that comes next; the other fields are locals of
\* scanMP4TopLevel (seen, extents) and probeMatroska (headerEnd .. Tags).
NewWalk == [at |-> "head", offset |-> 0, item |-> NoItem, extents |-> <<>>, seen |-> {},
            headerEnd |-> 0, segmentEnd |-> 0, raw |-> [i \in {"info", "tracks", "tags"} |-> <<>>]]

NoPlan == Plan(0, <<>>)
Result(kind, plan) == [kind |-> kind, plan |-> plan]
Failed == Result("failed", NoPlan)
Unsupported == Result("unsupported", NoPlan)
NotMedia == Result("not media", NoPlan)

\* NewPlan over the extents that were found.
Planned(extents) ==
    IF Accepted(Len(file), extents) THEN Result("plan", Plan(Len(file), extents))
    ELSE Result("refused", NoPlan)

ProbeInit == /\ object \in Objects
             /\ file = object.cells
             /\ src = NewBudgetedSource
             /\ walk = NewWalk
             /\ results = <<>>

\* The read r was done, and the probe goes on to w.
Goes(r, w) == src' = r.src /\ walk' = w /\ UNCHANGED <<object, file, results>>

\* The probe returns.  A first plan becomes a stub, which is probed in turn.
Returns(r, result) ==
    /\ results' = Append(results, result)
    /\ UNCHANGED object
    /\ \/ /\ result.kind = "plan" /\ results = <<>>
          /\ file' = PlanReadAt(result.plan, result.plan.size, 0)
          /\ src' = NewBudgetedSource
          /\ walk' = NewWalk
       \/ /\ result.kind # "plan" \/ results # <<>>
          /\ src' = r.src
          /\ walk' = [walk EXCEPT !.at = "done"]
          /\ UNCHANGED file
=============================================================================
