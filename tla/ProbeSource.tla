----------------------------- MODULE ProbeSource -----------------------------
(***************************************************************************)
(* core/source.go BudgetedSource, the window and the budget through which  *)
(* a probe reads an object, and core/plan.go, the sparse plan it makes.    *)
(*                                                                         *)
(* A file is a sequence of cells.  A cell stands for as many bytes as make *)
(* up an identifier or a size, and says which one it is and of what value; *)
(* offsets and lengths count cells, from 0 as in the code.                 *)
(***************************************************************************)
EXTENDS Integers, Sequences

CONSTANTS WindowSize, MaxBytes, MaxRequests  \* the fields of core.Budget

ASSUME BudgetAssumption == /\ WindowSize \in Nat \ {0}
                           /\ MaxBytes \in Nat \ {0}
                           /\ MaxRequests \in Nat \ {0}

Least(a, b) == IF a < b THEN a ELSE b
Most(a, b) == IF a < b THEN b ELSE a

\* s[off : off+len]
Slice(s, off, len) == [i \in 1..len |-> s[off + i]]

\* Any string is an identifier; those a stub is made of are named for the proofs.
Ids == STRING \cup {"zero", "segment", "cluster", "timecode", "void", "short", "long", "pad"}
Cells == [id: Ids, n: Nat]
Cell(id, n) == [id |-> id, n |-> n]
Zero == Cell("zero", 0)

-----------------------------------------------------------------------------
(* BudgetedSource                                                          *)

\* `mishap': whether a read was refused, failed or was cut short (auxiliary).
NewBudgetedSource == [start |-> -1, window |-> <<>>, bytes |-> 0, requests |-> 0,
                      mishap |-> FALSE]

\* The window holds all that is asked for.
Hit(s, len, off) == off >= s.start /\ off + len <= s.start + Len(s.window)

\* A whole window is read, or more, or the rest of the file.
ReadSize(file, len, off) == Least(Most(len, WindowSize), Len(file) - off)

\* Mutant of Refused: what the read itself will add is not counted.
RefusedLate(s, size) == s.requests + 1 > MaxRequests \/ s.bytes > MaxBytes

Refused(s, size) == s.requests + 1 > MaxRequests \/ s.bytes + size > MaxBytes

Read(cells, err, src) == [cells |-> cells, err |-> err, src |-> src]

\* Mutant of Fetched: a read that fails leaves the window where it was.
FetchedKeepingStart(s, file, len, off, n, err) ==
    Read(Slice(file, off, Least(len, n)), err,
         [start |-> IF err = "failed" THEN s.start ELSE off, window |-> Slice(file, off, n),
          bytes |-> s.bytes + n, requests |-> s.requests + 1,
          mishap |-> s.mishap \/ n < ReadSize(file, len, off)])

\* The source gives n cells at off: they are the new window, also if it fails.
Fetched(s, file, len, off, n, err) ==
    Read(Slice(file, off, Least(len, n)), err,
         [start |-> off, window |-> Slice(file, off, n),
          bytes |-> s.bytes + n, requests |-> s.requests + 1,
          mishap |-> s.mishap \/ n < ReadSize(file, len, off)])

\* The whole read, in good order; past the end of the file less than is asked.
Good(s, file, len, off) ==
    LET size == ReadSize(file, len, off)
    IN  Fetched(s, file, len, off, size, IF size < len THEN "EOF" ELSE "none")

\* A read breaks off after n cells, with an error; an answer that ends early
\* is io.EOF to its reader (webdav.go:434).
Broken(s, file, len, off) ==
    LET Lost == 0..(ReadSize(file, len, off) - 1)
    IN  {Fetched(s, file, len, off, n, err) : n \in Lost, err \in {"failed", "EOF"}}

\* BudgetedSource.ReadAt: the outcomes it may have, for len > 0 and off >= 0.
Reads(s, file, len, off) ==
    CASE off >= Len(file) -> {Read(<<>>, "EOF", s)}
      [] off < Len(file) /\ Hit(s, len, off) ->
            {Read(Slice(s.window, off - s.start, len), "none", s)}
      [] off < Len(file) /\ ~Hit(s, len, off) /\ Refused(s, ReadSize(file, len, off)) ->
            {Read(<<>>, "budget", [s EXCEPT !.mishap = TRUE])}
      [] OTHER -> {Good(s, file, len, off)} \cup Broken(s, file, len, off)

-----------------------------------------------------------------------------
(* Plan                                                                    *)

Extent(offset, data) == [offset |-> offset, data |-> data]
EndOf(e) == e.offset + Len(e.data)

\* NewPlan's demands on extents, which both probes give it in order.
Accepted(size, extents) ==
    /\ \A i \in DOMAIN extents : extents[i].offset >= 0 /\ EndOf(extents[i]) <= size
    /\ \A i \in 1..(Len(extents) - 1) : extents[i + 1].offset >= EndOf(extents[i])

Plan(size, extents) == [size |-> size, extents |-> extents]

\* Plan.ReadAt: zeros, and over them the part of each extent that is asked for.
PlanReadAt(plan, len, off) ==
    LET n == Least(len, plan.size - off)
        Asked == {e \in {plan.extents[i] : i \in DOMAIN plan.extents} :
                     EndOf(e) > off /\ e.offset < off + n}
        Holding(i) == {e \in Asked : e.offset <= i /\ i < EndOf(e)}
        At(i) == IF Holding(i) = {} THEN Zero
                 ELSE LET e == CHOOSE e \in Holding(i) : TRUE IN e.data[i - e.offset + 1]
    IN  IF off >= plan.size THEN <<>> ELSE [i \in 1..n |-> At(off + i - 1)]
=============================================================================
