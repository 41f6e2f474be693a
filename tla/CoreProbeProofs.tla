--------------------------- MODULE CoreProbeProofs ---------------------------
(***************************************************************************)
(* The proofs about a probe, for any objects, budget and limits.           *)
(*                                                                         *)
(* First what a read gives, what a walk has passed at each read (Mp4Walk,  *)
(* MatroskaWalk), what a plan is of (Mp4PlanOf, MatroskaPlanOf) and that   *)
(* its stub has the same plan; then ProbeInv, which holds whatever the     *)
(* object is and whatever reads fail, with the theorems that follow from   *)
(* it.  Then the walk over sound media: it keeps step with their layout    *)
(* (InStep), so that it returns what there is (ReadSoundly); this is shown *)
(* of the object, and of its stub, whose layout is found from the plan.    *)
(* ScanInv puts the two together.                                          *)
(***************************************************************************)
EXTENDS CoreProbe, SequenceTheorems, TLAPS

-----------------------------------------------------------------------------
(* The budgeted source.                                                    *)

Sources == [start: Int, window: Seq(Cells), bytes: Nat, requests: Nat, mishap: BOOLEAN]

\* The window is a stretch of the file f, and the budget is kept to.
SourceOf(s, f) ==
    /\ s \in Sources
    /\ s.start \in -1..Len(f)
    /\ \A i \in 1..Len(s.window) : /\ s.start + i \in 1..Len(f)
                                   /\ s.window[i] = f[s.start + i]
    /\ s.bytes <= MaxBytes /\ s.requests <= MaxRequests

LEMMA NewSourceFits == ASSUME NEW f \in Seq(Cells) PROVE SourceOf(NewBudgetedSource, f)
BY BudgetAssumption DEF SourceOf, Sources, NewBudgetedSource

\* A slice of a sequence, as far as it has one.
LEMMA SliceOf ==
    ASSUME NEW s \in Seq(Cells), NEW off \in Nat, NEW len \in Nat, off + len <= Len(s)
    PROVE  /\ Slice(s, off, len) \in Seq(Cells)
           /\ Len(Slice(s, off, len)) = len
           /\ \A i \in 1..len : Slice(s, off, len)[i] = s[off + i]
BY DEF Slice

\* Two sequences, one after the other.
LEMMA Joined ==
    ASSUME NEW a \in Seq(Cells), NEW b \in Seq(Cells)
    PROVE  /\ a \o b \in Seq(Cells) /\ Len(a \o b) = Len(a) + Len(b)
           /\ \A i \in 1..Len(a) : (a \o b)[i] = a[i]
           /\ \A i \in 1..Len(b) : (a \o b)[Len(a) + i] = b[i]
<1>1. /\ a \o b \in Seq(Cells) /\ Len(a \o b) = Len(a) + Len(b)
      /\ Len(a) \in Nat /\ Len(b) \in Nat
  OBVIOUS
<1>2. \A i \in 1 .. Len(a) + Len(b) : (a \o b)[i] = IF i <= Len(a) THEN a[i] ELSE b[i - Len(a)]
  BY ConcatProperties
<1>3. \A i \in 1..Len(a) : (a \o b)[i] = a[i]
  BY <1>1, <1>2
<1>4. ASSUME NEW i \in 1..Len(b)
      PROVE  (a \o b)[Len(a) + i] = b[i]
  BY <1>1, <1>2
<1> QED
  BY <1>1, <1>3, <1>4

\* What a read of len cells at off gives, whatever became of it.
Gives(r, s, f, len, off) ==
    /\ r.err \in {"none", "EOF", "failed", "budget"}
    /\ r.cells \in Seq(Cells) /\ Len(r.cells) <= len
    /\ Len(r.cells) > 0 => off + Len(r.cells) <= Len(f)
    /\ \A i \in 1..Len(r.cells) : r.cells[i] = f[off + i]
    /\ r.err = "none" => Len(r.cells) = len
    /\ s.mishap => r.src.mishap
    /\ ~r.src.mishap => /\ r.err \in {"none", "EOF"}
                        /\ Len(r.cells) = IF off >= Len(f) THEN 0 ELSE Least(len, Len(f) - off)
                        /\ r.err = "none" <=> off + len <= Len(f)

LEMMA FetchGives ==
    ASSUME NEW f \in Seq(Cells), NEW s, SourceOf(s, f), NEW len \in Nat \ {0}, NEW off \in Nat,
           off < Len(f), ~Refused(s, ReadSize(f, len, off)),
           NEW n \in 0..ReadSize(f, len, off), NEW err \in {"none", "EOF", "failed"},
           n = ReadSize(f, len, off) => err = IF n < len THEN "EOF" ELSE "none",
           n < ReadSize(f, len, off) => err # "none",
           NEW r, r = Fetched(s, f, len, off, n, err)
    PROVE  SourceOf(r.src, f) /\ Gives(r, s, f, len, off)
<1>1. ReadSize(f, len, off) \in Nat /\ ReadSize(f, len, off) <= Len(f) - off
      /\ (ReadSize(f, len, off) < len => ReadSize(f, len, off) = Len(f) - off)
  BY BudgetAssumption DEF ReadSize, Least, Most
<1>2. n \in Nat /\ off + n <= Len(f) /\ Least(len, n) \in Nat /\ Least(len, n) <= n
      /\ Least(len, n) <= len /\ (Least(len, n) < len => Least(len, n) = n)
  BY <1>1 DEF Least
<1> DEFINE cells == Slice(f, off, Least(len, n))
           window == Slice(f, off, n)
<1>3. /\ cells \in Seq(Cells) /\ Len(cells) = Least(len, n)
      /\ \A i \in 1..Len(cells) : cells[i] = f[off + i]
  <2>1. Least(len, n) \in Nat /\ off + Least(len, n) <= Len(f)
    BY <1>2
  <2>2. PICK l \in Nat : l = Least(len, n)
    BY <2>1
  <2> QED
    BY <2>1, <2>2, SliceOf
<1>4. /\ window \in Seq(Cells) /\ Len(window) = n
      /\ \A i \in 1..Len(window) : window[i] = f[off + i]
  BY <1>2, SliceOf
<1>5. /\ r.cells = cells /\ r.err = err
      /\ r.src = [start |-> off, window |-> window, bytes |-> s.bytes + n,
                  requests |-> s.requests + 1,
                  mishap |-> s.mishap \/ n < ReadSize(f, len, off)]
  BY DEF Fetched, Read
<1> HIDE DEF cells, window
<1>6. s.bytes \in Nat /\ s.requests \in Nat /\ s.mishap \in BOOLEAN
  BY DEF SourceOf, Sources
<1>7. SourceOf(r.src, f)
  <2>1. r.src \in Sources
    BY <1>2, <1>4, <1>5, <1>6 DEF Sources
  <2>2. s.bytes + n <= MaxBytes /\ s.requests + 1 <= MaxRequests
    <3>1. PICK m \in Nat : m = ReadSize(f, len, off)
      BY <1>1
    <3>2. n <= m
      BY <3>1
    <3>3. ~(s.requests + 1 > MaxRequests) /\ ~(s.bytes + m > MaxBytes)
      BY <3>1 DEF Refused
    <3> QED
      BY <1>2, <1>6, <3>2, <3>3, BudgetAssumption, SMTT(30)
  <2> QED
    BY <2>1, <2>2, <1>2, <1>4, <1>5 DEF SourceOf
<1>8. r.src.mishap = (s.mishap \/ n < ReadSize(f, len, off))
  BY <1>5
<1>9. ~r.src.mishap => n = ReadSize(f, len, off)
  <2>1. ~r.src.mishap => ~(n < ReadSize(f, len, off))
    BY <1>8, Zenon
  <2> QED
    BY <1>1, <1>2, <2>1
<1>10. ~r.src.mishap => /\ err \in {"none", "EOF"}
                        /\ Len(cells) = Least(len, Len(f) - off)
                        /\ err = "none" <=> off + len <= Len(f)
  BY <1>1, <1>2, <1>3, <1>9 DEF Least
<1>11. s.mishap => r.src.mishap
  BY <1>8, Zenon
<1>12. err = "none" => Len(cells) = len
  BY <1>1, <1>2, <1>3
<1>13. off + Len(cells) <= Len(f) /\ Len(cells) <= len
  BY <1>2, <1>3
<1> HIDE DEF Gives
<1>14. Gives(r, s, f, len, off)
  BY <1>3, <1>5, <1>10, <1>11, <1>12, <1>13 DEF Gives
<1> QED
  BY <1>7, <1>14

\* Every read keeps to the budget and gives what is in the file.
LEMMA ReadGives ==
    ASSUME NEW f \in Seq(Cells), NEW s, SourceOf(s, f), NEW len \in Nat \ {0}, NEW off \in Nat,
           NEW r \in Reads(s, f, len, off)
    PROVE  SourceOf(r.src, f) /\ Gives(r, s, f, len, off)
<1>1. CASE off >= Len(f)
  <2>1. r.cells = <<>> /\ r.err = "EOF" /\ r.src = s
    BY <1>1 DEF Reads, Read
  <2>2. <<>> \in Seq(Cells) /\ Len(<<>>) = 0
    OBVIOUS
  <2>3. ~(off + len <= Len(f))
    BY <1>1
  <2> QED
    BY <1>1, <2>1, <2>2, <2>3 DEF Gives
<1>2. CASE off < Len(f) /\ Hit(s, len, off)
  <2>1. r.src = s /\ r.err = "none" /\ r.cells = Slice(s.window, off - s.start, len)
    BY <1>2 DEF Reads, Read
  <2>2. /\ s.window \in Seq(Cells) /\ off - s.start \in Nat /\ s.start \in Int
        /\ off - s.start + len <= Len(s.window)
    BY <1>2 DEF Hit, SourceOf, Sources
  <2>6. PICK at \in Nat, win \in Seq(Cells) :
           at = off - s.start /\ win = s.window /\ at + len <= Len(win)
    BY <2>2
  <2>7. r.cells = Slice(win, at, len)
    BY <2>1, <2>6
  <2>8. PICK l \in Nat : l = len
    OBVIOUS
  <2>9. /\ Slice(win, at, l) \in Seq(Cells) /\ Len(Slice(win, at, l)) = l
        /\ \A i \in 1..l : Slice(win, at, l)[i] = win[at + i]
    <3>1. l \in Nat /\ at \in Nat /\ win \in Seq(Cells) /\ at + l <= Len(win)
      BY <2>6, <2>8
    <3> QED
      BY <3>1, SliceOf, Zenon
  <2>3. /\ r.cells \in Seq(Cells) /\ Len(r.cells) = len
        /\ \A i \in 1..len : r.cells[i] = win[at + i]
    BY <2>7, <2>8, <2>9
  <2>4. \A i \in 1..len : win[at + i] = f[off + i] /\ off + i <= Len(f)
    <3> SUFFICES ASSUME NEW i \in 1..len
                 PROVE  win[at + i] = f[off + i] /\ off + i <= Len(f)
      OBVIOUS
    <3>5. PICK st \in Int : st = s.start
      BY <2>2
    <3>1. st + at = off /\ i \in Nat /\ 1 <= i /\ i <= len
      BY <2>6, <3>5
    <3>6. Len(win) \in Nat
      BY <2>6
    <3>8. at + len <= Len(win)
      BY <2>6
    <3>9. at + i \in 1..Len(win)
      BY <3>1, <3>6, <3>8
    <3>7. at + i \in 1..Len(win) /\ st + (at + i) = off + i
      BY <3>1, <3>9
    <3>2. at + i \in 1..Len(win) /\ s.start + (at + i) = off + i
      BY <3>5, <3>7
    <3>3. at + i \in 1..Len(s.window)
      BY <2>6, <3>2
    <3>4. s.window[at + i] = f[s.start + (at + i)] /\ s.start + (at + i) <= Len(f)
      BY <3>3, SMTT(30) DEF SourceOf
    <3> QED
      BY <2>6, <3>2, <3>4
  <2>5. off + len <= Len(f)
    <3>1. len \in 1..len
      OBVIOUS
    <3> QED
      BY <2>4, <3>1
  <2>10. \A i \in 1..len : r.cells[i] = f[off + i]
    BY <2>3, <2>4
  <2>11. Least(len, Len(f) - off) = len
    BY <2>5 DEF Least
  <2>12. Gives(r, s, f, len, off)
    BY <2>1, <2>3, <2>5, <2>10, <2>11 DEF Gives
  <2> QED
    BY <2>1, <2>12
<1>3. CASE off < Len(f) /\ ~Hit(s, len, off) /\ Refused(s, ReadSize(f, len, off))
  <2>1. r = Read(<<>>, "budget", [s EXCEPT !.mishap = TRUE])
    BY <1>3 DEF Reads
  <2>2. /\ r.cells = <<>> /\ r.err = "budget" /\ r.src.mishap
        /\ r.src.start = s.start /\ r.src.window = s.window /\ r.src.bytes = s.bytes
        /\ r.src.requests = s.requests /\ r.src \in Sources
    BY <2>1 DEF Read, SourceOf, Sources
  <2>3. <<>> \in Seq(Cells) /\ Len(<<>>) = 0
    OBVIOUS
  <2>4. Gives(r, s, f, len, off)
    BY <2>2, <2>3 DEF Gives
  <2>5. SourceOf(r.src, f)
    BY <2>2 DEF SourceOf
  <2> QED
    BY <2>4, <2>5
<1>4. CASE off < Len(f) /\ ~Hit(s, len, off) /\ ~Refused(s, ReadSize(f, len, off))
  <2>1. r \in {Good(s, f, len, off)} \cup Broken(s, f, len, off)
    BY <1>4 DEF Reads
  <2>2. ReadSize(f, len, off) \in Nat
    BY <1>4, BudgetAssumption DEF ReadSize, Least, Most
  <2>3. CASE r = Good(s, f, len, off)
    BY <1>4, <2>2, <2>3, FetchGives DEF Good
  <2>4. CASE r \in Broken(s, f, len, off)
    <3>1. PICK n \in 0..(ReadSize(f, len, off) - 1), err \in {"failed", "EOF"} :
             r = Fetched(s, f, len, off, n, err)
      BY <2>4 DEF Broken
    <3> QED
      BY <1>4, <2>2, <3>1, FetchGives
  <2> QED
    BY <2>1, <2>3, <2>4
<1> QED
  BY <1>1, <1>2, <1>3, <1>4

-----------------------------------------------------------------------------
(* Files, and the boxes of one.                                            *)

Extents == [offset: Nat, data: Seq(Cells)]

FileOf(f) == f \in Seq(Cells) /\ Len(f) <= MaxInt /\ Sized(f)

\* What the plan keeps of the box at `at'.
KeptSize(f, at) == IF BoxId(f, at) \in BoxMetadata THEN BoxSize(f, at) ELSE BoxHeader(f, at)
KeptPart(f, at) == Extent(at, Slice(f, at, KeptSize(f, at)))

LEMMA BoxFacts ==
    ASSUME NEW f \in Seq(Cells), NEW at \in Nat, WholeBox(f, at)
    PROVE  /\ BoxId(f, at) \in Ids
           /\ BoxHeader(f, at) \in {HeaderSize, ExtendedSize} /\ BoxSize(f, at) \in Nat
           /\ BoxEnd(f, at) \in Nat /\ BoxEnd(f, at) <= Len(f)
           /\ BoxHeader(f, at) <= BoxSize(f, at)
           /\ at + HeaderSize <= BoxEnd(f, at)
<1>1. at + 1 \in 1..Len(f) /\ at + 2 \in 1..Len(f)
  BY DEF WholeBox, HeaderSize
<1>2. f[at + 1] \in Cells /\ f[at + 2] \in Cells
  BY <1>1
<1>3. BoxHeader(f, at) = ExtendedSize => at + 3 \in 1..Len(f)
  BY DEF WholeBox, BoxHeader, HeaderSize, ExtendedSize
<1>4. BoxHeader(f, at) = ExtendedSize => f[at + 3] \in Cells
  BY <1>3
<1>5. BoxHeader(f, at) \in {HeaderSize, ExtendedSize}
      /\ (f[at + 1].n = Extended <=> BoxHeader(f, at) = ExtendedSize)
  BY DEF BoxHeader, HeaderSize, ExtendedSize
<1>6. BoxSize(f, at) \in Nat
  <2>1. f[at + 1].n \in Nat /\ (BoxHeader(f, at) = ExtendedSize => f[at + 3].n \in Nat)
    BY <1>2, <1>4 DEF Cells
  <2>2. Len(f) - at \in Nat
    BY <1>1
  <2> QED
    BY <1>5, <2>1, <2>2 DEF BoxSize
<1>7. BoxId(f, at) \in Ids
  BY <1>2 DEF BoxId, Cells
<1> QED
  BY <1>5, <1>6, <1>7 DEF WholeBox, BoxEnd, HeaderSize, ExtendedSize

LEMMA KeptFacts ==
    ASSUME NEW f \in Seq(Cells), NEW at \in Nat, WholeBox(f, at)
    PROVE  /\ KeptSize(f, at) \in Nat /\ KeptSize(f, at) >= HeaderSize
           /\ at + KeptSize(f, at) <= BoxEnd(f, at)
           /\ KeptPart(f, at) \in Extents /\ KeptPart(f, at).offset = at
           /\ Len(KeptPart(f, at).data) = KeptSize(f, at)
           /\ EndOf(KeptPart(f, at)) <= BoxEnd(f, at)
           /\ \A i \in 1..KeptSize(f, at) : KeptPart(f, at).data[i] = f[at + i]
<1>1. /\ KeptSize(f, at) \in Nat /\ KeptSize(f, at) >= HeaderSize
      /\ at + KeptSize(f, at) <= BoxEnd(f, at)
  BY BoxFacts DEF KeptSize, BoxEnd, HeaderSize, ExtendedSize
<1>2. at + KeptSize(f, at) <= Len(f)
  BY <1>1, BoxFacts
<1>3. PICK n \in Nat : n = KeptSize(f, at)
  BY <1>1
<1>4. /\ Slice(f, at, n) \in Seq(Cells) /\ Len(Slice(f, at, n)) = n
      /\ \A i \in 1..n : Slice(f, at, n)[i] = f[at + i]
  BY <1>2, <1>3, SliceOf
<1> QED
  BY <1>1, <1>3, <1>4 DEF KeptPart, Extent, Extents, EndOf

-----------------------------------------------------------------------------
(* The boxes that a walk has passed.                                       *)

Offsets(extents) == [i \in 1..Len(extents) |-> extents[i].offset]
PassedIds(f, extents, k) == BoxIds(f, Offsets(extents), k)
Enough == {"moov", "mdat"}

\* The extents keep one box after the other, from the start of f to `end',
\* and moov and mdat are not both among them but for the last.
Trail(f, extents, end) ==
    /\ extents \in Seq(Extents) /\ end \in Nat
    /\ \A i \in 1..Len(extents) : /\ WholeBox(f, extents[i].offset)
                                  /\ extents[i] = KeptPart(f, extents[i].offset)
                                  /\ BoxEnd(f, extents[i].offset) <= end
    /\ \A i, j \in 1..Len(extents) : i < j => BoxEnd(f, extents[i].offset) <= extents[j].offset
    /\ \A i \in 1..(Len(extents) - 1) : extents[i + 1].offset = BoxEnd(f, extents[i].offset)
    /\ IF extents = <<>> THEN end = 0
       ELSE extents[1].offset = 0 /\ end = BoxEnd(f, extents[Len(extents)].offset)
    /\ \A k \in 1..(Len(extents) - 1) : ~(Enough \subseteq PassedIds(f, extents, k))

LEMMA BoxIdsAgree ==
    ASSUME NEW f, NEW a, NEW b, NEW n \in Nat, NEW k \in 0..n, \A i \in 1..n : a[i] = b[i]
    PROVE  BoxIds(f, a, k) = BoxIds(f, b, k)
<1>1. \A i \in 1..k : BoxId(f, a[i]) = BoxId(f, b[i])
  OBVIOUS
<1> QED
  BY <1>1, Zenon DEF BoxIds

\* One box longer.
GrownBy(f, longer, extents, at) ==
    /\ Trail(f, longer, BoxEnd(f, at))
    /\ Len(longer) = Len(extents) + 1
    /\ \A i \in 1..Len(extents) : longer[i] = extents[i]
    /\ longer[Len(longer)] = KeptPart(f, at)
    /\ PassedIds(f, longer, Len(longer))
         = PassedIds(f, extents, Len(extents)) \cup {BoxId(f, at)}

LEMMA TrailGrows ==
    ASSUME NEW f \in Seq(Cells), NEW extents, NEW at, Trail(f, extents, at), WholeBox(f, at),
           ~(Enough \subseteq PassedIds(f, extents, Len(extents))),
           NEW longer, longer = extents \o <<KeptPart(f, at)>>
    PROVE  GrownBy(f, longer, extents, at)
<1>1. extents \in Seq(Extents) /\ at \in Nat /\ Len(extents) \in Nat
  BY DEF Trail
<1>2. KeptPart(f, at) \in Extents /\ KeptPart(f, at).offset = at
  BY <1>1, KeptFacts
<1>3. BoxEnd(f, at) \in Nat /\ at <= BoxEnd(f, at)
  BY <1>1, BoxFacts DEF HeaderSize
<1> DEFINE n == Len(extents)
           part == KeptPart(f, at)
<1> HIDE DEF part
<1>4. /\ longer \in Seq(Extents) /\ Len(longer) = n + 1
      /\ \A i \in 1..n : longer[i] = extents[i]
      /\ longer[n + 1] = part /\ longer # <<>>
  <2>1. <<part>> \in Seq(Extents) /\ Len(<<part>>) = 1 /\ <<part>>[1] = part
    BY <1>2 DEF part
  <2> QED
    BY <1>1, <2>1 DEF part
<1>5. \A i \in 1..(n + 1) : i \in 1..n \/ i = n + 1
  BY <1>1
<1>6. part.offset = at /\ part = KeptPart(f, part.offset)
  BY <1>2 DEF part
<1>7. \A i \in 1..n : extents[i].offset \in Nat
  <2>1. \A i \in 1..n : extents[i] \in Extents
    BY <1>1
  <2> QED
    BY <2>1 DEF Extents
<1>8. \A i \in 1..(n + 1) : /\ WholeBox(f, longer[i].offset)
                            /\ longer[i] = KeptPart(f, longer[i].offset)
                            /\ BoxEnd(f, longer[i].offset) <= BoxEnd(f, at)
  <2> TAKE i \in 1..(n + 1)
  <2>1. CASE i \in 1..n
    <3>1. /\ WholeBox(f, extents[i].offset) /\ extents[i] = KeptPart(f, extents[i].offset)
          /\ BoxEnd(f, extents[i].offset) <= at
      BY <2>1 DEF Trail
    <3>2. BoxEnd(f, extents[i].offset) \in Nat
      BY <1>7, <2>1, <3>1, BoxFacts
    <3> QED
      BY <1>1, <1>3, <1>4, <2>1, <3>1, <3>2
  <2>2. CASE i = n + 1
    BY <1>3, <1>4, <1>6, <2>2
  <2> QED
    BY <1>5, <2>1, <2>2
<1>9. \A i, j \in 1..(n + 1) : i < j => BoxEnd(f, longer[i].offset) <= longer[j].offset
  <2> SUFFICES ASSUME NEW i \in 1..(n + 1), NEW j \in 1..(n + 1), i < j
               PROVE  BoxEnd(f, longer[i].offset) <= longer[j].offset
    OBVIOUS
  <2>1. i \in 1..n
    BY <1>1
  <2>2. CASE j \in 1..n
    BY <1>4, <2>1, <2>2 DEF Trail
  <2>3. CASE j = n + 1
    BY <1>4, <1>6, <2>1, <2>3 DEF Trail
  <2> QED
    BY <1>5, <2>2, <2>3
<1>10. \A i \in 1..n : longer[i + 1].offset = BoxEnd(f, longer[i].offset)
  <2> TAKE i \in 1..n
  <2>1. CASE i = n
    BY <1>1, <1>4, <1>6, <2>1 DEF Trail
  <2>2. CASE i # n
    <3>1. i \in 1..(n - 1) /\ i + 1 \in 1..n
      BY <1>1, <2>2
    <3> QED
      BY <1>4, <3>1 DEF Trail
  <2> QED
    BY <2>1, <2>2
<1>11. longer[1].offset = 0 /\ BoxEnd(f, at) = BoxEnd(f, longer[n + 1].offset)
  <2>1. CASE n = 0
    BY <1>1, <1>4, <1>6, <2>1 DEF Trail
  <2>2. CASE n # 0
    BY <1>1, <1>4, <1>6, <2>2 DEF Trail
  <2> QED
    BY <2>1, <2>2
<1>12. /\ \A i \in 1..n : Offsets(longer)[i] = Offsets(extents)[i]
       /\ Offsets(longer)[n + 1] = at
  BY <1>1, <1>4, <1>6 DEF Offsets
<1>13. \A k \in 1..n : PassedIds(f, longer, k) = PassedIds(f, extents, k)
  <2> DEFINE a == Offsets(longer)
             b == Offsets(extents)
  <2>1. n \in Nat /\ \A i \in 1..n : a[i] = b[i]
    BY <1>1, <1>12
  <2> HIDE DEF a, b, n
  <2>2. \A k \in 0..n : BoxIds(f, a, k) = BoxIds(f, b, k)
    BY <2>1, BoxIdsAgree
  <2> QED
    BY <2>1, <2>2 DEF PassedIds, a, b
<1>14. PassedIds(f, longer, n + 1) = PassedIds(f, extents, n) \cup {BoxId(f, at)}
  <2> DEFINE a == Offsets(longer)
             b == Offsets(extents)
  <2>1. n \in Nat /\ a[n + 1] = at /\ \A i \in 1..n : a[i] = b[i]
    BY <1>1, <1>12
  <2> HIDE DEF a, b, n
  <2>2. 1..(n + 1) = 1..n \cup {n + 1}
    BY <2>1
  <2>3. \A i \in 1..n : BoxId(f, a[i]) = BoxId(f, b[i])
    BY <2>1
  <2>4. {BoxId(f, a[i]) : i \in 1..n \cup {n + 1}}
          = {BoxId(f, b[i]) : i \in 1..n} \cup {BoxId(f, a[n + 1])}
    BY <2>3, Zenon
  <2>5. BoxIds(f, a, n + 1) = BoxIds(f, b, n) \cup {BoxId(f, a[n + 1])}
    BY <2>2, <2>4, Zenon DEF BoxIds
  <2> QED
    BY <2>1, <2>5 DEF PassedIds, a, b
<1>15. \A k \in 1..n : ~(Enough \subseteq PassedIds(f, longer, k))
  <2> TAKE k \in 1..n
  <2>1. CASE k = n
    BY <1>13, <2>1
  <2>2. CASE k # n
    <3>1. k \in 1..(Len(extents) - 1)
      BY <1>1, <2>2
    <3>2. ~(Enough \subseteq PassedIds(f, extents, k))
      BY <3>1 DEF Trail
    <3> QED
      BY <1>13, <3>2
  <2> QED
    BY <2>1, <2>2
<1>16. Len(longer) - 1 = n
  BY <1>1, <1>4
<1>17. Trail(f, longer, BoxEnd(f, at))
  <2> HIDE DEF n
  <2> QED
    BY <1>3, <1>4, <1>8, <1>9, <1>10, <1>11, <1>15, <1>16 DEF Trail
<1> QED
  BY <1>1, <1>4, <1>14, <1>17 DEF part, GrownBy

-----------------------------------------------------------------------------
(* The walk over an MP4 file, box by box.                                  *)

Items == [id: Ids \cup {"none"}, offset: Nat, header: Nat, size: Nat, unknown: BOOLEAN, cells: Seq(Cells)]

Walks == [at: Steps, offset: Nat, item: Items, extents: Seq(Extents), seen: SUBSET Ids,
          headerEnd: Nat, segmentEnd: Nat, raw: [ElementMetadata -> Seq(Cells)]]

\* What a read gives, as a slice.
LEMMA GivenSlice ==
    ASSUME NEW f \in Seq(Cells), NEW r, NEW s, NEW len, NEW off \in Nat, Gives(r, s, f, len, off),
           NEW n \in Nat, Len(r.cells) = n, n > 0
    PROVE  r.cells = Slice(f, off, n) /\ off + n <= Len(f)
<1>1. off + n <= Len(f)
  BY DEF Gives
<1>2. /\ Slice(f, off, n) \in Seq(Cells) /\ Len(Slice(f, off, n)) = n
      /\ \A i \in 1..n : Slice(f, off, n)[i] = f[off + i]
  BY <1>1, SliceOf
<1>3. r.cells \in Seq(Cells) /\ \A i \in 1..n : r.cells[i] = f[off + i]
  BY DEF Gives
<1>4. r.cells = Slice(f, off, n)
  <2>1. PICK c, d : c = r.cells /\ d = Slice(f, off, n)
    OBVIOUS
  <2>2. c \in Seq(Cells) /\ d \in Seq(Cells) /\ Len(c) = Len(d)
    BY <1>2, <1>3, <2>1
  <2>3. \A i \in 1..Len(c) : c[i] = d[i]
    BY <1>2, <1>3, <2>1
  <2>4. c = d
    BY <2>2, <2>3, SeqEqual
  <2> QED
    BY <2>1, <2>4
<1> QED
  BY <1>1, <1>4

\* The walk over the boxes of f.
Mp4Head(f) ==
    Len(f) > HeaderSize /\ f[1].id # "ebml" /\ f[1].n # ToTheEnd /\ BoxId(f, 0) = "ftyp"

Mp4Walk(w, f) ==
    /\ Mp4Head(f) /\ w.offset < Len(f)
    /\ Trail(f, w.extents, w.offset)
    /\ w.seen = PassedIds(f, w.extents, Len(w.extents))
    /\ ~(Enough \subseteq w.seen)
    /\ w.at = "box size" => /\ w.offset + HeaderSize <= Len(f)
                            /\ w.item.cells = Slice(f, w.offset, HeaderSize)
                            /\ f[w.offset + 1].n = Extended
    /\ w.at = "box data" => /\ WholeBox(f, w.offset) /\ BoxId(f, w.offset) \in BoxMetadata
                            /\ w.item.id = BoxId(f, w.offset) /\ w.item.offset = w.offset
                            /\ w.item.size = BoxSize(f, w.offset)

\* The box at the cursor is done with.
Passed ==
    [walk EXCEPT !.at = "box", !.offset = BoxEnd(file, walk.offset),
                 !.extents = @ \o <<KeptPart(file, walk.offset)>>,
                 !.seen = @ \cup {BoxId(file, walk.offset)}]

Passes(r) ==
    /\ WholeBox(file, walk.offset)
    /\ \/ ~WalkedBoxes(Passed) /\ Goes(r, Passed)
       \/ WalkedBoxes(Passed) /\ "moov" \notin Passed.seen /\ Returns(r, Unsupported)
       \/ WalkedBoxes(Passed) /\ "moov" \in Passed.seen /\ Returns(r, Planned(Passed.extents))

\* The item that stands for the box at the cursor.
BoxItem(box) ==
    /\ box \in Items
    /\ box.id = BoxId(file, walk.offset) /\ box.offset = walk.offset
    /\ box.size = BoxSize(file, walk.offset)

LEMMA NextBoxPasses ==
    ASSUME FileOf(file), walk \in Walks, WholeBox(file, walk.offset),
           NEW box, BoxItem(box), NEW data,
           data = Slice(file, walk.offset, KeptSize(file, walk.offset)),
           NEW r, NextBox(r, box, data)
    PROVE  Passes(r)
<1>1. walk.offset \in Nat
  BY DEF Walks
<1>2. /\ BoxSize(file, walk.offset) \in Nat
      /\ walk.offset + BoxSize(file, walk.offset) <= MaxInt
  <2>1. file \in Seq(Cells) /\ Len(file) \in Nat /\ Len(file) <= MaxInt /\ MaxInt \in Nat
    BY ProbingAssumption DEF FileOf
  <2>2. /\ BoxSize(file, walk.offset) \in Nat
        /\ walk.offset + BoxSize(file, walk.offset) <= Len(file)
    BY <1>1, <2>1, BoxFacts DEF BoxEnd
  <2> QED
    BY <1>1, <2>1, <2>2
<1>3. Wrap(walk.offset + box.size) = BoxEnd(file, walk.offset)
  BY <1>1, <1>2, ProbingAssumption DEF BoxItem, Wrap, BoxEnd
<1>4. Kept(box, data) = <<KeptPart(file, walk.offset)>>
  BY DEF Kept, KeptPart, BoxItem
<1>5. Passed = [walk EXCEPT !.at = "box", !.offset = Wrap(@ + box.size),
                            !.extents = @ \o Kept(box, data), !.seen = @ \cup {box.id}]
  BY <1>3, <1>4 DEF Passed, BoxItem, Walks
<1> QED
  BY <1>5 DEF Passes, NextBox

LEMMA TakeBoxTakes ==
    ASSUME FileOf(file), walk \in Walks, walk.offset + HeaderSize <= Len(file),
           walk.offset + BoxHeader(file, walk.offset) <= Len(file),
           NEW box, BoxItem(box), box.header = BoxHeader(file, walk.offset),
           box.cells = Slice(file, walk.offset, BoxHeader(file, walk.offset)),
           NEW r, TakeBox(r, box)
    PROVE  \/ Returns(r, Failed) /\ ~WholeBox(file, walk.offset)
           \/ Passes(r)
           \/ /\ WholeBox(file, walk.offset) /\ BoxId(file, walk.offset) \in BoxMetadata
              /\ Goes(r, [walk EXCEPT !.at = "box data", !.item = box])
<1>1. walk.offset \in Nat /\ Len(file) \in Nat /\ box.size \in Nat
  BY DEF Walks, FileOf, BoxItem, Items
<1>2. CASE ~ValidSize(box)
  <2>1. Returns(r, Failed)
    BY <1>2, Zenon DEF TakeBox
  <2>2. ~WholeBox(file, walk.offset)
    BY <1>1, <1>2 DEF ValidSize, WholeBox, BoxItem, BoxEnd
  <2> QED
    BY <2>1, <2>2
<1>3. CASE ValidSize(box) /\ box.id \notin BoxMetadata
  <2>1. NextBox(r, box, box.cells)
    BY <1>3 DEF TakeBox
  <2>2. WholeBox(file, walk.offset)
    BY <1>1, <1>3 DEF ValidSize, WholeBox, BoxItem, BoxEnd
  <2>3. box.cells = Slice(file, walk.offset, KeptSize(file, walk.offset))
    BY <1>3 DEF KeptSize, BoxItem
  <2> QED
    BY <2>1, <2>2, <2>3, NextBoxPasses
<1>4. CASE ValidSize(box) /\ box.id \in BoxMetadata /\ box.size > MaxMetadata
  <2>1. Returns(r, Failed)
    BY <1>1, <1>4, ProbingAssumption DEF TakeBox
  <2>2. ~WholeBox(file, walk.offset)
    BY <1>1, <1>4, ProbingAssumption DEF WholeBox, BoxItem
  <2> QED
    BY <2>1, <2>2
<1>5. CASE ValidSize(box) /\ box.id \in BoxMetadata /\ ~(box.size > MaxMetadata)
  <2>1. Goes(r, [walk EXCEPT !.at = "box data", !.item = box])
    BY <1>1, <1>5, ProbingAssumption DEF TakeBox
  <2>2. WholeBox(file, walk.offset) /\ BoxId(file, walk.offset) \in BoxMetadata
    BY <1>1, <1>5, ProbingAssumption DEF ValidSize, WholeBox, BoxItem, BoxEnd
  <2> QED
    BY <2>1, <2>2
<1> QED
  BY <1>2, <1>3, <1>4, <1>5

LEMMA BoxRecord ==
    ASSUME NEW cells \in Seq(Cells), NEW size \in Nat, cells[2].id \in Ids, walk.offset \in Nat
    PROVE  /\ Box(cells, size) \in Items
           /\ Box(cells, size).id = cells[2].id /\ Box(cells, size).offset = walk.offset
           /\ Box(cells, size).header = Len(cells) /\ Box(cells, size).size = size
           /\ Box(cells, size).cells = cells
<1>1. <<>> \in Seq(Cells)
  OBVIOUS
<1>2. Len(cells) \in Nat
  OBVIOUS
<1> QED
  BY <1>1, <1>2 DEF Box, NoItem, Items

\* What a read of a box comes to.
BoxOutcome(r) ==
    /\ SourceOf(r.src, file) /\ (src.mishap => r.src.mishap)
    /\ \/ Returns(r, Failed) /\ (r.src.mishap \/ ~WholeBox(file, walk.offset))
       \/ Passes(r)
       \/ \E box \in Items :
             /\ BoxItem(box) /\ walk.at # "box data"
             /\ WholeBox(file, walk.offset) /\ BoxId(file, walk.offset) \in BoxMetadata
             /\ Goes(r, [walk EXCEPT !.at = "box data", !.item = box])
       \/ /\ walk.at = "box" /\ walk.offset + HeaderSize <= Len(file)
          /\ file[walk.offset + 1].n = Extended
          /\ Goes(r, [walk EXCEPT !.at = "box size",
                                  !.item.cells = Slice(file, walk.offset, HeaderSize)])

LEMMA ReadBoxTakes ==
    ASSUME FileOf(file), SourceOf(src, file), walk \in Walks, Mp4Walk(walk, file), ReadBox
    PROVE  \E r : BoxOutcome(r)
<1> DEFINE at == walk.offset
<1>1. PICK r \in Reads(src, file, HeaderSize, at) :
         LET read == Len(r.cells) = HeaderSize /\ r.err \in {"none", "EOF"}
             size == r.cells[1].n
         IN  \/ ~read /\ Returns(r, Failed)
             \/ read /\ size = Extended
                     /\ Goes(r, [walk EXCEPT !.at = "box size", !.item.cells = r.cells])
             \/ read /\ size = ToTheEnd /\ TakeBox(r, Box(r.cells, Len(file) - walk.offset))
             \/ read /\ size > Extended /\ TakeBox(r, Box(r.cells, size))
  BY DEF ReadBox
<1>2. at \in Nat /\ file \in Seq(Cells) /\ Len(file) \in Nat /\ at < Len(file)
  <2>1. at \in Nat
    BY DEF Walks
  <2>2. file \in Seq(Cells) /\ Len(file) \in Nat
    BY DEF FileOf
  <2>3. at < Len(file)
    BY DEF Mp4Walk
  <2> QED
    BY <2>1, <2>2, <2>3
<1>3. SourceOf(r.src, file) /\ Gives(r, src, file, HeaderSize, at)
  BY <1>2, ReadGives DEF HeaderSize
<1>4. walk.at = "box"
  BY DEF ReadBox
<1> DEFINE read == Len(r.cells) = HeaderSize /\ r.err \in {"none", "EOF"}
<1>5. src.mishap => r.src.mishap
  BY <1>3 DEF Gives
<1>6. CASE ~read
  <2>1. Returns(r, Failed)
    BY <1>1, <1>6
  <2>2. r.src.mishap \/ ~(at + HeaderSize <= Len(file))
    BY <1>2, <1>3, <1>6 DEF Gives, Least, HeaderSize
  <2> QED
    BY <1>3, <1>5, <2>1, <2>2 DEF WholeBox, BoxOutcome
<1>7. CASE read
  <2>1. r.cells = Slice(file, at, HeaderSize) /\ at + HeaderSize <= Len(file)
    <3>1. HeaderSize \in Nat /\ HeaderSize > 0
      BY DEF HeaderSize
    <3> QED
      BY <1>2, <1>3, <1>7, <3>1, GivenSlice
  <2>2. r.cells[1] = file[at + 1] /\ r.cells[2] = file[at + 2]
    BY <1>3, <1>7 DEF Gives, HeaderSize
  <2>3. file[at + 1] \in Cells /\ file[at + 2] \in Cells
    BY <1>2, <2>1 DEF HeaderSize
  <2>4. r.cells \in Seq(Cells) /\ Len(r.cells) = HeaderSize
    BY <1>3, <1>7 DEF Gives
  <2>5. ASSUME NEW size \in Nat, size = BoxSize(file, at), file[at + 1].n # Extended,
               TakeBox(r, Box(r.cells, size))
        PROVE  \/ Returns(r, Failed) /\ ~WholeBox(file, at)
               \/ Passes(r)
               \/ \E box \in Items :
                     /\ BoxItem(box)
                     /\ WholeBox(file, at) /\ BoxId(file, at) \in BoxMetadata
                     /\ Goes(r, [walk EXCEPT !.at = "box data", !.item = box])
    <3> DEFINE box == Box(r.cells, size)
    <3>1. /\ box \in Items /\ box.id = file[at + 2].id /\ box.offset = at
          /\ box.header = HeaderSize /\ box.size = size /\ box.cells = r.cells
      <4>1. file[at + 2].id \in Ids
        BY <2>3 DEF Cells
      <4> QED
        BY <1>2, <2>2, <2>4, <2>5, <4>1, BoxRecord
    <3> HIDE DEF box
    <3>3. BoxItem(box)
      BY <2>5, <3>1 DEF BoxItem, BoxId
    <3>4. BoxHeader(file, at) = HeaderSize
      BY <2>5 DEF BoxHeader
    <3>5. box.cells = Slice(file, at, BoxHeader(file, at)) /\ box.header = BoxHeader(file, at)
      BY <2>1, <3>1, <3>4
    <3>6. TakeBox(r, box)
      BY <2>5 DEF box
    <3>7. at + BoxHeader(file, at) <= Len(file)
      BY <2>1, <3>4
    <3> QED
      BY <2>1, <3>1, <3>3, <3>5, <3>6, <3>7, TakeBoxTakes
  <2>6. CASE file[at + 1].n = Extended
    <3>1. Goes(r, [walk EXCEPT !.at = "box size", !.item.cells = r.cells])
      BY <1>1, <1>7, <2>2, <2>6 DEF Extended, ToTheEnd
    <3> QED
      BY <1>3, <1>4, <1>5, <2>1, <2>6, <3>1 DEF BoxOutcome
  <2>7. CASE file[at + 1].n = ToTheEnd
    <3>1. TakeBox(r, Box(r.cells, Len(file) - at))
      BY <1>1, <1>7, <2>2, <2>7 DEF Extended, ToTheEnd
    <3>2. Len(file) - at \in Nat /\ Len(file) - at = BoxSize(file, at)
      BY <1>2, <2>7 DEF BoxSize, Extended, ToTheEnd
    <3>3. file[at + 1].n # Extended
      BY <2>7 DEF Extended, ToTheEnd
    <3>4. \/ Returns(r, Failed) /\ ~WholeBox(file, at)
          \/ Passes(r)
          \/ \E box \in Items :
                /\ BoxItem(box)
                /\ WholeBox(file, at) /\ BoxId(file, at) \in BoxMetadata
                /\ Goes(r, [walk EXCEPT !.at = "box data", !.item = box])
      BY <2>5, <3>1, <3>2, <3>3
    <3> QED
      BY <1>3, <1>4, <1>5, <3>4 DEF BoxOutcome
  <2>8. CASE file[at + 1].n # Extended /\ file[at + 1].n # ToTheEnd
    <3>1. TakeBox(r, Box(r.cells, file[at + 1].n))
      BY <1>1, <1>7, <2>2, <2>8
    <3>2. file[at + 1].n \in Nat /\ file[at + 1].n = BoxSize(file, at)
      BY <2>3, <2>8 DEF BoxSize, Cells
    <3> QED
      BY <1>3, <1>4, <1>5, <2>5, <2>8, <3>1, <3>2 DEF BoxOutcome
  <2> QED
    BY <2>6, <2>7, <2>8
<1> QED
  BY <1>6, <1>7

LEMMA TwoAndOne ==
    ASSUME NEW a \in Seq(Cells), Len(a) = 2, NEW b \in Seq(Cells), Len(b) = 1
    PROVE  /\ a \o b \in Seq(Cells) /\ Len(a \o b) = 3
           /\ (a \o b)[1] = a[1] /\ (a \o b)[2] = a[2] /\ (a \o b)[3] = b[1]
<1>1. /\ a \o b \in Seq(Cells) /\ Len(a \o b) = Len(a) + Len(b)
      /\ \A i \in 1..Len(a) : (a \o b)[i] = a[i]
      /\ \A i \in 1..Len(b) : (a \o b)[Len(a) + i] = b[i]
  BY Joined
<1>2. 1 \in 1..Len(a) /\ 2 \in 1..Len(a) /\ 1 \in 1..Len(b) /\ Len(a) + 1 = 3
  OBVIOUS
<1> QED
  BY <1>1, <1>2

LEMMA ReadExtendedSizeTakes ==
    ASSUME FileOf(file), SourceOf(src, file), walk \in Walks, Mp4Walk(walk, file), ReadExtendedSize
    PROVE  \E r : BoxOutcome(r)
<1> DEFINE at == walk.offset
<1>1. PICK r \in Reads(src, file, ExtendedSize - HeaderSize, at + HeaderSize) :
         LET read == r.err = "none" /\ r.cells[1].n <= MaxInt
         IN  \/ ~read /\ Returns(r, Failed)
             \/ read /\ TakeBox(r, Box(walk.item.cells \o r.cells, r.cells[1].n))
  BY DEF ReadExtendedSize
<1>2. at \in Nat /\ file \in Seq(Cells) /\ Len(file) \in Nat /\ Len(file) <= MaxInt /\ MaxInt \in Nat
  BY ProbingAssumption DEF Walks, FileOf
<1>3. ExtendedSize - HeaderSize = 1 /\ at + HeaderSize \in Nat
  BY <1>2 DEF ExtendedSize, HeaderSize
<1>4. SourceOf(r.src, file) /\ Gives(r, src, file, 1, at + HeaderSize)
  BY <1>2, <1>3, ReadGives
<1>5. walk.at = "box size"
  BY DEF ReadExtendedSize
<1>6. /\ at + HeaderSize <= Len(file) /\ file[at + 1].n = Extended
      /\ walk.item.cells = Slice(file, at, HeaderSize)
  BY <1>5 DEF Mp4Walk
<1>7. src.mishap => r.src.mishap
  BY <1>4 DEF Gives
<1>8. BoxHeader(file, at) = ExtendedSize /\ BoxSize(file, at) = file[at + 3].n
  <2>1. file[at + 1].n = Extended
    BY <1>6
  <2> QED
    BY <2>1 DEF BoxHeader, BoxSize, Extended, ToTheEnd
<1>9. CASE r.err # "none"
  <2>1. Returns(r, Failed)
    BY <1>1, <1>9
  <2>2. r.src.mishap \/ ~(at + ExtendedSize <= Len(file))
    BY <1>2, <1>4, <1>9 DEF Gives, ExtendedSize, HeaderSize
  <2> QED
    BY <1>4, <1>7, <1>8, <2>1, <2>2 DEF WholeBox, BoxOutcome
<1>10. CASE r.err = "none"
  <2>1. r.cells \in Seq(Cells) /\ Len(r.cells) = 1
    BY <1>4, <1>10 DEF Gives
  <2>2. at + 3 \in 1..Len(file) /\ at + HeaderSize + 1 = at + 3
    BY <1>2, <1>4, <2>1 DEF Gives, HeaderSize
  <2>3. r.cells[1] = file[at + 3] /\ file[at + 3] \in Cells
    BY <1>2, <1>4, <2>1, <2>2 DEF Gives
  <2>4. CASE r.cells[1].n > MaxInt
    <3>1. Returns(r, Failed)
      BY <1>1, <1>2, <2>3, <2>4 DEF Cells
    <3>2. ~WholeBox(file, at)
      BY <1>2, <1>8, <2>3, <2>4 DEF WholeBox, BoxEnd, Cells
    <3> QED
      BY <1>4, <1>7, <3>1, <3>2 DEF BoxOutcome
  <2>5. CASE r.cells[1].n <= MaxInt
    <3> DEFINE cells == walk.item.cells \o r.cells
               size == r.cells[1].n
               box == Box(cells, size)
    <3>1. /\ Slice(file, at, HeaderSize) \in Seq(Cells)
          /\ Len(Slice(file, at, HeaderSize)) = 2
          /\ \A i \in 1..2 : Slice(file, at, HeaderSize)[i] = file[at + i]
      <4>1. HeaderSize \in Nat /\ HeaderSize = 2
        BY DEF HeaderSize
      <4>2. at + HeaderSize <= Len(file)
        BY <1>6
      <4>3. /\ Slice(file, at, HeaderSize) \in Seq(Cells)
            /\ Len(Slice(file, at, HeaderSize)) = HeaderSize
            /\ \A i \in 1..HeaderSize : Slice(file, at, HeaderSize)[i] = file[at + i]
        BY <1>2, <4>1, <4>2, SliceOf
      <4> QED
        BY <4>1, <4>3
    <3>2. /\ Slice(file, at, ExtendedSize) \in Seq(Cells)
          /\ Len(Slice(file, at, ExtendedSize)) = 3
          /\ \A i \in 1..3 : Slice(file, at, ExtendedSize)[i] = file[at + i]
      <4>1. ExtendedSize \in Nat /\ ExtendedSize = 3
        BY DEF ExtendedSize
      <4>2. at + ExtendedSize <= Len(file)
        BY <1>2, <2>2, <4>1
      <4>3. /\ Slice(file, at, ExtendedSize) \in Seq(Cells)
            /\ Len(Slice(file, at, ExtendedSize)) = ExtendedSize
            /\ \A i \in 1..ExtendedSize : Slice(file, at, ExtendedSize)[i] = file[at + i]
        BY <1>2, <4>1, <4>2, SliceOf
      <4> QED
        BY <4>1, <4>3
    <3>3. /\ cells \in Seq(Cells) /\ Len(cells) = 3
          /\ cells[1] = file[at + 1] /\ cells[2] = file[at + 2] /\ cells[3] = file[at + 3]
      <4>1. walk.item.cells \in Seq(Cells) /\ Len(walk.item.cells) = 2
            /\ walk.item.cells[1] = file[at + 1] /\ walk.item.cells[2] = file[at + 2]
        BY <1>6, <3>1
      <4> QED
        BY <2>1, <2>3, <4>1, TwoAndOne
    <3> HIDE DEF cells
    <3>4. cells = Slice(file, at, ExtendedSize)
      <4>1. \A i \in 1..3 : cells[i] = file[at + i]
        <5>1. \A i \in 1..3 : i = 1 \/ i = 2 \/ i = 3
          OBVIOUS
        <5> QED
          BY <3>3, <5>1
      <4> QED
        BY <3>2, <3>3, <4>1, SeqEqual
    <3>5. file[at + 2].id \in Ids
      <4>1. file[at + 2] \in Cells
        BY <1>2, <2>2
      <4> QED
        BY <4>1 DEF Cells
    <3>6. /\ box \in Items /\ box.id = file[at + 2].id /\ box.offset = at
          /\ box.header = ExtendedSize /\ box.size = file[at + 3].n /\ box.cells = cells
      <4>1. size \in Nat /\ cells[2].id \in Ids
        BY <2>3, <3>3, <3>5 DEF Cells
      <4> HIDE DEF size
      <4>2. /\ Box(cells, size) \in Items
            /\ Box(cells, size).id = cells[2].id /\ Box(cells, size).offset = at
            /\ Box(cells, size).header = Len(cells) /\ Box(cells, size).size = size
            /\ Box(cells, size).cells = cells
        BY <1>2, <3>3, <4>1, BoxRecord
      <4> QED
        BY <2>3, <3>3, <4>2 DEF ExtendedSize, size
    <3>7. TakeBox(r, box)
      BY <1>1, <1>10, <2>5 DEF cells
    <3> HIDE DEF box
    <3>8. BoxItem(box)
      BY <1>8, <3>6 DEF BoxItem, BoxId
    <3>9. /\ box.header = BoxHeader(file, at)
          /\ box.cells = Slice(file, at, BoxHeader(file, at))
      BY <1>8, <3>4, <3>6
    <3>10. at + BoxHeader(file, at) <= Len(file)
      BY <1>2, <1>8, <2>2 DEF ExtendedSize
    <3>11. \/ Returns(r, Failed) /\ ~WholeBox(file, at)
           \/ Passes(r)
           \/ /\ WholeBox(file, at) /\ BoxId(file, at) \in BoxMetadata
              /\ Goes(r, [walk EXCEPT !.at = "box data", !.item = box])
      BY <1>6, <3>7, <3>8, <3>9, <3>10, TakeBoxTakes
    <3> QED
      BY <1>4, <1>5, <1>7, <3>6, <3>8, <3>11 DEF BoxOutcome
  <2> QED
    BY <1>2, <2>3, <2>4, <2>5 DEF Cells
<1> QED
  BY <1>9, <1>10

LEMMA ReadBoxDataTakes ==
    ASSUME FileOf(file), SourceOf(src, file), walk \in Walks, Mp4Walk(walk, file), ReadBoxData
    PROVE  \E r : BoxOutcome(r)
<1> DEFINE at == walk.offset
           size == walk.item.size
<1>1. PICK r \in Reads(src, file, size, walk.item.offset) :
         \/ r.err # "none" /\ Returns(r, Failed)
         \/ r.err = "none" /\ NextBox(r, walk.item, r.cells)
  BY DEF ReadBoxData
<1>2. at \in Nat /\ file \in Seq(Cells) /\ Len(file) \in Nat /\ walk.item \in Items
  BY DEF Walks, FileOf
<1>3. walk.at = "box data"
  BY DEF ReadBoxData
<1>4. /\ WholeBox(file, at) /\ walk.item.id \in BoxMetadata /\ BoxItem(walk.item)
      /\ size = BoxSize(file, at) /\ walk.item.offset = at
  BY <1>2, <1>3 DEF Mp4Walk, BoxItem
<1>5. size \in Nat \ {0} /\ at + size <= Len(file)
  BY <1>2, <1>4, BoxFacts DEF BoxEnd, HeaderSize
<1>6. SourceOf(r.src, file) /\ Gives(r, src, file, size, at)
  BY <1>2, <1>4, <1>5, ReadGives
<1>7. src.mishap => r.src.mishap
  BY <1>6 DEF Gives
<1>8. CASE r.err # "none"
  <2>1. Returns(r, Failed)
    BY <1>1, <1>8
  <2>2. r.src.mishap
    BY <1>5, <1>6, <1>8 DEF Gives
  <2> QED
    BY <1>6, <1>7, <2>1, <2>2 DEF BoxOutcome
<1>9. CASE r.err = "none"
  <2>1. NextBox(r, walk.item, r.cells)
    BY <1>1, <1>9
  <2>2. Len(r.cells) = size
    BY <1>6, <1>9 DEF Gives
  <2>3. r.cells = Slice(file, at, size)
    BY <1>2, <1>5, <1>6, <2>2, GivenSlice
  <2>4. r.cells = Slice(file, at, KeptSize(file, at))
    BY <1>4, <2>3 DEF KeptSize, BoxItem
  <2>5. Passes(r)
    BY <1>4, <2>1, <2>4, NextBoxPasses
  <2> QED
    BY <1>6, <1>7, <2>5 DEF BoxOutcome
<1> QED
  BY <1>8, <1>9

-----------------------------------------------------------------------------
(* The elements of a Matroska file.                                        *)

LEMMA ElementFacts ==
    ASSUME NEW f, FileOf(f), NEW at \in Nat, BeginsElement(f, at)
    PROVE  /\ ElementId(f, at) \in ElementIds /\ ElementHeader(f, at) \in {2, 3}
           /\ SizeLength(f[at + 2]) \in {1, 2}
           /\ f[at + 1] \in Cells /\ f[at + 2] \in Cells /\ f[at + 2].n \in Nat
           /\ at + ElementHeader(f, at) <= Len(f)
           /\ ElementSpan(f, at) \in Nat /\ ElementHeader(f, at) <= ElementSpan(f, at)
           /\ ElementSpan(f, at) <= MaxInt
           /\ ElementEnd(f, at) = at + ElementSpan(f, at) /\ ElementEnd(f, at) \in Nat
           /\ UnknownSize(f, at) \in BOOLEAN
<1>1. f \in Seq(Cells) /\ at + 1 \in 1..Len(f) /\ at + 2 \in 1..Len(f)
  BY DEF BeginsElement, FileOf
<1>2. f[at + 1] \in Cells /\ f[at + 2] \in Cells /\ f[at + 2].n \in Nat
  <2>1. f[at + 1] \in Cells /\ f[at + 2] \in Cells
    BY <1>1
  <2> QED
    BY <2>1 DEF Cells
<1>3. SizeLength(f[at + 2]) \in {1, 2} /\ ElementId(f, at) \in ElementIds
      /\ at + ElementHeader(f, at) <= Len(f)
  BY DEF BeginsElement
<1>4. f[at + 2].n <= Unknown[SizeLength(f[at + 2])]
  BY <1>1, <1>3 DEF FileOf, Sized
<1>5. Unknown[SizeLength(f[at + 2])] \in Nat
      /\ Unknown[SizeLength(f[at + 2])] + MaxElementHeader <= MaxInt
  BY <1>3, UnknownAssumption
<1>6. ElementHeader(f, at) \in {2, 3}
  BY <1>3 DEF ElementHeader
<1>7. ElementSpan(f, at) \in Nat /\ ElementHeader(f, at) <= ElementSpan(f, at)
      /\ ElementSpan(f, at) <= MaxInt
  BY <1>2, <1>4, <1>5, <1>6, ProbingAssumption DEF ElementSpan, MaxElementHeader
<1> QED
  BY <1>2, <1>3, <1>6, <1>7 DEF ElementEnd, UnknownSize

\* The item that stands for the element at `at'.
ElementItem(e, f, at) ==
    /\ e \in Items /\ e.id = ElementId(f, at) /\ e.offset = at
    /\ e.header = ElementHeader(f, at) /\ e.size = f[at + 2].n
    /\ e.unknown = UnknownSize(f, at)

LEMMA ElementRecord ==
    ASSUME NEW r, NEW at \in Nat, r.cells[1].id \in Ids, r.cells[2].n \in Nat,
           1 + SizeLength(r.cells[2]) \in Nat
    PROVE  /\ Element(r, at) \in Items
           /\ Element(r, at).id = r.cells[1].id /\ Element(r, at).offset = at
           /\ Element(r, at).header = 1 + SizeLength(r.cells[2])
           /\ Element(r, at).size = r.cells[2].n
           /\ Element(r, at).unknown = (r.cells[2].n = Unknown[SizeLength(r.cells[2])])
<1>1. <<>> \in Seq(Cells)
  OBVIOUS
<1>2. PICK unknown \in BOOLEAN : unknown = (r.cells[2].n = Unknown[SizeLength(r.cells[2])])
  OBVIOUS
<1> QED
  BY <1>1, <1>2 DEF Element, NoItem, Items

LEMMA ReadsElement ==
    ASSUME NEW f, FileOf(f), NEW at \in Nat, NEW s, NEW r, Gives(r, s, f, MaxElementHeader, at)
    PROVE  /\ IsElement(r) => BeginsElement(f, at) /\ ElementItem(Element(r, at), f, at)
           /\ ~IsElement(r) => r.src.mishap \/ ~BeginsElement(f, at)
<1>1. f \in Seq(Cells) /\ Len(f) \in Nat /\ r.cells \in Seq(Cells) /\ Len(r.cells) \in Nat
  BY DEF FileOf, Gives
<1>2. /\ Len(r.cells) <= MaxElementHeader
      /\ Len(r.cells) > 0 => at + Len(r.cells) <= Len(f)
      /\ \A i \in 1..Len(r.cells) : r.cells[i] = f[at + i]
  BY DEF Gives
<1>3. ASSUME IsElement(r)
      PROVE  BeginsElement(f, at) /\ ElementItem(Element(r, at), f, at)
  <2>1. Len(r.cells) > 1 /\ r.cells[1].id \in ElementIds
        /\ 1 + SizeLength(r.cells[2]) <= Len(r.cells)
    BY <1>3 DEF IsElement
  <2>2. r.cells[1] = f[at + 1] /\ r.cells[2] = f[at + 2]
    BY <1>1, <1>2, <2>1
  <2>3. SizeLength(f[at + 2]) \in {1, 2}
    BY <1>1, <1>2, <2>1, <2>2 DEF SizeLength, MaxElementHeader
  <2>4. BeginsElement(f, at)
    BY <1>1, <1>2, <2>1, <2>2, <2>3 DEF BeginsElement, ElementId, ElementHeader
  <2>5. f[at + 1].id \in Ids /\ f[at + 2].n \in Nat
    BY <2>4, ElementFacts DEF Cells
  <2>6. 1 + SizeLength(f[at + 2]) \in Nat
    BY <2>3
  <2>9. ElementItem(Element(r, at), f, at)
    <3>1. /\ Element(r, at) \in Items
          /\ Element(r, at).id = f[at + 1].id /\ Element(r, at).offset = at
          /\ Element(r, at).header = 1 + SizeLength(f[at + 2])
          /\ Element(r, at).size = f[at + 2].n
          /\ Element(r, at).unknown = (f[at + 2].n = Unknown[SizeLength(f[at + 2])])
      BY <2>2, <2>5, <2>6, ElementRecord
    <3> QED
      BY <3>1 DEF ElementItem, ElementId, ElementHeader, UnknownSize
  <2> QED
    BY <2>4, <2>9
<1>4. ASSUME ~IsElement(r), BeginsElement(f, at), ~r.src.mishap
      PROVE  FALSE
  <2>1. /\ SizeLength(f[at + 2]) \in {1, 2} /\ at + ElementHeader(f, at) <= Len(f)
        /\ ElementHeader(f, at) = 1 + SizeLength(f[at + 2]) /\ f[at + 1].id \in ElementIds
    BY <1>4 DEF BeginsElement, ElementHeader, ElementId
  <2>2. r.err \in {"none", "EOF"}
        /\ Len(r.cells) = IF at >= Len(f) THEN 0 ELSE Least(MaxElementHeader, Len(f) - at)
    BY <1>4 DEF Gives
  <2>3. Len(r.cells) > 1 /\ 1 + SizeLength(f[at + 2]) <= Len(r.cells)
    BY <1>1, <2>1, <2>2 DEF Least, MaxElementHeader
  <2>4. r.cells[1] = f[at + 1] /\ r.cells[2] = f[at + 2]
    BY <1>1, <1>2, <2>3
  <2> QED
    BY <1>4, <2>1, <2>2, <2>3, <2>4 DEF IsElement
<1> QED
  BY <1>3, <1>4

-----------------------------------------------------------------------------
(* The walk over a Matroska file, element by element.                      *)

HeaderSound(f) ==
    /\ WholeElement(f, 0, Len(f)) /\ ElementId(f, 0) = "ebml" /\ ElementEnd(f, 0) <= MaxHeader

\* A sequence that is one whole element of metadata.
IsWhole(part, id) ==
    /\ WholeElement(part, 0, Len(part)) /\ ElementId(part, 0) = id
    /\ ElementSpan(part, 0) = Len(part) /\ Len(part) <= MaxMetadata /\ Sized(part)

MatroskaWalk(w, f) ==
    /\ w.at \in {"ebml", "segment"} => w.offset = 0
    /\ w.at # "ebml" => HeaderSound(f) /\ w.headerEnd = ElementEnd(f, 0)
    /\ \A id \in ElementMetadata : w.raw[id] # <<>> => IsWhole(w.raw[id], id)
    /\ w.at \in {"element", "metadata"} =>
          /\ HasSegment(f) /\ w.segmentEnd = SegmentEnd(f)
          /\ 0 < w.offset /\ w.offset < w.segmentEnd
    /\ w.at = "metadata" =>
          /\ WholeElement(f, w.offset, w.segmentEnd) /\ ElementItem(w.item, f, w.offset)
          /\ w.item.id \in ElementMetadata /\ ElementSpan(f, w.offset) <= MaxMetadata
    /\ w.at = "prefix" => w.raw["info"] # <<>> /\ w.raw["tracks"] # <<>>

LEMMA SegmentFacts ==
    ASSUME NEW f, FileOf(f), HasSegment(f)
    PROVE  /\ SegmentEnd(f) \in Nat /\ SegmentEnd(f) <= Len(f)
           /\ SegmentBody(f) \in Nat /\ SegmentBody(f) <= SegmentEnd(f) /\ 0 < SegmentBody(f)
           /\ ElementEnd(f, 0) \in Nat /\ 2 <= ElementEnd(f, 0) /\ ElementEnd(f, 0) < SegmentBody(f)
<1> DEFINE at == ElementEnd(f, 0)
<1>1. BeginsElement(f, 0) /\ BeginsElement(f, at)
  BY DEF HasSegment, WholeElement
<1>2. at \in Nat /\ 2 <= at
  BY <1>1, ElementFacts
<1>3. /\ ElementHeader(f, at) \in {2, 3} /\ ElementHeader(f, at) <= ElementSpan(f, at)
      /\ at + ElementHeader(f, at) <= Len(f) /\ ElementSpan(f, at) \in Nat
      /\ ElementEnd(f, at) = at + ElementSpan(f, at)
  BY <1>1, <1>2, ElementFacts
<1>4. Len(f) \in Nat
  BY DEF FileOf
<1> HIDE DEF at
<1>5. SegmentBody(f) = at + ElementHeader(f, at)
      /\ SegmentEnd(f) = IF UnknownSize(f, at) \/ ElementEnd(f, at) > Len(f) THEN Len(f)
                         ELSE ElementEnd(f, at)
  BY DEF SegmentBody, SegmentEnd, at
<1> QED
  BY <1>2, <1>3, <1>4, <1>5 DEF at

HeaderOutcome(r) ==
    /\ SourceOf(r.src, file) /\ (src.mishap => r.src.mishap)
    /\ \/ /\ HeaderSound(file)
          /\ Goes(r, [walk EXCEPT !.at = "segment", !.headerEnd = ElementEnd(file, 0)])
       \/ Returns(r, Failed) /\ (r.src.mishap \/ ~HeaderSound(file))

LEMMA ReadEBMLTakes ==
    ASSUME FileOf(file), SourceOf(src, file), walk \in Walks, ReadEBML
    PROVE  \E r : HeaderOutcome(r)
<1>1. PICK r \in Reads(src, file, MaxElementHeader, 0) :
          LET header == Element(r, 0)
              headerEnd == Wrap(BodyOf(header) + header.size)
              ok == /\ IsElement(r) /\ header.id = "ebml" /\ ~header.unknown
                    /\ headerEnd <= Len(file) /\ headerEnd <= MaxHeader
          IN  \/ ok /\ Goes(r, [walk EXCEPT !.at = "segment", !.headerEnd = headerEnd])
              \/ ~ok /\ Returns(r, Failed)
  BY DEF ReadEBML
<1>2. SourceOf(r.src, file) /\ Gives(r, src, file, MaxElementHeader, 0)
  BY ReadGives DEF FileOf, MaxElementHeader
<1>3. src.mishap => r.src.mishap
  BY <1>2 DEF Gives
<1>4. /\ IsElement(r) => BeginsElement(file, 0) /\ ElementItem(Element(r, 0), file, 0)
      /\ ~IsElement(r) => r.src.mishap \/ ~BeginsElement(file, 0)
  BY <1>2, ReadsElement
<1> DEFINE header == Element(r, 0)
           headerEnd == Wrap(BodyOf(header) + header.size)
<1>5. CASE ~IsElement(r)
  <2>1. Returns(r, Failed)
    BY <1>1, <1>5
  <2>2. r.src.mishap \/ ~HeaderSound(file)
    BY <1>4, <1>5 DEF HeaderSound, WholeElement
  <2> QED
    BY <1>2, <1>3, <2>1, <2>2 DEF HeaderOutcome
<1>6. CASE IsElement(r)
  <2>1. BeginsElement(file, 0) /\ ElementItem(header, file, 0)
    BY <1>4, <1>6
  <2>2. /\ ElementEnd(file, 0) = 0 + ElementSpan(file, 0) /\ ElementSpan(file, 0) \in Nat
        /\ ElementSpan(file, 0) <= MaxInt /\ ElementHeader(file, 0) \in {2, 3}
        /\ file[0 + 2].n \in Nat
    BY <2>1, ElementFacts
  <2>3. headerEnd = ElementEnd(file, 0)
    BY <2>1, <2>2, ProbingAssumption DEF ElementItem, BodyOf, Wrap, ElementSpan
  <2> HIDE DEF headerEnd, header
  <2>4. CASE /\ header.id = "ebml" /\ ~header.unknown
             /\ headerEnd <= Len(file) /\ headerEnd <= MaxHeader
    <3>1. Goes(r, [walk EXCEPT !.at = "segment", !.headerEnd = headerEnd])
      BY <1>1, <1>6, <2>4 DEF header, headerEnd
    <3>2. HeaderSound(file)
      BY <2>1, <2>3, <2>4 DEF HeaderSound, WholeElement, ElementItem
    <3> QED
      BY <1>2, <1>3, <2>3, <3>1, <3>2 DEF HeaderOutcome
  <2>5. CASE ~(/\ header.id = "ebml" /\ ~header.unknown
               /\ headerEnd <= Len(file) /\ headerEnd <= MaxHeader)
    <3>1. Returns(r, Failed)
      BY <1>1, <1>6, <2>5 DEF header, headerEnd
    <3>2. ~HeaderSound(file)
      BY <2>1, <2>3, <2>5 DEF HeaderSound, WholeElement, ElementItem
    <3> QED
      BY <1>2, <1>3, <3>1, <3>2 DEF HeaderOutcome
  <2> QED
    BY <2>4, <2>5
<1> QED
  BY <1>5, <1>6

SegmentOutcome(r) ==
    /\ SourceOf(r.src, file) /\ (src.mishap => r.src.mishap)
    /\ \/ /\ HasSegment(file)
          /\ Onward(r, [walk EXCEPT !.segmentEnd = SegmentEnd(file)], SegmentBody(file))
       \/ Returns(r, Failed) /\ (r.src.mishap \/ ~HasSegment(file))

LEMMA ReadSegmentTakes ==
    ASSUME FileOf(file), SourceOf(src, file), walk \in Walks, MatroskaWalk(walk, file), ReadSegment
    PROVE  \E r : SegmentOutcome(r)
<1> DEFINE at == walk.headerEnd
<1>1. PICK r \in Reads(src, file, MaxElementHeader, at) :
          LET segment == Element(r, at)
              known == ~segment.unknown /\ segment.size <= Len(file) - BodyOf(segment)
              end == IF known THEN BodyOf(segment) + segment.size ELSE Len(file)
              ok == IsElement(r) /\ segment.id = "segment"
          IN  \/ ok /\ Onward(r, [walk EXCEPT !.segmentEnd = end], BodyOf(segment))
              \/ ~ok /\ Returns(r, Failed)
  BY DEF ReadSegment
<1>2. at \in Nat /\ Len(file) \in Nat /\ file \in Seq(Cells)
  BY DEF Walks, FileOf
<1>3. HeaderSound(file) /\ at = ElementEnd(file, 0)
  BY DEF MatroskaWalk, ReadSegment
<1>4. SourceOf(r.src, file) /\ Gives(r, src, file, MaxElementHeader, at)
  BY <1>2, ReadGives DEF MaxElementHeader
<1>5. src.mishap => r.src.mishap
  BY <1>4 DEF Gives
<1>6. /\ IsElement(r) => BeginsElement(file, at) /\ ElementItem(Element(r, at), file, at)
      /\ ~IsElement(r) => r.src.mishap \/ ~BeginsElement(file, at)
  BY <1>2, <1>4, ReadsElement
<1> DEFINE segment == Element(r, at)
           known == ~segment.unknown /\ segment.size <= Len(file) - BodyOf(segment)
           end == IF known THEN BodyOf(segment) + segment.size ELSE Len(file)
<1>7. HasSegment(file) <=> BeginsElement(file, at) /\ ElementId(file, at) = "segment"
  BY <1>3 DEF HasSegment, HeaderSound
<1>8. CASE ~(IsElement(r) /\ segment.id = "segment")
  <2>1. Returns(r, Failed)
    BY <1>1, <1>8
  <2>2. r.src.mishap \/ ~HasSegment(file)
    BY <1>6, <1>7, <1>8 DEF ElementItem
  <2> QED
    BY <1>4, <1>5, <2>1, <2>2 DEF SegmentOutcome
<1>9. CASE IsElement(r) /\ segment.id = "segment"
  <2>1. BeginsElement(file, at) /\ ElementItem(segment, file, at)
    BY <1>6, <1>9
  <2>2. HasSegment(file)
    BY <1>7, <1>9, <2>1 DEF ElementItem
  <2>3. /\ ElementEnd(file, at) = at + ElementSpan(file, at) /\ ElementSpan(file, at) \in Nat
        /\ ElementHeader(file, at) \in {2, 3}
        /\ file[at + 2].n \in Nat
    BY <1>2, <2>1, ElementFacts
  <2> HIDE DEF segment
  <2>4. BodyOf(segment) = SegmentBody(file) /\ BodyOf(segment) \in Nat
        /\ ElementEnd(file, at) = BodyOf(segment) + segment.size /\ segment.size \in Nat
    <3>1. /\ segment.offset = at /\ segment.header = ElementHeader(file, at)
          /\ segment.size = file[at + 2].n
      BY <2>1 DEF ElementItem
    <3>2. BodyOf(segment) = at + ElementHeader(file, at)
      BY <3>1 DEF BodyOf
    <3>3. SegmentBody(file) = at + ElementHeader(file, at)
      BY <1>3 DEF SegmentBody
    <3>4. ElementSpan(file, at) = ElementHeader(file, at) + file[at + 2].n
      BY DEF ElementSpan
    <3>5. ElementHeader(file, at) \in Nat /\ file[at + 2].n \in Nat /\ at \in Nat
      BY <1>2, <2>3
    <3>6. at + (ElementHeader(file, at) + file[at + 2].n)
            = (at + ElementHeader(file, at)) + file[at + 2].n
      BY <3>5
    <3>7. ElementEnd(file, at) = BodyOf(segment) + segment.size
      BY <2>3, <3>1, <3>2, <3>4, <3>6
    <3> QED
      BY <3>1, <3>2, <3>3, <3>5, <3>7
  <2>5. known <=> ~(UnknownSize(file, at) \/ ElementEnd(file, at) > Len(file))
    BY <1>2, <2>1, <2>4 DEF ElementItem
  <2>6. end = SegmentEnd(file)
    BY <1>3, <2>4, <2>5 DEF SegmentEnd
  <2>7. Onward(r, [walk EXCEPT !.segmentEnd = end], BodyOf(segment))
    BY <1>1, <1>9 DEF segment
  <2> QED
    BY <1>4, <1>5, <2>2, <2>4, <2>6, <2>7 DEF SegmentOutcome
<1> QED
  BY <1>8, <1>9

\* Why a walk may end before the element at the cursor.
EndsHere(r) ==
    \/ r.src.mishap
    \/ ~BeginsElement(file, walk.offset)
    \/ UnknownSize(file, walk.offset) /\ ElementId(file, walk.offset) = "cluster"
    \/ ~UnknownSize(file, walk.offset) /\ ElementEnd(file, walk.offset) > walk.segmentEnd
    \/ Sufficient /\ ElementId(file, walk.offset) \notin ElementMetadata

\* The element is rejected: its end is unknown, or it is too large.
Unfit ==
    /\ BeginsElement(file, walk.offset)
    /\ \/ UnknownSize(file, walk.offset) /\ ElementId(file, walk.offset) # "cluster"
       \/ /\ ~UnknownSize(file, walk.offset) /\ ElementEnd(file, walk.offset) <= walk.segmentEnd
          /\ ElementId(file, walk.offset) \in ElementMetadata
          /\ ElementSpan(file, walk.offset) > MaxMetadata

ElementOutcome(r) ==
    /\ SourceOf(r.src, file) /\ (src.mishap => r.src.mishap)
    /\ \/ Prefixed(r, walk) /\ EndsHere(r)
       \/ Returns(r, Failed) /\ Unfit
       \/ /\ WholeElement(file, walk.offset, walk.segmentEnd)
          /\ ElementId(file, walk.offset) \in ElementMetadata
          /\ ElementSpan(file, walk.offset) <= MaxMetadata
          /\ \E e \in Items : /\ ElementItem(e, file, walk.offset)
                              /\ Goes(r, [walk EXCEPT !.at = "metadata", !.item = e])
       \/ /\ WholeElement(file, walk.offset, walk.segmentEnd)
          /\ ElementId(file, walk.offset) \notin ElementMetadata
          /\ Onward(r, walk, ElementEnd(file, walk.offset))

LEMMA ReadElementTakes ==
    ASSUME FileOf(file), SourceOf(src, file), walk \in Walks, MatroskaWalk(walk, file), ReadElement
    PROVE  \E r : ElementOutcome(r)
<1> DEFINE at == walk.offset
<1>1. PICK r \in Reads(src, file, MaxElementHeader, at) :
          LET e == Element(r, at)
              total == Total(e)
          IN  \/ ~IsElement(r) /\ Prefixed(r, walk)
              \/ IsElement(r) /\ EndsWalk(e) /\ Prefixed(r, walk)
              \/ /\ IsElement(r) /\ ~EndsWalk(e)
                 /\ \/ e.unknown /\ Returns(r, Failed)
                    \/ /\ ~e.unknown /\ e.id \in ElementMetadata
                       /\ \/ total > MaxMetadata /\ Returns(r, Failed)
                          \/ /\ total <= MaxMetadata
                             /\ Goes(r, [walk EXCEPT !.at = "metadata", !.item = e])
                    \/ /\ ~e.unknown /\ e.id \notin ElementMetadata
                       /\ \/ Sufficient /\ Prefixed(r, walk)
                          \/ ~Sufficient /\ Onward(r, walk, at + total)
  BY DEF ReadElement
<1>2. at \in Nat /\ walk.segmentEnd \in Nat /\ Len(file) \in Nat /\ file \in Seq(Cells)
  BY DEF Walks, FileOf
<1>3. SourceOf(r.src, file) /\ Gives(r, src, file, MaxElementHeader, at)
  BY <1>2, ReadGives DEF MaxElementHeader
<1>4. src.mishap => r.src.mishap
  BY <1>3 DEF Gives
<1>5. /\ IsElement(r) => BeginsElement(file, at) /\ ElementItem(Element(r, at), file, at)
      /\ ~IsElement(r) => r.src.mishap \/ ~BeginsElement(file, at)
  BY <1>2, <1>3, ReadsElement
<1>6. CASE ~IsElement(r)
  <2>1. Prefixed(r, walk)
    BY <1>1, <1>6
  <2> QED
    BY <1>3, <1>4, <1>5, <1>6, <2>1 DEF ElementOutcome, EndsHere
<1>7. CASE IsElement(r)
  <2> DEFINE e == Element(r, at)
             total == Total(e)
             id == ElementId(file, at)
             unknown == UnknownSize(file, at)
  <2>1. BeginsElement(file, at) /\ ElementItem(e, file, at)
    BY <1>5, <1>7
  <2>2. /\ ElementEnd(file, at) = at + ElementSpan(file, at) /\ ElementSpan(file, at) \in Nat
        /\ ElementSpan(file, at) <= MaxInt /\ ElementHeader(file, at) <= ElementSpan(file, at)
        /\ ElementHeader(file, at) \in {2, 3} /\ unknown \in BOOLEAN
    BY <1>2, <2>1, ElementFacts
  <2>3. /\ e.id = id /\ e.offset = at /\ e.header = ElementHeader(file, at) /\ e \in Items
        /\ e.size = file[at + 2].n /\ e.unknown = unknown
    BY <2>1 DEF ElementItem
  <2>4. total = ElementSpan(file, at)
    BY <2>2, <2>3, ProbingAssumption DEF Total, Wrap, ElementSpan
  <2>5. Fits(e) <=> ElementEnd(file, at) <= walk.segmentEnd
    BY <1>2, <2>2, <2>3, <2>4 DEF Fits
  <2>6. /\ Prefixed(r, walk) /\ EndsWalk(e)
        \/ /\ ~EndsWalk(e)
           /\ \/ unknown /\ Returns(r, Failed)
              \/ /\ ~unknown /\ id \in ElementMetadata
                 /\ \/ total > MaxMetadata /\ Returns(r, Failed)
                    \/ /\ total <= MaxMetadata
                       /\ Goes(r, [walk EXCEPT !.at = "metadata", !.item = e])
              \/ /\ ~unknown /\ id \notin ElementMetadata
                 /\ \/ Sufficient /\ Prefixed(r, walk)
                    \/ ~Sufficient /\ Onward(r, walk, at + total)
    BY <1>1, <1>7, <2>3
  <2>7. EndsWalk(e) <=> \/ id = "cluster" /\ (unknown \/ Sufficient)
                        \/ ~unknown /\ ~(ElementEnd(file, at) <= walk.segmentEnd)
    BY <2>3, <2>5 DEF EndsWalk
  <2> HIDE DEF e, total, id, unknown
  <2>8. CASE EndsWalk(e)
    <3>1. Prefixed(r, walk)
      BY <2>6, <2>8
    <3>2. EndsHere(r)
      BY <1>2, <2>2, <2>7, <2>8 DEF EndsHere, id, unknown, ElementMetadata
    <3> QED
      BY <1>3, <1>4, <3>1, <3>2 DEF ElementOutcome
  <2>9. CASE ~EndsWalk(e) /\ unknown
    <3>1. Returns(r, Failed)
      BY <2>6, <2>9
    <3>2. Unfit
      BY <2>1, <2>7, <2>9 DEF Unfit, id, unknown
    <3> QED
      BY <1>3, <1>4, <3>1, <3>2 DEF ElementOutcome
  <2>10. CASE ~EndsWalk(e) /\ ~unknown
    <3>1. ElementEnd(file, at) <= walk.segmentEnd /\ WholeElement(file, at, walk.segmentEnd)
      BY <2>1, <2>7, <2>10 DEF WholeElement, unknown
    <3>2. CASE id \in ElementMetadata /\ total > MaxMetadata
      <4>1. Returns(r, Failed)
        BY <2>2, <2>4, <2>6, <2>10, <3>2, ProbingAssumption
      <4>2. Unfit
        BY <2>1, <2>4, <2>10, <3>1, <3>2 DEF Unfit, id, unknown
      <4> QED
        BY <1>3, <1>4, <4>1, <4>2 DEF ElementOutcome
    <3>3. CASE id \in ElementMetadata /\ ~(total > MaxMetadata)
      <4>1. Goes(r, [walk EXCEPT !.at = "metadata", !.item = e]) /\ total <= MaxMetadata
        BY <2>2, <2>4, <2>6, <2>10, <3>3, ProbingAssumption
      <4> QED
        BY <1>3, <1>4, <2>1, <2>3, <2>4, <3>1, <3>3, <4>1 DEF ElementOutcome, id
    <3>4. CASE id \notin ElementMetadata /\ Sufficient
      <4>1. Prefixed(r, walk)
        BY <2>6, <2>10, <3>4
      <4>2. EndsHere(r)
        BY <3>4 DEF EndsHere, id
      <4> QED
        BY <1>3, <1>4, <4>1, <4>2 DEF ElementOutcome
    <3>5. CASE id \notin ElementMetadata /\ ~Sufficient
      <4>1. Onward(r, walk, ElementEnd(file, at))
        BY <2>2, <2>4, <2>6, <2>10, <3>5
      <4> QED
        BY <1>3, <1>4, <3>1, <3>5, <4>1 DEF ElementOutcome, id
    <3> QED
      BY <3>2, <3>3, <3>4, <3>5
  <2> QED
    BY <2>8, <2>9, <2>10
<1> QED
  BY <1>6, <1>7

\* The element at the cursor has been kept.
Collected ==
    [walk EXCEPT !.raw[ElementId(file, walk.offset)] =
                    Slice(file, walk.offset, ElementSpan(file, walk.offset))]

MetadataOutcome(r) ==
    /\ SourceOf(r.src, file) /\ (src.mishap => r.src.mishap)
    /\ \/ Returns(r, Failed) /\ r.src.mishap
       \/ (\A id \in ElementMetadata : Collected.raw[id] # <<>>) /\ Prefixed(r, Collected)
       \/ ~(\A id \in ElementMetadata : Collected.raw[id] # <<>>)
             /\ Onward(r, Collected, ElementEnd(file, walk.offset))

LEMMA ReadMetadataTakes ==
    ASSUME FileOf(file), SourceOf(src, file), walk \in Walks, MatroskaWalk(walk, file), ReadMetadata
    PROVE  \E r : MetadataOutcome(r)
<1> DEFINE at == walk.offset
           span == ElementSpan(file, at)
<1>1. PICK r \in Reads(src, file, Total(walk.item), at) :
          LET w == [walk EXCEPT !.raw[walk.item.id] = r.cells]
              all == \A i \in ElementMetadata : w.raw[i] # <<>>
          IN  \/ r.err # "none" /\ Returns(r, Failed)
              \/ r.err = "none" /\ all /\ Prefixed(r, w)
              \/ /\ r.err = "none" /\ ~all
                 /\ Onward(r, w, at + Total(walk.item))
  BY DEF ReadMetadata
<1>2. at \in Nat /\ walk.segmentEnd \in Nat /\ Len(file) \in Nat /\ file \in Seq(Cells)
  BY DEF Walks, FileOf
<1>3. /\ WholeElement(file, at, walk.segmentEnd) /\ ElementItem(walk.item, file, at)
      /\ walk.segmentEnd = SegmentEnd(file) /\ HasSegment(file)
  BY DEF MatroskaWalk, ReadMetadata
<1>4. /\ ElementEnd(file, at) = at + span /\ span \in Nat /\ span <= MaxInt
      /\ ElementHeader(file, at) <= span /\ ElementHeader(file, at) \in {2, 3}
  BY <1>2, <1>3, ElementFacts DEF WholeElement
<1>5. Total(walk.item) = span
  BY <1>3, <1>4, ProbingAssumption DEF ElementItem, Total, Wrap, ElementSpan
<1>6. ElementEnd(file, at) <= Len(file)
  <2>1. ElementEnd(file, at) <= walk.segmentEnd
    BY <1>3 DEF WholeElement
  <2>2. SegmentEnd(file) <= Len(file)
    BY <1>2, <1>3, SegmentFacts
  <2> QED
    BY <1>2, <1>3, <1>4, <2>1, <2>2
<1>7. SourceOf(r.src, file) /\ Gives(r, src, file, span, at)
  BY <1>1, <1>2, <1>4, <1>5, ReadGives
<1>8. src.mishap => r.src.mishap
  BY <1>7 DEF Gives
<1>9. CASE r.err # "none"
  <2>1. Returns(r, Failed)
    BY <1>1, <1>9
  <2>2. r.src.mishap
    BY <1>2, <1>4, <1>6, <1>7, <1>9 DEF Gives
  <2> QED
    BY <1>7, <1>8, <2>1, <2>2 DEF MetadataOutcome
<1>10. CASE r.err = "none"
  <2>1. Len(r.cells) = span
    BY <1>7, <1>10 DEF Gives
  <2>2. r.cells = Slice(file, at, span)
    BY <1>2, <1>4, <1>7, <2>1, GivenSlice
  <2>3. [walk EXCEPT !.raw[walk.item.id] = r.cells] = Collected
    BY <1>3, <2>2 DEF Collected, ElementItem
  <2> HIDE DEF span
  <2>4. \/ (\A i \in ElementMetadata : Collected.raw[i] # <<>>) /\ Prefixed(r, Collected)
        \/ ~(\A i \in ElementMetadata : Collected.raw[i] # <<>>)
               /\ Onward(r, Collected, ElementEnd(file, at))
    BY <1>1, <1>4, <1>5, <1>10, <2>3
  <2> QED
    BY <1>7, <1>8, <2>4 DEF MetadataOutcome
<1> QED
  BY <1>9, <1>10

-----------------------------------------------------------------------------
(* What a plan holds, and the stub it describes.                           *)

Plans == [size: Nat, extents: Seq(Extents)]

\* The extents are in the file and follow one another.
InOrder(plan) ==
    /\ plan \in Plans
    /\ \A k \in 1..Len(plan.extents) : EndOf(plan.extents[k]) <= plan.size
    /\ \A j, k \in 1..Len(plan.extents) :
          j < k => EndOf(plan.extents[j]) <= plan.extents[k].offset

LEMMA ZeroFacts == Zero \in Cells /\ SizeLength(Zero) = MaxElementHeader
<1>1. "zero" \in Ids
  BY DEF Ids
<1>2. "zero" # "short" /\ "zero" # "long"
  BY Zenon
<1> QED
  BY <1>1, <1>2 DEF Zero, Cell, Cells, SizeLength

\* The cells are those of the extents, each at its place, and zeros.
Shows(s, plan) ==
    /\ s \in Seq(Cells) /\ Len(s) = plan.size
    /\ \A k \in 1..Len(plan.extents) : \A j \in 1..Len(plan.extents[k].data) :
          s[plan.extents[k].offset + j] = plan.extents[k].data[j]
    /\ \A i \in 1..Len(s) :
          \/ s[i] = Zero
          \/ \E k \in 1..Len(plan.extents) : \E j \in 1..Len(plan.extents[k].data) :
                s[i] = plan.extents[k].data[j]

LEMMA PlanReads ==
    ASSUME NEW plan, InOrder(plan), plan.size > 0, NEW s, s = PlanReadAt(plan, plan.size, 0)
    PROVE  Shows(s, plan)
<1> DEFINE size == plan.size
           p == plan.extents
           All == {p[i] : i \in DOMAIN p}
           n == Least(size, size - 0)
           Asked == {e \in All : EndOf(e) > 0 /\ e.offset < 0 + n}
           Holding(i) == {e \in Asked : e.offset <= i /\ i < EndOf(e)}
           At(i) == IF Holding(i) = {} THEN Zero
                    ELSE LET e == CHOOSE e \in Holding(i) : TRUE IN e.data[i - e.offset + 1]
<1>1. size \in Nat /\ size > 0 /\ p \in Seq(Extents) /\ DOMAIN p = 1..Len(p) /\ Len(p) \in Nat
  BY DEF InOrder, Plans
<1>2. n = size /\ ~(0 >= size)
  BY <1>1 DEF Least
<1>3. s = [i \in 1..n |-> At(0 + i - 1)]
  BY <1>2 DEF PlanReadAt
<1> HIDE DEF n
<1>4. ASSUME NEW k \in 1..Len(p)
      PROVE  /\ p[k] \in Extents /\ p[k].offset \in Nat /\ p[k].data \in Seq(Cells)
             /\ Len(p[k].data) \in Nat /\ EndOf(p[k]) = p[k].offset + Len(p[k].data)
             /\ EndOf(p[k]) <= size /\ EndOf(p[k]) \in Nat
  <2>1. p[k] \in Extents
    BY <1>1
  <2>2. p[k].offset \in Nat /\ p[k].data \in Seq(Cells)
    BY <2>1 DEF Extents
  <2> QED
    BY <2>1, <2>2 DEF EndOf, InOrder
<1>5. ASSUME NEW i \in 0..(size - 1), NEW e \in Holding(i)
      PROVE  \E k \in 1..Len(p) : e = p[k] /\ i - p[k].offset + 1 \in 1..Len(p[k].data)
  <2>1. PICK k \in 1..Len(p) : e = p[k]
    BY <1>1, <1>5
  <2>2. p[k].offset <= i /\ i < EndOf(p[k])
    BY <1>5, <2>1
  <2>3. /\ p[k].offset \in Nat /\ EndOf(p[k]) = p[k].offset + Len(p[k].data)
        /\ Len(p[k].data) \in Nat
    BY <1>4
  <2>4. i - p[k].offset + 1 \in 1..Len(p[k].data)
    BY <2>2, <2>3
  <2> QED
    BY <2>1, <2>4
<1>6. ASSUME NEW k \in 1..Len(p), NEW j \in 1..Len(p[k].data)
      PROVE  /\ p[k].offset + j \in 1..size
             /\ At(p[k].offset + j - 1) = p[k].data[j]
  <2> DEFINE i == p[k].offset + j - 1
  <2>7. /\ p[k].offset \in Nat /\ Len(p[k].data) \in Nat
        /\ EndOf(p[k]) = p[k].offset + Len(p[k].data) /\ EndOf(p[k]) <= size
    BY <1>4
  <2>8. PICK off \in Nat, len \in Nat, end \in Nat :
           off = p[k].offset /\ len = Len(p[k].data) /\ end = EndOf(p[k])
    BY <2>7
  <2>9. j \in 1..len /\ end = off + len /\ end <= size
    BY <1>6, <2>7, <2>8
  <2>1. p[k].offset + j \in 1..size /\ i \in 0..(size - 1) /\ p[k].offset <= i /\ i < EndOf(p[k])
        /\ EndOf(p[k]) > 0 /\ p[k].offset < 0 + n
    <3>1. j \in Nat /\ 1 <= j /\ j <= len /\ off + len <= size
      BY <2>9
    <3>2. size \in Nat /\ n = size
      BY <1>1, <1>2
    <3>3. off + j \in 1..size /\ off + j - 1 \in 0..(size - 1)
      BY <3>1, <3>2
    <3>4. off <= off + j - 1 /\ off + j - 1 < end /\ end > 0 /\ off < 0 + n
      BY <2>9, <3>1, <3>2
    <3> QED
      BY <2>8, <3>3, <3>4
  <2>2. p[k] \in Holding(i)
    BY <1>1, <2>1
  <2>3. \A e \in Holding(i) : e = p[k]
    <3> SUFFICES ASSUME NEW e \in Holding(i) PROVE e = p[k]
      OBVIOUS
    <3>6. i \in 0..(size - 1)
      BY <2>1
    <3>1. PICK m \in 1..Len(p) : e = p[m] /\ i - p[m].offset + 1 \in 1..Len(p[m].data)
      BY <1>5, <3>6
    <3>2. /\ p[m].offset <= i /\ i < EndOf(p[m])
          /\ p[m].offset \in Nat /\ EndOf(p[m]) = p[m].offset + Len(p[m].data)
          /\ Len(p[m].data) \in Nat
      BY <1>4, <3>1
    <3>3. CASE m = k
      BY <3>1, <3>3
    <3>4. CASE m < k
      <4>1. EndOf(p[m]) <= p[k].offset
        BY <3>4 DEF InOrder
      <4>2. EndOf(p[m]) \in Nat /\ p[k].offset \in Nat /\ i \in Nat
        BY <1>4, <3>6
      <4>3. p[k].offset <= i /\ i < EndOf(p[m])
        BY <2>1, <3>2
      <4> HIDE DEF i, p
      <4> QED
        BY <4>1, <4>2, <4>3
    <3>5. CASE k < m
      <4>1. EndOf(p[k]) <= p[m].offset
        BY <3>5 DEF InOrder
      <4>2. EndOf(p[k]) \in Nat /\ p[m].offset \in Nat /\ i \in Nat
        BY <1>4, <3>6
      <4>3. p[m].offset <= i /\ i < EndOf(p[k])
        BY <2>1, <3>2
      <4> HIDE DEF i, p
      <4> QED
        BY <4>1, <4>2, <4>3
    <3> QED
      BY <3>3, <3>4, <3>5
  <2>4. (CHOOSE e \in Holding(i) : TRUE) = p[k]
    <3> HIDE DEF Holding
    <3> QED
      BY <2>2, <2>3
  <2>5. i - p[k].offset + 1 = j
    BY <1>4, <1>6
  <2>6. At(i) = p[k].data[j]
    <3> HIDE DEF Holding
    <3> QED
      BY <2>2, <2>4, <2>5
  <2> QED
    BY <2>1, <2>6
<1>7. ASSUME NEW i \in 0..(size - 1)
      PROVE  \/ At(i) = Zero
             \/ \E k \in 1..Len(p) : \E j \in 1..Len(p[k].data) : At(i) = p[k].data[j]
  <2>1. CASE Holding(i) = {}
    <3> HIDE DEF Holding
    <3> QED
      BY <2>1
  <2>2. CASE Holding(i) # {}
    <3> DEFINE e == CHOOSE e \in Holding(i) : TRUE
    <3>1. e \in Holding(i)
      BY <2>2
    <3>2. At(i) = e.data[i - e.offset + 1]
      <4> HIDE DEF Holding
      <4> QED
        BY <2>2
    <3> HIDE DEF e, Holding
    <3>3. PICK k \in 1..Len(p) : e = p[k] /\ i - p[k].offset + 1 \in 1..Len(p[k].data)
      BY <1>5, <3>1
    <3> HIDE DEF At
    <3> QED
      BY <3>2, <3>3
  <2> QED
    BY <2>1, <2>2
<1> HIDE DEF At
<1>8. \A i \in 1..size : /\ 0 + i - 1 \in 0..(size - 1) /\ 0 + i - 1 = i - 1
  BY <1>1
<1>9. \A i \in 0..(size - 1) : At(i) \in Cells
  <2> TAKE i \in 0..(size - 1)
  <2>1. Zero \in Cells
    BY ZeroFacts
  <2>2. ASSUME NEW k \in 1..Len(p), NEW j \in 1..Len(p[k].data) PROVE p[k].data[j] \in Cells
    BY <1>4
  <2> QED
    BY <1>7, <2>1, <2>2
<1>10. s \in Seq(Cells) /\ Len(s) = size /\ \A i \in 1..size : s[i] = At(i - 1)
  BY <1>1, <1>2, <1>3, <1>8, <1>9
<1>11. ASSUME NEW k \in 1..Len(p), NEW j \in 1..Len(p[k].data)
       PROVE  s[p[k].offset + j] = p[k].data[j]
  <2>1. p[k].offset + j \in 1..size /\ At(p[k].offset + j - 1) = p[k].data[j]
    BY <1>6
  <2>6. p[k].offset \in Nat /\ Len(p[k].data) \in Nat
    BY <1>4
  <2> HIDE DEF p
  <2>2. PICK i \in 1..size : i = p[k].offset + j
    BY <2>1
  <2>3. s[i] = At(i - 1)
    BY <1>10
  <2>4. i - 1 = p[k].offset + j - 1
    BY <2>2, <2>6
  <2>5. At(i - 1) = p[k].data[j]
    BY <2>1, <2>4, Zenon
  <2> QED
    BY <2>2, <2>3, <2>5, Zenon
<1>12. ASSUME NEW i \in 1..Len(s)
       PROVE  \/ s[i] = Zero
              \/ \E k \in 1..Len(p) : \E j \in 1..Len(p[k].data) : s[i] = p[k].data[j]
  <2>1. s[i] = At(i - 1) /\ i - 1 \in 0..(size - 1)
    BY <1>1, <1>10
  <2> QED
    BY <1>7, <2>1
<1> QED
  BY <1>10, <1>11, <1>12 DEF Shows

-----------------------------------------------------------------------------
(* The plan of an MP4 file.                                                *)

Mp4PlanOf(plan, f) ==
    /\ plan \in Plans /\ plan.size = Len(f) /\ Mp4Head(f)
    /\ "moov" \in PassedIds(f, plan.extents, Len(plan.extents))
    /\ \E end \in Nat : /\ Trail(f, plan.extents, end)
                        /\ Enough \subseteq PassedIds(f, plan.extents, Len(plan.extents))
                           \/ end >= Len(f)

\* The extent keeps a box of f.
KeepsBox(f, e) ==
    /\ e \in Extents /\ e.offset \in Nat
    /\ WholeBox(f, e.offset) /\ e = KeptPart(f, e.offset)
    /\ EndOf(e) \in Nat /\ e.offset <= EndOf(e) /\ EndOf(e) <= BoxEnd(f, e.offset)
    /\ BoxEnd(f, e.offset) <= Len(f) /\ BoxEnd(f, e.offset) \in Nat
    /\ Len(e.data) = KeptSize(f, e.offset)
    /\ \A j \in 1..KeptSize(f, e.offset) : e.data[j] = f[e.offset + j]

LEMMA TrailFacts ==
    ASSUME NEW f \in Seq(Cells), NEW extents, NEW end, Trail(f, extents, end)
    PROVE  /\ extents \in Seq(Extents) /\ Len(extents) \in Nat /\ end <= Len(f)
           /\ \A k \in 1..Len(extents) : KeepsBox(f, extents[k])
<1>1. extents \in Seq(Extents) /\ Len(extents) \in Nat /\ end \in Nat
  BY DEF Trail
<1>2. ASSUME NEW k \in 1..Len(extents)
      PROVE  KeepsBox(f, extents[k])
  <2>1. extents[k] \in Extents
    BY <1>1
  <2>2. PICK at \in Nat : at = extents[k].offset
    BY <2>1 DEF Extents
  <2>3. WholeBox(f, at) /\ extents[k] = KeptPart(f, at)
    BY <2>2 DEF Trail
  <2>4. /\ KeptSize(f, at) \in Nat /\ EndOf(KeptPart(f, at)) <= BoxEnd(f, at)
        /\ KeptPart(f, at).offset = at
        /\ Len(KeptPart(f, at).data) = KeptSize(f, at)
        /\ \A j \in 1..KeptSize(f, at) : KeptPart(f, at).data[j] = f[at + j]
    BY <2>3, KeptFacts
  <2>5. BoxEnd(f, at) <= Len(f) /\ BoxEnd(f, at) \in Nat
    BY <2>3, BoxFacts
  <2>6. EndOf(extents[k]) = at + KeptSize(f, at)
    BY <2>2, <2>3, <2>4 DEF EndOf
  <2> QED
    BY <2>1, <2>2, <2>3, <2>4, <2>5, <2>6 DEF KeepsBox
<1>3. end <= Len(f)
  <2>1. CASE extents = <<>>
    BY <2>1 DEF Trail
  <2>2. CASE extents # <<>>
    <3>1. Len(extents) \in 1..Len(extents)
      BY <1>1, <2>2
    <3>2. end = BoxEnd(f, extents[Len(extents)].offset)
      BY <2>2 DEF Trail
    <3> QED
      BY <1>2, <3>1, <3>2 DEF KeepsBox
  <2> QED
    BY <2>1, <2>2
<1> QED
  BY <1>1, <1>2, <1>3

LEMMA TrailInOrder ==
    ASSUME NEW f \in Seq(Cells), NEW extents, NEW end, Trail(f, extents, end)
    PROVE  InOrder(Plan(Len(f), extents)) /\ Accepted(Len(f), extents)
<1>1. extents \in Seq(Extents) /\ Len(extents) \in Nat /\ DOMAIN extents = 1..Len(extents)
  BY TrailFacts
<1>2. ASSUME NEW k \in 1..Len(extents)
      PROVE  extents[k].offset \in Nat /\ EndOf(extents[k]) <= Len(f)
             /\ EndOf(extents[k]) \in Nat /\ BoxEnd(f, extents[k].offset) \in Nat
             /\ EndOf(extents[k]) <= BoxEnd(f, extents[k].offset)
  <2>1. /\ EndOf(extents[k]) \in Nat /\ BoxEnd(f, extents[k].offset) \in Nat
        /\ EndOf(extents[k]) <= BoxEnd(f, extents[k].offset)
        /\ BoxEnd(f, extents[k].offset) <= Len(f)
        /\ extents[k].offset \in Nat
    BY TrailFacts DEF KeepsBox
  <2>2. Len(f) \in Nat
    OBVIOUS
  <2> QED
    BY <2>1, <2>2
<1>3. ASSUME NEW j \in 1..Len(extents), NEW k \in 1..Len(extents), j < k
      PROVE  EndOf(extents[j]) <= extents[k].offset
  <2>1. BoxEnd(f, extents[j].offset) <= extents[k].offset
    BY <1>3 DEF Trail
  <2> QED
    BY <1>2, <2>1
<1>4. InOrder(Plan(Len(f), extents))
  <2>1. Plan(Len(f), extents) = [size |-> Len(f), extents |-> extents]
    BY DEF Plan
  <2> QED
    BY <1>1, <1>2, <1>3, <2>1 DEF InOrder, Plans
<1>5. Accepted(Len(f), extents)
  <2>1. \A k \in 1..Len(extents) : extents[k].offset >= 0 /\ EndOf(extents[k]) <= Len(f)
    BY <1>2
  <2>2. ASSUME NEW k \in 1..(Len(extents) - 1)
        PROVE  extents[k + 1].offset >= EndOf(extents[k])
    <3>1. k \in 1..Len(extents) /\ k + 1 \in 1..Len(extents) /\ k < k + 1
      BY <1>1
    <3>2. EndOf(extents[k]) <= extents[k + 1].offset
      BY <1>3, <3>1
    <3> QED
      BY <1>2, <3>1, <3>2
  <2> QED
    BY <1>1, <2>1, <2>2 DEF Accepted
<1> QED
  BY <1>4, <1>5

\* A box is the same in two files that agree on what is kept of it.
LEMMA BoxAgrees ==
    ASSUME NEW f \in Seq(Cells), NEW s \in Seq(Cells), Len(s) = Len(f), NEW at \in Nat,
           WholeBox(f, at), \A j \in 1..KeptSize(f, at) : s[at + j] = f[at + j]
    PROVE  /\ WholeBox(s, at) /\ KeptPart(s, at) = KeptPart(f, at)
           /\ BoxId(s, at) = BoxId(f, at) /\ BoxEnd(s, at) = BoxEnd(f, at)
           /\ s[at + 1] = f[at + 1]
<1>1. /\ KeptSize(f, at) \in Nat /\ KeptSize(f, at) >= HeaderSize
      /\ at + KeptSize(f, at) <= Len(f)
  BY KeptFacts, BoxFacts
<1>2. KeptSize(f, at) >= BoxHeader(f, at)
  BY BoxFacts DEF KeptSize, HeaderSize, ExtendedSize
<1>3. 1 \in 1..KeptSize(f, at) /\ 2 \in 1..KeptSize(f, at)
  BY <1>1 DEF HeaderSize
<1>4. s[at + 1] = f[at + 1] /\ s[at + 2] = f[at + 2]
  BY <1>3
<1>5. BoxHeader(s, at) = BoxHeader(f, at) /\ BoxId(s, at) = BoxId(f, at)
  BY <1>4 DEF BoxHeader, BoxId
<1>6. f[at + 1].n = Extended => s[at + 3] = f[at + 3]
  <2>1. f[at + 1].n = Extended => 3 \in 1..KeptSize(f, at)
    BY <1>1, <1>2 DEF BoxHeader, ExtendedSize
  <2> QED
    BY <2>1
<1>7. BoxSize(s, at) = BoxSize(f, at)
  BY <1>4, <1>6 DEF BoxSize, Extended, ToTheEnd
<1>8. BoxEnd(s, at) = BoxEnd(f, at) /\ KeptSize(s, at) = KeptSize(f, at)
  BY <1>5, <1>7 DEF BoxEnd, KeptSize
<1>9. WholeBox(s, at)
  BY <1>5, <1>7, <1>8 DEF WholeBox
<1>10. KeptPart(s, at) = KeptPart(f, at)
  <2>1. PICK n \in Nat : n = KeptSize(f, at)
    BY <1>1
  <2>2. Slice(s, at, n) = Slice(f, at, n)
    BY <2>1 DEF Slice
  <2> QED
    BY <1>8, <2>1, <2>2 DEF KeptPart
<1> QED
  BY <1>4, <1>5, <1>8, <1>9, <1>10

\* A plan of an MP4 file is the plan of its stub too.
LEMMA Mp4Stub ==
    ASSUME NEW f, FileOf(f), NEW plan, Mp4PlanOf(plan, f), NEW s, s = PlanReadAt(plan, plan.size, 0)
    PROVE  FileOf(s) /\ Mp4PlanOf(plan, s)
<1> DEFINE p == plan.extents
<1>1. f \in Seq(Cells) /\ Len(f) \in Nat /\ Len(f) > HeaderSize /\ plan.size = Len(f)
  BY DEF FileOf, Mp4PlanOf, Mp4Head
<1>2. PICK end \in Nat : /\ Trail(f, p, end)
                         /\ Enough \subseteq PassedIds(f, p, Len(p)) \/ end >= Len(f)
  BY DEF Mp4PlanOf
<1>3. plan = Plan(Len(f), p)
  BY DEF Mp4PlanOf, Plans, Plan
<1>4. InOrder(plan) /\ plan.size > 0
  BY <1>1, <1>2, <1>3, TrailInOrder DEF HeaderSize
<1>5. /\ s \in Seq(Cells) /\ Len(s) = Len(f)
      /\ \A k \in 1..Len(p) : \A j \in 1..Len(p[k].data) :
            s[p[k].offset + j] = p[k].data[j]
      /\ \A i \in 1..Len(s) :
            \/ s[i] = Zero
            \/ \E k \in 1..Len(p) : \E j \in 1..Len(p[k].data) : s[i] = p[k].data[j]
  <2>1. Shows(s, plan)
    BY <1>4, PlanReads
  <2> QED
    BY <1>1, <2>1, Zenon DEF Shows
<1>6. ASSUME NEW k \in 1..Len(p)
      PROVE  /\ WholeBox(s, p[k].offset) /\ KeptPart(s, p[k].offset) = KeptPart(f, p[k].offset)
             /\ BoxId(s, p[k].offset) = BoxId(f, p[k].offset)
             /\ BoxEnd(s, p[k].offset) = BoxEnd(f, p[k].offset)
             /\ s[p[k].offset + 1] = f[p[k].offset + 1]
             /\ p[k].offset \in Nat
  <2>5. KeepsBox(f, p[k])
    BY <1>1, <1>2, TrailFacts
  <2>1. PICK at \in Nat : at = p[k].offset
    BY <2>5 DEF KeepsBox
  <2>2. /\ WholeBox(f, at) /\ Len(p[k].data) = KeptSize(f, at)
        /\ \A j \in 1..KeptSize(f, at) : p[k].data[j] = f[at + j]
    BY <2>1, <2>5 DEF KeepsBox
  <2>6. \A j \in 1..Len(p[k].data) : s[p[k].offset + j] = p[k].data[j]
    BY <1>5, Zenon
  <2>7. \A j \in 1..KeptSize(f, at) : s[at + j] = p[k].data[j]
    BY <2>1, <2>2, <2>6, Zenon
  <2>3. \A j \in 1..KeptSize(f, at) : s[at + j] = f[at + j]
    BY <2>2, <2>7, Zenon
  <2>4. /\ WholeBox(s, at) /\ KeptPart(s, at) = KeptPart(f, at)
        /\ BoxId(s, at) = BoxId(f, at) /\ BoxEnd(s, at) = BoxEnd(f, at)
        /\ s[at + 1] = f[at + 1]
    BY <1>1, <1>5, <2>2, <2>3, BoxAgrees
  <2> QED
    BY <2>1, <2>4
<1>7. Len(p) \in Nat /\ p # <<>> /\ 1 \in 1..Len(p) /\ p[1].offset = 0
  <2>1. p \in Seq(Extents) /\ Len(p) \in Nat
    BY <1>2, <1>1, TrailFacts
  <2>2. PassedIds(f, p, Len(p)) # {}
    BY DEF Mp4PlanOf
  <2>3. 1..Len(p) # {}
    BY <2>2 DEF PassedIds, BoxIds
  <2>4. p # <<>>
    BY <2>1, <2>3
  <2>5. p[1].offset = 0
    BY <1>2, <2>4 DEF Trail
  <2> QED
    BY <2>1, <2>3, <2>4, <2>5
<1>8. ASSUME NEW k \in 0..Len(p)
      PROVE  PassedIds(s, p, k) = PassedIds(f, p, k)
  <2>1. \A i \in 1..k : i \in 1..Len(p) /\ Offsets(p)[i] = p[i].offset
    BY <1>7 DEF Offsets
  <2>2. \A i \in 1..k : BoxId(s, Offsets(p)[i]) = BoxId(f, Offsets(p)[i])
    BY <1>6, <2>1
  <2> QED
    BY <2>2, Zenon DEF PassedIds, BoxIds
<1>9. Trail(s, p, end)
  <2> HIDE DEF p
  <2>1. ASSUME NEW i \in 1..Len(p)
        PROVE  /\ WholeBox(s, p[i].offset) /\ p[i] = KeptPart(s, p[i].offset)
               /\ BoxEnd(s, p[i].offset) <= end
    BY <1>2, <1>6 DEF Trail
  <2>2. ASSUME NEW i \in 1..Len(p), NEW j \in 1..Len(p), i < j
        PROVE  BoxEnd(s, p[i].offset) <= p[j].offset
    BY <1>2, <1>6, <2>2 DEF Trail
  <2>3. ASSUME NEW i \in 1..(Len(p) - 1)
        PROVE  p[i + 1].offset = BoxEnd(s, p[i].offset)
    <3>1. i \in 1..Len(p)
      BY <1>7
    <3> QED
      BY <1>2, <1>6, <3>1 DEF Trail
  <2>4. p[1].offset = 0 /\ end = BoxEnd(s, p[Len(p)].offset)
    <3>1. Len(p) \in 1..Len(p)
      BY <1>7
    <3> QED
      BY <1>2, <1>6, <1>7, <3>1 DEF Trail
  <2>5. ASSUME NEW k \in 1..(Len(p) - 1)
        PROVE  ~(Enough \subseteq PassedIds(s, p, k))
    <3>1. k \in 0..Len(p)
      BY <1>7
    <3> QED
      BY <1>2, <1>8, <3>1 DEF Trail
  <2>6. p \in Seq(Extents)
    BY <1>2 DEF Trail
  <2> QED
    BY <1>7, <2>1, <2>2, <2>3, <2>4, <2>5, <2>6 DEF Trail
<1>10. Mp4Head(s)
  <2>1. s[1] = f[1] /\ BoxId(s, 0) = BoxId(f, 0)
    BY <1>6, <1>7
  <2> QED
    BY <1>1, <1>5, <2>1 DEF Mp4PlanOf, Mp4Head
<1>11. Sized(s)
  <2> SUFFICES ASSUME NEW i \in 1..Len(s), SizeLength(s[i]) \in {1, 2}
               PROVE  s[i].n <= Unknown[SizeLength(s[i])]
    BY <1>5 DEF Sized
  <2>1. s[i] # Zero
    BY ZeroFacts DEF MaxElementHeader
  <2>5. PICK k \in 1..Len(p) : \E j \in 1..Len(p[k].data) : s[i] = p[k].data[j]
    BY <1>5, <2>1
  <2>2. PICK j \in 1..Len(p[k].data) : s[i] = p[k].data[j]
    BY <2>5
  <2>3. /\ p[k].offset \in Nat /\ Len(p[k].data) = KeptSize(f, p[k].offset)
        /\ EndOf(p[k]) <= BoxEnd(f, p[k].offset) /\ BoxEnd(f, p[k].offset) <= Len(f)
        /\ EndOf(p[k]) \in Nat /\ BoxEnd(f, p[k].offset) \in Nat
        /\ p[k].data[j] = f[p[k].offset + j] /\ Len(p[k].data) \in Nat
    <3>1. KeepsBox(f, p[k])
      BY <1>1, <1>2, TrailFacts
    <3>2. p[k].offset \in Nat /\ Len(p[k].data) \in Nat
      BY <3>1 DEF KeepsBox, Extents
    <3>3. /\ Len(p[k].data) = KeptSize(f, p[k].offset)
          /\ EndOf(p[k]) <= BoxEnd(f, p[k].offset) /\ BoxEnd(f, p[k].offset) <= Len(f)
          /\ EndOf(p[k]) \in Nat /\ BoxEnd(f, p[k].offset) \in Nat
          /\ \A m \in 1..KeptSize(f, p[k].offset) : p[k].data[m] = f[p[k].offset + m]
      BY <3>1 DEF KeepsBox
    <3> QED
      BY <3>2, <3>3
  <2>4. p[k].offset + j \in 1..Len(f)
    <3>1. EndOf(p[k]) = p[k].offset + Len(p[k].data)
      BY DEF EndOf
    <3>2. PICK off \in Nat, len \in Nat, end2 \in Nat :
             off = p[k].offset /\ len = Len(p[k].data) /\ end2 = BoxEnd(f, p[k].offset)
      BY <2>3
    <3>3. j \in 1..len /\ off + len <= end2 /\ end2 <= Len(f)
      BY <2>3, <3>1, <3>2
    <3>4. off + j \in 1..Len(f)
      BY <1>1, <3>3
    <3> QED
      BY <3>2, <3>4
  <2>6. s[i] = f[p[k].offset + j]
    BY <2>2, <2>3
  <2>7. \A m \in 1..Len(f) : SizeLength(f[m]) \in {1, 2} => f[m].n <= Unknown[SizeLength(f[m])]
    BY <1>1 DEF FileOf, Sized
  <2> QED
    BY <2>4, <2>6, <2>7
<1>12. PassedIds(s, p, Len(p)) = PassedIds(f, p, Len(p))
  BY <1>7, <1>8
<1> QED
  BY <1>1, <1>2, <1>5, <1>9, <1>10, <1>11, <1>12 DEF FileOf, Mp4PlanOf

LEMMA PassesMakes ==
    ASSUME FileOf(file), walk \in Walks, Mp4Walk(walk, file), NEW r, Passes(r)
    PROVE  /\ Passed \in Walks /\ Passed.at = "box"
           /\ Passed.offset > walk.offset /\ Passed.offset <= Len(file)
           /\ Trail(file, Passed.extents, Passed.offset)
           /\ Passed.extents = walk.extents \o <<KeptPart(file, walk.offset)>>
           /\ Passed.seen = PassedIds(file, Passed.extents, Len(Passed.extents))
           /\ \/ ~WalkedBoxes(Passed) /\ Goes(r, Passed) /\ Mp4Walk(Passed, file)
              \/ WalkedBoxes(Passed) /\ "moov" \notin Passed.seen /\ Returns(r, Unsupported)
              \/ /\ WalkedBoxes(Passed)
                 /\ Mp4PlanOf(Plan(Len(file), Passed.extents), file)
                 /\ Returns(r, Result("plan", Plan(Len(file), Passed.extents)))
<1> DEFINE at == walk.offset
<1>1. file \in Seq(Cells) /\ at \in Nat /\ Len(file) \in Nat /\ WholeBox(file, at)
  BY DEF FileOf, Walks, Passes
<1>2. /\ Passed.at = "box" /\ Passed.offset = BoxEnd(file, at)
      /\ Passed.extents = walk.extents \o <<KeptPart(file, at)>>
      /\ Passed.seen = walk.seen \cup {BoxId(file, at)}
  BY DEF Passed, Walks
<1>3. BoxEnd(file, at) \in Nat /\ BoxEnd(file, at) <= Len(file) /\ at < BoxEnd(file, at)
      /\ BoxId(file, at) \in Ids
  BY <1>1, BoxFacts DEF HeaderSize
<1>4. /\ Trail(file, walk.extents, at) /\ walk.seen = PassedIds(file, walk.extents, Len(walk.extents))
      /\ ~(Enough \subseteq walk.seen) /\ Mp4Head(file)
  BY DEF Mp4Walk
<1>5. /\ Trail(file, Passed.extents, Passed.offset)
      /\ Passed.seen = PassedIds(file, Passed.extents, Len(Passed.extents))
  <2>1. PICK longer : longer = walk.extents \o <<KeptPart(file, at)>>
    OBVIOUS
  <2>2. ~(Enough \subseteq PassedIds(file, walk.extents, Len(walk.extents)))
    BY <1>4
  <2>3. GrownBy(file, longer, walk.extents, at)
    BY <1>1, <1>4, <2>1, <2>2, TrailGrows
  <2> QED
    BY <1>2, <1>4, <2>1, <2>3 DEF GrownBy
<1>6. Passed \in Walks
  <2>1. "box" \in Steps /\ Passed.extents \in Seq(Extents) /\ Passed.seen \in SUBSET Ids
    <3>1. walk.seen \in SUBSET Ids
      BY DEF Walks
    <3> QED
      BY <1>2, <1>3, <1>5, <3>1 DEF Steps, Trail
  <2> QED
    BY <1>2, <1>3, <2>1 DEF Passed, Walks
<1>7. WalkedBoxes(Passed) <=> Passed.offset >= Len(file) \/ Enough \subseteq Passed.seen
  BY DEF WalkedBoxes, Enough
<1>8. CASE ~WalkedBoxes(Passed)
  <2>1. Goes(r, Passed)
    BY <1>8 DEF Passes
  <2>2. Mp4Walk(Passed, file)
    <3>1. ~(Enough \subseteq Passed.seen) /\ Passed.offset < Len(file)
      BY <1>1, <1>2, <1>3, <1>7, <1>8
    <3> QED
      BY <1>2, <1>4, <1>5, <3>1 DEF Mp4Walk
  <2> QED
    BY <1>1, <1>2, <1>3, <1>5, <1>6, <1>8, <2>1, <2>2
<1>9. CASE WalkedBoxes(Passed) /\ "moov" \notin Passed.seen
  <2>1. Returns(r, Unsupported)
    BY <1>9 DEF Passes
  <2> QED
    BY <1>1, <1>2, <1>3, <1>5, <1>6, <1>9, <2>1
<1>10. CASE WalkedBoxes(Passed) /\ "moov" \in Passed.seen
  <2> DEFINE plan == Plan(Len(file), Passed.extents)
  <2>1. InOrder(plan) /\ Accepted(Len(file), Passed.extents)
    BY <1>1, <1>5, TrailInOrder
  <2>2. Returns(r, Result("plan", plan))
    BY <1>10, <2>1 DEF Passes, Planned
  <2>3. plan.size = Len(file) /\ plan.extents = Passed.extents
    BY DEF Plan
  <2> HIDE DEF plan
  <2>4. Mp4PlanOf(plan, file)
    BY <1>2, <1>3, <1>4, <1>5, <1>7, <1>10, <2>1, <2>3 DEF Mp4PlanOf, InOrder
  <2> QED
    BY <1>1, <1>2, <1>3, <1>5, <1>6, <1>10, <2>2, <2>4 DEF plan
<1> QED
  BY <1>8, <1>9, <1>10

-----------------------------------------------------------------------------
(* The plan of a Matroska file.                                            *)

Raws == [ElementMetadata -> Seq(Cells)]

\* The part is in s, from `at' on.
PartAt(s, at, part) ==
    /\ at \in Nat /\ at + Len(part) <= Len(s)
    /\ \A j \in 1..Len(part) : s[at + j] = part[j]

LEMMA PartsJoin ==
    ASSUME NEW a \in Seq(Cells), NEW b \in Seq(Cells)
    PROVE  /\ PartAt(a \o b, Len(a), b)
           /\ \A at \in Nat, part \in Seq(Cells) : PartAt(a, at, part) => PartAt(a \o b, at, part)
<1>1. /\ a \o b \in Seq(Cells) /\ Len(a \o b) = Len(a) + Len(b)
      /\ Len(a) \in Nat /\ Len(b) \in Nat
      /\ \A i \in 1..Len(a) : (a \o b)[i] = a[i]
      /\ \A i \in 1..Len(b) : (a \o b)[Len(a) + i] = b[i]
  BY Joined
<1>2. PartAt(a \o b, Len(a), b)
  BY <1>1 DEF PartAt
<1>3. ASSUME NEW at \in Nat, NEW part \in Seq(Cells), PartAt(a, at, part)
      PROVE  PartAt(a \o b, at, part)
  <2>1. Len(part) \in Nat /\ at + Len(part) <= Len(a)
        /\ \A j \in 1..Len(part) : a[at + j] = part[j]
    BY <1>3 DEF PartAt
  <2>2. \A j \in 1..Len(part) : at + j \in 1..Len(a)
    BY <1>1, <2>1
  <2> QED
    BY <1>1, <2>1, <2>2 DEF PartAt
<1> QED
  BY <1>2, <1>3

LEMMA SizedJoin ==
    ASSUME NEW a \in Seq(Cells), NEW b \in Seq(Cells), Sized(a), Sized(b)
    PROVE  Sized(a \o b)
<1>1. /\ a \o b \in Seq(Cells) /\ Len(a \o b) = Len(a) + Len(b)
      /\ Len(a) \in Nat /\ Len(b) \in Nat
      /\ \A i \in 1..Len(a) : (a \o b)[i] = a[i]
      /\ \A i \in 1..Len(b) : (a \o b)[Len(a) + i] = b[i]
  BY Joined
<1>2. ASSUME NEW i \in 1..(Len(a) + Len(b)), SizeLength((a \o b)[i]) \in {1, 2}
      PROVE  (a \o b)[i].n <= Unknown[SizeLength((a \o b)[i])]
  <2>1. CASE i <= Len(a)
    <3>1. i \in 1..Len(a) /\ i \in DOMAIN a
      BY <1>1, <2>1
    <3> QED
      BY <1>1, <1>2, <3>1 DEF Sized
  <2>2. CASE i > Len(a)
    <3>1. PICK j \in 1..Len(b) : i = Len(a) + j
      <4>1. i - Len(a) \in 1..Len(b) /\ i = Len(a) + (i - Len(a))
        BY <1>1, <2>2
      <4> QED
        BY <4>1
    <3>2. j \in DOMAIN b /\ (a \o b)[i] = b[j]
      BY <1>1, <3>1
    <3> QED
      BY <1>2, <3>2 DEF Sized
  <2> QED
    BY <1>1, <2>1, <2>2
<1>3. DOMAIN (a \o b) = 1..(Len(a) + Len(b))
  BY <1>1
<1> QED
  BY <1>2, <1>3 DEF Sized

LEMMA Appended ==
    ASSUME NEW a \in Seq(Cells), NEW b \in Seq(Cells), Sized(a), Sized(b), NEW c, c = a \o b
    PROVE  c \in Seq(Cells) /\ Len(c) \in Nat /\ Len(c) = Len(a) + Len(b) /\ Sized(c)
<1>1. c \in Seq(Cells) /\ Len(c) = Len(a) + Len(b)
  BY Joined
<1> QED
  BY <1>1, SizedJoin

LEMMA HeaderCells ==
    /\ \A size \in Nat : LongHeader("segment", size) \in Seq(Cells)
                         /\ LongHeader("void", size) \in Seq(Cells)
    /\ EmptyCluster \in Seq(Cells)
<1>1. {"segment", "void", "long", "pad", "cluster", "short", "timecode"} \subseteq Ids
  BY DEF Ids
<1>2. \A id \in Ids, n \in Nat : Cell(id, n) \in Cells
  BY DEF Cell, Cells
<1>3. ASSUME NEW id \in Ids, NEW size \in Nat
      PROVE  LongHeader(id, size) \in Seq(Cells)
  <2>1. Cell(id, 0) \in Cells /\ Cell("long", size) \in Cells /\ Cell("pad", 0) \in Cells
    BY <1>1, <1>2
  <2> QED
    BY <2>1 DEF LongHeader
<1>4. EmptyCluster \in Seq(Cells)
  <2>1. Cell("cluster", 0) \in Cells /\ Cell("short", 1) \in Cells /\ Cell("timecode", 0) \in Cells
    BY <1>1, <1>2
  <2> QED
    BY <2>1 DEF EmptyCluster
<1> QED
  BY <1>1, <1>3, <1>4

LEMMA SizeLengths ==
    /\ \A id \in {"segment", "void", "pad", "cluster", "timecode"} :
          \A n \in Nat : SizeLength(Cell(id, n)) = MaxElementHeader
    /\ \A n \in Nat : SizeLength(Cell("long", n)) = 2
    /\ \A n \in Nat : SizeLength(Cell("short", n)) = 1
<1>1. /\ "segment" # "short" /\ "segment" # "long" /\ "void" # "short" /\ "void" # "long"
      /\ "pad" # "short" /\ "pad" # "long" /\ "cluster" # "short" /\ "cluster" # "long"
      /\ "timecode" # "short" /\ "timecode" # "long" /\ "long" # "short"
  BY Zenon
<1>2. \A id, n : Cell(id, n).id = id
  BY DEF Cell
<1> QED
  BY <1>1, <1>2 DEF SizeLength

LEMMA HeadersSized ==
    /\ \A size \in Nat : size <= Unknown[2] => Sized(LongHeader("segment", size))
                                               /\ Sized(LongHeader("void", size))
    /\ Sized(EmptyCluster)
<1>1. Unknown[1] \in Nat \ {0} /\ Unknown[2] \in Nat
  BY UnknownAssumption
<1>2. ASSUME NEW id \in {"segment", "void"}, NEW size \in Nat, size <= Unknown[2]
      PROVE  Sized(LongHeader(id, size))
  <2>1. /\ DOMAIN LongHeader(id, size) = 1..3
        /\ LongHeader(id, size)[1] = Cell(id, 0) /\ LongHeader(id, size)[2] = Cell("long", size)
        /\ LongHeader(id, size)[3] = Cell("pad", 0)
    BY DEF LongHeader
  <2>2. /\ SizeLength(Cell(id, 0)) = 3 /\ SizeLength(Cell("long", size)) = 2
        /\ SizeLength(Cell("pad", 0)) = 3
    BY SizeLengths DEF MaxElementHeader
  <2>3. Cell("long", size).n = size
    BY DEF Cell
  <2> QED
    BY <1>2, <2>1, <2>2, <2>3 DEF Sized
<1>3. Sized(EmptyCluster)
  <2>1. /\ DOMAIN EmptyCluster = 1..3
        /\ EmptyCluster[1] = Cell("cluster", 0) /\ EmptyCluster[2] = Cell("short", 1)
        /\ EmptyCluster[3] = Cell("timecode", 0)
    BY DEF EmptyCluster
  <2>2. /\ SizeLength(Cell("cluster", 0)) = 3 /\ SizeLength(Cell("short", 1)) = 1
        /\ SizeLength(Cell("timecode", 0)) = 3
    BY SizeLengths DEF MaxElementHeader
  <2>3. Cell("short", 1).n = 1
    BY DEF Cell
  <2> QED
    BY <1>1, <2>1, <2>2, <2>3 DEF Sized
<1> QED
  BY <1>2, <1>3

BodyIn(f) == Len(f) - ElementEnd(f, 0) - MaxElementHeader

PrefixIn(f, raw) ==
    Slice(f, 0, ElementEnd(f, 0)) \o LongHeader("segment", BodyIn(f))
        \o raw["info"] \o raw["tracks"] \o raw["tags"] \o EmptyCluster

PayloadIn(f, raw) == Len(f) - Len(PrefixIn(f, raw)) - MaxElementHeader

StubData(f, raw) == PrefixIn(f, raw) \o LongHeader("void", PayloadIn(f, raw))

\* The plan for f of what was kept of it.
MatroskaPlan(f, raw) == Plan(Len(f), <<Extent(0, StubData(f, raw))>>)

\* A body of this size can be told, and the parts fit in.
Room(f, raw) == BodyIn(f) \in MaxElementHeader..(Unknown[2] - 1) /\ PayloadIn(f, raw) >= 0

RawSound(raw) ==
    /\ raw \in Raws
    /\ \A id \in ElementMetadata : raw[id] # <<>> => IsWhole(raw[id], id)

InfoAt(f) == ElementEnd(f, 0) + MaxElementHeader
TracksAt(f, raw) == InfoAt(f) + Len(raw["info"])
TagsAt(f, raw) == TracksAt(f, raw) + Len(raw["tracks"])
ClusterAt(f, raw) == TagsAt(f, raw) + Len(raw["tags"])
VoidAt(f, raw) == ClusterAt(f, raw) + MaxElementHeader

\* The parts are in s in the order of the prefix.
Arranged(s, f, raw) ==
    /\ PartAt(s, 0, Slice(f, 0, ElementEnd(f, 0)))
    /\ PartAt(s, ElementEnd(f, 0), LongHeader("segment", BodyIn(f)))
    /\ PartAt(s, InfoAt(f), raw["info"])
    /\ PartAt(s, TracksAt(f, raw), raw["tracks"])
    /\ PartAt(s, TagsAt(f, raw), raw["tags"])
    /\ PartAt(s, ClusterAt(f, raw), EmptyCluster)
    /\ PartAt(s, VoidAt(f, raw), LongHeader("void", PayloadIn(f, raw)))

LEMMA HeaderLengths ==
    /\ \A id, size : Len(LongHeader(id, size)) = MaxElementHeader
    /\ Len(EmptyCluster) = MaxElementHeader
BY DEF LongHeader, EmptyCluster, MaxElementHeader

LEMMA RawFacts ==
    ASSUME NEW raw, RawSound(raw), NEW id \in ElementMetadata
    PROVE  raw[id] \in Seq(Cells) /\ Len(raw[id]) \in Nat /\ Sized(raw[id])
<1>1. raw[id] \in Seq(Cells) /\ Len(raw[id]) \in Nat
  BY DEF RawSound, Raws
<1>2. CASE raw[id] = <<>>
  <2>1. DOMAIN raw[id] = {}
    BY <1>2
  <2> QED
    BY <1>1, <2>1 DEF Sized
<1>3. CASE raw[id] # <<>>
  BY <1>1, <1>3 DEF RawSound, IsWhole
<1> QED
  BY <1>2, <1>3

LEMMA HeaderFacts ==
    ASSUME NEW f, FileOf(f), HeaderSound(f)
    PROVE  /\ ElementEnd(f, 0) \in Nat /\ ElementEnd(f, 0) <= Len(f) /\ 2 <= ElementEnd(f, 0)
           /\ Slice(f, 0, ElementEnd(f, 0)) \in Seq(Cells)
           /\ Len(Slice(f, 0, ElementEnd(f, 0))) = ElementEnd(f, 0)
           /\ \A i \in 1..ElementEnd(f, 0) : Slice(f, 0, ElementEnd(f, 0))[i] = f[i]
           /\ Sized(Slice(f, 0, ElementEnd(f, 0)))
<1>1. BeginsElement(f, 0) /\ ElementEnd(f, 0) <= Len(f)
  BY DEF HeaderSound, WholeElement
<1>2. ElementEnd(f, 0) \in Nat /\ 2 <= ElementEnd(f, 0)
  BY <1>1, ElementFacts
<1>3. PICK h \in Nat : h = ElementEnd(f, 0)
  BY <1>2
<1>4. f \in Seq(Cells) /\ Len(f) \in Nat /\ DOMAIN f = 1..Len(f) /\ 0 + h <= Len(f)
  BY <1>1, <1>3 DEF FileOf
<1>5. /\ Slice(f, 0, h) \in Seq(Cells) /\ Len(Slice(f, 0, h)) = h
      /\ \A i \in 1..h : Slice(f, 0, h)[i] = f[0 + i]
  BY <1>4, SliceOf
<1>6. \A i \in 1..h : Slice(f, 0, h)[i] = f[i] /\ i \in DOMAIN f
  BY <1>4, <1>5
<1>7. DOMAIN Slice(f, 0, h) = 1..h
  BY <1>5
<1>8. Sized(Slice(f, 0, h))
  BY <1>6, <1>7 DEF FileOf, Sized
<1> QED
  BY <1>1, <1>2, <1>3, <1>5, <1>6, <1>8

LEMMA StubDataFacts ==
    ASSUME NEW f, FileOf(f), HeaderSound(f), NEW raw, RawSound(raw), Room(f, raw)
    PROVE  /\ StubData(f, raw) \in Seq(Cells) /\ Sized(StubData(f, raw))
           /\ PayloadIn(f, raw) \in Nat /\ BodyIn(f) \in Nat
           /\ Len(StubData(f, raw)) = VoidAt(f, raw) + MaxElementHeader
           /\ Len(StubData(f, raw)) + PayloadIn(f, raw) = Len(f)
           /\ Arranged(StubData(f, raw), f, raw)
<1> DEFINE h == ElementEnd(f, 0)
           p1 == Slice(f, 0, h)
           p2 == LongHeader("segment", BodyIn(f))
           p3 == raw["info"]
           p4 == raw["tracks"]
           p5 == raw["tags"]
           p6 == EmptyCluster
           p7 == LongHeader("void", PayloadIn(f, raw))
           s2 == p1 \o p2
           s3 == s2 \o p3
           s4 == s3 \o p4
           s5 == s4 \o p5
           s6 == s5 \o p6
           s7 == s6 \o p7
<1>1. /\ p1 \in Seq(Cells) /\ Len(p1) = h /\ h \in Nat /\ Sized(p1)
  BY HeaderFacts
<1>2. BodyIn(f) \in Nat /\ BodyIn(f) <= Unknown[2] /\ Len(f) \in Nat /\ Unknown[2] \in Nat
      /\ BodyIn(f) = Len(f) - h - MaxElementHeader
  BY <1>1, UnknownAssumption DEF Room, FileOf, BodyIn, MaxElementHeader
<1>3. p2 \in Seq(Cells) /\ Len(p2) = MaxElementHeader /\ Sized(p2)
  BY <1>2, HeaderCells, HeaderLengths, HeadersSized
<1>4. /\ p3 \in Seq(Cells) /\ Len(p3) \in Nat /\ Sized(p3)
      /\ p4 \in Seq(Cells) /\ Len(p4) \in Nat /\ Sized(p4)
      /\ p5 \in Seq(Cells) /\ Len(p5) \in Nat /\ Sized(p5)
  BY RawFacts DEF ElementMetadata
<1>5. p6 \in Seq(Cells) /\ Len(p6) = MaxElementHeader /\ Sized(p6)
  BY HeaderCells, HeaderLengths, HeadersSized
<1>6. MaxElementHeader \in Nat
  BY DEF MaxElementHeader
<1> HIDE DEF p1, p2, p3, p4, p5, p6, h
<1>7. s2 \in Seq(Cells) /\ Len(s2) = h + MaxElementHeader /\ Sized(s2)
  BY <1>1, <1>3, Joined, SizedJoin
<1> HIDE DEF s2
<1>8. s3 \in Seq(Cells) /\ Len(s3) \in Nat /\ Len(s3) = Len(s2) + Len(p3) /\ Sized(s3)
  BY <1>4, <1>7, Appended
<1> HIDE DEF s3
<1>9. s4 \in Seq(Cells) /\ Len(s4) \in Nat /\ Len(s4) = Len(s3) + Len(p4) /\ Sized(s4)
  BY <1>4, <1>8, Appended
<1> HIDE DEF s4
<1>10. s5 \in Seq(Cells) /\ Len(s5) \in Nat /\ Len(s5) = Len(s4) + Len(p5) /\ Sized(s5)
  BY <1>4, <1>9, Appended
<1> HIDE DEF s5
<1>11. s6 \in Seq(Cells) /\ Len(s6) \in Nat /\ Len(s6) = Len(s5) + Len(p6) /\ Sized(s6)
  BY <1>5, <1>10, Appended
<1> HIDE DEF s6
<1>12. s6 = PrefixIn(f, raw)
  BY DEF s6, s5, s4, s3, s2, p1, p2, p3, p4, p5, p6, h, PrefixIn
<1>13. /\ PayloadIn(f, raw) = Len(f) - Len(s6) - MaxElementHeader
       /\ PayloadIn(f, raw) \in Nat /\ PayloadIn(f, raw) <= Unknown[2]
  <2>1. PayloadIn(f, raw) = Len(f) - Len(s6) - MaxElementHeader
    BY <1>12 DEF PayloadIn
  <2>2. PayloadIn(f, raw) >= 0
    BY DEF Room
  <2>3. Len(s6) \in Nat /\ h <= Len(s6)
    BY <1>1, <1>4, <1>5, <1>6, <1>7, <1>8, <1>9, <1>10, <1>11
  <2>4. PayloadIn(f, raw) <= BodyIn(f)
    BY <1>1, <1>2, <1>6, <2>1, <2>3
  <2> QED
    BY <1>2, <1>6, <2>1, <2>2, <2>3, <2>4
<1>14. p7 \in Seq(Cells) /\ Len(p7) = MaxElementHeader /\ Sized(p7)
  BY <1>13, HeaderCells, HeaderLengths, HeadersSized
<1> HIDE DEF p7
<1>15. /\ s7 \in Seq(Cells) /\ Sized(s7) /\ Len(s7) = Len(s6) + MaxElementHeader
  BY <1>11, <1>14, Joined, SizedJoin
<1>16. s7 = StubData(f, raw)
  BY <1>12 DEF s7, p7, StubData
<1>17. Len(s7) + PayloadIn(f, raw) = Len(f)
  <2> HIDE DEF s7
  <2> QED
    BY <1>2, <1>6, <1>11, <1>13, <1>15
<1>18. /\ InfoAt(f) = Len(s2) /\ TracksAt(f, raw) = Len(s3) /\ TagsAt(f, raw) = Len(s4)
       /\ ClusterAt(f, raw) = Len(s5) /\ VoidAt(f, raw) = Len(s6)
  BY <1>5, <1>7, <1>8, <1>9, <1>10, <1>11
     DEF InfoAt, TracksAt, TagsAt, ClusterAt, VoidAt, p3, p4, p5, h
<1> DEFINE Grows(a, b) == \A at \in Nat, part \in Seq(Cells) : PartAt(a, at, part) => PartAt(b, at, part)
<1>19. PartAt(p1, 0, p1)
  BY <1>1 DEF PartAt
<1>20. Grows(p1, s2) /\ PartAt(s2, h, p2)
  BY <1>1, <1>3, PartsJoin DEF s2
<1>21. Grows(s2, s3) /\ PartAt(s3, Len(s2), p3)
  BY <1>4, <1>7, PartsJoin DEF s3
<1>22. Grows(s3, s4) /\ PartAt(s4, Len(s3), p4)
  BY <1>4, <1>8, PartsJoin DEF s4
<1>23. Grows(s4, s5) /\ PartAt(s5, Len(s4), p5)
  BY <1>4, <1>9, PartsJoin DEF s5
<1>24. Grows(s5, s6) /\ PartAt(s6, Len(s5), p6)
  BY <1>5, <1>10, PartsJoin DEF s6
<1>25. Grows(s6, s7) /\ PartAt(s7, Len(s6), p7)
  BY <1>11, <1>14, PartsJoin DEF s7
<1> HIDE DEF s7
<1>26. /\ PartAt(s7, 0, p1) /\ PartAt(s7, h, p2) /\ PartAt(s7, Len(s2), p3)
       /\ PartAt(s7, Len(s3), p4) /\ PartAt(s7, Len(s4), p5) /\ PartAt(s7, Len(s5), p6)
       /\ PartAt(s7, Len(s6), p7)
  <2>1. /\ Len(s2) \in Nat /\ Len(s3) \in Nat /\ Len(s4) \in Nat /\ Len(s5) \in Nat /\ h \in Nat
    BY <1>1, <1>7, <1>8, <1>9, <1>10
  <2> QED
    BY <1>1, <1>3, <1>4, <1>5, <1>14, <1>19, <1>20, <1>21, <1>22, <1>23, <1>24, <1>25, <2>1
<1>27. Arranged(s7, f, raw)
  BY <1>18, <1>26 DEF Arranged, p1, p2, p3, p4, p5, p6, p7, h
<1> QED
  BY <1>2, <1>13, <1>15, <1>16, <1>17, <1>18, <1>27

LEMMA MatroskaInOrder ==
    ASSUME NEW f, FileOf(f), HeaderSound(f), NEW raw, RawSound(raw), Room(f, raw)
    PROVE  /\ InOrder(MatroskaPlan(f, raw)) /\ MatroskaPlan(f, raw).size = Len(f)
           /\ MatroskaPlan(f, raw).size > 0
           /\ MatroskaPlan(f, raw).extents = <<Extent(0, StubData(f, raw))>>
           /\ Accepted(Len(f), <<Extent(0, StubData(f, raw))>>)
<1> DEFINE e == Extent(0, StubData(f, raw))
           p == <<e>>
<1>1. /\ StubData(f, raw) \in Seq(Cells) /\ PayloadIn(f, raw) \in Nat
      /\ Len(StubData(f, raw)) + PayloadIn(f, raw) = Len(f)
  BY StubDataFacts
<1>2. /\ e \in Extents /\ e.offset = 0 /\ EndOf(e) = Len(StubData(f, raw)) /\ EndOf(e) \in Nat
      /\ EndOf(e) <= Len(f)
  BY <1>1 DEF Extent, Extents, EndOf, FileOf
<1>3. Len(f) \in Nat /\ Len(f) > 0
  BY HeaderFacts DEF FileOf
<1> HIDE DEF e
<1>4. p \in Seq(Extents) /\ Len(p) = 1 /\ DOMAIN p = 1..1 /\ p[1] = e
  BY <1>2
<1>5. MatroskaPlan(f, raw) = [size |-> Len(f), extents |-> p]
  BY DEF MatroskaPlan, Plan, e
<1> HIDE DEF p
<1>6. \A k \in 1..Len(p) : k = 1
  BY <1>4
<1>7. InOrder(MatroskaPlan(f, raw))
  <2>1. PICK plan : plan = MatroskaPlan(f, raw)
    OBVIOUS
  <2>2. plan \in Plans /\ plan.size = Len(f) /\ plan.extents = p
    BY <1>3, <1>4, <1>5, <2>1 DEF Plans
  <2>3. \A k \in 1..Len(plan.extents) : EndOf(plan.extents[k]) <= plan.size
    BY <1>2, <1>4, <1>6, <2>2
  <2>4. \A j, k \in 1..Len(plan.extents) : ~(j < k)
    BY <1>6, <2>2
  <2> QED
    BY <2>1, <2>2, <2>3, <2>4 DEF InOrder
<1>8. Accepted(Len(f), p)
  BY <1>2, <1>3, <1>4, <1>6 DEF Accepted
<1> QED
  BY <1>3, <1>5, <1>7, <1>8 DEF p, e

\* What a plan of a Matroska file is.
MatroskaPlanFrom(plan, f, raw) ==
    /\ HeaderSound(f) /\ RawSound(raw) /\ Room(f, raw)
    /\ raw["info"] # <<>> /\ raw["tracks"] # <<>>
    /\ plan = MatroskaPlan(f, raw)

MatroskaPlanOf(plan, f) == \E raw \in Raws : MatroskaPlanFrom(plan, f, raw)

PrefixOutcome(r) ==
    /\ SourceOf(r.src, file) /\ (src.mishap => r.src.mishap)
    /\ \/ /\ MatroskaPlanFrom(MatroskaPlan(file, walk.raw), file, walk.raw)
          /\ Returns(r, Result("plan", MatroskaPlan(file, walk.raw)))
       \/ Returns(r, Failed) /\ (r.src.mishap \/ ~Room(file, walk.raw))

LEMMA ReadPrefixTakes ==
    ASSUME FileOf(file), SourceOf(src, file), walk \in Walks, MatroskaWalk(walk, file), ReadPrefix
    PROVE  \E r : PrefixOutcome(r)
<1> DEFINE h == walk.headerEnd
           raw == walk.raw
<1>1. PICK r \in Reads(src, file, h, 0) :
          LET prefix == Prefix(r.cells)
              payload == VoidPayload(prefix)
              ok == r.err = "none" /\ Body \in MaxElementHeader..(Unknown[2] - 1) /\ payload >= 0
          IN  \/ ok /\ Returns(r, Planned(<<Extent(0, prefix \o LongHeader("void", payload))>>))
              \/ ~ok /\ Returns(r, Failed)
  BY DEF ReadPrefix
<1>2. /\ HeaderSound(file) /\ h = ElementEnd(file, 0)
      /\ raw["info"] # <<>> /\ raw["tracks"] # <<>>
      /\ \A id \in ElementMetadata : raw[id] # <<>> => IsWhole(raw[id], id)
  BY DEF MatroskaWalk, ReadPrefix
<1>3. /\ file \in Seq(Cells) /\ Len(file) \in Nat /\ h \in Nat \ {0} /\ h <= Len(file)
      /\ RawSound(raw)
  BY <1>2, HeaderFacts DEF FileOf, Walks, RawSound, Raws
<1>4. SourceOf(r.src, file) /\ Gives(r, src, file, h, 0)
  BY <1>3, ReadGives
<1>5. src.mishap => r.src.mishap
  BY <1>4 DEF Gives
<1>6. CASE r.err # "none"
  <2>1. Returns(r, Failed)
    BY <1>1, <1>6
  <2>2. r.src.mishap
    BY <1>3, <1>4, <1>6 DEF Gives
  <2> QED
    BY <1>4, <1>5, <2>1, <2>2 DEF PrefixOutcome
<1>7. CASE r.err = "none"
  <2>1. r.cells = Slice(file, 0, h)
    <3>1. Len(r.cells) = h
      BY <1>4, <1>7 DEF Gives
    <3> QED
      BY <1>3, <1>4, <3>1, GivenSlice
  <2>2. Body = BodyIn(file)
    BY <1>2 DEF Body, BodyIn
  <2>3. Prefix(r.cells) = PrefixIn(file, raw)
    BY <1>2, <2>1, <2>2 DEF Prefix, PrefixIn
  <2>4. VoidPayload(Prefix(r.cells)) = PayloadIn(file, raw)
    BY <2>3 DEF VoidPayload, PayloadIn
  <2>5. CASE Room(file, raw)
    <3>1. Returns(r, Planned(<<Extent(0, StubData(file, raw))>>))
      BY <1>1, <1>7, <2>2, <2>3, <2>4, <2>5 DEF Room, StubData
    <3>2. Accepted(Len(file), <<Extent(0, StubData(file, raw))>>)
      BY <1>2, <1>3, <2>5, MatroskaInOrder
    <3>3. Planned(<<Extent(0, StubData(file, raw))>>) = Result("plan", MatroskaPlan(file, raw))
      BY <3>2 DEF Planned, MatroskaPlan
    <3>4. MatroskaPlanFrom(MatroskaPlan(file, raw), file, raw)
      BY <1>2, <1>3, <2>5 DEF MatroskaPlanFrom
    <3> QED
      BY <1>4, <1>5, <3>1, <3>3, <3>4 DEF PrefixOutcome
  <2>6. CASE ~Room(file, raw)
    <3>1. Returns(r, Failed)
      BY <1>1, <2>2, <2>4, <2>6 DEF Room
    <3> QED
      BY <1>4, <1>5, <2>6, <3>1 DEF PrefixOutcome
  <2> QED
    BY <2>5, <2>6
<1> QED
  BY <1>6, <1>7

\* An element is known by its first two cells.
LEMMA ElementAgrees ==
    ASSUME NEW f, NEW at \in Nat, BeginsElement(f, at), NEW s, NEW to \in Nat, Len(s) \in Nat,
           s[to + 1] = f[at + 1], s[to + 2] = f[at + 2], to + ElementHeader(f, at) <= Len(s)
    PROVE  /\ BeginsElement(s, to) /\ ElementId(s, to) = ElementId(f, at)
           /\ ElementHeader(s, to) = ElementHeader(f, at)
           /\ ElementSpan(s, to) = ElementSpan(f, at)
           /\ UnknownSize(s, to) = UnknownSize(f, at)
<1>1. /\ ElementId(s, to) = ElementId(f, at) /\ SizeLength(s[to + 2]) = SizeLength(f[at + 2])
      /\ ElementHeader(s, to) = ElementHeader(f, at)
  BY DEF ElementId, ElementHeader
<1>2. SizeLength(f[at + 2]) \in {1, 2} /\ ElementId(f, at) \in ElementIds
  BY DEF BeginsElement
<1>3. to + 2 <= Len(s)
  BY <1>2 DEF ElementHeader
<1>4. BeginsElement(s, to)
  BY <1>1, <1>2, <1>3 DEF BeginsElement
<1> QED
  BY <1>1, <1>4 DEF ElementSpan, UnknownSize

\* An element that is whole, wherever it is.
LEMMA WholePart ==
    ASSUME NEW s \in Seq(Cells), NEW at, NEW part \in Seq(Cells), PartAt(s, at, part),
           NEW id, IsWhole(part, id)
    PROVE  /\ at \in Nat /\ at + Len(part) <= Len(s) /\ Len(part) > 1
           /\ BeginsElement(s, at) /\ ~UnknownSize(s, at) /\ ElementId(s, at) = id
           /\ ElementSpan(s, at) = Len(part) /\ ElementEnd(s, at) = at + Len(part)
           /\ Slice(s, at, Len(part)) = part
<1>1. /\ at \in Nat /\ at + Len(part) <= Len(s) /\ Len(part) \in Nat /\ Len(s) \in Nat
      /\ \A j \in 1..Len(part) : s[at + j] = part[j]
  BY DEF PartAt
<1>2. /\ BeginsElement(part, 0) /\ ~UnknownSize(part, 0) /\ ElementId(part, 0) = id
      /\ ElementSpan(part, 0) = Len(part)
  BY DEF IsWhole, WholeElement
<1>3. 0 + 2 <= Len(part) /\ 0 + ElementHeader(part, 0) <= Len(part)
      /\ ElementHeader(part, 0) \in {2, 3}
  BY <1>2 DEF BeginsElement, ElementHeader
<1>4. s[at + 1] = part[0 + 1] /\ s[at + 2] = part[0 + 2]
  BY <1>1, <1>3
<1>5. at + ElementHeader(part, 0) <= Len(s)
  BY <1>1, <1>3
<1>6. /\ BeginsElement(s, at) /\ ElementId(s, at) = ElementId(part, 0)
      /\ ElementSpan(s, at) = ElementSpan(part, 0) /\ UnknownSize(s, at) = UnknownSize(part, 0)
  <2>1. PICK from \in Nat : from = 0
    OBVIOUS
  <2>2. /\ BeginsElement(part, from) /\ at + ElementHeader(part, from) <= Len(s)
        /\ s[at + 1] = part[from + 1] /\ s[at + 2] = part[from + 2]
    BY <1>2, <1>4, <1>5, <2>1
  <2>3. /\ BeginsElement(s, at) /\ ElementId(s, at) = ElementId(part, from)
        /\ ElementSpan(s, at) = ElementSpan(part, from)
        /\ UnknownSize(s, at) = UnknownSize(part, from)
    BY <1>1, <2>2, ElementAgrees
  <2> QED
    BY <2>1, <2>3
<1>7. Slice(s, at, Len(part)) = part
  <2>1. PICK n \in Nat : n = Len(part)
    BY <1>1
  <2>2. /\ Slice(s, at, n) \in Seq(Cells) /\ Len(Slice(s, at, n)) = n
        /\ \A i \in 1..n : Slice(s, at, n)[i] = s[at + i]
    BY <1>1, <2>1, SliceOf
  <2>3. \A i \in 1..n : Slice(s, at, n)[i] = part[i]
    BY <1>1, <2>1, <2>2
  <2>4. Slice(s, at, n) = part
    BY <2>1, <2>2, <2>3, SeqEqual
  <2> QED
    BY <2>1, <2>4
<1> QED
  BY <1>1, <1>2, <1>3, <1>6, <1>7 DEF ElementEnd

\* What a stub s is made of.
StubMade(s, plan, raw) ==
    /\ FileOf(s) /\ MatroskaPlanFrom(plan, s, raw) /\ Arranged(s, s, raw)

LEMMA MatroskaStub ==
    ASSUME NEW f, FileOf(f), NEW plan, NEW raw, MatroskaPlanFrom(plan, f, raw),
           NEW s, s = PlanReadAt(plan, plan.size, 0)
    PROVE  StubMade(s, plan, raw) /\ Len(s) = Len(f) /\ Arranged(s, f, raw)
<1> DEFINE data == StubData(f, raw)
           h == ElementEnd(f, 0)
<1>1. HeaderSound(f) /\ RawSound(raw) /\ Room(f, raw) /\ plan = MatroskaPlan(f, raw)
      /\ raw["info"] # <<>> /\ raw["tracks"] # <<>>
  BY DEF MatroskaPlanFrom
<1>2. /\ InOrder(plan) /\ plan.size = Len(f) /\ plan.size > 0
      /\ plan.extents = <<Extent(0, data)>>
  BY <1>1, MatroskaInOrder
<1>3. /\ data \in Seq(Cells) /\ Sized(data) /\ Arranged(data, f, raw)
      /\ PayloadIn(f, raw) \in Nat /\ BodyIn(f) \in Nat /\ Len(data) + PayloadIn(f, raw) = Len(f)
  BY <1>1, StubDataFacts
<1>4. Len(plan.extents) = 1 /\ plan.extents[1].offset = 0 /\ plan.extents[1].data = data
  BY <1>2 DEF Extent
<1> HIDE DEF data
<1>5. /\ s \in Seq(Cells) /\ Len(s) = Len(f)
      /\ \A j \in 1..Len(data) : s[0 + j] = data[j]
      /\ \A i \in 1..Len(s) : s[i] = Zero \/ \E j \in 1..Len(data) : s[i] = data[j]
  <2>1. Shows(s, plan)
    BY <1>2, PlanReads
  <2>2. \A k \in 1..Len(plan.extents) : k = 1
    BY <1>4
  <2>3. 1 \in 1..Len(plan.extents)
    BY <1>4
  <2>4. \A j \in 1..Len(plan.extents[1].data) :
           s[plan.extents[1].offset + j] = plan.extents[1].data[j]
    BY <2>1, <2>3, Zenon DEF Shows
  <2>5. ASSUME NEW i \in 1..Len(s), s[i] # Zero
        PROVE  \E j \in 1..Len(data) : s[i] = data[j]
    <3>1. \E k \in 1..Len(plan.extents) : \E j \in 1..Len(plan.extents[k].data) :
             s[i] = plan.extents[k].data[j]
      BY <2>1, <2>5, Zenon DEF Shows
    <3> QED
      BY <1>4, <2>2, <3>1
  <2>6. s \in Seq(Cells) /\ Len(s) = plan.size
    BY <2>1, Zenon DEF Shows
  <2> QED
    BY <1>2, <1>4, <2>4, <2>5, <2>6
<1>6. Len(data) \in Nat /\ Len(f) \in Nat /\ Len(data) <= Len(s)
      /\ \A j \in 1..Len(data) : s[j] = data[j]
  BY <1>3, <1>5 DEF FileOf
<1>7. ASSUME NEW at, NEW part, PartAt(data, at, part), Len(part) \in Nat
      PROVE  PartAt(s, at, part)
  <2>1. /\ at \in Nat /\ at + Len(part) <= Len(data)
        /\ \A j \in 1..Len(part) : data[at + j] = part[j]
    BY <1>7 DEF PartAt
  <2>2. \A j \in 1..Len(part) : at + j \in 1..Len(data)
    BY <1>6, <1>7, <2>1
  <2>3. \A j \in 1..Len(part) : s[at + j] = part[j]
    BY <1>6, <2>1, <2>2
  <2>4. at + Len(part) <= Len(s) /\ Len(s) \in Nat
    BY <1>5, <1>6, <1>7, <2>1
  <2> QED
    BY <2>1, <2>3, <2>4 DEF PartAt
<1>8. Sized(s)
  <2> SUFFICES ASSUME NEW i \in 1..Len(s), SizeLength(s[i]) \in {1, 2}
               PROVE  s[i].n <= Unknown[SizeLength(s[i])]
    BY <1>5 DEF Sized
  <2>1. s[i] # Zero
    BY ZeroFacts DEF MaxElementHeader
  <2>2. PICK j \in 1..Len(data) : s[i] = data[j]
    BY <1>5, <2>1
  <2> QED
    BY <1>3, <2>2 DEF Sized
<1>9. FileOf(s)
  BY <1>5, <1>8 DEF FileOf
<1>10. Arranged(s, f, raw)
  <2>1. Len(Slice(f, 0, h)) \in Nat
    BY <1>1, HeaderFacts
  <2>2. \A id \in ElementMetadata : Len(raw[id]) \in Nat
    BY <1>1, RawFacts
  <2>3. MaxElementHeader \in Nat
    BY DEF MaxElementHeader
  <2>4. /\ \A id, size : Len(LongHeader(id, size)) \in Nat
        /\ Len(EmptyCluster) \in Nat
    BY <2>3, HeaderLengths
  <2> QED
    BY <1>3, <1>7, <2>1, <2>2, <2>4 DEF Arranged, ElementMetadata
<1>11. /\ ElementEnd(s, 0) = h /\ HeaderSound(s)
       /\ Slice(s, 0, h) = Slice(f, 0, h)
  <2>1. /\ h \in Nat /\ h <= Len(f) /\ 2 <= h
        /\ Slice(f, 0, h) \in Seq(Cells) /\ Len(Slice(f, 0, h)) = h
        /\ \A i \in 1..h : Slice(f, 0, h)[i] = f[i]
    BY <1>1, HeaderFacts
  <2>2. /\ BeginsElement(f, 0) /\ ~UnknownSize(f, 0) /\ ElementId(f, 0) = "ebml" /\ h <= MaxHeader
    BY <1>1 DEF HeaderSound, WholeElement
  <2>3. PartAt(s, 0, Slice(f, 0, h))
    BY <1>10 DEF Arranged
  <2>4. \A i \in 1..h : s[0 + i] = f[i]
    BY <2>1, <2>3 DEF PartAt
  <2>5. s[0 + 1] = f[0 + 1] /\ s[0 + 2] = f[0 + 2]
    BY <2>1, <2>4
  <2>6. 0 + ElementHeader(f, 0) <= Len(s)
    BY <1>5, <2>2 DEF BeginsElement
  <2>7. /\ BeginsElement(s, 0) /\ ElementId(s, 0) = ElementId(f, 0)
        /\ ElementSpan(s, 0) = ElementSpan(f, 0) /\ UnknownSize(s, 0) = UnknownSize(f, 0)
    BY <1>5, <1>6, <2>2, <2>5, <2>6, ElementAgrees
  <2>8. ElementEnd(s, 0) = h
    BY <2>7 DEF ElementEnd
  <2>9. HeaderSound(s)
    BY <1>5, <2>1, <2>2, <2>7, <2>8 DEF HeaderSound, WholeElement
  <2> HIDE DEF h
  <2>10. Slice(s, 0, h) = Slice(f, 0, h)
    <3>1. \A i \in 1..h : s[0 + i] = f[0 + i]
      BY <2>1, <2>4
    <3> QED
      BY <3>1 DEF Slice
  <2> QED
    BY <2>8, <2>9, <2>10
<1>12. /\ BodyIn(s) = BodyIn(f) /\ InfoAt(s) = InfoAt(f)
  BY <1>5, <1>11 DEF BodyIn, InfoAt
<1>13. PrefixIn(s, raw) = PrefixIn(f, raw)
  BY <1>11, <1>12 DEF PrefixIn
<1>14. PayloadIn(s, raw) = PayloadIn(f, raw)
  BY <1>5, <1>13 DEF PayloadIn
<1>15. MatroskaPlanFrom(plan, s, raw)
  <2>1. StubData(s, raw) = StubData(f, raw)
    BY <1>13, <1>14 DEF StubData
  <2>2. MatroskaPlan(s, raw) = MatroskaPlan(f, raw)
    BY <1>5, <2>1 DEF MatroskaPlan
  <2> QED
    BY <1>1, <1>11, <1>12, <1>14, <2>2 DEF MatroskaPlanFrom, Room
<1>16. Arranged(s, s, raw)
  <2>1. /\ TracksAt(s, raw) = TracksAt(f, raw) /\ TagsAt(s, raw) = TagsAt(f, raw)
        /\ ClusterAt(s, raw) = ClusterAt(f, raw) /\ VoidAt(s, raw) = VoidAt(f, raw)
    BY <1>12 DEF TracksAt, TagsAt, ClusterAt, VoidAt
  <2> QED
    BY <1>10, <1>11, <1>12, <1>14, <2>1 DEF Arranged
<1> QED
  BY <1>5, <1>9, <1>10, <1>15, <1>16 DEF StubMade

-----------------------------------------------------------------------------
(* The head of a file, and the steps of a probe.                           *)

Ebml(f) == f # <<>> /\ f[1].id = "ebml"

HeadOutcome(r) ==
    /\ SourceOf(r.src, file) /\ (src.mishap => r.src.mishap)
    /\ \/ Ebml(file) /\ Goes(r, [walk EXCEPT !.at = "ebml"])
       \/ Mp4Head(file) /\ Goes(r, [walk EXCEPT !.at = "box"])
       \/ \E result \in {Failed, NotMedia} :
             /\ Returns(r, result)
             /\ r.src.mishap \/ (~Ebml(file) /\ ~Mp4Head(file))

LEMMA ReadHeadTakes ==
    ASSUME FileOf(file), SourceOf(src, file), ReadHead
    PROVE  \E r : HeadOutcome(r)
<1> DEFINE size == Least(Len(file), HeadSize)
<1>1. PICK r \in Reads(src, file, size, 0) :
         LET head == Padded(r.cells, size)
             read == r.err \in {"none", "EOF"}
         IN  \/ ~read /\ Returns(r, Failed)
             \/ read /\ LooksLikeMatroska(head) /\ Goes(r, [walk EXCEPT !.at = "ebml"])
             \/ /\ read /\ LooksLikeMP4(head) /\ ~LooksLikeMatroska(head)
                /\ Goes(r, [walk EXCEPT !.at = "box"])
             \/ /\ read /\ ~LooksLikeMatroska(head) /\ ~LooksLikeMP4(head)
                /\ Returns(r, NotMedia)
  BY DEF ReadHead
<1> DEFINE head == Padded(r.cells, size)
           read == r.err \in {"none", "EOF"}
<1>2. file \in Seq(Cells) /\ Len(file) \in Nat \ {0} /\ file # <<>>
  BY DEF FileOf, ReadHead
<1>3. /\ size \in Nat \ {0} /\ size <= Len(file) /\ (size > 2 <=> Len(file) > 2)
      /\ size = Least(size, Len(file) - 0)
  BY <1>2 DEF Least, HeadSize
<1> HIDE DEF size
<1>4. SourceOf(r.src, file) /\ Gives(r, src, file, size, 0)
  BY <1>2, <1>3, ReadGives
<1>5. src.mishap => r.src.mishap
  BY <1>4 DEF Gives
<1>6. /\ r.cells \in Seq(Cells) /\ Len(r.cells) \in Nat /\ Len(r.cells) <= size
      /\ \A i \in 1..Len(r.cells) : r.cells[i] = file[i]
      /\ ~r.src.mishap => read /\ Len(r.cells) = size
  <2>1. /\ r.cells \in Seq(Cells) /\ Len(r.cells) \in Nat /\ Len(r.cells) <= size
        /\ \A i \in 1..Len(r.cells) : r.cells[i] = file[0 + i]
    BY <1>4 DEF Gives
  <2>2. ~r.src.mishap => read /\ Len(r.cells) = size
    BY <1>2, <1>3, <1>4 DEF Gives
  <2> QED
    BY <2>1, <2>2
<1>7. /\ Len(head) = size
      /\ \A i \in 1..size : head[i] = IF i <= Len(r.cells) THEN file[i] ELSE Zero
  BY <1>3, <1>6 DEF Padded
<1>8. Zero.id # "ebml" /\ Zero.id # "ftyp"
  BY Zenon DEF Zero, Cell
<1> HIDE DEF head
<1>9. LooksLikeMatroska(head) => Ebml(file)
  BY <1>2, <1>3, <1>7, <1>8 DEF LooksLikeMatroska, Ebml
<1>10. ~LooksLikeMatroska(head) => r.src.mishap \/ ~Ebml(file)
  BY <1>3, <1>6, <1>7 DEF LooksLikeMatroska, Ebml
<1>11. file[1].n \in Nat
  <2>1. file[1] \in Cells
    BY <1>2
  <2> QED
    BY <2>1 DEF Cells
<1>12. LooksLikeMP4(head) /\ ~LooksLikeMatroska(head) => Mp4Head(file)
  <2> SUFFICES ASSUME LooksLikeMP4(head), ~LooksLikeMatroska(head) PROVE Mp4Head(file)
    OBVIOUS
  <2>1. size > 2 /\ head[2].id = "ftyp" /\ (head[1].n = Extended \/ head[1].n >= HeaderSize)
        /\ head[1].id # "ebml"
    BY <1>7 DEF LooksLikeMP4, LooksLikeMatroska, HeaderSize
  <2>2. 2 <= Len(r.cells) /\ head[1] = file[1] /\ head[2] = file[2]
    BY <1>3, <1>6, <1>7, <1>8, <2>1
  <2> QED
    BY <1>2, <1>3, <1>11, <2>1, <2>2 DEF Mp4Head, BoxId, Extended, HeaderSize, ToTheEnd
<1>13. ~LooksLikeMP4(head) => r.src.mishap \/ ~Mp4Head(file)
  <2> SUFFICES ASSUME ~r.src.mishap, Mp4Head(file) PROVE LooksLikeMP4(head)
    OBVIOUS
  <2>1. Len(file) > 2 /\ file[1].n # ToTheEnd /\ file[2].id = "ftyp"
    BY DEF Mp4Head, BoxId, HeaderSize
  <2>2. head[1] = file[1] /\ head[2] = file[2] /\ Len(head) > 2
    BY <1>3, <1>6, <1>7, <2>1
  <2> QED
    BY <1>11, <2>1, <2>2 DEF LooksLikeMP4, Extended, HeaderSize, ToTheEnd
<1>14. CASE ~read
  <2>1. Returns(r, Failed)
    BY <1>1, <1>14
  <2>2. r.src.mishap
    BY <1>6, <1>14
  <2> QED
    BY <1>4, <1>5, <2>1, <2>2 DEF HeadOutcome
<1>15. CASE read
  <2>1. \/ LooksLikeMatroska(head) /\ Goes(r, [walk EXCEPT !.at = "ebml"])
        \/ /\ LooksLikeMP4(head) /\ ~LooksLikeMatroska(head)
           /\ Goes(r, [walk EXCEPT !.at = "box"])
        \/ /\ ~LooksLikeMatroska(head) /\ ~LooksLikeMP4(head)
           /\ Returns(r, NotMedia)
    BY <1>1, <1>15 DEF head
  <2> HIDE DEF read
  <2> QED
    BY <1>4, <1>5, <1>9, <1>10, <1>12, <1>13, <2>1 DEF HeadOutcome
<1> QED
  BY <1>14, <1>15

LEMMA RejectEmptyTakes ==
    ASSUME SourceOf(src, file), RejectEmpty
    PROVE  \E r : HeadOutcome(r)
<1> DEFINE r == Read(<<>>, "none", src)
<1>1. Returns(r, NotMedia) /\ file = <<>>
  BY DEF RejectEmpty
<1>2. r.src = src
  BY DEF Read
<1>3. ~Ebml(file) /\ ~Mp4Head(file)
  <2>1. Len(file) = 0
    BY <1>1
  <2> QED
    BY <1>1, <2>1 DEF Ebml, Mp4Head, HeaderSize
<1> QED
  BY <1>1, <1>2, <1>3 DEF HeadOutcome

BoxSteps == {"box", "box size", "box data"}
ElementSteps == {"ebml", "segment", "element", "metadata", "prefix"}

\* Where a walk over f may be.
WalkOf(w, f) ==
    /\ w \in Walks /\ w.offset \in 0..Len(f)
    /\ w.at = "head" => w = NewWalk
    /\ w.at \in BoxSteps => Mp4Walk(w, f)
    /\ w.at \in ElementSteps => Ebml(f) /\ MatroskaWalk(w, f)

Advances(v, w) ==
    /\ w.at # "done"
    /\ \/ w.offset > v.offset
       \/ w.offset = v.offset /\ Rank(w) > Rank(v)

\* A plan that a probe of f may make.
PlanOf(plan, f) == Mp4PlanOf(plan, f) \/ MatroskaPlanOf(plan, f)

\* A result that a probe of f may have.
ResultOf(result, f) ==
    \/ result \in {Failed, Unsupported, NotMedia}
    \/ \E plan : result = Result("plan", plan) /\ PlanOf(plan, f)

\* A step goes on, further into the file, or the probe returns.
Takes(r) ==
    /\ SourceOf(r.src, file) /\ (src.mishap => r.src.mishap)
    /\ \/ \E w : WalkOf(w, file) /\ Advances(walk, w) /\ Goes(r, w)
       \/ \E result : ResultOf(result, file) /\ Returns(r, result)

LEMMA RankFacts ==
    ASSUME NEW w
    PROVE  /\ w.at = "head" => Rank(w) = 0
           /\ w.at = "box" => Rank(w) = 1
           /\ w.at = "box size" => Rank(w) = 2
           /\ w.at = "box data" => Rank(w) = 3
           /\ w.at = "ebml" => Rank(w) = 1
           /\ w.at = "segment" => Rank(w) = 2
           /\ w.at = "element" => Rank(w) = 3
           /\ w.at = "metadata" => Rank(w) = 4
           /\ w.at = "prefix" => Rank(w) = 5
BY DEF Rank

LEMMA RanksInOrder ==
    ASSUME NEW m, NEW n, \/ m = 0 /\ n = 1
                         \/ m = 1 /\ n \in {2, 3}
                         \/ m = 2 /\ n = 3
                         \/ m = 3 /\ n = 4
                         \/ m \in {2, 3, 4} /\ n = 5
    PROVE  n > m
OBVIOUS

LEMMA MovesOn ==
    ASSUME NEW v, NEW w, w.offset = v.offset,
           \/ v.at = "head" /\ w.at \in {"box", "ebml"}
           \/ v.at = "box" /\ w.at \in {"box size", "box data"}
           \/ v.at = "box size" /\ w.at = "box data"
           \/ v.at = "ebml" /\ w.at = "segment"
           \/ v.at = "element" /\ w.at = "metadata"
           \/ v.at \in {"segment", "element", "metadata"} /\ w.at = "prefix"
    PROVE  Advances(v, w)
<1>1. PICK m : m = Rank(v)
  OBVIOUS
<1>2. PICK n : n = Rank(w)
  OBVIOUS
<1>3. \/ m = 0 /\ n = 1
      \/ m = 1 /\ n \in {2, 3}
      \/ m = 2 /\ n = 3
      \/ m = 3 /\ n = 4
      \/ m \in {2, 3, 4} /\ n = 5
  BY <1>1, <1>2, RankFacts
<1>4. n > m
  BY <1>3, RanksInOrder
<1> QED
  BY <1>1, <1>2, <1>4 DEF Advances

LEMMA NewWalkFits ==
    /\ NewWalk \in Walks /\ NewWalk.at = "head" /\ NewWalk.offset = 0 /\ NewWalk.extents = <<>>
    /\ NewWalk.seen = {} /\ \A id \in ElementMetadata : NewWalk.raw[id] = <<>>
<1>1. NoItem \in Items
  BY DEF NoItem, Items
<1>2. NewWalk.raw \in Raws /\ \A id \in ElementMetadata : NewWalk.raw[id] = <<>>
  BY DEF NewWalk, Raws, ElementMetadata
<1> QED
  BY <1>1, <1>2 DEF NewWalk, Walks, Raws, Steps

LEMMA HeadTakes ==
    ASSUME FileOf(file), WalkOf(walk, file), walk.at = "head", NEW r, HeadOutcome(r)
    PROVE  Takes(r)
<1>1. walk = NewWalk /\ Len(file) \in Nat /\ file \in Seq(Cells)
  BY DEF WalkOf, FileOf
<1>2. CASE Ebml(file) /\ Goes(r, [walk EXCEPT !.at = "ebml"])
  <2> DEFINE w == [walk EXCEPT !.at = "ebml"]
  <2>1. /\ w \in Walks /\ w.at = "ebml" /\ w.offset = 0
        /\ \A id \in ElementMetadata : w.raw[id] = <<>>
    BY <1>1, NewWalkFits DEF Walks, Steps
  <2> HIDE DEF w
  <2>2. WalkOf(w, file)
    BY <1>1, <1>2, <2>1 DEF WalkOf, MatroskaWalk, BoxSteps
  <2>3. Advances(walk, w)
    BY <1>1, <2>1, NewWalkFits, MovesOn
  <2> QED
    BY <1>2, <2>2, <2>3 DEF Takes, HeadOutcome, w
<1>3. CASE Mp4Head(file) /\ Goes(r, [walk EXCEPT !.at = "box"])
  <2> DEFINE w == [walk EXCEPT !.at = "box"]
  <2>1. /\ w \in Walks /\ w.at = "box" /\ w.offset = 0 /\ w.extents = <<>> /\ w.seen = {}
    BY <1>1, NewWalkFits DEF Walks, Steps
  <2> HIDE DEF w
  <2>2. Trail(file, <<>>, 0)
    BY DEF Trail
  <2>3. PassedIds(file, <<>>, 0) = {}
    BY DEF PassedIds, BoxIds
  <2>4. Mp4Walk(w, file)
    <3>1. Len(file) > 0
      BY <1>1, <1>3 DEF Mp4Head, HeaderSize
    <3>2. ~(Enough \subseteq {}) /\ Len(<<>>) = 0
      BY DEF Enough
    <3> QED
      BY <1>3, <2>1, <2>2, <2>3, <3>1, <3>2 DEF Mp4Walk
  <2>5. WalkOf(w, file)
    BY <1>1, <2>1, <2>4 DEF WalkOf, ElementSteps
  <2>6. Advances(walk, w)
    BY <1>1, <2>1, NewWalkFits, MovesOn
  <2> QED
    BY <1>3, <2>5, <2>6 DEF Takes, HeadOutcome, w
<1>4. CASE \E result \in {Failed, NotMedia} : Returns(r, result)
  BY <1>4 DEF Takes, HeadOutcome, ResultOf
<1> QED
  BY <1>2, <1>3, <1>4 DEF HeadOutcome

LEMMA BoxTakes ==
    ASSUME FileOf(file), WalkOf(walk, file), walk.at \in BoxSteps, NEW r, BoxOutcome(r)
    PROVE  Takes(r)
<1>1. /\ walk \in Walks /\ Mp4Walk(walk, file) /\ walk.offset \in Nat /\ walk.offset <= Len(file)
      /\ walk.at \in Steps
  <2>1. walk.offset \in 0..Len(file) /\ Len(file) \in Nat
    BY DEF WalkOf, FileOf
  <2> QED
    BY <2>1 DEF WalkOf, Walks
<1>2. CASE Returns(r, Failed)
  BY <1>2 DEF Takes, BoxOutcome, ResultOf
<1>3. CASE Passes(r)
  <2>1. /\ Passed \in Walks /\ Passed.at = "box"
        /\ Passed.offset > walk.offset /\ Passed.offset <= Len(file)
        /\ \/ Goes(r, Passed) /\ Mp4Walk(Passed, file)
           \/ Returns(r, Unsupported)
           \/ /\ Mp4PlanOf(Plan(Len(file), Passed.extents), file)
              /\ Returns(r, Result("plan", Plan(Len(file), Passed.extents)))
    BY <1>1, <1>3, PassesMakes
  <2>2. CASE Goes(r, Passed) /\ Mp4Walk(Passed, file)
    <3>1. Passed.offset \in 0..Len(file)
      BY <2>1 DEF Walks
    <3>2. WalkOf(Passed, file)
      BY <2>1, <2>2, <3>1, Zenon DEF WalkOf, ElementSteps
    <3>3. Advances(walk, Passed)
      BY <2>1, SMT DEF Advances
    <3> QED
      BY <2>2, <3>2, <3>3 DEF Takes, BoxOutcome
  <2>3. CASE Returns(r, Unsupported)
    BY <2>3 DEF Takes, BoxOutcome, ResultOf
  <2>4. CASE /\ Mp4PlanOf(Plan(Len(file), Passed.extents), file)
             /\ Returns(r, Result("plan", Plan(Len(file), Passed.extents)))
    BY <2>4 DEF Takes, BoxOutcome, ResultOf, PlanOf
  <2> QED
    BY <2>1, <2>2, <2>3, <2>4
<1>4. ASSUME NEW box \in Items, BoxItem(box), walk.at # "box data",
             WholeBox(file, walk.offset), BoxId(file, walk.offset) \in BoxMetadata,
             Goes(r, [walk EXCEPT !.at = "box data", !.item = box])
      PROVE  Takes(r)
  <2> DEFINE w == [walk EXCEPT !.at = "box data", !.item = box]
  <2>1. /\ w \in Walks /\ w.at = "box data" /\ w.item = box /\ w.offset = walk.offset
        /\ w.extents = walk.extents /\ w.seen = walk.seen
    BY <1>1 DEF Walks, Steps
  <2> HIDE DEF w
  <2>2. Mp4Walk(w, file)
    BY <1>1, <1>4, <2>1 DEF Mp4Walk, BoxItem
  <2>3. WalkOf(w, file)
    BY <2>1, <2>2 DEF WalkOf, ElementSteps
  <2>4. Advances(walk, w)
    BY <1>4, <2>1, MovesOn DEF BoxSteps
  <2> QED
    BY <1>4, <2>3, <2>4 DEF Takes, BoxOutcome, w
<1>5. ASSUME walk.at = "box", walk.offset + HeaderSize <= Len(file),
             file[walk.offset + 1].n = Extended,
             Goes(r, [walk EXCEPT !.at = "box size",
                                  !.item.cells = Slice(file, walk.offset, HeaderSize)])
      PROVE  Takes(r)
  <2> DEFINE cells == Slice(file, walk.offset, HeaderSize)
             item == [walk.item EXCEPT !.cells = cells]
             w == [walk EXCEPT !.at = "box size", !.item.cells = cells]
  <2>1. cells \in Seq(Cells)
    BY <1>1, <1>5, SliceOf DEF FileOf, HeaderSize
  <2> HIDE DEF cells
  <2>2. item \in Items /\ item.cells = cells
    BY <1>1, <2>1 DEF Walks, Items
  <2>3. w = [walk EXCEPT !.at = "box size", !.item = item]
    BY <1>1 DEF Walks
  <2> HIDE DEF item
  <2>4. /\ w \in Walks /\ w.at = "box size" /\ w.item = item /\ w.offset = walk.offset
        /\ w.extents = walk.extents /\ w.seen = walk.seen
    BY <1>1, <2>2, <2>3 DEF Walks, Steps
  <2> HIDE DEF w
  <2>5. Mp4Walk(w, file)
    BY <1>1, <1>5, <2>2, <2>4 DEF Mp4Walk, cells
  <2>6. WalkOf(w, file)
    BY <2>4, <2>5 DEF WalkOf, ElementSteps
  <2>7. Advances(walk, w)
    BY <1>5, <2>4, MovesOn
  <2> QED
    BY <1>5, <2>6, <2>7 DEF Takes, BoxOutcome, w, cells
<1> QED
  BY <1>2, <1>3, <1>4, <1>5 DEF BoxOutcome

\* The walk w has the cursor of this one, behind the EBML header.
Behind(w) ==
    /\ w \in Walks /\ w.offset = walk.offset
    /\ walk.at \in {"segment", "element", "metadata"} /\ walk.offset \in 0..Len(file)
    /\ Ebml(file) /\ HeaderSound(file) /\ w.headerEnd = ElementEnd(file, 0)
    /\ \A id \in ElementMetadata : w.raw[id] # <<>> => IsWhole(w.raw[id], id)

LEMMA BehindHeader ==
    ASSUME WalkOf(walk, file), walk.at \in {"segment", "element", "metadata"}
    PROVE  Behind(walk)
<1>1. walk.at \in ElementSteps /\ walk.at # "ebml"
  BY DEF ElementSteps
<1>2. Ebml(file) /\ MatroskaWalk(walk, file)
  BY <1>1 DEF WalkOf
<1> QED
  BY <1>1, <1>2 DEF Behind, MatroskaWalk, WalkOf

LEMMA PrefixedTakes ==
    ASSUME NEW w, Behind(w), NEW r, SourceOf(r.src, file), src.mishap => r.src.mishap,
           Prefixed(r, w)
    PROVE  Takes(r)
<1>1. CASE Returns(r, Unsupported)
  BY <1>1 DEF Takes, ResultOf
<1>2. CASE /\ w.raw["info"] # <<>> /\ w.raw["tracks"] # <<>>
           /\ Goes(r, [w EXCEPT !.at = "prefix"])
  <2> DEFINE v == [w EXCEPT !.at = "prefix"]
  <2>1. /\ v \in Walks /\ v.at = "prefix" /\ v.offset = w.offset /\ v.headerEnd = w.headerEnd
        /\ v.raw = w.raw
    BY DEF Behind, Walks, Steps
  <2> HIDE DEF v
  <2>2. MatroskaWalk(v, file)
    BY <1>2, <2>1 DEF MatroskaWalk, Behind
  <2>3. WalkOf(v, file)
    BY <2>1, <2>2 DEF WalkOf, Behind, BoxSteps
  <2>4. Advances(walk, v)
    BY <2>1, MovesOn DEF Behind
  <2> QED
    BY <1>2, <2>3, <2>4 DEF Takes, v
<1> QED
  BY <1>1, <1>2 DEF Prefixed

LEMMA OnwardTakes ==
    ASSUME FileOf(file), NEW w, Behind(w), HasSegment(file), w.segmentEnd = SegmentEnd(file),
           NEW offset \in Nat, offset > walk.offset,
           NEW r, SourceOf(r.src, file), src.mishap => r.src.mishap, Onward(r, w, offset)
    PROVE  Takes(r)
<1>1. CASE offset < w.segmentEnd /\ Goes(r, [w EXCEPT !.at = "element", !.offset = offset])
  <2> DEFINE v == [w EXCEPT !.at = "element", !.offset = offset]
  <2>1. /\ v \in Walks /\ v.at = "element" /\ v.offset = offset /\ v.headerEnd = w.headerEnd
        /\ v.raw = w.raw /\ v.segmentEnd = w.segmentEnd
    BY DEF Behind, Walks, Steps
  <2> HIDE DEF v
  <2>2. /\ SegmentEnd(file) \in Nat /\ SegmentEnd(file) <= Len(file) /\ Len(file) \in Nat
        /\ walk.offset \in Nat
    BY SegmentFacts DEF FileOf, Behind
  <2>3. MatroskaWalk(v, file)
    BY <1>1, <2>1, <2>2 DEF MatroskaWalk, Behind
  <2>4. WalkOf(v, file)
    <3>1. v.offset \in 0..Len(file)
      BY <1>1, <2>1, <2>2
    <3> QED
      BY <2>1, <2>3, <3>1 DEF WalkOf, Behind, BoxSteps
  <2>5. Advances(walk, v)
    BY <2>1 DEF Advances
  <2> QED
    BY <1>1, <2>4, <2>5 DEF Takes, v
<1>2. CASE Prefixed(r, w)
  BY <1>2, PrefixedTakes
<1> QED
  BY <1>1, <1>2 DEF Onward

LEMMA EBMLTakes ==
    ASSUME FileOf(file), WalkOf(walk, file), walk.at = "ebml", NEW r, HeaderOutcome(r)
    PROVE  Takes(r)
<1>1. Ebml(file) /\ MatroskaWalk(walk, file) /\ walk \in Walks
  BY DEF WalkOf, ElementSteps
<1>2. CASE Returns(r, Failed)
  BY <1>2 DEF Takes, HeaderOutcome, ResultOf
<1>3. CASE /\ HeaderSound(file)
           /\ Goes(r, [walk EXCEPT !.at = "segment", !.headerEnd = ElementEnd(file, 0)])
  <2> DEFINE w == [walk EXCEPT !.at = "segment", !.headerEnd = ElementEnd(file, 0)]
  <2>1. ElementEnd(file, 0) \in Nat
    BY <1>3, HeaderFacts
  <2>2. /\ w \in Walks /\ w.at = "segment" /\ w.offset = walk.offset
        /\ w.headerEnd = ElementEnd(file, 0) /\ w.raw = walk.raw
    BY <1>1, <2>1 DEF Walks, Steps
  <2> HIDE DEF w
  <2>3. MatroskaWalk(w, file)
    BY <1>1, <1>3, <2>2 DEF MatroskaWalk
  <2>4. WalkOf(w, file)
    BY <1>1, <2>2, <2>3 DEF WalkOf, BoxSteps
  <2>5. Advances(walk, w)
    BY <2>2, MovesOn
  <2> QED
    BY <1>3, <2>4, <2>5 DEF Takes, HeaderOutcome, w
<1> QED
  BY <1>2, <1>3 DEF HeaderOutcome

LEMMA SegmentTakes ==
    ASSUME FileOf(file), WalkOf(walk, file), walk.at = "segment", NEW r, SegmentOutcome(r)
    PROVE  Takes(r)
<1>1. Ebml(file) /\ MatroskaWalk(walk, file) /\ walk \in Walks /\ Behind(walk)
  BY BehindHeader DEF WalkOf, ElementSteps
<1>2. CASE Returns(r, Failed)
  BY <1>2 DEF Takes, SegmentOutcome, ResultOf
<1>3. CASE /\ HasSegment(file)
           /\ Onward(r, [walk EXCEPT !.segmentEnd = SegmentEnd(file)], SegmentBody(file))
  <2> DEFINE w == [walk EXCEPT !.segmentEnd = SegmentEnd(file)]
  <2>1. /\ SegmentEnd(file) \in Nat /\ SegmentBody(file) \in Nat /\ SegmentBody(file) > 0
    BY <1>3, SegmentFacts
  <2>2. walk.offset = 0
    BY <1>1 DEF MatroskaWalk
  <2>3. /\ w \in Walks /\ w.segmentEnd = SegmentEnd(file) /\ w.offset = walk.offset
        /\ w.headerEnd = walk.headerEnd /\ w.raw = walk.raw
    BY <1>1, <2>1 DEF Walks
  <2>4. Onward(r, w, SegmentBody(file))
    BY <1>3
  <2> HIDE DEF w
  <2>5. Behind(w)
    BY <1>1, <2>3 DEF Behind
  <2>6. PICK offset \in Nat : offset = SegmentBody(file)
    BY <2>1
  <2> QED
    BY <1>3, <2>1, <2>2, <2>3, <2>4, <2>5, <2>6, OnwardTakes DEF SegmentOutcome
<1> QED
  BY <1>2, <1>3 DEF SegmentOutcome

LEMMA ElementTakes ==
    ASSUME FileOf(file), WalkOf(walk, file), walk.at = "element", NEW r, ElementOutcome(r)
    PROVE  Takes(r)
<1>1. /\ Ebml(file) /\ MatroskaWalk(walk, file) /\ walk \in Walks /\ Behind(walk)
      /\ walk.offset \in Nat
  BY BehindHeader DEF WalkOf, ElementSteps
<1>2. CASE Returns(r, Failed)
  BY <1>2 DEF Takes, ElementOutcome, ResultOf
<1>3. CASE Prefixed(r, walk)
  BY <1>1, <1>3, PrefixedTakes DEF ElementOutcome
<1>4. ASSUME WholeElement(file, walk.offset, walk.segmentEnd),
             ElementId(file, walk.offset) \in ElementMetadata,
             ElementSpan(file, walk.offset) <= MaxMetadata,
             NEW e \in Items, ElementItem(e, file, walk.offset),
             Goes(r, [walk EXCEPT !.at = "metadata", !.item = e])
      PROVE  Takes(r)
  <2> DEFINE w == [walk EXCEPT !.at = "metadata", !.item = e]
  <2>1. /\ w \in Walks /\ w.at = "metadata" /\ w.offset = walk.offset /\ w.item = e
        /\ w.headerEnd = walk.headerEnd /\ w.raw = walk.raw /\ w.segmentEnd = walk.segmentEnd
    BY <1>1 DEF Walks, Steps
  <2> HIDE DEF w
  <2>2. MatroskaWalk(w, file)
    BY <1>1, <1>4, <2>1 DEF MatroskaWalk, ElementItem
  <2>3. WalkOf(w, file)
    BY <1>1, <2>1, <2>2 DEF WalkOf, BoxSteps
  <2>4. Advances(walk, w)
    BY <2>1, MovesOn
  <2> QED
    BY <1>4, <2>3, <2>4 DEF Takes, ElementOutcome, w
<1>5. CASE /\ WholeElement(file, walk.offset, walk.segmentEnd)
           /\ Onward(r, walk, ElementEnd(file, walk.offset))
  <2>1. ElementEnd(file, walk.offset) \in Nat /\ ElementEnd(file, walk.offset) > walk.offset
    BY <1>1, <1>5, ElementFacts DEF WholeElement
  <2>2. HasSegment(file) /\ walk.segmentEnd = SegmentEnd(file)
    BY <1>1 DEF MatroskaWalk
  <2>3. PICK offset \in Nat : offset = ElementEnd(file, walk.offset)
    BY <2>1
  <2> QED
    BY <1>1, <1>5, <2>1, <2>2, <2>3, OnwardTakes DEF ElementOutcome
<1> QED
  BY <1>2, <1>3, <1>4, <1>5 DEF ElementOutcome

\* What is kept of an element is that element.
LEMMA KeptWhole ==
    ASSUME NEW f, FileOf(f), NEW at \in Nat, BeginsElement(f, at), ~UnknownSize(f, at),
           ElementEnd(f, at) <= Len(f), ElementSpan(f, at) <= MaxMetadata,
           NEW part, part = Slice(f, at, ElementSpan(f, at))
    PROVE  /\ part \in Seq(Cells) /\ Len(part) = ElementSpan(f, at) /\ part # <<>>
           /\ IsWhole(part, ElementId(f, at))
           /\ \A j \in 1..Len(part) : part[j] = f[at + j]
<1>1. /\ ElementSpan(f, at) \in Nat /\ ElementHeader(f, at) \in {2, 3}
      /\ ElementHeader(f, at) <= ElementSpan(f, at) /\ ElementEnd(f, at) = at + ElementSpan(f, at)
  BY ElementFacts
<1>2. PICK n \in Nat : n = ElementSpan(f, at)
  BY <1>1
<1>3. f \in Seq(Cells) /\ Len(f) \in Nat /\ at + n <= Len(f) /\ n >= 2
  BY <1>1, <1>2 DEF FileOf
<1>4. /\ part \in Seq(Cells) /\ Len(part) = n
      /\ \A j \in 1..n : part[j] = f[at + j]
  BY <1>2, <1>3, SliceOf
<1>5. \A j \in 1..n : at + j \in 1..Len(f)
  BY <1>3
<1>6. Sized(part)
  BY <1>3, <1>4, <1>5 DEF FileOf, Sized
<1>7. /\ BeginsElement(part, 0) /\ ElementId(part, 0) = ElementId(f, at)
      /\ ElementSpan(part, 0) = ElementSpan(f, at) /\ UnknownSize(part, 0) = UnknownSize(f, at)
  <2>1. PICK to \in Nat : to = 0
    OBVIOUS
  <2>2. part[to + 1] = f[at + 1] /\ part[to + 2] = f[at + 2]
    BY <1>3, <1>4, <2>1
  <2>3. to + ElementHeader(f, at) <= Len(part) /\ Len(part) \in Nat
    BY <1>1, <1>2, <1>4, <2>1
  <2>4. /\ BeginsElement(part, to) /\ ElementId(part, to) = ElementId(f, at)
        /\ ElementSpan(part, to) = ElementSpan(f, at) /\ UnknownSize(part, to) = UnknownSize(f, at)
    BY <2>2, <2>3, ElementAgrees
  <2> QED
    BY <2>1, <2>4
<1>8. WholeElement(part, 0, Len(part))
  BY <1>2, <1>3, <1>4, <1>7 DEF WholeElement, ElementEnd
<1>9. IsWhole(part, ElementId(f, at))
  BY <1>2, <1>4, <1>6, <1>7, <1>8 DEF IsWhole
<1>10. part # <<>>
  BY <1>3, <1>4
<1> QED
  BY <1>2, <1>4, <1>9, <1>10

\* The element at the cursor, as it is kept.
CollectedFacts ==
    LET id == ElementId(file, walk.offset)
        part == Slice(file, walk.offset, ElementSpan(file, walk.offset))
    IN  /\ Collected \in Walks /\ Collected.offset = walk.offset
        /\ Collected.headerEnd = walk.headerEnd /\ Collected.segmentEnd = walk.segmentEnd
        /\ id \in ElementMetadata /\ IsWhole(part, id) /\ part # <<>>
        /\ Collected.raw[id] = part
        /\ \A other \in ElementMetadata \ {id} : Collected.raw[other] = walk.raw[other]

LEMMA Collecting ==
    ASSUME FileOf(file), WalkOf(walk, file), walk.at = "metadata"
    PROVE  /\ CollectedFacts /\ Behind(Collected) /\ HasSegment(file)
           /\ Collected.segmentEnd = SegmentEnd(file)
           /\ ElementEnd(file, walk.offset) \in Nat
           /\ ElementEnd(file, walk.offset) > walk.offset
<1> DEFINE at == walk.offset
           id == ElementId(file, at)
           span == ElementSpan(file, at)
           part == Slice(file, at, span)
<1>1. /\ Ebml(file) /\ MatroskaWalk(walk, file) /\ walk \in Walks /\ Behind(walk)
      /\ at \in Nat
  BY BehindHeader DEF WalkOf, ElementSteps
<1>2. /\ HasSegment(file) /\ walk.segmentEnd = SegmentEnd(file)
      /\ WholeElement(file, at, walk.segmentEnd) /\ id \in ElementMetadata
      /\ span <= MaxMetadata
  BY <1>1 DEF MatroskaWalk, ElementItem
<1>3. /\ BeginsElement(file, at) /\ ~UnknownSize(file, at)
      /\ ElementEnd(file, at) <= walk.segmentEnd
  BY <1>2 DEF WholeElement
<1>4. /\ ElementEnd(file, at) \in Nat /\ ElementEnd(file, at) > at
  BY <1>1, <1>3, ElementFacts
<1>5. ElementEnd(file, at) <= Len(file)
  <2>1. SegmentEnd(file) \in Nat /\ SegmentEnd(file) <= Len(file) /\ Len(file) \in Nat
    BY <1>2, SegmentFacts DEF FileOf
  <2> QED
    BY <1>2, <1>3, <1>4, <2>1
<1>6. part \in Seq(Cells) /\ part # <<>> /\ IsWhole(part, id)
  BY <1>1, <1>2, <1>3, <1>5, KeptWhole
<1> HIDE DEF part, id
<1>7. Collected = [walk EXCEPT !.raw[id] = part]
  BY DEF Collected, part, id
<1>8. walk.raw \in Raws
  BY <1>1 DEF Walks, Raws
<1> DEFINE raw == [walk.raw EXCEPT ![id] = part]
<1>9. /\ raw \in Raws /\ raw[id] = part
      /\ \A other \in ElementMetadata \ {id} : raw[other] = walk.raw[other]
  BY <1>2, <1>6, <1>8 DEF Raws
<1>10. Collected = [walk EXCEPT !.raw = raw]
  BY <1>1, <1>7 DEF Walks
<1> HIDE DEF raw
<1>11. /\ Collected \in Walks /\ Collected.offset = at
       /\ Collected.headerEnd = walk.headerEnd /\ Collected.segmentEnd = walk.segmentEnd
       /\ Collected.raw = raw
  BY <1>1, <1>9, <1>10 DEF Walks, Raws
<1>12. CollectedFacts
  BY <1>2, <1>6, <1>9, <1>11 DEF CollectedFacts, part, id
<1>13. Behind(Collected)
  <2>1. ASSUME NEW other \in ElementMetadata, Collected.raw[other] # <<>>
        PROVE  IsWhole(Collected.raw[other], other)
    <3>1. CASE other = id
      BY <1>6, <1>9, <1>11, <3>1
    <3>2. CASE other # id
      BY <1>1, <1>9, <1>11, <2>1, <3>2 DEF Behind
    <3> QED
      BY <3>1, <3>2
  <2> QED
    BY <1>1, <1>11, <2>1 DEF Behind
<1> QED
  BY <1>2, <1>4, <1>11, <1>12, <1>13

LEMMA MetadataTakes ==
    ASSUME FileOf(file), WalkOf(walk, file), walk.at = "metadata", NEW r, MetadataOutcome(r)
    PROVE  Takes(r)
<1>1. /\ Behind(Collected) /\ HasSegment(file)
      /\ Collected.segmentEnd = SegmentEnd(file)
      /\ ElementEnd(file, walk.offset) \in Nat
      /\ ElementEnd(file, walk.offset) > walk.offset
  BY Collecting
<1>2. CASE Returns(r, Failed)
  BY <1>2 DEF Takes, MetadataOutcome, ResultOf
<1>3. CASE Prefixed(r, Collected)
  BY <1>1, <1>3, PrefixedTakes DEF MetadataOutcome
<1>4. CASE Onward(r, Collected, ElementEnd(file, walk.offset))
  <2>1. PICK w : w = Collected
    OBVIOUS
  <2>2. PICK offset \in Nat : offset = ElementEnd(file, walk.offset)
    BY <1>1
  <2> QED
    BY <1>1, <1>4, <2>1, <2>2, OnwardTakes DEF MetadataOutcome
<1> QED
  BY <1>2, <1>3, <1>4 DEF MetadataOutcome

LEMMA PrefixTakes ==
    ASSUME FileOf(file), WalkOf(walk, file), walk.at = "prefix", NEW r, PrefixOutcome(r)
    PROVE  Takes(r)
<1>1. CASE Returns(r, Failed)
  BY <1>1 DEF Takes, PrefixOutcome, ResultOf
<1>2. CASE /\ MatroskaPlanFrom(MatroskaPlan(file, walk.raw), file, walk.raw)
           /\ Returns(r, Result("plan", MatroskaPlan(file, walk.raw)))
  <2>1. walk.raw \in Raws
    BY DEF WalkOf, Walks, Raws
  <2>2. MatroskaPlanOf(MatroskaPlan(file, walk.raw), file)
    BY <1>2, <2>1 DEF MatroskaPlanOf
  <2> QED
    BY <1>2, <2>2 DEF Takes, PrefixOutcome, ResultOf, PlanOf
<1> QED
  BY <1>1, <1>2 DEF PrefixOutcome

-----------------------------------------------------------------------------
(* The inductive invariant of a probe, and what follows from it.           *)

\* A stub is a file of which its plan is a plan again.
LEMMA PlanStub ==
    ASSUME NEW f, FileOf(f), NEW plan, PlanOf(plan, f), NEW s, s = PlanReadAt(plan, plan.size, 0)
    PROVE  FileOf(s) /\ PlanOf(plan, s)
<1>1. CASE Mp4PlanOf(plan, f)
  BY <1>1, Mp4Stub DEF PlanOf
<1>2. CASE MatroskaPlanOf(plan, f)
  <2>1. PICK raw \in Raws : MatroskaPlanFrom(plan, f, raw)
    BY <1>2 DEF MatroskaPlanOf
  <2>2. StubMade(s, plan, raw)
    BY <2>1, MatroskaStub
  <2> QED
    BY <2>2 DEF StubMade, PlanOf, MatroskaPlanOf
<1> QED
  BY <1>1, <1>2 DEF PlanOf

\* What StubFillsFile says of one plan.
Fills(plan) ==
    LET data == plan.extents[1].data
        Ends(at) == at + 2 + data[at + 1].n = plan.size
    IN  data[1].id = "ebml" =>
            /\ data[Len(data) - 2].id = "void" /\ Ends(Len(data) - 2)
            /\ \E at \in DOMAIN data : data[at].id = "segment" /\ Ends(at)

LEMMA PlanFills ==
    ASSUME NEW f, FileOf(f), NEW plan, PlanOf(plan, f)
    PROVE  Fills(plan)
<1>1. CASE Mp4PlanOf(plan, f)
  <2> DEFINE p == plan.extents
  <2>1. PICK end \in Nat : Trail(f, p, end)
    BY <1>1 DEF Mp4PlanOf
  <2>2. f \in Seq(Cells)
    BY DEF FileOf
  <2>3. p \in Seq(Extents) /\ Len(p) \in Nat /\ \A k \in 1..Len(p) : KeepsBox(f, p[k])
    BY <2>1, <2>2, TrailFacts
  <2>4. 1 \in 1..Len(p) /\ p # <<>>
    <3>1. PassedIds(f, p, Len(p)) # {}
      BY <1>1 DEF Mp4PlanOf
    <3>2. 1..Len(p) # {}
      BY <3>1 DEF PassedIds, BoxIds
    <3> QED
      BY <2>3, <3>2
  <2>5. p[1].offset = 0
    BY <2>1, <2>4 DEF Trail
  <2>6. WholeBox(f, 0) /\ \A j \in 1..KeptSize(f, 0) : p[1].data[j] = f[0 + j]
    BY <2>3, <2>4, <2>5 DEF KeepsBox
  <2>7. 1 \in 1..KeptSize(f, 0)
    <3>1. KeptSize(f, 0) \in Nat /\ KeptSize(f, 0) >= HeaderSize
      BY <2>2, <2>6, KeptFacts
    <3> QED
      BY <3>1 DEF HeaderSize
  <2>8. p[1].data[1] = f[1]
    BY <2>6, <2>7
  <2>9. f[1].id # "ebml"
    BY <1>1 DEF Mp4PlanOf, Mp4Head
  <2> QED
    BY <2>8, <2>9 DEF Fills
<1>2. CASE MatroskaPlanOf(plan, f)
  <2>1. PICK raw \in Raws : MatroskaPlanFrom(plan, f, raw)
    BY <1>2 DEF MatroskaPlanOf
  <2>2. HeaderSound(f) /\ RawSound(raw) /\ Room(f, raw) /\ plan = MatroskaPlan(f, raw)
    BY <2>1 DEF MatroskaPlanFrom
  <2> DEFINE data == StubData(f, raw)
             h == ElementEnd(f, 0)
             void == VoidAt(f, raw)
  <2>3. /\ plan.size = Len(f) /\ plan.extents = <<Extent(0, data)>>
    BY <2>2, MatroskaInOrder
  <2>4. plan.extents[1].data = data
    BY <2>3 DEF Extent
  <2>5. /\ data \in Seq(Cells) /\ PayloadIn(f, raw) \in Nat /\ BodyIn(f) \in Nat
        /\ Len(data) = void + MaxElementHeader /\ Len(data) + PayloadIn(f, raw) = Len(f)
        /\ Arranged(data, f, raw)
    BY <2>2, StubDataFacts
  <2>6. h \in Nat /\ Len(f) \in Nat
    BY <2>2, HeaderFacts DEF FileOf
  <2> HIDE DEF data
  <2>7. ASSUME NEW at, NEW id, NEW size, PartAt(data, at, LongHeader(id, size))
        PROVE  /\ at \in Nat /\ at + 3 <= Len(data) /\ data[at + 1].id = id
               /\ data[at + 2].n = size
    <3>1. Len(LongHeader(id, size)) = 3
      BY DEF LongHeader
    <3>2. /\ at \in Nat /\ at + 3 <= Len(data)
          /\ \A j \in 1..3 : data[at + j] = LongHeader(id, size)[j]
      BY <2>7, <3>1 DEF PartAt
    <3>3. data[at + 1] = Cell(id, 0) /\ data[at + 2] = Cell("long", size)
      BY <3>2 DEF LongHeader
    <3> QED
      BY <3>2, <3>3 DEF Cell
  <2>8. /\ void \in Nat /\ data[void + 1].id = "void" /\ data[void + 2].n = PayloadIn(f, raw)
    BY <2>5, <2>7 DEF Arranged
  <2>9. /\ h + 3 <= Len(data) /\ data[h + 1].id = "segment" /\ data[h + 2].n = BodyIn(f)
    BY <2>5, <2>7 DEF Arranged
  <2>10. BodyIn(f) = Len(f) - h - 3
    BY DEF BodyIn, MaxElementHeader
  <2> HIDE DEF void, h
  <2>11. /\ Len(data) - 2 = void + 1 /\ void + 1 + 1 = void + 2
         /\ void + 1 + 2 + PayloadIn(f, raw) = Len(f)
    BY <2>5, <2>6, <2>8 DEF MaxElementHeader
  <2>12. /\ data[Len(data) - 2].id = "void"
         /\ Len(data) - 2 + 2 + data[Len(data) - 2 + 1].n = plan.size
    BY <2>3, <2>8, <2>11
  <2>13. /\ h + 1 \in DOMAIN data /\ data[h + 1].id = "segment"
         /\ h + 1 + 2 + data[h + 1 + 1].n = plan.size
    <3>1. h + 1 + 1 = h + 2 /\ h + 1 + 2 + BodyIn(f) = Len(f)
      BY <2>6, <2>10
    <3>2. h + 1 \in 1..Len(data) /\ DOMAIN data = 1..Len(data)
      BY <2>5, <2>6, <2>9
    <3> QED
      BY <2>3, <2>9, <3>1, <3>2
  <2> QED
    BY <2>4, <2>12, <2>13 DEF Fills
<1> QED
  BY <1>1, <1>2 DEF PlanOf

\* What is known of the results so far.
ResultsOf ==
    \/ results = <<>> /\ file = object.cells /\ walk.at # "done"
    \/ \E first :
          /\ results = <<first>> /\ ResultOf(first, object.cells)
          /\ \/ first.kind # "plan" /\ walk.at = "done"
             \/ /\ first.kind = "plan" /\ walk.at # "done"
                /\ PlanOf(first.plan, file) /\ file = Stub(first)
    \/ \E first, second :
          /\ results = <<first, second>> /\ ResultOf(first, object.cells)
          /\ first.kind = "plan" /\ walk.at = "done"
          /\ ResultOf(second, file)

\* The walk and the source fit the file, and the file is the object's or its stub's.
ProbeInv ==
    /\ object \in Objects /\ FileOf(object.cells) /\ FileOf(file)
    /\ SourceOf(src, file) /\ WalkOf(walk, file)
    /\ ResultsOf

LEMMA ResultFacts ==
    ASSUME NEW f, FileOf(f), NEW result, ResultOf(result, f)
    PROVE  /\ result.kind \in Outcomes
           /\ result.kind = "plan" => /\ result = Result("plan", result.plan)
                                      /\ PlanOf(result.plan, f) /\ Fills(result.plan)
<1>1. CASE result \in {Failed, Unsupported, NotMedia}
  <2>1. result.kind \in {"failed", "unsupported", "not media"}
    <3>1. \A kind : Result(kind, NoPlan).kind = kind
      BY DEF Result
    <3> QED
      BY <1>1, <3>1, Zenon DEF Failed, Unsupported, NotMedia
  <2> QED
    BY <2>1 DEF Outcomes
<1>2. CASE \E plan : result = Result("plan", plan) /\ PlanOf(plan, f)
  <2>1. PICK plan : result = Result("plan", plan) /\ PlanOf(plan, f)
    BY <1>2
  <2>2. result.kind = "plan" /\ result.plan = plan
    BY <2>1 DEF Result
  <2>3. Fills(plan)
    BY <2>1, PlanFills
  <2> QED
    BY <2>1, <2>2, <2>3 DEF Outcomes
<1> QED
  BY <1>1, <1>2 DEF ResultOf

LEMMA NextTakes ==
    ASSUME ProbeInv, Next
    PROVE  walk.at # "done" /\ \E r : Takes(r)
<1>1. FileOf(file) /\ SourceOf(src, file) /\ WalkOf(walk, file) /\ walk \in Walks
  BY DEF ProbeInv, WalkOf
<1>2. walk.at \in BoxSteps => Mp4Walk(walk, file)
  BY <1>1 DEF WalkOf
<1>3. walk.at \in ElementSteps => MatroskaWalk(walk, file)
  BY <1>1 DEF WalkOf
<1>4. CASE ReadHead
  <2>1. walk.at = "head"
    BY <1>4 DEF ReadHead
  <2> QED
    BY <1>1, <1>4, <2>1, ReadHeadTakes, HeadTakes
<1>5. CASE RejectEmpty
  <2>1. walk.at = "head"
    BY <1>5 DEF RejectEmpty
  <2> QED
    BY <1>1, <1>5, <2>1, RejectEmptyTakes, HeadTakes
<1>6. CASE ReadBox
  <2>1. walk.at = "box" /\ walk.at \in BoxSteps
    BY <1>6 DEF ReadBox, BoxSteps
  <2> QED
    BY <1>1, <1>2, <1>6, <2>1, ReadBoxTakes, BoxTakes
<1>7. CASE ReadExtendedSize
  <2>1. walk.at = "box size" /\ walk.at \in BoxSteps
    BY <1>7 DEF ReadExtendedSize, BoxSteps
  <2> QED
    BY <1>1, <1>2, <1>7, <2>1, ReadExtendedSizeTakes, BoxTakes
<1>8. CASE ReadBoxData
  <2>1. walk.at = "box data" /\ walk.at \in BoxSteps
    BY <1>8 DEF ReadBoxData, BoxSteps
  <2> QED
    BY <1>1, <1>2, <1>8, <2>1, ReadBoxDataTakes, BoxTakes
<1>9. CASE ReadEBML
  <2>1. walk.at = "ebml"
    BY <1>9 DEF ReadEBML
  <2> QED
    BY <1>1, <1>9, <2>1, ReadEBMLTakes, EBMLTakes
<1>10. CASE ReadSegment
  <2>1. walk.at = "segment" /\ walk.at \in ElementSteps
    BY <1>10 DEF ReadSegment, ElementSteps
  <2> QED
    BY <1>1, <1>3, <1>10, <2>1, ReadSegmentTakes, SegmentTakes
<1>11. CASE ReadElement
  <2>1. walk.at = "element" /\ walk.at \in ElementSteps
    BY <1>11 DEF ReadElement, ElementSteps
  <2> QED
    BY <1>1, <1>3, <1>11, <2>1, ReadElementTakes, ElementTakes
<1>12. CASE ReadMetadata
  <2>1. walk.at = "metadata" /\ walk.at \in ElementSteps
    BY <1>12 DEF ReadMetadata, ElementSteps
  <2> QED
    BY <1>1, <1>3, <1>12, <2>1, ReadMetadataTakes, MetadataTakes
<1>13. CASE ReadPrefix
  <2>1. walk.at = "prefix" /\ walk.at \in ElementSteps
    BY <1>13 DEF ReadPrefix, ElementSteps
  <2> QED
    BY <1>1, <1>3, <1>13, <2>1, ReadPrefixTakes, PrefixTakes
<1> QED
  BY <1>4, <1>5, <1>6, <1>7, <1>8, <1>9, <1>10, <1>11, <1>12, <1>13 DEF Next

LEMMA InitFits == ProbeInit => ProbeInv
<1> SUFFICES ASSUME ProbeInit PROVE ProbeInv
  OBVIOUS
<1>1. /\ object \in Objects /\ file = object.cells /\ src = NewBudgetedSource
      /\ walk = NewWalk /\ results = <<>>
  BY DEF ProbeInit
<1>2. FileOf(object.cells)
  BY <1>1, ObjectsAssumption, UnknownAssumption DEF FileOf
<1>3. SourceOf(src, file)
  BY <1>1, <1>2, NewSourceFits DEF FileOf
<1>4. WalkOf(walk, file)
  <2>1. 0 \in 0..Len(file)
    BY <1>1, <1>2 DEF FileOf
  <2> QED
    BY <1>1, <2>1, NewWalkFits DEF WalkOf, BoxSteps, ElementSteps
<1>5. walk.at # "done"
  BY <1>1, NewWalkFits
<1> QED
  BY <1>1, <1>2, <1>3, <1>4, <1>5 DEF ProbeInv, ResultsOf

\* The probe has returned `result'.
Returned(result) ==
    /\ object' = object
    /\ \/ /\ results = <<>> /\ result.kind = "plan" /\ results' = <<result>>
          /\ file' = Stub(result) /\ src' = NewBudgetedSource /\ walk' = NewWalk
       \/ /\ results = <<>> /\ result.kind # "plan" /\ results' = <<result>>
          /\ file' = file /\ walk' = [walk EXCEPT !.at = "done"]
       \/ \E first : /\ results = <<first>> /\ results' = <<first, result>>
                     /\ file' = file /\ walk' = [walk EXCEPT !.at = "done"]

LEMMA AppendSecond == ASSUME NEW a, NEW b PROVE Append(<<a>>, b) = <<a, b>>
<1> DEFINE S == {a, b}
<1>1. <<a>> \in Seq(S) /\ Len(<<a>>) = 1 /\ b \in S
  OBVIOUS
<1>2. <<a, b>> \in Seq(S) /\ Len(<<a, b>>) = 2
  OBVIOUS
<1>3. /\ Append(<<a>>, b) \in Seq(S) /\ Len(Append(<<a>>, b)) = 2
      /\ Append(<<a>>, b)[1] = a /\ Append(<<a>>, b)[2] = b
  BY <1>1, AppendProperties
<1>4. \A i \in 1..2 : Append(<<a>>, b)[i] = <<a, b>>[i]
  <2>1. \A i \in 1..2 : i = 1 \/ i = 2
    OBVIOUS
  <2> QED
    BY <1>3, <2>1
<1> QED
  BY <1>2, <1>3, <1>4, SeqEqual

LEMMA ReturnCases ==
    ASSUME ProbeInv, walk.at # "done", NEW r, NEW result, Returns(r, result)
    PROVE  Returned(result) /\ ((results' = <<result>> /\ result.kind = "plan") \/ src' = r.src)
<1>1. results' = Append(results, result) /\ object' = object
  BY DEF Returns
<1>2. CASE results = <<>>
  <2>1. results' = <<result>>
    BY <1>1, <1>2
  <2>2. CASE result.kind = "plan"
    <3>1. /\ file' = Stub(result) /\ src' = NewBudgetedSource /\ walk' = NewWalk
      BY <1>2, <2>2 DEF Returns, Stub
    <3> QED
      BY <1>1, <1>2, <2>1, <2>2, <3>1 DEF Returned
  <2>3. CASE result.kind # "plan"
    <3>1. src' = r.src /\ walk' = [walk EXCEPT !.at = "done"] /\ file' = file
      BY <2>3 DEF Returns
    <3> QED
      BY <1>1, <1>2, <2>1, <2>3, <3>1 DEF Returned
  <2> QED
    BY <2>2, <2>3
<1>3. CASE results # <<>>
  <2>1. PICK first : results = <<first>>
    BY <1>3 DEF ProbeInv, ResultsOf
  <2>2. results' = <<first, result>>
    BY <1>1, <2>1, AppendSecond
  <2>3. src' = r.src /\ walk' = [walk EXCEPT !.at = "done"] /\ file' = file
    BY <1>3 DEF Returns
  <2> QED
    BY <1>1, <2>1, <2>2, <2>3 DEF Returned
<1> QED
  BY <1>2, <1>3

LEMMA StaysSound == ProbeInv /\ [Next]_vars => ProbeInv'
<1> SUFFICES ASSUME ProbeInv, [Next]_vars PROVE ProbeInv'
  OBVIOUS
<1>1. CASE UNCHANGED vars
  BY <1>1 DEF vars, ProbeInv, ResultsOf
<1>2. CASE Next
  <2>1. walk.at # "done"
    BY <1>2, NextTakes
  <2>2. PICK r : Takes(r)
    BY <1>2, NextTakes
  <2>3. SourceOf(r.src, file)
    BY <2>2 DEF Takes
  <2>4. ASSUME NEW w, WalkOf(w, file), Advances(walk, w), Goes(r, w)
        PROVE  ProbeInv'
    <3>1. /\ src' = r.src /\ walk' = w /\ object' = object /\ file' = file /\ results' = results
      BY <2>4 DEF Goes
    <3>2. w.at # "done"
      BY <2>4 DEF Advances
    <3>3. ResultsOf'
      BY <2>1, <3>1, <3>2 DEF ProbeInv, ResultsOf
    <3> QED
      BY <2>3, <2>4, <3>1, <3>3 DEF ProbeInv
  <2>5. ASSUME NEW result, ResultOf(result, file), Returns(r, result)
        PROVE  ProbeInv'
    <3>1. Returned(result) /\ ((results' = <<result>> /\ result.kind = "plan") \/ src' = r.src)
      BY <2>1, <2>5, ReturnCases
    <3>2. walk \in Walks /\ walk.offset \in 0..Len(file) /\ FileOf(file) /\ object \in Objects
          /\ FileOf(object.cells)
      BY DEF ProbeInv, WalkOf
    <3>3. ASSUME walk' = [walk EXCEPT !.at = "done"], file' = file
          PROVE  WalkOf(walk, file)' /\ walk'.at = "done"
      <4>1. walk' \in Walks /\ walk'.at = "done" /\ walk'.offset = walk.offset
        BY <3>2, <3>3 DEF Walks, Steps
      <4> QED
        BY <3>2, <3>3, <4>1 DEF WalkOf, BoxSteps, ElementSteps
    <3>4. CASE /\ results = <<>> /\ result.kind = "plan" /\ results' = <<result>>
               /\ file' = Stub(result) /\ src' = NewBudgetedSource /\ walk' = NewWalk
      <4>1. object' = object
        BY <3>1 DEF Returned
      <4>2. file = object.cells
        BY <3>4 DEF ProbeInv, ResultsOf
      <4>3. PlanOf(result.plan, file)
        BY <2>5, <3>2, <3>4, ResultFacts
      <4>4. FileOf(file') /\ PlanOf(result.plan, file')
        BY <3>2, <3>4, <4>3, PlanStub DEF Stub
      <4>5. SourceOf(src', file')
        BY <3>4, <4>4, NewSourceFits DEF FileOf
      <4>6. WalkOf(walk', file') /\ walk'.at # "done"
        <5>1. 0 \in 0..Len(file')
          BY <4>4 DEF FileOf
        <5> QED
          BY <3>4, <5>1, NewWalkFits DEF WalkOf, BoxSteps, ElementSteps
      <4>7. ResultsOf'
        BY <2>5, <3>4, <4>1, <4>2, <4>4, <4>6 DEF ResultsOf
      <4> QED
        BY <3>2, <4>1, <4>4, <4>5, <4>6, <4>7 DEF ProbeInv
    <3>5. CASE /\ results = <<>> /\ result.kind # "plan" /\ results' = <<result>>
               /\ file' = file /\ walk' = [walk EXCEPT !.at = "done"]
      <4>1. object' = object
        BY <3>1 DEF Returned
      <4>2. src' = r.src
        BY <3>1, <3>5
      <4>3. file = object.cells
        BY <3>5 DEF ProbeInv, ResultsOf
      <4>4. WalkOf(walk, file)' /\ walk'.at = "done"
        BY <3>3, <3>5
      <4>5. ResultsOf'
        BY <2>5, <3>5, <4>1, <4>3, <4>4 DEF ResultsOf
      <4> QED
        BY <2>3, <3>2, <3>5, <4>1, <4>2, <4>4, <4>5 DEF ProbeInv
    <3>6. ASSUME NEW first, results = <<first>>, results' = <<first, result>>,
                 file' = file, walk' = [walk EXCEPT !.at = "done"]
          PROVE  ProbeInv'
      <4>1. object' = object
        BY <3>1 DEF Returned
      <4>2. src' = r.src
        BY <3>1, <3>6
      <4>3. ResultOf(first, object.cells) /\ first.kind = "plan"
        BY <2>1, <3>6 DEF ProbeInv, ResultsOf
      <4>4. WalkOf(walk, file)' /\ walk'.at = "done"
        BY <3>3, <3>6
      <4>5. ResultsOf'
        BY <2>5, <3>6, <4>1, <4>3, <4>4 DEF ResultsOf
      <4> QED
        BY <2>3, <3>2, <3>6, <4>1, <4>2, <4>4, <4>5 DEF ProbeInv
    <3> QED
      BY <3>1, <3>4, <3>5, <3>6 DEF Returned
  <2> QED
    BY <2>2, <2>4, <2>5 DEF Takes
<1> QED
  BY <1>1, <1>2

LEMMA ProbeKeeps == Spec => []ProbeInv
BY InitFits, StaysSound, PTL DEF Spec

LEMMA ResultsTyped ==
    ASSUME ProbeInv
    PROVE  /\ Len(results) <= 2
           /\ \A i \in DOMAIN results : results[i].kind \in Outcomes
                 /\ (results[i].kind = "plan" => Fills(results[i].plan))
<1>1. FileOf(object.cells) /\ FileOf(file)
  BY DEF ProbeInv
<1>2. CASE results = <<>>
  BY <1>2
<1>3. ASSUME NEW first, results = <<first>>, ResultOf(first, object.cells)
      PROVE  /\ Len(results) <= 2
             /\ \A i \in DOMAIN results : results[i].kind \in Outcomes
                   /\ (results[i].kind = "plan" => Fills(results[i].plan))
  <2>1. first.kind \in Outcomes /\ (first.kind = "plan" => Fills(first.plan))
    BY <1>1, <1>3, ResultFacts
  <2>2. \A i \in DOMAIN results : results[i] = first
    BY <1>3
  <2> QED
    BY <1>3, <2>1, <2>2
<1>4. ASSUME NEW first, NEW second, results = <<first, second>>,
             ResultOf(first, object.cells), ResultOf(second, file)
      PROVE  /\ Len(results) <= 2
             /\ \A i \in DOMAIN results : results[i].kind \in Outcomes
                   /\ (results[i].kind = "plan" => Fills(results[i].plan))
  <2>1. first.kind \in Outcomes /\ (first.kind = "plan" => Fills(first.plan))
    BY <1>1, <1>4, ResultFacts
  <2>2. second.kind \in Outcomes /\ (second.kind = "plan" => Fills(second.plan))
    BY <1>1, <1>4, ResultFacts
  <2>3. \A i \in DOMAIN results : results[i] = first \/ results[i] = second
    BY <1>4
  <2> QED
    BY <1>4, <2>1, <2>2, <2>3
<1> QED
  BY <1>2, <1>3, <1>4 DEF ProbeInv, ResultsOf

\* Types; and the cursor stays in the file, and every plan that a probe makes is
\* one that NewPlan takes, whatever sizes the boxes or elements claim.
THEOREM ProbeIsTyped == Spec => []TypeOK
<1>1. ProbeInv => TypeOK
  <2> SUFFICES ASSUME ProbeInv PROVE TypeOK
    OBVIOUS
  <2>1. walk \in Walks /\ walk.offset \in 0..Len(file) /\ src \in Sources /\ src.start \in -1..Len(file)
    BY DEF ProbeInv, WalkOf, SourceOf
  <2> QED
    BY <2>1, ResultsTyped DEF TypeOK, Walks, Sources
<1> QED
  BY <1>1, ProbeKeeps, PTL

\* The window of the source is always a stretch of the file (source.go:86), so
\* what a hit returns is what the file holds there, whatever reads failed before.
THEOREM WindowsAreFile == Spec => []WindowIsFile
<1>1. ProbeInv => WindowIsFile
  <2> SUFFICES ASSUME ProbeInv PROVE WindowIsFile
    OBVIOUS
  <2>1. SourceOf(src, file) /\ DOMAIN file = 1..Len(file) /\ DOMAIN src.window = 1..Len(src.window)
    BY DEF ProbeInv, FileOf, SourceOf, Sources
  <2> QED
    BY <2>1 DEF WindowIsFile, SourceOf
<1> QED
  BY <1>1, ProbeKeeps, PTL

\* No probe reads more often, or more bytes, than its budget allows, whatever
\* its windows and failures were (source.go:76).
THEOREM BudgetIsKept == Spec => []WithinBudget
<1>1. ProbeInv => WithinBudget
  BY DEF ProbeInv, SourceOf, WithinBudget
<1> QED
  BY <1>1, ProbeKeeps, PTL

\* In the stub of any Matroska file the segment and the Void both end with the
\* file, whatever headers, metadata and sizes it was made of (matroska.go:160).
THEOREM StubsFillFile == Spec => []StubFillsFile
<1>1. ProbeInv => StubFillsFile
  <2> SUFFICES ASSUME ProbeInv PROVE StubFillsFile
    OBVIOUS
  <2>1. \A i \in DOMAIN results : results[i].kind = "plan" => Fills(results[i].plan)
    BY ResultsTyped
  <2> QED
    BY <2>1, Zenon DEF StubFillsFile, Fills
<1> QED
  BY <1>1, ProbeKeeps, PTL

\* Every read that does not end its probe takes it further into the file, or on
\* with the box or element at the cursor, whatever sizes the file claims; so no
\* file keeps a probe in its loop (mp4.go:43, matroska.go:88).
THEOREM ProbesAdvance == Spec => ReadsAdvance
<1>1. ProbeInv /\ [Next]_vars =>
         [results' = results =>
            \/ walk'.offset > walk.offset
            \/ walk'.offset = walk.offset /\ Rank(walk') > Rank(walk)]_vars
  <2> SUFFICES ASSUME ProbeInv, Next, results' = results
               PROVE  \/ walk'.offset > walk.offset
                      \/ walk'.offset = walk.offset /\ Rank(walk') > Rank(walk)
    OBVIOUS
  <2>1. walk.at # "done"
    BY NextTakes
  <2>2. PICK r : Takes(r)
    BY NextTakes
  <2>3. ASSUME NEW w, Advances(walk, w), Goes(r, w)
        PROVE  Advances(walk, walk')
    BY <2>3 DEF Goes
  <2>4. ASSUME NEW result, Returns(r, result)
        PROVE  FALSE
    <3>1. Returned(result)
      BY <2>1, <2>4, ReturnCases
    <3> QED
      BY <3>1 DEF Returned
  <2>5. Advances(walk, walk')
    BY <2>2, <2>3, <2>4 DEF Takes
  <2> QED
    BY <2>5, Zenon DEF Advances
<1> QED
  BY <1>1, ProbeKeeps, PTL DEF Spec, ReadsAdvance

-----------------------------------------------------------------------------
(* A walk over sound media keeps step with their layout.                   *)

\* A Matroska file whose metadata a probe can keep.
Orderly(f, layout) ==
    /\ MatroskaChain(f, layout)
    /\ \A i \in DOMAIN layout :
          ElementId(f, layout[i]) \in ElementMetadata =>
              /\ ElementSpan(f, layout[i]) <= MaxMetadata
              /\ \A j \in DOMAIN layout \ {i} : ElementId(f, layout[i]) # ElementId(f, layout[j])

\* The boxes that were passed are the first of the layout; the cursor is at the next.
BoxStep(w, f, layout) ==
    /\ w.at \in BoxSteps
    /\ Len(w.extents) < Len(layout)
    /\ \A i \in 1..Len(w.extents) : w.extents[i].offset = layout[i]
    /\ w.offset = layout[Len(w.extents) + 1]

\* The cursor is behind k elements.
Reaches(offset, f, layout, k) ==
    offset = IF k < Len(layout) THEN layout[k + 1] ELSE ElementEnd(f, layout[Len(layout)])

\* Of k elements the metadata have been kept, and nothing else.
Gathered(raw, f, layout, k) ==
    /\ \A i \in 1..k :
          ElementId(f, layout[i]) \in ElementMetadata =>
              raw[ElementId(f, layout[i])] = Slice(f, layout[i], ElementSpan(f, layout[i]))
    /\ \A id \in ElementMetadata :
          raw[id] # <<>> => \E i \in 1..k : ElementId(f, layout[i]) = id

\* There was no need to read more.
Complete(raw, f, layout, k) ==
    \/ k = Len(layout)
    \/ /\ raw["info"] # <<>> /\ raw["tracks"] # <<>>
       /\ ElementId(f, layout[k + 1]) \notin ElementMetadata
    \/ \A id \in ElementMetadata : raw[id] # <<>>

ElementsRead(raw, s, f, layout) ==
    \E k \in 0..Len(layout) : /\ Gathered(raw, f, layout, k)
                              /\ s.mishap \/ Complete(raw, f, layout, k)

ElementStep(w, s, f, layout) ==
    /\ w.at \in ElementSteps
    /\ w.at \in {"ebml", "segment"} => \A id \in ElementMetadata : w.raw[id] = <<>>
    /\ w.at \in {"element", "metadata"} =>
          \E k \in 0..Len(layout) : /\ Reaches(w.offset, f, layout, k)
                                    /\ Gathered(w.raw, f, layout, k)
    /\ w.at = "prefix" => ElementsRead(w.raw, s, f, layout)

InStep(w, s, f) ==
    w.at \notin {"head", "done"} =>
        \A layout \in Seq(Nat) : /\ Mp4Chain(f, layout) => BoxStep(w, f, layout)
                                 /\ Orderly(f, layout) => ElementStep(w, s, f, layout)

\* The extents keep the first boxes of the layout, up to moov and mdat.
BoxPlan(plan, f, layout) ==
    /\ Mp4PlanOf(plan, f)
    /\ Len(plan.extents) <= Len(layout)
    /\ \A i \in 1..Len(plan.extents) : plan.extents[i].offset = layout[i]
    /\ \/ Enough \subseteq PassedIds(f, plan.extents, Len(plan.extents))
       \/ Len(plan.extents) = Len(layout)

\* Why a walk gives up, and what it makes otherwise.
ReadSoundly(result, s, f) ==
    \A layout \in Seq(Nat) :
        /\ Mp4Chain(f, layout) =>
              \/ result.kind # "plan" /\ s.mishap
              \/ result.kind = "plan" /\ BoxPlan(result.plan, f, layout)
        /\ Orderly(f, layout) =>
              \/ result.kind # "plan" /\ s.mishap
              \/ /\ result.kind # "plan"
                 /\ \E raw \in Raws :
                       /\ ElementsRead(raw, s, f, layout)
                       /\ ~(raw["info"] # <<>> /\ raw["tracks"] # <<>> /\ Room(f, raw))
              \/ /\ result.kind = "plan"
                 /\ \E raw \in Raws : /\ ElementsRead(raw, s, f, layout)
                                      /\ MatroskaPlanFrom(result.plan, f, raw)

Follows(r) ==
    \/ \E w : Goes(r, w) /\ InStep(w, r.src, file)
    \/ \E result : Returns(r, result) /\ ReadSoundly(result, r.src, file)

LEMMA ChainFacts ==
    ASSUME NEW f, FileOf(f), NEW layout \in Seq(Nat), Mp4Chain(f, layout)
    PROVE  /\ Mp4Head(f) /\ ~Ebml(f)
           /\ Len(layout) \in Nat /\ Len(layout) > 0 /\ layout[1] = 0
           /\ \A i \in 1..Len(layout) : layout[i] \in Nat /\ WholeBox(f, layout[i])
           /\ \A i \in 1..(Len(layout) - 1) : layout[i + 1] = BoxEnd(f, layout[i])
           /\ "moov" \in BoxIds(f, layout, Len(layout))
           /\ \/ "mdat" \in BoxIds(f, layout, Len(layout))
              \/ BoxEnd(f, layout[Len(layout)]) = Len(f)
<1>1. Mp4Head(f) /\ ~Ebml(f)
  BY DEF Mp4Chain, Mp4Head, Ebml
<1>2. Len(layout) \in Nat /\ Len(layout) > 0 /\ layout[1] = 0 /\ DOMAIN layout = 1..Len(layout)
  BY DEF Mp4Chain
<1>3. \A i \in 1..Len(layout) : layout[i] \in Nat /\ WholeBox(f, layout[i])
  BY <1>2 DEF Mp4Chain
<1>4. \A i \in 1..(Len(layout) - 1) : layout[i + 1] = BoxEnd(f, layout[i])
  BY <1>2 DEF Mp4Chain
<1>5. /\ "moov" \in BoxIds(f, layout, Len(layout))
      /\ \/ "mdat" \in BoxIds(f, layout, Len(layout))
         \/ BoxEnd(f, layout[Len(layout)]) = Len(f)
  BY Zenon DEF Mp4Chain
<1> QED
  BY <1>1, <1>2, <1>3, <1>4, <1>5

LEMMA OrderlyFacts ==
    ASSUME NEW f, FileOf(f), NEW layout \in Seq(Nat), Orderly(f, layout)
    PROVE  /\ Ebml(f) /\ ~Mp4Head(f) /\ HeaderSound(f) /\ HasSegment(f)
           /\ Len(layout) \in Nat /\ Len(layout) > 0 /\ layout[1] = SegmentBody(f)
           /\ \A i \in 1..Len(layout) : /\ layout[i] \in Nat
                                        /\ WholeElement(f, layout[i], SegmentEnd(f))
           /\ \A i \in 1..(Len(layout) - 1) : layout[i + 1] = ElementEnd(f, layout[i])
<1>1. HasSegment(f)
  BY DEF Orderly, MatroskaChain
<1>2. HeaderSound(f)
  BY <1>1 DEF HasSegment, HeaderSound
<1>3. ElementId(f, 0) = "ebml" /\ BeginsElement(f, 0)
  BY <1>2 DEF HeaderSound, WholeElement
<1>4. f[1].id = "ebml" /\ f # <<>>
  <2>1. 0 + 2 <= Len(f)
    BY <1>3 DEF BeginsElement
  <2> QED
    BY <1>3, <2>1 DEF ElementId
<1>5. Ebml(f) /\ ~Mp4Head(f)
  BY <1>4 DEF Ebml, Mp4Head
<1>6. /\ Len(layout) \in Nat /\ Len(layout) > 0 /\ layout[1] = SegmentBody(f)
      /\ DOMAIN layout = 1..Len(layout)
  BY DEF Orderly, MatroskaChain
<1> QED
  BY <1>1, <1>2, <1>5, <1>6 DEF Orderly, MatroskaChain

LEMMA Unplanned == \A result \in {Failed, NotMedia, Unsupported} : result.kind # "plan"
<1>1. Failed.kind = "failed" /\ NotMedia.kind = "not media" /\ Unsupported.kind = "unsupported"
  BY DEF Failed, NotMedia, Unsupported, Result
<1> QED
  BY <1>1, Zenon

LEMMA HeadFollows ==
    ASSUME FileOf(file), walk = NewWalk, NEW r, HeadOutcome(r)
    PROVE  Follows(r)
<1>1. CASE Ebml(file) /\ Goes(r, [walk EXCEPT !.at = "ebml"])
  <2> DEFINE w == [walk EXCEPT !.at = "ebml"]
  <2>1. w.at = "ebml" /\ \A id \in ElementMetadata : w.raw[id] = <<>>
    BY NewWalkFits DEF Walks
  <2> HIDE DEF w
  <2>2. ASSUME NEW layout \in Seq(Nat)
        PROVE  ~Mp4Chain(file, layout) /\ ElementStep(w, r.src, file, layout)
    BY <1>1, <2>1, ChainFacts DEF ElementStep, ElementSteps
  <2> QED
    BY <1>1, <2>2 DEF InStep, Follows, w
<1>2. CASE Mp4Head(file) /\ Goes(r, [walk EXCEPT !.at = "box"])
  <2> DEFINE w == [walk EXCEPT !.at = "box"]
  <2>1. w.at = "box" /\ w.extents = <<>> /\ w.offset = 0
    BY NewWalkFits DEF Walks
  <2> HIDE DEF w
  <2>2. ASSUME NEW layout \in Seq(Nat)
        PROVE  ~Orderly(file, layout) /\ (Mp4Chain(file, layout) => BoxStep(w, file, layout))
    <3>1. ~Orderly(file, layout)
      BY <1>2, OrderlyFacts
    <3>2. Len(<<>>) = 0
      OBVIOUS
    <3> QED
      BY <2>1, <3>1, <3>2, ChainFacts DEF BoxStep, BoxSteps
  <2> QED
    BY <1>2, <2>2 DEF InStep, Follows, w
<1>3. ASSUME NEW result \in {Failed, NotMedia}, Returns(r, result),
             r.src.mishap \/ (~Ebml(file) /\ ~Mp4Head(file))
      PROVE  Follows(r)
  <2>1. result.kind # "plan"
    BY <1>3, Unplanned
  <2>2. ASSUME NEW layout \in Seq(Nat)
        PROVE  /\ Mp4Chain(file, layout) => r.src.mishap
               /\ Orderly(file, layout) => r.src.mishap
    BY <1>3, ChainFacts, OrderlyFacts
  <2>3. ReadSoundly(result, r.src, file)
    BY <2>1, <2>2 DEF ReadSoundly
  <2> QED
    BY <1>3, <2>3 DEF Follows
<1> QED
  BY <1>1, <1>2, <1>3 DEF HeadOutcome

\* A box that was passed is the next one of the layout.
LEMMA PassedInStep ==
    ASSUME FileOf(file), walk \in Walks, Mp4Walk(walk, file), NEW r, Passes(r),
           NEW layout \in Seq(Nat), Mp4Chain(file, layout), BoxStep(walk, file, layout)
    PROVE  /\ ~WalkedBoxes(Passed) => BoxStep(Passed, file, layout)
           /\ WalkedBoxes(Passed) =>
                 /\ "moov" \in Passed.seen
                 /\ \A plan : plan = Plan(Len(file), Passed.extents) /\ Mp4PlanOf(plan, file) =>
                                 BoxPlan(plan, file, layout)
<1>1. /\ Passed.at = "box" /\ Trail(file, Passed.extents, Passed.offset)
      /\ Passed.extents = walk.extents \o <<KeptPart(file, walk.offset)>>
      /\ Passed.seen = PassedIds(file, Passed.extents, Len(Passed.extents))
      /\ Passed.offset = BoxEnd(file, walk.offset)
  BY PassesMakes DEF Passed, Walks
<1>2. /\ file \in Seq(Cells) /\ Len(file) \in Nat /\ walk.offset \in Nat
      /\ walk.extents \in Seq(Extents) /\ WholeBox(file, walk.offset)
  BY DEF FileOf, Walks, Passes
<1>3. PICK k \in Nat : k = Len(walk.extents)
  BY <1>2
<1>4. /\ Len(layout) \in Nat /\ k < Len(layout) /\ walk.offset = layout[k + 1]
      /\ \A i \in 1..k : walk.extents[i].offset = layout[i]
  BY <1>3 DEF BoxStep
<1>5. /\ \A i \in 1..Len(layout) : layout[i] \in Nat /\ WholeBox(file, layout[i])
      /\ \A i \in 1..(Len(layout) - 1) : layout[i + 1] = BoxEnd(file, layout[i])
      /\ "moov" \in BoxIds(file, layout, Len(layout))
      /\ \/ "mdat" \in BoxIds(file, layout, Len(layout))
         \/ BoxEnd(file, layout[Len(layout)]) = Len(file)
  BY <1>2, ChainFacts
<1>6. KeptPart(file, walk.offset) \in Extents /\ KeptPart(file, walk.offset).offset = walk.offset
  BY <1>2, KeptFacts
<1>7. PICK longer : longer = Passed.extents
  OBVIOUS
<1>8. /\ longer \in Seq(Extents) /\ Len(longer) = k + 1
      /\ \A i \in 1..k : longer[i] = walk.extents[i]
      /\ longer[k + 1] = KeptPart(file, walk.offset)
  BY <1>1, <1>2, <1>3, <1>6, <1>7
<1>9. \A i \in 1..(k + 1) : longer[i].offset = layout[i]
  <2> SUFFICES ASSUME NEW i \in 1..(k + 1) PROVE longer[i].offset = layout[i]
    OBVIOUS
  <2>1. i \in 1..k \/ i = k + 1
    OBVIOUS
  <2> QED
    BY <1>4, <1>6, <1>8, <2>1
<1>10. Passed.seen = BoxIds(file, layout, k + 1)
  <2>1. \A i \in 1..(k + 1) : Offsets(longer)[i] = layout[i]
    BY <1>8, <1>9 DEF Offsets
  <2>2. PICK n \in Nat : n = k + 1
    OBVIOUS
  <2>3. PICK a : a = Offsets(longer)
    OBVIOUS
  <2>4. n \in 0..n /\ \A i \in 1..n : a[i] = layout[i]
    BY <2>1, <2>2, <2>3
  <2>5. BoxIds(file, a, n) = BoxIds(file, layout, n)
    BY <2>4, BoxIdsAgree
  <2> QED
    BY <1>1, <1>7, <1>8, <2>2, <2>3, <2>5 DEF PassedIds
<1>11. WalkedBoxes(Passed) <=> Passed.offset >= Len(file) \/ Enough \subseteq Passed.seen
  BY DEF WalkedBoxes, Enough
<1>12. Passed.offset = BoxEnd(file, layout[k + 1]) /\ BoxEnd(file, layout[k + 1]) \in Nat
  BY <1>1, <1>2, <1>4, BoxFacts
<1>13. k + 1 < Len(layout) => Passed.offset = layout[k + 2] /\ Passed.offset < Len(file)
  <2> SUFFICES ASSUME k + 1 < Len(layout)
               PROVE  Passed.offset = layout[k + 2] /\ Passed.offset < Len(file)
    OBVIOUS
  <2>1. k + 1 \in 1..(Len(layout) - 1) /\ k + 2 \in 1..Len(layout) /\ k + 1 + 1 = k + 2
    BY <1>4
  <2>2. layout[k + 2] = BoxEnd(file, layout[k + 1])
    BY <1>5, <2>1
  <2>3. layout[k + 2] \in Nat /\ layout[k + 2] + HeaderSize <= Len(file)
    BY <1>5, <2>1 DEF WholeBox
  <2> QED
    BY <1>2, <1>12, <2>2, <2>3 DEF HeaderSize
<1>14. k + 1 = Len(layout) =>
          /\ "moov" \in Passed.seen
          /\ "mdat" \in Passed.seen \/ Passed.offset = Len(file)
  BY <1>5, <1>10, <1>12
<1>15. k + 1 < Len(layout) \/ k + 1 = Len(layout)
  BY <1>4
<1>16. ASSUME ~WalkedBoxes(Passed)
       PROVE  BoxStep(Passed, file, layout)
  <2>1. k + 1 # Len(layout)
    BY <1>2, <1>11, <1>14, <1>16 DEF Enough
  <2>2. k + 1 < Len(layout) /\ Passed.offset = layout[k + 2] /\ k + 1 + 1 = k + 2
    BY <1>13, <1>15, <2>1
  <2> QED
    BY <1>1, <1>7, <1>8, <1>9, <2>2 DEF BoxStep, BoxSteps
<1>17. ASSUME WalkedBoxes(Passed)
       PROVE  "moov" \in Passed.seen /\ (Enough \subseteq Passed.seen \/ k + 1 = Len(layout))
  <2>1. CASE Enough \subseteq Passed.seen
    BY <2>1 DEF Enough
  <2>2. CASE Passed.offset >= Len(file)
    <3>1. k + 1 = Len(layout)
      BY <1>2, <1>12, <1>13, <1>15, <2>2
    <3> QED
      BY <1>14, <3>1
  <2> QED
    BY <1>11, <1>17, <2>1, <2>2
<1>18. ASSUME WalkedBoxes(Passed), NEW plan, plan = Plan(Len(file), Passed.extents),
              Mp4PlanOf(plan, file)
       PROVE  BoxPlan(plan, file, layout)
  <2>1. plan.extents = longer
    BY <1>7, <1>18 DEF Plan
  <2>2. Enough \subseteq PassedIds(file, longer, Len(longer)) \/ Len(longer) = Len(layout)
    BY <1>1, <1>7, <1>8, <1>17, <1>18
  <2>3. Len(longer) <= Len(layout)
    BY <1>8, <1>15
  <2> QED
    BY <1>8, <1>9, <1>18, <2>1, <2>2, <2>3 DEF BoxPlan
<1> QED
  BY <1>16, <1>17, <1>18

LEMMA BoxFollows ==
    ASSUME FileOf(file), WalkOf(walk, file), walk.at \in BoxSteps, InStep(walk, src, file),
           NEW r, BoxOutcome(r)
    PROVE  Follows(r)
<1>1. walk \in Walks /\ Mp4Walk(walk, file) /\ Mp4Head(file)
  BY DEF WalkOf, Mp4Walk
<1>2. ASSUME NEW layout \in Seq(Nat)
      PROVE  ~Orderly(file, layout)
  BY <1>1, OrderlyFacts
<1>3. ASSUME NEW layout \in Seq(Nat), Mp4Chain(file, layout)
      PROVE  BoxStep(walk, file, layout) /\ WholeBox(file, walk.offset)
  <2>1. BoxStep(walk, file, layout)
    BY <1>3 DEF InStep, BoxSteps
  <2>2. walk.extents \in Seq(Extents) /\ Len(walk.extents) \in Nat
    BY <1>1 DEF Walks
  <2>3. Len(walk.extents) + 1 \in 1..Len(layout) /\ walk.offset = layout[Len(walk.extents) + 1]
    BY <2>1, <2>2 DEF BoxStep
  <2> QED
    BY <1>3, <2>1, <2>3, ChainFacts
<1>4. CASE Returns(r, Failed) /\ (r.src.mishap \/ ~WholeBox(file, walk.offset))
  <2>1. Failed.kind # "plan"
    BY Unplanned
  <2>2. ReadSoundly(Failed, r.src, file)
    BY <1>2, <1>3, <1>4, <2>1 DEF ReadSoundly
  <2> QED
    BY <1>4, <2>2 DEF Follows
<1>5. CASE Passes(r)
  <2>1. CASE ~WalkedBoxes(Passed) /\ Goes(r, Passed)
    <3>1. ASSUME NEW layout \in Seq(Nat), Mp4Chain(file, layout)
          PROVE  BoxStep(Passed, file, layout)
      BY <1>1, <1>3, <1>5, <2>1, <3>1, PassedInStep
    <3>2. InStep(Passed, r.src, file)
      BY <1>2, <3>1 DEF InStep
    <3> QED
      BY <2>1, <3>2 DEF Follows
  <2>2. CASE WalkedBoxes(Passed) /\ "moov" \notin Passed.seen /\ Returns(r, Unsupported)
    <3>1. ASSUME NEW layout \in Seq(Nat), Mp4Chain(file, layout)
          PROVE  FALSE
      BY <1>1, <1>3, <1>5, <2>2, <3>1, PassedInStep
    <3>2. ReadSoundly(Unsupported, r.src, file)
      BY <1>2, <3>1 DEF ReadSoundly
    <3> QED
      BY <2>2, <3>2 DEF Follows
  <2>3. CASE /\ WalkedBoxes(Passed)
             /\ Mp4PlanOf(Plan(Len(file), Passed.extents), file)
             /\ Returns(r, Result("plan", Plan(Len(file), Passed.extents)))
    <3>1. PICK plan : plan = Plan(Len(file), Passed.extents)
      OBVIOUS
    <3>2. PICK result : result = Result("plan", plan)
      OBVIOUS
    <3>3. result.kind = "plan" /\ result.plan = plan
      BY <3>2 DEF Result
    <3>4. ASSUME NEW layout \in Seq(Nat), Mp4Chain(file, layout)
          PROVE  BoxPlan(plan, file, layout)
      BY <1>1, <1>3, <1>5, <2>3, <3>1, <3>4, PassedInStep
    <3>5. ReadSoundly(result, r.src, file)
      BY <1>2, <3>3, <3>4 DEF ReadSoundly
    <3> QED
      BY <2>3, <3>1, <3>2, <3>5 DEF Follows
  <2> QED
    BY <1>1, <1>5, <2>1, <2>2, <2>3, PassesMakes
<1>6. ASSUME NEW w, w.at \in BoxSteps, w.extents = walk.extents, w.offset = walk.offset, Goes(r, w)
      PROVE  Follows(r)
  <2>1. ASSUME NEW layout \in Seq(Nat), Mp4Chain(file, layout)
        PROVE  BoxStep(w, file, layout)
    BY <1>3, <1>6, <2>1 DEF BoxStep
  <2>2. InStep(w, r.src, file)
    BY <1>2, <2>1 DEF InStep
  <2> QED
    BY <1>6, <2>2 DEF Follows
<1>7. ASSUME NEW box \in Items, Goes(r, [walk EXCEPT !.at = "box data", !.item = box])
      PROVE  Follows(r)
  <2> DEFINE w == [walk EXCEPT !.at = "box data", !.item = box]
  <2>1. w.at \in BoxSteps /\ w.extents = walk.extents /\ w.offset = walk.offset
    BY <1>1 DEF Walks, BoxSteps
  <2> HIDE DEF w
  <2> QED
    BY <1>6, <1>7, <2>1 DEF w
<1>8. CASE Goes(r, [walk EXCEPT !.at = "box size",
                                !.item.cells = Slice(file, walk.offset, HeaderSize)])
  <2> DEFINE w == [walk EXCEPT !.at = "box size",
                               !.item.cells = Slice(file, walk.offset, HeaderSize)]
  <2>1. w.at \in BoxSteps /\ w.extents = walk.extents /\ w.offset = walk.offset
    BY <1>1 DEF Walks, BoxSteps
  <2> HIDE DEF w
  <2> QED
    BY <1>6, <1>8, <2>1 DEF w
<1> QED
  BY <1>4, <1>5, <1>7, <1>8 DEF BoxOutcome

\* The cursor is at an element of the layout, or behind the last one.
LEMMA ReachedFacts ==
    ASSUME NEW f, FileOf(f), NEW layout \in Seq(Nat), Orderly(f, layout),
           NEW k \in 0..Len(layout), NEW offset \in Nat, Reaches(offset, f, layout, k)
    PROVE  /\ k < Len(layout) =>
                 /\ k + 1 \in 1..Len(layout) /\ offset = layout[k + 1]
                 /\ WholeElement(f, offset, SegmentEnd(f))
                 /\ Reaches(ElementEnd(f, offset), f, layout, k + 1)
                 /\ offset < SegmentEnd(f)
           /\ k = Len(layout) =>
                 \/ offset = SegmentEnd(f)
                 \/ ~BeginsElement(f, offset)
                 \/ UnknownSize(f, offset) /\ ElementId(f, offset) = "cluster"
<1>1. /\ Len(layout) \in Nat /\ HasSegment(f)
      /\ \A i \in 1..Len(layout) : WholeElement(f, layout[i], SegmentEnd(f))
      /\ \A i \in 1..(Len(layout) - 1) : layout[i + 1] = ElementEnd(f, layout[i])
  BY OrderlyFacts
<1>2. ASSUME k < Len(layout)
      PROVE  /\ k + 1 \in 1..Len(layout) /\ offset = layout[k + 1]
             /\ WholeElement(f, offset, SegmentEnd(f))
             /\ Reaches(ElementEnd(f, offset), f, layout, k + 1)
             /\ offset < SegmentEnd(f)
  <2>1. k + 1 \in 1..Len(layout) /\ offset = layout[k + 1]
    BY <1>1, <1>2 DEF Reaches
  <2>2. WholeElement(f, offset, SegmentEnd(f))
    BY <1>1, <2>1
  <2>3. Reaches(ElementEnd(f, offset), f, layout, k + 1)
    <3>1. CASE k + 1 < Len(layout)
      <4>1. k + 1 \in 1..(Len(layout) - 1)
        BY <1>1, <2>1, <3>1
      <4>2. layout[k + 1 + 1] = ElementEnd(f, offset)
        BY <1>1, <2>1, <4>1
      <4> QED
        BY <3>1, <4>2 DEF Reaches
    <3>2. CASE k + 1 = Len(layout)
      BY <2>1, <3>2 DEF Reaches
    <3> QED
      BY <1>1, <2>1, <3>1, <3>2
  <2>4. offset < SegmentEnd(f)
    <3>1. BeginsElement(f, offset) /\ ElementEnd(f, offset) <= SegmentEnd(f)
      BY <2>2 DEF WholeElement
    <3>2. /\ ElementEnd(f, offset) = offset + ElementSpan(f, offset)
          /\ ElementSpan(f, offset) \in Nat /\ ElementSpan(f, offset) >= 2
      BY <3>1, ElementFacts
    <3>3. SegmentEnd(f) \in Nat
      BY <1>1, SegmentFacts
    <3> QED
      BY <3>1, <3>2, <3>3
  <2> QED
    BY <2>1, <2>2, <2>3, <2>4
<1>3. ASSUME k = Len(layout)
      PROVE  \/ offset = SegmentEnd(f)
             \/ ~BeginsElement(f, offset)
             \/ UnknownSize(f, offset) /\ ElementId(f, offset) = "cluster"
  <2>1. offset = ElementEnd(f, layout[Len(layout)])
    BY <1>1, <1>3 DEF Reaches
  <2> QED
    BY <2>1 DEF Orderly, MatroskaChain
<1> QED
  BY <1>2, <1>3

LEMMA PrefixedFollows ==
    ASSUME FileOf(file), Ebml(file), NEW w \in Walks, NEW r, Prefixed(r, w),
           \A layout \in Seq(Nat) :
               Orderly(file, layout) => ElementsRead(w.raw, r.src, file, layout)
    PROVE  Follows(r)
<1>1. ASSUME NEW layout \in Seq(Nat)
      PROVE  ~Mp4Chain(file, layout)
  BY ChainFacts
<1>2. CASE /\ w.raw["info"] # <<>> /\ w.raw["tracks"] # <<>>
           /\ Goes(r, [w EXCEPT !.at = "prefix"])
  <2> DEFINE v == [w EXCEPT !.at = "prefix"]
  <2>1. v.at = "prefix" /\ v.raw = w.raw
    BY DEF Walks
  <2> HIDE DEF v
  <2>2. ASSUME NEW layout \in Seq(Nat), Orderly(file, layout)
        PROVE  ElementStep(v, r.src, file, layout)
    BY <2>1, <2>2 DEF ElementStep, ElementSteps
  <2>3. InStep(v, r.src, file)
    BY <1>1, <2>2 DEF InStep
  <2> QED
    BY <1>2, <2>3 DEF Follows, v
<1>3. CASE /\ w.raw["info"] = <<>> \/ w.raw["tracks"] = <<>>
           /\ Returns(r, Unsupported)
  <2>1. w.raw \in Raws
    BY DEF Walks, Raws
  <2>2. Unsupported.kind # "plan"
    BY Unplanned
  <2>3. ~(w.raw["info"] # <<>> /\ w.raw["tracks"] # <<>> /\ Room(file, w.raw))
    BY <1>3
  <2>4. ReadSoundly(Unsupported, r.src, file)
    BY <1>1, <2>1, <2>2, <2>3, Zenon DEF ReadSoundly
  <2> QED
    BY <1>3, <2>4 DEF Follows
<1> QED
  BY <1>2, <1>3 DEF Prefixed

LEMMA OnwardFollows ==
    ASSUME FileOf(file), Ebml(file), NEW w \in Walks, w.segmentEnd = SegmentEnd(file),
           NEW offset \in Nat, NEW r, Onward(r, w, offset),
           \A layout \in Seq(Nat) : Orderly(file, layout) =>
               \E k \in 0..Len(layout) : /\ Reaches(offset, file, layout, k)
                                         /\ Gathered(w.raw, file, layout, k)
    PROVE  Follows(r)
<1>1. CASE offset < w.segmentEnd /\ Goes(r, [w EXCEPT !.at = "element", !.offset = offset])
  <2> DEFINE v == [w EXCEPT !.at = "element", !.offset = offset]
  <2>1. v.at = "element" /\ v.raw = w.raw /\ v.offset = offset
    BY DEF Walks
  <2> HIDE DEF v
  <2>2. ASSUME NEW layout \in Seq(Nat), Orderly(file, layout)
        PROVE  ElementStep(v, r.src, file, layout)
    BY <2>1, <2>2 DEF ElementStep, ElementSteps
  <2>3. ASSUME NEW layout \in Seq(Nat)
        PROVE  ~Mp4Chain(file, layout)
    BY ChainFacts
  <2>4. InStep(v, r.src, file)
    BY <2>2, <2>3 DEF InStep
  <2> QED
    BY <1>1, <2>4 DEF Follows, v
<1>2. CASE offset >= w.segmentEnd /\ Prefixed(r, w)
  <2>1. ASSUME NEW layout \in Seq(Nat), Orderly(file, layout)
        PROVE  ElementsRead(w.raw, r.src, file, layout)
    <3>1. PICK k \in 0..Len(layout) : /\ Reaches(offset, file, layout, k)
                                      /\ Gathered(w.raw, file, layout, k)
      BY <2>1
    <3>2. ~(k < Len(layout))
      <4>1. HasSegment(file)
        BY <2>1, OrderlyFacts
      <4>2. SegmentEnd(file) \in Nat
        BY <4>1, SegmentFacts
      <4> QED
        BY <1>2, <2>1, <3>1, <4>2, ReachedFacts
    <3>3. k = Len(layout)
      BY <2>1, <3>1, <3>2
    <3> QED
      BY <3>1, <3>3 DEF ElementsRead, Complete
  <2> QED
    BY <1>2, <2>1, PrefixedFollows
<1> QED
  BY <1>1, <1>2 DEF Onward

LEMMA EBMLFollows ==
    ASSUME FileOf(file), WalkOf(walk, file), walk.at = "ebml", InStep(walk, src, file),
           NEW r, HeaderOutcome(r)
    PROVE  Follows(r)
<1>1. Ebml(file) /\ walk \in Walks
  BY DEF WalkOf, ElementSteps
<1>2. ASSUME NEW layout \in Seq(Nat)
      PROVE  ~Mp4Chain(file, layout)
  BY <1>1, ChainFacts
<1>3. CASE Returns(r, Failed) /\ (r.src.mishap \/ ~HeaderSound(file))
  <2>1. \A layout \in Seq(Nat) : Orderly(file, layout) => r.src.mishap
    BY <1>3, OrderlyFacts
  <2>2. Failed.kind # "plan"
    BY Unplanned
  <2>3. ReadSoundly(Failed, r.src, file)
    BY <1>2, <2>1, <2>2 DEF ReadSoundly
  <2> QED
    BY <1>3, <2>3 DEF Follows
<1>4. CASE Goes(r, [walk EXCEPT !.at = "segment", !.headerEnd = ElementEnd(file, 0)])
  <2> DEFINE w == [walk EXCEPT !.at = "segment", !.headerEnd = ElementEnd(file, 0)]
  <2>1. w.at = "segment" /\ w.raw = walk.raw
    BY <1>1 DEF Walks
  <2> HIDE DEF w
  <2>2. ASSUME NEW layout \in Seq(Nat), Orderly(file, layout)
        PROVE  ElementStep(w, r.src, file, layout)
    <3>1. ElementStep(walk, src, file, layout)
      BY <2>2 DEF InStep
    <3> QED
      BY <2>1, <3>1 DEF ElementStep, ElementSteps
  <2>3. InStep(w, r.src, file)
    BY <1>2, <2>2 DEF InStep
  <2> QED
    BY <1>4, <2>3 DEF Follows, w
<1> QED
  BY <1>3, <1>4 DEF HeaderOutcome

LEMMA SegmentFollows ==
    ASSUME FileOf(file), WalkOf(walk, file), walk.at = "segment", InStep(walk, src, file),
           NEW r, SegmentOutcome(r)
    PROVE  Follows(r)
<1>1. Ebml(file) /\ walk \in Walks
  BY DEF WalkOf, ElementSteps
<1>2. ASSUME NEW layout \in Seq(Nat)
      PROVE  ~Mp4Chain(file, layout)
  BY <1>1, ChainFacts
<1>3. CASE Returns(r, Failed) /\ (r.src.mishap \/ ~HasSegment(file))
  <2>1. \A layout \in Seq(Nat) : Orderly(file, layout) => r.src.mishap
    BY <1>3, OrderlyFacts
  <2>2. Failed.kind # "plan"
    BY Unplanned
  <2>3. ReadSoundly(Failed, r.src, file)
    BY <1>2, <2>1, <2>2 DEF ReadSoundly
  <2> QED
    BY <1>3, <2>3 DEF Follows
<1>4. CASE /\ HasSegment(file)
           /\ Onward(r, [walk EXCEPT !.segmentEnd = SegmentEnd(file)], SegmentBody(file))
  <2> DEFINE w == [walk EXCEPT !.segmentEnd = SegmentEnd(file)]
  <2>1. SegmentEnd(file) \in Nat /\ SegmentBody(file) \in Nat
    BY <1>4, SegmentFacts
  <2>2. w \in Walks /\ w.segmentEnd = SegmentEnd(file) /\ w.raw = walk.raw
    BY <1>1, <2>1 DEF Walks
  <2>3. Onward(r, w, SegmentBody(file))
    BY <1>4
  <2> HIDE DEF w
  <2>4. PICK offset \in Nat : offset = SegmentBody(file)
    BY <2>1
  <2>5. ASSUME NEW layout \in Seq(Nat), Orderly(file, layout)
        PROVE  \E k \in 0..Len(layout) : /\ Reaches(offset, file, layout, k)
                                         /\ Gathered(w.raw, file, layout, k)
    <3>1. ElementStep(walk, src, file, layout)
      BY <2>5 DEF InStep
    <3>2. \A id \in ElementMetadata : w.raw[id] = <<>>
      BY <2>2, <3>1 DEF ElementStep
    <3>3. Len(layout) \in Nat /\ Len(layout) > 0 /\ layout[1] = offset
      BY <2>4, <2>5, OrderlyFacts
    <3>4. PICK k \in 0..Len(layout) : k = 0
      BY <3>3
    <3>5. Reaches(offset, file, layout, k)
      BY <3>3, <3>4 DEF Reaches
    <3>6. Gathered(w.raw, file, layout, k)
      BY <3>2, <3>4 DEF Gathered
    <3> QED
      BY <3>5, <3>6
  <2> QED
    BY <1>1, <2>2, <2>3, <2>4, <2>5, OnwardFollows
<1> QED
  BY <1>3, <1>4 DEF SegmentOutcome

\* At an element, so many of the layout are behind the cursor.
LEMMA AtElement ==
    ASSUME FileOf(file), WalkOf(walk, file), walk.at \in {"element", "metadata"},
           InStep(walk, src, file), NEW layout \in Seq(Nat), Orderly(file, layout)
    PROVE  \E k \in 0..Len(layout) :
              /\ Reaches(walk.offset, file, layout, k) /\ Gathered(walk.raw, file, layout, k)
              /\ k < Len(layout) =>
                    /\ k + 1 \in 0..Len(layout) /\ walk.offset = layout[k + 1]
                    /\ WholeElement(file, walk.offset, walk.segmentEnd)
                    /\ Reaches(ElementEnd(file, walk.offset), file, layout, k + 1)
              /\ k = Len(layout) =>
                    \/ ~BeginsElement(file, walk.offset)
                    \/ /\ UnknownSize(file, walk.offset)
                       /\ ElementId(file, walk.offset) = "cluster"
<1>1. ElementStep(walk, src, file, layout)
  BY DEF InStep
<1>2. PICK k \in 0..Len(layout) : /\ Reaches(walk.offset, file, layout, k)
                                  /\ Gathered(walk.raw, file, layout, k)
  BY <1>1 DEF ElementStep
<1>3. walk.at \in ElementSteps
  BY DEF ElementSteps
<1>4. /\ walk.offset \in Nat /\ HasSegment(file)
      /\ walk.segmentEnd = SegmentEnd(file) /\ walk.offset < walk.segmentEnd
  BY <1>3 DEF WalkOf, MatroskaWalk, Walks
<1>5. SegmentEnd(file) \in Nat
  BY <1>4, SegmentFacts
<1>6. PICK offset \in Nat : offset = walk.offset
  BY <1>4
<1>7. /\ k < Len(layout) =>
            /\ k + 1 \in 1..Len(layout) /\ offset = layout[k + 1]
            /\ WholeElement(file, offset, SegmentEnd(file))
            /\ Reaches(ElementEnd(file, offset), file, layout, k + 1)
      /\ k = Len(layout) =>
            \/ offset = SegmentEnd(file)
            \/ ~BeginsElement(file, offset)
            \/ UnknownSize(file, offset) /\ ElementId(file, offset) = "cluster"
  BY <1>2, <1>6, ReachedFacts
<1>8. offset # SegmentEnd(file)
  BY <1>4, <1>5, <1>6
<1>9. k < Len(layout) => k + 1 \in 0..Len(layout)
  BY <1>7
<1> QED
  BY <1>2, <1>4, <1>6, <1>7, <1>8, <1>9

LEMMA ElementFollows ==
    ASSUME FileOf(file), WalkOf(walk, file), walk.at = "element", InStep(walk, src, file),
           NEW r, ElementOutcome(r)
    PROVE  Follows(r)
<1>1. /\ Ebml(file) /\ walk \in Walks /\ walk.offset \in Nat
      /\ HasSegment(file) /\ walk.segmentEnd = SegmentEnd(file)
  BY DEF WalkOf, ElementSteps, MatroskaWalk, Walks
<1>2. ASSUME NEW layout \in Seq(Nat)
      PROVE  ~Mp4Chain(file, layout)
  BY <1>1, ChainFacts
<1>3. CASE Prefixed(r, walk) /\ EndsHere(r)
  <2>1. ASSUME NEW layout \in Seq(Nat), Orderly(file, layout)
        PROVE  ElementsRead(walk.raw, r.src, file, layout)
    <3>1. PICK k \in 0..Len(layout) :
             /\ Gathered(walk.raw, file, layout, k)
             /\ k < Len(layout) => /\ walk.offset = layout[k + 1]
                                   /\ WholeElement(file, walk.offset, walk.segmentEnd)
      BY <2>1, AtElement
    <3>2. CASE k = Len(layout)
      BY <3>1, <3>2 DEF ElementsRead, Complete
    <3>3. CASE k < Len(layout)
      <4>1. /\ BeginsElement(file, walk.offset) /\ ~UnknownSize(file, walk.offset)
            /\ ElementEnd(file, walk.offset) <= walk.segmentEnd /\ walk.offset = layout[k + 1]
        BY <3>1, <3>3 DEF WholeElement
      <4>2. ElementEnd(file, walk.offset) \in Nat /\ walk.segmentEnd \in Nat
        BY <1>1, <4>1, ElementFacts, SegmentFacts
      <4>3. \/ r.src.mishap
            \/ Sufficient /\ ElementId(file, layout[k + 1]) \notin ElementMetadata
        BY <1>3, <4>1, <4>2 DEF EndsHere
      <4> QED
        BY <3>1, <4>3 DEF ElementsRead, Complete, Sufficient
    <3> QED
      BY <2>1, <3>1, <3>2, <3>3, OrderlyFacts
  <2> QED
    BY <1>1, <1>3, <2>1, PrefixedFollows
<1>4. CASE Returns(r, Failed) /\ Unfit
  <2>1. ASSUME NEW layout \in Seq(Nat), Orderly(file, layout)
        PROVE  FALSE
    <3>1. PICK k \in 0..Len(layout) :
             /\ k < Len(layout) => /\ k + 1 \in 0..Len(layout) /\ walk.offset = layout[k + 1]
                                   /\ WholeElement(file, walk.offset, walk.segmentEnd)
             /\ k = Len(layout) =>
                   \/ ~BeginsElement(file, walk.offset)
                   \/ /\ UnknownSize(file, walk.offset)
                      /\ ElementId(file, walk.offset) = "cluster"
      BY <2>1, AtElement
    <3>2. CASE k = Len(layout)
      BY <1>4, <3>1, <3>2 DEF Unfit
    <3>3. CASE k < Len(layout)
      <4>1. ~UnknownSize(file, walk.offset) /\ walk.offset = layout[k + 1]
        BY <3>1, <3>3 DEF WholeElement
      <4>2. /\ ElementId(file, walk.offset) \in ElementMetadata
            /\ ElementSpan(file, walk.offset) > MaxMetadata
            /\ BeginsElement(file, walk.offset)
        BY <1>4, <4>1 DEF Unfit
      <4>3. k + 1 \in DOMAIN layout
        BY <3>1, <3>3
      <4>4. ElementSpan(file, walk.offset) <= MaxMetadata
        BY <2>1, <4>1, <4>2, <4>3 DEF Orderly
      <4>5. ElementSpan(file, walk.offset) \in Nat
        BY <1>1, <4>2, ElementFacts
      <4> QED
        BY <4>2, <4>4, <4>5, ProbingAssumption
    <3> QED
      BY <2>1, <3>1, <3>2, <3>3, OrderlyFacts
  <2>2. Failed.kind # "plan"
    BY Unplanned
  <2>3. ReadSoundly(Failed, r.src, file)
    BY <1>2, <2>1, <2>2 DEF ReadSoundly
  <2> QED
    BY <1>4, <2>3 DEF Follows
<1>5. ASSUME NEW e \in Items, Goes(r, [walk EXCEPT !.at = "metadata", !.item = e])
      PROVE  Follows(r)
  <2> DEFINE w == [walk EXCEPT !.at = "metadata", !.item = e]
  <2>1. w.at = "metadata" /\ w.raw = walk.raw /\ w.offset = walk.offset
    BY <1>1 DEF Walks
  <2> HIDE DEF w
  <2>2. ASSUME NEW layout \in Seq(Nat), Orderly(file, layout)
        PROVE  ElementStep(w, r.src, file, layout)
    <3>1. ElementStep(walk, src, file, layout)
      BY <2>2 DEF InStep
    <3> QED
      BY <2>1, <3>1 DEF ElementStep, ElementSteps
  <2>3. InStep(w, r.src, file)
    BY <1>2, <2>2 DEF InStep
  <2> QED
    BY <1>5, <2>3 DEF Follows, w
<1>6. CASE /\ WholeElement(file, walk.offset, walk.segmentEnd)
           /\ ElementId(file, walk.offset) \notin ElementMetadata
           /\ Onward(r, walk, ElementEnd(file, walk.offset))
  <2>1. BeginsElement(file, walk.offset) /\ ~UnknownSize(file, walk.offset)
    BY <1>6 DEF WholeElement
  <2>2. PICK offset \in Nat : offset = ElementEnd(file, walk.offset)
    BY <1>1, <2>1, ElementFacts
  <2>3. ASSUME NEW layout \in Seq(Nat), Orderly(file, layout)
        PROVE  \E k \in 0..Len(layout) : /\ Reaches(offset, file, layout, k)
                                         /\ Gathered(walk.raw, file, layout, k)
    <3>1. PICK k \in 0..Len(layout) :
             /\ Gathered(walk.raw, file, layout, k)
             /\ k < Len(layout) =>
                   /\ k + 1 \in 0..Len(layout) /\ walk.offset = layout[k + 1]
                   /\ Reaches(ElementEnd(file, walk.offset), file, layout, k + 1)
             /\ k = Len(layout) =>
                   \/ ~BeginsElement(file, walk.offset)
                   \/ /\ UnknownSize(file, walk.offset)
                      /\ ElementId(file, walk.offset) = "cluster"
      BY <2>3, AtElement
    <3>2. k < Len(layout)
      BY <2>1, <2>3, <3>1, OrderlyFacts
    <3>3. PICK m \in 0..Len(layout) : m = k + 1
      BY <3>1, <3>2
    <3>4. \A i \in 1..m : i \in 1..k \/ i = k + 1
      BY <3>3
    <3>5. ElementId(file, layout[k + 1]) \notin ElementMetadata
      BY <1>6, <3>1, <3>2
    <3>6. \A i \in 1..k : i \in 1..m
      BY <3>3
    <3>7. Gathered(walk.raw, file, layout, m)
      BY <3>1, <3>4, <3>5, <3>6 DEF Gathered
    <3> QED
      BY <2>2, <3>1, <3>2, <3>3, <3>7
  <2> QED
    BY <1>1, <1>6, <2>2, <2>3, OnwardFollows
<1> QED
  BY <1>3, <1>4, <1>5, <1>6 DEF ElementOutcome

LEMMA MetadataFollows ==
    ASSUME FileOf(file), WalkOf(walk, file), walk.at = "metadata", InStep(walk, src, file),
           NEW r, MetadataOutcome(r)
    PROVE  Follows(r)
<1> DEFINE id == ElementId(file, walk.offset)
           part == Slice(file, walk.offset, ElementSpan(file, walk.offset))
<1>1. /\ Ebml(file) /\ walk \in Walks /\ walk.offset \in Nat
      /\ WholeElement(file, walk.offset, walk.segmentEnd)
  BY DEF WalkOf, ElementSteps, MatroskaWalk, Walks
<1>2. ASSUME NEW layout \in Seq(Nat)
      PROVE  ~Mp4Chain(file, layout)
  BY <1>1, ChainFacts
<1>3. /\ Collected \in Walks /\ Collected.segmentEnd = SegmentEnd(file)
      /\ id \in ElementMetadata /\ part # <<>> /\ Collected.raw[id] = part
      /\ \A other \in ElementMetadata \ {id} : Collected.raw[other] = walk.raw[other]
      /\ ElementEnd(file, walk.offset) \in Nat
  BY Collecting DEF CollectedFacts
<1>4. PICK w \in Walks : w = Collected
  BY <1>3
<1>5. PICK offset \in Nat : offset = ElementEnd(file, walk.offset)
  BY <1>3
<1>6. ASSUME NEW layout \in Seq(Nat), Orderly(file, layout)
      PROVE  \E k \in 0..Len(layout) : /\ Reaches(offset, file, layout, k)
                                       /\ Gathered(w.raw, file, layout, k)
  <2>1. PICK k \in 0..Len(layout) :
           /\ Gathered(walk.raw, file, layout, k)
           /\ k < Len(layout) =>
                 /\ k + 1 \in 0..Len(layout) /\ walk.offset = layout[k + 1]
                 /\ Reaches(ElementEnd(file, walk.offset), file, layout, k + 1)
           /\ k = Len(layout) =>
                 \/ ~BeginsElement(file, walk.offset)
                 \/ /\ UnknownSize(file, walk.offset)
                    /\ ElementId(file, walk.offset) = "cluster"
    BY <1>6, AtElement
  <2>2. BeginsElement(file, walk.offset) /\ ~UnknownSize(file, walk.offset)
    BY <1>1 DEF WholeElement
  <2>3. k < Len(layout) /\ Len(layout) \in Nat
    BY <1>6, <2>1, <2>2, OrderlyFacts
  <2>4. PICK m \in 1..Len(layout) : m = k + 1
    BY <2>1, <2>3
  <2>5. walk.offset = layout[m] /\ Reaches(offset, file, layout, m)
    BY <1>5, <2>1, <2>3, <2>4
  <2>6. \A i \in 1..k : i \in 1..m /\ i # m /\ i \in DOMAIN layout
    BY <2>3, <2>4
  <2>7. \A i \in 1..k : ElementId(file, layout[i]) # id
    <3>1. m \in DOMAIN layout
      BY <2>3, <2>4
    <3> QED
      BY <1>3, <1>6, <2>5, <2>6, <3>1 DEF Orderly
  <2> HIDE DEF id, part
  <2>8. \A i \in 1..m : i \in 1..k \/ i = m
    BY <2>4
  <2>9. ElementId(file, layout[m]) = id
        /\ Slice(file, layout[m], ElementSpan(file, layout[m])) = part
    BY <2>5 DEF id, part
  <2>10. ASSUME NEW i \in 1..m, ElementId(file, layout[i]) \in ElementMetadata
         PROVE  w.raw[ElementId(file, layout[i])]
                   = Slice(file, layout[i], ElementSpan(file, layout[i]))
    <3>1. CASE i = m
      BY <1>3, <1>4, <2>9, <3>1
    <3>2. CASE i \in 1..k
      BY <1>3, <1>4, <2>1, <2>7, <2>10, <3>2 DEF Gathered
    <3> QED
      BY <2>8, <3>1, <3>2
  <2>11. ASSUME NEW other \in ElementMetadata, w.raw[other] # <<>>
         PROVE  \E i \in 1..m : ElementId(file, layout[i]) = other
    <3>1. CASE other = id
      <4>1. m \in 1..m
        BY <2>4
      <4> QED
        BY <2>9, <3>1, <4>1
    <3>2. CASE other # id
      <4>1. walk.raw[other] # <<>>
        BY <1>3, <1>4, <2>11, <3>2
      <4>2. PICK i \in 1..k : ElementId(file, layout[i]) = other
        BY <2>1, <4>1 DEF Gathered
      <4> QED
        BY <2>6, <4>2
    <3> QED
      BY <3>1, <3>2
  <2>12. Gathered(w.raw, file, layout, m) /\ m \in 0..Len(layout)
    BY <2>4, <2>10, <2>11 DEF Gathered
  <2> QED
    BY <2>5, <2>12
<1>7. CASE Returns(r, Failed) /\ r.src.mishap
  <2>1. Failed.kind # "plan"
    BY Unplanned
  <2>2. ReadSoundly(Failed, r.src, file)
    BY <1>2, <1>7, <2>1 DEF ReadSoundly
  <2> QED
    BY <1>7, <2>2 DEF Follows
<1>8. CASE (\A i \in ElementMetadata : Collected.raw[i] # <<>>) /\ Prefixed(r, Collected)
  <2>1. ASSUME NEW layout \in Seq(Nat), Orderly(file, layout)
        PROVE  ElementsRead(w.raw, r.src, file, layout)
    <3>1. PICK k \in 0..Len(layout) : Gathered(w.raw, file, layout, k)
      BY <1>6, <2>1
    <3>2. Complete(w.raw, file, layout, k)
      BY <1>4, <1>8 DEF Complete
    <3> QED
      BY <3>1, <3>2 DEF ElementsRead
  <2>2. Prefixed(r, w)
    BY <1>4, <1>8
  <2> QED
    BY <1>1, <2>1, <2>2, PrefixedFollows
<1>9. CASE Onward(r, Collected, ElementEnd(file, walk.offset))
  <2>1. Onward(r, w, offset) /\ w.segmentEnd = SegmentEnd(file)
    BY <1>3, <1>4, <1>5, <1>9
  <2> QED
    BY <1>1, <1>6, <2>1, OnwardFollows
<1> QED
  BY <1>7, <1>8, <1>9 DEF MetadataOutcome

LEMMA PrefixFollows ==
    ASSUME FileOf(file), WalkOf(walk, file), walk.at = "prefix", InStep(walk, src, file),
           NEW r, PrefixOutcome(r)
    PROVE  Follows(r)
<1>1. Ebml(file) /\ walk.raw \in Raws
  BY DEF WalkOf, ElementSteps, Walks, Raws
<1>2. ASSUME NEW layout \in Seq(Nat)
      PROVE  ~Mp4Chain(file, layout)
  BY <1>1, ChainFacts
<1>3. ASSUME NEW layout \in Seq(Nat), Orderly(file, layout)
      PROVE  ElementsRead(walk.raw, r.src, file, layout)
  <2>1. ElementsRead(walk.raw, src, file, layout)
    BY <1>3 DEF InStep, ElementStep
  <2>2. src.mishap => r.src.mishap
    BY DEF PrefixOutcome
  <2> QED
    BY <2>1, <2>2 DEF ElementsRead
<1>4. CASE Returns(r, Failed) /\ (r.src.mishap \/ ~Room(file, walk.raw))
  <2>1. Failed.kind # "plan"
    BY Unplanned
  <2>2. ReadSoundly(Failed, r.src, file)
    BY <1>1, <1>2, <1>3, <1>4, <2>1 DEF ReadSoundly
  <2> QED
    BY <1>4, <2>2 DEF Follows
<1>5. CASE /\ MatroskaPlanFrom(MatroskaPlan(file, walk.raw), file, walk.raw)
           /\ Returns(r, Result("plan", MatroskaPlan(file, walk.raw)))
  <2>1. PICK plan : plan = MatroskaPlan(file, walk.raw)
    OBVIOUS
  <2>2. PICK result : result = Result("plan", plan)
    OBVIOUS
  <2>3. result.kind = "plan" /\ result.plan = plan
    BY <2>2 DEF Result
  <2>4. MatroskaPlanFrom(plan, file, walk.raw)
    BY <1>5, <2>1
  <2>5. ReadSoundly(result, r.src, file)
    BY <1>1, <1>2, <1>3, <2>3, <2>4 DEF ReadSoundly
  <2> QED
    BY <1>5, <2>1, <2>2, <2>5 DEF Follows
<1> QED
  BY <1>4, <1>5 DEF PrefixOutcome

LEMMA NextFollows ==
    ASSUME ProbeInv, InStep(walk, src, file), Next
    PROVE  \E r : Takes(r) /\ Follows(r)
<1>1. FileOf(file) /\ SourceOf(src, file) /\ WalkOf(walk, file) /\ walk \in Walks
  BY DEF ProbeInv, WalkOf
<1>2. walk.at \in BoxSteps => Mp4Walk(walk, file)
  BY <1>1 DEF WalkOf
<1>3. walk.at \in ElementSteps => MatroskaWalk(walk, file)
  BY <1>1 DEF WalkOf
<1>4. CASE ReadHead
  <2>1. walk.at = "head" /\ walk = NewWalk
    BY <1>1, <1>4 DEF ReadHead, WalkOf
  <2>2. PICK r : HeadOutcome(r)
    BY <1>1, <1>4, <2>1, ReadHeadTakes
  <2> QED
    BY <1>1, <2>1, <2>2, HeadTakes, HeadFollows
<1>5. CASE RejectEmpty
  <2>1. walk.at = "head" /\ walk = NewWalk
    BY <1>1, <1>5 DEF RejectEmpty, WalkOf
  <2>2. PICK r : HeadOutcome(r)
    BY <1>1, <1>5, <2>1, RejectEmptyTakes
  <2> QED
    BY <1>1, <2>1, <2>2, HeadTakes, HeadFollows
<1>6. CASE ReadBox
  <2>1. walk.at = "box" /\ walk.at \in BoxSteps
    BY <1>6 DEF ReadBox, BoxSteps
  <2>2. PICK r : BoxOutcome(r)
    BY <1>1, <1>2, <1>6, <2>1, ReadBoxTakes
  <2> QED
    BY <1>1, <2>1, <2>2, BoxTakes, BoxFollows
<1>7. CASE ReadExtendedSize
  <2>1. walk.at = "box size" /\ walk.at \in BoxSteps
    BY <1>7 DEF ReadExtendedSize, BoxSteps
  <2>2. PICK r : BoxOutcome(r)
    BY <1>1, <1>2, <1>7, <2>1, ReadExtendedSizeTakes
  <2> QED
    BY <1>1, <2>1, <2>2, BoxTakes, BoxFollows
<1>8. CASE ReadBoxData
  <2>1. walk.at = "box data" /\ walk.at \in BoxSteps
    BY <1>8 DEF ReadBoxData, BoxSteps
  <2>2. PICK r : BoxOutcome(r)
    BY <1>1, <1>2, <1>8, <2>1, ReadBoxDataTakes
  <2> QED
    BY <1>1, <2>1, <2>2, BoxTakes, BoxFollows
<1>9. CASE ReadEBML
  <2>1. walk.at = "ebml" /\ walk.at \in ElementSteps
    BY <1>9 DEF ReadEBML, ElementSteps
  <2>2. PICK r : HeaderOutcome(r)
    BY <1>1, <1>3, <1>9, <2>1, ReadEBMLTakes
  <2> QED
    BY <1>1, <2>1, <2>2, EBMLTakes, EBMLFollows
<1>10. CASE ReadSegment
  <2>1. walk.at = "segment" /\ walk.at \in ElementSteps
    BY <1>10 DEF ReadSegment, ElementSteps
  <2>2. PICK r : SegmentOutcome(r)
    BY <1>1, <1>3, <1>10, <2>1, ReadSegmentTakes
  <2> QED
    BY <1>1, <2>1, <2>2, SegmentTakes, SegmentFollows
<1>11. CASE ReadElement
  <2>1. walk.at = "element" /\ walk.at \in ElementSteps
    BY <1>11 DEF ReadElement, ElementSteps
  <2>2. PICK r : ElementOutcome(r)
    BY <1>1, <1>3, <1>11, <2>1, ReadElementTakes
  <2> QED
    BY <1>1, <2>1, <2>2, ElementTakes, ElementFollows
<1>12. CASE ReadMetadata
  <2>1. walk.at = "metadata" /\ walk.at \in ElementSteps
    BY <1>12 DEF ReadMetadata, ElementSteps
  <2>2. PICK r : MetadataOutcome(r)
    BY <1>1, <1>3, <1>12, <2>1, ReadMetadataTakes
  <2> QED
    BY <1>1, <2>1, <2>2, MetadataTakes, MetadataFollows
<1>13. CASE ReadPrefix
  <2>1. walk.at = "prefix" /\ walk.at \in ElementSteps
    BY <1>13 DEF ReadPrefix, ElementSteps
  <2>2. PICK r : PrefixOutcome(r)
    BY <1>1, <1>3, <1>13, <2>1, ReadPrefixTakes
  <2> QED
    BY <1>1, <2>1, <2>2, PrefixTakes, PrefixFollows
<1> QED
  BY <1>4, <1>5, <1>6, <1>7, <1>8, <1>9, <1>10, <1>11, <1>12, <1>13 DEF Next

-----------------------------------------------------------------------------
(* The stub of sound media holds their metadata.                           *)

LEMMA HoldsPart ==
    ASSUME NEW s \in Seq(Cells), NEW part \in Seq(Cells), NEW at, PartAt(s, at, part)
    PROVE  Holds(s, part)
<1>1. /\ at \in Nat /\ Len(part) \in Nat /\ Len(s) \in Nat /\ at + Len(part) <= Len(s)
      /\ \A j \in 1..Len(part) : s[at + j] = part[j]
  BY DEF PartAt
<1>2. PICK n \in Nat : n = Len(part)
  BY <1>1
<1>3. /\ Slice(s, at, n) \in Seq(Cells) /\ Len(Slice(s, at, n)) = n
      /\ \A i \in 1..n : Slice(s, at, n)[i] = s[at + i]
  BY <1>1, <1>2, SliceOf
<1>4. \A i \in 1..n : Slice(s, at, n)[i] = part[i]
  BY <1>1, <1>2, <1>3
<1>5. Slice(s, at, n) = part
  BY <1>2, <1>3, <1>4, SeqEqual
<1>6. at \in 0..(Len(s) - n)
  BY <1>1, <1>2
<1> QED
  BY <1>2, <1>5, <1>6 DEF Holds

LEMMA Mp4Shown ==
    ASSUME NEW f, FileOf(f), NEW plan, Mp4PlanOf(plan, f), NEW s, s = PlanReadAt(plan, plan.size, 0)
    PROVE  /\ s \in Seq(Cells) /\ Len(s) = Len(f) /\ Len(plan.extents) \in Nat
           /\ \A k \in 1..Len(plan.extents) :
                 /\ KeepsBox(f, plan.extents[k])
                 /\ PartAt(s, plan.extents[k].offset, plan.extents[k].data)
<1> DEFINE p == plan.extents
<1>1. f \in Seq(Cells) /\ Len(f) \in Nat /\ Len(f) > HeaderSize /\ plan.size = Len(f)
  BY DEF FileOf, Mp4PlanOf, Mp4Head
<1>2. PICK end \in Nat : Trail(f, p, end)
  BY DEF Mp4PlanOf
<1>3. plan = Plan(Len(f), p)
  BY DEF Mp4PlanOf, Plans, Plan
<1>4. InOrder(plan) /\ plan.size > 0
  BY <1>1, <1>2, <1>3, TrailInOrder DEF HeaderSize
<1>5. /\ s \in Seq(Cells) /\ Len(s) = Len(f)
      /\ \A k \in 1..Len(p) : \A j \in 1..Len(p[k].data) :
            s[p[k].offset + j] = p[k].data[j]
  <2>1. Shows(s, plan)
    BY <1>4, PlanReads
  <2> QED
    BY <1>1, <2>1, Zenon DEF Shows
<1>6. Len(p) \in Nat /\ \A k \in 1..Len(p) : KeepsBox(f, p[k])
  BY <1>1, <1>2, TrailFacts
<1>7. ASSUME NEW k \in 1..Len(p)
      PROVE  PartAt(s, p[k].offset, p[k].data)
  <2>1. /\ p[k].offset \in Nat /\ EndOf(p[k]) \in Nat /\ EndOf(p[k]) <= Len(f)
    <3>1. /\ p[k].offset \in Nat /\ EndOf(p[k]) \in Nat
          /\ EndOf(p[k]) <= BoxEnd(f, p[k].offset)
          /\ BoxEnd(f, p[k].offset) <= Len(f) /\ BoxEnd(f, p[k].offset) \in Nat
      BY <1>6 DEF KeepsBox
    <3> QED
      BY <1>1, <3>1
  <2>2. EndOf(p[k]) = p[k].offset + Len(p[k].data)
    BY DEF EndOf
  <2> QED
    BY <1>5, <2>1, <2>2 DEF PartAt
<1> QED
  BY <1>5, <1>6, <1>7

LEMMA Mp4StubHolds ==
    ASSUME NEW f, FileOf(f), NEW layout \in Seq(Nat), SoundMp4(f, layout),
           NEW plan, BoxPlan(plan, f, layout), NEW s, s = PlanReadAt(plan, plan.size, 0)
    PROVE  \A part \in Mp4Metadata(f, layout) : Holds(s, part)
<1> DEFINE p == plan.extents
<1>1. /\ Mp4PlanOf(plan, f) /\ Len(p) <= Len(layout)
      /\ \A i \in 1..Len(p) : p[i].offset = layout[i]
  BY DEF BoxPlan
<1>2. /\ s \in Seq(Cells) /\ Len(p) \in Nat
      /\ \A k \in 1..Len(p) : KeepsBox(f, p[k]) /\ PartAt(s, p[k].offset, p[k].data)
  BY <1>1, Mp4Shown
<1>3. /\ Len(layout) \in Nat /\ DOMAIN layout = 1..Len(layout) /\ layout[1] = 0
      /\ BoxId(f, layout[1]) = "ftyp"
  <2>1. Mp4Chain(f, layout)
    BY DEF SoundMp4
  <2>2. layout[1] = 0 /\ BoxId(f, 0) = "ftyp"
    BY <2>1 DEF Mp4Chain
  <2> QED
    BY <2>2
<1>4. PICK m \in 1..Len(p) : BoxId(f, layout[m]) = "moov"
  <2>1. PICK m \in 1..Len(p) : BoxId(f, Offsets(p)[m]) = "moov"
    BY <1>1 DEF Mp4PlanOf, PassedIds, BoxIds
  <2>2. Offsets(p)[m] = layout[m]
    BY <1>1 DEF Offsets
  <2> QED
    BY <2>1, <2>2
<1>5. m \in 1..Len(layout) /\ 1 \in 1..Len(p) /\ 1 \in 1..Len(layout)
  BY <1>1, <1>2, <1>3, <1>4
<1>6. \A i, j \in 1..Len(layout) :
         i # j /\ BoxId(f, layout[i]) \in BoxMetadata => BoxId(f, layout[i]) # BoxId(f, layout[j])
  BY <1>3 DEF SoundMp4
<1>7. ASSUME NEW i \in 1..Len(layout), BoxId(f, layout[i]) \in BoxMetadata
      PROVE  i \in 1..Len(p)
  <2>1. CASE BoxId(f, layout[i]) = "ftyp"
    BY <1>3, <1>5, <1>6, <1>7, <2>1
  <2>2. CASE BoxId(f, layout[i]) = "moov"
    BY <1>4, <1>5, <1>6, <1>7, <2>2
  <2> QED
    BY <1>7, <2>1, <2>2 DEF BoxMetadata
<1>8. ASSUME NEW i \in 1..Len(layout), BoxId(f, layout[i]) \in BoxMetadata
      PROVE  Holds(s, Slice(f, layout[i], BoxSize(f, layout[i])))
  <2>1. i \in 1..Len(p)
    BY <1>7, <1>8
  <2>2. KeepsBox(f, p[i]) /\ PartAt(s, p[i].offset, p[i].data) /\ p[i].offset = layout[i]
    BY <1>1, <1>2, <2>1
  <2>3. p[i] = KeptPart(f, layout[i]) /\ p[i].data \in Seq(Cells)
    BY <2>2 DEF KeepsBox, Extents
  <2>4. p[i].data = Slice(f, layout[i], BoxSize(f, layout[i]))
    BY <1>8, <2>3 DEF KeptPart, KeptSize, Extent
  <2>5. Holds(s, p[i].data)
    BY <1>2, <2>2, <2>3, HoldsPart
  <2> QED
    BY <2>4, <2>5
<1> QED
  BY <1>3, <1>8 DEF Mp4Metadata

\* What was gathered of an element is the one there is.
LEMMA GatheredFacts ==
    ASSUME NEW f, FileOf(f), NEW layout \in Seq(Nat), Orderly(f, layout), NEW raw \in Raws,
           NEW k \in 0..Len(layout), Gathered(raw, f, layout, k), NEW id \in ElementMetadata
    PROVE  /\ raw[id] # <<>> => \E i \in 1..Len(layout) : ElementId(f, layout[i]) = id
           /\ \A i \in 1..Len(layout) :
                 raw[id] # <<>> /\ ElementId(f, layout[i]) = id =>
                     raw[id] = Slice(f, layout[i], ElementSpan(f, layout[i]))
           /\ \A i \in 1..k : ElementId(f, layout[i]) = id => raw[id] # <<>>
<1>1. Len(layout) \in Nat /\ DOMAIN layout = 1..Len(layout) /\ HasSegment(f)
      /\ \A i \in 1..Len(layout) : layout[i] \in Nat /\ WholeElement(f, layout[i], SegmentEnd(f))
  BY OrderlyFacts
<1>2. \A i \in 1..k : i \in 1..Len(layout)
  BY <1>1
<1>3. \A i, j \in 1..Len(layout) : ElementId(f, layout[i]) = id /\ ElementId(f, layout[j]) = id => i = j
  BY <1>1 DEF Orderly
<1>4. raw[id] # <<>> => \E i \in 1..k : ElementId(f, layout[i]) = id
  BY DEF Gathered
<1>5. \A i \in 1..k : ElementId(f, layout[i]) = id =>
         raw[id] = Slice(f, layout[i], ElementSpan(f, layout[i]))
  BY DEF Gathered
<1>6. ASSUME NEW i \in 1..Len(layout), raw[id] # <<>>, ElementId(f, layout[i]) = id
      PROVE  raw[id] = Slice(f, layout[i], ElementSpan(f, layout[i]))
  <2>1. PICK j \in 1..k : ElementId(f, layout[j]) = id
    BY <1>4, <1>6
  <2>2. i = j
    BY <1>2, <1>3, <1>6, <2>1
  <2> QED
    BY <1>5, <2>1, <2>2
<1>7. ASSUME NEW i \in 1..k, ElementId(f, layout[i]) = id
      PROVE  raw[id] # <<>>
  <2>1. /\ layout[i] \in Nat /\ BeginsElement(f, layout[i]) /\ ~UnknownSize(f, layout[i])
        /\ ElementEnd(f, layout[i]) <= SegmentEnd(f)
    BY <1>1, <1>2 DEF WholeElement
  <2>6. PICK at \in Nat : at = layout[i]
    BY <2>1
  <2>7. BeginsElement(f, at) /\ ~UnknownSize(f, at) /\ ElementEnd(f, at) <= SegmentEnd(f)
    BY <2>1, <2>6, Zenon
  <2>8. ElementSpan(f, at) \in Nat /\ ElementSpan(f, at) >= 2
    BY <2>7, ElementFacts, SMTT(30)
  <2>2. ElementSpan(f, layout[i]) \in Nat /\ ElementSpan(f, layout[i]) >= 2
    BY <2>6, <2>8
  <2>3. PICK n \in Nat : n = ElementSpan(f, layout[i])
    BY <2>2
  <2>4. 1 \in DOMAIN Slice(f, layout[i], n)
    BY <2>2, <2>3 DEF Slice
  <2>5. Slice(f, layout[i], n) # <<>>
    BY <2>4
  <2> QED
    BY <1>5, <1>7, <2>3, <2>5
<1> QED
  BY <1>2, <1>4, <1>6, <1>7

LEMMA MatroskaStubHolds ==
    ASSUME NEW f, FileOf(f), NEW layout \in Seq(Nat), SoundMatroska(f, layout),
           NEW raw \in Raws, NEW src0, ElementsRead(raw, src0, f, layout),
           NEW plan, MatroskaPlanFrom(plan, f, raw), NEW s, s = PlanReadAt(plan, plan.size, 0)
    PROVE  \A part \in MatroskaMetadata(f, layout) : Holds(s, part)
<1>1. Orderly(f, layout)
  BY DEF SoundMatroska, Orderly
<1>2. PICK k \in 0..Len(layout) : Gathered(raw, f, layout, k)
  BY DEF ElementsRead
<1>3. s \in Seq(Cells) /\ Arranged(s, f, raw)
  BY MatroskaStub DEF StubMade, FileOf
<1>4. raw["info"] # <<>> /\ raw["tracks"] # <<>>
  BY DEF MatroskaPlanFrom
<1>5. /\ raw["info"] \in Seq(Cells) /\ raw["tracks"] \in Seq(Cells)
      /\ {"info", "tracks"} \subseteq ElementMetadata
  BY DEF Raws, ElementMetadata
<1>6. Holds(s, raw["info"]) /\ Holds(s, raw["tracks"])
  BY <1>3, <1>5, HoldsPart DEF Arranged
<1>7. ASSUME NEW i \in DOMAIN layout, ElementId(f, layout[i]) \in {"info", "tracks"}
      PROVE  Holds(s, Slice(f, layout[i], ElementSpan(f, layout[i])))
  <2>1. PICK id \in {"info", "tracks"} : id = ElementId(f, layout[i])
    BY <1>7
  <2>2. raw[id] # <<>> /\ id \in ElementMetadata /\ i \in 1..Len(layout) /\ Holds(s, raw[id])
    BY <1>4, <1>5, <1>6
  <2>3. raw[id] = Slice(f, layout[i], ElementSpan(f, layout[i]))
    BY <1>1, <1>2, <2>1, <2>2, GatheredFacts
  <2> QED
    BY <2>2, <2>3
<1> QED
  BY <1>7 DEF MatroskaMetadata

LEMMA PrefixLength ==
    ASSUME NEW f, FileOf(f), HeaderSound(f), NEW raw \in Raws, BodyIn(f) \in Nat
    PROVE  /\ Len(raw["info"]) \in Nat /\ Len(raw["tracks"]) \in Nat /\ Len(raw["tags"]) \in Nat
           /\ Len(PrefixIn(f, raw)) = ElementEnd(f, 0) + Len(raw["info"]) + Len(raw["tracks"])
                                        + Len(raw["tags"]) + 2 * MaxElementHeader
<1> DEFINE h == ElementEnd(f, 0)
           p1 == Slice(f, 0, h)
           p2 == LongHeader("segment", BodyIn(f))
           p3 == raw["info"]
           p4 == raw["tracks"]
           p5 == raw["tags"]
           s2 == p1 \o p2
           s3 == s2 \o p3
           s4 == s3 \o p4
           s5 == s4 \o p5
           s6 == s5 \o EmptyCluster
<1>1. /\ p1 \in Seq(Cells) /\ Len(p1) = h /\ h \in Nat
  BY HeaderFacts
<1>2. /\ p2 \in Seq(Cells) /\ Len(p2) = 3 /\ MaxElementHeader = 3
      /\ EmptyCluster \in Seq(Cells) /\ Len(EmptyCluster) = 3
  BY HeaderCells, HeaderLengths DEF MaxElementHeader
<1>3. /\ p3 \in Seq(Cells) /\ Len(p3) \in Nat
      /\ p4 \in Seq(Cells) /\ Len(p4) \in Nat
      /\ p5 \in Seq(Cells) /\ Len(p5) \in Nat
  BY DEF Raws, ElementMetadata
<1> HIDE DEF p1, p2, p3, p4, p5, h
<1>4. s2 \in Seq(Cells) /\ Len(s2) = h + 3
  <2>1. s2 \in Seq(Cells) /\ Len(s2) = Len(p1) + Len(p2)
    BY <1>1, <1>2, Joined
  <2> QED
    BY <1>1, <1>2, <2>1
<1> HIDE DEF s2
<1>5. s3 \in Seq(Cells) /\ Len(s3) = Len(s2) + Len(p3)
  BY <1>3, <1>4, Joined
<1> HIDE DEF s3
<1>6. s4 \in Seq(Cells) /\ Len(s4) = Len(s3) + Len(p4)
  BY <1>3, <1>5, Joined
<1> HIDE DEF s4
<1>7. s5 \in Seq(Cells) /\ Len(s5) = Len(s4) + Len(p5)
  BY <1>3, <1>6, Joined
<1> HIDE DEF s5
<1>8. s6 \in Seq(Cells) /\ Len(s6) = Len(s5) + 3
  <2>1. s6 \in Seq(Cells) /\ Len(s6) = Len(s5) + Len(EmptyCluster)
    BY <1>2, <1>7, Joined
  <2> QED
    BY <1>2, <2>1
<1>9. Len(s6) = h + Len(p3) + Len(p4) + Len(p5) + 6
  BY <1>1, <1>3, <1>4, <1>5, <1>6, <1>7, <1>8
<1>10. s6 = PrefixIn(f, raw)
  BY DEF s6, s5, s4, s3, s2, p1, p2, p3, p4, p5, h, PrefixIn
<1> QED
  BY <1>2, <1>3, <1>9, <1>10 DEF h, p3, p4, p5

\* What was gathered of a kind of metadata is no longer than what there is.
LEMMA GatheredLength ==
    ASSUME NEW f, FileOf(f), NEW layout \in Seq(Nat), Orderly(f, layout), NEW raw \in Raws,
           NEW k \in 0..Len(layout), Gathered(raw, f, layout, k), NEW id \in ElementMetadata
    PROVE  SpanOf(f, layout, id) \in Nat /\ Len(raw[id]) <= SpanOf(f, layout, id)
<1>1. Len(layout) \in Nat /\ DOMAIN layout = 1..Len(layout)
      /\ \A i \in 1..Len(layout) : layout[i] \in Nat /\ WholeElement(f, layout[i], SegmentEnd(f))
  BY OrderlyFacts
<1>2. CASE \E i \in DOMAIN layout : ElementId(f, layout[i]) = id
  <2> DEFINE c == CHOOSE i \in DOMAIN layout : ElementId(f, layout[i]) = id
  <2>1. c \in DOMAIN layout /\ ElementId(f, layout[c]) = id
    BY <1>2
  <2>2. SpanOf(f, layout, id) = ElementSpan(f, layout[c])
    BY <1>2 DEF SpanOf
  <2> HIDE DEF c
  <2>3. layout[c] \in Nat /\ BeginsElement(f, layout[c]) /\ c \in 1..Len(layout)
    BY <1>1, <2>1 DEF WholeElement
  <2>4. PICK n \in Nat : n = ElementSpan(f, layout[c])
    BY <2>3, ElementFacts
  <2>5. CASE raw[id] = <<>>
    <3>1. Len(raw[id]) = 0
      BY <2>5
    <3> QED
      BY <2>2, <2>4, <3>1
  <2>6. CASE raw[id] # <<>>
    <3>1. raw[id] = Slice(f, layout[c], n)
      BY <2>1, <2>3, <2>4, <2>6, GatheredFacts
    <3>2. Len(Slice(f, layout[c], n)) = n
      BY DEF Slice
    <3> QED
      BY <2>2, <2>4, <3>1, <3>2
  <2> QED
    BY <2>5, <2>6
<1>3. CASE ~\E i \in DOMAIN layout : ElementId(f, layout[i]) = id
  <2>1. raw[id] = <<>>
    BY <1>1, <1>3, GatheredFacts
  <2>2. SpanOf(f, layout, id) = 0
    BY <1>3 DEF SpanOf
  <2>3. Len(raw[id]) = 0
    BY <2>1
  <2> QED
    BY <2>2, <2>3
<1> QED
  BY <1>2, <1>3

\* A walk over a sound file that nothing disturbed finds what it needs.
LEMMA SoundIsComplete ==
    ASSUME NEW f, FileOf(f), NEW layout \in Seq(Nat), SoundMatroska(f, layout),
           NEW raw \in Raws, NEW src0, ElementsRead(raw, src0, f, layout), ~src0.mishap
    PROVE  raw["info"] # <<>> /\ raw["tracks"] # <<>> /\ Room(f, raw)
<1>1. Orderly(f, layout)
  BY DEF SoundMatroska, Orderly
<1>2. PICK k \in 0..Len(layout) : Gathered(raw, f, layout, k) /\ Complete(raw, f, layout, k)
  BY DEF ElementsRead
<1>3. /\ {"info", "tracks"} \subseteq {ElementId(f, layout[i]) : i \in DOMAIN layout}
      /\ Len(f) - ElementEnd(f, 0) - MaxElementHeader < Unknown[2]
      /\ ElementEnd(f, 0) + SpanOf(f, layout, "info") + SpanOf(f, layout, "tracks")
            + SpanOf(f, layout, "tags") + 3 * MaxElementHeader <= Len(f)
  BY DEF SoundMatroska
<1>4. HeaderSound(f) /\ Len(layout) \in Nat /\ DOMAIN layout = 1..Len(layout)
  BY <1>1, OrderlyFacts
<1>5. {"info", "tracks", "tags"} = ElementMetadata
  BY DEF ElementMetadata
<1>6. ASSUME NEW id \in {"info", "tracks"}
      PROVE  raw[id] # <<>>
  <2>1. PICK i \in 1..Len(layout) : ElementId(f, layout[i]) = id
    BY <1>3, <1>4
  <2>2. CASE k = Len(layout)
    BY <1>1, <1>2, <1>5, <2>1, <2>2, GatheredFacts
  <2>3. CASE raw["info"] # <<>> /\ raw["tracks"] # <<>>
    BY <2>3
  <2>4. CASE \A other \in ElementMetadata : raw[other] # <<>>
    BY <1>5, <2>4
  <2> QED
    BY <1>2, <2>2, <2>3, <2>4 DEF Complete
<1>7. /\ ElementEnd(f, 0) \in Nat /\ Len(f) \in Nat /\ Unknown[2] \in Nat /\ MaxElementHeader = 3
  BY <1>4, HeaderFacts, UnknownAssumption DEF FileOf, MaxElementHeader
<1>8. /\ SpanOf(f, layout, "info") \in Nat /\ Len(raw["info"]) <= SpanOf(f, layout, "info")
      /\ SpanOf(f, layout, "tracks") \in Nat /\ Len(raw["tracks"]) <= SpanOf(f, layout, "tracks")
      /\ SpanOf(f, layout, "tags") \in Nat /\ Len(raw["tags"]) <= SpanOf(f, layout, "tags")
  <2>1. \A id \in ElementMetadata :
           SpanOf(f, layout, id) \in Nat /\ Len(raw[id]) <= SpanOf(f, layout, id)
    BY <1>1, <1>2, GatheredLength
  <2> QED
    BY <1>5, <2>1
<1> DEFINE h == ElementEnd(f, 0)
           a == SpanOf(f, layout, "info")
           b == SpanOf(f, layout, "tracks")
           c == SpanOf(f, layout, "tags")
<1> HIDE DEF h, a, b, c
<1>9. /\ h \in Nat /\ a \in Nat /\ b \in Nat /\ c \in Nat
      /\ h + a + b + c + 9 <= Len(f) /\ Len(f) - h - 3 < Unknown[2]
  BY <1>3, <1>7, <1>8 DEF h, a, b, c
<1>10. BodyIn(f) = Len(f) - h - 3
  BY <1>7 DEF BodyIn, h
<1>11. BodyIn(f) \in Nat /\ BodyIn(f) \in 3..(Unknown[2] - 1)
  BY <1>7, <1>9, <1>10
<1>12. /\ Len(raw["info"]) \in Nat /\ Len(raw["tracks"]) \in Nat /\ Len(raw["tags"]) \in Nat
       /\ Len(PrefixIn(f, raw)) = h + Len(raw["info"]) + Len(raw["tracks"])
                                    + Len(raw["tags"]) + 6
  <2>1. /\ Len(raw["info"]) \in Nat /\ Len(raw["tracks"]) \in Nat /\ Len(raw["tags"]) \in Nat
        /\ Len(PrefixIn(f, raw)) = ElementEnd(f, 0) + Len(raw["info"]) + Len(raw["tracks"])
                                     + Len(raw["tags"]) + 2 * MaxElementHeader
    BY <1>4, <1>11, PrefixLength
  <2> QED
    BY <1>7, <2>1 DEF h
<1>13. PayloadIn(f, raw) >= 0
  <2>1. PayloadIn(f, raw) = Len(f) - Len(PrefixIn(f, raw)) - 3
    BY <1>7 DEF PayloadIn
  <2>2. Len(raw["info"]) <= a /\ Len(raw["tracks"]) <= b /\ Len(raw["tags"]) <= c
    BY <1>8 DEF a, b, c
  <2>3. PICK x \in Nat, y \in Nat, z \in Nat :
           x = Len(raw["info"]) /\ y = Len(raw["tracks"]) /\ z = Len(raw["tags"])
    BY <1>12
  <2>4. PICK all \in Nat : all = Len(f)
    BY <1>7
  <2>5. PICK part : part = Len(PrefixIn(f, raw))
    OBVIOUS
  <2>6. part = h + x + y + z + 6 /\ h + a + b + c + 9 <= all /\ x <= a /\ y <= b /\ z <= c
    BY <1>9, <1>12, <2>2, <2>3, <2>4, <2>5
  <2>7. all - part - 3 >= 0
    BY <1>9, <2>6
  <2> QED
    BY <2>1, <2>4, <2>5, <2>7
<1> QED
  BY <1>6, <1>7, <1>11, <1>13 DEF Room

\* What the first probe of an object returns, if the object is sound.
LEMMA SoundStub ==
    ASSUME NEW f, FileOf(f), NEW layout \in Seq(Nat), NEW result, NEW src0,
           ReadSoundly(result, src0, f)
    PROVE  /\ SoundMp4(f, layout) =>
                 \/ result.kind # "plan" /\ src0.mishap
                 \/ /\ result.kind = "plan"
                    /\ \A part \in Mp4Metadata(f, layout) : Holds(Stub(result), part)
           /\ SoundMatroska(f, layout) =>
                 \/ result.kind # "plan" /\ src0.mishap
                 \/ /\ result.kind = "plan"
                    /\ \A part \in MatroskaMetadata(f, layout) : Holds(Stub(result), part)
<1>1. ASSUME SoundMp4(f, layout), ~(result.kind # "plan" /\ src0.mishap)
      PROVE  /\ result.kind = "plan"
             /\ \A part \in Mp4Metadata(f, layout) : Holds(Stub(result), part)
  <2>1. Mp4Chain(f, layout)
    BY <1>1 DEF SoundMp4
  <2>2. result.kind = "plan" /\ BoxPlan(result.plan, f, layout)
    BY <1>1, <2>1 DEF ReadSoundly
  <2> QED
    BY <1>1, <2>2, Mp4StubHolds DEF Stub
<1>2. ASSUME SoundMatroska(f, layout), ~(result.kind # "plan" /\ src0.mishap)
      PROVE  /\ result.kind = "plan"
             /\ \A part \in MatroskaMetadata(f, layout) : Holds(Stub(result), part)
  <2>1. Orderly(f, layout)
    BY <1>2 DEF SoundMatroska, Orderly
  <2>2. \/ /\ result.kind # "plan"
           /\ \E raw \in Raws :
                 /\ ElementsRead(raw, src0, f, layout)
                 /\ ~(raw["info"] # <<>> /\ raw["tracks"] # <<>> /\ Room(f, raw))
        \/ /\ result.kind = "plan"
           /\ \E raw \in Raws : /\ ElementsRead(raw, src0, f, layout)
                                /\ MatroskaPlanFrom(result.plan, f, raw)
    BY <1>2, <2>1 DEF ReadSoundly
  <2>3. result.kind = "plan"
    BY <1>2, <2>2, SoundIsComplete
  <2>4. PICK raw \in Raws : /\ ElementsRead(raw, src0, f, layout)
                            /\ MatroskaPlanFrom(result.plan, f, raw)
    BY <2>2, <2>3
  <2> QED
    BY <1>2, <2>3, <2>4, MatroskaStubHolds DEF Stub
<1> QED
  BY <1>1, <1>2

-----------------------------------------------------------------------------
(* A stub is rescanned to the plan it was made from.                       *)

LEMMA Mp4StubChain ==
    ASSUME NEW f, FileOf(f), NEW plan, Mp4PlanOf(plan, f),
           NEW layout, layout = Offsets(plan.extents)
    PROVE  /\ layout \in Seq(Nat) /\ Mp4Chain(f, layout) /\ Len(layout) = Len(plan.extents)
           /\ plan.extents \in Seq(Extents)
           /\ \A i \in 1..Len(layout) :
                 /\ layout[i] = plan.extents[i].offset
                 /\ plan.extents[i] = KeptPart(f, layout[i])
<1> DEFINE p == plan.extents
<1>1. f \in Seq(Cells) /\ Len(f) \in Nat /\ Mp4Head(f)
      /\ "moov" \in PassedIds(f, p, Len(p))
  BY DEF FileOf, Mp4PlanOf
<1>2. PICK end \in Nat : /\ Trail(f, p, end)
                         /\ Enough \subseteq PassedIds(f, p, Len(p)) \/ end >= Len(f)
  BY DEF Mp4PlanOf
<1>3. /\ p \in Seq(Extents) /\ Len(p) \in Nat /\ end <= Len(f)
      /\ \A k \in 1..Len(p) : p[k].offset \in Nat
  BY <1>1, <1>2, TrailFacts DEF KeepsBox
<1> HIDE DEF p
<1>4. /\ layout \in Seq(Nat) /\ Len(layout) = Len(p) /\ DOMAIN layout = 1..Len(p)
      /\ \A i \in 1..Len(p) : layout[i] = p[i].offset
  BY <1>3 DEF Offsets, p
<1>5. PassedIds(f, p, Len(p)) = BoxIds(f, layout, Len(layout))
  BY <1>4 DEF PassedIds, p
<1>6. Len(p) > 0 /\ p # <<>>
  <2>1. 1..Len(p) # {}
    BY <1>1, <1>4, <1>5 DEF BoxIds
  <2> QED
    BY <1>3, <2>1
<1>7. layout # <<>> /\ layout[1] = 0 /\ end = BoxEnd(f, layout[Len(layout)])
  BY <1>2, <1>3, <1>4, <1>6 DEF Trail
<1>8. ASSUME NEW i \in 1..Len(p)
      PROVE  WholeBox(f, layout[i]) /\ p[i] = KeptPart(f, layout[i])
  BY <1>2, <1>4 DEF Trail
<1>9. ASSUME NEW i \in 1..(Len(p) - 1)
      PROVE  layout[i + 1] = BoxEnd(f, layout[i])
  <2>1. i \in 1..Len(p) /\ i + 1 \in 1..Len(p)
    BY <1>3
  <2> QED
    BY <1>2, <1>4, <2>1 DEF Trail
<1>10. \/ "mdat" \in BoxIds(f, layout, Len(layout))
       \/ BoxEnd(f, layout[Len(layout)]) = Len(f)
  <2>1. CASE Enough \subseteq PassedIds(f, p, Len(p))
    BY <1>5, <2>1 DEF Enough
  <2>2. CASE end >= Len(f)
    BY <1>1, <1>3, <1>7, <2>2
  <2> QED
    BY <1>2, <2>1, <2>2
<1>11. Mp4Chain(f, layout)
  BY <1>1, <1>4, <1>5, <1>7, <1>8, <1>9, <1>10 DEF Mp4Chain, Mp4Head
<1> QED
  BY <1>3, <1>4, <1>8, <1>11 DEF p

LEMMA Mp4Rescan ==
    ASSUME NEW f, FileOf(f), NEW plan, Mp4PlanOf(plan, f),
           NEW result, NEW src0, ReadSoundly(result, src0, f)
    PROVE  src0.mishap \/ (result.kind = "plan" /\ result.plan = plan)
<1> SUFFICES ASSUME ~src0.mishap PROVE result.kind = "plan" /\ result.plan = plan
  OBVIOUS
<1>1. PICK layout : layout = Offsets(plan.extents)
  OBVIOUS
<1>2. PICK p : p = plan.extents
  OBVIOUS
<1>3. PICK q : q = result.plan.extents
  OBVIOUS
<1>4. /\ layout \in Seq(Nat) /\ Mp4Chain(f, layout) /\ Len(layout) = Len(p)
      /\ p \in Seq(Extents) /\ Len(p) \in Nat
      /\ \A i \in 1..Len(p) : layout[i] = p[i].offset /\ p[i] = KeptPart(f, layout[i])
  BY <1>1, <1>2, Mp4StubChain
<1>5. result.kind = "plan" /\ BoxPlan(result.plan, f, layout)
  BY <1>4 DEF ReadSoundly
<1>6. /\ Mp4PlanOf(result.plan, f) /\ Len(q) <= Len(p)
      /\ \A i \in 1..Len(q) : q[i].offset = layout[i]
      /\ Enough \subseteq PassedIds(f, q, Len(q)) \/ Len(q) = Len(p)
  BY <1>3, <1>4, <1>5 DEF BoxPlan
<1>7. /\ q \in Seq(Extents) /\ Len(q) \in Nat
      /\ \A i \in 1..Len(q) : q[i] = KeptPart(f, q[i].offset)
  <2>1. f \in Seq(Cells)
    BY DEF FileOf
  <2>2. PICK end \in Nat : Trail(f, q, end)
    BY <1>3, <1>6 DEF Mp4PlanOf
  <2> QED
    BY <2>1, <2>2, TrailFacts DEF KeepsBox
<1>8. \A i \in 1..Len(q) : q[i] = p[i]
  BY <1>4, <1>6, <1>7
<1>9. Len(q) = Len(p)
  <2> SUFFICES ASSUME Len(q) < Len(p), Enough \subseteq PassedIds(f, q, Len(q)) PROVE FALSE
    BY <1>4, <1>6, <1>7
  <2>1. PICK n \in Nat : n = Len(q)
    BY <1>7
  <2>2. n # 0
    <3>1. CASE n = 0
      BY <2>1, <3>1 DEF PassedIds, BoxIds, Enough
    <3> QED
      BY <3>1
  <2>3. n \in 1..(Len(p) - 1)
    BY <1>4, <2>1, <2>2
  <2>4. PassedIds(f, q, n) = PassedIds(f, p, n)
    <3>1. PICK a : a = Offsets(q)
      OBVIOUS
    <3>2. PICK b : b = Offsets(p)
      OBVIOUS
    <3>3. \A i \in 1..n : a[i] = b[i]
      BY <1>4, <1>8, <2>1, <2>3, <3>1, <3>2 DEF Offsets
    <3>4. n \in 0..n
      OBVIOUS
    <3> QED
      BY <3>1, <3>2, <3>3, <3>4, BoxIdsAgree DEF PassedIds
  <2>5. ~(Enough \subseteq PassedIds(f, p, n))
    BY <1>2, <2>3 DEF Mp4PlanOf, Trail
  <2> QED
    BY <2>1, <2>4, <2>5
<1>10. q = p
  BY <1>4, <1>7, <1>8, <1>9, SeqEqual
<1>11. result.plan \in Plans /\ plan \in Plans /\ result.plan.size = plan.size
  BY <1>6 DEF Mp4PlanOf
<1>12. result.plan = plan
  <2>1. PICK a \in Plans, b \in Plans : a = result.plan /\ b = plan
    BY <1>11
  <2>2. a.size = b.size /\ a.extents = b.extents
    BY <1>2, <1>3, <1>10, <1>11, <2>1
  <2>3. /\ a = [size |-> a.size, extents |-> a.extents]
        /\ b = [size |-> b.size, extents |-> b.extents]
    BY DEF Plans
  <2>4. a = b
    BY <2>2, <2>3
  <2> QED
    BY <2>1, <2>4
<1> QED
  BY <1>5, <1>12

LEMMA LongElement ==
    ASSUME NEW s \in Seq(Cells), NEW at, NEW id \in {"segment", "void"}, NEW size \in Nat,
           size < Unknown[2], PartAt(s, at, LongHeader(id, size))
    PROVE  /\ at \in Nat /\ at + 3 <= Len(s)
           /\ BeginsElement(s, at) /\ ElementId(s, at) = id /\ ElementHeader(s, at) = 3
           /\ ~UnknownSize(s, at) /\ ElementEnd(s, at) = at + 3 + size
<1>1. /\ LongHeader(id, size)[1] = Cell(id, 0) /\ LongHeader(id, size)[2] = Cell("long", size)
      /\ Len(LongHeader(id, size)) = 3
  BY DEF LongHeader
<1>2. /\ at \in Nat /\ at + 3 <= Len(s) /\ Len(s) \in Nat
      /\ s[at + 1] = Cell(id, 0) /\ s[at + 2] = Cell("long", size)
  BY <1>1 DEF PartAt
<1>3. Cell(id, 0).id = id /\ Cell("long", size).n = size /\ SizeLength(Cell("long", size)) = 2
  <2>1. SizeLength(Cell("long", size)) = 2
    BY SizeLengths
  <2> QED
    BY <2>1 DEF Cell
<1>4. ElementId(s, at) = id /\ ElementHeader(s, at) = 3 /\ SizeLength(s[at + 2]) = 2
  BY <1>2, <1>3 DEF ElementId, ElementHeader
<1>5. id \in ElementIds
  BY DEF ElementIds
<1>6. BeginsElement(s, at)
  BY <1>2, <1>4, <1>5 DEF BeginsElement
<1>7. ~UnknownSize(s, at)
  BY <1>2, <1>3, UnknownAssumption DEF UnknownSize
<1>8. ElementEnd(s, at) = at + 3 + size
  BY <1>2, <1>3, <1>4 DEF ElementEnd, ElementSpan
<1> QED
  BY <1>2, <1>4, <1>6, <1>7, <1>8

LEMMA ClusterElement ==
    ASSUME NEW s \in Seq(Cells), NEW at, PartAt(s, at, EmptyCluster)
    PROVE  /\ at \in Nat /\ at + 3 <= Len(s)
           /\ BeginsElement(s, at) /\ ElementId(s, at) = "cluster"
           /\ ~UnknownSize(s, at) /\ ElementEnd(s, at) = at + 3
<1>1. /\ EmptyCluster[1] = Cell("cluster", 0) /\ EmptyCluster[2] = Cell("short", 1)
      /\ Len(EmptyCluster) = 3
  BY DEF EmptyCluster
<1>2. /\ at \in Nat /\ at + 3 <= Len(s) /\ Len(s) \in Nat
      /\ s[at + 1] = Cell("cluster", 0) /\ s[at + 2] = Cell("short", 1)
  BY <1>1 DEF PartAt
<1>3. Cell("cluster", 0).id = "cluster" /\ Cell("short", 1).n = 1 /\ SizeLength(Cell("short", 1)) = 1
  <2>1. SizeLength(Cell("short", 1)) = 1
    BY SizeLengths
  <2> QED
    BY <2>1 DEF Cell
<1>4. ElementId(s, at) = "cluster" /\ ElementHeader(s, at) = 2 /\ SizeLength(s[at + 2]) = 1
  BY <1>2, <1>3 DEF ElementId, ElementHeader
<1>5. "cluster" \in ElementIds
  BY DEF ElementIds
<1>6. BeginsElement(s, at)
  BY <1>2, <1>4, <1>5 DEF BeginsElement
<1>7. ~UnknownSize(s, at)
  BY <1>2, <1>3, UnknownAssumption DEF UnknownSize
<1>8. ElementEnd(s, at) = at + 3
  BY <1>2, <1>3, <1>4 DEF ElementEnd, ElementSpan
<1> QED
  BY <1>2, <1>4, <1>6, <1>7, <1>8

\* A whole element of this kind is at `at', and ends there.
Sits(f, at, id, end) ==
    /\ at \in Nat /\ WholeElement(f, at, Len(f))
    /\ ElementId(f, at) = id /\ ElementEnd(f, at) = end

\* The element that was kept of this kind.
IsKept(f, at, id, raw) ==
    /\ ElementSpan(f, at) <= MaxMetadata
    /\ Slice(f, at, ElementSpan(f, at)) = raw[id]

LEMMA StubSegment ==
    ASSUME NEW f, NEW plan, NEW raw, StubMade(f, plan, raw)
    PROVE  HasSegment(f) /\ SegmentBody(f) = InfoAt(f) /\ SegmentEnd(f) = Len(f)
<1>1. /\ FileOf(f) /\ HeaderSound(f) /\ Room(f, raw) /\ Arranged(f, f, raw)
      /\ f \in Seq(Cells) /\ Len(f) \in Nat
  BY DEF StubMade, MatroskaPlanFrom, FileOf
<1>2. PICK h \in Nat : h = ElementEnd(f, 0)
  BY <1>1, HeaderFacts
<1>3. PICK size : size = BodyIn(f)
  OBVIOUS
<1>4. /\ size \in Nat /\ size < Unknown[2] /\ h + 3 + size = Len(f)
  BY <1>1, <1>2, <1>3, UnknownAssumption, SMTT(30) DEF Room, BodyIn, MaxElementHeader
<1>5. PartAt(f, h, LongHeader("segment", size))
  BY <1>1, <1>2, <1>3 DEF Arranged
<1>6. /\ BeginsElement(f, h) /\ ElementId(f, h) = "segment" /\ ElementHeader(f, h) = 3
      /\ ~UnknownSize(f, h) /\ ElementEnd(f, h) = Len(f)
  BY <1>1, <1>4, <1>5, LongElement
<1>7. HasSegment(f)
  BY <1>1, <1>2, <1>6 DEF HasSegment, HeaderSound
<1>8. SegmentBody(f) = InfoAt(f)
  BY <1>2, <1>6 DEF SegmentBody, InfoAt, MaxElementHeader
<1>9. SegmentEnd(f) = Len(f)
  BY <1>2, <1>6 DEF SegmentEnd
<1> QED
  BY <1>7, <1>8, <1>9

LEMMA StubSits ==
    ASSUME NEW f, NEW plan, NEW raw, StubMade(f, plan, raw)
    PROVE  /\ Sits(f, InfoAt(f), "info", TracksAt(f, raw)) /\ IsKept(f, InfoAt(f), "info", raw)
           /\ Sits(f, TracksAt(f, raw), "tracks", TagsAt(f, raw))
           /\ IsKept(f, TracksAt(f, raw), "tracks", raw)
           /\ raw["tags"] # <<>> =>
                 /\ Sits(f, TagsAt(f, raw), "tags", ClusterAt(f, raw))
                 /\ IsKept(f, TagsAt(f, raw), "tags", raw)
           /\ Sits(f, ClusterAt(f, raw), "cluster", VoidAt(f, raw))
           /\ Sits(f, VoidAt(f, raw), "void", Len(f))
<1>1. /\ FileOf(f) /\ HeaderSound(f) /\ Room(f, raw) /\ RawSound(raw) /\ Arranged(f, f, raw)
      /\ f \in Seq(Cells) /\ Len(f) \in Nat /\ raw["info"] # <<>> /\ raw["tracks"] # <<>>
  BY DEF StubMade, MatroskaPlanFrom, FileOf
<1>2. ASSUME NEW id \in ElementMetadata, raw[id] # <<>>, NEW at, PartAt(f, at, raw[id])
      PROVE  Sits(f, at, id, at + Len(raw[id])) /\ IsKept(f, at, id, raw)
  <2>1. PICK part \in Seq(Cells) : part = raw[id]
    BY <1>1, RawFacts
  <2>2. IsWhole(part, id) /\ PartAt(f, at, part)
    BY <1>1, <1>2, <2>1 DEF RawSound
  <2>3. /\ at \in Nat /\ at + Len(part) <= Len(f)
        /\ BeginsElement(f, at) /\ ~UnknownSize(f, at) /\ ElementId(f, at) = id
        /\ ElementSpan(f, at) = Len(part) /\ ElementEnd(f, at) = at + Len(part)
        /\ Slice(f, at, Len(part)) = part
    BY <1>1, <2>2, WholePart
  <2>4. Len(part) <= MaxMetadata
    BY <2>2 DEF IsWhole
  <2> QED
    BY <2>1, <2>3, <2>4 DEF Sits, IsKept, WholeElement
<1>3. {"info", "tracks", "tags"} = ElementMetadata
  BY DEF ElementMetadata
<1>4. /\ PartAt(f, InfoAt(f), raw["info"]) /\ PartAt(f, TracksAt(f, raw), raw["tracks"])
      /\ PartAt(f, TagsAt(f, raw), raw["tags"]) /\ PartAt(f, ClusterAt(f, raw), EmptyCluster)
      /\ PartAt(f, VoidAt(f, raw), LongHeader("void", PayloadIn(f, raw)))
  BY <1>1 DEF Arranged
<1>5. /\ Sits(f, InfoAt(f), "info", TracksAt(f, raw)) /\ IsKept(f, InfoAt(f), "info", raw)
  BY <1>1, <1>2, <1>3, <1>4 DEF TracksAt
<1>6. /\ Sits(f, TracksAt(f, raw), "tracks", TagsAt(f, raw)) /\ IsKept(f, TracksAt(f, raw), "tracks", raw)
  BY <1>1, <1>2, <1>3, <1>4 DEF TagsAt
<1>7. raw["tags"] # <<>> => /\ Sits(f, TagsAt(f, raw), "tags", ClusterAt(f, raw))
                            /\ IsKept(f, TagsAt(f, raw), "tags", raw)
  BY <1>2, <1>3, <1>4 DEF ClusterAt
<1>8. PICK c : c = ClusterAt(f, raw)
  OBVIOUS
<1>9. /\ c \in Nat /\ c + 3 <= Len(f) /\ BeginsElement(f, c) /\ ElementId(f, c) = "cluster"
      /\ ~UnknownSize(f, c) /\ ElementEnd(f, c) = c + 3
  BY <1>1, <1>4, <1>8, ClusterElement
<1>10. Sits(f, ClusterAt(f, raw), "cluster", VoidAt(f, raw))
  BY <1>1, <1>8, <1>9 DEF Sits, WholeElement, VoidAt, MaxElementHeader
<1>11. PICK v, size : v = VoidAt(f, raw) /\ size = PayloadIn(f, raw)
  OBVIOUS
<1>12. size \in Nat /\ v + 3 + size = Len(f)
  <2>1. /\ size \in Nat /\ Len(StubData(f, raw)) = v + 3
        /\ Len(StubData(f, raw)) + size = Len(f)
    BY <1>1, <1>11, StubDataFacts DEF MaxElementHeader
  <2> QED
    BY <2>1
<1>13. size < Unknown[2]
  <2>1. PICK h \in Nat : h = ElementEnd(f, 0)
    BY <1>1, HeaderFacts
  <2>2. PICK x \in Nat, y \in Nat, z \in Nat :
           x = Len(raw["info"]) /\ y = Len(raw["tracks"]) /\ z = Len(raw["tags"])
    BY <1>1, <1>3, RawFacts
  <2>3. v = h + 3 + x + y + z + 3
    BY <1>11, <2>1, <2>2 DEF VoidAt, ClusterAt, TagsAt, TracksAt, InfoAt, MaxElementHeader
  <2>4. PICK all \in Nat, most \in Nat : all = Len(f) /\ most = Unknown[2]
    BY <1>1, UnknownAssumption
  <2>5. BodyIn(f) = all - h - 3 /\ BodyIn(f) < most
    BY <1>1, <2>1, <2>4 DEF Room, BodyIn, MaxElementHeader
  <2>6. all - h - 3 < most
    BY <2>5
  <2>7. v \in Nat /\ v >= h + 6
    BY <2>3
  <2>8. size <= all - h - 9
    BY <1>12, <2>4, <2>7
  <2>9. size < most
    BY <1>12, <2>6, <2>8
  <2> QED
    BY <2>4, <2>9
<1>14. /\ v \in Nat /\ BeginsElement(f, v) /\ ElementId(f, v) = "void"
       /\ ~UnknownSize(f, v) /\ ElementEnd(f, v) = Len(f)
  BY <1>1, <1>4, <1>11, <1>12, <1>13, LongElement
<1>15. Sits(f, VoidAt(f, raw), "void", Len(f))
  BY <1>1, <1>11, <1>14 DEF Sits, WholeElement
<1> QED
  BY <1>5, <1>6, <1>7, <1>10, <1>15

\* The elements of a stub: the metadata that were kept, before all others.
StubLayout(f, layout, raw) ==
    /\ layout \in Seq(Nat) /\ Orderly(f, layout)
    /\ \A id \in ElementMetadata : raw[id] # <<>> =>
          \E i \in 1..Len(layout) : /\ ElementId(f, layout[i]) = id
                                    /\ Slice(f, layout[i], ElementSpan(f, layout[i])) = raw[id]
    /\ \A id \in ElementMetadata : raw[id] = <<>> =>
          \A i \in 1..Len(layout) : ElementId(f, layout[i]) # id
    /\ \A i, j \in 1..Len(layout) :
          i < j /\ ElementId(f, layout[j]) \in ElementMetadata =>
              ElementId(f, layout[i]) \in ElementMetadata

\* What the layout of a stub is to be.
Arrangement(f, layout, ids, raw) ==
    /\ layout \in Seq(Nat) /\ Len(layout) > 1 /\ layout[1] = SegmentBody(f)
    /\ \A i \in 1..(Len(layout) - 1) : Sits(f, layout[i], ids[i], layout[i + 1])
    /\ Sits(f, layout[Len(layout)], ids[Len(layout)], Len(f))
    /\ \A i, j \in 1..Len(layout) : i # j => ids[i] # ids[j]
    /\ \A i \in 1..Len(layout) : ids[i] \in ElementMetadata =>
          IsKept(f, layout[i], ids[i], raw) /\ raw[ids[i]] # <<>>
    /\ \A id \in ElementMetadata : raw[id] # <<>> => \E i \in 1..Len(layout) : ids[i] = id
    /\ \A i, j \in 1..Len(layout) :
          i < j /\ ids[j] \in ElementMetadata => ids[i] \in ElementMetadata

LEMMA LaysOut ==
    ASSUME NEW f, NEW raw, HasSegment(f), SegmentEnd(f) = Len(f),
           NEW layout, NEW ids, Arrangement(f, layout, ids, raw)
    PROVE  StubLayout(f, layout, raw)
<1>1. /\ layout \in Seq(Nat) /\ Len(layout) \in Nat /\ Len(layout) > 1
      /\ DOMAIN layout = 1..Len(layout) /\ layout[1] = SegmentBody(f)
  BY DEF Arrangement
<1>2. PICK n \in Nat : n = Len(layout)
  BY <1>1
<1>3. \A i \in 1..(n - 1) : Sits(f, layout[i], ids[i], layout[i + 1])
  BY <1>2 DEF Arrangement
<1>4. Sits(f, layout[n], ids[n], Len(f))
  BY <1>2 DEF Arrangement
<1>5. \A i \in 1..n : i \in 1..(n - 1) \/ i = n
  BY <1>2
<1>6. \A i \in 1..n : /\ WholeElement(f, layout[i], SegmentEnd(f))
                      /\ ElementId(f, layout[i]) = ids[i]
  <2>1. \A i \in 1..n : WholeElement(f, layout[i], Len(f)) /\ ElementId(f, layout[i]) = ids[i]
    BY <1>3, <1>4, <1>5 DEF Sits
  <2> QED
    BY <2>1
<1>7. \A i \in 1..n : ids[i] \in ElementMetadata =>
         /\ ElementSpan(f, layout[i]) <= MaxMetadata
         /\ Slice(f, layout[i], ElementSpan(f, layout[i])) = raw[ids[i]]
         /\ raw[ids[i]] # <<>>
  BY <1>2 DEF Arrangement, IsKept
<1>8. \A i, j \in 1..n : i # j => ids[i] # ids[j]
  BY <1>2 DEF Arrangement
<1>9. Orderly(f, layout)
  <2>1. \A i \in 1..(n - 1) : layout[i + 1] = ElementEnd(f, layout[i])
    BY <1>3 DEF Sits
  <2>2. ElementEnd(f, layout[n]) = SegmentEnd(f)
    BY <1>4 DEF Sits
  <2>3. layout # <<>>
    BY <1>1
  <2>4. MatroskaChain(f, layout)
    BY <1>1, <1>2, <1>6, <2>1, <2>2, <2>3 DEF MatroskaChain
  <2>5. ASSUME NEW i \in 1..n, ElementId(f, layout[i]) \in ElementMetadata
        PROVE  /\ ElementSpan(f, layout[i]) <= MaxMetadata
               /\ \A j \in (1..n) \ {i} : ElementId(f, layout[i]) # ElementId(f, layout[j])
    BY <1>6, <1>7, <1>8, <2>5
  <2> QED
    BY <1>1, <1>2, <2>4, <2>5 DEF Orderly
<1>10. ASSUME NEW id \in ElementMetadata, raw[id] # <<>>
       PROVE  \E i \in 1..n : /\ ElementId(f, layout[i]) = id
                              /\ Slice(f, layout[i], ElementSpan(f, layout[i])) = raw[id]
  <2>1. PICK i \in 1..n : ids[i] = id
    BY <1>2, <1>10 DEF Arrangement
  <2> QED
    BY <1>6, <1>7, <2>1
<1>11. ASSUME NEW id \in ElementMetadata, raw[id] = <<>>, NEW i \in 1..n
       PROVE  ElementId(f, layout[i]) # id
  BY <1>6, <1>7, <1>11
<1>12. ASSUME NEW i \in 1..n, NEW j \in 1..n, i < j, ElementId(f, layout[j]) \in ElementMetadata
       PROVE  ElementId(f, layout[i]) \in ElementMetadata
  BY <1>2, <1>6, <1>12 DEF Arrangement
<1> QED
  BY <1>1, <1>2, <1>9, <1>10, <1>11, <1>12 DEF StubLayout

LEMMA StubHasLayout ==
    ASSUME NEW f, NEW plan, NEW raw, StubMade(f, plan, raw)
    PROVE  \E layout : StubLayout(f, layout, raw)
<1>1. HasSegment(f) /\ SegmentBody(f) = InfoAt(f) /\ SegmentEnd(f) = Len(f)
  BY StubSegment
<1>2. PICK a, b, c, d, v : /\ a = InfoAt(f) /\ b = TracksAt(f, raw) /\ c = TagsAt(f, raw)
                           /\ d = ClusterAt(f, raw) /\ v = VoidAt(f, raw)
  OBVIOUS
<1>3. /\ Sits(f, a, "info", b) /\ IsKept(f, a, "info", raw)
      /\ Sits(f, b, "tracks", c) /\ IsKept(f, b, "tracks", raw)
      /\ raw["tags"] # <<>> => Sits(f, c, "tags", d) /\ IsKept(f, c, "tags", raw)
      /\ Sits(f, d, "cluster", v) /\ Sits(f, v, "void", Len(f))
  BY <1>2, StubSits
<1>4. /\ raw["info"] # <<>> /\ raw["tracks"] # <<>>
      /\ a \in Nat /\ b \in Nat /\ d \in Nat /\ v \in Nat /\ (raw["tags"] # <<>> => c \in Nat)
  BY <1>3 DEF StubMade, MatroskaPlanFrom, Sits
<1>5. /\ ElementMetadata = {"info", "tracks", "tags"}
      /\ "cluster" \notin ElementMetadata /\ "void" \notin ElementMetadata
      /\ "info" # "tracks" /\ "info" # "tags" /\ "tracks" # "tags" /\ "cluster" # "void"
  BY DEF ElementMetadata
<1>6. ASSUME raw["tags"] = <<>>
      PROVE  \E layout : StubLayout(f, layout, raw)
  <2>1. PICK layout, ids : layout = <<a, b, d, v>> /\ ids = <<"info", "tracks", "cluster", "void">>
    OBVIOUS
  <2>2. /\ layout \in Seq(Nat) /\ Len(layout) = 4
        /\ layout[1] = a /\ layout[2] = b /\ layout[3] = d /\ layout[4] = v
        /\ ids[1] = "info" /\ ids[2] = "tracks" /\ ids[3] = "cluster" /\ ids[4] = "void"
    BY <1>4, <2>1
  <2>3. c = d
    <3>1. RawSound(raw)
      BY DEF StubMade, MatroskaPlanFrom
    <3>2. Len(raw["tracks"]) \in Nat
      BY <1>5, <3>1, RawFacts
    <3>3. c = b + Len(raw["tracks"]) /\ d = c + Len(raw["tags"])
      BY <1>2 DEF TagsAt, ClusterAt
    <3>4. Len(raw["tags"]) = 0
      BY <1>6
    <3> QED
      BY <1>4, <3>2, <3>3, <3>4
  <2>4. \A i \in 1..4 : i = 1 \/ i = 2 \/ i = 3 \/ i = 4
    OBVIOUS
  <2>5. \A i \in 1..3 : Sits(f, layout[i], ids[i], layout[i + 1])
    <3>1. \A i \in 1..3 : i = 1 \/ i = 2 \/ i = 3
      OBVIOUS
    <3> QED
      BY <1>3, <2>2, <2>3, <3>1
  <2>6. \A i, j \in 1..4 : i # j => ids[i] # ids[j]
    BY <1>5, <2>2, <2>4
  <2>7. \A i \in 1..4 : ids[i] \in ElementMetadata => IsKept(f, layout[i], ids[i], raw) /\ raw[ids[i]] # <<>>
    BY <1>3, <1>4, <1>5, <2>2, <2>4
  <2>8. \A id \in ElementMetadata : raw[id] # <<>> => \E i \in 1..4 : ids[i] = id
    BY <1>5, <1>6, <2>2
  <2>9. \A i, j \in 1..4 : i < j /\ ids[j] \in ElementMetadata => ids[i] \in ElementMetadata
    BY <1>5, <2>2, <2>4
  <2>10. layout[1] = SegmentBody(f) /\ Sits(f, layout[4], ids[4], Len(f))
    BY <1>1, <1>2, <1>3, <2>2
  <2>11. Arrangement(f, layout, ids, raw)
    BY <2>2, <2>5, <2>6, <2>7, <2>8, <2>9, <2>10 DEF Arrangement
  <2> QED
    BY <1>1, <2>11, LaysOut
<1>7. ASSUME raw["tags"] # <<>>
      PROVE  \E layout : StubLayout(f, layout, raw)
  <2>1. PICK layout, ids : /\ layout = <<a, b, c, d, v>>
                           /\ ids = <<"info", "tracks", "tags", "cluster", "void">>
    OBVIOUS
  <2>2. /\ layout \in Seq(Nat) /\ Len(layout) = 5
        /\ layout[1] = a /\ layout[2] = b /\ layout[3] = c /\ layout[4] = d /\ layout[5] = v
        /\ ids[1] = "info" /\ ids[2] = "tracks" /\ ids[3] = "tags" /\ ids[4] = "cluster"
        /\ ids[5] = "void"
    BY <1>4, <1>7, <2>1
  <2>4. \A i \in 1..5 : i = 1 \/ i = 2 \/ i = 3 \/ i = 4 \/ i = 5
    OBVIOUS
  <2>5. \A i \in 1..4 : Sits(f, layout[i], ids[i], layout[i + 1])
    <3>1. \A i \in 1..4 : i = 1 \/ i = 2 \/ i = 3 \/ i = 4
      OBVIOUS
    <3> QED
      BY <1>3, <1>7, <2>2, <3>1
  <2>6. \A i, j \in 1..5 : i # j => ids[i] # ids[j]
    BY <1>5, <2>2, <2>4
  <2>7. \A i \in 1..5 : ids[i] \in ElementMetadata => IsKept(f, layout[i], ids[i], raw) /\ raw[ids[i]] # <<>>
    BY <1>3, <1>4, <1>5, <1>7, <2>2, <2>4
  <2>8. \A id \in ElementMetadata : raw[id] # <<>> => \E i \in 1..5 : ids[i] = id
    BY <1>5, <2>2
  <2>9. \A i, j \in 1..5 : i < j /\ ids[j] \in ElementMetadata => ids[i] \in ElementMetadata
    BY <1>5, <2>2, <2>4
  <2>10. layout[1] = SegmentBody(f) /\ Sits(f, layout[5], ids[5], Len(f))
    BY <1>1, <1>2, <1>3, <2>2
  <2>11. Arrangement(f, layout, ids, raw)
    BY <2>2, <2>5, <2>6, <2>7, <2>8, <2>9, <2>10 DEF Arrangement
  <2> QED
    BY <1>1, <2>11, LaysOut
<1> QED
  BY <1>6, <1>7

LEMMA RawsAgree ==
    ASSUME NEW f, FileOf(f), NEW raw, raw \in Raws, NEW layout, StubLayout(f, layout, raw),
           NEW again \in Raws, NEW src0, ElementsRead(again, src0, f, layout), ~src0.mishap
    PROVE  again = raw
<1>1. layout \in Seq(Nat) /\ Orderly(f, layout) /\ Len(layout) \in Nat
  BY DEF StubLayout
<1>2. PICK k \in 0..Len(layout) : Gathered(again, f, layout, k) /\ Complete(again, f, layout, k)
  BY DEF ElementsRead
<1>3. ASSUME NEW id \in ElementMetadata, raw[id] = <<>>
      PROVE  again[id] = <<>>
  <2>1. \A i \in 1..Len(layout) : ElementId(f, layout[i]) # id
    BY <1>3 DEF StubLayout
  <2> QED
    BY <1>1, <1>2, <2>1, GatheredFacts
<1>4. ASSUME NEW id \in ElementMetadata, raw[id] # <<>>
      PROVE  again[id] = raw[id]
  <2>1. PICK i \in 1..Len(layout) :
           /\ ElementId(f, layout[i]) = id
           /\ Slice(f, layout[i], ElementSpan(f, layout[i])) = raw[id]
    BY <1>4 DEF StubLayout
  <2>2. again[id] # <<>>
    <3>1. CASE i <= k
      <4>1. i \in 1..k
        BY <1>1, <1>2, <2>1, <3>1
      <4> QED
        BY <1>1, <1>2, <2>1, <4>1, GatheredFacts
    <3>2. CASE i > k
      <4>1. k + 1 \in 1..Len(layout) /\ k # Len(layout) /\ (k + 1 = i \/ k + 1 < i)
        BY <1>1, <1>2, <2>1, <3>2
      <4>2. ElementId(f, layout[k + 1]) \in ElementMetadata
        BY <1>4, <2>1, <4>1 DEF StubLayout
      <4> QED
        BY <1>2, <1>4, <4>1, <4>2 DEF Complete
    <3> QED
      BY <1>1, <1>2, <2>1, <3>1, <3>2
  <2> QED
    BY <1>1, <1>2, <2>1, <2>2, GatheredFacts
<1>5. \A id \in ElementMetadata : again[id] = raw[id]
  BY <1>3, <1>4
<1> QED
  BY <1>5 DEF Raws

LEMMA MatroskaRescan ==
    ASSUME NEW f, NEW plan, NEW raw, StubMade(f, plan, raw),
           NEW result, NEW src0, ReadSoundly(result, src0, f)
    PROVE  src0.mishap \/ (result.kind = "plan" /\ result.plan = plan)
<1> SUFFICES ASSUME ~src0.mishap PROVE result.kind = "plan" /\ result.plan = plan
  OBVIOUS
<1>1. /\ FileOf(f) /\ MatroskaPlanFrom(plan, f, raw) /\ raw \in Raws
      /\ raw["info"] # <<>> /\ raw["tracks"] # <<>> /\ Room(f, raw)
      /\ plan = MatroskaPlan(f, raw)
  BY DEF StubMade, MatroskaPlanFrom, RawSound
<1>2. PICK layout : StubLayout(f, layout, raw)
  BY StubHasLayout
<1>3. layout \in Seq(Nat) /\ Orderly(f, layout)
  BY <1>2 DEF StubLayout
<1>4. PICK again \in Raws :
         /\ ElementsRead(again, src0, f, layout)
         /\ \/ ~(again["info"] # <<>> /\ again["tracks"] # <<>> /\ Room(f, again))
            \/ result.kind = "plan" /\ MatroskaPlanFrom(result.plan, f, again)
  BY <1>3 DEF ReadSoundly
<1>5. again = raw
  BY <1>1, <1>2, <1>4, RawsAgree
<1>6. result.kind = "plan" /\ MatroskaPlanFrom(result.plan, f, raw)
  BY <1>1, <1>4, <1>5
<1> QED
  BY <1>1, <1>6 DEF MatroskaPlanFrom

LEMMA Rescanned ==
    ASSUME NEW f, FileOf(f), NEW plan, PlanOf(plan, f), NEW s, s = PlanReadAt(plan, plan.size, 0),
           NEW result, NEW src0, ReadSoundly(result, src0, s)
    PROVE  src0.mishap \/ (result.kind = "plan" /\ result.plan = plan)
<1>1. CASE Mp4PlanOf(plan, f)
  <2>1. FileOf(s) /\ Mp4PlanOf(plan, s)
    BY <1>1, Mp4Stub
  <2> QED
    BY <2>1, Mp4Rescan
<1>2. CASE MatroskaPlanOf(plan, f)
  <2>1. PICK raw \in Raws : MatroskaPlanFrom(plan, f, raw)
    BY <1>2 DEF MatroskaPlanOf
  <2>2. StubMade(s, plan, raw)
    BY <2>1, MatroskaStub
  <2> QED
    BY <2>2, MatroskaRescan
<1> QED
  BY <1>1, <1>2 DEF PlanOf

-----------------------------------------------------------------------------
(* What a probe makes of sound media, and of its own stubs.                *)

\* The walk keeps step with every sound layout of the file, and what was returned
\* is what there was.
ScanInv ==
    /\ ProbeInv /\ InStep(walk, src, file)
    /\ SoundMediaIsStubbed /\ StubRescans

LEMMA ScanStarts == ProbeInit => ScanInv
<1> SUFFICES ASSUME ProbeInit PROVE ScanInv
  OBVIOUS
<1>1. ProbeInv /\ walk = NewWalk /\ results = <<>>
  BY InitFits DEF ProbeInit
<1>2. walk.at = "head"
  BY <1>1, NewWalkFits
<1>3. Len(results) # 2
  BY <1>1
<1> QED
  BY <1>1, <1>2, <1>3 DEF ScanInv, InStep, SoundMediaIsStubbed, StubRescans

\* The first result of the probe, and what was read until then.
LEMMA FirstStubs ==
    ASSUME ProbeInv, NEW result, NEW src0, ReadSoundly(result, src0, file), results = <<>>,
           results' = <<result>>, object' = object,
           result.kind # "plan" => src'.mishap = src0.mishap
    PROVE  SoundMediaIsStubbed' /\ StubRescans'
<1>1. /\ file = object.cells /\ FileOf(file) /\ object \in Objects /\ object.layout \in Seq(Nat)
  BY ObjectsAssumption DEF ProbeInv, ResultsOf
<1>2. PICK f, layout : f = object.cells /\ layout = object.layout
  OBVIOUS
<1>3. /\ SoundMp4(f, layout) =>
            \/ result.kind # "plan" /\ src0.mishap
            \/ /\ result.kind = "plan"
               /\ \A part \in Mp4Metadata(f, layout) : Holds(Stub(result), part)
      /\ SoundMatroska(f, layout) =>
            \/ result.kind # "plan" /\ src0.mishap
            \/ /\ result.kind = "plan"
               /\ \A part \in MatroskaMetadata(f, layout) : Holds(Stub(result), part)
  BY <1>1, <1>2, SoundStub
<1>4. results'[1] = result /\ Len(results') = 1 /\ object'.cells = f /\ object'.layout = layout
  BY <1>2
<1>5. SoundMediaIsStubbed'
  BY <1>3, <1>4 DEF SoundMediaIsStubbed, Stubbed
<1>6. StubRescans'
  BY <1>4 DEF StubRescans
<1> QED
  BY <1>5, <1>6

\* The second.
LEMMA SecondRescans ==
    ASSUME ProbeInv, SoundMediaIsStubbed, walk.at # "done",
           NEW first, NEW result, NEW src0, ReadSoundly(result, src0, file), results = <<first>>,
           results' = <<first, result>>, object' = object, ProbeInv', src' = src0
    PROVE  SoundMediaIsStubbed' /\ StubRescans'
<1>1. /\ FileOf(object.cells) /\ ResultOf(first, object.cells)
      /\ first.kind = "plan" /\ file = Stub(first)
  BY DEF ProbeInv, ResultsOf
<1>2. first = Result("plan", first.plan) /\ PlanOf(first.plan, object.cells)
  BY <1>1, ResultFacts
<1>3. src0.mishap \/ (result.kind = "plan" /\ result.plan = first.plan)
  BY <1>1, <1>2, Rescanned DEF Stub
<1>4. FileOf(file') /\ ResultOf(result, file')
  BY DEF ProbeInv, ResultsOf
<1>5. result.kind = "plan" => result = Result("plan", result.plan)
  BY <1>4, ResultFacts
<1>6. results'[1] = first /\ results'[2] = result /\ results[1] = first /\ results # <<>>
  OBVIOUS
<1>7. StubRescans'
  BY <1>2, <1>3, <1>5, <1>6 DEF StubRescans
<1>8. SoundMediaIsStubbed'
  BY <1>1, <1>6 DEF SoundMediaIsStubbed, Stubbed
<1> QED
  BY <1>7, <1>8

LEMMA ScanStays == ScanInv /\ [Next]_vars => ScanInv'
<1> SUFFICES ASSUME ScanInv, [Next]_vars PROVE ScanInv'
  OBVIOUS
<1>1. /\ ProbeInv /\ InStep(walk, src, file) /\ SoundMediaIsStubbed /\ StubRescans
  BY DEF ScanInv
<1>2. ProbeInv'
  BY <1>1, StaysSound
<1>3. CASE UNCHANGED vars
  BY <1>1, <1>2, <1>3 DEF ScanInv, vars, SoundMediaIsStubbed, Stubbed, StubRescans
<1>4. CASE Next
  <2>1. walk.at # "done"
    BY <1>1, <1>4, NextTakes
  <2>2. PICK r : Takes(r) /\ Follows(r)
    BY <1>1, <1>4, NextFollows
  <2>3. src.mishap => r.src.mishap
    BY <2>2 DEF Takes
  <2>4. ASSUME NEW w, Goes(r, w), InStep(w, r.src, file)
        PROVE  ScanInv'
    <3>1. /\ src' = r.src /\ walk' = w /\ object' = object /\ file' = file /\ results' = results
      BY <2>4 DEF Goes
    <3>2. InStep(walk, src, file)'
      BY <2>4, <3>1
    <3>3. SoundMediaIsStubbed' /\ StubRescans'
      BY <1>1, <2>3, <3>1 DEF SoundMediaIsStubbed, Stubbed, StubRescans
    <3> QED
      BY <1>2, <3>2, <3>3 DEF ScanInv
  <2>5. ASSUME NEW result, Returns(r, result), ReadSoundly(result, r.src, file)
        PROVE  ScanInv'
    <3>1. Returned(result) /\ ((results' = <<result>> /\ result.kind = "plan") \/ src' = r.src)
      BY <1>1, <2>1, <2>5, ReturnCases
    <3>2. object' = object
      BY <3>1 DEF Returned
    <3>3. CASE results = <<>> /\ results' = <<result>> /\ walk'.at \in {"head", "done"}
      <4>1. SoundMediaIsStubbed' /\ StubRescans'
        BY <1>1, <2>5, <3>1, <3>2, <3>3, FirstStubs
      <4> QED
        BY <1>2, <3>3, <4>1 DEF ScanInv, InStep
    <3>4. ASSUME NEW first, results = <<first>>, results' = <<first, result>>, walk'.at = "done"
          PROVE  ScanInv'
      <4>1. src' = r.src
        BY <3>1, <3>4
      <4>2. SoundMediaIsStubbed' /\ StubRescans'
        BY <1>1, <1>2, <2>1, <2>5, <3>2, <3>4, <4>1, SecondRescans
      <4> QED
        BY <1>2, <3>4, <4>2 DEF ScanInv, InStep
    <3>5. [walk EXCEPT !.at = "done"].at = "done"
      BY <1>1 DEF ProbeInv, WalkOf, Walks
    <3> QED
      BY <3>1, <3>3, <3>4, <3>5, NewWalkFits DEF Returned
  <2> QED
    BY <2>2, <2>4, <2>5 DEF Follows
<1> QED
  BY <1>3, <1>4

\* Sound media are rejected only if a read of them was refused, failed or was cut
\* short: else the stub holds each piece of their metadata.  This is what
\* ErrUnsupported is for (probe.go:19), for any layout and any budget.
THEOREM SoundIsStubbed == Spec => []SoundMediaIsStubbed
<1>1. ScanInv => SoundMediaIsStubbed
  BY DEF ScanInv
<1> QED
  BY <1>1, ScanStarts, ScanStays, PTL DEF Spec

\* A stub that is scanned in the way its object was yields the same plan, if its
\* reads are not disturbed: what a scanner sees of the stub is what there was.
THEOREM StubsRescan == Spec => []StubRescans
<1>1. ScanInv => StubRescans
  BY DEF ScanInv
<1> QED
  BY <1>1, ScanStarts, ScanStays, PTL DEF Spec
=============================================================================
