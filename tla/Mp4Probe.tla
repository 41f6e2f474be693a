------------------------------- MODULE Mp4Probe -------------------------------
(***************************************************************************)
(* core/mp4.go: the walk over the top-level boxes of an MP4 file, which    *)
(* keeps ftyp and moov whole and of every other box the header.  A box     *)
(* header is two cells, its size and its type, and with a 64-bit size      *)
(* three.                                                                  *)
(***************************************************************************)
EXTENDS Probing

HeaderSize == 2
ExtendedSize == 3
Extended == 1    \* the size that announces a 64-bit one
ToTheEnd == 0    \* the size of a box that ends with the file

BoxMetadata == {"ftyp", "moov"}

\* The walk is over after moov and mdat, or at the end of the file.
WalkedBoxes(w) == w.offset >= Len(file) \/ {"moov", "mdat"} \subseteq w.seen

\* Mutant of Kept: a box of media leaves nothing in the plan.
KeptMetadata(box, data) == IF box.id \in BoxMetadata THEN <<Extent(box.offset, data)>> ELSE <<>>

Kept(box, data) == <<Extent(box.offset, data)>>

\* A box is done with: the next one, or the plan.
NextBox(r, box, data) ==
    LET w == [walk EXCEPT !.at = "box", !.offset = Wrap(@ + box.size),
                          !.extents = @ \o Kept(box, data), !.seen = @ \cup {box.id}]
    IN  \/ ~WalkedBoxes(w) /\ Goes(r, w)
        \/ WalkedBoxes(w) /\ "moov" \notin w.seen /\ Returns(r, Unsupported)
        \/ WalkedBoxes(w) /\ "moov" \in w.seen /\ Returns(r, Planned(w.extents))

\* Mutant of ValidSize: a sum of 64-bit offsets is compared, and no smallest size.
ValidSum(box) == Wrap(box.offset + box.size) <= Len(file)

ValidSize(box) == box.header <= box.size /\ box.size <= Len(file) - box.offset

\* The header of a box has been read.
TakeBox(r, box) ==
    \/ ~ValidSize(box) /\ Returns(r, Failed)
    \/ /\ ValidSize(box)
       /\ \/ box.id \notin BoxMetadata /\ NextBox(r, box, box.cells)
          \/ box.id \in BoxMetadata /\ box.size > MaxMetadata /\ Returns(r, Failed)
          \/ /\ box.id \in BoxMetadata /\ box.size <= MaxMetadata
             /\ Goes(r, [walk EXCEPT !.at = "box data", !.item = box])

Box(cells, size) ==
    [NoItem EXCEPT !.id = cells[2].id, !.offset = walk.offset, !.header = Len(cells),
                   !.size = size, !.cells = cells]

ReadBox ==
    /\ walk.at = "box"
    /\ \E r \in Reads(src, file, HeaderSize, walk.offset) :
          LET read == Len(r.cells) = HeaderSize /\ r.err \in {"none", "EOF"}
              size == r.cells[1].n
          IN  \/ ~read /\ Returns(r, Failed)
              \/ read /\ size = Extended
                      /\ Goes(r, [walk EXCEPT !.at = "box size", !.item.cells = r.cells])
              \/ read /\ size = ToTheEnd /\ TakeBox(r, Box(r.cells, Len(file) - walk.offset))
              \/ read /\ size > Extended /\ TakeBox(r, Box(r.cells, size))

ReadExtendedSize ==
    /\ walk.at = "box size"
    /\ \E r \in Reads(src, file, ExtendedSize - HeaderSize, walk.offset + HeaderSize) :
          LET read == r.err = "none" /\ r.cells[1].n <= MaxInt
          IN  \/ ~read /\ Returns(r, Failed)
              \/ read /\ TakeBox(r, Box(walk.item.cells \o r.cells, r.cells[1].n))

ReadBoxData ==
    /\ walk.at = "box data"
    /\ \E r \in Reads(src, file, walk.item.size, walk.item.offset) :
          \/ r.err # "none" /\ Returns(r, Failed)
          \/ r.err = "none" /\ NextBox(r, walk.item, r.cells)
=============================================================================
