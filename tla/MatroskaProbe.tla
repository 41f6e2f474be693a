---------------------------- MODULE MatroskaProbe ----------------------------
(***************************************************************************)
(* core/matroska.go: the walk over the elements of a Matroska segment up   *)
(* to its Info, Tracks and adjacent Tags, and the prefix that replaces the *)
(* segment in the stub.  An identifier is one cell, a size one or two; a   *)
(* size of all ones is unknown.                                            *)
(***************************************************************************)
EXTENDS Probing

CONSTANT Unknown  \* the length of a size in cells -> its value of all ones

ElementIds == {"ebml", "segment", "info", "tracks", "tags", "cluster", "void"}
ElementMetadata == {"info", "tracks", "tags"}
MaxElementHeader == 3

\* vintLength of a size: other cells do not begin one.
SizeLength(cell) == CASE cell.id = "short" -> 1 [] cell.id = "long" -> 2 [] OTHER -> MaxElementHeader

\* A size of so many cells has no larger value than all ones, which is far from
\* the largest int64 (at most 2^56-1), and one cell can tell the size of a timecode.
Sized(cells) ==
    \A i \in DOMAIN cells :
        SizeLength(cells[i]) \in {1, 2} => cells[i].n <= Unknown[SizeLength(cells[i])]

ASSUME UnknownAssumption ==
    /\ Unknown \in [{1, 2} -> Nat \ {0, 1}]
    /\ \A length \in {1, 2} : Unknown[length] + MaxElementHeader <= MaxInt
    /\ \A o \in Objects : Sized(o.cells)

\* readEBMLElement, where it succeeds.
IsElement(r) ==
    /\ r.err \in {"none", "EOF"}
    /\ Len(r.cells) > 1
    /\ r.cells[1].id \in ElementIds
    /\ 1 + SizeLength(r.cells[2]) <= Len(r.cells)

Element(r, offset) ==
    LET length == SizeLength(r.cells[2])
    IN  [NoItem EXCEPT !.id = r.cells[1].id, !.offset = offset, !.header = 1 + length,
                       !.size = r.cells[2].n, !.unknown = r.cells[2].n = Unknown[length]]

BodyOf(e) == e.offset + e.header

ReadEBML ==
    /\ walk.at = "ebml"
    /\ \E r \in Reads(src, file, MaxElementHeader, 0) :
          LET header == Element(r, 0)
              headerEnd == Wrap(BodyOf(header) + header.size)
              ok == /\ IsElement(r) /\ header.id = "ebml" /\ ~header.unknown
                    /\ headerEnd <= Len(file) /\ headerEnd <= MaxHeader
          IN  \/ ok /\ Goes(r, [walk EXCEPT !.at = "segment", !.headerEnd = headerEnd])
              \/ ~ok /\ Returns(r, Failed)

\* What to do when the walk ends: build the prefix, or give up.
Prefixed(r, w) ==
    \/ /\ w.raw["info"] # <<>> /\ w.raw["tracks"] # <<>>
       /\ Goes(r, [w EXCEPT !.at = "prefix"])
    \/ /\ w.raw["info"] = <<>> \/ w.raw["tracks"] = <<>>
       /\ Returns(r, Unsupported)

\* The loop goes on at offset, if that is in the segment.
Onward(r, w, offset) ==
    \/ offset < w.segmentEnd /\ Goes(r, [w EXCEPT !.at = "element", !.offset = offset])
    \/ offset >= w.segmentEnd /\ Prefixed(r, w)

\* A size that is unknown, or more than there is, means the rest of the file.
ReadSegment ==
    /\ walk.at = "segment"
    /\ \E r \in Reads(src, file, MaxElementHeader, walk.headerEnd) :
          LET segment == Element(r, walk.headerEnd)
              known == ~segment.unknown /\ segment.size <= Len(file) - BodyOf(segment)
              end == IF known THEN BodyOf(segment) + segment.size ELSE Len(file)
              ok == IsElement(r) /\ segment.id = "segment"
          IN  \/ ok /\ Onward(r, [walk EXCEPT !.segmentEnd = end], BodyOf(segment))
              \/ ~ok /\ Returns(r, Failed)

Sufficient == walk.raw["info"] # <<>> /\ walk.raw["tracks"] # <<>>

Total(e) == Wrap(e.header + e.size)
Fits(e) == Total(e) >= e.header /\ Total(e) <= walk.segmentEnd - walk.offset

\* Mutant of EndsWalk: the first cluster ends the walk, whatever was found.
EndsAtCluster(e) == e.id = "cluster" \/ ~Fits(e)

\* The walk ends at media, once it has enough, and before what does not fit.
EndsWalk(e) ==
    \/ e.id = "cluster" /\ (e.unknown \/ Sufficient)
    \/ ~e.unknown /\ ~Fits(e)

\* An element that cannot be read ends the walk, whatever the error was.
ReadElement ==
    /\ walk.at = "element"
    /\ \E r \in Reads(src, file, MaxElementHeader, walk.offset) :
          LET e == Element(r, walk.offset)
              total == Total(e)
          IN  \/ ~IsElement(r) /\ Prefixed(r, walk)
              \/ IsElement(r) /\ EndsWalk(e) /\ Prefixed(r, walk)
              \/ /\ IsElement(r) /\ ~EndsWalk(e)
                 /\ \/ e.unknown /\ Returns(r, Failed)
                    \/ /\ ~e.unknown /\ e.id \in ElementMetadata
                       /\ \/ total > MaxMetadata /\ Returns(r, Failed)
                          \/ /\ total <= MaxMetadata
                             /\ Goes(r, [walk EXCEPT !.at = "metadata", !.item = e])
                    \/ /\ ~e.unknown /\ e.id \notin ElementMetadata
                       /\ \/ Sufficient /\ Prefixed(r, walk)
                          \/ ~Sufficient /\ Onward(r, walk, walk.offset + total)

\* Info, Tracks or Tags; all three are enough.
ReadMetadata ==
    /\ walk.at = "metadata"
    /\ \E r \in Reads(src, file, Total(walk.item), walk.offset) :
          LET w == [walk EXCEPT !.raw[walk.item.id] = r.cells]
              all == \A i \in ElementMetadata : w.raw[i] # <<>>
          IN  \/ r.err # "none" /\ Returns(r, Failed)
              \/ r.err = "none" /\ all /\ Prefixed(r, w)
              \/ /\ r.err = "none" /\ ~all
                 /\ Onward(r, w, walk.offset + Total(walk.item))

-----------------------------------------------------------------------------
(* buildMatroskaPrefix                                                     *)

LongHeader(id, size) == <<Cell(id, 0), Cell("long", size), Cell("pad", 0)>>
EmptyCluster == <<Cell("cluster", 0), Cell("short", 1), Cell("timecode", 0)>>

\* Mutant of VoidPayload: the header of the Void is forgotten.
VoidUnheaded(prefix) == Len(file) - Len(prefix)

\* What the Void must span for the segment to end with the file.
VoidPayload(prefix) == Len(file) - Len(prefix) - MaxElementHeader

\* What the segment must span for it to end with the file.
Body == Len(file) - walk.headerEnd - MaxElementHeader

\* Everything up to the Void.
Prefix(header) ==
    header \o LongHeader("segment", Body) \o walk.raw["info"] \o walk.raw["tracks"]
           \o walk.raw["tags"] \o EmptyCluster

\* A body that is too small, or larger than encodeVINT can tell, has no prefix.
ReadPrefix ==
    /\ walk.at = "prefix"
    /\ \E r \in Reads(src, file, walk.headerEnd, 0) :
          LET prefix == Prefix(r.cells)
              payload == VoidPayload(prefix)
              ok == r.err = "none" /\ Body \in MaxElementHeader..(Unknown[2] - 1) /\ payload >= 0
          IN  \/ ok /\ Returns(r, Planned(<<Extent(0, prefix \o LongHeader("void", payload))>>))
              \/ ~ok /\ Returns(r, Failed)
=============================================================================
