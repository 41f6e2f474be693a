------------------------------ MODULE CoreProbe ------------------------------
(***************************************************************************)
(* core/probe.go: a probe of an object through a budgeted source, by the   *)
(* container its head shows, and the second probe of the stub it yields.   *)
(***************************************************************************)
EXTENDS Mp4Probe, MatroskaProbe

HeadSize == 4

\* head keeps its zeros where the read gave nothing.
Padded(cells, n) == [i \in 1..n |-> IF i <= Len(cells) THEN cells[i] ELSE Zero]

LooksLikeMP4(head) ==
    /\ Len(head) > HeaderSize
    /\ head[2].id = "ftyp"
    /\ head[1].n = Extended \/ head[1].n >= HeaderSize

LooksLikeMatroska(head) == head[1].id = "ebml"

ReadHead ==
    /\ walk.at = "head"
    /\ file # <<>>
    /\ LET size == Least(Len(file), HeadSize)
       IN  \E r \in Reads(src, file, size, 0) :
              LET head == Padded(r.cells, size)
                  read == r.err \in {"none", "EOF"}
              IN  \/ ~read /\ Returns(r, Failed)
                  \/ read /\ LooksLikeMatroska(head) /\ Goes(r, [walk EXCEPT !.at = "ebml"])
                  \/ /\ read /\ LooksLikeMP4(head) /\ ~LooksLikeMatroska(head)
                     /\ Goes(r, [walk EXCEPT !.at = "box"])
                  \/ /\ read /\ ~LooksLikeMatroska(head) /\ ~LooksLikeMP4(head)
                     /\ Returns(r, NotMedia)

RejectEmpty ==
    /\ walk.at = "head"
    /\ file = <<>>
    /\ Returns(Read(<<>>, "none", src), NotMedia)

Next == \/ ReadHead \/ RejectEmpty
        \/ ReadBox \/ ReadExtendedSize \/ ReadBoxData
        \/ ReadEBML \/ ReadSegment \/ ReadElement \/ ReadMetadata \/ ReadPrefix

Spec == ProbeInit /\ [][Next]_vars

-----------------------------------------------------------------------------
(* What sound media is, apart from how it is read.  A layout says where the *)
(* boxes, or the elements of the segment, begin.                           *)

BoxId(cells, at) == cells[at + 2].id
BoxHeader(cells, at) == IF cells[at + 1].n = Extended THEN ExtendedSize ELSE HeaderSize
BoxSize(cells, at) == CASE cells[at + 1].n = Extended -> cells[at + 3].n
                        [] cells[at + 1].n = ToTheEnd -> Len(cells) - at
                        [] OTHER -> cells[at + 1].n
BoxEnd(cells, at) == at + BoxSize(cells, at)
BoxIds(cells, layout, n) == {BoxId(cells, layout[i]) : i \in 1..n}

WholeBox(cells, at) ==
    /\ at + HeaderSize <= Len(cells) /\ at + BoxHeader(cells, at) <= Len(cells)
    /\ BoxHeader(cells, at) <= BoxSize(cells, at) /\ BoxEnd(cells, at) <= Len(cells)
    /\ BoxId(cells, at) \in BoxMetadata => BoxSize(cells, at) <= MaxMetadata

\* Boxes one after the other, from ftyp to moov and mdat or the end of the file.
Mp4Chain(cells, layout) ==
    /\ Len(cells) > HeaderSize /\ cells[1].id # "ebml" /\ cells[1].n # ToTheEnd
    /\ layout # <<>> /\ layout[1] = 0 /\ BoxId(cells, 0) = "ftyp"
    /\ \A i \in DOMAIN layout : WholeBox(cells, layout[i])
    /\ \A i \in 1..(Len(layout) - 1) : layout[i + 1] = BoxEnd(cells, layout[i])
    /\ "moov" \in BoxIds(cells, layout, Len(layout))
    /\ \/ "mdat" \in BoxIds(cells, layout, Len(layout))
       \/ BoxEnd(cells, layout[Len(layout)]) = Len(cells)

SoundMp4(cells, layout) ==
    /\ Mp4Chain(cells, layout)
    /\ \A i, j \in DOMAIN layout :
          i # j /\ BoxId(cells, layout[i]) \in BoxMetadata =>
              BoxId(cells, layout[i]) # BoxId(cells, layout[j])

Mp4Metadata(cells, layout) ==
    {Slice(cells, layout[i], BoxSize(cells, layout[i])) :
        i \in {j \in DOMAIN layout : BoxId(cells, layout[j]) \in BoxMetadata}}

ElementId(cells, at) == cells[at + 1].id
ElementHeader(cells, at) == 1 + SizeLength(cells[at + 2])
UnknownSize(cells, at) == cells[at + 2].n = Unknown[SizeLength(cells[at + 2])]
ElementSpan(cells, at) == ElementHeader(cells, at) + cells[at + 2].n
ElementEnd(cells, at) == at + ElementSpan(cells, at)

BeginsElement(cells, at) ==
    /\ at + 2 <= Len(cells)
    /\ ElementId(cells, at) \in ElementIds
    /\ SizeLength(cells[at + 2]) \in {1, 2}
    /\ at + ElementHeader(cells, at) <= Len(cells)

WholeElement(cells, at, end) ==
    /\ BeginsElement(cells, at)
    /\ ~UnknownSize(cells, at) /\ ElementEnd(cells, at) <= end

\* An EBML header, and the header of a segment behind it.
HasSegment(cells) ==
    LET at == ElementEnd(cells, 0)
    IN  /\ WholeElement(cells, 0, Len(cells)) /\ ElementId(cells, 0) = "ebml" /\ at <= MaxHeader
        /\ BeginsElement(cells, at) /\ ElementId(cells, at) = "segment"

SegmentBody(cells) == LET at == ElementEnd(cells, 0) IN at + ElementHeader(cells, at)

SegmentEnd(cells) ==
    LET at == ElementEnd(cells, 0)
    IN  IF UnknownSize(cells, at) \/ ElementEnd(cells, at) > Len(cells) THEN Len(cells)
        ELSE ElementEnd(cells, at)

\* Elements one after the other in the segment, up to its end, media of unknown
\* size or what is no element.
MatroskaChain(cells, layout) ==
    /\ HasSegment(cells)
    /\ layout # <<>> /\ layout[1] = SegmentBody(cells)
    /\ \A i \in DOMAIN layout : WholeElement(cells, layout[i], SegmentEnd(cells))
    /\ \A i \in 1..(Len(layout) - 1) : layout[i + 1] = ElementEnd(cells, layout[i])
    /\ LET last == ElementEnd(cells, layout[Len(layout)])
       IN  \/ last = SegmentEnd(cells)
           \/ ~BeginsElement(cells, last)
           \/ UnknownSize(cells, last) /\ ElementId(cells, last) = "cluster"

\* What the elements of one kind span.
SpanOf(cells, layout, id) ==
    IF \E i \in DOMAIN layout : ElementId(cells, layout[i]) = id
    THEN ElementSpan(cells, layout[CHOOSE i \in DOMAIN layout : ElementId(cells, layout[i]) = id])
    ELSE 0

\* Info, Tracks and perhaps Tags, once each and not too large, and room for the
\* headers of a stub: of its segment, of an empty cluster and of a Void.
SoundMatroska(cells, layout) ==
    /\ MatroskaChain(cells, layout)
    /\ \A i \in DOMAIN layout :
          ElementId(cells, layout[i]) \in ElementMetadata =>
              /\ ElementSpan(cells, layout[i]) <= MaxMetadata
              /\ \A j \in DOMAIN layout \ {i} : ElementId(cells, layout[i]) # ElementId(cells, layout[j])
    /\ {"info", "tracks"} \subseteq {ElementId(cells, layout[i]) : i \in DOMAIN layout}
    /\ Len(cells) - ElementEnd(cells, 0) - MaxElementHeader < Unknown[2]
    /\ ElementEnd(cells, 0) + SpanOf(cells, layout, "info") + SpanOf(cells, layout, "tracks")
          + SpanOf(cells, layout, "tags") + 3 * MaxElementHeader <= Len(cells)

MatroskaMetadata(cells, layout) ==
    {Slice(cells, layout[i], ElementSpan(cells, layout[i])) :
        i \in {j \in DOMAIN layout : ElementId(cells, layout[j]) \in {"info", "tracks"}}}

-----------------------------------------------------------------------------
(* What should hold.                                                       *)

Steps == {"head", "box", "box size", "box data", "ebml", "segment", "element", "metadata",
          "prefix", "done"}
Outcomes == {"plan", "failed", "unsupported", "not media"}

\* Types; the cursor stays in the file, and no probe makes a plan that NewPlan
\* refuses: extents overlap nowhere and end with the file.
TypeOK ==
    /\ walk.at \in Steps
    /\ walk.offset \in 0..Len(file)
    /\ src.start \in -1..Len(file)
    /\ src.bytes \in Nat /\ src.requests \in Nat /\ src.mishap \in BOOLEAN
    /\ Len(results) <= 2
    /\ \A i \in DOMAIN results : results[i].kind \in Outcomes

\* The window is a stretch of the file, whatever reads failed: what a hit
\* returns is what the source would have given (source.go:86).
WindowIsFile ==
    \A i \in DOMAIN src.window : /\ src.start + i \in DOMAIN file
                                 /\ src.window[i] = file[src.start + i]

\* README.md:469 "The default hard limits are 16 MiB and 128 upstream reads per object".
WithinBudget == src.bytes <= MaxBytes /\ src.requests <= MaxRequests

Stub(result) == PlanReadAt(result.plan, result.plan.size, 0)

Holds(cells, part) == \E off \in 0..(Len(cells) - Len(part)) : Slice(cells, off, Len(part)) = part

Stubbed(parts) ==
    \/ results[1].kind # "plan" /\ src.mishap
    \/ results[1].kind = "plan" /\ \A part \in parts : Holds(Stub(results[1]), part)

\* probe.go:19 "ErrUnsupported is returned for recognizable but unsupported inputs":
\* a sound object is rejected only if a read of it was refused, failed or was
\* cut short; otherwise its stub holds each piece of its metadata.
SoundMediaIsStubbed ==
    results # <<>> =>
        /\ SoundMp4(object.cells, object.layout) =>
              Stubbed(Mp4Metadata(object.cells, object.layout))
        /\ SoundMatroska(object.cells, object.layout) =>
              Stubbed(MatroskaMetadata(object.cells, object.layout))

\* Whoever scans the stub in the way its object was scanned finds the same
\* metadata in it, and thus would make the same stub (core/probe_test.go:75).
StubRescans ==
    Len(results) = 2 => src.mishap \/ results[2] = results[1]

\* The elements of a Matroska stub fill it: its segment and the Void at its end
\* both end with the file.
StubFillsFile ==
    \A i \in DOMAIN results :
        LET plan == results[i].plan
            data == plan.extents[1].data
            Ends(at) == at + 2 + data[at + 1].n = plan.size
        IN  results[i].kind = "plan" /\ data[1].id = "ebml" =>
                /\ data[Len(data) - 2].id = "void" /\ Ends(Len(data) - 2)
                /\ \E at \in DOMAIN data : data[at].id = "segment" /\ Ends(at)

\* How far a probe is with the box or the element at the cursor.
Rank(w) == CASE w.at = "head" -> 0
             [] w.at \in {"box", "ebml"} -> 1
             [] w.at \in {"box size", "segment"} -> 2
             [] w.at \in {"box data", "element"} -> 3
             [] w.at = "metadata" -> 4
             [] w.at = "prefix" -> 5

\* Every read of a probe that does not end it takes it further into the file,
\* or on with the element it is at, whatever sizes the object claims: as the
\* cursor stays in the file (TypeOK), every probe ends (mp4.go:43).
ReadsAdvance ==
    [][results' = results =>
         \/ walk'.offset > walk.offset
         \/ walk'.offset = walk.offset /\ Rank(walk') > Rank(walk)]_vars
=============================================================================
