----------------------------- MODULE MCCoreProbe -----------------------------
(* CoreProbe for TLC: the objects, laid out from lists of boxes and elements *)
(* whose sizes may be right or wrong.                                        *)
EXTENDS CoreProbe, SequencesExt

CONSTANTS Mp4Tail, MatroskaRoom

Data(at, n) == [i \in 1..n |-> Cell("data", at + i)]
Flat(parts) == FlattenSeq(parts)

\* Where each part begins, the first one at `at'.
Begins(parts, at) == [i \in DOMAIN parts |-> at + Len(Flat(SubSeq(parts, 1, i - 1)))]

-----------------------------------------------------------------------------
(* MP4                                                                     *)

BoxKinds == {"exact", "wide", "to the end", "long", "small", "huge", "negative"}

BoxCells(box, at) ==
    LET sized(n) == <<Cell("size", n), Cell(box.id, 0)>>
        wide(n) == <<Cell("size", Extended), Cell(box.id, 0), Cell("wide", n)>>
    IN  (CASE box.kind = "exact" -> sized(3)
           [] box.kind = "wide" -> wide(4)
           [] box.kind = "to the end" -> sized(ToTheEnd)
           [] box.kind = "long" -> sized(MaxInt \div 2)
           [] box.kind = "small" -> wide(0)
           [] box.kind = "huge" -> wide(MaxInt)
           [] box.kind = "negative" -> wide(MaxInt + 2)) \o Data(at, 1)

Mp4(boxes, tail) ==
    LET parts == [i \in DOMAIN boxes |-> BoxCells(boxes[i], 10 * i)]
    IN  [cells |-> Flat(parts) \o Data(90, tail),
         layout |-> Begins(parts, 0)]

Boxes == [id: {"moov", "mdat", "free"}, kind: BoxKinds]
Right == {b \in Boxes : b.kind \in {"exact", "wide"}}
LastBoxes == [id: {"moov", "mdat"}, kind: {"exact", "to the end", "small"}]

Firsts == {<<[id |-> "ftyp", kind |-> k]>> : k \in {"exact", "wide"}}
Rests == {<<>>} \cup {<<b>> : b \in Boxes} \cup {<<b, c>> : b \in Right, c \in Boxes}
               \cup {<<b, c, d>> : b \in {r \in Right : r.kind = "exact"}, c \in Right, d \in LastBoxes}

Mp4s == {Mp4(first \o rest, 0) : first \in Firsts, rest \in Rests}
        \cup {Mp4(first \o <<b, c>>, Mp4Tail) : first \in Firsts, b \in Right, c \in Right}
        \cup {Mp4(<<b>>, 0) : b \in Boxes}

-----------------------------------------------------------------------------
(* Matroska                                                                *)

Header(id, length, n) ==
    <<Cell(id, 0)>> \o IF length = 1 THEN <<Cell("short", n)>> ELSE <<Cell("long", n), Cell("pad", 0)>>

ElementCells(id, kind, at) ==
    (CASE kind = "short" -> Header(id, 1, 1)
       [] kind = "long" -> Header(id, 2, 1)
       [] kind = "unknown" -> Header(id, 2, Unknown[2])
       [] kind = "overlong" -> Header(id, 2, Unknown[2] - 1)) \o Data(at, 1)

ChildIds == {"info", "tracks", "tags", "cluster", "void"}
Distinct(n) == {ids \in [1..n -> ChildIds] : \A i, j \in 1..n : i # j => ids[i] # ids[j]}
ShortLists == UNION {[1..n -> ChildIds] : n \in 0..2}
ChildLists == ShortLists \cup Distinct(3) \cup {ids \in Distinct(4) : ids[1] \in {"info", "void"}}

MatroskaBody == 6

Matroska(ids, base, defect, segment, room) ==
    LET kinds == [i \in DOMAIN ids |-> IF i = defect.at THEN defect.kind ELSE base]
        parts == [i \in DOMAIN ids |-> ElementCells(ids[i], kinds[i], 10 * i)]
        body == Flat(parts) \o Data(90, room)
        size == CASE segment = "exact" -> Len(body)
                  [] segment = "cut" -> Len(body) \div 2
                  [] segment = "unknown" -> Unknown[2]
    IN  [cells |-> <<Cell("ebml", 0), Cell("short", 1), Cell("data", 1)>>
                      \o Header("segment", 2, size) \o body,
         layout |-> Begins(parts, MatroskaBody)]

MCUnknown == <<7, 31>>

NoDefect == [at |-> 0, kind |-> "short"]
Defects(ids) == [at: DOMAIN ids, kind: {"unknown", "overlong"}]
Walked == ShortLists \cup {ids \in Distinct(3) : "void" \notin {ids[i] : i \in 1..3}}

Matroskas ==
    {Matroska(ids, "short", NoDefect, s, MatroskaRoom) :
        ids \in ChildLists, s \in {"exact", "unknown"}}
    \cup {Matroska(ids, "short", NoDefect, "cut", MatroskaRoom) : ids \in Distinct(3)}
    \cup {Matroska(ids, "long", NoDefect, "exact", MatroskaRoom) : ids \in Distinct(3)}
    \cup {Matroska(ids, "short", NoDefect, "exact", 0) : ids \in Distinct(3)}
    \cup UNION {{Matroska(ids, "short", d, "exact", MatroskaRoom) : d \in Defects(ids)} :
                ids \in Walked}

\* An EBML header of unknown size, one longer than the limit, and no segment.
Odd == {[cells |-> cells, layout |-> <<>>] : cells \in
          {<<>>, <<Cell("data", 0)>>,
           <<Cell("ebml", 0), Cell("short", Unknown[1]), Cell("segment", 0)>>,
           <<Cell("ebml", 0), Cell("short", MaxHeader)>> \o Data(0, MaxHeader),
           <<Cell("ebml", 0), Cell("short", 1)>> \o Data(0, 5)}}

MCObjects == Mp4s \cup Matroskas \cup Odd
=============================================================================
