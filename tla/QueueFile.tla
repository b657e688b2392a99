------------------------------ MODULE QueueFile ------------------------------
(***************************************************************************)
(* tango.net.cluster.tina.QueueFile: the records of a channel, one behind  *)
(* the other in a file, each with a header that tells its size and that of *)
(* the record before it.  The last record is the first to go.              *)
(*                                                                         *)
(* The file is a sequence of cells of four bytes: a record takes one for   *)
(* each of its pieces, its header HeaderSize (four, in the code).          *)
(* Positions count the cells in front, as seek does.  Only the file        *)
(* outlives the program; push and pop are two steps each, one per write to *)
(* the file, for the program may stop between them.  A write of a header   *)
(* is taken to be in the file wholly or not at all.                        *)
(***************************************************************************)
EXTENDS Integers, SequencesExt

CONSTANTS
    Content,        \* what clients put
    Size,           \* the cells that each of it takes
    HeaderSize,     \* the cells of a header
    Lookalikes,     \* content that passes the check of a header, see checksum
    Space,          \* cells of a new file
    Limit           \* no push behind this position

ASSUME SizeType  == Size \in [Content -> Nat \ {0}]
ASSUME HeaderSizeType == HeaderSize \in Nat \ {0}
ASSUME SpaceType == Space \in Nat \ {0}
ASSUME LimitType == Limit \in Nat

VARIABLES
    file,           \* the cells of the file
    position,       \* where conduit reads and writes next
    insert,         \* behind the last record
    depth,          \* number of records
    current,        \* header of the last record
    buffer          \* what pop read last, and what is left of earlier ones: it stays
                    \* where it is, unless a record is longer than it (8 KB at first)

memory == <<position, insert, depth, current, buffer>>
fileVars == <<file, memory>>

Header(size, prior) == [size |-> size, prior |-> prior]
Zero == Header(0, 0)

\* A header as it stands in the file: the first cell stands for all that it says, the
\* others for their place.  Of the zero header all cells are zero.
Heading(header) ==
    [i \in 1..HeaderSize |->
        IF header = Zero THEN Zero ELSE IF i = 1 THEN header ELSE [rest |-> i]]

\* A record as it stands in the file.
Pieces(c) == [i \in 1..Size[c] |-> [of |-> c, piece |-> i]]
IsHeader(cell) == "size" \in DOMAIN cell

Written(point, cells) ==
    [i \in 1..Max({Len(file), point + Len(cells)}) |->
        IF i > point /\ i <= point + Len(cells) THEN cells[i - point] ELSE file[i]]

-----------------------------------------------------------------------------
(* The constructor                                                         *)

RecordEnd(p) == p + HeaderSize + file[p + 1].size

\* No record begins here: for nothing does, or what does has size 0 or a wrong checksum.
\* The checksum folds size, prior and pad, and says nothing of what is no header: a
\* word of equal halves with zeros behind it passes.
EndsAt(p) ==
    \/ p = Len(file)
    \/ /\ p + HeaderSize <= Len(file)
       /\ \/ file[p + 1] = Zero
          \/ /\ ~IsHeader(file[p + 1])
             /\ SubSeq(file, p + 1, p + HeaderSize) \notin Lookalikes

\* The sweep reads on where the file has ended, which is an exception.  So does content
\* that is taken for a header, with a size beyond the file; had it a smaller one, it
\* would be taken for a record, and what comes of that the model does not follow.
FailsAt(p) ==
    \/ p + HeaderSize > Len(file)
    \/ ~IsHeader(file[p + 1])
    \/ RecordEnd(p) > Len(file)

\* The records found from the start of the file.
Sweep ==
    LET from[p \in 0..Len(file)] ==
          IF EndsAt(p) THEN [fails |-> FALSE, starts |-> <<>>]
          ELSE IF FailsAt(p) THEN [fails |-> TRUE, starts |-> <<>>]
          ELSE [from[RecordEnd(p)] EXCEPT !.starts = <<p>> \o @]
    IN  from[0]

\* Behind the last of them.
SweepEnd == IF Sweep.starts = <<>> THEN 0 ELSE RecordEnd(Last(Sweep.starts))

\* Mutant: the header of the last record is not kept.
OpenFile_NoCurrent ==
    /\ ~Sweep.fails
    /\ file' = IF file = <<>> THEN [i \in 1..Space |-> Zero] ELSE file
    /\ depth' = Len(Sweep.starts)
    /\ current' = Zero
    /\ insert' = SweepEnd /\ position' = SweepEnd
    /\ buffer' = <<>>

\* A new file is filled with zeros, which is a queue without records.
OpenFile ==
    /\ ~Sweep.fails
    /\ file' = IF file = <<>> THEN [i \in 1..Space |-> Zero] ELSE file
    /\ depth' = Len(Sweep.starts)
    /\ current' = IF Sweep.starts = <<>> THEN Zero ELSE file[Last(Sweep.starts) + 1]
    /\ insert' = SweepEnd /\ position' = SweepEnd
    /\ buffer' = <<>>

-----------------------------------------------------------------------------
(* push                                                                    *)

PushHeader(c) ==
    /\ insert <= Limit
    /\ file' = Written(position, Heading(Header(Size[c], current.size)))
    /\ position' = position + HeaderSize
    /\ UNCHANGED <<insert, depth, current, buffer>>

PushContent(c) ==
    /\ file' = Written(position, Pieces(c))
    /\ position' = position + Size[c]
    /\ insert' = insert + HeaderSize + Size[c]
    /\ current' = Header(Size[c], current.size)
    /\ depth' = depth + 1
    /\ UNCHANGED buffer

-----------------------------------------------------------------------------
(* pop                                                                     *)

Point == insert - (current.size + HeaderSize)

\* "write a zero header to indicate eof"
PopMark ==
    /\ depth > 0
    /\ file' = Written(Point, Heading(Zero))
    /\ position' = Point + HeaderSize
    /\ UNCHANGED <<insert, depth, current, buffer>>

\* What the two errors "queue file is corrupt" are about.
Corrupt == depth = 1 /\ (current.prior > 0 \/ Point > 0)

\* Mutant: the file position stays behind what was read last.
PopRead_NoSeek ==
    LET content == SubSeq(file, position + 1, position + current.size)
        prior   == Point - (current.prior + HeaderSize)
    IN  /\ buffer' = content \o SubSeq(buffer, Len(content) + 1, Len(buffer))
        /\ current' = IF depth > 1 THEN file[prior + 1] ELSE Zero
        /\ position' = IF depth > 1 THEN prior + HeaderSize ELSE position + current.size
        /\ insert' = Point
        /\ depth' = depth - 1
        /\ UNCHANGED file

PopRead ==
    LET content == SubSeq(file, position + 1, position + current.size)
        prior   == Point - (current.prior + HeaderSize)
    IN  /\ buffer' = content \o SubSeq(buffer, Len(content) + 1, Len(buffer))
        /\ current' = IF depth > 1 THEN file[prior + 1] ELSE Zero
        /\ position' = Point
        /\ insert' = Point
        /\ depth' = depth - 1
        /\ UNCHANGED file

-----------------------------------------------------------------------------
(* What is on the stack                                                    *)

\* For the next program: what its sweep will find.
Left == [i \in DOMAIN Sweep.starts |->
            LET start == Sweep.starts[i]
            IN  SubSeq(file, start + HeaderSize + 1, RecordEnd(start))]

\* For this program: what its pops will find, each led to by the header above.
\* down[k] is where the file ends for it after k pops, and the header there.
Held ==
    LET down[k \in 0..depth] ==
          IF k = 0 THEN [end |-> insert, top |-> current]
          ELSE LET above == down[k - 1]
                   start == above.end - above.top.size - HeaderSize
               IN  [end |-> start,
                    top |-> IF k < depth THEN file[start - above.top.prior - HeaderSize + 1]
                            ELSE Zero]
    IN  [i \in 1..depth |->
            SubSeq(file, down[depth - i + 1].end + HeaderSize + 1, down[depth - i].end)]
=============================================================================
