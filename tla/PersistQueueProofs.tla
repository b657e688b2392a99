-------------------------- MODULE PersistQueueProofs --------------------------
(***************************************************************************)
(* Proofs about PersistQueue for any records, size of a header, content    *)
(* that passes for one, number of threads and room in the file.            *)
(*                                                                         *)
(* What is known of the file is where its records begin: a Trail of        *)
(* positions and headers, each of which leads to the next and back to the  *)
(* one before.  The trail is not in the program, which has but its end in  *)
(* memory; the invariant says that there is one, at any time, and what of  *)
(* it the file and the memory hold.  The sweep of the next program finds   *)
(* it from the start of the file (SweepIs), the pops of this one from its  *)
(* end (HeldIs), and that both find the same is what the refinement rests  *)
(* on.                                                                     *)
(***************************************************************************)
EXTENDS PersistQueue, SequenceTheorems, WellFoundedInduction, TLAPS

-----------------------------------------------------------------------------
(* Induction over a set of numbers                                         *)

\* A set of numbers that is not empty has a least one.
LEMMA Least ==
    ASSUME NEW T \in SUBSET Nat, T # {}
    PROVE  \E x \in T : \A y \in T : x <= y
<1> DEFINE R == {p \in Nat \X Nat : p[1] < p[2]}
<1>1. IsWellFoundedOn(R, Nat)
  BY NatLessThanWellFounded, Zenon DEF OpToRel
<1>2. \E x \in T : \A y \in T : ~ (<<y, x>> \in R)
  <2> HIDE DEF R
  <2> QED BY <1>1, WFMin, Zenon
<1>3. PICK x \in T : \A y \in T : ~ (<<y, x>> \in R)
  BY <1>2
<1>4. ASSUME NEW y \in T PROVE x <= y
  <2>1. x \in Nat /\ y \in Nat /\ ~ (<<y, x>> \in R)
    BY <1>3
  <2>2. ~ (y < x)
    BY <2>1
  <2> QED  BY <2>1, <2>2
<1> QED  BY <1>4

\* What is so of 0, and with a number below n of the next, is so up to n.
LEMMA UpTo ==
    ASSUME NEW n \in Nat, NEW T,
           0 \in T, \A k \in 0 .. n - 1 : k \in T => k + 1 \in T
    PROVE  \A k \in 0 .. n : k \in T
<1> DEFINE bad == {k \in 0 .. n : k \notin T}
<1> SUFFICES ASSUME bad # {} PROVE FALSE
  OBVIOUS
<1>1. PICK x \in bad : \A y \in bad : x <= y
  <2>1. bad \in SUBSET Nat
    OBVIOUS
  <2> QED  BY <2>1, Least
<1>2. x \in 0 .. n /\ x \notin T /\ x # 0
  OBVIOUS
<1>3. x - 1 \in 0 .. n - 1 /\ (x - 1) + 1 = x /\ ~ (x <= x - 1)
  BY <1>2
<1>4. x - 1 \in T
  BY <1>1, <1>3
<1> QED  BY <1>2, <1>3, <1>4

\* Inside of a cells and the b behind them.
LEMMA Within ==
    \A a, b \in Nat :
        /\ \A i \in a + 1 .. a + b : i - a \in 1 .. b /\ i = a + (i - a)
        /\ \A k \in 1 .. a : k \notin a + 1 .. a + b
OBVIOUS

-----------------------------------------------------------------------------
(* Cells                                                                   *)

HeaderCells == [size : Nat, prior : Nat]
PieceCells  == [of : Content, piece : Nat]
RestCells   == [rest : Nat]
Cells == HeaderCells \cup PieceCells \cup RestCells

\* A cell that a sweep takes for the end.
Blank(cell) == ~IsHeader(cell) \/ cell = Zero

LEMMA HeaderIs ==
    ASSUME NEW a \in Nat, NEW b \in Nat
    PROVE  /\ Header(a, b) \in HeaderCells
           /\ Header(a, b).size = a /\ Header(a, b).prior = b
           /\ Zero \in HeaderCells /\ Zero.size = 0 /\ Zero.prior = 0
BY DEF Header, Zero, HeaderCells

LEMMA HeaderCell ==
    ASSUME NEW c \in HeaderCells
    PROVE  /\ IsHeader(c) /\ c.size \in Nat /\ c.prior \in Nat /\ c \in Cells
           /\ c.size > 0 => ~Blank(c)
<1>1. IsHeader(c) /\ c.size \in Nat /\ c.prior \in Nat /\ c \in Cells
  BY DEF HeaderCells, IsHeader, Cells
<1>2. Zero.size = 0
  BY HeaderIs
<1> QED  BY <1>1, <1>2 DEF Blank

LEMMA PieceCell ==
    ASSUME NEW c \in PieceCells \cup RestCells
    PROVE  Blank(c) /\ c \in Cells
<1>1. CASE c \in PieceCells
  BY <1>1 DEF PieceCells, IsHeader, Cells, Blank
<1>2. CASE c \in RestCells
  BY <1>2 DEF RestCells, IsHeader, Cells, Blank
<1> QED  BY <1>1, <1>2

\* What is no blank is a header, of some size.
LEMMA NotBlank ==
    ASSUME NEW c \in Cells, ~Blank(c)
    PROVE  c \in HeaderCells
BY PieceCell DEF Cells

LEMMA ZeroIs == Zero \in HeaderCells /\ Zero.size = 0 /\ Zero.prior = 0 /\ Blank(Zero) /\ Zero \in Cells
<1>1. Zero \in HeaderCells /\ Zero.size = 0 /\ Zero.prior = 0
  BY HeaderIs
<1> QED  BY <1>1 DEF Blank, Cells

LEMMA IsSequence ==
    ASSUME NEW n \in Nat, NEW S, NEW f \in [1 .. n -> S]
    PROVE  f \in Seq(S) /\ Len(f) = n
OBVIOUS

\* Of a header only the first cell can be taken for one.
LEMMA HeadingIs ==
    ASSUME NEW c \in HeaderCells
    PROVE  /\ Heading(c) \in Seq(Cells) /\ Len(Heading(c)) = HeaderSize
           /\ 1 \in 1 .. HeaderSize /\ Heading(c)[1] = c
           /\ \A i \in 1 .. HeaderSize : i # 1 => Blank(Heading(c)[i])
<1> DEFINE cell(i) == IF c = Zero THEN Zero ELSE IF i = 1 THEN c ELSE [rest |-> i]
           cells == [i \in 1 .. HeaderSize |-> cell(i)]
<1>0. HeaderSize \in Nat /\ HeaderSize >= 1
  BY HeaderSizeType
<1>1. ASSUME NEW i \in 1 .. HeaderSize
      PROVE  cell(i) \in Cells /\ (i # 1 => Blank(cell(i)))
  <2>1. CASE c = Zero
    BY <2>1, ZeroIs
  <2>2. CASE c # Zero /\ i = 1
    BY <2>2, HeaderCell
  <2>3. CASE c # Zero /\ i # 1
    <3>1. cell(i) \in RestCells
      BY <2>3 DEF RestCells
    <3> QED  BY <3>1, PieceCell
  <2> QED  BY <2>1, <2>2, <2>3
<1>2. cell(1) = c
  OBVIOUS
<1> HIDE DEF cell
<1>3. cells \in Seq(Cells) /\ Len(cells) = HeaderSize
  <2>1. cells \in [1 .. HeaderSize -> Cells] /\ HeaderSize \in Nat
    BY <1>0, <1>1
  <2> HIDE DEF cells
  <2> QED  BY <2>1, IsSequence
<1>4. Heading(c) = cells
  BY DEF Heading, cell
<1>5. 1 \in 1 .. HeaderSize /\ \A i \in 1 .. HeaderSize : cells[i] = cell(i)
  BY <1>0
<1> HIDE DEF cells
<1> QED  BY <1>1, <1>2, <1>3, <1>4, <1>5

LEMMA PiecesAre ==
    ASSUME NEW c \in Content
    PROVE  /\ Size[c] \in Nat \ {0}
           /\ Pieces(c) \in Seq(Cells) /\ Len(Pieces(c)) = Size[c]
           /\ \A i \in 1 .. Size[c] : Pieces(c)[i] \in Cells /\ Blank(Pieces(c)[i])
<1>1. Size[c] \in Nat \ {0}
  BY SizeType
<1>2. \A i \in 1 .. Size[c] : Pieces(c)[i] \in PieceCells
  BY <1>1 DEF Pieces, PieceCells
<1>3. \A i \in 1 .. Size[c] : Pieces(c)[i] \in Cells /\ Blank(Pieces(c)[i])
  BY <1>2, PieceCell
<1>4. Pieces(c) \in [1 .. Size[c] -> Cells]
  BY <1>3 DEF Pieces
<1>5. Pieces(c) \in Seq(Cells) /\ Len(Pieces(c)) = Size[c]
  BY <1>1, <1>4
<1> QED  BY <1>1, <1>3, <1>5

LEMMA MaxOfTwo ==
    ASSUME NEW a \in Nat, NEW b \in Nat
    PROVE  Max({a, b}) = IF a >= b THEN a ELSE b
<1>1. \E x \in {a, b} : \A y \in {a, b} : x >= y
  OBVIOUS
<1>2. Max({a, b}) \in {a, b} /\ \A y \in {a, b} : Max({a, b}) >= y
  BY <1>1, Zenon DEF Max
<1> QED  BY <1>2

\* A write within the file, or right behind it.
LEMMA WrittenIs ==
    ASSUME NEW cells \in Seq(Cells), NEW point \in Nat,
           file \in Seq(Cells), point <= Len(file)
    PROVE  LET w == Written(point, cells) IN
           /\ w \in Seq(Cells)
           /\ Len(w) >= Len(file) /\ Len(w) >= point + Len(cells)
           /\ Len(w) = Len(file) \/ Len(w) = point + Len(cells)
           /\ \A i \in 1 .. Len(cells) : w[point + i] = cells[i]
           /\ \A i \in 1 .. Len(w) :
                 \/ i \in point + 1 .. point + Len(cells)
                 \/ i <= Len(file) /\ w[i] = file[i]
<1> DEFINE w == Written(point, cells)
           n == IF Len(file) >= point + Len(cells) THEN Len(file) ELSE point + Len(cells)
<1>1. Len(file) \in Nat /\ Len(cells) \in Nat
  BY LenProperties
<1>2. n \in Nat /\ Max({Len(file), point + Len(cells)}) = n
  BY <1>1, MaxOfTwo
<1>3. w = [i \in 1 .. n |->
              IF i > point /\ i <= point + Len(cells) THEN cells[i - point] ELSE file[i]]
  BY <1>2 DEF Written
<1>4. \A i \in 1 .. n :
         \/ /\ i \in point + 1 .. point + Len(cells) /\ i - point \in 1 .. Len(cells)
            /\ w[i] = cells[i - point]
         \/ i \in 1 .. Len(file) /\ w[i] = file[i]
  BY <1>1, <1>2, <1>3
<1>5. \A i \in 1 .. n : w[i] \in Cells
  BY <1>1, <1>4, ElementOfSeq
<1>6. w \in [1 .. n -> Cells]
  BY <1>3, <1>5
<1>7. w \in Seq(Cells) /\ Len(w) = n
  <2> HIDE DEF w, n
  <2> QED  BY <1>2, <1>6, IsSequence
<1>8. \A i \in 1 .. Len(cells) : point + i \in 1 .. n /\ (point + i) - point = i
                                 /\ point + i > point /\ point + i <= point + Len(cells)
  BY <1>1
<1>9. \A i \in 1 .. Len(cells) : w[point + i] = cells[i]
  BY <1>3, <1>8
<1> QED  BY <1>1, <1>4, <1>7, <1>9

LEMMA SubSeqSame ==
    ASSUME NEW S, NEW s \in Seq(S), NEW t \in Seq(S),
           NEW a \in Nat \ {0}, NEW b \in Nat, b <= Len(s), b <= Len(t),
           \A k \in a .. b : s[k] = t[k]
    PROVE  SubSeq(s, a, b) = SubSeq(t, a, b)
<1>1. a \in Int /\ b \in Int /\ Len(s) \in Nat /\ Len(t) \in Nat
  BY LenProperties
<1>2. \A k \in a .. b : s[k] \in S /\ t[k] \in S
  BY <1>1, ElementOfSeq
<1>3. /\ SubSeq(s, a, b) \in Seq(S) /\ SubSeq(t, a, b) \in Seq(S)
      /\ Len(SubSeq(s, a, b)) = Len(SubSeq(t, a, b))
      /\ Len(SubSeq(s, a, b)) = IF a <= b THEN b - a + 1 ELSE 0
      /\ \A i \in 1 .. b - a + 1 : SubSeq(s, a, b)[i] = s[a + i - 1]
      /\ \A i \in 1 .. b - a + 1 : SubSeq(t, a, b)[i] = t[a + i - 1]
  BY <1>1, <1>2, SubSeqProperties
<1>4. \A i \in 1 .. Len(SubSeq(s, a, b)) :
         i \in 1 .. b - a + 1 /\ a + i - 1 \in a .. b
  BY <1>3
<1>5. \A i \in 1 .. Len(SubSeq(s, a, b)) : SubSeq(s, a, b)[i] = SubSeq(t, a, b)[i]
  BY <1>3, <1>4
<1> QED  BY <1>3, <1>5, SeqEqual

LEMMA SubSeqIs ==
    ASSUME NEW S, NEW s \in Seq(S), NEW c \in Seq(S), NEW a \in Nat, a + Len(c) <= Len(s),
           \A i \in 1 .. Len(c) : s[a + i] = c[i]
    PROVE  SubSeq(s, a + 1, a + Len(c)) = c
<1> DEFINE b == a + Len(c)
           u == SubSeq(s, a + 1, b)
<1>1. a + 1 \in Int /\ b \in Int /\ Len(s) \in Nat /\ Len(c) \in Nat
  BY LenProperties
<1>2. \A k \in a + 1 .. b : s[k] \in S
  BY <1>1, ElementOfSeq
<1>3. /\ u \in Seq(S)
      /\ Len(u) = IF a + 1 <= b THEN b - (a + 1) + 1 ELSE 0
      /\ \A i \in 1 .. b - (a + 1) + 1 : u[i] = s[a + 1 + i - 1]
  BY <1>1, <1>2, SubSeqProperties
<1> HIDE DEF u
<1>4. Len(u) = Len(c) /\ \A i \in 1 .. Len(c) : i \in 1 .. b - (a + 1) + 1 /\ a + 1 + i - 1 = a + i
  BY <1>1, <1>3
<1>5. \A i \in 1 .. Len(u) : u[i] = c[i]
  BY <1>3, <1>4
<1> QED  BY <1>3, <1>4, <1>5, SeqEqual DEF u

LEMMA HeaderSizeIs == HeaderSize \in Nat /\ HeaderSize >= 1
BY HeaderSizeType

USE HeaderSizeIs

-----------------------------------------------------------------------------
(* Where the records are                                                   *)

\* n records: record i begins behind p[i] cells, with header h[i]; behind the last
\* one p[n + 1] cells.
Trail(p, h, n) ==
    /\ p[1] = 0
    /\ \A i \in 1 .. n :
          /\ h[i].size > 0
          /\ p[i + 1] = p[i] + HeaderSize + h[i].size
          /\ h[i].prior = IF i = 1 THEN 0 ELSE h[i - 1].size
    /\ \A i, j \in 1 .. n + 1 : i < j => p[i] < p[j]

Places  == [Nat -> Nat]
Headers == [Nat -> HeaderCells]

\* The header of the last record.
TopOf(h, n) == IF n = 0 THEN Zero ELSE h[n]

\* The first n records are in the file.
Holds(p, h, n) ==
    /\ p[n + 1] <= Len(file)
    /\ \A i \in 1 .. n : file[p[i] + 1] = h[i]

\* There is no other header, except perhaps behind them.
NoOther(p, n) ==
    \A k \in 1 .. Len(file) : Blank(file[k]) \/ \E i \in 1 .. n + 1 : k = p[i] + 1

\* A sweep stops here: for there is nothing more, or for an exception.
Ends(fails, e) == IF fails THEN ~EndsAt(e) /\ FailsAt(e) ELSE EndsAt(e)

\* No header is here, or one whose record the file does not hold.
Bare(e)     == e = Len(file) \/ Blank(file[e + 1])
Overruns(e) == e + HeaderSize <= Len(file) /\ ~Blank(file[e + 1]) /\ RecordEnd(e) > Len(file)

Records(p, n) == [i \in 1 .. n |-> SubSeq(file, p[i] + HeaderSize + 1, p[i + 1])]

LEMMA PlaceIs ==
    ASSUME NEW p \in Places, NEW i \in Nat
    PROVE  p[i] \in Nat /\ p[i + 1] \in Nat
BY DEF Places

LEMMA TrailIs ==
    ASSUME NEW n \in Nat, NEW p \in Places, NEW h \in Headers, Trail(p, h, n)
    PROVE  /\ \A i \in 1 .. n + 1 : p[i] \in Nat /\ p[i] <= p[n + 1]
           /\ \A i \in 1 .. n : /\ h[i] \in HeaderCells /\ ~Blank(h[i]) /\ IsHeader(h[i])
                                /\ h[i].size \in Nat \ {0} /\ h[i].prior \in Nat
                                /\ p[i] + HeaderSize <= p[i + 1] /\ p[i + 1] <= p[n + 1]
                                /\ p[i] + 1 <= p[i + 1]
           /\ TopOf(h, n) \in HeaderCells /\ TopOf(h, n).size \in Nat
<1>1. \A i \in 1 .. n + 1 : p[i] \in Nat /\ p[i] <= p[n + 1]
  <2> TAKE i \in 1 .. n + 1
  <2>1. p[i] \in Nat /\ p[n + 1] \in Nat
    BY DEF Places
  <2>2. i = n + 1 \/ (i < n + 1 /\ n + 1 \in 1 .. n + 1)
    OBVIOUS
  <2>3. i < n + 1 => p[i] < p[n + 1]
    BY <2>2 DEF Trail
  <2> QED  BY <2>1, <2>2, <2>3
<1>2. \A i \in 1 .. n : /\ h[i] \in HeaderCells /\ h[i].size > 0
                        /\ p[i + 1] = p[i] + HeaderSize + h[i].size
  BY DEF Trail, Headers
<1>3. \A i \in 1 .. n : /\ ~Blank(h[i]) /\ IsHeader(h[i])
                        /\ h[i].size \in Nat \ {0} /\ h[i].prior \in Nat
  BY <1>2, HeaderCell
<1>4. \A i \in 1 .. n : i \in 1 .. n + 1 /\ i + 1 \in 1 .. n + 1
  OBVIOUS
<1>5. \A i \in 1 .. n : /\ p[i] + HeaderSize <= p[i + 1] /\ p[i + 1] <= p[n + 1]
                        /\ p[i] + 1 <= p[i + 1]
  BY <1>1, <1>2, <1>3, <1>4
<1>6. TopOf(h, n) \in HeaderCells
  BY <1>2, ZeroIs DEF TopOf
<1> QED  BY <1>1, <1>2, <1>3, <1>5, <1>6, HeaderCell

\* One record more.
LEMMA TrailGrows ==
    ASSUME NEW n \in Nat, NEW p \in Places, NEW h \in Headers, Trail(p, h, n),
           NEW s \in Nat \ {0}
    PROVE  LET q == [p EXCEPT ![n + 2] = p[n + 1] + HeaderSize + s]
               g == [h EXCEPT ![n + 1] = Header(s, TopOf(h, n).size)]
           IN  /\ q \in Places /\ g \in Headers /\ Trail(q, g, n + 1)
               /\ q[n + 2] = p[n + 1] + HeaderSize + s /\ g[n + 1] = Header(s, TopOf(h, n).size)
               /\ \A i \in 1 .. n + 1 : q[i] = p[i]
               /\ \A i \in 1 .. n : g[i] = h[i]
<1> DEFINE top == Header(s, TopOf(h, n).size)
           q == [p EXCEPT ![n + 2] = p[n + 1] + HeaderSize + s]
           g == [h EXCEPT ![n + 1] = top]
<1>1. /\ top \in HeaderCells /\ top.size = s /\ top.prior = TopOf(h, n).size
  BY TrailIs, HeaderIs
<1>2. p[n + 1] \in Nat
  BY DEF Places
<1>3. /\ q \in Places /\ q[n + 2] = p[n + 1] + HeaderSize + s
      /\ \A i \in 1 .. n + 1 : q[i] = p[i]
  BY <1>2 DEF Places
<1>4. /\ g \in Headers /\ g[n + 1] = top
      /\ \A i \in 1 .. n : g[i] = h[i]
  BY <1>1 DEF Headers
<1>5. q[1] = 0
  BY <1>3 DEF Trail
<1>6. \A i \in 1 .. n + 1 :
         /\ g[i].size > 0
         /\ q[i + 1] = q[i] + HeaderSize + g[i].size
         /\ g[i].prior = IF i = 1 THEN 0 ELSE g[i - 1].size
  <2> TAKE i \in 1 .. n + 1
  <2>1. CASE i = n + 1
    <3>1. g[i] = top /\ q[i + 1] = p[n + 1] + HeaderSize + s /\ q[i] = p[n + 1]
      BY <2>1, <1>3, <1>4
    <3>2. top.prior = IF i = 1 THEN 0 ELSE g[i - 1].size
      <4>1. CASE n = 0
        BY <4>1, <2>1, <1>1, ZeroIs DEF TopOf
      <4>2. CASE n # 0
        <5>1. n \in 1 .. n /\ i # 1 /\ i - 1 = n
          BY <4>2, <2>1
        <5> QED  BY <4>2, <5>1, <1>1, <1>4 DEF TopOf
      <4> QED  BY <4>1, <4>2
    <3> QED  BY <3>1, <3>2, <1>1
  <2>2. CASE i # n + 1
    <3>1. i \in 1 .. n /\ i + 1 \in 1 .. n + 1 /\ (i # 1 => i - 1 \in 1 .. n)
      BY <2>2
    <3>2. g[i] = h[i] /\ q[i] = p[i] /\ q[i + 1] = p[i + 1] /\ (i # 1 => g[i - 1] = h[i - 1])
      BY <3>1, <1>3, <1>4
    <3> QED  BY <3>1, <3>2 DEF Trail
  <2> QED  BY <2>1, <2>2
<1>7. \A i, j \in 1 .. n + 2 : i < j => q[i] < q[j]
  <2> TAKE i, j \in 1 .. n + 2
  <2> HAVE i < j
  <2>1. CASE j = n + 2
    <3>1. i \in 1 .. n + 1 /\ q[i] = p[i] /\ p[i] \in Nat /\ p[i] <= p[n + 1]
      BY <2>1, <1>3, TrailIs
    <3> QED  BY <3>1, <2>1, <1>2, <1>3
  <2>2. CASE j # n + 2
    <3>1. i \in 1 .. n + 1 /\ j \in 1 .. n + 1
      BY <2>2
    <3> QED  BY <3>1, <1>3 DEF Trail
  <2> QED  BY <2>1, <2>2
<1>8. (n + 1) + 1 = n + 2
  OBVIOUS
<1>9. Trail(q, g, n + 1)
  BY <1>5, <1>6, <1>7, <1>8 DEF Trail
<1> QED  BY <1>3, <1>4, <1>9

\* One record less.
LEMMA TrailShrinks ==
    ASSUME NEW n \in Nat \ {0}, NEW p \in Places, NEW h \in Headers, Trail(p, h, n)
    PROVE  /\ Trail(p, h, n - 1)
           /\ n - 1 \in Nat /\ (n - 1) + 1 = n
           /\ p[n + 1] = p[n] + HeaderSize + h[n].size
           /\ h[n].prior = TopOf(h, n - 1).size
<1>1. n - 1 \in Nat /\ (n - 1) + 1 = n /\ n \in 1 .. n
      /\ \A j \in 1 .. n - 1 : j \in 1 .. n
      /\ \A i \in 1 .. n : i \in 1 .. n + 1
  OBVIOUS
<1>2. Trail(p, h, n - 1)
  BY <1>1 DEF Trail
<1>3. h[n].prior = TopOf(h, n - 1).size
  BY <1>1, ZeroIs DEF Trail, TopOf
<1> QED  BY <1>1, <1>2, <1>3 DEF Trail

-----------------------------------------------------------------------------
(* What the sweep finds                                                    *)

\* The body of Sweep's recursive function.
Found(g, p) ==
    IF EndsAt(p) THEN [fails |-> FALSE, starts |-> <<>>]
    ELSE IF FailsAt(p) THEN [fails |-> TRUE, starts |-> <<>>]
    ELSE [g[RecordEnd(p)] EXCEPT !.starts = <<p>> \o @]

LEMMA SweepIsFound == Sweep = (CHOOSE g : g = [p \in 0 .. Len(file) |-> Found(g, p)])[0]
BY DEF Sweep, Found

\* It looks ahead only.
LEMMA FoundAhead ==
    ASSUME file \in Seq(Cells), NEW p \in 0 .. Len(file), NEW f, NEW g,
           \A q \in p + 1 .. Len(file) : f[q] = g[q]
    PROVE  Found(f, p) = Found(g, p)
<1>1. Len(file) \in Nat
  BY LenProperties
<1>2. CASE EndsAt(p) \/ FailsAt(p)
  BY <1>2 DEF Found
<1>3. CASE ~(EndsAt(p) \/ FailsAt(p))
  <2>1. p + 1 \in 1 .. Len(file) /\ ~Blank(file[p + 1])
    BY <1>1, <1>3 DEF EndsAt, FailsAt, Blank
  <2>2. file[p + 1] \in HeaderCells
    BY <2>1, ElementOfSeq, NotBlank
  <2>3. RecordEnd(p) \in Nat /\ RecordEnd(p) >= p + 1
    BY <2>2, HeaderCell DEF RecordEnd
  <2>4. f[RecordEnd(p)] = g[RecordEnd(p)]
    <3>1. ~(RecordEnd(p) > Len(file))
      BY <1>3 DEF FailsAt
    <3> QED  BY <1>1, <2>3, <3>1
  <2> QED  BY <1>3, <2>4 DEF Found
<1> QED  BY <1>2, <1>3

LEMMA FoundExists ==
    ASSUME file \in Seq(Cells)
    PROVE  \E g : g = [p \in 0 .. Len(file) |-> Found(g, p)]
<1> DEFINE n == Len(file)
           IsFcn(g) == g = [p \in 0 .. n |-> g[p]]
           Good(g, k) == \A p \in 0 .. n : p + k > n => g[p] = Found(g, p)
           T == {k \in Nat : \E g : IsFcn(g) /\ Good(g, k)}
<1>1. n \in Nat
  BY LenProperties
<1> HIDE DEF n
<1>2. 0 \in T
  <2>1. IsFcn([p \in 0 .. n |-> 0]) /\ Good([p \in 0 .. n |-> 0], 0)
    BY <1>1
  <2> QED  BY <2>1
<1>3. ASSUME NEW k \in 0 .. (n + 1) - 1, k \in T
      PROVE  k + 1 \in T
  <2>1. PICK g : IsFcn(g) /\ Good(g, k)
    BY <1>3
  <2> DEFINE q == n - k
             f == [p \in 0 .. n |-> IF p = q THEN Found(g, q) ELSE g[p]]
  <2>2. q \in 0 .. n
    BY <1>1
  <2>3. IsFcn(f)
    OBVIOUS
  <2>4. f[q] = Found(g, q) /\ \A p \in 0 .. n : p # q => f[p] = g[p]
    BY <2>2
  <2> HIDE DEF f
  <2>5. ASSUME NEW p \in 0 .. n, p + (k + 1) > n
        PROVE  f[p] = Found(f, p)
    <3>1. p >= q
      BY <1>1, <2>5
    <3>2. \A r \in p + 1 .. n : r \in 0 .. n /\ r # q
      BY <1>1, <2>2, <3>1
    <3>3. \A r \in p + 1 .. Len(file) : f[r] = g[r]
      BY <2>4, <3>2 DEF n
    <3>4. Found(f, p) = Found(g, p)
      BY <3>3, FoundAhead DEF n
    <3>5. p = q \/ p + k > n
      BY <1>1, <2>5
    <3> QED  BY <2>1, <2>4, <3>4, <3>5
  <2>6. Good(f, k + 1) /\ k + 1 \in Nat
    BY <2>5
  <2> QED  BY <2>3, <2>6
<1> HIDE DEF T
<1>4. n + 1 \in T
  <2>1. n + 1 \in Nat /\ n + 1 \in 0 .. n + 1
    BY <1>1
  <2>2. \A k \in 0 .. n + 1 : k \in T
    BY <1>2, <1>3, <2>1, UpTo
  <2> QED  BY <2>1, <2>2
<1>5. PICK g : IsFcn(g) /\ Good(g, n + 1)
  BY <1>4 DEF T
<1>6. \A p \in 0 .. n : p + (n + 1) > n
  BY <1>1
<1>7. \A p \in 0 .. n : g[p] = Found(g, p)
  BY <1>5, <1>6
<1>8. g = [p \in 0 .. n |-> Found(g, p)]
  BY <1>5, <1>7
<1> QED  BY <1>8 DEF n

LEMMA SweepFound ==
    ASSUME file \in Seq(Cells)
    PROVE  \E g : /\ Sweep = g[0]
                  /\ \A p \in 0 .. Len(file) : g[p] = Found(g, p)
<1> DEFINE IsSweep(g) == g = [p \in 0 .. Len(file) |-> Found(g, p)]
           g == CHOOSE f : IsSweep(f)
<1>1. IsSweep(g)
  <2>1. \E f : IsSweep(f)
    BY FoundExists
  <2> HIDE DEF IsSweep
  <2> QED  BY <2>1
<1>2. Sweep = g[0]
  BY SweepIsFound
<1> HIDE DEF g
<1>3. \A p \in 0 .. Len(file) : g[p] = Found(g, p)
  BY <1>1
<1> QED  BY <1>2, <1>3

\* One start in front of the others.
LEMMA OneInFront ==
    ASSUME NEW p \in Places, NEW m \in Nat \ {0}, NEW k \in Nat
    PROVE  <<p[m]>> \o [i \in 1 .. k |-> p[m + i]] = [i \in 1 .. k + 1 |-> p[m - 1 + i]]
<1> DEFINE one == <<p[m]>>
           rest == [i \in 1 .. k |-> p[m + i]]
           all == [i \in 1 .. k + 1 |-> p[m - 1 + i]]
<1>1. one \in Seq(Nat) /\ Len(one) = 1 /\ one[1] = p[m]
  BY DEF Places
<1>2. rest \in [1 .. k -> Nat] /\ all \in [1 .. k + 1 -> Nat]
  BY DEF Places
<1>3. rest \in Seq(Nat) /\ Len(rest) = k /\ all \in Seq(Nat) /\ Len(all) = k + 1
  <2>1. k + 1 \in Nat
    OBVIOUS
  <2> HIDE DEF rest, all
  <2> QED  BY <1>2, <2>1, IsSequence
<1>4. \A i \in 1 .. k + 1 : all[i] = IF i <= 1 THEN one[i] ELSE rest[i - 1]
  <2> TAKE i \in 1 .. k + 1
  <2>1. CASE i = 1
    BY <2>1, <1>1
  <2>2. CASE i # 1
    <3>1. i - 1 \in 1 .. k /\ m + (i - 1) = m - 1 + i /\ ~(i <= 1)
      BY <2>2
    <3> QED  BY <3>1
  <2> QED  BY <2>1, <2>2
<1> HIDE DEF one, rest, all
<1>5. /\ one \o rest \in Seq(Nat) /\ Len(one \o rest) = 1 + k
      /\ \A i \in 1 .. 1 + k : (one \o rest)[i] = IF i <= 1 THEN one[i] ELSE rest[i - 1]
  <2>1. /\ one \o rest \in Seq(Nat) /\ Len(one \o rest) = Len(one) + Len(rest)
        /\ \A i \in 1 .. Len(one) + Len(rest) :
              (one \o rest)[i] = IF i <= Len(one) THEN one[i] ELSE rest[i - Len(one)]
    BY <1>1, <1>3, ConcatProperties, Zenon
  <2> QED  BY <1>1, <1>3, <2>1
<1>6. one \o rest = all
  <2>1. Len(one \o rest) = Len(all) /\ Len(all) = 1 + k
    BY <1>3, <1>5
  <2>2. \A i \in 1 .. Len(one \o rest) : (one \o rest)[i] = all[i]
    BY <1>4, <1>5
  <2> QED  BY <1>3, <1>5, <2>1, <2>2, SeqEqual
<1> QED  BY <1>6 DEF one, rest, all

\* The sweep finds the records that are there, and the content of each.
SweepFinds ==
    \A n \in Nat, p \in Places, h \in Headers, fails \in BOOLEAN :
        file \in Seq(Cells) /\ Trail(p, h, n) /\ Holds(p, h, n) /\ Ends(fails, p[n + 1])
        => Sweep = [fails |-> fails, starts |-> [i \in 1 .. n |-> p[i]]] /\ Left = Records(p, n)

LEMMA SweepIs == SweepFinds
<1> SUFFICES ASSUME NEW n \in Nat, NEW p \in Places, NEW h \in Headers, NEW fails \in BOOLEAN,
                    file \in Seq(Cells), Trail(p, h, n), Holds(p, h, n), Ends(fails, p[n + 1])
             PROVE  /\ Sweep = [fails |-> fails, starts |-> [i \in 1 .. n |-> p[i]]]
                    /\ Left = Records(p, n)
  BY DEF SweepFinds
<1>1. PICK g : Sweep = g[0] /\ \A q \in 0 .. Len(file) : g[q] = Found(g, q)
  BY SweepFound
<1>2. /\ Len(file) \in Nat /\ p[n + 1] <= Len(file)
      /\ \A i \in 1 .. n + 1 : p[i] \in 0 .. Len(file)
  BY TrailIs, LenProperties DEF Holds
<1> DEFINE starts(k) == [i \in 1 .. k |-> p[n - k + i]]
           T == {k \in 0 .. n : g[p[n - k + 1]] = [fails |-> fails, starts |-> starts(k)]}
<1>3. 0 \in T
  <2>1. starts(0) = <<>>
    OBVIOUS
  <2>2. n - 0 + 1 = n + 1 /\ n + 1 \in 1 .. n + 1
    OBVIOUS
  <2>3. g[p[n + 1]] = Found(g, p[n + 1])
    BY <1>1, <1>2, <2>2
  <2>4. Found(g, p[n + 1]) = [fails |-> fails, starts |-> <<>>]
    <3>1. CASE fails
      BY <3>1 DEF Ends, Found
    <3>2. CASE ~fails
      BY <3>2 DEF Ends, Found
    <3> QED  BY <3>1, <3>2
  <2> QED  BY <2>1, <2>2, <2>3, <2>4
<1>4. ASSUME NEW k \in 0 .. n - 1, k \in T
      PROVE  k + 1 \in T
  <2> DEFINE m == n - k
  <2>1. m \in 1 .. n /\ m \in Nat \ {0} /\ m + 1 \in 1 .. n + 1 /\ k \in Nat
    OBVIOUS
  <2>2. /\ file[p[m] + 1] = h[m] /\ ~Blank(h[m]) /\ p[m] + HeaderSize + h[m].size = p[m + 1]
        /\ p[m + 1] <= Len(file) /\ p[m] + HeaderSize <= Len(file) /\ p[m] \in 0 .. Len(file)
    <3>1. file[p[m] + 1] = h[m] /\ p[m] + HeaderSize + h[m].size = p[m + 1]
      BY <2>1 DEF Holds, Trail
    <3>2. ~Blank(h[m]) /\ p[m] + HeaderSize <= p[m + 1]
      BY <2>1, TrailIs
    <3>3. p[m] \in 0 .. Len(file) /\ p[m + 1] \in 0 .. Len(file)
      BY <1>2, <2>1
    <3> QED  BY <3>1, <3>2, <3>3, <1>2
  <2>3. g[p[m]] = [g[p[m + 1]] EXCEPT !.starts = <<p[m]>> \o @]
    <3>1. g[p[m]] = Found(g, p[m])
      BY <1>1, <2>2
    <3>2. RecordEnd(p[m]) = p[m + 1]
      BY <2>2 DEF RecordEnd
    <3>3. ~EndsAt(p[m]) /\ ~FailsAt(p[m])
      <4>1. p[m] # Len(file) /\ ~(p[m] + HeaderSize > Len(file)) /\ ~(p[m + 1] > Len(file))
        BY <1>2, <2>1, <2>2
      <4>2. IsHeader(file[p[m] + 1]) /\ file[p[m] + 1] # Zero
        BY <2>2 DEF Blank
      <4> QED  BY <3>2, <4>1, <4>2, Zenon DEF EndsAt, FailsAt
    <3> QED  BY <3>1, <3>2, <3>3 DEF Found
  <2>4. g[p[m + 1]] = [fails |-> fails, starts |-> starts(k)]
    <3>1. g[p[n - k + 1]] = [fails |-> fails, starts |-> starts(k)]
      BY <1>4
    <3> QED  BY <3>1
  <2> HIDE DEF T, m, starts
  <2>5. starts(k) = [i \in 1 .. k |-> p[m + i]]
    BY DEF m, starts
  <2>6. <<p[m]>> \o starts(k) = [i \in 1 .. k + 1 |-> p[m - 1 + i]]
    BY <2>1, <2>5, OneInFront
  <2>7. [i \in 1 .. k + 1 |-> p[m - 1 + i]] = starts(k + 1)
    <3>1. \A i \in 1 .. k + 1 : m - 1 + i = n - (k + 1) + i
      BY <2>1 DEF m
    <3> QED  BY <3>1 DEF starts
  <2>8. g[p[m]] = [fails |-> fails, starts |-> starts(k + 1)]
    <3> DEFINE found == [fails |-> fails, starts |-> starts(k)]
               more == <<p[m]>> \o found.starts
    <3>1. found.starts = starts(k)
      OBVIOUS
    <3>2. [found EXCEPT !.starts = more] = [fails |-> fails, starts |-> more]
      <4> HIDE DEF more
      <4> QED  OBVIOUS
    <3>3. more = starts(k + 1)
      BY <3>1, <2>6, <2>7, Zenon
    <3>4. g[p[m]] = [found EXCEPT !.starts = more]
      BY <2>3, <2>4, Zenon
    <3> HIDE DEF found, more
    <3> QED  BY <3>2, <3>3, <3>4, Zenon
  <2>9. n - (k + 1) + 1 = m /\ k + 1 \in 0 .. n
    BY <2>1 DEF m
  <2> QED  BY <2>8, <2>9 DEF T
<1>5. n \in T
  <2> HIDE DEF T
  <2>1. \A k \in 0 .. n : k \in T
    BY <1>3, <1>4, UpTo
  <2> QED  BY <2>1
<1>6. starts(n) = [i \in 1 .. n |-> p[i]]
  <2>1. \A i \in 1 .. n : n - n + i = i
    OBVIOUS
  <2> QED  BY <2>1
<1>7. Sweep = [fails |-> fails, starts |-> [i \in 1 .. n |-> p[i]]]
  <2>1. n - n + 1 = 1 /\ p[1] = 0
    BY DEF Trail
  <2> QED  BY <1>1, <1>5, <1>6, <2>1
<1>8. Left = Records(p, n)
  <2>1. Sweep.starts = [i \in 1 .. n |-> p[i]] /\ DOMAIN Sweep.starts = 1 .. n
    BY <1>7
  <2>2. \A i \in 1 .. n : Sweep.starts[i] = p[i] /\ RecordEnd(p[i]) = p[i + 1]
    <3> TAKE i \in 1 .. n
    <3>1. file[p[i] + 1] = h[i] /\ p[i + 1] = p[i] + HeaderSize + h[i].size
      BY DEF Holds, Trail
    <3> QED  BY <2>1, <3>1 DEF RecordEnd
  <2>3. Left = [i \in 1 .. n |-> LET start == Sweep.starts[i]
                                 IN  SubSeq(file, start + HeaderSize + 1, RecordEnd(start))]
    BY <2>1 DEF Left
  <2> QED  BY <2>2, <2>3 DEF Records
<1> QED  BY <1>7, <1>8

LEMMA SweepEndIs ==
    ASSUME NEW n \in Nat, NEW p \in Places, NEW h \in Headers,
           Trail(p, h, n), Holds(p, h, n), Sweep.starts = [i \in 1 .. n |-> p[i]]
    PROVE  SweepEnd = p[n + 1]
<1>1. Sweep.starts \in Seq(Nat) /\ Len(Sweep.starts) = n
  <2>1. [i \in 1 .. n |-> p[i]] \in [1 .. n -> Nat]
    BY DEF Places
  <2> QED  BY <2>1, IsSequence
<1>2. CASE n = 0
  BY <1>1, <1>2 DEF SweepEnd, Trail
<1>3. CASE n # 0
  <2>1. n \in 1 .. n /\ Sweep.starts # <<>>
    BY <1>1, <1>3
  <2>2. Last(Sweep.starts) = p[n]
    BY <1>1, <2>1 DEF Last
  <2>3. RecordEnd(p[n]) = p[n + 1]
    <3>1. file[p[n] + 1] = h[n] /\ p[n + 1] = p[n] + HeaderSize + h[n].size
      BY <2>1 DEF Holds, Trail
    <3> QED  BY <3>1 DEF RecordEnd
  <2> QED  BY <2>1, <2>2, <2>3 DEF SweepEnd
<1> QED  BY <1>2, <1>3

-----------------------------------------------------------------------------
(* What the pops find                                                      *)

\* The body of Held's recursive function.
Led(g, k) ==
    IF k = 0 THEN [end |-> insert, top |-> current]
    ELSE LET above == g[k - 1]
             start == above.end - above.top.size - HeaderSize
         IN  [end |-> start, top |-> IF k < depth THEN file[start - above.top.prior - HeaderSize + 1]
                             ELSE Zero]

HeldBy(g) == [i \in 1 .. depth |-> SubSeq(file, g[depth - i + 1].end + HeaderSize + 1, g[depth - i].end)]

LEMMA HeldIsLed == Held = HeldBy(CHOOSE g : g = [k \in 0 .. depth |-> Led(g, k)])
BY DEF Held, Led, HeldBy

\* The memory is at the end of the trail.
AtEnd(p, h) ==
    /\ Trail(p, h, depth)
    /\ insert = p[depth + 1]
    /\ current = TopOf(h, depth)

\* k pops lead from the end to the k-th record from it.
LEMMA LedIs ==
    ASSUME NEW p \in Places, NEW h \in Headers, depth \in Nat, AtEnd(p, h),
           \A i \in 1 .. depth - 1 : file[p[i] + 1] = h[i],
           NEW k \in 0 .. depth, NEW g,
           k # 0 => g[k - 1] = [end |-> p[depth - k + 2], top |-> TopOf(h, depth - k + 1)]
    PROVE  Led(g, k) = [end |-> p[depth - k + 1], top |-> TopOf(h, depth - k)]
<1>1. CASE k = 0
  <2>1. depth - k = depth /\ depth - k + 1 = depth + 1
    BY <1>1
  <2> QED  BY <1>1, <2>1 DEF Led, AtEnd
<1>2. CASE k # 0
  <2> DEFINE m == depth - k + 1
  <2>1. m \in 1 .. depth /\ m \in 1 .. m /\ m # 0 /\ m + 1 = depth - k + 2 /\ m - 1 = depth - k
        /\ m \in Nat \ {0}
    BY <1>2
  <2> HIDE DEF m
  <2>2. /\ p[m] \in Nat /\ p[m + 1] = p[m] + HeaderSize + h[m].size /\ h[m].size \in Nat
        /\ h[m].prior = IF m = 1 THEN 0 ELSE h[m - 1].size
    BY <2>1, TrailIs DEF AtEnd, Trail, Places
  <2>3. g[k - 1].end = p[m + 1] /\ g[k - 1].top = h[m]
    BY <1>2, <2>1 DEF m, TopOf
  <2>4. g[k - 1].end - g[k - 1].top.size - HeaderSize = p[m]
    BY <2>2, <2>3
  <2>5. CASE k < depth
    <3>1. m # 1 /\ m - 1 \in 1 .. depth - 1 /\ m - 1 # 0 /\ m - 1 \in 1 .. depth
      BY <2>1, <2>5 DEF m
    <3>2. /\ h[m].prior = h[m - 1].size /\ file[p[m - 1] + 1] = h[m - 1]
          /\ h[m - 1].size \in Nat /\ p[m - 1] \in Nat
      BY <2>2, <3>1, TrailIs DEF AtEnd, Places
    <3>3. p[m] = p[m - 1] + HeaderSize + h[m - 1].size
      <4>1. (m - 1) + 1 = m
        BY <2>1
      <4> QED  BY <3>1, <4>1 DEF AtEnd, Trail
    <3>4. p[m] - g[k - 1].top.prior - HeaderSize + 1 = p[m - 1] + 1
      BY <2>3, <3>2, <3>3
    <3>5. TopOf(h, m - 1) = file[p[m] - g[k - 1].top.prior - HeaderSize + 1]
      BY <3>1, <3>2, <3>4 DEF TopOf
    <3> QED  BY <1>2, <2>1, <2>4, <2>5, <3>5 DEF Led, m
  <2>6. CASE ~(k < depth)
    <3>1. k = depth /\ m - 1 = 0 /\ TopOf(h, m - 1) = Zero
      BY <2>1, <2>6 DEF m, TopOf
    <3> QED  BY <1>2, <2>1, <2>4, <2>6, <3>1 DEF Led, m
  <2> QED  BY <2>5, <2>6
<1> QED  BY <1>1, <1>2

\* The pops find them too.
PopsFind ==
    \A p \in Places, h \in Headers :
        /\ depth \in Nat /\ AtEnd(p, h)
        /\ \A i \in 1 .. depth - 1 : file[p[i] + 1] = h[i]
        => Held = Records(p, depth)

LEMMA HeldIs == PopsFind
<1> SUFFICES ASSUME NEW p \in Places, NEW h \in Headers,
                    depth \in Nat, AtEnd(p, h), \A i \in 1 .. depth - 1 : file[p[i] + 1] = h[i]
             PROVE  Held = Records(p, depth)
  BY DEF PopsFind
<1> DEFINE at_(k) == [end |-> p[depth - k + 1], top |-> TopOf(h, depth - k)]
           down == [k \in 0 .. depth |-> at_(k)]
           IsDown(g) == g = [k \in 0 .. depth |-> Led(g, k)]
           d == CHOOSE g : IsDown(g)
<1>1. ASSUME NEW k \in 0 .. depth, NEW g, k # 0 => g[k - 1] = at_(k - 1)
      PROVE  Led(g, k) = at_(k)
  <2>1. k # 0 => depth - (k - 1) + 1 = depth - k + 2 /\ depth - (k - 1) = depth - k + 1
    OBVIOUS
  <2>2. k # 0 => g[k - 1] = [end |-> p[depth - k + 2], top |-> TopOf(h, depth - k + 1)]
    BY <1>1, <2>1
  <2> QED  BY <2>2, LedIs
<1> HIDE DEF at_
<1>2. IsDown(down)
  <2>1. \A k \in 0 .. depth : down[k] = at_(k) /\ (k # 0 => k - 1 \in 0 .. depth)
    OBVIOUS
  <2> HIDE DEF down
  <2>2. \A k \in 0 .. depth : k # 0 => down[k - 1] = at_(k - 1)
    BY <2>1
  <2>3. \A k \in 0 .. depth : Led(down, k) = at_(k)
    BY <1>1, <2>2
  <2>4. [k \in 0 .. depth |-> Led(down, k)] = [k \in 0 .. depth |-> at_(k)]
    BY <2>3
  <2> QED  BY <2>4 DEF down
<1>3. IsDown(d)
  <2> HIDE DEF IsDown
  <2> QED  BY <1>2
<1>4. Held = HeldBy(d)
  BY HeldIsLed
<1> HIDE DEF d
<1>5. \A k \in 0 .. depth : d[k] = Led(d, k)
  BY <1>3
<1>6. \A k \in 0 .. depth : d[k] = at_(k)
  <2> DEFINE T == {k \in 0 .. depth : d[k] = at_(k)}
  <2>1. 0 \in T
    BY <1>1, <1>5
  <2>2. ASSUME NEW k \in 0 .. depth - 1, k \in T
        PROVE  k + 1 \in T
    <3>1. k + 1 \in 0 .. depth /\ (k + 1) - 1 = k
      OBVIOUS
    <3>2. d[(k + 1) - 1] = at_((k + 1) - 1)
      BY <2>2, <3>1
    <3> QED  BY <1>1, <1>5, <3>1, <3>2
  <2> HIDE DEF T
  <2>3. \A k \in 0 .. depth : k \in T
    BY <2>1, <2>2, UpTo
  <2> QED  BY <2>3 DEF T
<1>7. \A i \in 1 .. depth : d[depth - i + 1].end + HeaderSize + 1 = p[i] + HeaderSize + 1 /\ d[depth - i].end = p[i + 1]
  <2> TAKE i \in 1 .. depth
  <2>1. /\ depth - i + 1 \in 0 .. depth /\ depth - (depth - i + 1) + 1 = i
        /\ depth - i \in 0 .. depth /\ depth - (depth - i) + 1 = i + 1
    OBVIOUS
  <2>2. d[depth - i + 1] = at_(depth - i + 1) /\ d[depth - i] = at_(depth - i)
    BY <1>6, <2>1
  <2> QED  BY <2>1, <2>2 DEF at_
<1> QED  BY <1>4, <1>7 DEF HeldBy, Records

-----------------------------------------------------------------------------
(* The inductive invariant                                                 *)

FileTypes ==
    /\ file \in Seq(Cells) /\ buffer \in Seq(Cells)
    /\ position \in Nat /\ insert \in Nat /\ depth \in Nat
    /\ current \in HeaderCells

Types ==
    /\ FileTypes
    /\ open \in BOOLEAN /\ torn \in BOOLEAN
    /\ at \in [Threads -> {"idle", "push", "pop", "reply"}]
    /\ data \in Content

Pushing == \E t \in Threads : at[t] = "push"
Popping == \E t \in Threads : at[t] = "pop"

\* One thread is inside push or pop, or none, and that only while the file is open.
Alone ==
    /\ \A t, u \in Threads :
          at[t] \in {"push", "pop"} /\ at[u] \in {"push", "pop"} => t = u
    /\ ~open => \A t \in Threads : at[t] = "idle"

\* No program has the file open.
ShutState(p, h, n) ==
    /\ Trail(p, h, n) /\ Holds(p, h, n) /\ NoOther(p, n)
    /\ Bare(p[n + 1]) \/ (torn /\ Overruns(p[n + 1]))

\* A program has, and nobody is inside push or pop.
FreeState(p, h) ==
    /\ AtEnd(p, h) /\ Holds(p, h, depth) /\ NoOther(p, depth)
    /\ Bare(insert) /\ position = insert

\* The header of the next record is there.
PushState(p, h) ==
    /\ AtEnd(p, h) /\ Holds(p, h, depth) /\ NoOther(p, depth)
    /\ position = insert + HeaderSize /\ insert + HeaderSize <= Len(file)
    /\ file[insert + 1] = Header(Size[data], current.size)

\* The header of the last record is no more.
PopState(p, h) ==
    /\ AtEnd(p, h) /\ depth > 0 /\ insert <= Len(file)
    /\ Holds(p, h, depth - 1) /\ NoOther(p, depth - 1)
    /\ file[p[depth] + 1] = Zero /\ position = p[depth] + HeaderSize

FileInv ==
    \E p \in Places, h \in Headers :
        /\ ~open => \E n \in Nat : ShutState(p, h, n)
        /\ open /\ Free => FreeState(p, h)
        /\ Pushing => PushState(p, h)
        /\ Popping => PopState(p, h)

IInv == Types /\ Alone /\ FileInv

-----------------------------------------------------------------------------
(* Records that a step leaves alone, or adds                               *)

LEMMA RecordsKept ==
    ASSUME file \in Seq(Cells), file' \in Seq(Cells),
           NEW n \in Nat, NEW p \in Places, NEW h \in Headers, Trail(p, h, n),
           p[n + 1] <= Len(file), p[n + 1] <= Len(file'),
           \A i \in 1 .. n : \A k \in p[i] + HeaderSize + 1 .. p[i + 1] : file'[k] = file[k]
    PROVE  Records(p, n)' = Records(p, n)
<1>1. Len(file) \in Nat /\ Len(file') \in Nat
  BY LenProperties
<1>2. ASSUME NEW i \in 1 .. n
      PROVE  SubSeq(file', p[i] + HeaderSize + 1, p[i + 1]) = SubSeq(file, p[i] + HeaderSize + 1, p[i + 1])
  <2>1. /\ p[i] + HeaderSize + 1 \in Nat \ {0} /\ p[i + 1] \in Nat
        /\ p[i + 1] <= Len(file) /\ p[i + 1] <= Len(file')
    <3> DEFINE a == p[i]
               b == p[i + 1]
               c == p[n + 1]
    <3>1. a \in Nat /\ b \in Nat /\ c \in Nat
      <4>1. i \in Nat /\ i + 1 \in Nat /\ n + 1 \in Nat
        OBVIOUS
      <4> QED  BY <4>1, Zenon DEF Places
    <3>2. b <= c /\ c <= Len(file) /\ c <= Len(file')
      BY TrailIs
    <3> HIDE DEF a, b, c
    <3>3. a + HeaderSize + 1 \in Nat \ {0} /\ b \in Nat /\ b <= Len(file) /\ b <= Len(file')
      BY <1>1, <3>1, <3>2
    <3> QED  BY <3>3 DEF a, b
  <2>2. \A k \in p[i] + HeaderSize + 1 .. p[i + 1] : file'[k] = file[k]
    OBVIOUS
  <2> DEFINE a == p[i] + HeaderSize + 1
             b == p[i + 1]
  <2>3. a \in Nat \ {0} /\ b \in Nat /\ b <= Len(file) /\ b <= Len(file')
    BY <2>1
  <2>4. \A k \in a .. b : file'[k] = file[k]
    BY <2>2
  <2> HIDE DEF a, b
  <2>5. SubSeq(file', a, b) = SubSeq(file, a, b)
    BY <2>3, <2>4, SubSeqSame
  <2> QED  BY <2>5 DEF a, b
<1> QED  BY <1>2 DEF Records

LEMMA RecordsAre ==
    ASSUME file \in Seq(Cells),
           NEW n \in Nat, NEW p \in Places, NEW h \in Headers, Trail(p, h, n), p[n + 1] <= Len(file)
    PROVE  /\ Records(p, n) \in Seq(Seq(Cells)) /\ Len(Records(p, n)) = n
           /\ \A i \in 1 .. n :
                 /\ Records(p, n)[i] = SubSeq(file, p[i] + HeaderSize + 1, p[i + 1])
                 /\ Len(Records(p, n)[i]) = h[i].size
<1>1. ASSUME NEW i \in 1 .. n
      PROVE  /\ SubSeq(file, p[i] + HeaderSize + 1, p[i + 1]) \in Seq(Cells)
             /\ Len(SubSeq(file, p[i] + HeaderSize + 1, p[i + 1])) = h[i].size
  <2>1. /\ p[i] \in Nat /\ h[i].size \in Nat /\ h[i].size > 0 /\ p[i + 1] = p[i] + HeaderSize + h[i].size
        /\ p[i + 1] <= p[n + 1] /\ p[n + 1] \in Nat
    <3>1. i \in Nat /\ n + 1 \in Nat
      OBVIOUS
    <3>2. p[i] \in Nat /\ p[n + 1] \in Nat
      BY <3>1 DEF Places
    <3>3. h[i].size \in Nat \ {0} /\ p[i + 1] <= p[n + 1]
      BY TrailIs
    <3>4. p[i + 1] = p[i] + HeaderSize + h[i].size
      BY DEF Trail
    <3> QED  BY <3>2, <3>3, <3>4
  <2>2. Len(file) \in Nat
    BY LenProperties
  <2>3. \A k \in p[i] + HeaderSize + 1 .. p[i + 1] : file[k] \in Cells
    <3> DEFINE a == p[i]
               b == p[i + 1]
    <3>1. a \in Nat /\ b \in Nat /\ b <= Len(file)
      <4>1. i + 1 \in Nat
        OBVIOUS
      <4>2. b \in Nat
        BY <4>1 DEF Places
      <4> QED  BY <2>1, <2>2, <4>2
    <3> HIDE DEF a, b
    <3>2. \A k \in a + HeaderSize + 1 .. b : k \in 1 .. Len(file)
      BY <2>2, <3>1
    <3>3. \A k \in a + HeaderSize + 1 .. b : file[k] \in Cells
      BY <3>2, ElementOfSeq
    <3> QED  BY <3>3 DEF a, b
  <2>4. /\ p[i] + HeaderSize + 1 \in Int /\ p[i + 1] \in Int
        /\ p[i] + HeaderSize + 1 <= p[i + 1] /\ p[i + 1] - (p[i] + HeaderSize + 1) + 1 = h[i].size
    <3> DEFINE a == p[i]
               b == p[i + 1]
               c == h[i].size
    <3>1. a \in Nat /\ c \in Nat /\ c > 0 /\ b = a + HeaderSize + c
      BY <2>1
    <3> HIDE DEF a, b, c
    <3>2. a + HeaderSize + 1 \in Int /\ b \in Int /\ a + HeaderSize + 1 <= b /\ b - (a + HeaderSize + 1) + 1 = c
      BY <3>1
    <3> QED  BY <3>2 DEF a, b, c
  <2> QED  BY <2>3, <2>4, SubSeqProperties
<1>2. Records(p, n) \in [1 .. n -> Seq(Cells)]
  BY <1>1 DEF Records
<1>3. Records(p, n) \in Seq(Seq(Cells)) /\ Len(Records(p, n)) = n
  BY <1>2, IsSequence
<1> QED  BY <1>1, <1>3 DEF Records

-----------------------------------------------------------------------------
(* The stack                                                               *)

\* The sweep ends where there is no header, or none whose record it can read.
LEMMA BareEnds ==
    ASSUME file \in Seq(Cells), NEW e \in Nat, e <= Len(file), Bare(e) \/ Overruns(e)
    PROVE  \E fails \in BOOLEAN : Ends(fails, e)
<1>1. EndsAt(e) \/ FailsAt(e)
  BY LenProperties DEF EndsAt, FailsAt, Bare, Overruns, Blank
<1>2. Ends(FALSE, e) \/ Ends(TRUE, e)
  BY <1>1 DEF Ends
<1> QED  BY <1>2

\* Whatever the state, what the next program's sweep finds and what the pops of
\* this one find is what the trail says.
StackFound ==
    FileTypes => \A p \in Places, h \in Headers :
        /\ FreeState(p, h) \/ PushState(p, h) \/ PopState(p, h) => Held = Records(p, depth)
        /\ \A n \in Nat : ShutState(p, h, n) => Left = Records(p, n)

LEMMA StackIs == StackFound
<1> SUFFICES ASSUME FileTypes, NEW p \in Places, NEW h \in Headers
             PROVE  /\ FreeState(p, h) \/ PushState(p, h) \/ PopState(p, h)
                       => Held = Records(p, depth)
                    /\ \A n \in Nat : ShutState(p, h, n) => Left = Records(p, n)
  BY DEF StackFound
<1>1. ASSUME FreeState(p, h) \/ PushState(p, h) \/ PopState(p, h)
      PROVE  Held = Records(p, depth)
  <2>1. AtEnd(p, h) /\ (Holds(p, h, depth) \/ Holds(p, h, depth - 1))
    BY <1>1 DEF FreeState, PushState, PopState
  <2>2. \A i \in 1 .. depth - 1 : file[p[i] + 1] = h[i]
    <3>1. depth \in Nat /\ \A i \in 1 .. depth - 1 : i \in 1 .. depth
      BY DEF FileTypes
    <3> QED  BY <2>1, <3>1 DEF Holds
  <2> QED  BY <2>1, <2>2, HeldIs DEF PopsFind, FileTypes
<1>2. ASSUME NEW n \in Nat, ShutState(p, h, n)
      PROVE  Left = Records(p, n)
  <2>1. \E fails \in BOOLEAN : Ends(fails, p[n + 1])
    <3>1. p[n + 1] \in Nat /\ p[n + 1] <= Len(file) /\ file \in Seq(Cells)
      BY <1>2 DEF ShutState, Holds, Places, FileTypes
    <3> QED  BY <1>2, <3>1, BareEnds DEF ShutState
  <2> QED  BY <1>2, <2>1, SweepIs DEF SweepFinds, ShutState, FileTypes
<1> QED  BY <1>1, <1>2

LEMMA StackIsNext == StackFound'
BY StackIs, PTL

-----------------------------------------------------------------------------
(* The constructor                                                         *)

LEMMA OpenStep ==
    ASSUME FileTypes, NEW n \in Nat, NEW p \in Places, NEW h \in Headers,
           ShutState(p, h, n), OpenFile
    PROVE  /\ FileTypes' /\ FreeState(p, h)'
           /\ Held' = Left
<1>1. /\ Trail(p, h, n) /\ Holds(p, h, n) /\ NoOther(p, n)
      /\ Len(file) \in Nat /\ p[n + 1] \in Nat /\ p[n + 1] <= Len(file)
  <2>1. Len(file) \in Nat
    BY LenProperties DEF FileTypes
  <2>2. p[n + 1] \in Nat
    BY PlaceIs
  <2> QED  BY <2>1, <2>2 DEF ShutState, Holds
<1>2. EndsAt(p[n + 1]) /\ Bare(p[n + 1])
  <2>1. ASSUME ~EndsAt(p[n + 1])
        PROVE  FALSE
    <3>1. Ends(TRUE, p[n + 1]) /\ TRUE \in BOOLEAN
      <4>1. \E fails \in BOOLEAN : Ends(fails, p[n + 1])
        BY <1>1, BareEnds DEF ShutState, FileTypes
      <4> QED  BY <2>1, <4>1 DEF Ends
    <3>2. Sweep = [fails |-> TRUE, starts |-> [i \in 1 .. n |-> p[i]]]
      BY <1>1, <3>1, SweepIs, Zenon DEF SweepFinds, FileTypes
    <3> QED  BY <3>2 DEF OpenFile
  <2>2. EndsAt(p[n + 1])
    BY <2>1
  <2>3. ~Overruns(p[n + 1])
    BY <1>1, <2>2 DEF EndsAt, Overruns, Blank
  <2> QED  BY <2>2, <2>3 DEF ShutState
<1>3. Sweep.starts = [i \in 1 .. n |-> p[i]] /\ Left = Records(p, n)
  <2>1. Ends(FALSE, p[n + 1]) /\ FALSE \in BOOLEAN
    BY <1>2 DEF Ends
  <2>2. /\ Sweep = [fails |-> FALSE, starts |-> [i \in 1 .. n |-> p[i]]]
        /\ Left = Records(p, n)
    BY <1>1, <2>1, SweepIs, Zenon DEF SweepFinds, FileTypes
  <2> QED  BY <2>2
<1>4. Sweep.starts \in Seq(Nat) /\ Len(Sweep.starts) = n
  <2>1. [i \in 1 .. n |-> p[i]] \in [1 .. n -> Nat]
    BY DEF Places
  <2> QED  BY <1>3, <2>1, IsSequence
<1>5. /\ depth' = n /\ insert' = SweepEnd /\ position' = insert'
      /\ buffer' = <<>> /\ buffer' \in Seq(Cells)
  BY <1>4, EmptySeq DEF OpenFile
<1>6. CASE n = 0
  <2>1. Sweep.starts = <<>> /\ insert' = 0 /\ current' = Zero /\ p[n + 1] = 0
    BY <1>1, <1>3, <1>4, <1>5, <1>6 DEF OpenFile, SweepEnd, Trail
  <2>2. ASSUME file = <<>>
        PROVE  file' \in Seq(Cells) /\ FreeState(p, h)'
    <3>1. file' = [i \in 1 .. Space |-> Zero]
      BY <2>2 DEF OpenFile
    <3>2. Space \in Nat /\ [i \in 1 .. Space |-> Zero] \in [1 .. Space -> Cells]
      BY SpaceType, ZeroIs
    <3>3. file' \in Seq(Cells) /\ Len(file') = Space
      BY <3>1, <3>2, IsSequence
    <3>4. \A k \in 1 .. Len(file') : Blank(file'[k])
      BY <3>1, <3>3, ZeroIs
    <3>5. Bare(insert)'
      BY <2>1, <3>2, <3>3, <3>4, SpaceType DEF Bare
    <3> QED  BY <1>1, <1>5, <1>6, <2>1, <3>3, <3>4, <3>5
             DEF NoOther, Holds, AtEnd, FreeState, TopOf, Trail
  <2>3. ASSUME file # <<>>
        PROVE  file' \in Seq(Cells) /\ FreeState(p, h)'
    <3>1. file' = file
      BY <2>3 DEF OpenFile
    <3> QED  BY <1>1, <1>2, <1>5, <1>6, <2>1, <3>1
             DEF FileTypes, NoOther, Holds, AtEnd, FreeState, TopOf, Bare
  <2>4. FileTypes' /\ FreeState(p, h)'
    <3>1. insert' \in Nat /\ depth' \in Nat /\ current' \in HeaderCells /\ position' \in Nat
      BY <1>5, <1>6, <2>1, ZeroIs
    <3> QED  BY <1>5, <2>2, <2>3, <3>1 DEF FileTypes
  <2>5. Held' = Records(p, depth)'
    BY <2>4, StackIsNext DEF StackFound
  <2>6. Records(p, depth)' = Records(p, n)
    BY <1>5, <1>6 DEF Records
  <2> QED  BY <1>3, <2>4, <2>5, <2>6, Zenon
<1>7. CASE n # 0
  <2>1. n \in 1 .. n /\ n \in Nat \ {0}
    BY <1>7
  <2>2. /\ p[n] \in Nat /\ h[n] \in HeaderCells /\ h[n].size \in Nat
        /\ p[n + 1] = p[n] + HeaderSize + h[n].size /\ file[p[n] + 1] = h[n]
    BY <1>1, <2>1, TrailIs DEF Holds, Trail, Places
  <2>3. Sweep.starts # <<>> /\ Last(Sweep.starts) = p[n]
    BY <1>3, <1>4, <2>1 DEF Last
  <2>4. current' = h[n] /\ insert' = p[n + 1]
    BY <1>5, <2>2, <2>3 DEF OpenFile, SweepEnd, RecordEnd
  <2>5. file' = file
    <3>1. Len(file) # 0
      BY <1>1, <2>2
    <3> QED  BY <3>1 DEF OpenFile
  <2>6. FileTypes' /\ FreeState(p, h)'
    BY <1>1, <1>2, <1>5, <1>7, <2>2, <2>4, <2>5
       DEF FileTypes, NoOther, Holds, AtEnd, FreeState, TopOf, Bare
  <2>7. Held' = Records(p, depth)'
    BY <2>6, StackIsNext DEF StackFound
  <2>8. Records(p, depth)' = Records(p, n)
    BY <1>5, <2>5 DEF Records
  <2> QED  BY <1>3, <2>6, <2>7, <2>8, Zenon
<1> QED  BY <1>6, <1>7

-----------------------------------------------------------------------------
(* push                                                                    *)

\* What AtEnd says of the numbers.
LEMMA AtEndIs ==
    ASSUME FileTypes, NEW p \in Places, NEW h \in Headers, AtEnd(p, h)
    PROVE  /\ Trail(p, h, depth) /\ depth \in Nat
           /\ insert = p[depth + 1] /\ current = TopOf(h, depth)
           /\ insert \in Nat /\ Len(file) \in Nat /\ current.size \in Nat
           /\ \A i \in 1 .. depth + 1 : p[i] \in Nat /\ p[i] <= insert
           /\ \A i \in 1 .. depth : p[i] + 1 <= insert /\ p[i + 1] <= insert
<1>1. Trail(p, h, depth) /\ depth \in Nat /\ insert = p[depth + 1] /\ current = TopOf(h, depth)
      /\ insert \in Nat /\ Len(file) \in Nat
  BY LenProperties DEF AtEnd, FileTypes
<1>2. \A i \in 1 .. depth + 1 : p[i] \in Nat /\ p[i] <= insert
  BY <1>1, TrailIs
<1>3. \A i \in 1 .. depth : p[i] + 1 <= p[i + 1] /\ p[i + 1] <= insert
                            /\ p[i] \in Nat /\ p[i + 1] \in Nat
  <2> TAKE i \in 1 .. depth
  <2>1. i \in 1 .. depth + 1 /\ i + 1 \in 1 .. depth + 1
    BY <1>1
  <2> QED  BY <1>1, <1>2, <2>1, TrailIs
<1>4. \A i \in 1 .. depth : p[i] + 1 <= insert
  <2> TAKE i \in 1 .. depth
  <2> DEFINE a == p[i]
             b == p[i + 1]
  <2>1. a \in Nat /\ b \in Nat /\ a + 1 <= b /\ b <= insert
    BY <1>3
  <2> HIDE DEF a, b
  <2>2. a + 1 <= insert
    BY <1>1, <2>1
  <2> QED  BY <2>2 DEF a
<1>5. current.size \in Nat
  BY HeaderCell DEF FileTypes
<1> QED  BY <1>1, <1>2, <1>3, <1>4, <1>5

\* The records in front of the end stay when only cells behind it are written.
LEMMA WriteBehind ==
    ASSUME FileTypes, NEW p \in Places, NEW h \in Headers, AtEnd(p, h), Holds(p, h, depth),
           file' \in Seq(Cells), Len(file') >= Len(file),
           \A k \in 1 .. insert : file'[k] = file[k]
    PROVE  /\ \A i \in 1 .. depth : file'[p[i] + 1] = h[i]
           /\ Records(p, depth)' = [i \in 1 .. depth' |-> SubSeq(file', p[i] + HeaderSize + 1, p[i + 1])]
           /\ \A i \in 1 .. depth : SubSeq(file', p[i] + HeaderSize + 1, p[i + 1]) = Records(p, depth)[i]
<1>1. /\ Trail(p, h, depth) /\ depth \in Nat /\ insert = p[depth + 1]
      /\ insert \in Nat /\ Len(file) \in Nat /\ Len(file') \in Nat
      /\ insert <= Len(file) /\ insert <= Len(file')
  BY AtEndIs, LenProperties DEF Holds
<1>2. ASSUME NEW i \in 1 .. depth
      PROVE  file'[p[i] + 1] = h[i]
  <2>1. p[i] \in Nat /\ p[i] + 1 <= insert
    BY <1>1, AtEndIs
  <2>2. p[i] + 1 \in 1 .. insert
    BY <1>1, <2>1
  <2> QED  BY <2>2 DEF Holds
<1>3. ASSUME NEW i \in 1 .. depth
      PROVE  SubSeq(file', p[i] + HeaderSize + 1, p[i + 1]) = Records(p, depth)[i]
  <2> DEFINE a == p[i] + HeaderSize + 1
             b == p[i + 1]
  <2>1. a \in Nat \ {0} /\ b \in Nat /\ b <= insert
    <3>1. i \in 1 .. depth + 1 /\ i + 1 \in 1 .. depth + 1
      BY <1>1
    <3> QED  BY <1>1, <3>1, AtEndIs
  <2>2. \A k \in a .. b : file'[k] = file[k]
    <3>1. \A k \in a .. b : k \in 1 .. insert
      <4> HIDE DEF a, b
      <4> QED  BY <1>1, <2>1
    <3> QED  BY <3>1
  <2>3. SubSeq(file', a, b) = SubSeq(file, a, b)
    <3> HIDE DEF a, b
    <3>1. b <= Len(file) /\ b <= Len(file')
      BY <1>1, <2>1
    <3> QED  BY <2>1, <2>2, <3>1, SubSeqSame DEF FileTypes
  <2> QED  BY <2>3 DEF Records
<1> QED  BY <1>2, <1>3 DEF Records

LEMMA PutHeaderStep ==
    ASSUME FileTypes, NEW p \in Places, NEW h \in Headers, FreeState(p, h),
           NEW c \in Content, PushHeader(c), data' = c
    PROVE  FileTypes' /\ PushState(p, h)' /\ Held' = Held
<1> DEFINE head == Header(Size[c], current.size)
           cells == Heading(head)
<1>1. /\ AtEnd(p, h) /\ Holds(p, h, depth) /\ NoOther(p, depth) /\ position = insert
      /\ depth \in Nat /\ insert = p[depth + 1] /\ insert \in Nat /\ insert <= Len(file)
      /\ Len(file) \in Nat /\ file \in Seq(Cells)
  BY AtEndIs DEF FreeState, Holds, FileTypes
<1>2. head \in HeaderCells /\ head \in Cells
  BY SizeType, HeaderIs, HeaderCell, AtEndIs, <1>1
<1>3. /\ cells \in Seq(Cells) /\ Len(cells) = HeaderSize
      /\ 1 \in 1 .. HeaderSize /\ cells[1] = head
      /\ \A i \in 1 .. HeaderSize : i # 1 => Blank(cells[i])
  <2> HIDE DEF head
  <2> QED  BY <1>2, HeadingIs
<1>4. /\ file' = Written(insert, cells) /\ position' = insert + HeaderSize
      /\ insert' = insert /\ depth' = depth /\ current' = current /\ buffer' = buffer
  BY <1>1 DEF PushHeader
<1> HIDE DEF cells, head
<1>5. /\ file' \in Seq(Cells)
      /\ Len(file') >= Len(file) /\ Len(file') >= insert + Len(cells)
      /\ Len(file') = Len(file) \/ Len(file') = insert + Len(cells)
      /\ \A i \in 1 .. Len(cells) : file'[insert + i] = cells[i]
      /\ \A i \in 1 .. Len(file') :
            \/ i \in insert + 1 .. insert + Len(cells)
            \/ i <= Len(file) /\ file'[i] = file[i]
  <2>1. LET w == Written(insert, cells) IN
        /\ w \in Seq(Cells)
        /\ Len(w) >= Len(file) /\ Len(w) >= insert + Len(cells)
        /\ Len(w) = Len(file) \/ Len(w) = insert + Len(cells)
        /\ \A i \in 1 .. Len(cells) : w[insert + i] = cells[i]
        /\ \A i \in 1 .. Len(w) :
              \/ i \in insert + 1 .. insert + Len(cells)
              \/ i <= Len(file) /\ w[i] = file[i]
    BY <1>1, <1>3, WrittenIs, Zenon
  <2> QED  BY <1>4, <2>1, Zenon
<1>6. /\ Len(file') \in Nat /\ insert + HeaderSize <= Len(file') /\ file'[insert + 1] = head
      /\ \A i \in 1 .. Len(file') :
            \/ i = insert + 1 \/ Blank(file'[i])
            \/ (i \in 1 .. Len(file) /\ file'[i] = file[i])
      /\ \A k \in 1 .. insert : file'[k] = file[k]
  <2>1. Len(file') \in Nat /\ insert + HeaderSize <= Len(file')
    BY <1>1, <1>3, <1>5, LenProperties
  <2>2. file'[insert + 1] = head
    BY <1>3, <1>5
  <2>3. ASSUME NEW i \in 1 .. Len(file')
        PROVE  \/ i = insert + 1 \/ Blank(file'[i])
               \/ (i \in 1 .. Len(file) /\ file'[i] = file[i])
    <3>1. CASE i \in insert + 1 .. insert + Len(cells)
      <4>1. PICK j \in 1 .. HeaderSize : i = insert + j
        <5>1. i \in insert + 1 .. insert + HeaderSize /\ insert \in Nat
          BY <1>1, <1>3, <3>1
        <5>2. i - insert \in 1 .. HeaderSize /\ i = insert + (i - insert)
          BY <5>1, Within
        <5> QED  BY <5>2
      <4>2. file'[i] = cells[j]
        BY <1>3, <1>5, <4>1
      <4> QED  BY <1>3, <4>1, <4>2
    <3>2. CASE i <= Len(file) /\ file'[i] = file[i]
      <4>1. i \in 1 .. Len(file)
        BY <1>1, <3>2
      <4> QED  BY <3>2, <4>1
    <3> QED  BY <1>5, <3>1, <3>2
  <2>4. \A k \in 1 .. insert : k \in 1 .. Len(file') /\ k \notin insert + 1 .. insert + Len(cells)
    <3>1. insert \in Nat /\ Len(cells) \in Nat /\ Len(file') \in Nat /\ insert <= Len(file')
      BY <1>1, <1>3, <2>1
    <3>2. \A k \in 1 .. insert : k \in 1 .. Len(file')
      BY <3>1
    <3> QED  BY <3>1, <3>2, Within
  <2>5. \A k \in 1 .. insert : file'[k] = file[k]
    BY <1>5, <2>4
  <2> QED  BY <2>1, <2>2, <2>3, <2>5
<1>7. FileTypes'
  <2>1. insert + HeaderSize \in Nat /\ insert \in Nat
    BY <1>1
  <2> QED  BY <1>4, <1>5, <2>1 DEF FileTypes
<1>8. /\ \A i \in 1 .. depth : file'[p[i] + 1] = h[i]
      /\ Records(p, depth)' = [i \in 1 .. depth |-> SubSeq(file', p[i] + HeaderSize + 1, p[i + 1])]
      /\ \A i \in 1 .. depth : SubSeq(file', p[i] + HeaderSize + 1, p[i + 1]) = Records(p, depth)[i]
  BY <1>1, <1>4, <1>5, <1>6, WriteBehind
<1>9. PushState(p, h)'
  <2>1. AtEnd(p, h)'
    BY <1>1, <1>4 DEF AtEnd
  <2>2. Holds(p, h, depth)'
    <3>1. insert <= Len(file')
      BY <1>1, <1>5
    <3> QED  BY <1>1, <1>4, <1>8, <3>1 DEF Holds
  <2>3. NoOther(p, depth)'
    <3>1. depth + 1 \in 1 .. depth + 1
      BY <1>1
    <3> QED  BY <1>1, <1>4, <1>6, <3>1 DEF NoOther
  <2>4. file'[insert + 1] = Header(Size[data'], current'.size)
    BY <1>4, <1>6 DEF head
  <2> QED  BY <1>4, <1>6, <2>1, <2>2, <2>3, <2>4 DEF PushState
<1>10. Records(p, depth)' = Records(p, depth)
  BY <1>8 DEF Records
<1>11. Held' = Records(p, depth)' /\ Held = Records(p, depth)
  BY <1>7, <1>9, StackIs, StackIsNext DEF StackFound
<1> QED  BY <1>7, <1>9, <1>10, <1>11, Zenon

\* Behind the last record there is a header, and room for its content: it is a record
\* too, whatever its content.
Room(p, h, n, s) ==
    /\ Trail(p, h, n) /\ Holds(p, h, n) /\ NoOther(p, n)
    /\ file[p[n + 1] + 1] = Header(s, TopOf(h, n).size)
    /\ p[n + 1] + HeaderSize + s <= Len(file)

Longer(p, h, n, s, q, g) ==
    /\ Trail(q, g, n + 1) /\ Holds(q, g, n + 1) /\ NoOther(q, n + 1)
    /\ q[n + 2] = p[n + 1] + HeaderSize + s /\ g[n + 1] = Header(s, TopOf(h, n).size)
    /\ Bare(q[n + 2])
    /\ \A i \in 1 .. n : Records(q, n + 1)[i] = Records(p, n)[i]
    /\ Records(q, n + 1)[n + 1] = SubSeq(file, p[n + 1] + HeaderSize + 1, p[n + 1] + HeaderSize + s)

OneMore ==
    file \in Seq(Cells) =>
    \A n \in Nat, p \in Places, h \in Headers, s \in Nat \ {0} :
        Room(p, h, n, s) => \E q \in Places, g \in Headers : Longer(p, h, n, s, q, g)

LEMMA OneMoreIs == OneMore
<1> SUFFICES ASSUME file \in Seq(Cells),
                    NEW n \in Nat, NEW p \in Places, NEW h \in Headers, NEW s \in Nat \ {0},
                    Room(p, h, n, s)
             PROVE  \E q \in Places, g \in Headers : Longer(p, h, n, s, q, g)
  BY Zenon DEF OneMore
<1> DEFINE q == [p EXCEPT ![n + 2] = p[n + 1] + HeaderSize + s]
           g == [h EXCEPT ![n + 1] = Header(s, TopOf(h, n).size)]
           e == p[n + 1]
<1>0. /\ Trail(p, h, n) /\ Holds(p, h, n) /\ NoOther(p, n)
      /\ file[e + 1] = Header(s, TopOf(h, n).size)
      /\ e + HeaderSize + s <= Len(file)
  BY DEF Room
<1>1. /\ q \in Places /\ g \in Headers /\ Trail(q, g, n + 1)
      /\ q[n + 2] = e + HeaderSize + s /\ g[n + 1] = Header(s, TopOf(h, n).size)
      /\ \A i \in 1 .. n + 1 : q[i] = p[i]
      /\ \A i \in 1 .. n : g[i] = h[i]
  BY <1>0, TrailGrows
<1> HIDE DEF q, g
<1>2. /\ Len(file) \in Nat /\ e \in Nat /\ n + 1 \in 1 .. n + 1 /\ (n + 1) + 1 = n + 2
      /\ \A i \in 1 .. n + 1 : p[i] <= e /\ p[i] \in Nat
  <2>1. n + 1 \in Nat /\ n + 1 \in 1 .. n + 1 /\ (n + 1) + 1 = n + 2
    OBVIOUS
  <2>2. e \in Nat
    BY <2>1 DEF Places
  <2> QED  BY <1>0, <2>1, <2>2, LenProperties, TrailIs
<1>3. Holds(q, g, n + 1)
  <2>1. ASSUME NEW i \in 1 .. n + 1
        PROVE  file[q[i] + 1] = g[i]
    <3>1. CASE i = n + 1
      BY <3>1, <1>0, <1>1, <1>2
    <3>2. CASE i # n + 1
      <4>1. i \in 1 .. n
        BY <3>2
      <4>2. q[i] = p[i] /\ g[i] = h[i] /\ file[p[i] + 1] = h[i]
        BY <1>0, <1>1, <4>1 DEF Holds
      <4> QED  BY <4>2
    <3> QED  BY <3>1, <3>2
  <2>2. q[(n + 1) + 1] <= Len(file)
    BY <1>0, <1>1, <1>2
  <2> QED  BY <2>1, <2>2 DEF Holds
<1>4. NoOther(q, n + 1)
  <2>1. \A i \in 1 .. n + 1 : i \in 1 .. (n + 1) + 1
    OBVIOUS
  <2>2. \A k \in 1 .. Len(file) :
           Blank(file[k]) \/ \E i \in 1 .. n + 1 : k = q[i] + 1
    BY <1>0, <1>1 DEF NoOther
  <2> QED  BY <2>1, <2>2 DEF NoOther
<1>5. Bare(q[n + 2])
  <2> DEFINE k == e + HeaderSize + s + 1
  <2>1. SUFFICES ASSUME e + HeaderSize + s # Len(file) PROVE Blank(file[k])
    BY <1>1 DEF Bare
  <2>2. k \in 1 .. Len(file)
    <3> HIDE DEF e
    <3> QED  BY <1>0, <1>2, <2>1
  <2>3. \A i \in 1 .. n + 1 : k # p[i] + 1
    <3> TAKE i \in 1 .. n + 1
    <3> DEFINE a == p[i]
    <3>1. a \in Nat /\ a <= e
      BY <1>2
    <3> HIDE DEF a, e
    <3>2. k # a + 1
      BY <1>2, <3>1
    <3> QED  BY <3>2 DEF a
  <2> HIDE DEF k
  <2> QED  BY <1>0, <2>2, <2>3 DEF NoOther
<1>6. \A i \in 1 .. n : Records(q, n + 1)[i] = Records(p, n)[i]
  <2> TAKE i \in 1 .. n
  <2>1. i \in 1 .. n + 1 /\ i + 1 \in 1 .. n + 1
    OBVIOUS
  <2> QED  BY <1>1, <2>1 DEF Records
<1>7. Records(q, n + 1)[n + 1] = SubSeq(file, e + HeaderSize + 1, e + HeaderSize + s)
  BY <1>1, <1>2 DEF Records
<1> QED  BY <1>1, <1>3, <1>4, <1>5, <1>6, <1>7 DEF Longer

LEMMA OneMoreIsNext == OneMore'
BY OneMoreIs, PTL

\* A stack with one record more.
LEMMA Appended ==
    ASSUME NEW S, NEW s \in Seq(S), NEW t \in Seq(S), NEW e \in S,
           Len(t) = Len(s) + 1, \A i \in 1 .. Len(s) : t[i] = s[i], t[Len(s) + 1] = e
    PROVE  t = Append(s, e)
<1>1. /\ Append(s, e) \in Seq(S) /\ Len(Append(s, e)) = Len(s) + 1
      /\ \A i \in 1 .. Len(s) : Append(s, e)[i] = s[i]
      /\ Append(s, e)[Len(s) + 1] = e
  BY AppendProperties
<1>2. \A i \in 1 .. Len(t) : t[i] = Append(s, e)[i]
  <2>1. Len(s) \in Nat /\ \A i \in 1 .. Len(t) : i \in 1 .. Len(s) \/ i = Len(s) + 1
    BY LenProperties
  <2> QED  BY <1>1, <2>1
<1> QED  BY <1>1, <1>2, SeqEqual

RecordsFit ==
    file \in Seq(Cells) =>
    \A n \in Nat, p \in Places, h \in Headers :
        Trail(p, h, n) /\ p[n + 1] <= Len(file)
        => Records(p, n) \in Seq(Seq(Cells)) /\ Len(Records(p, n)) = n

LEMMA RecordsFitNext == RecordsFit'
<1>1. RecordsFit
  BY RecordsAre DEF RecordsFit
<1> QED  BY <1>1, PTL

LEMMA PutContentStep ==
    ASSUME FileTypes, NEW p \in Places, NEW h \in Headers, PushState(p, h),
           data \in Content, PushContent(data)
    PROVE  /\ FileTypes' /\ \E q \in Places, g \in Headers : FreeState(q, g)'
           /\ Held' = Append(Held, Pieces(data))
<1>0. PICK n \in Nat, s \in Nat \ {0}, c \in Seq(Cells), point \in Nat :
         n = depth /\ s = Size[data] /\ c = Pieces(data) /\ point = insert + HeaderSize
  BY PiecesAre DEF FileTypes
<1>1. /\ AtEnd(p, h) /\ Holds(p, h, n) /\ NoOther(p, n) /\ position = point
      /\ Trail(p, h, n) /\ current = TopOf(h, n)
      /\ insert = p[n + 1] /\ insert \in Nat /\ insert + HeaderSize <= Len(file)
      /\ file[insert + 1] = Header(s, current.size) /\ current.size \in Nat
      /\ Len(file) \in Nat /\ file \in Seq(Cells)
  BY <1>0, AtEndIs DEF PushState, FileTypes
<1>room. insert \in Nat /\ Len(file) \in Nat /\ insert + HeaderSize <= Len(file)
  BY <1>1
<1>2. Len(c) = s /\ \A i \in 1 .. s : Blank(c[i])
  BY <1>0, PiecesAre
<1>3. /\ file' = Written(point, c) /\ position' = point + s
      /\ insert' = point + s /\ depth' = n + 1 /\ buffer' = buffer
      /\ current' = Header(s, current.size)
  BY <1>0, <1>1 DEF PushContent
<1>4. point \in Nat /\ point <= Len(file) /\ point = insert + HeaderSize
  BY <1>0, <1>1
<1>5. /\ file' \in Seq(Cells) /\ Len(file') \in Nat
      /\ Len(file') >= Len(file) /\ Len(file') >= point + s
      /\ \A i \in 1 .. s : file'[point + i] = c[i]
      /\ \A i \in 1 .. Len(file') :
            \/ i \in point + 1 .. point + s
            \/ i <= Len(file) /\ file'[i] = file[i]
  <2>1. /\ file' \in Seq(Cells)
        /\ Len(file') >= Len(file) /\ Len(file') >= point + Len(c)
        /\ \A i \in 1 .. Len(c) : file'[point + i] = c[i]
        /\ \A i \in 1 .. Len(file') :
              \/ i \in point + 1 .. point + Len(c)
              \/ i <= Len(file) /\ file'[i] = file[i]
    <3>1. LET w == Written(point, c) IN
          /\ w \in Seq(Cells)
          /\ Len(w) >= Len(file) /\ Len(w) >= point + Len(c)
          /\ \A i \in 1 .. Len(c) : w[point + i] = c[i]
          /\ \A i \in 1 .. Len(w) :
                \/ i \in point + 1 .. point + Len(c)
                \/ i <= Len(file) /\ w[i] = file[i]
      BY <1>1, <1>4, WrittenIs, Zenon
    <3> QED  BY <1>3, <3>1, Zenon
  <2>2. Len(c) = s /\ Len(file') \in Nat
    BY <1>2, <2>1, LenProperties
  <2> QED  BY <2>1, <2>2
<1>6. /\ \A i \in 1 .. Len(file') :
            Blank(file'[i]) \/ (i \in 1 .. Len(file) /\ file'[i] = file[i])
      /\ \A k \in 1 .. insert : file'[k] = file[k]
      /\ file'[insert + 1] = file[insert + 1]
  <2>1. \A i \in point + 1 .. point + s : i - point \in 1 .. s /\ i = point + (i - point)
    BY <1>2, <1>4
  <2>2. \A i \in point + 1 .. point + s : Blank(file'[i])
    <3> TAKE i \in point + 1 .. point + s
    <3>1. PICK j \in 1 .. s : i = point + j
      BY <2>1
    <3> QED  BY <1>2, <1>5, <3>1
  <2>3. \A k \in 1 .. insert + 1 :
           k \in 1 .. Len(file') /\ k \notin point + 1 .. point + s
    <3> DEFINE m == Len(file')
    <3>1. m \in Nat /\ point <= m
      BY <1>1, <1>4, <1>5
    <3> HIDE DEF m
    <3>2. \A k \in 1 .. insert + 1 : k \in 1 .. m /\ k \notin point + 1 .. point + s
      <4>1. insert \in Nat /\ insert + 1 <= point
        BY <1>room, <1>4
      <4>2. \A k \in 1 .. insert + 1 : k \in 1 .. point /\ k \in 1 .. m
        BY <3>1, <4>1
      <4> QED  BY <4>2, Within
    <3> QED  BY <3>2 DEF m
  <2>4. insert + 1 \in 1 .. insert + 1 /\ \A k \in 1 .. insert : k \in 1 .. insert + 1
    BY <1>room
  <2>5. \A k \in 1 .. insert + 1 : file'[k] = file[k]
    BY <1>5, <2>3
  <2>6. \A i \in 1 .. Len(file') :
           Blank(file'[i]) \/ (i \in 1 .. Len(file) /\ file'[i] = file[i])
    <3> TAKE i \in 1 .. Len(file')
    <3>1. CASE i \in point + 1 .. point + s
      BY <2>2, <3>1
    <3>2. CASE i <= Len(file) /\ file'[i] = file[i]
      <4>1. i \in 1 .. Len(file)
        BY <1>1, <3>2
      <4> QED  BY <3>2, <4>1
    <3> QED  BY <1>5, <3>1, <3>2
  <2> QED  BY <2>4, <2>5, <2>6
<1>7. FileTypes'
  <2>1. Header(s, current.size) \in HeaderCells
    BY <1>1, <1>2, HeaderIs
  <2>2. point + s \in Nat /\ n + 1 \in Nat
    BY <1>2, <1>4
  <2> QED  BY <1>3, <1>5, <2>1, <2>2 DEF FileTypes
<1>8. /\ \A i \in 1 .. n : file'[p[i] + 1] = h[i]
      /\ \A i \in 1 .. n : SubSeq(file', p[i] + HeaderSize + 1, p[i + 1]) = Records(p, n)[i]
  BY <1>0, <1>1, <1>5, <1>6, WriteBehind
<1>9. Room(p, h, n, s)'
  <2>1. Holds(p, h, n)'
    BY <1>1, <1>5, <1>8 DEF Holds
  <2>2. NoOther(p, n)'
    BY <1>1, <1>6 DEF NoOther
  <2>3. file'[p[n + 1] + 1] = Header(s, TopOf(h, n).size)
    BY <1>1, <1>6
  <2>4. p[n + 1] + HeaderSize + s <= Len(file')
    BY <1>1, <1>4, <1>5
  <2> QED  BY <1>1, <2>1, <2>2, <2>3, <2>4 DEF Room
<1>10. PICK q \in Places, g \in Headers : Longer(p, h, n, s, q, g)'
  BY <1>5, <1>9, OneMoreIsNext, Zenon DEF OneMore
<1>11. FreeState(q, g)'
  <2>1. /\ Trail(q, g, n + 1) /\ Holds(q, g, n + 1)' /\ NoOther(q, n + 1)'
        /\ q[n + 2] = p[n + 1] + HeaderSize + s /\ g[n + 1] = Header(s, TopOf(h, n).size)
        /\ Bare(q[n + 2])'
    BY <1>10 DEF Longer
  <2>2. (n + 1) + 1 = n + 2 /\ n + 1 # 0
    OBVIOUS
  <2>3. insert' = q[n + 2] /\ position' = insert'
    BY <1>1, <1>3, <1>4, <2>1
  <2>4. AtEnd(q, g)'
    BY <1>1, <1>3, <2>1, <2>2, <2>3 DEF AtEnd, TopOf
  <2> QED  BY <1>3, <2>1, <2>3, <2>4 DEF FreeState
<1>12. Held' = Records(q, n + 1)' /\ Held = Records(p, n)
  <2>1. Held' = Records(q, depth)'
    BY <1>7, <1>11, StackIsNext, Zenon DEF StackFound
  <2>2. Records(q, depth)' = Records(q, n + 1)'
    BY <1>3 DEF Records
  <2>3. Held = Records(p, depth)
    BY StackIs DEF StackFound
  <2> QED  BY <1>0, <2>1, <2>2, <2>3
<1>13. Held' = Append(Held, c)
  <2>1. Held \in Seq(Seq(Cells)) /\ Len(Held) = n
    BY <1>1, <1>12, RecordsAre DEF Holds
  <2>2. Held' \in Seq(Seq(Cells)) /\ Len(Held') = n + 1
    <3>1. Trail(q, g, n + 1) /\ q[(n + 1) + 1] <= Len(file')
      BY <1>10 DEF Longer, Holds
    <3>2. Records(q, n + 1)' \in Seq(Seq(Cells)) /\ Len(Records(q, n + 1)') = n + 1
      BY <1>5, <3>1, RecordsFitNext DEF RecordsFit
    <3> QED  BY <1>12, <3>2, Zenon
  <2>3. \A i \in 1 .. n : Held'[i] = Held[i]
    <3>1. \A i \in 1 .. n : Records(q, n + 1)'[i] = Records(p, n)'[i]
      BY <1>10 DEF Longer
    <3>2. \A i \in 1 .. n : Records(p, n)'[i] = Records(p, n)[i]
      BY <1>8 DEF Records
    <3> QED  BY <1>12, <3>1, <3>2
  <2>4. Held'[n + 1] = c
    <3>1. Records(q, n + 1)'[n + 1] = SubSeq(file', p[n + 1] + HeaderSize + 1, p[n + 1] + HeaderSize + s)
      BY <1>10 DEF Longer
    <3>2. p[n + 1] + HeaderSize + 1 = point + 1 /\ p[n + 1] + HeaderSize + s = point + Len(c)
      BY <1>1, <1>2, <1>4
    <3>3. SubSeq(file', point + 1, point + Len(c)) = c
      BY <1>2, <1>5, SubSeqIs
    <3> QED  BY <1>12, <3>1, <3>2, <3>3
  <2> QED  BY <2>1, <2>2, <2>3, <2>4, Appended
<1> QED  BY <1>0, <1>7, <1>11, <1>13

-----------------------------------------------------------------------------
(* pop                                                                     *)

LEMMA GetMarkStep ==
    ASSUME FileTypes, NEW p \in Places, NEW h \in Headers, FreeState(p, h), PopMark
    PROVE  FileTypes' /\ PopState(p, h)' /\ Held' = Held
<1>0. PICK n \in Nat \ {0} : n = depth
  BY DEF FileTypes, PopMark
<1>1. /\ AtEnd(p, h) /\ Holds(p, h, n) /\ NoOther(p, n) /\ Bare(insert)
      /\ Trail(p, h, n) /\ current = h[n]
      /\ insert = p[n + 1] /\ insert \in Nat /\ insert <= Len(file)
      /\ Len(file) \in Nat /\ file \in Seq(Cells)
  BY <1>0, AtEndIs DEF FreeState, FileTypes, Holds, TopOf
<1>2. PICK point \in Nat, size \in Nat \ {0} :
         point = p[n] /\ size = h[n].size /\ insert = point + HeaderSize + size
  <2>1. n \in 1 .. n
    OBVIOUS
  <2>2. p[n] \in Nat /\ h[n].size \in Nat \ {0}
    BY <1>1, <2>1, TrailIs DEF Places
  <2>3. insert = p[n] + HeaderSize + h[n].size
    BY <1>1, <2>1 DEF Trail
  <2> QED  BY <2>2, <2>3
<1>3. Point = point /\ point + HeaderSize <= Len(file) /\ point <= Len(file)
  <2>1. current.size = size
    BY <1>1, <1>2
  <2>2. insert <= Len(file) /\ Len(file) \in Nat
    BY <1>1
  <2>3. insert = point + HeaderSize + size
    BY <1>2
  <2>4. /\ insert - (size + HeaderSize) = point
        /\ point + HeaderSize <= Len(file) /\ point <= Len(file)
    BY <2>2, <2>3
  <2> QED  BY <2>1, <2>4 DEF Point
<1>4. /\ file' = Written(point, Heading(Zero)) /\ position' = point + HeaderSize
      /\ insert' = insert /\ depth' = depth /\ current' = current /\ buffer' = buffer
  BY <1>3 DEF PopMark
<1>5. /\ file' \in Seq(Cells) /\ Len(file') = Len(file)
      /\ file'[point + 1] = Zero
      /\ \A i \in 1 .. Len(file) :
            \/ i \in point + 1 .. point + HeaderSize /\ Blank(file'[i])
            \/ file'[i] = file[i]
      /\ \A i \in 1 .. Len(file) : i \notin point + 1 .. point + HeaderSize => file'[i] = file[i]
  <2> DEFINE cells == Heading(Zero)
  <2>1. /\ cells \in Seq(Cells) /\ Len(cells) = HeaderSize
        /\ 1 \in 1 .. HeaderSize /\ cells[1] = Zero
        /\ \A i \in 1 .. HeaderSize : Blank(cells[i])
    BY ZeroIs, HeadingIs
  <2> HIDE DEF cells
  <2>2. /\ file' \in Seq(Cells)
        /\ Len(file') >= Len(file) /\ Len(file') >= point + Len(cells)
        /\ Len(file') = Len(file) \/ Len(file') = point + Len(cells)
        /\ \A i \in 1 .. Len(cells) : file'[point + i] = cells[i]
        /\ \A i \in 1 .. Len(file') :
              \/ i \in point + 1 .. point + Len(cells)
              \/ i <= Len(file) /\ file'[i] = file[i]
    <3>1. file' = Written(point, cells)
      BY <1>4 DEF cells
    <3> QED  BY <1>1, <1>3, <2>1, <3>1, WrittenIs
  <2>3. Len(file') = Len(file)
    BY <1>1, <1>3, <2>1, <2>2
  <2>4. file'[point + 1] = Zero
    BY <2>1, <2>2
  <2>5. ASSUME NEW i \in point + 1 .. point + HeaderSize
        PROVE  Blank(file'[i])
    <3>1. i - point \in 1 .. HeaderSize /\ i = point + (i - point)
      OBVIOUS
    <3>2. PICK j \in 1 .. HeaderSize : i = point + j
      BY <3>1
    <3> QED  BY <2>1, <2>2, <3>2
  <2>6. \A i \in 1 .. Len(file) : i \notin point + 1 .. point + HeaderSize => file'[i] = file[i]
    BY <2>1, <2>2, <2>3
  <2> QED  BY <2>2, <2>3, <2>4, <2>5, <2>6
<1>6. FileTypes'
  BY <1>4, <1>5 DEF FileTypes
<1>7. \A i \in 1 .. n - 1 : file'[p[i] + 1] = h[i]
  <2> TAKE i \in 1 .. n - 1
  <2> DEFINE a == p[i]
  <2>1. i \in 1 .. n /\ i \in 1 .. n + 1 /\ n \in 1 .. n + 1 /\ i < n
    OBVIOUS
  <2>2. a \in Nat /\ a < point
    BY <1>1, <1>2, <2>1, TrailIs DEF Trail
  <2>3. file[a + 1] = h[i]
    BY <1>1, <2>1 DEF Holds
  <2> HIDE DEF a
  <2>4. a + 1 \in 1 .. Len(file) /\ a + 1 \notin point + 1 .. point + HeaderSize
    BY <1>1, <1>3, <2>2
  <2> QED  BY <1>5, <2>3, <2>4 DEF a
<1>8. PopState(p, h)'
  <2>1. AtEnd(p, h)'
    BY <1>1, <1>4 DEF AtEnd
  <2>2. Holds(p, h, n - 1)'
    <3>1. p[(n - 1) + 1] = point
      BY <1>2
    <3> QED  BY <1>3, <1>5, <1>7, <3>1 DEF Holds
  <2>3. NoOther(p, n - 1)'
    <3>1. ASSUME NEW k \in 1 .. Len(file), ~Blank(file'[k])
          PROVE  \E i \in 1 .. n : k = p[i] + 1
      <4>1. file'[k] = file[k]
        BY <1>5, <3>1
      <4>2. PICK i \in 1 .. n + 1 : k = p[i] + 1
        BY <1>1, <3>1, <4>1 DEF NoOther
      <4>3. i # n + 1
        <5>1. SUFFICES ASSUME i = n + 1 PROVE FALSE
          OBVIOUS
        <5>2. k = insert + 1
          BY <1>1, <4>2, <5>1
        <5>3. insert # Len(file)
          BY <1>1, <5>2
        <5> QED  BY <1>1, <3>1, <4>1, <5>2, <5>3 DEF Bare
      <4>4. i \in 1 .. n
        BY <4>3
      <4> QED  BY <4>2, <4>4
    <3>2. (n - 1) + 1 = n
      OBVIOUS
    <3> QED  BY <1>5, <3>1, <3>2 DEF NoOther
  <2> QED  BY <1>0, <1>1, <1>2, <1>4, <1>5, <2>1, <2>2, <2>3 DEF PopState
<1>9. Records(p, n)' = Records(p, n)
  <2>1. ASSUME NEW i \in 1 .. n, NEW k \in p[i] + HeaderSize + 1 .. p[i + 1]
        PROVE  file'[k] = file[k]
    <3> DEFINE a == p[i]
               b == p[i + 1]
    <3>1. a \in Nat /\ b \in Nat /\ b <= insert /\ k \in a + HeaderSize + 1 .. b
      <4>1. i \in Nat /\ i + 1 \in Nat
        OBVIOUS
      <4> QED  BY <1>1, <4>1, TrailIs DEF Places
    <3>2. i = n \/ b <= point
      <4>1. i = n \/ i + 1 = n \/ (i + 1 < n /\ i + 1 \in 1 .. n + 1 /\ n \in 1 .. n + 1)
        OBVIOUS
      <4>2. i + 1 < n => b < point
        BY <1>1, <1>2, <4>1 DEF Trail
      <4> QED  BY <1>2, <3>1, <4>1, <4>2
    <3>3. i = n => a = point
      BY <1>2
    <3> HIDE DEF a, b
    <3>4. k \in Nat /\ k <= insert /\ (k <= point \/ k > point + HeaderSize) /\ k > 0
      BY <1>1, <1>2, <3>1, <3>2, <3>3
    <3>5. k \in 1 .. Len(file) /\ k \notin point + 1 .. point + HeaderSize
      <4>1. insert \in Nat /\ Len(file) \in Nat /\ insert <= Len(file)
        BY <1>1
      <4> QED  BY <3>4, <4>1
    <3> QED  BY <1>5, <3>5
  <2> QED  BY <1>1, <1>5, <2>1, RecordsKept
<1>10. Held' = Records(p, depth)' /\ Held = Records(p, depth)
  BY <1>6, <1>8, StackIs, StackIsNext DEF StackFound
<1>11. Records(p, depth)' = Records(p, n)'
  BY <1>0, <1>4 DEF Records
<1> QED  BY <1>0, <1>6, <1>8, <1>9, <1>10, <1>11

\* All but the last record.
LEMMA FrontOf ==
    ASSUME file \in Seq(Cells), NEW n \in Nat \ {0}, NEW p \in Places, NEW h \in Headers,
           Trail(p, h, n), p[n + 1] <= Len(file)
    PROVE  Records(p, n - 1) = Front(Records(p, n))
<1> DEFINE all == Records(p, n)
           less == Records(p, n - 1)
<1>1. all \in Seq(Seq(Cells)) /\ Len(all) = n
  BY RecordsAre
<1>2. less \in Seq(Seq(Cells)) /\ Len(less) = n - 1
  <2>1. n - 1 \in Nat /\ (n - 1) + 1 = n /\ n \in 1 .. n + 1 /\ n + 1 \in Nat /\ n \in 1 .. n
    OBVIOUS
  <2>2. Trail(p, h, n - 1)
    BY TrailShrinks
  <2>3. p[n] \in Nat /\ p[n + 1] \in Nat /\ p[n] <= p[n + 1]
    BY <2>1, TrailIs DEF Places
  <2>4. p[(n - 1) + 1] <= Len(file)
    BY <2>1, <2>3, LenProperties
  <2> QED  BY <2>1, <2>2, <2>4, RecordsAre
<1>3. \A i \in 1 .. n - 1 : less[i] = all[i]
  <2>1. \A i \in 1 .. n - 1 : i \in 1 .. n
    OBVIOUS
  <2> QED  BY <2>1 DEF Records
<1> HIDE DEF all, less
<1>4. /\ Front(all) \in Seq(Seq(Cells)) /\ Len(Front(all)) = n - 1
      /\ \A i \in 1 .. n - 1 : Front(all)[i] = all[i]
  <2>1. \A k \in 1 .. n - 1 : all[k] \in Seq(Cells)
    BY <1>1, ElementOfSeq
  <2>2. 1 \in Int /\ n - 1 \in Int /\ (IF 1 <= n - 1 THEN (n - 1) - 1 + 1 ELSE 0) = n - 1
        /\ \A i \in 1 .. n - 1 : i \in 1 .. (n - 1) - 1 + 1 /\ 1 + i - 1 = i
    OBVIOUS
  <2>3. Front(all) = SubSeq(all, 1, n - 1)
    BY <1>1 DEF Front
  <2> QED  BY <2>1, <2>2, <2>3, SubSeqProperties
<1>5. less = Front(all)
  BY <1>2, <1>3, <1>4, SeqEqual
<1> QED  BY <1>5 DEF all, less

LEMMA PrefixIs ==
    ASSUME NEW S, NEW s \in Seq(S), NEW t \in Seq(S), Len(s) <= Len(t),
           \A i \in 1 .. Len(s) : t[i] = s[i]
    PROVE  IsPrefix(s, t)
<1>1. Len(s) \in Nat /\ 1 \in Nat \ {0} /\ Len(s) <= Len(s)
  BY LenProperties
<1>2. SubSeq(s, 1, Len(s)) = SubSeq(t, 1, Len(s))
  BY <1>1, SubSeqSame
<1> QED  BY <1>2 DEF IsPrefix

\* Reading and seeking back takes the last record off the stack, into the buffer.
LEMMA GetReadStep ==
    ASSUME FileTypes, NEW p \in Places, NEW h \in Headers, PopState(p, h), PopRead
    PROVE  /\ FileTypes' /\ FreeState(p, h)'
           /\ Held # <<>> /\ Held' = Front(Held)
           /\ SubSeq(buffer', 1, current.size) = Last(Held)
           /\ Len(Last(Held)) = current.size
<1>0. PICK n \in Nat \ {0} : n = depth
  BY DEF FileTypes, PopState
<1>1. /\ AtEnd(p, h) /\ Holds(p, h, n - 1) /\ NoOther(p, n - 1)
      /\ Trail(p, h, n) /\ Trail(p, h, n - 1) /\ current = h[n]
      /\ insert = p[n + 1] /\ insert \in Nat /\ insert <= Len(file)
      /\ file[p[n] + 1] = Zero /\ position = p[n] + HeaderSize
      /\ Len(file) \in Nat /\ file \in Seq(Cells)
  BY <1>0, AtEndIs, TrailShrinks DEF PopState, FileTypes, TopOf
<1>2. PICK point \in Nat, size \in Nat \ {0} :
         point = p[n] /\ size = h[n].size /\ insert = point + HeaderSize + size
  <2>1. n \in 1 .. n
    OBVIOUS
  <2>2. p[n] \in Nat /\ h[n].size \in Nat \ {0}
    BY <1>1, <2>1, TrailIs DEF Places
  <2>3. insert = p[n] + HeaderSize + h[n].size
    BY <1>1, <2>1 DEF Trail
  <2> QED  BY <2>2, <2>3
<1>3. Point = point
  <2>1. current.size = size
    BY <1>1, <1>2
  <2>2. insert = point + HeaderSize + size
    BY <1>2
  <2>3. insert - (size + HeaderSize) = point
    BY <2>2
  <2> QED  BY <2>1, <2>3 DEF Point
<1> DEFINE content == SubSeq(file, point + HeaderSize + 1, point + HeaderSize + size)
           rest == SubSeq(buffer, Len(content) + 1, Len(buffer))
<1>4. /\ file' = file /\ insert' = point /\ position' = point /\ depth' = n - 1
      /\ buffer' = content \o rest
      /\ current' = IF n > 1 THEN file[point - (current.prior + HeaderSize) + 1] ELSE Zero
  <2>1. position + 1 = point + HeaderSize + 1 /\ position + current.size = point + HeaderSize + size
    BY <1>1, <1>2
  <2> QED  BY <1>0, <1>3, <2>1 DEF PopRead
<1>5. content \in Seq(Cells) /\ Len(content) = size
  <2>1. \A k \in point + HeaderSize + 1 .. point + HeaderSize + size : file[k] \in Cells
    <3>1. insert = point + HeaderSize + size /\ insert <= Len(file) /\ Len(file) \in Nat
      BY <1>1, <1>2
    <3>2. \A k \in point + HeaderSize + 1 .. point + HeaderSize + size : k \in 1 .. Len(file)
      BY <3>1
    <3> QED  BY <1>1, <3>2, ElementOfSeq
  <2>2. point + HeaderSize + 1 \in Int /\ point + HeaderSize + size \in Int /\ point + HeaderSize + 1 <= point + HeaderSize + size
        /\ (point + HeaderSize + size) - (point + HeaderSize + 1) + 1 = size
    OBVIOUS
  <2> QED  BY <2>1, <2>2, SubSeqProperties
<1> HIDE DEF content
<1>6. rest \in Seq(Cells)
  <2>1. buffer \in Seq(Cells) /\ Len(buffer) \in Nat
    BY LenProperties DEF FileTypes
  <2>2. \A k \in Len(content) + 1 .. Len(buffer) : buffer[k] \in Cells
    <3>1. \A k \in Len(content) + 1 .. Len(buffer) : k \in 1 .. Len(buffer)
      BY <1>5, <2>1
    <3> QED  BY <2>1, <3>1, ElementOfSeq
  <2>3. Len(content) + 1 \in Int /\ Len(buffer) \in Int
    BY <1>5, <2>1
  <2> QED  BY <2>2, <2>3, SubSeqProperties
<1> HIDE DEF rest
<1>7. buffer' \in Seq(Cells) /\ SubSeq(buffer', 1, size) = content
  <2>1. /\ buffer' \in Seq(Cells) /\ Len(buffer') = Len(content) + Len(rest)
        /\ \A i \in 1 .. Len(content) + Len(rest) :
              buffer'[i] = IF i <= Len(content) THEN content[i] ELSE rest[i - Len(content)]
    BY <1>4, <1>5, <1>6, ConcatProperties, Zenon
  <2>2. Len(rest) \in Nat
    BY <1>6, LenProperties
  <2>3. 0 \in Nat /\ 0 + Len(content) <= Len(buffer')
    BY <1>5, <2>1, <2>2
  <2>4. \A i \in 1 .. Len(content) : buffer'[0 + i] = content[i]
    BY <1>5, <2>1, <2>2
  <2>5. SubSeq(buffer', 0 + 1, 0 + Len(content)) = content
    BY <1>5, <2>1, <2>3, <2>4, SubSeqIs
  <2> QED  BY <1>5, <2>1, <2>5
<1>8. current' = TopOf(h, n - 1)
  <2>1. CASE n = 1
    BY <1>4, <2>1 DEF TopOf
  <2>2. CASE n # 1
    <3>1. n - 1 \in 1 .. n /\ n \in 1 .. n /\ (n - 1) + 1 = n /\ n - 1 # 0 /\ n > 1
          /\ n - 1 \in 1 .. n - 1
      BY <2>2
    <3> DEFINE a == p[n - 1]
               b == h[n - 1].size
    <3>2. a \in Nat /\ b \in Nat /\ point = a + HeaderSize + b
      <4>1. a \in Nat /\ b \in Nat
        <5>1. n - 1 \in Nat
          OBVIOUS
        <5> QED  BY <1>1, <3>1, <5>1, TrailIs DEF Places
      <4> QED  BY <1>1, <1>2, <3>1, <4>1 DEF Trail
    <3>3. current.prior = b
      BY <1>1, <2>2, <3>1 DEF Trail
    <3>4. file[a + 1] = h[n - 1]
      BY <1>1, <3>1 DEF Holds
    <3> HIDE DEF a, b
    <3>5. point - (current.prior + HeaderSize) + 1 = a + 1
      BY <3>2, <3>3
    <3> QED  BY <1>4, <3>1, <3>4, <3>5 DEF TopOf
  <2> QED  BY <2>1, <2>2
<1>9. FileTypes'
  <2>1. n - 1 \in Nat
    OBVIOUS
  <2>2. TopOf(h, n - 1) \in HeaderCells
    BY <1>1, <2>1, TrailIs
  <2> QED  BY <1>1, <1>4, <1>7, <1>8, <2>1, <2>2 DEF FileTypes
<1>10. FreeState(p, h)'
  <2>1. (n - 1) + 1 = n
    OBVIOUS
  <2>2. AtEnd(p, h)'
    BY <1>1, <1>2, <1>4, <1>8, <2>1 DEF AtEnd
  <2>3. Holds(p, h, n - 1)' /\ NoOther(p, n - 1)'
    BY <1>1, <1>4 DEF Holds, NoOther
  <2>4. Bare(insert)'
    BY <1>1, <1>2, <1>4, ZeroIs DEF Bare
  <2> QED  BY <1>4, <2>2, <2>3, <2>4 DEF FreeState
<1>11. Held = Records(p, n) /\ Held' = Records(p, n - 1)'
  BY <1>0, <1>4, <1>9, <1>10, StackIs, StackIsNext DEF StackFound, Records
<1>12. Held \in Seq(Seq(Cells)) /\ Len(Held) = n /\ Held # <<>>
  BY <1>1, <1>11, RecordsAre
<1>13. Last(Held) = content
  <2>1. n \in 1 .. n /\ p[n] + HeaderSize + 1 = point + HeaderSize + 1 /\ p[n + 1] = point + HeaderSize + size
    BY <1>1, <1>2
  <2>2. Records(p, n)[n] = SubSeq(file, p[n] + HeaderSize + 1, p[n + 1])
    BY <2>1 DEF Records
  <2> QED  BY <1>11, <1>12, <2>1, <2>2 DEF Last, content
<1>14. Held' = Front(Held)
  <2>1. Records(p, n - 1)' = Records(p, n - 1)
    BY <1>4 DEF Records
  <2> QED  BY <1>1, <1>11, <2>1, FrontOf
<1>15. current.size = size
  BY <1>1, <1>2
<1> QED  BY <1>5, <1>7, <1>9, <1>10, <1>12, <1>13, <1>14, <1>15

-----------------------------------------------------------------------------
(* A crash                                                                 *)

\* What the next program will find, if this one ends here: of a push that was cut off,
\* a record more, or a header that it cannot pass.
LEMMA Crashed ==
    ASSUME FileTypes, NEW p \in Places, NEW h \in Headers, UNCHANGED fileVars
    PROVE  /\ FreeState(p, h)
              => \E n \in Nat : ShutState(p, h, n)' /\ Left' = Held
           /\ PopState(p, h)
              => \E n \in Nat : ShutState(p, h, n)' /\ Left' = Front(Held)
           /\ PushState(p, h) /\ torn' /\ data \in Content
              => \E n \in Nat, q \in Places, g \in Headers :
                    ShutState(q, g, n)' /\ IsPrefix(Held, Left') /\ Len(Left') <= Len(Held) + 1
<1>0. PICK n \in Nat : n = depth
  BY DEF FileTypes
<1>1. /\ file' = file /\ file \in Seq(Cells) /\ Len(file) \in Nat /\ FileTypes'
      /\ \A q \in Places, g \in Headers, m \in Nat :
            /\ Trail(q, g, m) /\ Holds(q, g, m) /\ NoOther(q, m)
            /\ Bare(q[m + 1]) \/ (torn' /\ Overruns(q[m + 1]))
            => ShutState(q, g, m)' /\ Left' = Records(q, m)
  <2>1. file' = file /\ file \in Seq(Cells) /\ Len(file) \in Nat /\ FileTypes'
    BY LenProperties DEF FileTypes, fileVars, memory
  <2>2. ASSUME NEW q \in Places, NEW g \in Headers, NEW m \in Nat,
               Trail(q, g, m) /\ Holds(q, g, m) /\ NoOther(q, m),
               Bare(q[m + 1]) \/ (torn' /\ Overruns(q[m + 1]))
        PROVE  ShutState(q, g, m)' /\ Left' = Records(q, m)
    <3>1. ShutState(q, g, m)'
      BY <2>1, <2>2 DEF ShutState, Holds, NoOther, Bare, Overruns, RecordEnd
    <3>2. Left' = Records(q, m)'
      BY <2>1, <3>1, StackIsNext DEF StackFound
    <3>3. Records(q, m)' = Records(q, m)
      BY <2>1 DEF Records
    <3> QED  BY <3>1, <3>2, <3>3
  <2> QED  BY <2>1, <2>2
<1>2. ASSUME FreeState(p, h)
      PROVE  \E m \in Nat : ShutState(p, h, m)' /\ Left' = Held
  <2>1. /\ Trail(p, h, n) /\ Holds(p, h, n) /\ NoOther(p, n) /\ Bare(p[n + 1])
        /\ Held = Records(p, n)
    BY <1>0, <1>2, AtEndIs, StackIs DEF FreeState, StackFound
  <2> QED  BY <1>1, <2>1
<1>3. ASSUME PopState(p, h)
      PROVE  \E m \in Nat : ShutState(p, h, m)' /\ Left' = Front(Held)
  <2>1. /\ n \in Nat \ {0} /\ Trail(p, h, n) /\ Holds(p, h, n - 1) /\ NoOther(p, n - 1)
        /\ file[p[n] + 1] = Zero /\ Held = Records(p, n)
        /\ p[n + 1] <= Len(file)
    BY <1>0, <1>3, AtEndIs, StackIs DEF PopState, StackFound
  <2>2. Trail(p, h, n - 1) /\ n - 1 \in Nat /\ (n - 1) + 1 = n
    BY <2>1, TrailShrinks
  <2>3. Bare(p[(n - 1) + 1])
    BY <2>1, <2>2, ZeroIs DEF Bare
  <2>4. ShutState(p, h, n - 1)' /\ Left' = Records(p, n - 1)
    BY <1>1, <2>1, <2>2, <2>3
  <2>5. Records(p, n - 1) = Front(Held)
    BY <1>1, <2>1, FrontOf
  <2> QED  BY <2>2, <2>4, <2>5
<1>4. ASSUME PushState(p, h), torn', data \in Content
      PROVE  \E m \in Nat, q \in Places, g \in Headers :
                ShutState(q, g, m)' /\ IsPrefix(Held, Left') /\ Len(Left') <= Len(Held) + 1
  <2>0. PICK s \in Nat \ {0} : s = Size[data]
    BY <1>4, SizeType
  <2>1. /\ Trail(p, h, n) /\ Holds(p, h, n) /\ NoOther(p, n)
        /\ insert = p[n + 1] /\ insert \in Nat /\ insert + HeaderSize <= Len(file)
        /\ file[insert + 1] = Header(s, TopOf(h, n).size)
        /\ Held = Records(p, n) /\ TopOf(h, n).size \in Nat
    BY <1>0, <1>4, <2>0, AtEndIs, StackIs DEF PushState, StackFound
  <2>2. Held \in Seq(Seq(Cells)) /\ Len(Held) = n
    BY <1>1, <2>1, RecordsAre DEF Holds
  <2>3. CASE insert + HeaderSize + s <= Len(file)
    <3>1. Room(p, h, n, s)
      BY <2>1, <2>3 DEF Room
    <3>2. PICK q \in Places, g \in Headers : Longer(p, h, n, s, q, g)
      BY <1>1, <3>1, OneMoreIs, Zenon DEF OneMore
    <3>3. n + 1 \in Nat /\ (n + 1) + 1 = n + 2
      OBVIOUS
    <3>4. /\ Trail(q, g, n + 1) /\ Holds(q, g, n + 1) /\ NoOther(q, n + 1) /\ Bare(q[n + 2])
          /\ \A i \in 1 .. n : Records(q, n + 1)[i] = Records(p, n)[i]
      BY <3>2 DEF Longer
    <3>5. ShutState(q, g, n + 1)' /\ Left' = Records(q, n + 1)
      BY <1>1, <3>3, <3>4
    <3>6. Left' \in Seq(Seq(Cells)) /\ Len(Left') = n + 1
      BY <1>1, <3>3, <3>4, <3>5, RecordsAre DEF Holds
    <3>7. IsPrefix(Held, Left')
      <4>1. Len(Held) <= Len(Left') /\ \A i \in 1 .. Len(Held) : Left'[i] = Held[i]
        BY <2>1, <2>2, <3>4, <3>5, <3>6
      <4> QED  BY <2>2, <3>6, <4>1, PrefixIs
    <3> QED  BY <2>2, <3>3, <3>5, <3>6, <3>7
  <2>4. CASE ~(insert + HeaderSize + s <= Len(file))
    <3>1. Overruns(insert)
      <4>1. Header(s, TopOf(h, n).size) \in HeaderCells /\ Header(s, TopOf(h, n).size).size = s
        BY <2>1, HeaderIs
      <4>2. ~Blank(file[insert + 1]) /\ file[insert + 1].size = s
        BY <2>1, <4>1, HeaderCell
      <4>3. insert \in Nat /\ Len(file) \in Nat /\ insert + HeaderSize <= Len(file)
        BY <1>1, <2>1
      <4>4. insert + HeaderSize + s > Len(file)
        BY <2>4, <4>3
      <4> QED  BY <4>2, <4>3, <4>4, Zenon DEF Overruns, RecordEnd
    <3>2. ShutState(p, h, n)' /\ Left' = Held
      BY <1>1, <1>4, <2>1, <3>1
    <3>3. IsPrefix(Held, Left')
      BY <2>2, <3>2, PrefixIs
    <3> QED  BY <2>2, <3>2, <3>3
  <2> QED  BY <2>3, <2>4
<1> QED  BY <1>2, <1>3, <1>4

-----------------------------------------------------------------------------
(* Who is inside push or pop                                               *)

\* Of three cases there is one.
LEMMA OneCase ==
    ASSUME Types, Alone
    PROVE  /\ Free => ~Pushing /\ ~Popping /\ Call = RS!NoCall
           /\ Pushing => ~Free /\ ~Popping /\ open /\ Call = [op |-> "push", data |-> Pieces(data)]
           /\ Popping => ~Free /\ ~Pushing /\ open /\ Call = [op |-> "pop", data |-> <<>>]
           /\ Free \/ Pushing \/ Popping
           /\ ~open => Free
<1>1. /\ Free => ~Pushing /\ ~Popping
      /\ Pushing => ~Free /\ ~Popping /\ open
      /\ Popping => ~Free /\ ~Pushing /\ open
      /\ Free \/ Pushing \/ Popping
      /\ ~open => Free
  BY DEF Types, Alone, Free, Pushing, Popping
<1>2. Call = IF Pushing THEN [op |-> "push", data |-> Pieces(data)]
             ELSE IF Popping THEN [op |-> "pop", data |-> <<>>]
             ELSE [op |-> "none", data |-> <<>>]
  BY DEF Call, Pushing, Popping
<1>3. RS!NoCall = [op |-> "none", data |-> <<>>]
  BY DEF RS!NoCall
<1> QED  BY <1>1, <1>2, <1>3, Zenon

OneCaseNamed ==
    Types /\ Alone =>
        /\ Free => ~Pushing /\ ~Popping /\ Call = RS!NoCall
        /\ Pushing => ~Free /\ ~Popping /\ open /\ Call = [op |-> "push", data |-> Pieces(data)]
        /\ Popping => ~Free /\ ~Pushing /\ open /\ Call = [op |-> "pop", data |-> <<>>]

LEMMA OneCaseNext == OneCaseNamed'
<1>1. OneCaseNamed
  BY OneCase, Zenon DEF OneCaseNamed
<1> QED  BY <1>1, PTL

\* A call begins.
LEMMA Enters ==
    ASSUME Types, Alone, open, open', Free, NEW t \in Threads, NEW to \in {"push", "pop"},
           Goto(t, "idle", to)
    PROVE  /\ at' \in [Threads -> {"idle", "push", "pop", "reply"}] /\ Alone'
           /\ Pushing' <=> to = "push"
           /\ Popping' <=> to = "pop"
           /\ ~Free'
BY DEF Types, Alone, Free, Goto, Pushing, Popping

\* It ends.
LEMMA Leaves ==
    ASSUME Types, Alone, open, open', NEW t \in Threads,
           NEW from \in {"push", "pop"}, NEW to \in {"idle", "reply"}, Goto(t, from, to)
    PROVE  /\ at' \in [Threads -> {"idle", "push", "pop", "reply"}] /\ Alone' /\ Free'
           /\ Pushing <=> from = "push"
           /\ Popping <=> from = "pop"
           /\ ~Pushing' /\ ~Popping'
BY DEF Types, Alone, Free, Goto, Pushing, Popping

-----------------------------------------------------------------------------
(* The invariant is inductive, and each step one of the stack              *)

\* A file that is not there yet has no records.
LEMMA NoFile ==
    ASSUME Init
    PROVE  \E p \in Places, h \in Headers : ShutState(p, h, 0)
<1> DEFINE p == [i \in Nat |-> 0]
           h == [i \in Nat |-> Zero]
<1>1. p \in Places /\ h \in Headers /\ p[1] = 0
  BY ZeroIs DEF Places, Headers
<1> HIDE DEF p, h
<1>2. ShutState(p, h, 0)
  BY <1>1 DEF Init, ShutState, Trail, Holds, NoOther, Bare
<1> QED  BY <1>1, <1>2

LEMMA InitIInv == Init => IInv
<1> SUFFICES ASSUME Init PROVE IInv
  OBVIOUS
<1>1. /\ file = <<>> /\ buffer = <<>> /\ open = FALSE
      /\ at = [t \in Threads |-> "idle"]
      /\ <<>> \in Seq(Cells)
  BY DEF Init
<1>2. Types
  BY <1>1, ZeroIs DEF Init, Types, FileTypes
<1>3. Alone /\ ~Pushing /\ ~Popping
  BY <1>1 DEF Init, Alone, Pushing, Popping
<1>4. FileInv
  BY <1>1, <1>3, NoFile DEF FileInv
<1> QED  BY <1>2, <1>3, <1>4 DEF IInv

LEMMA LookupStep ==
    ASSUME IInv, NEW t \in Threads, Lookup(t)
    PROVE  IInv' /\ RS!Open
<1>1. /\ Types /\ Alone /\ open = FALSE /\ open' = TRUE /\ OpenFile
      /\ at' = at /\ data' = data /\ taken' = taken /\ torn' = FALSE
      /\ \A u \in Threads : at[u] = "idle"
  BY DEF IInv, Lookup, clients, Types, Alone
<1>2. PICK n \in Nat, p \in Places, h \in Headers : ShutState(p, h, n)
  BY <1>1 DEF IInv, FileInv
<1>3. FileTypes' /\ FreeState(p, h)' /\ Held' = Left
  BY <1>1, <1>2, OpenStep DEF Types
<1>4. Types'
  BY <1>1, <1>3 DEF Types
<1>5. Alone' /\ ~Pushing' /\ ~Popping'
  BY <1>1, <1>4 DEF Alone, Pushing, Popping, Types
<1>6. FileInv'
  BY <1>1, <1>3, <1>5 DEF FileInv
<1>7. RS!Open
  <2>1. Call' = Call
    BY <1>1 DEF Call
  <2> QED  BY <1>1, <1>3, <2>1 DEF RS!Open
<1> QED  BY <1>4, <1>5, <1>6, <1>7 DEF IInv

LEMMA PutHeaderIs ==
    ASSUME IInv, NEW t \in Threads, NEW c \in Content, PutHeader(t, c)
    PROVE  IInv' /\ RS!Begin
<1>1. /\ Types /\ Alone /\ open /\ Free /\ open' = open
      /\ Goto(t, "idle", "push") /\ data' = c /\ PushHeader(c)
      /\ taken' = taken /\ torn' = torn /\ buffer' = buffer
  BY DEF IInv, PutHeader, history, PushHeader
<1>2. PICK p \in Places, h \in Headers : FreeState(p, h)
  BY <1>1 DEF IInv, FileInv
<1>3. FileTypes' /\ PushState(p, h)' /\ Held' = Held
  BY <1>1, <1>2, PutHeaderStep DEF Types
<1>4. /\ at' \in [Threads -> {"idle", "push", "pop", "reply"}] /\ Alone'
      /\ Pushing' /\ ~Popping' /\ ~Free'
  BY <1>1, Enters
<1>5. Types'
  BY <1>1, <1>3, <1>4 DEF Types
<1>6. FileInv'
  BY <1>1, <1>3, <1>4 DEF FileInv
<1>7. RS!Begin
  <2>1. Call = RS!NoCall /\ Call'.op = "push"
    BY <1>1, <1>4, <1>5, OneCase, OneCaseNext DEF OneCaseNamed
  <2> QED  BY <1>1, <1>3, <2>1 DEF RS!Begin
<1> QED  BY <1>4, <1>5, <1>6, <1>7 DEF IInv

LEMMA PutContentIs ==
    ASSUME IInv, NEW t \in Threads, PutContent(t)
    PROVE  IInv' /\ RS!Push
<1>1. /\ Types /\ Alone /\ Goto(t, "push", "idle") /\ PushContent(data)
      /\ open' = open /\ data' = data
      /\ taken' = taken /\ torn' = torn /\ buffer' = buffer
  BY DEF IInv, PutContent, history, PushContent
<1>2. Pushing
  BY <1>1 DEF Goto, Pushing
<1>3. open /\ Call = [op |-> "push", data |-> Pieces(data)]
  BY <1>1, <1>2, OneCase
<1>4. PICK p \in Places, h \in Headers : PushState(p, h)
  BY <1>2 DEF IInv, FileInv
<1>5. PICK q \in Places, g \in Headers :
         FileTypes' /\ FreeState(q, g)' /\ Held' = Append(Held, Pieces(data))
  BY <1>1, <1>4, PutContentStep DEF Types
<1>6. /\ at' \in [Threads -> {"idle", "push", "pop", "reply"}] /\ Alone' /\ Free'
      /\ ~Pushing' /\ ~Popping'
  BY <1>1, <1>3, Leaves
<1>7. Types'
  BY <1>1, <1>5, <1>6 DEF Types
<1>8. FileInv'
  BY <1>1, <1>3, <1>5, <1>6 DEF FileInv
<1>9. RS!Push
  <2>1. Call' = RS!NoCall
    BY <1>6, <1>7, OneCaseNext DEF OneCaseNamed
  <2> QED  BY <1>1, <1>3, <1>5, <2>1 DEF RS!Push
<1> QED  BY <1>6, <1>7, <1>8, <1>9 DEF IInv

LEMMA GetMarkIs ==
    ASSUME IInv, NEW t \in Threads, GetMark(t)
    PROVE  IInv' /\ RS!Begin
<1>1. /\ Types /\ Alone /\ open /\ Free /\ open' = open
      /\ Goto(t, "idle", "pop") /\ data' = data /\ PopMark
      /\ taken' = taken /\ torn' = torn /\ buffer' = buffer
  BY DEF IInv, GetMark, history, PopMark
<1>2. PICK p \in Places, h \in Headers : FreeState(p, h)
  BY <1>1 DEF IInv, FileInv
<1>3. FileTypes' /\ PopState(p, h)' /\ Held' = Held
  BY <1>1, <1>2, GetMarkStep DEF Types
<1>4. /\ at' \in [Threads -> {"idle", "push", "pop", "reply"}] /\ Alone'
      /\ ~Pushing' /\ Popping' /\ ~Free'
  BY <1>1, Enters
<1>5. Types'
  BY <1>1, <1>3, <1>4 DEF Types
<1>6. FileInv'
  BY <1>1, <1>3, <1>4 DEF FileInv
<1>7. RS!Begin
  <2>1. Call = RS!NoCall /\ Call'.op = "pop"
    BY <1>1, <1>4, <1>5, OneCase, OneCaseNext DEF OneCaseNamed
  <2> QED  BY <1>1, <1>3, <2>1 DEF RS!Begin
<1> QED  BY <1>4, <1>5, <1>6, <1>7 DEF IInv

LEMMA GetReadIs ==
    ASSUME IInv, NEW t \in Threads, GetRead(t)
    PROVE  IInv' /\ RS!Pop
<1>1. /\ Types /\ Alone /\ Goto(t, "pop", "reply") /\ PopRead
      /\ open' = open /\ data' = data /\ torn' = torn
      /\ taken' = SubSeq(buffer', 1, current.size)
  BY DEF IInv, GetRead
<1>2. Popping
  BY <1>1 DEF Goto, Popping
<1>3. open /\ Call = [op |-> "pop", data |-> <<>>]
  BY <1>1, <1>2, OneCase
<1>4. PICK p \in Places, h \in Headers : PopState(p, h)
  BY <1>2 DEF IInv, FileInv
<1>5. /\ FileTypes' /\ FreeState(p, h)'
      /\ Held # <<>> /\ Held' = Front(Held)
      /\ taken' = Last(Held) /\ Len(taken') = current.size
  BY <1>1, <1>4, GetReadStep DEF Types
<1>6. /\ at' \in [Threads -> {"idle", "push", "pop", "reply"}] /\ Alone' /\ Free'
      /\ ~Pushing' /\ ~Popping'
  BY <1>1, <1>3, Leaves
<1>7. Types'
  BY <1>1, <1>5, <1>6 DEF Types
<1>8. FileInv'
  BY <1>1, <1>3, <1>5, <1>6 DEF FileInv
<1>9. RS!Pop
  <2>1. Call' = RS!NoCall
    BY <1>6, <1>7, OneCaseNext DEF OneCaseNamed
  <2> QED  BY <1>1, <1>3, <1>5, <2>1 DEF RS!Pop, RS!Last, RS!Front, Last, Front
<1> QED  BY <1>6, <1>7, <1>8, <1>9 DEF IInv

\* What does not touch the queue leaves it as it is.
LEMMA Untouched ==
    ASSUME UNCHANGED <<fileVars, open, data>>, UNCHANGED taken
    PROVE  /\ (IF open THEN Held ELSE Left)' = (IF open THEN Held ELSE Left)
           /\ \A p \in Places, h \in Headers :
                 /\ FreeState(p, h) => FreeState(p, h)'
                 /\ PushState(p, h) => PushState(p, h)'
                 /\ PopState(p, h) => PopState(p, h)'
                 /\ torn' = torn => \A n \in Nat : ShutState(p, h, n) => ShutState(p, h, n)'
<1>1. /\ file' = file /\ position' = position /\ insert' = insert /\ depth' = depth
      /\ current' = current /\ buffer' = buffer /\ open' = open /\ data' = data
  BY DEF fileVars, memory
<1>2. Held' = Held
  BY <1>1 DEF Held
<1>3. Left' = Left
  BY <1>1 DEF Left, Sweep, EndsAt, FailsAt, RecordEnd
<1>4. ASSUME NEW p \in Places, NEW h \in Headers
      PROVE  /\ FreeState(p, h) => FreeState(p, h)'
             /\ PushState(p, h) => PushState(p, h)'
             /\ PopState(p, h) => PopState(p, h)'
             /\ torn' = torn => \A n \in Nat : ShutState(p, h, n) => ShutState(p, h, n)'
  BY <1>1 DEF FreeState, PushState, PopState, ShutState, AtEnd, Holds, NoOther, Bare, Overruns, RecordEnd
<1> QED  BY <1>1, <1>2, <1>3, <1>4

LEMMA GetReplyStep ==
    ASSUME IInv, NEW t \in Threads, GetReply(t)
    PROVE  IInv' /\ UNCHANGED RS!vars
<1>1. /\ Types /\ Alone /\ Goto(t, "reply", "idle")
      /\ UNCHANGED <<fileVars, open, data>> /\ torn' = torn
      /\ open' = open /\ data' = data /\ taken' = taken
  BY DEF IInv, GetReply, history
<1>2. Types'
  BY <1>1 DEF Types, FileTypes, fileVars, memory, Goto
<1>3. /\ Alone' /\ (Pushing' <=> Pushing) /\ (Popping' <=> Popping) /\ (Free' <=> Free)
  BY <1>1 DEF Types, Alone, Pushing, Popping, Free, Goto
<1>4. FileInv'
  BY <1>1, <1>3, Untouched DEF IInv, FileInv
<1>5. UNCHANGED RS!vars
  <2>1. Call' = Call
    BY <1>1, <1>3, Zenon DEF Call, Pushing, Popping
  <2>2. (IF open THEN Held ELSE Left)' = (IF open THEN Held ELSE Left)
    BY <1>1, Untouched
  <2> QED  BY <1>1, <2>1, <2>2 DEF RS!vars
<1> QED  BY <1>2, <1>3, <1>4, <1>5 DEF IInv

LEMMA CrashStep ==
    ASSUME IInv, Crash
    PROVE  IInv' /\ RS!Crash
<1>1. /\ Types /\ Alone /\ open /\ open' = FALSE
      /\ at' = [t \in Threads |-> "idle"] /\ torn' = Pushing
      /\ UNCHANGED fileVars /\ data' = data /\ taken' = taken
  BY DEF IInv, Crash, Pushing
<1>2. Types'
  BY <1>1 DEF Types, FileTypes, fileVars, memory, Pushing
<1>3. Alone' /\ Free' /\ ~Pushing' /\ ~Popping'
  BY <1>1, <1>2 DEF Alone, Free, Pushing, Popping, Types
<1>4. Call' = RS!NoCall
  BY <1>2, <1>3, OneCaseNext DEF OneCaseNamed
<1>5. ASSUME NEW n \in Nat, NEW p \in Places, NEW h \in Headers, ShutState(p, h, n)'
      PROVE  IInv'
  <2>1. FileInv'
    BY <1>1, <1>3, <1>5 DEF FileInv
  <2> QED  BY <1>2, <1>3, <2>1 DEF IInv
<1>6. PICK p \in Places, h \in Headers :
         /\ Free => FreeState(p, h)
         /\ Pushing => PushState(p, h)
         /\ Popping => PopState(p, h)
  BY <1>1 DEF IInv, FileInv
<1>7. CASE Free
  <2>1. PICK n \in Nat : ShutState(p, h, n)' /\ Left' = Held
    BY <1>1, <1>6, <1>7, Crashed DEF Types
  <2>2. Call.op = "none"
    BY <1>1, <1>7, OneCase DEF RS!NoCall
  <2>3. RS!Crash
    BY <1>1, <1>4, <2>1, <2>2 DEF RS!Crash
  <2> QED  BY <1>5, <2>1, <2>3
<1>8. CASE Popping
  <2>1. PICK n \in Nat : ShutState(p, h, n)' /\ Left' = Front(Held)
    BY <1>1, <1>6, <1>8, Crashed DEF Types
  <2>2. Call.op = "pop"
    BY <1>1, <1>8, OneCase
  <2>3. RS!Crash
    BY <1>1, <1>4, <2>1, <2>2 DEF RS!Crash, RS!Front, Front
  <2> QED  BY <1>5, <2>1, <2>3
<1>9. CASE Pushing
  <2>1. PICK n \in Nat, q \in Places, g \in Headers :
           ShutState(q, g, n)' /\ IsPrefix(Held, Left') /\ Len(Left') <= Len(Held) + 1
    BY <1>1, <1>6, <1>9, Crashed DEF Types
  <2>2. Call.op = "push"
    BY <1>1, <1>9, OneCase
  <2>3. RS!Crash
    BY <1>1, <1>4, <2>1, <2>2 DEF RS!Crash, RS!IsPrefix, IsPrefix
  <2> QED  BY <1>5, <2>1, <2>3
<1> QED  BY <1>1, <1>7, <1>8, <1>9, OneCase

LEMMA StutterStep ==
    ASSUME IInv, UNCHANGED vars
    PROVE  IInv' /\ UNCHANGED RS!vars
<1>1. /\ UNCHANGED <<fileVars, open, data>> /\ UNCHANGED fileVars
      /\ open' = open /\ at' = at /\ data' = data
      /\ taken' = taken /\ torn' = torn
  BY DEF vars, clients, history
<1>2. Types' /\ Alone'
  BY <1>1 DEF IInv, Types, FileTypes, Alone, fileVars, memory
<1>3. FileInv'
  <2>1. (Pushing' <=> Pushing) /\ (Popping' <=> Popping) /\ (Free' <=> Free)
    BY <1>1 DEF Pushing, Popping, Free
  <2> QED  BY <1>1, <2>1, Untouched DEF IInv, FileInv
<1>4. UNCHANGED RS!vars
  <2>1. Call' = Call
    BY <1>1 DEF Call
  <2> QED  BY <1>1, <2>1, Untouched DEF RS!vars
<1> QED  BY <1>2, <1>3, <1>4 DEF IInv

LEMMA NextIInv == IInv /\ [Next]_vars => IInv' /\ [RS!Next]_RS!vars
<1> SUFFICES ASSUME IInv, [Next]_vars PROVE IInv' /\ [RS!Next]_RS!vars
  OBVIOUS
<1>1. ASSUME NEW t \in Threads, Lookup(t) PROVE IInv' /\ RS!Next
  BY <1>1, LookupStep DEF RS!Next
<1>2. ASSUME NEW t \in Threads, NEW c \in Content, PutHeader(t, c) PROVE IInv' /\ RS!Next
  BY <1>2, PutHeaderIs DEF RS!Next
<1>3. ASSUME NEW t \in Threads, PutContent(t) PROVE IInv' /\ RS!Next
  BY <1>3, PutContentIs DEF RS!Next
<1>4. ASSUME NEW t \in Threads, GetMark(t) PROVE IInv' /\ RS!Next
  BY <1>4, GetMarkIs DEF RS!Next
<1>5. ASSUME NEW t \in Threads, GetRead(t) PROVE IInv' /\ RS!Next
  BY <1>5, GetReadIs DEF RS!Next
<1>6. ASSUME NEW t \in Threads, GetReply(t) PROVE IInv' /\ UNCHANGED RS!vars
  BY <1>6, GetReplyStep
<1>7. ASSUME Crash PROVE IInv' /\ RS!Next
  BY <1>7, CrashStep DEF RS!Next
<1>8. ASSUME UNCHANGED vars PROVE IInv' /\ UNCHANGED RS!vars
  BY <1>8, StutterStep
<1> QED  BY <1>1, <1>2, <1>3, <1>4, <1>5, <1>6, <1>7, <1>8, Zenon DEF Next

-----------------------------------------------------------------------------
(* The theorems                                                            *)

\* The records of the file can be found from its start and from its end, at any time.
THEOREM Invariant == Spec => []IInv
<1>1. IInv /\ [Next]_vars => IInv'
  BY NextIInv
<1> QED  BY InitIInv, <1>1, PTL DEF Spec

\* Whatever content passes for a header: the file can be opened again but after a push
\* that was cut off before its content, where the file ends, with less than a header of the file behind
\* the last record, or with such content there; pop meets no file that is
\* corrupt.  QueueFile's constructor and pop.
THEOREM AlwaysUsable == Spec => []FileUsable
<1>1. IInv => FileUsable
  <2> SUFFICES ASSUME IInv PROVE FileUsable
    OBVIOUS
  <2>1. ASSUME ~open, Sweep.fails
        PROVE  \/ torn /\ IsHeader(file[SweepEnd + 1]) /\ RecordEnd(SweepEnd) > Len(file)
               \/ SweepEnd + HeaderSize > Len(file)
               \/ SubSeq(file, SweepEnd + 1, SweepEnd + HeaderSize) \in Lookalikes
    <3>1. PICK n \in Nat, p \in Places, h \in Headers : ShutState(p, h, n)
      BY <2>1 DEF IInv, FileInv
    <3>2. /\ file \in Seq(Cells) /\ Trail(p, h, n) /\ Holds(p, h, n)
          /\ p[n + 1] \in Nat /\ p[n + 1] <= Len(file)
          /\ Bare(p[n + 1]) \/ (torn /\ Overruns(p[n + 1]))
      <4>1. file \in Seq(Cells)
        BY DEF IInv, Types, FileTypes
      <4>2. p[n + 1] \in Nat
        BY PlaceIs
      <4> QED  BY <3>1, <4>1, <4>2 DEF ShutState, Holds
    <3>3. PICK fails \in BOOLEAN : Ends(fails, p[n + 1])
      BY <3>2, BareEnds
    <3>4. Sweep = [fails |-> fails, starts |-> [i \in 1 .. n |-> p[i]]]
      BY <3>2, <3>3, SweepIs, Zenon DEF SweepFinds
    <3>5. ~EndsAt(p[n + 1])
      <4>1. fails = TRUE
        BY <2>1, <3>4
      <4> QED  BY <3>3, <4>1 DEF Ends
    <3>6. SweepEnd = p[n + 1]
      BY <3>2, <3>4, SweepEndIs
    <3> QED  BY <3>2, <3>5, <3>6 DEF EndsAt, Bare, Overruns, Blank
  <2>2. ASSUME open, depth = 1 PROVE current.prior = 0 /\ Point = 0
    <3>1. PICK p \in Places, h \in Headers : AtEnd(p, h)
      BY <2>2, OneCase DEF IInv, FileInv, FreeState, PushState, PopState
    <3>2. /\ p[1] = 0 /\ insert = p[2] /\ current = h[1] /\ h[1].prior = 0
          /\ p[2] = p[1] + HeaderSize + h[1].size /\ h[1].size \in Nat
      <4>1. Trail(p, h, 1) /\ insert = p[1 + 1] /\ current = TopOf(h, 1) /\ 1 \in 1 .. 1
        BY <2>2, <3>1 DEF AtEnd
      <4>2. h[1].size \in Nat
        BY <4>1, TrailIs
      <4> QED  BY <4>1, <4>2 DEF Trail, TopOf
    <3> QED  BY <3>2 DEF Point
  <2> QED  BY <2>1, <2>2 DEF FileUsable, Corrupt
<1> QED  BY Invariant, <1>1, PTL

\* Each step of the server's threads, and a crash, is a step of a stack of records, or
\* none: a push or pop that is cut off damages no record but its own.
THEOREM QueueIsRecordStack == Spec => ImplementsRecordStack
<1>1. Init => RS!Init
  <2> SUFFICES ASSUME Init PROVE RS!Init
    OBVIOUS
  <2>1. open = FALSE /\ taken = <<>> /\ Free /\ IInv
    BY InitIInv DEF Init, Free
  <2>2. Call = RS!NoCall
    BY <2>1, OneCase DEF IInv
  <2>3. Left = <<>>
    <3>1. PICK p \in Places, h \in Headers : ShutState(p, h, 0)
      BY NoFile
    <3>2. Left = Records(p, 0)
      BY <2>1, <3>1, StackIs DEF StackFound, IInv, Types
    <3> QED  BY <3>2 DEF Records
  <2> QED  BY <2>1, <2>2, <2>3 DEF RS!Init
<1>2. IInv /\ [Next]_vars => [RS!Next]_RS!vars
  BY NextIInv
<1> QED  BY Invariant, <1>1, <1>2, PTL DEF Spec, ImplementsRecordStack, RS!Spec
=============================================================================
