--------------------------- MODULE ExceptionsProofs ---------------------------
(***************************************************************************)
(* Proofs about Exceptions for any classes, functions and depth of the     *)
(* stack.                                                                  *)
(*                                                                         *)
(* The walk from handler to handler (Win32) and the walk through tables by *)
(* return addresses (Linux) are both shown to be one walk, from a section  *)
(* to the one around it (EnterFrame, WalkOut): nothing inside the section  *)
(* that it has come to catches the exception, and the finally blocks that  *)
(* have run are those inside it.  On Win32 that needs table_index to be    *)
(* right; on Linux that a return address leads to the section of its call  *)
(* (Lookup).                                                               *)
(***************************************************************************)
EXTENDS Exceptions, SequenceTheorems, WellFoundedInduction, TLAPS

-----------------------------------------------------------------------------
(* Least and greatest numbers                                              *)

LEMMA Least ==
    ASSUME NEW T \in SUBSET Nat, T # {}
    PROVE  \E x \in T : \A y \in T : x <= y
<1> DEFINE R == {p \in Nat \X Nat : p[1] < p[2]}
<1>1. IsWellFoundedOn(R, Nat)
  BY NatLessThanWellFounded, Zenon DEF OpToRel
<1>2. \E x \in T : \A y \in T : ~ (<<y, x>> \in R)
  <2> HIDE DEF R
  <2> QED BY <1>1, WFMin, Zenon
<1>3. PICK x \in T : \A y \in T : ~ (<<y, x>> \in R)
  BY <1>2
<1>4. ASSUME NEW y \in T PROVE x <= y
  <2>1. x \in Nat /\ y \in Nat /\ ~ (<<y, x>> \in R)
    BY <1>3
  <2>2. ~ (y < x)
    BY <2>1
  <2> QED  BY <2>1, <2>2
<1> QED  BY <1>4

LEMMA MinIs ==
    ASSUME NEW T \in SUBSET Nat, T # {}
    PROVE  /\ Min(T) \in T
           /\ \A y \in T : Min(T) <= y
<1>1. PICK x \in T : \A y \in T : x <= y
  BY Least
<1> QED  BY <1>1, Zenon DEF Min

LEMMA MaxIs ==
    ASSUME NEW n \in Nat, NEW T \in SUBSET (0 .. n), T # {}
    PROVE  /\ Max(T) \in T
           /\ \A y \in T : y <= Max(T)
<1> DEFINE U == {n - x : x \in T}
<1>1. U \in SUBSET Nat /\ U # {}
  OBVIOUS
<1>2. PICK u \in U : \A y \in U : u <= y
  BY <1>1, Least
<1>3. n - u \in T /\ \A y \in T : n - u >= y
  BY <1>2
<1>4. \E x \in T : \A y \in T : x >= y
  BY <1>3
<1>5. Max(T) \in T /\ \A y \in T : Max(T) >= y
  BY <1>4, Zenon DEF Max
<1> QED  BY <1>5

-----------------------------------------------------------------------------
(* Functions and their sections                                            *)

LEMMA FunctionIs ==
    ASSUME NEW f \in DOMAIN Functions
    PROVE  /\ Functions[f].size \in Nat /\ Functions[f].size > 2
           /\ Functions[f].sync \in BOOLEAN
           /\ Functions[f].guards \in Seq(Sections)
           /\ Address[f] \in Nat
<1> DEFINE S == [size : Nat, sync : BOOLEAN, guards : Seq(Sections)]
<1>1. Functions \in Seq(S)
  BY FunctionsType
<1>2. Functions[f] \in S
  <2> HIDE DEF S
  <2>1. f \in 1 .. Len(Functions)
    BY <1>1, LenProperties, Zenon
  <2> QED  BY <1>1, <2>1, ElementOfSeq
<1> QED  BY <1>2, FunctionsType

LEMMA FunctionIsNat == DOMAIN Functions \in SUBSET (Nat \ {0})
BY FunctionsType, LenProperties

LEMMA IndexesAre ==
    ASSUME NEW f \in DOMAIN Functions
    PROVE  /\ Len(Functions[f].guards) \in Nat
           /\ Indexes(f) = 1 .. Len(Functions[f].guards)
           /\ \A i \in Indexes(f) : Guard(f, i) \in Sections
BY FunctionIs, ElementOfSeq, LenProperties DEF Indexes, Guard

\* Sections that cover the same instruction are inside each other.
LEMMA SectionIs ==
    ASSUME NEW f \in DOMAIN Functions, NEW i \in Indexes(f)
    PROVE  /\ Guard(f, i).prev \in {0} \cup Indexes(f) /\ Guard(f, i).prev < i
           /\ \A p \in Nat : Covers(f, i, p) =>
                 /\ Guard(f, i).prev # 0 => Covers(f, Guard(f, i).prev, p)
                 /\ \A j \in Indexes(f) : j < i /\ Covers(f, j, p) => j <= Guard(f, i).prev
           /\ Functions[f].sync => i = 1 /\ DOMAIN Guard(f, i).catches = {}
<1> DEFINE g == Guard(f, i)
           T == {0} \cup {j \in 1 .. i - 1 : Covers(f, j, g.first)}
<1>1. /\ g \in Sections /\ i \in Nat /\ i >= 1
      /\ \A j \in 1 .. i - 1 : j \in Indexes(f) /\ Guard(f, j) \in Sections
  BY IndexesAre
<1>2. g.prev = Max(T) /\ (g.prev # 0 => Covers(f, g.prev, g.last))
  BY SectionsNest
<1>3. Max(T) \in T /\ \A j \in T : j <= Max(T)
  <2>1. T \in SUBSET (0 .. i - 1) /\ T # {} /\ i - 1 \in Nat
    BY <1>1
  <2> QED  BY <2>1, MaxIs, Zenon
<1>4. g.prev \in {0} \cup Indexes(f) /\ g.prev < i
  BY <1>1, <1>2, <1>3
<1>5. ASSUME NEW p \in Nat, Covers(f, i, p)
      PROVE  /\ g.prev # 0 => Covers(f, g.prev, p)
             /\ \A j \in Indexes(f) : j < i /\ Covers(f, j, p) => j <= g.prev
  <2>1. g.first <= p /\ p <= g.last /\ g.first \in Nat /\ g.last \in Nat
    BY <1>1, <1>5 DEF Covers, Sections
  <2>2. ASSUME g.prev # 0 PROVE Covers(f, g.prev, p)
    <3>1. g.prev \in 1 .. i - 1 /\ Covers(f, g.prev, g.first) /\ Covers(f, g.prev, g.last)
      BY <1>2, <1>3, <2>2
    <3>2. Guard(f, g.prev).first \in Nat /\ Guard(f, g.prev).last \in Nat
      BY <1>1, <3>1 DEF Sections
    <3> QED  BY <2>1, <3>1, <3>2 DEF Covers
  <2>3. ASSUME NEW j \in Indexes(f), j < i, Covers(f, j, p) PROVE j <= g.prev
    <3>1. j \in 1 .. i - 1
      BY <1>1, <2>3, IndexesAre
    <3>2. Guard(f, j).first <= g.first
      BY <3>1, SectionsNest
    <3>3. Guard(f, j).first \in Nat /\ Guard(f, j).last \in Nat
      BY <1>1, <3>1 DEF Sections
    <3>4. Covers(f, j, g.first)
      BY <2>1, <2>3, <3>2, <3>3 DEF Covers
    <3> QED  BY <1>2, <1>3, <3>1, <3>4
  <2> QED  BY <2>2, <2>3
<1>6. Functions[f].sync => i = 1 /\ DOMAIN g.catches = {}
  <2>1. Functions[f].sync => i = 1 /\ g.catches = <<>>
    BY SectionsNest
  <2>2. DOMAIN <<>> = {}
    OBVIOUS
  <2> QED  BY <2>1, <2>2
<1> QED  BY <1>4, <1>5, <1>6

LEMMA InnermostIs ==
    ASSUME NEW f \in DOMAIN Functions, NEW p \in Nat
    PROVE  /\ Innermost(f, p) \in {0} \cup Indexes(f)
           /\ Innermost(f, p) # 0 => Covers(f, Innermost(f, p), p)
           /\ \A j \in Indexes(f) : Covers(f, j, p) => j <= Innermost(f, p)
<1> DEFINE T == {0} \cup {i \in Indexes(f) : Covers(f, i, p)}
<1>1. T \in SUBSET (0 .. Len(Functions[f].guards)) /\ T # {}
  BY IndexesAre
<1>2. Max(T) \in T /\ \A y \in T : y <= Max(T)
  BY <1>1, IndexesAre, MaxIs
<1> QED  BY <1>2 DEF Innermost

LEMMA FirstFitIs ==
    ASSUME NEW f \in DOMAIN Functions, NEW i \in Indexes(f), NEW class
    PROVE  LET b == FirstFit(f, i, class) IN
           /\ b \in {0} \cup DOMAIN Guard(f, i).catches
           /\ b # 0 => _d_isbaseof(class, Guard(f, i).catches[b].type)
<1> DEFINE catches == Guard(f, i).catches
           fits == {b \in DOMAIN catches : _d_isbaseof(class, catches[b].type)}
<1>1. catches \in Seq([type : Classes, code : Nat])
  BY IndexesAre DEF Sections
<1>2. fits \in SUBSET Nat /\ fits \subseteq DOMAIN catches
  BY <1>1, LenProperties
<1>3. CASE fits = {}
  BY <1>3, Zenon DEF FirstFit
<1>4. CASE fits # {}
  <2>1. Min(fits) \in fits
    BY <1>2, <1>4, MinIs
  <2>2. FirstFit(f, i, class) = Min(fits)
    BY <1>4, Zenon DEF FirstFit
  <2> QED  BY <2>1, <2>2
<1> QED  BY <1>3, <1>4

-----------------------------------------------------------------------------
(* Return addresses on Linux                                               *)

\* What Linux finds by the return address of a call is the innermost section around
\* the call.  The address of a call that ends a function may be in the next one, but
\* in no section of it.
LEMMA Lookup ==
    ASSUME NEW f \in DOMAIN Functions, NEW p \in 2 .. Functions[f].size
    PROVE  LET a == Address[f] + p + 1
               g == __eh_finddata(a)
               n == StartIndex(g, a)
           IN  /\ g \in {0} \cup DOMAIN Functions
               /\ n # 0 => g = f
               /\ n = Innermost(f, p)
<1> DEFINE a == Address[f] + p + 1
           g == __eh_finddata(a)
           n == StartIndex(g, a)
           in == {h \in DOMAIN Functions : Address[h] < a /\ a <= Address[h] + Functions[h].size}
           T == {i \in Indexes(g) : /\ Address[g] + Guard(g, i).first < a
                                    /\ a <= Address[g] + Guard(g, i).last + 1}
<1>1. \A h \in DOMAIN Functions : Functions[h].size \in Nat /\ Address[h] \in Nat /\ h # 0
  BY FunctionIs, FunctionIsNat
<1>2. g = IF in = {} THEN 0 ELSE CHOOSE h \in in : TRUE
  BY Zenon DEF __eh_finddata
<1>3. g \in {0} \cup in /\ (g = 0 => in = {})
  <2>1. in # {} => (CHOOSE h \in in : TRUE) \in in
    BY Zenon
  <2> QED  BY <1>1, <1>2, <2>1
<1>4. /\ g = 0 => n = 0
      /\ g # 0 => n = Max({0} \cup T)
  BY Zenon DEF StartIndex
<1>5. CASE p < Functions[f].size
  <2>1. f \in in
    BY <1>1, <1>5
  <2>2. \A h \in in : h = f
    BY <1>1, <1>5, FunctionsApart
  <2>3. g = f /\ g # 0
    BY <1>1, <1>3, <2>1, <2>2
  <2>4. T = {i \in Indexes(f) : Covers(f, i, p)}
    <3>1. \A i \in Indexes(f) :
             (Address[f] + Guard(f, i).first < a /\ a <= Address[f] + Guard(f, i).last + 1)
             <=> Covers(f, i, p)
      <4>1. \A i \in Indexes(f) : Guard(f, i).first \in Nat /\ Guard(f, i).last \in Nat
        BY IndexesAre DEF Sections
      <4> QED  BY <1>1, <4>1 DEF Covers
    <3> HIDE DEF a, g
    <3> QED  BY <2>3, <3>1
  <2>5. n = Innermost(f, p)
    <3> HIDE DEF g, n, T
    <3> QED  BY <1>4, <2>3, <2>4, Zenon DEF Innermost
  <2> QED  BY <2>3, <2>5
<1>6. CASE p = Functions[f].size
  <2>1. Innermost(f, p) = 0
    <3>1. \A i \in Indexes(f) : Guard(f, i).last \in Nat /\ Guard(f, i).last < p
      BY <1>6, IndexesAre, SectionsNest DEF Sections
    <3>2. \A i \in Indexes(f) : ~ Covers(f, i, p)
      BY <1>1, <3>1 DEF Covers
    <3> QED  BY <3>2, InnermostIs
  <2>2. ASSUME g # 0 PROVE n = 0
    <3>1. g \in in /\ g \in DOMAIN Functions
      BY <1>3, <2>2
    <3>2. a = Address[g] + 1
      <4>1. g # f
        <5>1. f \notin in
          BY <1>1, <1>6
        <5> QED  BY <3>1, <5>1
      <4>2. \/ Address[f] + Functions[f].size <= Address[g]
            \/ Address[g] + Functions[g].size <= Address[f]
        BY <3>1, <4>1, FunctionsApart
      <4> HIDE DEF g
      <4> QED  BY <1>1, <1>6, <3>1, <4>2
    <3>3. T = {}
      <4> HIDE DEF g
      <4>1. \A i \in Indexes(g) : Guard(g, i).first \in Nat /\ Guard(g, i).first > 1
        BY <3>1, IndexesAre, SectionsNest DEF Sections
      <4>2. \A i \in Indexes(g) : ~ (Address[g] + Guard(g, i).first < a)
        BY <1>1, <3>1, <3>2, <4>1
      <4> QED  BY <4>2
    <3>4. Max({0} \cup T) = 0
      <4>1. {0} \cup T \in SUBSET (0 .. 0) /\ {0} \cup T # {}
        BY <3>3
      <4> QED  BY <4>1, MaxIs
    <3> HIDE DEF g, n, T
    <3> QED  BY <1>4, <2>2, <3>4
  <2>3. n = 0
    BY <1>4, <2>2
  <2> QED  BY <1>3, <2>1, <2>3
<1> QED  BY <1>1, <1>5, <1>6

-----------------------------------------------------------------------------
(* Types                                                                   *)

Frames == [fn : DOMAIN Functions, pos : Nat, index : Nat]

Types ==
    /\ TypeOK
    /\ stack \in Seq(Frames)
    /\ thrownIn \in Seq(Frames)
    /\ \A k \in DOMAIN thrownIn : thrownIn[k].pos \in 2 .. Functions[thrownIn[k].fn].size
    /\ ran \in Seq(Nat \X Nat)
    /\ ndx \in Nat

\* Where the walk is, before the catch block is known.
Walk ==
    phase = "search" =>
        /\ thrownIn = stack
        /\ frame \in 1 .. Len(stack) + 1
        /\ ndx # 0 => /\ frame <= Len(stack)
                      /\ ndx \in Indexes(found) /\ found = stack[frame].fn
        /\ os = "Linux" => thrown.code = Mars

\* ... and after that, on Win32.
Unwinding ==
    phase = "unwind" =>
        /\ os = "Win32"
        /\ frame = Len(stack) /\ found = stack[frame].fn
        /\ frame <= Len(thrownIn) /\ \A k \in 1 .. frame : stack[k] = thrownIn[k]
        /\ ndx \in {0} \cup Indexes(found)
        /\ target.frame \in 1 .. frame
        /\ target.ndx \in Indexes(thrownIn[target.frame].fn)
        /\ target.block \in DOMAIN Guard(thrownIn[target.frame].fn, target.ndx).catches
        /\ target.block = FirstFit(thrownIn[target.frame].fn, target.ndx, ClassOf(thrown))
        /\ object = Translate(thrown)

LEMMA PlacesAre ==
    ASSUME NEW f \in DOMAIN Functions
    PROVE  /\ Places(f) \subseteq 2 .. Functions[f].size /\ 2 \in Places(f)
           /\ Places(f) \in SUBSET Nat
           /\ Functions[f].sync \/ Places(f) = 2 .. Functions[f].size
BY FunctionIs DEF Places

LEMMA InnermostIsNat ==
    ASSUME NEW f \in DOMAIN Functions, NEW p \in Nat
    PROVE  Innermost(f, p) \in Nat /\ Innermost(f, p) \in {0} \cup Indexes(f)
BY InnermostIs, IndexesAre

\* The top of the stack is a frame.
LEMMA TopIs ==
    ASSUME Types
    PROVE  /\ Top \in DOMAIN stack /\ Top \in Nat \ {0}
           /\ DOMAIN stack = 1 .. Top
           /\ DOMAIN thrownIn = 1 .. Len(thrownIn) /\ Len(thrownIn) \in Nat
           /\ \A k \in 1 .. Top : stack[k] \in Frames
           /\ \A k \in 1 .. Len(thrownIn) : thrownIn[k] \in Frames
BY FunctionsType, LenProperties, ElementOfSeq DEF Types, TypeOK, Top

LEMMA InitTypes == Init => Types /\ Walk /\ Unwinding
<1> SUFFICES ASSUME Init PROVE Types /\ Walk /\ Unwinding
  OBVIOUS
<1>1. PICK f \in Bottoms : stack = <<At(f, 2)>>
  BY DEF Init
<1>2. f \in DOMAIN Functions
  BY FunctionsType
<1>3. /\ [fn |-> f, pos |-> 2, index |-> Innermost(f, 2)] \in Frames
      /\ Innermost(f, 2) \in {0} \cup Indexes(f) /\ 2 \in Places(f)
  BY <1>2, InnermostIsNat, PlacesAre DEF Frames
<1>4. stack \in Seq(Frames) /\ Len(stack) = 1 /\ DOMAIN stack = {1} /\ stack[1].fn = f
      /\ stack[1].pos = 2 /\ stack[1].index = Innermost(f, 2)
  BY <1>1, <1>3 DEF At
<1>5. TypeOK
  <2>1. \A k \in DOMAIN stack : /\ stack[k].fn \in DOMAIN Functions
                              /\ stack[k].pos \in Places(stack[k].fn)
                              /\ stack[k].index \in {0} \cup Indexes(stack[k].fn)
    BY <1>2, <1>3, <1>4
  <2>2. Len(stack) \in 1 .. MaxDepth
    BY <1>4, FunctionsType
  <2>3. os \in {"Win32", "Linux"} /\ phase \in Running /\ frame = 0 /\ found = 0
    BY DEF Init, Running
  <2> QED  BY <2>1, <2>2, <2>3, <1>4 DEF TypeOK
<1>6. thrownIn = <<>> /\ ran = <<>> /\ DOMAIN thrownIn = {} /\ ndx = 0
  BY DEF Init
<1>7. thrownIn \in Seq(Frames) /\ ran \in Seq(Nat \X Nat)
  BY <1>6, EmptySeq
<1> QED  BY <1>4, <1>5, <1>6, <1>7 DEF Init, Types, Walk, Unwinding

\* The frames below one of the stack.
LEMMA Below ==
    ASSUME Types, NEW n \in 1 .. Top
    PROVE  LET s == SubSeq(stack, 1, n) IN
           /\ s \in Seq(Frames) /\ Len(s) = n /\ DOMAIN s = 1 .. n
           /\ \A k \in 1 .. n : s[k] = stack[k]
<1> DEFINE s == SubSeq(stack, 1, n)
<1>1. n \in Int /\ 1 \in Int /\ n >= 1 /\ \A k \in 1 .. n : stack[k] \in Frames
  BY TopIs
<1>2. /\ s \in Seq(Frames) /\ Len(s) = IF 1 <= n THEN n - 1 + 1 ELSE 0
      /\ \A i \in 1 .. n - 1 + 1 : s[i] = stack[1 + i - 1]
  BY <1>1, SubSeqProperties
<1>3. Len(s) = n /\ n - 1 + 1 = n /\ \A k \in 1 .. n : 1 + k - 1 = k
  BY <1>1, <1>2
<1>4. \A k \in 1 .. n : s[k] = stack[k]
  BY <1>2, <1>3, Zenon
<1>5. DOMAIN s = 1 .. n
  BY <1>2, <1>3, LenProperties
<1> QED  BY <1>2, <1>3, <1>4, <1>5

\* What a jump to a catch block leaves.
Jumped(s, k, c) ==
    /\ s \in Seq(Frames) /\ Len(s) = k /\ DOMAIN s = 1 .. k
    /\ \A j \in 1 .. k : j # k => s[j] = stack[j]
    /\ s[k].fn = stack[k].fn /\ s[k].pos = c
    /\ s[k].pos \in Places(s[k].fn) /\ s[k].index \in {0} \cup Indexes(s[k].fn)
    /\ s[k].index = Innermost(s[k].fn, c)

LEMMA ResumeIs ==
    ASSUME Types, NEW k \in 1 .. Top, NEW f, f = stack[k].fn, NEW i \in Indexes(f),
           NEW b \in DOMAIN Guard(f, i).catches
    PROVE  Jumped(Resume(k, f, i, b), k, Guard(f, i).catches[b].code)
<1> DEFINE c == Guard(f, i).catches[b].code
           t == SubSeq(stack, 1, k)
           s == Resume(k, f, i, b)
<1>1. f \in DOMAIN Functions /\ stack[k] \in Frames /\ k \in Nat
  BY TopIs DEF Frames
<1>2. c \in 2 .. Functions[f].size /\ Innermost(f, c) = Guard(f, i).prev
  BY <1>1, SectionsNest
<1>3. c \in Places(f) /\ c \in Nat
  <2>1. ~ Functions[f].sync
    BY <1>1, SectionIs
  <2> QED  BY <1>1, <1>2, <2>1, PlacesAre
<1>4. Guard(f, i).prev \in {0} \cup Indexes(f) /\ Guard(f, i).prev \in Nat
  BY <1>1, <1>2, <1>3, InnermostIsNat
<1>5. /\ t \in Seq(Frames) /\ Len(t) = k /\ DOMAIN t = 1 .. k
      /\ \A j \in 1 .. k : t[j] = stack[j]
  BY Below
<1>6. s = [t EXCEPT ![k] = [fn |-> f, pos |-> c, index |-> Guard(f, i).prev]]
  BY DEF Resume
<1>8. [fn |-> f, pos |-> c, index |-> Guard(f, i).prev] \in Frames
  BY <1>1, <1>3, <1>4 DEF Frames
<1>9. /\ s \in Seq(Frames) /\ Len(s) = k
      /\ \A j \in 1 .. k : s[j] = IF j = k THEN [fn |-> f, pos |-> c, index |-> Guard(f, i).prev]
                                  ELSE t[j]
  <2>1. k \in 1 .. Len(t)
    BY <1>1, <1>5
  <2> HIDE DEF t, c, s
  <2> QED  BY <1>5, <1>6, <1>8, <2>1, ExceptSeq
<1>10. DOMAIN s = 1 .. k
  BY <1>9, LenProperties
<1> HIDE DEF s
<1>11. s[k] = [fn |-> f, pos |-> c, index |-> Guard(f, i).prev]
  BY <1>1, <1>9
<1>12. \A j \in 1 .. k : j # k => s[j] = stack[j]
  BY <1>5, <1>9
<1>13. s[k].fn = f /\ s[k].pos = c /\ s[k].index = Guard(f, i).prev
  BY <1>11
<1> QED  BY <1>2, <1>3, <1>4, <1>9, <1>10, <1>12, <1>13 DEF Jumped, s

GoodFrame(r) ==
    r.fn \in DOMAIN Functions /\ r.pos \in Places(r.fn) /\ r.index \in {0} \cup Indexes(r.fn)

LEMMA AllGood == Types => \A k \in 1 .. Top : GoodFrame(stack[k])
BY TopIs DEF Types, TypeOK, GoodFrame

LEMMA GoodAt ==
    ASSUME NEW f \in DOMAIN Functions, NEW p \in Places(f)
    PROVE  GoodFrame(At(f, p)) /\ At(f, p) \in Frames
BY PlacesAre, InnermostIsNat DEF GoodFrame, At, Frames

\* The program goes on.
LEMMA GoTypes ==
    ASSUME Types, Walk, Unwinding, NEW p \in Places(stack[Top].fn), Go(p)
    PROVE  Types' /\ Walk' /\ Unwinding'
<1> DEFINE f == stack[Top].fn
<1>1. f \in DOMAIN Functions /\ p \in Nat /\ p \in 2 .. Functions[f].size
  BY TopIs, PlacesAre DEF Frames
<1>2. At(f, p) \in Frames /\ Innermost(f, p) \in {0} \cup Indexes(f)
  BY <1>1, InnermostIsNat DEF At, Frames
<1>3. /\ stack' \in Seq(Frames) /\ Len(stack') = Len(stack)
      /\ \A j \in 1 .. Len(stack) : stack'[j] = IF j = Top THEN At(f, p) ELSE stack[j]
  <2>1. stack \in Seq(Frames) /\ Top \in 1 .. Len(stack) /\ stack' = [stack EXCEPT ![Top] = At(f, p)]
    BY TopIs DEF Types, Go, Top
  <2> HIDE DEF f
  <2> QED  BY <1>2, <2>1, ExceptSeq
<1>4. DOMAIN stack' = 1 .. Len(stack) /\ DOMAIN stack = 1 .. Len(stack)
  BY <1>3, LenProperties DEF Types
<1>5. TypeOK'
  <2>1. \A j \in 1 .. Len(stack) : GoodFrame(stack'[j])
    BY <1>1, <1>3, AllGood, GoodAt DEF Top
  <2>2. \A k \in DOMAIN stack' : GoodFrame(stack'[k])
    BY <1>4, <2>1, Zenon
  <2>3. Len(stack') \in 1 .. MaxDepth /\ frame' = 0 /\ found' = 0
    BY <1>3 DEF Types, TypeOK, Go, Forget
  <2>4. os' \in {"Win32", "Linux"} /\ phase' = "running"
    BY DEF Types, TypeOK, Go
  <2>5. frame' \in 0 .. Len(stack') + 1
    BY <2>3
  <2> QED  BY <2>2, <2>3, <2>4, <2>5 DEF TypeOK, GoodFrame, Running
<1>6. thrownIn' = <<>> /\ ran' = <<>> /\ ndx' = 0 /\ phase' = "running" /\ DOMAIN thrownIn' = {}
  BY DEF Go, Forget
<1>7. thrownIn' \in Seq(Frames) /\ ran' \in Seq(Nat \X Nat)
  BY <1>6, EmptySeq
<1> QED  BY <1>3, <1>5, <1>6, <1>7 DEF Types, Walk, Unwinding

LEMMA CallTypes ==
    ASSUME Types, Walk, Unwinding, NEW f \in DOMAIN Functions, Call(f)
    PROVE  Types' /\ Walk' /\ Unwinding'
<1>1. 2 \in Places(f) /\ At(f, 2) \in Frames /\ Innermost(f, 2) \in {0} \cup Indexes(f)
  BY InnermostIsNat, PlacesAre DEF At, Frames
<1>2. /\ stack' \in Seq(Frames) /\ Len(stack') = Top + 1 /\ DOMAIN stack' = 1 .. Top + 1
      /\ \A j \in 1 .. Top : stack'[j] = stack[j]
      /\ stack'[Top + 1] = At(f, 2)
  BY <1>1, TopIs DEF Types, Call, Top
<1>3. TypeOK'
  <2>1. \A j \in 1 .. Top + 1 : GoodFrame(stack'[j])
    BY <1>1, <1>2, AllGood, GoodAt, TopIs
  <2>2. Top + 1 \in 1 .. MaxDepth
    <3>1. MaxDepth \in Nat \ {0}
      BY FunctionsType, Zenon
    <3>2. Top \in Nat \ {0} /\ Top < MaxDepth
      BY TopIs DEF Call
    <3> QED  BY <3>1, <3>2
  <2>3. \A k \in DOMAIN stack' : GoodFrame(stack'[k])
    BY <1>2, <2>1, Zenon
  <2>4. Len(stack') \in 1 .. MaxDepth /\ frame' = 0 /\ found' = 0
    BY <1>2, <2>2 DEF Types, TypeOK, Call, Forget
  <2>5. os' \in {"Win32", "Linux"} /\ phase' = "running"
    BY DEF Types, TypeOK, Call
  <2>6. frame' \in 0 .. Len(stack') + 1
    BY <2>4
  <2> QED  BY <2>3, <2>4, <2>5, <2>6 DEF TypeOK, GoodFrame, Running
<1>4. thrownIn' = <<>> /\ ran' = <<>> /\ ndx' = 0 /\ phase' = "running" /\ DOMAIN thrownIn' = {}
  BY DEF Call, Forget
<1>5. thrownIn' \in Seq(Frames) /\ ran' \in Seq(Nat \X Nat)
  BY <1>4, EmptySeq
<1> QED  BY <1>2, <1>3, <1>4, <1>5 DEF Types, Walk, Unwinding

LEMMA ReturnTypes ==
    ASSUME Types, Walk, Unwinding, Return
    PROVE  Types' /\ Walk' /\ Unwinding'
<1>1. Top - 1 \in 1 .. Top
  BY TopIs DEF Return
<1>2. /\ stack' \in Seq(Frames) /\ Len(stack') = Top - 1 /\ DOMAIN stack' = 1 .. Top - 1
      /\ \A j \in 1 .. Top - 1 : stack'[j] = stack[j]
  BY <1>1, Below DEF Return
<1>3. TypeOK'
  <2>1. \A j \in 1 .. Top - 1 : GoodFrame(stack'[j])
    BY <1>1, <1>2, AllGood, TopIs
  <2>2. Top - 1 \in 1 .. MaxDepth
    BY <1>1, TopIs, FunctionsType DEF Types, TypeOK, Top
  <2>3. \A k \in DOMAIN stack' : GoodFrame(stack'[k])
    BY <1>2, <2>1, Zenon
  <2>4. Len(stack') \in 1 .. MaxDepth /\ frame' = 0 /\ found' = 0
    BY <1>2, <2>2 DEF Types, TypeOK, Return, Forget
  <2>5. os' \in {"Win32", "Linux"} /\ phase' = "running"
    BY DEF Types, TypeOK, Return
  <2>6. frame' \in 0 .. Len(stack') + 1
    BY <2>4
  <2> QED  BY <2>3, <2>4, <2>5, <2>6 DEF TypeOK, GoodFrame, Running
<1>4. thrownIn' = <<>> /\ ran' = <<>> /\ ndx' = 0 /\ phase' = "running" /\ DOMAIN thrownIn' = {}
  BY DEF Return, Forget
<1>5. thrownIn' \in Seq(Frames) /\ ran' \in Seq(Nat \X Nat)
  BY <1>4, EmptySeq
<1> QED  BY <1>2, <1>3, <1>4, <1>5 DEF Types, Walk, Unwinding

LEMMA ThrowTypes ==
    ASSUME Types, Walk, Unwinding, NEW e \in Exceptional, _d_throw(e)
    PROVE  Types' /\ Walk' /\ Unwinding'
<1>1. TypeOK'
  BY TopIs DEF Types, TypeOK, _d_throw, Top
<1>2. /\ thrownIn' \in Seq(Frames) /\ stack' \in Seq(Frames) /\ ndx' \in Nat
      /\ \A k \in DOMAIN thrownIn' : thrownIn'[k].pos \in 2 .. Functions[thrownIn'[k].fn].size
  BY PlacesAre DEF Types, TypeOK, _d_throw
<1>3. ran' \in Seq(Nat \X Nat)
  BY EmptySeq DEF _d_throw
<1>4. Walk'
  <2>1. os = "Linux" => e.code = Mars
    BY DEF Exceptional
  <2> QED  BY <2>1, TopIs DEF _d_throw, Walk, Top
<1> QED  BY <1>1, <1>2, <1>3, <1>4 DEF Types, _d_throw, Unwinding

\* Handlers of Win32.
LEMMA FirstIndexIs ==
    ASSUME Types, NEW k \in 1 .. Top
    PROVE  /\ FirstIndex(k) \in {0} \cup Indexes(stack[k].fn) /\ FirstIndex(k) \in Nat
           /\ stack[k].fn \in DOMAIN Functions
<1>1. GoodFrame(stack[k])
  BY AllGood
<1> QED  BY <1>1, IndexesAre DEF FirstIndex, GoodFrame

LEMMA NextHandlerTypes ==
    ASSUME Types, Walk, Unwinding, NextHandler
    PROVE  Types' /\ Walk' /\ Unwinding'
<1>1. frame - 1 \in 1 .. Top /\ frame - 1 <= Len(stack) /\ thrownIn = stack
  BY TopIs DEF NextHandler, Walk, Top
<1>2. /\ FirstIndex(frame - 1) \in {0} \cup Indexes(stack[frame - 1].fn)
      /\ FirstIndex(frame - 1) \in Nat /\ stack[frame - 1].fn \in DOMAIN Functions
  BY <1>1, FirstIndexIs
<1>3. Types'
  BY <1>1, <1>2, TopIs DEF Types, TypeOK, NextHandler, Top
<1>4. Walk'
  BY <1>1, <1>2, TopIs, FunctionIsNat DEF Walk, NextHandler, Top
<1> QED  BY <1>3, <1>4 DEF Unwinding, NextHandler

LEMMA SearchTypes ==
    ASSUME Types, Walk, Unwinding, Search
    PROVE  Types' /\ Walk' /\ Unwinding'
<1>1. found \in DOMAIN Functions /\ ndx \in Indexes(found) /\ found = stack[frame].fn
  BY DEF Types, TypeOK, Walk, Search
<1>2. Guard(found, ndx).prev \in {0} \cup Indexes(found) /\ Guard(found, ndx).prev \in Nat
  BY <1>1, SectionIs, IndexesAre
<1>3. Types'
  BY <1>2 DEF Types, TypeOK, Search
<1>4. Walk'
  BY <1>1, <1>2 DEF Walk, Search
<1> QED  BY <1>3, <1>4 DEF Unwinding, Search

LEMMA FindTypes ==
    ASSUME Types, Walk, Unwinding, Find
    PROVE  Types' /\ Walk' /\ Unwinding'
<1>1. /\ found \in DOMAIN Functions /\ ndx \in Indexes(found) /\ found = stack[frame].fn
      /\ frame \in 1 .. Top /\ thrownIn = stack
  BY TopIs DEF Types, TypeOK, Walk, Find, Top, Frames
<1>2. FirstFit(found, ndx, ClassOf(thrown)) \in DOMAIN Guard(found, ndx).catches
  BY <1>1, FirstFitIs DEF Find
<1>3. Top \in 1 .. Top /\ Top = Len(stack)
  BY TopIs DEF Top
<1>4. /\ FirstIndex(Top) \in {0} \cup Indexes(stack[Top].fn) /\ FirstIndex(Top) \in Nat
      /\ stack[Top].fn \in DOMAIN Functions
  BY <1>3, FirstIndexIs
<1>5. Types'
  BY <1>3, <1>4, TopIs DEF Types, TypeOK, Find
<1>6. Walk'
  BY DEF Walk, Find
<1>7. Unwinding'
  BY <1>1, <1>2, <1>3, <1>4 DEF Unwinding, Find
<1> QED  BY <1>5, <1>6, <1>7

LEMMA RanGrows ==
    ASSUME Types, NEW i \in Nat
    PROVE  Append(ran, <<frame, i>>) \in Seq(Nat \X Nat)
BY DEF Types, TypeOK

LEMMA LocalUnwindTypes ==
    ASSUME Types, Walk, Unwinding, _d_local_unwind
    PROVE  Types' /\ Walk' /\ Unwinding'
<1>1. /\ found \in DOMAIN Functions /\ ndx \in Indexes(found) /\ found = stack[frame].fn
      /\ frame = Top /\ ndx \in Nat
  BY FunctionIsNat, TopIs, AllGood, IndexesAre
     DEF Types, TypeOK, Unwinding, _d_local_unwind, Top, GoodFrame
<1>2. Guard(found, ndx).prev \in {0} \cup Indexes(found) /\ Guard(found, ndx).prev \in Nat
  BY <1>1, SectionIs, IndexesAre
<1>3. ran' \in Seq(Nat \X Nat)
  BY <1>1, RanGrows DEF Types, _d_local_unwind
<1>4. Types'
  BY <1>2, <1>3 DEF Types, TypeOK, _d_local_unwind
<1>5. Walk'
  BY DEF Walk, _d_local_unwind
<1>6. Unwinding'
  BY <1>1, <1>2 DEF Unwinding, _d_local_unwind
<1> QED  BY <1>4, <1>5, <1>6

LEMMA UnlinkTypes ==
    ASSUME Types, Walk, Unwinding, Unlink
    PROVE  Types' /\ Walk' /\ Unwinding'
<1>1. frame = Top /\ frame - 1 \in 1 .. Top /\ frame \in Nat
  BY TopIs DEF Unwinding, Unlink, Top
<1>2. /\ stack' \in Seq(Frames) /\ Len(stack') = frame - 1 /\ DOMAIN stack' = 1 .. frame - 1
      /\ \A j \in 1 .. frame - 1 : stack'[j] = stack[j]
  BY <1>1, Below DEF Unlink
<1>3. /\ FirstIndex(frame - 1) \in {0} \cup Indexes(stack[frame - 1].fn)
      /\ FirstIndex(frame - 1) \in Nat /\ stack[frame - 1].fn \in DOMAIN Functions
  BY <1>1, FirstIndexIs
<1>4. ran' \in Seq(Nat \X Nat)
  BY RanGrows DEF Types, Unlink, _d_monitor_handler
<1>5. Types'
  <2>1. \A j \in 1 .. frame - 1 : GoodFrame(stack'[j])
    BY <1>1, <1>2, AllGood, TopIs
  <2>2. \A k \in DOMAIN stack' : GoodFrame(stack'[k])
    BY <1>2, <2>1, Zenon
  <2>3. Len(stack') \in 1 .. MaxDepth /\ frame' \in 0 .. Len(stack') + 1
    BY <1>1, <1>2, FunctionsType DEF Types, TypeOK, Unlink, Top
  <2>4. os' \in {"Win32", "Linux"} /\ phase' = "unwind" /\ found' \in DOMAIN Functions
    BY <1>3 DEF Types, TypeOK, Unlink
  <2>5. TypeOK'
    BY <2>2, <2>3, <2>4 DEF TypeOK, GoodFrame
  <2> QED  BY <1>2, <1>3, <1>4, <2>5 DEF Types, Unlink
<1>6. Walk'
  BY DEF Walk, Unlink
<1>7. Unwinding'
  <2>1. target.frame \in 1 .. frame - 1
    BY <1>1 DEF Unwinding, Unlink
  <2>2. /\ frame' = Len(stack') /\ found' = stack'[frame'].fn /\ frame' <= Len(thrownIn)
        /\ \A k \in 1 .. frame' : stack'[k] = thrownIn[k]
    BY <1>1, <1>2, TopIs DEF Unwinding, Unlink
  <2>3. ndx' \in {0} \cup Indexes(found')
    BY <1>1, <1>2, <1>3 DEF Unlink
  <2> QED  BY <2>1, <2>2, <2>3 DEF Unwinding, Unlink
<1> QED  BY <1>5, <1>6, <1>7

LEMMA EnterCatchTypes ==
    ASSUME Types, Walk, Unwinding, EnterCatch
    PROVE  /\ Types' /\ Walk' /\ Unwinding'
           /\ Jumped(stack', frame, Guard(found, target.ndx).catches[target.block].code)
           /\ \A j \in 1 .. Top' : j # frame => stack'[j] = stack[j]
           /\ stack'[frame].index = Innermost(stack'[frame].fn, stack'[frame].pos)
<1>1. /\ frame \in 1 .. Top /\ frame = Top /\ found = stack[frame].fn
      /\ stack[frame] = thrownIn[frame]
      /\ target.frame = frame /\ target.ndx \in Indexes(found)
      /\ target.block \in DOMAIN Guard(found, target.ndx).catches
  BY TopIs DEF Unwinding, EnterCatch, Top
<1>2. stack' = Resume(frame, found, target.ndx, target.block)
  BY DEF EnterCatch
<1>3. Jumped(stack', frame, Guard(found, target.ndx).catches[target.block].code)
  BY <1>1, <1>2, ResumeIs, Zenon
<1>4. /\ stack' \in Seq(Frames) /\ Len(stack') = frame /\ DOMAIN stack' = 1 .. frame
      /\ \A j \in 1 .. frame : j # frame => stack'[j] = stack[j]
      /\ stack'[frame].fn = found
      /\ stack'[frame].pos \in Places(found) /\ stack'[frame].index \in {0} \cup Indexes(found)
      /\ stack'[frame].index = Innermost(found, stack'[frame].pos)
  BY <1>1, <1>3 DEF Jumped
<1>5. \A j \in 1 .. frame : GoodFrame(stack'[j])
  <2>1. GoodFrame(stack'[frame])
    BY <1>1, <1>4, AllGood DEF GoodFrame
  <2> QED  BY <1>1, <1>4, <2>1, AllGood
<1>6. TypeOK'
  <2>1. \A k \in DOMAIN stack' : GoodFrame(stack'[k])
    BY <1>4, <1>5, Zenon
  <2>2. Len(stack') \in 1 .. MaxDepth /\ frame' \in 0 .. Len(stack') + 1
    <3>1. frame \in 1 .. Len(stack) /\ Len(stack) \in 1 .. MaxDepth
      BY <1>1 DEF Types, TypeOK, Top
    <3>2. Len(stack') = frame /\ frame' = frame
      BY <1>4 DEF EnterCatch
    <3>3. MaxDepth \in Nat
      BY FunctionsType
    <3> QED
      BY <3>1, <3>2, <3>3
  <2>3. os' \in {"Win32", "Linux"} /\ phase' = "caught" /\ found' \in {0} \cup DOMAIN Functions
    BY DEF Types, TypeOK, EnterCatch
  <2> QED  BY <2>1, <2>2, <2>3 DEF TypeOK, GoodFrame, Running
<1> QED  BY <1>1, <1>3, <1>4, <1>6 DEF Types, Walk, Unwinding, EnterCatch, Top

\* Linux.
LEMMA FindCallerTypes ==
    ASSUME Types, Walk, Unwinding, FindCaller
    PROVE  /\ Types' /\ Walk' /\ Unwinding'
           /\ LET f == stack[frame - 1].fn
                  p == stack[frame - 1].pos
              IN  ndx' = Innermost(f, p)
<1> DEFINE f == stack[frame - 1].fn
           p == stack[frame - 1].pos
           a == Address[f] + p + 1
           g == __eh_finddata(a)
           n == StartIndex(g, a)
<1>1. frame - 1 \in 1 .. Top /\ frame - 1 <= Len(stack) /\ thrownIn = stack /\ frame \in Nat
      /\ os = "Linux" /\ phase = "search" /\ thrown.code = Mars
  BY TopIs DEF FindCaller, Walk, Top
<1>2. GoodFrame(stack[frame - 1])
  BY <1>1, AllGood
<1>3. f \in DOMAIN Functions /\ p \in 2 .. Functions[f].size
  BY <1>2, PlacesAre DEF GoodFrame
<1>4. found' = g /\ ndx' = n
  BY DEF FindCaller
<1>5. /\ g \in {0} \cup DOMAIN Functions
      /\ n # 0 => g = f
      /\ n = Innermost(f, p)
  BY <1>3, Lookup, Zenon
<1> HIDE DEF g, n
<1>6. n \in Nat /\ n \in {0} \cup Indexes(f)
  BY <1>3, <1>5, InnermostIsNat
<1>7. TypeOK'
  BY <1>1, <1>4, <1>5, TopIs DEF Types, TypeOK, FindCaller, Top
<1>8. Types'
  BY <1>4, <1>6, <1>7 DEF Types, FindCaller
<1>9. Walk'
  <2>1. frame' = frame - 1 /\ stack' = stack /\ thrownIn' = stack /\ os' = "Linux" /\ thrown' = thrown
    BY <1>1 DEF FindCaller
  <2>2. frame' \in 1 .. Len(stack') + 1 /\ frame' <= Len(stack')
    BY <1>1, <2>1 DEF Top
  <2>3. ndx' # 0 => ndx' \in Indexes(found') /\ found' = stack'[frame'].fn
    BY <1>4, <1>5, <1>6, <2>1
  <2> QED  BY <1>1, <2>1, <2>2, <2>3 DEF Walk
<1>10. Unwinding'
  BY DEF Unwinding, FindCaller
<1> QED  BY <1>4, <1>5, <1>8, <1>9, <1>10

LEMMA WalkTableTypes ==
    ASSUME Types, Walk, Unwinding, WalkTable
    PROVE  Types' /\ Walk' /\ Unwinding'
<1>1. /\ found \in DOMAIN Functions /\ ndx \in Indexes(found) /\ found = stack[frame].fn
      /\ ndx \in Nat
  BY TopIs DEF Types, TypeOK, Walk, WalkTable, Frames, Top
<1>2. Guard(found, ndx).prev \in {0} \cup Indexes(found) /\ Guard(found, ndx).prev \in Nat
  BY <1>1, SectionIs, IndexesAre
<1>3. ran' \in Seq(Nat \X Nat)
  BY <1>1, RanGrows DEF Types, WalkTable
<1>4. Types'
  BY <1>2, <1>3 DEF Types, TypeOK, WalkTable
<1>5. Walk'
  BY <1>1, <1>2 DEF Walk, WalkTable
<1> QED  BY <1>4, <1>5 DEF Unwinding, WalkTable

LEMMA CatchHereTypes ==
    ASSUME Types, Walk, Unwinding, CatchHere
    PROVE  /\ Types' /\ Walk' /\ Unwinding'
           /\ frame \in 1 .. Top /\ thrownIn = stack /\ thrown.code = Mars
           /\ found = stack[frame].fn /\ found \in DOMAIN Functions /\ ndx \in Indexes(found)
<1>1. /\ found \in DOMAIN Functions /\ ndx \in Indexes(found) /\ found = stack[frame].fn
  BY TopIs DEF Types, TypeOK, Walk, CatchHere, Frames, Top
<1>3. /\ frame \in 1 .. Top /\ thrownIn = stack /\ thrown.code = Mars
  BY TopIs DEF CatchHere, Walk, Top
<1>5. CatchBlock \in DOMAIN Guard(found, ndx).catches
  BY <1>1, FirstFitIs DEF CatchHere, CatchBlock
<1>6. Jumped(stack', frame, Guard(found, ndx).catches[CatchBlock].code)
  <2>1. stack' = Resume(frame, found, ndx, CatchBlock)
    BY DEF CatchHere
  <2> QED  BY <1>1, <1>3, <1>5, <2>1, ResumeIs, Zenon
<1>7. /\ stack' \in Seq(Frames) /\ Len(stack') = frame /\ DOMAIN stack' = 1 .. frame
      /\ \A j \in 1 .. frame : j # frame => stack'[j] = stack[j]
      /\ stack'[frame].fn = found
      /\ stack'[frame].pos \in Places(found) /\ stack'[frame].index \in {0} \cup Indexes(found)
  BY <1>1, <1>6 DEF Jumped
<1>8. \A j \in 1 .. frame : GoodFrame(stack'[j])
  <2>1. GoodFrame(stack'[frame])
    BY <1>1, <1>7 DEF GoodFrame
  <2> QED  BY <1>3, <1>7, <2>1, AllGood, TopIs
<1>9. TypeOK'
  <2>1. \A k \in DOMAIN stack' : GoodFrame(stack'[k])
    BY <1>7, <1>8, Zenon
  <2>2. Len(stack') \in 1 .. MaxDepth /\ frame' \in 0 .. Len(stack') + 1
    <3>1. frame \in 1 .. Len(stack) /\ Len(stack) \in 1 .. MaxDepth
      BY <1>3 DEF Types, TypeOK, Top
    <3>2. Len(stack') = frame /\ frame' = frame
      BY <1>7 DEF CatchHere
    <3>3. MaxDepth \in Nat
      BY FunctionsType
    <3> QED
      BY <3>1, <3>2, <3>3
  <2>3. os' \in {"Win32", "Linux"} /\ phase' = "caught" /\ found' \in {0} \cup DOMAIN Functions
    BY DEF Types, TypeOK, CatchHere
  <2> QED  BY <2>1, <2>2, <2>3 DEF TypeOK, GoodFrame, Running
<1> QED  BY <1>1, <1>3, <1>7, <1>9 DEF Types, Walk, Unwinding, CatchHere

LEMMA GiveUpTypes ==
    ASSUME Types, Walk, Unwinding, GiveUp
    PROVE  Types' /\ Walk' /\ Unwinding'
BY DEF Types, TypeOK, Walk, Unwinding, GiveUp

LEMMA NextTypes == Types /\ Walk /\ Unwinding /\ [Next]_vars => Types' /\ Walk' /\ Unwinding'
<1> SUFFICES ASSUME Types, Walk, Unwinding, [Next]_vars PROVE Types' /\ Walk' /\ Unwinding'
  OBVIOUS
<1>1. CASE \E p \in Places(stack[Top].fn) : Go(p)
  BY <1>1, GoTypes
<1>2. CASE \E f \in DOMAIN Functions : Call(f)
  BY <1>2, CallTypes
<1>3. CASE Return
  BY <1>3, ReturnTypes
<1>4. CASE \E e \in Exceptional : _d_throw(e)
  BY <1>4, ThrowTypes
<1>5. CASE Handle
  BY <1>5, NextHandlerTypes, SearchTypes, FindTypes, LocalUnwindTypes, UnlinkTypes,
     EnterCatchTypes, FindCallerTypes, WalkTableTypes, CatchHereTypes, GiveUpTypes DEF Handle
<1>6. CASE UNCHANGED vars
  BY <1>6 DEF vars, Types, TypeOK, Walk, Unwinding
<1> QED  BY <1>1, <1>2, <1>3, <1>4, <1>5, <1>6 DEF Next

\* What is on the stack and where the walk is, is always of its type.
THEOREM TypeCorrect == Spec => []TypeOK
<1>1. Init => Types /\ Walk /\ Unwinding
  BY InitTypes
<1>2. Types /\ Walk /\ Unwinding /\ [Next]_vars => (Types /\ Walk /\ Unwinding)'
  BY NextTypes
<1>3. Types => TypeOK
  BY DEF Types
<1> QED  BY <1>1, <1>2, <1>3, PTL DEF Spec

-----------------------------------------------------------------------------
(* table_index                                                             *)

IndexKept ==
    os = "Win32" =>
        \A k \in 1 .. Top : stack[k].index = Innermost(stack[k].fn, stack[k].pos)

LEMMA InitIndex == Init => IndexKept
<1> SUFFICES ASSUME Init PROVE IndexKept
  OBVIOUS
<1>1. PICK f \in Bottoms : stack = <<At(f, 2)>>
  BY DEF Init
<1> QED  BY <1>1 DEF At, IndexKept, Top

LEMMA NextIndex ==
    ASSUME Types, Walk, Unwinding, IndexKept, [Next]_vars
    PROVE  IndexKept'
<1>1. ASSUME NEW p \in Places(stack[Top].fn), Go(p) PROVE IndexKept'
  <2>1. /\ stack \in Seq(Frames) /\ At(stack[Top].fn, p) \in Frames /\ Top \in 1 .. Top
        /\ stack' = [stack EXCEPT ![Top] = At(stack[Top].fn, p)] /\ os' = os
    BY <1>1, TopIs, GoodAt DEF Types, Go, Frames
  <2>2. /\ Len(stack') = Len(stack)
        /\ \A j \in 1 .. Len(stack) :
              stack'[j] = IF j = Top THEN At(stack[Top].fn, p) ELSE stack[j]
    BY <2>1, ExceptSeq DEF Top
  <2> QED  BY <2>1, <2>2 DEF IndexKept, At, Top
<1>2. ASSUME NEW f \in DOMAIN Functions, Call(f) PROVE IndexKept'
  <2>1. At(f, 2) \in Frames
    BY PlacesAre, GoodAt
  <2>2. /\ Top' = Top + 1 /\ os' = os
        /\ \A j \in 1 .. Top : stack'[j] = stack[j]
        /\ stack'[Top + 1] = At(f, 2)
    BY <1>2, <2>1, TopIs DEF Types, Call, Top
  <2> QED  BY <2>2, TopIs DEF IndexKept, At
<1>3. ASSUME Return PROVE IndexKept'
  <2>1. Top - 1 \in 1 .. Top
    BY <1>3, TopIs DEF Return
  <2>2. Top' = Top - 1 /\ os' = os /\ \A j \in 1 .. Top - 1 : stack'[j] = stack[j]
    BY <1>3, <2>1, Below DEF Return, Top
  <2> QED  BY <2>1, <2>2, TopIs DEF IndexKept
<1>4. ASSUME Unlink PROVE IndexKept'
  <2>1. frame = Top /\ frame - 1 \in 1 .. Top
    BY <1>4, TopIs DEF Unwinding, Unlink, Top
  <2>2. Top' = Top - 1 /\ os' = os /\ \A j \in 1 .. Top - 1 : stack'[j] = stack[j]
    BY <1>4, <2>1, Below DEF Unlink, Top
  <2> QED  BY <2>1, <2>2, TopIs DEF IndexKept
<1>5. ASSUME EnterCatch PROVE IndexKept'
  <2>1. /\ \A j \in 1 .. Top' : j # frame => stack'[j] = stack[j]
        /\ stack'[frame].index = Innermost(stack'[frame].fn, stack'[frame].pos)
    BY <1>5, EnterCatchTypes
  <2>2. Top' = Top /\ os' = os
    <3>1. Jumped(stack', frame, Guard(found, target.ndx).catches[target.block].code)
      BY <1>5, EnterCatchTypes
    <3> QED  BY <1>5, <3>1 DEF Jumped, EnterCatch, Unwinding, Top
  <2> QED  BY <2>1, <2>2 DEF IndexKept
<1>6. ASSUME os = "Linux", Handle PROVE IndexKept'
  BY <1>6 DEF IndexKept, Handle, NextHandler, Search, Find, _d_local_unwind, Unlink, EnterCatch,
              FindCaller, WalkTable, CatchHere, GiveUp
<1>7. ASSUME UNCHANGED <<os, stack>> PROVE IndexKept'
  BY <1>7 DEF IndexKept, Top
<1>8. CASE Handle
  <2>1. CASE NextHandler \/ Search \/ Find \/ _d_local_unwind \/ FindCaller \/ WalkTable \/ GiveUp
    BY <2>1, <1>7 DEF NextHandler, Search, Find, _d_local_unwind, FindCaller, WalkTable, GiveUp
  <2>2. CASE CatchHere
    BY <2>2, <1>8, <1>6 DEF CatchHere
  <2> QED  BY <1>4, <1>5, <1>8, <2>1, <2>2 DEF Handle
<1>9. CASE \E e \in Exceptional : _d_throw(e)
  BY <1>9, <1>7 DEF _d_throw
<1>10. CASE UNCHANGED vars
  BY <1>10, <1>7 DEF vars
<1> QED  BY <1>1, <1>2, <1>3, <1>8, <1>9, <1>10 DEF Next

\* At every place that the program can be at, in a catch block too that was jumped to,
\* table_index is the innermost section around it.
THEOREM TableIndexRight == Spec => []IndexRight
<1> DEFINE I == Types /\ Walk /\ Unwinding /\ IndexKept
<1>1. Init => I
  BY InitTypes, InitIndex
<1>2. I /\ [Next]_vars => I'
  BY NextTypes, NextIndex
<1>3. I => IndexRight
  BY TopIs DEF IndexKept, IndexRight
<1> HIDE DEF I
<1> QED  BY <1>1, <1>2, <1>3, PTL DEF Spec

-----------------------------------------------------------------------------
(* The walk through the sections around a throw, by its stack s            *)

InScope(s, k, i) ==
    k \in 1 .. Len(s) /\ i \in Indexes(s[k].fn) /\ Covers(s[k].fn, i, s[k].pos)

ScopesOf(s) == {x \in Nat \X Nat : InScope(s, x[1], x[2])}

\* The exception fits a catch block of section i of frame k.
Fits(s, e, k, i) == FirstFit(s[k].fn, i, ClassOf(e)) # 0

\* No section inside section l of frame f does.
NoneInside(s, e, f, l) ==
    \A k, i \in Nat : InScope(s, k, i) /\ Fits(s, e, k, i) => k < f \/ (k = f /\ i <= l)

\* The finally blocks inside section l of frame f.
Finals(s, f, l) ==
    {x \in ScopesOf(s) : Guard(s[x[1]].fn, x[2]).finally /\ (x[1] > f \/ (x[1] = f /\ x[2] > l))}

RanAre(r, S) ==
    /\ {r[a] : a \in DOMAIN r} = S
    /\ \A a, b \in DOMAIN r : a < b => Inside(r[a], r[b])

LEMMA PairIs ==
    ASSUME NEW x \in Nat \X Nat, NEW f, NEW l
    PROVE  x = <<f, l>> <=> x[1] = f /\ x[2] = l
<1>1. PICK a \in Nat, b \in Nat : x = <<a, b>>
  OBVIOUS
<1> QED  BY <1>1

LEMMA FrameIs ==
    ASSUME NEW s \in Seq(Frames), NEW k \in 1 .. Len(s)
    PROVE  /\ s[k] \in Frames /\ s[k].fn \in DOMAIN Functions /\ s[k].pos \in Nat
           /\ Len(s) \in Nat /\ k \in Nat
           /\ Indexes(s[k].fn) \in SUBSET (Nat \ {0})
<1>1. s[k] \in Frames /\ Len(s) \in Nat
  BY ElementOfSeq, LenProperties
<1>2. s[k].fn \in DOMAIN Functions /\ s[k].pos \in Nat
  BY <1>1 DEF Frames
<1> QED  BY <1>1, <1>2, IndexesAre

\* A frame is entered at the innermost section ...
LEMMA EnterFrame ==
    ASSUME NEW s \in Seq(Frames), NEW e, NEW f \in 1 .. Len(s),
           NEW l, l = Innermost(s[f].fn, s[f].pos)
    PROVE  /\ l # 0 => InScope(s, f, l)
           /\ NoneInside(s, e, f + 1, 0) => NoneInside(s, e, f, l)
           /\ Finals(s, f, l) = Finals(s, f + 1, 0)
<1>1. /\ l \in {0} \cup Indexes(s[f].fn)
      /\ l # 0 => Covers(s[f].fn, l, s[f].pos)
      /\ \A i \in Indexes(s[f].fn) : Covers(s[f].fn, i, s[f].pos) => i <= l
  BY FrameIs, InnermostIs
<1>2. l # 0 => InScope(s, f, l)
  BY <1>1 DEF InScope
<1>3. \A k, i \in Nat : InScope(s, k, i) => i > 0 /\ (k = f => i <= l)
  <2> SUFFICES ASSUME NEW k \in Nat, NEW i \in Nat, InScope(s, k, i)
               PROVE  i > 0 /\ (k = f => i <= l)
    OBVIOUS
  <2>1. k \in 1 .. Len(s) /\ i \in Indexes(s[k].fn) /\ Covers(s[k].fn, i, s[k].pos)
    BY DEF InScope
  <2>2. i > 0
    <3>1. Indexes(s[k].fn) \in SUBSET (Nat \ {0})
      BY <2>1, FrameIs, Zenon
    <3> QED  BY <2>1, <3>1
  <2>3. k = f => i <= l
    BY <1>1, <2>1
  <2> QED  BY <2>2, <2>3
<1>4. l \in Nat /\ f \in Nat
  BY <1>1, FrameIs
<1>5. ASSUME NoneInside(s, e, f + 1, 0) PROVE NoneInside(s, e, f, l)
  <2> SUFFICES ASSUME NEW k \in Nat, NEW i \in Nat, InScope(s, k, i), Fits(s, e, k, i)
               PROVE  k < f \/ (k = f /\ i <= l)
    BY DEF NoneInside
  <2>1. k < f + 1 \/ (k = f + 1 /\ i <= 0)
    BY <1>5 DEF NoneInside
  <2> QED  BY <1>3, <1>4, <2>1
<1>6. Finals(s, f, l) = Finals(s, f + 1, 0)
  <2>1. \A x \in ScopesOf(s) : x[1] \in Nat /\ x[2] \in Nat /\ x[2] > 0 /\ (x[1] = f => x[2] <= l)
    BY <1>3 DEF ScopesOf
  <2>2. \A x \in ScopesOf(s) : (x[1] > f \/ (x[1] = f /\ x[2] > l)) <=>
                               (x[1] > f + 1 \/ (x[1] = f + 1 /\ x[2] > 0))
    BY <1>4, <2>1
  <2> QED  BY <2>2 DEF Finals
<1> QED  BY <1>2, <1>5, <1>6

\* ... but for that of a synchronized function on Win32, which catches nothing.
LEMMA EnterSync ==
    ASSUME NEW s \in Seq(Frames), NEW e, NEW f \in 1 .. Len(s), Functions[s[f].fn].sync,
           NoneInside(s, e, f + 1, 0)
    PROVE  NoneInside(s, e, f, 0)
<1>1. \A i \in Indexes(s[f].fn) : ~ Fits(s, e, f, i)
  <2> SUFFICES ASSUME NEW i \in Indexes(s[f].fn) PROVE ~ Fits(s, e, f, i)
    OBVIOUS
  <2>1. DOMAIN Guard(s[f].fn, i).catches = {}
    BY FrameIs, SectionIs
  <2> QED  BY <2>1, FrameIs, FirstFitIs DEF Fits
<1>2. \A k, i \in Nat : InScope(s, k, i) => i > 0 /\ (k = f => ~ Fits(s, e, k, i))
  <2> SUFFICES ASSUME NEW k \in Nat, NEW i \in Nat, InScope(s, k, i)
               PROVE  i > 0 /\ (k = f => ~ Fits(s, e, k, i))
    OBVIOUS
  <2>1. k \in 1 .. Len(s) /\ i \in Indexes(s[k].fn)
    BY DEF InScope
  <2>2. i > 0
    <3>1. Indexes(s[k].fn) \in SUBSET (Nat \ {0})
      BY <2>1, FrameIs, Zenon
    <3> QED  BY <2>1, <3>1
  <2> QED  BY <1>1, <2>1, <2>2
<1> QED  BY <1>2, FrameIs DEF NoneInside

\* From a section to the one around it.
LEMMA WalkOut ==
    ASSUME NEW s \in Seq(Frames), NEW e, NEW f, NEW l, InScope(s, f, l),
           NEW prev, prev = Guard(s[f].fn, l).prev
    PROVE  /\ prev \in Nat
           /\ prev # 0 => InScope(s, f, prev)
           /\ NoneInside(s, e, f, l) /\ ~ Fits(s, e, f, l) => NoneInside(s, e, f, prev)
           /\ Finals(s, f, prev) =
                Finals(s, f, l) \cup IF Guard(s[f].fn, l).finally THEN {<<f, l>>} ELSE {}
<1>1. f \in 1 .. Len(s) /\ l \in Indexes(s[f].fn) /\ Covers(s[f].fn, l, s[f].pos)
  BY DEF InScope
<1>2. s[f].fn \in DOMAIN Functions /\ s[f].pos \in Nat /\ f \in Nat
      /\ Indexes(s[f].fn) \in SUBSET (Nat \ {0})
  BY <1>1, FrameIs
<1>3. /\ prev \in {0} \cup Indexes(s[f].fn) /\ prev < l
      /\ prev # 0 => Covers(s[f].fn, prev, s[f].pos)
      /\ \A j \in Indexes(s[f].fn) : j < l /\ Covers(s[f].fn, j, s[f].pos) => j <= prev
  BY <1>1, <1>2, SectionIs
<1>4. prev \in Nat /\ l \in Nat
  BY <1>1, <1>2, <1>3
<1>5. prev # 0 => InScope(s, f, prev)
  BY <1>1, <1>3 DEF InScope
<1>6. \A i \in Nat : InScope(s, f, i) => (i > prev <=> i > l \/ i = l)
  BY <1>2, <1>3, <1>4 DEF InScope
<1>7. NoneInside(s, e, f, l) /\ ~ Fits(s, e, f, l) => NoneInside(s, e, f, prev)
  BY <1>4, <1>6 DEF NoneInside
<1>8. Finals(s, f, prev) = Finals(s, f, l) \cup IF Guard(s[f].fn, l).finally THEN {<<f, l>>} ELSE {}
  <2>1. \A x \in ScopesOf(s) :
           /\ x \in Nat \X Nat /\ x[1] \in Nat
           /\ x[1] = f => (x[2] > prev <=> x[2] > l \/ x[2] = l)
    BY <1>6 DEF ScopesOf
  <2>2. <<f, l>> \in ScopesOf(s)
    BY <1>2, <1>4 DEF ScopesOf
  <2>3. \A x \in ScopesOf(s) : (x[1] > f \/ (x[1] = f /\ x[2] > prev)) <=>
                               (x[1] > f \/ (x[1] = f /\ x[2] > l)) \/ x = <<f, l>>
    <3> SUFFICES ASSUME NEW x \in ScopesOf(s)
                 PROVE  (x[1] > f \/ (x[1] = f /\ x[2] > prev)) <=>
                        (x[1] > f \/ (x[1] = f /\ x[2] > l)) \/ x = <<f, l>>
      OBVIOUS
    <3>1. x = <<f, l>> <=> x[1] = f /\ x[2] = l
      BY <2>1, PairIs
    <3>2. x[1] = f => (x[2] > prev <=> x[2] > l \/ x[2] = l)
      BY <2>1
    <3>3. x[1] \in Nat /\ (x[1] > f => x[1] # f)
      BY <1>2, <2>1
    <3> QED  BY <3>1, <3>2, <3>3
  <2> DEFINE Fin(x) == Guard(s[x[1]].fn, x[2]).finally
             L == <<f, l>>
  <2>4. L[1] = f /\ L[2] = l
    OBVIOUS
  <2>5. Fin(L) = Guard(s[f].fn, l).finally
    BY <2>4
  <2>6. \A x : x \in Finals(s, f, prev) <=> x \in Finals(s, f, l) \/ (Fin(L) /\ x = L)
    BY <2>2, <2>3 DEF Finals
  <2> QED  BY <2>5, <2>6
<1> QED  BY <1>4, <1>5, <1>7, <1>8

\* Beyond the last frame there is nothing.
LEMMA Beyond ==
    ASSUME NEW s \in Seq(Frames), NEW e
    PROVE  NoneInside(s, e, Len(s) + 1, 0) /\ Finals(s, Len(s) + 1, 0) = {}
<1>1. Len(s) \in Nat
  BY LenProperties
<1>2. \A k, i \in Nat : InScope(s, k, i) => k < Len(s) + 1
  BY <1>1 DEF InScope
<1>3. \A x \in ScopesOf(s) : x[1] \in Nat /\ x[1] < Len(s) + 1
  BY <1>2 DEF ScopesOf
<1> QED  BY <1>1, <1>2, <1>3 DEF NoneInside, Finals

\* The one section of a synchronized function.
LEMMA SyncFinals ==
    ASSUME NEW s \in Seq(Frames), NEW f \in 1 .. Len(s), Functions[s[f].fn].sync
    PROVE  /\ Finals(s, f, 1) = Finals(s, f + 1, 0)
           /\ s[f].pos \in Places(s[f].fn) =>
                 Finals(s, f, 0) = Finals(s, f, 1) \cup {<<f, 1>>}
<1>1. s[f].fn \in DOMAIN Functions /\ f \in Nat /\ s[f].pos \in Nat
      /\ Indexes(s[f].fn) \in SUBSET (Nat \ {0})
  BY FrameIs
<1>2. \A i \in Indexes(s[f].fn) : i = 1
  BY <1>1, SectionIs
<1>3. \A x \in ScopesOf(s) : x[1] \in Nat /\ x[2] \in Nat /\ x[2] > 0 /\ (x[1] = f => x[2] = 1)
  BY <1>1, <1>2, FrameIs DEF ScopesOf, InScope
<1>4. Finals(s, f, 1) = Finals(s, f + 1, 0)
  <2>1. \A x \in ScopesOf(s) : (x[1] > f \/ (x[1] = f /\ x[2] > 1)) <=>
                               (x[1] > f + 1 \/ (x[1] = f + 1 /\ x[2] > 0))
    BY <1>1, <1>3
  <2> QED  BY <2>1 DEF Finals
<1>5. ASSUME s[f].pos \in Places(s[f].fn)
      PROVE  Finals(s, f, 0) = Finals(s, f, 1) \cup {<<f, 1>>}
  <2>1. 1 \in Indexes(s[f].fn)
    BY <1>1, FunctionsType
  <2>2. Covers(s[f].fn, 1, s[f].pos) /\ Guard(s[f].fn, 1).finally
    <3>1. s[f].pos \in 2 .. Functions[s[f].fn].size - 1
      BY <1>5 DEF Places
    <3> QED  BY <1>1, <2>1, <3>1, SectionsNest
  <2>3. InScope(s, f, 1)
    BY <2>1, <2>2 DEF InScope
  <2>4. Guard(s[f].fn, 1).prev = 0
    BY <1>1, <2>1, SectionIs
  <2>5. Finals(s, f, 0) = Finals(s, f, 1) \cup IF Guard(s[f].fn, 1).finally THEN {<<f, 1>>} ELSE {}
    BY <2>3, <2>4, WalkOut
  <2> QED  BY <2>2, <2>5
<1> QED  BY <1>4, <1>5

\* The finally block of a section is run after those inside it.
LEMMA RanMore ==
    ASSUME NEW r \in Seq(Nat \X Nat), NEW s, NEW f \in Nat, NEW l \in Nat,
           RanAre(r, Finals(s, f, l))
    PROVE  RanAre(Append(r, <<f, l>>), Finals(s, f, l) \cup {<<f, l>>})
<1> DEFINE n == Len(r)
           q == Append(r, <<f, l>>)
<1>1. n \in Nat /\ DOMAIN r = 1 .. n
  BY LenProperties
<1>2. DOMAIN q = 1 .. n + 1 /\ (\A a \in 1 .. n : q[a] = r[a]) /\ q[n + 1] = <<f, l>>
  BY <1>1
<1>3. \A a \in 1 .. n : r[a] \in Finals(s, f, l)
  BY <1>1 DEF RanAre
<1>4. \A x \in Finals(s, f, l) : Inside(x, <<f, l>>)
  BY DEF Finals, Inside
<1> HIDE DEF n, q
<1>5. {q[a] : a \in DOMAIN q} = Finals(s, f, l) \cup {<<f, l>>}
  <2>1. Finals(s, f, l) = {r[a] : a \in 1 .. n}
    BY <1>1 DEF RanAre
  <2>2. \A a \in 1 .. n + 1 : a \in 1 .. n \/ a = n + 1
    BY <1>1
  <2>3. \A a \in 1 .. n : a \in 1 .. n + 1
    BY <1>1
  <2>4. n + 1 \in 1 .. n + 1
    BY <1>1
  <2> QED  BY <1>2, <2>1, <2>2, <2>3, <2>4
<1>6. \A a, b \in DOMAIN q : a < b => Inside(q[a], q[b])
  <2> SUFFICES ASSUME NEW a \in 1 .. n + 1, NEW b \in 1 .. n + 1, a < b
               PROVE  Inside(q[a], q[b])
    BY <1>2
  <2>1. a \in 1 .. n
    BY <1>1
  <2>2. CASE b \in 1 .. n
    <3>1. Inside(r[a], r[b])
      BY <1>1, <2>1, <2>2 DEF RanAre
    <3> QED  BY <1>2, <2>1, <2>2, <3>1
  <2>3. CASE b = n + 1
    BY <1>2, <1>3, <1>4, <2>1, <2>3
  <2> QED  BY <1>1, <2>2, <2>3
<1> QED  BY <1>5, <1>6 DEF RanAre, q

-----------------------------------------------------------------------------
(* What is caught where                                                    *)

\* Section l of frame f catches.
Catches(s, e, f, l) == InScope(s, f, l) /\ Fits(s, e, f, l) /\ NoneInside(s, e, f, l)

\* Nothing inside the section that the walk has come to fits.  Linux has run the
\* finally blocks there.
Hunt ==
    phase = "search" =>
        /\ ndx # 0 => InScope(thrownIn, frame, ndx)
        /\ NoneInside(thrownIn, thrown, frame, ndx)
        /\ os = "Linux" => RanAre(ran, Finals(thrownIn, frame, ndx))
        /\ os = "Win32" => ran = <<>>

\* Win32 has run those inside the section that it unwinds.
Unwound ==
    phase = "unwind" =>
        /\ Catches(thrownIn, thrown, target.frame, target.ndx)
        /\ ndx # 0 => InScope(thrownIn, frame, ndx)
        /\ Functions[found].sync => ndx = 0
        /\ RanAre(ran, Finals(thrownIn, frame, IF Functions[found].sync THEN 1 ELSE ndx))

Ended ==
    /\ phase = "caught" =>
          /\ Catches(thrownIn, thrown, target.frame, target.ndx)
          /\ RanAre(ran, Finals(thrownIn, target.frame, target.ndx))
    /\ phase = "uncaught" =>
          /\ NoneInside(thrownIn, thrown, 1, 0)
          /\ os = "Linux" => RanAre(ran, Finals(thrownIn, 1, 0))
    /\ ObjectFits

Typed == Types /\ Walk /\ Unwinding /\ IndexKept

LEMMA ThrowHunt ==
    ASSUME Typed, NEW e \in Exceptional, _d_throw(e)
    PROVE  Hunt' /\ Unwound' /\ Ended'
<1>1. stack \in Seq(Frames) /\ Top = Len(stack)
  BY DEF Typed, Types, Top
<1>2. /\ phase' = "search" /\ thrownIn' = stack /\ thrown' = e /\ ran' = <<>>
      /\ frame' = Len(stack) + 1 /\ ndx' = 0
  BY <1>1 DEF _d_throw
<1>3. NoneInside(stack, e, Len(stack) + 1, 0) /\ Finals(stack, Len(stack) + 1, 0) = {}
  BY <1>1, Beyond
<1>4. RanAre(<<>>, {})
  BY DEF RanAre
<1> QED  BY <1>2, <1>3, <1>4 DEF Hunt, Unwound, Ended, ObjectFits

LEMMA NextHandlerHunt ==
    ASSUME Typed, Hunt, NextHandler
    PROVE  Hunt' /\ Unwound' /\ Ended'
<1> DEFINE f == frame - 1
           l == FirstIndex(f)
<1>1. /\ f \in 1 .. Top /\ Top = Len(stack) /\ thrownIn = stack /\ stack \in Seq(Frames)
      /\ frame \in Nat /\ f + 1 = frame
  BY TopIs DEF Typed, Types, TypeOK, NextHandler, Walk, Top
<1>2. /\ phase' = "search" /\ os = "Win32" /\ os' = os /\ thrown' = thrown /\ thrownIn' = thrownIn
      /\ frame' = f /\ ndx' = l /\ ran' = ran /\ stack' = stack
  BY DEF NextHandler
<1>4. NoneInside(stack, thrown, f + 1, 0) /\ ran = <<>>
  <2>1. phase = "search" /\ ndx = 0
    BY DEF NextHandler
  <2> QED  BY <1>1, <1>2, <2>1 DEF Hunt
<1>5. (l # 0 => InScope(stack, f, l)) /\ NoneInside(stack, thrown, f, l)
  <2>1. CASE Functions[stack[f].fn].sync
    BY <1>1, <1>4, <2>1, EnterSync DEF FirstIndex
  <2>2. CASE ~ Functions[stack[f].fn].sync
    <3>1. l = Innermost(stack[f].fn, stack[f].pos)
      BY <1>1, <1>2, <2>2 DEF FirstIndex, Typed, IndexKept
    <3> HIDE DEF f, l
    <3> QED  BY <1>1, <1>4, <3>1, EnterFrame
  <2> QED  BY <2>1, <2>2
<1> HIDE DEF f, l
<1> QED  BY <1>1, <1>2, <1>4, <1>5 DEF Hunt, Unwound, Ended, ObjectFits

LEMMA SearchHunt ==
    ASSUME Typed, Hunt, Search
    PROVE  Hunt' /\ Unwound' /\ Ended'
<1> DEFINE prev == Guard(found, ndx).prev
<1>1. /\ found = thrownIn[frame].fn /\ thrownIn \in Seq(Frames)
      /\ phase = "search" /\ os = "Win32" /\ ndx # 0
      /\ FirstFit(found, ndx, ClassOf(thrown)) = 0
  BY DEF Typed, Types, Walk, Search
<1>2. /\ phase' = "search" /\ os' = os /\ thrown' = thrown /\ thrownIn' = thrownIn
      /\ frame' = frame /\ ndx' = prev /\ ran' = ran
  BY <1>1 DEF Search
<1>4. InScope(thrownIn, frame, ndx) /\ NoneInside(thrownIn, thrown, frame, ndx) /\ ran = <<>>
  BY <1>1 DEF Hunt
<1>5. ~ Fits(thrownIn, thrown, frame, ndx)
  BY <1>1 DEF Fits
<1>6. (prev # 0 => InScope(thrownIn, frame, prev)) /\ NoneInside(thrownIn, thrown, frame, prev)
  <2>1. prev = Guard(thrownIn[frame].fn, ndx).prev
    BY <1>1
  <2> HIDE DEF prev
  <2> QED  BY <1>1, <1>4, <1>5, <2>1, WalkOut
<1> HIDE DEF prev
<1> QED  BY <1>1, <1>2, <1>4, <1>6 DEF Hunt, Unwound, Ended, ObjectFits

LEMMA FindHunt ==
    ASSUME Typed, Hunt, Find
    PROVE  Hunt' /\ Unwound' /\ Ended'
<1> DEFINE l == FirstIndex(Top)
           f == stack[Top].fn
<1>1. /\ found = stack[frame].fn /\ thrownIn = stack /\ stack \in Seq(Frames)
      /\ phase = "search" /\ os = "Win32" /\ ndx # 0
      /\ FirstFit(found, ndx, ClassOf(thrown)) # 0
  BY DEF Typed, Types, Walk, Find
<1>2. /\ phase' = "unwind" /\ os' = os /\ thrown' = thrown /\ thrownIn' = stack
      /\ frame' = Top /\ found' = f /\ ndx' = l /\ ran' = ran
      /\ target'.frame = frame /\ target'.ndx = ndx
  BY <1>1 DEF Find
<1>3. InScope(stack, frame, ndx) /\ NoneInside(stack, thrown, frame, ndx) /\ ran = <<>>
  BY <1>1 DEF Hunt
<1>4. Catches(stack, thrown, frame, ndx)
  BY <1>1, <1>3 DEF Catches, Fits
<1>5. Top \in 1 .. Len(stack) /\ Top = Len(stack) /\ Finals(stack, Top + 1, 0) = {}
  BY <1>1, TopIs, Beyond DEF Typed, Top
<1>6. CASE Functions[f].sync
  <2>1. l = 0 /\ Finals(stack, Top, 1) = {}
    BY <1>1, <1>5, <1>6, SyncFinals DEF FirstIndex
  <2> HIDE DEF l, f
  <2> QED  BY <1>2, <1>3, <1>4, <1>6, <2>1 DEF Hunt, Unwound, Ended, ObjectFits, RanAre
<1>7. CASE ~ Functions[f].sync
  <2>1. l = Innermost(f, stack[Top].pos)
    BY <1>1, <1>5, <1>7 DEF FirstIndex, Typed, IndexKept
  <2>2. (l # 0 => InScope(stack, Top, l)) /\ Finals(stack, Top, l) = {}
    BY <1>1, <1>5, <2>1, EnterFrame
  <2> HIDE DEF l, f
  <2> QED  BY <1>2, <1>3, <1>4, <1>7, <2>2 DEF Hunt, Unwound, Ended, ObjectFits, RanAre
<1> QED  BY <1>6, <1>7

LEMMA LocalUnwindHunt ==
    ASSUME Typed, Unwound, _d_local_unwind
    PROVE  Hunt' /\ Unwound' /\ Ended'
<1> DEFINE prev == Guard(found, ndx).prev
           F == Finals(thrownIn, frame, ndx)
<1>1. /\ found = thrownIn[frame].fn /\ thrownIn \in Seq(Frames) /\ ran \in Seq(Nat \X Nat)
      /\ phase = "unwind" /\ ndx # 0 /\ frame \in Nat /\ ndx \in Nat
  BY TopIs DEF Typed, Types, Unwinding, _d_local_unwind, Top
<1>2. /\ phase' = "unwind" /\ thrown' = thrown /\ thrownIn' = thrownIn /\ target' = target
      /\ frame' = frame /\ found' = found /\ ndx' = prev
      /\ ran' = IF Guard(found, ndx).finally THEN Append(ran, <<frame, ndx>>) ELSE ran
  BY <1>1 DEF _d_local_unwind
<1>3. /\ InScope(thrownIn, frame, ndx) /\ ~ Functions[found].sync /\ RanAre(ran, F)
      /\ Catches(thrownIn, thrown, target.frame, target.ndx)
  BY <1>1 DEF Unwound
<1>4. /\ prev # 0 => InScope(thrownIn, frame, prev)
      /\ Finals(thrownIn, frame, prev) =
            F \cup IF Guard(found, ndx).finally THEN {<<frame, ndx>>} ELSE {}
  <2>1. prev = Guard(thrownIn[frame].fn, ndx).prev
    BY <1>1
  <2> HIDE DEF prev
  <2> QED  BY <1>1, <1>3, <2>1, WalkOut
<1>5. RanAre(ran', Finals(thrownIn, frame, prev))
  <2>1. CASE Guard(found, ndx).finally
    <3>1. RanAre(Append(ran, <<frame, ndx>>), F \cup {<<frame, ndx>>})
      BY <1>1, <1>3, RanMore
    <3> HIDE DEF F, prev
    <3> QED  BY <1>2, <1>4, <2>1, <3>1
  <2>2. CASE ~ Guard(found, ndx).finally
    <3> HIDE DEF prev
    <3>1. F \cup {} = F
      OBVIOUS
    <3> HIDE DEF F
    <3> QED  BY <1>2, <1>3, <1>4, <2>2, <3>1
  <2> QED  BY <2>1, <2>2
<1> HIDE DEF prev, F
<1> QED  BY <1>2, <1>3, <1>4, <1>5 DEF Hunt, Unwound, Ended, ObjectFits

LEMMA UnlinkHunt ==
    ASSUME Typed, Unwound, Unlink
    PROVE  Hunt' /\ Unwound' /\ Ended'
<1> DEFINE k == frame - 1
           f == thrownIn[frame].fn
           g == thrownIn[k].fn
<1>1. /\ thrownIn \in Seq(Frames) /\ ran \in Seq(Nat \X Nat)
      /\ phase = "unwind" /\ os = "Win32" /\ ndx = 0
      /\ frame \in 1 .. Len(thrownIn) /\ k \in 1 .. Len(thrownIn)
      /\ frame \in Nat /\ k + 1 = frame /\ k \in 1 .. Top /\ frame \in 1 .. Top
      /\ found = f
      /\ stack[frame] = thrownIn[frame] /\ stack[k] = thrownIn[k]
  BY TopIs DEF Typed, Types, Unwinding, Unlink, Top
<1>2. /\ phase' = "unwind" /\ thrown' = thrown /\ thrownIn' = thrownIn /\ target' = target
      /\ frame' = k /\ found' = g /\ ndx' = FirstIndex(k)
      /\ ran' = IF Functions[f].sync THEN Append(ran, <<frame, 1>>) ELSE ran
  BY <1>1 DEF Unlink, _d_monitor_handler
<1>3. /\ RanAre(ran, Finals(thrownIn, frame, IF Functions[f].sync THEN 1 ELSE 0))
      /\ Catches(thrownIn, thrown, target.frame, target.ndx)
  BY <1>1 DEF Unwound
<1>4. RanAre(ran', Finals(thrownIn, frame, 0))
  <2>1. CASE Functions[f].sync
    <3>1. thrownIn[frame].pos \in Places(f)
      BY <1>1, AllGood DEF Typed, GoodFrame
    <3>2. Finals(thrownIn, frame, 0) = Finals(thrownIn, frame, 1) \cup {<<frame, 1>>}
      BY <1>1, <2>1, <3>1, SyncFinals
    <3>3. RanAre(Append(ran, <<frame, 1>>), Finals(thrownIn, frame, 1) \cup {<<frame, 1>>})
      BY <1>1, <1>3, <2>1, RanMore
    <3> QED  BY <1>2, <2>1, <3>2, <3>3
  <2>2. CASE ~ Functions[f].sync
    BY <1>2, <1>3, <2>2
  <2> QED  BY <2>1, <2>2
<1>5. /\ FirstIndex(k) # 0 => InScope(thrownIn, k, FirstIndex(k))
      /\ Functions[g].sync => FirstIndex(k) = 0
      /\ Finals(thrownIn, k, IF Functions[g].sync THEN 1 ELSE FirstIndex(k))
            = Finals(thrownIn, frame, 0)
  <2>1. CASE Functions[g].sync
    <3>1. FirstIndex(k) = 0
      BY <1>1, <2>1 DEF FirstIndex
    <3>2. Finals(thrownIn, k, 1) = Finals(thrownIn, k + 1, 0)
      <4> HIDE DEF k
      <4> QED  BY <1>1, <2>1, SyncFinals
    <3> QED  BY <1>1, <2>1, <3>1, <3>2
  <2>2. CASE ~ Functions[g].sync
    <3>1. FirstIndex(k) = Innermost(g, thrownIn[k].pos)
      BY <1>1, <2>2 DEF FirstIndex, Typed, IndexKept
    <3>2. /\ FirstIndex(k) # 0 => InScope(thrownIn, k, FirstIndex(k))
          /\ Finals(thrownIn, k, FirstIndex(k)) = Finals(thrownIn, k + 1, 0)
      <4> HIDE DEF k
      <4> QED  BY <1>1, <3>1, EnterFrame
    <3> QED  BY <1>1, <2>2, <3>2
  <2> QED  BY <2>1, <2>2
<1> HIDE DEF k, f, g
<1> QED  BY <1>2, <1>3, <1>4, <1>5 DEF Hunt, Unwound, Ended, ObjectFits

\* What is searched for is what is created.
LEMMA SameClass == \A e : Translate(e).class = ClassOf(e)
BY DEF Translate, ClassOf

LEMMA EnterCatchHunt ==
    ASSUME Typed, Unwound, EnterCatch
    PROVE  Hunt' /\ Unwound' /\ Ended'
<1> DEFINE f == thrownIn[target.frame].fn
<1>1. /\ thrownIn \in Seq(Frames) /\ found = f /\ frame = target.frame
      /\ phase = "unwind" /\ ndx = target.ndx
      /\ f \in DOMAIN Functions /\ target.ndx \in Indexes(f) /\ target.ndx # 0
      /\ target.block = FirstFit(f, target.ndx, ClassOf(thrown))
      /\ object = Translate(thrown)
  <2>1. /\ thrownIn \in Seq(Frames) /\ frame = target.frame /\ phase = "unwind"
        /\ frame \in 1 .. Len(thrownIn) /\ found = f /\ ndx = target.ndx
        /\ target.ndx \in Indexes(f)
        /\ target.block = FirstFit(f, target.ndx, ClassOf(thrown))
        /\ object = Translate(thrown)
    BY TopIs DEF Typed, Types, Unwinding, EnterCatch, StopIndex, Top
  <2> QED  BY <2>1, FrameIs
<1>2. /\ phase' = "caught" /\ thrown' = thrown /\ thrownIn' = thrownIn /\ target' = target
      /\ ran' = ran /\ found' = found /\ object' = object
  BY DEF EnterCatch
<1>3. /\ ~ Functions[f].sync
      /\ Catches(thrownIn, thrown, target.frame, target.ndx)
      /\ RanAre(ran, Finals(thrownIn, target.frame, target.ndx))
  BY <1>1 DEF Unwound
<1>4. _d_isbaseof(object.class, Guard(found, target.ndx).catches[target.block].type)
  <2>1. target.block # 0
    BY <1>1, <1>3 DEF Catches, Fits
  <2>2. _d_isbaseof(ClassOf(thrown), Guard(f, target.ndx).catches[target.block].type)
    BY <1>1, <2>1, FirstFitIs
  <2> QED  BY <1>1, <2>2, SameClass
<1> HIDE DEF f
<1> QED  BY <1>2, <1>3, <1>4 DEF Hunt, Unwound, Ended, ObjectFits

LEMMA FindCallerHunt ==
    ASSUME Typed, Hunt, FindCaller
    PROVE  Hunt' /\ Unwound' /\ Ended'
<1> DEFINE k == frame - 1
<1>1. /\ k \in 1 .. Len(stack) /\ k + 1 = frame /\ thrownIn = stack /\ stack \in Seq(Frames)
      /\ phase = "search" /\ os = "Linux" /\ ndx = 0
  BY TopIs DEF Typed, Types, TypeOK, FindCaller, Walk, Top
<1>2. /\ phase' = "search" /\ os' = os /\ thrown' = thrown /\ thrownIn' = thrownIn
      /\ frame' = k /\ ran' = ran
  BY <1>1 DEF FindCaller
<1>3. NoneInside(stack, thrown, k + 1, 0) /\ RanAre(ran, Finals(stack, k + 1, 0))
  BY <1>1 DEF Hunt
<1>4. ndx' = Innermost(stack[k].fn, stack[k].pos)
  BY FindCallerTypes DEF Typed
<1>5. /\ ndx' # 0 => InScope(stack, k, ndx')
      /\ NoneInside(stack, thrown, k, ndx')
      /\ Finals(stack, k, ndx') = Finals(stack, k + 1, 0)
  <2> HIDE DEF k
  <2> QED  BY <1>1, <1>3, <1>4, EnterFrame
<1> HIDE DEF k
<1> QED  BY <1>1, <1>2, <1>3, <1>5 DEF Hunt, Unwound, Ended, ObjectFits

LEMMA WalkTableHunt ==
    ASSUME Typed, Hunt, WalkTable
    PROVE  Hunt' /\ Unwound' /\ Ended'
<1> DEFINE prev == Guard(found, ndx).prev
           F == Finals(stack, frame, ndx)
<1>1. /\ thrownIn = stack /\ stack \in Seq(Frames) /\ ran \in Seq(Nat \X Nat)
      /\ phase = "search" /\ os = "Linux" /\ ndx # 0 /\ found = stack[frame].fn
      /\ frame \in Nat /\ ndx \in Nat /\ CatchBlock = 0 /\ thrown.code = Mars
  BY DEF Typed, Types, TypeOK, WalkTable, Walk
<1>2. /\ phase' = "search" /\ os' = os /\ thrown' = thrown /\ thrownIn' = thrownIn
      /\ frame' = frame /\ ndx' = prev
      /\ ran' = IF Guard(found, ndx).finally THEN Append(ran, <<frame, ndx>>) ELSE ran
  BY <1>1 DEF WalkTable
<1>3. InScope(stack, frame, ndx) /\ NoneInside(stack, thrown, frame, ndx) /\ RanAre(ran, F)
  BY <1>1 DEF Hunt
<1>4. ~ Fits(stack, thrown, frame, ndx)
  BY <1>1 DEF CatchBlock, Fits, ClassOf
<1>5. /\ prev # 0 => InScope(stack, frame, prev)
      /\ NoneInside(stack, thrown, frame, prev)
      /\ Finals(stack, frame, prev) =
            F \cup IF Guard(found, ndx).finally THEN {<<frame, ndx>>} ELSE {}
  <2>1. prev = Guard(stack[frame].fn, ndx).prev
    BY <1>1
  <2> HIDE DEF prev
  <2> QED  BY <1>1, <1>3, <1>4, <2>1, WalkOut
<1>6. RanAre(ran', Finals(stack, frame, prev))
  <2>1. CASE Guard(found, ndx).finally
    <3>1. RanAre(Append(ran, <<frame, ndx>>), F \cup {<<frame, ndx>>})
      BY <1>1, <1>3, RanMore
    <3> HIDE DEF F, prev
    <3> QED  BY <1>2, <1>5, <2>1, <3>1
  <2>2. CASE ~ Guard(found, ndx).finally
    <3> HIDE DEF prev
    <3>1. F \cup {} = F
      OBVIOUS
    <3> HIDE DEF F
    <3> QED  BY <1>2, <1>3, <1>5, <2>2, <3>1
  <2> QED  BY <2>1, <2>2
<1> HIDE DEF prev, F
<1> QED  BY <1>1, <1>2, <1>5, <1>6 DEF Hunt, Unwound, Ended, ObjectFits

LEMMA CatchHereHunt ==
    ASSUME Typed, Hunt, CatchHere
    PROVE  Hunt' /\ Unwound' /\ Ended'
<1>1. /\ thrownIn = stack /\ thrown.code = Mars /\ found = stack[frame].fn
      /\ found \in DOMAIN Functions /\ ndx \in Indexes(found)
  BY CatchHereTypes DEF Typed
<1>2. /\ phase = "search" /\ os = "Linux" /\ CatchBlock # 0 /\ ndx # 0
      /\ CatchBlock = FirstFit(found, ndx, thrown.class)
  BY DEF CatchHere, CatchBlock
<1>3. /\ phase' = "caught" /\ os' = os /\ thrown' = thrown /\ thrownIn' = thrownIn
      /\ target'.frame = frame /\ target'.ndx = ndx /\ target'.block = CatchBlock
      /\ ran' = ran /\ found' = found /\ object' = thrown
  BY DEF CatchHere
<1>4. Catches(stack, thrown, frame, ndx) /\ RanAre(ran, Finals(stack, frame, ndx))
  <2>1. /\ InScope(stack, frame, ndx) /\ NoneInside(stack, thrown, frame, ndx)
        /\ RanAre(ran, Finals(stack, frame, ndx))
    BY <1>1, <1>2 DEF Hunt
  <2> QED  BY <1>1, <1>2, <2>1 DEF Catches, Fits, ClassOf
<1>5. _d_isbaseof(thrown.class, Guard(found, ndx).catches[CatchBlock].type)
  BY <1>1, <1>2, FirstFitIs
<1>6. ObjectFits'
  BY <1>3, <1>5 DEF ObjectFits
<1> QED  BY <1>1, <1>3, <1>4, <1>6 DEF Hunt, Unwound, Ended

LEMMA GiveUpHunt ==
    ASSUME Typed, Hunt, GiveUp
    PROVE  Hunt' /\ Unwound' /\ Ended'
<1>1. phase = "search" /\ frame = 1 /\ ndx = 0
  BY DEF GiveUp
<1>2. /\ phase' = "uncaught" /\ thrown' = thrown /\ thrownIn' = thrownIn
      /\ os' = os /\ ran' = ran
  BY DEF GiveUp
<1>3. /\ NoneInside(thrownIn, thrown, 1, 0)
      /\ os = "Linux" => RanAre(ran, Finals(thrownIn, 1, 0))
  BY <1>1 DEF Hunt
<1> QED  BY <1>2, <1>3 DEF Hunt, Unwound, Ended, ObjectFits

IInv == Typed /\ Hunt /\ Unwound /\ Ended

\* An exception is searched for from the inside to the outside, and the finally blocks
\* that were run are those between the throw and the place that the walk has come to.
LEMMA Inductive == /\ Init => IInv
                   /\ IInv /\ [Next]_vars => IInv'
<1>1. Init => IInv
  BY InitTypes, InitIndex DEF IInv, Typed, Hunt, Unwound, Ended, ObjectFits, Init
<1>2. ASSUME IInv, [Next]_vars PROVE IInv'
  <2>1. Typed' /\ Typed
    BY <1>2, NextTypes, NextIndex DEF IInv, Typed
  <2>2. ASSUME phase' = "running" PROVE Hunt' /\ Unwound' /\ Ended'
    BY <2>2 DEF Hunt, Unwound, Ended, ObjectFits
  <2>3. CASE \/ \E p \in Places(stack[Top].fn) : Go(p)
             \/ \E f \in DOMAIN Functions : Call(f)
             \/ Return
    BY <2>1, <2>2, <2>3 DEF IInv, Go, Call, Return
  <2>4. CASE \E e \in Exceptional : _d_throw(e)
    BY <2>1, <2>4, ThrowHunt DEF IInv
  <2>5. CASE Handle
    BY <1>2, <2>1, <2>5, NextHandlerHunt, SearchHunt, FindHunt, LocalUnwindHunt, UnlinkHunt,
       EnterCatchHunt, FindCallerHunt, WalkTableHunt, CatchHereHunt, GiveUpHunt DEF IInv, Handle
  <2>6. CASE UNCHANGED vars
    BY <1>2, <2>1, <2>6 DEF IInv, vars, Hunt, Unwound, Ended, ObjectFits
  <2> QED  BY <1>2, <2>3, <2>4, <2>5, <2>6 DEF Next
<1> QED  BY <1>1, <1>2

-----------------------------------------------------------------------------
(* The theorems                                                            *)

LEMMA ScopesAre == Types => Scopes = ScopesOf(thrownIn)
<1> SUFFICES ASSUME Types PROVE Scopes = ScopesOf(thrownIn)
  OBVIOUS
<1> DEFINE In(k) == {j \in Indexes(thrownIn[k].fn) : Covers(thrownIn[k].fn, j, thrownIn[k].pos)}
<1>1. DOMAIN thrownIn = 1 .. Len(thrownIn) /\ thrownIn \in Seq(Frames)
  BY TopIs DEF Types
<1>2. \A k \in DOMAIN thrownIn : k \in Nat /\ In(k) \subseteq Nat
  BY <1>1, FrameIs
<1>3. \A x : x \in Scopes <=> \E k \in DOMAIN thrownIn : \E i \in In(k) : x = <<k, i>>
  BY DEF Scopes
<1>4. ASSUME NEW x \in Scopes PROVE x \in ScopesOf(thrownIn)
  <2>1. PICK k \in DOMAIN thrownIn : \E i \in In(k) : x = <<k, i>>
    BY <1>3, <1>4
  <2>2. PICK i \in In(k) : x = <<k, i>>
    BY <2>1
  <2>3. k \in Nat /\ i \in Nat /\ InScope(thrownIn, k, i)
    BY <1>1, <1>2, <2>2 DEF InScope
  <2> QED  BY <2>2, <2>3 DEF ScopesOf
<1>5. ASSUME NEW x \in ScopesOf(thrownIn) PROVE x \in Scopes
  <2>1. x \in Nat \X Nat /\ InScope(thrownIn, x[1], x[2])
    BY <1>5 DEF ScopesOf
  <2>2. x = <<x[1], x[2]>>
    BY <2>1, PairIs
  <2>3. x[1] \in DOMAIN thrownIn /\ x[2] \in In(x[1])
    BY <1>1, <2>1 DEF InScope
  <2> QED  BY <1>3, <2>2, <2>3
<1> QED  BY <1>4, <1>5

\* The section that catches is the only one that Catching holds.
LEMMA CatchingIs ==
    ASSUME Types, NEW f, NEW l, Catches(thrownIn, thrown, f, l)
    PROVE  Catching = {<<f, l>>} /\ f \in Nat /\ l \in Nat
<1>1. f \in Nat /\ l \in Nat /\ thrownIn \in Seq(Frames)
  BY FrameIs DEF Catches, InScope, Types
<1>2. \A x \in Scopes : x \in Nat \X Nat /\ InScope(thrownIn, x[1], x[2])
  BY ScopesAre DEF ScopesOf
<1>3. <<f, l>> \in Scopes
  BY <1>1, ScopesAre DEF ScopesOf, Catches
<1>4. \A x : Block(x) # 0 <=> Fits(thrownIn, thrown, x[1], x[2])
  BY DEF Block, Fits
<1>5. Block(<<f, l>>) # 0
  BY <1>4 DEF Catches
<1>6. \A x \in Scopes : Block(x) # 0 => x = <<f, l>> \/ Inside(<<f, l>>, x)
  <2> SUFFICES ASSUME NEW x \in Scopes, Block(x) # 0 PROVE x = <<f, l>> \/ Inside(<<f, l>>, x)
    OBVIOUS
  <2>1. x \in Nat \X Nat /\ x[1] \in Nat /\ x[2] \in Nat
    BY <1>2
  <2>2. x[1] < f \/ (x[1] = f /\ x[2] <= l)
    BY <1>2, <1>4, <2>1 DEF Catches, NoneInside
  <2>3. x = <<f, l>> <=> x[1] = f /\ x[2] = l
    BY <2>1, PairIs
  <2> QED  BY <1>1, <2>1, <2>2, <2>3 DEF Inside
<1>7. \A x \in Scopes : Inside(x, <<f, l>>) => Block(x) = 0
  <2> SUFFICES ASSUME NEW x \in Scopes, Inside(x, <<f, l>>), Block(x) # 0 PROVE FALSE
    OBVIOUS
  <2>1. x[1] \in Nat /\ x[2] \in Nat /\ (x[1] > f \/ (x[1] = f /\ x[2] > l))
    BY <1>2 DEF Inside
  <2>2. x[1] < f \/ (x[1] = f /\ x[2] <= l)
    BY <1>2, <1>4, <2>1 DEF Catches, NoneInside
  <2> QED  BY <1>1, <2>1, <2>2
<1> QED  BY <1>1, <1>3, <1>5, <1>6, <1>7 DEF Catching

LEMMA Consequences == IInv => /\ InnermostCatches
                              /\ FinallyInBetween
                              /\ ObjectFits
<1> SUFFICES ASSUME IInv PROVE InnermostCatches /\ FinallyInBetween /\ ObjectFits
  OBVIOUS
<1> DEFINE f == target.frame
           l == target.ndx
<1>1. Types /\ Ended
  BY DEF IInv, Typed
<1>2. ASSUME phase = "caught"
      PROVE  /\ Catching = {<<f, l>>} /\ f \in Nat /\ l \in Nat
             /\ RanAre(ran, Finals(thrownIn, f, l))
  BY <1>1, <1>2, CatchingIs DEF Ended
<1>3. ASSUME phase = "uncaught" PROVE Catching = {}
  <2>1. NoneInside(thrownIn, thrown, 1, 0)
    BY <1>1, <1>3 DEF Ended
  <2>2. \A x \in Scopes : x[1] \in Nat /\ x[2] \in Nat /\ InScope(thrownIn, x[1], x[2])
    BY <1>1, ScopesAre DEF ScopesOf
  <2>3. \A k, i \in Nat : InScope(thrownIn, k, i) => k >= 1 /\ i >= 1
    <3>1. thrownIn \in Seq(Frames)
      BY <1>1 DEF Types
    <3> QED  BY <3>1, FrameIs DEF InScope
  <2>4. \A x \in Scopes : ~ Fits(thrownIn, thrown, x[1], x[2])
    BY <2>1, <2>2, <2>3 DEF NoneInside
  <2> QED  BY <2>4 DEF Catching, Block, Fits
<1>4. InnermostCatches
  BY <1>2, <1>3 DEF InnermostCatches
<1>5. ASSUME phase = "caught"
      PROVE  Finals(thrownIn, f, l) = {s \in Scopes : SectionOf(s).finally
                                                      /\ \A c \in Catching : Inside(s, c)}
  <2>1. \A s : (\A c \in Catching : Inside(s, c)) <=> Inside(s, <<f, l>>)
    BY <1>2, <1>5
  <2>2. \A s : Inside(s, <<f, l>>) <=> s[1] > f \/ (s[1] = f /\ s[2] > l)
    BY DEF Inside
  <2> QED  BY <1>1, <2>1, <2>2, ScopesAre DEF Finals, SectionOf
<1>6. ASSUME phase = "uncaught", os = "Linux"
      PROVE  /\ RanAre(ran, Finals(thrownIn, 1, 0))
             /\ Finals(thrownIn, 1, 0) = {s \in Scopes : SectionOf(s).finally
                                                         /\ \A c \in Catching : Inside(s, c)}
  <2>1. \A s \in Scopes : s[1] \in Nat /\ s[2] \in Nat /\ s[1] >= 1 /\ s[2] >= 1
    <3>1. thrownIn \in Seq(Frames)
      BY <1>1 DEF Types
    <3>2. \A s \in Scopes : s[1] \in Nat /\ s[2] \in Nat /\ InScope(thrownIn, s[1], s[2])
      BY <1>1, ScopesAre DEF ScopesOf
    <3> QED  BY <3>1, <3>2, FrameIs DEF InScope
  <2>2. Finals(thrownIn, 1, 0) = {s \in Scopes : SectionOf(s).finally}
    BY <1>1, <2>1, ScopesAre DEF Finals, SectionOf
  <2> QED  BY <1>1, <1>3, <1>6, <2>2 DEF Ended
<1>7. FinallyInBetween
  <2>1. CASE phase = "caught"
    BY <1>2, <1>5, <2>1 DEF FinallyInBetween, RanAre
  <2>2. CASE phase = "uncaught" /\ os = "Linux"
    BY <1>6, <2>2 DEF FinallyInBetween, RanAre
  <2> QED  BY <2>1, <2>2 DEF FinallyInBetween
<1> QED  BY <1>1, <1>4, <1>7 DEF Ended

\* For every program, on Win32 and on Linux, what catches an exception is the innermost
\* catch block around the throw that fits, and it is uncaught only if there is none.
THEOREM InnermostBlock == Spec => []InnermostCatches
BY Inductive, Consequences, PTL DEF Spec

\* Exactly the finally blocks in between have run by then, from the inside out; on Linux
\* all of them around an exception that nobody catches.
THEOREM FinallyBlocks == Spec => []FinallyInBetween
BY Inductive, Consequences, PTL DEF Spec

\* What a catch block gets is of the class it asks for.
THEOREM CaughtObject == Spec => []ObjectFits
BY Inductive, Consequences, PTL DEF Spec
=============================================================================
