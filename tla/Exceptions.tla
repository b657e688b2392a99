----------------------------- MODULE Exceptions -----------------------------
(***************************************************************************)
(* How a thrown object finds its catch block with dmd.  On Win32 (deh.c)   *)
(* the system walks the registered frames twice: each frame's handler      *)
(* first looks for a catch block that fits and then, when there is one,    *)
(* runs the finally blocks of the frames above it.  A frame's table_index, *)
(* which compiled code keeps up to date, says where in its function it is. *)
(* On Linux (deh2.d) _d_throw walks the frames once, finds a function's    *)
(* table by the return address and the place in it by the offsets of the   *)
(* guarded sections, and runs finally blocks on the way.                   *)
(*                                                                         *)
(* A function is what the compiler makes of it: guarded sections, by their *)
(* first and last instruction, each with its catch blocks or its finally   *)
(* block; they are the entries of its handler table on both systems.       *)
(* Instructions are of one byte.  A function with sync is synchronized:    *)
(* on Win32 its frame has the handler of monitors, on Linux the exit of    *)
(* the monitor is a finally block.  Indexes are those of the code plus     *)
(* one, 0 stands for -1.  Finally blocks do not throw.                     *)
(***************************************************************************)
EXTENDS Integers, Sequences, FiniteSetsExt

CONSTANTS
    Base,           \* the class that each class is derived from
    Functions,      \* a sequence of functions
    Address,        \* of the first instruction of each, less one
    Bottoms,        \* those that a thread may begin with
    Faults,         \* codes of exceptions of the system
    MaxDepth,       \* bound of the model: frames on the stack
    null

Classes == DOMAIN Base
Indexes(f) == DOMAIN Functions[f].guards
Guard(f, i) == Functions[f].guards[i]
Covers(f, i, p) == Guard(f, i).first <= p /\ p <= Guard(f, i).last

\* What the compiled code takes table_index to be at p.
Innermost(f, p) == Max({0} \cup {i \in Indexes(f) : Covers(f, i, p)})

Sections == [first : Nat, last : Nat, prev : Nat, finally : BOOLEAN,
             catches : Seq([type : Classes, code : Nat])]

\* The tables have the shape of the structures, and there is room for a frame.
ASSUME FunctionsType ==
    /\ MaxDepth \in Nat \ {0}
    /\ Functions \in Seq([size : Nat, sync : BOOLEAN, guards : Seq(Sections)])
    /\ Address \in [DOMAIN Functions -> Nat]
    /\ Bottoms \subseteq DOMAIN Functions
    /\ \A f \in DOMAIN Functions : /\ Functions[f].size > 2
                                   /\ Functions[f].sync => 1 \in Indexes(f)

\* No two functions share an instruction.
ASSUME FunctionsApart ==
    \A f, g \in DOMAIN Functions :
        f # g => \/ Address[f] + Functions[f].size <= Address[g]
                 \/ Address[g] + Functions[g].size <= Address[f]

\* Guarded sections are nested, an outer one comes first, the first and the last
\* instruction of a function are in none.  A catch block is outside its section and
\* inside the one around it.  A synchronized function is one section
\* with a finally block.
ASSUME SectionsNest ==
    \A f \in DOMAIN Functions : \A i \in Indexes(f) :
        /\ Guard(f, i).first > 1 /\ Guard(f, i).last < Functions[f].size
        /\ Guard(f, i).prev = Max({0} \cup {j \in 1 .. i - 1 : Covers(f, j, Guard(f, i).first)})
        /\ Guard(f, i).prev # 0 => Covers(f, Guard(f, i).prev, Guard(f, i).last)
        /\ \A j \in 1 .. i - 1 : Guard(f, j).first <= Guard(f, i).first
        /\ \A b \in DOMAIN Guard(f, i).catches :
              /\ Guard(f, i).catches[b].code \in 2 .. Functions[f].size
              /\ Innermost(f, Guard(f, i).catches[b].code) = Guard(f, i).prev
        /\ Functions[f].sync => /\ i = 1 /\ Guard(f, i).finally /\ Guard(f, i).catches = <<>>
                                /\ \A p \in 2 .. Functions[f].size - 1 : Covers(f, i, p)

-----------------------------------------------------------------------------
(* Classes and tables                                                      *)

Up[n \in Nat] ==
    [c \in Classes |-> IF n = 0 \/ Up[n - 1][c] = null THEN c ELSE Base[Up[n - 1][c]]]

\* A catch block is of a class, never of an interface.
_d_isbaseof(c, t) == c \in Classes /\ \E n \in 0 .. Cardinality(Classes) : t = Up[n][c] \/ t = c

Mars == "STATUS_DIGITAL_MARS_D_EXCEPTION"

\* The class that a catch block is compared with.
ClassOf(e) == IF e.code = Mars THEN e.class ELSE "Exception"

\* Mutant: a code of the system is taken for a D exception.
Translate_Any(e) == [class |-> e.class, code |-> Mars]

\* _d_translate_se_to_d_exception: what is caught.
Translate(e) == IF e.code = Mars THEN e ELSE [class |-> "Exception", code |-> e.code]

\* The first catch block of section i that fits, or 0.
FirstFit(f, i, class) ==
    LET catches == Guard(f, i).catches
        fits == {b \in DOMAIN catches : _d_isbaseof(class, catches[b].type)}
    IN  IF fits = {} THEN 0 ELSE Min(fits)

\* __eh_finddata: the function that an address is in, or 0.
__eh_finddata(address) ==
    LET in == {f \in DOMAIN Functions :
                  Address[f] < address /\ address <= Address[f] + Functions[f].size}
    IN  IF in = {} THEN 0 ELSE CHOOSE f \in in : TRUE

\* Mutant: a section that begins at the return address counts.
StartIndex_AtBegin(f, address) ==
    IF f = 0 THEN 0
    ELSE Max({0} \cup {i \in Indexes(f) : /\ Address[f] + Guard(f, i).first <= address
                                          /\ address <= Address[f] + Guard(f, i).last + 1})

\* Linux: the last section of f that begins before the address and ends at it or
\* behind it, or 0.
StartIndex(f, address) ==
    IF f = 0 THEN 0
    ELSE Max({0} \cup {i \in Indexes(f) : /\ Address[f] + Guard(f, i).first < address
                                          /\ address <= Address[f] + Guard(f, i).last + 1})

-----------------------------------------------------------------------------
VARIABLES
    os,
    stack,          \* frames: function, instruction, table_index
    phase,
    thrown,         \* the exception under way, or the one caught last
    frame,          \* the frame that is looked at
    found,          \* the function whose table is used for it
    ndx,            \* the section of it that is looked at, 0 at the end
    target,         \* where it will be caught
    object,         \* what is caught there
    ran,            \* history: finally blocks run for it, <<frame, section>>
    thrownIn        \* history: the stack at the throw

vars == <<os, stack, phase, thrown, frame, found, ndx, target, object, ran, thrownIn>>

At(f, p) == [fn |-> f, pos |-> p, index |-> Innermost(f, p)]

Running == {"running", "caught"}
Nothing == [frame |-> 0, ndx |-> 0, block |-> 0]

Forget ==
    /\ thrown' = null /\ object' = null /\ target' = Nothing /\ ran' = <<>> /\ thrownIn' = <<>>
    /\ frame' = 0 /\ found' = 0 /\ ndx' = 0

Init ==
    /\ os \in {"Win32", "Linux"}
    /\ stack \in {<<At(f, 2)>> : f \in Bottoms}
    /\ phase = "running"
    /\ thrown = null /\ object = null /\ target = Nothing /\ ran = <<>> /\ thrownIn = <<>>
    /\ frame = 0 /\ found = 0 /\ ndx = 0

Top == Len(stack)

-----------------------------------------------------------------------------
(* The program                                                             *)

\* A synchronized function leaves its monitor with its last instruction, by
\* _d_monitor_epilog.
Places(f) == 2 .. Functions[f].size - IF Functions[f].sync THEN 1 ELSE 0

\* On to another instruction: compiled code sets table_index.
Go(p) ==
    /\ phase \in Running
    /\ p \in Places(stack[Top].fn)
    /\ stack' = [stack EXCEPT ![Top] = At(stack[Top].fn, p)]
    /\ phase' = "running"
    /\ Forget /\ UNCHANGED os

Call(f) ==
    /\ phase \in Running /\ Top < MaxDepth
    /\ stack' = Append(stack, At(f, 2))
    /\ phase' = "running"
    /\ Forget /\ UNCHANGED os

Return ==
    /\ phase \in Running /\ Top > 1
    /\ stack' = SubSeq(stack, 1, Top - 1)
    /\ phase' = "running"
    /\ Forget /\ UNCHANGED os

Exceptional == {[code |-> Mars, class |-> c] : c \in Classes}
    \cup IF os = "Win32" THEN {[code |-> x, class |-> null] : x \in Faults} ELSE {}

\* _d_throw is called, or the system finds a fault.
_d_throw(e) ==
    /\ phase \in Running
    /\ phase' = "search"
    /\ thrown' = e /\ thrownIn' = stack /\ ran' = <<>>
    /\ object' = null /\ target' = Nothing
    /\ frame' = Top + 1 /\ found' = 0 /\ ndx' = 0
    /\ UNCHANGED <<os, stack>>

-----------------------------------------------------------------------------
(* Win32                                                                   *)

\* The index that a frame's handler begins with; the one of a monitor has no table.
FirstIndex(k) == IF Functions[stack[k].fn].sync THEN 0 ELSE stack[k].index

\* The system calls the handler of the next frame.
NextHandler ==
    /\ os = "Win32" /\ phase = "search" /\ ndx = 0 /\ frame > 1
    /\ frame' = frame - 1
    /\ found' = stack[frame - 1].fn
    /\ ndx' = FirstIndex(frame - 1)
    /\ UNCHANGED <<os, stack, phase, thrown, target, object, ran, thrownIn>>

\* Mutant: only the innermost section of a frame is tried.
Search_Innermost ==
    /\ os = "Win32" /\ phase = "search" /\ ndx # 0
    /\ FirstFit(found, ndx, ClassOf(thrown)) = 0
    /\ ndx' = 0
    /\ UNCHANGED <<os, stack, phase, thrown, frame, found, target, object, ran, thrownIn>>

\* _d_framehandler: a section whose catch blocks do not fit ...
Search ==
    /\ os = "Win32" /\ phase = "search" /\ ndx # 0
    /\ FirstFit(found, ndx, ClassOf(thrown)) = 0
    /\ ndx' = Guard(found, ndx).prev
    /\ UNCHANGED <<os, stack, phase, thrown, frame, found, target, object, ran, thrownIn>>

\* ... and one that has one that does: _global_unwind begins.
Find ==
    LET block == FirstFit(found, ndx, ClassOf(thrown)) IN
    /\ os = "Win32" /\ phase = "search" /\ ndx # 0 /\ block # 0
    /\ target' = [frame |-> frame, ndx |-> ndx, block |-> block]
    /\ object' = Translate(thrown)
    /\ phase' = "unwind"
    /\ frame' = Top /\ found' = stack[Top].fn /\ ndx' = FirstIndex(Top)
    /\ UNCHANGED <<os, stack, thrown, ran, thrownIn>>

\* Mutant: the frame that catches is unwound to its end.
StopIndex_None(k) == 0

StopIndex(k) == IF k = target.frame THEN target.ndx ELSE 0

\* _d_local_unwind, from table_index to the section that catches.
_d_local_unwind ==
    /\ os = "Win32" /\ phase = "unwind"
    /\ ndx # 0 /\ ndx # StopIndex(frame)
    /\ ran' = IF Guard(found, ndx).finally THEN Append(ran, <<frame, ndx>>) ELSE ran
    /\ ndx' = Guard(found, ndx).prev
    /\ UNCHANGED <<os, stack, phase, thrown, frame, found, target, object, thrownIn>>

\* _d_monitor_handler: the monitor of a frame that is unwound, its exit is the
\* section's finally block.
_d_monitor_handler == IF Functions[stack[frame].fn].sync THEN Append(ran, <<frame, 1>>) ELSE ran

\* The system calls the handler of the next frame to unwind.
Unlink ==
    /\ os = "Win32" /\ phase = "unwind" /\ ndx = 0 /\ frame > target.frame
    /\ ran' = _d_monitor_handler
    /\ stack' = SubSeq(stack, 1, frame - 1)
    /\ frame' = frame - 1 /\ found' = stack[frame - 1].fn /\ ndx' = FirstIndex(frame - 1)
    /\ UNCHANGED <<os, phase, thrown, target, object, thrownIn>>

\* Mutant: table_index stays where it was.
Resume_SameIndex(k, f, i, b) ==
    [SubSeq(stack, 1, k) EXCEPT ![k].pos = Guard(f, i).catches[b].code]

\* The frames above k are gone and its function is at the catch block; on Linux
\* nobody looks at table_index.
Resume(k, f, i, b) ==
    [SubSeq(stack, 1, k) EXCEPT ![k] = [fn |-> stack[k].fn, pos |-> Guard(f, i).catches[b].code,
                                        index |-> Guard(f, i).prev]]

\* _d_framehandler jumps to the catch block.
EnterCatch ==
    /\ os = "Win32" /\ phase = "unwind" /\ frame = target.frame /\ ndx = StopIndex(frame)
    /\ phase' = "caught"
    /\ stack' = Resume(frame, found, target.ndx, target.block)
    /\ UNCHANGED <<os, thrown, frame, found, ndx, target, object, ran, thrownIn>>

-----------------------------------------------------------------------------
(* Linux                                                                   *)

\* __eh_find_caller, __eh_finddata, and the start index for the return address.
FindCaller ==
    LET retaddr == Address[stack[frame - 1].fn] + stack[frame - 1].pos + 1 IN
    /\ os = "Linux" /\ phase = "search" /\ ndx = 0 /\ frame > 1
    /\ frame' = frame - 1
    /\ found' = __eh_finddata(retaddr)
    /\ ndx' = StartIndex(found', retaddr)
    /\ UNCHANGED <<os, stack, phase, thrown, target, object, ran, thrownIn>>

CatchBlock == FirstFit(found, ndx, thrown.class)

\* A section with a finally block, which is called, or without a block that fits.
WalkTable ==
    /\ os = "Linux" /\ phase = "search" /\ ndx # 0 /\ CatchBlock = 0
    /\ ran' = IF Guard(found, ndx).finally THEN Append(ran, <<frame, ndx>>) ELSE ran
    /\ ndx' = Guard(found, ndx).prev
    /\ UNCHANGED <<os, stack, phase, thrown, frame, found, target, object, thrownIn>>

CatchHere ==
    /\ os = "Linux" /\ phase = "search" /\ ndx # 0 /\ CatchBlock # 0
    /\ target' = [frame |-> frame, ndx |-> ndx, block |-> CatchBlock]
    /\ object' = thrown
    /\ stack' = Resume(frame, found, ndx, CatchBlock)
    /\ phase' = "caught"
    /\ UNCHANGED <<os, thrown, frame, found, ndx, ran, thrownIn>>

-----------------------------------------------------------------------------
\* Nobody catches it: the process ends, on Linux by exit(1) in _d_throw.
GiveUp ==
    /\ phase = "search" /\ ndx = 0 /\ frame = 1
    /\ phase' = "uncaught"
    /\ UNCHANGED <<os, stack, thrown, frame, found, ndx, target, object, ran, thrownIn>>

Handle ==
    \/ NextHandler \/ Search \/ Find \/ _d_local_unwind \/ Unlink \/ EnterCatch
    \/ FindCaller \/ WalkTable \/ CatchHere
    \/ GiveUp

Next ==
    \/ \E p \in Places(stack[Top].fn) : Go(p)
    \/ \E f \in DOMAIN Functions : Call(f)
    \/ Return
    \/ \E e \in Exceptional : _d_throw(e)
    \/ Handle

Spec == Init /\ [][Next]_vars

-----------------------------------------------------------------------------
(* Properties                                                              *)

TypeOK ==
    /\ os \in {"Win32", "Linux"}
    /\ phase \in Running \cup {"search", "unwind", "uncaught"}
    /\ \A k \in DOMAIN stack : /\ stack[k].fn \in DOMAIN Functions
                              /\ stack[k].pos \in Places(stack[k].fn)
                              /\ stack[k].index \in {0} \cup Indexes(stack[k].fn)
    /\ Len(stack) \in 1 .. MaxDepth
    /\ frame \in 0 .. Len(stack) + 1
    /\ found \in {0} \cup DOMAIN Functions

\* The sections around a throw, in every function on the stack, and which of two
\* is inside the other.
Scopes == UNION {{<<k, i>> : i \in {j \in Indexes(thrownIn[k].fn) :
                     Covers(thrownIn[k].fn, j, thrownIn[k].pos)}} : k \in DOMAIN thrownIn}
Inside(a, b) == a[1] > b[1] \/ (a[1] = b[1] /\ a[2] > b[2])

SectionOf(s) == Guard(thrownIn[s[1]].fn, s[2])
Block(s)     == FirstFit(thrownIn[s[1]].fn, s[2], ClassOf(thrown))
Catching     == {s \in Scopes : Block(s) # 0 /\ \A r \in Scopes : Inside(r, s) => Block(r) = 0}

\* An exception is caught by the innermost catch block around the throw that fits,
\* and nobody catches it only if there is none: the system's walk and table_index
\* come to the same as the return addresses and offsets of Linux, at the borders of
\* sections as well.
InnermostCatches ==
    /\ phase = "caught" => Catching = {<<target.frame, target.ndx>>}
    /\ phase = "uncaught" => Catching = {}

\* By then the finally blocks in between have run, each once and the inner ones
\* first, and no other.  On Linux, where they run during the search, those of an
\* exception that nobody catches have all run when the process ends.
FinallyInBetween ==
    phase = "caught" \/ (phase = "uncaught" /\ os = "Linux") =>
        /\ {ran[a] : a \in DOMAIN ran} = {s \in Scopes : /\ SectionOf(s).finally
                                        /\ \A c \in Catching : Inside(s, c)}
        /\ \A a, b \in DOMAIN ran : a < b => Inside(ran[a], ran[b])

\* The object that a catch block gets is of its type: the search and the translation
\* agree on the class of an exception of the system ("This code must match the
\* translation code").
ObjectFits ==
    phase = "caught" =>
        _d_isbaseof(object.class, Guard(found, target.ndx).catches[target.block].type)

\* Compiled code and _d_framehandler keep table_index together: it is right in a
\* catch block that was jumped to, where the next throw may come from.
IndexRight ==
    os = "Win32" /\ phase \in Running =>
        \A k \in DOMAIN stack : stack[k].index = Innermost(stack[k].fn, stack[k].pos)
=============================================================================
