----------------------------- MODULE ThreadPipe -----------------------------
(***************************************************************************)
(* tango.io.device.ThreadPipe: a circular buffer that threads write to and *)
(* read from, with one mutex and one condition for all of them.            *)
(*                                                                         *)
(* An action is one critical section of _mutex, up to its end or to the    *)
(* wait that releases _mutex.  A thread that was woken tests its loop      *)
(* condition again just as one that has entered the critical section does, *)
(* so each branch of read and write is one action for both.                *)
(***************************************************************************)
EXTENDS Integers, Sequences, FiniteSets

CONSTANTS
    Readers, Writers,   \* the threads that read and those that write
    Bytes,              \* the values of a byte
    BufferSize,         \* _buf.length
    MaxRequest,         \* bound of the model: the longest dst and src
    Eof                 \* the result at the end of the flow

ASSUME SizePositive    == BufferSize \in Nat \ {0}
ASSUME RequestPositive == MaxRequest \in Nat \ {0}
ASSUME EofIsNoData     == Eof \notin Seq(Bytes)

Threads == Readers \cup Writers

VARIABLES
    at,                 \* is a thread idle, in a read or in a write?
    dst,                \* the length of a reader's dst
    src,                \* a writer's src
    condition,          \* the threads blocked in _condition.wait()
    buf, readIdx, remaining, closed,
    result              \* history: what the call that ended last moved

call == <<at, dst, src>>
pipe == <<buf, readIdx, remaining, closed>>
vars == <<call, condition, pipe, result>>

Indices == 0 .. BufferSize - 1

Init ==
    /\ at = [t \in Threads |-> "idle"]
    /\ dst = [t \in Threads |-> 0]
    /\ src = [t \in Threads |-> <<>>]
    /\ condition = {}
    /\ buf \in [Indices -> Bytes]
    /\ readIdx = 0
    /\ remaining = 0
    /\ closed = FALSE
    /\ result = <<>>

Goto(t, from, to) == at[t] = from /\ at' = [at EXCEPT ![t] = to]

\* The call of t ends.
Return(t, from, moved) ==
    /\ Goto(t, from, "idle")
    /\ dst' = [dst EXCEPT ![t] = 0]
    /\ src' = [src EXCEPT ![t] = <<>>]
    /\ result' = moved

Least(a, b) == IF a < b THEN a ELSE b

\* Condition.notifyAll
notifyAll == condition' = {}

\* A wait may end although nobody notified.
SpuriousWakeup(t) ==
    /\ t \in condition
    /\ condition' = condition \ {t}
    /\ UNCHANGED <<call, pipe, result>>

-----------------------------------------------------------------------------
(* read                                                                    *)

\* read(dst); an empty dst returns at once and changes nothing.
CallRead(t) ==
    /\ t \in Readers
    /\ Goto(t, "idle", "read")
    /\ \E n \in 1 .. MaxRequest : dst' = [dst EXCEPT ![t] = n]
    /\ UNCHANGED <<src, condition, pipe, result>>

ReadWait(t) ==
    /\ at[t] = "read" /\ t \notin condition
    /\ remaining = 0 /\ ~closed
    /\ condition' = condition \cup {t}
    /\ UNCHANGED <<call, pipe, result>>

ReadEof(t) ==
    /\ t \notin condition
    /\ remaining = 0 /\ closed
    /\ Return(t, "read", Eof)
    /\ UNCHANGED <<condition, pipe>>

\* _buf[from .. from + n]
Slice(from, n) == [i \in 1 .. n |-> buf[from + i - 1]]

\* Mutant: the part that is read from the front of the buffer is not passed over.
Read_NotOver(t) ==
    LET r == Least(remaining, dst[t])
        x == BufferSize - readIdx IN
    /\ t \notin condition
    /\ remaining # 0
    /\ IF readIdx + r >= BufferSize
       THEN /\ Return(t, "read", Slice(readIdx, x) \o Slice(0, r - x))
            /\ readIdx' = 0
       ELSE /\ Return(t, "read", Slice(readIdx, r))
            /\ readIdx' = (readIdx + r) % BufferSize
    /\ remaining' = remaining - r
    /\ notifyAll
    /\ UNCHANGED <<buf, closed>>

\* Data that reaches the end of the buffer is copied in two parts.
Read(t) ==
    LET r == Least(remaining, dst[t])
        x == BufferSize - readIdx IN
    /\ t \notin condition
    /\ remaining # 0
    /\ IF readIdx + r >= BufferSize
       THEN /\ Return(t, "read", Slice(readIdx, x) \o Slice(0, r - x))
            /\ readIdx' = (r - x) % BufferSize
       ELSE /\ Return(t, "read", Slice(readIdx, r))
            /\ readIdx' = (readIdx + r) % BufferSize
    /\ remaining' = remaining - r
    /\ notifyAll
    /\ UNCHANGED <<buf, closed>>

-----------------------------------------------------------------------------
(* write                                                                   *)

CallWrite(t) ==
    /\ t \in Writers
    /\ Goto(t, "idle", "write")
    /\ \E n \in 1 .. MaxRequest : \E s \in [1 .. n -> Bytes] : src' = [src EXCEPT ![t] = s]
    /\ UNCHANGED <<dst, condition, pipe, result>>

WriteWait(t) ==
    /\ at[t] = "write" /\ t \notin condition
    /\ remaining = BufferSize /\ ~closed
    /\ condition' = condition \cup {t}
    /\ UNCHANGED <<call, pipe, result>>

WriteEof(t) ==
    /\ t \notin condition
    /\ closed
    /\ Return(t, "write", Eof)
    /\ UNCHANGED <<condition, pipe>>

\* _buf after the n bytes of s behind its first k were copied to _buf[from ..].
Copied(b, from, s, k, n) ==
    [i \in Indices |-> IF i \in from .. from + n - 1 THEN s[k + i - from + 1] ELSE b[i]]

Room == BufferSize - remaining

Write(t) ==
    LET w        == Least(Room, Len(src[t]))
        writeIdx == (readIdx + remaining) % BufferSize
        x        == BufferSize - writeIdx IN
    /\ t \notin condition
    /\ remaining < BufferSize /\ ~closed
    /\ Return(t, "write", SubSeq(src[t], 1, w))
    /\ buf' = IF w + writeIdx >= BufferSize
              THEN Copied(Copied(buf, writeIdx, src[t], 0, x), 0, src[t], x, w - x)
              ELSE Copied(buf, writeIdx, src[t], 0, w)
    /\ remaining' = remaining + w
    /\ notifyAll
    /\ UNCHANGED <<readIdx, closed>>

-----------------------------------------------------------------------------
(* clear, stop                                                             *)

\* Mutant: whoever waits for room is not told.
Clear_Silent(t) ==
    /\ at[t] = "idle"
    /\ remaining # 0
    /\ readIdx' = (readIdx + remaining) % BufferSize
    /\ remaining' = 0
    /\ UNCHANGED <<call, condition, buf, closed, result>>

\* clear(); on an empty pipe it changes nothing.
Clear(t) ==
    /\ at[t] = "idle"
    /\ remaining # 0
    /\ readIdx' = (readIdx + remaining) % BufferSize
    /\ remaining' = 0
    /\ notifyAll
    /\ UNCHANGED <<call, buf, closed, result>>

\* Mutant: only one of those who wait is told.
Stop_NotifyOne(t) ==
    /\ at[t] = "idle"
    /\ closed' = TRUE
    /\ \/ condition = {} /\ condition' = {}
       \/ \E u \in condition : condition' = condition \ {u}
    /\ UNCHANGED <<call, buf, readIdx, remaining, result>>

Stop(t) ==
    /\ at[t] = "idle"
    /\ closed' = TRUE
    /\ notifyAll
    /\ UNCHANGED <<call, buf, readIdx, remaining, result>>

-----------------------------------------------------------------------------
\* What a thread does once it has called read or write.
Step(t) ==
    \/ Read(t) \/ ReadEof(t) \/ ReadWait(t)
    \/ Write(t) \/ WriteEof(t) \/ WriteWait(t)

Next == \E t \in Threads :
            \/ CallRead(t) \/ CallWrite(t) \/ Step(t)
            \/ Clear(t) \/ Stop(t) \/ SpuriousWakeup(t)

Spec == Init /\ [][Next]_vars

\* A thread that is not blocked gets _mutex in the end, since nobody holds it
\* for longer than an action.  Nobody has to call anything.
Fairness == \A t \in Threads : WF_vars(Step(t))

FairSpec == Spec /\ Fairness

-----------------------------------------------------------------------------
(* Properties                                                              *)

TypeOK ==
    /\ at \in [Threads -> {"idle", "read", "write"}]
    /\ dst \in [Threads -> Nat]
    /\ src \in [Threads -> Seq(Bytes)]
    /\ condition \subseteq {t \in Threads : at[t] # "idle"}
    /\ buf \in [Indices -> Bytes]
    /\ readIdx \in Indices
    /\ remaining \in 0 .. BufferSize
    /\ closed \in BOOLEAN
    /\ result \in Seq(Bytes) \cup {Eof}

\* No lost wakeup, with readers and writers on one condition: who sleeps has
\* nothing to read or no room to write, and the pipe is open.
SleepersHaveToWait ==
    \A t \in condition :
        /\ ~closed
        /\ at[t] = "read"  => remaining = 0
        /\ at[t] = "write" => remaining = BufferSize

\* The bytes in the circular buffer, oldest first.
Content == [i \in 1 .. remaining |-> buf[(readIdx + i - 1) % BufferSize]]

\* "data is written to, and read from, in a FIFO fashion": whatever wraps around
\* and whoever waits, the pipe is a bounded stream of bytes ...
BP == INSTANCE BytePipe WITH content <- Content, Capacity <- BufferSize
ImplementsBytePipe == BP!Spec

\* ... that lets every call end that has data, room, or a closed pipe before it.
ImplementsServe == BP!Serve
=============================================================================
