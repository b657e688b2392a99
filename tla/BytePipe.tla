------------------------------ MODULE BytePipe ------------------------------
(***************************************************************************)
(* What a ThreadPipe promises: a bounded first-in first-out stream of      *)
(* bytes that many threads write to and read from.  A write moves as much  *)
(* as there is room for, a read as much as there is; both wait while that  *)
(* is nothing, until the write end is closed.                              *)
(***************************************************************************)
EXTENDS Integers, Sequences

CONSTANTS
    Threads, Bytes, Capacity,
    Eof                 \* the result at the end of the flow

VARIABLES
    at,                 \* is a thread idle, in a read or in a write?
    dst,                \* the length a reader asks for
    src,                \* what a writer hands in
    content,            \* the bytes in the pipe, oldest first
    closed,             \* is the write end closed?
    result              \* what the call that ended last moved

call  == <<at, dst, src>>
pvars == <<call, content, closed, result>>

Least(a, b) == IF a < b THEN a ELSE b

Init ==
    /\ at = [t \in Threads |-> "idle"]
    /\ dst = [t \in Threads |-> 0]
    /\ src = [t \in Threads |-> <<>>]
    /\ content = <<>>
    /\ closed = FALSE
    /\ result = <<>>

Call(t) ==
    /\ at[t] = "idle"
    /\ \/ /\ at' = [at EXCEPT ![t] = "read"]
          /\ dst'[t] > 0 /\ dst' = [dst EXCEPT ![t] = dst'[t]]
          /\ UNCHANGED src
       \/ /\ at' = [at EXCEPT ![t] = "write"]
          /\ src'[t] # <<>> /\ src' = [src EXCEPT ![t] = src'[t]]
          /\ UNCHANGED dst
    /\ UNCHANGED <<content, closed, result>>

Finish(t, call_, result_) ==
    /\ at[t] = call_ /\ at' = [at EXCEPT ![t] = "idle"]
    /\ result' = result_
    /\ dst' = [dst EXCEPT ![t] = 0]
    /\ src' = [src EXCEPT ![t] = <<>>]
    /\ UNCHANGED closed

Read(t) ==
    LET n == Least(dst[t], Len(content)) IN
    /\ content # <<>>
    /\ Finish(t, "read", SubSeq(content, 1, n))
    /\ content' = SubSeq(content, n + 1, Len(content))

ReadEof(t) ==
    /\ closed /\ content = <<>>
    /\ Finish(t, "read", Eof)
    /\ UNCHANGED content

Write(t) ==
    LET moved == SubSeq(src[t], 1, Least(Len(src[t]), Capacity - Len(content))) IN
    /\ ~closed /\ Len(content) < Capacity
    /\ Finish(t, "write", moved)
    /\ content' = content \o moved

WriteEof(t) ==
    /\ closed
    /\ Finish(t, "write", Eof)
    /\ UNCHANGED content

Clear == content' = <<>> /\ UNCHANGED <<call, closed, result>>

Stop == closed' = TRUE /\ UNCHANGED <<call, content, result>>

End(t) == Read(t) \/ ReadEof(t) \/ Write(t) \/ WriteEof(t)

Next == (\E t \in Threads : Call(t) \/ End(t)) \/ Clear \/ Stop

Spec == Init /\ [][Next]_pvars

\* A call that can end all the time does end.
Serve == \A t \in Threads : WF_pvars(End(t))
=============================================================================
