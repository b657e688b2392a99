---------------------------- MODULE PersistQueue ----------------------------
(***************************************************************************)
(* tango.net.cluster.tina.ClusterQueue, class PersistQueue: the server's   *)
(* threads put records into the queue file of a channel and get them from  *)
(* it, each thread for a client of its own.  The server may stop at any    *)
(* time and be started again.                                              *)
(*                                                                         *)
(* push and pop are synchronized on the file.  What pop returns is a slice *)
(* of the file's buffer, which the thread copies to its reply when it has  *)
(* left the lock.                                                          *)
(***************************************************************************)
EXTENDS QueueFile

CONSTANT Threads        \* QueueThreads, each serves one client

VARIABLES
    open,               \* has lookup made the QueueFile?
    at,                 \* what each thread is doing
    data,               \* content of the push in progress
    taken,              \* history: the record that pop returned last
    got,                \* history: the record that it returned to each thread
    torn                \* history: did the last crash interrupt a push?

clients == <<at, data>>
history == <<taken, got, torn>>
vars == <<fileVars, open, clients, history>>

Init == /\ file = <<>>
        /\ position = 0 /\ insert = 0 /\ depth = 0 /\ current = Zero /\ buffer = <<>>
        /\ open = FALSE
        /\ at = [t \in Threads |-> "idle"]
        /\ data \in Content
        /\ taken = <<>> /\ got = [t \in Threads |-> <<>>] /\ torn = FALSE

Goto(t, from, to) == at[t] = from /\ at' = [at EXCEPT ![t] = to]

\* synchronized: nobody is inside push or pop.
Free == \A t \in Threads : at[t] \notin {"push", "pop"}

\* Any call of a client begins with it.  If the constructor throws, so does lookup,
\* and the next call tries again.
Lookup(t) ==
    /\ ~open /\ open' = TRUE
    /\ at[t] = "idle"
    /\ OpenFile
    /\ torn' = FALSE
    /\ UNCHANGED <<clients, taken, got>>

\* put; a queue that is full changes nothing.
PutHeader(t, c) ==
    /\ open /\ Free
    /\ Goto(t, "idle", "push")
    /\ data' = c
    /\ PushHeader(c)
    /\ UNCHANGED <<open, history>>

PutContent(t) ==
    /\ Goto(t, "push", "idle")
    /\ PushContent(data)
    /\ UNCHANGED <<open, data, history>>

\* get; a queue that is empty changes nothing.
GetMark(t) ==
    /\ open /\ Free
    /\ Goto(t, "idle", "pop")
    /\ PopMark
    /\ UNCHANGED <<open, data, history>>

GetRead(t) ==
    /\ Goto(t, "pop", "reply")
    /\ PopRead
    /\ taken' = SubSeq(buffer', 1, current.size)
    /\ got' = [got EXCEPT ![t] = taken']
    /\ UNCHANGED <<open, data, torn>>

\* ProtocolWriter.reply copies the slice, outside the lock.
GetReply(t) ==
    /\ Goto(t, "reply", "idle")
    /\ got' = [got EXCEPT ![t] = <<>>]
    /\ UNCHANGED <<fileVars, open, data, taken, torn>>

\* The program ends, the file stays.
Crash ==
    /\ open /\ open' = FALSE
    /\ at' = [t \in Threads |-> "idle"]
    /\ torn' = (\E t \in Threads : at[t] = "push")
    /\ got' = [t \in Threads |-> <<>>]
    /\ UNCHANGED <<fileVars, data, taken>>

Next ==
    \/ \E t \in Threads :
        \/ Lookup(t) \/ PutContent(t) \/ GetMark(t) \/ GetRead(t) \/ GetReply(t)
        \/ \E c \in Content : PutHeader(t, c)
    \/ Crash

Spec == Init /\ [][Next]_vars

-----------------------------------------------------------------------------
(* Properties                                                              *)

\* A program that starts finds every record that was put and not taken, in order, and
\* its pops lead back through all of them: a push or pop that was cut
\* off damages no record but its own.
Call == IF \E t \in Threads : at[t] = "push" THEN [op |-> "push", data |-> Pieces(data)]
        ELSE IF \E t \in Threads : at[t] = "pop" THEN [op |-> "pop", data |-> <<>>]
        ELSE [op |-> "none", data |-> <<>>]

RS == INSTANCE RecordStack WITH records <- IF open THEN Held ELSE Left, call <- Call
ImplementsRecordStack == RS!Spec

\* The constructor opens the file again, but in three cases: after a push that was cut
\* off where the file ends; when less than a header is left of the file behind the
\* last record; and when older content there passes for one.  And pop
\* never meets a file that is corrupt.
FileUsable ==
    /\ ~open /\ Sweep.fails =>
          \/ torn /\ IsHeader(file[SweepEnd + 1]) /\ RecordEnd(SweepEnd) > Len(file)
          \/ SweepEnd + HeaderSize > Len(file)
          \/ SubSeq(file, SweepEnd + 1, SweepEnd + HeaderSize) \in Lookalikes
    /\ open => ~Corrupt

\* "Returns, and removes, a matching entry" (NetworkQueue.d:75): each thread finds in
\* the buffer the record that its own pop took from the queue, when it gets
\* to copy it to the reply.
ReplyIsOwn == \A t \in Threads : at[t] = "reply" => SubSeq(buffer, 1, Len(got[t])) = got[t]
=============================================================================
