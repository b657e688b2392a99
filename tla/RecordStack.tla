----------------------------- MODULE RecordStack -----------------------------
(***************************************************************************)
(* What the queue of a cluster channel promises: a stack of records that   *)
(* outlives the program that serves it.  QueueFile.tla and                 *)
(* PersistQueue.tla (tango.net.cluster.tina) are shown to implement this   *)
(* module.                                                                 *)
(***************************************************************************)
EXTENDS Integers, SequencesExt

VARIABLES
    records,        \* the stack, bottom first
    open,           \* is there a program that serves it?
    call,           \* the call in progress: what it does, and with which record
    taken           \* the record that was handed out last

vars == <<records, open, call, taken>>

NoCall == [op |-> "none", data |-> <<>>]

Init == /\ records = <<>>
        /\ open = FALSE
        /\ call = NoCall
        /\ taken = <<>>

Open == /\ ~open /\ open' = TRUE
        /\ UNCHANGED <<records, call, taken>>

Begin == /\ open /\ call = NoCall
         /\ call'.op \in {"push", "pop"}
         /\ UNCHANGED <<records, open, taken>>

Push == /\ call.op = "push" /\ call' = NoCall
        /\ records' = Append(records, call.data)
        /\ UNCHANGED <<open, taken>>

Pop == /\ call.op = "pop" /\ call' = NoCall
       /\ records # <<>>
       /\ taken' = Last(records)
       /\ records' = Front(records)
       /\ UNCHANGED open

\* The program dies.  Whatever was pushed and not popped stays, in its order; only
\* the record of the call in progress is in doubt.  A record that was being
\* popped is gone, one that was being pushed may be there, with any content.
Crash == /\ open /\ open' = FALSE /\ call' = NoCall
         /\ CASE call.op = "none" -> records' = records
              [] call.op = "pop"  -> records' = Front(records)
              [] call.op = "push" -> /\ IsPrefix(records, records')
                                     /\ Len(records') <= Len(records) + 1
         /\ UNCHANGED taken

Next == Open \/ Begin \/ Push \/ Pop \/ Crash

Spec == Init /\ [][Next]_vars
=============================================================================
