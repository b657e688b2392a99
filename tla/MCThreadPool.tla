---------------------------- MODULE MCThreadPool ----------------------------
(* Model checking instance of ThreadPool: which client calls what. *)
EXTENDS ThreadPool, TLC

\* One client makes every call, another one goes on appending.
CallsAll ==
    "c1" :> {"assign", "tryAssign", "append", "finish", "shutdown"} @@ "c2" :> {"append"}

\* Two clients assign.
CallsAssign == "c1" :> {"assign"} @@ "c2" :> {"assign"}

\* One client assigns, the other one finishes.
CallsAssignFinish == "c1" :> {"assign"} @@ "c2" :> {"finish"}
=============================================================================
