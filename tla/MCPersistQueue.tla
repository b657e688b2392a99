--------------------------- MODULE MCPersistQueue ---------------------------
(* Model checking instance of PersistQueue. *)
EXTENDS PersistQueue, TLC

CONSTANTS short, long

\* A record of one cell and one of two.
Sizes == short :> 1 @@ long :> 2

\* The last four bytes of the long record are two equal halves, as in "aaaa": with zeros
\* behind them they pass for a header.
EqualHalves == {<<[of |-> long, piece |-> 2], Zero>>}
=============================================================================
