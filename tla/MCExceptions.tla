---------------------------- MODULE MCExceptions ----------------------------
EXTENDS Exceptions

Tree == [Object |-> null, Exception |-> "Object", PlatformException |-> "Exception"]

Catch(type, code) == [type |-> type, code |-> code]
Try(first, last, prev, catches) ==
    [first |-> first, last |-> last, prev |-> prev, catches |-> catches, finally |-> FALSE]
TryFinally(first, last, prev) ==
    [first |-> first, last |-> last, prev |-> prev, catches |-> <<>>, finally |-> TRUE]

Runner == [size |-> 5, sync |-> FALSE,
           guards |-> <<Try(2, 3, 0, <<Catch("Object", 4)>>)>>]

Plain == [size |-> 3, sync |-> FALSE, guards |-> <<>>]

Synchronized == [size |-> 4, sync |-> TRUE,
                 guards |-> <<TryFinally(2, 3, 0)>>]

\* try { try { try {} catch (PlatformException) {} } finally {} }
\* catch (PlatformException) {} catch (Exception) {}
Nested == [size |-> 13, sync |-> FALSE,
           guards |-> <<Try(3, 10, 0, <<Catch("PlatformException", 11), Catch("Exception", 12)>>),
                        TryFinally(4, 8, 1),
                        Try(5, 6, 2, <<Catch("PlatformException", 7)>>)>>]

AllFunctions == <<Runner, Plain, Synchronized, Nested>>
Addresses == <<0, 5, 8, 12>>
=============================================================================
