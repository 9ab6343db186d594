------------------------------- MODULE MCConsole ------------------------------
(* Values for the constants of Console.                                      *)
EXTENDS Console

CONSTANTS d1, d2, a, b, c, e

\* b and c are two rows of one reading, which was delivered twice.
MCReadingOf == [x \in {a, b, c, e} |-> IF x = c THEN b ELSE x]

MCDeviceOf == [x \in {a, b, c, e} |-> IF x = e THEN d2 ELSE d1]
MCStampOf == [x \in {a, b, c, e} |-> IF x = a THEN 1 ELSE 2]

\* The only row of d2 is still to come, one awaits its verdict.
MCStored ==
  [x \in {a, b, c, e} |->
     CASE x = e -> "absent" [] x = b -> "pending" [] OTHER -> "intact"]
=============================================================================
