-------------------------- MODULE WitnessedReadings --------------------------
(****************************************************************************)
(* What the pipeline promises to those who read from it: a reading is only  *)
(* served once the ledger holds a record of it, and such a record is never  *)
(* withdrawn, even while the reading is not served.                         *)
(****************************************************************************)
CONSTANT Reading

VARIABLES
  witnessed,   \* the readings the ledger holds a record of
  served       \* the readings that strict mode serves

Init ==
  /\ witnessed = {}
  /\ served = {}

Witness(r) ==
  /\ r \notin witnessed
  /\ witnessed' = witnessed \cup {r}
  /\ UNCHANGED served

Serve(r) ==
  /\ r \in witnessed
  /\ served' = served \cup {r}
  /\ UNCHANGED witnessed

Withdraw(r) ==
  /\ served' = served \ {r}
  /\ UNCHANGED witnessed

Next == \E r \in Reading : Witness(r) \/ Serve(r) \/ Withdraw(r)

Spec == Init /\ [][Next]_<<witnessed, served>>
=============================================================================
