----------------------------- MODULE Redeployment -----------------------------
(****************************************************************************)
(* The pipeline over a ledger that is set up anew: full_fabric_start.sh      *)
(* tears the network down, volumes included, and leaves the SQLite file and  *)
(* the two processes alone.                                                 *)
(****************************************************************************)
EXTENDS Pipeline

\* Every record is gone, and every transaction on its way to a block; whoever
\* waits for one gets False from store_hash.  It counts as a failure.
Wipe ==
  /\ Fault
  /\ ledger' = [rid \in RecordId |-> NoRecord]
  /\ ordered' = {}
  /\ ingest' = IF ingest.step # "await" THEN ingest
               ELSE [ingest EXCEPT !.step = "settle", !.verdict = "failed"]
  /\ UNCHANGED <<tableVars, recheckVars, edited>>

RedeployNext == Next \/ Wipe

RedeploySpec == Init /\ [][RedeployNext]_vars

\* Nobody has to set the network up anew.
RedeployFairSpec == RedeploySpec /\ Fairness

----------------------------------------------------------------------------
(****************************************************************************)
(* The inductive invariant behind what the readers of the table see: the    *)
(* two processes never have the only row of a reading in hand together.     *)
(****************************************************************************)
\* The bound on the messages.
RowsFit == Len(readings) <= MaxRows

\* The row of the message in hand waits for the verdict of its callback.
RowInHandIsPending ==
  ingest.step # "idle" /\ Alone(Len(readings)) =>
    readings[Len(readings)].verified = "pending"

\* The readings the re-verifier holds copies of have a row, which is settled and
\* stays so if it is the only one.
BatchIsSettled ==
  \A j \in DOMAIN batch :
    /\ RowsOf(batch[j].rid) # {}
    /\ \A i \in RowsOf(batch[j].rid) :
         Alone(i) => readings[i].verified \in {"intact", "tampered"}

SettlementIInv ==
  /\ WellFormed
  /\ RowsFit
  /\ RowInHandIsPending
  /\ VerdictIsDecided
  /\ BatchIsSettled
=============================================================================
