------------------------------ MODULE MCPipeline ------------------------------
(****************************************************************************)
(* Small instances of the pipeline for TLC: a handful of readings, each     *)
(* with a content of its own, and one content that was never published.     *)
(****************************************************************************)
EXTENDS Redeployment, TLC

CONSTANTS r1, r2, p1, p2

MCPayloadOf == [rid \in RecordId |-> IF rid = r1 THEN p1 ELSE p2]
=============================================================================
