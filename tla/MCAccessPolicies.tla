--------------------------- MODULE MCAccessPolicies ---------------------------
(****************************************************************************)
(* One device, one sensor type and two roles; three grants, so that the     *)
(* policies of device and type agree, differ by level, leave a role out of  *)
(* the readers or of the visibility map, and use a level unknown to visRank.*)
(****************************************************************************)
EXTENDS PolicyEditor, TLC

CONSTANTS analytics, admin

MCGrants ==
  { [readers |-> {analytics, admin},
     visibility |-> analytics :> "aggregated" @@ admin :> "full"],
    [readers |-> {admin},
     visibility |-> analytics :> "aggregated" @@ admin :> "hash-only"],
    [readers |-> {analytics, admin},
     visibility |-> analytics :> "absent" @@ admin :> "unknown"] }

\* What is pushed from the page: the role analytics is revoked.
MCForms ==
  { [readers |-> {admin},
     visibility |-> analytics :> "aggregated" @@ admin :> "hash-only"] }
=============================================================================
