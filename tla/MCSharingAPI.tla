----------------------------- MODULE MCSharingAPI -----------------------------
(* Values for the constants of SharingAPI.                                   *)
EXTENDS SharingAPI

CONSTANTS bob, root, d1

MCRole == {"analytics", "admin"}
MCRoleOf == [c \in {bob, root} |-> IF c = bob THEN "analytics" ELSE "admin"]
\* Bob's own route, one that is not his, and the same route for an admin.
MCAsked ==
  {[consumer |-> bob, device |-> d1, expected |-> "aggregated"],
   [consumer |-> bob, device |-> d1, expected |-> "full"],
   [consumer |-> root, device |-> d1, expected |-> "aggregated"]}

\* The autumn of 2025.
MCStampedAt == 1761

\* One grant by default, one after a revocation of the analytics role.
MCGrants ==
  {[readers |-> {"analytics", "admin"},
    visibility |-> [role \in MCRole |-> "aggregated"]],
   [readers |-> {"admin"},
    visibility |-> [role \in MCRole |->
                      IF role = "admin" THEN "full" ELSE "denied"]]}
=============================================================================
