--------------------------- MODULE MCLocalGateway ---------------------------
(***************************************************************************)
(* Small instances of the local gateway.                                   *)
(***************************************************************************)
EXTENDS LocalGateway, TLC

CONSTANTS a1, a2, r1, r2, r3

OneApproval == {[approver |-> a1]}
TwoApprovals == {[approver |-> a1], [approver |-> a2]}

(* The two halves of the gateway share the count of restarts and the       *)
(* firewall, nothing else: a behaviour uses the one or the other.          *)
OneHalf == minted = {} \/ (bits = {} /\ \A r \in Approvals : approvals[r] = {})

(* Bound: signals sealed in all lives together. *)
MaxMinted == 5
FewMinted == Cardinality(minted) <= MaxMinted

Symmetry == Permutations({r1, r2, r3})
=============================================================================
