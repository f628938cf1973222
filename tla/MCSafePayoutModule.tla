------------------------- MODULE MCSafePayoutModule -------------------------
(***************************************************************************)
(* A small instance of the payout module composed with the firewall: the   *)
(* Safe owns the firewall and opens requests.                              *)
(***************************************************************************)
EXTENDS SafePayoutModule, TLC

CONSTANTS s, a, t, r, w1, w2, w3, k1, k2

Registrations == {<<w1, a, t, r>>}
Symmetry == Permutations({w2, w3}) \cup Permutations({k1, k2})
=============================================================================
