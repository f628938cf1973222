-------------------------- MODULE MCTreasuryScripts --------------------------
(***************************************************************************)
(* A small instance of the treasury's scripts: every script, one nonce.    *)
(***************************************************************************)
EXTENDS TreasuryScripts

CONSTANTS s, k, t, r, c, d, lw, live, spare, demo

DemoReviewers == <<c, t, r>>
(* The live vendor with another approver, the demo vendor with another     *)
(* wallet, the vendor of the recovery with its candidate in the seat.      *)
Typed == {<<live, lw, c, t, r>>, <<demo, k, c, t, r>>, <<spare, lw, d, t, r>>}
=============================================================================
