---------------------------- MODULE MCFirewallV2 ----------------------------
(***************************************************************************)
(* Small instances of the payout firewall for TLC: the accounts, and the   *)
(* inputs each run lets the owner try.                                     *)
(***************************************************************************)
EXTENDS FirewallV2Safety, TLC

CONSTANTS o, a, t, r, c, d, w1, w2, w3, s1, s2

(* o owns the contract; a, t and r hold the seats; c and d hold none.      *)
Reviewers == {o, a, t, r, c}
Everyone == {o, a, t, r, c, d}

(* One registration that stands, and one with a seat held twice.           *)
Registrations == {<<w1, a, t, r>>, <<w1, a, t, t>>}

(* The same with the seats of t and r either way round. *)
EitherWay == Registrations \cup {<<w1, a, r, t>>}

(* c replaces a reviewer; the approver is asked to sit twice.              *)
Reviews == {<<t, c>>, <<a, r>>}
NoReviews == {}

(* Two candidates, a seated reviewer, nobody.                              *)
Nominees == {c, d, r, Zero}

(* Reviewers other than the approver, destinations and handles are alike.  *)
Symmetry == Permutations({t, r}) \cup Permutations({w2, w3}) \cup Permutations({s1, s2})

(* Bound: requests opened in a behaviour, from any wallet to any other. *)
MaxRequests == 2
FewRequests == Cardinality({id \in RequestId : requests[id].status # "None"}) <= MaxRequests
=============================================================================
