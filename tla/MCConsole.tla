------------------------------ MODULE MCConsole ------------------------------
(***************************************************************************)
(* A small instance of the reviewer console: s is the Safe, a, t and r     *)
(* hold the seats, and two of them share the browser of the tab.           *)
(***************************************************************************)
EXTENDS Console, TLC

CONSTANTS s, a, t, r, w1, w2

Registrations == {<<w1, a, t, r>>}

(* A paused or ownerless firewall makes transactions revert, as any of     *)
(* them may here: the run stays with one that the Safe owns and runs.      *)
Running == ~paused /\ owner = s

(* Bounds: positions sealed in the tab, requests opened, refusals counted. *)
MaxPositions == 2
MaxOpenings == 2
MaxRefusals == 1
Few ==
  /\ Cardinality(sealed) <= MaxPositions
  /\ Len(openings) <= MaxOpenings
  /\ Cardinality({e \in signalLog : e.handle.value = 0}) <= MaxRefusals
=============================================================================
