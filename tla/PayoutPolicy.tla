---------------------------- MODULE PayoutPolicy ----------------------------
(***************************************************************************)
(* What the payout firewall promises a treasury, with no requests in sight *)
(* of being opened, counted, sealed or settled: a vendor's payout wallet   *)
(* moves only by a proposal that starts from that wallet, that everyone    *)
(* who holds a reviewer seat has endorsed since the seats were last        *)
(* filled, and that has not moved the wallet before.                       *)
(*                                                                         *)
(* README.md: "Settle a true verdict | Vendor payout wallet changes once"; *)
(* "Reviewer changes increment an epoch, so old collecting or sealed       *)
(* requests cannot survive a role change".                                 *)
(***************************************************************************)
CONSTANTS Vendors, Accounts, Wallets, NoWallet, Proposals,
          Seatings,                     \* sets of accounts that may hold the seats
          From(_), To(_), VendorOf(_)   \* the fields of a proposal

VARIABLES
  wallet,    \* the address a payout to the vendor goes to
  seats,     \* the accounts that hold the vendor's reviewer seats
  endorsed,  \* <<proposal, account>>: who endorsed what, in this tenure
  spent      \* proposals that have moved a wallet

vars == <<wallet, seats, endorsed, spent>>

Init ==
  /\ wallet = [v \in Vendors |-> NoWallet]
  /\ seats = [v \in Vendors |-> {}]
  /\ endorsed = {}
  /\ spent = {}

Enrol(v) ==
  /\ wallet[v] = NoWallet
  /\ \E w \in Wallets : wallet' = [wallet EXCEPT ![v] = w]
  /\ \E S \in Seatings : seats' = [seats EXCEPT ![v] = S]
  /\ UNCHANGED <<endorsed, spent>>

(* Filling seats anew, even with the same accounts, voids endorsements.    *)
Reseat(v) ==
  /\ wallet[v] # NoWallet
  /\ \E S \in Seatings : seats' = [seats EXCEPT ![v] = S]
  /\ endorsed' = {e \in endorsed : VendorOf(e[1]) # v}
  /\ UNCHANGED <<wallet, spent>>

Endorse(p, a) ==
  /\ a \in seats[VendorOf(p)]
  /\ endorsed' = endorsed \cup {<<p, a>>}
  /\ UNCHANGED <<wallet, seats, spent>>

Move(p) ==
  LET v == VendorOf(p)
  IN /\ wallet[v] = From(p)
     /\ p \notin spent
     /\ \A a \in seats[v] : <<p, a>> \in endorsed
     /\ wallet' = [wallet EXCEPT ![v] = To(p)]
     /\ spent' = spent \cup {p}
     /\ UNCHANGED <<seats, endorsed>>

Next ==
  \/ \E v \in Vendors : Enrol(v) \/ Reseat(v)
  \/ \E p \in Proposals : Move(p) \/ \E a \in Accounts : Endorse(p, a)

Spec == Init /\ [][Next]_vars
=============================================================================
