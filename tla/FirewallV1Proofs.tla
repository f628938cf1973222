-------------------------- MODULE FirewallV1Proofs --------------------------
(***************************************************************************)
(* Theorems about the first payout firewall, for every set of vendors,     *)
(* accounts, wallets, nonces and handles.                                  *)
(***************************************************************************)
EXTENDS FirewallV1, TLAPS

LEMMA InitIInv == Init => IInv
<1> SUFFICES ASSUME Init PROVE IInv
  OBVIOUS
<1>1. TypeOK
  BY AbsenceAssumption DEF Init, TypeOK, Blank, ChangeRequest
<1>2. \A id \in RequestId : WellFormed(id)
  BY DEF Init, WellFormed, Blank
<1>3. ApprovalServesOneRequest
  BY DEF Init, ApprovalServesOneRequest, Blank
<1> QED
  BY <1>1, <1>2, <1>3 DEF IInv

LEMMA RegisteredVendor ==
  ASSUME TypeOK, NEW v \in Vendors, vendors[v].registered
  PROVE  vendors[v] \in Vendor
<1>1. ~NoVendor.registered
  BY DEF NoVendor
<1> QED
  BY <1>1 DEF TypeOK

LEMMA RegisterVendorStep ==
  ASSUME IInv, NEW v \in Vendors, NEW w \in Wallets \cup {Zero},
         NEW a \in Accounts \cup {Zero}, RegisterVendor(v, w, a)
  PROVE  IInv'
<1>1. vendors' = [vendors EXCEPT ![v] =
        [payoutWallet |-> w, approver |-> a, registered |-> TRUE]]
  BY DEF RegisterVendor
<1>2. w \in Wallets /\ a \in Accounts /\ ~vendors[v].registered
  BY DEF RegisterVendor, NonZero, Unregistered
<1>3. TypeOK'
  <2>1. [payoutWallet |-> w, approver |-> a, registered |-> TRUE] \in Vendor
    BY <1>2 DEF Vendor
  <2>2. vendors' \in [Vendors -> Vendor \cup {NoVendor}]
    BY <1>1, <2>1 DEF IInv, TypeOK
  <2> QED
    BY <2>2 DEF RegisterVendor, IInv, TypeOK
<1>4. ASSUME NEW id \in RequestId PROVE WellFormed(id)'
  <2>1. requests'[id] = requests[id] /\ id.vendorId \in Vendors
    BY DEF RegisterVendor, RequestId
  <2>2. CASE id.vendorId = v
    BY <1>2, <2>1, <2>2 DEF IInv, WellFormed, TypeOK, ChangeRequest, Blank
  <2>3. CASE id.vendorId # v
    BY <1>1, <2>1, <2>3 DEF IInv, WellFormed, TypeOK
  <2> QED
    BY <2>2, <2>3
<1>5. ApprovalServesOneRequest'
  BY DEF RegisterVendor, IInv, ApprovalServesOneRequest
<1> QED
  BY <1>3, <1>4, <1>5 DEF IInv

LEMMA OpenChangeRequestStep ==
  ASSUME IInv, NEW sender \in Requesters, NEW v \in Vendors, NEW w \in Wallets \cup {Zero},
         NEW n \in Nonces, OpenChangeRequest(sender, v, w, n)
  PROVE  IInv'
<1> DEFINE opened == DerivedRequestId(v, w, sender, n)
<1>1. opened \in RequestId /\ opened.vendorId = v
  <2>1. vendors[v] \in Vendor
    BY RegisteredVendor DEF OpenChangeRequest, IInv
  <2>2. w \in Wallets
    BY DEF OpenChangeRequest
  <2> QED
    BY <2>1, <2>2 DEF DerivedRequestId, RequestId, Vendor
<1>2. /\ requests[opened].status = "None"
      /\ vendors[v].registered
      /\ requests' = [requests EXCEPT ![opened] = Blank("Pending")]
      /\ movedBefore' = [movedBefore EXCEPT ![opened] = Moves(v)]
      /\ UNCHANGED <<vendors, handleUsedBy>>
  BY DEF OpenChangeRequest
<1> HIDE DEF opened
<1>3. Moves(v) \in SUBSET RequestId
  BY DEF Moves
<1>4. TypeOK'
  BY <1>1, <1>2, <1>3 DEF IInv, TypeOK, Blank, ChangeRequest
<1>5. ASSUME NEW id \in RequestId PROVE WellFormed(id)'
  BY <1>1, <1>2 DEF IInv, WellFormed, TypeOK, Blank, RequestId
<1>6. ApprovalServesOneRequest'
  <2>1. requests[opened] = Blank("None")
    BY <1>1, <1>2 DEF IInv, WellFormed
  <2> QED
    BY <1>1, <1>2, <2>1, AbsenceAssumption
       DEF IInv, TypeOK, ApprovalServesOneRequest, Blank
<1> QED
  BY <1>4, <1>5, <1>6 DEF IInv

LEMMA SealApprovalStep ==
  ASSUME IInv, NEW sender \in Accounts, NEW id \in RequestId, NEW h \in Handle,
         SealApproval(sender, id, h)
  PROVE  IInv'
<1>1. /\ handleUsedBy[h] = NoRequest
      /\ requests[id] = Blank("Pending")
      /\ h.owner = vendors[id.vendorId].approver
      /\ requests' = [requests EXCEPT ![id].sealedApproval = h, ![id].status = "Sealed"]
      /\ handleUsedBy' = [handleUsedBy EXCEPT ![h] = id]
      /\ UNCHANGED <<vendors, movedBefore>>
  BY DEF SealApproval, IsApprover, UnusedHandle, IInv, WellFormed
<1>2. requests'[id] = [sealedApproval |-> h, approved |-> FALSE, status |-> "Sealed"]
  BY <1>1 DEF IInv, TypeOK, Blank
<1>3. \A other \in RequestId : other # id => requests'[other] = requests[other]
  BY <1>1 DEF IInv, TypeOK
<1>4. TypeOK'
  BY <1>1, <1>2 DEF IInv, TypeOK, ChangeRequest
<1>5. ASSUME NEW other \in RequestId PROVE WellFormed(other)'
  <2>1. vendors[id.vendorId].registered
    BY <1>1 DEF IInv, WellFormed, Blank
  <2>2. CASE other = id
    <3>1. vendors' = vendors
      BY <1>1
    <3>2. /\ requests'[id].status = "Sealed"
          /\ requests'[id].sealedApproval = h
          /\ ~requests'[id].approved
      BY <1>2
    <3> QED
      BY <1>1, <2>1, <2>2, <3>1, <3>2 DEF WellFormed
  <2>3. CASE other # id
    BY <1>1, <1>3, <2>3 DEF IInv, WellFormed
  <2> QED
    BY <2>2, <2>3
<1>6. ApprovalServesOneRequest'
  BY <1>1, <1>2, <1>3, AbsenceAssumption
     DEF IInv, TypeOK, ApprovalServesOneRequest, Blank
<1> QED
  BY <1>4, <1>5, <1>6 DEF IInv

LEMMA SettleApprovalStep ==
  ASSUME IInv, NEW id \in RequestId, SettleApproval(id)
  PROVE  IInv'
<1> DEFINE approved == requests[id].sealedApproval.approves
<1>1. /\ requests[id].status = "Sealed" /\ requests[id].sealedApproval \in Handle
      /\ vendors[id.vendorId].registered
      /\ requests' = [requests EXCEPT ![id].approved = approved, ![id].status = "Settled"]
      /\ vendors' = IF approved
                    THEN [vendors EXCEPT ![id.vendorId].payoutWallet = id.proposedWallet]
                    ELSE vendors
      /\ UNCHANGED <<handleUsedBy, movedBefore>>
  BY DEF SettleApproval, IInv, WellFormed
<1>2. approved \in BOOLEAN /\ id.vendorId \in Vendors /\ id.proposedWallet \in Wallets
  BY <1>1 DEF Handle, RequestId
<1> HIDE DEF approved
<1>3. /\ requests'[id].sealedApproval = requests[id].sealedApproval
      /\ requests'[id].approved <=> approved
      /\ requests'[id].status = "Settled"
  BY <1>1 DEF IInv, TypeOK, ChangeRequest
<1>4. \A other \in RequestId : other # id => requests'[other] = requests[other]
  BY <1>1 DEF IInv, TypeOK
<1>5. \A v \in Vendors : /\ vendors'[v].approver = vendors[v].approver
                         /\ vendors'[v].registered <=> vendors[v].registered
  BY <1>1, <1>2 DEF IInv, TypeOK, Vendor, NoVendor
<1>6. TypeOK'
  <2> DEFINE paid == [vendors[id.vendorId] EXCEPT !.payoutWallet = id.proposedWallet]
  <2>3. vendors[id.vendorId] \in Vendor
    BY <1>1, <1>2, RegisteredVendor DEF IInv
  <2>4. paid \in Vendor
    BY <1>2, <2>3 DEF Vendor
  <2>5. vendors' = IF approved THEN [vendors EXCEPT ![id.vendorId] = paid] ELSE vendors
    BY <1>1
  <2> HIDE DEF paid
  <2>1. vendors' \in [Vendors -> Vendor \cup {NoVendor}]
    BY <1>2, <2>4, <2>5 DEF IInv, TypeOK
  <2>2. requests' \in [RequestId -> ChangeRequest]
    BY <1>1, <1>2 DEF IInv, TypeOK, ChangeRequest
  <2> QED
    BY <1>1, <2>1, <2>2 DEF IInv, TypeOK
<1>7. ASSUME NEW other \in RequestId PROVE WellFormed(other)'
  <2>1. other.vendorId \in Vendors
    BY DEF RequestId
  <2>2. CASE other = id
    BY <1>1, <1>3, <1>5, <2>1, <2>2 DEF IInv, WellFormed, TypeOK, ChangeRequest
  <2>3. CASE other # id
    BY <1>4, <1>5, <2>1, <2>3 DEF IInv, WellFormed
  <2> QED
    BY <2>2, <2>3
<1>8. ApprovalServesOneRequest'
  <2>1. \A other \in RequestId :
          /\ requests'[other].sealedApproval = requests[other].sealedApproval
          /\ requests'[other].status \in {"Sealed", "Settled"}
               => requests[other].status \in {"Sealed", "Settled"}
    BY <1>1, <1>3, <1>4
  <2> QED
    BY <1>1, <2>1 DEF IInv, TypeOK, ApprovalServesOneRequest
<1> QED
  BY <1>6, <1>7, <1>8 DEF IInv

LEMMA StutterStep == IInv /\ UNCHANGED vars => IInv'
BY DEF vars, IInv, TypeOK, WellFormed, ApprovalServesOneRequest

(***************************************************************************)
(* The contract's state keeps the inductive invariant.                     *)
(***************************************************************************)
THEOREM Invariance == Spec => []IInv
<1>1. IInv /\ [Next]_vars => IInv'
  BY RegisterVendorStep, OpenChangeRequestStep, SealApprovalStep, SettleApprovalStep,
     StutterStep DEF Next
<1> QED
  BY <1>1, InitIInv, PTL DEF Spec

(***************************************************************************)
(* Every variable of the first firewall keeps its type.                    *)
(***************************************************************************)
THEOREM TypeCorrectness == Spec => []TypeOK
BY Invariance, PTL DEF IInv

(***************************************************************************)
(* No sealed approval is ever applied to a second request.                 *)
(***************************************************************************)
THEOREM ApprovalsServeOneRequest == Spec => []ApprovalServesOneRequest
BY Invariance, PTL DEF IInv
(***************************************************************************)
(* A vendor's wallet moves only by a settlement that its approver's sealed *)
(* bit authorises, and nobody takes over a registered vendor.              *)
(***************************************************************************)
THEOREM ApprovedMoves == Spec => WalletMovesByApproval
<1> DEFINE Moved(v, id) ==
             /\ id.vendorId = v
             /\ id.currentWallet = vendors[v].payoutWallet
             /\ id.proposedWallet = vendors'[v].payoutWallet
             /\ requests[id].status = "Sealed" /\ requests'[id].status = "Settled"
             /\ requests[id].sealedApproval.owner = vendors[v].approver
             /\ requests[id].sealedApproval.approves
           Authorised(v) == /\ vendors'[v].approver = vendors[v].approver
                            /\ \E id \in RequestId : Moved(v, id)
<1>1. ASSUME IInv, NEW v \in Vendors, vendors[v].registered, vendors'[v] # vendors[v],
             NEW id \in RequestId, SettleApproval(id)
      PROVE  Authorised(v)
  <2>1. vendors' = [vendors EXCEPT ![id.vendorId].payoutWallet = id.proposedWallet]
    BY <1>1 DEF SettleApproval
  <2>2. id.vendorId = v
    BY <1>1, <2>1 DEF IInv, TypeOK
  <2>3. vendors[v] \in Vendor
    BY <1>1, RegisteredVendor DEF IInv
  <2>4. vendors'[v] = [vendors[v] EXCEPT !.payoutWallet = id.proposedWallet]
    BY <1>1, <2>1, <2>2 DEF IInv, TypeOK
  <2>5. /\ vendors'[v].payoutWallet = id.proposedWallet
        /\ vendors'[v].approver = vendors[v].approver
    BY <2>3, <2>4 DEF Vendor
  <2>6. requests'[id].status = "Settled"
    BY <1>1 DEF SettleApproval, IInv, TypeOK, ChangeRequest
  <2>7. requests[id].sealedApproval.owner = vendors[v].approver
    BY <1>1, <2>2 DEF SettleApproval, IInv, WellFormed
  <2> QED
    BY <1>1, <2>2, <2>5, <2>6, <2>7 DEF SettleApproval, WalletStillCurrent
<1>2. ASSUME IInv, [Next]_vars, NEW v \in Vendors, vendors[v].registered,
             vendors'[v] # vendors[v], ~Authorised(v)
      PROVE  FALSE
  <2>1. ASSUME NEW u \in Vendors, NEW w \in Wallets \cup {Zero},
               NEW a \in Accounts \cup {Zero}, RegisterVendor(u, w, a)
        PROVE  vendors'[v] = vendors[v]
    BY <1>2, <2>1 DEF RegisterVendor, Unregistered, IInv, TypeOK
  <2> HIDE DEF Authorised
  <2> QED
    BY <1>1, <1>2, <2>1 DEF Next, OpenChangeRequest, SealApproval, vars
<1>3. IInv /\ [Next]_vars =>
        \A v \in Vendors :
          vendors[v].registered /\ vendors'[v] # vendors[v] => Authorised(v)
  BY <1>2
<1> QED
  BY <1>3, Invariance, PTL DEF Spec, WalletMovesByApproval

-----------------------------------------------------------------------------
(* The contract implements the payout policy, action by action.            *)

LEMMA InitMaps == Init => Policy!Init
<1> SUFFICES ASSUME Init PROVE Policy!Init
  OBVIOUS
<1>1. \A v \in Vendors : vendors[v].payoutWallet = Zero /\ ~vendors[v].registered
  BY DEF Init, NoVendor
<1>2. WalletOf = [v \in Vendors |-> Zero] /\ SeatsOf = [v \in Vendors |-> {}]
  BY <1>1 DEF WalletOf, SeatsOf
<1>3. Endorsements = {} /\ Spent = {}
  BY DEF Init, Blank, Endorsements, Endorses, Spent
<1> QED
  BY <1>2, <1>3 DEF Policy!Init

LEMMA RegistrationMaps ==
  ASSUME IInv, NEW v \in Vendors, NEW w \in Wallets \cup {Zero},
         NEW a \in Accounts \cup {Zero}, RegisterVendor(v, w, a)
  PROVE  Policy!Enrol(v)
<1> DEFINE new == [payoutWallet |-> w, approver |-> a, registered |-> TRUE]
<1>1. /\ w \in Wallets /\ a \in Accounts /\ ~vendors[v].registered
      /\ vendors' = [vendors EXCEPT ![v] = new]
      /\ UNCHANGED requests
  BY DEF RegisterVendor, NonZero, Unregistered
<1>2. vendors[v].payoutWallet = Zero
  <2>1. vendors[v] \in Vendor => vendors[v].registered
    BY DEF Vendor
  <2>2. NoVendor.payoutWallet = Zero
    BY DEF NoVendor
  <2> QED
    BY <1>1, <2>1, <2>2 DEF IInv, TypeOK
<1>3. new.payoutWallet = w /\ new.approver = a /\ new.registered
  OBVIOUS
<1> HIDE DEF new
<1>4. WalletOf[v] = Zero /\ WalletOf' = [WalletOf EXCEPT ![v] = w]
  BY <1>1, <1>2, <1>3 DEF WalletOf, IInv, TypeOK
<1>5. SeatsOf' = [SeatsOf EXCEPT ![v] = {a}]
  BY <1>1, <1>3 DEF SeatsOf, IInv, TypeOK
<1>6. {a} \in OneAccount
  BY <1>1 DEF OneAccount
<1>7. UNCHANGED <<Endorsements, Spent>>
  BY <1>1 DEF Endorsements, Endorses, Spent
<1> QED
  BY <1>1, <1>4, <1>5, <1>6, <1>7 DEF Policy!Enrol

LEMMA OpeningMaps ==
  ASSUME IInv, NEW sender \in Requesters, NEW v \in Vendors, NEW w \in Wallets \cup {Zero},
         NEW n \in Nonces, OpenChangeRequest(sender, v, w, n)
  PROVE  UNCHANGED Policy!vars
<1> DEFINE opened == DerivedRequestId(v, w, sender, n)
<1>1. /\ requests[opened].status = "None"
      /\ requests' = [requests EXCEPT ![opened] = Blank("Pending")]
      /\ UNCHANGED vendors
  BY DEF OpenChangeRequest
<1> HIDE DEF opened
<1>2. \A id \in RequestId :
        /\ requests'[id].sealedApproval = requests[id].sealedApproval
        /\ requests'[id].approved <=> requests[id].approved
  BY <1>1 DEF IInv, TypeOK, WellFormed, Blank
<1>3. UNCHANGED <<WalletOf, SeatsOf>>
  BY <1>1 DEF WalletOf, SeatsOf
<1>4. UNCHANGED <<Endorsements, Spent>>
  BY <1>2 DEF Endorsements, Endorses, Spent
<1> QED
  BY <1>3, <1>4 DEF Policy!vars

LEMMA SealingMaps ==
  ASSUME IInv, NEW sender \in Accounts, NEW id \in RequestId, NEW h \in Handle,
         SealApproval(sender, id, h)
  PROVE  Policy!Endorse(id, sender) \/ UNCHANGED Policy!vars
<1>1. /\ requests[id] = Blank("Pending")
      /\ h.owner = sender /\ sender = vendors[id.vendorId].approver
      /\ requests' = [requests EXCEPT ![id].sealedApproval = h, ![id].status = "Sealed"]
      /\ UNCHANGED vendors
  BY DEF SealApproval, IsApprover, IInv, WellFormed
<1>2. /\ requests'[id].sealedApproval = h
      /\ requests[id].sealedApproval = NoHandle
      /\ requests'[id].approved <=> requests[id].approved
      /\ \A other \in RequestId : other # id => requests'[other] = requests[other]
  BY <1>1 DEF IInv, TypeOK, ChangeRequest, Blank
<1>3. UNCHANGED <<WalletOf, SeatsOf, Spent>>
  BY <1>1, <1>2 DEF WalletOf, SeatsOf, Spent
<1>4. h # NoHandle
  BY AbsenceAssumption
<1>5. /\ h.approves => Endorsements' = Endorsements \cup {<<id, sender>>}
      /\ ~h.approves => Endorsements' = Endorsements
  <2>1. \A other \in RequestId, account \in Accounts :
          Endorses(other, account)' <=>
            \/ Endorses(other, account)
            \/ other = id /\ h.approves /\ account = sender
    BY <1>1, <1>2, <1>4 DEF Endorses
  <2> QED
    BY <2>1 DEF Endorsements
<1>6. VendorIdOf(id) \in Vendors /\ vendors[id.vendorId].registered
  BY <1>1 DEF VendorIdOf, RequestId, IInv, WellFormed, Blank
<1>7. sender \in SeatsOf[VendorIdOf(id)]
  BY <1>1, <1>6 DEF SeatsOf, VendorIdOf
<1> QED
  BY <1>3, <1>5, <1>7 DEF Policy!Endorse, Policy!vars

LEMMA SettlementMaps ==
  ASSUME IInv, NEW id \in RequestId, SettleApproval(id)
  PROVE  Policy!Move(id) \/ UNCHANGED Policy!vars
<1> DEFINE v == id.vendorId
<1>1. /\ requests[id].status = "Sealed" /\ requests[id].sealedApproval \in Handle
      /\ requests[id].sealedApproval.owner = vendors[v].approver
      /\ vendors[v].registered /\ vendors[v].payoutWallet = id.currentWallet
      /\ ~requests[id].approved
  BY DEF SettleApproval, WalletStillCurrent, IInv, WellFormed
<1>2. requests' = [requests EXCEPT ![id].approved = requests[id].sealedApproval.approves,
                                   ![id].status = "Settled"]
  BY DEF SettleApproval
<1>3. v \in Vendors /\ requests[id].sealedApproval.approves \in BOOLEAN
  BY <1>1 DEF RequestId, Handle
<1>4. /\ \A other \in RequestId :
           requests'[other].sealedApproval = requests[other].sealedApproval
      /\ \A other \in RequestId :
           other # id => (requests'[other].approved <=> requests[other].approved)
      /\ requests'[id].approved <=> requests[id].sealedApproval.approves
  BY <1>2, <1>3 DEF IInv, TypeOK, ChangeRequest
<1>5. UNCHANGED Endorsements
  BY <1>4 DEF Endorsements, Endorses
<1>6. CASE ~requests[id].sealedApproval.approves
  <2>1. UNCHANGED Spent
    BY <1>1, <1>4, <1>6 DEF Spent
  <2>2. UNCHANGED <<WalletOf, SeatsOf>>
    BY <1>6 DEF SettleApproval, WalletOf, SeatsOf
  <2> QED
    BY <1>5, <2>1, <2>2 DEF Policy!vars
<1>7. CASE requests[id].sealedApproval.approves
  <2>1. vendors' = [vendors EXCEPT ![v].payoutWallet = id.proposedWallet]
    BY <1>7 DEF SettleApproval
  <2>2. /\ vendors'[v].payoutWallet = id.proposedWallet
        /\ \A u \in Vendors : /\ vendors'[u].approver = vendors[u].approver
                              /\ vendors'[u].registered <=> vendors[u].registered
        /\ \A u \in Vendors : u # v => vendors'[u] = vendors[u]
    BY <1>3, <2>1 DEF IInv, TypeOK, Vendor, NoVendor
  <2>3. Spent' = Spent \cup {id} /\ id \notin Spent
    BY <1>1, <1>4, <1>7 DEF Spent
  <2>4. WalletOf' = [WalletOf EXCEPT ![v] = id.proposedWallet] /\ WalletOf[v] = id.currentWallet
    BY <1>1, <1>3, <2>2 DEF WalletOf
  <2>5. UNCHANGED SeatsOf
    BY <2>2 DEF SeatsOf
  <2>6. SeatsOf[v] = {vendors[v].approver} /\ <<id, vendors[v].approver>> \in Endorsements
    BY <1>1, <1>3, <1>7, AbsenceAssumption DEF SeatsOf, Endorsements, Endorses, Handle
  <2> QED
    BY <1>5, <2>3, <2>4, <2>5, <2>6 DEF Policy!Move, FromOf, ToOf, VendorIdOf
<1> QED
  BY <1>6, <1>7

(***************************************************************************)
(* The first firewall keeps the payout policy with one seat per vendor:    *)
(* every wallet move spends, once, a request of this wallet endorsed by    *)
(* the vendor's approver.                                                  *)
(***************************************************************************)
THEOREM Implementation == Spec => ImplementsPolicy
<1>1. IInv /\ [Next]_vars => [Policy!Next]_(Policy!vars)
  <2> SUFFICES ASSUME IInv, [Next]_vars PROVE [Policy!Next]_(Policy!vars)
    OBVIOUS
  <2>1. ASSUME NEW v \in Vendors, NEW w \in Wallets \cup {Zero},
               NEW a \in Accounts \cup {Zero}, RegisterVendor(v, w, a)
        PROVE  Policy!Next
    BY <2>1, RegistrationMaps DEF Policy!Next
  <2>2. ASSUME NEW sender \in Accounts, NEW id \in RequestId, NEW h \in Handle,
               SealApproval(sender, id, h)
        PROVE  Policy!Next \/ UNCHANGED Policy!vars
    BY <2>2, SealingMaps DEF Policy!Next
  <2>3. ASSUME NEW id \in RequestId, SettleApproval(id)
        PROVE  Policy!Next \/ UNCHANGED Policy!vars
    BY <2>3, SettlementMaps DEF Policy!Next
  <2>4. UNCHANGED vars => UNCHANGED Policy!vars
    BY DEF vars, Policy!vars, WalletOf, SeatsOf, Endorsements, Endorses, Spent
  <2> QED
    BY <2>1, <2>2, <2>3, <2>4, OpeningMaps DEF Next
<1> QED
  BY <1>1, InitMaps, Invariance, PTL DEF Spec, ImplementsPolicy, Policy!Spec
=============================================================================
