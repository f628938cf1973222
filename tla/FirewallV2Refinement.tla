------------------------ MODULE FirewallV2Refinement ------------------------
(***************************************************************************)
(* The payout firewall implements the payout policy for every value of the *)
(* constants: filling a seat is Reseat, a signal of one is Endorse, the    *)
(* settlement of a true verdict is Move, and every other step changes      *)
(* nothing the policy speaks of.                                           *)
(***************************************************************************)
EXTENDS FirewallV2Proofs

USE DEF RequiredSignals, Epoch, Time, Address, WalletAddress

LEMMA EndorsementsRead ==
  ASSUME TypeOK
  PROVE  CurrentEndorsements =
           {e \in RequestId \X Accounts : ~Stale(e[1]) /\ Endorses(e[1], e[2])}
<1>1. \A s \in signalLog : <<s.request, s.reviewer>> \in RequestId \X Accounts
  BY DEF TypeOK, Signal
<1>2. \A id \in RequestId, account \in Accounts :
        Endorses(id, account) => \E s \in signalLog : <<id, account>> = <<s.request, s.reviewer>>
  BY DEF Endorses
<1> QED
  BY <1>1, <1>2 DEF CurrentEndorsements

(* Endorsements after a step, read the same way.                           *)
LEMMA EndorsementsReadNext ==
  ASSUME TypeOK'
  PROVE  CurrentEndorsements' =
           {e \in RequestId \X Accounts : ~Stale(e[1])' /\ Endorses(e[1], e[2])'}
<1>1. \A s \in signalLog' : <<s.request, s.reviewer>> \in RequestId \X Accounts
  BY DEF TypeOK, Signal
<1>2. \A id \in RequestId, account \in Accounts :
        Endorses(id, account)' =>
          \E s \in signalLog' : <<id, account>> = <<s.request, s.reviewer>>
  BY DEF Endorses
<1> QED
  BY <1>1, <1>2 DEF CurrentEndorsements

LEMMA SeatsAreThree ==
  ASSUME NEW vendor, vendor.approver \in Address, vendor.treasuryReviewer \in Address,
         vendor.riskReviewer \in Address,
         ValidReviewers(vendor.payoutWallet, vendor.approver,
                        vendor.treasuryReviewer, vendor.riskReviewer)
  PROVE  Seats(vendor) \in ThreeAccounts
<1> DEFINE a == vendor.approver
           t == vendor.treasuryReviewer
           r == vendor.riskReviewer
<1>1. a # t /\ a # r /\ t # r /\ {a, t, r} \subseteq Accounts
  BY DEF ValidReviewers, Address
<1>2. Seats(vendor) = {a, t, r}
  BY DEF Seats
<1> HIDE DEF a, t, r
<1>3. IsFiniteSet({a}) /\ Cardinality({a}) = 1
  BY FS_Singleton
<1>4. t \notin {a} /\ r \notin {a} \cup {t}
  BY <1>1
<1>5. IsFiniteSet({a} \cup {t}) /\ Cardinality({a} \cup {t}) = Cardinality({a}) + 1
  BY <1>3, <1>4, FS_AddElement
<1>6. Cardinality(({a} \cup {t}) \cup {r}) = Cardinality({a} \cup {t}) + 1
  BY <1>4, <1>5, FS_AddElement
<1>7. ({a} \cup {t}) \cup {r} = {a, t, r}
  OBVIOUS
<1> QED
  BY <1>1, <1>2, <1>3, <1>5, <1>6, <1>7 DEF ThreeAccounts, RequiredSignals

(* Nobody has endorsed a request that has not been opened.                 *)
LEMMA UnopenedUnendorsed ==
  ASSUME IInv, NEW id \in RequestId, requests[id].status = "None", NEW account \in Accounts
  PROVE  ~Endorses(id, account)
<1>1. signalSubmitted[id] = {}
  BY UnopenedUnsigned
<1> QED
  BY <1>1 DEF IInv, SignalsRecorded, SignalsOf, Endorses

-----------------------------------------------------------------------------
LEMMA InitMaps == Init => Policy!Init
<1> SUFFICES ASSUME Init PROVE Policy!Init
  OBVIOUS
<1>1. \A v \in Vendors : vendors[v].payoutWallet = Zero /\ ~vendors[v].registered
  BY DEF Init, NoVendor
<1>2. WalletOf = [v \in Vendors |-> Zero] /\ SeatsOf = [v \in Vendors |-> {}]
  BY <1>1 DEF WalletOf, SeatsOf, Registered
<1>3. CurrentEndorsements = {} /\ Spent = {}
  BY DEF Init, Unopened, Blank, CurrentEndorsements, Spent
<1> QED
  BY <1>2, <1>3 DEF Policy!Init

(* A vendor enters a new epoch: none of its requests of that epoch has     *)
(* been opened yet, so that its endorsements are void.                     *)
LEMMA EndorsementsVoided ==
  ASSUME IInv, TypeOK', NEW v \in Vendors, UNCHANGED <<requests, signalLog>>,
         vendors'[v].approverEpoch = vendors[v].approverEpoch + 1,
         \A u \in Vendors : u # v => vendors'[u] = vendors[u]
  PROVE  CurrentEndorsements' = {e \in CurrentEndorsements : VendorIdOf(e[1]) # v}
<1>1. ASSUME NEW id \in RequestId, NEW account \in Accounts
      PROVE  ~Stale(id)' /\ Endorses(id, account)' <=>
               ~Stale(id) /\ Endorses(id, account) /\ VendorIdOf(id) # v
  <2>1. Endorses(id, account)' <=> Endorses(id, account)
    BY DEF Endorses
  <2>2. id.vendorId \in Vendors /\ id.approverEpoch \in Nat
    BY EpochAssumption DEF RequestId, Epoch
  <2>3. CASE id.vendorId # v
    BY <2>1, <2>2, <2>3 DEF Stale, VendorIdOf
  <2>4. CASE id.vendorId = v
    <3>1. vendors[v].approverEpoch \in Nat
      BY EpochAssumption DEF IInv, TypeOK, Vendor
    <3>2. ~Stale(id)' => id.approverEpoch > vendors[v].approverEpoch
      BY <2>2, <2>4, <3>1 DEF Stale
    <3>3. ~Stale(id)' => requests[id].status = "None"
      BY <2>2, <2>4, <3>1, <3>2 DEF IInv, RequestShape, WellFormed
    <3> QED
      BY <2>1, <2>4, <3>3, UnopenedUnendorsed DEF VendorIdOf
  <2> QED
    BY <2>3, <2>4
<1>2. TypeOK
  BY DEF IInv
<1> QED
  BY <1>1, <1>2, EndorsementsRead, EndorsementsReadNext

LEMMA ReseatingMaps ==
  ASSUME IInv, IInv', NEW v \in Vendors, Registered(v), UNCHANGED <<requests, signalLog>>,
         vendors'[v].registered,
         vendors'[v].payoutWallet = vendors[v].payoutWallet,
         vendors'[v].approverEpoch = vendors[v].approverEpoch + 1,
         \A u \in Vendors : u # v => vendors'[u] = vendors[u]
  PROVE  Policy!Reseat(v)
<1>1. WalletOf[v] # Zero
  BY DEF WalletOf, IInv, VendorShape, ValidReviewers, Registered
<1>2. UNCHANGED <<WalletOf, Spent>>
  BY DEF WalletOf, Spent
<1>3. CurrentEndorsements' = {e \in CurrentEndorsements : VendorIdOf(e[1]) # v}
  BY EndorsementsVoided DEF IInv
<1>4. Seats(vendors'[v]) \in ThreeAccounts
  <2>1. vendors'[v] \in Vendor
    BY DEF IInv, TypeOK
  <2>2. ValidReviewers(vendors'[v].payoutWallet, vendors'[v].approver,
                       vendors'[v].treasuryReviewer, vendors'[v].riskReviewer)
    BY DEF IInv, VendorShape
  <2> QED
    BY <2>1, <2>2, SeatsAreThree DEF Vendor
<1>5. SeatsOf' = [SeatsOf EXCEPT ![v] = Seats(vendors'[v])]
  BY DEF SeatsOf, Registered
<1> QED
  BY <1>1, <1>2, <1>3, <1>4, <1>5 DEF Policy!Reseat
-----------------------------------------------------------------------------
(* Steps that keep vendors and events keep everything the policy sees but, *)
(* perhaps, what is spent.                                                 *)
LEMMA EndorsementsKept ==
  ASSUME UNCHANGED <<vendors, signalLog>>
  PROVE  UNCHANGED <<WalletOf, SeatsOf, CurrentEndorsements>>
<1>1. UNCHANGED <<WalletOf, SeatsOf>>
  BY DEF WalletOf, SeatsOf, Registered
<1>2. UNCHANGED CurrentEndorsements
  BY DEF CurrentEndorsements, Stale, Endorses
<1> QED
  BY <1>1, <1>2

LEMMA SilentStep ==
  ASSUME UNCHANGED <<vendors, requests, signalLog>>
  PROVE  UNCHANGED Policy!vars
<1>1. UNCHANGED Spent
  BY DEF Spent
<1> QED
  BY <1>1, EndorsementsKept DEF Policy!vars

LEMMA OpeningMaps ==
  ASSUME IInv, NEW sender \in Requesters, NEW v \in Vendors, NEW w \in WalletAddress,
         NEW n \in Nonces, OpenChangeRequest(sender, v, w, n)
  PROVE  UNCHANGED Policy!vars
<1> DEFINE opened == DerivedRequestId(v, w, sender, n)
<1>1. /\ requests[opened].status = "None"
      /\ requests' = [requests EXCEPT ![opened] = Blank("Collecting")]
      /\ UNCHANGED <<vendors, signalLog>>
  BY DEF OpenChangeRequest
<1> HIDE DEF opened
<1>2. \A id \in RequestId : requests'[id].approved <=> requests[id].approved
  BY <1>1 DEF IInv, TypeOK, RequestShape, WellFormed, Unopened, Blank
<1>3. UNCHANGED Spent
  BY <1>2 DEF Spent
<1> QED
  BY <1>1, <1>3, EndorsementsKept DEF Policy!vars

LEMMA SubmissionMaps ==
  ASSUME IInv, TypeOK', NEW sender \in Accounts, NEW id \in RequestId, NEW h \in Handle,
         SubmitPrivateSignal(sender, id, h)
  PROVE  Policy!Endorse(id, sender) \/ UNCHANGED Policy!vars
<1>1. /\ sender \in Seats(vendors[id.vendorId]) /\ ~Stale(id)
      /\ requests[id].status = "Collecting"
      /\ UNCHANGED vendors
      /\ signalLog' = signalLog \cup {[request |-> id, reviewer |-> sender, handle |-> h]}
  BY DEF SubmitPrivateSignal, InCurrentEpoch, Stale
<1>2. UNCHANGED <<WalletOf, SeatsOf>>
  BY <1>1 DEF WalletOf, SeatsOf, Registered
<1>3. UNCHANGED Spent
  <2>1. ~requests[id].approved
    BY <1>1 DEF IInv, RequestShape, WellFormed
  <2>2. \A other \in RequestId : requests'[other].approved <=> requests[other].approved
    BY <2>1, SignalCounted
  <2> QED
    BY <2>2 DEF Spent
<1>4. CurrentEndorsements' = IF h.value = 1
                             THEN CurrentEndorsements \cup {<<id, sender>>}
                             ELSE CurrentEndorsements
  <2>1. ASSUME NEW other \in RequestId, NEW account \in Accounts
        PROVE  /\ Stale(other)' <=> Stale(other)
               /\ Endorses(other, account)' <=>
                    \/ Endorses(other, account)
                    \/ other = id /\ account = sender /\ h.value = 1
    <3> DEFINE new == [request |-> id, reviewer |-> sender, handle |-> h]
    <3>1. new.request = id /\ new.reviewer = sender /\ new.handle = h
      OBVIOUS
    <3>2. signalLog' = signalLog \cup {new}
      BY <1>1
    <3> HIDE DEF new
    <3>3. Stale(other)' <=> Stale(other)
      BY <1>1 DEF Stale
    <3> QED
      BY <3>1, <3>2, <3>3 DEF Endorses
  <2>2. TypeOK
    BY DEF IInv
  <2> QED
    BY <1>1, <2>1, <2>2, EndorsementsRead, EndorsementsReadNext
<1>5. sender \in SeatsOf[VendorIdOf(id)]
  <2>1. id.vendorId \in Vendors /\ Registered(id.vendorId)
    BY <1>1 DEF RequestId, IInv, RequestShape, WellFormed
  <2> QED
    BY <1>1, <2>1 DEF SeatsOf, VendorIdOf
<1> QED
  BY <1>2, <1>3, <1>4, <1>5 DEF Policy!Endorse, Policy!vars

LEMMA SettlementMaps ==
  ASSUME IInv, NEW id \in RequestId, SettleApproval(id)
  PROVE  Policy!Move(id) \/ UNCHANGED Policy!vars
<1> DEFINE v == id.vendorId
           verdict == requests[id].verdict
<1>1. /\ requests[id].status = "Sealed"
      /\ vendors[v].payoutWallet = id.currentWallet
      /\ ~Stale(id)
      /\ requests' = [requests EXCEPT ![id].approved = verdict, ![id].status = "Settled"]
      /\ UNCHANGED signalLog
  BY DEF SettleApproval, WalletStillCurrent, InCurrentEpoch, Stale
<1>2. v \in Vendors /\ Registered(v) /\ ~requests[id].approved /\ verdict \in BOOLEAN
  BY <1>1 DEF RequestId, IInv, TypeOK, ChangeRequest, RequestShape, WellFormed
<1>3. /\ requests'[id].approved <=> verdict
      /\ \A other \in RequestId :
           other # id => (requests'[other].approved <=> requests[other].approved)
  BY <1>1, <1>2 DEF IInv, TypeOK, ChangeRequest
<1>4. CASE ~verdict
  <2>1. UNCHANGED vendors
    BY <1>4 DEF SettleApproval
  <2>2. UNCHANGED Spent
    BY <1>2, <1>3, <1>4 DEF Spent
  <2> QED
    BY <1>1, <2>1, <2>2, EndorsementsKept DEF Policy!vars
<1>5. CASE verdict
  <2>1. vendors' = [vendors EXCEPT ![v].payoutWallet = id.proposedWallet]
    BY <1>5 DEF SettleApproval
  <2>2. /\ vendors'[v].payoutWallet = id.proposedWallet
        /\ \A u \in Vendors :
             /\ u # v => vendors'[u] = vendors[u]
             /\ Seats(vendors'[u]) = Seats(vendors[u])
             /\ vendors'[u].approverEpoch = vendors[u].approverEpoch
             /\ vendors'[u].registered <=> vendors[u].registered
    BY <1>2, <2>1 DEF IInv, TypeOK, Vendor, Seats
  <2>3. Spent' = Spent \cup {id} /\ id \notin Spent
    BY <1>2, <1>3, <1>5 DEF Spent
  <2>4. /\ WalletOf' = [WalletOf EXCEPT ![v] = id.proposedWallet]
        /\ WalletOf[v] = id.currentWallet
    BY <1>1, <1>2, <2>2 DEF WalletOf
  <2>5. UNCHANGED SeatsOf
    BY <2>2 DEF SeatsOf, Registered
  <2>6. UNCHANGED CurrentEndorsements
    <3>1. \A other \in RequestId : Stale(other)' <=> Stale(other)
      BY <2>2 DEF Stale, RequestId
    <3>2. \A s \in signalLog : s.request \in RequestId
      BY DEF IInv, TypeOK, Signal
    <3> QED
      BY <1>1, <3>1, <3>2 DEF CurrentEndorsements, Endorses
  <2>7. \A a \in SeatsOf[v] : <<id, a>> \in CurrentEndorsements
    <3>1. SeatsOf[v] = Seats(vendors[v])
      BY <1>2 DEF SeatsOf
    <3>2. \A a \in Seats(vendors[v]) : Endorses(id, a)
      BY <1>5, SettledByUnanimity
    <3>3. Seats(vendors[v]) \subseteq Accounts
      <4>1. vendors[v] \in Vendor
        BY <1>2 DEF IInv, TypeOK
      <4>2. Zero \notin Seats(vendors[v])
        BY <1>2, SeatsCounted
      <4> QED
        BY <4>1, <4>2 DEF Vendor, Seats
    <3>4. TypeOK
      BY DEF IInv
    <3> QED
      BY <1>1, <3>1, <3>2, <3>3, <3>4, EndorsementsRead
  <2> QED
    BY <2>3, <2>4, <2>5, <2>6, <2>7 DEF Policy!Move, FromOf, ToOf, VendorIdOf
<1> QED
  BY <1>2, <1>4, <1>5

LEMMA RegistrationMaps ==
  ASSUME IInv, IInv', NEW sender \in Accounts, NEW v \in Vendors,
         NEW w \in WalletAddress, NEW a \in Address, NEW t \in Address, NEW r \in Address,
         RegisterVendor(sender, v, w, a, t, r)
  PROVE  Policy!Enrol(v)
<1> DEFINE new == [payoutWallet |-> w, approver |-> a, treasuryReviewer |-> t,
                   riskReviewer |-> r, approverEpoch |-> 1, registered |-> TRUE]
<1>1. /\ ~Registered(v)
      /\ ValidReviewers(w, a, t, r)
      /\ vendors' = [vendors EXCEPT ![v] = new]
      /\ UNCHANGED <<requests, signalLog>>
  BY DEF RegisterVendor, requestVars
<1>2. /\ new.payoutWallet = w /\ new.approver = a /\ new.registered
      /\ new.treasuryReviewer = t /\ new.riskReviewer = r
  OBVIOUS
<1> HIDE DEF new
<1>3. /\ vendors'[v] = new
      /\ \A u \in Vendors : u # v => vendors'[u] = vendors[u]
  BY <1>1 DEF IInv, TypeOK
<1>4. vendors[v].payoutWallet = Zero
  BY <1>1 DEF IInv, VendorShape, NoVendor, Registered
<1>5. w \in Wallets
  BY <1>1 DEF ValidReviewers
<1>6. WalletOf[v] = Zero /\ WalletOf' = [WalletOf EXCEPT ![v] = w]
  BY <1>2, <1>3, <1>4 DEF WalletOf
<1>7. SeatsOf' = [SeatsOf EXCEPT ![v] = Seats(new)]
  BY <1>2, <1>3 DEF SeatsOf, Registered
<1>8. Seats(new) \in ThreeAccounts
  BY <1>1, <1>2, SeatsAreThree
<1>9. UNCHANGED CurrentEndorsements
  <2>1. ASSUME NEW id \in RequestId, NEW account \in Accounts
        PROVE  ~Stale(id)' /\ Endorses(id, account)' <=> ~Stale(id) /\ Endorses(id, account)
    <3>1. Endorses(id, account)' <=> Endorses(id, account)
      BY <1>1 DEF Endorses
    <3>2. CASE id.vendorId = v
      BY <1>1, <3>1, <3>2, UnopenedUnendorsed DEF IInv, RequestShape, WellFormed
    <3>3. CASE id.vendorId # v
      BY <1>3, <3>1, <3>3 DEF Stale, RequestId
    <3> QED
      BY <3>2, <3>3
  <2>2. TypeOK /\ TypeOK'
    BY DEF IInv
  <2> QED
    BY <2>1, <2>2, EndorsementsRead, EndorsementsReadNext
<1>10. UNCHANGED Spent
  BY <1>1 DEF Spent
<1> QED
  BY <1>5, <1>6, <1>7, <1>8, <1>9, <1>10 DEF Policy!Enrol

LEMMA OperationalReseatingMaps ==
  ASSUME IInv, IInv', NEW sender \in Accounts, NEW v \in Vendors,
         NEW t \in Address, NEW r \in Address,
         SetOperationalReviewers(sender, v, t, r)
  PROVE  Policy!Reseat(v)
<1>1. /\ Registered(v)
      /\ vendors' = [vendors EXCEPT ![v].treasuryReviewer = t, ![v].riskReviewer = r,
                                    ![v].approverEpoch = vendors[v].approverEpoch + 1]
      /\ UNCHANGED <<requests, signalLog>>
  BY DEF SetOperationalReviewers, NextEpoch, requestVars
<1>2. /\ vendors'[v].registered
      /\ vendors'[v].payoutWallet = vendors[v].payoutWallet
      /\ vendors'[v].approverEpoch = vendors[v].approverEpoch + 1
      /\ \A u \in Vendors : u # v => vendors'[u] = vendors[u]
  BY <1>1 DEF IInv, TypeOK, Vendor, Registered
<1> QED
  BY <1>1, <1>2, ReseatingMaps

LEMMA ChangeOfApproverMaps ==
  ASSUME IInv, IInv', NEW v \in Vendors, NEW c \in Accounts, Registered(v),
         ChangeApprover(v, c), UNCHANGED <<requests, signalLog>>
  PROVE  Policy!Reseat(v)
<1>1. vendors' = [vendors EXCEPT ![v].approver = c,
                                 ![v].approverEpoch = vendors[v].approverEpoch + 1]
  BY DEF ChangeApprover, NextEpoch
<1>2. /\ vendors'[v].registered
      /\ vendors'[v].payoutWallet = vendors[v].payoutWallet
      /\ vendors'[v].approverEpoch = vendors[v].approverEpoch + 1
      /\ \A u \in Vendors : u # v => vendors'[u] = vendors[u]
  BY <1>1 DEF IInv, TypeOK, Vendor, Registered
<1> QED
  BY <1>2, ReseatingMaps

LEMMA GovernanceMaps ==
  ASSUME IInv, IInv', GovernanceNext
  PROVE  UNCHANGED Policy!vars \/ \E v \in Vendors : Policy!Reseat(v)
<1>1. UNCHANGED <<requests, signalLog>>
  BY RequestsUntouched DEF requestVars
<1>2. UNCHANGED vendors \/ \E v \in Vendors, c \in Accounts :
                             Registered(v) /\ ChangeApprover(v, c)
  <2>1. \A u \in Vendors :
          /\ RotationPending(u) => rotations[u].newApprover \in Accounts
          /\ RecoveryPending(u) => recoveries[u].newApprover \in Accounts
    BY DEF IInv, TypeOK, ApproverRotation, ApproverRecovery, RotationPending, RecoveryPending
  <2>2. \A u \in Vendors :
          /\ [rotations[u] EXCEPT !.currentApproved = TRUE].newApprover = rotations[u].newApprover
          /\ [rotations[u] EXCEPT !.candidateAccepted = TRUE].newApprover = rotations[u].newApprover
    BY DEF IInv, TypeOK, ApproverRotation
  <2>3. ASSUME NEW sender \in Accounts, NEW u \in Vendors,
               AcceptApproverRotation(sender, u)
                 \/ \E c \in Candidates : ApproveApproverRotation(sender, u, c)
        PROVE  \/ UNCHANGED vendors
               \/ Registered(u) /\ \E c \in Accounts : ChangeApprover(u, c)
    <3> DEFINE approved == [rotations[u] EXCEPT !.currentApproved = TRUE]
               accepted == [rotations[u] EXCEPT !.candidateAccepted = TRUE]
    <3>1. /\ Registered(u) /\ RotationPending(u)
          /\ FinalizeRotationIfReady(u, approved) \/ FinalizeRotationIfReady(u, accepted)
      BY <2>3 DEF AcceptApproverRotation, ApproveApproverRotation
    <3>2. /\ approved.newApprover = rotations[u].newApprover
          /\ accepted.newApprover = rotations[u].newApprover
      BY <2>2
    <3> HIDE DEF approved, accepted
    <3>3. UNCHANGED vendors \/ ChangeApprover(u, rotations[u].newApprover)
      BY <3>1, <3>2 DEF FinalizeRotationIfReady
    <3>4. rotations[u].newApprover \in Accounts
      BY <2>1, <3>1
    <3> QED
      BY <3>1, <3>3, <3>4
  <2>4. ASSUME NEW sender \in Accounts, NEW u \in Vendors, ExecuteApproverRecovery(sender, u)
        PROVE  Registered(u) /\ \E c \in Accounts : ChangeApprover(u, c)
    BY <2>1, <2>4 DEF ExecuteApproverRecovery
  <2> QED
    BY <2>3, <2>4
       DEF GovernanceNext, ProposeApproverRotation, ScheduleApproverRecovery,
           CancelApproverRotation, AcceptApproverRecovery, VetoApproverRecovery,
           CancelApproverRecovery, DropRecovery
<1> QED
  BY <1>1, <1>2, SilentStep, ChangeOfApproverMaps

(***************************************************************************)
(* The firewall keeps the payout policy with three seats per vendor: a     *)
(* wallet moves only by a request from this wallet that all three seat     *)
(* holders endorsed since the seats were last filled, and that request is  *)
(* then spent.                                                             *)
(***************************************************************************)
THEOREM Implementation == Spec => ImplementsPolicy
<1>1. IInv /\ IInv' /\ [Next]_vars => [Policy!Next]_(Policy!vars)
  <2> SUFFICES ASSUME IInv, IInv', [Next]_vars
               PROVE  Policy!Next \/ UNCHANGED Policy!vars
    OBVIOUS
  <2>1. CASE RequestNext
    <3>1. ASSUME NEW sender \in Accounts, NEW id \in RequestId, NEW h \in Handle,
                 SubmitPrivateSignal(sender, id, h)
          PROVE  Policy!Next \/ UNCHANGED Policy!vars
      BY <3>1, SubmissionMaps DEF IInv, Policy!Next
    <3>2. ASSUME NEW id \in RequestId, SettleApproval(id)
          PROVE  Policy!Next \/ UNCHANGED Policy!vars
      BY <3>2, SettlementMaps DEF Policy!Next
    <3> QED
      BY <2>1, <3>1, <3>2, OpeningMaps DEF RequestNext
  <2>2. CASE VendorNext
    <3>1. ASSUME NEW sender \in Accounts, NEW v \in Vendors, NEW e \in Enrolments,
                 RegisterVendor(sender, v, e[1], e[2], e[3], e[4])
          PROVE  Policy!Next
      <4>1. e[1] \in WalletAddress /\ e[2] \in Address /\ e[3] \in Address /\ e[4] \in Address
        BY SeatInputAssumption
      <4> QED
        BY <3>1, <4>1, RegistrationMaps DEF Policy!Next
    <3>2. ASSUME NEW sender \in Accounts, NEW v \in Vendors, NEW e \in Reseatings,
                 SetOperationalReviewers(sender, v, e[1], e[2])
          PROVE  Policy!Next
      <4>1. e[1] \in Address /\ e[2] \in Address
        BY SeatInputAssumption
      <4> QED
        BY <3>2, <4>1, OperationalReseatingMaps DEF Policy!Next
    <3> QED
      BY <2>2, <3>1, <3>2 DEF VendorNext
  <2>3. CASE GovernanceNext
    BY <2>3, GovernanceMaps DEF Policy!Next
  <2>4. CASE AdminNext \/ Tick \/ UNCHANGED vars
    BY <2>4, AdministrationKeepsVendors, SilentStep
  <2> QED
    BY <2>1, <2>2, <2>3, <2>4 DEF Next
<1> QED
  BY <1>1, InitMaps, Invariance, PTL DEF Spec, ImplementsPolicy, Policy!Spec
=============================================================================
