-------------------------- MODULE FirewallV2Proofs --------------------------
(***************************************************************************)
(* Proofs about the payout firewall, for every set of vendors, accounts,   *)
(* wallets, nonces and signals, and every width of the epoch counter.      *)
(***************************************************************************)
EXTENDS FirewallV2Safety, FiniteSetTheorems, TLAPS

USE DEF RequiredSignals, Epoch, Time, Address, WalletAddress

LEMMA ZeroValues ==
  /\ NoVendor \in Vendor
  /\ Unopened \in ChangeRequest
  /\ NoRotation \in ApproverRotation
  /\ NoRecovery \in ApproverRecovery
BY EpochAssumption, TimeAssumption
   DEF NoVendor, Vendor, Unopened, Blank, ChangeRequest, NoRotation, ApproverRotation,
       NoRecovery, ApproverRecovery

(* A contract without vendors and requests, whoever owns it, at any time.  *)
Fresh ==
  /\ vendors = [v \in Vendors |-> NoVendor]
  /\ requests = [id \in RequestId |-> Unopened]
  /\ signalSubmitted = [id \in RequestId |-> {}]
  /\ handleUsedBy = [h \in Handle |-> NoRequest]
  /\ rotations = [v \in Vendors |-> NoRotation]
  /\ recoveries = [v \in Vendors |-> NoRecovery]
  /\ owner \in Address
  /\ pendingOwner \in Address
  /\ paused = FALSE
  /\ now \in Time
  /\ signalLog = {}
  /\ proposal = [v \in Vendors |-> [voters |-> {}, since |-> 0]]

LEMMA FreshIInv == Fresh => IInv
<1> SUFFICES ASSUME Fresh PROVE IInv
  OBVIOUS
<1>1. TypeOK
  <2>1. paused \in BOOLEAN
    BY DEF Fresh
  <2>2. QED
    BY <2>1, ZeroValues, TimeAssumption DEF Fresh, TypeOK
<1>2. VendorShape
  BY DEF Fresh, VendorShape, NoVendor
<1>3. ProposalShape
  BY DEF Fresh, ProposalShape, OneProposal, RotationPending, RecoveryPending, NoRotation, NoRecovery
<1>4. RequestShape
  BY DEF Fresh, RequestShape, WellFormed, Unopened, Blank
<1>5. SignalsRecorded
  BY FS_EmptySet DEF Fresh, SignalsRecorded, SignalsOf, Unopened, Blank
<1>6. ScoreIsUnanimity
  BY DEF Fresh, ScoreIsUnanimity, SignalsOf, Unopened, Blank
<1>7. HandlesRecorded
  BY DEF Fresh, HandlesRecorded, HandleCountsOnce
<1>8. SignersHoldSeats
  BY DEF Fresh, SignersHoldSeats
<1>9. ConsentIsGenuine
  BY DEF Fresh, ConsentIsGenuine, NoRotation, NoRecovery
<1> QED
  BY <1>1, <1>2, <1>3, <1>4, <1>5, <1>6, <1>7, <1>8, <1>9 DEF IInv

LEMMA InitIInv == Init => IInv
<1>1. Init => Fresh
  BY SenderAssumption, TimeAssumption DEF Init, Fresh
<1>2. QED
  BY <1>1, FreshIInv
-----------------------------------------------------------------------------
(* How a step may change the vendors: it registers one, keeps its seats and *)
(* epoch, or ends its epoch.                                               *)
VendorsAdvance ==
  \A v \in Vendors :
    /\ Registered(v) => vendors'[v].registered
    /\ \/ ~Registered(v)
       \/ /\ Seats(vendors'[v]) = Seats(vendors[v])
          /\ vendors'[v].approverEpoch = vendors[v].approverEpoch
       \/ vendors'[v].approverEpoch = vendors[v].approverEpoch + 1

(* A request that has not been opened has no signers.                      *)
LEMMA UnopenedUnsigned ==
  ASSUME IInv, NEW id \in RequestId, requests[id].status = "None"
  PROVE  signalSubmitted[id] = {}
<1>1. requests[id].signalCount = 0
  BY DEF IInv, RequestShape, WellFormed, Unopened, Blank
<1>2. IsFiniteSet(signalSubmitted[id]) /\ Cardinality(signalSubmitted[id]) = 0
  BY <1>1 DEF IInv, SignalsRecorded
<1> QED
  BY <1>2, FS_EmptySet

(* Steps that leave requests and signals alone keep what the invariant     *)
(* says of them, as long as they end an epoch whenever they change a seat. *)
LEMMA RequestsKept ==
  ASSUME IInv, UNCHANGED requestVars, vendors' \in [Vendors -> Vendor], VendorsAdvance
  PROVE  /\ RequestShape'
         /\ SignalsRecorded'
         /\ ScoreIsUnanimity'
         /\ HandlesRecorded'
         /\ SignersHoldSeats'
<1> USE DEF requestVars
<1>1. RequestShape'
  <2> SUFFICES ASSUME NEW id \in RequestId, requests[id].status # "None"
               PROVE  /\ vendors'[id.vendorId].registered
                      /\ id.approverEpoch <= vendors'[id.vendorId].approverEpoch
    BY DEF IInv, RequestShape, WellFormed, Registered
  <2>1. id.vendorId \in Vendors /\ id.approverEpoch \in Nat
    BY EpochAssumption DEF RequestId
  <2>2. /\ Registered(id.vendorId)
        /\ id.approverEpoch <= vendors[id.vendorId].approverEpoch
    BY DEF IInv, RequestShape, WellFormed
  <2>3. vendors[id.vendorId] \in Vendor /\ vendors'[id.vendorId] \in Vendor
    BY <2>1 DEF IInv, TypeOK
  <2> QED
    BY <2>1, <2>2, <2>3, EpochAssumption DEF VendorsAdvance, Vendor
<1>2. SignalsRecorded'
  BY DEF IInv, SignalsRecorded, SignalsOf
<1>3. ScoreIsUnanimity'
  BY DEF IInv, ScoreIsUnanimity, SignalsOf
<1>4. HandlesRecorded'
  BY DEF IInv, HandlesRecorded, HandleCountsOnce
<1>5. SignersHoldSeats'
  <2> SUFFICES ASSUME NEW id \in RequestId, ~Stale(id)'
               PROVE  signalSubmitted[id] \subseteq Seats(vendors'[id.vendorId])
    BY DEF SignersHoldSeats
  <2>1. id.vendorId \in Vendors /\ id.approverEpoch \in Nat
    BY EpochAssumption DEF RequestId
  <2>2. vendors[id.vendorId].approverEpoch \in Nat
    BY <2>1, EpochAssumption DEF IInv, TypeOK, Vendor
  <2>3. CASE requests[id].status = "None"
    BY <2>3, UnopenedUnsigned
  <2>4. CASE requests[id].status # "None"
    <3>1. /\ Registered(id.vendorId)
          /\ id.approverEpoch <= vendors[id.vendorId].approverEpoch
      BY <2>4 DEF IInv, RequestShape, WellFormed
    <3>2. /\ Seats(vendors'[id.vendorId]) = Seats(vendors[id.vendorId])
          /\ ~Stale(id)
      BY <3>1, <2>1, <2>2 DEF VendorsAdvance, Stale
    <3> QED
      BY <3>2 DEF IInv, SignersHoldSeats
  <2> QED
    BY <2>3, <2>4
<1> QED
  BY <1>1, <1>2, <1>3, <1>4, <1>5
(* Steps that leave proposals and approvers alone keep the consents.       *)
LEMMA GovernanceKept ==
  ASSUME IInv, UNCHANGED governanceVars,
         \A v \in Vendors : Registered(v) => /\ vendors'[v].registered
                                             /\ vendors'[v].approver = vendors[v].approver
  PROVE  ProposalShape' /\ ConsentIsGenuine'
<1> USE DEF governanceVars, RotationPending, RecoveryPending, NoRotation, NoRecovery
<1>1. ProposalShape'
  BY DEF IInv, ProposalShape, OneProposal, Registered
<1>2. ConsentIsGenuine'
  BY DEF IInv, ProposalShape, OneProposal, ConsentIsGenuine, Registered
<1> QED
  BY <1>1, <1>2

(* Steps that change no vendor keep the shape of every vendor's record.    *)
LEMMA VendorsKept ==
  ASSUME IInv, UNCHANGED vendors
  PROVE  /\ VendorShape'
         /\ VendorsAdvance
         /\ vendors' \in [Vendors -> Vendor]
<1>1. VendorShape'
  BY DEF IInv, VendorShape, Registered
<1>2. VendorsAdvance
  BY DEF VendorsAdvance, Registered
<1>3. vendors' \in [Vendors -> Vendor]
  BY DEF IInv, TypeOK
<1> QED
  BY <1>1, <1>2, <1>3

-----------------------------------------------------------------------------
LEMMA RegisterVendorStep ==
  ASSUME IInv, NEW sender \in Accounts, NEW v \in Vendors,
         NEW w \in WalletAddress, NEW a \in Address, NEW t \in Address, NEW r \in Address,
         RegisterVendor(sender, v, w, a, t, r)
  PROVE  IInv'
<1> USE DEF RegisterVendor
<1>1. vendors' \in [Vendors -> Vendor]
  BY EpochAssumption DEF IInv, TypeOK, Vendor
<1>2. VendorShape'
  BY <1>1 DEF IInv, TypeOK, VendorShape, ValidReviewers
<1>3. VendorsAdvance
  BY DEF IInv, TypeOK, VendorsAdvance, Registered
<1>4. ProposalShape' /\ ConsentIsGenuine'
  BY GovernanceKept DEF IInv, TypeOK, Registered
<1>5. TypeOK'
  BY <1>1 DEF IInv, TypeOK, requestVars, governanceVars, adminVars
<1> QED
  BY <1>1, <1>2, <1>3, <1>4, <1>5, RequestsKept DEF IInv

LEMMA SetOperationalReviewersStep ==
  ASSUME IInv, NEW sender \in Accounts, NEW v \in Vendors,
         NEW t \in Address, NEW r \in Address,
         SetOperationalReviewers(sender, v, t, r)
  PROVE  IInv'
<1> USE DEF SetOperationalReviewers
<1>1. vendors' \in [Vendors -> Vendor]
  BY EpochAssumption DEF IInv, TypeOK, Vendor, EpochAvailable, NextEpoch
<1>2. VendorShape'
  BY <1>1, EpochAssumption
     DEF IInv, TypeOK, Vendor, VendorShape, ValidReviewers, NextEpoch, Registered
<1>3. VendorsAdvance
  BY DEF IInv, TypeOK, Vendor, VendorsAdvance, Registered, NextEpoch
<1>4. ProposalShape' /\ ConsentIsGenuine'
  BY GovernanceKept DEF IInv, TypeOK, Vendor, Registered
<1>5. TypeOK'
  BY <1>1 DEF IInv, TypeOK, requestVars, governanceVars, adminVars
<1> QED
  BY <1>1, <1>2, <1>3, <1>4, <1>5, RequestsKept DEF IInv

LEMMA OpenChangeRequestStep ==
  ASSUME IInv, NEW sender \in Requesters, NEW v \in Vendors,
         NEW w \in WalletAddress, NEW n \in Nonces,
         OpenChangeRequest(sender, v, w, n)
  PROVE  IInv'
<1> DEFINE id == DerivedRequestId(v, w, sender, n)
           opened == Blank("Collecting")
<1> USE DEF OpenChangeRequest
<1>1. /\ opened \in ChangeRequest
      /\ opened.status = "Collecting" /\ opened.signalCount = 0
      /\ opened.aggregateScore = 0 /\ ~opened.approved
  BY DEF Blank, ChangeRequest
<1>2. id.vendorId = v /\ id.approverEpoch = vendors[v].approverEpoch
  BY DEF DerivedRequestId
<1>3. requests' = [requests EXCEPT ![id] = opened]
  OBVIOUS
<1> HIDE DEF opened, id
<1>4. TypeOK'
  BY <1>1, <1>3 DEF IInv, TypeOK, governanceVars, adminVars
<1>5. VendorShape' /\ ProposalShape' /\ ConsentIsGenuine'
  BY GovernanceKept, VendorsKept DEF Registered
<1>6. RequestShape'
  BY <1>1, <1>2, <1>3, EpochAssumption
     DEF IInv, TypeOK, Vendor, RequestShape, WellFormed, Registered
<1>7. \A i \in RequestId :
        /\ requests'[i].signalCount = requests[i].signalCount
        /\ requests'[i].aggregateScore = requests[i].aggregateScore
  BY <1>1, <1>3 DEF IInv, TypeOK, RequestShape, WellFormed, Unopened, Blank, id
<1>8. SignalsRecorded' /\ ScoreIsUnanimity'
  BY <1>7 DEF IInv, SignalsRecorded, ScoreIsUnanimity, SignalsOf
<1>9. HandlesRecorded' /\ SignersHoldSeats'
  BY DEF IInv, HandlesRecorded, HandleCountsOnce, SignersHoldSeats, Stale
<1> QED
  BY <1>4, <1>5, <1>6, <1>8, <1>9 DEF IInv

LEMMA SettleApprovalStep ==
  ASSUME IInv, NEW id \in RequestId, SettleApproval(id)
  PROVE  IInv'
<1> USE DEF SettleApproval
<1>1. id.vendorId \in Vendors /\ id.proposedWallet \in Wallets
  BY DEF RequestId
<1>2. Registered(id.vendorId)
  BY DEF IInv, RequestShape, WellFormed
<1>3. /\ vendors' \in [Vendors -> Vendor]
      /\ \A v \in Vendors :
           /\ vendors'[v].approver = vendors[v].approver
           /\ vendors'[v].treasuryReviewer = vendors[v].treasuryReviewer
           /\ vendors'[v].riskReviewer = vendors[v].riskReviewer
           /\ vendors'[v].approverEpoch = vendors[v].approverEpoch
           /\ vendors'[v].registered <=> vendors[v].registered
           /\ \/ vendors'[v] = vendors[v]
              \/ Registered(v) /\ vendors'[v].payoutWallet \in Wallets
  <2>1. CASE requests[id].verdict
    <3>1. vendors' = [vendors EXCEPT ![id.vendorId].payoutWallet = id.proposedWallet]
      BY <2>1
    <3> QED
      BY <1>1, <1>2, <3>1 DEF IInv, TypeOK, Vendor, Registered
  <2>2. CASE ~requests[id].verdict
    BY <2>2 DEF IInv, TypeOK
  <2> QED
    BY <2>1, <2>2
<1>4. /\ requests' \in [RequestId -> ChangeRequest]
      /\ requests'[id].status = "Settled"
      /\ \A i \in RequestId :
           /\ requests'[i].signalCount = requests[i].signalCount
           /\ requests'[i].aggregateScore = requests[i].aggregateScore
           /\ requests'[i].verdict <=> requests[i].verdict
           /\ i # id => requests'[i] = requests[i]
  BY DEF IInv, TypeOK, ChangeRequest
<1>5. TypeOK'
  BY <1>3, <1>4 DEF IInv, TypeOK, governanceVars, adminVars
<1>6. VendorShape'
  <2> SUFFICES ASSUME NEW v \in Vendors, vendors'[v] # vendors[v]
               PROVE  /\ vendors'[v].registered
                      /\ vendors'[v].approverEpoch >= 1
                      /\ ValidReviewers(vendors'[v].payoutWallet, vendors'[v].approver,
                                        vendors'[v].treasuryReviewer, vendors'[v].riskReviewer)
    BY DEF IInv, VendorShape
  <2> QED
    BY <1>3, AddressAssumption DEF IInv, VendorShape, ValidReviewers, Registered
<1>7. ProposalShape' /\ ConsentIsGenuine'
  BY <1>3, GovernanceKept DEF Registered
<1>8. RequestShape'
  <2>1. \A i \in RequestId : i.vendorId \in Vendors
    BY DEF RequestId
  <2>2. \A i \in RequestId : i # id => WellFormed(i)'
    BY <1>3, <1>4, <2>1 DEF IInv, RequestShape, WellFormed, Registered
  <2>3. WellFormed(id)'
    BY <1>2, <1>3, <1>4, <2>1 DEF IInv, TypeOK, ChangeRequest, RequestShape, WellFormed, Registered
  <2> QED
    BY <2>2, <2>3 DEF RequestShape
<1>9. SignalsRecorded' /\ ScoreIsUnanimity'
  BY <1>4 DEF IInv, SignalsRecorded, ScoreIsUnanimity, SignalsOf
<1>10. HandlesRecorded'
  BY DEF IInv, HandlesRecorded, HandleCountsOnce
<1>11. SignersHoldSeats'
  BY <1>3 DEF IInv, SignersHoldSeats, Stale, Seats, RequestId
<1> QED
  BY <1>5, <1>6, <1>7, <1>8, <1>9, <1>10, <1>11 DEF IInv
(* A signal counts one if it is one, and nothing otherwise.                *)
LEMMA SanitizedIsBit ==
  ASSUME NEW n \in SignalValues
  PROVE  Sanitized(n) = IF n = 1 THEN 1 ELSE 0
<1>1. n \in Nat
  BY SignalAssumption
<1> QED
  BY <1>1 DEF Sanitized

(* What counting one more signal does to the request it is for.            *)
LEMMA SignalCounted ==
  ASSUME IInv, NEW sender \in Accounts, NEW id \in RequestId, NEW h \in Handle,
         SubmitPrivateSignal(sender, id, h)
  PROVE  /\ requests' \in [RequestId -> ChangeRequest]
         /\ requests[id].status = "Collecting"
         /\ requests[id].aggregateScore \in Nat /\ requests[id].signalCount \in 0..2
         /\ requests[id].aggregateScore <= requests[id].signalCount
         /\ requests'[id].signalCount = requests[id].signalCount + 1
         /\ requests'[id].aggregateScore =
              requests[id].aggregateScore + IF h.value = 1 THEN 1 ELSE 0
         /\ ~requests'[id].approved
         /\ requests'[id].status =
              IF requests'[id].signalCount = RequiredSignals THEN "Sealed" ELSE "Collecting"
         /\ requests'[id].verdict <=>
              requests'[id].signalCount = RequiredSignals
                /\ requests'[id].aggregateScore = RequiredSignals
         /\ \A i \in RequestId : i # id => requests'[i] = requests[i]
<1> DEFINE request == requests[id]
           aggregate == IF request.signalCount = 0
                        THEN Sanitized(h.value)
                        ELSE request.aggregateScore + Sanitized(h.value)
           last == request.signalCount + 1 = RequiredSignals
           status == IF last THEN "Sealed" ELSE request.status
           verdict == last /\ Verdict(aggregate)
<1>1. /\ request \in ChangeRequest
      /\ request.status = "Collecting"
      /\ request.signalCount \in 0..2
      /\ request.aggregateScore \in Nat
      /\ request.aggregateScore <= request.signalCount
      /\ ~request.approved
  BY DEF SubmitPrivateSignal, IInv, TypeOK, RequestShape, WellFormed, ChangeRequest
<1>2. h.value \in SignalValues
  BY DEF Handle
<1>3. Sanitized(h.value) = IF h.value = 1 THEN 1 ELSE 0
  BY <1>2, SanitizedIsBit
<1>4. /\ aggregate = request.aggregateScore + IF h.value = 1 THEN 1 ELSE 0
      /\ aggregate \in 0..RequiredSignals
  BY <1>1, <1>3
<1>5. requests' = [requests EXCEPT ![id] =
                    [request EXCEPT !.aggregateScore = aggregate,
                                    !.signalCount = @ + 1,
                                    !.verdict = verdict,
                                    !.status = status]]
  BY DEF SubmitPrivateSignal
<1>6. verdict \in BOOLEAN /\ (verdict <=> last /\ aggregate = RequiredSignals)
  BY DEF Verdict
<1>7. status = IF last THEN "Sealed" ELSE "Collecting"
  BY <1>1
<1> HIDE DEF aggregate, verdict, status
<1>8. requests \in [RequestId -> ChangeRequest]
  BY DEF IInv, TypeOK
<1>9. /\ requests'[id].aggregateScore = aggregate
      /\ requests'[id].signalCount = request.signalCount + 1
      /\ requests'[id].verdict <=> verdict
      /\ requests'[id].status = status
      /\ ~requests'[id].approved
  BY <1>1, <1>5, <1>6, <1>8 DEF ChangeRequest
<1>10. requests' \in [RequestId -> ChangeRequest]
  <2>1. /\ request.signalCount + 1 \in 0..RequiredSignals
        /\ status \in {"None", "Collecting", "Sealed", "Settled"}
    BY <1>1, <1>7
  <2>2. \A n \in 0..RequiredSignals :
          [request EXCEPT !.aggregateScore = aggregate, !.signalCount = n,
                          !.verdict = verdict, !.status = status] \in ChangeRequest
    BY <1>1, <1>4, <1>6, <2>1 DEF ChangeRequest
  <2> QED
    BY <1>5, <1>8, <2>1, <2>2
<1>11. \A i \in RequestId : i # id => requests'[i] = requests[i]
  BY <1>5, <1>8
<1> QED
  BY <1>1, <1>4, <1>6, <1>7, <1>9, <1>10, <1>11

LEMMA SubmitPrivateSignalStep ==
  ASSUME IInv, NEW sender \in Accounts, NEW id \in RequestId, NEW h \in Handle,
         SubmitPrivateSignal(sender, id, h)
  PROVE  IInv'
<1> DEFINE new == [request |-> id, reviewer |-> sender, handle |-> h]
<1>1. /\ signalLog' = signalLog \cup {new}
      /\ signalSubmitted' = [signalSubmitted EXCEPT ![id] = @ \cup {sender}]
      /\ handleUsedBy' = [handleUsedBy EXCEPT ![h] = id]
      /\ UNCHANGED <<vendors, governanceVars, adminVars, now>>
  BY DEF SubmitPrivateSignal
<1>2. /\ new.request = id /\ new.reviewer = sender /\ new.handle = h
      /\ new \in Signal
  BY DEF Signal
<1> HIDE DEF new
<1>3. /\ \A i \in RequestId : i # id => SignalsOf(i)' = SignalsOf(i)
      /\ SignalsOf(id)' = SignalsOf(id) \cup {new}
  BY <1>1, <1>2 DEF SignalsOf
<1>4. TypeOK'
  BY <1>1, <1>2, SignalCounted DEF IInv, TypeOK, governanceVars, adminVars
<1>5. VendorShape' /\ ProposalShape' /\ ConsentIsGenuine'
  BY <1>1, GovernanceKept, VendorsKept DEF Registered
<1>6. RequestShape'
  <2>1. \A i \in RequestId : i # id => WellFormed(i)'
    BY <1>1, SignalCounted DEF IInv, RequestShape, WellFormed, Registered
  <2>2. WellFormed(id)'
    BY <1>1, SignalCounted DEF IInv, RequestShape, WellFormed, Registered
  <2> QED
    BY <2>1, <2>2 DEF RequestShape
<1>7. SignalsRecorded'
  <2> SUFFICES ASSUME NEW i \in RequestId
               PROVE  /\ \A s \in SignalsOf(i)' : s.reviewer \in signalSubmitted'[i]
                      /\ \A account \in signalSubmitted'[i] :
                           \E s \in SignalsOf(i)' : s.reviewer = account
                      /\ IsFiniteSet(signalSubmitted'[i])
                      /\ Cardinality(signalSubmitted'[i]) = requests'[i].signalCount
    BY DEF SignalsRecorded
  <2>1. CASE i # id
    BY <2>1, <1>1, <1>3, SignalCounted DEF IInv, TypeOK, SignalsRecorded
  <2>2. CASE i = id
    <3>1. signalSubmitted'[id] = signalSubmitted[id] \cup {sender}
      BY <1>1 DEF IInv, TypeOK
    <3>2. /\ IsFiniteSet(signalSubmitted[id])
          /\ Cardinality(signalSubmitted[id]) = requests[id].signalCount
          /\ sender \notin signalSubmitted[id]
      BY DEF IInv, SignalsRecorded, SubmitPrivateSignal
    <3>3. /\ IsFiniteSet(signalSubmitted'[id])
          /\ Cardinality(signalSubmitted'[id]) = requests[id].signalCount + 1
      <4>1. /\ IsFiniteSet(signalSubmitted[id] \cup {sender})
            /\ Cardinality(signalSubmitted[id] \cup {sender}) =
                 Cardinality(signalSubmitted[id]) + 1
        BY <3>2, FS_AddElement
      <4> QED
        BY <3>1, <3>2, <4>1
    <3>4. /\ \A s \in SignalsOf(id)' : s.reviewer \in signalSubmitted'[id]
          /\ \A account \in signalSubmitted'[id] :
               \E s \in SignalsOf(id)' : s.reviewer = account
      BY <1>2, <1>3, <3>1 DEF IInv, SignalsRecorded
    <3> QED
      BY <2>2, <3>3, <3>4, SignalCounted
  <2> QED
    BY <2>1, <2>2
<1>8. ScoreIsUnanimity'
  <2> SUFFICES ASSUME NEW i \in RequestId
               PROVE  requests'[i].aggregateScore = requests'[i].signalCount
                        <=> \A s \in SignalsOf(i)' : s.handle.value = 1
    BY DEF ScoreIsUnanimity
  <2>1. CASE i # id
    BY <2>1, <1>3, SignalCounted DEF IInv, ScoreIsUnanimity
  <2>2. CASE i = id
    <3>1. requests'[id].aggregateScore = requests'[id].signalCount
            <=> requests[id].aggregateScore = requests[id].signalCount /\ h.value = 1
      BY SignalCounted
    <3>2. (\A s \in SignalsOf(id)' : s.handle.value = 1)
            <=> (\A s \in SignalsOf(id) : s.handle.value = 1) /\ h.value = 1
      BY <1>2, <1>3
    <3> QED
      BY <2>2, <3>1, <3>2 DEF IInv, ScoreIsUnanimity
  <2> QED
    BY <2>1, <2>2
<1>9. HandlesRecorded'
  <2>1. h.owner = sender /\ handleUsedBy[h] = NoRequest
    BY DEF SubmitPrivateSignal, UnusedHandle
  <2>2. \A s \in signalLog : s.handle \in Handle /\ s.request \in RequestId
    BY DEF IInv, TypeOK, Signal
  <2>3. \A s \in signalLog : s.handle # h
    BY <2>1, <2>2, NoRequestAssumption DEF IInv, HandlesRecorded, HandleCountsOnce
  <2>4. \A s \in signalLog' : handleUsedBy'[s.handle] = s.request
    BY <1>1, <1>2, <2>2, <2>3 DEF IInv, TypeOK, HandlesRecorded, HandleCountsOnce
  <2>5. \A s, u \in signalLog' : s.handle = u.handle => s = u
    BY <1>1, <1>2, <2>3 DEF IInv, HandlesRecorded, HandleCountsOnce
  <2>6. \A s \in signalLog' : s.handle.owner = s.reviewer
    BY <1>1, <1>2, <2>1 DEF IInv, HandlesRecorded
  <2> QED
    BY <2>4, <2>5, <2>6 DEF HandlesRecorded, HandleCountsOnce
<1>10. SignersHoldSeats'
  <2>1. sender \in Seats(vendors[id.vendorId])
    BY DEF SubmitPrivateSignal
  <2> QED
    BY <2>1, <1>1 DEF IInv, TypeOK, SignersHoldSeats, Stale
<1> QED
  BY <1>4, <1>5, <1>6, <1>7, <1>8, <1>9, <1>10 DEF IInv
-----------------------------------------------------------------------------
(* Proposing a change of approver, dropping one, consenting to one: steps  *)
(* that touch one vendor's rotation, recovery and consents, and no vendor. *)

LEMMA NoProposalPending ==
  ASSUME IInv, NEW v \in Vendors, NothingPending(v)
  PROVE  rotations[v] = NoRotation /\ recoveries[v] = NoRecovery
BY DEF IInv, ProposalShape, OneProposal, NothingPending

LEMMA GovernanceOnly ==
  ASSUME IInv, UNCHANGED <<vendors, requestVars, adminVars, now>>,
         rotations' \in [Vendors -> ApproverRotation],
         recoveries' \in [Vendors -> ApproverRecovery],
         proposal' \in [Vendors -> [voters : SUBSET Accounts, since : Time]],
         ProposalShape', ConsentIsGenuine'
  PROVE  IInv'
<1>1. TypeOK'
  BY DEF IInv, TypeOK, requestVars, adminVars
<1> QED
  BY <1>1, VendorsKept, RequestsKept DEF IInv

LEMMA ProposeApproverRotationStep ==
  ASSUME IInv, NEW sender \in Accounts, NEW v \in Vendors, NEW c \in Address,
         ProposeApproverRotation(sender, v, c)
  PROVE  IInv'
<1> DEFINE asked == [NoRotation EXCEPT !.newApprover = c]
           heard == [voters |-> {}, since |-> now]
<1>1. c \in Accounts /\ c # Zero
  BY DEF ProposeApproverRotation
<1>2. /\ asked \in ApproverRotation
      /\ asked.newApprover = c /\ ~asked.currentApproved /\ ~asked.candidateAccepted
  BY <1>1 DEF NoRotation, ApproverRotation
<1>3. /\ heard \in [voters : SUBSET Accounts, since : Time]
  BY DEF IInv, TypeOK
<1>4. /\ rotations' = [rotations EXCEPT ![v] = asked]
      /\ proposal' = [proposal EXCEPT ![v] = heard]
      /\ UNCHANGED <<vendors, recoveries, requestVars, adminVars, now>>
      /\ Registered(v)
  BY DEF ProposeApproverRotation, Proposed
<1>5. rotations[v] = NoRotation /\ recoveries[v] = NoRecovery
  BY NoProposalPending DEF ProposeApproverRotation
<1> HIDE DEF asked, heard
<1>6. ProposalShape'
  BY <1>1, <1>2, <1>4, <1>5
     DEF IInv, TypeOK, ProposalShape, OneProposal, RotationPending, RecoveryPending, Registered, NoRecovery
<1>7. ConsentIsGenuine'
  BY <1>2, <1>4, <1>5 DEF IInv, TypeOK, ConsentIsGenuine, NoRecovery
<1> QED
  BY <1>2, <1>3, <1>4, <1>6, <1>7, GovernanceOnly DEF IInv, TypeOK

LEMMA ScheduleApproverRecoveryStep ==
  ASSUME IInv, NEW sender \in Accounts, NEW v \in Vendors, NEW c \in Address,
         ScheduleApproverRecovery(sender, v, c)
  PROVE  IInv'
<1> DEFINE asked == [newApprover |-> c, executeAfter |-> now + RecoveryDelay,
                     candidateAccepted |-> FALSE]
           heard == [voters |-> {}, since |-> now]
<1>1. c \in Accounts /\ c # Zero
  BY DEF ScheduleApproverRecovery
<1>2. /\ asked \in ApproverRecovery
      /\ asked.newApprover = c /\ ~asked.candidateAccepted
      /\ asked.executeAfter = heard.since + RecoveryDelay
  BY <1>1, TimeAssumption DEF IInv, TypeOK, ApproverRecovery
<1>3. /\ heard \in [voters : SUBSET Accounts, since : Time]
  BY DEF IInv, TypeOK
<1>4. /\ recoveries' = [recoveries EXCEPT ![v] = asked]
      /\ proposal' = [proposal EXCEPT ![v] = heard]
      /\ UNCHANGED <<vendors, rotations, requestVars, adminVars, now>>
      /\ Registered(v)
  BY DEF ScheduleApproverRecovery, Proposed
<1>5. rotations[v] = NoRotation /\ recoveries[v] = NoRecovery
  BY NoProposalPending DEF ScheduleApproverRecovery
<1> HIDE DEF asked, heard
<1>6. ProposalShape'
  BY <1>1, <1>2, <1>4, <1>5
     DEF IInv, TypeOK, ProposalShape, OneProposal, RotationPending, RecoveryPending, Registered, NoRotation
<1>7. ConsentIsGenuine'
  BY <1>2, <1>4, <1>5 DEF IInv, TypeOK, ConsentIsGenuine, NoRotation
<1> QED
  BY <1>2, <1>3, <1>4, <1>6, <1>7, GovernanceOnly DEF IInv, TypeOK

LEMMA CancelApproverRotationStep ==
  ASSUME IInv, NEW sender \in Accounts, NEW v \in Vendors,
         CancelApproverRotation(sender, v)
  PROVE  IInv'
<1> USE DEF CancelApproverRotation
<1>1. rotations' \in [Vendors -> ApproverRotation]
  BY ZeroValues DEF IInv, TypeOK
<1>2. ProposalShape'
  BY DEF IInv, TypeOK, ProposalShape, OneProposal, RotationPending, RecoveryPending, NoRotation, Registered
<1>3. ConsentIsGenuine'
  BY DEF IInv, TypeOK, ConsentIsGenuine, NoRotation
<1> QED
  BY <1>1, <1>2, <1>3, GovernanceOnly DEF IInv, TypeOK

LEMMA DropRecoveryStep ==
  ASSUME IInv, NEW v \in Vendors, DropRecovery(v)
  PROVE  IInv'
<1> USE DEF DropRecovery
<1>1. recoveries' \in [Vendors -> ApproverRecovery]
  BY ZeroValues DEF IInv, TypeOK
<1>2. ProposalShape'
  BY DEF IInv, TypeOK, ProposalShape, OneProposal, RotationPending, RecoveryPending, NoRecovery, Registered
<1>3. ConsentIsGenuine'
  BY DEF IInv, TypeOK, ConsentIsGenuine, NoRecovery
<1> QED
  BY <1>1, <1>2, <1>3, GovernanceOnly DEF IInv, TypeOK

(* Consents only accumulate while a proposal is pending.                   *)
LEMMA ConsentGiven ==
  ASSUME IInv, NEW sender \in Accounts, NEW v \in Vendors, Consented(v, sender)
  PROVE  /\ proposal' \in [Vendors -> [voters : SUBSET Accounts, since : Time]]
         /\ proposal'[v].voters = proposal[v].voters \cup {sender}
         /\ proposal'[v].since = proposal[v].since
         /\ \A u \in Vendors : u # v => proposal'[u] = proposal[u]
BY DEF Consented, IInv, TypeOK

LEMMA AcceptApproverRecoveryStep ==
  ASSUME IInv, NEW sender \in Accounts, NEW v \in Vendors,
         AcceptApproverRecovery(sender, v)
  PROVE  IInv'
<1>1. /\ recoveries' = [recoveries EXCEPT ![v].candidateAccepted = TRUE]
      /\ recoveries[v].newApprover = sender
      /\ RecoveryPending(v)
      /\ Consented(v, sender)
      /\ UNCHANGED <<vendors, rotations, requestVars, adminVars, now>>
  BY DEF AcceptApproverRecovery
<1>2. /\ recoveries' \in [Vendors -> ApproverRecovery]
      /\ recoveries'[v].newApprover = sender
      /\ recoveries'[v].executeAfter = recoveries[v].executeAfter
      /\ \A u \in Vendors : u # v => recoveries'[u] = recoveries[u]
  BY <1>1 DEF IInv, TypeOK, ApproverRecovery
<1>3. rotations[v] = NoRotation /\ sender # Zero
  BY <1>1 DEF IInv, ProposalShape, OneProposal, RecoveryPending, NoRecovery
<1>4. ProposalShape'
  BY <1>1, <1>2, <1>3, ConsentGiven
     DEF IInv, ProposalShape, OneProposal, RotationPending, RecoveryPending, Registered
<1>5. ConsentIsGenuine'
  BY <1>1, <1>2, <1>3, ConsentGiven DEF IInv, ConsentIsGenuine, NoRotation
<1> QED
  BY <1>1, <1>2, <1>4, <1>5, ConsentGiven, GovernanceOnly DEF IInv, TypeOK

-----------------------------------------------------------------------------
(* Steps that seat a new approver.                                         *)

LEMMA ChangeApproverEffect ==
  ASSUME IInv, NEW v \in Vendors, NEW c \in Accounts, Registered(v), ChangeApprover(v, c)
  PROVE  /\ vendors' \in [Vendors -> Vendor]
         /\ VendorShape'
         /\ VendorsAdvance
         /\ vendors'[v].approver = c /\ vendors'[v].registered
         /\ \A u \in Vendors : u # v => vendors'[u] = vendors[u]
<1> USE DEF ChangeApprover
<1>1. vendors' \in [Vendors -> Vendor]
  BY EpochAssumption DEF IInv, TypeOK, Vendor, EpochAvailable, NextEpoch
<1>2. /\ vendors'[v].payoutWallet = vendors[v].payoutWallet
      /\ vendors'[v].approver = c
      /\ vendors'[v].treasuryReviewer = vendors[v].treasuryReviewer
      /\ vendors'[v].riskReviewer = vendors[v].riskReviewer
      /\ vendors'[v].approverEpoch = vendors[v].approverEpoch + 1
      /\ vendors'[v].registered
      /\ \A u \in Vendors : u # v => vendors'[u] = vendors[u]
  BY DEF IInv, TypeOK, Vendor, NextEpoch, Registered
<1>3. c # Zero /\ c \notin Seats(vendors[v])
  BY AddressAssumption DEF ValidCandidate
<1>4. vendors[v].approverEpoch \in Nat
  BY EpochAssumption DEF IInv, TypeOK, Vendor
<1>5. VendorShape'
  <2>1. /\ vendors'[v].approverEpoch >= 1
        /\ ValidReviewers(vendors'[v].payoutWallet, vendors'[v].approver,
                          vendors'[v].treasuryReviewer, vendors'[v].riskReviewer)
    BY <1>2, <1>3, <1>4 DEF IInv, VendorShape, ValidReviewers, Seats, Registered
  <2> QED
    BY <1>2, <2>1 DEF IInv, VendorShape
<1>6. VendorsAdvance
  BY <1>2 DEF VendorsAdvance, Registered
<1> QED
  BY <1>1, <1>2, <1>5, <1>6

LEMMA ExecuteApproverRecoveryStep ==
  ASSUME IInv, NEW sender \in Accounts, NEW v \in Vendors,
         ExecuteApproverRecovery(sender, v)
  PROVE  IInv'
<1> DEFINE c == recoveries[v].newApprover
<1>1. /\ c \in Accounts
      /\ Registered(v)
      /\ ChangeApprover(v, c)
      /\ recoveries' = [recoveries EXCEPT ![v] = NoRecovery]
      /\ UNCHANGED <<rotations, proposal, requestVars, adminVars, now>>
  BY DEF ExecuteApproverRecovery, RecoveryPending, IInv, TypeOK, ApproverRecovery
<1>2. rotations[v] = NoRotation
  BY DEF ExecuteApproverRecovery, RecoveryPending, NoRecovery, IInv, ProposalShape, OneProposal
<1>3. recoveries' \in [Vendors -> ApproverRecovery]
  BY <1>1, ZeroValues DEF IInv, TypeOK
<1> HIDE DEF c
<1>4. TypeOK'
  BY <1>1, <1>3, ChangeApproverEffect DEF IInv, TypeOK, requestVars, adminVars
<1>5. ProposalShape'
  BY <1>1, <1>2, ChangeApproverEffect
     DEF IInv, TypeOK, ProposalShape, OneProposal, RotationPending, RecoveryPending, NoRotation, NoRecovery,
         Registered
<1>6. ConsentIsGenuine'
  BY <1>1, <1>2, ChangeApproverEffect
     DEF IInv, TypeOK, ConsentIsGenuine, NoRotation, NoRecovery
<1> QED
  BY <1>1, <1>4, <1>5, <1>6, ChangeApproverEffect, RequestsKept DEF IInv

(* A consent to a rotation, marked in the rotation, completes it or not.   *)
LEMMA RotationConsentStep ==
  ASSUME IInv, NEW sender \in Accounts, NEW v \in Vendors, NEW marked \in ApproverRotation,
         RotationPending(v), Registered(v), Consented(v, sender),
         marked.newApprover = rotations[v].newApprover,
         marked.currentApproved =>
           rotations[v].currentApproved \/ sender = vendors[v].approver,
         marked.candidateAccepted =>
           rotations[v].candidateAccepted \/ sender = rotations[v].newApprover,
         FinalizeRotationIfReady(v, marked),
         UNCHANGED <<recoveries, requestVars, adminVars, now>>
  PROVE  IInv'
<1>1. recoveries[v] = NoRecovery
  BY DEF IInv, ProposalShape, OneProposal, RotationPending, NoRotation
<1>2. CASE marked.currentApproved /\ marked.candidateAccepted
  <2> DEFINE c == marked.newApprover
  <2>1. /\ rotations' = [rotations EXCEPT ![v] = NoRotation]
        /\ ChangeApprover(v, c)
        /\ c \in Accounts
    BY <1>2 DEF FinalizeRotationIfReady, RotationPending, ApproverRotation
  <2>2. rotations' \in [Vendors -> ApproverRotation]
    BY <2>1, ZeroValues DEF IInv, TypeOK
  <2> HIDE DEF c
  <2>3. TypeOK'
    BY <2>1, <2>2, ChangeApproverEffect, ConsentGiven DEF IInv, TypeOK, requestVars, adminVars
  <2>4. /\ rotations'[v] = NoRotation /\ recoveries'[v] = NoRecovery
        /\ \A u \in Vendors : u # v => /\ rotations'[u] = rotations[u]
                                       /\ recoveries'[u] = recoveries[u]
                                       /\ proposal'[u] = proposal[u]
                                       /\ vendors'[u] = vendors[u]
    BY <1>1, <2>1, ChangeApproverEffect, ConsentGiven DEF IInv, TypeOK
  <2>5. ProposalShape'
    <3>1. OneProposal(v)'
      BY <2>4 DEF OneProposal, RotationPending, RecoveryPending, NoRotation, NoRecovery
    <3>2. \A u \in Vendors : u # v => OneProposal(u)'
      BY <2>4 DEF IInv, ProposalShape, OneProposal, RotationPending, RecoveryPending, Registered
    <3> QED
      BY <3>1, <3>2 DEF ProposalShape
  <2>6. ConsentIsGenuine'
    BY <2>4 DEF IInv, ConsentIsGenuine, NoRotation, NoRecovery
  <2> QED
    BY <2>1, <2>3, <2>5, <2>6, ChangeApproverEffect, RequestsKept DEF IInv
<1>3. CASE ~(marked.currentApproved /\ marked.candidateAccepted)
  <2>1. rotations' = [rotations EXCEPT ![v] = marked] /\ UNCHANGED vendors
    BY <1>3 DEF FinalizeRotationIfReady
  <2>2. ProposalShape'
    BY <1>1, <2>1, ConsentGiven
       DEF IInv, TypeOK, ProposalShape, OneProposal, RotationPending, RecoveryPending, NoRecovery, Registered
  <2>3. ConsentIsGenuine'
    BY <1>1, <2>1, ConsentGiven DEF IInv, TypeOK, ConsentIsGenuine, NoRecovery
  <2> QED
    BY <2>1, <2>2, <2>3, ConsentGiven, GovernanceOnly DEF IInv, TypeOK
<1> QED
  BY <1>2, <1>3

LEMMA ApproveApproverRotationStep ==
  ASSUME IInv, NEW sender \in Accounts, NEW v \in Vendors, NEW c \in Address,
         ApproveApproverRotation(sender, v, c)
  PROVE  IInv'
<1> DEFINE marked == [rotations[v] EXCEPT !.currentApproved = TRUE]
<1>1. /\ marked \in ApproverRotation
      /\ marked.newApprover = rotations[v].newApprover
      /\ marked.candidateAccepted => rotations[v].candidateAccepted
  BY DEF IInv, TypeOK, ApproverRotation
<1>2. /\ FinalizeRotationIfReady(v, marked)
      /\ RotationPending(v) /\ Registered(v) /\ Consented(v, sender)
      /\ sender = vendors[v].approver
      /\ UNCHANGED <<recoveries, requestVars, adminVars, now>>
  BY DEF ApproveApproverRotation, IsApprover
<1> HIDE DEF marked
<1> QED
  BY <1>1, <1>2, RotationConsentStep

LEMMA AcceptApproverRotationStep ==
  ASSUME IInv, NEW sender \in Accounts, NEW v \in Vendors,
         AcceptApproverRotation(sender, v)
  PROVE  IInv'
<1> DEFINE marked == [rotations[v] EXCEPT !.candidateAccepted = TRUE]
<1>1. /\ marked \in ApproverRotation
      /\ marked.newApprover = rotations[v].newApprover
      /\ marked.currentApproved => rotations[v].currentApproved
  BY DEF IInv, TypeOK, ApproverRotation
<1>2. /\ FinalizeRotationIfReady(v, marked)
      /\ RotationPending(v) /\ Registered(v) /\ Consented(v, sender)
      /\ sender = rotations[v].newApprover
      /\ UNCHANGED <<recoveries, requestVars, adminVars, now>>
  BY DEF AcceptApproverRotation
<1> HIDE DEF marked
<1> QED
  BY <1>1, <1>2, RotationConsentStep
-----------------------------------------------------------------------------
(* Pausing, handing over ownership and time passing touch nothing that the *)
(* invariant relates.                                                      *)
AdministersOnly == UNCHANGED <<vendors, requestVars, governanceVars>>

LEMMA AdministrationStep ==
  ASSUME IInv, AdministersOnly, owner' \in Address, pendingOwner' \in Address,
         paused' \in BOOLEAN, now' \in Time
  PROVE  IInv'
<1> USE DEF AdministersOnly
<1>1. TypeOK'
  <2>1. UNCHANGED <<requests, signalSubmitted, handleUsedBy, signalLog,
                    rotations, recoveries, proposal>>
    BY DEF requestVars, governanceVars
  <2> QED
    BY <2>1 DEF IInv, TypeOK
<1>2. ProposalShape' /\ ConsentIsGenuine'
  BY GovernanceKept DEF Registered
<1> QED
  BY <1>1, <1>2, VendorsKept, RequestsKept DEF IInv

LEMMA AdminNextStep ==
  ASSUME IInv, AdminNext
  PROVE  IInv'
<1>1. /\ AdministersOnly
      /\ owner' \in Address /\ pendingOwner' \in Address /\ now' \in Time
  BY AddressInputAssumption
     DEF AdminNext, Pause, Unpause, TransferOwnership, AcceptOwnership, RenounceOwnership,
         AdministersOnly, IInv, TypeOK
<1>2. paused' \in BOOLEAN
  BY DEF AdminNext, Pause, Unpause, TransferOwnership, AcceptOwnership, RenounceOwnership,
         IInv, TypeOK
<1> QED
  BY <1>1, <1>2, AdministrationStep

LEMMA TickStep ==
  ASSUME IInv, Tick
  PROVE  IInv'
<1>1. AdministersOnly /\ UNCHANGED <<owner, pendingOwner, paused>>
  BY DEF Tick, AdministersOnly, adminVars
<1>2. now' \in Time
  BY TimeAssumption DEF Tick, IInv, TypeOK
<1>3. owner' \in Address /\ pendingOwner' \in Address
  BY <1>1 DEF IInv, TypeOK
<1>4. paused' \in BOOLEAN
  BY <1>1 DEF IInv, TypeOK
<1> QED
  BY <1>1, <1>2, <1>3, <1>4, AdministrationStep

LEMMA StutterStep ==
  ASSUME IInv, UNCHANGED vars
  PROVE  IInv'
<1>1. AdministersOnly /\ UNCHANGED <<owner, pendingOwner, paused, now>>
  BY DEF vars, AdministersOnly, adminVars
<1>2. owner' \in Address /\ pendingOwner' \in Address /\ now' \in Time
  BY <1>1 DEF IInv, TypeOK
<1>3. paused' \in BOOLEAN
  BY <1>1 DEF IInv, TypeOK
<1> QED
  BY <1>1, <1>2, <1>3, AdministrationStep

-----------------------------------------------------------------------------
LEMMA RequestNextStep ==
  ASSUME IInv, RequestNext
  PROVE  IInv'
BY OpenChangeRequestStep, SubmitPrivateSignalStep, SettleApprovalStep DEF RequestNext

LEMMA VendorNextStep ==
  ASSUME IInv, VendorNext
  PROVE  IInv'
<1>1. \A e \in Enrolments :
        e[1] \in WalletAddress /\ e[2] \in Address /\ e[3] \in Address /\ e[4] \in Address
  BY SeatInputAssumption
<1>2. \A e \in Reseatings : e[1] \in Address /\ e[2] \in Address
  BY SeatInputAssumption
<1> QED
  BY <1>1, <1>2, RegisterVendorStep, SetOperationalReviewersStep DEF VendorNext

LEMMA GovernanceNextStep ==
  ASSUME IInv, GovernanceNext
  PROVE  IInv'
<1>1. Candidates \subseteq Address
  BY AddressInputAssumption
<1> QED
  BY <1>1, ProposeApproverRotationStep, ApproveApproverRotationStep,
     ScheduleApproverRecoveryStep, AcceptApproverRotationStep, CancelApproverRotationStep,
     AcceptApproverRecoveryStep, DropRecoveryStep, ExecuteApproverRecoveryStep
     DEF GovernanceNext, VetoApproverRecovery, CancelApproverRecovery

(***************************************************************************)
(* The contract's state keeps the inductive invariant: the types, the      *)
(* shape of vendors, proposals and requests, the agreement of flags,       *)
(* counters and events, and who may have signed and consented.             *)
(***************************************************************************)
THEOREM Invariance == Spec => []IInv
<1>1. Init => IInv
  BY InitIInv
<1>2. IInv /\ [Next]_vars => IInv'
  BY RequestNextStep, VendorNextStep, GovernanceNextStep, AdminNextStep, TickStep, StutterStep
     DEF Next
<1> QED
  BY <1>1, <1>2, PTL DEF Spec

(***************************************************************************)
(* Every variable of the contract keeps its type.                          *)
(***************************************************************************)
THEOREM TypeCorrectness == Spec => []TypeOK
BY Invariance, PTL DEF IInv
-----------------------------------------------------------------------------
(* What the invariant means for the owner of the treasury.                 *)

LEMMA SeatsCounted ==
  ASSUME IInv, NEW v \in Vendors, Registered(v)
  PROVE  /\ IsFiniteSet(Seats(vendors[v]))
         /\ Cardinality(Seats(vendors[v])) = RequiredSignals
         /\ Zero \notin Seats(vendors[v])
<1> DEFINE a == vendors[v].approver
           t == vendors[v].treasuryReviewer
           r == vendors[v].riskReviewer
<1>1. a # t /\ a # r /\ t # r /\ Zero \notin {a, t, r}
  BY DEF IInv, VendorShape, ValidReviewers, Registered
<1>2. Seats(vendors[v]) = {a, t, r}
  BY DEF Seats
<1> HIDE DEF a, t, r
<1>3. IsFiniteSet({a}) /\ Cardinality({a}) = 1
  BY FS_Singleton
<1>4. t \notin {a} /\ r \notin {a} \cup {t}
  BY <1>1
<1>5. IsFiniteSet({a} \cup {t}) /\ Cardinality({a} \cup {t}) = Cardinality({a}) + 1
  BY <1>3, <1>4, FS_AddElement
<1>6. /\ IsFiniteSet(({a} \cup {t}) \cup {r})
      /\ Cardinality(({a} \cup {t}) \cup {r}) = Cardinality({a} \cup {t}) + 1
  BY <1>4, <1>5, FS_AddElement
<1>7. ({a} \cup {t}) \cup {r} = {a, t, r}
  OBVIOUS
<1>8. Cardinality({a, t, r}) = 3 /\ IsFiniteSet({a, t, r})
  BY <1>3, <1>5, <1>6, <1>7
<1> QED
  BY <1>1, <1>2, <1>8 DEF RequiredSignals

(***************************************************************************)
(* A registered vendor's three seats are always held by three different    *)
(* non-zero accounts, whatever order rotations, recoveries and reseatings  *)
(* come in.                                                                *)
(***************************************************************************)
THEOREM ReviewerIndependence == Spec => []SeatsAreIndependent
<1>1. IInv => SeatsAreIndependent
  BY SeatsCounted DEF SeatsAreIndependent
<1> QED
  BY <1>1, Invariance, PTL

LEMMA VerdictRead == IInv => VerdictIsUnanimity
<1>1. ASSUME IInv PROVE VerdictIsUnanimity
  <2> SUFFICES ASSUME NEW id \in RequestId, requests[id].status \in {"Sealed", "Settled"}
               PROVE  /\ Cardinality({s.reviewer : s \in SignalsOf(id)}) = RequiredSignals
                      /\ requests[id].verdict <=> \A s \in SignalsOf(id) : s.handle.value = 1
    BY DEF VerdictIsUnanimity
  <2>1. /\ requests[id].signalCount = RequiredSignals
        /\ requests[id].verdict <=> requests[id].aggregateScore = RequiredSignals
    BY <1>1 DEF IInv, RequestShape, WellFormed
  <2>2. {s.reviewer : s \in SignalsOf(id)} = signalSubmitted[id]
    BY <1>1 DEF IInv, SignalsRecorded
  <2> QED
    BY <1>1, <2>1, <2>2 DEF IInv, SignalsRecorded, ScoreIsUnanimity
<1> QED
  BY <1>1

(***************************************************************************)
(* A verdict is true exactly when three different reviewers each encrypted *)
(* a one, for every plaintext a reviewer may encrypt.                      *)
(***************************************************************************)
THEOREM VerdictExactness == Spec => []VerdictIsUnanimity
BY VerdictRead, Invariance, PTL

(* What a settlement that moves a wallet rests on.                         *)
LEMMA SettledByUnanimity ==
  ASSUME IInv, NEW id \in RequestId, SettleApproval(id), requests[id].verdict
  PROVE  \A a \in Seats(vendors[id.vendorId]) : Endorses(id, a)
<1>1. /\ id.vendorId \in Vendors /\ Registered(id.vendorId)
      /\ requests[id].signalCount = RequiredSignals
      /\ requests[id].aggregateScore = RequiredSignals
  BY DEF SettleApproval, IInv, RequestShape, WellFormed, RequestId
<1>2. signalSubmitted[id] \subseteq Seats(vendors[id.vendorId])
  BY DEF SettleApproval, InCurrentEpoch, Stale, IInv, SignersHoldSeats
<1>3. Cardinality(signalSubmitted[id]) = RequiredSignals
  BY <1>1 DEF IInv, SignalsRecorded
<1>4. signalSubmitted[id] = Seats(vendors[id.vendorId])
  BY <1>1, <1>2, <1>3, SeatsCounted, FS_Subset
<1>5. \A s \in SignalsOf(id) : s.handle.value = 1
  BY <1>1 DEF IInv, ScoreIsUnanimity
<1> QED
  BY <1>4, <1>5 DEF IInv, SignalsRecorded, SignalsOf, Endorses
-----------------------------------------------------------------------------
(* What a step may do to the record of a registered vendor.                *)

NoMove(v) == vendors'[v].payoutWallet = vendors[v].payoutWallet
EpochGrows(v) == vendors'[v].approverEpoch >= vendors[v].approverEpoch

LEMMA ChangeApproverKeepsWallets ==
  ASSUME TypeOK, NEW u \in Vendors, NEW c \in Address, ChangeApprover(u, c),
         NEW v \in Vendors
  PROVE  NoMove(v) /\ EpochGrows(v)
<1>1. vendors' = [vendors EXCEPT ![u].approver = c,
                                 ![u].approverEpoch = vendors[u].approverEpoch + 1]
  BY DEF ChangeApprover, NextEpoch
<1>2. vendors[v] \in Vendor /\ vendors[u] \in Vendor
  BY DEF TypeOK
<1>3. CASE u = v
  BY <1>1, <1>2, <1>3 DEF TypeOK, Vendor, NoMove, EpochGrows
<1>4. CASE u # v
  BY <1>1, <1>2, <1>4 DEF TypeOK, Vendor, NoMove, EpochGrows
<1> QED
  BY <1>3, <1>4

LEMMA VendorsUntouched ==
  ASSUME TypeOK, UNCHANGED vendors, NEW v \in Vendors
  PROVE  NoMove(v) /\ EpochGrows(v)
BY DEF TypeOK, Vendor, NoMove, EpochGrows

LEMMA RequestsAndWallets ==
  ASSUME IInv, RequestNext, NEW v \in Vendors
  PROVE  /\ EpochGrows(v)
         /\ NoMove(v) \/ \E id \in RequestId :
                           /\ SettleApproval(id) /\ requests[id].verdict
                           /\ id.vendorId = v
<1>1. TypeOK /\ vendors[v] \in Vendor
  BY DEF IInv, TypeOK
<1>2. CASE UNCHANGED vendors
  BY <1>1, <1>2, VendorsUntouched
<1>3. CASE \E id \in RequestId : SettleApproval(id) /\ ~UNCHANGED vendors
  <2>1. PICK id \in RequestId : SettleApproval(id) /\ ~UNCHANGED vendors
    BY <1>3
  <2>2. /\ requests[id].verdict
        /\ vendors' = [vendors EXCEPT ![id.vendorId].payoutWallet = id.proposedWallet]
    BY <2>1 DEF SettleApproval
  <2>3. EpochGrows(v)
    BY <1>1, <2>2 DEF TypeOK, Vendor, EpochGrows
  <2>4. id.vendorId # v => NoMove(v)
    BY <1>1, <2>2 DEF TypeOK, Vendor, NoMove
  <2> QED
    BY <2>1, <2>2, <2>3, <2>4
<1> QED
  BY <1>2, <1>3 DEF RequestNext, OpenChangeRequest, SubmitPrivateSignal

LEMMA OwnerAndWallets ==
  ASSUME IInv, VendorNext, NEW v \in Vendors, Registered(v)
  PROVE  NoMove(v) /\ EpochGrows(v)
<1>1. TypeOK /\ vendors[v] \in Vendor
  BY DEF IInv, TypeOK
<1>2. ASSUME NEW u \in Vendors, NEW sender \in Accounts, NEW e \in Enrolments,
             RegisterVendor(sender, u, e[1], e[2], e[3], e[4])
      PROVE  vendors'[v] = vendors[v]
  BY <1>1, <1>2 DEF RegisterVendor, Registered, TypeOK
<1>3. ASSUME NEW u \in Vendors, NEW sender \in Accounts, NEW e \in Reseatings,
             SetOperationalReviewers(sender, u, e[1], e[2])
      PROVE  NoMove(v) /\ EpochGrows(v)
  <2>1. vendors' = [vendors EXCEPT ![u].treasuryReviewer = e[1],
                                   ![u].riskReviewer = e[2],
                                   ![u].approverEpoch = vendors[u].approverEpoch + 1]
    BY <1>3 DEF SetOperationalReviewers, NextEpoch
  <2>2. CASE u = v
    BY <1>1, <2>1, <2>2 DEF TypeOK, Vendor, NoMove, EpochGrows
  <2>3. CASE u # v
    BY <1>1, <2>1, <2>3 DEF TypeOK, Vendor, NoMove, EpochGrows
  <2> QED
    BY <2>2, <2>3
<1>4. vendors'[v] = vendors[v] => NoMove(v) /\ EpochGrows(v)
  BY <1>1 DEF Vendor, NoMove, EpochGrows
<1> QED
  BY <1>2, <1>3, <1>4 DEF VendorNext

LEMMA RotationChanges ==
  ASSUME TypeOK, NEW u \in Vendors, NEW rotation \in ApproverRotation,
         FinalizeRotationIfReady(u, rotation)
  PROVE  UNCHANGED vendors \/ ChangeApprover(u, rotation.newApprover)
BY DEF FinalizeRotationIfReady

LEMMA GovernanceAndWallets ==
  ASSUME IInv, GovernanceNext, NEW v \in Vendors
  PROVE  NoMove(v) /\ EpochGrows(v)
<1>1. TypeOK
  BY DEF IInv
<1>2. UNCHANGED vendors \/ \E u \in Vendors, c \in Address : ChangeApprover(u, c)
  <2>1. \A u \in Vendors :
          /\ [rotations[u] EXCEPT !.currentApproved = TRUE] \in ApproverRotation
          /\ [rotations[u] EXCEPT !.candidateAccepted = TRUE] \in ApproverRotation
          /\ recoveries[u].newApprover \in Address
    BY <1>1 DEF TypeOK, ApproverRotation, ApproverRecovery
  <2>2. \A rotation \in ApproverRotation : rotation.newApprover \in Address
    BY DEF ApproverRotation
  <2>3. ASSUME NEW sender \in Accounts, NEW u \in Vendors,
               AcceptApproverRotation(sender, u)
                 \/ \E c \in Candidates : ApproveApproverRotation(sender, u, c)
        PROVE  UNCHANGED vendors \/ \E c \in Address : ChangeApprover(u, c)
    BY <1>1, <2>1, <2>2, <2>3, RotationChanges
       DEF AcceptApproverRotation, ApproveApproverRotation
  <2>4. ASSUME NEW sender \in Accounts, NEW u \in Vendors, ExecuteApproverRecovery(sender, u)
        PROVE  \E c \in Address : ChangeApprover(u, c)
    BY <2>1, <2>4 DEF ExecuteApproverRecovery
  <2> QED
    BY <2>3, <2>4
       DEF GovernanceNext, ProposeApproverRotation, ScheduleApproverRecovery,
           CancelApproverRotation, AcceptApproverRecovery, VetoApproverRecovery,
           CancelApproverRecovery, DropRecovery
<1> QED
  BY <1>1, <1>2, VendorsUntouched, ChangeApproverKeepsWallets

LEMMA AdministrationKeepsVendors ==
  ASSUME AdminNext \/ Tick \/ UNCHANGED vars
  PROVE  UNCHANGED <<vendors, requests, signalSubmitted, signalLog>>
BY DEF AdminNext, Tick, Pause, Unpause, TransferOwnership, AcceptOwnership,
       RenounceOwnership, vars, requestVars

LEMMA VendorEffects ==
  ASSUME IInv, [Next]_vars, NEW v \in Vendors, Registered(v)
  PROVE  /\ EpochGrows(v)
         /\ NoMove(v) \/ \E id \in RequestId :
                           /\ SettleApproval(id) /\ requests[id].verdict
                           /\ id.vendorId = v
<1>1. TypeOK
  BY DEF IInv
<1> QED
  BY <1>1, RequestsAndWallets, OwnerAndWallets, GovernanceAndWallets,
     AdministrationKeepsVendors, VendorsUntouched DEF Next

(* The request that a wallet moves by. *)
MovedBy(v, id) ==
  /\ id.vendorId = v
  /\ id.currentWallet = vendors[v].payoutWallet
  /\ id.proposedWallet = vendors'[v].payoutWallet
  /\ ~Stale(id)
  /\ requests[id].status = "Sealed" /\ requests'[id].status = "Settled"
  /\ \A a \in Seats(vendors[v]) : Endorses(id, a)

LEMMA SettlementMoves ==
  ASSUME IInv, NEW id \in RequestId, SettleApproval(id), requests[id].verdict
  PROVE  MovedBy(id.vendorId, id)
<1>1. /\ id.vendorId \in Vendors
      /\ vendors' = [vendors EXCEPT ![id.vendorId].payoutWallet = id.proposedWallet]
      /\ requests' = [requests EXCEPT ![id].approved = TRUE, ![id].status = "Settled"]
  BY DEF SettleApproval, RequestId, IInv, TypeOK
<1>2. id.proposedWallet = vendors'[id.vendorId].payoutWallet
  BY <1>1 DEF IInv, TypeOK, Vendor
<1>3. requests'[id].status = "Settled"
  BY <1>1 DEF IInv, TypeOK, ChangeRequest
<1> QED
  BY <1>2, <1>3, SettledByUnanimity
     DEF MovedBy, SettleApproval, WalletStillCurrent, InCurrentEpoch, Stale

(***************************************************************************)
(* A registered vendor's wallet moves only by settling a sealed request    *)
(* that starts from this wallet, in the epoch in force, and that all three *)
(* accounts now holding its seats endorsed.                                *)
(***************************************************************************)
THEOREM UnanimousMoves == Spec => WalletMovesByUnanimity
<1>1. ASSUME IInv, [Next]_vars, NEW v \in Vendors, Registered(v), ~NoMove(v)
      PROVE  \E id \in RequestId : MovedBy(v, id)
  BY <1>1, VendorEffects, SettlementMoves
<1>2. IInv /\ [Next]_vars =>
        \A v \in Vendors :
          Registered(v) /\ vendors'[v].payoutWallet # vendors[v].payoutWallet =>
            \E id \in RequestId : MovedBy(v, id)
  BY <1>1 DEF NoMove
<1> QED
  BY <1>2, Invariance, PTL DEF Spec, WalletMovesByUnanimity, MovedBy
-----------------------------------------------------------------------------
LEMMA OtherRequestsKept ==
  ASSUME IInv, RequestNext, NEW id \in RequestId, Stale(id), requests[id].status # "None"
  PROVE  requests'[id] = requests[id] /\ signalSubmitted'[id] = signalSubmitted[id]
<1>1. TypeOK
  BY DEF IInv
<1>2. ASSUME NEW sender \in Requesters, NEW v \in Vendors, NEW w \in WalletAddress,
             NEW n \in Nonces, OpenChangeRequest(sender, v, w, n)
      PROVE  requests'[id] = requests[id] /\ signalSubmitted'[id] = signalSubmitted[id]
  <2> DEFINE opened == DerivedRequestId(v, w, sender, n)
  <2>1. requests[opened].status = "None"
    BY <1>2 DEF OpenChangeRequest
  <2>2. /\ requests' = [requests EXCEPT ![opened] = Blank("Collecting")]
        /\ UNCHANGED signalSubmitted
    BY <1>2 DEF OpenChangeRequest
  <2> HIDE DEF opened
  <2>3. id # opened
    BY <2>1
  <2> QED
    BY <1>1, <2>2, <2>3 DEF TypeOK
<1>3. ASSUME NEW sender \in Accounts, NEW other \in RequestId, NEW h \in Handle,
             SubmitPrivateSignal(sender, other, h)
      PROVE  requests'[id] = requests[id] /\ signalSubmitted'[id] = signalSubmitted[id]
  <2>1. id # other
    BY <1>3 DEF SubmitPrivateSignal, InCurrentEpoch, Stale
  <2> QED
    BY <1>1, <1>3, <2>1 DEF SubmitPrivateSignal, TypeOK
<1>4. ASSUME NEW other \in RequestId, SettleApproval(other)
      PROVE  requests'[id] = requests[id] /\ signalSubmitted'[id] = signalSubmitted[id]
  <2>1. id # other
    BY <1>4 DEF SettleApproval, InCurrentEpoch, Stale
  <2> QED
    BY <1>1, <1>4, <2>1 DEF SettleApproval, TypeOK
<1> QED
  BY <1>2, <1>3, <1>4 DEF RequestNext

LEMMA RequestsUntouched ==
  ASSUME VendorNext \/ GovernanceNext
  PROVE  UNCHANGED requestVars
<1>1. ASSUME NEW sender \in Accounts, NEW v \in Vendors, NEW e \in Enrolments,
             RegisterVendor(sender, v, e[1], e[2], e[3], e[4])
      PROVE  UNCHANGED requestVars
  BY <1>1 DEF RegisterVendor
<1>2. ASSUME NEW sender \in Accounts, NEW v \in Vendors, NEW e \in Reseatings,
             SetOperationalReviewers(sender, v, e[1], e[2])
      PROVE  UNCHANGED requestVars
  BY <1>2 DEF SetOperationalReviewers
<1>3. ASSUME NEW sender \in Accounts, NEW v \in Vendors, NEW c \in Candidates,
             \/ ProposeApproverRotation(sender, v, c)
             \/ ApproveApproverRotation(sender, v, c)
             \/ ScheduleApproverRecovery(sender, v, c)
      PROVE  UNCHANGED requestVars
  BY <1>3 DEF ProposeApproverRotation, ApproveApproverRotation, ScheduleApproverRecovery
<1>4. ASSUME NEW sender \in Accounts, NEW v \in Vendors,
             AcceptApproverRotation(sender, v) \/ CancelApproverRotation(sender, v)
      PROVE  UNCHANGED requestVars
  BY <1>4 DEF AcceptApproverRotation, CancelApproverRotation
<1>5. ASSUME NEW sender \in Accounts, NEW v \in Vendors,
             \/ AcceptApproverRecovery(sender, v)
             \/ VetoApproverRecovery(sender, v)
             \/ CancelApproverRecovery(sender, v)
             \/ ExecuteApproverRecovery(sender, v)
      PROVE  UNCHANGED requestVars
  BY <1>5 DEF AcceptApproverRecovery, VetoApproverRecovery, CancelApproverRecovery,
              DropRecovery, ExecuteApproverRecovery
<1> QED
  BY <1>1, <1>2, <1>3, <1>4, <1>5 DEF VendorNext, GovernanceNext

(***************************************************************************)
(* A request of an earlier epoch is dead: it never changes again, and no   *)
(* later step brings its epoch back.                                       *)
(***************************************************************************)
THEOREM StaleForever == Spec => StaleRequestsAreInert
<1> DEFINE Inert(id) == /\ requests'[id] = requests[id]
                        /\ signalSubmitted'[id] = signalSubmitted[id]
                        /\ Stale(id)'
<1>1. ASSUME IInv, [Next]_vars, NEW id \in RequestId,
             Registered(id.vendorId), Stale(id), requests[id].status # "None"
      PROVE  Inert(id)
  <2>1. requests'[id] = requests[id] /\ signalSubmitted'[id] = signalSubmitted[id]
    BY <1>1, OtherRequestsKept, RequestsUntouched, AdministrationKeepsVendors
       DEF Next, requestVars
  <2>2. id.vendorId \in Vendors /\ id.approverEpoch \in Nat
    BY EpochAssumption DEF RequestId, Epoch
  <2>3. vendors[id.vendorId].approverEpoch \in Nat
    BY <1>1, <2>2, EpochAssumption DEF IInv, TypeOK, Vendor
  <2>4. id.approverEpoch < vendors[id.vendorId].approverEpoch
    BY <1>1, <2>2, <2>3 DEF IInv, RequestShape, WellFormed, Stale
  <2>5. vendors'[id.vendorId].approverEpoch \in Nat
    BY <1>1, <2>2, EpochAssumption, RequestNextStep, VendorNextStep, GovernanceNextStep,
       AdminNextStep, TickStep, StutterStep DEF Next, IInv, TypeOK, Vendor
  <2>6. vendors'[id.vendorId].approverEpoch >= vendors[id.vendorId].approverEpoch
    BY <1>1, <2>2, VendorEffects DEF EpochGrows
  <2>7. Stale(id)'
    BY <2>2, <2>3, <2>4, <2>5, <2>6 DEF Stale
  <2> QED
    BY <2>1, <2>7
<1>2. IInv /\ [Next]_vars =>
        \A id \in RequestId :
          Registered(id.vendorId) /\ Stale(id) /\ requests[id].status # "None" => Inert(id)
  BY <1>1
<1> QED
  BY <1>2, Invariance, PTL DEF Spec, StaleRequestsAreInert
-----------------------------------------------------------------------------
(* Who may stand behind a change of approver.                              *)

Consents(v) ==
  /\ vendors'[v].approver \in proposal'[v].voters
  /\ \/ vendors[v].approver \in proposal'[v].voters
     \/ now >= proposal[v].since + RecoveryDelay

LEMMA RotationConsents ==
  ASSUME IInv, NEW sender \in Accounts, NEW u \in Vendors, NEW marked \in ApproverRotation,
         Registered(u), RotationPending(u), Consented(u, sender),
         marked.newApprover = rotations[u].newApprover,
         marked.currentApproved =>
           rotations[u].currentApproved \/ sender = vendors[u].approver,
         marked.candidateAccepted =>
           rotations[u].candidateAccepted \/ sender = rotations[u].newApprover,
         FinalizeRotationIfReady(u, marked),
         NEW v \in Vendors, vendors'[v].approver # vendors[v].approver
  PROVE  Consents(v)
<1> DEFINE c == marked.newApprover
<1>1. marked.currentApproved /\ marked.candidateAccepted /\ ChangeApprover(u, c)
  BY DEF FinalizeRotationIfReady
<1>2. c \in Accounts
  BY DEF RotationPending, ApproverRotation
<1>3. /\ proposal'[u].voters = proposal[u].voters \cup {sender}
  BY DEF Consented, IInv, TypeOK
<1>4. c \in proposal'[u].voters /\ vendors[u].approver \in proposal'[u].voters
  BY <1>1, <1>3 DEF IInv, ConsentIsGenuine
<1> HIDE DEF c
<1>5. u = v /\ vendors'[u].approver = c
  BY <1>1, <1>2, ChangeApproverEffect
<1> QED
  BY <1>4, <1>5 DEF Consents

LEMMA RecoveryConsents ==
  ASSUME IInv, NEW sender \in Accounts, NEW u \in Vendors, ExecuteApproverRecovery(sender, u),
         NEW v \in Vendors, vendors'[v].approver # vendors[v].approver
  PROVE  Consents(v)
<1> DEFINE c == recoveries[u].newApprover
<1>1. /\ ChangeApprover(u, c) /\ Registered(u) /\ recoveries[u].candidateAccepted
      /\ RecoveryPending(u) /\ RecoveryReady(u) /\ UNCHANGED proposal
  BY DEF ExecuteApproverRecovery
<1>2. c \in Accounts
  BY <1>1 DEF RecoveryPending, IInv, TypeOK, ApproverRecovery
<1>3. c \in proposal'[u].voters
  BY <1>1 DEF IInv, ConsentIsGenuine
<1>4. now >= proposal[u].since + RecoveryDelay
  BY <1>1 DEF RecoveryReady, IInv, ProposalShape, OneProposal
<1> HIDE DEF c
<1>5. u = v /\ vendors'[u].approver = c
  BY <1>1, <1>2, ChangeApproverEffect
<1> QED
  BY <1>3, <1>4, <1>5 DEF Consents

LEMMA GovernanceConsents ==
  ASSUME IInv, GovernanceNext, NEW v \in Vendors,
         vendors'[v].approver # vendors[v].approver
  PROVE  Consents(v)
<1>1. ASSUME NEW sender \in Accounts, NEW u \in Vendors, NEW c \in Candidates,
             ApproveApproverRotation(sender, u, c)
      PROVE  Consents(v)
  <2> DEFINE marked == [rotations[u] EXCEPT !.currentApproved = TRUE]
  <2>1. /\ marked \in ApproverRotation
        /\ marked.newApprover = rotations[u].newApprover
        /\ marked.candidateAccepted => rotations[u].candidateAccepted
    BY DEF IInv, TypeOK, ApproverRotation
  <2>2. /\ FinalizeRotationIfReady(u, marked)
        /\ RotationPending(u) /\ Registered(u) /\ Consented(u, sender)
        /\ sender = vendors[u].approver
    BY <1>1 DEF ApproveApproverRotation, IsApprover
  <2> HIDE DEF marked
  <2> QED
    BY <2>1, <2>2, RotationConsents
<1>2. ASSUME NEW sender \in Accounts, NEW u \in Vendors, AcceptApproverRotation(sender, u)
      PROVE  Consents(v)
  <2> DEFINE marked == [rotations[u] EXCEPT !.candidateAccepted = TRUE]
  <2>1. /\ marked \in ApproverRotation
        /\ marked.newApprover = rotations[u].newApprover
        /\ marked.currentApproved => rotations[u].currentApproved
    BY DEF IInv, TypeOK, ApproverRotation
  <2>2. /\ FinalizeRotationIfReady(u, marked)
        /\ RotationPending(u) /\ Registered(u) /\ Consented(u, sender)
        /\ sender = rotations[u].newApprover
    BY <1>2 DEF AcceptApproverRotation
  <2> HIDE DEF marked
  <2> QED
    BY <2>1, <2>2, RotationConsents
<1> QED
  BY <1>1, <1>2, RecoveryConsents
     DEF GovernanceNext, ProposeApproverRotation, ScheduleApproverRecovery,
         CancelApproverRotation, AcceptApproverRecovery, VetoApproverRecovery,
         CancelApproverRecovery, DropRecovery

LEMMA ApproverKept ==
  ASSUME IInv, RequestNext \/ VendorNext, NEW v \in Vendors, Registered(v)
  PROVE  vendors'[v].approver = vendors[v].approver
<1>1. TypeOK /\ vendors[v] \in Vendor
  BY DEF IInv, TypeOK
<1>2. ASSUME NEW id \in RequestId, SettleApproval(id)
      PROVE  vendors'[v].approver = vendors[v].approver
  BY <1>1, <1>2 DEF SettleApproval, TypeOK, Vendor
<1>3. ASSUME NEW u \in Vendors, NEW sender \in Accounts, NEW e \in Enrolments,
             RegisterVendor(sender, u, e[1], e[2], e[3], e[4])
      PROVE  vendors'[v].approver = vendors[v].approver
  BY <1>1, <1>3 DEF RegisterVendor, Registered, TypeOK
<1>4. ASSUME NEW u \in Vendors, NEW sender \in Accounts, NEW e \in Reseatings,
             SetOperationalReviewers(sender, u, e[1], e[2])
      PROVE  vendors'[v].approver = vendors[v].approver
  BY <1>1, <1>4 DEF SetOperationalReviewers, TypeOK, Vendor
<1> QED
  BY <1>2, <1>3, <1>4
     DEF RequestNext, VendorNext, OpenChangeRequest, SubmitPrivateSignal

(***************************************************************************)
(* No order of proposals, consents, cancellations, reseatings and the      *)
(* passing of time replaces an approver without the candidate's consent    *)
(* and either the old approver's consent or the whole recovery delay.      *)
(***************************************************************************)
THEOREM ConsentedChanges == Spec => ApproverChangesByConsent
<1>1. ASSUME IInv, [Next]_vars, NEW v \in Vendors, Registered(v),
             vendors'[v].approver # vendors[v].approver
      PROVE  Consents(v)
  BY <1>1, GovernanceConsents, ApproverKept, AdministrationKeepsVendors DEF Next
<1>2. IInv /\ [Next]_vars =>
        \A v \in Vendors :
          Registered(v) /\ vendors'[v].approver # vendors[v].approver => Consents(v)
  BY <1>1
<1> QED
  BY <1>2, Invariance, PTL DEF Spec, ApproverChangesByConsent, Consents

(***************************************************************************)
(* Consents, seats and handles: the parts of the inductive invariant that  *)
(* say something to a reader by themselves.                                *)
(***************************************************************************)
THEOREM GenuineConsent == Spec => []ConsentIsGenuine
BY Invariance, PTL DEF IInv

(***************************************************************************)
(* No signal of a former reviewer counts in a request that can be settled. *)
(***************************************************************************)
THEOREM SeatedSigners == Spec => []SignersHoldSeats
BY Invariance, PTL DEF IInv

(***************************************************************************)
(* No encrypted input counts twice.                                        *)
(***************************************************************************)
THEOREM HandlesCountOnce == Spec => []HandleCountsOnce
BY Invariance, PTL DEF IInv, HandlesRecorded

LEMMA PausedStep ==
  ASSUME TypeOK, [Next]_vars, paused
  PROVE  /\ UNCHANGED <<vendors, requestVars>>
         /\ \A v \in Vendors : /\ rotations'[v] \in {rotations[v], NoRotation}
                               /\ recoveries'[v] \in {recoveries[v], NoRecovery}
<1>1. ~RequestNext /\ ~VendorNext
  BY DEF RequestNext, OpenChangeRequest, SubmitPrivateSignal, SettleApproval, VendorNext,
         RegisterVendor, SetOperationalReviewers, WhenNotPaused
<1>2. ASSUME GovernanceNext
      PROVE  \E u \in Vendors, sender \in Accounts :
               CancelApproverRotation(sender, u) \/ DropRecovery(u)
  BY <1>2 DEF GovernanceNext, ProposeApproverRotation, ApproveApproverRotation,
              AcceptApproverRotation, ScheduleApproverRecovery, AcceptApproverRecovery,
              ExecuteApproverRecovery, VetoApproverRecovery, CancelApproverRecovery, WhenNotPaused
<1>3. ASSUME NEW u \in Vendors, NEW sender \in Accounts,
             CancelApproverRotation(sender, u) \/ DropRecovery(u)
      PROVE  /\ UNCHANGED <<vendors, requestVars>>
             /\ \A v \in Vendors : /\ rotations'[v] \in {rotations[v], NoRotation}
                                   /\ recoveries'[v] \in {recoveries[v], NoRecovery}
  BY <1>3 DEF CancelApproverRotation, DropRecovery, TypeOK
<1>4. CASE AdminNext \/ Tick \/ UNCHANGED vars
  BY <1>4 DEF AdminNext, Tick, Pause, Unpause, TransferOwnership, AcceptOwnership,
              RenounceOwnership, vars, governanceVars
<1> QED
  BY <1>1, <1>2, <1>3, <1>4 DEF Next

(***************************************************************************)
(* A pause freezes vendors and requests; of a pending change of approver   *)
(* it leaves only the withdrawal.                                          *)
(***************************************************************************)
THEOREM PauseFreezes == Spec => PauseOnlyWithdraws
<1>1. TypeOK /\ [Next]_vars =>
        (paused =>
           /\ UNCHANGED <<vendors, requestVars>>
           /\ \A v \in Vendors :
                /\ rotations'[v] \in {rotations[v], NoRotation}
                /\ recoveries'[v] \in {recoveries[v], NoRecovery})
  BY PausedStep
<1> QED
  BY <1>1, TypeCorrectness, PTL DEF Spec, PauseOnlyWithdraws
(* Nobody is left to lift the pause: no sender is the zero address.        *)
RenouncedPause == paused /\ owner = Zero /\ pendingOwner = Zero

LEMMA RenouncedStep ==
  ASSUME RenouncedPause, [Next]_vars
  PROVE  RenouncedPause'
<1>1. \A sender \in Accounts : sender # owner /\ sender # pendingOwner
  BY AddressAssumption DEF RenouncedPause
<1>2. ~AdminNext
  BY <1>1 DEF AdminNext, Pause, Unpause, TransferOwnership, AcceptOwnership,
              RenounceOwnership, OnlyOwner
<1>3. ~RequestNext /\ ~VendorNext
  BY DEF RenouncedPause, RequestNext, OpenChangeRequest, SubmitPrivateSignal, SettleApproval,
         VendorNext, RegisterVendor, SetOperationalReviewers, WhenNotPaused
<1>4. ASSUME GovernanceNext
      PROVE  UNCHANGED adminVars
  BY <1>4 DEF GovernanceNext, ProposeApproverRotation, ApproveApproverRotation,
              AcceptApproverRotation, CancelApproverRotation, ScheduleApproverRecovery,
              AcceptApproverRecovery, VetoApproverRecovery, CancelApproverRecovery,
              DropRecovery, ExecuteApproverRecovery
<1>5. UNCHANGED adminVars
  BY <1>2, <1>3, <1>4 DEF Next, Tick, vars
<1>6. QED
  BY <1>5 DEF RenouncedPause, adminVars

(***************************************************************************)
(* Who renounces the ownership of a paused firewall (renounceOwnership of  *)
(* Ownable has no whenNotPaused) ends it: it stays paused and ownerless,   *)
(* and no vendor and no request changes ever again.                        *)
(***************************************************************************)
THEOREM RenouncedPauseIsForGood ==
  Spec => [](RenouncedPause =>
               /\ []RenouncedPause
               /\ [][UNCHANGED <<vendors, requestVars>>]_vars)
<1>1. RenouncedPause /\ [Next]_vars => RenouncedPause'
  BY RenouncedStep
<1>2. TypeOK /\ RenouncedPause /\ [Next]_vars => [UNCHANGED <<vendors, requestVars>>]_vars
  BY PausedStep DEF RenouncedPause
<1> QED
  BY <1>1, <1>2, TypeCorrectness, PTL DEF Spec
=============================================================================
