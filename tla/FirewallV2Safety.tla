-------------------------- MODULE FirewallV2Safety --------------------------
(***************************************************************************)
(* What must hold of the payout firewall, and the abstract promise it      *)
(* implements.                                                             *)
(***************************************************************************)
EXTENDS FirewallV2

SignalsOf(id) == {s \in signalLog : s.request = id}

Endorses(id, account) ==
  \E s \in signalLog : s.request = id /\ s.reviewer = account /\ s.handle.value = 1

Stale(id) == vendors[id.vendorId].approverEpoch # id.approverEpoch

(***************************************************************************)
(* A sealed verdict (submitPrivateSignal, lines 249-256) is true exactly   *)
(* when three different reviewers each encrypted the value one: no value   *)
(* above one, and no signal counted twice, makes up for a missing consent. *)
(***************************************************************************)
VerdictIsUnanimity ==
  \A id \in RequestId :
    requests[id].status \in {"Sealed", "Settled"} =>
      /\ Cardinality({s.reviewer : s \in SignalsOf(id)}) = RequiredSignals
      /\ requests[id].verdict <=> \A s \in SignalsOf(id) : s.handle.value = 1

(***************************************************************************)
(* Whoever has signalled on a request of the vendor's current epoch holds  *)
(* one of its seats now: every way of changing a seat (lines 154-165,      *)
(* 510-527, 367-376) also ends the epoch, so that no signal of a former    *)
(* reviewer counts towards a request that can still be settled.            *)
(***************************************************************************)
SignersHoldSeats ==
  \A id \in RequestId :
    ~Stale(id) => signalSubmitted[id] \subseteq Seats(vendors[id.vendorId])

(***************************************************************************)
(* An encrypted input counts once, in one request (_handleUsedBy, lines    *)
(* 230-233), and the contract's record of where agrees with the events.    *)
(***************************************************************************)
HandleCountsOnce ==
  /\ \A s, t \in signalLog : s.handle = t.handle => s = t
  /\ \A s \in signalLog : handleUsedBy[s.handle] = s.request

(***************************************************************************)
(* The three seats of a vendor are held by three different accounts, also  *)
(* when the owner seats a pending candidate as an operational reviewer and *)
(* the rotation or recovery is completed later (lines 521-534).            *)
(***************************************************************************)
SeatsAreIndependent ==
  \A v \in Vendors :
    Registered(v) => /\ Cardinality(Seats(vendors[v])) = 3
                     /\ Zero \notin Seats(vendors[v])

(***************************************************************************)
(* A consent recorded for a pending change of approver was given by the    *)
(* account it stands for, for this proposal: currentApproved by whoever is *)
(* the approver now, candidateAccepted by the candidate.  It would break   *)
(* if the approver could change under a pending rotation, or if a cancelled*)
(* proposal left a flag behind.                                            *)
(***************************************************************************)
ConsentIsGenuine ==
  \A v \in Vendors :
    /\ rotations[v].currentApproved => vendors[v].approver \in proposal[v].voters
    /\ rotations[v].candidateAccepted => rotations[v].newApprover \in proposal[v].voters
    /\ recoveries[v].candidateAccepted => recoveries[v].newApprover \in proposal[v].voters

(***************************************************************************)
(* A registered vendor's payout wallet moves only in the step that settles *)
(* a sealed request from that wallet to the new one, of the epoch in force,*)
(* which everyone who holds a seat now endorsed with a private one.        *)
(***************************************************************************)
WalletMovesByUnanimity ==
  [][\A v \in Vendors :
       Registered(v) /\ vendors'[v].payoutWallet # vendors[v].payoutWallet =>
         \E id \in RequestId :
           /\ id.vendorId = v
           /\ id.currentWallet = vendors[v].payoutWallet
           /\ id.proposedWallet = vendors'[v].payoutWallet
           /\ ~Stale(id)
           /\ requests[id].status = "Sealed" /\ requests'[id].status = "Settled"
           /\ \A a \in Seats(vendors[v]) : Endorses(id, a)]_vars

(***************************************************************************)
(* README.md, Governance: "old collecting or sealed requests cannot        *)
(* survive a role change".  A request of an earlier epoch never changes    *)
(* again, and epochs never go back to make it current.                     *)
(***************************************************************************)
StaleRequestsAreInert ==
  [][\A id \in RequestId :
       Registered(id.vendorId) /\ Stale(id) /\ requests[id].status # "None" =>
         /\ requests'[id] = requests[id]
         /\ signalSubmitted'[id] = signalSubmitted[id]
         /\ Stale(id)']_vars

(***************************************************************************)
(* An approver is replaced only by a candidate who consented, and with the *)
(* consent of the approver replaced or after the whole recovery delay has  *)
(* passed since this candidate was proposed.                               *)
(***************************************************************************)
ApproverChangesByConsent ==
  [][\A v \in Vendors :
       Registered(v) /\ vendors'[v].approver # vendors[v].approver =>
         /\ vendors'[v].approver \in proposal'[v].voters
         /\ \/ vendors[v].approver \in proposal'[v].voters
            \/ now >= proposal[v].since + RecoveryDelay]_vars

(***************************************************************************)
(* While the firewall is paused nothing changes but what takes a pending   *)
(* change of approver away (cancelApproverRotation, vetoApproverRecovery,  *)
(* cancelApproverRecovery carry no whenNotPaused).                         *)
(***************************************************************************)
PauseOnlyWithdraws ==
  [][paused =>
       /\ UNCHANGED <<vendors, requestVars>>
       /\ \A v \in Vendors :
            /\ rotations'[v] \in {rotations[v], NoRotation}
            /\ recoveries'[v] \in {recoveries[v], NoRecovery}]_vars

-----------------------------------------------------------------------------
(* The inductive invariant behind the properties above.                    *)

(* A vendor's record is either untouched or filled in: a wallet, an epoch, *)
(* three different reviewers.                                              *)
VendorShape ==
  \A v \in Vendors :
    LET vendor == vendors[v]
    IN IF vendor.registered
       THEN /\ vendor.approverEpoch >= 1
            /\ ValidReviewers(vendor.payoutWallet, vendor.approver,
                              vendor.treasuryReviewer, vendor.riskReviewer)
       ELSE vendor = NoVendor

(* At most one change of approver is pending, for a registered vendor, and *)
(* nothing is left behind of one that no longer is.                        *)
OneProposal(v) ==
  /\ RotationPending(v) \/ rotations[v] = NoRotation
  /\ RecoveryPending(v) \/ recoveries[v] = NoRecovery
  /\ rotations[v] = NoRotation \/ recoveries[v] = NoRecovery
  /\ RecoveryPending(v) => recoveries[v].executeAfter = proposal[v].since + RecoveryDelay
  /\ RotationPending(v) \/ RecoveryPending(v) => Registered(v)

ProposalShape == \A v \in Vendors : OneProposal(v)

(* Status, count and score of a request go together; its epoch has begun.  *)
WellFormed(id) ==
  LET request == requests[id]
  IN /\ request.status = "None" => request = Unopened
     /\ request.status = "Collecting" => request.signalCount < RequiredSignals
     /\ request.status \in {"Sealed", "Settled"} =>
          /\ request.signalCount = RequiredSignals
          /\ request.verdict <=> request.aggregateScore = RequiredSignals
     /\ request.aggregateScore <= request.signalCount
     /\ request.approved => request.status = "Settled"
     /\ request.status # "None" =>
          /\ Registered(id.vendorId)
          /\ id.approverEpoch <= vendors[id.vendorId].approverEpoch

RequestShape == \A id \in RequestId : WellFormed(id)

(* The contract's flags, counters and events tell the same story.          *)
SignalsRecorded ==
  \A id \in RequestId :
    /\ \A s \in SignalsOf(id) : s.reviewer \in signalSubmitted[id]
    /\ \A account \in signalSubmitted[id] : \E s \in SignalsOf(id) : s.reviewer = account
    /\ IsFiniteSet(signalSubmitted[id])
    /\ Cardinality(signalSubmitted[id]) = requests[id].signalCount

(* The score reaches the count exactly when every signal was a one.        *)
ScoreIsUnanimity ==
  \A id \in RequestId :
    requests[id].aggregateScore = requests[id].signalCount
      <=> \A s \in SignalsOf(id) : s.handle.value = 1

(* Every handle in an event is recorded as used, and appears in one event. *)
HandlesRecorded ==
  /\ HandleCountsOnce
  /\ \A s \in signalLog : s.handle.owner = s.reviewer

IInv ==
  /\ TypeOK
  /\ VendorShape
  /\ ProposalShape
  /\ RequestShape
  /\ SignalsRecorded
  /\ ScoreIsUnanimity
  /\ HandlesRecorded
  /\ SignersHoldSeats
  /\ ConsentIsGenuine

-----------------------------------------------------------------------------
(* The abstract promise.  A settled true verdict is a spent proposal; an   *)
(* endorsement is a signal with value one on a request of the epoch in     *)
(* force.                                                                  *)

CurrentEndorsements ==
  {e \in {<<s.request, s.reviewer>> : s \in signalLog} :
     ~Stale(e[1]) /\ Endorses(e[1], e[2])}

ThreeAccounts == {S \in SUBSET Accounts : Cardinality(S) = RequiredSignals}

WalletOf == [v \in Vendors |-> vendors[v].payoutWallet]
SeatsOf == [v \in Vendors |-> IF Registered(v) THEN Seats(vendors[v]) ELSE {}]
Spent == {id \in RequestId : requests[id].approved}

FromOf(id) == id.currentWallet
ToOf(id) == id.proposedWallet
VendorIdOf(id) == id.vendorId

Policy == INSTANCE PayoutPolicy WITH
  NoWallet <- Zero,
  Proposals <- RequestId,
  Seatings <- ThreeAccounts,
  From <- FromOf,
  To <- ToOf,
  VendorOf <- VendorIdOf,
  wallet <- WalletOf,
  seats <- SeatsOf,
  endorsed <- CurrentEndorsements,
  spent <- Spent

(***************************************************************************)
(* The contract implements the promise of PayoutPolicy.                    *)
(***************************************************************************)
ImplementsPolicy == Policy!Spec
=============================================================================
