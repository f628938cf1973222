----------------------------- MODULE FirewallV2 -----------------------------
(***************************************************************************)
(* contracts/QeltrunPayoutFirewallV2.sol: the payout policy engine.        *)
(*                                                                         *)
(* Every external function is one action, because a transaction is atomic  *)
(* and a revert leaves no trace: the guard of an action is the conjunction *)
(* of the function's modifiers and early reverts.  Interleaving is that of *)
(* the transactions of the owner, the reviewers, the candidates and of     *)
(* anybody else, in any order.                                             *)
(*                                                                         *)
(* What is abstracted: a request id (a hash of its six fields) is the      *)
(* record of those fields; an encrypted input handle is the record of what *)
(* the Nox gateway minted it for; a handle that Nox computes is the value  *)
(* it decrypts to.                                                         *)
(***************************************************************************)
EXTENDS Integers, FiniteSets

CONSTANTS
  Vendors,      \* vendor ids the owner may register (non-zero)
  Accounts,     \* non-zero addresses that send transactions
  Wallets,      \* non-zero payout addresses; may overlap Accounts
  Zero,         \* address(0)
  Owners,       \* accounts the contract may be deployed for
  NewOwners,    \* addresses ownership may be handed to
  Enrolments,   \* <<wallet, approver, treasury, risk>> registrations tried
  Reseatings,   \* <<treasury, risk>> operational reviewers tried
  Candidates,   \* addresses proposed as a vendor's next approver
  Requesters,   \* accounts that open requests
  Nonces,       \* nonces a requester uses
  Serials,      \* tells apart handles minted for one owner and one value
  SignalValues, \* plaintexts a reviewer may encrypt, euint16
  NoRequest,    \* bytes32(0) as a request id
  MaxEpoch,     \* type(uint64).max: approverEpoch++ is checked arithmetic
  RecoveryDelay,\* RECOVERY_DELAY, in the model's units of time
  MaxTime       \* bound: block.timestamp stays below it

ASSUME AddressAssumption == Zero \notin Accounts /\ Zero \notin Wallets
ASSUME SenderAssumption == Owners \subseteq Accounts /\ Requesters \subseteq Accounts
ASSUME AddressInputAssumption ==
  NewOwners \subseteq Accounts \cup {Zero} /\ Candidates \subseteq Accounts \cup {Zero}
ASSUME SeatInputAssumption ==
  /\ Enrolments \subseteq (Wallets \cup {Zero}) \X (Accounts \cup {Zero})
                          \X (Accounts \cup {Zero}) \X (Accounts \cup {Zero})
  /\ Reseatings \subseteq (Accounts \cup {Zero}) \X (Accounts \cup {Zero})
ASSUME SignalAssumption == \A s \in SignalValues : s \in Nat /\ s < 65536
ASSUME EpochAssumption == MaxEpoch \in Nat \ {0}
ASSUME TimeAssumption == RecoveryDelay \in Nat \ {0} /\ MaxTime \in Nat

RequiredSignals == 3

Address == Accounts \cup {Zero}
WalletAddress == Wallets \cup {Zero}
Epoch == 1..MaxEpoch
Time == 0..MaxTime

RequestId ==
  [vendorId : Vendors, currentWallet : Wallets, proposedWallet : Wallets,
   requestedBy : Requesters, nonce : Nonces, approverEpoch : Epoch]

ASSUME NoRequestAssumption == NoRequest \notin RequestId

(* What the gateway minted an input handle for: its proof binds the handle *)
(* to the account that may submit it, the plaintext never changes.         *)
Handle == [owner : Accounts, value : SignalValues, serial : Serials]

Signal == [request : RequestId, reviewer : Accounts, handle : Handle]

Vendor ==
  [payoutWallet : WalletAddress, approver : Address, treasuryReviewer : Address,
   riskReviewer : Address, approverEpoch : 0..MaxEpoch, registered : BOOLEAN]

ChangeRequest ==
  [aggregateScore : 0..RequiredSignals, verdict : BOOLEAN,
   status : {"None", "Collecting", "Sealed", "Settled"},
   signalCount : 0..RequiredSignals, approved : BOOLEAN]

ApproverRotation ==
  [newApprover : Address, currentApproved : BOOLEAN, candidateAccepted : BOOLEAN]

ApproverRecovery ==
  [newApprover : Address, executeAfter : 0..(MaxTime + RecoveryDelay),
   candidateAccepted : BOOLEAN]

(* The zero values of the four mappings. *)
NoVendor ==
  [payoutWallet |-> Zero, approver |-> Zero, treasuryReviewer |-> Zero,
   riskReviewer |-> Zero, approverEpoch |-> 0, registered |-> FALSE]
Blank(status) ==
  [aggregateScore |-> 0, verdict |-> FALSE, status |-> status,
   signalCount |-> 0, approved |-> FALSE]
Unopened == Blank("None")
NoRotation ==
  [newApprover |-> Zero, currentApproved |-> FALSE, candidateAccepted |-> FALSE]
NoRecovery ==
  [newApprover |-> Zero, executeAfter |-> 0, candidateAccepted |-> FALSE]

VARIABLES
  vendors,          \* _vendors
  requests,         \* _requests
  signalSubmitted,  \* _signalSubmitted, as the set of accounts mapped to true
  handleUsedBy,     \* _handleUsedBy
  rotations,        \* _rotations
  recoveries,       \* _recoveries
  owner,            \* Ownable._owner
  pendingOwner,     \* Ownable2Step._pendingOwner
  paused,           \* Pausable._paused
  now,              \* block.timestamp
  signalLog,        \* the PrivateSignalSubmitted events
  proposal          \* history: who consented to the last proposed approver,
                    \* and when it was proposed

requestVars == <<requests, signalSubmitted, handleUsedBy, signalLog>>
governanceVars == <<rotations, recoveries, proposal>>
adminVars == <<owner, pendingOwner, paused>>
vars == <<vendors, requestVars, governanceVars, adminVars, now>>

TypeOK ==
  /\ vendors \in [Vendors -> Vendor]
  /\ requests \in [RequestId -> ChangeRequest]
  /\ signalSubmitted \in [RequestId -> SUBSET Accounts]
  /\ handleUsedBy \in [Handle -> RequestId \cup {NoRequest}]
  /\ rotations \in [Vendors -> ApproverRotation]
  /\ recoveries \in [Vendors -> ApproverRecovery]
  /\ owner \in Address
  /\ pendingOwner \in Address
  /\ paused \in BOOLEAN
  /\ now \in Time
  /\ signalLog \in SUBSET Signal
  /\ proposal \in [Vendors -> [voters : SUBSET Accounts, since : Time]]

Init ==
  /\ vendors = [v \in Vendors |-> NoVendor]
  /\ requests = [id \in RequestId |-> Unopened]
  /\ signalSubmitted = [id \in RequestId |-> {}]
  /\ handleUsedBy = [h \in Handle |-> NoRequest]
  /\ rotations = [v \in Vendors |-> NoRotation]
  /\ recoveries = [v \in Vendors |-> NoRecovery]
  /\ owner \in Owners
  /\ pendingOwner = Zero
  /\ paused = FALSE
  /\ now = 0
  /\ signalLog = {}
  /\ proposal = [v \in Vendors |-> [voters |-> {}, since |-> 0]]

-----------------------------------------------------------------------------
(* Modifiers and private helpers.  A definition that stands directly above *)
(* another with the same parameters and has no comment (Unchecked,         *)
(* AnyEpoch, ...) is what a plausible slip would make of the one below it; *)
(* nothing uses it but the mutants PROJECT.json lists.                     *)

OnlyOwner(sender) == sender = owner

Unchecked == TRUE
WhenNotPaused == ~paused

Registered(v) == vendors[v].registered

Seats(vendor) == {vendor.approver, vendor.treasuryReviewer, vendor.riskReviewer}

(* _validateReviewers: all four non-zero, the three reviewers distinct.    *)
ValidReviewers(wallet, approver, treasury, risk) ==
  /\ Zero \notin {wallet, approver, treasury, risk}
  /\ approver # treasury
  /\ approver # risk
  /\ treasury # risk

UnvalidatedCandidate(vendor, candidate) == TRUE
(* _validateApproverCandidate *)
ValidCandidate(vendor, candidate) == candidate \notin Seats(vendor)

RotationPending(v) == rotations[v].newApprover # Zero
RecoveryPending(v) == recoveries[v].newApprover # Zero

RotationOnly(v) == ~RotationPending(v)
(* The two guards that keep one proposal per vendor.                       *)
NothingPending(v) == ~RotationPending(v) /\ ~RecoveryPending(v)

EpochWraps(v) == TRUE
(* approverEpoch++ reverts on overflow. *)
EpochAvailable(v) == vendors[v].approverEpoch < MaxEpoch

EpochKept(vendor) == vendor.approverEpoch
NextEpoch(vendor) == vendor.approverEpoch + 1

(* _changeApprover *)
ChangeApprover(v, nextApprover) ==
  /\ ValidCandidate(vendors[v], nextApprover)
  /\ EpochAvailable(v)
  /\ vendors' = [vendors EXCEPT ![v].approver = nextApprover,
                                ![v].approverEpoch = NextEpoch(vendors[v])]

AnyEpoch(id) == TRUE
(* The StaleApproverEpoch checks. *)
InCurrentEpoch(id) == vendors[id.vendorId].approverEpoch = id.approverEpoch

AnyWallet(id) == TRUE
(* The StaleRequest check. *)
WalletStillCurrent(id) == vendors[id.vendorId].payoutWallet = id.currentWallet

AnyHandle(h) == TRUE
(* The HandleAlreadyUsed check. *)
UnusedHandle(h) == handleUsedBy[h] = NoRequest

Unsanitized(signal) == signal
(* Nox.select(Nox.le(signal, 1), signal, 0): anything above one counts as zero. *)
Sanitized(signal) == IF signal <= 1 THEN signal ELSE 0

AnyApproval(score) == score > 0
(* Nox.eq(aggregate, REQUIRED_SIGNALS) *)
Verdict(score) == score = RequiredSignals

-----------------------------------------------------------------------------
(* Vendors and change requests.                                            *)

RegisterVendor(sender, v, wallet, approver, treasury, risk) ==
  /\ OnlyOwner(sender)
  /\ WhenNotPaused
  /\ ~Registered(v)
  /\ ValidReviewers(wallet, approver, treasury, risk)
  /\ vendors' = [vendors EXCEPT ![v] =
       [payoutWallet |-> wallet, approver |-> approver,
        treasuryReviewer |-> treasury, riskReviewer |-> risk,
        approverEpoch |-> 1, registered |-> TRUE]]
  /\ UNCHANGED <<requestVars, governanceVars, adminVars, now>>

SetOperationalReviewers(sender, v, treasury, risk) ==
  /\ OnlyOwner(sender)
  /\ WhenNotPaused
  /\ Registered(v)
  /\ ValidReviewers(vendors[v].payoutWallet, vendors[v].approver, treasury, risk)
  /\ EpochAvailable(v)
  /\ vendors' = [vendors EXCEPT ![v].treasuryReviewer = treasury,
                                ![v].riskReviewer = risk,
                                ![v].approverEpoch = NextEpoch(vendors[v])]
  /\ UNCHANGED <<requestVars, governanceVars, adminVars, now>>

(* deriveRequestId, read from the vendor's record at the time of the call. *)
DerivedRequestId(v, proposedWallet, sender, nonce) ==
  [vendorId |-> v, currentWallet |-> vendors[v].payoutWallet,
   proposedWallet |-> proposedWallet, requestedBy |-> sender, nonce |-> nonce,
   approverEpoch |-> vendors[v].approverEpoch]

OpenChangeRequest(sender, v, proposedWallet, nonce) ==
  LET id == DerivedRequestId(v, proposedWallet, sender, nonce)
  IN /\ WhenNotPaused
     /\ Registered(v)
     /\ proposedWallet # Zero
     /\ proposedWallet # vendors[v].payoutWallet
     /\ requests[id].status = "None"
     /\ requests' = [requests EXCEPT ![id] = Blank("Collecting")]
     /\ UNCHANGED <<vendors, signalSubmitted, handleUsedBy, signalLog,
                    governanceVars, adminVars, now>>

(* Nox.fromExternal accepts the handle only with a proof for its owner.    *)
(* The third signal seals the request and makes its verdict, and nothing   *)
(* else, publicly decryptable.                                             *)
SubmitPrivateSignal(sender, id, h) ==
  LET request == requests[id]
      aggregate == IF request.signalCount = 0
                   THEN Sanitized(h.value)
                   ELSE request.aggregateScore + Sanitized(h.value)
      last == request.signalCount + 1 = RequiredSignals
  IN /\ WhenNotPaused
     /\ request.status = "Collecting"
     /\ sender \in Seats(vendors[id.vendorId])
     /\ sender \notin signalSubmitted[id]
     /\ InCurrentEpoch(id)
     /\ h.owner = sender
     /\ UnusedHandle(h)
     /\ signalSubmitted' = [signalSubmitted EXCEPT ![id] = @ \cup {sender}]
     /\ handleUsedBy' = [handleUsedBy EXCEPT ![h] = id]
     /\ requests' = [requests EXCEPT ![id] =
          [request EXCEPT !.aggregateScore = aggregate,
                          !.signalCount = @ + 1,
                          !.verdict = last /\ Verdict(aggregate),
                          !.status = IF last THEN "Sealed" ELSE @]]
     /\ signalLog' = signalLog \cup {[request |-> id, reviewer |-> sender, handle |-> h]}
     /\ UNCHANGED <<vendors, governanceVars, adminVars, now>>

(* Anyone settles; Nox.publicDecrypt proves the verdict's plaintext.       *)
SettleApproval(id) ==
  LET approved == requests[id].verdict
  IN /\ WhenNotPaused
     /\ requests[id].status = "Sealed"
     /\ WalletStillCurrent(id)
     /\ InCurrentEpoch(id)
     /\ requests' = [requests EXCEPT ![id].approved = approved,
                                     ![id].status = "Settled"]
     /\ vendors' = IF approved
                   THEN [vendors EXCEPT ![id.vendorId].payoutWallet = id.proposedWallet]
                   ELSE vendors
     /\ UNCHANGED <<signalSubmitted, handleUsedBy, signalLog, governanceVars,
                    adminVars, now>>

-----------------------------------------------------------------------------
(* Approver rotation: the current approver and the candidate both consent. *)

Proposed(v) == proposal' = [proposal EXCEPT ![v] = [voters |-> {}, since |-> now]]
Consented(v, sender) == proposal' = [proposal EXCEPT ![v].voters = @ \cup {sender}]

ProposeApproverRotation(sender, v, newApprover) ==
  /\ OnlyOwner(sender)
  /\ WhenNotPaused
  /\ Registered(v)
  /\ newApprover # Zero
  /\ ValidCandidate(vendors[v], newApprover)
  /\ NothingPending(v)
  /\ rotations' = [rotations EXCEPT ![v] = [NoRotation EXCEPT !.newApprover = newApprover]]
  /\ Proposed(v)
  /\ UNCHANGED <<vendors, recoveries, requestVars, adminVars, now>>

(* _finalizeRotationIfReady on the rotation as the caller has marked it.   *)
FinalizeRotationIfReady(v, rotation) ==
  IF rotation.currentApproved /\ rotation.candidateAccepted
  THEN /\ rotations' = [rotations EXCEPT ![v] = NoRotation]
       /\ ChangeApprover(v, rotation.newApprover)
  ELSE /\ rotations' = [rotations EXCEPT ![v] = rotation]
       /\ UNCHANGED vendors

IsApprover(sender, v) == sender = vendors[v].approver

ApproveApproverRotation(sender, v, expectedNewApprover) ==
  /\ WhenNotPaused
  /\ Registered(v)
  /\ IsApprover(sender, v)
  /\ RotationPending(v)
  /\ rotations[v].newApprover = expectedNewApprover
  /\ FinalizeRotationIfReady(v, [rotations[v] EXCEPT !.currentApproved = TRUE])
  /\ Consented(v, sender)
  /\ UNCHANGED <<recoveries, requestVars, adminVars, now>>

AcceptApproverRotation(sender, v) ==
  /\ WhenNotPaused
  /\ Registered(v)
  /\ RotationPending(v)
  /\ rotations[v].newApprover = sender
  /\ FinalizeRotationIfReady(v, [rotations[v] EXCEPT !.candidateAccepted = TRUE])
  /\ Consented(v, sender)
  /\ UNCHANGED <<recoveries, requestVars, adminVars, now>>

CancelApproverRotation(sender, v) ==
  /\ Registered(v)
  /\ OnlyOwner(sender) \/ IsApprover(sender, v)
  /\ RotationPending(v)
  /\ rotations' = [rotations EXCEPT ![v] = NoRotation]
  /\ UNCHANGED <<vendors, recoveries, proposal, requestVars, adminVars, now>>

-----------------------------------------------------------------------------
(* Approver recovery: candidate acceptance, a delay, the approver's veto.  *)

ScheduleApproverRecovery(sender, v, newApprover) ==
  /\ OnlyOwner(sender)
  /\ WhenNotPaused
  /\ Registered(v)
  /\ newApprover # Zero
  /\ ValidCandidate(vendors[v], newApprover)
  /\ NothingPending(v)
  /\ recoveries' = [recoveries EXCEPT ![v] =
       [newApprover |-> newApprover, executeAfter |-> now + RecoveryDelay,
        candidateAccepted |-> FALSE]]
  /\ Proposed(v)
  /\ UNCHANGED <<vendors, rotations, requestVars, adminVars, now>>

AcceptApproverRecovery(sender, v) ==
  /\ WhenNotPaused
  /\ RecoveryPending(v)
  /\ recoveries[v].newApprover = sender
  /\ recoveries' = [recoveries EXCEPT ![v].candidateAccepted = TRUE]
  /\ Consented(v, sender)
  /\ UNCHANGED <<vendors, rotations, requestVars, adminVars, now>>

DropRecovery(v) ==
  /\ Registered(v)
  /\ RecoveryPending(v)
  /\ recoveries' = [recoveries EXCEPT ![v] = NoRecovery]
  /\ UNCHANGED <<vendors, rotations, proposal, requestVars, adminVars, now>>

VetoApproverRecovery(sender, v) == IsApprover(sender, v) /\ DropRecovery(v)

CancelApproverRecovery(sender, v) == OnlyOwner(sender) /\ DropRecovery(v)

ReadyAtOnce(v) == TRUE
(* The RecoveryNotReady check. *)
RecoveryReady(v) == now >= recoveries[v].executeAfter

ExecuteApproverRecovery(sender, v) ==
  /\ OnlyOwner(sender)
  /\ WhenNotPaused
  /\ Registered(v)
  /\ RecoveryPending(v)
  /\ recoveries[v].candidateAccepted
  /\ RecoveryReady(v)
  /\ recoveries' = [recoveries EXCEPT ![v] = NoRecovery]
  /\ ChangeApprover(v, recoveries[v].newApprover)
  /\ UNCHANGED <<rotations, proposal, requestVars, adminVars, now>>

-----------------------------------------------------------------------------
(* Administration: Pausable and Ownable2Step (OpenZeppelin), and the clock. *)

Pause(sender) ==
  /\ OnlyOwner(sender)
  /\ ~paused
  /\ paused' = TRUE
  /\ UNCHANGED <<vendors, requestVars, governanceVars, owner, pendingOwner, now>>

Unpause(sender) ==
  /\ OnlyOwner(sender)
  /\ paused
  /\ paused' = FALSE
  /\ UNCHANGED <<vendors, requestVars, governanceVars, owner, pendingOwner, now>>

TransferOwnership(sender, newOwner) ==
  /\ OnlyOwner(sender)
  /\ pendingOwner' = newOwner
  /\ UNCHANGED <<vendors, requestVars, governanceVars, owner, paused, now>>

AcceptOwnership(sender) ==
  /\ sender = pendingOwner
  /\ owner' = sender
  /\ pendingOwner' = Zero
  /\ UNCHANGED <<vendors, requestVars, governanceVars, paused, now>>

RenounceOwnership(sender) ==
  /\ OnlyOwner(sender)
  /\ owner' = Zero
  /\ pendingOwner' = Zero
  /\ UNCHANGED <<vendors, requestVars, governanceVars, paused, now>>

Tick ==
  /\ now < MaxTime
  /\ now' = now + 1
  /\ UNCHANGED <<vendors, requestVars, governanceVars, adminVars>>

(* isPayoutAllowed, for a destination; the reason text is left out. *)
PayoutAllowed(v, destination) ==
  /\ ~paused
  /\ Registered(v)
  /\ destination # Zero
  /\ destination = vendors[v].payoutWallet

-----------------------------------------------------------------------------
RequestNext ==
  \/ \E sender \in Requesters, v \in Vendors, w \in WalletAddress, n \in Nonces :
       OpenChangeRequest(sender, v, w, n)
  \/ \E sender \in Accounts, id \in RequestId, h \in Handle :
       SubmitPrivateSignal(sender, id, h)
  \/ \E id \in RequestId : SettleApproval(id)

VendorNext ==
  \E sender \in Accounts, v \in Vendors :
    \/ \E e \in Enrolments : RegisterVendor(sender, v, e[1], e[2], e[3], e[4])
    \/ \E e \in Reseatings : SetOperationalReviewers(sender, v, e[1], e[2])

GovernanceNext ==
  \E sender \in Accounts, v \in Vendors :
    \/ \E c \in Candidates :
         \/ ProposeApproverRotation(sender, v, c)
         \/ ApproveApproverRotation(sender, v, c)
         \/ ScheduleApproverRecovery(sender, v, c)
    \/ AcceptApproverRotation(sender, v)
    \/ CancelApproverRotation(sender, v)
    \/ AcceptApproverRecovery(sender, v)
    \/ VetoApproverRecovery(sender, v)
    \/ CancelApproverRecovery(sender, v)
    \/ ExecuteApproverRecovery(sender, v)

AdminNext ==
  \E sender \in Accounts :
    \/ Pause(sender)
    \/ Unpause(sender)
    \/ \E newOwner \in NewOwners : TransferOwnership(sender, newOwner)
    \/ AcceptOwnership(sender)
    \/ RenounceOwnership(sender)

Next == RequestNext \/ VendorNext \/ GovernanceNext \/ AdminNext \/ Tick

Spec == Init /\ [][Next]_vars
=============================================================================
