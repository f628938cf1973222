----------------------------- MODULE FirewallV1 -----------------------------
(***************************************************************************)
(* contracts/QeltrunPayoutFirewall.sol: the first payout firewall.  One    *)
(* approver per vendor, fixed at registration, which anyone may do; no     *)
(* owner, no pause, no epochs.  A transaction is one action.               *)
(*                                                                         *)
(* Request ids and handles are abstracted as in FirewallV2; the sealed bit *)
(* is decided when the gateway mints its handle, and publicDecrypt reveals *)
(* that bit and no other.                                                  *)
(***************************************************************************)
EXTENDS Integers, FiniteSets

CONSTANTS
  Vendors,    \* vendor ids (non-zero)
  Accounts,   \* non-zero addresses that send transactions
  Wallets,    \* non-zero payout addresses
  Zero,       \* address(0)
  Requesters, \* accounts that open requests
  Nonces,     \* nonces a requester uses
  Serials,    \* tells apart handles minted for one owner and one bit
  NoHandle,   \* bytes32(0) as a handle
  NoRequest   \* bytes32(0) as a request id

ASSUME AddressAssumption ==
  Zero \notin Accounts /\ Zero \notin Wallets /\ Requesters \subseteq Accounts

RequestId ==
  [vendorId : Vendors, currentWallet : Wallets, proposedWallet : Wallets,
   requestedBy : Requesters, nonce : Nonces]

Handle == [owner : Accounts, approves : BOOLEAN, serial : Serials]

ASSUME AbsenceAssumption == NoRequest \notin RequestId /\ NoHandle \notin Handle

(* A vendor registered with non-zero addresses.                            *)
Vendor == [payoutWallet : Wallets, approver : Accounts, registered : {TRUE}]

ChangeRequest ==
  [sealedApproval : Handle \cup {NoHandle}, approved : BOOLEAN,
   status : {"None", "Pending", "Sealed", "Settled"}]

NoVendor == [payoutWallet |-> Zero, approver |-> Zero, registered |-> FALSE]
Blank(status) == [sealedApproval |-> NoHandle, approved |-> FALSE, status |-> status]

VARIABLES
  vendors,      \* _vendors
  requests,     \* _requests
  handleUsedBy, \* _handleUsedBy
  movedBefore   \* history: the requests that had moved the vendor's wallet
                \* when a request was opened

vars == <<vendors, requests, handleUsedBy, movedBefore>>

TypeOK ==
  /\ vendors \in [Vendors -> Vendor \cup {NoVendor}]
  /\ requests \in [RequestId -> ChangeRequest]
  /\ handleUsedBy \in [Handle -> RequestId \cup {NoRequest}]
  /\ movedBefore \in [RequestId -> SUBSET RequestId]

Init ==
  /\ vendors = [v \in Vendors |-> NoVendor]
  /\ requests = [id \in RequestId |-> Blank("None")]
  /\ handleUsedBy = [h \in Handle |-> NoRequest]
  /\ movedBefore = [id \in RequestId |-> {}]

(* The requests whose settlement has moved the wallet of vendor v.         *)
Moves(v) == {id \in RequestId : id.vendorId = v /\ requests[id].approved}

Overwritten(v) == TRUE
(* The VendorAlreadyRegistered check. *)
Unregistered(v) == ~vendors[v].registered

AnyAddresses(wallet, approver) == wallet # Zero
(* The ZeroAddress check. *)
NonZero(wallet, approver) == wallet # Zero /\ approver # Zero

RegisterVendor(v, wallet, approver) ==
  /\ NonZero(wallet, approver)
  /\ Unregistered(v)
  /\ vendors' = [vendors EXCEPT ![v] =
       [payoutWallet |-> wallet, approver |-> approver, registered |-> TRUE]]
  /\ UNCHANGED <<requests, handleUsedBy, movedBefore>>

(* deriveRequestId, read from the vendor's record at the time of the call. *)
DerivedRequestId(v, proposedWallet, sender, nonce) ==
  [vendorId |-> v, currentWallet |-> vendors[v].payoutWallet,
   proposedWallet |-> proposedWallet, requestedBy |-> sender, nonce |-> nonce]

OpenChangeRequest(sender, v, proposedWallet, nonce) ==
  LET id == DerivedRequestId(v, proposedWallet, sender, nonce)
  IN /\ vendors[v].registered
     /\ proposedWallet # Zero
     /\ proposedWallet # vendors[v].payoutWallet
     /\ requests[id].status = "None"
     /\ requests' = [requests EXCEPT ![id] = Blank("Pending")]
     /\ movedBefore' = [movedBefore EXCEPT ![id] = Moves(v)]
     /\ UNCHANGED <<vendors, handleUsedBy>>

AnyHandle(h) == TRUE
(* The HandleAlreadyUsed check. *)
UnusedHandle(h) == handleUsedBy[h] = NoRequest

AnySender(sender, id) == TRUE
(* The UnauthorizedApprover check. *)
IsApprover(sender, id) == sender = vendors[id.vendorId].approver

(* Nox.fromExternal accepts the handle only with a proof for its owner.    *)
SealApproval(sender, id, h) ==
  /\ requests[id].status = "Pending"
  /\ IsApprover(sender, id)
  /\ h.owner = sender
  /\ UnusedHandle(h)
  /\ handleUsedBy' = [handleUsedBy EXCEPT ![h] = id]
  /\ requests' = [requests EXCEPT ![id].sealedApproval = h, ![id].status = "Sealed"]
  /\ UNCHANGED <<vendors, movedBefore>>

AnyWallet(id) == TRUE
(* The StaleRequest check. *)
WalletStillCurrent(id) == vendors[id.vendorId].payoutWallet = id.currentWallet

(* Anyone settles; the gateway's proof reveals the bit that was sealed.    *)
SettleApproval(id) ==
  LET approved == requests[id].sealedApproval.approves
  IN /\ requests[id].status = "Sealed"
     /\ WalletStillCurrent(id)
     /\ requests' = [requests EXCEPT ![id].approved = approved, ![id].status = "Settled"]
     /\ vendors' = IF approved
                   THEN [vendors EXCEPT ![id.vendorId].payoutWallet = id.proposedWallet]
                   ELSE vendors
     /\ UNCHANGED <<handleUsedBy, movedBefore>>

Next ==
  \/ \E v \in Vendors, w \in Wallets \cup {Zero}, a \in Accounts \cup {Zero} :
       RegisterVendor(v, w, a)
  \/ \E sender \in Requesters, v \in Vendors,
        w \in Wallets \cup {Zero}, n \in Nonces :
       OpenChangeRequest(sender, v, w, n)
  \/ \E sender \in Accounts, id \in RequestId, h \in Handle : SealApproval(sender, id, h)
  \/ \E id \in RequestId : SettleApproval(id)

Spec == Init /\ [][Next]_vars

-----------------------------------------------------------------------------
(* What must hold.                                                         *)

(***************************************************************************)
(* One sealed approval serves one request (comment at lines 61-64: without *)
(* the ledger an approval could be submitted again for a request that the  *)
(* approver never approved), and the ledger names that request.            *)
(***************************************************************************)
ApprovalServesOneRequest ==
  /\ \A id \in RequestId :
       requests[id].status \in {"Sealed", "Settled"} =>
         /\ requests[id].sealedApproval \in Handle
         /\ handleUsedBy[requests[id].sealedApproval] = id
  /\ \A h \in Handle :
       handleUsedBy[h] # NoRequest => requests[handleUsedBy[h]].sealedApproval = h

(***************************************************************************)
(* A registered vendor's wallet moves only by settling a sealed request    *)
(* from it to the new one, for which the vendor's approver sealed a true   *)
(* bit; whoever holds the role keeps it.                                   *)
(***************************************************************************)
WalletMovesByApproval ==
  [][\A v \in Vendors :
       vendors[v].registered /\ vendors'[v] # vendors[v] =>
         /\ vendors'[v].approver = vendors[v].approver
         /\ \E id \in RequestId :
              /\ id.vendorId = v
              /\ id.currentWallet = vendors[v].payoutWallet
              /\ id.proposedWallet = vendors'[v].payoutWallet
              /\ requests[id].status = "Sealed" /\ requests'[id].status = "Settled"
              /\ requests[id].sealedApproval.owner = vendors[v].approver
              /\ requests[id].sealedApproval.approves]_vars

(***************************************************************************)
(* The comment at lines 228-229: "If the wallet moved in the meantime the  *)
(* sealed approval no longer describes reality, so refuse rather than      *)
(* apply it."  Read literally: a request settles only if no other request  *)
(* has moved the vendor's wallet since it was opened.                      *)
(***************************************************************************)
RefusedOnceTheWalletMoved ==
  [][\A id \in RequestId :
       requests[id].status = "Sealed" /\ requests'[id].status = "Settled" =>
         Moves(id.vendorId) = movedBefore[id]]_vars

-----------------------------------------------------------------------------
(* The abstract promise, with one seat per vendor that is never refilled.  *)

Endorses(id, account) ==
  LET h == requests[id].sealedApproval
  IN h # NoHandle /\ h.approves /\ h.owner = account

Endorsements == {e \in RequestId \X Accounts : Endorses(e[1], e[2])}

OneAccount == {{a} : a \in Accounts}

WalletOf == [v \in Vendors |-> vendors[v].payoutWallet]
SeatsOf == [v \in Vendors |-> IF vendors[v].registered THEN {vendors[v].approver} ELSE {}]
Spent == {id \in RequestId : requests[id].approved}

FromOf(id) == id.currentWallet
ToOf(id) == id.proposedWallet
VendorIdOf(id) == id.vendorId

Policy == INSTANCE PayoutPolicy WITH
  NoWallet <- Zero,
  Proposals <- RequestId,
  Seatings <- OneAccount,
  From <- FromOf,
  To <- ToOf,
  VendorOf <- VendorIdOf,
  wallet <- WalletOf,
  seats <- SeatsOf,
  endorsed <- Endorsements,
  spent <- Spent

(***************************************************************************)
(* The contract implements the promise of PayoutPolicy.                    *)
(***************************************************************************)
ImplementsPolicy == Policy!Spec

-----------------------------------------------------------------------------
(* The inductive invariant behind the properties above: status, sealed bit *)
(* and outcome of a request go together, and the seal is the approver's.   *)

WellFormed(id) ==
  LET request == requests[id]
  IN /\ request.status \in {"None", "Pending"} => request = Blank(request.status)
     /\ request.status # "None" => vendors[id.vendorId].registered
     /\ request.status \in {"Sealed", "Settled"} =>
          /\ request.sealedApproval \in Handle
          /\ request.sealedApproval.owner = vendors[id.vendorId].approver
     /\ request.approved => request.status = "Settled"

IInv ==
  /\ TypeOK
  /\ \A id \in RequestId : WellFormed(id)
  /\ ApprovalServesOneRequest
=============================================================================
