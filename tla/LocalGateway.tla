---------------------------- MODULE LocalGateway ----------------------------
(***************************************************************************)
(* The stand-in for the Nox gateway on a local chain:                      *)
(* src/providers/local-gateway-approval-provider.ts behind the route       *)
(* web/app/api/local-gateway/route.ts, with what the local chain makes of  *)
(* its handles and proofs.                                                 *)
(*                                                                         *)
(* A handle is its provider's nonce and a type tag, so that a handle of    *)
(* one type is a number here.  A provider adds one plaintext with every    *)
(* nonce: its map from handles to plaintexts is a sequence.  Firewalls     *)
(* and browsers are modelled as far as the gateway's promises reach; a     *)
(* request that the route refuses changes nothing and is no step.          *)
(***************************************************************************)
EXTENDS Integers, Sequences, FiniteSets

CONSTANTS
  Approvers,   \* v1: accounts that seal one bit
  Reviewers,   \* v2: the three accounts that seal a signal
  Approvals,   \* v1 requests, each with its .approver
  Requests,    \* v2 requests
  Numbers,     \* what a client may send as a signal
  MaxBits,     \* bound: bits a v1 provider seals in a life of the server
  MaxSignals,  \* bound: signals the v2 provider seals in a life of the server
  MaxRestarts, \* bound: restarts of the development server
  MaxDeploys   \* bound: runs of the local setup, each with a new firewall

ASSUME ReviewerAssumption == IsFiniteSet(Reviewers) /\ Cardinality(Reviewers) = 3
ASSUME ApprovalAssumption == \A r \in Approvals : r.approver \in Approvers
ASSUME NumberAssumption == Numbers \subseteq Int
ASSUME BoundAssumption ==
  MaxBits \in Nat /\ MaxSignals \in Nat /\ MaxRestarts \in Nat /\ MaxDeploys \in Nat \ {0}

Uint16 == 0..65535
REQUIRED_SIGNALS == 3

(* What seal and sealSignal answer: handle and proof, bound to the owner   *)
(* and the firewall.  Two fields are histories: the plaintext the owner    *)
(* meant, and the life of the server that the input was sealed in.         *)
Sealed(owners, plaintexts) ==
  [handle : Nat, owner : owners, app : 1..MaxDeploys, value : plaintexts,
   life : 0..MaxRestarts]
SealedBit == Sealed(Approvers, BOOLEAN)
SealedSignal == Sealed(Reviewers, Uint16)
(* A decryption proof for a value, with the life it was signed in; for a   *)
(* verdict, also with the handles that the client asked about.             *)
Proof == [value : BOOLEAN, life : 0..MaxRestarts]
VerdictProof == [value : BOOLEAN, life : 0..MaxRestarts, handles : SUBSET Nat]

Provider == [approver : Approvers, plaintexts : Seq(BOOLEAN)]

VARIABLES
  providers,  \* the route's providers, in the order of their creation
  signals,    \* the plaintexts of the route's one signal provider
  restarts,   \* restarts so far
  firewall,   \* the firewall the last setup deployed
  bits,       \* sealed bits the browsers hold
  positions,  \* sealed signals the browsers hold
  minted,     \* history: every signal sealed so far, in any life
  approvals,  \* v1 chain: the sealed bit of each request, as a set
  revealed,   \* v1 chain: the proof each request was settled with, as a set
  submitted,  \* v2 chain: the signals of each request, in order
  verdicts    \* v2 chain: the proof each request was settled with, as a set

serverVars == <<providers, signals, restarts>>
v1Vars == <<bits, approvals, revealed>>
v2Vars == <<positions, minted, submitted, verdicts>>
vars == <<serverVars, firewall, v1Vars, v2Vars>>

GatewayTypeOK ==
  /\ providers \in Seq(Provider)
  /\ signals \in Seq(Uint16)
  /\ restarts \in 0..MaxRestarts
  /\ firewall \in 1..MaxDeploys
  /\ bits \subseteq SealedBit
  /\ positions \subseteq SealedSignal
  /\ minted \subseteq SealedSignal
  /\ approvals \in [Approvals -> SUBSET SealedBit]
  /\ revealed \in [Approvals -> SUBSET Proof]
  /\ submitted \in [Requests -> Seq(SealedSignal)]
  /\ verdicts \in [Requests -> SUBSET VerdictProof]

Init ==
  /\ providers = <<>>
  /\ signals = <<>>
  /\ restarts = 0
  /\ firewall = 1
  /\ bits = {}
  /\ positions = {}
  /\ minted = {}
  /\ approvals = [r \in Approvals |-> {}]
  /\ revealed = [r \in Approvals |-> {}]
  /\ submitted = [r \in Requests |-> <<>>]
  /\ verdicts = [r \in Requests |-> {}]

-----------------------------------------------------------------------------
(* The v1 half of the route: a provider per approver.                      *)

Mine(approver) == {i \in 1..Len(providers) : providers[i].approver = approver}

FreshProvider(approver) ==
  Append(SelectSeq(providers, LAMBDA p : p.approver # approver),
         [approver |-> approver, plaintexts |-> <<>>])
(* providerFor *)
ProviderFor(approver) ==
  IF Mine(approver) # {} THEN providers
  ELSE Append(providers, [approver |-> approver, plaintexts |-> <<>>])

SameHandle(plaintexts) == Len(plaintexts)
(* mintHandle: this.nonce++ *)
MintHandle(plaintexts) == Len(plaintexts) + 1

(* A browser submits what it sealed last.                                  *)
OthersInputs(inputs, owner) == {b \in inputs : b.owner # owner}

(* POST seal *)
SealApproval(approver, approve, app) ==
  LET known == ProviderFor(approver)
      i == CHOOSE j \in 1..Len(known) : known[j].approver = approver
      plaintexts == known[i].plaintexts
  IN /\ Len(plaintexts) < MaxBits
     /\ providers' = [known EXCEPT ![i].plaintexts = Append(plaintexts, approve)]
     /\ bits' = OthersInputs(bits, approver) \cup
                 {[handle |-> MintHandle(plaintexts), owner |-> approver,
                   app |-> app, value |-> approve, life |-> restarts]}
     /\ UNCHANGED <<signals, restarts, firewall, approvals, revealed, v2Vars>>

KnowsHandle(provider, handle) == handle \in 1..Len(provider.plaintexts)

(* providerHolding: the first in the order of creation. *)
ProviderHolding(handle) ==
  {i \in 1..Len(providers) :
     /\ KnowsHandle(providers[i], handle)
     /\ \A j \in 1..(i - 1) : ~KnowsHandle(providers[j], handle)}

UsedBits == UNION {{b.handle : b \in approvals[r]} : r \in Approvals}

(* The v1 firewall's sealApproval, sent by the approver. *)
SubmitApproval(r, b) ==
  /\ approvals[r] = {}
  /\ b.owner = r.approver
  /\ b.app = firewall
  /\ b.handle \notin UsedBits
  /\ approvals' = [approvals EXCEPT ![r] = {b}]
  /\ bits' = bits \ {b}
  /\ UNCHANGED <<serverVars, firewall, revealed, v2Vars>>

(* POST reveal, and the settlement with the proof it returns. *)
RevealApproval(r) ==
  \E b \in approvals[r] : \E i \in ProviderHolding(b.handle) :
    /\ revealed[r] = {}
    /\ revealed' = [revealed EXCEPT ![r] =
         {[value |-> providers[i].plaintexts[b.handle], life |-> restarts]}]
    /\ UNCHANGED <<serverVars, firewall, bits, approvals, v2Vars>>

-----------------------------------------------------------------------------
(* The v2 half: one provider for all reviewers.                            *)

NewSignalProvider == <<>>
(* v2Provider: signalProvider ??= ... *)
V2Provider == signals

AnyNumber(signal) == signal \in Nat
(* parseGatewayRequest and sealSignal both want an integer within uint16.  *)
ValidSignal(signal) == signal \in Uint16

Submitted(r) == {submitted[r][i] : i \in 1..Len(submitted[r])}
UsedSignals == UNION {{s.handle : s \in Submitted(r)} : r \in Requests}
MaySign(r, reviewer) ==
  /\ Len(submitted[r]) < REQUIRED_SIGNALS
  /\ reviewer \notin {s.owner : s \in Submitted(r)}

(* POST sealSignal, by a reviewer who can still sign a request.            *)
SealSignal(reviewer, signal, app) ==
  LET sealed == [handle |-> MintHandle(V2Provider), owner |-> reviewer,
                 app |-> app, value |-> signal, life |-> restarts]
  IN /\ \E r \in Requests : MaySign(r, reviewer)
     /\ ValidSignal(signal)
     /\ Len(signals) < MaxSignals
     /\ signals' = Append(V2Provider, signal)
     /\ positions' = OthersInputs(positions, reviewer) \cup {sealed}
     /\ minted' = minted \cup {sealed}
     /\ UNCHANGED <<providers, restarts, firewall, submitted, verdicts, v1Vars>>

(* The v2 firewall's submitPrivateSignal, sent by the reviewer. *)
SubmitSignal(r, s) ==
  /\ MaySign(r, s.owner)
  /\ s.app = firewall
  /\ s.handle \notin UsedSignals
  /\ submitted' = [submitted EXCEPT ![r] = Append(@, s)]
  /\ positions' = positions \ {s}
  /\ UNCHANGED <<serverVars, firewall, minted, verdicts, v1Vars>>

KnowsSignal(handle) == handle \in 1..Len(signals)

Saturated(value) == IF value <= 1 THEN value ELSE 1
(* Nox.select(Nox.le(signal, 1), signal, 0) *)
Clamp(value) == IF value <= 1 THEN value ELSE 0

(* POST revealVerdict, and the settlement with the proof it returns.  The  *)
(* client sends the three handles; nothing ties them to the request.  One  *)
(* that the server does not know makes it throw.                           *)
RevealVerdict(r, handles) ==
  LET Plaintext(i) == Clamp(signals[handles[i]])
  IN /\ Len(submitted[r]) = REQUIRED_SIGNALS
     /\ verdicts[r] = {}
     /\ \A i \in 1..REQUIRED_SIGNALS : KnowsSignal(handles[i])
     /\ verdicts' = [verdicts EXCEPT ![r] =
          {[value |-> Plaintext(1) + Plaintext(2) + Plaintext(3) = REQUIRED_SIGNALS,
            life |-> restarts, handles |-> {handles[1], handles[2], handles[3]}]}]
     /\ UNCHANGED <<serverVars, firewall, positions, minted, submitted, v1Vars>>

-----------------------------------------------------------------------------
(* The development server restarts: its module globals start afresh.       *)
RestartServer ==
  /\ restarts < MaxRestarts
  /\ restarts' = restarts + 1
  /\ providers' = <<>>
  /\ signals' = <<>>
  /\ UNCHANGED <<firewall, v1Vars, v2Vars>>

(* scripts/setup-local.ts runs again: a new firewall without requests; the *)
(* server goes on, and browsers may still hold inputs for the old one.     *)
Redeploy ==
  /\ firewall < MaxDeploys
  /\ firewall' = firewall + 1
  /\ approvals' = [r \in Approvals |-> {}]
  /\ revealed' = [r \in Approvals |-> {}]
  /\ submitted' = [r \in Requests |-> <<>>]
  /\ verdicts' = [r \in Requests |-> {}]
  /\ UNCHANGED <<serverVars, bits, positions, minted>>

Next ==
  \/ \E a \in Approvers, approve \in BOOLEAN : SealApproval(a, approve, firewall)
  \/ \E r \in Approvals : RevealApproval(r) \/ \E b \in bits : SubmitApproval(r, b)
  \/ \E a \in Reviewers, n \in Numbers : SealSignal(a, n, firewall)
  \/ \E r \in Requests, s \in positions : SubmitSignal(r, s)
  \/ \E r \in Requests, handles \in [1..REQUIRED_SIGNALS -> 1..MaxSignals] :
       RevealVerdict(r, handles)
  \/ RestartServer
  \/ Redeploy

Spec == Init /\ [][Next]_vars

-----------------------------------------------------------------------------
(***************************************************************************)
(* A verdict is true exactly when the life of the server that signed it    *)
(* had sealed a one under each of the handles it was asked about, however  *)
(* inputs were sealed again, kept, submitted, and whatever earlier lives   *)
(* had sealed under the same handles (revealVerdict, mintHandle).          *)
(***************************************************************************)
VerdictIsOfItsLife ==
  \A r \in Requests : \A proof \in verdicts[r] :
    proof.value <=> \A h \in proof.handles :
      \E s \in minted : s.handle = h /\ s.life = proof.life /\ s.value = 1

(* The client asked for the request's own signals, as the console does.    *)
OwnHandles(r, proof) == proof.handles = {s.handle : s \in Submitted(r)}

(***************************************************************************)
(* local-gateway-approval-provider.ts:213-216: the verdict is computed     *)
(* "exactly as submitPrivateSignal does it", a local path that disagrees   *)
(* with the contract being "the one thing it must never do".  Read         *)
(* literally: the verdict over a request's own signals is true exactly     *)
(* when all three are ones, also when the server has restarted.            *)
(***************************************************************************)
VerdictAgreesWithContract ==
  \A r \in Requests : \A proof \in verdicts[r] :
    OwnHandles(r, proof) => (proof.value <=> \A s \in Submitted(r) : s.value = 1)

(***************************************************************************)
(* route.ts:38-39: "reveal has to find the provider that minted" the       *)
(* handle.  A v1 request settles with the bit that its approver sealed, if *)
(* the server has not restarted in between.  Where there are two approvers *)
(* it may not: both providers mint the same handles.                       *)
(***************************************************************************)
ApprovalIsWhatWasSealed ==
  \A r \in Approvals : \A b \in approvals[r] : \A proof \in revealed[r] :
    proof.life = b.life => proof.value = b.value

(***************************************************************************)
(* route.ts:20: "Sealed bits must survive between the seal request and the *)
(* reveal request": what was sealed since the server started never meets   *)
(* LOCAL_UNKNOWN_HANDLE.                                                   *)
(***************************************************************************)
SealedStaysRevealable ==
  /\ \A r \in Approvals : \A b \in approvals[r] :
       b.life = restarts => \E i \in 1..Len(providers) : KnowsHandle(providers[i], b.handle)
  /\ \A r \in Requests : \A s \in Submitted(r) : s.life = restarts => KnowsSignal(s.handle)

(***************************************************************************)
(* The firewalls accept a handle once.  Inputs sealed in one life of the   *)
(* server have different handles, so that none makes another one revert    *)
(* with HandleAlreadyUsed (mintHandle, lines 263-281).                     *)
(***************************************************************************)
InputsAreDistinct ==
  LET inputs == positions \cup UNION {Submitted(r) : r \in Requests}
  IN \A s, t \in inputs : s.life = t.life /\ s.handle = t.handle => s = t
=============================================================================
