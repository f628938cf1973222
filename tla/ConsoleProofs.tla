---------------------------- MODULE ConsoleProofs ----------------------------
(***************************************************************************)
(* What a reviewer chooses in a tab is what counts, what the tab settles   *)
(* is one sealed request, and a move it reports was approved: for every    *)
(* number of requests, accounts and transactions on their way.             *)
(*                                                                         *)
(* Every step of the composition is a step of the firewall or leaves it    *)
(* alone, so that the firewall's inductive invariant holds throughout; the *)
(* tab's own invariant says of what its queries have read, of its click    *)
(* and of its transactions how they relate to the chain of now.            *)
(***************************************************************************)
EXTENDS Console, FirewallV2Refinement

USE DEF RequiredSignals

IsSealed(id) == requests[id].status \in {"Sealed", "Settled"}
AllApprove(id) == \A h \in Handles(id) : h.value = 1

(* A reviewer has one signal in a request. *)
OneSignalEach ==
  \A s, t \in signalLog : s.request = t.request /\ s.reviewer = t.reviewer => s = t

(* A position sealed in this tab has a handle of its own, minted for the   *)
(* account and the value it was chosen with; the click and the transaction *)
(* that carry it are for the request it was chosen for.                    *)
PositionsMade ==
  /\ \A p \in sealed : p.handle.owner = p.account /\ p.handle.value = p.value
  /\ \A p, q \in sealed : p.handle = q.handle => p = q
  /\ task.kind = "signal" =>
       \A h \in task.handle : \E p \in sealed : p.handle = h /\ p.rid = task.rid
  /\ \A tx \in pending : tx.kind = "signal" =>
       \E p \in sealed : p.handle = tx.handle /\ p.rid = tx.rid

(* What the queries have read of a request has been so, and what has been  *)
(* sealed stays sealed.                                                    *)
SeenWasSo ==
  seen.rid \in RequestId =>
    /\ seen.handles \subseteq Handles(seen.rid)
    /\ seen.status = "Sealed" \/ seen.verdict => IsSealed(seen.rid)

RevealedIsVerdict ==
  /\ task.kind = "settle" => (task.value => AllApprove(task.rid))
  /\ \A report \in reports :
       /\ IsSealed(report.rid)
       /\ report.value => AllApprove(report.rid)

ConsoleInv ==
  /\ ConsoleTypeOK
  /\ OneSignalEach
  /\ PositionsMade
  /\ PositionCountsAsChosen
  /\ PositionCountsForItsAccount
  /\ SeenWasSo
  /\ SettlesOneSealedRequest
  /\ RevealedIsVerdict

-----------------------------------------------------------------------------
(* The firewall, as the tab depends on it.                                 *)

(* Only a submission touches the log of signals. *)
LEMMA LogStep ==
  ASSUME IInv, [Next]_vars
  PROVE  \/ UNCHANGED signalLog
         \/ \E sender \in Accounts, id \in RequestId, h \in Handle :
              SubmitPrivateSignal(sender, id, h)
<1>1. CASE VendorNext \/ GovernanceNext
  BY <1>1, RequestsUntouched DEF requestVars
<1>2. CASE AdminNext \/ Tick \/ UNCHANGED vars
  BY <1>2, AdministrationKeepsVendors
<1>3. CASE RequestNext
  BY <1>3 DEF RequestNext, OpenChangeRequest, SettleApproval
<1> QED
  BY <1>1, <1>2, <1>3 DEF Next

(* The log only grows, and not by a second signal of a reviewer. *)
LEMMA LogGrows ==
  ASSUME IInv, OneSignalEach, [Next]_vars
  PROVE  signalLog \subseteq signalLog' /\ OneSignalEach'
<1>1. CASE UNCHANGED signalLog
  BY <1>1 DEF OneSignalEach
<1>2. ASSUME NEW sender \in Accounts, NEW id \in RequestId, NEW h \in Handle,
             SubmitPrivateSignal(sender, id, h)
      PROVE  signalLog \subseteq signalLog' /\ OneSignalEach'
  <2>1. /\ signalLog' = signalLog \cup {[request |-> id, reviewer |-> sender, handle |-> h]}
        /\ sender \notin signalSubmitted[id]
    BY <1>2 DEF SubmitPrivateSignal
  <2>2. \A s \in signalLog : s.request = id => s.reviewer # sender
    BY <2>1 DEF IInv, SignalsRecorded, SignalsOf
  <2> QED
    BY <2>1, <2>2 DEF OneSignalEach
<1> QED
  BY <1>1, <1>2, LogStep

(* A request that is sealed stays so. *)
LEMMA SealedStays ==
  ASSUME IInv, [Next]_vars, NEW id \in RequestId, IsSealed(id)
  PROVE  IsSealed(id)'
<1> USE DEF IsSealed
<1>1. requests \in [RequestId -> ChangeRequest]
  BY DEF IInv, TypeOK
<1>2. CASE RequestNext
  <2>1. ASSUME NEW sender \in Requesters, NEW v \in Vendors, NEW w \in WalletAddress,
               NEW n \in Nonces, OpenChangeRequest(sender, v, w, n)
        PROVE  IsSealed(id)'
    <3> DEFINE opened == DerivedRequestId(v, w, sender, n)
    <3>1. /\ requests[opened].status = "None"
          /\ requests' = [requests EXCEPT ![opened] = Blank("Collecting")]
      BY <2>1 DEF OpenChangeRequest
    <3> HIDE DEF opened
    <3> QED
      BY <1>1, <3>1
  <2>2. ASSUME NEW sender \in Accounts, NEW other \in RequestId, NEW h \in Handle,
               SubmitPrivateSignal(sender, other, h)
        PROVE  IsSealed(id)'
    <3>1. requests[other].status = "Collecting"
      BY <2>2 DEF SubmitPrivateSignal
    <3>2. requests'[id] = requests[id]
      BY <1>1, <2>2, <3>1 DEF SubmitPrivateSignal
    <3> QED
      BY <3>2
  <2>3. ASSUME NEW other \in RequestId, SettleApproval(other)
        PROVE  IsSealed(id)'
    BY <1>1, <2>3 DEF SettleApproval, ChangeRequest
  <2> QED
    BY <1>2, <2>1, <2>2, <2>3 DEF RequestNext
<1>3. CASE VendorNext \/ GovernanceNext
  BY <1>3, RequestsUntouched DEF requestVars
<1>4. CASE AdminNext \/ Tick \/ UNCHANGED vars
  BY <1>4, AdministrationKeepsVendors
<1> QED
  BY <1>2, <1>3, <1>4 DEF Next

(* ... and takes no further signal; of any request, none gets lost. *)
LEMMA HandlesStay ==
  ASSUME IInv, OneSignalEach, [Next]_vars, NEW id \in RequestId
  PROVE  /\ Handles(id) \subseteq Handles(id)'
         /\ IsSealed(id) => Handles(id)' = Handles(id)
<1>1. signalLog \subseteq signalLog'
  BY LogGrows
<1>2. Handles(id) \subseteq Handles(id)'
  BY <1>1 DEF Handles
<1>3. ASSUME IsSealed(id)
      PROVE  \A s \in signalLog' : s.request = id => s \in signalLog
  <2>1. ASSUME NEW sender \in Accounts, NEW other \in RequestId, NEW h \in Handle,
               SubmitPrivateSignal(sender, other, h)
        PROVE  \A s \in signalLog' : s.request = id => s \in signalLog
    <3>1. other # id
      BY <1>3, <2>1 DEF IsSealed, SubmitPrivateSignal
    <3> QED
      BY <2>1, <3>1 DEF SubmitPrivateSignal
  <2> QED
    BY <2>1, LogStep
<1>4. IsSealed(id) => Handles(id)' \subseteq Handles(id)
  BY <1>3 DEF Handles
<1> QED
  BY <1>2, <1>4

(* A sealed request has three handles. *)
LEMMA ThreeHandles ==
  ASSUME IInv, OneSignalEach, NEW id \in RequestId, IsSealed(id),
         NEW S \in SUBSET Handles(id), Cardinality(S) = RequiredSignals
  PROVE  S = Handles(id)
<1> DEFINE signers == signalSubmitted[id]
           HandleOf == [a \in signers |->
             (CHOOSE s \in signalLog : s.request = id /\ s.reviewer = a).handle]
           image == {HandleOf[a] : a \in signers}
<1>1. IsFiniteSet(signers) /\ Cardinality(signers) = 3
  <2>1. requests[id].signalCount = 3
    BY DEF IInv, RequestShape, WellFormed, IsSealed
  <2> QED
    BY <2>1 DEF IInv, SignalsRecorded
<1>2. ASSUME NEW s \in signalLog, s.request = id
      PROVE  s.reviewer \in signers /\ HandleOf[s.reviewer] = s.handle
  BY <1>2 DEF IInv, SignalsRecorded, SignalsOf, OneSignalEach
<1>3. Handles(id) \subseteq image
  <2>1. \A h \in Handles(id) : \E s \in signalLog : s.request = id /\ h = s.handle
    BY DEF Handles
  <2> HIDE DEF HandleOf
  <2> QED
    BY <1>2, <2>1
<1>4. IsFiniteSet(image) /\ Cardinality(image) <= 3
  <2>1. HandleOf \in Surjection(signers, image)
    BY DEF Surjection
  <2> HIDE DEF HandleOf, image
  <2> QED
    BY <1>1, <2>1, FS_Surjection
<1> HIDE DEF signers, HandleOf, image
<1>5. IsFiniteSet(Handles(id)) /\ Cardinality(Handles(id)) <= 3
  BY <1>3, <1>4, FS_Subset, FS_CardinalityType
<1>6. Cardinality(Handles(id)) \in Nat /\ Cardinality(S) <= Cardinality(Handles(id))
  BY <1>5, FS_Subset, FS_CardinalityType
<1>7. Cardinality(Handles(id)) = Cardinality(S)
  BY <1>5, <1>6
<1> QED
  BY <1>5, <1>7, FS_Subset

-----------------------------------------------------------------------------
(* The composition's steps, as the firewall sees them.                     *)

(* A request that is opened is one of the ids the model counts with. *)
LEMMA OpenedIsRequest ==
  ASSUME IInv, NEW sender \in Accounts, NEW wallet \in Wallets, NEW nonce \in Nonces,
         Opens(sender, wallet, nonce)
  PROVE  /\ DerivedRequestId(DemoVendor, wallet, sender, nonce) \in RequestId
         /\ RequestNext
<1>1. Registered(DemoVendor) /\ DemoVendor \in Vendors /\ sender \in Requesters
  BY DeploymentAssumption DEF Opens, OpenChangeRequest
<1>2. vendors[DemoVendor].payoutWallet \in Wallets
        /\ vendors[DemoVendor].approverEpoch \in Epoch
  <2>1. vendors[DemoVendor] \in Vendor
    BY <1>1 DEF IInv, TypeOK
  <2>2. /\ vendors[DemoVendor].approverEpoch >= 1
        /\ vendors[DemoVendor].payoutWallet # Zero
    BY <1>1 DEF IInv, VendorShape, ValidReviewers, Registered
  <2> QED
    BY <2>1, <2>2, EpochAssumption DEF Vendor, WalletAddress, Epoch
<1>3. DerivedRequestId(DemoVendor, wallet, sender, nonce) \in RequestId
  BY <1>1, <1>2 DEF DerivedRequestId, RequestId
<1> QED
  BY <1>1, <1>3 DEF Opens, RequestNext, WalletAddress

(* A step of the chain alone. *)
LEMMA ChainStep ==
  ASSUME IInv, ConsoleInv, [Next]_vars, UNCHANGED <<address, seen, task, sealed, reports>>,
         pending' \subseteq pending, openings' \in Seq(RequestId),
         aged' \in 0..Len(openings'),
         \A s \in signalLog' : s \in signalLog \/
           \A p \in sealed : p.handle = s.handle => p.rid = s.request
  PROVE  ConsoleInv'
<1>0. IInv'
  BY RequestNextStep, VendorNextStep, GovernanceNextStep, AdminNextStep, TickStep, StutterStep
     DEF Next
<1>1. ConsoleTypeOK'
  BY DEF ConsoleInv, ConsoleTypeOK
<1>2. OneSignalEach'
  BY LogGrows DEF ConsoleInv
<1>3. PositionsMade'
  BY DEF ConsoleInv, PositionsMade
<1>4. PositionCountsAsChosen' /\ PositionCountsForItsAccount'
  <2> SUFFICES ASSUME NEW s \in signalLog', NEW p \in sealed, s.handle = p.handle
               PROVE  s.request = p.rid /\ s.reviewer = p.account /\ s.handle.value = p.value
    BY DEF PositionCountsAsChosen, PositionCountsForItsAccount
  <2>1. CASE s \in signalLog
    BY <2>1 DEF ConsoleInv, PositionCountsAsChosen, PositionCountsForItsAccount
  <2>2. CASE s \notin signalLog
    <3>1. s.request = p.rid
      BY <2>2
    <3>2. s.handle.owner = s.reviewer
      BY <1>0 DEF IInv, HandlesRecorded
    <3> QED
      BY <3>1, <3>2 DEF ConsoleInv, PositionsMade
  <2> QED
    BY <2>1, <2>2
<1>5. ASSUME NEW id \in RequestId
      PROVE  /\ Handles(id) \subseteq Handles(id)'
             /\ IsSealed(id) => IsSealed(id)' /\ Handles(id)' = Handles(id)
  BY SealedStays, HandlesStay DEF ConsoleInv
<1>6. SeenWasSo'
  BY <1>5 DEF ConsoleInv, SeenWasSo
<1>7. task.kind = "settle" => task.rid \in RequestId
  BY DEF ConsoleInv, ConsoleTypeOK, Tasks, Idle, Opening, Signalling, Settling
<1>8. SettlesOneSealedRequest'
  BY <1>5, <1>7 DEF ConsoleInv, SettlesOneSealedRequest, IsSealed
<1>9. RevealedIsVerdict'
  <2>1. \A report \in reports : report.rid \in RequestId
    BY DEF ConsoleInv, ConsoleTypeOK
  <2>2. task.kind = "settle" => IsSealed(task.rid)
    BY DEF ConsoleInv, SettlesOneSealedRequest, IsSealed
  <2>3. task.kind = "settle" => (task.value => AllApprove(task.rid)')
    BY <1>5, <1>7, <2>2 DEF ConsoleInv, RevealedIsVerdict, AllApprove
  <2>4. ASSUME NEW report \in reports
        PROVE  IsSealed(report.rid)' /\ (report.value => AllApprove(report.rid)')
    BY <1>5, <2>1 DEF ConsoleInv, RevealedIsVerdict, AllApprove
  <2> QED
    BY <2>3, <2>4 DEF RevealedIsVerdict
<1> QED
  BY <1>1, <1>2, <1>3, <1>4, <1>6, <1>8, <1>9 DEF ConsoleInv

(* Everybody else. *)
LEMMA OthersStep ==
  ASSUME IInv, ConsoleInv, Others
  PROVE  Next /\ ConsoleInv'
<1>0. openings \in Seq(RequestId) /\ aged \in 0..Len(openings)
  BY DEF ConsoleInv, ConsoleTypeOK
<1>1. UNCHANGED <<aged, address, seen, task, pending, sealed, reports>>
  BY DEF Others, tabVars
<1>2. ASSUME NEW sender \in Requesters, NEW v \in Vendors, NEW w \in Wallets,
             NEW n \in Nonces, OpenChangeRequest(sender, v, w, n), UNCHANGED openings
      PROVE  Next /\ ConsoleInv'
  <2>1. RequestNext
    BY <1>2 DEF RequestNext, WalletAddress
  <2>2. UNCHANGED signalLog
    BY <1>2 DEF OpenChangeRequest
  <2> QED
    BY <1>0, <1>1, <1>2, <2>1, <2>2, ChainStep DEF Next
<1>3. ASSUME NEW sender \in Requesters, NEW w \in Wallets, NEW n \in Nonces,
             Opens(sender, w, n)
      PROVE  Next /\ ConsoleInv'
  <2>1. RequestNext /\ DerivedRequestId(DemoVendor, w, sender, n) \in RequestId
    BY <1>3, SenderAssumption, OpenedIsRequest
  <2>2. openings' \in Seq(RequestId) /\ Len(openings') = Len(openings) + 1
    BY <1>0, <1>3, <2>1 DEF Opens
  <2>3. UNCHANGED signalLog
    BY <1>3 DEF Opens, OpenChangeRequest
  <2> QED
    BY <1>0, <1>1, <2>1, <2>2, <2>3, ChainStep DEF Next
<1>4. ASSUME NEW id \in RequestId, NEW h \in Handle \ Minted, Signals(h.owner, id, h)
      PROVE  Next /\ ConsoleInv'
  <2>1. h.owner \in Accounts
    BY DEF Handle
  <2>2. SubmitPrivateSignal(h.owner, id, h) /\ UNCHANGED openings
    BY <1>4 DEF Signals
  <2>3. RequestNext
    BY <2>1, <2>2 DEF RequestNext
  <2>4. signalLog' = signalLog \cup {[request |-> id, reviewer |-> h.owner, handle |-> h]}
    BY <2>2 DEF SubmitPrivateSignal
  <2>5. \A p \in sealed : p.handle # h
    BY DEF Minted
  <2> QED
    BY <1>0, <1>1, <2>2, <2>3, <2>4, <2>5, ChainStep DEF Next
<1>5. ASSUME NEW id \in RequestId, Settles(id)
      PROVE  Next /\ ConsoleInv'
  <2>1. RequestNext /\ UNCHANGED <<signalLog, openings>>
    BY <1>5 DEF Settles, SettleApproval, RequestNext
  <2> QED
    BY <1>0, <1>1, <2>1, ChainStep DEF Next
<1>6. CASE (VendorNext \/ GovernanceNext \/ AdminNext \/ Tick) /\ UNCHANGED openings
  <2>1. UNCHANGED signalLog
    BY <1>6, RequestsUntouched, AdministrationKeepsVendors DEF requestVars
  <2> QED
    BY <1>0, <1>1, <1>6, <2>1, ChainStep DEF Next
<1> QED
  BY <1>2, <1>3, <1>4, <1>5, <1>6 DEF Others

(* A transaction of this tab is mined, and a look-back passes. *)
LEMMA MinedStep ==
  ASSUME IInv, ConsoleInv, NEW tx \in pending, Mined(tx)
  PROVE  [Next]_vars /\ ConsoleInv'
<1>0. /\ openings \in Seq(RequestId) /\ aged \in 0..Len(openings)
      /\ tx \in Transactions /\ Users \subseteq Accounts
  BY UserAssumption DEF ConsoleInv, ConsoleTypeOK
<1>1. UNCHANGED <<aged, address, seen, task, sealed, reports>> /\ pending' \subseteq pending
  BY DEF Mined
<1>2. CASE tx.kind = "open" /\ Opens(tx.sender, PROPOSED, NONCE)
  <2>1. tx.sender \in Accounts
    BY <1>0, <1>2 DEF Transactions
  <2>2. RequestNext /\ DerivedRequestId(DemoVendor, PROPOSED, tx.sender, NONCE) \in RequestId
    BY <1>2, <2>1, DeploymentAssumption, OpenedIsRequest
  <2>3. openings' \in Seq(RequestId) /\ Len(openings') = Len(openings) + 1
    BY <1>0, <1>2, <2>2 DEF Opens
  <2>4. UNCHANGED signalLog
    BY <1>2 DEF Opens, OpenChangeRequest
  <2> QED
    BY <1>0, <1>1, <2>2, <2>3, <2>4, ChainStep DEF Next
<1>3. CASE tx.kind = "signal" /\ Signals(tx.sender, tx.rid, tx.handle)
  <2>1. tx.sender \in Accounts /\ tx.rid \in RequestId /\ tx.handle \in Handle
    BY <1>0, <1>3 DEF Transactions
  <2>2. SubmitPrivateSignal(tx.sender, tx.rid, tx.handle) /\ UNCHANGED openings
    BY <1>3 DEF Signals
  <2>3. RequestNext
    BY <2>1, <2>2 DEF RequestNext
  <2>4. signalLog' =
          signalLog \cup {[request |-> tx.rid, reviewer |-> tx.sender, handle |-> tx.handle]}
    BY <2>2 DEF SubmitPrivateSignal
  <2>5. PICK q \in sealed : q.handle = tx.handle /\ q.rid = tx.rid
    BY <1>3 DEF ConsoleInv, PositionsMade
  <2>6. \A p \in sealed : p.handle = tx.handle => p.rid = tx.rid
    BY <2>5 DEF ConsoleInv, PositionsMade
  <2> QED
    BY <1>0, <1>1, <2>2, <2>3, <2>4, <2>6, ChainStep DEF Next
<1>4. CASE tx.kind = "settle" /\ Settles(tx.rid)
  <2>1. tx.rid \in RequestId
    BY <1>0, <1>4 DEF Transactions
  <2>2. RequestNext /\ UNCHANGED <<signalLog, openings>>
    BY <1>4, <2>1 DEF Settles, SettleApproval, RequestNext
  <2> QED
    BY <1>0, <1>1, <2>2, ChainStep DEF Next
<1>5. CASE UNCHANGED <<vars, openings>>
  <2>1. UNCHANGED signalLog
    BY <1>5 DEF vars, requestVars
  <2> QED
    BY <1>0, <1>1, <1>5, <2>1, ChainStep
<1> QED
  BY <1>2, <1>3, <1>4, <1>5 DEF Mined

LEMMA LookbackStep ==
  ASSUME IInv, ConsoleInv, LeavesLookback
  PROVE  ConsoleInv' /\ UNCHANGED vars
<1>1. openings \in Seq(RequestId) /\ aged \in 0..Len(openings)
  BY DEF ConsoleInv, ConsoleTypeOK
<1>2. /\ UNCHANGED <<vars, openings, address, seen, task, pending, sealed, reports>>
      /\ aged' \in 0..Len(openings')
  BY <1>1 DEF LeavesLookback, tabVars
<1>3. UNCHANGED signalLog
  BY <1>2 DEF vars, requestVars
<1> QED
  BY <1>1, <1>2, <1>3, ChainStep
-----------------------------------------------------------------------------
(* The tab's own steps leave the chain alone.                              *)

LEMMA TabKeeps ==
  ASSUME ConsoleInv, UNCHANGED chainVars
  PROVE  /\ UNCHANGED <<openings, aged, requests, signalLog>>
         /\ OneSignalEach'
         /\ UNCHANGED sealed => PositionCountsAsChosen' /\ PositionCountsForItsAccount'
         /\ UNCHANGED <<task, pending, sealed>> => PositionsMade'
         /\ UNCHANGED seen => SeenWasSo'
         /\ UNCHANGED task => SettlesOneSealedRequest'
         /\ UNCHANGED <<task, reports>> => RevealedIsVerdict'
<1>1. UNCHANGED <<openings, aged, requests, signalLog>>
  BY DEF chainVars, vars, requestVars
<1> QED
  BY <1>1 DEF ConsoleInv, OneSignalEach, PositionCountsAsChosen, PositionCountsForItsAccount,
              PositionsMade, SeenWasSo, SettlesOneSealedRequest, RevealedIsVerdict, Handles, IsSealed, AllApprove

(* What a request's queries may read of the chain of now. *)
LEMMA NewData ==
  ASSUME ConsoleInv, NEW rid \in RequestId \cup {NoRequest}, seen' = DataFor(rid),
         UNCHANGED chainVars
  PROVE  seen' \in Seen /\ SeenWasSo'
<1>1. seen \in Seen
  BY DEF ConsoleInv, ConsoleTypeOK
<1>2. CASE rid = seen.rid
  <2>1. UNCHANGED seen
    BY <1>2 DEF DataFor
  <2> QED
    BY <1>1, <2>1, TabKeeps
<1>3. CASE rid # seen.rid
  <2>1. /\ seen' = [seen EXCEPT !.rid = rid, !.status = "None", !.verdict = FALSE,
                               !.handles = {}]
        /\ seen' \in Seen
    BY <1>1, <1>3 DEF DataFor, Seen
  <2>2. seen'.status = "None" /\ seen'.verdict = FALSE /\ seen'.handles = {}
    BY <1>1, <2>1 DEF Seen
  <2> QED
    BY <2>1, <2>2 DEF SeenWasSo
<1> QED
  BY <1>2, <1>3

LEMMA SomeHandles ==
  ASSUME NEW id, NEW handles \in SignalHandles(id)
  PROVE  handles \subseteq Handles(id)
BY DEF SignalHandles

LEMMA HandlesAreHandles ==
  ASSUME IInv, NEW id
  PROVE  Handles(id) \subseteq Handle
BY DEF IInv, TypeOK, Signal, Handles

LEMMA OpenRequestIdIsRequest ==
  ASSUME ConsoleInv
  PROVE  OpenRequestId \in RequestId \cup {NoRequest}
BY DEF ConsoleInv, ConsoleTypeOK, OpenRequestId

LEMMA HandlesRead ==
  ASSUME IInv, ConsoleInv, seen.rid # NoRequest, NEW handles \in SignalHandles(seen.rid),
         seen' = [seen EXCEPT !.handles = handles], UNCHANGED chainVars
  PROVE  seen' \in Seen /\ SeenWasSo'
<1>1. seen \in Seen
  BY DEF ConsoleInv, ConsoleTypeOK
<1>2. handles \subseteq Handles(seen.rid) /\ handles \subseteq Handle
  BY SomeHandles, HandlesAreHandles
<1>3. /\ seen' \in Seen /\ seen'.handles = handles
      /\ seen'.rid = seen.rid /\ seen'.status = seen.status /\ seen'.verdict = seen.verdict
  BY <1>1, <1>2 DEF Seen
<1>4. UNCHANGED <<requests, signalLog>>
  BY TabKeeps
<1>5. Handles(seen.rid)' = Handles(seen.rid) /\ (IsSealed(seen.rid) => IsSealed(seen.rid)')
  BY <1>3, <1>4 DEF Handles, IsSealed
<1> QED
  BY <1>2, <1>3, <1>5 DEF ConsoleInv, SeenWasSo

LEMMA PollStep ==
  ASSUME IInv, ConsoleInv, Poll
  PROVE  ConsoleInv'
<1>0. UNCHANGED <<chainVars, address, task, pending, sealed, reports>> /\ seen \in Seen
  BY DEF Poll, ConsoleInv, ConsoleTypeOK
<1>1. UNCHANGED <<openings, aged, requests, signalLog>>
  BY <1>0, TabKeeps
<1>2. seen.rid # NoRequest => requests[seen.rid] \in ChangeRequest
  BY <1>0 DEF Seen, IInv, TypeOK
<1>3. seen' \in Seen /\ SeenWasSo'
  <2>1. CASE UseOpenRequestId
    BY <1>0, <2>1, OpenRequestIdIsRequest, NewData DEF UseOpenRequestId
  <2>2. CASE UseRequest
    <3>1. /\ seen' = [seen EXCEPT !.status = requests[seen.rid].status]
          /\ seen' \in Seen /\ seen'.status = requests[seen.rid].status
          /\ seen'.rid = seen.rid /\ seen'.handles = seen.handles
          /\ seen'.verdict = seen.verdict
      BY <1>0, <1>2, <2>2 DEF UseRequest, Seen, ChangeRequest
    <3> QED
      BY <1>1, <3>1 DEF ConsoleInv, SeenWasSo, IsSealed, Handles
  <2>3. CASE UseVerdictHandle
    <3> DEFINE known == requests[seen.rid].status \in {"Sealed", "Settled"}
    <3>1. /\ seen' = [seen EXCEPT !.verdict = known]
          /\ seen' \in Seen /\ seen'.verdict = known
          /\ seen'.rid = seen.rid /\ seen'.handles = seen.handles
          /\ seen'.status = seen.status
      <4> known \in BOOLEAN
        OBVIOUS
      <4> seen' = [seen EXCEPT !.verdict = known]
        BY <2>3 DEF UseVerdictHandle
      <4> HIDE DEF known
      <4> QED
        BY <1>0 DEF Seen
    <3> QED
      BY <1>1, <3>1 DEF ConsoleInv, SeenWasSo, IsSealed, Handles
  <2>4. CASE UseSignalHandles
    BY <1>0, <2>4, HandlesRead DEF UseSignalHandles
  <2>5. CASE UseVendorView
    <3>1. Seats(vendors[DemoVendor]) \subseteq Address
      BY DeploymentAssumption DEF IInv, TypeOK, Vendor, Seats
    <3>2. /\ seen' \in Seen /\ seen'.rid = seen.rid /\ seen'.handles = seen.handles
          /\ seen'.status = seen.status /\ seen'.verdict = seen.verdict
      BY <1>0, <2>5, <3>1 DEF UseVendorView, Seen
    <3> QED
      BY <1>1, <3>2 DEF ConsoleInv, SeenWasSo, IsSealed, Handles
  <2> QED
    BY <2>1, <2>2, <2>3, <2>4, <2>5 DEF Poll
<1>4. ConsoleTypeOK'
  BY <1>0, <1>1, <1>3 DEF ConsoleInv, ConsoleTypeOK
<1> QED
  BY <1>0, <1>3, <1>4, TabKeeps DEF ConsoleInv
LEMMA ConnectStep ==
  ASSUME ConsoleInv, NEW user \in Users, Connect(user)
  PROVE  ConsoleInv'
<1>1. UNCHANGED <<chainVars, seen, task, pending, sealed, reports>> /\ address' = user
  BY DEF Connect
<1>2. ConsoleTypeOK'
  BY <1>1, TabKeeps DEF ConsoleInv, ConsoleTypeOK
<1> QED
  BY <1>1, <1>2, TabKeeps DEF ConsoleInv

-----------------------------------------------------------------------------
(* Clicks.                                                                 *)

LEMMA TaskShape ==
  ASSUME ConsoleInv
  PROVE  /\ task.kind = "open" => task \in Opening
         /\ task.kind = "signal" => task \in Signalling
         /\ task.kind = "settle" => task \in Settling
         /\ task # Idle => task.kind \in {"open", "signal", "settle"}
         /\ Idle.kind = "idle"
BY DEF ConsoleInv, ConsoleTypeOK, Tasks, Idle, Opening, Signalling, Settling

(* A click that does not change what the tab has sealed or sent. *)
LEMMA TaskStep ==
  ASSUME ConsoleInv, UNCHANGED <<chainVars, address, seen, pending, sealed, reports>>,
         task' \in Tasks,
         task'.kind = "signal" =>
           \A h \in task'.handle : \E p \in sealed : p.handle = h /\ p.rid = task'.rid,
         task'.kind = "settle" =>
           /\ IsSealed(task'.rid)
           /\ task'.handles = Handles(task'.rid)
           /\ task'.value => AllApprove(task'.rid)
  PROVE  ConsoleInv'
<1>1. UNCHANGED <<openings, aged, requests, signalLog>>
  BY TabKeeps
<1>2. ConsoleTypeOK'
  BY <1>1 DEF ConsoleInv, ConsoleTypeOK
<1>3. PositionsMade'
  BY DEF ConsoleInv, PositionsMade
<1>4. SettlesOneSealedRequest'
  BY <1>1 DEF SettlesOneSealedRequest, IsSealed, Handles
<1>5. RevealedIsVerdict'
  BY <1>1 DEF ConsoleInv, RevealedIsVerdict, IsSealed, AllApprove, Handles
<1> QED
  BY <1>2, <1>3, <1>4, <1>5, TabKeeps DEF ConsoleInv

LEMMA FailStep ==
  ASSUME ConsoleInv, Fail
  PROVE  ConsoleInv'
<1>1. task' = Idle /\ Idle \in Tasks /\ Idle.kind = "idle"
  BY DEF Fail, Tasks, Idle
<1> QED
  BY <1>1, TaskStep DEF Fail

LEMMA ClickStep ==
  ASSUME IInv, ConsoleInv,
         OpenRequest \/ (\E approve \in BOOLEAN : SubmitSignal(approve)) \/ Settle
  PROVE  ConsoleInv'
<1>0. seen \in Seen /\ address \in Users
  BY DEF ConsoleInv, ConsoleTypeOK
<1>1. CASE OpenRequest
  <2> DEFINE next == [kind |-> "open", at |-> "wallet", sent |-> {}]
  <2>1. next \in Tasks /\ next.kind = "open"
    BY DEF Tasks, Opening
  <2>2. task' = next /\ UNCHANGED <<chainVars, address, seen, pending, sealed, reports>>
    BY <1>1 DEF OpenRequest, Start
  <2> HIDE DEF next
  <2> QED
    BY <2>1, <2>2, TaskStep
<1>2. ASSUME NEW approve \in BOOLEAN, SubmitSignal(approve)
      PROVE  ConsoleInv'
  <2> DEFINE next == [kind |-> "signal", at |-> "seal", rid |-> seen.rid, account |-> address,
                      value |-> IF approve THEN 1 ELSE 0, handle |-> {}, sent |-> {}]
  <2>1. seen.rid \in RequestId
    BY <1>0, <1>2 DEF SubmitSignal, Seen
  <2>2. next \in Tasks /\ next.kind = "signal" /\ next.handle = {}
    BY <1>0, <2>1 DEF Tasks, Signalling
  <2>3. task' = next /\ UNCHANGED <<chainVars, address, seen, pending, sealed, reports>>
    BY <1>2 DEF SubmitSignal, Start
  <2> HIDE DEF next
  <2> QED
    BY <2>2, <2>3, TaskStep
<1>3. CASE Settle
  <2> DEFINE next == [kind |-> "settle", at |-> "reveal", rid |-> seen.rid,
                      handles |-> seen.handles, value |-> FALSE, sent |-> {}]
  <2>1. seen.rid \in RequestId /\ seen.verdict /\ Cardinality(seen.handles) = 3
    BY <1>0, <1>3 DEF Settle, AllSealed, Seen
  <2>2. IsSealed(seen.rid) /\ seen.handles \subseteq Handles(seen.rid)
    BY <2>1 DEF ConsoleInv, SeenWasSo
  <2>3. seen.handles = Handles(seen.rid)
    BY <2>1, <2>2, ThreeHandles DEF ConsoleInv
  <2>4. next \in Tasks
    BY <1>0, <2>1 DEF Tasks, Settling, Seen
  <2>5. /\ next.kind = "settle" /\ next.rid = seen.rid /\ next.handles = seen.handles
        /\ next.value = FALSE
    OBVIOUS
  <2>6. task' = next /\ UNCHANGED <<chainVars, address, seen, pending, sealed, reports>>
    BY <1>3 DEF Settle, Start
  <2> HIDE DEF next
  <2> QED
    BY <2>2, <2>3, <2>4, <2>5, <2>6, TaskStep
<1> QED
  BY <1>1, <1>2, <1>3

(* The gateway gives a handle that is on no request yet. *)
LEMMA SealStep ==
  ASSUME IInv, ConsoleInv, Seal
  PROVE  ConsoleInv'
<1>0. task \in Signalling
  BY TaskShape DEF Seal
<1>1. PICK h \in Handle :
        /\ h.owner = task.account /\ h.value = task.value
        /\ UnusedHandle(h) /\ h \notin Minted
        /\ task' = [task EXCEPT !.at = "wallet", !.handle = {h}]
        /\ sealed' = sealed \cup {[handle |-> h, rid |-> task.rid, account |-> task.account,
                                   value |-> task.value]}
  BY DEF Seal, ClickedAccount
<1>2. UNCHANGED <<chainVars, address, seen, pending, reports>>
  BY DEF Seal
<1>3. UNCHANGED <<openings, aged, requests, signalLog>>
  BY <1>2, TabKeeps
<1> DEFINE new == [handle |-> h, rid |-> task.rid, account |-> task.account,
                   value |-> task.value]
<1>4. /\ new \in SealedPosition /\ new.handle = h /\ new.rid = task.rid
      /\ new.account = task.account /\ new.value = task.value
  BY <1>0 DEF Signalling, SealedPosition
<1>5. /\ task' \in Signalling /\ task'.kind = "signal" /\ task'.handle = {h}
      /\ task'.rid = task.rid
  BY <1>0, <1>1 DEF Signalling
<1>6. sealed' = sealed \cup {new}
  BY <1>1
<1>7. \A s \in signalLog : s.handle # h
  <2>1. \A s \in signalLog : handleUsedBy[s.handle] = s.request /\ s.request \in RequestId
    BY DEF IInv, HandlesRecorded, HandleCountsOnce, TypeOK, Signal
  <2> QED
    BY <1>1, <2>1, NoRequestAssumption DEF UnusedHandle
<1>8. \A p \in sealed : p.handle # h
  BY <1>1 DEF Minted
<1> HIDE DEF new
<1>9. ConsoleTypeOK'
  BY <1>2, <1>3, <1>4, <1>5, <1>6 DEF ConsoleInv, ConsoleTypeOK, Tasks
<1>10. PositionsMade'
  <2>1. \A p \in sealed' : p.handle.owner = p.account /\ p.handle.value = p.value
    BY <1>1, <1>4, <1>6 DEF ConsoleInv, PositionsMade
  <2>2. \A p, q \in sealed' : p.handle = q.handle => p = q
    BY <1>4, <1>6, <1>8 DEF ConsoleInv, PositionsMade
  <2>3. \A g \in task'.handle : \E p \in sealed' : p.handle = g /\ p.rid = task'.rid
    BY <1>4, <1>5, <1>6
  <2>4. \A tx \in pending' : tx.kind = "signal" =>
          \E p \in sealed' : p.handle = tx.handle /\ p.rid = tx.rid
    BY <1>2, <1>6 DEF ConsoleInv, PositionsMade
  <2> QED
    BY <2>1, <2>2, <2>3, <2>4 DEF PositionsMade
<1>11. PositionCountsAsChosen' /\ PositionCountsForItsAccount'
  BY <1>3, <1>4, <1>6, <1>7
     DEF ConsoleInv, PositionCountsAsChosen, PositionCountsForItsAccount
<1>12. SettlesOneSealedRequest' /\ RevealedIsVerdict'
  BY <1>2, <1>3, <1>5
     DEF ConsoleInv, SettlesOneSealedRequest, RevealedIsVerdict, IsSealed, AllApprove, Handles
<1> QED
  BY <1>2, <1>9, <1>10, <1>11, <1>12, TabKeeps DEF ConsoleInv

(* Either gateway reveals what the reviewers have agreed on. *)
LEMMA RevealStep ==
  ASSUME IInv, ConsoleInv, Reveal
  PROVE  ConsoleInv'
<1>0. task \in Settling /\ task.kind = "settle"
  BY TaskShape DEF Reveal
<1>1. PICK value \in NoxVerdict(task.rid) \cup LocalVerdict(task.handles) :
        task' = [task EXCEPT !.at = "wallet", !.value = value]
  BY DEF Reveal
<1>2. IsSealed(task.rid) /\ task.handles = Handles(task.rid) /\ task.rid \in RequestId
  BY <1>0 DEF ConsoleInv, SettlesOneSealedRequest, IsSealed, Settling
<1>3. value \in BOOLEAN /\ (value => AllApprove(task.rid))
  <2>1. CASE value \in NoxVerdict(task.rid)
    <3>1. value = requests[task.rid].verdict /\ requests[task.rid] \in ChangeRequest
      BY <1>2, <2>1 DEF NoxVerdict, IInv, TypeOK
    <3>2. value => requests[task.rid].aggregateScore = requests[task.rid].signalCount
      BY <1>2, <3>1 DEF IInv, RequestShape, WellFormed, IsSealed
    <3>3. value => \A s \in SignalsOf(task.rid) : s.handle.value = 1
      BY <1>2, <3>2 DEF IInv, ScoreIsUnanimity
    <3> QED
      BY <3>1, <3>3 DEF ChangeRequest, AllApprove, Handles, SignalsOf
  <2>2. CASE value \in LocalVerdict(task.handles)
    BY <1>2, <2>2 DEF LocalVerdict, AllApprove
  <2> QED
    BY <2>1, <2>2
<1>4. /\ task' \in Settling /\ task'.kind = "settle" /\ task'.rid = task.rid
      /\ task'.handles = task.handles /\ task'.value = value
  BY <1>0, <1>1, <1>3 DEF Settling
<1> QED
  BY <1>2, <1>3, <1>4, TaskStep DEF Reveal, Tasks

(* What is sent carries what was clicked. *)
LEMMA SendStep ==
  ASSUME ConsoleInv, Send
  PROVE  ConsoleInv'
<1>0. /\ UNCHANGED <<chainVars, address, seen, sealed, reports>>
      /\ pending' = pending \cup Transaction
      /\ task' = [task EXCEPT !.at = "receipt", !.sent = Transaction]
      /\ task # Idle /\ address \in Users
  BY DEF Send, ConsoleInv, ConsoleTypeOK
<1>1. UNCHANGED <<openings, aged, requests, signalLog>>
  BY <1>0, TabKeeps
<1>2. /\ Transaction \subseteq Transactions
      /\ \A tx \in Transaction : tx.kind = "signal" =>
           \E p \in sealed : p.handle = tx.handle /\ p.rid = tx.rid
  <2>1. CASE task.kind = "open"
    BY <1>0, <2>1 DEF Transaction, Transactions
  <2>2. CASE task.kind = "settle"
    <3>1. task.rid \in RequestId
      BY <2>2, TaskShape DEF Settling
    <3> QED
      BY <2>2, <3>1 DEF Transaction, Transactions, ClickedRequest
  <2>3. CASE task.kind = "signal"
    <3>1. task \in Signalling /\ task.rid \in RequestId /\ task.handle \subseteq Handle
      BY <2>3, TaskShape DEF Signalling
    <3>2. \A h \in task.handle : \E p \in sealed : p.handle = h /\ p.rid = task.rid
      BY <2>3 DEF ConsoleInv, PositionsMade
    <3>3. Transaction = {[kind |-> "signal", sender |-> address, rid |-> task.rid,
                          handle |-> h] : h \in task.handle}
      BY <2>3 DEF Transaction, ClickedRequest
    <3> QED
      BY <1>0, <3>1, <3>2, <3>3 DEF Transactions
  <2> QED
    BY <1>0, <2>1, <2>2, <2>3, TaskShape
<1>3. /\ task' \in Tasks /\ task'.kind = task.kind
      /\ task.kind = "signal" => task'.handle = task.handle /\ task'.rid = task.rid
      /\ task.kind = "settle" => /\ task'.rid = task.rid /\ task'.handles = task.handles
                                 /\ task'.value = task.value
  <2>1. CASE task.kind = "open"
    BY <1>0, <1>2, <2>1, TaskShape DEF Tasks, Opening
  <2>2. CASE task.kind = "settle"
    BY <1>0, <1>2, <2>2, TaskShape DEF Tasks, Settling
  <2>3. CASE task.kind = "signal"
    BY <1>0, <1>2, <2>3, TaskShape DEF Tasks, Signalling
  <2> QED
    BY <1>0, <2>1, <2>2, <2>3, TaskShape
<1>4. ConsoleTypeOK'
  BY <1>0, <1>1, <1>2, <1>3 DEF ConsoleInv, ConsoleTypeOK
<1>5. PositionsMade'
  BY <1>0, <1>2, <1>3 DEF ConsoleInv, PositionsMade
<1>6. SettlesOneSealedRequest' /\ RevealedIsVerdict'
  BY <1>0, <1>1, <1>3
     DEF ConsoleInv, SettlesOneSealedRequest, RevealedIsVerdict, IsSealed, AllApprove, Handles
<1> QED
  BY <1>0, <1>4, <1>5, <1>6, TabKeeps DEF ConsoleInv

LEMMA ReceiptStep ==
  ASSUME IInv, ConsoleInv, Receipt
  PROVE  ConsoleInv'
<1>0. /\ UNCHANGED <<chainVars, address, pending, sealed>>
      /\ task' = Idle /\ Idle \in Tasks /\ Idle.kind = "idle" /\ seen \in Seen
  BY DEF Receipt, Tasks, Idle, ConsoleInv, ConsoleTypeOK
<1>1. UNCHANGED <<openings, aged, requests, signalLog>>
  BY <1>0, TabKeeps
<1>2. seen' \in Seen /\ SeenWasSo'
  <2>1. CASE task.kind = "open"
    BY <1>0, <2>1, OpenRequestIdIsRequest, NewData DEF Receipt
  <2>2. CASE task.kind = "signal" /\ seen.rid # NoRequest
    <3>1. PICK handles \in SignalHandles(seen.rid) : seen' = [seen EXCEPT !.handles = handles]
      BY <2>2 DEF Receipt
    <3> QED
      BY <1>0, <2>2, <3>1, HandlesRead
  <2>3. CASE UNCHANGED seen
    BY <1>0, <2>3, TabKeeps
  <2> QED
    BY <2>1, <2>2, <2>3 DEF Receipt
<1>3. /\ reports' \subseteq [rid : RequestId, value : BOOLEAN]
      /\ \A report \in reports' :
           IsSealed(report.rid) /\ (report.value => AllApprove(report.rid))
  <2>1. CASE task.kind = "settle"
    <3> DEFINE new == [rid |-> task.rid, value |-> task.value]
    <3>1. /\ new \in [rid : RequestId, value : BOOLEAN]
          /\ new.rid = task.rid /\ new.value = task.value
      BY <2>1, TaskShape DEF Settling
    <3>2. IsSealed(new.rid) /\ (new.value => AllApprove(new.rid))
      BY <2>1, <3>1 DEF ConsoleInv, SettlesOneSealedRequest, RevealedIsVerdict, IsSealed
    <3>3. reports' = reports \cup {new}
      BY <2>1 DEF Receipt
    <3> HIDE DEF new
    <3> QED
      BY <3>1, <3>2, <3>3 DEF ConsoleInv, ConsoleTypeOK, RevealedIsVerdict
  <2>2. CASE task.kind # "settle"
    BY <2>2 DEF Receipt, ConsoleInv, ConsoleTypeOK, RevealedIsVerdict
  <2> QED
    BY <2>1, <2>2
<1>4. ConsoleTypeOK'
  BY <1>0, <1>1, <1>2, <1>3 DEF ConsoleInv, ConsoleTypeOK
<1>5. PositionsMade' /\ SettlesOneSealedRequest'
  BY <1>0 DEF ConsoleInv, PositionsMade, SettlesOneSealedRequest
<1>6. RevealedIsVerdict'
  BY <1>0, <1>1, <1>3 DEF RevealedIsVerdict, IsSealed, AllApprove, Handles
<1> QED
  BY <1>0, <1>2, <1>4, <1>5, <1>6, TabKeeps DEF ConsoleInv

-----------------------------------------------------------------------------
LEMMA ConsoleInitially == ConsoleInit => IInv /\ ConsoleInv
<1> SUFFICES ASSUME ConsoleInit PROVE IInv /\ ConsoleInv
  OBVIOUS
<1>1. IInv
  BY InitIInv DEF ConsoleInit
<1>2. signalLog = {}
  BY DEF ConsoleInit, Init
<1>3. ConsoleTypeOK
  BY DEF ConsoleInit, ConsoleTypeOK, Seen, Tasks
<1>4. seen.rid \notin RequestId /\ task.kind = "idle"
  BY NoRequestAssumption DEF ConsoleInit, Idle
<1>5. OneSignalEach /\ PositionsMade /\ PositionCountsAsChosen /\ PositionCountsForItsAccount
  BY <1>2, <1>4 DEF ConsoleInit, OneSignalEach, PositionsMade, PositionCountsAsChosen,
                    PositionCountsForItsAccount
<1>6. SeenWasSo /\ SettlesOneSealedRequest /\ RevealedIsVerdict
  BY <1>4 DEF ConsoleInit, SeenWasSo, SettlesOneSealedRequest, RevealedIsVerdict
<1> QED
  BY <1>1, <1>3, <1>5, <1>6 DEF ConsoleInv

LEMMA ConsoleStep ==
  ASSUME IInv, ConsoleInv, [ConsoleNext]_consoleVars
  PROVE  [Next]_vars /\ ConsoleInv'
<1>1. CASE TabNext
  <2>1. UNCHANGED vars
    BY <1>1 DEF TabNext, Connect, Poll, OpenRequest, SubmitSignal, Settle, Start, Seal, Reveal,
                Send, Receipt, Fail, chainVars
  <2>2. ConsoleInv'
    BY <1>1, ConnectStep, PollStep, ClickStep, SealStep, RevealStep, SendStep, ReceiptStep,
       FailStep DEF TabNext
  <2> QED
    BY <2>1, <2>2
<1>2. ASSUME NEW tx \in pending, Mined(tx)
      PROVE  [Next]_vars /\ ConsoleInv'
  BY <1>2, MinedStep
<1>3. CASE LeavesLookback
  BY <1>3, LookbackStep
<1>4. CASE Others
  BY <1>4, OthersStep
<1>5. CASE UNCHANGED consoleVars
  <2>1. UNCHANGED <<chainVars, address, seen, task, pending, sealed, reports>>
    BY <1>5 DEF consoleVars, tabVars
  <2>2. UNCHANGED vars /\ UNCHANGED <<openings, aged>>
    BY <2>1 DEF chainVars
  <2>3. ConsoleTypeOK'
    BY <2>1, <2>2 DEF ConsoleInv, ConsoleTypeOK
  <2> QED
    BY <2>1, <2>2, <2>3, TabKeeps DEF ConsoleInv
<1> QED
  BY <1>1, <1>2, <1>3, <1>4, <1>5 DEF ConsoleNext

LEMMA ConsoleInvStep ==
  ASSUME IInv, ConsoleInv, [ConsoleNext]_consoleVars
  PROVE  IInv' /\ ConsoleInv'
<1>1. [Next]_vars /\ ConsoleInv'
  BY ConsoleStep
<1>2. IInv'
  BY <1>1, RequestNextStep, VendorNextStep, GovernanceNextStep, AdminNextStep, TickStep,
     StutterStep DEF Next
<1> QED
  BY <1>1, <1>2

(***************************************************************************)
(* A tab between polls, prompts, gateways and receipts (console.tsx,       *)
(* use-firewall.ts): a position counts for the request, the account and    *)
(* the value it was chosen with; what is settled is one sealed request     *)
(* with its own three handles; a reported move was approved by everybody.  *)
(***************************************************************************)
THEOREM ConsoleSafe ==
  ConsoleSpec =>
    [](ConsoleTypeOK /\ PositionCountsAsChosen /\ PositionCountsForItsAccount
         /\ SettlesOneSealedRequest /\ NoMoveReportedOfRefusal)
<1>1. ConsoleInit => IInv /\ ConsoleInv
  BY ConsoleInitially
<1>2. IInv /\ ConsoleInv /\ [ConsoleNext]_consoleVars => IInv' /\ ConsoleInv'
  BY ConsoleInvStep
<1>3. ConsoleInv =>
        /\ ConsoleTypeOK /\ PositionCountsAsChosen /\ PositionCountsForItsAccount
        /\ SettlesOneSealedRequest /\ NoMoveReportedOfRefusal
  BY DEF ConsoleInv, RevealedIsVerdict, NoMoveReportedOfRefusal, AllApprove
<1> QED
  BY <1>1, <1>2, <1>3, PTL DEF ConsoleSpec

(***************************************************************************)
(* The variables of the tab, the chain and the account keep their types.   *)
(***************************************************************************)
THEOREM TabTypesKept == ConsoleSpec => []ConsoleTypeOK
BY ConsoleSafe, PTL

(***************************************************************************)
(* What the tab settles is one sealed request, with the handles that the   *)
(* contract has for it (use-firewall.ts), whichever poll it was read by.   *)
(***************************************************************************)
THEOREM OneRequestSettled == ConsoleSpec => []SettlesOneSealedRequest
BY ConsoleSafe, PTL

(***************************************************************************)
(* A move that the tab reports was approved by everybody.                  *)
(***************************************************************************)
THEOREM ReportedMovesApproved == ConsoleSpec => []NoMoveReportedOfRefusal
BY ConsoleSafe, PTL

(* The composition reaches the firewall by the firewall's actions only.    *)
LEMMA ConsoleIsFirewall == ConsoleSpec => Spec
<1>1. ConsoleInit => Init
  BY DEF ConsoleInit
<1>2. IInv /\ ConsoleInv /\ [ConsoleNext]_consoleVars => [Next]_vars
  BY ConsoleStep
<1>3. ConsoleSpec => [](IInv /\ ConsoleInv)
  BY ConsoleInitially, ConsoleInvStep, PTL DEF ConsoleSpec
<1> QED
  BY <1>1, <1>2, <1>3, PTL DEF ConsoleSpec, Spec

(***************************************************************************)
(* Through the console too a wallet moves only by a request from it that   *)
(* all seat holders endorsed.                                              *)
(***************************************************************************)
THEOREM ConsoleKeepsPolicy == ConsoleSpec => ImplementsPolicy
BY ConsoleIsFirewall, Implementation
=============================================================================
