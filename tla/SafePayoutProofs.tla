-------------------------- MODULE SafePayoutProofs --------------------------
(***************************************************************************)
(* Theorems about the payout module composed with the firewall, whatever   *)
(* the payees' code does and whatever tokens the Safe pays with.           *)
(***************************************************************************)
EXTENDS SafePayoutModule, FirewallV2Refinement, SequenceTheorems

USE DEF RequiredSignals, Epoch, Time, Address, WalletAddress

(***************************************************************************)
(* To the firewall the Safe, the module and the payees are senders like    *)
(* any other: the composition is a behaviour of the firewall.              *)
(***************************************************************************)
THEOREM SystemIsFirewall == SystemSpec => Spec
<1>1. SystemInit => Init
  BY DEF SystemInit
<1>2. [SystemNext]_systemVars => [Next]_vars
  <2>1. ASSUME NEW sender, NEW v, NEW asset, NEW amount, Pay(sender, v, asset, amount)
        PROVE  UNCHANGED vars
    BY <2>1 DEF Pay
  <2>2. PayoutReturns \/ SetModule \/ UNCHANGED systemVars => UNCHANGED vars
    BY DEF PayoutReturns, SetModule, systemVars
  <2>3. FirewallStep => Next
    BY DEF FirewallStep
  <2> QED
    BY <2>1, <2>2, <2>3 DEF SystemNext, ExecuteNativePayout, ExecuteTokenPayout
<1> QED
  BY <1>1, <1>2, PTL DEF SystemSpec, Spec

(***************************************************************************)
(* No payee that is called in the middle of a payout can make the firewall *)
(* break its promise: a wallet still moves only by a request from it that  *)
(* all seat holders endorsed.                                              *)
(***************************************************************************)
THEOREM SystemKeepsPolicy == SystemSpec => ImplementsPolicy
BY SystemIsFirewall, Implementation

LEMMA InitSystemInv == SystemInit => SystemInv
<1> SUFFICES ASSUME SystemInit PROVE SystemInv
  OBVIOUS
<1>1. IInv
  BY InitIInv DEF SystemInit
<1>2. PayoutTypeOK /\ Guarded
  <2>1. <<>> \in Seq(Payout) /\ Len(<<>>) = 0
    BY EmptySeq
  <2>2. PayoutTypeOK
    BY <2>1 DEF SystemInit, PayoutTypeOK
  <2>3. Len(frames) <= 1
    BY <2>1 DEF SystemInit
  <2>4. entered <=> frames # <<>>
    BY DEF SystemInit
  <2> QED
    BY <2>2, <2>3, <2>4 DEF Guarded
<1>3. calls = <<>> /\ events \o frames = <<>> /\ Len(calls) = 0
  BY DEF SystemInit
<1>4. EventsTellPayments /\ PaidUnderPolicy
  BY <1>3 DEF EventsTellPayments, PaidUnderPolicy
<1> QED
  BY <1>1, <1>2, <1>4 DEF SystemInv

-----------------------------------------------------------------------------
(* What the firewall's own steps cannot undo.                              *)

LEMMA NextKeepsIInv ==
  ASSUME IInv, [Next]_vars
  PROVE  IInv'
BY RequestNextStep, VendorNextStep, GovernanceNextStep, AdminNextStep, TickStep, StutterStep
   DEF Next

LEMMA RegisteredForever ==
  ASSUME IInv, [Next]_vars, NEW v \in Vendors, Registered(v)
  PROVE  vendors'[v].registered
<1>1. vendors[v].approverEpoch \in Nat /\ vendors[v].approverEpoch >= 1
  BY EpochAssumption DEF IInv, TypeOK, Vendor, VendorShape, Registered
<1>2. vendors'[v].approverEpoch >= vendors[v].approverEpoch
  BY VendorEffects DEF EpochGrows
<1>3. VendorShape'
  BY NextKeepsIInv DEF IInv
<1>4. NoVendor.approverEpoch = 0
  BY DEF NoVendor
<1> QED
  BY <1>1, <1>2, <1>3, <1>4 DEF VendorShape

LEMMA ApprovedForever ==
  ASSUME IInv, [Next]_vars, NEW id \in RequestId, requests[id].approved
  PROVE  requests'[id].approved
<1>1. requests[id].status = "Settled"
  BY DEF IInv, RequestShape, WellFormed
<1>2. ASSUME RequestNext PROVE requests'[id] = requests[id]
  <2>1. ASSUME NEW sender \in Requesters, NEW v \in Vendors, NEW w \in WalletAddress,
               NEW n \in Nonces, OpenChangeRequest(sender, v, w, n)
        PROVE  requests'[id] = requests[id]
    <3> DEFINE opened == DerivedRequestId(v, w, sender, n)
    <3>1. /\ requests[opened].status = "None"
          /\ requests' = [requests EXCEPT ![opened] = Blank("Collecting")]
      BY <2>1 DEF OpenChangeRequest
    <3> HIDE DEF opened
    <3> QED
      BY <1>1, <3>1 DEF IInv, TypeOK
  <2>2. ASSUME NEW sender \in Accounts, NEW other \in RequestId, NEW h \in Handle,
               SubmitPrivateSignal(sender, other, h)
        PROVE  requests'[id] = requests[id]
    BY <1>1, <2>2 DEF SubmitPrivateSignal, IInv, TypeOK
  <2>3. ASSUME NEW other \in RequestId, SettleApproval(other)
        PROVE  requests'[id] = requests[id]
    BY <1>1, <2>3 DEF SettleApproval, IInv, TypeOK
  <2> QED
    BY <1>2, <2>1, <2>2, <2>3 DEF RequestNext
<1> QED
  BY <1>2, RequestsUntouched, AdministrationKeepsVendors DEF Next, requestVars

(* Payments of the past stay payments to a wallet of the vendor's.         *)
LEMMA FirewallKeepsPaid ==
  ASSUME IInv, PayoutTypeOK, PaidUnderPolicy, [Next]_vars, UNCHANGED calls
  PROVE  PaidUnderPolicy'
<1> SUFFICES ASSUME NEW i \in 1..Len(calls)
             PROVE  LET paid == calls[i]
                    IN /\ vendors'[paid.vendor].registered
                       /\ \/ paid.destination = vendors'[paid.vendor].payoutWallet
                          \/ \E id \in RequestId :
                               /\ id.vendorId = paid.vendor
                               /\ id.currentWallet = paid.destination
                               /\ requests'[id].approved
  BY DEF PaidUnderPolicy, Registered
<1> DEFINE v == calls[i].vendor
           destination == calls[i].destination
<1>1. v \in Vendors
  <2>1. calls[i] \in Payout
    BY DEF PayoutTypeOK
  <2> QED
    BY <2>1 DEF Payout
<1>2. /\ Registered(v)
      /\ \/ destination = vendors[v].payoutWallet
         \/ \E id \in RequestId :
              /\ id.vendorId = v /\ id.currentWallet = destination /\ requests[id].approved
  BY DEF PaidUnderPolicy
<1> SUFFICES /\ vendors'[v].registered
             /\ \/ destination = vendors'[v].payoutWallet
                \/ \E id \in RequestId :
                     /\ id.vendorId = v /\ id.currentWallet = destination
                     /\ requests'[id].approved
  OBVIOUS
<1> HIDE DEF v, destination
<1>3. vendors'[v].registered
  BY <1>1, <1>2, RegisteredForever
<1>4. CASE destination = vendors[v].payoutWallet
  <2>1. CASE NoMove(v)
    BY <1>3, <1>4, <2>1 DEF NoMove
  <2>2. CASE \E id \in RequestId :
               SettleApproval(id) /\ requests[id].verdict /\ id.vendorId = v
    <3>1. PICK id \in RequestId : SettleApproval(id) /\ requests[id].verdict /\ id.vendorId = v
      BY <2>2
    <3>2. id.currentWallet = destination
      BY <1>4, <3>1 DEF SettleApproval, WalletStillCurrent
    <3>3. requests'[id].approved
      BY <3>1 DEF SettleApproval, IInv, TypeOK, ChangeRequest
    <3> QED
      BY <1>3, <3>1, <3>2, <3>3
  <2>3. NoMove(v) \/ \E id \in RequestId :
          SettleApproval(id) /\ requests[id].verdict /\ id.vendorId = v
    BY <1>1, <1>2, VendorEffects
  <2> QED
    BY <2>1, <2>2, <2>3
<1>5. CASE \E id \in RequestId :
             /\ id.vendorId = v /\ id.currentWallet = destination /\ requests[id].approved
  BY <1>3, <1>5, ApprovedForever
<1> QED
  BY <1>2, <1>4, <1>5
LEMMA FirewallStepKeeps ==
  ASSUME SystemInv, [Next]_vars, UNCHANGED moduleVars
  PROVE  SystemInv'
<1>1. IInv' /\ PaidUnderPolicy'
  BY NextKeepsIInv, FirewallKeepsPaid DEF SystemInv, moduleVars
<1>2. PayoutTypeOK' /\ Guarded' /\ EventsTellPayments'
  BY DEF SystemInv, moduleVars, PayoutTypeOK, Guarded, EventsTellPayments
<1> QED
  BY <1>1, <1>2 DEF SystemInv

-----------------------------------------------------------------------------
LEMMA AcceptedMoves ==
  ASSUME NEW asset \in Assets, asset \notin Hollow, NEW result \in Results(asset),
         Accepted(result)
  PROVE  result.moved
BY DEF Results, Accepted

(* What the module and the Safe do when a payout opens.                    *)
LEMMA PayOpens ==
  ASSUME IInv, PayoutTypeOK, NEW sender \in Accounts, NEW v \in Vendors,
         NEW asset \in Assets, NEW amount \in Amounts, Pay(sender, v, asset, amount)
  PROVE  \E payout \in Payout :
           /\ payout.vendor = v
           /\ Registered(v) /\ ~paused
           /\ payout.destination = vendors[v].payoutWallet
           /\ payout.asset \notin Hollow => payout.moved
           /\ frames' = <<payout>> \o frames
           /\ calls' = Append(calls, payout)
           /\ ~entered /\ entered' = TRUE
           /\ UNCHANGED <<vars, enabled, events>>
<1>1. PICK destination \in WalletAddress, result \in Results(asset) :
        LET payout == [vendor |-> v, asset |-> asset, destination |-> destination,
                       amount |-> amount, moved |-> result.moved]
        IN /\ NonReentrant /\ NonZeroAmount(amount)
           /\ AllowedDestination(v, destination) /\ Accepted(result)
           /\ entered' = TRUE
           /\ frames' = <<payout>> \o frames
           /\ calls' = Append(calls, payout)
           /\ UNCHANGED <<vars, enabled, events>>
  BY DEF Pay
<1> DEFINE payout == [vendor |-> v, asset |-> asset, destination |-> destination,
                      amount |-> amount, moved |-> result.moved]
<1>2. /\ destination = vendors[v].payoutWallet /\ destination # Zero
      /\ Registered(v) /\ ~paused
  BY <1>1 DEF AllowedDestination, PayoutAllowed
<1>3. result.moved \in BOOLEAN
  BY DEF Results
<1>4. asset \notin Hollow => result.moved
  BY <1>1, AcceptedMoves
<1>5. payout \in Payout
  BY <1>1, <1>2, <1>3 DEF Payout, NonZeroAmount
<1>6. /\ payout.vendor = v /\ payout.destination = destination
      /\ payout.asset = asset /\ payout.moved = result.moved
  OBVIOUS
<1>7. /\ ~entered /\ entered' = TRUE
      /\ frames' = <<payout>> \o frames
      /\ calls' = Append(calls, payout)
      /\ UNCHANGED <<vars, enabled, events>>
  BY <1>1 DEF NonReentrant
<1> HIDE DEF payout
<1> QED
  BY <1>2, <1>4, <1>5, <1>6, <1>7

LEMMA PayKeeps ==
  ASSUME SystemInv, NEW sender \in Accounts, NEW v \in Vendors,
         NEW asset \in Assets, NEW amount \in Amounts, Pay(sender, v, asset, amount)
  PROVE  SystemInv'
<1>1. PICK payout \in Payout :
        /\ payout.vendor = v
        /\ Registered(v) /\ ~paused
        /\ payout.destination = vendors[v].payoutWallet
        /\ payout.asset \notin Hollow => payout.moved
        /\ frames' = <<payout>> \o frames
        /\ calls' = Append(calls, payout)
        /\ ~entered /\ entered' = TRUE
        /\ UNCHANGED <<vars, enabled, events>>
  BY PayOpens DEF SystemInv
<1>2. frames = <<>> /\ frames' = <<payout>> /\ events' = events
  <2>1. frames = <<>>
    BY <1>1 DEF SystemInv, Guarded
  <2> QED
    BY <1>1, <2>1, ConcatEmptySeq
<1>3. calls \in Seq(Payout) /\ events \in Seq(Payout) /\ calls = events
  BY <1>2, ConcatEmptySeq DEF SystemInv, PayoutTypeOK, EventsTellPayments
<1>4. /\ Len(calls') = Len(calls) + 1 /\ Len(calls) \in Nat
      /\ \A i \in 1..Len(calls) : calls'[i] = calls[i]
      /\ calls'[Len(calls) + 1] = payout
  BY <1>1, <1>3, AppendProperties
<1>5. IInv'
  BY <1>1, StutterStep DEF SystemInv
<1>6. PayoutTypeOK'
  BY <1>1, <1>2, <1>3, AppendProperties DEF SystemInv, PayoutTypeOK
<1>7. Guarded'
  <2>1. Len(frames') = 1 /\ frames' # <<>>
    BY <1>2
  <2> QED
    BY <1>1, <2>1 DEF Guarded
<1>8. EventsTellPayments'
  <2>1. calls' = events' \o frames'
    BY <1>1, <1>2, <1>3, AppendIsConcat
  <2>2. ASSUME NEW i \in 1..Len(calls')
        PROVE  calls'[i].asset \notin Hollow => calls'[i].moved
    <3>1. CASE i \in 1..Len(calls)
      BY <1>4, <3>1 DEF SystemInv, EventsTellPayments
    <3>2. CASE i = Len(calls) + 1
      BY <1>1, <1>4, <3>2
    <3> QED
      BY <1>4, <3>1, <3>2
  <2> QED
    BY <2>1, <2>2 DEF EventsTellPayments
<1>9. PaidUnderPolicy'
  <2>1. UNCHANGED <<vendors, requests>>
    BY <1>1 DEF vars, requestVars
  <2> SUFFICES ASSUME NEW i \in 1..Len(calls')
               PROVE  LET paid == calls'[i]
                      IN /\ vendors[paid.vendor].registered
                         /\ \/ paid.destination = vendors[paid.vendor].payoutWallet
                            \/ \E id \in RequestId :
                                 /\ id.vendorId = paid.vendor
                                 /\ id.currentWallet = paid.destination
                                 /\ requests[id].approved
    BY <2>1 DEF PaidUnderPolicy, Registered
  <2>3. CASE i \in 1..Len(calls)
    BY <1>4, <2>3 DEF SystemInv, PaidUnderPolicy, Registered
  <2>4. CASE i = Len(calls) + 1
    BY <1>1, <1>4, <2>4 DEF Registered
  <2> QED
    BY <1>4, <2>3, <2>4
<1> QED
  BY <1>5, <1>6, <1>7, <1>8, <1>9 DEF SystemInv

LEMMA ReturnKeeps ==
  ASSUME SystemInv, PayoutReturns
  PROVE  SystemInv'
<1>1. /\ frames # <<>> /\ events' = Append(events, Head(frames))
      /\ frames' = Tail(frames) /\ entered' = FALSE
      /\ UNCHANGED <<vars, enabled, calls>>
  BY DEF PayoutReturns
<1>2. frames \in Seq(Payout) /\ Len(frames) = 1 /\ events \in Seq(Payout)
  <2>1. frames \in Seq(Payout) /\ events \in Seq(Payout) /\ Len(frames) <= 1
    BY DEF SystemInv, Guarded, PayoutTypeOK
  <2>2. Len(frames) \in Nat \ {0}
    BY <1>1, <2>1, EmptySeq
  <2>3. \A n \in Nat \ {0} : n <= 1 => n = 1
    OBVIOUS
  <2> QED
    BY <2>1, <2>2, <2>3
<1>3. /\ Head(frames) \in Payout /\ frames = <<Head(frames)>>
      /\ Tail(frames) \in Seq(Payout) /\ Tail(frames) = <<>>
  BY <1>1, <1>2, HeadTailProperties, EmptySeq
<1>4. Append(events, Head(frames)) \in Seq(Payout)
  BY <1>2, <1>3, AppendProperties
<1>5. events' \o frames' = calls'
  <2>1. events' = events \o frames
    BY <1>1, <1>2, <1>3, AppendIsConcat
  <2>2. events' \o frames' = events'
    BY <1>1, <1>3, <1>4, ConcatEmptySeq
  <2> QED
    BY <1>1, <2>1, <2>2 DEF SystemInv, EventsTellPayments
<1>6. EventsTellPayments'
  BY <1>1, <1>5 DEF SystemInv, EventsTellPayments
<1>7. PayoutTypeOK'
  BY <1>1, <1>3, <1>4 DEF SystemInv, PayoutTypeOK
<1>8. Guarded'
  <2>1. frames' = <<>> /\ Len(frames') <= 1
    BY <1>1, <1>3
  <2> QED
    BY <1>1, <2>1 DEF Guarded
<1>9. IInv' /\ PaidUnderPolicy'
  BY <1>1, StutterStep, FirewallKeepsPaid DEF SystemInv
<1> QED
  BY <1>6, <1>7, <1>8, <1>9 DEF SystemInv

LEMMA SetModuleKeeps ==
  ASSUME SystemInv, SetModule
  PROVE  SystemInv'
<1>1. UNCHANGED <<vars, entered, frames, calls, events>> /\ enabled' \in BOOLEAN
  BY DEF SetModule
<1>2. IInv' /\ PaidUnderPolicy'
  BY <1>1, StutterStep, FirewallKeepsPaid DEF SystemInv
<1>3. PayoutTypeOK' /\ Guarded' /\ EventsTellPayments'
  BY <1>1 DEF SystemInv, PayoutTypeOK, Guarded, EventsTellPayments
<1> QED
  BY <1>2, <1>3 DEF SystemInv

(***************************************************************************)
(* The inductive invariant of module and firewall together.                *)
(***************************************************************************)
THEOREM SystemInvariance == SystemSpec => []SystemInv
<1>1. SystemInv /\ [SystemNext]_systemVars => SystemInv'
  <2> SUFFICES ASSUME SystemInv, [SystemNext]_systemVars PROVE SystemInv'
    OBVIOUS
  <2>1. ASSUME NEW sender \in Accounts, NEW v \in Vendors, NEW amount \in Amounts,
               ExecuteNativePayout(sender, v, amount)
        PROVE  SystemInv'
    BY <2>1, PayKeeps DEF ExecuteNativePayout, Assets
  <2>2. ASSUME NEW sender \in Accounts, NEW v \in Vendors, NEW amount \in Amounts,
               NEW token \in Tokens, ExecuteTokenPayout(sender, v, token, amount)
        PROVE  SystemInv'
    BY <2>2, PayKeeps DEF ExecuteTokenPayout, Assets
  <2>3. FirewallStep \/ UNCHANGED systemVars => [Next]_vars /\ UNCHANGED moduleVars
    BY DEF FirewallStep, systemVars
  <2> QED
    BY <2>1, <2>2, <2>3, ReturnKeeps, SetModuleKeeps, FirewallStepKeeps DEF SystemNext
<1> QED
  BY <1>1, InitSystemInv, PTL DEF SystemSpec

(***************************************************************************)
(* The calls through the Safe, the events and the frames of the module     *)
(* keep their types: at most one payout is under way.                      *)
(***************************************************************************)
THEOREM PayoutTypesKept == SystemSpec => []PayoutTypeOK
BY SystemInvariance, PTL DEF SystemInv

(***************************************************************************)
(* Events and payments agree, in order, although payees run code.          *)
(***************************************************************************)
THEOREM PaymentsRecorded == SystemSpec => []EventsTellPayments
BY SystemInvariance, PTL DEF SystemInv

(***************************************************************************)
(* Every payment went to a wallet the policy made the vendor's, by         *)
(* registration or by an approved request.                                 *)
(***************************************************************************)
THEOREM PolicyPaid == SystemSpec => []PaidUnderPolicy
BY SystemInvariance, PTL DEF SystemInv

(***************************************************************************)
(* The Safe pays only unpaused, and only the wallet that is current.       *)
(***************************************************************************)
THEOREM CurrentWalletPaid == SystemSpec => PaysTheCurrentWallet
<1> DEFINE PaidNow == /\ ~paused
                      /\ \E payout \in Payout :
                           /\ calls' = Append(calls, payout)
                           /\ payout.destination = vendors[payout.vendor].payoutWallet
<1>1. SystemInv /\ [SystemNext]_systemVars => (calls' # calls => PaidNow)
  <2> SUFFICES ASSUME SystemInv, [SystemNext]_systemVars, calls' # calls PROVE PaidNow
    OBVIOUS
  <2>1. ASSUME NEW sender \in Accounts, NEW v \in Vendors, NEW amount \in Amounts,
               NEW asset \in Assets, Pay(sender, v, asset, amount)
        PROVE  PaidNow
    BY <2>1, PayOpens DEF SystemInv
  <2>2. ~PayoutReturns /\ ~SetModule /\ ~FirewallStep /\ ~UNCHANGED systemVars
    BY DEF PayoutReturns, SetModule, FirewallStep, systemVars, moduleVars
  <2> HIDE DEF PaidNow
  <2> QED
    BY <2>1, <2>2 DEF SystemNext, ExecuteNativePayout, ExecuteTokenPayout, Assets
<1> QED
  BY <1>1, SystemInvariance, PTL DEF SystemSpec, PaysTheCurrentWallet
=============================================================================
