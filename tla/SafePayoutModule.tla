-------------------------- MODULE SafePayoutModule --------------------------
(***************************************************************************)
(* contracts/integrations/QeltrunSafePayoutModule.sol, enabled in a Safe   *)
(* and reading the payout policy of FirewallV2.                            *)
(*                                                                         *)
(* A payout is not one action: the Safe's call hands control to the payee  *)
(* (or to the token), whose code may call the firewall, or make the Safe   *)
(* call the module again, before the module gets the result and emits its  *)
(* event.  A payout therefore opens a frame, and returns later.  Calls     *)
(* that revert leave no trace, so that only those that will be accepted    *)
(* open a frame.                                                           *)
(***************************************************************************)
EXTENDS FirewallV2Safety, Sequences

CONSTANTS
  Safe,       \* the account of the Safe
  Native,     \* address(0) as an asset: the chain's currency
  Tokens,     \* token addresses the Safe is asked to pay with
  Hollow,     \* tokens whose transfer moves nothing and returns nothing,
              \* as a call to an address without code does
  Amounts,    \* amounts the Safe is asked to pay
  MaxPayouts  \* bound: payouts in a behaviour

ASSUME SafeAssumption == Safe \in Accounts
ASSUME AssetAssumption == Native \notin Tokens /\ Hollow \subseteq Tokens
ASSUME AmountAssumption == Amounts \subseteq Nat /\ MaxPayouts \in Nat

Assets == Tokens \cup {Native}

(* A call the Safe makes for the module, with what it did; the event the   *)
(* module emits carries all fields but the last.                           *)
Payout ==
  [vendor : Vendors, asset : Assets, destination : Wallets, amount : Amounts \ {0},
   moved : BOOLEAN]

VARIABLES
  enabled,  \* Safe: is the module enabled
  entered,  \* ReentrancyGuard._status of the module
  frames,   \* payouts whose call has not returned, innermost first
  calls,    \* history: the calls the Safe has made for the module
  events    \* the VendorPayoutExecuted events

moduleVars == <<enabled, entered, frames, calls, events>>
systemVars == <<vars, moduleVars>>

PayoutTypeOK ==
  /\ enabled \in BOOLEAN
  /\ entered \in BOOLEAN
  /\ frames \in Seq(Payout)
  /\ calls \in Seq(Payout)
  /\ events \in Seq(Payout)

SystemInit ==
  /\ Init
  /\ enabled = FALSE
  /\ entered = FALSE
  /\ frames = <<>>
  /\ calls = <<>>
  /\ events = <<>>

OnlySafe(sender) == sender = Safe

AnyEntry == TRUE
NonReentrant == ~entered

(* What the Safe's call may come back with: success, what the callee       *)
(* returned, whether funds moved.  Native currency moves or the call fails;*)
(* a token moves the funds unless it reverts or returns false; a hollow    *)
(* one does nothing at all.                                                *)
Results(asset) ==
  {result \in [success : BOOLEAN, returned : {"nothing", "true", "false"}, moved : BOOLEAN] :
     /\ asset = Native => result.returned = "nothing"
     /\ IF asset \in Hollow
        THEN result.success /\ result.returned = "nothing" /\ ~result.moved
        ELSE result.moved <=> result.success /\ result.returned # "false"}

ReturnIgnored(result) == result.success
(* The SafeExecutionFailed and TokenTransferFailed checks.                 *)
Accepted(result) == result.success /\ result.returned # "false"

AnyAmount(amount) == TRUE
(* The ZeroAmount checks. *)
NonZeroAmount(amount) == amount # 0

Unasked(v, destination) ==
  destination = vendors[v].payoutWallet /\ destination # Zero
(* _allowedDestination *)
AllowedDestination(v, destination) ==
  /\ destination = vendors[v].payoutWallet
  /\ PayoutAllowed(v, destination)

(* The module calls the Safe, which calls the payee or the token.          *)
Pay(sender, v, asset, amount) ==
  \E destination \in WalletAddress, result \in Results(asset) :
    LET payout == [vendor |-> v, asset |-> asset, destination |-> destination,
                   amount |-> amount, moved |-> result.moved]
    IN /\ OnlySafe(sender)
       /\ NonReentrant
       /\ NonZeroAmount(amount)
       /\ AllowedDestination(v, destination)
       /\ enabled
       /\ Accepted(result)
       /\ Len(calls) < MaxPayouts
       /\ entered' = TRUE
       /\ frames' = <<payout>> \o frames
       /\ calls' = Append(calls, payout)
       /\ UNCHANGED <<vars, enabled, events>>

ExecuteNativePayout(sender, v, amount) == Pay(sender, v, Native, amount)

ExecuteTokenPayout(sender, v, token, amount) ==
  token # Zero /\ Pay(sender, v, token, amount)

(* The innermost call returns: the module emits its event and leaves.      *)
PayoutReturns ==
  /\ frames # <<>>
  /\ events' = Append(events, Head(frames))
  /\ frames' = Tail(frames)
  /\ entered' = FALSE
  /\ UNCHANGED <<vars, enabled, calls>>

(* The Safe's owners enable or disable the module, at any time.            *)
SetModule ==
  /\ enabled' = ~enabled
  /\ UNCHANGED <<vars, entered, frames, calls, events>>

(* A transaction of its own, or a call by the payee's code: the firewall   *)
(* cannot tell them apart, but within a transaction no time passes.        *)
FirewallStep ==
  /\ Next
  /\ frames # <<>> => UNCHANGED now
  /\ UNCHANGED moduleVars

SystemNext ==
  \/ \E sender \in Accounts, v \in Vendors, amount \in Amounts :
       \/ ExecuteNativePayout(sender, v, amount)
       \/ \E token \in Tokens : ExecuteTokenPayout(sender, v, token, amount)
  \/ PayoutReturns
  \/ SetModule
  \/ FirewallStep

SystemSpec == SystemInit /\ [][SystemNext]_systemVars

-----------------------------------------------------------------------------
(***************************************************************************)
(* The events are the Safe's calls, in the order in which it made them,    *)
(* but for the one that has not returned; and every one of a token that is *)
(* not hollow moved funds.  It would break if a payee could enter the      *)
(* module again (lines 57, 73), or a refusal passed for a payment (lines   *)
(* 66, 81, 82).                                                            *)
(***************************************************************************)
EventsTellPayments ==
  /\ calls = events \o frames
  /\ \A i \in 1..Len(calls) : calls[i].asset \notin Hollow => calls[i].moved

(***************************************************************************)
(* Whatever was paid for a vendor went to a wallet the policy made the     *)
(* vendor's: the one it has now, or one that an approved request has since *)
(* moved it from.  A payee that settles a request from within its own      *)
(* payout changes nothing about that.                                      *)
(***************************************************************************)
PaidUnderPolicy ==
  \A i \in 1..Len(calls) :
    LET paid == calls[i]
    IN /\ Registered(paid.vendor)
       /\ \/ paid.destination = vendors[paid.vendor].payoutWallet
          \/ \E id \in RequestId :
               /\ id.vendorId = paid.vendor
               /\ id.currentWallet = paid.destination
               /\ requests[id].approved

(***************************************************************************)
(* README.md: "Safe module pays only the current policy wallet", and while *)
(* the firewall is paused payouts "fail closed": no call of the Safe for   *)
(* the module, also from within another payout.                            *)
(***************************************************************************)
PaysTheCurrentWallet ==
  [][calls' # calls =>
       /\ ~paused
       /\ \E payout \in Payout :
            /\ calls' = Append(calls, payout)
            /\ payout.destination = vendors[payout.vendor].payoutWallet]_systemVars

(* At most one payout is open, and the guard says whether one is.          *)
Guarded == Len(frames) <= 1 /\ (entered <=> frames # <<>>)

(* The inductive invariant of the composition.                             *)
SystemInv ==
  /\ IInv
  /\ PayoutTypeOK
  /\ Guarded
  /\ EventsTellPayments
  /\ PaidUnderPolicy
=============================================================================
