--------------------------- MODULE TreasuryScripts ---------------------------
(***************************************************************************)
(* The operator's scripts for a deployment that a treasury Safe owns: they *)
(* deploy the Safe and the contracts, hand the firewall over, register     *)
(* vendors and certify payouts, reviews and governance on a live chain.    *)
(* One key signs for everybody: it owns the Safe, deploys, opens requests, *)
(* and the other reviewers' and candidates' keys are derived from it.      *)
(*                                                                         *)
(* One script runs at a time.  It is a sequence of transactions and reads; *)
(* between any two of them it may die, of an error of the network, of one  *)
(* that it throws, or because a transaction reverts, and it leaves on      *)
(* chain what it has done.  Then it, or another one, is started.  In the   *)
(* meantime time passes, and anybody may settle a sealed request.          *)
(*                                                                         *)
(* The module's payouts are modelled by SafePayoutModule: here one is done *)
(* or it reverts.  Left out: gas money, which a script tops up first (a    *)
(* wallet without it makes a transaction fail, as it may here), checks of  *)
(* the chain id and of the environment, and contracts that a failed        *)
(* deploy-v2 left behind and nothing refers to.                            *)
(***************************************************************************)
EXTENDS FirewallV2

CONSTANTS
  Safe,              \* TREASURY_SAFE
  Key,               \* PRIVATE_KEY: deployer, owner of the Safe, approver
  TreasuryReviewer, RiskReviewer,         \* keys derived from Key, as are
  RotationCandidate, RecoveryCandidate,   \* these
  LiveVendor,        \* vendor:qeltrun-v2-live
  RecoveryVendor,    \* qeltrun/v2/recovery-disposable
  DemoVendor,        \* vendor:qeltrun-demo
  LiveWallet,        \* what verify-live-v2 proposes
  RecoveryWallet, DemoWallet,
  DemoSeats,         \* the three addresses of web/lib/demo-reviewers.ts
  PanelInputs        \* <<vendor, wallet, approver, treasury, risk>> typed
                     \* into the console's admin panel

ASSUME KeyAssumption ==
  /\ {Safe, Key, TreasuryReviewer, RiskReviewer, RotationCandidate, RecoveryCandidate}
       \subseteq Accounts
  /\ Key \in Requesters
  /\ DemoSeats \in Accounts \X Accounts \X Accounts
ASSUME VendorAssumption ==
  /\ {LiveVendor, RecoveryVendor, DemoVendor} \subseteq Vendors
  /\ {Key, LiveWallet, RecoveryWallet, DemoWallet} \subseteq Wallets
  /\ PanelInputs \subseteq Vendors \X Wallets \X Accounts \X Accounts \X Accounts
(* The hashes of different labels and the address of a derived key.        *)
ASSUME DistinctAssumption ==
  LiveVendor # RecoveryVendor /\ DemoVendor # RecoveryVendor /\ RecoveryCandidate # Key
ASSUME HandleAssumption == 1 \in SignalValues /\ Serials \subseteq Nat

Assets == {"native", "token"}

VARIABLES
  deployed,  \* which of the Safe, the firewall with its module, and the
             \* demo token exist
  enabled,   \* the Safe's modules: is the current firewall's one enabled
  run        \* the script that runs, and the values it has read

scriptVars == <<vars, deployed, enabled, run>>

(* .destination, .rid and .nonce are variables of the scripts; .token says *)
(* that DEMO_TOKEN_ADDRESS is set, .input is what was typed into the panel,*)
(* .full that the run makes the payouts, or registers the demo vendor,     *)
(* where another one finds that done.                                      *)
(* History: .paid is what has reached the destination in this run.         *)
Runs ==
  [script : {"none", "safe", "v2", "configure", "demo", "panel", "live", "governance",
             "payouts"},
   at : {"start", "firewall", "module", "transfer", "register", "read", "open", "signal1",
         "signal2", "signal3", "reveal", "settle", "propose", "accept", "approve", "rotated",
         "schedule", "acceptRecovery", "early", "veto", "reschedule", "reaccept", "execute",
         "token", "payNative", "payToken", "pause", "blockedNative", "blockedToken",
         "unpause", "report", "reported"},
   nonce : Nonces \cup {0}, rid : RequestId \cup {NoRequest}, destination : WalletAddress,
   token : BOOLEAN, input : PanelInputs \cup {<<>>}, full : BOOLEAN,
   paid : SUBSET Assets]

NoRun ==
  [script |-> "none", at |-> "start", nonce |-> 0, rid |-> NoRequest, destination |-> Zero,
   token |-> FALSE, input |-> <<>>, full |-> FALSE, paid |-> {}]

ScriptsTypeOK ==
  /\ TypeOK
  /\ deployed \subseteq {"safe", "firewall", "token"}
  /\ enabled \in BOOLEAN
  /\ run \in Runs

ScriptsInit ==
  /\ Init
  /\ deployed = {}
  /\ enabled = FALSE
  /\ run = NoRun

-----------------------------------------------------------------------------
(* How a script proceeds.                                                  *)

At(script, step) == run.script = script /\ run.at = step
Goto(step) == run' = [run EXCEPT !.at = step]
Reads == UNCHANGED <<vars, deployed, enabled>>

Starts(first) == run = NoRun /\ run' = first /\ Reads

Reports == run.at = "report" /\ Reads /\ Goto("reported")

(* Done, or killed, refused by the network, or of an assertion of its own. *)
Ends == run # NoRun /\ run' = NoRun /\ Reads

AnyReceipt(success) == TRUE
(* The checks of a receipt's status; ethers' wait() throws by itself.      *)
Succeeded(success) == success

(* A transaction is sent and its receipt waited for.                       *)
Sends(transaction, next) ==
  /\ \E success \in BOOLEAN :
       /\ Succeeded(success)
       /\ IF success THEN transaction ELSE UNCHANGED <<vars, enabled>>
  /\ Goto(next)
  /\ UNCHANGED deployed

Direct(call) == call /\ UNCHANGED enabled

(* executeSafe: without safeTxGas the Safe's transaction reverts with its  *)
(* call, with it the outer transaction succeeds in either case.            *)
BySafe(call) == "safe" \in deployed /\ call /\ UNCHANGED enabled
Tolerated(call) == BySafe(call) \/ UNCHANGED <<vars, enabled>>

-----------------------------------------------------------------------------
(* deploy-safe.ts, deploy-v2.ts, configure-safe-v2.ts                      *)

DeploySafe ==
  \/ Starts([NoRun EXCEPT !.script = "safe",
                          !.at = IF "safe" \in deployed THEN "report" ELSE "start"])
  \/ /\ At("safe", "start")
     /\ deployed' = deployed \cup {"safe"}
     /\ Goto("report")
     /\ UNCHANGED <<vars, enabled>>
  \/ run.script = "safe" /\ Reports

(* A firewall of its own, whose deployer has named the Safe as next owner, *)
(* with a module that is not enabled.                                      *)
NewDeployment ==
  /\ vendors' = [v \in Vendors |-> NoVendor]
  /\ requests' = [id \in RequestId |-> Unopened]
  /\ signalSubmitted' = [id \in RequestId |-> {}]
  /\ handleUsedBy' = [h \in Handle |-> NoRequest]
  /\ rotations' = [v \in Vendors |-> NoRotation]
  /\ recoveries' = [v \in Vendors |-> NoRecovery]
  /\ owner' = Key
  /\ pendingOwner' = Safe
  /\ paused' = FALSE
  /\ signalLog' = {}
  /\ proposal' = [v \in Vendors |-> [voters |-> {}, since |-> 0]]
  /\ enabled' = FALSE
  /\ UNCHANGED now

(* Three transactions; what they made becomes the current deployment when  *)
(* the report has told the operator the addresses.                         *)
DeployV2 ==
  \/ "safe" \in deployed /\ Starts([NoRun EXCEPT !.script = "v2", !.at = "firewall"])
  \/ At("v2", "firewall") /\ Reads /\ Goto("module")
  \/ At("v2", "module") /\ Reads /\ Goto("transfer")
  \/ At("v2", "transfer") /\ Reads /\ Goto("report")
  \/ /\ At("v2", "report")
     /\ deployed' = deployed \cup {"firewall"}
     /\ NewDeployment
     /\ Goto("reported")

AcceptOnly == AcceptOwnership(Safe) /\ UNCHANGED enabled
(* One multi-send of the Safe: both calls or none.                         *)
AcceptAndEnable == AcceptOwnership(Safe) /\ ~enabled /\ enabled' = TRUE

ConfigureSafe ==
  \/ /\ "firewall" \in deployed
     /\ pendingOwner = Safe
     /\ Starts([NoRun EXCEPT !.script = "configure", !.at = "accept"])
  \/ At("configure", "accept") /\ Sends(AcceptAndEnable, "report")
  \/ owner = Safe /\ enabled /\ run.script = "configure" /\ Reports

-----------------------------------------------------------------------------
(* setup-demo-vendor-sepolia.ts; and the panel of a Safe owner in the      *)
(* console (registerVendorViaSafe).                                        *)

RegisterOnce(v, registration, next) ==
  IF Registered(v) THEN Reads /\ Goto(next) ELSE Sends(BySafe(registration), next)

DemoRegistration ==
  RegisterVendor(Safe, DemoVendor, DemoWallet, DemoSeats[1], DemoSeats[2], DemoSeats[3])

(* A vendor that exists is left as it is. *)
SetupDemoVendor ==
  \/ "firewall" \in deployed /\ Starts([NoRun EXCEPT !.script = "demo", !.at = "read"])
  \/ /\ At("demo", "read")
     /\ run' = [run EXCEPT !.at = "register", !.full = ~Registered(DemoVendor)]
     /\ Reads
  \/ /\ At("demo", "register")
     /\ IF run.full THEN Sends(BySafe(DemoRegistration), "report")
                    ELSE Reads /\ Goto("report")
  \/ run.script = "demo" /\ Reports

RegisterVendorViaSafe(input) ==
  BySafe(RegisterVendor(Safe, input[1], input[2], input[3], input[4], input[5]))

AdminPanel ==
  \/ /\ "firewall" \in deployed
     /\ \E input \in PanelInputs :
          Starts([NoRun EXCEPT !.script = "panel", !.at = "register", !.input = input])
  \/ /\ At("panel", "register")
     /\ Sends(RegisterVendorViaSafe(run.input), "report")
  \/ run.script = "panel" /\ Reports

-----------------------------------------------------------------------------
(* verify-live-v2.ts: three approvals move the vendor's wallet, to         *)
(* LiveWallet and, the next time, back.                                    *)

Destination == IF vendors[LiveVendor].payoutWallet = LiveWallet THEN Key ELSE LiveWallet

LiveReviewer ==
  [signal1 |-> Key, signal2 |-> TreasuryReviewer, signal3 |-> RiskReviewer]
OneSignalMore == [signal1 |-> "signal2", signal2 |-> "signal3", signal3 |-> "signal4"]
AfterSignal == [signal1 |-> "signal2", signal2 |-> "signal3", signal3 |-> "reveal"]

(* provider.encryptSignal(1n): the gateway mints a handle it gives nobody  *)
(* else; here they are numbered by use.                                    *)
EncryptedOne(reviewer) ==
  [owner |-> reviewer, value |-> 1,
   serial |-> 1 + Cardinality({h \in Handle : h.owner = reviewer /\ ~UnusedHandle(h)})]

SubmitOne(reviewer) ==
  /\ run.rid \in RequestId
  /\ EncryptedOne(reviewer) \in Handle
  /\ SubmitPrivateSignal(reviewer, run.rid, EncryptedOne(reviewer))

VerifyLive ==
  \/ /\ "firewall" \in deployed
     /\ \E nonce \in Nonces :
          Starts([NoRun EXCEPT !.script = "live", !.at = "register", !.nonce = nonce])
  \/ /\ At("live", "register")
     /\ RegisterOnce(LiveVendor, RegisterVendor(Safe, LiveVendor, Key, Key, TreasuryReviewer,
                                                RiskReviewer), "read")
  \/ /\ At("live", "read")
     /\ run' = [run EXCEPT !.at = "open", !.destination = Destination,
                           !.rid = DerivedRequestId(LiveVendor, Destination, Key, run.nonce)]
     /\ Reads
  \/ /\ At("live", "open")
     /\ Sends(Direct(OpenChangeRequest(Key, LiveVendor, run.destination, run.nonce)), "signal1")
  \/ \E step \in DOMAIN LiveReviewer :
       /\ At("live", step)
       /\ Sends(Direct(SubmitOne(LiveReviewer[step])), AfterSignal[step])
  \/ (* The verdict is public, and it approves; the signals are not public. *)
     /\ At("live", "reveal")
     /\ requests[run.rid].status \in {"Sealed", "Settled"}
     /\ requests[run.rid].verdict
     /\ Reads
     /\ Goto("settle")
  \/ At("live", "settle") /\ Sends(Direct(SettleApproval(run.rid)), "report")
  \/ /\ run.script = "live"
     /\ vendors[LiveVendor].payoutWallet = run.destination
     /\ Reports

-----------------------------------------------------------------------------
(* verify-live-governance-v2.ts                                            *)

ApproverIs(v, account) == vendors[v].approver = account

(* NORMAL_ROTATION_NOT_FINALIZED unless *)
RotationDone ==
  ApproverIs(LiveVendor, RotationCandidate) /\ vendors[LiveVendor].approverEpoch = 2

CertifyRotation ==
  \/ /\ "firewall" \in deployed
     /\ Starts([NoRun EXCEPT !.script = "governance",
                  !.at = IF ApproverIs(LiveVendor, Key) THEN "propose" ELSE "rotated"])
  \/ /\ At("governance", "propose")
     /\ Sends(BySafe(ProposeApproverRotation(Safe, LiveVendor, RotationCandidate)), "accept")
  \/ /\ At("governance", "accept")
     /\ Sends(Direct(AcceptApproverRotation(RotationCandidate, LiveVendor)), "approve")
  \/ /\ At("governance", "approve")
     /\ ApproverIs(LiveVendor, Key)
     /\ Sends(Direct(ApproveApproverRotation(Key, LiveVendor, RotationCandidate)), "rotated")
  \/ /\ At("governance", "rotated")
     /\ RotationDone
     /\ Reads
     /\ Goto("register")

(* Schedule, accept, try too early, veto; schedule and accept again; after *)
(* the delay, by a later run, execute.                                     *)
CertifyRecovery ==
  \/ /\ At("governance", "register")
     /\ RegisterOnce(RecoveryVendor, RegisterVendor(Safe, RecoveryVendor, RecoveryWallet, Key,
                                                    TreasuryReviewer, RiskReviewer), "schedule")
  \/ /\ At("governance", "schedule")
     /\ IF ApproverIs(RecoveryVendor, Key) /\ ~RecoveryPending(RecoveryVendor)
        THEN Sends(BySafe(ScheduleApproverRecovery(Safe, RecoveryVendor, RecoveryCandidate)),
                   "acceptRecovery")
        ELSE Reads /\ Goto("execute")
  \/ /\ At("governance", "acceptRecovery")
     /\ Sends(Direct(AcceptApproverRecovery(RecoveryCandidate, RecoveryVendor)), "early")
  \/ /\ At("governance", "early")
     /\ Sends(Tolerated(ExecuteApproverRecovery(Safe, RecoveryVendor)), "veto")
  \/ /\ At("governance", "veto")
     /\ recoveries[RecoveryVendor].newApprover = RecoveryCandidate
     /\ Sends(Direct(VetoApproverRecovery(Key, RecoveryVendor)), "reschedule")
  \/ /\ At("governance", "reschedule")
     /\ ~RecoveryPending(RecoveryVendor)
     /\ Sends(BySafe(ScheduleApproverRecovery(Safe, RecoveryVendor, RecoveryCandidate)),
              "reaccept")
  \/ /\ At("governance", "reaccept")
     /\ Sends(Direct(AcceptApproverRecovery(RecoveryCandidate, RecoveryVendor)), "execute")
  \/ /\ At("governance", "execute")
     /\ IF /\ ApproverIs(RecoveryVendor, Key)
           /\ RecoveryPending(RecoveryVendor)
           /\ RecoveryReady(RecoveryVendor)
        THEN Sends(BySafe(ExecuteApproverRecovery(Safe, RecoveryVendor)), "report")
        ELSE Reads /\ Goto("report")
  \/ run.script = "governance" /\ Reports

-----------------------------------------------------------------------------
(* verify-safe-payouts-v2.ts                                               *)

PayoutWallet == vendors[LiveVendor].payoutWallet

NeverResumes == FALSE
(* An interrupted run has left the firewall paused. *)
ResumesPause == paused

AnyBalance == TRUE
(* nativeAfter - nativeBefore, tokenAfter - tokenBefore: of the address    *)
(* that was the vendor's wallet when the script began.                     *)
BalanceGrew == PayoutWallet = run.destination

(* QeltrunSafePayoutModule pays whatever the vendor's wallet is by now.    *)
CertifyPayout(asset, next) ==
  /\ enabled
  /\ PayoutAllowed(LiveVendor, PayoutWallet)
  /\ BalanceGrew
  /\ run' = [run EXCEPT !.at = next,
                        !.paid = IF PayoutWallet = run.destination THEN @ \cup {asset} ELSE @]
  /\ Reads

StartPayouts ==
  /\ "firewall" \in deployed
  /\ \E token \in {FALSE, "token" \in deployed} :
       Starts([NoRun EXCEPT !.script = "payouts", !.token = token,
                 !.destination = PayoutWallet,
                 !.at = IF ResumesPause THEN "blockedNative"
                        ELSE IF token THEN "pause" ELSE "token"])

CertifyPayouts ==
  \/ /\ At("payouts", "token")
     /\ deployed' = deployed \cup {"token"}
     /\ run' = [run EXCEPT !.at = "payNative", !.token = TRUE, !.full = TRUE]
     /\ UNCHANGED <<vars, enabled>>
  \/ At("payouts", "payNative") /\ CertifyPayout("native", "payToken")
  \/ At("payouts", "payToken") /\ CertifyPayout("token", "pause")
  \/ At("payouts", "pause") /\ Sends(BySafe(Pause(Safe)), "blockedNative")

(* verifyBlockedPayouts: the module refuses, and had it not, the script    *)
(* would throw with the firewall still paused.                             *)
BlockedNative ==
  /\ At("payouts", "blockedNative")
  /\ run.full => paused
  /\ Reads
  /\ Goto(IF run.token THEN "blockedToken" ELSE "unpause")
BlockedToken == At("payouts", "blockedToken") /\ Reads /\ Goto("unpause")
LiftPause == At("payouts", "unpause") /\ Sends(BySafe(Unpause(Safe)), "report")
ReportPayouts == run.script = "payouts" /\ ~paused /\ Reports

-----------------------------------------------------------------------------
(* Anybody settles a request that a script has left sealed.                *)
SettledByOthers ==
  /\ \E id \in RequestId : SettleApproval(id)
  /\ UNCHANGED <<deployed, enabled, run>>

TimePasses == Tick /\ UNCHANGED <<deployed, enabled, run>>

ScriptsNext ==
  \/ DeploySafe
  \/ DeployV2
  \/ ConfigureSafe
  \/ SetupDemoVendor
  \/ AdminPanel
  \/ VerifyLive
  \/ CertifyRotation
  \/ CertifyRecovery
  \/ StartPayouts
  \/ CertifyPayouts
  \/ BlockedNative
  \/ BlockedToken
  \/ LiftPause
  \/ ReportPayouts
  \/ Ends
  \/ SettledByOthers
  \/ TimePasses

(* Every script ends.  The operator goes on starting the payout script,    *)
(* and no step of its resumption fails every time.                         *)
ScriptsFairness ==
  /\ WF_scriptVars(Ends)
  /\ SF_scriptVars(StartPayouts)
  /\ SF_scriptVars(BlockedNative)
  /\ SF_scriptVars(BlockedToken)
  /\ SF_scriptVars(LiftPause)

ScriptsSpec == ScriptsInit /\ [][ScriptsNext]_scriptVars
FairScriptsSpec == ScriptsSpec /\ ScriptsFairness

-----------------------------------------------------------------------------
(***************************************************************************)
(* What a script reports of what it has done and read back is so, whatever *)
(* other runs have left and whoever settled in the meantime:               *)
(* the Safe owns the firewall and has enabled its module; a vendor is      *)
(* registered as typed; the wallet moved by this run's request, with three *)
(* approvals; both payouts reached the wallet, and nothing is left paused; *)
(* the rotation had the consent of both, and a recovery that of the        *)
(* candidate and its delay.                                                *)
(* Two things that are printed without looking are not claimed, because    *)
(* they can be false: the wallet and the reviewers of a demo vendor whose  *)
(* registration was skipped (setup-demo-vendor-sepolia.ts:94-95, 119-120), *)
(* and that a candidate whom the registration itself has seated, in the    *)
(* first epoch, was recovered (verify-live-governance-v2.ts:227).          *)
(***************************************************************************)
Claim ==
  CASE run.script = "safe" -> "safe" \in deployed
    [] run.script = "v2" -> pendingOwner = Safe /\ ~enabled
    [] run.script = "configure" -> owner = Safe /\ enabled
    [] run.script = "demo" ->
         /\ Registered(DemoVendor)
         /\ run.full => /\ vendors[DemoVendor].payoutWallet = DemoWallet
                        /\ Seats(vendors[DemoVendor]) =
                             {DemoSeats[1], DemoSeats[2], DemoSeats[3]}
    [] run.script = "panel" ->
         LET v == run.input[1]
         IN Registered(v) /\ vendors[v].payoutWallet = run.input[2]
              /\ Seats(vendors[v]) = {run.input[3], run.input[4], run.input[5]}
    [] run.script = "live" ->
         /\ requests[run.rid].approved
         /\ {Key, TreasuryReviewer, RiskReviewer} \subseteq signalSubmitted[run.rid]
         /\ vendors[LiveVendor].payoutWallet = run.rid.proposedWallet
    [] run.script = "governance" ->
         /\ {Key, RotationCandidate} \subseteq proposal[LiveVendor].voters
         /\ ~RotationPending(LiveVendor)
         /\ /\ ApproverIs(RecoveryVendor, RecoveryCandidate)
            /\ vendors[RecoveryVendor].approverEpoch > 1
            => /\ RecoveryCandidate \in proposal[RecoveryVendor].voters
               /\ now >= proposal[RecoveryVendor].since + RecoveryDelay
    [] run.script = "payouts" -> ~paused /\ (run.full => run.paid = Assets)
    [] OTHER -> TRUE

ReportedIsTrue ==
  [][run.at = "report" /\ run'.at = "reported" => Claim']_scriptVars

(***************************************************************************)
(* The Safe has the firewall if and only if it has enabled its module      *)
(* (configure-safe-v2.ts:57-74), and until then it is the next owner:      *)
(* whichever script died, configure-safe-v2 can still be run.              *)
(***************************************************************************)
OwnedAsAWhole ==
  "firewall" \in deployed =>
    IF enabled THEN owner = Safe ELSE owner = Key /\ pendingOwner = Safe

(***************************************************************************)
(* The payouts that are reported as blocked by the pause                   *)
(* (verify-safe-payouts-v2.ts:90-119) are tried while it lasts; when the   *)
(* token's address is given, nothing but the receipt says that it does.    *)
(***************************************************************************)
BlockedMeansPaused ==
  run.script = "payouts" /\ run.at \in {"blockedNative", "blockedToken", "unpause"} => paused

(***************************************************************************)
(* A pause that an interrupted run has left is lifted by a later run       *)
(* (verify-safe-payouts-v2.ts:121-147), wherever it was interrupted, as    *)
(* may be the later run.                                                   *)
(***************************************************************************)
PauseIsLifted == paused ~> ~paused
=============================================================================
