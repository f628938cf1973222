------------------------ MODULE TreasuryScriptsProofs ------------------------
(***************************************************************************)
(* For every value of the constants: the treasury owns the firewall        *)
(* together with the enabled module or can still be made to, blocked       *)
(* payouts are only tried while the firewall is paused, and what a script  *)
(* reports is so.                                                          *)
(*                                                                         *)
(* The last rests on two things, kept by every step of every script and by *)
(* whoever settles in the meantime: what is on chain (ChainInv, with the   *)
(* contract's own invariant, whichever of its deployments is current) and  *)
(* what a script knows at each of its places (RunInv).                     *)
(***************************************************************************)
EXTENDS TreasuryScripts, FirewallV2Proofs

USE DEF RequiredSignals, Epoch, Time, Address, WalletAddress

Fields == {"script", "at", "nonce", "rid", "destination", "token", "input", "full", "paid"}

(* The script that runs is a record, whatever it has read. *)
RunIsRecord == DOMAIN run = Fields /\ run = [f \in Fields |-> run[f]]

(* A pause is the work of the payout script, for an owner that exists.     *)
PauseIsLiftable ==
  /\ run.script = "payouts" => "firewall" \in deployed
  /\ paused => owner = Safe /\ {"safe", "firewall"} \subseteq deployed

TreasuryInv == RunIsRecord /\ OwnedAsAWhole /\ BlockedMeansPaused /\ PauseIsLiftable

Testing == {"blockedNative", "blockedToken", "unpause"}

(* A step that leaves ownership, the pause and the module alone. *)
Quiet == UNCHANGED <<owner, pendingOwner, paused, enabled>>

LEMMA RequestsKeepAdmin ==
  ASSUME NEW sender, NEW v, NEW w, NEW n, NEW id, NEW h,
         \/ OpenChangeRequest(sender, v, w, n)
         \/ SubmitPrivateSignal(sender, id, h)
         \/ SettleApproval(id)
  PROVE  UNCHANGED <<owner, pendingOwner, paused>>
<1>1. CASE OpenChangeRequest(sender, v, w, n)
  BY <1>1 DEF OpenChangeRequest, adminVars
<1>2. CASE SubmitPrivateSignal(sender, id, h)
  BY <1>2 DEF SubmitPrivateSignal, adminVars
<1>3. CASE SettleApproval(id)
  BY <1>3 DEF SettleApproval, adminVars
<1>4. QED
  BY <1>1, <1>2, <1>3

LEMMA RegistrationKeepsAdmin ==
  ASSUME NEW sender, NEW v, NEW w, NEW a, NEW t, NEW r, RegisterVendor(sender, v, w, a, t, r)
  PROVE  UNCHANGED <<owner, pendingOwner, paused>>
BY DEF RegisterVendor, adminVars

LEMMA GovernanceKeepsAdmin ==
  ASSUME NEW sender, NEW v, NEW c,
         \/ ProposeApproverRotation(sender, v, c)
         \/ AcceptApproverRotation(sender, v)
         \/ ApproveApproverRotation(sender, v, c)
         \/ ScheduleApproverRecovery(sender, v, c)
         \/ AcceptApproverRecovery(sender, v)
         \/ VetoApproverRecovery(sender, v)
         \/ ExecuteApproverRecovery(sender, v)
  PROVE  UNCHANGED <<owner, pendingOwner, paused>>
BY DEF ProposeApproverRotation, AcceptApproverRotation, ApproveApproverRotation,
       ScheduleApproverRecovery, AcceptApproverRecovery, VetoApproverRecovery, DropRecovery,
       ExecuteApproverRecovery, adminVars

(* A quiet step of a script other than the payouts' one, or of nobody's. *)
LEMMA QuietStep ==
  ASSUME TreasuryInv, Quiet, UNCHANGED deployed, RunIsRecord',
         run'.script = "payouts" => "firewall" \in deployed,
         run'.script = "payouts" /\ run'.at \in Testing => paused
  PROVE  TreasuryInv'
BY DEF TreasuryInv, Quiet, OwnedAsAWhole, BlockedMeansPaused, PauseIsLiftable, Testing

LEMMA StepOfRecord ==
  ASSUME RunIsRecord, NEW step, run' = [run EXCEPT !.at = step]
  PROVE  RunIsRecord' /\ run'.script = run.script /\ run'.at = step
BY DEF RunIsRecord, Fields

LEMMA NoRunIsRecord ==
  /\ DOMAIN NoRun = Fields
  /\ NoRun = [f \in Fields |-> NoRun[f]]
  /\ NoRun.script = "none"
BY DEF NoRun, Fields

LEMMA TreasuryInitially == ScriptsInit => TreasuryInv
BY NoRunIsRecord DEF ScriptsInit, Init, TreasuryInv, RunIsRecord, OwnedAsAWhole,
                     BlockedMeansPaused, PauseIsLiftable

(* A quiet step to a place of the script that runs, or the first of one.   *)
LEMMA QuietGoto ==
  ASSUME TreasuryInv, Quiet, UNCHANGED deployed, NEW step, Goto(step),
         run.script # "payouts"
  PROVE  TreasuryInv'
<1>1. RunIsRecord' /\ run'.script = run.script
  BY StepOfRecord DEF Goto, TreasuryInv
<1>2. QED
  BY <1>1, QuietStep

LEMMA QuietStart ==
  ASSUME TreasuryInv, NEW first, Starts(first),
         DOMAIN first = Fields, first = [f \in Fields |-> first[f]],
         first.script = "payouts" => "firewall" \in deployed,
         first.script = "payouts" /\ first.at \in Testing => paused
  PROVE  TreasuryInv'
<1>1. Quiet /\ UNCHANGED deployed
  BY DEF Starts, Reads, Quiet, vars, adminVars
<1>2. run' = first
  BY DEF Starts
<1>3. RunIsRecord'
  BY <1>2 DEF RunIsRecord
<1>4. QED
  BY <1>1, <1>2, <1>3, QuietStep

LEMMA ReadingIsQuiet == ASSUME Reads PROVE Quiet /\ UNCHANGED deployed
BY DEF Reads, Quiet, vars, adminVars

LEMMA ReportIsQuiet ==
  ASSUME TreasuryInv, Reports
  PROVE  TreasuryInv'
<1>1. Quiet /\ UNCHANGED deployed
  BY ReadingIsQuiet DEF Reports
<1>2. RunIsRecord' /\ run'.script = run.script /\ run'.at = "reported"
  BY StepOfRecord DEF Reports, Goto, TreasuryInv
<1>3. QED
  BY <1>1, <1>2, QuietStep DEF Testing, TreasuryInv, PauseIsLiftable

LEMMA SafeDeployment ==
  ASSUME TreasuryInv, DeploySafe
  PROVE  TreasuryInv'
<1>1. CASE Starts([NoRun EXCEPT !.script = "safe",
                          !.at = IF "safe" \in deployed THEN "report" ELSE "start"])
  <2> DEFINE first == [NoRun EXCEPT !.script = "safe",
                          !.at = IF "safe" \in deployed THEN "report" ELSE "start"]
  <2>1. DOMAIN first = Fields /\ first = [f \in Fields |-> first[f]] /\ first.script = "safe"
    BY NoRunIsRecord DEF Fields
  <2>2. QED
    BY <1>1, <2>1, QuietStart
<1>2. CASE /\ At("safe", "start")
           /\ deployed' = deployed \cup {"safe"}
           /\ Goto("report")
           /\ UNCHANGED <<vars, enabled>>
  <2>1. RunIsRecord' /\ run'.script = "safe"
    BY <1>2, StepOfRecord DEF At, Goto, TreasuryInv
  <2>2. UNCHANGED <<owner, pendingOwner, paused, enabled>>
    BY <1>2 DEF vars, adminVars
  <2>3. QED
    BY <1>2, <2>1, <2>2 DEF TreasuryInv, OwnedAsAWhole, BlockedMeansPaused, PauseIsLiftable
<1>3. CASE run.script = "safe" /\ Reports
  BY <1>3, ReportIsQuiet
<1>4. QED
  BY <1>1, <1>2, <1>3 DEF DeploySafe

LEMMA FirewallDeployment ==
  ASSUME TreasuryInv, DeployV2
  PROVE  TreasuryInv'
<1>1. CASE Starts([NoRun EXCEPT !.script = "v2", !.at = "firewall"])
  <2> DEFINE first == [NoRun EXCEPT !.script = "v2", !.at = "firewall"]
  <2>1. DOMAIN first = Fields /\ first = [f \in Fields |-> first[f]] /\ first.script = "v2"
    BY NoRunIsRecord DEF Fields
  <2>2. QED
    BY <1>1, <2>1, QuietStart
<1>2. ASSUME NEW step, run.script = "v2", Reads, Goto(step)
      PROVE  TreasuryInv'
  BY <1>2, ReadingIsQuiet, QuietGoto
<1>3. CASE /\ At("v2", "report")
           /\ deployed' = deployed \cup {"firewall"}
           /\ NewDeployment
           /\ Goto("reported")
  <2>1. RunIsRecord' /\ run'.script = "v2"
    BY <1>3, StepOfRecord DEF At, Goto, TreasuryInv
  <2>2. owner' = Key /\ pendingOwner' = Safe /\ enabled' = FALSE /\ paused' = FALSE
    BY <1>3 DEF NewDeployment
  <2>3. QED
    BY <2>1, <2>2 DEF TreasuryInv, OwnedAsAWhole, BlockedMeansPaused, PauseIsLiftable
<1>4. QED
  BY <1>1, <1>2, <1>3 DEF DeployV2, At

LEMMA Configuration ==
  ASSUME TreasuryInv, ConfigureSafe
  PROVE  TreasuryInv'
<1>1. CASE Starts([NoRun EXCEPT !.script = "configure", !.at = "accept"])
  <2> DEFINE first == [NoRun EXCEPT !.script = "configure", !.at = "accept"]
  <2>1. DOMAIN first = Fields /\ first = [f \in Fields |-> first[f]]
          /\ first.script = "configure"
    BY NoRunIsRecord DEF Fields
  <2>2. QED
    BY <1>1, <2>1, QuietStart
<1>2. CASE At("configure", "accept") /\ Sends(AcceptAndEnable, "report")
  <2>1. owner' = Safe /\ enabled' = TRUE /\ UNCHANGED <<deployed, paused>>
    BY <1>2 DEF Sends, Succeeded, AcceptAndEnable, AcceptOwnership
  <2>2. RunIsRecord' /\ run'.script = "configure"
    BY <1>2, StepOfRecord DEF Sends, At, Goto, TreasuryInv
  <2>3. QED
    BY <2>1, <2>2 DEF TreasuryInv, OwnedAsAWhole, BlockedMeansPaused, PauseIsLiftable
<1>3. CASE run.script = "configure" /\ Reports
  BY <1>3, ReportIsQuiet
<1>4. QED
  BY <1>1, <1>2, <1>3 DEF ConfigureSafe

LEMMA Registrations ==
  ASSUME TreasuryInv, NEW v, NEW w, NEW a, NEW t, NEW r, NEW next, run.script # "payouts",
         \/ RegisterOnce(v, RegisterVendor(Safe, v, w, a, t, r), next)
         \/ Sends(BySafe(RegisterVendor(Safe, v, w, a, t, r)), next)
  PROVE  TreasuryInv'
<1>1. CASE Sends(BySafe(RegisterVendor(Safe, v, w, a, t, r)), next)
  <2>1. RegisterVendor(Safe, v, w, a, t, r) /\ UNCHANGED <<enabled, deployed>> /\ Goto(next)
    BY <1>1 DEF Sends, Succeeded, BySafe
  <2>2. Quiet /\ UNCHANGED deployed
    BY <2>1, RegistrationKeepsAdmin DEF Quiet
  <2>3. QED
    BY <2>1, <2>2, QuietGoto
<1>2. CASE Reads /\ Goto(next)
  BY <1>2, ReadingIsQuiet, QuietGoto
<1>3. QED
  BY <1>1, <1>2 DEF RegisterOnce

(* The first record of a script that begins at a place where nothing is    *)
(* blocked.                                                                *)
LEMMA FirstOf ==
  ASSUME TreasuryInv, NEW first, Starts(first),
         DOMAIN first = Fields, first = [f \in Fields |-> first[f]],
         first.script # "payouts"
  PROVE  TreasuryInv'
BY QuietStart

LEMMA Panel ==
  ASSUME TreasuryInv, SetupDemoVendor \/ AdminPanel
  PROVE  TreasuryInv'
<1>1. CASE Starts([NoRun EXCEPT !.script = "demo", !.at = "read"])
  <2> DEFINE first == [NoRun EXCEPT !.script = "demo", !.at = "read"]
  <2>1. DOMAIN first = Fields /\ first = [f \in Fields |-> first[f]] /\ first.script = "demo"
    BY NoRunIsRecord DEF Fields
  <2>2. QED
    BY <1>1, <2>1, FirstOf
<1>2. CASE /\ At("demo", "register")
           /\ IF run.full THEN Sends(BySafe(DemoRegistration), "report")
                          ELSE Reads /\ Goto("report")
  BY <1>2, Registrations, ReadingIsQuiet, QuietGoto DEF At, DemoRegistration
<1>3. ASSUME NEW input, Starts([NoRun EXCEPT !.script = "panel", !.at = "register",
                                              !.input = input])
      PROVE  TreasuryInv'
  <2> DEFINE first == [NoRun EXCEPT !.script = "panel", !.at = "register", !.input = input]
  <2>1. DOMAIN first = Fields /\ first = [f \in Fields |-> first[f]] /\ first.script = "panel"
    BY NoRunIsRecord DEF Fields
  <2>2. QED
    BY <1>3, <2>1, FirstOf
<1>4. CASE At("panel", "register") /\ Sends(RegisterVendorViaSafe(run.input), "report")
  BY <1>4, Registrations DEF At, RegisterVendorViaSafe
<1>5. CASE run.script \in {"demo", "panel"} /\ Reports
  BY <1>5, ReportIsQuiet
<1>6. CASE /\ At("demo", "read")
           /\ run' = [run EXCEPT !.at = "register", !.full = ~Registered(DemoVendor)]
           /\ Reads
  <2>1. RunIsRecord' /\ run'.script = "demo"
    BY <1>6 DEF TreasuryInv, RunIsRecord, Fields, At
  <2>2. QED
    BY <1>6, <2>1, ReadingIsQuiet, QuietStep
<1>7. QED
  BY <1>1, <1>2, <1>3, <1>4, <1>5, <1>6 DEF SetupDemoVendor, AdminPanel

(* Transactions of the reviewers and candidates, and those about requests  *)
(* and approvers that the Safe makes.                                      *)
LEMMA OrdinaryTransaction ==
  ASSUME TreasuryInv, NEW next, Goto(next), run.script # "payouts",
         UNCHANGED <<enabled, deployed>>, UNCHANGED <<owner, pendingOwner, paused>>
  PROVE  TreasuryInv'
BY QuietGoto DEF Quiet

LEMMA LiveVerification ==
  ASSUME TreasuryInv, VerifyLive
  PROVE  TreasuryInv'
<1>1. ASSUME NEW nonce, Starts([NoRun EXCEPT !.script = "live", !.at = "register",
                                              !.nonce = nonce])
      PROVE  TreasuryInv'
  <2> DEFINE first == [NoRun EXCEPT !.script = "live", !.at = "register", !.nonce = nonce]
  <2>1. DOMAIN first = Fields /\ first = [f \in Fields |-> first[f]] /\ first.script = "live"
    BY NoRunIsRecord DEF Fields
  <2>2. QED
    BY <1>1, <2>1, FirstOf
<1>2. CASE /\ At("live", "register")
           /\ RegisterOnce(LiveVendor, RegisterVendor(Safe, LiveVendor, Key, Key,
                TreasuryReviewer, RiskReviewer), "read")
  BY <1>2, Registrations DEF At
<1>3. CASE /\ At("live", "read")
           /\ run' = [run EXCEPT !.at = "open", !.destination = Destination,
                !.rid = DerivedRequestId(LiveVendor, Destination, Key, run.nonce)]
           /\ Reads
  <2>1. RunIsRecord' /\ run'.script = "live"
    BY <1>3 DEF TreasuryInv, RunIsRecord, Fields, At
  <2>2. QED
    BY <1>3, <2>1, ReadingIsQuiet, QuietStep
<1>4. CASE /\ At("live", "open")
           /\ Sends(Direct(OpenChangeRequest(Key, LiveVendor, run.destination, run.nonce)),
                    "signal1")
  <2>1. /\ OpenChangeRequest(Key, LiveVendor, run.destination, run.nonce)
        /\ UNCHANGED <<enabled, deployed>> /\ Goto("signal1")
    BY <1>4 DEF Sends, Succeeded, Direct
  <2>2. QED
    BY <1>4, <2>1, RequestsKeepAdmin, OrdinaryTransaction DEF At
<1>5. ASSUME NEW step, At("live", step),
             Sends(Direct(SubmitOne(LiveReviewer[step])), AfterSignal[step])
      PROVE  TreasuryInv'
  <2>1. /\ SubmitOne(LiveReviewer[step])
        /\ UNCHANGED <<enabled, deployed>> /\ Goto(AfterSignal[step])
    BY <1>5 DEF Sends, Succeeded, Direct
  <2>2. UNCHANGED <<owner, pendingOwner, paused>>
    BY <2>1, RequestsKeepAdmin DEF SubmitOne
  <2>3. QED
    BY <1>5, <2>1, <2>2, OrdinaryTransaction DEF At
<1>6. CASE At("live", "reveal") /\ Reads /\ Goto("settle")
  BY <1>6, ReadingIsQuiet, QuietGoto DEF At
<1>7. CASE At("live", "settle") /\ Sends(Direct(SettleApproval(run.rid)), "report")
  <2>1. SettleApproval(run.rid) /\ UNCHANGED <<enabled, deployed>> /\ Goto("report")
    BY <1>7 DEF Sends, Succeeded, Direct
  <2>2. QED
    BY <1>7, <2>1, RequestsKeepAdmin, OrdinaryTransaction DEF At
<1>8. CASE run.script = "live" /\ Reports
  BY <1>8, ReportIsQuiet
<1>9. QED
  BY <1>1, <1>2, <1>3, <1>4, <1>5, <1>6, <1>7, <1>8 DEF VerifyLive

(* A transaction of the governance script.                                 *)
LEMMA GovernanceTransaction ==
  ASSUME TreasuryInv, NEW sender, NEW v, NEW c, NEW next, run.script # "payouts", Goto(next),
         UNCHANGED <<enabled, deployed>>,
         \/ ProposeApproverRotation(sender, v, c)
         \/ AcceptApproverRotation(sender, v)
         \/ ApproveApproverRotation(sender, v, c)
         \/ ScheduleApproverRecovery(sender, v, c)
         \/ AcceptApproverRecovery(sender, v)
         \/ VetoApproverRecovery(sender, v)
         \/ ExecuteApproverRecovery(sender, v)
  PROVE  TreasuryInv'
BY GovernanceKeepsAdmin, OrdinaryTransaction

LEMMA RotationCertification ==
  ASSUME TreasuryInv, CertifyRotation
  PROVE  TreasuryInv'
<1>1. CASE Starts([NoRun EXCEPT !.script = "governance",
                     !.at = IF ApproverIs(LiveVendor, Key) THEN "propose" ELSE "rotated"])
  <2> DEFINE first == [NoRun EXCEPT !.script = "governance",
                         !.at = IF ApproverIs(LiveVendor, Key) THEN "propose" ELSE "rotated"]
  <2>1. DOMAIN first = Fields /\ first = [f \in Fields |-> first[f]]
          /\ first.script = "governance"
    BY NoRunIsRecord DEF Fields
  <2>2. QED
    BY <1>1, <2>1, FirstOf
<1>2. CASE /\ At("governance", "propose")
           /\ Sends(BySafe(ProposeApproverRotation(Safe, LiveVendor, RotationCandidate)),
                    "accept")
  BY <1>2, GovernanceTransaction DEF At, Sends, Succeeded, BySafe
<1>3. CASE /\ At("governance", "accept")
           /\ Sends(Direct(AcceptApproverRotation(RotationCandidate, LiveVendor)), "approve")
  BY <1>3, GovernanceTransaction DEF At, Sends, Succeeded, Direct
<1>4. CASE /\ At("governance", "approve")
           /\ Sends(Direct(ApproveApproverRotation(Key, LiveVendor, RotationCandidate)),
                    "rotated")
  BY <1>4, GovernanceTransaction DEF At, Sends, Succeeded, Direct
<1>5. CASE At("governance", "rotated") /\ Reads /\ Goto("register")
  BY <1>5, ReadingIsQuiet, QuietGoto DEF At
<1>6. QED
  BY <1>1, <1>2, <1>3, <1>4, <1>5 DEF CertifyRotation

LEMMA RecoveryCertification ==
  ASSUME TreasuryInv, CertifyRecovery
  PROVE  TreasuryInv'
<1> DEFINE Scheduling(next) ==
      Sends(BySafe(ScheduleApproverRecovery(Safe, RecoveryVendor, RecoveryCandidate)), next)
           Accepting(next) ==
      Sends(Direct(AcceptApproverRecovery(RecoveryCandidate, RecoveryVendor)), next)
<1>1. CASE /\ At("governance", "register")
           /\ RegisterOnce(RecoveryVendor, RegisterVendor(Safe, RecoveryVendor, RecoveryWallet,
                Key, TreasuryReviewer, RiskReviewer), "schedule")
  BY <1>1, Registrations DEF At
<1>2. ASSUME NEW next, run.script = "governance", Scheduling(next)
      PROVE  TreasuryInv'
  BY <1>2, GovernanceTransaction DEF Sends, Succeeded, BySafe
<1>3. ASSUME NEW next, run.script = "governance", Accepting(next)
      PROVE  TreasuryInv'
  BY <1>3, GovernanceTransaction DEF Sends, Succeeded, Direct
<1>4. CASE /\ At("governance", "early")
           /\ Sends(Tolerated(ExecuteApproverRecovery(Safe, RecoveryVendor)), "veto")
  <2>1. Goto("veto") /\ UNCHANGED <<enabled, deployed>>
    BY <1>4 DEF Sends, Succeeded, Tolerated, BySafe
  <2>2. CASE ExecuteApproverRecovery(Safe, RecoveryVendor)
    BY <1>4, <2>1, <2>2, GovernanceTransaction DEF At
  <2>3. CASE UNCHANGED vars
    BY <1>4, <2>1, <2>3, OrdinaryTransaction DEF At, vars, adminVars
  <2>4. QED
    BY <1>4, <2>2, <2>3 DEF Sends, Succeeded, Tolerated, BySafe
<1>5. CASE /\ At("governance", "veto")
           /\ Sends(Direct(VetoApproverRecovery(Key, RecoveryVendor)), "reschedule")
  BY <1>5, GovernanceTransaction DEF At, Sends, Succeeded, Direct
<1>6. CASE /\ At("governance", "execute")
           /\ Sends(BySafe(ExecuteApproverRecovery(Safe, RecoveryVendor)), "report")
  BY <1>6, GovernanceTransaction DEF At, Sends, Succeeded, BySafe
<1>7. ASSUME NEW next, run.script = "governance", Reads, Goto(next)
      PROVE  TreasuryInv'
  BY <1>7, ReadingIsQuiet, QuietGoto
<1>8. CASE run.script = "governance" /\ Reports
  BY <1>8, ReportIsQuiet
<1>9. QED
  BY <1>1, <1>2, <1>3, <1>4, <1>5, <1>6, <1>7, <1>8 DEF CertifyRecovery, At

(* The steps of the payout script up to the pause.                         *)
LEMMA PayoutsUnderWay ==
  ASSUME TreasuryInv, StartPayouts \/ CertifyPayouts
  PROVE  TreasuryInv'
<1>1. ASSUME NEW token,
             Starts([NoRun EXCEPT !.script = "payouts", !.token = token,
                       !.destination = PayoutWallet,
                       !.at = IF ResumesPause THEN "blockedNative"
                              ELSE IF token THEN "pause" ELSE "token"]),
             "firewall" \in deployed
      PROVE  TreasuryInv'
  <2> DEFINE first == [NoRun EXCEPT !.script = "payouts", !.token = token,
                         !.destination = PayoutWallet,
                         !.at = IF ResumesPause THEN "blockedNative"
                                ELSE IF token THEN "pause" ELSE "token"]
  <2>1. DOMAIN first = Fields /\ first = [f \in Fields |-> first[f]]
    BY NoRunIsRecord DEF Fields
  <2>2. first.at \in Testing => paused
    BY NoRunIsRecord DEF Fields, Testing, ResumesPause
  <2>3. QED
    BY <1>1, <2>1, <2>2, QuietStart
<1>2. CASE /\ At("payouts", "token")
           /\ deployed' = deployed \cup {"token"}
           /\ run' = [run EXCEPT !.at = "payNative", !.token = TRUE, !.full = TRUE]
           /\ UNCHANGED <<vars, enabled>>
  <2>1. RunIsRecord' /\ run'.at = "payNative" /\ run'.script = run.script
    BY <1>2 DEF TreasuryInv, RunIsRecord, Fields
  <2>2. UNCHANGED <<owner, pendingOwner, paused, enabled>>
    BY <1>2 DEF vars, adminVars
  <2>3. QED
    BY <1>2, <2>1, <2>2 DEF TreasuryInv, OwnedAsAWhole, BlockedMeansPaused, PauseIsLiftable
<1>3. ASSUME NEW asset, NEW next, next \notin Testing, CertifyPayout(asset, next)
      PROVE  TreasuryInv'
  <2>1. RunIsRecord' /\ run'.at = next /\ run'.script = run.script
    BY <1>3 DEF CertifyPayout, TreasuryInv, RunIsRecord, Fields
  <2>2. run.script = "payouts" => "firewall" \in deployed
    BY DEF TreasuryInv, PauseIsLiftable
  <2>3. QED
    BY <1>3, <2>1, <2>2, ReadingIsQuiet, QuietStep DEF CertifyPayout
<1>4. CASE At("payouts", "pause") /\ Sends(BySafe(Pause(Safe)), "blockedNative")
  <2>1. /\ Pause(Safe) /\ UNCHANGED <<enabled, deployed>> /\ Goto("blockedNative")
        /\ "safe" \in deployed /\ run.script = "payouts"
    BY <1>4 DEF Sends, Succeeded, BySafe, At
  <2>2. paused' = TRUE /\ UNCHANGED <<owner, pendingOwner>> /\ owner = Safe
    BY <2>1 DEF Pause, OnlyOwner
  <2>3. RunIsRecord'
    BY <2>1, StepOfRecord DEF Goto, TreasuryInv
  <2>4. QED
    BY <2>1, <2>2, <2>3 DEF TreasuryInv, OwnedAsAWhole, BlockedMeansPaused, PauseIsLiftable
<1>5. QED
  BY <1>1, <1>2, <1>3, <1>4 DEF StartPayouts, CertifyPayouts, Testing

(* What is tried while the firewall is paused, and the end of the pause.   *)
LEMMA PayoutsBlocked ==
  ASSUME TreasuryInv, BlockedNative \/ BlockedToken \/ LiftPause \/ ReportPayouts
  PROVE  TreasuryInv'
<1>1. ASSUME NEW next, run.script = "payouts", run.at \in Testing, Reads, Goto(next)
      PROVE  TreasuryInv'
  <2>1. RunIsRecord'
    BY <1>1, StepOfRecord DEF Goto, TreasuryInv
  <2>2. paused /\ "firewall" \in deployed
    BY <1>1 DEF TreasuryInv, BlockedMeansPaused, PauseIsLiftable, Testing
  <2>3. QED
    BY <1>1, <2>1, <2>2, ReadingIsQuiet, QuietStep
<1>2. CASE BlockedNative \/ BlockedToken
  BY <1>1, <1>2 DEF BlockedNative, BlockedToken, At, Testing
<1>3. CASE LiftPause
  <2>1. Unpause(Safe) /\ UNCHANGED <<enabled, deployed>> /\ Goto("report")
    BY <1>3 DEF LiftPause, Sends, Succeeded, BySafe
  <2>2. UNCHANGED <<owner, pendingOwner>> /\ paused' = FALSE
    BY <2>1 DEF Unpause
  <2>3. RunIsRecord' /\ run'.at = "report" /\ run'.script = run.script
    BY <2>1, StepOfRecord DEF Goto, TreasuryInv
  <2>4. QED
    BY <2>1, <2>2, <2>3 DEF TreasuryInv, OwnedAsAWhole, BlockedMeansPaused, PauseIsLiftable
<1>4. CASE ReportPayouts
  BY <1>4, ReportIsQuiet DEF ReportPayouts
<1>5. QED
  BY <1>2, <1>3, <1>4

(* The end of a script, and what happens whether or not one runs.          *)
LEMMA Surroundings ==
  ASSUME TreasuryInv, Ends \/ SettledByOthers \/ TimePasses
  PROVE  TreasuryInv'
<1>1. CASE Ends
  <2>1. RunIsRecord' /\ run'.script = "none"
    BY <1>1, NoRunIsRecord DEF Ends, RunIsRecord
  <2>2. QED
    BY <1>1, <2>1, ReadingIsQuiet, QuietStep DEF Ends
<1>2. CASE SettledByOthers
  <2>1. Quiet /\ UNCHANGED <<deployed, run>>
    BY <1>2, RequestsKeepAdmin DEF SettledByOthers, Quiet
  <2>2. QED
    BY <2>1 DEF Quiet, TreasuryInv, RunIsRecord, OwnedAsAWhole, BlockedMeansPaused,
                PauseIsLiftable
<1>3. CASE TimePasses
  <2>1. Quiet /\ UNCHANGED <<deployed, run>>
    BY <1>3 DEF TimePasses, Tick, Quiet, adminVars
  <2>2. QED
    BY <2>1 DEF Quiet, TreasuryInv, RunIsRecord, OwnedAsAWhole, BlockedMeansPaused,
                PauseIsLiftable
<1>4. QED
  BY <1>1, <1>2, <1>3

LEMMA TreasuryStep ==
  ASSUME TreasuryInv, [ScriptsNext]_scriptVars
  PROVE  TreasuryInv'
<1>1. CASE ScriptsNext
  BY <1>1, SafeDeployment, FirewallDeployment, Configuration, Panel, LiveVerification,
     RotationCertification, RecoveryCertification, PayoutsUnderWay, PayoutsBlocked,
     Surroundings
     DEF ScriptsNext
<1>2. CASE UNCHANGED scriptVars
  BY <1>2 DEF scriptVars, vars, adminVars, TreasuryInv, RunIsRecord, OwnedAsAWhole,
              BlockedMeansPaused, PauseIsLiftable
<1>3. QED
  BY <1>1, <1>2

(***************************************************************************)
(* Wherever the scripts die and in whichever order they are run again, the *)
(* Safe has the firewall together with its module, or can still accept it  *)
(* (configure-safe-v2.ts), and blocked payouts are tried only under the    *)
(* pause (verify-safe-payouts-v2.ts).                                      *)
(***************************************************************************)
THEOREM TreasuryIsWhole == ScriptsSpec => [](OwnedAsAWhole /\ BlockedMeansPaused)
<1>1. TreasuryInv => OwnedAsAWhole /\ BlockedMeansPaused
  BY DEF TreasuryInv
<1>2. QED
  BY <1>1, TreasuryInitially, TreasuryStep, PTL DEF ScriptsSpec
(***************************************************************************)
(* What is reported as blocked by the pause was tried under it             *)
(* (verify-safe-payouts-v2.ts:90-119), also in a run that resumes another. *)
(***************************************************************************)
THEOREM BlockedUnderPause == ScriptsSpec => []BlockedMeansPaused
BY TreasuryIsWhole, PTL

(***************************************************************************)
(* Wherever a payout script died in the pause, the owner that can lift it  *)
(* is the Safe, which exists and through which the next run unpauses       *)
(* (verify-safe-payouts-v2.ts:121-147): no script of the repository can    *)
(* reach a pause that is for good.                                         *)
(***************************************************************************)
THEOREM PauseStaysLiftable ==
  ScriptsSpec => [](paused => owner = Safe /\ {"safe", "firewall"} \subseteq deployed)
<1>1. TreasuryInv => (paused => owner = Safe /\ {"safe", "firewall"} \subseteq deployed)
  BY DEF TreasuryInv, PauseIsLiftable
<1>2. QED
  BY <1>1, TreasuryInitially, TreasuryStep, PTL DEF ScriptsSpec

-----------------------------------------------------------------------------
(* What the scripts have on chain, whichever of them died where.           *)

(* A rotation of the live vendor is the one that the script proposed to    *)
(* the key's own seat; it is over when the candidate sits.                 *)
LiveRotation ==
  /\ RotationPending(LiveVendor) =>
       /\ ApproverIs(LiveVendor, Key)
       /\ rotations[LiveVendor].newApprover = RotationCandidate
       /\ RotationCandidate # Key
  /\ RotationDone =>
       /\ {Key, RotationCandidate} \subseteq proposal[LiveVendor].voters
       /\ ~RotationPending(LiveVendor)
  /\ ~RecoveryPending(LiveVendor)

(* A recovery of the other vendor is for the script's candidate, who, when *)
(* it was not registered in that seat, has it with consent and the delay.  *)
CandidateRecovery ==
  /\ RecoveryPending(RecoveryVendor) =>
       /\ recoveries[RecoveryVendor].newApprover = RecoveryCandidate
       /\ ~ApproverIs(RecoveryVendor, RecoveryCandidate)
  /\ /\ ApproverIs(RecoveryVendor, RecoveryCandidate)
     /\ vendors[RecoveryVendor].approverEpoch > 1
     => /\ RecoveryCandidate \in proposal[RecoveryVendor].voters
        /\ now >= proposal[RecoveryVendor].since + RecoveryDelay
  /\ ~RotationPending(RecoveryVendor)

ChainInv == IInv /\ LiveRotation /\ CandidateRecovery

(* Nothing has been asked of a vendor that the panel has just registered.  *)
RegisteredAsTyped(input) ==
  /\ Registered(input[1])
  /\ vendors[input[1]].payoutWallet = input[2]
  /\ Seats(vendors[input[1]]) = {input[3], input[4], input[5]}
  /\ \A id \in RequestId : id.vendorId = input[1] => requests[id].status = "None"

LEMMA ScriptAccounts ==
  /\ {Safe, Key, TreasuryReviewer, RiskReviewer, RotationCandidate, RecoveryCandidate}
       \subseteq Accounts
  /\ {Safe, Key, TreasuryReviewer, RiskReviewer, RotationCandidate, RecoveryCandidate}
       \subseteq Address
  /\ {LiveVendor, RecoveryVendor, DemoVendor} \subseteq Vendors
  /\ Zero \notin Accounts
BY KeyAssumption, VendorAssumption, AddressAssumption

(* Types of what LiveRotation and CandidateRecovery compare.               *)
LEMMA TimesOfProposals ==
  ASSUME TypeOK
  PROVE  /\ now \in Nat /\ RecoveryDelay \in Nat
         /\ \A v \in Vendors : proposal[v].since \in Nat
BY TimeAssumption DEF TypeOK

(* Steps that leave approvers, epochs and proposals alone.                 *)
LEMMA ApproversUndisturbed ==
  ASSUME ChainInv, IInv', UNCHANGED <<rotations, recoveries, proposal>>, now' >= now,
         \A v \in {LiveVendor, RecoveryVendor} :
           /\ vendors'[v].approver = vendors[v].approver
           /\ vendors'[v].approverEpoch = vendors[v].approverEpoch
  PROVE  ChainInv'
<1>1. now' \in Nat /\ now \in Nat /\ RecoveryDelay \in Nat /\ proposal[RecoveryVendor].since \in Nat
  BY TimesOfProposals, ScriptAccounts, TimeAssumption DEF ChainInv, IInv, TypeOK
<1>2. LiveRotation'
  BY DEF ChainInv, LiveRotation, RotationPending, RecoveryPending, ApproverIs, RotationDone
<1>3. CandidateRecovery'
  BY <1>1 DEF ChainInv, CandidateRecovery, RotationPending, RecoveryPending, ApproverIs
<1>4. QED
  BY <1>2, <1>3 DEF ChainInv

LEMMA ChainUnchanged ==
  ASSUME ChainInv, UNCHANGED vars
  PROVE  ChainInv'
<1>1. UNCHANGED <<vendors, rotations, recoveries, proposal, now>>
  BY DEF vars, governanceVars
<1>2. IInv'
  BY StutterStep DEF ChainInv
<1>3. now' >= now
  BY <1>1, TimesOfProposals DEF ChainInv, IInv
<1>4. QED
  BY <1>1, <1>2, <1>3, ApproversUndisturbed

LEMMA ChainTicks ==
  ASSUME ChainInv, Tick
  PROVE  ChainInv'
<1>1. UNCHANGED <<vendors, rotations, recoveries, proposal>> /\ now' >= now
  BY TimesOfProposals DEF Tick, governanceVars, ChainInv, IInv
<1>2. IInv'
  BY TickStep DEF ChainInv
<1>3. QED
  BY <1>1, <1>2, ApproversUndisturbed

(* The Safe accepts the ownership, pauses and unpauses.                    *)
LEMMA ChainAdministered ==
  ASSUME ChainInv, AcceptOwnership(Safe) \/ Pause(Safe) \/ Unpause(Safe)
  PROVE  ChainInv'
<1>1. AdministersOnly /\ UNCHANGED now /\ owner' \in Address /\ pendingOwner' \in Address
  BY ScriptAccounts DEF AcceptOwnership, Pause, Unpause, AdministersOnly, ChainInv, IInv, TypeOK
<1>2. paused' \in BOOLEAN
  BY DEF AcceptOwnership, Pause, Unpause, ChainInv, IInv, TypeOK
<1>3. now' \in Time /\ now' >= now
  BY <1>1, TimesOfProposals DEF ChainInv, IInv, TypeOK
<1>4. IInv'
  BY <1>1, <1>2, <1>3, AdministrationStep DEF ChainInv
<1>5. QED
  BY <1>1, <1>3, <1>4, ApproversUndisturbed DEF AdministersOnly, governanceVars

(* A new firewall has no vendors and no proposals.                         *)
LEMMA ChainDeployed ==
  ASSUME ChainInv, NewDeployment
  PROVE  ChainInv'
<1>1. Fresh'
  BY ScriptAccounts DEF NewDeployment, Fresh, ChainInv, IInv, TypeOK
<1>2. IInv'
  BY <1>1, FreshIInv, PTL
<1>3. \A v \in Vendors : /\ vendors'[v] = NoVendor
                         /\ rotations'[v] = NoRotation /\ recoveries'[v] = NoRecovery
  BY DEF NewDeployment
<1>4. LiveRotation'
  BY <1>3, ScriptAccounts
     DEF LiveRotation, RotationPending, RecoveryPending, RotationDone, ApproverIs, NoVendor,
         NoRotation, NoRecovery
<1>5. CandidateRecovery'
  BY <1>3, ScriptAccounts
     DEF CandidateRecovery, RotationPending, RecoveryPending, ApproverIs, NoVendor,
         NoRotation, NoRecovery
<1>6. QED
  BY <1>2, <1>4, <1>5 DEF ChainInv
(* Requests move no approver.                                              *)
LEMMA SettlementEffect ==
  ASSUME TypeOK, NEW id \in RequestId, SettleApproval(id)
  PROVE  /\ \A v \in Vendors :
              /\ vendors'[v].registered <=> vendors[v].registered
              /\ vendors'[v].approver = vendors[v].approver
              /\ vendors'[v].approverEpoch = vendors[v].approverEpoch
              /\ Seats(vendors'[v]) = Seats(vendors[v])
              /\ v # id.vendorId => vendors'[v] = vendors[v]
         /\ requests[id].status = "Sealed" /\ requests'[id].status = "Settled"
         /\ requests'[id].verdict = requests[id].verdict
         /\ requests'[id].approved = requests[id].verdict
         /\ \A i \in RequestId : i # id => requests'[i] = requests[i]
         /\ UNCHANGED <<signalSubmitted, rotations, recoveries, proposal, now>>
<1>1. id.vendorId \in Vendors
  BY DEF RequestId
<1>2. UNCHANGED vendors \/ vendors' = [vendors EXCEPT ![id.vendorId].payoutWallet = id.proposedWallet]
  BY DEF SettleApproval
<1>3. requests' = [requests EXCEPT ![id].approved = requests[id].verdict, ![id].status = "Settled"]
  BY DEF SettleApproval
<1>4. requests[id].status = "Sealed" /\ UNCHANGED <<signalSubmitted, governanceVars, now>>
  BY DEF SettleApproval
<1>5. ASSUME NEW v \in Vendors
      PROVE  /\ vendors'[v].registered <=> vendors[v].registered
             /\ vendors'[v].approver = vendors[v].approver
             /\ vendors'[v].treasuryReviewer = vendors[v].treasuryReviewer
             /\ vendors'[v].riskReviewer = vendors[v].riskReviewer
             /\ vendors'[v].approverEpoch = vendors[v].approverEpoch
             /\ v # id.vendorId => vendors'[v] = vendors[v]
  <2> DEFINE moved == [vendors[v] EXCEPT !.payoutWallet = id.proposedWallet]
  <2>1. vendors'[v] = vendors[v] \/ (v = id.vendorId /\ vendors'[v] = moved)
    BY <1>1, <1>2 DEF TypeOK
  <2>2. vendors[v] \in Vendor
    BY DEF TypeOK
  <2>3. /\ moved.registered = vendors[v].registered
        /\ moved.approver = vendors[v].approver
        /\ moved.treasuryReviewer = vendors[v].treasuryReviewer
        /\ moved.riskReviewer = vendors[v].riskReviewer
        /\ moved.approverEpoch = vendors[v].approverEpoch
    BY <2>2 DEF Vendor
  <2> HIDE DEF moved
  <2>4. QED
    BY <2>1, <2>3
<1>6. /\ requests'[id].status = "Settled"
      /\ requests'[id].verdict = requests[id].verdict
      /\ requests'[id].approved = requests[id].verdict
      /\ \A i \in RequestId : i # id => requests'[i] = requests[i]
  BY <1>3 DEF TypeOK, ChangeRequest
<1>7. QED
  BY <1>4, <1>5, <1>6 DEF Seats, governanceVars

LEMMA ChainSettled ==
  ASSUME ChainInv, NEW id \in RequestId, SettleApproval(id)
  PROVE  ChainInv'
<1>1. TypeOK /\ now' >= now
  BY SettlementEffect, TimesOfProposals DEF ChainInv, IInv
<1>2. IInv'
  BY SettleApprovalStep DEF ChainInv
<1>3. QED
  BY <1>1, <1>2, SettlementEffect, ApproversUndisturbed, ScriptAccounts

LEMMA ChainOpened ==
  ASSUME ChainInv, NEW w \in WalletAddress, NEW n \in Nonces,
         OpenChangeRequest(Key, LiveVendor, w, n)
  PROVE  ChainInv' /\ UNCHANGED vendors
<1>1. UNCHANGED <<vendors, rotations, recoveries, proposal, now>>
  BY DEF OpenChangeRequest, governanceVars
<1>2. IInv'
  BY OpenChangeRequestStep, ScriptAccounts, KeyAssumption DEF ChainInv
<1>3. now' >= now
  BY <1>1, TimesOfProposals DEF ChainInv, IInv
<1>4. QED
  BY <1>1, <1>2, <1>3, ApproversUndisturbed

LEMMA ChainSignalled ==
  ASSUME ChainInv, NEW sender \in Accounts, NEW id \in RequestId, NEW h \in Handle,
         SubmitPrivateSignal(sender, id, h)
  PROVE  /\ ChainInv' /\ UNCHANGED vendors
         /\ signalSubmitted'[id] = signalSubmitted[id] \cup {sender}
<1>1. UNCHANGED <<vendors, rotations, recoveries, proposal, now>>
  BY DEF SubmitPrivateSignal, governanceVars
<1>2. IInv'
  BY SubmitPrivateSignalStep DEF ChainInv
<1>3. now' >= now
  BY <1>1, TimesOfProposals DEF ChainInv, IInv
<1>4. signalSubmitted' = [signalSubmitted EXCEPT ![id] = @ \cup {sender}]
  BY DEF SubmitPrivateSignal
<1>5. signalSubmitted'[id] = signalSubmitted[id] \cup {sender}
  BY <1>4 DEF ChainInv, IInv, TypeOK
<1>6. QED
  BY <1>1, <1>2, <1>3, <1>5, ApproversUndisturbed

(* A vendor that is registered has nothing pending and no requests.        *)
LEMMA ChainRegistered ==
  ASSUME ChainInv, NEW v \in Vendors, NEW w \in WalletAddress,
         NEW a \in Address, NEW t \in Address, NEW r \in Address,
         RegisterVendor(Safe, v, w, a, t, r)
  PROVE  /\ ChainInv'
         /\ RegisteredAsTyped(<<v, w, a, t, r>>)'
         /\ \A u \in Vendors : u # v => vendors'[u] = vendors[u]
<1> DEFINE entry == [payoutWallet |-> w, approver |-> a, treasuryReviewer |-> t,
                     riskReviewer |-> r, approverEpoch |-> 1, registered |-> TRUE]
<1>1. /\ ~Registered(v) /\ vendors' = [vendors EXCEPT ![v] = entry]
      /\ UNCHANGED <<requests, rotations, recoveries, proposal, now>>
  BY DEF RegisterVendor, requestVars, governanceVars
<1>2. vendors'[v] = entry /\ \A u \in Vendors : u # v => vendors'[u] = vendors[u]
  BY <1>1 DEF ChainInv, IInv, TypeOK
<1>3. ~RotationPending(v) /\ ~RecoveryPending(v)
  BY <1>1 DEF ChainInv, IInv, ProposalShape, OneProposal
<1>4. \A id \in RequestId : id.vendorId = v => requests[id].status = "None"
  BY <1>1 DEF ChainInv, IInv, RequestShape, WellFormed
<1>5. RegisteredAsTyped(<<v, w, a, t, r>>)'
  BY <1>1, <1>2, <1>4 DEF RegisteredAsTyped, Registered, Seats
<1>6. IInv'
  BY RegisterVendorStep, ScriptAccounts DEF ChainInv
<1>7. LiveRotation'
  <2>1. CASE v = LiveVendor
    BY <1>1, <1>2, <1>3, <2>1
       DEF ChainInv, LiveRotation, RotationPending, RecoveryPending, RotationDone, ApproverIs
  <2>2. CASE v # LiveVendor
    BY <1>1, <1>2, <2>2, ScriptAccounts
       DEF ChainInv, LiveRotation, RotationPending, RecoveryPending, RotationDone, ApproverIs
  <2>3. QED
    BY <2>1, <2>2
<1>8. CandidateRecovery'
  <2>1. CASE v = RecoveryVendor
    BY <1>1, <1>2, <1>3, <2>1
       DEF ChainInv, CandidateRecovery, RotationPending, RecoveryPending, ApproverIs
  <2>2. CASE v # RecoveryVendor
    BY <1>1, <1>2, <2>2, ScriptAccounts
       DEF ChainInv, CandidateRecovery, RotationPending, RecoveryPending, ApproverIs
  <2>3. QED
    BY <2>1, <2>2
<1>9. QED
  BY <1>2, <1>5, <1>6, <1>7, <1>8 DEF ChainInv
-----------------------------------------------------------------------------
(* The certification of a rotation and of a recovery.                      *)

LEMMA ChainProposed ==
  ASSUME ChainInv, ApproverIs(LiveVendor, Key),
         ProposeApproverRotation(Safe, LiveVendor, RotationCandidate)
  PROVE  ChainInv'
<1> DEFINE asked == [NoRotation EXCEPT !.newApprover = RotationCandidate]
<1>1. asked.newApprover = RotationCandidate
  BY DEF NoRotation
<1>2. /\ rotations' = [rotations EXCEPT ![LiveVendor] = asked]
      /\ proposal' = [proposal EXCEPT ![LiveVendor] = [voters |-> {}, since |-> now]]
      /\ UNCHANGED <<vendors, recoveries, now>>
      /\ RotationCandidate \notin Seats(vendors[LiveVendor])
  BY DEF ProposeApproverRotation, Proposed, ValidCandidate
<1> HIDE DEF asked
<1>3. IInv'
  BY ProposeApproverRotationStep, ScriptAccounts DEF ChainInv
<1>4. RotationCandidate # Key
  BY <1>2 DEF ApproverIs, Seats
<1>5. LiveRotation'
  BY <1>1, <1>2, <1>4, ScriptAccounts
     DEF ChainInv, IInv, TypeOK, LiveRotation, RotationPending, RecoveryPending, RotationDone,
         ApproverIs
<1>6. CandidateRecovery'
  BY <1>2, ScriptAccounts, DistinctAssumption
     DEF ChainInv, IInv, TypeOK, CandidateRecovery, RotationPending, RecoveryPending, ApproverIs
<1>7. QED
  BY <1>3, <1>5, <1>6 DEF ChainInv

(* The candidate's acceptance or the approver's consent, whichever is last *)
(* seats the candidate, with both.                                         *)
LEMMA ChainConsented ==
  ASSUME ChainInv, NEW sender \in Accounts, NEW marked \in ApproverRotation,
         RotationPending(LiveVendor), Registered(LiveVendor), Consented(LiveVendor, sender),
         marked.newApprover = rotations[LiveVendor].newApprover,
         marked.currentApproved =>
           rotations[LiveVendor].currentApproved \/ sender = vendors[LiveVendor].approver,
         marked.candidateAccepted =>
           rotations[LiveVendor].candidateAccepted \/ sender = rotations[LiveVendor].newApprover,
         FinalizeRotationIfReady(LiveVendor, marked),
         UNCHANGED <<recoveries, requestVars, adminVars, now>>
  PROVE  ChainInv'
<1>1. IInv /\ IInv' /\ LiveVendor \in Vendors /\ RecoveryVendor \in Vendors
  BY RotationConsentStep, ScriptAccounts DEF ChainInv
<1>2. /\ vendors[LiveVendor].approver = Key
      /\ marked.newApprover = RotationCandidate
      /\ RotationCandidate # Key /\ RotationCandidate \in Accounts
      /\ recoveries'[LiveVendor].newApprover = Zero
  BY ScriptAccounts DEF ChainInv, LiveRotation, RecoveryPending, ApproverIs
<1>3. /\ proposal'[LiveVendor].voters = proposal[LiveVendor].voters \cup {sender}
      /\ \A u \in Vendors : u # LiveVendor => proposal'[u] = proposal[u]
  BY <1>1, ConsentGiven
<1>4. /\ \A u \in Vendors : u # LiveVendor => rotations'[u] = rotations[u]
      /\ \A u \in Vendors : u # LiveVendor => vendors'[u] = vendors[u]
  BY <1>1 DEF FinalizeRotationIfReady, ChangeApprover, IInv, TypeOK
<1>5. CandidateRecovery'
  BY <1>1, <1>3, <1>4, DistinctAssumption
     DEF ChainInv, CandidateRecovery, RotationPending, RecoveryPending, ApproverIs
<1>6. CASE marked.currentApproved /\ marked.candidateAccepted
  <2>1. rotations'[LiveVendor].newApprover = Zero
    BY <1>1, <1>6 DEF FinalizeRotationIfReady, IInv, TypeOK, NoRotation
  <2>2. {Key, RotationCandidate} \subseteq proposal'[LiveVendor].voters
    BY <1>1, <1>2, <1>3, <1>6 DEF IInv, ConsentIsGenuine
  <2>3. LiveRotation'
    BY <1>2, <2>1, <2>2 DEF LiveRotation, RotationPending, RecoveryPending
  <2>4. QED
    BY <1>1, <1>5, <2>3 DEF ChainInv
<1>7. CASE ~(marked.currentApproved /\ marked.candidateAccepted)
  <2>1. rotations'[LiveVendor] = marked /\ UNCHANGED vendors
    BY <1>1, <1>7 DEF FinalizeRotationIfReady, IInv, TypeOK
  <2>2. LiveRotation'
    BY <1>2, <2>1 DEF LiveRotation, RotationPending, RecoveryPending, RotationDone, ApproverIs
  <2>3. QED
    BY <1>1, <1>5, <2>2 DEF ChainInv
<1>8. QED
  BY <1>6, <1>7

LEMMA ChainRotated ==
  ASSUME ChainInv,
         \/ AcceptApproverRotation(RotationCandidate, LiveVendor)
         \/ ApproveApproverRotation(Key, LiveVendor, RotationCandidate)
  PROVE  ChainInv'
<1>1. rotations[LiveVendor] \in ApproverRotation
  BY ScriptAccounts DEF ChainInv, IInv, TypeOK
<1>2. CASE AcceptApproverRotation(RotationCandidate, LiveVendor)
  <2> DEFINE marked == [rotations[LiveVendor] EXCEPT !.candidateAccepted = TRUE]
  <2>1. /\ marked \in ApproverRotation
        /\ marked.newApprover = rotations[LiveVendor].newApprover
        /\ marked.currentApproved => rotations[LiveVendor].currentApproved
    BY <1>1 DEF ApproverRotation
  <2>2. /\ FinalizeRotationIfReady(LiveVendor, marked)
        /\ RotationPending(LiveVendor) /\ Registered(LiveVendor)
        /\ Consented(LiveVendor, RotationCandidate)
        /\ RotationCandidate = rotations[LiveVendor].newApprover
        /\ UNCHANGED <<recoveries, requestVars, adminVars, now>>
    BY <1>2 DEF AcceptApproverRotation
  <2> HIDE DEF marked
  <2>3. QED
    BY <2>1, <2>2, ChainConsented, ScriptAccounts
<1>3. CASE ApproveApproverRotation(Key, LiveVendor, RotationCandidate)
  <2> DEFINE marked == [rotations[LiveVendor] EXCEPT !.currentApproved = TRUE]
  <2>1. /\ marked \in ApproverRotation
        /\ marked.newApprover = rotations[LiveVendor].newApprover
        /\ marked.candidateAccepted => rotations[LiveVendor].candidateAccepted
    BY <1>1 DEF ApproverRotation
  <2>2. /\ FinalizeRotationIfReady(LiveVendor, marked)
        /\ RotationPending(LiveVendor) /\ Registered(LiveVendor)
        /\ Consented(LiveVendor, Key)
        /\ Key = vendors[LiveVendor].approver
        /\ UNCHANGED <<recoveries, requestVars, adminVars, now>>
    BY <1>3 DEF ApproveApproverRotation, IsApprover
  <2> HIDE DEF marked
  <2>3. QED
    BY <2>1, <2>2, ChainConsented, ScriptAccounts
<1>4. QED
  BY <1>2, <1>3

(* A recovery is scheduled, accepted or vetoed: no approver changes.       *)
LEMMA ChainRecovering ==
  ASSUME ChainInv,
         \/ ScheduleApproverRecovery(Safe, RecoveryVendor, RecoveryCandidate)
         \/ AcceptApproverRecovery(RecoveryCandidate, RecoveryVendor)
         \/ VetoApproverRecovery(Key, RecoveryVendor)
  PROVE  ChainInv' /\ UNCHANGED vendors
<1>1. IInv /\ LiveVendor \in Vendors /\ RecoveryVendor \in Vendors /\ LiveVendor # RecoveryVendor
  BY ScriptAccounts, DistinctAssumption DEF ChainInv
<1>2. IInv'
  BY <1>1, ScheduleApproverRecoveryStep, AcceptApproverRecoveryStep, DropRecoveryStep,
     ScriptAccounts DEF VetoApproverRecovery
<1>3. UNCHANGED <<vendors, rotations, now>>
  BY DEF ScheduleApproverRecovery, AcceptApproverRecovery, VetoApproverRecovery, DropRecovery
<1>4. /\ recoveries'[LiveVendor] = recoveries[LiveVendor]
      /\ proposal'[LiveVendor] = proposal[LiveVendor]
  BY <1>1 DEF ScheduleApproverRecovery, AcceptApproverRecovery, VetoApproverRecovery,
              DropRecovery, Proposed, Consented, IInv, TypeOK
<1>5. LiveRotation'
  BY <1>3, <1>4
     DEF ChainInv, LiveRotation, RotationPending, RecoveryPending, RotationDone, ApproverIs
<1>6. CASE ScheduleApproverRecovery(Safe, RecoveryVendor, RecoveryCandidate)
  <2>1. /\ recoveries'[RecoveryVendor].newApprover = RecoveryCandidate
        /\ RecoveryCandidate \notin Seats(vendors[RecoveryVendor])
    BY <1>1, <1>6 DEF ScheduleApproverRecovery, ValidCandidate, IInv, TypeOK
  <2>2. CandidateRecovery'
    BY <1>3, <2>1 DEF ChainInv, CandidateRecovery, RotationPending, ApproverIs, Seats
  <2>3. QED
    BY <1>2, <1>3, <1>5, <2>2 DEF ChainInv
<1>7. CASE AcceptApproverRecovery(RecoveryCandidate, RecoveryVendor)
  <2>1. RecoveryPending(RecoveryVendor)
    BY <1>7 DEF AcceptApproverRecovery
  <2>2. recoveries'[RecoveryVendor].newApprover = recoveries[RecoveryVendor].newApprover
    BY <1>1, <1>7 DEF AcceptApproverRecovery, IInv, TypeOK, ApproverRecovery
  <2>3. CandidateRecovery'
    BY <1>3, <2>1, <2>2
       DEF ChainInv, CandidateRecovery, RotationPending, RecoveryPending, ApproverIs
  <2>4. QED
    BY <1>2, <1>3, <1>5, <2>3 DEF ChainInv
<1>8. CASE VetoApproverRecovery(Key, RecoveryVendor)
  <2>1. /\ recoveries'[RecoveryVendor] = NoRecovery
        /\ proposal'[RecoveryVendor] = proposal[RecoveryVendor]
    BY <1>1, <1>8 DEF VetoApproverRecovery, DropRecovery, IInv, TypeOK
  <2>2. CandidateRecovery'
    BY <1>3, <2>1
       DEF ChainInv, CandidateRecovery, RotationPending, RecoveryPending, ApproverIs, NoRecovery
  <2>3. QED
    BY <1>2, <1>3, <1>5, <2>2 DEF ChainInv
<1>9. QED
  BY <1>6, <1>7, <1>8

(* A recovery is executed after its delay, with the candidate's consent.   *)
LEMMA ChainRecovered ==
  ASSUME ChainInv, ExecuteApproverRecovery(Safe, RecoveryVendor)
  PROVE  ChainInv' /\ \A u \in Vendors : u # RecoveryVendor => vendors'[u] = vendors[u]
<1> DEFINE c == recoveries[RecoveryVendor].newApprover
<1>1. IInv /\ LiveVendor \in Vendors /\ RecoveryVendor \in Vendors /\ LiveVendor # RecoveryVendor
  BY ScriptAccounts, DistinctAssumption DEF ChainInv
<1>2. /\ Registered(RecoveryVendor) /\ RecoveryPending(RecoveryVendor)
      /\ recoveries[RecoveryVendor].candidateAccepted /\ RecoveryReady(RecoveryVendor)
      /\ recoveries' = [recoveries EXCEPT ![RecoveryVendor] = NoRecovery]
      /\ ChangeApprover(RecoveryVendor, c)
      /\ UNCHANGED <<rotations, proposal, now>>
  BY DEF ExecuteApproverRecovery
<1>3. c = RecoveryCandidate /\ c \in Accounts
  BY <1>2, ScriptAccounts DEF ChainInv, CandidateRecovery
<1> HIDE DEF c
<1>4. \A u \in Vendors : u # RecoveryVendor => vendors'[u] = vendors[u]
  BY <1>1, <1>2, <1>3, ChangeApproverEffect
<1>5. IInv'
  BY <1>1, ExecuteApproverRecoveryStep, ScriptAccounts
<1>6. /\ recoveries'[RecoveryVendor] = NoRecovery
      /\ recoveries'[LiveVendor] = recoveries[LiveVendor]
  BY <1>1, <1>2 DEF IInv, TypeOK
<1>7. /\ RecoveryCandidate \in proposal[RecoveryVendor].voters
      /\ now >= proposal[RecoveryVendor].since + RecoveryDelay
  BY <1>1, <1>2, <1>3
     DEF IInv, ConsentIsGenuine, ProposalShape, OneProposal, RecoveryReady, c
<1>8. LiveRotation'
  BY <1>1, <1>2, <1>4, <1>6
     DEF ChainInv, LiveRotation, RotationPending, RecoveryPending, RotationDone, ApproverIs
<1>9. CandidateRecovery'
  BY <1>2, <1>6, <1>7
     DEF ChainInv, CandidateRecovery, RotationPending, RecoveryPending, NoRecovery
<1>10. QED
  BY <1>4, <1>5, <1>8, <1>9 DEF ChainInv
-----------------------------------------------------------------------------
(* What a script knows at the places that it has reached.                  *)

Places ==
  {"start", "firewall", "module", "transfer", "register", "read", "open", "signal1",
   "signal2", "signal3", "reveal", "settle", "propose", "accept", "approve", "rotated",
   "schedule", "acceptRecovery", "early", "veto", "reschedule", "reaccept", "execute",
   "token", "payNative", "payToken", "pause", "blockedNative", "blockedToken",
   "unpause", "report", "reported"}

DemoInput == <<DemoVendor, DemoWallet, DemoSeats[1], DemoSeats[2], DemoSeats[3]>>

SetupProgress ==
  /\ At("safe", "report") => "safe" \in deployed
  /\ At("demo", "register") /\ ~run.full => Registered(DemoVendor)
  /\ At("demo", "report") => Registered(DemoVendor) /\ (run.full => RegisteredAsTyped(DemoInput))
  /\ run.script = "panel" => run.input \in PanelInputs
  /\ At("panel", "report") => RegisteredAsTyped(run.input)

(* The signals that must be in.                                            *)
SignedAt ==
  [signal2 |-> {Key}, signal3 |-> {Key, TreasuryReviewer},
   reveal |-> {Key, TreasuryReviewer, RiskReviewer},
   settle |-> {Key, TreasuryReviewer, RiskReviewer},
   report |-> {Key, TreasuryReviewer, RiskReviewer}]

(* Others may settle the request before the script: it stays approved.     *)
LiveProgress ==
  run.script = "live" =>
    /\ run.nonce \in Nonces
    /\ run.at # "register" => Registered(LiveVendor)
    /\ run.at \notin {"register", "read"} =>
         run.rid \in RequestId /\ run.rid.proposedWallet = run.destination
    /\ run.at \in DOMAIN SignedAt => SignedAt[run.at] \subseteq signalSubmitted[run.rid]
    /\ run.at = "settle" =>
         requests[run.rid].status \in {"Sealed", "Settled"} /\ requests[run.rid].verdict
    /\ run.at = "report" => requests[run.rid].approved

GovernanceProgress ==
  run.script = "governance" =>
    /\ run.at = "propose" => ApproverIs(LiveVendor, Key)
    /\ run.at \notin {"propose", "accept", "approve", "rotated"} => RotationDone

PayoutsProgress ==
  run.script = "payouts" /\ run.full =>
    /\ run.at = "payToken" => "native" \in run.paid
    /\ run.at \notin {"payNative", "payToken"} => run.paid = Assets

Progress == SetupProgress /\ LiveProgress /\ GovernanceProgress /\ PayoutsProgress

RunInv ==
  /\ deployed \subseteq {"safe", "firewall", "token"} /\ enabled \in BOOLEAN
  /\ run \in Runs
  /\ Progress

ScriptsInv == ChainInv /\ RunInv

(* The script goes on, with the values it has read.                        *)
SameValues ==
  /\ run'.script = run.script /\ run'.nonce = run.nonce /\ run'.rid = run.rid
  /\ run'.destination = run.destination /\ run'.token = run.token /\ run'.input = run.input
  /\ run'.full = run.full /\ run'.paid = run.paid

LEMMA RunGoes ==
  ASSUME RunInv, NEW step \in Places, Goto(step)
  PROVE  run' \in Runs /\ run'.at = step /\ SameValues
<1>1. run \in Runs /\ run' = [run EXCEPT !.at = step]
  BY DEF RunInv, Goto
<1>2. run' \in Runs
  BY <1>1 DEF Runs, Places
<1>3. run'.at = step /\ SameValues
  BY <1>1 DEF Runs, SameValues
<1>4. QED
  BY <1>2, <1>3

LEMMA NoRunTyped ==
  /\ NoRun \in Runs
  /\ NoRun.script = "none" /\ NoRun.full = FALSE
BY DEF NoRun, Runs

(* A script of which nothing is claimed, or that has just begun.           *)
LEMMA NothingClaimed ==
  ASSUME run'.script \in {"none", "v2", "configure"}
  PROVE  Progress'
BY DEF Progress, SetupProgress, LiveProgress, GovernanceProgress, PayoutsProgress, At

LEMMA ReadsKeep ==
  ASSUME ScriptsInv, Reads
  PROVE  /\ ChainInv'
         /\ deployed' \subseteq {"safe", "firewall", "token"} /\ enabled' \in BOOLEAN
         /\ UNCHANGED <<vendors, requests, signalSubmitted, deployed>>
BY ChainUnchanged DEF Reads, ScriptsInv, RunInv, vars, requestVars

(* A step of a script that reads, to its report or from there, keeps what  *)
(* it knows if it knows enough for the next place.                         *)
LEMMA ReportsKept ==
  ASSUME ScriptsInv, Reports
  PROVE  ScriptsInv'
<1>1. run.at = "report" /\ Reads /\ Goto("reported")
  BY DEF Reports
<1>2. run' \in Runs /\ run'.at = "reported" /\ SameValues
  BY <1>1, RunGoes DEF ScriptsInv, Places
<1>3. /\ ChainInv'
      /\ deployed' \subseteq {"safe", "firewall", "token"} /\ enabled' \in BOOLEAN
      /\ UNCHANGED <<vendors, requests, signalSubmitted, deployed>>
  BY <1>1, ReadsKeep
<1>4. SetupProgress'
  BY <1>1, <1>2 DEF ScriptsInv, RunInv, Progress, SetupProgress, At, SameValues
<1>5. LiveProgress'
  BY <1>1, <1>2, <1>3
     DEF ScriptsInv, RunInv, Progress, LiveProgress, SameValues, Registered, SignedAt
<1>6. GovernanceProgress' /\ PayoutsProgress'
  BY <1>1, <1>2, <1>3
     DEF ScriptsInv, RunInv, Progress, GovernanceProgress, PayoutsProgress, SameValues,
         RotationDone, ApproverIs
<1>7. QED
  BY <1>2, <1>3, <1>4, <1>5, <1>6 DEF ScriptsInv, RunInv, Progress
LEMMA RegistrationGoes ==
  ASSUME ScriptsInv, NEW v \in Vendors, NEW w \in WalletAddress,
         NEW a \in Address, NEW t \in Address, NEW r \in Address, NEW next,
         Sends(BySafe(RegisterVendor(Safe, v, w, a, t, r)), next)
  PROVE  /\ ChainInv' /\ UNCHANGED <<deployed, enabled>> /\ Goto(next)
         /\ RegisteredAsTyped(<<v, w, a, t, r>>)' /\ Registered(v)'
         /\ \A u \in Vendors : u # v => vendors'[u] = vendors[u]
<1>1. RegisterVendor(Safe, v, w, a, t, r) /\ UNCHANGED <<deployed, enabled>> /\ Goto(next)
  BY DEF Sends, Succeeded, BySafe
<1>2. RegisteredAsTyped(<<v, w, a, t, r>>)' => Registered(v)'
  BY DEF RegisteredAsTyped
<1>3. QED
  BY <1>1, <1>2, ChainRegistered DEF ScriptsInv

(* Vendors of the scripts' own are registered once.                        *)
LEMMA OnceRegistered ==
  ASSUME ScriptsInv, NEW v \in Vendors, NEW w \in WalletAddress,
         NEW a \in Address, NEW t \in Address, NEW r \in Address, NEW next,
         RegisterOnce(v, RegisterVendor(Safe, v, w, a, t, r), next)
  PROVE  /\ ChainInv' /\ UNCHANGED <<deployed, enabled>> /\ Goto(next)
         /\ Registered(v)'
         /\ \A u \in Vendors : u # v => vendors'[u] = vendors[u]
<1>1. CASE Registered(v)
  <2>1. Reads /\ Goto(next)
    BY <1>1 DEF RegisterOnce
  <2>2. ChainInv' /\ UNCHANGED <<deployed, enabled, vendors>>
    BY <2>1, ReadsKeep DEF Reads
  <2>3. QED
    BY <1>1, <2>1, <2>2 DEF Registered
<1>2. CASE ~Registered(v)
  BY <1>2, RegistrationGoes DEF RegisterOnce
<1>3. QED
  BY <1>1, <1>2

(* A step of a script of which nothing is claimed.                         *)
LEMMA UnclaimedStep ==
  ASSUME ScriptsInv, ChainInv', deployed' \subseteq {"safe", "firewall", "token"},
         enabled' \in BOOLEAN, run' \in Runs, run'.script \in {"none", "v2", "configure"}
  PROVE  ScriptsInv'
BY NothingClaimed DEF ScriptsInv, RunInv

LEMMA DeploymentsGo ==
  ASSUME ScriptsInv, DeploySafe \/ DeployV2
  PROVE  ScriptsInv'
<1>1. CASE Starts([NoRun EXCEPT !.script = "safe",
                     !.at = IF "safe" \in deployed THEN "report" ELSE "start"])
  <2>1. Reads /\ run' = [NoRun EXCEPT !.script = "safe",
                           !.at = IF "safe" \in deployed THEN "report" ELSE "start"]
    BY <1>1 DEF Starts
  <2>2. /\ run' \in Runs /\ run'.script = "safe"
        /\ run'.at = IF "safe" \in deployed THEN "report" ELSE "start"
    BY <2>1 DEF NoRun, Runs
  <2>3. Progress'
    BY <2>1, <2>2, ReadsKeep
       DEF Progress, SetupProgress, LiveProgress, GovernanceProgress, PayoutsProgress, At
  <2>4. QED
    BY <2>1, <2>2, <2>3, ReadsKeep DEF ScriptsInv, RunInv
<1>2. CASE /\ At("safe", "start")
           /\ deployed' = deployed \cup {"safe"}
           /\ Goto("report")
           /\ UNCHANGED <<vars, enabled>>
  <2>1. run' \in Runs /\ run'.at = "report" /\ run'.script = "safe"
    BY <1>2, RunGoes DEF ScriptsInv, Places, SameValues, At
  <2>2. Progress'
    BY <1>2, <2>1
       DEF Progress, SetupProgress, LiveProgress, GovernanceProgress, PayoutsProgress, At
  <2>3. QED
    BY <1>2, <2>1, <2>2, ChainUnchanged DEF ScriptsInv, RunInv
<1>3. CASE run.script = "safe" /\ Reports
  BY <1>3, ReportsKept
<1>4. CASE Starts([NoRun EXCEPT !.script = "v2", !.at = "firewall"])
  <2>1. Reads /\ run' = [NoRun EXCEPT !.script = "v2", !.at = "firewall"]
    BY <1>4 DEF Starts
  <2>2. run' \in Runs /\ run'.script = "v2"
    BY <2>1 DEF NoRun, Runs
  <2>3. QED
    BY <2>1, <2>2, ReadsKeep, UnclaimedStep
<1>5. ASSUME NEW step \in Places, run.script = "v2", Reads, Goto(step)
      PROVE  ScriptsInv'
  <2>1. run' \in Runs /\ run'.script = "v2"
    BY <1>5, RunGoes DEF ScriptsInv, SameValues
  <2>2. QED
    BY <1>5, <2>1, ReadsKeep, UnclaimedStep
<1>6. CASE /\ At("v2", "report")
           /\ deployed' = deployed \cup {"firewall"}
           /\ NewDeployment
           /\ Goto("reported")
  <2>1. run' \in Runs /\ run'.script = "v2"
    BY <1>6, RunGoes DEF ScriptsInv, Places, SameValues, At
  <2>2. ChainInv'
    BY <1>6, ChainDeployed DEF ScriptsInv
  <2>3. enabled' \in BOOLEAN /\ deployed' \subseteq {"safe", "firewall", "token"}
    BY <1>6 DEF NewDeployment, ScriptsInv, RunInv
  <2>4. QED
    BY <2>1, <2>2, <2>3, UnclaimedStep
<1>7. QED
  BY <1>1, <1>2, <1>3, <1>4, <1>5, <1>6 DEF DeploySafe, DeployV2, At, Places

LEMMA ConfigurationGoes ==
  ASSUME ScriptsInv, ConfigureSafe
  PROVE  ScriptsInv'
<1>1. CASE Starts([NoRun EXCEPT !.script = "configure", !.at = "accept"])
  <2>1. Reads /\ run' = [NoRun EXCEPT !.script = "configure", !.at = "accept"]
    BY <1>1 DEF Starts
  <2>2. run' \in Runs /\ run'.script = "configure"
    BY <2>1 DEF NoRun, Runs
  <2>3. QED
    BY <2>1, <2>2, ReadsKeep, UnclaimedStep
<1>2. CASE At("configure", "accept") /\ Sends(AcceptAndEnable, "report")
  <2>1. /\ AcceptOwnership(Safe) /\ enabled' = TRUE /\ UNCHANGED deployed
        /\ Goto("report") /\ run.script = "configure"
    BY <1>2 DEF Sends, Succeeded, AcceptAndEnable, At
  <2>2. run' \in Runs /\ run'.script = "configure"
    BY <2>1, RunGoes DEF ScriptsInv, Places, SameValues
  <2>3. ChainInv'
    BY <2>1, ChainAdministered DEF ScriptsInv
  <2>4. QED
    BY <2>1, <2>2, <2>3, UnclaimedStep DEF ScriptsInv, RunInv
<1>3. CASE run.script = "configure" /\ Reports
  BY <1>3, ReportsKept
<1>4. QED
  BY <1>1, <1>2, <1>3 DEF ConfigureSafe

LEMMA VendorSetupGoes ==
  ASSUME ScriptsInv, SetupDemoVendor \/ AdminPanel
  PROVE  ScriptsInv'
<1>1. CASE Starts([NoRun EXCEPT !.script = "demo", !.at = "read"])
  <2>1. Reads /\ run' = [NoRun EXCEPT !.script = "demo", !.at = "read"]
    BY <1>1 DEF Starts
  <2>2. run' \in Runs /\ run'.script = "demo" /\ run'.at = "read"
    BY <2>1 DEF NoRun, Runs
  <2>3. Progress'
    BY <2>2 DEF Progress, SetupProgress, LiveProgress, GovernanceProgress, PayoutsProgress, At
  <2>4. QED
    BY <2>1, <2>2, <2>3, ReadsKeep DEF ScriptsInv, RunInv
<1>2. CASE /\ At("demo", "register")
           /\ IF run.full THEN Sends(BySafe(DemoRegistration), "report")
                          ELSE Reads /\ Goto("report")
  <2>1. CASE run.full
    <3>1. /\ DemoWallet \in WalletAddress
          /\ DemoSeats[1] \in Address /\ DemoSeats[2] \in Address /\ DemoSeats[3] \in Address
      BY KeyAssumption, VendorAssumption
    <3>2. /\ ChainInv' /\ UNCHANGED <<deployed, enabled>> /\ Goto("report")
          /\ RegisteredAsTyped(DemoInput)' /\ Registered(DemoVendor)'
      BY <1>2, <2>1, <3>1, VendorAssumption, RegistrationGoes DEF DemoRegistration, DemoInput
    <3>3. run' \in Runs /\ run'.at = "report" /\ SameValues
      BY <3>2, RunGoes DEF ScriptsInv, Places
    <3>4. Progress'
      BY <1>2, <3>2, <3>3
         DEF Progress, SetupProgress, LiveProgress, GovernanceProgress, PayoutsProgress, At,
             SameValues
    <3>5. QED
      BY <3>2, <3>3, <3>4 DEF ScriptsInv, RunInv
  <2>2. CASE ~run.full
    <3>1. Reads /\ Goto("report") /\ Registered(DemoVendor)
      BY <1>2, <2>2 DEF ScriptsInv, RunInv, Progress, SetupProgress
    <3>2. run' \in Runs /\ run'.at = "report" /\ SameValues
      BY <3>1, RunGoes DEF ScriptsInv, Places
    <3>3. Registered(DemoVendor)'
      BY <3>1, ReadsKeep DEF Registered
    <3>4. Progress'
      BY <1>2, <2>2, <3>2, <3>3
         DEF Progress, SetupProgress, LiveProgress, GovernanceProgress, PayoutsProgress, At,
             SameValues
    <3>5. QED
      BY <3>1, <3>2, <3>4, ReadsKeep DEF ScriptsInv, RunInv
  <2>3. QED
    BY <2>1, <2>2
<1>3. ASSUME NEW input \in PanelInputs,
             Starts([NoRun EXCEPT !.script = "panel", !.at = "register", !.input = input])
      PROVE  ScriptsInv'
  <2>1. Reads /\ run' = [NoRun EXCEPT !.script = "panel", !.at = "register", !.input = input]
    BY <1>3 DEF Starts
  <2>2. run' \in Runs /\ run'.script = "panel" /\ run'.at = "register" /\ run'.input = input
    BY <2>1 DEF NoRun, Runs
  <2>3. Progress'
    BY <2>2 DEF Progress, SetupProgress, LiveProgress, GovernanceProgress, PayoutsProgress, At
  <2>4. QED
    BY <2>1, <2>2, <2>3, ReadsKeep DEF ScriptsInv, RunInv
<1>4. CASE At("panel", "register") /\ Sends(RegisterVendorViaSafe(run.input), "report")
  <2>1. run.input \in PanelInputs
    BY <1>4 DEF ScriptsInv, RunInv, Progress, SetupProgress, At
  <2>2. PICK input \in PanelInputs : input = run.input
    BY <2>1
  <2>3. /\ input[1] \in Vendors /\ input[2] \in WalletAddress
        /\ input[3] \in Address /\ input[4] \in Address /\ input[5] \in Address
    BY VendorAssumption
  <2>5. Sends(BySafe(RegisterVendor(Safe, input[1], input[2], input[3], input[4], input[5])),
              "report")
    BY <1>4, <2>2 DEF RegisterVendorViaSafe
  <2>6. /\ ChainInv' /\ UNCHANGED <<deployed, enabled>> /\ Goto("report")
        /\ RegisteredAsTyped(<<input[1], input[2], input[3], input[4], input[5]>>)'
    BY <2>3, <2>5, RegistrationGoes
  <2>7. run' \in Runs /\ run'.at = "report" /\ run'.input = input /\ run'.script = "panel"
    BY <1>4, <2>2, <2>6, RunGoes DEF ScriptsInv, Places, SameValues, At
  <2>8. RegisteredAsTyped(run.input)'
    BY <2>6, <2>7 DEF RegisteredAsTyped
  <2>9. SetupProgress'
    BY <2>7, <2>8 DEF SetupProgress, At
  <2>10. Progress'
    BY <2>7, <2>9 DEF Progress, LiveProgress, GovernanceProgress, PayoutsProgress
  <2>11. QED
    BY <2>6, <2>7, <2>10 DEF ScriptsInv, RunInv
<1>5. CASE run.script \in {"demo", "panel"} /\ Reports
  BY <1>5, ReportsKept
<1>6. CASE /\ At("demo", "read")
           /\ run' = [run EXCEPT !.at = "register", !.full = ~Registered(DemoVendor)]
           /\ Reads
  <2>1. /\ run' \in Runs /\ run'.script = "demo" /\ run'.at = "register"
        /\ run'.full = ~Registered(DemoVendor)
    BY <1>6 DEF ScriptsInv, RunInv, Runs, At
  <2>2. Registered(DemoVendor)' = Registered(DemoVendor)
    BY <1>6, ReadsKeep DEF Registered
  <2>3. Progress'
    BY <2>1, <2>2
       DEF Progress, SetupProgress, LiveProgress, GovernanceProgress, PayoutsProgress, At
  <2>4. QED
    BY <1>6, <2>1, <2>3, ReadsKeep DEF ScriptsInv, RunInv
<1>7. QED
  BY <1>1, <1>2, <1>3, <1>4, <1>5, <1>6 DEF SetupDemoVendor, AdminPanel
-----------------------------------------------------------------------------
(* verify-live-v2.ts                                                       *)

(* A step of the live script, from the chain it leaves.                    *)
LEMMA LiveStep ==
  ASSUME ScriptsInv, ChainInv', UNCHANGED <<deployed, enabled>>, run' \in Runs,
         run'.script = "live", LiveProgress'
  PROVE  ScriptsInv'
BY DEF ScriptsInv, RunInv, Progress, SetupProgress, GovernanceProgress, PayoutsProgress, At

(* The proposed wallet and the request are read from a registered vendor.  *)
LEMMA RequestRead ==
  ASSUME ScriptsInv, Registered(LiveVendor), NEW nonce \in Nonces
  PROVE  /\ Destination \in Wallets
         /\ DerivedRequestId(LiveVendor, Destination, Key, nonce) \in RequestId
         /\ DerivedRequestId(LiveVendor, Destination, Key, nonce).proposedWallet = Destination
<1>1. Destination \in Wallets
  BY VendorAssumption DEF Destination
<1>2. /\ vendors[LiveVendor].payoutWallet \in Wallets
      /\ vendors[LiveVendor].approverEpoch \in Epoch
  BY ScriptAccounts, EpochAssumption
     DEF ScriptsInv, ChainInv, IInv, TypeOK, Vendor, VendorShape, ValidReviewers, Registered
<1>3. QED
  BY <1>1, <1>2, KeyAssumption, ScriptAccounts DEF DerivedRequestId, RequestId

LEMMA LiveBegins ==
  ASSUME ScriptsInv, NEW nonce \in Nonces,
         Starts([NoRun EXCEPT !.script = "live", !.at = "register", !.nonce = nonce])
  PROVE  ScriptsInv'
<1>1. Reads /\ run' = [NoRun EXCEPT !.script = "live", !.at = "register", !.nonce = nonce]
  BY DEF Starts
<1>2. run' \in Runs /\ run'.script = "live" /\ run'.at = "register" /\ run'.nonce = nonce
  BY <1>1 DEF NoRun, Runs
<1>3. LiveProgress'
  BY <1>2 DEF LiveProgress, SignedAt
<1>4. QED
  BY <1>1, <1>2, <1>3, ReadsKeep, LiveStep DEF Reads

LEMMA LiveRegisters ==
  ASSUME ScriptsInv, At("live", "register"),
         RegisterOnce(LiveVendor, RegisterVendor(Safe, LiveVendor, Key, Key, TreasuryReviewer,
                                                 RiskReviewer), "read")
  PROVE  ScriptsInv'
<1>1. ChainInv' /\ UNCHANGED <<deployed, enabled>> /\ Goto("read") /\ Registered(LiveVendor)'
  BY ScriptAccounts, VendorAssumption, DistinctAssumption, OnceRegistered
<1>2. run' \in Runs /\ run'.at = "read" /\ SameValues
  BY <1>1, RunGoes DEF ScriptsInv, Places
<1>3. run'.script = "live" /\ run'.nonce \in Nonces
  BY <1>2 DEF SameValues, At, ScriptsInv, RunInv, Progress, LiveProgress
<1>4. LiveProgress'
  BY <1>1, <1>2, <1>3 DEF LiveProgress, SignedAt
<1>5. QED
  BY <1>1, <1>2, <1>3, <1>4, LiveStep

LEMMA LiveReads ==
  ASSUME ScriptsInv, At("live", "read"), Reads,
         run' = [run EXCEPT !.at = "open", !.destination = Destination,
                            !.rid = DerivedRequestId(LiveVendor, Destination, Key, run.nonce)]
  PROVE  ScriptsInv'
<1>1. run \in Runs /\ run.script = "live" /\ run.nonce \in Nonces /\ Registered(LiveVendor)
  BY DEF ScriptsInv, RunInv, Progress, LiveProgress, At
<1> DEFINE rid == DerivedRequestId(LiveVendor, Destination, Key, run.nonce)
<1>2. Destination \in Wallets /\ rid \in RequestId /\ rid.proposedWallet = Destination
  BY <1>1, RequestRead
<1>3. run' = [run EXCEPT !.at = "open", !.destination = Destination, !.rid = rid]
  OBVIOUS
<1> HIDE DEF rid
<1>4. /\ run' \in Runs /\ run'.script = "live" /\ run'.at = "open" /\ run'.nonce = run.nonce
      /\ run'.destination = Destination /\ run'.rid = rid
  BY <1>1, <1>2, <1>3 DEF Runs
<1>5. Registered(LiveVendor)'
  BY <1>1, ReadsKeep DEF Registered
<1>6. LiveProgress'
  BY <1>1, <1>2, <1>4, <1>5 DEF LiveProgress, SignedAt
<1>7. QED
  BY <1>4, <1>6, ReadsKeep, LiveStep DEF Reads

(* What a later place of the live script rests on.                         *)
LEMMA LiveGoes ==
  ASSUME ScriptsInv, run.script = "live", run.at \notin {"register", "read"},
         NEW next \in Places, Goto(next), UNCHANGED <<deployed, enabled>>,
         ChainInv', Registered(LiveVendor)',
         next \in DOMAIN SignedAt => SignedAt[next] \subseteq signalSubmitted'[run.rid],
         next = "settle" =>
           requests'[run.rid].status \in {"Sealed", "Settled"} /\ requests'[run.rid].verdict,
         next = "report" => requests'[run.rid].approved
  PROVE  ScriptsInv'
<1>1. /\ run.nonce \in Nonces /\ run.rid \in RequestId
      /\ run.rid.proposedWallet = run.destination
  BY DEF ScriptsInv, RunInv, Progress, LiveProgress
<1>2. run' \in Runs /\ run'.at = next /\ SameValues
  BY RunGoes DEF ScriptsInv
<1>3. /\ run'.script = "live" /\ run'.nonce = run.nonce /\ run'.rid = run.rid
      /\ run'.destination = run.destination
  BY <1>2 DEF SameValues
<1>4. LiveProgress'
  BY <1>1, <1>2, <1>3 DEF LiveProgress
<1>5. QED
  BY <1>2, <1>3, <1>4, LiveStep
LEMMA LiveKnows ==
  ASSUME ScriptsInv, run.script = "live", run.at \notin {"register", "read"}
  PROVE  /\ Registered(LiveVendor) /\ run.rid \in RequestId
         /\ run.nonce \in Nonces /\ run.destination \in WalletAddress
         /\ run.at \in DOMAIN SignedAt => SignedAt[run.at] \subseteq signalSubmitted[run.rid]
         /\ run.at = "settle" => requests[run.rid].verdict
BY DEF ScriptsInv, RunInv, Progress, LiveProgress, Runs

LEMMA LiveOpens ==
  ASSUME ScriptsInv, At("live", "open"),
         Sends(Direct(OpenChangeRequest(Key, LiveVendor, run.destination, run.nonce)), "signal1")
  PROVE  ScriptsInv'
<1>1. /\ OpenChangeRequest(Key, LiveVendor, run.destination, run.nonce)
      /\ UNCHANGED <<deployed, enabled>> /\ Goto("signal1")
  BY DEF Sends, Succeeded, Direct
<1>2. /\ run.script = "live" /\ run.at = "open"
      /\ Registered(LiveVendor) /\ run.destination \in WalletAddress /\ run.nonce \in Nonces
  BY LiveKnows DEF At
<1>3. PICK w \in WalletAddress, n \in Nonces : w = run.destination /\ n = run.nonce
  BY <1>2
<1>4. ChainInv' /\ UNCHANGED vendors
  BY <1>1, <1>3, ChainOpened DEF ScriptsInv
<1>5. QED
  BY <1>1, <1>2, <1>4, LiveGoes DEF Places, SignedAt, Registered

(* Each of the three signals adds its reviewer.                            *)
LEMMA LiveSignals ==
  ASSUME ScriptsInv, NEW step \in {"signal1", "signal2", "signal3"}, At("live", step),
         Sends(Direct(SubmitOne(LiveReviewer[step])), AfterSignal[step])
  PROVE  ScriptsInv'
<1>1. /\ SubmitOne(LiveReviewer[step])
      /\ UNCHANGED <<deployed, enabled>> /\ Goto(AfterSignal[step])
  BY DEF Sends, Succeeded, Direct
<1>2. LiveReviewer[step] \in Accounts
  BY ScriptAccounts DEF LiveReviewer
<1>3. /\ SubmitPrivateSignal(LiveReviewer[step], run.rid, EncryptedOne(LiveReviewer[step]))
      /\ run.rid \in RequestId /\ EncryptedOne(LiveReviewer[step]) \in Handle
  BY <1>1 DEF SubmitOne
<1>4. PICK sender \in Accounts, id \in RequestId, h \in Handle :
        /\ sender = LiveReviewer[step] /\ id = run.rid
        /\ SubmitPrivateSignal(sender, id, h)
  BY <1>2, <1>3
<1>5. /\ ChainInv' /\ UNCHANGED vendors
      /\ signalSubmitted'[id] = signalSubmitted[id] \cup {sender}
  BY <1>4, ChainSignalled DEF ScriptsInv
<1>6. /\ run.script = "live" /\ run.at = step /\ run.rid = id
      /\ Registered(LiveVendor)
      /\ step \in DOMAIN SignedAt => SignedAt[step] \subseteq signalSubmitted[id]
  BY <1>4, LiveKnows DEF At
<1>7. AfterSignal[step] \in {"signal2", "signal3", "reveal"}
  BY DEF AfterSignal
<1>8. SignedAt[AfterSignal[step]] \subseteq signalSubmitted'[id]
  <2>1. CASE step = "signal1"
    BY <1>4, <1>5, <2>1 DEF SignedAt, AfterSignal, LiveReviewer
  <2>2. CASE step = "signal2"
    BY <1>4, <1>5, <1>6, <2>2 DEF SignedAt, AfterSignal, LiveReviewer
  <2>3. CASE step = "signal3"
    BY <1>4, <1>5, <1>6, <2>3 DEF SignedAt, AfterSignal, LiveReviewer
  <2>4. QED
    BY <2>1, <2>2, <2>3
<1>9. PICK next \in {"signal2", "signal3", "reveal"} : next = AfterSignal[step]
  BY <1>7
<1>10. next \in Places /\ next \notin {"settle", "report"} /\ Registered(LiveVendor)'
  BY <1>5, <1>6, <1>9 DEF Places, Registered
<1>11. QED
  BY <1>1, <1>5, <1>6, <1>8, <1>9, <1>10, LiveGoes

LEMMA LiveReveals ==
  ASSUME ScriptsInv, At("live", "reveal"),
         requests[run.rid].status \in {"Sealed", "Settled"}, requests[run.rid].verdict,
         Reads, Goto("settle")
  PROVE  ScriptsInv'
<1>1. /\ run.script = "live" /\ run.at = "reveal" /\ Registered(LiveVendor)
      /\ SignedAt["settle"] \subseteq signalSubmitted[run.rid]
  BY LiveKnows DEF At, SignedAt
<1>2. ChainInv' /\ UNCHANGED <<vendors, requests, signalSubmitted, deployed, enabled>>
  BY ReadsKeep DEF Reads
<1>3. QED
  BY <1>1, <1>2, LiveGoes DEF Places, Registered

LEMMA LiveSettles ==
  ASSUME ScriptsInv, At("live", "settle"), Sends(Direct(SettleApproval(run.rid)), "report")
  PROVE  ScriptsInv'
<1>1. SettleApproval(run.rid) /\ UNCHANGED <<deployed, enabled>> /\ Goto("report")
  BY DEF Sends, Succeeded, Direct
<1>2. /\ run.script = "live" /\ run.at = "settle" /\ Registered(LiveVendor)
      /\ run.rid \in RequestId /\ requests[run.rid].verdict
      /\ SignedAt["report"] \subseteq signalSubmitted[run.rid]
  BY LiveKnows DEF At, SignedAt
<1>3. PICK id \in RequestId : id = run.rid
  BY <1>2
<1>4. SettleApproval(id)
  BY <1>1, <1>3
<1>5. /\ ChainInv' /\ UNCHANGED signalSubmitted
      /\ requests'[id].approved = requests[id].verdict
      /\ vendors'[LiveVendor].registered <=> vendors[LiveVendor].registered
  BY <1>4, ChainSettled, SettlementEffect, ScriptAccounts DEF ScriptsInv, ChainInv, IInv
<1>6. requests'[run.rid].approved /\ Registered(LiveVendor)'
  BY <1>2, <1>3, <1>5 DEF Registered
<1>7. QED
  BY <1>1, <1>2, <1>5, <1>6, LiveGoes DEF Places

LEMMA LiveVerificationGoes ==
  ASSUME ScriptsInv, VerifyLive
  PROVE  ScriptsInv'
<1>1. DOMAIN LiveReviewer = {"signal1", "signal2", "signal3"}
  BY DEF LiveReviewer
<1>2. QED
  BY <1>1, LiveBegins, LiveRegisters, LiveReads, LiveOpens, LiveSignals, LiveReveals,
     LiveSettles, ReportsKept DEF VerifyLive

-----------------------------------------------------------------------------
(* verify-live-governance-v2.ts                                            *)

LEMMA GovernanceStep ==
  ASSUME ScriptsInv, run.script = "governance", ChainInv', UNCHANGED <<deployed, enabled>>,
         NEW next \in Places, Goto(next),
         next = "propose" => ApproverIs(LiveVendor, Key)',
         next \notin {"propose", "accept", "approve", "rotated"} => RotationDone'
  PROVE  ScriptsInv'
<1>1. run' \in Runs /\ run'.at = next /\ run'.script = "governance"
  BY RunGoes DEF ScriptsInv, SameValues
<1>2. Progress'
  BY <1>1
     DEF Progress, SetupProgress, LiveProgress, GovernanceProgress, PayoutsProgress, At
<1>3. QED
  BY <1>1, <1>2 DEF ScriptsInv, RunInv

LEMMA RotationGoes ==
  ASSUME ScriptsInv, CertifyRotation
  PROVE  ScriptsInv'
<1>1. CASE Starts([NoRun EXCEPT !.script = "governance",
                     !.at = IF ApproverIs(LiveVendor, Key) THEN "propose" ELSE "rotated"])
  <2>1. Reads /\ run' = [NoRun EXCEPT !.script = "governance",
                  !.at = IF ApproverIs(LiveVendor, Key) THEN "propose" ELSE "rotated"]
    BY <1>1 DEF Starts
  <2>2. /\ run' \in Runs /\ run'.script = "governance"
        /\ run'.at = IF ApproverIs(LiveVendor, Key) THEN "propose" ELSE "rotated"
    BY <2>1 DEF NoRun, Runs
  <2>3. ApproverIs(LiveVendor, Key) => ApproverIs(LiveVendor, Key)'
    BY <2>1, ReadsKeep DEF ApproverIs
  <2>4. Progress'
    BY <2>2, <2>3
       DEF Progress, SetupProgress, LiveProgress, GovernanceProgress, PayoutsProgress, At
  <2>5. QED
    BY <2>1, <2>2, <2>4, ReadsKeep DEF ScriptsInv, RunInv
<1>2. CASE /\ At("governance", "propose")
           /\ Sends(BySafe(ProposeApproverRotation(Safe, LiveVendor, RotationCandidate)),
                    "accept")
  <2>1. /\ ProposeApproverRotation(Safe, LiveVendor, RotationCandidate)
        /\ UNCHANGED <<deployed, enabled>> /\ Goto("accept") /\ run.script = "governance"
    BY <1>2 DEF At, Sends, Succeeded, BySafe
  <2>2. ApproverIs(LiveVendor, Key)
    BY <1>2 DEF At, ScriptsInv, RunInv, Progress, GovernanceProgress
  <2>3. ChainInv'
    BY <2>1, <2>2, ChainProposed DEF ScriptsInv
  <2>4. QED
    BY <2>1, <2>3, GovernanceStep DEF Places
<1>3. CASE /\ At("governance", "accept")
           /\ Sends(Direct(AcceptApproverRotation(RotationCandidate, LiveVendor)), "approve")
  <2>1. /\ AcceptApproverRotation(RotationCandidate, LiveVendor)
        /\ UNCHANGED <<deployed, enabled>> /\ Goto("approve") /\ run.script = "governance"
    BY <1>3 DEF At, Sends, Succeeded, Direct
  <2>2. QED
    BY <2>1, ChainRotated, GovernanceStep DEF Places, ScriptsInv
<1>4. CASE /\ At("governance", "approve")
           /\ Sends(Direct(ApproveApproverRotation(Key, LiveVendor, RotationCandidate)),
                    "rotated")
  <2>1. /\ ApproveApproverRotation(Key, LiveVendor, RotationCandidate)
        /\ UNCHANGED <<deployed, enabled>> /\ Goto("rotated") /\ run.script = "governance"
    BY <1>4 DEF At, Sends, Succeeded, Direct
  <2>2. QED
    BY <2>1, ChainRotated, GovernanceStep DEF Places, ScriptsInv
<1>5. CASE At("governance", "rotated") /\ RotationDone /\ Reads /\ Goto("register")
  <2>1. /\ ChainInv' /\ UNCHANGED <<deployed, enabled>> /\ run.script = "governance"
        /\ RotationDone'
    BY <1>5, ReadsKeep DEF At, Reads, RotationDone, ApproverIs
  <2>2. QED
    BY <1>5, <2>1, GovernanceStep DEF Places
<1>6. QED
  BY <1>1, <1>2, <1>3, <1>4, <1>5 DEF CertifyRotation

(* A step of the script's second part, which leaves the live vendor alone. *)
LEMMA RecoveryStep ==
  ASSUME ScriptsInv, run.script = "governance",
         run.at \in {"register", "schedule", "acceptRecovery", "early", "veto", "reschedule",
                     "reaccept", "execute"},
         ChainInv', UNCHANGED <<deployed, enabled>>, vendors'[LiveVendor] = vendors[LiveVendor],
         NEW next \in Places, next # "propose", Goto(next)
  PROVE  ScriptsInv'
<1>1. RotationDone
  BY DEF ScriptsInv, RunInv, Progress, GovernanceProgress
<1>2. RotationDone'
  BY <1>1 DEF RotationDone, ApproverIs
<1>3. QED
  BY <1>2, GovernanceStep
(* What the second part sends leaves the live vendor alone.                *)
LEMMA RecoverySent ==
  ASSUME ScriptsInv,
         \/ BySafe(ScheduleApproverRecovery(Safe, RecoveryVendor, RecoveryCandidate))
         \/ Direct(AcceptApproverRecovery(RecoveryCandidate, RecoveryVendor))
         \/ Direct(VetoApproverRecovery(Key, RecoveryVendor))
         \/ Tolerated(ExecuteApproverRecovery(Safe, RecoveryVendor))
  PROVE  /\ ChainInv' /\ vendors'[LiveVendor] = vendors[LiveVendor]
         /\ UNCHANGED enabled
<1>1. LiveVendor \in Vendors /\ LiveVendor # RecoveryVendor
  BY ScriptAccounts, DistinctAssumption
<1>2. UNCHANGED enabled
  BY DEF BySafe, Direct, Tolerated
<1>3. CASE \/ ScheduleApproverRecovery(Safe, RecoveryVendor, RecoveryCandidate)
           \/ AcceptApproverRecovery(RecoveryCandidate, RecoveryVendor)
           \/ VetoApproverRecovery(Key, RecoveryVendor)
  BY <1>2, <1>3, ChainRecovering DEF ScriptsInv
<1>4. CASE ExecuteApproverRecovery(Safe, RecoveryVendor)
  BY <1>1, <1>2, <1>4, ChainRecovered DEF ScriptsInv
<1>5. CASE UNCHANGED vars
  BY <1>2, <1>5, ChainUnchanged DEF ScriptsInv, vars
<1>6. QED
  BY <1>3, <1>4, <1>5 DEF BySafe, Direct, Tolerated

LEMMA RecoveryGoes ==
  ASSUME ScriptsInv, CertifyRecovery
  PROVE  ScriptsInv'
<1> DEFINE SecondPart == {"register", "schedule", "acceptRecovery", "early", "veto",
                          "reschedule", "reaccept", "execute"}
           Scheduling == BySafe(ScheduleApproverRecovery(Safe, RecoveryVendor,
                                                         RecoveryCandidate))
           Accepting == Direct(AcceptApproverRecovery(RecoveryCandidate, RecoveryVendor))
           Vetoing == Direct(VetoApproverRecovery(Key, RecoveryVendor))
           Executing == ExecuteApproverRecovery(Safe, RecoveryVendor)
<1>1. ASSUME NEW next \in Places, next # "propose", Goto(next), UNCHANGED deployed,
             run.script = "governance", run.at \in SecondPart,
             Scheduling \/ Accepting \/ Vetoing \/ Tolerated(Executing)
      PROVE  ScriptsInv'
  <2>1. /\ ChainInv' /\ vendors'[LiveVendor] = vendors[LiveVendor]
        /\ UNCHANGED <<deployed, enabled>>
    BY <1>1, RecoverySent
  <2>2. QED
    BY <1>1, <2>1, RecoveryStep
<1>2. ASSUME NEW next \in Places, next # "propose", Goto(next), Reads,
             run.script = "governance", run.at \in SecondPart
      PROVE  ScriptsInv'
  BY <1>2, ReadsKeep, RecoveryStep DEF Reads
<1>3. CASE /\ At("governance", "register")
           /\ RegisterOnce(RecoveryVendor, RegisterVendor(Safe, RecoveryVendor, RecoveryWallet,
                Key, TreasuryReviewer, RiskReviewer), "schedule")
  <2>1. /\ ChainInv' /\ UNCHANGED <<deployed, enabled>> /\ Goto("schedule")
        /\ \A u \in Vendors : u # RecoveryVendor => vendors'[u] = vendors[u]
    BY <1>3, ScriptAccounts, VendorAssumption, DistinctAssumption, OnceRegistered
  <2>2. vendors'[LiveVendor] = vendors[LiveVendor]
    BY <2>1, ScriptAccounts, DistinctAssumption
  <2>3. QED
    BY <1>3, <2>1, <2>2, RecoveryStep DEF At, Places
<1>4. CASE At("governance", "schedule") /\ Sends(Scheduling, "acceptRecovery")
  BY <1>1, <1>4 DEF At, Sends, Succeeded, Places
<1>5. CASE At("governance", "acceptRecovery") /\ Sends(Accepting, "early")
  BY <1>1, <1>5 DEF At, Sends, Succeeded, Places
<1>6. CASE At("governance", "early") /\ Sends(Tolerated(Executing), "veto")
  BY <1>1, <1>6 DEF At, Sends, Succeeded, Places
<1>7. CASE At("governance", "veto") /\ Sends(Vetoing, "reschedule")
  BY <1>1, <1>7 DEF At, Sends, Succeeded, Places
<1>8. CASE At("governance", "reschedule") /\ Sends(Scheduling, "reaccept")
  BY <1>1, <1>8 DEF At, Sends, Succeeded, Places
<1>9. CASE At("governance", "reaccept") /\ Sends(Accepting, "execute")
  BY <1>1, <1>9 DEF At, Sends, Succeeded, Places
<1>10. CASE At("governance", "execute") /\ Sends(BySafe(Executing), "report")
  BY <1>1, <1>10 DEF At, Sends, Succeeded, Places, Tolerated
<1>11. CASE At("governance", "schedule") /\ Reads /\ Goto("execute")
  BY <1>2, <1>11 DEF At, Places
<1>12. CASE At("governance", "execute") /\ Reads /\ Goto("report")
  BY <1>2, <1>12 DEF At, Places
<1>13. CASE run.script = "governance" /\ Reports
  BY <1>13, ReportsKept
<1>14. QED
  BY <1>3, <1>4, <1>5, <1>6, <1>7, <1>8, <1>9, <1>10, <1>11, <1>12, <1>13
     DEF CertifyRecovery
-----------------------------------------------------------------------------
(* verify-safe-payouts-v2.ts                                               *)

LEMMA PayoutsStep ==
  ASSUME ScriptsInv, ChainInv', deployed' \subseteq {"safe", "firewall", "token"},
         UNCHANGED enabled, run' \in Runs, run'.script = "payouts", PayoutsProgress'
  PROVE  ScriptsInv'
BY DEF ScriptsInv, RunInv, Progress, SetupProgress, LiveProgress, GovernanceProgress, At

LEMMA PayoutsBegin ==
  ASSUME ScriptsInv, StartPayouts
  PROVE  ScriptsInv'
<1>1. PICK token \in {FALSE, "token" \in deployed} :
        Starts([NoRun EXCEPT !.script = "payouts", !.token = token,
                  !.destination = PayoutWallet,
                  !.at = IF ResumesPause THEN "blockedNative"
                         ELSE IF token THEN "pause" ELSE "token"])
  BY DEF StartPayouts
<1>2. PayoutWallet \in WalletAddress
  BY ScriptAccounts DEF ScriptsInv, ChainInv, IInv, TypeOK, Vendor, PayoutWallet
<1>3. PICK first \in {"blockedNative", "pause", "token"} :
        first = IF ResumesPause THEN "blockedNative" ELSE IF token THEN "pause" ELSE "token"
  OBVIOUS
<1>4. /\ Reads
      /\ run' = [NoRun EXCEPT !.script = "payouts", !.token = token,
                   !.destination = PayoutWallet, !.at = first]
  BY <1>1, <1>3 DEF Starts
<1>5. run' \in Runs /\ run'.script = "payouts" /\ run'.full = FALSE
  <2>1. PICK wallet \in WalletAddress : wallet = PayoutWallet
    BY <1>2
  <2>2. first \in Places /\ token \in BOOLEAN
    <3>1. first \in Places
      BY DEF Places
    <3>2. ("token" \in deployed) = TRUE \/ ("token" \in deployed) = FALSE
      OBVIOUS
    <3>3. token = FALSE \/ token = ("token" \in deployed)
      OBVIOUS
    <3>4. QED
      BY <3>1, <3>2, <3>3
  <2>3. run' = [script |-> "payouts", at |-> first, nonce |-> 0, rid |-> NoRequest,
                destination |-> wallet, token |-> token, input |-> <<>>, full |-> FALSE,
                paid |-> {}]
    BY <1>4, <2>1 DEF NoRun
  <2>4. QED
    BY <2>2, <2>3 DEF Runs, Places
<1>6. PayoutsProgress'
  BY <1>5 DEF PayoutsProgress
<1>7. QED
  BY <1>4, <1>5, <1>6, ReadsKeep, PayoutsStep DEF Reads

(* A step that pays nothing: the places after the payouts are left only    *)
(* for one another.                                                        *)
LEMMA PayoutsGo ==
  ASSUME ScriptsInv, run.script = "payouts",
         run.at \in {"pause", "blockedNative", "blockedToken", "unpause"},
         NEW next \in {"blockedNative", "blockedToken", "unpause", "report"}, Goto(next),
         ChainInv', UNCHANGED <<deployed, enabled>>
  PROVE  ScriptsInv'
<1>1. run' \in Runs /\ run'.at = next /\ SameValues
  BY RunGoes DEF ScriptsInv, Places
<1>2. run.full => run.paid = Assets
  BY DEF ScriptsInv, RunInv, Progress, PayoutsProgress
<1>3. run'.script = "payouts" /\ PayoutsProgress'
  BY <1>1, <1>2 DEF SameValues, PayoutsProgress
<1>4. QED
  BY <1>1, <1>3, PayoutsStep DEF ScriptsInv, RunInv

(* A payout that is certified has reached the destination.                 *)
LEMMA PayoutsPay ==
  ASSUME ScriptsInv,
         \/ At("payouts", "payNative") /\ CertifyPayout("native", "payToken")
         \/ At("payouts", "payToken") /\ CertifyPayout("token", "pause")
  PROVE  ScriptsInv'
<1>1. run \in Runs /\ run.script = "payouts" /\ PayoutsProgress /\ Reads
  BY DEF ScriptsInv, RunInv, Progress, At, CertifyPayout
<1>2. CASE At("payouts", "payNative") /\ CertifyPayout("native", "payToken")
  <2>1. run' = [run EXCEPT !.at = "payToken", !.paid = @ \cup {"native"}]
    BY <1>2 DEF CertifyPayout, BalanceGrew
  <2>2. /\ run' \in Runs /\ run'.script = "payouts" /\ run'.at = "payToken"
        /\ "native" \in run'.paid
    BY <1>1, <2>1 DEF Runs, Assets
  <2>3. PayoutsProgress'
    BY <2>2 DEF PayoutsProgress
  <2>4. QED
    BY <1>1, <2>2, <2>3, ReadsKeep, PayoutsStep DEF Reads
<1>3. CASE At("payouts", "payToken") /\ CertifyPayout("token", "pause")
  <2>1. run' = [run EXCEPT !.at = "pause", !.paid = @ \cup {"token"}]
    BY <1>3 DEF CertifyPayout, BalanceGrew
  <2>2. run.full => "native" \in run.paid
    BY <1>1, <1>3 DEF PayoutsProgress, At
  <2>3. /\ run' \in Runs /\ run'.script = "payouts" /\ run'.at = "pause"
        /\ run'.paid = run.paid \cup {"token"} /\ run.paid \subseteq Assets
        /\ run'.full = run.full
    BY <1>1, <2>1 DEF Runs, Assets
  <2>4. PayoutsProgress'
    BY <2>2, <2>3 DEF PayoutsProgress, Assets
  <2>5. QED
    BY <1>1, <2>3, <2>4, ReadsKeep, PayoutsStep DEF Reads
<1>4. QED
  BY <1>2, <1>3

LEMMA PayoutsCertified ==
  ASSUME ScriptsInv, CertifyPayouts
  PROVE  ScriptsInv'
<1>1. CASE /\ At("payouts", "token")
           /\ deployed' = deployed \cup {"token"}
           /\ run' = [run EXCEPT !.at = "payNative", !.token = TRUE, !.full = TRUE]
           /\ UNCHANGED <<vars, enabled>>
  <2>1. /\ run' \in Runs /\ run'.script = "payouts" /\ run'.at = "payNative"
    BY <1>1 DEF At, Runs, ScriptsInv, RunInv
  <2>2. PayoutsProgress'
    BY <2>1 DEF PayoutsProgress
  <2>3. ChainInv' /\ deployed' \subseteq {"safe", "firewall", "token"}
    BY <1>1, ChainUnchanged DEF ScriptsInv, RunInv
  <2>4. QED
    BY <1>1, <2>1, <2>2, <2>3, PayoutsStep
<1>2. CASE At("payouts", "pause") /\ Sends(BySafe(Pause(Safe)), "blockedNative")
  <2>1. /\ Pause(Safe) /\ UNCHANGED <<deployed, enabled>> /\ Goto("blockedNative")
        /\ run.script = "payouts" /\ run.at = "pause"
    BY <1>2 DEF At, Sends, Succeeded, BySafe
  <2>2. QED
    BY <2>1, ChainAdministered, PayoutsGo DEF ScriptsInv
<1>3. QED
  BY <1>1, <1>2, PayoutsPay DEF CertifyPayouts

LEMMA PayoutsEnd ==
  ASSUME ScriptsInv, BlockedNative \/ BlockedToken \/ LiftPause \/ ReportPayouts
  PROVE  ScriptsInv'
<1>1. CASE BlockedNative
  <2>1. PICK next \in {"blockedToken", "unpause"} :
          next = IF run.token THEN "blockedToken" ELSE "unpause"
    OBVIOUS
  <2>2. Reads /\ Goto(next) /\ run.script = "payouts" /\ run.at = "blockedNative"
    BY <1>1, <2>1 DEF BlockedNative, At
  <2>3. QED
    BY <2>2, ReadsKeep, PayoutsGo DEF Reads
<1>2. CASE BlockedToken
  BY <1>2, ReadsKeep, PayoutsGo DEF BlockedToken, At, Reads
<1>3. CASE LiftPause
  <2>1. /\ Unpause(Safe) /\ UNCHANGED <<deployed, enabled>> /\ Goto("report")
        /\ run.script = "payouts" /\ run.at = "unpause"
    BY <1>3 DEF LiftPause, At, Sends, Succeeded, BySafe
  <2>2. QED
    BY <2>1, ChainAdministered, PayoutsGo DEF ScriptsInv
<1>4. CASE ReportPayouts
  BY <1>4, ReportsKept DEF ReportPayouts
<1>5. QED
  BY <1>1, <1>2, <1>3, <1>4
-----------------------------------------------------------------------------
(* What happens whether or not a script runs, and all steps together.      *)

(* The panel's vendor has no request that somebody could settle, and one   *)
(* that the live script has seen approved can only be settled as such.     *)
LEMMA SettledMeanwhile ==
  ASSUME ScriptsInv, SettledByOthers
  PROVE  ScriptsInv'
<1>1. PICK id \in RequestId : SettleApproval(id)
  BY DEF SettledByOthers
<1>2. UNCHANGED <<deployed, enabled, run>>
  BY DEF SettledByOthers
<1>3. /\ ChainInv' /\ TypeOK /\ RequestShape
  BY <1>1, ChainSettled DEF ScriptsInv, ChainInv, IInv
<1>4. /\ \A v \in Vendors :
           /\ vendors'[v].registered <=> vendors[v].registered
           /\ vendors'[v].approver = vendors[v].approver
           /\ vendors'[v].approverEpoch = vendors[v].approverEpoch
           /\ Seats(vendors'[v]) = Seats(vendors[v])
           /\ v # id.vendorId => vendors'[v] = vendors[v]
      /\ requests[id].status = "Sealed" /\ requests'[id].status = "Settled"
      /\ requests'[id].verdict = requests[id].verdict
      /\ \A i \in RequestId : i # id => requests'[i] = requests[i]
      /\ UNCHANGED signalSubmitted
  BY <1>1, <1>3, SettlementEffect
<1>5. ~requests[id].approved
  BY <1>3, <1>4 DEF RequestShape, WellFormed
<1>6. ASSUME NEW input \in PanelInputs \cup {DemoInput}, RegisteredAsTyped(input)
      PROVE  RegisteredAsTyped(input)'
  <2>1. input[1] \in Vendors /\ input[1] # id.vendorId
    BY <1>4, <1>6, VendorAssumption DEF RegisteredAsTyped, DemoInput
  <2>2. vendors'[input[1]] = vendors[input[1]]
    BY <1>4, <2>1
  <2>3. \A i \in RequestId : i.vendorId = input[1] => requests'[i] = requests[i]
    BY <1>4, <2>1
  <2>4. QED
    BY <1>6, <2>2, <2>3 DEF RegisteredAsTyped, Registered
<1>7. SetupProgress'
  <2>1. Registered(DemoVendor) => Registered(DemoVendor)'
    BY <1>4, ScriptAccounts DEF Registered
  <2>2. At("panel", "report")' => RegisteredAsTyped(run.input)'
    <3> SUFFICES ASSUME At("panel", "report")'
                 PROVE  RegisteredAsTyped(run.input)'
      OBVIOUS
    <3>1. run.input \in PanelInputs /\ RegisteredAsTyped(run.input)
      BY <1>2 DEF ScriptsInv, RunInv, Progress, SetupProgress, At
    <3>2. PICK input \in PanelInputs : input = run.input
      BY <3>1
    <3>3. RegisteredAsTyped(input)'
      BY <1>6, <3>1, <3>2
    <3>4. QED
      BY <1>2, <3>2, <3>3 DEF RegisteredAsTyped
  <2>3. RegisteredAsTyped(DemoInput) => RegisteredAsTyped(DemoInput)'
    BY <1>6 DEF DemoInput, RegisteredAsTyped
  <2>4. QED
    BY <1>2, <2>1, <2>2, <2>3 DEF ScriptsInv, RunInv, Progress, SetupProgress, At
<1>8. LiveProgress'
  <2>1. Registered(LiveVendor) <=> Registered(LiveVendor)'
    BY <1>4, ScriptAccounts DEF Registered
  <2>2. QED
    BY <1>2, <1>4, <1>5, <2>1 DEF ScriptsInv, RunInv, Progress, LiveProgress, SignedAt
<1>9. GovernanceProgress' /\ PayoutsProgress'
  BY <1>2, <1>4, ScriptAccounts
     DEF ScriptsInv, RunInv, Progress, GovernanceProgress, PayoutsProgress, RotationDone,
         ApproverIs
<1>10. QED
  BY <1>2, <1>3, <1>7, <1>8, <1>9 DEF ScriptsInv, RunInv, Progress

(* Nothing that a script knows grows old.                                  *)
LEMMA NothingHappens ==
  ASSUME ScriptsInv, ChainInv', UNCHANGED <<vendors, requestVars, deployed, enabled, run>>
  PROVE  ScriptsInv'
<1>1. UNCHANGED <<requests, signalSubmitted>>
  BY DEF requestVars
<1>2. SetupProgress'
  BY <1>1 DEF ScriptsInv, RunInv, Progress, SetupProgress, At, RegisteredAsTyped, Registered
<1>3. LiveProgress'
  BY <1>1 DEF ScriptsInv, RunInv, Progress, LiveProgress, Registered
<1>4. GovernanceProgress' /\ PayoutsProgress'
  BY DEF ScriptsInv, RunInv, Progress, GovernanceProgress, PayoutsProgress, RotationDone,
         ApproverIs
<1>5. QED
  BY <1>2, <1>3, <1>4 DEF ScriptsInv, RunInv, Progress

LEMMA ScriptsInitially == ScriptsInit => ScriptsInv
<1> SUFFICES ASSUME ScriptsInit PROVE ScriptsInv
  OBVIOUS
<1>1. IInv /\ run = NoRun /\ deployed = {} /\ enabled = FALSE
  BY InitIInv DEF ScriptsInit
<1>2. \A v \in Vendors : /\ vendors[v] = NoVendor
                         /\ rotations[v] = NoRotation /\ recoveries[v] = NoRecovery
  BY DEF ScriptsInit, Init
<1>3. LiveRotation
  BY <1>2, ScriptAccounts
     DEF LiveRotation, RotationPending, RecoveryPending, RotationDone, ApproverIs, NoVendor,
         NoRotation, NoRecovery
<1>4. CandidateRecovery
  BY <1>2, ScriptAccounts
     DEF CandidateRecovery, RotationPending, RecoveryPending, ApproverIs, NoVendor,
         NoRotation, NoRecovery
<1>5. Progress
  BY <1>1, NoRunTyped
     DEF Progress, SetupProgress, LiveProgress, GovernanceProgress, PayoutsProgress, At
<1>6. QED
  BY <1>1, <1>3, <1>4, <1>5, NoRunTyped DEF ScriptsInv, ChainInv, RunInv

LEMMA ScriptsStep ==
  ASSUME ScriptsInv, [ScriptsNext]_scriptVars
  PROVE  ScriptsInv'
<1>1. CASE Ends
  <2>1. run' \in Runs /\ run'.script = "none" /\ Reads
    BY <1>1, NoRunTyped DEF Ends
  <2>2. QED
    BY <2>1, ReadsKeep, UnclaimedStep
<1>2. CASE TimePasses
  BY <1>2, ChainTicks, NothingHappens DEF TimePasses, Tick, ScriptsInv
<1>3. CASE UNCHANGED scriptVars
  BY <1>3, ChainUnchanged, NothingHappens DEF scriptVars, vars, ScriptsInv
<1>4. QED
  BY <1>1, <1>2, <1>3, DeploymentsGo, ConfigurationGoes, VendorSetupGoes,
     LiveVerificationGoes, RotationGoes, RecoveryGoes, PayoutsBegin, PayoutsCertified,
     PayoutsEnd, SettledMeanwhile
     DEF ScriptsNext
-----------------------------------------------------------------------------
(* What is reported.                                                       *)

(* A report is made by the script that is at its end, and by none other.   *)
LEMMA WhoReports ==
  ASSUME ScriptsNext, run.at = "report", run'.at = "reported"
  PROVE  \/ At("v2", "report") /\ NewDeployment /\ Goto("reported")
         \/ /\ Reports
            /\ \/ run.script \in {"safe", "demo", "panel", "governance"}
               \/ run.script = "configure" /\ owner = Safe /\ enabled
               \/ run.script = "live" /\ vendors[LiveVendor].payoutWallet = run.destination
               \/ run.script = "payouts" /\ ~paused
<1>1. NoRun.at = "start"
  BY DEF NoRun
<1>2. run # NoRun /\ run' # NoRun /\ run' # run
  BY <1>1
<1>3. ~Ends /\ ~SettledByOthers /\ ~TimePasses
  BY <1>2 DEF Ends, SettledByOthers, TimePasses
<1>4. \A first : ~Starts(first)
  BY <1>2 DEF Starts
<1>5. \A script : \A step : step # "report" => ~At(script, step)
  BY DEF At
<1>6. ~StartPayouts /\ ~CertifyPayouts /\ ~BlockedNative /\ ~BlockedToken /\ ~LiftPause
  BY <1>4, <1>5 DEF StartPayouts, CertifyPayouts, BlockedNative, BlockedToken, LiftPause
<1>7. CASE DeploySafe \/ DeployV2 \/ ConfigureSafe \/ SetupDemoVendor \/ AdminPanel
  BY <1>4, <1>5, <1>7 DEF DeploySafe, DeployV2, ConfigureSafe, SetupDemoVendor, AdminPanel
<1>8. CASE VerifyLive
  <2>1. "report" \notin DOMAIN LiveReviewer
    BY DEF LiveReviewer
  <2>2. QED
    BY <1>4, <1>5, <1>8, <2>1 DEF VerifyLive
<1>9. CASE CertifyRotation
  BY <1>4, <1>5, <1>9 DEF CertifyRotation
<1>10. CASE CertifyRecovery
  BY <1>5, <1>10 DEF CertifyRecovery
<1>11. CASE ReportPayouts
  BY <1>11 DEF ReportPayouts
<1>12. QED
  BY <1>3, <1>6, <1>7, <1>8, <1>9, <1>10, <1>11 DEF ScriptsNext

LEMMA ReportIsTrue ==
  ASSUME ScriptsInv, ScriptsNext, run.at = "report", run'.at = "reported"
  PROVE  Claim'
<1>1. CASE At("v2", "report") /\ NewDeployment /\ Goto("reported")
  <2>1. run'.script = "v2"
    BY <1>1, RunGoes DEF ScriptsInv, Places, SameValues, At
  <2>2. pendingOwner' = Safe /\ enabled' = FALSE
    BY <1>1 DEF NewDeployment
  <2>3. QED
    BY <2>1, <2>2 DEF Claim
<1>2. ASSUME Reports
      PROVE  /\ SameValues /\ UNCHANGED <<vars, deployed, enabled>>
             /\ UNCHANGED <<vendors, requests, signalSubmitted, rotations, recoveries,
                            proposal, now, owner, paused>>
  BY <1>2, RunGoes
     DEF Reports, Reads, ScriptsInv, Places, vars, requestVars, governanceVars, adminVars
<1>3. CASE Reports /\ run.script = "safe"
  <2>1. run'.script = "safe" /\ "safe" \in deployed'
    BY <1>2, <1>3 DEF SameValues, ScriptsInv, RunInv, Progress, SetupProgress, At
  <2>2. QED
    BY <2>1 DEF Claim
<1>4. CASE Reports /\ run.script = "demo"
  <2>1. Registered(DemoVendor) /\ (run.full => RegisteredAsTyped(DemoInput))
    BY <1>2, <1>4 DEF ScriptsInv, RunInv, Progress, SetupProgress, At
  <2>2. run'.script = "demo" /\ run'.full = run.full
    BY <1>2, <1>4 DEF SameValues
  <2>3. UNCHANGED vendors
    BY <1>2, <1>4
  <2>4. Registered(DemoVendor)'
    BY <2>1, <2>3 DEF Registered
  <2>5. run.full =>
          /\ vendors[DemoVendor].payoutWallet = DemoWallet
          /\ Seats(vendors[DemoVendor]) = {DemoSeats[1], DemoSeats[2], DemoSeats[3]}
    BY <2>1 DEF RegisteredAsTyped, DemoInput
  <2>6. QED
    BY <2>2, <2>3, <2>4, <2>5 DEF Claim
<1>5. CASE Reports /\ run.script = "panel"
  <2>1. run'.script = "panel" /\ RegisteredAsTyped(run.input)'
    BY <1>2, <1>5
       DEF SameValues, ScriptsInv, RunInv, Progress, SetupProgress, At, RegisteredAsTyped,
           Registered
  <2>2. QED
    BY <2>1 DEF Claim, RegisteredAsTyped
<1>6. CASE Reports /\ run.script = "governance"
  <2>1. RotationDone /\ LiveRotation /\ CandidateRecovery
    BY <1>6 DEF ScriptsInv, ChainInv, RunInv, Progress, GovernanceProgress
  <2>2. /\ {Key, RotationCandidate} \subseteq proposal[LiveVendor].voters
        /\ ~RotationPending(LiveVendor)
    BY <2>1 DEF LiveRotation
  <2>3. /\ ApproverIs(RecoveryVendor, RecoveryCandidate)
        /\ vendors[RecoveryVendor].approverEpoch > 1
        => /\ RecoveryCandidate \in proposal[RecoveryVendor].voters
           /\ now >= proposal[RecoveryVendor].since + RecoveryDelay
    BY <2>1 DEF CandidateRecovery
  <2>4. run'.script = "governance"
    BY <1>2, <1>6 DEF SameValues
  <2>5. QED
    BY <1>2, <1>6, <2>2, <2>3, <2>4 DEF Claim, RotationPending, ApproverIs
<1>7. CASE Reports /\ run.script = "configure" /\ owner = Safe /\ enabled
  <2>1. run'.script = "configure" /\ owner' = Safe /\ enabled'
    BY <1>2, <1>7 DEF SameValues
  <2>2. QED
    BY <2>1 DEF Claim
<1>8. CASE Reports /\ run.script = "live"
           /\ vendors[LiveVendor].payoutWallet = run.destination
  <2>1. /\ requests[run.rid].approved
        /\ {Key, TreasuryReviewer, RiskReviewer} \subseteq signalSubmitted[run.rid]
        /\ run.rid.proposedWallet = run.destination
    BY <1>8 DEF ScriptsInv, RunInv, Progress, LiveProgress, SignedAt
  <2>2. run'.script = "live" /\ run'.rid = run.rid
    BY <1>2, <1>8 DEF SameValues
  <2>3. QED
    BY <1>2, <1>8, <2>1, <2>2 DEF Claim
<1>9. CASE Reports /\ run.script = "payouts" /\ ~paused
  <2>1. run.full => run.paid = Assets
    BY <1>9 DEF ScriptsInv, RunInv, Progress, PayoutsProgress
  <2>2. run'.script = "payouts" /\ run'.full = run.full /\ run'.paid = run.paid
    BY <1>2, <1>9 DEF SameValues
  <2>3. QED
    BY <1>2, <1>9, <2>1, <2>2 DEF Claim
<1>10. QED
  BY <1>1, <1>3, <1>4, <1>5, <1>6, <1>7, <1>8, <1>9, WhoReports

(***************************************************************************)
(* The scripts' state is of its type (scripts/*.ts: a script is at one of  *)
(* its places, and holds a nonce, a request, a wallet, what was typed).    *)
(***************************************************************************)
THEOREM ScriptsTyped == ScriptsSpec => []ScriptsTypeOK
<1>1. ScriptsInv => ScriptsTypeOK
  BY DEF ScriptsInv, ChainInv, IInv, RunInv, ScriptsTypeOK
<1>2. QED
  BY <1>1, ScriptsInitially, ScriptsStep, PTL DEF ScriptsSpec

(***************************************************************************)
(* Whichever runs died where, whoever settled in the meantime, whatever    *)
(* the panel has registered and however many deployments there were, what  *)
(* a script reports of what it has done and read back is so (the last      *)
(* lines of verify-live-v2.ts, verify-live-governance-v2.ts,               *)
(* verify-safe-payouts-v2.ts and the others).                              *)
(***************************************************************************)
THEOREM ReportsAreTrue == ScriptsSpec => ReportedIsTrue
<1>1. ScriptsInv /\ [ScriptsNext]_scriptVars =>
        [run.at = "report" /\ run'.at = "reported" => Claim']_scriptVars
  BY ReportIsTrue
<1>2. QED
  BY <1>1, ScriptsInitially, ScriptsStep, PTL DEF ScriptsSpec, ReportedIsTrue
-----------------------------------------------------------------------------
(* What the firewall guarantees whoever deploys it again and whichever     *)
(* scripts die: one key signs for everybody, yet wallets and approvers     *)
(* change only by the rules.                                               *)

(* A vendor's wallet moves by a request that everybody endorsed, and its   *)
(* approver changes with the consents.                                     *)
RuledChange(v) ==
  /\ vendors'[v].payoutWallet # vendors[v].payoutWallet =>
       \E id \in RequestId : MovedBy(v, id)
  /\ vendors'[v].approver # vendors[v].approver => Consents(v)

LEMMA RuledUnchanged ==
  ASSUME NEW v \in Vendors, vendors'[v] = vendors[v]
  PROVE  RuledChange(v)
BY DEF RuledChange

LEMMA RuledSettlement ==
  ASSUME IInv, NEW id \in RequestId, SettleApproval(id), NEW v \in Vendors
  PROVE  RuledChange(v)
<1>1. /\ vendors'[v].approver = vendors[v].approver
      /\ v # id.vendorId => vendors'[v] = vendors[v]
  BY SettlementEffect DEF IInv
<1>2. ~requests[id].verdict => UNCHANGED vendors
  BY DEF SettleApproval
<1>3. QED
  BY <1>1, <1>2, SettlementMoves DEF RuledChange

LEMMA RuledRotation ==
  ASSUME IInv, NEW sender \in Accounts, NEW u \in Vendors, NEW c,
         \/ AcceptApproverRotation(sender, u)
         \/ ApproveApproverRotation(sender, u, c),
         NEW v \in Vendors
  PROVE  RuledChange(v)
<1>1. rotations[u] \in ApproverRotation /\ TypeOK
  BY DEF IInv, TypeOK
<1>2. ASSUME NEW marked \in ApproverRotation, FinalizeRotationIfReady(u, marked)
      PROVE  NoMove(v)
  <2>1. marked.newApprover \in Address
    BY DEF ApproverRotation
  <2>2. QED
    BY <1>1, <1>2, <2>1, RotationChanges, VendorsUntouched, ChangeApproverKeepsWallets
<1>3. CASE AcceptApproverRotation(sender, u)
  <2> DEFINE marked == [rotations[u] EXCEPT !.candidateAccepted = TRUE]
  <2>1. /\ marked \in ApproverRotation
        /\ marked.newApprover = rotations[u].newApprover
        /\ marked.currentApproved => rotations[u].currentApproved
    BY <1>1 DEF ApproverRotation
  <2>2. /\ FinalizeRotationIfReady(u, marked)
        /\ RotationPending(u) /\ Registered(u) /\ Consented(u, sender)
        /\ sender = rotations[u].newApprover
    BY <1>3 DEF AcceptApproverRotation
  <2> HIDE DEF marked
  <2>3. QED
    BY <1>2, <2>1, <2>2, RotationConsents DEF NoMove, RuledChange
<1>4. CASE ApproveApproverRotation(sender, u, c)
  <2> DEFINE marked == [rotations[u] EXCEPT !.currentApproved = TRUE]
  <2>1. /\ marked \in ApproverRotation
        /\ marked.newApprover = rotations[u].newApprover
        /\ marked.candidateAccepted => rotations[u].candidateAccepted
    BY <1>1 DEF ApproverRotation
  <2>2. /\ FinalizeRotationIfReady(u, marked)
        /\ RotationPending(u) /\ Registered(u) /\ Consented(u, sender)
        /\ sender = vendors[u].approver
    BY <1>4 DEF ApproveApproverRotation, IsApprover
  <2> HIDE DEF marked
  <2>3. QED
    BY <1>2, <2>1, <2>2, RotationConsents DEF NoMove, RuledChange
<1>5. QED
  BY <1>3, <1>4

LEMMA RuledRecovery ==
  ASSUME IInv, NEW sender \in Accounts, NEW u \in Vendors, ExecuteApproverRecovery(sender, u),
         NEW v \in Vendors
  PROVE  RuledChange(v)
<1>1. recoveries[u].newApprover \in Address /\ ChangeApprover(u, recoveries[u].newApprover)
  BY DEF IInv, TypeOK, ApproverRecovery, ExecuteApproverRecovery
<1>2. NoMove(v)
  BY <1>1, ChangeApproverKeepsWallets DEF IInv
<1>3. QED
  BY <1>2, RecoveryConsents DEF NoMove, RuledChange

LEMMA RuledRegistration ==
  ASSUME IInv, NEW u \in Vendors, NEW w, NEW a, NEW t, NEW r,
         RegisterVendor(Safe, u, w, a, t, r), NEW v \in Vendors, Registered(v)
  PROVE  RuledChange(v)
<1>1. u # v /\ vendors'[v] = vendors[v]
  BY DEF RegisterVendor, IInv, TypeOK, Registered
<1>2. QED
  BY <1>1, RuledUnchanged

(* Transactions that have nothing to do with wallets or approvers.         *)
LEMMA RuledOthers ==
  ASSUME NEW sender, NEW v \in Vendors, NEW u, NEW w, NEW n, NEW id, NEW h, NEW c,
         \/ OpenChangeRequest(sender, u, w, n) \/ SubmitPrivateSignal(sender, id, h)
         \/ ProposeApproverRotation(sender, u, c) \/ ScheduleApproverRecovery(sender, u, c)
         \/ AcceptApproverRecovery(sender, u) \/ VetoApproverRecovery(sender, u)
         \/ AcceptOwnership(sender) \/ Pause(sender) \/ Unpause(sender)
  PROVE  RuledChange(v)
<1>1. UNCHANGED vendors
  BY DEF OpenChangeRequest, SubmitPrivateSignal, ProposeApproverRotation,
         ScheduleApproverRecovery, AcceptApproverRecovery, VetoApproverRecovery, DropRecovery,
         AcceptOwnership, Pause, Unpause
<1>2. QED
  BY <1>1, RuledUnchanged

LEMMA RuledReading ==
  ASSUME Reads, NEW v \in Vendors
  PROVE  RuledChange(v)
BY RuledUnchanged DEF Reads, vars

LEMMA RuledOnceRegistered ==
  ASSUME IInv, NEW u \in Vendors, NEW w, NEW a, NEW t, NEW r, NEW next,
         \/ RegisterOnce(u, RegisterVendor(Safe, u, w, a, t, r), next)
         \/ Sends(BySafe(RegisterVendor(Safe, u, w, a, t, r)), next),
         NEW v \in Vendors, Registered(v)
  PROVE  RuledChange(v)
BY RuledReading, RuledRegistration DEF RegisterOnce, Sends, Succeeded, BySafe
LEMMA RuledStep ==
  ASSUME ScriptsInv, [ScriptsNext]_scriptVars, ~NewDeployment,
         NEW v \in Vendors, Registered(v)
  PROVE  RuledChange(v)
<1> USE DEF Sends, Succeeded, BySafe, Direct, Starts, Reports, At
<1>1. IInv /\ (Reads => RuledChange(v)) /\ (UNCHANGED vars => RuledChange(v))
  BY RuledReading, RuledUnchanged DEF ScriptsInv, ChainInv, vars
<1>2. CASE DeploySafe \/ DeployV2 \/ ConfigureSafe
  BY <1>1, <1>2, RuledOthers DEF DeploySafe, DeployV2, ConfigureSafe, AcceptAndEnable
<1>3. CASE SetupDemoVendor
  BY <1>1, <1>3, RuledRegistration, ScriptAccounts DEF SetupDemoVendor, DemoRegistration
<1>4. CASE AdminPanel
  <2>1. ASSUME At("panel", "register"), Sends(RegisterVendorViaSafe(run.input), "report")
        PROVE  RuledChange(v)
    <3>1. PICK input \in PanelInputs : input = run.input
      BY <2>1 DEF ScriptsInv, RunInv, Progress, SetupProgress
    <3>2. input[1] \in Vendors
      BY VendorAssumption
    <3>3. RegisterVendor(Safe, input[1], input[2], input[3], input[4], input[5])
      BY <2>1, <3>1 DEF RegisterVendorViaSafe
    <3>4. QED
      BY <1>1, <3>2, <3>3, RuledRegistration
  <2>2. QED
    BY <1>1, <1>4, <2>1 DEF AdminPanel
<1>5. CASE VerifyLive
  <2>1. ASSUME At("live", "settle"), SettleApproval(run.rid)
        PROVE  RuledChange(v)
    <3>1. PICK id \in RequestId : id = run.rid
      BY <2>1, LiveKnows
    <3>2. QED
      BY <1>1, <2>1, <3>1, RuledSettlement
  <2>2. ASSUME NEW reviewer, SubmitOne(reviewer)
        PROVE  RuledChange(v)
    BY <2>2, RuledOthers DEF SubmitOne
  <2>3. ASSUME RegisterOnce(LiveVendor, RegisterVendor(Safe, LiveVendor, Key, Key,
                              TreasuryReviewer, RiskReviewer), "read")
        PROVE  RuledChange(v)
    BY <1>1, <2>3, RuledOnceRegistered, ScriptAccounts
  <2>4. QED
    BY <1>1, <1>5, <2>1, <2>2, <2>3, RuledOthers DEF VerifyLive
<1>6. CASE CertifyRotation
  BY <1>1, <1>6, RuledOthers, RuledRotation, ScriptAccounts DEF CertifyRotation
<1>7. CASE CertifyRecovery
  <2>1. ASSUME Tolerated(ExecuteApproverRecovery(Safe, RecoveryVendor))
        PROVE  RuledChange(v)
    BY <1>1, <2>1, RuledRecovery, ScriptAccounts DEF Tolerated
  <2>2. ASSUME RegisterOnce(RecoveryVendor, RegisterVendor(Safe, RecoveryVendor,
                  RecoveryWallet, Key, TreasuryReviewer, RiskReviewer), "schedule")
        PROVE  RuledChange(v)
    BY <1>1, <2>2, RuledOnceRegistered, ScriptAccounts
  <2>3. ASSUME ScheduleApproverRecovery(Safe, RecoveryVendor, RecoveryCandidate)
        PROVE  RuledChange(v)
    BY <2>3, RuledOthers
  <2>4. ASSUME \/ AcceptApproverRecovery(RecoveryCandidate, RecoveryVendor)
               \/ VetoApproverRecovery(Key, RecoveryVendor)
        PROVE  RuledChange(v)
    BY <2>4, RuledOthers
  <2>5. ASSUME ExecuteApproverRecovery(Safe, RecoveryVendor)
        PROVE  RuledChange(v)
    BY <1>1, <2>5, RuledRecovery, ScriptAccounts
  <2>6. QED
    BY <1>1, <1>7, <2>1, <2>2, <2>3, <2>4, <2>5 DEF CertifyRecovery
<1>8. CASE StartPayouts \/ CertifyPayouts
  BY <1>1, <1>8, RuledOthers DEF StartPayouts, CertifyPayouts, CertifyPayout
<1>9. CASE BlockedNative \/ BlockedToken \/ LiftPause \/ ReportPayouts \/ Ends
  BY <1>1, <1>9, RuledOthers DEF BlockedNative, BlockedToken, LiftPause, ReportPayouts, Ends
<1>10. CASE SettledByOthers
  BY <1>1, <1>10, RuledSettlement DEF SettledByOthers
<1>11. CASE TimePasses \/ UNCHANGED scriptVars
  BY <1>1, <1>11, RuledUnchanged DEF TimePasses, Tick, scriptVars
<1>12. QED
  BY <1>2, <1>3, <1>4, <1>5, <1>6, <1>7, <1>8, <1>9, <1>10, <1>11 DEF ScriptsNext

(***************************************************************************)
(* The scripts hold every key there is, and any of them may die anywhere;  *)
(* still a registered vendor's wallet moves only by a request that all     *)
(* three seats endorsed, and its approver changes only with the consents   *)
(* or after the delay (QeltrunPayoutFirewallV2.sol), until an operator     *)
(* deploys another firewall.                                               *)
(***************************************************************************)
THEOREM RulesHoldForTheKey ==
  ScriptsSpec =>
    [][NewDeployment \/ \A v \in Vendors : Registered(v) => RuledChange(v)]_scriptVars
<1>1. ScriptsInv /\ [ScriptsNext]_scriptVars =>
        [NewDeployment \/ \A v \in Vendors : Registered(v) => RuledChange(v)]_scriptVars
  BY RuledStep
<1>2. QED
  BY <1>1, ScriptsInitially, ScriptsStep, PTL DEF ScriptsSpec

(***************************************************************************)
(* On every firewall the scripts deploy: three different accounts hold the *)
(* seats, a verdict is three ones, no handle counts twice, and consents    *)
(* were given by those they are held against.                              *)
(***************************************************************************)
THEOREM ContractSafeUnderScripts ==
  ScriptsSpec =>
    [](SeatsAreIndependent /\ VerdictIsUnanimity /\ HandleCountsOnce /\ ConsentIsGenuine)
<1>1. ScriptsInv =>
        SeatsAreIndependent /\ VerdictIsUnanimity /\ HandleCountsOnce /\ ConsentIsGenuine
  <2> SUFFICES ASSUME IInv
               PROVE  /\ SeatsAreIndependent /\ VerdictIsUnanimity
                      /\ HandleCountsOnce /\ ConsentIsGenuine
    BY DEF ScriptsInv, ChainInv
  <2>1. SeatsAreIndependent
    BY SeatsCounted DEF SeatsAreIndependent
  <2>2. QED
    BY <2>1, VerdictRead DEF IInv, HandlesRecorded
<1>2. QED
  BY <1>1, ScriptsInitially, ScriptsStep, PTL DEF ScriptsSpec
=============================================================================
