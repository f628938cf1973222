------------------------------- MODULE Console -------------------------------
(***************************************************************************)
(* A browser tab with the reviewer console (web/components/console, on     *)
(* web/lib), composed with the firewall.  Everybody else, other tabs       *)
(* included, is the firewall's own next-state relation.                    *)
(*                                                                         *)
(* The tab renders what separate queries, each polled every four seconds,  *)
(* have last read; a click works with the values of that rendering until   *)
(* it is done, whatever the polls read in the meantime.  A wallet prompt,  *)
(* the gateway and the wait for a receipt are steps of their own; each may *)
(* fail, and a transaction whose receipt is no longer waited for may still *)
(* be mined.  What is only displayed (the gate's verdict, counts, labels)  *)
(* is left out, and so is the pause: it disables two buttons and reverts   *)
(* transactions, which any of them may do here.                            *)
(***************************************************************************)
EXTENDS FirewallV2, Sequences

CONSTANTS
  DemoVendor,  \* deployment.demoVendor
  PROPOSED,    \* deployment.proposedWallet
  NONCE,       \* the nonce of every request the console opens
  Users,       \* accounts of the wallet in this browser
  MaxPending   \* bound: transactions of this tab on their way at once

ASSUME DeploymentAssumption ==
  DemoVendor \in Vendors /\ PROPOSED \in Wallets /\ NONCE \in Nonces
ASSUME UserAssumption ==
  Users \subseteq Accounts /\ MaxPending \in Nat \ {0}

(* A click that is not done: what it is for, how far it has got, and the   *)
(* values it was rendered with; .value is the position or the plaintext.   *)
Idle == [kind |-> "idle"]
Transactions ==
  [kind : {"open"}, sender : Users]
    \cup [kind : {"signal"}, sender : Users, rid : RequestId, handle : Handle]
    \cup [kind : {"settle"}, rid : RequestId]

Opening == [kind : {"open"}, at : {"wallet", "receipt"}, sent : SUBSET Transactions]
Signalling ==
  [kind : {"signal"}, at : {"seal", "wallet", "receipt"}, rid : RequestId,
   account : Users, value : {0, 1}, handle : SUBSET Handle, sent : SUBSET Transactions]
Settling ==
  [kind : {"settle"}, at : {"reveal", "wallet", "receipt"}, rid : RequestId,
   handles : SUBSET Handle, value : BOOLEAN, sent : SUBSET Transactions]
Tasks == {Idle} \cup Opening \cup Signalling \cup Settling

VARIABLES
  openings,  \* chain: the ChangeRequestOpened events, in order
  aged,      \* how many of them are older than REQUEST_LOOKBACK
  address,   \* useAccount().address; nothing renders without one
  seen,      \* what the queries have last read
  task,      \* the click that is not done
  pending,   \* transactions this tab has sent that are not mined
  sealed,    \* history: the positions sealed in this tab
  reports    \* the settlements the activity log tells of

chainVars == <<vars, openings, aged>>
tabVars == <<address, seen, task, pending, sealed, reports>>
consoleVars == <<chainVars, tabVars>>

Seen ==
  [rid : RequestId \cup {NoRequest}, status : {"None", "Collecting", "Sealed", "Settled"},
   verdict : BOOLEAN, handles : SUBSET Handle, seats : SUBSET Address]
SealedPosition == [handle : Handle, rid : RequestId, account : Users, value : {0, 1}]

ConsoleTypeOK ==
  /\ openings \in Seq(RequestId)
  /\ aged \in 0..Len(openings)
  /\ address \in Users
  /\ seen \in Seen
  /\ task \in Tasks
  /\ pending \subseteq Transactions
  /\ sealed \subseteq SealedPosition
  /\ reports \subseteq [rid : RequestId, value : BOOLEAN]

ConsoleInit ==
  /\ Init
  /\ openings = <<>>
  /\ aged = 0
  /\ address \in Users
  /\ seen = [rid |-> NoRequest, status |-> "None", verdict |-> FALSE, handles |-> {},
             seats |-> {}]
  /\ task = Idle
  /\ pending = {}
  /\ sealed = {}
  /\ reports = {}

-----------------------------------------------------------------------------
(* The chain as the tab's queries and transactions meet it.                *)

Handles(id) == {s.handle : s \in {e \in signalLog : e.request = id}}
Minted == {p.handle : p \in sealed}

Opens(sender, wallet, nonce) ==
  /\ sender \in Requesters
  /\ OpenChangeRequest(sender, DemoVendor, wallet, nonce)
  /\ openings' = Append(openings, DerivedRequestId(DemoVendor, wallet, sender, nonce))

Signals(sender, id, h) == SubmitPrivateSignal(sender, id, h) /\ UNCHANGED openings

Settles(id) == SettleApproval(id) /\ UNCHANGED openings

(* Other tabs, scripts, the Safe, candidates, time: the whole of the       *)
(* firewall's Next, but that the gateway gives no handle twice.  The tab   *)
(* has the events of its vendor's requests only.                           *)
Others ==
  /\ \/ \E sender \in Requesters, w \in Wallets, n \in Nonces :
          \/ Opens(sender, w, n)
          \/ \E v \in Vendors \ {DemoVendor} :
               OpenChangeRequest(sender, v, w, n) /\ UNCHANGED openings
     \/ \E id \in RequestId : Settles(id) \/ \E h \in Handle \ Minted : Signals(h.owner, id, h)
     \/ (VendorNext \/ GovernanceNext \/ AdminNext \/ Tick) /\ UNCHANGED openings
  /\ UNCHANGED <<aged, tabVars>>

(* A transaction that reverts, because the state it was estimated against  *)
(* is gone or its gas runs out, is mined as well, and has a receipt.       *)
Mined(tx) ==
  /\ pending' = pending \ {tx}
  /\ \/ tx.kind = "open" /\ Opens(tx.sender, PROPOSED, NONCE)
     \/ tx.kind = "signal" /\ Signals(tx.sender, tx.rid, tx.handle)
     \/ tx.kind = "settle" /\ Settles(tx.rid)
     \/ UNCHANGED <<vars, openings>>
  /\ UNCHANGED <<aged, address, seen, task, sealed, reports>>

(* An opening leaves the last 50 000 blocks of a public chain.             *)
LeavesLookback ==
  /\ aged < Len(openings)
  /\ aged' = aged + 1
  /\ UNCHANGED <<vars, openings, tabVars>>

-----------------------------------------------------------------------------
(* Queries.                                                                *)

LastOrUndefined == IF Len(openings) > aged THEN openings[Len(openings)] ELSE Zero
(* useOpenRequestId: logs.at(-1) ?? null *)
OpenRequestId == IF Len(openings) > aged THEN openings[Len(openings)] ELSE NoRequest

KeepData(rid) == [seen EXCEPT !.rid = rid]
(* The queries about a request are keyed by its id: of another one they    *)
(* have no data at first.                                                  *)
DataFor(rid) ==
  IF rid = seen.rid THEN seen
  ELSE [seen EXCEPT !.rid = rid, !.status = "None", !.verdict = FALSE, !.handles = {}]

(* useSignalHandles: events of a request older than the look-back may be   *)
(* missing.                                                                *)
SignalHandles(id) ==
  IF \E i \in 1..Len(openings) : i > aged /\ openings[i] = id
  THEN {Handles(id)} ELSE SUBSET Handles(id)

UseOpenRequestId == seen' = DataFor(OpenRequestId)
UseRequest == seen.rid # NoRequest /\ seen' = [seen EXCEPT !.status = requests[seen.rid].status]
UseVerdictHandle ==
  /\ seen.rid # NoRequest
  /\ seen' = [seen EXCEPT !.verdict = requests[seen.rid].status \in {"Sealed", "Settled"}]
UseSignalHandles ==
  /\ seen.rid # NoRequest
  /\ \E handles \in SignalHandles(seen.rid) : seen' = [seen EXCEPT !.handles = handles]
UseVendorView == seen' = [seen EXCEPT !.seats = Seats(vendors[DemoVendor])]

(* Each query polls on its own. *)
Poll ==
  /\ UseOpenRequestId \/ UseRequest \/ UseVerdictHandle \/ UseSignalHandles \/ UseVendorView
  /\ seen' # seen
  /\ UNCHANGED <<chainVars, address, task, pending, sealed, reports>>

-----------------------------------------------------------------------------
(* Clicks.  A tab does one thing at a time (run, busy); its wallet may     *)
(* change accounts at any time.                                            *)

Connect(user) ==
  /\ address # user
  /\ address' = user
  /\ UNCHANGED <<chainVars, seen, task, pending, sealed, reports>>

Start(next) ==
  /\ task = Idle
  /\ task' = next
  /\ UNCHANGED <<chainVars, address, seen, pending, sealed, reports>>

(* What disables the buttons, besides a click that is not done.            *)
CanOpen == seen.status = "None"
(* roleFor *)
HasRole(user) == user \in seen.seats
CanSignal == HasRole(address) /\ seen.status = "Collecting"
CanSettle == seen.status = "Sealed"

OpenRequest ==
  /\ CanOpen
  /\ Start([kind |-> "open", at |-> "wallet", sent |-> {}])

SubmitSignal(approve) ==
  /\ CanSignal
  /\ seen.rid # NoRequest
  /\ Start([kind |-> "signal", at |-> "seal", rid |-> seen.rid, account |-> address,
            value |-> IF approve THEN 1 ELSE 0, handle |-> {}, sent |-> {}])

AnyHandles(handles) == TRUE
(* signalHandles.length !== 3 *)
AllSealed(handles) == Cardinality(handles) = RequiredSignals

Settle ==
  /\ CanSettle
  /\ seen.rid # NoRequest
  /\ seen.verdict
  /\ AllSealed(seen.handles)
  /\ Start([kind |-> "settle", at |-> "reveal", rid |-> seen.rid,
            handles |-> seen.handles, value |-> FALSE, sent |-> {}])

ConnectedAccount(t) == address
(* The account of the rendering that was clicked. *)
ClickedAccount(t) == t.account

(* transport.sealSignal *)
Seal ==
  /\ task.kind = "signal" /\ task.at = "seal"
  /\ \E h \in Handle :
       /\ h.owner = ClickedAccount(task) /\ h.value = task.value
       /\ UnusedHandle(h) /\ h \notin Minted
       /\ task' = [task EXCEPT !.at = "wallet", !.handle = {h}]
       /\ sealed' = sealed \cup {[handle |-> h, rid |-> task.rid, account |-> task.account,
                                  value |-> task.value]}
  /\ UNCHANGED <<chainVars, address, seen, pending, reports>>

(* transport.revealVerdict: the Nox gateway decrypts the verdict; the      *)
(* local one computes it from handles, of which it wants three.            *)
NoxVerdict(id) == {requests[id].verdict}
AnySupport(handles) ==
  IF Cardinality(handles) = RequiredSignals THEN {\E h \in handles : h.value = 1} ELSE {}
LocalVerdict(handles) ==
  IF Cardinality(handles) = RequiredSignals THEN {\A h \in handles : h.value = 1} ELSE {}

Reveal ==
  /\ task.kind = "settle" /\ task.at = "reveal"
  /\ \E value \in NoxVerdict(task.rid) \cup LocalVerdict(task.handles) :
       task' = [task EXCEPT !.at = "wallet", !.value = value]
  /\ UNCHANGED <<chainVars, address, seen, pending, sealed, reports>>

LatestRequest(t) == IF seen.rid = NoRequest THEN t.rid ELSE seen.rid
(* The request of the rendering that was clicked. *)
ClickedRequest(t) == t.rid

(* writeContractAsync: sent by the account that is connected now.          *)
Transaction ==
  IF task.kind = "open" THEN {[kind |-> "open", sender |-> address]}
  ELSE IF task.kind = "settle" THEN {[kind |-> "settle", rid |-> ClickedRequest(task)]}
  ELSE {[kind |-> "signal", sender |-> address, rid |-> ClickedRequest(task), handle |-> h] :
          h \in task.handle}

Send ==
  /\ task # Idle /\ task.at = "wallet"
  /\ Cardinality(pending \cup Transaction) <= MaxPending
  /\ pending' = pending \cup Transaction
  /\ task' = [task EXCEPT !.at = "receipt", !.sent = Transaction]
  /\ UNCHANGED <<chainVars, address, seen, sealed, reports>>

(* waitForTransactionReceipt has returned, for whichever status: the log   *)
(* tells of success, and the queries that may have changed are refetched.  *)
Receipt ==
  /\ task # Idle /\ task.at = "receipt"
  /\ task.sent \cap pending = {}
  /\ task' = Idle
  /\ seen' \in IF task.kind = "open" THEN {DataFor(OpenRequestId)}
               ELSE IF task.kind = "signal" /\ seen.rid # NoRequest
               THEN {[seen EXCEPT !.handles = handles] : handles \in SignalHandles(seen.rid)}
               ELSE {seen}
  /\ reports' = IF task.kind = "settle"
                THEN reports \cup {[rid |-> task.rid, value |-> task.value]}
                ELSE reports
  /\ UNCHANGED <<chainVars, address, pending, sealed>>

(* Refused in the wallet, an error of the gateway, no receipt in time.     *)
Fail ==
  /\ task # Idle
  /\ task' = Idle
  /\ UNCHANGED <<chainVars, address, seen, pending, sealed, reports>>

-----------------------------------------------------------------------------
TabNext ==
  \/ \E user \in Users : Connect(user)
  \/ Poll
  \/ OpenRequest
  \/ \E approve \in BOOLEAN : SubmitSignal(approve)
  \/ Settle
  \/ Seal
  \/ Reveal
  \/ Send
  \/ Receipt
  \/ Fail

ConsoleNext ==
  \/ TabNext
  \/ \E tx \in pending : Mined(tx)
  \/ LeavesLookback
  \/ Others

ConsoleSpec == ConsoleInit /\ [][ConsoleNext]_consoleVars

-----------------------------------------------------------------------------
(***************************************************************************)
(* A position counts for the request that was shown when the reviewer      *)
(* chose it (console.tsx:188-207), although the latest request may be      *)
(* another one while the position is being sealed and sent.                *)
(***************************************************************************)
PositionCountsAsChosen ==
  \A s \in signalLog : \A p \in sealed :
    s.handle = p.handle => s.request = p.rid /\ s.handle.value = p.value

(***************************************************************************)
(* A position counts for the account that chose it, or not at all: of two  *)
(* reviewers in one browser, the one that is connected when the prompt     *)
(* comes up never signs with what the other one chose (console.tsx:188).   *)
(***************************************************************************)
PositionCountsForItsAccount ==
  \A s \in signalLog : \A p \in sealed : s.handle = p.handle => s.reviewer = p.account

(***************************************************************************)
(* What the tab settles is sealed on chain, and the handles it gives to    *)
(* the gateway are those of the three signals of that request: the         *)
(* separate queries (console.tsx:119-128) never mix two requests.          *)
(***************************************************************************)
SettlesOneSealedRequest ==
  task.kind = "settle" =>
    /\ requests[task.rid].status \in {"Sealed", "Settled"}
    /\ task.handles = Handles(task.rid)

(***************************************************************************)
(* The activity log tells of a moved payout address (console.tsx:251-257)  *)
(* only for a request that all three reviewers approved; whether it moved, *)
(* the log does not know.                                                  *)
(***************************************************************************)
NoMoveReportedOfRefusal ==
  \A report \in reports :
    report.value => \A h \in Handles(report.rid) : h.value = 1
=============================================================================
