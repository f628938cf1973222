# A verification development for Qeltrun

Qeltrun protects vendor payouts: a vendor's payout wallet changes only after reviewers have
endorsed the change by private signals, and a Safe module pays only the wallet that the policy
names. These modules model the contracts that enforce this and the clients, gateways and scripts
around them, check them with TLC on small instances, and prove their main properties with TLAPS for
every value of the constants.

Paths below are relative to the repository root.

## 1. The system

| Component | State it keeps | Operations | Hard part | What makes it correct |
|---|---|---|---|---|
| **Payout firewall v2** `contracts/QeltrunPayoutFirewallV2.sol` | vendors (wallet, three reviewers, epoch), change requests, who has signed, which request used a handle, pending rotation and recovery per vendor, owner, pending owner, pause flag | register and reseat, open / submit / settle, rotation (4), recovery (5), pause, ownership (3) | every order of transactions of owner, reviewers, candidates and strangers; role changes while requests are in flight; a delay | wallets move only by unanimity of those who hold the seats now; verdicts are exact; old requests are inert; approvers change only by consent or delay; a pause freezes |
| **Payout firewall v1** `contracts/QeltrunPayoutFirewall.sol` | vendors (wallet, one approver), requests, handle ledger | register (anyone), open, seal, settle | several sealed requests of one vendor, reuse of an input | an approval serves one request; a wallet moves only by an approval |
| **Safe payout module** `contracts/integrations/QeltrunSafePayoutModule.sol` | reentrancy flag; the Safe's module list and funds | native and token payout | the payee's or token's code runs in the middle: it may settle, pause, or pay again; tokens answer in four ways | it pays only the current wallet, never paused; an event is a payment |
| **Public decryption and providers** `src/providers/decrypt-when-indexed.ts`, `nox-*.ts` | attempt counter; on the other side the chain's ACL, an index that lags and the enclave's queue | encrypt, decrypt with bounded retries | lag, retries that end too early, errors that must not be retried | a decryptable handle is eventually decrypted, or the caller is told |
| **Local gateway** `src/providers/local-gateway-approval-provider.ts`, `web/app/api/local-gateway/route.ts` | one provider per approver with its plaintexts and nonce, one shared provider for v2 | seal, reveal, sum a verdict | handles minted by nonce per instance, development-server restarts | what it reveals is what the contract computed |
| **Reviewer console** `web/components/console`, `web/lib` | polled snapshots, one pending action, request-id discovery | open, sign, settle, administration through the Safe | snapshots up to 4 s old and taken apart, several browsers, receipts that failed | it reports what the chain did and offers what the chain will accept |
| **Request derivation and clients** `src/domain`, `src/contracts` | none | derive request ids, typed clients | agreement with Solidity | the same id for the same request |
| **Deployment and verification scripts** `scripts` | files and chain state between runs | deploy, hand ownership to the Safe, enable the module, exercise the live system | a rerun after a partial failure | the firewall ends up owned by the Safe |
| Demo token, local compute, generated ABIs, site pages | none of their own | | | |

Interactions: reviewers and the owner send transactions to the firewall; the firewall calls Nox, a
library and contract that neither calls back nor fails but by revert; the Safe owns the firewall
and calls the module, which reads `getPayoutWallet` and `isPayoutAllowed` and makes the Safe call
the payee or token; payees may call the firewall. Console and scripts read the chain by polling and
read Nox through an index and an enclave that lag behind it.

`PROJECT.json` lists, under "hazards", what can go wrong in this code that a test hardly
reaches, each with the properties that speak about it.

## 2. Modules

| Module | What it is |
|---|---|
| `PayoutPolicy` | the abstract promise: a wallet moves only by a proposal that starts from it, that every seat holder has endorsed since the seats were last filled, and that is thereby spent |
| `FirewallV2` | the v2 contract: one action per external function |
| `FirewallV2Safety` | its properties, its inductive invariant, its map onto `PayoutPolicy` |
| `MCFirewallV2` and `FirewallV2_*.cfg` | small instances |
| `FirewallV2Proofs`, `FirewallV2Refinement` | theorems about v2; v2 implements `PayoutPolicy` |
| `FirewallV1`, `FirewallV1_*.cfg`, `FirewallV1Proofs` | the v1 contract, its properties, its map onto the same policy, its proofs |
| `SafePayoutModule`, `MCSafePayoutModule`, `SafePayoutModule_*.cfg` | the payout module composed with `FirewallV2` |
| `SafePayoutProofs` | theorems about the composition |
| `NoxDecryption`, `NoxDecryption_waits.cfg`, `NoxDecryptionProofs` | the providers for the live gateway, and the wait that a public decryption has to survive |
| `LocalGateway`, `MCLocalGateway`, `LocalGateway_*.cfg`, `LocalGatewayProofs` | the stand-in for the gateway on a local chain, with what the local chain makes of its handles |
| `Console`, `MCConsole`, `Console_tab.cfg`, `ConsoleProofs` | a browser tab with the reviewer console, composed with `FirewallV2` |
| `TreasuryScripts`, `MCTreasuryScripts`, `TreasuryScripts_reruns.cfg`, `TreasuryScriptsProofs` | the operator's scripts, composed with `FirewallV2` |

### FirewallV2

A transaction is atomic and a revert leaves no trace, so that an external function is one action
whose guard is the conjunction of its modifiers and early reverts. The variables are the contract's
mappings under their names (`vendors`, `requests`, `signalSubmitted`, `handleUsedBy`, `rotations`,
`recoveries`), the inherited `owner`, `pendingOwner`, `paused`, the block time `now`, and two
histories: `signalLog`, the `PrivateSignalSubmitted` events with the input each one carried, and
`proposal`, who consented to the last proposed approver and when it was proposed. No guard reads a
history.

- A request id is a hash of its fields; the model uses the record of the fields (chain and contract
  address are fixed), that is, it assumes that hashes do not collide. `openChangeRequest` reads wallet
  and epoch from the vendor's record at the time of the call, as the code does.
- An input handle is the record of what the gateway minted it for: the owner that its proof names,
  the plaintext, a serial. `SubmitPrivateSignal` requires the owner to be the sender, which is what
  `Nox.fromExternal` verifies. Handles that Nox computes are the value they decrypt to; the clamp
  `select(le(signal, 1), signal, 0)`, the sum and the comparison are computed on plaintexts.
- `verdict` is made with the third signal, and settlement uses that plaintext: `publicDecrypt`
  verifies a gateway proof, so that a settlement with another value reverts.
- `approverEpoch++` is checked arithmetic: at `MaxEpoch` the function reverts. This is also the
  bound of the counter.
- `paused` guards exactly the functions that carry `whenNotPaused`; the three withdrawals
  (`cancelApproverRotation`, `vetoApproverRecovery`, `cancelApproverRecovery`) and the ownership
  functions do not. `acceptApproverRecovery` does not ask whether the vendor is registered, and the
  model does not either.
- Time moves by `Tick`, bounded by `MaxTime`; every action may be delayed past any deadline.

A definition without a comment that stands directly above another one with the same parameters
(`AnyEpoch` above `InCurrentEpoch`) is the slip the mutants in `PROJECT.json` make of the latter;
nothing else uses it.

### FirewallV1

The same conventions, with one approver and one sealed bit. Anyone may register a vendor.
`movedBefore` is a history for the property of the run `v1_returns`.

### SafePayoutModule

The one place where a transaction is not one action. A payout opens a *frame*: the module has
resolved the destination, the Safe has made its call, and the payee's or token's code is running.
While a frame is open, firewall actions may happen (calls by that code, from contracts that act for
any account) but no time passes; the Safe may be made to call the module again, which
`nonReentrant` refuses. `PayoutReturns` emits the event. A call that reverts undoes everything done
within it, so that it is no step of the model: only calls that will be accepted open a frame.
`Results` is the environment's choice of success, answer and effect; a *hollow* token, an address
without code, succeeds with an empty answer and moves nothing, and the module cannot tell. Gas,
balances and the Safe's own signatures are left out: an insufficient balance is a call that fails.

### NoxDecryption

`decryptWhenIndexed` is one action per answer of the gateway: a value ends the call, an error that is
no wait is thrown again, a wait is slept on or, at the last attempt, reported as
`NOX_HANDLE_NOT_INDEXED`. The unit of time is `delayMs`: `Tick` is one pause, after which whoever
slept asks again at some later moment. `public`, `indexed` and `computed` are what the chain, the
subgraph and the enclave know of a handle; the gateway refuses with one wait before the first and
with the other before the second, and may fail at any time. Index and enclave keep within `Lag`
pauses of publication (a constant; the comment says about a minute, that is 12 of the 24 attempts).
Sealing is in the same module because what is public begins there: a provider seals for its own
wallet only, the proof names that wallet (`bound`), and v1's `sealApproval`, here `SubmitApproval`
with all its guards, takes a handle from the approver, for a pending request, unless another request
holds it, and makes it public in the same transaction. The vendor's wallet is `FirewallV1`'s matter.
The three fields at the end of `Call` are histories.

### LocalGateway

A handle is a hash of the provider's nonce, so that the model uses the nonce. The route's `Map` of
providers is a sequence, because `providerHolding` depends on the order of insertion. The two
firewalls appear as what they demand of an input: the owner, the application contract, a handle not
used before, one signal per reviewer. `RestartServer` forgets the module's globals, `Redeploy`
(`setup-local`) replaces the firewall while server and browsers go on. `life`, in which life of the
server something was sealed or signed, `value`, what its owner meant, and `minted`, every signal
sealed in any life, are histories. `RevealVerdict` sums whatever three handles the client sends,
duplicates and those of other requests included, as the route does. A request that the route refuses
changes nothing and is no step.

### Console

A tab's state is the connected account, what each query has last read (`seen`; the hooks of
`use-firewall.ts`, one named operator each), the click that is not done (`task`, with the values of
the rendering it was made in, because a closure keeps them), the transactions on their way and the
settlements reported in the log. Each `await` of a click is a step: sealing, the wallet, the receipt,
the gateway. Any of them may fail, and a transaction that is no longer waited for may still be mined.
A reverted transaction is mined as well and has a receipt, which the code does not look at.
`LeavesLookback` moves an event out of the last 50 000 blocks. Everybody else is `Others`: the
firewall's whole next-state relation, with rotations, recoveries, reseatings, ownership, pauses and
time, but that the gateway gives nobody a handle it has given to this tab. Only what decides a step is
modelled: the gate, counts and labels are displayed and nothing more, and the pause flag disables two
buttons whose transactions may fail here anyway.

### TreasuryScripts

One script runs at a time; each transaction or decisive read is a step, and `Ends` may come between
any two, so that every prefix of every script is left on chain for the next one. `Sends` waits for
a receipt and looks at it; `Tolerated` is the Safe transaction with `safeTxGas`, whose outer success
says nothing of the inner call. A firewall that `deploy-v2` makes is a fresh state of `FirewallV2`
owned by the deployer. `SettledByOthers` is the one thing a stranger can do to a run: settlement is
permissionless. `.paid` is a history; `.full` says that a run does what another one finds done and
skips: both payouts, with a token of its own, or the registration of the demo vendor.

## 3. Runs

The runs of the contracts use one vendor, which is enough for the per-vendor state: actions on two
vendors touch disjoint entries of every mapping, and the theorems hold for any number.
`CHECK_DEADLOCK FALSE` where the system really may stop: an owner may renounce ownership, nonces,
handles and epochs of an instance run out, and nothing then happens. `decryption` and `scripts`
check for deadlock: time goes on, and a script can always be started.

| Run | Question | Bounds |
|---|---|---|
| `requests` | Are verdicts exact, do wallets move only by unanimity, are stale requests inert? `TypeOK`, `VerdictIsUnanimity`, `WalletMovesByUnanimity`, `StaleRequestsAreInert` | plaintexts 0, 1 and the out-of-range 2; two wallets; two epochs by `setOperationalReviewers`; pause |
| `handover` | May a former approver's signal count, does an input count once, and is the policy implemented when requests compete? `HandleCountsOnce`, `SignersHoldSeats`, `IInv`, `ImplementsPolicy` | two requests (`FewRequests`) over three wallets in any direction, two handles per reviewer, rotation and recovery to a new approver with requests in flight, delay of one unit |
| `governance` | Do seats stay independent and consents genuine? `SeatsAreIndependent`, `ConsentIsGenuine`, `ApproverChangesByConsent`, `PauseOnlyWithdraws` | four candidates (two outsiders, one seated reviewer, the zero address), three epochs, delay 2 within 4 units of time, ownership transfer and renunciation |
| `v1_requests` | Are v1 approvals bound to their request, and is the policy implemented? `TypeOK`, `ApprovalServesOneRequest`, `WalletMovesByApproval`, `ImplementsPolicy` | three wallets, two accounts (approver and stranger), two handles per account and bit |
| `v1_returns` | Is a v1 request refused once the wallet has moved? `RefusedOnceTheWalletMoved` is **violated** | two wallets, two nonces, three handles |
| `payouts` | Do events and payments agree when payees run code, and is only the wallet current by policy paid? `PayoutTypeOK`, `EventsTellPayments`, `PaysTheCurrentWallet`, `PaidUnderPolicy` | two payouts, native currency, one token that may refuse or revert, one hollow token, amounts 0 and 1, three wallets, competing requests |
| `decryption` | Do bounded retries outlast the lag, keep their distance, and end? `TypeOK`, `OutlastsTheLag`, `RetriesAreSpaced`, `EveryCallEnds`, `SealedBecomesReadable` | 5 attempts for the code's 24, a lag of 3, one below what five attempts outlast; one bit, one signal and one verdict, two v1 requests, two wallets, one caller |
| `local_gateway` | Does the local gateway reveal what was sealed, and compute a verdict of what its life has sealed? `GatewayTypeOK`, `VerdictIsOfItsLife`, `ApprovalIsWhatWasSealed`, `SealedStaysRevealable`, `InputsAreDistinct` | one v1 approver, three reviewers with four signals per life and five in all (1, the out-of-range 2, and 65536, which is no uint16), one request settled with any three of the handles, one restart, one redeployment; the v1 half or the v2 half (`OneHalf`) |
| `gateway_approvers` | The same with two v1 approvers: `ApprovalIsWhatWasSealed` is **violated** | one bit each |
| `gateway_restart` | Does a verdict over a request's own signals agree with the contract's, also after a restart? `VerdictAgreesWithContract` is **violated** | two requests, three signals per life, one restart |
| `console` | Does a position count as it was chosen, for the account that chose it, is what is settled one sealed request, and is no refusal reported as a move? `ConsoleTypeOK`, `PositionCountsAsChosen`, `PositionCountsForItsAccount`, `SettlesOneSealedRequest`, `NoMoveReportedOfRefusal` | two seated reviewers who share the browser, one transaction on its way; two requests, two positions sealed in the tab, one refusal (`Few`); the firewall stays the Safe's and unpaused (`Running`), and seats stay filled |
| `scripts` | Does every sequence of interrupted runs leave a whole deployment and no pause, and is what a run reports of its work so? `ScriptsTypeOK`, `OwnedAsAWhole`, `BlockedMeansPaused`, `ReportedIsTrue`, `PauseIsLifted` | all eight scripts, three vendors, each of which the panel may have registered otherwise (another approver, another wallet, the recovery's candidate in the seat), one nonce for the certified request, two epochs, a delay of one unit |

Why these bounds are enough to be interesting: three wallets let a stale request lead to a wallet
that neither the first nor the second settlement chose; two handles per reviewer let a reviewer sign
two requests; two epochs let a request outlive its own; a plaintext of 2
is the smallest that the clamp must stop; two payouts let one nest in the other or follow it. A lag
one below the retries is where an off-by-one shows. Four signals let a reviewer seal again and give
up an earlier input. A second reviewer in the browser, who could sign where the first one meant to,
and a second request let account and latest request change between sealing and sending. That seats
change in the middle of a click is left to the theorems, which have no such bound. Two epochs let
the scripts rotate an approver. Every property has a mutant of the code, listed in `PROJECT.json`,
that violates it within these bounds: without the wallet check, the epoch check, the clamp, the
handle ledger, a pending-proposal guard, the candidate check at finalisation, the delay, the pause,
the reentrancy guard and so on.

### Findings

`v1_returns`: `contracts/QeltrunPayoutFirewall.sol:228-229` says "If the wallet moved in the
meantime the sealed approval no longer describes reality, so refuse rather than apply it."
The code at line 230 compares the wallet with the one the request started from. TLC shows two
requests from the first wallet to the second, both sealed; one settles, a third request moves the
wallet back, and the other settles although the wallet moved twice in the meantime. The promise
that does hold, and is proved, is `WalletMovesByApproval`.

`gateway_approvers`: `web/app/api/local-gateway/route.ts:38-39` says that "reveal has to find the
provider that minted it". Every provider counts its handles from zero and puts nothing of its own
into them, so that two approvers' providers mint the same handle, and `providerHolding` (line 40)
returns the first that knows it. TLC shows two approvers sealing different bits; the second one's is
submitted and the first one's is revealed. With one approver, which is what the demo has, the
property holds (`local_gateway`).

`gateway_restart`: `src/providers/local-gateway-approval-provider.ts:213-216` says that the local
path must compute the verdict "exactly as `submitPrivateSignal` does it", and that to disagree with
the contract is "the one thing it must never do". Plaintexts and nonces live in module globals, so
that a restarted server mints again the handles that the chain still holds. TLC shows a reviewer who
signs with a zero; the server restarts and gives the same handle to a one; two more reviewers sign with
ones, and the verdict over the request's own three handles is true. What does hold is
`VerdictIsOfItsLife`, and that only a restart can do this (`OnlyARestartDisagrees`).

Observations that are no findings, because nothing in the repository says otherwise or only prose
does:

- `decrypt-when-indexed.ts:51-52`: a handle that was never made public "fails fast". The gateway's
  refusal of such a handle has the words of the first wait, so that it is retried 24 times; the test
  and the model agree that only the two waits are.
- `console.tsx:250-257` reports a settlement for any receipt, reverted ones included.
  `NoMoveReportedOfRefusal` is what holds nevertheless: a report of a move is always one of an
  approved request. `safe-admin.ts:115` does look at the status.
- `console.tsx:473`: the button that opens a request stays disabled, with "A change request is
  already open", while the latest request is settled or stale.
- `verify-safe-payouts-v2.ts:121` cannot tell a pause by the operator from one that an interrupted
  run left, and lifts either.
- The three verification scripts share one vendor. After `verify-live-governance-v2` has rotated its
  approver, `verify-live-v2` cannot complete: its first reviewer holds no seat. A governance run that
  died between proposal and approval cannot be repeated (a rotation is pending); one that died between
  schedule and acceptance makes every later one skip to an execution that reverts.
- Two lines of the scripts' output are printed without looking and can be false, so `ReportedIsTrue`
  does not claim them (with them it is violated): the wallet and reviewers that
  `setup-demo-vendor-sepolia.ts:119-120` prints after it has skipped the registration of a vendor that
  exists (line 94), and `delayedRecoveryComplete` of `verify-live-governance-v2.ts:227` for a candidate
  who was registered in that seat.
- `configure-safe-v2.ts:53` refuses to run a second time, although everything is as it wants.
- `setup-local.ts:102-103` and the contracts page speak of four distinct addresses; the contract
  compares the three reviewers only.

### Fairness

The contracts' properties are safety properties, and nothing forces a reviewer, an owner or a
stranger to send a transaction.

`NoxDecryption`: weak fairness of `Tick` (a timer fires), of each caller's `Step` (the gateway
answers, if only with an error), of `Index` and of `Compute`. `EveryCallEnds` needs all of them:
attempts are bounded, but time does not go on while a handle is older than the lag and not ready.
`SealedBecomesReadable` begins with the transaction that seals, so that no wallet is assumed to send
anything; index and enclave are external and assumed to make progress.

`TreasuryScripts`: weak fairness of `Ends` (no script runs for ever), strong fairness of starting the
payout script and of the three steps of its resumption. The script is written to be started again
after an interruption (lines 121-147), so the operator is assumed to do so until it is through, and
no step of the resumption to fail every time. Strong, because starting is disabled while another
script runs, and a step is disabled whenever a run dies before it.

## 4. Proofs

TLC looks at the instances above; the theorems hold for every set of vendors, accounts, wallets,
nonces, plaintexts below 2^16, handles and tokens, and every epoch width and delay. They assume only
the constants' `ASSUME`s: the zero address is neither an account nor a wallet, senders are accounts,
the zero request id and handle are not ids or handles, the bounds are numbers; for the scripts, that
hashes of different labels and the address of a derived key differ from the others. Hash
collision-freedom and the gateway's soundness are in the model as described in section 2.

**v2 invariance.** None of the properties is inductive by itself. `VerdictIsUnanimity` says
nothing about a request that still collects; `WalletMovesByUnanimity` needs to know who signed a
sealed request. `IInv` adds what is needed: a request's status, count and score go together
(`RequestShape`); the contract's flags, its counter and the events tell the same story
(`SignalsRecorded`), so that the count is the number of different signers; the score reaches the
count exactly when all signals were ones (`ScoreIsUnanimity`); whoever signed a request of the
current epoch holds a seat now (`SignersHoldSeats`), which rests on every change of seats ending the
epoch (`VendorsAdvance`) and on requests never being ahead of their vendor's epoch; one proposal is
pending at a time and leaves nothing behind (`ProposalShape`), which is what keeps consents genuine.

**Unanimity.** At settlement three different accounts have signed, each of them holds one of three
seats, so they are all the seat holders (`SettledByUnanimity`); the score says each signed a one.

`SettlementMoves` says in which ways a settlement moves a wallet and `VerdictRead` how a verdict comes
about; the theorems on both, and those on the scripts, cite them.

**A renounced pause.** `RenouncedPauseIsForGood`: once ownership is renounced during a pause (Ownable's
`renounceOwnership` has no guard against it), the pause stays and no vendor or request changes any
more. No document promises otherwise, so there is no property that a run would check; the theorem
states how far the loss goes.

**Refinement.** `FirewallV2Refinement` maps registration to `Enrol`, each completed change of seats
to `Reseat`, a signal of one to `Endorse`, the settlement of a true verdict to `Move`, everything
else to a stutter. The delicate case is `Reseat`: it voids the vendor's endorsements in the policy,
and in the contract the endorsements of the old epoch become stale while those of the new epoch
cannot exist yet, because no request is opened ahead of its epoch. `FirewallV1Proofs` does the same
for one seat that is never refilled. Both contracts thus keep one promise.

**Decryption.** `DecryptionSafe` rests on an invariant that counts: attempts made, pauses slept
and pauses passed since the call began differ by at most one, and for a call whose handle was public
when it began the handle's age is at least the pauses that have passed. So whoever is at the last
attempt has waited `Attempts - 1` pauses, the handle is older than the lag, and `Tick` would not have
let time go on had it not been ready.

**Local gateway.** `GatewaySafe` rests on the ledger of `signals`: an input sealed in this life of
the server has a handle up to the nonce and the plaintext that its owner meant; inputs of one life
are distinct because the nonce grows with each, so that a handle and a life name one input
(`MintedOnce`). A verdict over any handles is then a sum of three clamped values, and three values of
at most one make three only if each is one: `VerdictIsOfItsLife`, for any number of restarts. That
this is the contract's verdict holds while all three inputs are of the life that signs
(`OnlyARestartDisagrees`), and not beyond (`gateway_restart`). `ApprovalIsWhatWasSealed` is not part
of it: with two approvers it is false, because each counts its nonces from zero. `SoleApproverIsRight`
proves it where there is one, as in `demo.ts:100`: all live approval handles then come from one count
of nonces, so a handle tells which input it was (`SoleInv`).

**Console.** `ConsoleSafe` rests on `ConsoleStep`: every step of the tab and of everybody else is a
step of the firewall or leaves it alone, so the firewall's `IInv` holds throughout and may be used.
`ConsoleInv` then says of the tab what it relies on after each `await`. A position that waits for
its transaction has a handle of its own that counts nowhere yet, and the click or the transaction
that carries it is for the request it was chosen for (`PositionsMade`). What the queries have read
of a request has been so (`SeenWasSo`), and sealed stays sealed; since a sealed request takes no
further signal and a reviewer has one signal in it, three different handles are all of them, however
far apart the polls were. A verdict decrypted as true therefore means three ones
(`RevealedIsVerdict`). Since no step goes around the firewall's actions, it implements the policy
under its console as well (`ConsoleKeepsPolicy`).

**Scripts.** `TreasuryIsWhole` says for every order, death and rerun of the scripts that the Safe
owns the firewall exactly when it has enabled the module. It rests on the firewall's ownership being
touched by two steps only, a new deployment and the multi-send, and on no script pausing before the
receipt that it acts on. `PauseStaysLiftable` adds that whoever finds the firewall paused finds the
Safe as its owner, so that the next run of the payout script can lift the pause; that it does is
liveness, and TLC's.

`ReportsAreTrue` needs `ScriptsInv`, which has two parts. `ChainInv` is what scripts have on chain
whichever of them died: the contract's `IInv`, which holds afresh on each deployment, and how far the
rotation of the live vendor and the recovery of the second vendor can have got. `RunInv` is what the
running script knows at each of its places, from the receipts it awaited and the state it read back;
it has to survive what everybody else does in the meantime. Neither has a hypothesis on what the panel
has registered: a vendor's first epoch tells who was registered in a seat from who came to it later.

The scripts run with a key that holds every role. `RulesHoldForTheKey` says that this gives it no way
around the contract: a registered vendor's wallet and seats change only by a unanimous settlement or
with the consents, until another firewall is deployed. `ContractSafeUnderScripts` carries the
contract's invariants over to every deployment.

**Composition.** `SystemIsFirewall` shows that firewall, Safe, module and payees together behave as
the firewall, so its theorems carry over, the policy among them (`SystemKeepsPolicy`); `SystemInv`
adds that at most one frame is open and that calls are events followed by it. `PolicyPaid` uses that
a wallet moves away only by a settlement whose request names the wallet it left, and that approval
is for good.

The listed theorems are in `PROJECT.json`. Every invariant and action property that a passing run
checks is stated by one of them. Only model-checked, because liveness under fairness and `ENABLED`
are out of the prover's reach: `EveryCallEnds`, `SealedBecomesReadable`, `PauseIsLifted`. Induction
over recursively defined data would be, too; the modules have none.

## 5. Plan

Done: the contracts, in the order firewall v2, policy, v1, payout module; then the decryption, the
local gateway, the console, the scripts; and the proofs of their safety properties. Left: the one
linear run of `demo.ts` on the first firewall, and `deploy.ts`.

## 6. Not modelled, and why

- Encodings (`keccak256`, ABI, EIP-712 proofs), gas and error texts: no property is about them.
- The internals of Nox, the Safe and OpenZeppelin: external code, modelled from how it is used.
- `contracts/demo`, `contracts/local`: subclasses of library contracts without logic of their own.
- Generated ABIs, site pages: no behaviour.
- The typed clients of `src/contracts` and `src/domain` hold no state; the derivation of request ids
  is `DerivedRequestId`, and `decidePayout` mirrors `isPayoutAllowed`.
- What the console only displays: `reviewers.tsx`, the gate's verdict, counts, `demo-keys.tsx`; the
  choice and switch of the network; the rejected import that `approvals.ts:99` keeps.
- `scripts/deploy.ts`, `scripts/demo.ts` (first firewall), and the tools `slither-*`,
  `check-doc-counts`, `inspect-nox`, `export-abi`: they keep no state that another part reads.
- Of the scripts that are modelled: gas money, checks of chain id and environment, and contracts that
  a failed `deploy-v2` leaves behind, which nothing refers to.
