--------------------------- MODULE NoxDecryption ---------------------------
(***************************************************************************)
(* src/providers: sealing through the Nox gateway, and decryptWhenIndexed, *)
(* the wait that every public decryption has to survive.                   *)
(*                                                                         *)
(* A handle that a transaction made publicly decryptable is refused by the *)
(* gateway until an index has seen the transaction, and a verdict also     *)
(* until the enclave has computed it.  Callers ask again after a pause, a  *)
(* bounded number of times.  The unit of time is the pause between two     *)
(* attempts (delayMs); the index, the enclave and the chain are external.  *)
(***************************************************************************)
EXTENDS Integers, FiniteSets

CONSTANTS
  Wallets,    \* wallets that seal and send transactions
  Approver,   \* the wallet whose approval the requests wait for
  Requests,   \* v1 requests, opened and pending
  Readers,    \* callers of decryptWhenIndexed, one call each
  Nobody,     \* no wallet
  NoHandle,   \* what a pending request holds
  Approvals,  \* ebool handles that a wallet may mint, public once a request holds them
  Signals,    \* euint16 handles that a wallet may mint, never made public
  Verdicts,   \* ebool handles that the firewall computes and makes public
  Plaintexts, \* values a wallet asks to encrypt as a signal
  Attempts,   \* the bound of the retries (24 in the code)
  Lag         \* pauses within which index and enclave have caught up

ASSUME WalletAssumption == Nobody \notin Wallets /\ Approver \in Wallets
ASSUME HandleAssumption ==
  /\ Approvals \cap Signals = {}
  /\ (Approvals \cup Signals) \cap Verdicts = {}
  /\ Approvals \cup Signals \cup Verdicts # {}
  /\ NoHandle \notin Approvals
ASSUME PlaintextAssumption == Plaintexts \subseteq Int
ASSUME AttemptsAssumption == Attempts \in Nat \ {0}
ASSUME LagAssumption == Lag \in Nat

Sealable == Approvals \cup Signals
Handles == Sealable \cup Verdicts

(* What the gateway may answer to publicDecrypt: a value, one of the two   *)
(* waits, or anything else (a permission failure, a lost connection).      *)
Waits == {"not publicly decryptable", "not yet been computed"}
Answers == Waits \cup {"value", "other"}

Ended == {"revealed", "unexpectedType", "rethrown", "notIndexed"}
Busy == {"asking", "sleeping"}

(* One decryptWhenIndexed call.  The last three fields are histories: the  *)
(* last answer, the pauses that have passed since the call began (counted  *)
(* up to Attempts), and whether its handle was public when it began.       *)
Call ==
  [phase : {"idle"} \cup Busy \cup Ended, handle : Handles, attempt : 1..Attempts,
   answer : Answers \cup {"none"}, waited : 0..Attempts, early : BOOLEAN]

NoCall ==
  [phase |-> "idle", handle |-> CHOOSE h \in Handles : TRUE, attempt |-> 1,
   answer |-> "none", waited |-> 0, early |-> FALSE]

VARIABLES
  bound,    \* the wallet that a handle's proof is bound to
  sealedApproval, \* the handle of each sealed request, NoHandle while it is pending
  public,   \* handles the chain has made publicly decryptable
  indexed,  \* handles whose transaction the gateway's index has seen
  computed, \* handles whose value the enclave has
  age,      \* pauses since a handle became public, counted up to Lag
  calls     \* the call of each reader

worldVars == <<indexed, computed, age>>
sealVars == <<bound, sealedApproval>>
vars == <<sealVars, public, worldVars, calls>>

TypeOK ==
  /\ bound \in [Sealable -> Wallets \cup {Nobody}]
  /\ sealedApproval \in [Requests -> Approvals \cup {NoHandle}]
  /\ public \subseteq Approvals \cup Verdicts
  /\ indexed \subseteq public
  /\ computed \subseteq Handles
  /\ age \in [Handles -> 0..Lag]
  /\ calls \in [Readers -> Call]

Init ==
  /\ bound = [h \in Sealable |-> Nobody]
  /\ sealedApproval = [r \in Requests |-> NoHandle]
  /\ public = {}
  /\ indexed = {}
  /\ computed = {}
  /\ age = [h \in Handles |-> 0]
  /\ calls = [w \in Readers |-> NoCall]

-----------------------------------------------------------------------------
(* Sealing.                                                                *)

(* encryptInput binds the proof to the client's wallet.                    *)
EncryptInput(wallet, h) ==
  /\ bound[h] = Nobody
  /\ bound' = [bound EXCEPT ![h] = wallet]
  /\ computed' = computed \cup {h}
  /\ UNCHANGED <<sealedApproval, public, indexed, age, calls>>

(* isSameAddress(approver, wallet): a provider seals for its own wallet.   *)
SealApproval(wallet, approver, h) ==
  /\ h \in Approvals
  /\ approver = wallet
  /\ EncryptInput(wallet, h)

Uint16(value) == value >= 0 /\ value < 65536

EncryptSignal(wallet, value, h) ==
  /\ h \in Signals
  /\ Uint16(value)
  /\ EncryptInput(wallet, h)

-----------------------------------------------------------------------------
(* The chain, the index and the enclave.                                   *)

KeptPrivate(handles, h) == handles
(* Nox.allowPublicDecryption *)
AllowPublicDecryption(handles, h) == handles \cup {h}

(* sealApproval of the first firewall: the request is pending, its sender  *)
(* the approver, the proof the sender's, and no request holds the handle.  *)
SubmitApproval(sender, r, h) ==
  /\ sealedApproval[r] = NoHandle
  /\ sender = Approver
  /\ bound[h] = sender
  /\ \A q \in Requests : sealedApproval[q] # h
  /\ sealedApproval' = [sealedApproval EXCEPT ![r] = h]
  /\ public' = AllowPublicDecryption(public, h)
  /\ UNCHANGED <<bound, worldVars, calls>>

(* The last signal of a request makes its verdict public. *)
PublishVerdict(h) ==
  /\ h \in Verdicts \ public
  /\ public' = public \cup {h}
  /\ UNCHANGED <<sealVars, worldVars, calls>>

Index(h) ==
  /\ h \in public \ indexed
  /\ indexed' = indexed \cup {h}
  /\ UNCHANGED <<sealVars, public, computed, age, calls>>

Compute(h) ==
  /\ h \in (public \cap Verdicts) \ computed
  /\ computed' = computed \cup {h}
  /\ UNCHANGED <<sealVars, public, indexed, age, calls>>

Ready(h) == h \in indexed /\ h \in computed

(* publicDecrypt, as the gateway answers it now. *)
GatewayAnswers(h) ==
  {"other",
   IF h \notin indexed THEN "not publicly decryptable"
   ELSE IF h \notin computed THEN "not yet been computed" ELSE "value"}

-----------------------------------------------------------------------------
(* decryptWhenIndexed.                                                     *)

IndexOnly(answer) == answer = "not publicly decryptable"
(* isRetryableDecryptError *)
Retryable(answer) == answer \in Waits

OneTooMany(attempt) == attempt > Attempts
OneTooFew(attempt) == attempt + 1 >= Attempts
(* attempt >= attempts *)
LastAttempt(attempt) == attempt >= Attempts

(* One call per reader: a later one would start from the same state.       *)
Begin(w, h) ==
  /\ calls[w].phase = "idle"
  /\ calls' = [calls EXCEPT ![w] =
       [phase |-> "asking", handle |-> h, attempt |-> 1, answer |-> "none",
        waited |-> 0, early |-> h \in public]]
  /\ UNCHANGED <<sealVars, public, worldVars>>

(* A handle is on chain once it is bound, or computed there. *)
RevealApproval(w, h) == h \in Sealable /\ bound[h] # Nobody /\ Begin(w, h)
RevealVerdict(w, h) == h \in Verdicts /\ Begin(w, h)

Answered(w, answer, phase) ==
  /\ calls[w].phase = "asking"
  /\ answer \in GatewayAnswers(calls[w].handle)
  /\ calls' = [calls EXCEPT ![w].phase = phase, ![w].answer = answer]
  /\ UNCHANGED <<sealVars, public, worldVars>>

(* A value that is no boolean is refused by the provider. *)
Decrypted(w) ==
  Answered(w, "value", IF calls[w].handle \in Signals THEN "unexpectedType" ELSE "revealed")

Rethrown(w, answer) ==
  answer # "value" /\ ~Retryable(answer) /\ Answered(w, answer, "rethrown")

GivesUp(w, answer) ==
  /\ Retryable(answer)
  /\ LastAttempt(calls[w].attempt)
  /\ Answered(w, answer, "notIndexed")

SameAttempt(attempt) == attempt
(* attempt++ *)
NextAttempt(attempt) == attempt + 1

AfterNoPause == "asking"
(* await sleep(delayMs) *)
AfterRetryable == "sleeping"

(* The attempt is counted when the pause begins. *)
Retries(w, answer) ==
  /\ Retryable(answer)
  /\ ~LastAttempt(calls[w].attempt)
  /\ calls[w].phase = "asking"
  /\ answer \in GatewayAnswers(calls[w].handle)
  /\ calls' = [calls EXCEPT ![w].phase = AfterRetryable, ![w].answer = answer,
                            ![w].attempt = NextAttempt(@)]
  /\ UNCHANGED <<sealVars, public, worldVars>>

Step(w) ==
  \/ Decrypted(w)
  \/ \E answer \in Answers : Rethrown(w, answer) \/ GivesUp(w, answer) \/ Retries(w, answer)

(* A pause passes: whoever slept wakes, and will ask at some later time.   *)
(* Index and enclave keep within Lag.                                      *)
UpTo(limit, n) == IF n < limit THEN n + 1 ELSE limit
Tick ==
  /\ \A h \in public : age[h] = Lag => Ready(h)
  /\ age' = [h \in Handles |-> IF h \in public THEN UpTo(Lag, age[h]) ELSE age[h]]
  /\ calls' = [w \in Readers |->
       IF calls[w].phase \in Busy
       THEN [calls[w] EXCEPT !.phase = "asking", !.waited = UpTo(Attempts, @)]
       ELSE calls[w]]
  /\ UNCHANGED <<sealVars, public, indexed, computed>>

Next ==
  \/ \E w \in Wallets, h \in Handles :
       \/ \E approver \in Wallets : SealApproval(w, approver, h)
       \/ \E value \in Plaintexts : EncryptSignal(w, value, h)
  \/ \E w \in Readers :
       \/ \E h \in Handles : RevealApproval(w, h) \/ RevealVerdict(w, h)
       \/ Step(w)
  \/ \E sender \in Wallets, r \in Requests, h \in Approvals : SubmitApproval(sender, r, h)
  \/ \E h \in Handles : PublishVerdict(h) \/ Index(h) \/ Compute(h)
  \/ Tick

(* Timers fire, requests come back, index and enclave make progress.  No   *)
(* wallet has to send anything.                                            *)
Fairness ==
  /\ WF_vars(Tick)
  /\ \A w \in Readers : WF_vars(Step(w))
  /\ \A h \in Handles : WF_vars(Index(h)) /\ WF_vars(Compute(h))

Spec == Init /\ [][Next]_vars
FairSpec == Spec /\ Fairness

-----------------------------------------------------------------------------
(***************************************************************************)
(* When index and enclave keep within Lag and the retries reach beyond it, *)
(* a call for a handle that was public when the call began ends in its     *)
(* value, or in an error that is no wait: never in NOX_HANDLE_NOT_INDEXED, *)
(* and never in a wait taken for a failure (lines 23-33, 65).  The retries *)
(* span one pause less than there are attempts.                            *)
(***************************************************************************)
OutlastsTheLag ==
  Lag < Attempts - 1 =>
    \A w \in Readers : calls[w].early =>
      /\ calls[w].phase # "notIndexed"
      /\ calls[w].phase = "rethrown" => calls[w].answer \notin Waits

(* The attempts of a call so far: the one it sleeps before is still to come. *)
Asked(call) == IF call.phase = "sleeping" THEN call.attempt - 1 ELSE call.attempt

(***************************************************************************)
(* Attempts are at least a pause apart, also when several callers wait for *)
(* one handle; so a call that reports NOX_HANDLE_NOT_INDEXED has waited    *)
(* all the pauses between its attempts (lines 71-75).                      *)
(***************************************************************************)
RetriesAreSpaced ==
  \A w \in Readers :
    /\ Asked(calls[w]) <= calls[w].waited + 1
    /\ calls[w].phase = "notIndexed" => calls[w].waited >= Attempts - 1

(***************************************************************************)
(* Runs until the gateway stops reporting a wait, "or gives up loudly"     *)
(* (line 48): no call waits for ever, whatever handle it asked for.        *)
(***************************************************************************)
EveryCallEnds ==
  \A w \in Readers : calls[w].phase \in Busy ~> calls[w].phase \notin Busy

(***************************************************************************)
(* A request that is sealed can be settled: its handle is one that the     *)
(* gateway comes to reveal, so no request is stuck behind a bit that only  *)
(* the enclave can read (QeltrunPayoutFirewall.sol:205-210).               *)
(***************************************************************************)
SealedBecomesReadable ==
  \A r \in Requests, h \in Approvals : (sealedApproval[r] = h) ~> Ready(h)
=============================================================================
