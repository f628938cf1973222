------------------------ MODULE NoxDecryptionProofs ------------------------
(***************************************************************************)
(* The safety properties of NoxDecryption, for every number of attempts,   *)
(* every lag and every set of handles and callers.                         *)
(***************************************************************************)
EXTENDS NoxDecryption, TLAPS

(* A call that began when its handle was public has waited no longer than  *)
(* the handle is public, as long as index and enclave are behind.          *)
Chasing ==
  \A w \in Readers :
    calls[w].early /\ calls[w].phase \in Busy =>
      /\ calls[w].handle \in public
      /\ ~Ready(calls[w].handle) => calls[w].waited <= age[calls[w].handle]

(* What RetriesAreSpaced needs to be inductive. *)
Counted ==
  \A w \in Readers :
    /\ calls[w].phase = "notIndexed" => calls[w].attempt = Attempts
    /\ calls[w].phase = "sleeping" => calls[w].attempt >= 2

DecryptionInv ==
  TypeOK /\ Counted /\ RetriesAreSpaced /\ Chasing /\ OutlastsTheLag

-----------------------------------------------------------------------------
(* Counting up to a limit stays within it, and adds one below it.          *)
LEMMA UpToFacts ==
  ASSUME NEW limit \in Nat, NEW n \in 0..limit
  PROVE  /\ UpTo(limit, n) \in 0..limit
         /\ UpTo(limit, n) <= n + 1
         /\ n < limit => UpTo(limit, n) = n + 1
         /\ UpTo(limit, n) = limit \/ UpTo(limit, n) = n + 1
BY DEF UpTo

(* The state before the first step. *)
LEMMA InitHolds == Init => DecryptionInv
<1> SUFFICES ASSUME Init PROVE DecryptionInv
  OBVIOUS
<1> USE AttemptsAssumption, LagAssumption
<1>1. (CHOOSE h \in Handles : TRUE) \in Handles
  BY HandleAssumption DEF Handles, Sealable
<1>2. NoCall \in Call
  BY <1>1 DEF NoCall, Call
<1>3. /\ NoCall.phase = "idle" /\ NoCall.attempt = 1 /\ NoCall.answer = "none"
      /\ NoCall.waited = 0 /\ NoCall.early = FALSE
  BY DEF NoCall
<1>4. TypeOK
  BY <1>2 DEF Init, TypeOK, Sealable
<1>5. Counted /\ RetriesAreSpaced /\ Chasing /\ OutlastsTheLag
  <2>1. \A w \in Readers : calls[w] = NoCall
    BY DEF Init
  <2>2. Counted
    BY <1>3, <2>1 DEF Counted
  <2>3. RetriesAreSpaced
    BY <1>3, <2>1 DEF RetriesAreSpaced, Asked
  <2>5. Chasing /\ OutlastsTheLag
    BY <1>3, <2>1 DEF Chasing, OutlastsTheLag
  <2> QED BY <2>2, <2>3, <2>5
<1> QED BY <1>4, <1>5 DEF DecryptionInv

(* A step that leaves the calls alone, and only adds to what is public,    *)
(* indexed and computed, keeps the invariant.                              *)
LEMMA WorldStep ==
  ASSUME DecryptionInv, UNCHANGED <<calls, age>>,
         public \subseteq public', indexed \subseteq indexed', computed \subseteq computed',
         TypeOK'
  PROVE  DecryptionInv'
<1>1. Counted' /\ RetriesAreSpaced' /\ OutlastsTheLag'
  BY DEF DecryptionInv, Counted, RetriesAreSpaced, OutlastsTheLag, Asked
<1>2. Chasing'
  BY DEF DecryptionInv, Chasing, Ready
<1> QED BY <1>1, <1>2 DEF DecryptionInv

(* Sealing. *)
LEMMA SealStep ==
  ASSUME DecryptionInv, NEW w \in Wallets, NEW h \in Sealable,
         EncryptInput(w, h)
  PROVE  DecryptionInv'
<1>1. TypeOK'
  BY DEF DecryptionInv, TypeOK, EncryptInput, Handles, Sealable
<1> QED BY <1>1, WorldStep DEF EncryptInput

(* A request is sealed and its handle made public. *)
LEMMA SubmitStep ==
  ASSUME DecryptionInv, NEW sender \in Wallets, NEW r \in Requests, NEW h \in Approvals,
         SubmitApproval(sender, r, h)
  PROVE  DecryptionInv'
<1>1. TypeOK'
  BY DEF DecryptionInv, TypeOK, SubmitApproval, AllowPublicDecryption, worldVars
<1>2. public \subseteq public'
  BY DEF SubmitApproval, AllowPublicDecryption
<1> QED BY <1>1, <1>2, WorldStep DEF SubmitApproval, worldVars

(* The chain, the index and the enclave. *)
LEMMA ChainStep ==
  ASSUME DecryptionInv, NEW h \in Handles,
         PublishVerdict(h) \/ Index(h) \/ Compute(h)
  PROVE  DecryptionInv'
<1>1. CASE PublishVerdict(h)
  <2>1. TypeOK'
    BY <1>1 DEF DecryptionInv, TypeOK, PublishVerdict, worldVars, sealVars
  <2> QED BY <1>1, <2>1, WorldStep DEF PublishVerdict, worldVars
<1>2. CASE Index(h)
  <2>1. TypeOK'
    BY <1>2 DEF DecryptionInv, TypeOK, Index, sealVars
  <2> QED BY <1>2, <2>1, WorldStep DEF Index
<1>3. CASE Compute(h)
  <2>1. TypeOK'
    BY <1>3 DEF DecryptionInv, TypeOK, Compute, sealVars
  <2> QED BY <1>3, <2>1, WorldStep DEF Compute
<1> QED BY <1>1, <1>2, <1>3

(* A wait is answered only while index or enclave is behind. *)
LEMMA WaitMeansBehind ==
  ASSUME NEW h, NEW answer \in Waits, answer \in GatewayAnswers(h)
  PROVE  ~Ready(h)
BY DEF GatewayAnswers, Ready, Waits

(* A step that replaces the record of one call. *)
LEMMA CallStep ==
  ASSUME DecryptionInv, NEW w \in Readers, NEW call \in Call,
         calls' = [calls EXCEPT ![w] = call],
         UNCHANGED <<sealVars, public, worldVars>>,
         call.phase = "notIndexed" => call.attempt = Attempts,
         call.phase = "sleeping" => call.attempt >= 2,
         Asked(call) <= call.waited + 1,
         call.phase = "notIndexed" => call.waited >= Attempts - 1,
         call.early /\ call.phase \in Busy =>
           /\ call.handle \in public
           /\ ~Ready(call.handle) => call.waited <= age[call.handle],
         Lag < Attempts - 1 /\ call.early =>
           /\ call.phase # "notIndexed"
           /\ call.phase = "rethrown" => call.answer \notin Waits
  PROVE  DecryptionInv'
<1> USE DEF sealVars, worldVars
<1>0. calls \in [Readers -> Call]
  BY DEF DecryptionInv, TypeOK
<1>1. \A v \in Readers : calls'[v] = IF v = w THEN call ELSE calls[v]
  BY <1>0
<1>2. TypeOK'
  BY <1>0 DEF DecryptionInv, TypeOK
<1>3. Counted'
  BY <1>1 DEF DecryptionInv, Counted
<1>4. RetriesAreSpaced'
  BY <1>1 DEF DecryptionInv, RetriesAreSpaced
<1>5. Chasing'
  BY <1>1 DEF DecryptionInv, Chasing, Ready
<1>6. OutlastsTheLag'
  BY <1>1 DEF DecryptionInv, OutlastsTheLag
<1> QED BY <1>2, <1>3, <1>4, <1>5, <1>6 DEF DecryptionInv

(* A call begins. *)
LEMMA BeginStep ==
  ASSUME DecryptionInv, NEW w \in Readers, NEW h \in Handles, Begin(w, h)
  PROVE  DecryptionInv'
<1> DEFINE call == [phase |-> "asking", handle |-> h, attempt |-> 1, answer |-> "none",
                    waited |-> 0, early |-> h \in public]
<1>1. call \in Call
  BY AttemptsAssumption DEF Call, Busy
<1>2. age[h] \in Nat
  BY LagAssumption DEF DecryptionInv, TypeOK
<1>3. /\ Asked(call) <= call.waited + 1
      /\ call.phase # "notIndexed" /\ call.phase # "sleeping" /\ call.phase # "rethrown"
      /\ call.answer = "none" /\ call.handle = h /\ call.waited = 0
  BY DEF Asked
<1>5. call.early => h \in public
  BY Zenon
<1>4. calls' = [calls EXCEPT ![w] = call] /\ UNCHANGED <<sealVars, public, worldVars>>
  BY DEF Begin
<1>6. call.waited <= age[call.handle] /\ (call.early => call.handle \in public)
  BY <1>2, <1>3, <1>5
<1> HIDE DEF call
<1> QED BY <1>1, <1>3, <1>4, <1>6, CallStep

(* The gateway answers. *)
LEMMA AnswerStep ==
  ASSUME DecryptionInv, NEW w \in Readers, Step(w)
  PROVE  DecryptionInv'
<1> DEFINE old == calls[w]
<1>0. /\ old \in Call /\ old.phase = "asking"
      /\ old.attempt \in 1..Attempts /\ old.waited \in 0..Attempts
      /\ old.attempt <= old.waited + 1
      /\ old.early => /\ old.handle \in public
                      /\ ~Ready(old.handle) => old.waited <= age[old.handle]
      /\ calls \in [Readers -> Call]
      /\ age[old.handle] \in 0..Lag
  BY DEF DecryptionInv, TypeOK, RetriesAreSpaced, Chasing, Asked, Call, Busy, Step, Decrypted,
         Rethrown, GivesUp, Retries, Answered
<1> USE AttemptsAssumption, LagAssumption
<1>1. ASSUME NEW answer \in Answers, NEW phase \in {"revealed", "unexpectedType"},
             Answered(w, answer, phase)
      PROVE  DecryptionInv'
  <2> DEFINE call == [old EXCEPT !.phase = phase, !.answer = answer]
  <2>1. /\ call \in Call
        /\ calls' = [calls EXCEPT ![w] = call]
        /\ call.phase = phase /\ call.attempt = old.attempt /\ call.waited = old.waited
    BY <1>0, <1>1 DEF Call, Answered, Ended
  <2>2. Asked(call) <= call.waited + 1
    BY <1>0, <2>1 DEF Asked
  <2> QED
    <3> HIDE DEF call
    <3> QED BY <1>1, <2>1, <2>2, CallStep DEF Answered, Busy
<1>2. ASSUME NEW answer \in Answers, Rethrown(w, answer)
      PROVE  DecryptionInv'
  <2> DEFINE call == [old EXCEPT !.phase = "rethrown", !.answer = answer]
  <2>1. /\ call \in Call
        /\ calls' = [calls EXCEPT ![w] = call]
        /\ call.phase = "rethrown" /\ call.attempt = old.attempt /\ call.waited = old.waited
        /\ call.answer = answer
    BY <1>0, <1>2 DEF Call, Rethrown, Answered, Ended
  <2>2. Asked(call) <= call.waited + 1
    BY <1>0, <2>1 DEF Asked
  <2>3. answer \notin Waits
    BY <1>2 DEF Rethrown, Retryable
  <2> QED
    <3> HIDE DEF call
    <3> QED BY <1>2, <2>1, <2>2, <2>3, CallStep DEF Rethrown, Answered, Busy
<1>3. ASSUME NEW answer \in Answers, GivesUp(w, answer)
      PROVE  DecryptionInv'
  <2> DEFINE call == [old EXCEPT !.phase = "notIndexed", !.answer = answer]
  <2>1. /\ call \in Call
        /\ calls' = [calls EXCEPT ![w] = call]
        /\ call.phase = "notIndexed" /\ call.attempt = old.attempt /\ call.waited = old.waited
        /\ call.early = old.early /\ UNCHANGED <<sealVars, public, worldVars>>
    BY <1>0, <1>3 DEF Call, GivesUp, Answered, Ended
  <2>2. Asked(call) <= call.waited + 1 /\ call.attempt = Attempts
    BY <1>0, <1>3, <2>1 DEF Asked, GivesUp, LastAttempt
  <2>3. ~Ready(old.handle)
    BY <1>3, WaitMeansBehind DEF GivesUp, Answered, Retryable
  <2>4. Lag < Attempts - 1 => ~old.early
    BY <1>0, <2>1, <2>2, <2>3
  <2>5. call.waited >= Attempts - 1
    BY <1>0, <2>1, <2>2
  <2> QED
    <3> HIDE DEF call
    <3> QED BY <2>1, <2>2, <2>4, <2>5, CallStep DEF Busy
<1>4. ASSUME NEW answer \in Answers, Retries(w, answer)
      PROVE  DecryptionInv'
  <2> DEFINE call == [old EXCEPT !.phase = "sleeping", !.answer = answer,
                                 !.attempt = old.attempt + 1]
  <2>1. old.attempt < Attempts /\ answer \in Waits
    BY <1>0, <1>4 DEF Retries, LastAttempt, Retryable
  <2>2. /\ call \in Call
        /\ calls' = [calls EXCEPT ![w] = call]
        /\ call.phase = "sleeping" /\ call.attempt = old.attempt + 1
        /\ call.waited = old.waited /\ call.answer = answer /\ call.handle = old.handle
        /\ call.early = old.early /\ UNCHANGED <<sealVars, public, worldVars>>
    BY <1>0, <1>4, <2>1 DEF Call, Retries, AfterRetryable, NextAttempt, Busy, Answers
  <2>3. Asked(call) <= call.waited + 1 /\ call.attempt >= 2
    BY <1>0, <2>2 DEF Asked
  <2> QED
    <3> HIDE DEF call
    <3> QED BY <1>0, <2>1, <2>2, <2>3, CallStep DEF Busy
<1>5. (IF old.handle \in Signals THEN "unexpectedType" ELSE "revealed")
        \in {"revealed", "unexpectedType"} /\ "value" \in Answers
  BY DEF Answers
<1> QED BY <1>1, <1>2, <1>3, <1>4, <1>5 DEF Step, Decrypted

(* A pause passes. *)
LEMMA TickStep ==
  ASSUME DecryptionInv, Tick
  PROVE  DecryptionInv'
<1> USE AttemptsAssumption, LagAssumption DEF sealVars
<1>1. calls \in [Readers -> Call] /\ age \in [Handles -> 0..Lag]
  BY DEF DecryptionInv, TypeOK
<1>2. ASSUME NEW w \in Readers
      PROVE  /\ calls[w] \in Call /\ calls'[w] \in Call
             /\ calls'[w].attempt = calls[w].attempt /\ calls'[w].handle = calls[w].handle
             /\ calls'[w].answer = calls[w].answer /\ calls'[w].early = calls[w].early
             /\ calls[w].phase \notin Busy => calls'[w] = calls[w]
             /\ calls[w].phase \in Busy =>
                  /\ calls'[w].phase = "asking"
                  /\ calls'[w].waited = UpTo(Attempts, calls[w].waited)
  <2>1. calls[w] \in Call /\ calls[w].waited \in 0..Attempts
    BY <1>1 DEF Call
  <2>2. UpTo(Attempts, calls[w].waited) \in 0..Attempts
    BY <2>1, UpToFacts
  <2> QED BY <2>1, <2>2 DEF Tick, Call, Busy
<1>3. TypeOK'
  <2>1. age' \in [Handles -> 0..Lag]
    BY <1>1, UpToFacts DEF Tick
  <2>2. calls' \in [Readers -> Call]
    BY <1>2 DEF Tick
  <2> QED BY <2>1, <2>2 DEF Tick, DecryptionInv, TypeOK
<1>4. Counted'
  BY <1>2 DEF DecryptionInv, Counted, Busy
<1>5. RetriesAreSpaced'
  <2> SUFFICES ASSUME NEW w \in Readers
               PROVE  /\ Asked(calls'[w]) <= calls'[w].waited + 1
                      /\ calls'[w].phase = "notIndexed" => calls'[w].waited >= Attempts - 1
    BY DEF RetriesAreSpaced
  <2>1. Asked(calls[w]) <= calls[w].waited + 1
        /\ (calls[w].phase = "notIndexed" => calls[w].waited >= Attempts - 1)
    BY DEF DecryptionInv, RetriesAreSpaced
  <2>2. CASE calls[w].phase \notin Busy
    BY <1>2, <2>1, <2>2
  <2>3. CASE calls[w].phase \in Busy
    <3>1. calls[w].waited \in 0..Attempts /\ calls[w].attempt \in 1..Attempts
      BY <1>1 DEF Call
    <3>2. UpTo(Attempts, calls[w].waited) = Attempts
          \/ UpTo(Attempts, calls[w].waited) = calls[w].waited + 1
      BY <3>1, UpToFacts
    <3> QED BY <1>2, <2>1, <2>3, <3>1, <3>2 DEF Asked
  <2> QED BY <2>2, <2>3
<1>6. Chasing'
  <2> SUFFICES ASSUME NEW w \in Readers, calls'[w].early, calls'[w].phase \in Busy
               PROVE  /\ calls'[w].handle \in public'
                      /\ ~(calls'[w].handle \in indexed' /\ calls'[w].handle \in computed') =>
                           calls'[w].waited <= age'[calls'[w].handle]
    BY DEF Chasing, Ready
  <2> DEFINE h == calls[w].handle
  <2>1. calls[w].early /\ calls[w].phase \in Busy /\ h \in Handles /\ calls'[w].handle = h
        /\ calls[w].waited \in 0..Attempts /\ calls'[w].waited = UpTo(Attempts, calls[w].waited)
    BY <1>1, <1>2 DEF Call
  <2>2. h \in public /\ public' = public
    BY <2>1 DEF DecryptionInv, Chasing, Tick
  <2>3. ASSUME ~(h \in indexed' /\ h \in computed') PROVE calls'[w].waited <= age'[h]
    <3>1. ~Ready(h)
      BY <2>3 DEF Ready, Tick
    <3>2. calls[w].waited <= age[h] /\ age[h] \in 0..Lag
      BY <1>1, <2>1, <3>1 DEF DecryptionInv, Chasing
    <3>3. age[h] < Lag
      <4>1. age[h] # Lag
        BY <2>2, <3>1 DEF Tick
      <4> QED BY <3>2, <4>1
    <3>4. age'[h] = age[h] + 1
      BY <2>1, <2>2, <3>2, <3>3, UpToFacts DEF Tick
    <3>5. calls'[w].waited <= calls[w].waited + 1 /\ calls'[w].waited \in 0..Attempts
      BY <2>1, UpToFacts
    <3> QED BY <2>1, <3>2, <3>4, <3>5
  <2> QED BY <2>1, <2>2, <2>3
<1>7. OutlastsTheLag'
  BY <1>2 DEF DecryptionInv, OutlastsTheLag, Busy
<1> QED BY <1>3, <1>4, <1>5, <1>6, <1>7 DEF DecryptionInv

(* Every step keeps the invariant. *)
LEMMA NextHolds == DecryptionInv /\ [Next]_vars => DecryptionInv'
<1> SUFFICES ASSUME DecryptionInv, [Next]_vars PROVE DecryptionInv'
  OBVIOUS
<1>1. CASE UNCHANGED vars
  <2>1. TypeOK'
    BY <1>1 DEF vars, sealVars, worldVars, DecryptionInv, TypeOK
  <2> QED BY <1>1, <2>1, WorldStep DEF vars, worldVars
<1>2. ASSUME NEW w \in Wallets, NEW h \in Handles, NEW approver \in Wallets,
             SealApproval(w, approver, h)
      PROVE  DecryptionInv'
  BY <1>2, SealStep DEF SealApproval, Sealable
<1>3. ASSUME NEW w \in Wallets, NEW h \in Handles, NEW value \in Plaintexts,
             EncryptSignal(w, value, h)
      PROVE  DecryptionInv'
  BY <1>3, SealStep DEF EncryptSignal, Sealable
<1>4. ASSUME NEW w \in Readers, NEW h \in Handles, RevealApproval(w, h) \/ RevealVerdict(w, h)
      PROVE  DecryptionInv'
  BY <1>4, BeginStep DEF RevealApproval, RevealVerdict
<1> QED BY <1>1, <1>2, <1>3, <1>4, AnswerStep, SubmitStep, ChainStep, TickStep DEF Next

(***************************************************************************)
(* With any retries that reach beyond the lag, no call for a published     *)
(* handle ends in NOX_HANDLE_NOT_INDEXED or in a wait taken for a failure; *)
(* attempts are a pause apart.                                             *)
(***************************************************************************)
THEOREM DecryptionSafe ==
  Spec => [](TypeOK /\ OutlastsTheLag /\ RetriesAreSpaced)
<1>1. Init => DecryptionInv
  BY InitHolds
<1>2. DecryptionInv => TypeOK /\ OutlastsTheLag /\ RetriesAreSpaced
  BY DEF DecryptionInv
<1> QED BY <1>1, <1>2, NextHolds, PTL DEF Spec

(***************************************************************************)
(* Every call of the retry loop is in one of its places, with the attempts *)
(* and the answers that it can have there.                                 *)
(***************************************************************************)
THEOREM TypeCorrectness == Spec => []TypeOK
BY DecryptionSafe, PTL

(***************************************************************************)
(* Between two attempts a call waits at least the pause, for any number of *)
(* calls and of retries (decryption-retry.ts).                             *)
(***************************************************************************)
THEOREM PausesKept == Spec => []RetriesAreSpaced
BY DecryptionSafe, PTL
=============================================================================
