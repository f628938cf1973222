-------------------------- MODULE LocalGatewayProofs --------------------------
(***************************************************************************)
(* For any number of approvers, requests, restarts and local setups: a     *)
(* verdict is the contract's over what the life of the server that signed  *)
(* it had sealed; handles of one life are distinct, and what was sealed    *)
(* since the server started is kept.  The two halves of the gateway share  *)
(* the count of restarts and the firewall, nothing else.                   *)
(***************************************************************************)
EXTENDS LocalGateway, SequenceTheorems, TLAPS

ServerTypeOK == restarts \in 0..MaxRestarts /\ firewall \in 1..MaxDeploys

V1TypeOK ==
  /\ providers \in Seq(Provider)
  /\ bits \subseteq SealedBit
  /\ approvals \in [Approvals -> SUBSET SealedBit]
  /\ revealed \in [Approvals -> SUBSET Proof]

V2TypeOK ==
  /\ signals \in Seq(Uint16)
  /\ positions \subseteq SealedSignal
  /\ minted \subseteq SealedSignal
  /\ submitted \in [Requests -> Seq(SealedSignal)]
  /\ verdicts \in [Requests -> SUBSET VerdictProof]

SomeoneKnows(known, handle) == \E i \in 1..Len(known) : KnowsHandle(known[i], handle)

SealedBits == bits \cup UNION {approvals[r] : r \in Approvals}
Inputs == positions \cup UNION {Submitted(r) : r \in Requests}

(* What is sealed is of this life or an earlier one; of this life, it is   *)
(* still held, with its plaintext.                                         *)
BitsAreKept ==
  \A b \in SealedBits : b.life <= restarts /\ (b.life = restarts => SomeoneKnows(providers, b.handle))
SignalsAreKept ==
  \A s \in minted :
    /\ s.life <= restarts
    /\ s.life = restarts => KnowsSignal(s.handle) /\ signals[s.handle] = s.value

(* What the server holds was sealed in this life. *)
KnownIsMinted ==
  \A h \in 1..Len(signals) : \E s \in minted : s.handle = h /\ s.life = restarts

(* A life of the server mints a handle once. *)
MintedOnce ==
  \A s, t \in minted : s.life = t.life /\ s.handle = t.handle => s = t

(* A verdict was signed over handles minted in its life. *)
VerdictsAreOfMinted ==
  \A r \in Requests : \A proof \in verdicts[r] : \A h \in proof.handles :
    \E s \in minted : s.life = proof.life /\ s.handle = h

V1Inv == V1TypeOK /\ BitsAreKept
V2Inv ==
  /\ V2TypeOK
  /\ Inputs \subseteq minted
  /\ SignalsAreKept
  /\ KnownIsMinted
  /\ MintedOnce
  /\ VerdictsAreOfMinted
  /\ VerdictIsOfItsLife

GatewayInv == ServerTypeOK /\ V1Inv /\ V2Inv

LEMMA GatewayInitially == Init => GatewayInv
<1> SUFFICES ASSUME Init PROVE GatewayInv
  OBVIOUS
<1>1. ServerTypeOK
  BY BoundAssumption DEF Init, ServerTypeOK
<1>2. V1Inv
  BY DEF Init, V1Inv, V1TypeOK, BitsAreKept, SealedBits
<1>3. \A r \in Requests : Submitted(r) = {}
  BY DEF Init, Submitted
<1>4. Inputs = {}
  BY <1>3 DEF Init, Inputs
<1>5. V2Inv
  BY <1>4 DEF Init, V2Inv, V2TypeOK, SignalsAreKept, KnownIsMinted, MintedOnce,
              VerdictsAreOfMinted, VerdictIsOfItsLife
<1>6. QED
  BY <1>1, <1>2, <1>5 DEF GatewayInv

-----------------------------------------------------------------------------
(* The v1 half.                                                            *)

LEMMA ProviderForIsTyped ==
  ASSUME V1TypeOK, NEW a \in Approvers
  PROVE  LET known == ProviderFor(a)
             i == CHOOSE j \in 1..Len(known) : known[j].approver = a
         IN /\ known \in Seq(Provider)
            /\ i \in 1..Len(known) /\ known[i].approver = a
            /\ Len(known) >= Len(providers)
            /\ \A j \in 1..Len(providers) : known[j] = providers[j]
<1> DEFINE known == ProviderFor(a)
           i == CHOOSE j \in 1..Len(known) : known[j].approver = a
           fresh == [approver |-> a, plaintexts |-> <<>>]
<1>1. fresh \in Provider
  BY DEF Provider
<1>2. /\ known \in Seq(Provider)
      /\ Len(known) >= Len(providers)
      /\ \A j \in 1..Len(providers) : known[j] = providers[j]
  BY <1>1 DEF ProviderFor, V1TypeOK
<1>3. \E j \in 1..Len(known) : known[j].approver = a
  <2>1. CASE Mine(a) # {}
    BY <2>1 DEF ProviderFor, Mine
  <2>2. CASE Mine(a) = {}
    <3>1. known = Append(providers, fresh) /\ fresh.approver = a
      BY <2>2 DEF ProviderFor
    <3> HIDE DEF fresh, known
    <3>2. Len(known) = Len(providers) + 1 /\ Len(providers) \in Nat
            /\ known[Len(providers) + 1] = fresh
      BY <1>1, <3>1, AppendProperties DEF V1TypeOK
    <3>3. QED
      BY <3>1, <3>2
  <2>3. QED
    BY <2>1, <2>2
<1>4. i \in 1..Len(known) /\ known[i].approver = a
  BY <1>3
<1>5. QED
  BY <1>2, <1>4

LEMMA V1Seals ==
  ASSUME ServerTypeOK, V1Inv, NEW a \in Approvers, NEW approve \in BOOLEAN,
         SealApproval(a, approve, firewall)
  PROVE  V1Inv'
<1> DEFINE known == ProviderFor(a)
           i == CHOOSE j \in 1..Len(known) : known[j].approver = a
           plaintexts == known[i].plaintexts
           sealed == [handle |-> MintHandle(plaintexts), owner |-> a,
                      app |-> firewall, value |-> approve, life |-> restarts]
<1>1. /\ known \in Seq(Provider)
      /\ i \in 1..Len(known)
      /\ Len(known) >= Len(providers)
      /\ \A j \in 1..Len(providers) : known[j] = providers[j]
  BY ProviderForIsTyped DEF V1Inv
<1>2. /\ providers' = [known EXCEPT ![i].plaintexts = Append(plaintexts, approve)]
      /\ bits' = OthersInputs(bits, a) \cup {sealed}
      /\ UNCHANGED <<restarts, approvals, revealed>>
  BY DEF SealApproval
<1> HIDE DEF known, i
<1>3. plaintexts \in Seq(BOOLEAN) /\ known[i] \in Provider
  <2>1. known[i] \in Provider
    BY <1>1
  <2>2. QED
    BY <2>1 DEF Provider
<1>4. Append(plaintexts, approve) \in Seq(BOOLEAN)
        /\ Len(Append(plaintexts, approve)) = Len(plaintexts) + 1
  BY <1>3
<1>5. /\ providers' \in Seq(Provider) /\ Len(providers') = Len(known)
      /\ providers'[i].plaintexts = Append(plaintexts, approve)
      /\ \A j \in 1..Len(known) : j # i => providers'[j] = known[j]
  <2> DEFINE grown == [known[i] EXCEPT !.plaintexts = Append(plaintexts, approve)]
  <2>1. grown \in Provider /\ grown.plaintexts = Append(plaintexts, approve)
    BY <1>3, <1>4 DEF Provider
  <2>2. providers' = [known EXCEPT ![i] = grown]
    BY <1>2
  <2> HIDE DEF grown
  <2>3. QED
    BY <1>1, <2>1, <2>2
<1>6. sealed \in SealedBit
  BY <1>3 DEF SealedBit, Sealed, MintHandle, ServerTypeOK
<1>7. V1TypeOK'
  BY <1>2, <1>5, <1>6 DEF V1Inv, V1TypeOK, OthersInputs
<1>8. SomeoneKnows(providers', sealed.handle)
  <2>1. KnowsHandle(providers'[i], Len(plaintexts) + 1)
    BY <1>3, <1>4, <1>5 DEF KnowsHandle
  <2>2. QED
    BY <1>1, <1>5, <2>1 DEF SomeoneKnows, MintHandle
<1>9. ASSUME NEW handle, SomeoneKnows(providers, handle)
      PROVE  SomeoneKnows(providers', handle)
  <2>1. PICK j \in 1..Len(providers) : handle \in 1..Len(providers[j].plaintexts)
    BY <1>9 DEF SomeoneKnows, KnowsHandle
  <2>2. j \in 1..Len(known) /\ known[j] = providers[j]
    BY <1>1, <2>1 DEF V1Inv, V1TypeOK
  <2>3. handle \in 1..Len(providers'[j].plaintexts)
    BY <1>3, <1>4, <1>5, <2>1, <2>2
  <2>4. QED
    BY <1>5, <2>2, <2>3 DEF SomeoneKnows, KnowsHandle
<1>10. \A b \in SealedBits' : b \in SealedBits \/ b = sealed
  BY <1>2 DEF SealedBits, OthersInputs
<1>11. BitsAreKept'
  <2> SUFFICES ASSUME NEW b \in SealedBits'
               PROVE  b.life <= restarts' /\
                 (b.life = restarts' => SomeoneKnows(providers', b.handle))
    BY DEF BitsAreKept
  <2>1. CASE b = sealed
    BY <1>2, <1>8, <2>1, BoundAssumption DEF ServerTypeOK
  <2>2. CASE b \in SealedBits
    BY <1>2, <1>9, <2>2 DEF V1Inv, BitsAreKept
  <2>3. QED
    BY <1>10, <2>1, <2>2
<1>12. QED
  BY <1>7, <1>11 DEF V1Inv

LEMMA V1Submits ==
  ASSUME V1Inv, NEW r \in Approvals, NEW b \in bits, SubmitApproval(r, b)
  PROVE  V1Inv'
<1>1. /\ UNCHANGED <<providers, restarts, revealed>>
      /\ approvals' = [approvals EXCEPT ![r] = {b}]
      /\ bits' = bits \ {b}
  BY DEF SubmitApproval, serverVars
<1>2. V1TypeOK'
  BY <1>1 DEF V1Inv, V1TypeOK
<1>3. SealedBits' \subseteq SealedBits
  BY <1>1 DEF SealedBits, V1Inv, V1TypeOK
<1>4. QED
  BY <1>1, <1>2, <1>3 DEF V1Inv, BitsAreKept

LEMMA V1Reveals ==
  ASSUME ServerTypeOK, V1Inv, NEW r \in Approvals, RevealApproval(r)
  PROVE  V1Inv'
<1>1. PICK b \in approvals[r] : \E i \in ProviderHolding(b.handle) :
        /\ revealed' = [revealed EXCEPT ![r] =
             {[value |-> providers[i].plaintexts[b.handle], life |-> restarts]}]
        /\ UNCHANGED <<serverVars, firewall, bits, approvals, v2Vars>>
  BY DEF RevealApproval
<1>2. PICK i \in ProviderHolding(b.handle) :
        /\ revealed' = [revealed EXCEPT ![r] =
             {[value |-> providers[i].plaintexts[b.handle], life |-> restarts]}]
        /\ UNCHANGED <<serverVars, firewall, bits, approvals, v2Vars>>
  BY <1>1
<1>3. providers[i].plaintexts[b.handle] \in BOOLEAN
  <2>1. i \in 1..Len(providers) /\ b.handle \in 1..Len(providers[i].plaintexts)
    BY DEF ProviderHolding, KnowsHandle
  <2>2. providers[i] \in Provider
    BY <2>1 DEF V1Inv, V1TypeOK
  <2>3. providers[i].plaintexts \in Seq(BOOLEAN)
    BY <2>2 DEF Provider
  <2>4. QED
    BY <2>1, <2>3
<1>4. {[value |-> providers[i].plaintexts[b.handle], life |-> restarts]} \subseteq Proof
  BY <1>3 DEF Proof, ServerTypeOK
<1>5. V1TypeOK'
  BY <1>2, <1>4 DEF V1Inv, V1TypeOK, serverVars
<1>6. UNCHANGED <<providers, restarts, bits, approvals>>
  BY <1>2 DEF serverVars
<1>7. QED
  BY <1>5, <1>6 DEF V1Inv, BitsAreKept, SealedBits

LEMMA V1Restarts ==
  ASSUME ServerTypeOK, V1Inv, RestartServer
  PROVE  V1Inv'
<1>1. providers' = <<>> /\ restarts' = restarts + 1 /\ UNCHANGED v1Vars
  BY DEF RestartServer
<1>2. V1TypeOK'
  BY <1>1 DEF V1Inv, V1TypeOK, v1Vars
<1>3. \A b \in SealedBits : b.life \in Nat /\ b.life < restarts'
  <2>1. \A b \in SealedBits : b.life \in 0..MaxRestarts
    BY DEF V1Inv, V1TypeOK, SealedBits, SealedBit, Sealed
  <2>2. QED
    BY <1>1, <2>1, BoundAssumption DEF V1Inv, BitsAreKept, ServerTypeOK
<1>4. QED
  BY <1>1, <1>2, <1>3 DEF V1Inv, BitsAreKept, SealedBits, v1Vars

LEMMA V1Redeploys ==
  ASSUME V1Inv, Redeploy
  PROVE  V1Inv'
<1>1. /\ approvals' = [r \in Approvals |-> {}]
      /\ revealed' = [r \in Approvals |-> {}]
      /\ UNCHANGED <<providers, restarts, bits>>
  BY DEF Redeploy, serverVars
<1>2. SealedBits' \subseteq SealedBits
  BY <1>1 DEF SealedBits
<1>3. QED
  BY <1>1, <1>2 DEF V1Inv, V1TypeOK, BitsAreKept

(* A step of the other half, or of nobody.                                 *)
LEMMA V1Unchanged ==
  ASSUME V1Inv, UNCHANGED <<providers, restarts, v1Vars>>
  PROVE  V1Inv'
BY DEF V1Inv, V1TypeOK, BitsAreKept, SealedBits, v1Vars

-----------------------------------------------------------------------------
(* The v2 half.                                                            *)

LEMMA V2Seals ==
  ASSUME ServerTypeOK, V2Inv, NEW a \in Reviewers, NEW n \in Numbers,
         SealSignal(a, n, firewall)
  PROVE  V2Inv'
<1> DEFINE sealed == [handle |-> Len(signals) + 1, owner |-> a,
                      app |-> firewall, value |-> n, life |-> restarts]
<1>1. /\ n \in Uint16
      /\ signals' = Append(signals, n)
      /\ positions' = OthersInputs(positions, a) \cup {sealed}
      /\ minted' = minted \cup {sealed}
      /\ UNCHANGED <<restarts, submitted, verdicts>>
  BY DEF SealSignal, ValidSignal, V2Provider, MintHandle
<1>2. signals \in Seq(Uint16)
  BY DEF V2Inv, V2TypeOK
<1>3. /\ signals' \in Seq(Uint16) /\ Len(signals') = Len(signals) + 1
      /\ signals'[Len(signals) + 1] = n
      /\ \A i \in 1..Len(signals) : signals'[i] = signals[i]
  BY <1>1, <1>2
<1>4. /\ sealed \in SealedSignal
      /\ sealed.handle = Len(signals) + 1 /\ sealed.life = restarts /\ sealed.value = n
  BY <1>1, <1>2 DEF SealedSignal, Sealed, ServerTypeOK
<1> HIDE DEF sealed
<1>5. V2TypeOK'
  BY <1>1, <1>3, <1>4 DEF V2Inv, V2TypeOK, OthersInputs
<1>6. Inputs' \subseteq minted'
  BY <1>1 DEF V2Inv, Inputs, Submitted, OthersInputs
<1>7. SignalsAreKept'
  <2> SUFFICES ASSUME NEW s \in minted'
               PROVE  /\ s.life <= restarts'
                      /\ s.life = restarts' =>
                           s.handle \in 1..Len(signals') /\ signals'[s.handle] = s.value
    BY DEF SignalsAreKept, KnowsSignal
  <2>1. CASE s = sealed
    BY <1>1, <1>2, <1>3, <1>4, <2>1, BoundAssumption DEF ServerTypeOK
  <2>2. CASE s \in minted
    BY <1>1, <1>2, <1>3, <2>2 DEF V2Inv, SignalsAreKept, KnowsSignal
  <2>3. QED
    BY <1>1, <2>1, <2>2
<1>8. KnownIsMinted'
  <2> SUFFICES ASSUME NEW h \in 1..Len(signals')
               PROVE  \E s \in minted' : s.handle = h /\ s.life = restarts'
    BY DEF KnownIsMinted
  <2>1. CASE h = Len(signals) + 1
    BY <1>1, <1>4, <2>1
  <2>2. CASE h # Len(signals) + 1
    <3>1. h \in 1..Len(signals)
      BY <1>2, <1>3, <2>2
    <3>2. QED
      BY <1>1, <3>1 DEF V2Inv, KnownIsMinted
  <2>3. QED
    BY <2>1, <2>2
<1>9. \A s \in minted : s.life = restarts => s.handle # sealed.handle
  BY <1>2, <1>4 DEF V2Inv, SignalsAreKept, KnowsSignal
<1>10. MintedOnce'
  BY <1>1, <1>4, <1>9 DEF V2Inv, MintedOnce
<1>11. VerdictsAreOfMinted'
  BY <1>1 DEF V2Inv, VerdictsAreOfMinted
<1>12. VerdictIsOfItsLife'
  <2> SUFFICES ASSUME NEW r \in Requests, NEW proof \in verdicts[r], NEW h \in proof.handles
               PROVE  (\E s \in minted' : s.handle = h /\ s.life = proof.life /\ s.value = 1)
                        <=> \E s \in minted : s.handle = h /\ s.life = proof.life /\ s.value = 1
    BY <1>1 DEF V2Inv, VerdictIsOfItsLife
  <2>1. PICK s \in minted : s.life = proof.life /\ s.handle = h
    BY DEF V2Inv, VerdictsAreOfMinted
  <2>2. ~(sealed.life = proof.life /\ sealed.handle = h)
    BY <1>4, <1>9, <2>1
  <2>3. QED
    BY <1>1, <2>2
<1>13. QED
  BY <1>5, <1>6, <1>7, <1>8, <1>10, <1>11, <1>12 DEF V2Inv

LEMMA V2Submits ==
  ASSUME V2Inv, NEW r \in Requests, NEW s \in positions, SubmitSignal(r, s)
  PROVE  V2Inv'
<1>1. /\ submitted' = [submitted EXCEPT ![r] = Append(@, s)]
      /\ positions' = positions \ {s}
      /\ UNCHANGED <<signals, restarts, minted, verdicts>>
  BY DEF SubmitSignal, serverVars
<1>2. /\ submitted[r] \in Seq(SealedSignal) /\ s \in SealedSignal
      /\ submitted \in [Requests -> Seq(SealedSignal)]
  BY DEF V2Inv, V2TypeOK
<1>3. submitted'[r] = Append(submitted[r], s)
        /\ \A q \in Requests : q # r => submitted'[q] = submitted[q]
  BY <1>1, <1>2
<1>4. V2TypeOK'
  BY <1>1, <1>2, <1>3 DEF V2Inv, V2TypeOK
<1>5. Submitted(r)' = Submitted(r) \cup {s}
        /\ \A q \in Requests : q # r => Submitted(q)' = Submitted(q)
  BY <1>2, <1>3 DEF Submitted
<1>6. Inputs' \subseteq minted'
  BY <1>1, <1>5 DEF V2Inv, Inputs
<1>7. QED
  BY <1>1, <1>4, <1>6 DEF V2Inv, SignalsAreKept, KnowsSignal, KnownIsMinted, MintedOnce,
                          VerdictsAreOfMinted, VerdictIsOfItsLife

(* The sum of the clamped plaintexts is three exactly when all are one.    *)
LEMMA V2Reveals ==
  ASSUME ServerTypeOK, V2Inv, NEW r \in Requests,
         NEW handles \in [1..REQUIRED_SIGNALS -> 1..MaxSignals], RevealVerdict(r, handles)
  PROVE  V2Inv'
<1> DEFINE Plaintext(i) == Clamp(signals[handles[i]])
           value == Plaintext(1) + Plaintext(2) + Plaintext(3) = REQUIRED_SIGNALS
           asked == {handles[1], handles[2], handles[3]}
           proof == [value |-> value, life |-> restarts, handles |-> asked]
<1>1. /\ \A i \in 1..3 : handles[i] \in 1..Len(signals)
      /\ verdicts' = [verdicts EXCEPT ![r] = {proof}]
      /\ UNCHANGED <<signals, restarts, positions, minted, submitted>>
  BY DEF RevealVerdict, serverVars, REQUIRED_SIGNALS, KnowsSignal
<1>2. signals \in Seq(Uint16) /\ verdicts \in [Requests -> SUBSET VerdictProof]
  BY DEF V2Inv, V2TypeOK
<1>3. asked \subseteq Nat
  BY <1>1, <1>2
<1>4. \A i \in 1..3 : signals[handles[i]] \in Uint16
  BY <1>1, <1>2
<1>5. \A v \in Uint16 : Clamp(v) \in {0, 1} /\ (Clamp(v) = 1 <=> v = 1)
  BY DEF Clamp, Uint16
<1>6. value <=> \A i \in 1..3 : signals[handles[i]] = 1
  <2>1. \A i \in 1..3 : Plaintext(i) \in {0, 1} /\ (Plaintext(i) = 1 <=> signals[handles[i]] = 1)
    BY <1>4, <1>5
  <2> HIDE DEF Plaintext
  <2>2. Plaintext(1) \in {0, 1} /\ Plaintext(2) \in {0, 1} /\ Plaintext(3) \in {0, 1}
    BY <2>1
  <2>3. value <=> Plaintext(1) = 1 /\ Plaintext(2) = 1 /\ Plaintext(3) = 1
    BY <2>2 DEF REQUIRED_SIGNALS
  <2>4. QED
    BY <2>1, <2>3
<1>7. ASSUME NEW h \in 1..Len(signals)
      PROVE  /\ \E s \in minted : s.life = restarts /\ s.handle = h
             /\ signals[h] = 1 <=>
                  \E s \in minted : s.handle = h /\ s.life = restarts /\ s.value = 1
  <2>1. PICK s \in minted : s.handle = h /\ s.life = restarts
    BY DEF V2Inv, KnownIsMinted
  <2>2. \A t \in minted : t.handle = h /\ t.life = restarts => signals[h] = t.value
    BY DEF V2Inv, SignalsAreKept
  <2>3. QED
    BY <2>1, <2>2
<1>8. value \in BOOLEAN
  OBVIOUS
<1> HIDE DEF value
<1>9. /\ proof \in VerdictProof
      /\ proof.value = value /\ proof.life = restarts /\ proof.handles = asked
  BY <1>3, <1>8 DEF VerdictProof, ServerTypeOK
<1>10. proof.value <=> \A h \in proof.handles :
         \E s \in minted : s.handle = h /\ s.life = proof.life /\ s.value = 1
  <2>1. value <=> \A h \in asked : signals[h] = 1
    BY <1>6
  <2>2. \A h \in asked : h \in 1..Len(signals)
    BY <1>1
  <2> HIDE DEF asked, proof
  <2>3. QED
    BY <1>7, <1>9, <2>1, <2>2
<1>11. \A h \in proof.handles : \E s \in minted : s.life = proof.life /\ s.handle = h
  BY <1>1, <1>7, <1>9
<1> HIDE DEF proof
<1>12. verdicts'[r] = {proof} /\ \A q \in Requests : q # r => verdicts'[q] = verdicts[q]
  BY <1>1, <1>2
<1>13. V2TypeOK'
  BY <1>1, <1>2, <1>9 DEF V2Inv, V2TypeOK
<1>14. Inputs' \subseteq minted' /\ SignalsAreKept' /\ KnownIsMinted' /\ MintedOnce'
  BY <1>1 DEF V2Inv, Inputs, Submitted, SignalsAreKept, KnowsSignal, KnownIsMinted, MintedOnce
<1>15. VerdictsAreOfMinted' /\ VerdictIsOfItsLife'
  <2> SUFFICES ASSUME NEW q \in Requests, NEW p \in verdicts'[q]
               PROVE  /\ \A h \in p.handles : \E s \in minted : s.life = p.life /\ s.handle = h
                      /\ p.value <=> \A h \in p.handles :
                           \E s \in minted : s.handle = h /\ s.life = p.life /\ s.value = 1
    BY <1>1 DEF VerdictsAreOfMinted, VerdictIsOfItsLife
  <2>1. CASE q = r
    BY <1>10, <1>11, <1>12, <2>1
  <2>2. CASE q # r
    BY <1>12, <2>2 DEF V2Inv, VerdictsAreOfMinted, VerdictIsOfItsLife
  <2>3. QED
    BY <2>1, <2>2
<1>16. QED
  BY <1>13, <1>14, <1>15 DEF V2Inv

LEMMA V2Restarts ==
  ASSUME ServerTypeOK, V2Inv, RestartServer
  PROVE  V2Inv'
<1>1. signals' = <<>> /\ restarts' = restarts + 1
        /\ UNCHANGED <<positions, minted, submitted, verdicts>>
  BY DEF RestartServer, v2Vars
<1>2. V2TypeOK'
  BY <1>1 DEF V2Inv, V2TypeOK
<1>3. \A s \in minted : s.life \in Nat /\ s.life <= restarts
  BY BoundAssumption DEF V2Inv, V2TypeOK, SignalsAreKept, SealedSignal, Sealed
<1>4. SignalsAreKept' /\ KnownIsMinted'
  BY <1>1, <1>3, BoundAssumption DEF SignalsAreKept, KnownIsMinted, ServerTypeOK
<1>5. QED
  BY <1>1, <1>2, <1>4 DEF V2Inv, Inputs, Submitted, MintedOnce, VerdictsAreOfMinted,
                          VerdictIsOfItsLife

LEMMA V2Redeploys ==
  ASSUME V2Inv, Redeploy
  PROVE  V2Inv'
<1>1. /\ submitted' = [r \in Requests |-> <<>>]
      /\ verdicts' = [r \in Requests |-> {}]
      /\ UNCHANGED <<signals, restarts, positions, minted>>
  BY DEF Redeploy, serverVars
<1>2. V2TypeOK'
  BY <1>1 DEF V2Inv, V2TypeOK
<1>3. \A r \in Requests : Submitted(r)' = {}
  BY <1>1 DEF Submitted
<1>4. Inputs' \subseteq minted'
  BY <1>1, <1>3 DEF V2Inv, Inputs
<1>5. QED
  BY <1>1, <1>2, <1>4 DEF V2Inv, SignalsAreKept, KnowsSignal, KnownIsMinted, MintedOnce,
                          VerdictsAreOfMinted, VerdictIsOfItsLife

LEMMA V2Unchanged ==
  ASSUME V2Inv, UNCHANGED <<signals, restarts, v2Vars>>
  PROVE  V2Inv'
<1>1. UNCHANGED <<signals, restarts, positions, minted, submitted, verdicts>>
  BY DEF v2Vars
<1>2. QED
  BY <1>1 DEF V2Inv, V2TypeOK, Inputs, Submitted, SignalsAreKept, KnowsSignal, KnownIsMinted,
              MintedOnce, VerdictsAreOfMinted, VerdictIsOfItsLife

-----------------------------------------------------------------------------
LEMMA GatewayStep ==
  ASSUME GatewayInv, [Next]_vars
  PROVE  GatewayInv'
<1>1. ServerTypeOK /\ V1Inv /\ V2Inv
  BY DEF GatewayInv
<1>2. ASSUME NEW a \in Approvers, NEW approve \in BOOLEAN, SealApproval(a, approve, firewall)
      PROVE  GatewayInv'
  <2>1. UNCHANGED <<signals, restarts, firewall, v2Vars>>
    BY <1>2 DEF SealApproval
  <2>2. QED
    BY <1>1, <1>2, <2>1, V1Seals, V2Unchanged DEF GatewayInv, ServerTypeOK
<1>3. ASSUME NEW r \in Approvals, RevealApproval(r)
      PROVE  GatewayInv'
  <2>1. UNCHANGED <<signals, restarts, firewall, v2Vars>>
    BY <1>3 DEF RevealApproval, serverVars
  <2>2. QED
    BY <1>1, <1>3, <2>1, V1Reveals, V2Unchanged DEF GatewayInv, ServerTypeOK
<1>4. ASSUME NEW r \in Approvals, NEW b \in bits, SubmitApproval(r, b)
      PROVE  GatewayInv'
  <2>1. UNCHANGED <<signals, restarts, firewall, v2Vars>>
    BY <1>4 DEF SubmitApproval, serverVars
  <2>2. QED
    BY <1>1, <1>4, <2>1, V1Submits, V2Unchanged DEF GatewayInv, ServerTypeOK
<1>5. ASSUME NEW a \in Reviewers, NEW n \in Numbers, SealSignal(a, n, firewall)
      PROVE  GatewayInv'
  <2>1. UNCHANGED <<providers, restarts, firewall, v1Vars>>
    BY <1>5 DEF SealSignal
  <2>2. QED
    BY <1>1, <1>5, <2>1, V2Seals, V1Unchanged DEF GatewayInv, ServerTypeOK
<1>6. ASSUME NEW r \in Requests, NEW handles \in [1..REQUIRED_SIGNALS -> 1..MaxSignals],
             RevealVerdict(r, handles)
      PROVE  GatewayInv'
  <2>1. UNCHANGED <<providers, restarts, firewall, v1Vars>>
    BY <1>6 DEF RevealVerdict, serverVars
  <2>2. QED
    BY <1>1, <1>6, <2>1, V2Reveals, V1Unchanged DEF GatewayInv, ServerTypeOK
<1>7. ASSUME NEW r \in Requests, NEW s \in positions, SubmitSignal(r, s)
      PROVE  GatewayInv'
  <2>1. UNCHANGED <<providers, restarts, firewall, v1Vars>>
    BY <1>7 DEF SubmitSignal, serverVars
  <2>2. QED
    BY <1>1, <1>7, <2>1, V2Submits, V1Unchanged DEF GatewayInv, ServerTypeOK
<1>8. CASE RestartServer
  <2>1. ServerTypeOK'
    BY <1>1, <1>8, BoundAssumption DEF RestartServer, ServerTypeOK
  <2>2. QED
    BY <1>1, <1>8, <2>1, V1Restarts, V2Restarts DEF GatewayInv
<1>9. CASE Redeploy
  <2>1. ServerTypeOK'
    BY <1>1, <1>9, BoundAssumption DEF Redeploy, ServerTypeOK, serverVars
  <2>2. QED
    BY <1>1, <1>9, <2>1, V1Redeploys, V2Redeploys DEF GatewayInv
<1>10. CASE UNCHANGED vars
  <2>1. UNCHANGED <<providers, signals, restarts, firewall, v1Vars, v2Vars>>
    BY <1>10 DEF vars, serverVars
  <2>2. QED
    BY <1>1, <2>1, V1Unchanged, V2Unchanged DEF GatewayInv, ServerTypeOK
<1>11. QED
  BY <1>2, <1>3, <1>4, <1>5, <1>6, <1>7, <1>8, <1>9, <1>10 DEF Next

(***************************************************************************)
(* Over whatever three handles a client sends, a verdict is true exactly   *)
(* when the life of the server that signed it had sealed a one under each; *)
(* inputs of one life have different handles; what was sealed since the    *)
(* server started can be revealed.  Nothing is said here of a verdict over *)
(* inputs that an earlier life sealed: that one may disagree with the      *)
(* contract, as the run gateway_restart shows.                             *)
(***************************************************************************)
THEOREM GatewaySafe ==
  Spec => [](GatewayTypeOK /\ VerdictIsOfItsLife /\ SealedStaysRevealable
               /\ InputsAreDistinct)
<1>1. GatewayInv => GatewayTypeOK
  BY DEF GatewayInv, ServerTypeOK, V1Inv, V1TypeOK, V2Inv, V2TypeOK, GatewayTypeOK
<1>2. GatewayInv => SealedStaysRevealable
  BY DEF GatewayInv, V1Inv, BitsAreKept, SealedBits, SomeoneKnows, V2Inv, SignalsAreKept,
         Inputs, SealedStaysRevealable
<1>3. GatewayInv => VerdictIsOfItsLife
  BY DEF GatewayInv, V2Inv
<1>4. GatewayInv => InputsAreDistinct
  <2> SUFFICES ASSUME GatewayInv PROVE InputsAreDistinct
    OBVIOUS
  <2>1. \A s, t \in Inputs : s.life = t.life /\ s.handle = t.handle => s = t
    BY DEF GatewayInv, V2Inv, MintedOnce
  <2>2. QED
    BY <2>1 DEF InputsAreDistinct, Inputs
<1>5. QED
  BY <1>1, <1>2, <1>3, <1>4, GatewayInitially, GatewayStep, PTL DEF Spec

(* The verdict over a request's own signals, all of them sealed in the     *)
(* life of the server that signed it.                                      *)
AgreesWithinALife ==
  \A r \in Requests : \A proof \in verdicts[r] :
    OwnHandles(r, proof) /\ (\A s \in Submitted(r) : s.life = proof.life)
      => (proof.value <=> \A s \in Submitted(r) : s.value = 1)

(***************************************************************************)
(* Within one life of the server the verdict is the contract's: a server   *)
(* that restarts between sealing and reveal is the only way to the         *)
(* disagreement that gateway_restart shows (lines 213-216).                *)
(***************************************************************************)
THEOREM OnlyARestartDisagrees == Spec => []AgreesWithinALife
<1>1. GatewayInv => AgreesWithinALife
  <2> SUFFICES ASSUME GatewayInv, NEW r \in Requests, NEW proof \in verdicts[r],
                      OwnHandles(r, proof), \A s \in Submitted(r) : s.life = proof.life
               PROVE  proof.value <=> \A s \in Submitted(r) : s.value = 1
    BY DEF AgreesWithinALife
  <2>1. Submitted(r) \subseteq minted
    BY DEF GatewayInv, V2Inv, Inputs
  <2>2. proof.value <=> \A h \in proof.handles :
          \E s \in minted : s.handle = h /\ s.life = proof.life /\ s.value = 1
    BY DEF GatewayInv, V2Inv, VerdictIsOfItsLife
  <2>3. ASSUME NEW s \in Submitted(r), NEW t \in minted,
               t.handle = s.handle, t.life = proof.life
        PROVE  t = s
    BY <2>1, <2>3 DEF GatewayInv, V2Inv, MintedOnce
  <2>4. QED
    BY <2>1, <2>2, <2>3 DEF OwnHandles
<1>2. QED
  BY <1>1, GatewayInitially, GatewayStep, PTL DEF Spec

(***************************************************************************)
(* Every variable of gateway, browsers and firewalls keeps its type.       *)
(***************************************************************************)
THEOREM TypeCorrectness == Spec => []GatewayTypeOK
BY GatewaySafe, PTL

(***************************************************************************)
(* What was sealed since the server started never meets                    *)
(* LOCAL_UNKNOWN_HANDLE (route.ts:20), however often it was redeployed to. *)
(***************************************************************************)
THEOREM SealedIsKept == Spec => []SealedStaysRevealable
BY GatewaySafe, PTL

(***************************************************************************)
(* Inputs of one life of the server never collide (mintHandle).            *)
(***************************************************************************)
THEOREM DistinctInputs == Spec => []InputsAreDistinct
BY GatewaySafe, PTL

-----------------------------------------------------------------------------
(* A v1 gateway with one approver.  Each provider counts its nonces from   *)
(* zero, so that with two approvers a handle does not tell which of them   *)
(* sealed it; with one there is one provider in a life of the server.      *)

SoleApprover == \A a, b \in Approvers : a = b

(* The provider of this life holds every bit sealed in it, as it was meant. *)
BitsAreMeant ==
  /\ Len(providers) <= 1
  /\ \A b \in SealedBits : b.life = restarts =>
       /\ Len(providers) = 1
       /\ KnowsHandle(providers[1], b.handle)
       /\ providers[1].plaintexts[b.handle] = b.value

(* A request is settled after its bit was submitted. *)
RevealedAfterSubmitted == \A r \in Approvals : revealed[r] # {} => approvals[r] # {}

(* A request takes one bit. *)
OneBitEach == \A r \in Approvals : \A b, c \in approvals[r] : b = c

SoleInv == BitsAreMeant /\ RevealedAfterSubmitted /\ OneBitEach /\ ApprovalIsWhatWasSealed

LEMMA SoleInitially == Init => SoleInv
BY DEF Init, SoleInv, BitsAreMeant, SealedBits, RevealedAfterSubmitted, OneBitEach,
       ApprovalIsWhatWasSealed

LEMMA SoleProvider ==
  ASSUME SoleApprover, V1TypeOK, Len(providers) <= 1, NEW a \in Approvers
  PROVE  LET known == ProviderFor(a)
             i == CHOOSE j \in 1..Len(known) : known[j].approver = a
         IN /\ Len(known) = 1 /\ i = 1
            /\ Len(providers) = 1 => known = providers
<1> DEFINE known == ProviderFor(a)
           i == CHOOSE j \in 1..Len(known) : known[j].approver = a
           fresh == [approver |-> a, plaintexts |-> <<>>]
<1>1. i \in 1..Len(known)
  BY ProviderForIsTyped
<1> HIDE DEF i
<1>2. Len(providers) = 0 \/ Len(providers) = 1
  <2>1. providers \in Seq(Provider)
    BY DEF V1TypeOK
  <2>2. Len(providers) \in Nat
    BY <2>1, LenProperties
  <2>3. \A n \in Nat : n <= 1 => n = 0 \/ n = 1
    OBVIOUS
  <2>4. QED
    BY <2>2, <2>3
<1>3. ASSUME Len(providers) = 1
      PROVE  known = providers
  <2>1. providers[1] \in Provider
    BY <1>3, ElementOfSeq DEF V1TypeOK
  <2>2. providers[1].approver = a
    BY <2>1 DEF Provider, SoleApprover
  <2>3. Mine(a) # {}
    BY <1>3, <2>2 DEF Mine
  <2>4. QED
    BY <1>3, <2>3 DEF ProviderFor
<1>4. ASSUME Len(providers) = 0
      PROVE  Len(known) = 1
  <2>1. Mine(a) = {}
    BY <1>4 DEF Mine
  <2>2. known = Append(providers, fresh)
    BY <2>1 DEF ProviderFor
  <2>3. QED
    BY <1>4, <2>2 DEF V1TypeOK
<1> HIDE DEF known
<1>5. Len(known) = 1 /\ (Len(providers) = 1 => known = providers)
  BY <1>2, <1>3, <1>4
<1>6. i = 1
  BY <1>1, <1>5
<1>7. QED
  BY <1>5, <1>6 DEF known, i

LEMMA SoleSeals ==
  ASSUME SoleApprover, ServerTypeOK, V1Inv, SoleInv, NEW a \in Approvers,
         NEW approve \in BOOLEAN, SealApproval(a, approve, firewall)
  PROVE  SoleInv'
<1> DEFINE known == ProviderFor(a)
           i == CHOOSE j \in 1..Len(known) : known[j].approver = a
           plaintexts == known[i].plaintexts
           longer == Append(plaintexts, approve)
           sealed == [handle |-> MintHandle(plaintexts), owner |-> a,
                      app |-> firewall, value |-> approve, life |-> restarts]
<1>1. Len(known) = 1 /\ i = 1 /\ (Len(providers) = 1 => known = providers)
  BY SoleProvider DEF V1Inv, SoleInv, BitsAreMeant
<1>2. known \in Seq(Provider)
  BY ProviderForIsTyped DEF V1Inv
<1>3. /\ providers' = [known EXCEPT ![i].plaintexts = longer]
      /\ bits' = OthersInputs(bits, a) \cup {sealed}
      /\ UNCHANGED <<restarts, approvals, revealed>>
  BY DEF SealApproval
<1> HIDE DEF known, i
<1>4. known[1] \in Provider /\ plaintexts \in Seq(BOOLEAN) /\ plaintexts = known[1].plaintexts
  <2>1. known[1] \in Provider
    BY <1>1, <1>2
  <2>2. QED
    BY <1>1, <2>1 DEF Provider
<1>5. /\ longer \in Seq(BOOLEAN)
      /\ Len(longer) = Len(plaintexts) + 1
      /\ longer[Len(plaintexts) + 1] = approve
      /\ \A j \in 1..Len(plaintexts) : longer[j] = plaintexts[j]
  BY <1>4, AppendProperties
<1> HIDE DEF longer
<1>6. Len(providers') = 1 /\ providers'[1].plaintexts = longer
  <2> DEFINE grown == [known[1] EXCEPT !.plaintexts = longer]
  <2>1. grown \in Provider /\ grown.plaintexts = longer
    BY <1>4, <1>5 DEF Provider
  <2>2. providers' = [known EXCEPT ![1] = grown]
    BY <1>1, <1>3
  <2> HIDE DEF grown
  <2>3. QED
    BY <1>1, <1>2, <2>1, <2>2
<1>7. \A b \in SealedBits' : b \in SealedBits \/ b = sealed
  BY <1>3 DEF SealedBits, OthersInputs
<1>8. ASSUME NEW b \in SealedBits', b.life = restarts'
      PROVE  /\ KnowsHandle(providers'[1], b.handle)
             /\ providers'[1].plaintexts[b.handle] = b.value
  <2>1. CASE b = sealed
    BY <1>4, <1>5, <1>6, <2>1 DEF KnowsHandle, MintHandle
  <2>2. CASE b \in SealedBits
    <3>1. /\ known = providers
          /\ b.handle \in 1..Len(plaintexts) /\ plaintexts[b.handle] = b.value
      BY <1>1, <1>3, <1>4, <1>8, <2>2 DEF SoleInv, BitsAreMeant, KnowsHandle
    <3>2. b.handle \in 1..Len(longer) /\ longer[b.handle] = b.value
      BY <1>4, <1>5, <3>1
    <3>3. QED
      BY <1>6, <3>2 DEF KnowsHandle
  <2>3. QED
    BY <1>7, <1>8, <2>1, <2>2
<1>9. BitsAreMeant'
  BY <1>6, <1>8 DEF BitsAreMeant
<1>10. QED
  BY <1>3, <1>9 DEF SoleInv, RevealedAfterSubmitted, OneBitEach, ApprovalIsWhatWasSealed

LEMMA SoleSubmits ==
  ASSUME V1Inv, SoleInv, NEW r \in Approvals, NEW b \in bits, SubmitApproval(r, b)
  PROVE  SoleInv'
<1>1. /\ UNCHANGED <<providers, restarts, revealed>>
      /\ approvals[r] = {}
      /\ approvals' = [approvals EXCEPT ![r] = {b}]
      /\ bits' = bits \ {b}
  BY DEF SubmitApproval, serverVars
<1>2. SealedBits' \subseteq SealedBits
  BY <1>1 DEF SealedBits, V1Inv, V1TypeOK
<1>3. approvals'[r] = {b} /\ \A q \in Approvals : q # r => approvals'[q] = approvals[q]
  BY <1>1 DEF V1Inv, V1TypeOK
<1>4. revealed[r] = {}
  BY <1>1 DEF SoleInv, RevealedAfterSubmitted
<1>5. BitsAreMeant'
  BY <1>1, <1>2 DEF SoleInv, BitsAreMeant
<1>6. RevealedAfterSubmitted' /\ OneBitEach' /\ ApprovalIsWhatWasSealed'
  BY <1>1, <1>3, <1>4 DEF SoleInv, RevealedAfterSubmitted, OneBitEach, ApprovalIsWhatWasSealed
<1>7. QED
  BY <1>5, <1>6 DEF SoleInv

LEMMA SoleReveals ==
  ASSUME V1Inv, SoleInv, NEW r \in Approvals, RevealApproval(r)
  PROVE  SoleInv'
<1>1. PICK b \in approvals[r] : \E i \in ProviderHolding(b.handle) :
        /\ revealed' = [revealed EXCEPT ![r] =
             {[value |-> providers[i].plaintexts[b.handle], life |-> restarts]}]
        /\ UNCHANGED <<serverVars, firewall, bits, approvals, v2Vars>>
  BY DEF RevealApproval
<1>2. PICK i \in ProviderHolding(b.handle) :
        /\ revealed' = [revealed EXCEPT ![r] =
             {[value |-> providers[i].plaintexts[b.handle], life |-> restarts]}]
        /\ UNCHANGED <<serverVars, firewall, bits, approvals, v2Vars>>
  BY <1>1
<1> DEFINE proof == [value |-> providers[i].plaintexts[b.handle], life |-> restarts]
<1>3. UNCHANGED <<providers, restarts, bits, approvals>>
  BY <1>2 DEF serverVars
<1>4. revealed'[r] = {proof} /\ \A q \in Approvals : q # r => revealed'[q] = revealed[q]
  BY <1>2 DEF V1Inv, V1TypeOK
<1>5. \A c \in approvals[r] : proof.life = c.life => proof.value = c.value
  <2> SUFFICES ASSUME NEW c \in approvals[r], restarts = c.life
               PROVE  providers[i].plaintexts[b.handle] = c.value
    OBVIOUS
  <2>1. c = b
    BY DEF SoleInv, OneBitEach
  <2>2. b \in SealedBits
    BY DEF SealedBits
  <2>3. /\ providers[1].plaintexts[b.handle] = b.value
        /\ Len(providers) = 1
    BY <2>1, <2>2 DEF SoleInv, BitsAreMeant
  <2>4. i = 1
    BY <2>3 DEF ProviderHolding
  <2>5. QED
    BY <2>1, <2>3, <2>4
<1> HIDE DEF proof
<1>6. ApprovalIsWhatWasSealed'
  BY <1>3, <1>4, <1>5 DEF SoleInv, ApprovalIsWhatWasSealed
<1>7. RevealedAfterSubmitted' /\ BitsAreMeant'
  BY <1>3, <1>4 DEF SoleInv, RevealedAfterSubmitted, BitsAreMeant, SealedBits
<1>8. QED
  BY <1>3, <1>6, <1>7 DEF SoleInv, OneBitEach

LEMMA SoleRestarts ==
  ASSUME ServerTypeOK, V1Inv, SoleInv, RestartServer
  PROVE  SoleInv'
<1>1. providers' = <<>> /\ restarts' = restarts + 1 /\ UNCHANGED <<bits, approvals, revealed>>
  BY DEF RestartServer, v1Vars
<1>2. \A b \in SealedBits : b.life \in Nat /\ b.life <= restarts
  <2>1. \A b \in SealedBits : b.life \in 0..MaxRestarts
    BY DEF V1Inv, V1TypeOK, SealedBits, SealedBit, Sealed
  <2>2. QED
    BY <2>1, BoundAssumption DEF V1Inv, BitsAreKept
<1>3. BitsAreMeant'
  BY <1>1, <1>2, BoundAssumption DEF BitsAreMeant, SealedBits, ServerTypeOK
<1>4. QED
  BY <1>1, <1>3 DEF SoleInv, RevealedAfterSubmitted, ApprovalIsWhatWasSealed, OneBitEach

LEMMA SoleRedeploys ==
  ASSUME SoleInv, Redeploy
  PROVE  SoleInv'
<1>1. /\ approvals' = [r \in Approvals |-> {}]
      /\ revealed' = [r \in Approvals |-> {}]
      /\ UNCHANGED <<providers, restarts, bits>>
  BY DEF Redeploy, serverVars
<1>2. SealedBits' \subseteq SealedBits
  BY <1>1 DEF SealedBits
<1>3. BitsAreMeant'
  BY <1>1, <1>2 DEF SoleInv, BitsAreMeant
<1>4. QED
  BY <1>1, <1>3 DEF SoleInv, RevealedAfterSubmitted, ApprovalIsWhatWasSealed, OneBitEach

LEMMA SoleUnchanged ==
  ASSUME SoleInv, UNCHANGED <<providers, restarts, v1Vars>>
  PROVE  SoleInv'
BY DEF SoleInv, BitsAreMeant, SealedBits, RevealedAfterSubmitted, ApprovalIsWhatWasSealed,
       OneBitEach, v1Vars

LEMMA SoleStep ==
  ASSUME SoleApprover, GatewayInv, SoleInv, [Next]_vars
  PROVE  SoleInv'
<1>1. ServerTypeOK /\ V1Inv
  BY DEF GatewayInv
<1>2. ASSUME NEW a \in Reviewers, NEW n \in Numbers, SealSignal(a, n, firewall)
      PROVE  UNCHANGED <<providers, restarts, v1Vars>>
  BY <1>2 DEF SealSignal
<1>3. ASSUME NEW r \in Requests, NEW handles \in [1..REQUIRED_SIGNALS -> 1..MaxSignals],
             RevealVerdict(r, handles)
      PROVE  UNCHANGED <<providers, restarts, v1Vars>>
  BY <1>3 DEF RevealVerdict, serverVars
<1>4. ASSUME NEW r \in Requests, NEW s \in positions, SubmitSignal(r, s)
      PROVE  UNCHANGED <<providers, restarts, v1Vars>>
  BY <1>4 DEF SubmitSignal, serverVars
<1>5. UNCHANGED vars => UNCHANGED <<providers, restarts, v1Vars>>
  BY DEF vars, serverVars
<1>6. QED
  BY <1>1, <1>2, <1>3, <1>4, <1>5, SoleSeals, SoleSubmits, SoleReveals, SoleRestarts,
     SoleRedeploys, SoleUnchanged DEF Next

(***************************************************************************)
(* With one approver, as the demo's vendor has (demo.ts:100), a v1 request *)
(* settles with the bit that the approver sealed, unless the server        *)
(* restarted in between.  With two it need not: the handles of two         *)
(* providers collide.                                                      *)
(***************************************************************************)
THEOREM SoleApproverIsRight ==
  ASSUME SoleApprover
  PROVE  Spec => []ApprovalIsWhatWasSealed
<1>1. SoleInv => ApprovalIsWhatWasSealed
  BY DEF SoleInv
<1>2. GatewayInv /\ SoleInv /\ [Next]_vars => GatewayInv' /\ SoleInv'
  BY SoleApprover, GatewayStep, SoleStep
<1>3. QED
  BY <1>1, <1>2, GatewayInitially, SoleInitially, PTL DEF Spec
=============================================================================
