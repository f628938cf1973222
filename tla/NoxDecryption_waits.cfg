CONSTANTS
  Wallets = {w1, w2}
  Approver = w1
  Requests = {q1, q2}
  NoHandle = NoHandle
  Readers = {r1}
  Nobody = Nobody
  Approvals = {approval}
  Signals = {signal}
  Verdicts = {verdict}
  Plaintexts = {1, 65536}
  Attempts = 5
  Lag = 3
SPECIFICATION FairSpec
INVARIANTS TypeOK OutlastsTheLag RetriesAreSpaced
PROPERTIES EveryCallEnds SealedBecomesReadable
