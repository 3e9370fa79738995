\* Three threads open, close and take sessions of one runtime.
SPECIFICATION FairSpec
CONSTANTS
  Threads = {t1, t2, t3}
  NoThread = NoThread
  TlsFiles = {"ca", "cert"}
  MaxLeases = 3
  MaxInterrupts = 1
INVARIANTS TypeOK ProbedWhenFree ProbeFollowsLease ClientsOwned CertificateFollowsClient
PROPERTIES LockReleased
CHECK_DEADLOCK FALSE
