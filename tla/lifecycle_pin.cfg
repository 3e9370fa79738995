\* Two threads: a session taken while another thread is still in open().
SPECIFICATION Spec
CONSTANTS
  Threads = {t1, t2}
  NoThread = NoThread
  TlsFiles = {"ca", "cert"}
  MaxLeases = 2
  MaxInterrupts = 0
INVARIANTS SessionsArePinned
CHECK_DEADLOCK FALSE
