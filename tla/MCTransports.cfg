CONSTANTS
  Conn = {c1, c2}
  IO = {i1}
  Caps = {1, 2}
  SendSpace = 1
  Rude = {c1}
  Auth = TRUE
  Tls = TRUE
  MaxMessages = 2
  MaxAdmin = 2
  None = None
  p = p
  r1 = r1
  r2 = r2
  Dialer = {t1, t2}
  Server = {p}
  Relays <- TwoRelays
  MaxAttempts = 2
  Threads = 1
  MaxCalls = 2
  MaxDown = 1
SPECIFICATION MCSpec
INVARIANT SlotsAccounted
INVARIANT StreamIntact
INVARIANT RunsPerAddress
PROPERTY Confined
PROPERTY Served
PROPERTY CallsEnd
CHECK_DEADLOCK FALSE
