SPECIFICATION Spec
CONSTANTS
  Shard = {s1}
  Labels = 2
  Moved = {s1}
  MaxRetries = 2
  MinHead = 1
  MaxHead = 2
  MaxTx = 2
INVARIANT AcceptedWindowIsLive
