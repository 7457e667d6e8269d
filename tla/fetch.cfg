CONSTANTS
  Peer = {p, q}
  Hash = {h1, h2}
  Prompt = {p}
  MaxAnnounces = 2
  MaxRetrievals = 1
SPECIFICATION FairSpec
CHECK_DEADLOCK FALSE
INVARIANTS InFlight
 
