SPECIFICATION Spec
CONSTANTS
  NoToken = NoToken
  Tokens = {owner, t1, t2, t3}
  FirstToken = owner
  Modes = {fairplay, tables}
  DEFAULT_ROOM_MODE = fairplay
  Clients = {c1, c2}
  Devices = {phone, tablet}
  Creator = phone
  MAX_CLAIM_TOKENS = 2
  ROOM_WRITE_ATTEMPTS = 2
  EPOCH_BOUND = 2
  REV_BOUND = 4
SYMMETRY Symmetry
INVARIANTS OutstandingAccessEnds CapSparesTheOwner
PROPERTIES NothingRevives ImplementsContract
CHECK_DEADLOCK FALSE
