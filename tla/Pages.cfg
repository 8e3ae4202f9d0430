SPECIFICATION ScreensSpec
CONSTANTS
  Parts = {"patron", "host", "access", "box", "throttles"}
  first = first
  second = second
  good = good
  bad = bad
  None = None
  Entries <- TwoSongs
  Videos = {good, bad}
  VideoOf <- Chosen
  Fatal = {bad}
  Stuck = {}
  MaxTrouble = 2
  Singing = {singer}
  Listening = {listener}
  CHROME_HIDE = 1
  QUEUE_PEEK_LEAD_IN = 2
  QUEUE_PEEK_PERIOD = 4
  QUEUE_PEEK_VISIBLE = 2
  MIC_CALL_SECONDS = 2
  MaxCards = 2
  MaxReads = 3
  OwnUuid = "own"
  ServerUuid = "server"
  MaxVersion = 1
  MaxPending = 1
  MaxPicks = 1
  MaxPolls = 2
  MaxLost = 1
  MaxChanges = 1
  MaxActions = 1
  Cleared = Cleared
  MaxEpoch = 1
  MaxProbes = 1
  MaxInFlight = 2
  Instances = {i1, i2}
  Requests = {r1}
  Statuses = {"not-embeddable"}
  LONG_TTL = 2
  SHORT_TTL = 2
  song = song
  song_longer = song_longer
  Queries = {song, song_longer, other}
  Shorts = {short}
  Links = {link}
  Empty = empty
  Modes = {sing, listen}
  Narrows <- Narrowing
  MAX_SEARCH_PAGES = 2
  MaxEdits = 3
  MaxAsks = 3
  venue = venue
  Calls = {call1, call2}
  Clients = {venue}
  AddressesOf <- OfVenue
  Forged <- Headers
  MAX_FAILURES = 1
  REVOKE_MAX = 1
  WINDOW = 1
  MAX_TRACKED_KEYS = 2
  MaxTime = 1
  MaxFaults = 1
INVARIANTS TakenOncePerPick 
PROPERTIES PagesSettle BoxIsConsistent
CHECK_DEADLOCK FALSE
