SPECIFICATION StoresSpec
CONSTANTS
  Parts = {"feedback", "telemetry", "index", "refresh", "creation", "deletion", "saved"}
  Ids = {a}
  Clients = {c1}
  QUEUE_MAX = 1
  NoId = NoId
  MaxFaults = 1
  MaxRuns = 2
  None = None
  Sheets = {sheet}
  RATE_LIMIT_MAX = 2
  MaxPosts = 3
  MaxWindows = 2
  InFlight = 2
  TELEMETRY_EVENTS = {"patron_joined", "song_queued"}
  CLIENT_ALLOWED_EVENTS = {"patron_joined"}
  DAY = 1
  RETENTION = 2
  MAX_RANGE_DAYS = 2
  MEMORY_MAX_EVENTS = 2
  MaxTime = 2
  MaxEvents = 3
  Shelves = {shelf1, shelf2}
  Requests = {request1}
  MAX_AGE = 3
  RELOAD = 2
  RETRY = 1
  MaxMinutes = 4
  channel1 = channel1
  channel2 = channel2
  channel3 = channel3
  Channels <- Ranked
  Uploads <- Pages
  Workers = {worker1, worker2}
  MAX_PAGES = 2
  MAX_UNITS = 9
  device1 = device1
  device2 = device2
  Devices = {device1, device2}
  IpOf <- Address
  Base = bar
  Suffixed = {bar1}
  Reserved = {}
  Attempts = 1
  ROOM_MAX = 1
  ROOM_CREATE_LIMIT = 1
  MaxUuids = 3
  MaxCodes = 2
  Items = {entry}
  Writers = {writer1, writer2}
  Identities = {"host"}
  MaxRooms = 1
  Rooms = {room1, room2}
  MAX_ROOMS = 1
  MAX_HOST_PROBES = 1
  MaxAnswers = 2
INVARIANTS RecordsAreAccountedFor
PROPERTIES ShardsAreSound RoomsComeAndGo RoomsAreRemembered
CHECK_DEADLOCK FALSE
