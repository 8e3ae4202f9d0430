------------------------------ MODULE MCStores ------------------------------
(***************************************************************************)
(* For TLC: the components that work on stored keys, a command at a time.  *)
(* The two drivers of a room's queue, the Redis one (QueueStore) and the   *)
(* one in the process (MemoryStore), of which a deployment has one;        *)
(* feedback and telemetry; the index's shards and their refresh; creation  *)
(* and deletion of rooms, and the rooms a device remembers.  They share no *)
(* key, so a behaviour is one of a single component, chosen at the start;  *)
(* the others do not move.                                                 *)
(***************************************************************************)
EXTENDS QueueStore

CONSTANTS Parts,   \* which components
          MaxFaults, MaxRuns, None,
          Sheets, RATE_LIMIT_MAX, MaxPosts, MaxWindows,
          InFlight, TELEMETRY_EVENTS, CLIENT_ALLOWED_EVENTS, DAY, RETENTION, MAX_RANGE_DAYS,
          MEMORY_MAX_EVENTS, MaxTime, MaxEvents,
          Shelves, Requests, MAX_AGE, RELOAD, RETRY, MaxMinutes,
          channel1, channel2, channel3, Channels, Uploads, Workers, MAX_PAGES, MAX_UNITS,
          device1, device2, Devices, IpOf, Base, Suffixed, Reserved, Attempts, ROOM_MAX,
          ROOM_CREATE_LIMIT, MaxUuids, MaxCodes,
          Items, Writers, Identities, MaxRooms,
          Rooms, MAX_ROOMS, MAX_HOST_PROBES, MaxAnswers

VARIABLES part,
  line, paused, call, plan,
  window, counter, item, index, report, post, stamped, patch, seen, mark, overtaken, feedbackFaults,
  driver, now, bucket, ttl, days, emitting, emitted, dropped, reader,
  indexNow, stored, stamps, writing, loaded, inflight, waiting, served, indexFaults,
  mode, shards, shardStamps, work, used, clock, worker, run, listings, runFaults,
  record, count, hits, identities, owned, indexing, cookie, local, told, creation,
  minted, codes, creationFaults,
  db, members, created, linking, writer, op, snapshot, fresh,
  saved, rooms, hosts, hostProbes, session, answers

memoryVars == <<line, paused, call, plan>>
feedbackVars == <<window, counter, item, index, report, post, stamped, patch, seen, mark,
  overtaken, feedbackFaults>>
telemetryVars == <<driver, now, bucket, ttl, days, emitting, emitted, dropped, reader>>
indexVars == <<indexNow, stored, stamps, writing, loaded, inflight, waiting, served, indexFaults>>
refreshVars == <<mode, shards, shardStamps, work, used, clock, worker, run, listings, runFaults>>
creationVars == <<record, count, hits, identities, owned, indexing, cookie, local, told, creation,
  minted, codes, creationFaults>>
deletionVars == <<db, members, created, linking, writer, op, snapshot, fresh>>
savedVars == <<saved, rooms, hosts, hostProbes, session, answers>>
storesVars == <<part, vars, memoryVars, feedbackVars, telemetryVars, indexVars, refreshVars,
  creationVars, deletionVars, savedVars>>

-----------------------------------------------------------------------------
\* Three channels, of which the last has nothing the TV could play.
Ranked == <<channel1, channel2, channel3>>
Pages == (channel1 :> <<"rows", "rows", "rows">>) @@ (channel2 :> <<"untitled", "rows">>)
           @@ (channel3 :> <<"unplayable">>)

\* Two devices of one household.
Address == (device1 :> "home") @@ (device2 :> "home")

Memory == INSTANCE MemoryStore WITH queue <- line
Feedbacks == INSTANCE Feedback WITH sheet <- report, faults <- feedbackFaults
Events == INSTANCE Telemetry WITH calls <- emitting
Shards == INSTANCE IndexStore WITH
  Channels <- Shelves, MaxTime <- MaxMinutes, now <- indexNow, faults <- indexFaults
Refresh == INSTANCE IndexRefresh WITH
  stamps <- shardStamps, queue <- work, calls <- listings, faults <- runFaults
Creation == INSTANCE RoomCreation WITH call <- creation, faults <- creationFaults
Deletion == INSTANCE RoomDeletion
Saved == INSTANCE RoomMemory WITH probes <- hostProbes

ASSUME MemoryAssumption == Memory!MemoryStoreAssumption
ASSUME FeedbacksAssumption == Feedbacks!FeedbackAssumption
ASSUME EventsAssumption == Events!TelemetryAssumption
ASSUME ShardsAssumption == Shards!IndexStoreAssumption
ASSUME RefreshAssumption == Refresh!IndexRefreshAssumption
ASSUME CreationAssumption == Creation!RoomCreationAssumption
ASSUME DeletionAssumption == Deletion!RoomDeletionAssumption
ASSUME SavedAssumption == Saved!RoomMemoryAssumption

\* Lists!Kept is Array.filter: it agrees with SelectSeq on every small list.
ASSUME KeptIsFilter ==
  \A n \in 0..4 : \A s \in [1..n -> 1..3], T \in SUBSET (1..3) :
    Kept(s, T) = SelectSeq(s, LAMBDA x : x \in T)

-----------------------------------------------------------------------------
StoresInit ==
  /\ part \in Parts
  /\ Init /\ Memory!Init
  /\ Feedbacks!Init
  /\ Events!Init /\ (part # "telemetry" => driver = "memory")
  /\ Shards!Init
  /\ Refresh!Init /\ (part # "refresh" => mode = "cli")
  /\ Creation!Init /\ Deletion!Init
  /\ Saved!Init

\* Only what belongs to part p moves.
Alone(p) ==
  /\ part = p /\ UNCHANGED part
  /\ IF p = "redis" THEN TRUE ELSE UNCHANGED vars
  /\ IF p = "memory" THEN TRUE ELSE UNCHANGED memoryVars
  /\ IF p = "feedback" THEN TRUE ELSE UNCHANGED feedbackVars
  /\ IF p = "telemetry" THEN TRUE ELSE UNCHANGED telemetryVars
  /\ IF p = "index" THEN TRUE ELSE UNCHANGED indexVars
  /\ IF p = "refresh" THEN TRUE ELSE UNCHANGED refreshVars
  /\ IF p = "creation" THEN TRUE ELSE UNCHANGED creationVars
  /\ IF p = "deletion" THEN TRUE ELSE UNCHANGED deletionVars
  /\ IF p = "saved" THEN TRUE ELSE UNCHANGED savedVars

StoresNext ==
  \/ Alone("redis") /\ Next
  \/ Alone("memory") /\ Memory!Next
  \/ Alone("feedback") /\ Feedbacks!Next
  \/ Alone("telemetry") /\ Events!Next
  \/ Alone("index") /\ Shards!Next
  \/ Alone("refresh") /\ Refresh!Next
  \/ Alone("creation") /\ Creation!Next
  \/ Alone("deletion") /\ Deletion!Next
  \/ Alone("saved") /\ Saved!Next

StoresSpec == StoresInit /\ [][StoresNext]_storesVars

-----------------------------------------------------------------------------
\* The in-process driver keeps the contract of the store and its bound (MemoryStore).
MemoryKeepsTheContract == Memory!ImplementsContract /\ [](part = "memory" => Memory!HardCap)

\* What patrons report and what venues count is accounted for: thanks are for what
\* is listed, no device passes its rate, the intake's watermark overtakes nothing but
\* what was still being written (Feedback); no event is read twice or lost uncounted
\* (Telemetry).
RecordsAreAccountedFor ==
  /\ part = "feedback" => /\ Feedbacks!ThanksMeansListed /\ Feedbacks!WithinTheRate
                          /\ Feedbacks!OnlyInFlightIsOvertaken
  /\ part = "telemetry" => Events!ReadOnce /\ Events!LossesAreCounted

\* What the instances serve of the index is what was harvested, whole, in time and
\* within the budget (IndexStore, IndexRefresh).
ShardsAreSound ==
  /\ [](part = "index" => Shards!NoStaleRows /\ Shards!SignatureMeansExact)
  /\ [](part = "refresh" => Refresh!BudgetCoversCalls)
  /\ Refresh!ShardsAreWhole

\* Rooms are made within the ceiling and cost nobody their uuid (RoomCreation); a
\* deletion reports what it left, and what it restores is complete (RoomDeletion).
RoomsComeAndGo ==
  /\ [](part = "creation" => Creation!CeilingHolds) /\ Creation!OwnUuidSurvives
  /\ [](part = "deletion" => Deletion!ReportIsHonest) /\ Deletion!ReappearsComplete

\* Rooms one hosts stay on the list, with the newest answer about each (RoomMemory).
RoomsAreRemembered == Saved!OwnRoomsStayOwn /\ Saved!NewestAnswerStays
=============================================================================
