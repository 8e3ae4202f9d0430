------------------------------ MODULE MCScreens ------------------------------
(***************************************************************************)
(* For TLC: what people look at.  The venue's screen, the player and its   *)
(* queue (TvScreen) and what is drawn around the video (TvOverlay); the    *)
(* patron's page (PatronPage) and its search box (SearchBox); the host's   *)
(* dashboard (HostControls), how the owner's device gets into it           *)
(* (HostAccess) and what holds back whoever guesses (FailureCounter); and  *)
(* what the server knew of a video when its song was queued (VideoLookup). *)
(* Each has its own account of the room it talks to, changed by everybody  *)
(* else, so a behaviour is one of a single part, chosen at the start; the  *)
(* others do not move.  Fairness is each part's own, while it is the one   *)
(* that runs.                                                              *)
(***************************************************************************)
EXTENDS TvScreen

CONSTANTS Parts,   \* which parts
          first, second, good, bad,
          Singing, Listening, CHROME_HIDE, QUEUE_PEEK_LEAD_IN, QUEUE_PEEK_PERIOD,
          QUEUE_PEEK_VISIBLE, MIC_CALL_SECONDS, MaxCards, MaxReads,
          OwnUuid, ServerUuid, MaxVersion, MaxPending, MaxPicks, MaxPolls, MaxLost,
          MaxChanges, MaxActions,
          Cleared, MaxEpoch, MaxProbes, MaxInFlight,
          Instances, Requests, Statuses, LONG_TTL, SHORT_TTL,
          song, song_longer, Queries, Shorts, Links, Empty, Modes, Narrows,
          MAX_SEARCH_PAGES, MaxEdits, MaxAsks,
          venue, Calls, Clients, AddressesOf, Forged, MAX_FAILURES, REVOKE_MAX, WINDOW,
          MAX_TRACKED_KEYS, MaxTime, MaxFaults

VARIABLES part,
  chrome, stage, cards, queuePeek, timer, micCall, called, full, changed, isFullscreen, keysTo,
  reads, calm, shown,
  room, uuid, registering, named, picked, display, polls, submit, picks, accepted, lost,
  status, view, busy, fetches, act, confirming, done, dropped,
  epoch, live, jar, requests, auth, isOwner, claimThrottled, panel, revokeMsg, probes, asked,
  gaveUp,
  key, l1, redis, req,
  input, mode, rows, held, filterQuery, resultsOf, cursor, pages, awaiting, loading, debounce,
  again, pending, idling, idleElapsed, missed, lastFired, search, more, edits, asks,
  host, driver, now, count, ends, attempt, guesses, revokes, faults

overlayVars == <<chrome, stage, cards, queuePeek, timer, micCall, called, full, changed,
  isFullscreen, keysTo, reads, calm, shown>>
patronVars == <<room, uuid, registering, named, picked, display, polls, submit, picks, accepted,
  lost>>
hostVars == <<status, view, busy, fetches, act, confirming, done, dropped>>
accessVars == <<epoch, live, jar, requests, auth, isOwner, claimThrottled, panel, revokeMsg,
  probes, asked, gaveUp>>
lookupVars == <<key, l1, redis, req>>
boxVars == <<input, mode, rows, held, filterQuery, resultsOf, cursor, pages, awaiting, loading,
  debounce, again, pending, idling, idleElapsed, missed, lastFired, search, more, edits, asks>>
throttleVars == <<host, driver, now, count, ends, attempt, guesses, revokes, faults>>
screensVars == <<part, vars, overlayVars, patronVars, hostVars, accessVars, lookupVars, boxVars,
  throttleVars>>

-----------------------------------------------------------------------------
\* Two songs, of which the second cannot be played.
TwoSongs == {first, second}
Chosen == (first :> good) @@ (second :> bad)

\* A longer text that the pool of the shorter one still answers.
Narrowing == {<<song_longer, song>>}

\* Two devices behind a venue's network, and a header anyone can forge.
OfVenue == venue :> {[kind |-> "v6", net |-> "n1", host |-> h] : h \in {"h1", "h2"}}
Headers == {[kind |-> "mapped", net |-> "n3", host |-> "h1"]}

Overlay == INSTANCE TvOverlay
Patron == INSTANCE PatronPage WITH shown <- display
Dashboard == INSTANCE HostControls WITH room <- status, polls <- fetches, lost <- dropped
Access == INSTANCE HostAccess
Lookup == INSTANCE VideoLookup
Box == INSTANCE SearchBox WITH
  shown <- rows, token <- cursor, retry <- again, timer <- idling, asked <- search
Throttles == INSTANCE FailureCounter WITH call <- attempt

ASSUME OverlayAssumption == Overlay!TvOverlayAssumption
ASSUME PatronAssumption == Patron!PatronPageAssumption
ASSUME DashboardAssumption == Dashboard!HostControlsAssumption
ASSUME AccessAssumption == Access!HostAccessAssumption
ASSUME LookupAssumption == Lookup!VideoLookupAssumption
ASSUME BoxAssumption == Box!SearchBoxAssumption
ASSUME ThrottlesAssumption == Throttles!FailureCounterAssumption

-----------------------------------------------------------------------------
ScreensInit ==
  /\ part \in Parts
  /\ Init /\ Overlay!Init
  /\ Patron!Init /\ (part # "patron" => named)
  /\ Dashboard!Init /\ (part # "host" => ~status.moderation)
  /\ Access!Init /\ (part # "access" => jar.session = 0)
  /\ Lookup!Init /\ (part # "lookup" => key)
  /\ Box!Init /\ (part # "box" => mode = CHOOSE m \in Modes : TRUE)
  /\ Throttles!Init /\ (part # "throttles" => host = "vercel" /\ driver = "redis")

Playing ==
  /\ Next
  /\ UNCHANGED <<overlayVars, patronVars, hostVars, accessVars, lookupVars, boxVars, throttleVars>>
Drawing ==
  /\ Overlay!Next
  /\ UNCHANGED <<vars, patronVars, hostVars, accessVars, lookupVars, boxVars, throttleVars>>
Picking ==
  /\ Patron!Next
  /\ UNCHANGED <<vars, overlayVars, hostVars, accessVars, lookupVars, boxVars, throttleVars>>
Hosting ==
  /\ Dashboard!Next
  /\ UNCHANGED <<vars, overlayVars, patronVars, accessVars, lookupVars, boxVars, throttleVars>>
Entering ==
  /\ Access!Next
  /\ UNCHANGED <<vars, overlayVars, patronVars, hostVars, lookupVars, boxVars, throttleVars>>
LookingUp ==
  /\ Lookup!Next
  /\ UNCHANGED <<vars, overlayVars, patronVars, hostVars, accessVars, boxVars, throttleVars>>
Typing ==
  /\ Box!Next
  /\ UNCHANGED <<vars, overlayVars, patronVars, hostVars, accessVars, lookupVars, throttleVars>>
Guessing ==
  /\ Throttles!Next
  /\ UNCHANGED <<vars, overlayVars, patronVars, hostVars, accessVars, lookupVars, boxVars>>

ScreensNext ==
  /\ UNCHANGED part
  /\ \/ part = "screen" /\ Playing
     \/ part = "overlay" /\ Drawing
     \/ part = "patron" /\ Picking
     \/ part = "host" /\ Hosting
     \/ part = "access" /\ Entering
     \/ part = "lookup" /\ LookingUp
     \/ part = "box" /\ Typing
     \/ part = "throttles" /\ Guessing

ScreensFairness ==
  /\ WF_vars(part = "screen" /\ (Inject \/ ApiReady \/ RetryInject))
  /\ WF_vars(part = "screen" /\ Poll)
  /\ WF_vars(part = "screen" /\ PollArrives)
  /\ WF_vars(part = "screen" /\ PlayerEffect)
  /\ WF_vars(part = "screen" /\ RetryTimer)
  /\ WF_vars(part = "screen" /\ Starts)
  /\ WF_vars(part = "screen" /\ Ends)
  /\ WF_vars(part = "screen" /\ PlayerError)
  /\ WF_vars(part = "screen" /\ Tick)
  /\ WF_vars(part = "screen" /\ Advance("ended"))
  /\ WF_vars(part = "screen" /\ Advance("unplayable"))
  /\ WF_vars(part = "screen" /\ SelfHealCheck)
  /\ WF_vars(part = "screen" /\ DebounceRunsOut)
  /\ WF_overlayVars(part = "overlay" /\ Overlay!FullscreenChange)
  /\ WF_overlayVars(part = "overlay" /\ Overlay!PeekTimer)
  /\ WF_overlayVars(part = "overlay" /\ Overlay!Tick)
  /\ WF_patronVars(part = "patron" /\ Patron!Tick)
  /\ WF_patronVars(part = "patron" /\ Patron!Serves("queue"))
  /\ WF_patronVars(part = "patron" /\ Patron!Lands("queue"))
  /\ WF_patronVars(part = "patron" /\ Patron!Serves("pending"))
  /\ WF_patronVars(part = "patron" /\ Patron!Lands("pending"))
  /\ WF_hostVars(part = "host" /\ Dashboard!Tick)
  /\ WF_hostVars(part = "host" /\ Dashboard!Answer)
  /\ WF_hostVars(part = "host" /\ Dashboard!Settle)
  /\ WF_hostVars(part = "host" /\ Dashboard!Serves("queue"))
  /\ WF_hostVars(part = "host" /\ Dashboard!Lands("queue"))
  /\ WF_hostVars(part = "host" /\ Dashboard!Serves("pending"))
  /\ WF_hostVars(part = "host" /\ Dashboard!Lands("pending"))

ScreensSpec == ScreensInit /\ [][ScreensNext]_screensVars /\ ScreensFairness

-----------------------------------------------------------------------------
\* The head of the queue leaves it in the end, or the page has given up on it
\* (TvScreen).
ScreenMovesOn == part = "screen" => StageMovesOn

\* The cards keep coming out and going away, and every singer is called to the
\* microphone (TvOverlay).
OverlayKeepsPace == Overlay!CallsTheSinger /\ (part = "overlay" => Overlay!PeeksGoOn)

\* The cards peek on purpose, and no player keeps the fullscreen (TvOverlay).
OverlayIsCalm == part = "overlay" => Overlay!PeeksOnPurpose /\ Overlay!FullscreenIsOurs

\* A song picked once is taken once, but for a call whose answer was lost (PatronPage).
TakenOncePerPick == part = "patron" => Patron!TakenOncePerPick

\* Whatever their polls and calls go through, the pages settle on the room: the
\* patron's with its own uuid (PatronPage), the host's with no button left disabled
\* (HostControls).
PagesSettle ==
  /\ part = "patron" => Patron!PageCatchesUp
  /\ part = "host" => Dashboard!DashboardSettles

\* "Done" means the others are out, and the owner gets back in (HostAccess); however
\* calls interleave, fail and forge, whoever guesses codes or signs the others out is
\* held to the limits (FailureCounter).
HostsComeAndGo ==
  /\ part = "access" => Access!DoneMeansOthersOut /\ Access!OwnerGetsBackIn
  /\ part = "throttles" => Throttles!ThrottlesHold

\* The rows, the cursor and the billed searches belong to the text in the box
\* (SearchBox).
BoxIsConsistent ==
  /\ [](part = "box" => Box!RowsAnswerTheInput /\ Box!CursorBelongsToItsQuery)
  /\ Box!BillsOnlyWhatIsTyped

\* No answer about a video is served two lifetimes after it was obtained, however
\* many instances passed it on (VideoLookup).
LookupsAreFresh == part = "lookup" => Lookup!StaleAtMostTwice
=============================================================================
