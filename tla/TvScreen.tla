------------------------------- MODULE TvScreen -------------------------------
(***************************************************************************)
(* The venue's screen, components/tv/TvScreen.tsx, with its watchdog       *)
(* (watchdog.ts), its self-heal (self-heal.ts), the advance route, and the *)
(* credential of its advances (lib/screen-token.ts).                       *)
(*                                                                         *)
(* The page polls the queue, plays the head's video in a YouTube player,   *)
(* and advances the queue when the video ends or cannot be played.  The    *)
(* server's queue is `line`: patrons append to it here (RoomQueue has its  *)
(* rules), hosts and other screens may advance it too.  The player is      *)
(* external: it starts, freezes, wedges, reports errors, ends.             *)
(*                                                                         *)
(* Time is left out but for the order it imposes: a stalled window of the  *)
(* watchdog, the age of the token, the debounce of reloads are steps.      *)
(* Paused players are left out: the watchdog treats them as ended ones.    *)
(***************************************************************************)
EXTENDS Integers, Sequences, TLC

CONSTANTS
  Entries,     \* queue entries, each submitted at most once
  Videos,
  VideoOf,     \* [Entries -> Videos]
  Fatal,       \* videos whose player reports a fatal error
  Stuck,       \* videos that never progress and report nothing
  None,
  MaxTrouble   \* bound on faults of the network, the player, the token

ASSUME TvScreenAssumption ==
  /\ VideoOf \in [Entries -> Videos] /\ Fatal \subseteq Videos /\ Stuck \subseteq Videos \ Fatal
  /\ None \notin Videos \cup Entries /\ MaxTrouble \in Nat

VARIABLES
  line,        \* the room's queue, on the server
  waiting,     \* entries not submitted yet
  token,       \* of this page's credential: "fresh", "old" (over 20 h), "dead" (rejected)
  marker,      \* the reload marker in session storage: "none", "recent", "past"
  storm,       \* reloads since the debounce last ran out or an advance was accepted
  api,         \* the IFrame API: "inject", "loading", "retry", "ready"
  queue,       \* React state: the last queue read
  dirty,       \* the player effect is due
  iframe,      \* the player object: "none", "good", "wedged", "orphan"
  play,        \* "idle", "loading", "playing", "frozen", "ended", "failed"
  video,       \* what was loaded into the player
  current,     \* currentVideoIdRef
  escalation, armed,   \* StallState: rungs climbed, a first sample taken
  skipping,    \* skippingRef
  retry,       \* the timer of a failed construction
  poll,        \* the answer of a poll on its way
  call,        \* the advance calls under way, by what made them
  trouble

server == <<line, waiting>>
heal == <<token, marker, storm>>
player == <<iframe, play, video>>
watch == <<escalation, armed>>
vars == <<server, heal, api, queue, dirty, player, current, watch, skipping, retry, poll, call, trouble>>

(* What calls advance(): the end of a video, and skipUnplayable. *)
Callers == {"ended", "unplayable"}
Idle == [pc |-> "idle", for |-> None]
NoAnswer == <<None>>      \* no queue can read so: an answer that failed
HeadVideo(q) == IF q = <<>> THEN None ELSE VideoOf[Head(q)]

TypeOK ==
  /\ line \in Seq(Entries) /\ waiting \subseteq Entries
  /\ token \in {"fresh", "old", "dead"} /\ marker \in {"none", "recent", "past"}
  /\ storm \in 0 .. MaxTrouble + 1
  /\ api \in {"inject", "loading", "retry", "ready"}
  /\ queue \in Seq(Entries) /\ dirty \in BOOLEAN
  /\ iframe \in {"none", "good", "wedged", "orphan"}
  /\ play \in {"idle", "loading", "playing", "frozen", "ended", "failed"}
  /\ video \in Videos \cup {None} /\ current \in Videos \cup {None}
  /\ escalation \in 0 .. 4 /\ armed \in BOOLEAN /\ skipping \in BOOLEAN /\ retry \in BOOLEAN
  /\ poll \in Seq(Entries) \cup {NoAnswer}
  /\ call \in [Callers -> [pc : {"idle", "post", "get"}, for : Entries \cup {None}]]
  /\ trouble \in 0 .. MaxTrouble

PageLoaded ==
  /\ api = "inject" /\ queue = <<>> /\ dirty = FALSE
  /\ iframe = "none" /\ play = "idle" /\ video = None /\ current = None
  /\ escalation = 0 /\ armed = FALSE /\ skipping = FALSE /\ retry = FALSE
  /\ poll = NoAnswer /\ call = [c \in Callers |-> Idle]

Init ==
  /\ line = <<>> /\ waiting = Entries
  /\ token = "fresh" /\ marker = "none" /\ storm = 0
  /\ PageLoaded
  /\ trouble = 0

Trouble == trouble < MaxTrouble /\ trouble' = trouble + 1

--------------------------------------------------------------------------------
(* The server. *)

Submit(e) ==
  /\ e \in waiting
  /\ waiting' = waiting \ {e} /\ line' = Append(line, e)
  /\ UNCHANGED <<heal, api, queue, dirty, player, current, watch, skipping, retry, poll, call, trouble>>

(* A host's skip, or another screen's advance. *)
AdvancedElsewhere ==
  /\ line # <<>>
  /\ line' = Tail(line)
  /\ UNCHANGED <<waiting, heal, api, queue, dirty, player, current, watch, skipping, retry, poll, call, trouble>>

(* Of a token that is old: its bucket is still accepted.  Of a dead one: its
   bucket has passed, or the room's secret was changed. *)
TokenAges ==
  /\ Trouble /\ token # "dead"
  /\ token' = IF token = "fresh" THEN "old" ELSE "dead"
  /\ UNCHANGED <<server, marker, storm, api, queue, dirty, player, current, watch, skipping, retry, poll, call>>

DebounceRunsOut ==
  /\ marker = "recent" /\ marker' = "past" /\ storm' = 0
  /\ UNCHANGED <<server, token, api, queue, dirty, player, current, watch, skipping, retry, poll, call, trouble>>

--------------------------------------------------------------------------------
(* selfHealReload: the page reloads, with a new token; a kiosk whose clock runs
   ahead reads that one as old too.  Every call under way is gone. *)

MayReloadUnmarked(got401) == got401 \/ (queue = <<>> /\ token # "fresh")
MayReloadMidSong(got401) == marker # "recent" /\ (got401 \/ token # "fresh")
MayReload(got401) ==
  /\ marker # "recent"
  /\ got401 \/ (queue = <<>> /\ token # "fresh")

Reload ==
  /\ marker' = "recent" /\ storm' = storm + 1
  /\ \/ token' = "fresh" /\ UNCHANGED trouble
     \/ Trouble /\ token' = "old"
  /\ api' = "inject" /\ queue' = <<>> /\ dirty' = FALSE
  /\ iframe' = "none" /\ play' = "idle" /\ video' = None /\ current' = None
  /\ escalation' = 0 /\ armed' = FALSE /\ skipping' = FALSE /\ retry' = FALSE
  /\ poll' = NoAnswer /\ call' = [c \in Callers |-> Idle]
  /\ UNCHANGED server

(* The minute's check of an idle page. *)
SelfHealCheck ==
  /\ ~dirty /\ token # "fresh" /\ MayReload(FALSE)
  /\ Reload

--------------------------------------------------------------------------------
(* The IFrame API: injected, silent or refused, and tried again for ever. *)

Inject ==
  /\ api = "inject" /\ api' = "loading"
  /\ UNCHANGED <<server, heal, queue, dirty, player, current, watch, skipping, retry, poll, call, trouble>>

ApiReady ==
  /\ api = "loading"
  /\ api' = "ready" /\ dirty' = TRUE
  /\ UNCHANGED <<server, heal, queue, player, current, watch, skipping, retry, poll, call, trouble>>

ScriptFails ==
  /\ api = "loading" /\ Trouble
  /\ api' = "retry"
  /\ UNCHANGED <<server, heal, queue, dirty, player, current, watch, skipping, retry, poll, call>>

RetryInject ==
  /\ api = "retry" /\ api' = "inject"
  /\ UNCHANGED <<server, heal, queue, dirty, player, current, watch, skipping, retry, poll, call, trouble>>

--------------------------------------------------------------------------------
(* fetchQueue, every three seconds: the server's answer and its arrival.  What
   has not changed is not written, and so runs no effect. *)

SetQueue(items) == queue' = items /\ dirty' = (dirty \/ items # queue)

Poll ==
  /\ poll = NoAnswer /\ poll' = line
  /\ UNCHANGED <<server, heal, api, queue, dirty, player, current, watch, skipping, retry, call, trouble>>

PollArrives ==
  /\ poll # NoAnswer
  /\ SetQueue(poll) /\ poll' = NoAnswer
  /\ UNCHANGED <<server, heal, api, player, current, watch, skipping, retry, call, trouble>>

PollLost ==
  /\ poll # NoAnswer /\ Trouble
  /\ poll' = NoAnswer
  /\ UNCHANGED <<server, heal, api, queue, dirty, player, current, watch, skipping, retry, call>>

--------------------------------------------------------------------------------
(* The player, as the page drives it. *)

(* loadVideoById: a player without a working iframe takes it and plays nothing. *)
Load(v) ==
  /\ video' = v
  /\ play' = IF v \in Stuck THEN "frozen" ELSE "loading"

ResetStall == escalation' = 0 /\ armed' = FALSE

(* The player effect: an empty queue, an orphaned player, the same track. *)
ParkSounding ==
  /\ queue = <<>>
  /\ iframe' = IF iframe = "orphan" THEN "none" ELSE iframe
  /\ current' = None
  /\ UNCHANGED <<play, video, watch, retry>>

Park ==
  /\ queue = <<>>
  /\ iframe' = IF iframe = "orphan" THEN "none" ELSE iframe
  /\ current' = None /\ play' = "idle" /\ video' = None
  /\ UNCHANGED <<watch, retry>>

Retrack ==
  /\ queue # <<>> /\ iframe \in {"good", "wedged"}
  /\ UNCHANGED <<iframe, retry>>
  /\ IF current = HeadVideo(queue) THEN UNCHANGED <<current, play, video, watch>>
     ELSE current' = HeadVideo(queue) /\ Load(HeadVideo(queue)) /\ ResetStall

Create ==
  /\ queue # <<>> /\ iframe \in {"none", "orphan"}
  /\ iframe' = "good" /\ current' = HeadVideo(queue) /\ Load(HeadVideo(queue)) /\ ResetStall
  /\ UNCHANGED retry

(* The constructor threw: once more, with a timer of its own. *)
RetryNever == UNCHANGED retry
RetryLater == retry' = TRUE
FailToCreate ==
  /\ queue # <<>> /\ iframe \in {"none", "orphan"}
  /\ iframe' = "none" /\ play' = "idle" /\ video' = None /\ current' = None
  /\ ResetStall /\ RetryLater

PlayerEffect ==
  /\ dirty /\ api = "ready"
  /\ dirty' = FALSE
  /\ \/ (Park \/ Retrack \/ Create) /\ UNCHANGED trouble
     \/ FailToCreate /\ Trouble
  /\ UNCHANGED <<server, heal, api, queue, skipping, poll, call>>

RetryTimer ==
  /\ retry /\ retry' = FALSE /\ dirty' = TRUE
  /\ UNCHANGED <<server, heal, api, queue, player, current, watch, skipping, poll, call, trouble>>

--------------------------------------------------------------------------------
(* The player, by itself. *)

Starts ==
  /\ iframe = "good" /\ play = "loading" /\ video \notin Fatal
  /\ play' = "playing"
  /\ UNCHANGED <<server, heal, api, queue, dirty, iframe, video, current, watch, skipping, retry, poll, call, trouble>>

Freezes ==
  /\ iframe = "good" /\ play \in {"loading", "playing"} /\ Trouble
  /\ play' = "frozen"
  /\ UNCHANGED <<server, heal, api, queue, dirty, iframe, video, current, watch, skipping, retry, poll, call>>

(* The iframe stops answering, or leaves the host. *)
Breaks ==
  /\ iframe = "good" /\ Trouble
  /\ iframe' \in {"wedged", "orphan"}
  /\ play' = IF play \in {"loading", "playing"} THEN "frozen" ELSE play
  /\ UNCHANGED <<server, heal, api, queue, dirty, video, current, watch, skipping, retry, poll, call>>

(* onStateChange(ENDED): advance, whatever else is under way. *)
Call(c) == call' = [call EXCEPT ![c] = [pc |-> "post", for |-> IF queue = <<>> THEN None ELSE Head(queue)]]

Ends ==
  /\ iframe = "good" /\ play = "playing" /\ call["ended"] = Idle
  /\ play' = "ended" /\ Call("ended")
  /\ UNCHANGED <<server, heal, api, queue, dirty, iframe, video, current, watch, skipping, retry, poll, trouble>>

(* skipUnplayable: one skip in flight, ever. *)
SkipUnplayable ==
  IF skipping THEN UNCHANGED <<skipping, call>>
  ELSE skipping' = TRUE /\ Call("unplayable")

(* onError with a fatal code. *)
PlayerError ==
  /\ iframe = "good" /\ play = "loading" /\ video \in Fatal
  /\ play' = "failed" /\ SkipUnplayable
  /\ UNCHANGED <<server, heal, api, queue, dirty, iframe, video, current, watch, retry, poll, trouble>>
--------------------------------------------------------------------------------
(* The watchdog: stallTick, and what the screen does at each rung.  A window
   without progress climbs one; a player whose clock can be read is first
   sampled once. *)

Still == iframe \in {"wedged", "orphan"} \/ play \in {"frozen", "failed"}
Ladder == <<"replay", "reload", "recreate", "advance">>

Progress ==
  /\ ~Still /\ play = "playing"
  /\ escalation' = 0 /\ armed' = TRUE
  /\ UNCHANGED <<player, current, skipping, dirty, call>>

FirstSample ==
  /\ Still /\ iframe = "good" /\ ~armed
  /\ armed' = TRUE
  /\ UNCHANGED <<escalation, player, current, skipping, dirty, call>>

Climb ==
  /\ Still /\ (armed \/ iframe # "good")
  /\ escalation' = IF escalation = Len(Ladder) THEN 0 ELSE escalation + 1
  /\ armed' = (iframe = "good")
  /\ LET action == IF escalation = Len(Ladder) THEN "none" ELSE Ladder[escalation + 1] IN
     /\ iframe' = IF action = "recreate" THEN "none" ELSE iframe
     /\ current' = IF action = "recreate" THEN None ELSE current
     /\ video' = IF action = "recreate" THEN None ELSE video
     /\ dirty' = (dirty \/ action = "recreate")
     /\ play' \in CASE action = "recreate" -> {"idle"}
                    [] action = "replay" /\ iframe = "good" /\ video \notin Fatal \cup Stuck -> {play, "playing"}
                    [] action = "reload" /\ iframe = "good" /\ video \notin Stuck -> {"loading"}
                    [] OTHER -> {play}
     /\ IF action = "advance" THEN SkipUnplayable ELSE UNCHANGED <<skipping, call>>

Tick ==
  /\ api = "ready" /\ iframe # "none" /\ current # None /\ ~skipping
  /\ Progress \/ FirstSample \/ Climb
  /\ UNCHANGED <<server, heal, api, queue, retry, poll, trouble>>

--------------------------------------------------------------------------------
(* advance(): POST /api/queue/advance, then a read of the queue, then what its
   caller does with the head's video, or with none. *)

GaveUp(c) == call' = [call EXCEPT ![c] = Idle]

(* What the ENDED handler and skipUnplayable do once advance returns. *)
Continue(c, next) ==
  /\ GaveUp(c) /\ ResetStall
  /\ skipping' = IF c = "unplayable" THEN FALSE ELSE skipping
  /\ IF next # None /\ iframe # "none"
     THEN current' = next /\ Load(next)
     ELSE /\ current' = IF next = None \/ c = "ended" THEN None ELSE current
          /\ UNCHANGED <<play, video>>

PostAccepted(c) ==
  /\ call[c].pc = "post" /\ token # "dead"
  /\ line' = IF line = <<>> THEN line ELSE Tail(line)
  /\ marker' = "none" /\ storm' = 0
  /\ call' = [call EXCEPT ![c].pc = "get"]
  /\ UNCHANGED <<waiting, token, api, queue, dirty, player, current, watch, skipping, retry, poll, trouble>>

(* The room's advance limit, or an error of the server: the queue is read all the same. *)
PostLimited(c) ==
  /\ call[c].pc = "post" /\ Trouble
  /\ call' = [call EXCEPT ![c].pc = "get"]
  /\ UNCHANGED <<server, heal, api, queue, dirty, player, current, watch, skipping, retry, poll>>

PostRejected(c) ==
  /\ call[c].pc = "post" /\ token = "dead"
  /\ IF MayReload(TRUE) THEN Reload
     ELSE Continue(c, None) /\ UNCHANGED <<server, heal, api, queue, dirty, iframe, retry, poll, trouble>>

(* Lost on its way to the server, or the answer on its way back. *)
PostLost(c) ==
  /\ call[c].pc = "post" /\ Trouble
  /\ \/ UNCHANGED line
     \/ token # "dead" /\ line # <<>> /\ line' = Tail(line)
  /\ Continue(c, None)
  /\ UNCHANGED <<waiting, heal, api, queue, dirty, iframe, retry, poll>>

(* The read and its arrival are one step: the polls are what can be stale. *)
ReadBack(c) ==
  /\ call[c].pc = "get"
  /\ SetQueue(line) /\ Continue(c, HeadVideo(line))
  /\ UNCHANGED <<server, heal, api, iframe, retry, poll, trouble>>

ReadLost(c) ==
  /\ call[c].pc = "get" /\ Trouble
  /\ Continue(c, None)
  /\ UNCHANGED <<server, heal, api, queue, dirty, iframe, retry, poll>>

Advance(c) ==
  \/ PostAccepted(c) \/ PostLimited(c) \/ PostRejected(c) \/ PostLost(c)
  \/ ReadBack(c) \/ ReadLost(c)

(* The screen's own skip button: it loads nothing, the effect does. *)
PressSkip ==
  /\ queue # <<>> /\ poll = NoAnswer
  /\ IF token = "dead" THEN MayReload(TRUE) /\ Reload
     ELSE /\ line' = (IF line = <<>> THEN line ELSE Tail(line))
          /\ marker' = "none" /\ storm' = 0 /\ poll' = line'
          /\ UNCHANGED <<waiting, token, api, queue, dirty, player, current, watch, skipping, retry, call, trouble>>

--------------------------------------------------------------------------------
Network == \E c \in Callers : Advance(c)
Next ==
  \/ \E e \in Entries : Submit(e)
  \/ AdvancedElsewhere \/ TokenAges \/ DebounceRunsOut \/ SelfHealCheck
  \/ Inject \/ ApiReady \/ ScriptFails \/ RetryInject
  \/ Poll \/ PollArrives \/ PollLost
  \/ PlayerEffect \/ RetryTimer
  \/ Starts \/ Freezes \/ Breaks \/ Ends \/ PlayerError
  \/ Tick \/ Network \/ PressSkip

Spec == Init /\ [][Next]_vars

(* The page's timers and effects run, a request is answered, a healthy player
   plays what it is given.  Nobody need submit, press or press again. *)
Fairness ==
  /\ WF_vars(Inject \/ ApiReady \/ RetryInject)
  /\ WF_vars(Poll) /\ WF_vars(PollArrives)
  /\ WF_vars(PlayerEffect) /\ WF_vars(RetryTimer)
  /\ WF_vars(Starts) /\ WF_vars(Ends) /\ WF_vars(PlayerError)
  /\ WF_vars(Tick)
  /\ \A c \in Callers : WF_vars(Advance(c))
  /\ WF_vars(SelfHealCheck) /\ WF_vars(DebounceRunsOut)
FairSpec == Spec /\ Fairness

--------------------------------------------------------------------------------
(* The screen names the singer whose video it plays: once the effect has run,
   what sounds is the video of the entry at the head of the queue shown, and an
   empty queue sounds nothing. *)
PlaysWhatItShows ==
  ~dirty /\ play \in {"loading", "playing"} =>
    queue # <<>> /\ video = HeadVideo(queue)

(* self-heal.ts: at most one reload per debounce window, unless an advance was
   accepted in between, however many advances are refused and whatever the
   kiosk's clock says. *)
ReloadsAreSpaced == storm <= 1

(* A page that reloads over the age of its token cuts nobody off: only a refused
   advance reloads while a video plays. *)
IdleReloadsCutNobodyOff ==
  [][marker' = "recent" /\ storm' = storm + 1 /\ token = "old" => play # "playing"]_vars

(* A screen nobody stands at reloads itself seldom, and never into a song. *)
ReloadsHurtNobody == []ReloadsAreSpaced /\ IdleReloadsCutNobodyOff

(* The page has given up on the entry it shows: its player is there, and no
   video is held to be playing in it, so the watchdog looks away. *)
Abandoned == queue # <<>> /\ iframe # "none" /\ current = None

(* The queue moves on: whoever is at the head leaves it, through whatever the
   player, the script and the polls go; or else an advance came to nothing. *)
StageMovesOn == \A e \in Entries :
  (line # <<>> /\ Head(line) = e) ~> (line = <<>> \/ Head(line) # e \/ Abandoned)

(* watchdog.ts:4, the screen must never require a human refresh: nor when an
   advance came to nothing. *)
NeverNeedsARefresh == \A e \in Entries :
  (line # <<>> /\ Head(line) = e) ~> (line = <<>> \/ Head(line) # e)

(* watchdog.ts:13, a video that makes no progress walks the ladder to its last
   rung, and is skipped. *)
StalledVideoIsSkipped ==
  (line # <<>> /\ HeadVideo(line) \in Stuck) ~> (line = <<>> \/ HeadVideo(line) \notin Stuck)

===============================================================================
