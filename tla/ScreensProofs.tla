---------------------------- MODULE ScreensProofs ----------------------------
(***************************************************************************)
(* Proofs about what people look at and get in by, composed as in          *)
(* MCScreens but for any sizes, and any number of faults: the venue's      *)
(* screen (TvScreen) and what is drawn around its video (TvOverlay), the   *)
(* lookup of a video (VideoLookup), the patron's page (PatronPage), the    *)
(* owner's way into the host's page (HostAccess), the search field         *)
(* (SearchBox) and the counters that hold back who guesses                 *)
(* (FailureCounter).                                                       *)
(***************************************************************************)
EXTENDS MCScreens, SequenceTheorems, FiniteSetTheorems, TLAPS

-----------------------------------------------------------------------------
(* The player.  What it was last told to play is what the page remembers    *)
(* of it, and once the effect has run that is the head of the queue shown:  *)
(* this is what a frozen, a failed and an ended video keep, so that a       *)
(* replay by the watchdog plays what is shown.  A reload marks the page,    *)
(* and what takes the mark away starts the count of reloads anew.           *)

PlayerSound ==
  /\ current # None => video = current
  /\ ~dirty /\ current # None => queue # <<>> /\ current = HeadVideo(queue)
  /\ PlaysWhatItShows

ReloadsSound ==
  /\ marker # "recent" => storm = 0
  /\ ReloadsAreSpaced

ScreenInv == TypeOK /\ PlayerSound /\ ReloadsSound

LEMMA HeadPlays ==
  ASSUME NEW q \in Seq(Entries), q # <<>>
  PROVE  Head(q) \in Entries /\ HeadVideo(q) \in Videos /\ HeadVideo(q) # None
<1>1. Head(q) \in Entries
  OBVIOUS
<1> QED
  BY <1>1, TvScreenAssumption DEF HeadVideo

LEMMA VideoOfHead ==
  ASSUME NEW q \in Seq(Entries)
  PROVE  HeadVideo(q) \in Videos \cup {None}
BY HeadPlays DEF HeadVideo

\* The page is loaded idle.
LEMMA InitIsSound == Init => ScreenInv
<1> SUFFICES ASSUME Init PROVE ScreenInv
  OBVIOUS
<1>1. TypeOK
  <2>1. storm \in 0 .. MaxTrouble + 1 /\ escalation \in 0 .. 4 /\ trouble \in 0 .. MaxTrouble
    BY TvScreenAssumption DEF Init, PageLoaded
  <2>2. call \in [Callers -> [pc : {"idle", "post", "get"}, for : Entries \cup {None}]]
    BY DEF Init, PageLoaded, Idle
  <2>3. line \in Seq(Entries) /\ queue \in Seq(Entries)
    BY DEF Init, PageLoaded
  <2> QED
    BY <2>1, <2>2, <2>3, Zenon DEF Init, PageLoaded, TypeOK
<1>2. PlayerSound /\ ReloadsSound
  BY DEF Init, PageLoaded, PlayerSound, ReloadsSound, PlaysWhatItShows, ReloadsAreSpaced
<1> QED
  BY <1>1, <1>2 DEF ScreenInv

LEMMA TroubleIsBounded ==
  ASSUME TypeOK, Trouble
  PROVE  trouble' \in 0 .. MaxTrouble
BY TvScreenAssumption DEF TypeOK, Trouble

\* A reload, by whatever asks for it outside the debounce: the page is loaded again.
LEMMA ReloadIsSound ==
  ASSUME ScreenInv, marker # "recent", Reload
  PROVE  ScreenInv'
<1>1. TypeOK'
  <2>1. storm' \in 0 .. MaxTrouble + 1 /\ escalation' \in 0 .. 4 /\ trouble' \in 0 .. MaxTrouble
    BY TvScreenAssumption DEF ScreenInv, ReloadsSound, ReloadsAreSpaced, TypeOK, Reload, Trouble
  <2>2. call' \in [Callers -> [pc : {"idle", "post", "get"}, for : Entries \cup {None}]]
    BY DEF Reload, Idle
  <2>3. line' \in Seq(Entries) /\ queue' \in Seq(Entries) /\ waiting' \subseteq Entries
    BY DEF Reload, ScreenInv, TypeOK, server
  <2> QED
    BY <2>1, <2>2, <2>3, Zenon DEF Reload, TypeOK
<1>2. PlayerSound' /\ ReloadsSound'
  BY DEF ScreenInv, PlayerSound, ReloadsSound, TypeOK, Reload, PlaysWhatItShows, ReloadsAreSpaced
<1> QED
  BY <1>1, <1>2 DEF ScreenInv

\* A step that reloads nothing, or that ends the debounce.
LEMMA ReloadsGoOn ==
  ASSUME ReloadsSound, UNCHANGED <<marker, storm>> \/ storm' = 0
  PROVE  ReloadsSound'
BY DEF ReloadsSound, ReloadsAreSpaced

\* A step that loads nothing and shows nothing else: the player goes on, stops, or,
\* while the page remembers what it plays, starts again.
LEMMA PlayerGoesOn ==
  ASSUME PlayerSound, UNCHANGED <<queue, video, current>>,
         dirty => dirty',
         \/ play' = play
         \/ play' \notin {"loading", "playing"}
         \/ play \in {"loading", "playing"} \/ current # None
  PROVE  PlayerSound'
BY DEF PlayerSound, PlaysWhatItShows, HeadVideo

\* A step that forgets what the player was told, and plays nothing: or the effect is due.
LEMMA PlayerForgotten ==
  ASSUME PlayerSound, current' = None,
         play' \notin {"loading", "playing"} \/ dirty' \/ UNCHANGED <<queue, dirty, play, video>>
  PROVE  PlayerSound'
BY DEF PlayerSound, PlaysWhatItShows, HeadVideo

\* A step that loads the head of the queue it shows.
LEMMA PlayerLoaded ==
  ASSUME queue' \in Seq(Entries), queue' # <<>>,
         current' = HeadVideo(queue'), video' = HeadVideo(queue')
  PROVE  PlayerSound'
BY DEF PlayerSound, PlaysWhatItShows, HeadVideo

\* The steps that leave the player, what is shown of the queue and the reloads alone.
ServerSteps ==
  \/ \E e \in Entries : Submit(e)
  \/ AdvancedElsewhere \/ TokenAges
  \/ Inject \/ ScriptFails \/ RetryInject
  \/ Poll \/ PollLost

LEMMA ServerStepsAreSound ==
  ASSUME ScreenInv, ServerSteps
  PROVE  ScreenInv'
<1>1. UNCHANGED <<marker, storm, queue, dirty, player, current>>
  BY DEF ServerSteps, Submit, AdvancedElsewhere, TokenAges, Inject, ScriptFails, RetryInject, Poll,
    PollLost, heal, server
<1>2. PlayerSound' /\ ReloadsSound'
  BY <1>1, PlayerGoesOn, ReloadsGoOn DEF ScreenInv, player
<1>3. TypeOK'
  <2> USE DEF ScreenInv, TypeOK, heal, server, player, watch
  <2>1. CASE \E e \in Entries : Submit(e)
    BY <2>1 DEF Submit
  <2>2. CASE AdvancedElsewhere
    BY <2>2 DEF AdvancedElsewhere
  <2>3. CASE TokenAges
    BY <2>3, TroubleIsBounded DEF TokenAges
  <2>4. CASE Inject \/ RetryInject
    BY <2>4 DEF Inject, RetryInject
  <2>5. CASE ScriptFails
    BY <2>5, TroubleIsBounded DEF ScriptFails
  <2>6. CASE Poll
    BY <2>6 DEF Poll
  <2>7. CASE PollLost
    BY <2>7, TroubleIsBounded DEF PollLost
  <2> QED
    BY <2>1, <2>2, <2>3, <2>4, <2>5, <2>6, <2>7 DEF ServerSteps
<1> QED
  BY <1>2, <1>3 DEF ScreenInv
-----------------------------------------------------------------------------
(* What the calls and the player's own steps write has its type.            *)

CallsTyped(f) == f \in [Callers -> [pc : {"idle", "post", "get"}, for : Entries \cup {None}]]

LEMMA CallIsTyped ==
  ASSUME TypeOK, NEW c \in Callers, Call(c) \/ GaveUp(c) \/ call' = [call EXCEPT ![c].pc = "get"]
  PROVE  CallsTyped(call')
<1>1. (IF queue = <<>> THEN None ELSE Head(queue)) \in Entries \cup {None}
  BY HeadPlays DEF TypeOK
<1>2. CASE Call(c)
  BY <1>1, <1>2 DEF TypeOK, Call, CallsTyped
<1>3. CASE GaveUp(c)
  BY <1>3 DEF TypeOK, GaveUp, Idle, CallsTyped
<1>4. CASE call' = [call EXCEPT ![c].pc = "get"]
  BY <1>4 DEF TypeOK, CallsTyped
<1> QED
  BY <1>2, <1>3, <1>4

LEMMA SkipIsTyped ==
  ASSUME TypeOK, SkipUnplayable
  PROVE  CallsTyped(call') /\ skipping' \in BOOLEAN
<1>1. CASE skipping
  BY <1>1 DEF SkipUnplayable, TypeOK, CallsTyped
<1>2. CASE ~skipping
  BY <1>2, CallIsTyped DEF SkipUnplayable, Callers
<1> QED
  BY <1>1, <1>2

LEMMA LoadIsTyped ==
  ASSUME NEW v \in Videos, Load(v)
  PROVE  /\ video' \in Videos /\ video' = v
         /\ play' \in {"idle", "loading", "playing", "frozen", "ended", "failed"}
BY DEF Load

LEMMA StallIsTyped ==
  ASSUME ResetStall
  PROVE  escalation' \in 0 .. 4 /\ armed' \in BOOLEAN
<1>1. escalation' \in 0 .. 4
  BY DEF ResetStall
<1>2. armed' \in BOOLEAN
  BY Zenon DEF ResetStall
<1> QED
  BY <1>1, <1>2

\* The types, where a step of the player, the watchdog or the calls changes its own.
LEMMA PlayerTypes ==
  ASSUME TypeOK, UNCHANGED <<server, heal, api, queue, retry, poll>>,
         dirty' \in BOOLEAN, skipping' \in BOOLEAN, armed' \in BOOLEAN,
         iframe' \in {"none", "good", "wedged", "orphan"},
         play' \in {"idle", "loading", "playing", "frozen", "ended", "failed"},
         video' \in Videos \cup {None}, current' \in Videos \cup {None},
         escalation' \in 0 .. 4, CallsTyped(call'), trouble' \in 0 .. MaxTrouble
  PROVE  TypeOK'
BY Zenon DEF TypeOK, CallsTyped, server, heal

\* The types, where an advance has ended.
LEMMA ContinueTypes ==
  ASSUME TypeOK, line' \in Seq(Entries), queue' \in Seq(Entries),
         UNCHANGED <<waiting, heal, api, iframe, retry, poll>>,
         dirty' \in BOOLEAN, skipping' \in BOOLEAN, armed' \in BOOLEAN,
         play' \in {"idle", "loading", "playing", "frozen", "ended", "failed"},
         video' \in Videos \cup {None}, current' \in Videos \cup {None},
         escalation' \in 0 .. 4, CallsTyped(call'), trouble' \in 0 .. MaxTrouble
  PROVE  TypeOK'
BY Zenon DEF TypeOK, CallsTyped, heal

-----------------------------------------------------------------------------
(* The steps, one after another.                                            *)

\* The debounce, the page's minute, the script, a failed construction, a poll's answer.
LEMMA PageStepsAreSound ==
  ASSUME ScreenInv, DebounceRunsOut \/ SelfHealCheck \/ ApiReady \/ RetryTimer \/ PollArrives
  PROVE  ScreenInv'
<1>1. CASE DebounceRunsOut
  <2>1. TypeOK'
    <3>1. storm' \in 0 .. MaxTrouble + 1
      BY <1>1, TvScreenAssumption DEF DebounceRunsOut
    <3> QED
      BY <1>1, <3>1 DEF DebounceRunsOut, ScreenInv, TypeOK, server, player, watch
  <2>2. PlayerSound'
    BY <1>1, PlayerGoesOn DEF DebounceRunsOut, ScreenInv, player
  <2> QED
    BY <1>1, <2>1, <2>2, ReloadsGoOn DEF DebounceRunsOut, ScreenInv
<1>2. CASE SelfHealCheck
  BY <1>2, ReloadIsSound DEF SelfHealCheck, MayReload
<1>3. CASE ApiReady \/ RetryTimer
  <2>1. TypeOK'
    <3>1. dirty' \in BOOLEAN /\ retry' \in BOOLEAN
      BY <1>3, Zenon DEF ApiReady, RetryTimer, ScreenInv, TypeOK
    <3>2. /\ UNCHANGED <<server, heal, queue, player, current, watch, skipping, poll, call, trouble>>
          /\ api' \in {"inject", "loading", "retry", "ready"}
      BY <1>3 DEF ApiReady, RetryTimer, ScreenInv, TypeOK
    <3> QED
      BY <3>1, <3>2 DEF ScreenInv, TypeOK, server, heal, player, watch
  <2>2. PlayerSound' /\ ReloadsSound'
    BY <1>3, PlayerGoesOn, ReloadsGoOn DEF ApiReady, RetryTimer, ScreenInv, player, heal
  <2> QED
    BY <2>1, <2>2 DEF ScreenInv
<1>4. CASE PollArrives
  <2>1. queue' = poll /\ poll \in Seq(Entries) /\ dirty' = (dirty \/ poll # queue) /\ (dirty => dirty')
    BY <1>4 DEF PollArrives, SetQueue, ScreenInv, TypeOK
  <2>2. TypeOK'
    <3>1. dirty' \in BOOLEAN
      BY <2>1
    <3> QED
      BY <1>4, <2>1, <3>1 DEF PollArrives, ScreenInv, TypeOK, server, heal, player, watch
  <2>3. PlayerSound' /\ ReloadsSound'
    <3>1. UNCHANGED <<heal, player, current>>
      BY <1>4 DEF PollArrives
    <3>2. CASE poll = queue
      BY <2>1, <3>1, <3>2, PlayerGoesOn, ReloadsGoOn DEF ScreenInv, player, heal
    <3>3. CASE poll # queue
      BY <2>1, <3>1, <3>3, ReloadsGoOn DEF ScreenInv, PlayerSound, PlaysWhatItShows, player, heal
    <3> QED
      BY <3>2, <3>3
  <2> QED
    BY <2>2, <2>3 DEF ScreenInv
<1> QED
  BY <1>1, <1>2, <1>3, <1>4

\* The effect parks the player, gives it the head's track, or makes it.
LEMMA EffectIsSound ==
  ASSUME ScreenInv, PlayerEffect
  PROVE  ScreenInv'
<1>1. UNCHANGED <<server, heal, api, queue, skipping, poll, call>> /\ dirty' = FALSE
  BY DEF PlayerEffect
<1>2. trouble' \in 0 .. MaxTrouble
  BY TroubleIsBounded DEF PlayerEffect, ScreenInv, TypeOK
<1>3. ReloadsSound' /\ queue \in Seq(Entries) /\ queue' = queue /\ CallsTyped(call')
  BY <1>1, ReloadsGoOn DEF ScreenInv, TypeOK, heal, CallsTyped
<1>4. ASSUME retry' \in BOOLEAN, armed' \in BOOLEAN, escalation' \in 0 .. 4,
             iframe' \in {"none", "good", "wedged", "orphan"},
             play' \in {"idle", "loading", "playing", "frozen", "ended", "failed"},
             video' \in Videos \cup {None}, current' \in Videos \cup {None}
      PROVE  TypeOK'
  BY <1>1, <1>2, <1>3, <1>4, Zenon DEF ScreenInv, TypeOK, CallsTyped, server, heal
<1>5. CASE Park
  <2>1. TypeOK'
    BY <1>4, <1>5 DEF Park, ScreenInv, TypeOK, watch
  <2>2. PlayerSound'
    BY <1>5, PlayerForgotten DEF Park, ScreenInv
  <2> QED
    BY <1>3, <2>1, <2>2 DEF ScreenInv
<1>6. CASE Retrack /\ current = HeadVideo(queue)
  <2>1. UNCHANGED <<iframe, retry, current, play, video, watch>> /\ queue # <<>>
    BY <1>6 DEF Retrack
  <2>2. current # None
    BY <1>6, <2>1, <1>3, HeadPlays
  <2>3. TypeOK'
    BY <1>4, <2>1 DEF ScreenInv, TypeOK, watch
  <2>4. PlayerSound'
    BY <1>3, <1>6, <2>1, <2>2, PlayerLoaded DEF ScreenInv, PlayerSound
  <2> QED
    BY <1>3, <2>3, <2>4 DEF ScreenInv
<1>7. CASE (Retrack /\ current # HeadVideo(queue)) \/ Create
  <2>1. /\ queue # <<>> /\ current' = HeadVideo(queue) /\ Load(HeadVideo(queue)) /\ ResetStall
        /\ UNCHANGED retry /\ iframe' \in {iframe, "good"}
    BY <1>7 DEF Retrack, Create
  <2>2. HeadVideo(queue) \in Videos
    BY <1>3, <2>1, HeadPlays
  <2>3. video' = HeadVideo(queue) /\ play' \in {"idle", "loading", "playing", "frozen", "ended", "failed"}
    BY <2>1, <2>2, LoadIsTyped
  <2>4. TypeOK'
    <3>1. escalation' \in 0 .. 4 /\ armed' \in BOOLEAN /\ retry' \in BOOLEAN
      BY <2>1, StallIsTyped, Zenon DEF ScreenInv, TypeOK
    <3>2. iframe' \in {"none", "good", "wedged", "orphan"}
      BY <2>1 DEF ScreenInv, TypeOK
    <3> QED
      BY <1>4, <2>1, <2>2, <2>3, <3>1, <3>2
  <2>5. PlayerSound'
    BY <1>3, <2>1, <2>3, PlayerLoaded DEF HeadVideo
  <2> QED
    BY <1>3, <2>4, <2>5 DEF ScreenInv
<1>8. CASE FailToCreate
  <2>1. TypeOK'
    <3>1. escalation' \in 0 .. 4 /\ armed' \in BOOLEAN /\ retry' \in BOOLEAN
      BY <1>8, StallIsTyped, Zenon DEF FailToCreate, RetryLater
    <3> QED
      BY <1>4, <1>8, <3>1 DEF FailToCreate
  <2>2. PlayerSound'
    BY <1>8, PlayerForgotten DEF FailToCreate, ScreenInv
  <2> QED
    BY <1>3, <2>1, <2>2 DEF ScreenInv
<1> QED
  BY <1>5, <1>6, <1>7, <1>8 DEF PlayerEffect

\* The player by itself: it starts what it was given, freezes, breaks, ends or fails.
LEMMA PlayerStepsAreSound ==
  ASSUME ScreenInv, Starts \/ Freezes \/ Breaks \/ Ends \/ PlayerError
  PROVE  ScreenInv'
<1>1. /\ UNCHANGED <<server, heal, api, queue, retry, poll, dirty, video, current, watch>>
      /\ \/ play' = play \/ play' \notin {"loading", "playing"}
         \/ play \in {"loading", "playing"} \/ current # None
  BY DEF Starts, Freezes, Breaks, Ends, PlayerError
<1>2. /\ iframe' \in {"none", "good", "wedged", "orphan"}
      /\ play' \in {"idle", "loading", "playing", "frozen", "ended", "failed"}
  BY DEF Starts, Freezes, Breaks, Ends, PlayerError, ScreenInv, TypeOK
<1>3. trouble' \in 0 .. MaxTrouble
  BY TroubleIsBounded DEF Starts, Freezes, Breaks, Ends, PlayerError, ScreenInv, TypeOK
<1>4. CallsTyped(call') /\ skipping' \in BOOLEAN
  BY CallIsTyped, SkipIsTyped DEF Starts, Freezes, Breaks, Ends, PlayerError, ScreenInv, TypeOK,
    CallsTyped, Callers
<1>5. TypeOK'
  BY <1>1, <1>2, <1>3, <1>4, PlayerTypes DEF ScreenInv, TypeOK, watch
<1>6. PlayerSound' /\ ReloadsSound'
  BY <1>1, PlayerGoesOn, ReloadsGoOn DEF ScreenInv, heal
<1> QED
  BY <1>5, <1>6 DEF ScreenInv

\* The watchdog: a rung replays or reloads the video the page remembers, makes a new
\* player, or skips.
LEMMA TickIsSound ==
  ASSUME ScreenInv, Tick
  PROVE  ScreenInv'
<1>1. current # None /\ UNCHANGED <<server, heal, api, queue, retry, poll, trouble>>
  BY DEF Tick
<1>2. trouble' \in 0 .. MaxTrouble /\ ReloadsSound'
  BY <1>1, ReloadsGoOn DEF ScreenInv, TypeOK, heal
<1>3. CASE Progress \/ FirstSample
  <2>1. UNCHANGED <<player, current, skipping, dirty, call>>
    BY <1>3 DEF Progress, FirstSample
  <2>2. escalation' \in 0 .. 4
    BY <1>3 DEF Progress, FirstSample, ScreenInv, TypeOK
  <2>3. armed' \in BOOLEAN
    BY <1>3, Zenon DEF Progress, FirstSample
  <2>4. TypeOK'
    BY <1>1, <1>2, <2>1, <2>2, <2>3, PlayerTypes DEF ScreenInv, TypeOK, CallsTyped, player
  <2>5. PlayerSound'
    BY <1>1, <2>1, PlayerGoesOn DEF ScreenInv, player
  <2> QED
    BY <1>2, <2>4, <2>5 DEF ScreenInv
<1>4. CASE Climb
  <2> DEFINE rung == IF escalation = Len(Ladder) THEN "none" ELSE Ladder[escalation + 1]
  <2>1. /\ iframe' = IF rung = "recreate" THEN "none" ELSE iframe
        /\ current' = IF rung = "recreate" THEN None ELSE current
        /\ video' = IF rung = "recreate" THEN None ELSE video
        /\ dirty' = (dirty \/ rung = "recreate")
        /\ play' \in CASE rung = "recreate" -> {"idle"}
             [] rung = "replay" /\ iframe = "good" /\ video \notin Fatal \cup Stuck -> {play, "playing"}
             [] rung = "reload" /\ iframe = "good" /\ video \notin Stuck -> {"loading"}
             [] OTHER -> {play}
        /\ IF rung = "advance" THEN SkipUnplayable ELSE UNCHANGED <<skipping, call>>
    BY <1>4, Zenon DEF Climb
  <2> HIDE DEF rung
  <2>2. play' \in {"idle", "loading", "playing", "frozen", "ended", "failed"}
    BY <2>1 DEF ScreenInv, TypeOK
  <2>3. escalation' \in 0 .. 4
    BY <1>4 DEF Climb, Ladder, ScreenInv, TypeOK
  <2>4. armed' \in BOOLEAN /\ dirty' \in BOOLEAN
    BY <1>4, <2>1, Zenon DEF Climb
  <2>5. skipping' \in BOOLEAN /\ CallsTyped(call')
    BY <2>1, SkipIsTyped DEF ScreenInv, TypeOK, CallsTyped
  <2>6. TypeOK'
    BY <1>1, <1>2, <2>1, <2>2, <2>3, <2>4, <2>5, PlayerTypes DEF ScreenInv, TypeOK
  <2>7. PlayerSound'
    <3>1. CASE rung = "recreate"
      BY <2>1, <3>1, PlayerForgotten DEF ScreenInv
    <3>2. CASE rung # "recreate"
      BY <1>1, <2>1, <3>2, PlayerGoesOn DEF ScreenInv
    <3> QED
      BY <3>1, <3>2
  <2> QED
    BY <1>2, <2>6, <2>7 DEF ScreenInv
<1> QED
  BY <1>3, <1>4 DEF Tick

\* What follows an advance: the head's video, or none, and it is forgotten.
LEMMA ContinueIsSound ==
  ASSUME ScreenInv, NEW c \in Callers, NEW next \in Videos \cup {None}, Continue(c, next),
         line' \in Seq(Entries), queue' \in Seq(Entries), dirty' \in BOOLEAN,
         dirty => dirty', queue' = queue \/ dirty',
         next # None => queue' # <<>> /\ next = HeadVideo(queue'),
         UNCHANGED <<waiting, heal, api, iframe, retry, poll>>,
         trouble' \in 0 .. MaxTrouble
  PROVE  ScreenInv'
<1>1. /\ escalation' \in 0 .. 4 /\ armed' \in BOOLEAN
      /\ CallsTyped(call')
  BY StallIsTyped, CallIsTyped DEF Continue, ScreenInv
<1>2. skipping' \in BOOLEAN
  BY Zenon DEF Continue, ScreenInv, TypeOK
<1>3. CASE next # None /\ iframe # "none"
  <2>1. current' = next /\ Load(next) /\ next \in Videos
    BY <1>3 DEF Continue
  <2>2. video' = next /\ play' \in {"idle", "loading", "playing", "frozen", "ended", "failed"}
    BY <2>1, LoadIsTyped
  <2>3. PlayerSound'
    BY <1>3, <2>1, <2>2, PlayerLoaded DEF HeadVideo
  <2> QED
    BY <1>1, <1>2, <2>1, <2>2, <2>3, ContinueTypes, ReloadsGoOn DEF ScreenInv, heal
<1>4. CASE ~(next # None /\ iframe # "none")
  <2>1. current' \in {None, current} /\ UNCHANGED <<play, video>>
    BY <1>4 DEF Continue
  <2>2. PlayerSound'
    BY <2>1 DEF ScreenInv, PlayerSound, PlaysWhatItShows, HeadVideo
  <2> QED
    BY <1>1, <1>2, <2>1, <2>2, ContinueTypes, ReloadsGoOn DEF ScreenInv, TypeOK, heal
<1> QED
  BY <1>3, <1>4

\* Each step of an advance: the request, its refusal or loss, and the read that follows.
LEMMA AdvanceIsSound ==
  ASSUME ScreenInv, NEW c \in Callers, Advance(c)
  PROVE  ScreenInv'
<1>1. TypeOK /\ line \in Seq(Entries) /\ queue \in Seq(Entries) /\ dirty \in BOOLEAN
  BY DEF ScreenInv, TypeOK
<1>2. (IF line = <<>> THEN line ELSE Tail(line)) \in Seq(Entries)
  BY <1>1
<1>3. CASE PostAccepted(c)
  <2>1. /\ UNCHANGED <<waiting, token, api, queue, dirty, player, current, watch, skipping, retry, poll, trouble>>
        /\ marker' = "none" /\ storm' = 0 /\ line' \in Seq(Entries)
    BY <1>2, <1>3 DEF PostAccepted
  <2>2. storm' \in 0 .. MaxTrouble + 1
    BY <2>1, TvScreenAssumption
  <2>3. CallsTyped(call')
    BY <1>1, <1>3, CallIsTyped DEF PostAccepted
  <2>4. TypeOK'
    BY <1>1, <2>1, <2>2, <2>3 DEF TypeOK, CallsTyped, player, watch
  <2>5. PlayerSound'
    BY <2>1, PlayerGoesOn DEF ScreenInv, player
  <2> QED
    BY <2>1, <2>4, <2>5, ReloadsGoOn DEF ScreenInv
<1>4. CASE PostLimited(c)
  <2>1. UNCHANGED <<server, heal, api, queue, dirty, player, current, watch, skipping, retry, poll>>
    BY <1>4 DEF PostLimited
  <2>2. CallsTyped(call') /\ trouble' \in 0 .. MaxTrouble
    BY <1>1, <1>4, CallIsTyped, TroubleIsBounded DEF PostLimited
  <2>3. TypeOK'
    BY <1>1, <2>1, <2>2, PlayerTypes DEF TypeOK, player, watch
  <2>4. PlayerSound'
    BY <2>1, PlayerGoesOn DEF ScreenInv, player
  <2> QED
    BY <2>1, <2>3, <2>4, ReloadsGoOn DEF ScreenInv, heal
<1>5. CASE PostRejected(c)
  <2>1. CASE MayReload(TRUE)
    BY <1>5, <2>1, ReloadIsSound DEF PostRejected, MayReload
  <2>2. CASE ~MayReload(TRUE)
    BY <1>1, <1>5, <2>2, ContinueIsSound DEF PostRejected, server, TypeOK
  <2> QED
    BY <2>1, <2>2
<1>6. CASE PostLost(c)
  <2>1. Continue(c, None) /\ UNCHANGED <<waiting, heal, api, queue, dirty, iframe, retry, poll>>
    BY <1>6 DEF PostLost
  <2>2. line' \in Seq(Entries) /\ trouble' \in 0 .. MaxTrouble
    BY <1>1, <1>2, <1>6, TroubleIsBounded DEF PostLost
  <2> QED
    BY <1>1, <2>1, <2>2, ContinueIsSound
<1>7. CASE ReadBack(c)
  <2>1. /\ queue' = line /\ dirty' = (dirty \/ line # queue) /\ Continue(c, HeadVideo(line))
        /\ UNCHANGED <<server, heal, api, iframe, retry, poll, trouble>>
    BY <1>7 DEF ReadBack, SetQueue
  <2>2. dirty' \in BOOLEAN /\ (dirty => dirty') /\ (queue' = queue \/ dirty')
    BY <2>1
  <2>3. HeadVideo(line) \in Videos \cup {None} /\ (HeadVideo(line) # None => line # <<>>)
    BY <1>1, VideoOfHead DEF HeadVideo
  <2>4. HeadVideo(line) = HeadVideo(queue')
    BY <2>1
  <2> QED
    BY <1>1, <2>1, <2>2, <2>3, <2>4, ContinueIsSound DEF server, TypeOK
<1>8. CASE ReadLost(c)
  <2>1. Continue(c, None) /\ UNCHANGED <<server, heal, api, queue, dirty, iframe, retry, poll>>
    BY <1>8 DEF ReadLost
  <2>2. trouble' \in 0 .. MaxTrouble
    BY <1>1, <1>8, TroubleIsBounded DEF ReadLost
  <2> QED
    BY <1>1, <2>1, <2>2, ContinueIsSound DEF server
<1> QED
  BY <1>3, <1>4, <1>5, <1>6, <1>7, <1>8 DEF Advance

LEMMA PressSkipIsSound ==
  ASSUME ScreenInv, PressSkip
  PROVE  ScreenInv'
<1>1. CASE token = "dead"
  BY <1>1, ReloadIsSound DEF PressSkip, MayReload
<1>2. CASE token # "dead"
  <2>1. /\ UNCHANGED <<waiting, token, api, queue, dirty, player, current, watch, skipping, retry, call, trouble>>
        /\ marker' = "none" /\ storm' = 0 /\ poll' = line'
        /\ line' = IF line = <<>> THEN line ELSE Tail(line)
    BY <1>2 DEF PressSkip
  <2>2. storm' \in 0 .. MaxTrouble + 1
    BY <2>1, TvScreenAssumption
  <2>3. line' \in Seq(Entries)
    BY <2>1 DEF ScreenInv, TypeOK
  <2>4. TypeOK'
    BY <2>1, <2>2, <2>3 DEF ScreenInv, TypeOK, player, watch
  <2>5. PlayerSound'
    BY <2>1, PlayerGoesOn DEF ScreenInv, player
  <2> QED
    BY <2>1, <2>4, <2>5, ReloadsGoOn DEF ScreenInv
<1> QED
  BY <1>1, <1>2

LEMMA NextIsSound == ScreenInv /\ [Next]_vars => ScreenInv'
<1> SUFFICES ASSUME ScreenInv, [Next]_vars PROVE ScreenInv'
  OBVIOUS
<1>1. CASE ServerSteps
  BY <1>1, ServerStepsAreSound
<1>2. CASE DebounceRunsOut \/ SelfHealCheck \/ ApiReady \/ RetryTimer \/ PollArrives
  BY <1>2, PageStepsAreSound
<1>3. CASE PlayerEffect
  BY <1>3, EffectIsSound
<1>4. CASE Starts \/ Freezes \/ Breaks \/ Ends \/ PlayerError
  BY <1>4, PlayerStepsAreSound
<1>5. CASE Tick
  BY <1>5, TickIsSound
<1>6. CASE Network
  BY <1>6, AdvanceIsSound DEF Network
<1>7. CASE PressSkip
  BY <1>7, PressSkipIsSound
<1>8. CASE UNCHANGED vars
  <2>1. UNCHANGED <<server, heal, api, queue, dirty, player, current, watch, skipping, retry, poll, call, trouble>>
    BY <1>8 DEF vars
  <2>2. TypeOK'
    BY <2>1, PlayerTypes DEF ScreenInv, TypeOK, player, watch, CallsTyped
  <2>3. PlayerSound' /\ ReloadsSound'
    BY <2>1, PlayerGoesOn, ReloadsGoOn DEF ScreenInv, player, heal
  <2> QED
    BY <2>2, <2>3 DEF ScreenInv
<1> QED
  BY <1>1, <1>2, <1>3, <1>4, <1>5, <1>6, <1>7, <1>8 DEF Next, ServerSteps

\* The strengthening, for any entries and videos and any number of faults.
THEOREM ScreenInvariance == Spec => []ScreenInv
<1>1. Init => ScreenInv
  BY InitIsSound
<1>2. ScreenInv /\ [Next]_vars => ScreenInv'
  BY NextIsSound
<1> QED
  BY <1>1, <1>2, PTL DEF Spec

\* The screen names the singer whose video it plays, whatever the polls, the
\* watchdog, the advances and the reloads went through (TvScreen.tsx:467).
THEOREM WhatPlaysIsShown == Spec => []PlaysWhatItShows
<1>1. ScreenInv => PlaysWhatItShows
  BY DEF ScreenInv, PlayerSound
<1> QED
  BY <1>1, ScreenInvariance, PTL

\* A reload over the age of the token finds an empty queue shown, which plays nothing.
LEMMA IdleReloads ==
  ASSUME ScreenInv, [Next]_vars, marker' = "recent", storm' = storm + 1, token = "old"
  PROVE  play # "playing"
<1>1. storm' # storm
  BY DEF ScreenInv, TypeOK
<1>2. SelfHealCheck \/ (PressSkip /\ token = "dead") \/ (\E c \in Callers : PostRejected(c)) \/ marker' = "none" \/ storm' = 0
  BY <1>1 DEF Next, vars, heal, Submit, AdvancedElsewhere, TokenAges, DebounceRunsOut, Inject, ApiReady,
    ScriptFails, RetryInject, Poll, PollArrives, PollLost, PlayerEffect, RetryTimer, Starts, Freezes,
    Breaks, Ends, PlayerError, Tick, Network, Advance, PostAccepted, PostLimited, PostLost, ReadBack,
    ReadLost, PressSkip
<1>3. SelfHealCheck
  BY <1>1, <1>2 DEF PostRejected, ScreenInv, TypeOK
<1>4. ~dirty /\ queue = <<>>
  BY <1>3 DEF SelfHealCheck, MayReload
<1> QED
  BY <1>4 DEF ScreenInv, PlayerSound, PlaysWhatItShows

\* Nobody need stand at the screen, and nobody is cut off by that: reloads are a
\* debounce or an accepted advance apart, and one over the token's age never cuts into
\* a song (self-heal.ts:101).
THEOREM ReloadsAreHarmless == Spec => ReloadsHurtNobody
<1>1. ScreenInv => ReloadsAreSpaced
  BY DEF ScreenInv, ReloadsSound
<1>2. ScreenInv /\ [Next]_vars =>
        [marker' = "recent" /\ storm' = storm + 1 /\ token = "old" => play # "playing"]_vars
  BY IdleReloads
<1> QED
  BY <1>1, <1>2, ScreenInvariance, PTL DEF Spec, ReloadsHurtNobody, IdleReloadsCutNobodyOff

-----------------------------------------------------------------------------
(* What is drawn around the video: the fullscreen elements, of which the    *)
(* player is the top one only until the event about it is heard.            *)

Stacks == {<<>>, <<"page">>, <<"player">>, <<"page", "player">>}

FullscreenSound ==
  /\ full \in Stacks /\ changed \in BOOLEAN /\ isFullscreen \in BOOLEAN
  /\ ~changed => full \in {<<>>, <<"page">>} /\ (isFullscreen <=> full # <<>>)

LEMMA TopOfStack ==
  ASSUME full \in Stacks
  PROVE  /\ Overlay!TopIs("player") <=> full \in {<<"player">>, <<"page", "player">>}
         /\ Overlay!TopIs("page") <=> full = <<"page">>
BY DEF Stacks, Overlay!TopIs, Overlay!Last

LEMMA StackShrinks ==
  ASSUME full \in Stacks, Overlay!TopIs("player"), Overlay!ExitFullscreen
  PROVE  full' \in {<<>>, <<"page">>} /\ changed'
<1>1. CASE full = <<"player">>
  BY <1>1 DEF Overlay!ExitFullscreen, Overlay!Front
<1>2. CASE full = <<"page", "player">>
  <2>1. full' = SubSeq(full, 1, 1) /\ changed'
    BY <1>2 DEF Overlay!ExitFullscreen, Overlay!Front
  <2>2. full \in Seq({"page", "player"}) /\ Len(full) = 2 /\ full[1] = "page"
    BY <1>2
  <2>3. /\ full' \in Seq({"page", "player"}) /\ Len(full') = 1 /\ full'[1] = full[1]
    BY <2>1, <2>2, SubSeqProperties
  <2>4. full' = <<"page">>
    BY <2>2, <2>3
  <2> QED
    BY <2>1, <2>4
<1> QED
  BY <1>1, <1>2, TopOfStack

LEMMA StackGrows ==
  ASSUME full \in Stacks, ~Overlay!TopIs("player"), full' = Append(full, "player")
  PROVE  full' \in Stacks
<1>1. full \in {<<>>, <<"page">>}
  BY TopOfStack DEF Stacks
<1>2. /\ full \in Seq({"page", "player"}) /\ Len(full) \in {0, 1}
      /\ Len(full) = 1 => full[1] = "page"
  <2>1. CASE full = <<>>
    BY <2>1
  <2>2. CASE full = <<"page">>
    BY <2>2
  <2> QED
    BY <1>1, <2>1, <2>2
<1>3. /\ full' \in Seq({"page", "player"}) /\ Len(full') = Len(full) + 1
      /\ full'[Len(full) + 1] = "player" /\ (Len(full) = 1 => full'[1] = "page")
  BY <1>2
<1>4. CASE Len(full) = 0
  <2>1. full' = <<"player">>
    BY <1>3, <1>4
  <2> QED
    BY <2>1 DEF Stacks
<1>5. CASE Len(full) = 1
  <2> DEFINE both == <<"page", "player">>
  <2>1. both \in Seq({"page", "player"}) /\ Len(both) = 2 /\ both[1] = "page" /\ both[2] = "player"
    OBVIOUS
  <2>2. Len(full') = 2 /\ full'[1] = "page" /\ full'[2] = "player"
    BY <1>3, <1>5
  <2>3. \A i \in 1 .. Len(full') : full'[i] = both[i]
    BY <2>1, <2>2
  <2>4. full' = both
    BY <1>3, <2>1, <2>2, <2>3, SeqEqual
  <2> QED
    BY <2>4 DEF Stacks
<1> QED
  BY <1>2, <1>4, <1>5

LEMMA FullscreenStaysSound ==
  ASSUME FullscreenSound, [Overlay!Next]_Overlay!vars
  PROVE  FullscreenSound'
<1>1. ASSUME UNCHANGED <<full, changed, isFullscreen>>
      PROVE  FullscreenSound'
  BY <1>1 DEF FullscreenSound
<1>2. ASSUME full' \in Stacks, changed' = TRUE, isFullscreen' \in BOOLEAN
      PROVE  FullscreenSound'
  BY <1>2 DEF FullscreenSound
<1>3. full \in Stacks /\ isFullscreen \in BOOLEAN /\ (Overlay!ExitFullscreen => changed' = TRUE)
  BY DEF FullscreenSound, Overlay!ExitFullscreen
<1>4. ASSUME Overlay!TopIs("player"), Overlay!ExitFullscreen
      PROVE  full' \in Stacks
  BY <1>3, <1>4, StackShrinks DEF Stacks
<1>5. CASE Overlay!ReadQueue
  <2>1. /\ isFullscreen' = isFullscreen
        /\ UNCHANGED <<full, changed>> \/ (Overlay!TopIs("player") /\ Overlay!ExitFullscreen)
    BY <1>5 DEF Overlay!ReadQueue
  <2> QED
    BY <1>1, <1>2, <1>3, <1>4, <2>1
<1>6. CASE Overlay!PressF
  <2>1. /\ isFullscreen' = isFullscreen
        /\ UNCHANGED <<full, changed>> \/ (full' = <<"page">> /\ changed' = TRUE)
    BY <1>6 DEF Overlay!PressF
  <2> QED
    BY <1>1, <1>2, <1>3, <2>1 DEF Stacks
<1>7. CASE Overlay!PlayerTakesF
  <2>1. isFullscreen' = isFullscreen
    BY <1>7 DEF Overlay!PlayerTakesF
  <2>2. CASE Overlay!TopIs("player")
    BY <1>2, <1>3, <1>4, <1>7, <2>1, <2>2 DEF Overlay!PlayerTakesF
  <2>3. CASE ~Overlay!TopIs("player")
    BY <1>2, <1>3, <1>7, <2>1, <2>3, StackGrows DEF Overlay!PlayerTakesF
  <2> QED
    BY <2>2, <2>3
<1>8. CASE Overlay!Escape
  BY <1>2, <1>3, <1>8 DEF Overlay!Escape, Stacks
<1>9. CASE Overlay!FullscreenChange
  <2>1. CASE Overlay!TopIs("player")
    BY <1>2, <1>3, <1>4, <1>9, <2>1 DEF Overlay!FullscreenChange
  <2>2. CASE ~Overlay!TopIs("player")
    <3>1. /\ changed' = FALSE /\ full' = full /\ isFullscreen' = (full # <<>>)
      BY <1>9, <2>2 DEF Overlay!FullscreenChange
    <3>2. full \in {<<>>, <<"page">>}
      BY <1>3, <2>2, TopOfStack DEF Stacks
    <3> QED
      BY <1>3, <3>1, <3>2 DEF FullscreenSound
  <2> QED
    BY <2>1, <2>2
<1>10. CASE Overlay!Poke \/ Overlay!ClickPlayer \/ Overlay!PeekTimer \/ Overlay!Tick \/ UNCHANGED Overlay!vars
  BY <1>1, <1>10 DEF Overlay!Poke, Overlay!ClickPlayer, Overlay!PeekTimer, Overlay!Tick, Overlay!vars,
    Overlay!screen
<1> QED
  BY <1>5, <1>6, <1>7, <1>8, <1>9, <1>10 DEF Overlay!Next

-----------------------------------------------------------------------------
(* The cards peek while the cycle runs, which is while its timer is armed.  *)
(* Until the cycle has run for its lead-in they are hidden, and the timer   *)
(* that brings them out is not due before the lead-in is over.              *)

Lead == QUEUE_PEEK_LEAD_IN

CycleTypes ==
  /\ chrome \in Nat /\ cards \in Nat /\ queuePeek \in BOOLEAN
  /\ timer \in [on : BOOLEAN, shows : BOOLEAN, left : Int]
  /\ calm \in 0 .. Lead

CycleSound ==
  /\ timer.on <=> Overlay!Running
  /\ queuePeek => Overlay!Running
  /\ Overlay!Running /\ calm < Lead => ~queuePeek /\ timer.shows /\ timer.left + calm >= Lead

CycleInv == CycleTypes /\ CycleSound

\* What the timer is armed with.
LEMMA StepIsTyped ==
  ASSUME NEW visible \in BOOLEAN, NEW once \in BOOLEAN
  PROVE  /\ Overlay!nextQueuePeekStep(visible, once) \in [on : BOOLEAN, shows : BOOLEAN, left : Int]
         /\ Overlay!nextQueuePeekStep(visible, once).on
<1>1. Lead \in Nat /\ QUEUE_PEEK_PERIOD \in Nat /\ QUEUE_PEEK_VISIBLE \in Nat
  BY OverlayAssumption DEF Overlay!TvOverlayAssumption, Lead
<1>2. Overlay!clampVisible(QUEUE_PEEK_VISIBLE, QUEUE_PEEK_PERIOD) \in Int
  BY <1>1 DEF Overlay!clampVisible
<1>3. CASE visible = TRUE
  BY <1>1, <1>2, <1>3 DEF Overlay!nextQueuePeekStep, Lead
<1>4. CASE visible = FALSE
  BY <1>1, <1>2, <1>4 DEF Overlay!nextQueuePeekStep, Lead
<1> QED
  BY <1>3, <1>4

LEMMA FirstStep ==
  LET s == Overlay!nextQueuePeekStep(FALSE, TRUE) IN s.shows /\ s.left = Lead
BY DEF Overlay!nextQueuePeekStep, Lead

\* The effect of a change: the cycle goes on, or starts anew at its lead-in, or ends.
LEMMA PeekEffectIsSound ==
  ASSUME CycleInv, NEW ticks \in {0, 1}, ticks = 1 => ~(timer.on /\ timer.left = 0),
         Overlay!PeekEffect(ticks), chrome' \in Nat, cards' \in Nat
  PROVE  CycleInv'
<1>1. Lead \in Nat \ {0}
  BY OverlayAssumption DEF Overlay!TvOverlayAssumption, Lead
<1>2. calm' = IF ~(Overlay!Running /\ Overlay!Running') THEN 0
              ELSE IF calm + ticks < Lead THEN calm + ticks ELSE Lead
  BY DEF Overlay!PeekEffect, Overlay!Watched, Overlay!Lasted, Lead
<1>3. calm' \in 0 .. Lead
  BY <1>1, <1>2 DEF CycleInv, CycleTypes
<1>4. CASE Overlay!SameCycle
  <2>1. Overlay!Running' <=> Overlay!Running
    BY <1>4 DEF Overlay!SameCycle, Overlay!Running, Overlay!shouldRunQueuePeek, Overlay!focusModeActive
  <2>2. /\ queuePeek' = queuePeek
        /\ timer' = [timer EXCEPT !.left = IF timer.on THEN @ - ticks ELSE 0]
    BY <1>4 DEF Overlay!PeekEffect, Overlay!GoesOn
  <2>3. /\ timer' \in [on : BOOLEAN, shows : BOOLEAN, left : Int]
        /\ timer'.on = timer.on /\ timer'.shows = timer.shows
        /\ timer.on => timer'.left = timer.left - ticks
    BY <2>2 DEF CycleInv, CycleTypes
  <2>4. CycleTypes'
    BY <1>3, <2>2, <2>3 DEF CycleInv, CycleTypes
  <2>5. ASSUME Overlay!Running', calm' < Lead
        PROVE  ~queuePeek' /\ timer'.shows /\ timer'.left + calm' >= Lead
    <3>1. calm < Lead /\ calm' = calm + ticks
      BY <1>1, <1>2, <2>1, <2>5 DEF CycleInv, CycleTypes
    <3>2. ~queuePeek /\ timer.shows /\ timer.on /\ timer.left + calm >= Lead
      BY <2>1, <2>5, <3>1 DEF CycleInv, CycleSound
    <3>3. timer'.left + calm' >= Lead
      BY <1>1, <2>3, <3>1, <3>2 DEF CycleInv, CycleTypes
    <3> QED
      BY <2>2, <2>3, <3>2, <3>3
  <2>6. CycleSound'
    BY <2>1, <2>2, <2>3, <2>5 DEF CycleInv, CycleSound
  <2> QED
    BY <2>4, <2>6 DEF CycleInv
<1>5. CASE ~Overlay!SameCycle /\ Overlay!Running'
  <2>1. queuePeek' = queuePeek /\ timer' = Overlay!nextQueuePeekStep(FALSE, TRUE)
    BY <1>5 DEF Overlay!PeekEffect
  <2>2. /\ timer' \in [on : BOOLEAN, shows : BOOLEAN, left : Int]
        /\ timer'.on /\ timer'.shows /\ timer'.left = Lead
    BY <2>1, StepIsTyped, FirstStep
  <2>3. CycleTypes'
    BY <1>3, <2>1, <2>2 DEF CycleInv, CycleTypes
  <2>4. calm' < Lead => ~queuePeek
    <3>1. CASE Overlay!Running
      BY <1>1, <1>2, <1>5, <3>1 DEF CycleInv, CycleTypes, CycleSound
    <3>2. CASE ~Overlay!Running
      BY <3>2 DEF CycleInv, CycleSound
    <3> QED
      BY <3>1, <3>2
  <2>5. timer'.left + calm' >= Lead
    <3>1. calm' \in Nat
      BY <1>1, <1>3
    <3>2. \A m \in Nat, n \in Nat : m + n >= m
      OBVIOUS
    <3>3. Lead \in Nat
      BY <1>1
    <3>4. Lead + calm' >= Lead
      BY <3>1, <3>2, <3>3, Zenon
    <3> QED
      BY <2>2, <3>4, Zenon
  <2>6. CycleSound'
    BY <1>5, <2>1, <2>2, <2>4, <2>5 DEF CycleSound
  <2> QED
    BY <2>3, <2>6 DEF CycleInv
<1>6. CASE ~Overlay!SameCycle /\ ~Overlay!Running'
  <2>1. queuePeek' = FALSE /\ timer' = Overlay!Off
    BY <1>6 DEF Overlay!PeekEffect
  <2>2. timer' \in [on : BOOLEAN, shows : BOOLEAN, left : Int] /\ ~timer'.on
    BY <2>1 DEF Overlay!Off
  <2>3. CycleTypes'
    BY <1>3, <2>1, <2>2 DEF CycleTypes
  <2>4. CycleSound'
    BY <1>6, <2>1, <2>2 DEF CycleSound
  <2> QED
    BY <2>3, <2>4 DEF CycleInv
<1> QED
  BY <1>4, <1>5, <1>6

\* The timer itself: it shows the cards once the lead-in is over, and hides them again.
LEMMA PeekTimerIsSound ==
  ASSUME CycleInv, Overlay!PeekTimer
  PROVE  CycleInv'
<1>1. /\ timer.on /\ timer.left = 0 /\ queuePeek' = timer.shows
      /\ timer' = Overlay!nextQueuePeekStep(timer.shows, FALSE)
      /\ UNCHANGED <<chrome, stage, cards, calm>>
  BY DEF Overlay!PeekTimer, Overlay!idle
<1>2. Overlay!Running' <=> Overlay!Running
  BY <1>1 DEF Overlay!Running, Overlay!shouldRunQueuePeek, Overlay!focusModeActive
<1>3. timer.shows \in BOOLEAN
  BY DEF CycleInv, CycleTypes
<1>4. timer' \in [on : BOOLEAN, shows : BOOLEAN, left : Int] /\ timer'.on
  BY <1>1, <1>3, StepIsTyped
<1>5. CycleTypes'
  BY <1>1, <1>3, <1>4 DEF CycleInv, CycleTypes
<1>6. Overlay!Running /\ ~(calm < Lead)
  <2>1. Lead \in Nat \ {0}
    BY OverlayAssumption DEF Overlay!TvOverlayAssumption, Lead
  <2> QED
    BY <1>1, <2>1 DEF CycleInv, CycleTypes, CycleSound
<1>7. CycleSound'
  BY <1>1, <1>2, <1>4, <1>6 DEF CycleSound
<1> QED
  BY <1>5, <1>7 DEF CycleInv

LEMMA InitIsCalm == Overlay!Init => FullscreenSound /\ CycleInv
<1> SUFFICES ASSUME Overlay!Init PROVE FullscreenSound /\ CycleInv
  OBVIOUS
<1>1. FullscreenSound
  BY DEF Overlay!Init, FullscreenSound, Stacks
<1>2. CHROME_HIDE \in Nat \ {0} /\ Lead \in Nat
  BY OverlayAssumption DEF Overlay!TvOverlayAssumption, Lead
<1>3. ~Overlay!Running
  BY <1>2 DEF Overlay!Init, Overlay!Running, Overlay!shouldRunQueuePeek, Overlay!focusModeActive
<1>4. CycleTypes
  <2>1. chrome \in Nat /\ cards \in Nat /\ calm \in 0 .. Lead
    BY <1>2 DEF Overlay!Init
  <2>2. queuePeek \in BOOLEAN
    BY Zenon DEF Overlay!Init
  <2>3. timer = [on |-> FALSE, shows |-> FALSE, left |-> 0]
    BY DEF Overlay!Init, Overlay!Off
  <2>4. timer \in [on : BOOLEAN, shows : BOOLEAN, left : Int]
    BY <2>3
  <2> QED
    BY <2>1, <2>2, <2>4 DEF CycleTypes
<1>5. CycleSound
  BY <1>3 DEF Overlay!Init, Overlay!Off, CycleSound
<1> QED
  BY <1>1, <1>4, <1>5 DEF CycleInv

LEMMA CycleStaysSound ==
  ASSUME CycleInv, [Overlay!Next]_Overlay!vars
  PROVE  CycleInv'
<1>1. CHROME_HIDE \in Nat /\ MaxCards \in Nat /\ chrome \in Nat /\ cards \in Nat
  BY OverlayAssumption DEF Overlay!TvOverlayAssumption, CycleInv, CycleTypes
<1>2. CASE Overlay!ReadQueue
  <2>1. chrome' = chrome /\ cards' \in Nat /\ Overlay!PeekEffect(0)
    BY <1>1, <1>2 DEF Overlay!ReadQueue
  <2> QED
    BY <1>1, <2>1, PeekEffectIsSound
<1>3. CASE Overlay!Poke \/ Overlay!ClickPlayer \/ Overlay!PressF
  <2>1. Overlay!pokeChrome
    BY <1>3 DEF Overlay!Poke, Overlay!ClickPlayer, Overlay!PressF
  <2> QED
    BY <1>1, <2>1, PeekEffectIsSound DEF Overlay!pokeChrome
<1>4. CASE Overlay!PeekTimer
  BY <1>4, PeekTimerIsSound
<1>5. CASE Overlay!Tick
  <2>1. /\ ~(timer.on /\ timer.left = 0) /\ cards' = cards /\ Overlay!PeekEffect(1)
        /\ chrome' = IF chrome > 0 THEN chrome - 1 ELSE 0
    BY <1>5 DEF Overlay!Tick
  <2>2. chrome' \in Nat
    BY <1>1, <2>1
  <2> QED
    BY <1>1, <2>1, <2>2, PeekEffectIsSound
<1>6. CASE Overlay!PlayerTakesF \/ Overlay!Escape \/ Overlay!FullscreenChange \/ UNCHANGED Overlay!vars
  <2>1. UNCHANGED <<chrome, stage, cards, queuePeek, timer, calm>>
    BY <1>6 DEF Overlay!PlayerTakesF, Overlay!Escape, Overlay!FullscreenChange, Overlay!vars,
      Overlay!idle, Overlay!cycle, Overlay!history
  <2> QED
    BY <2>1 DEF CycleInv, CycleTypes, CycleSound, Overlay!Running, Overlay!shouldRunQueuePeek,
      Overlay!focusModeActive
<1> QED
  BY <1>2, <1>3, <1>4, <1>5, <1>6 DEF Overlay!Next

-----------------------------------------------------------------------------
(* The overlay beside the rest of the screen.                               *)

\* Whatever the queue, the remote, the timers and the browser do, in any order, the
\* cards come out on purpose and go away again, and no player keeps the fullscreen
\* (TvScreen.tsx:924).
THEOREM ScreenIsCalm == ScreensSpec => []OverlayIsCalm
<1>1. ScreensInit => FullscreenSound /\ CycleInv
  BY InitIsCalm DEF ScreensInit
<1>2. FullscreenSound /\ CycleInv /\ [ScreensNext]_screensVars =>
        (FullscreenSound /\ CycleInv)'
  <2> SUFFICES ASSUME FullscreenSound, CycleInv, [ScreensNext]_screensVars
               PROVE  (FullscreenSound /\ CycleInv)'
    OBVIOUS
  <2>1. [Overlay!Next]_Overlay!vars
    BY DEF ScreensNext, Playing, Drawing, Picking, Hosting, Entering, LookingUp, Typing, Guessing,
       screensVars,
      overlayVars, Overlay!vars, Overlay!idle, Overlay!cycle, Overlay!mic, Overlay!screen,
      Overlay!history
  <2> QED
    BY <2>1, FullscreenStaysSound, CycleStaysSound
<1>3. FullscreenSound /\ CycleInv => OverlayIsCalm
  <2> SUFFICES ASSUME FullscreenSound, CycleInv
               PROVE  Overlay!PeeksOnPurpose /\ Overlay!FullscreenIsOurs
    BY DEF OverlayIsCalm
  <2>1. Overlay!OnScreen => calm = Lead /\ cards > 0 /\ timer.on
    <3>1. Lead \in Nat
      BY OverlayAssumption DEF Overlay!TvOverlayAssumption, Lead
    <3>2. Overlay!OnScreen => queuePeek /\ Overlay!Running
      BY DEF Overlay!OnScreen, CycleInv, CycleSound
    <3> QED
      BY <3>1, <3>2 DEF CycleInv, CycleTypes, CycleSound, Overlay!Running, Overlay!shouldRunQueuePeek
  <2>2. ~changed => ~Overlay!TopIs("player") /\ (isFullscreen <=> Overlay!TopIs("page"))
    BY TopOfStack DEF FullscreenSound
  <2>3. ~changed => isFullscreen = Overlay!TopIs("page")
    BY <2>2, Zenon DEF FullscreenSound, Overlay!TopIs
  <2> QED
    BY <2>1, <2>2, <2>3 DEF Overlay!PeeksOnPurpose, Overlay!FullscreenIsOurs, Lead
<1> QED
  BY <1>1, <1>2, <1>3, PTL DEF ScreensSpec
-----------------------------------------------------------------------------
(* The lookups: what makes the bound on staleness inductive is how an       *)
(* answer's age and the rest of its lifetime add up in each place: to one   *)
(* lifetime in Redis, to two in an instance, which starts a new one on a    *)
(* hit.                                                                     *)

\* The type of each variable.
Values == Statuses \cup {"none", "title", "missing"}
Answers == [value : Values, left : Nat, age : Nat]
Places == Instances \cup {Lookup!Idle.inst}
Lookups == [pc : {"idle", "read", "resolve", "oembed", "storeStatus", "storeTitle", "done"},
            inst : Places, wants : SUBSET (Lookup!Caches \cup {"title", "none"}),
            ec : Answers, vm : Answers, preview : BOOLEAN]

LookupTypes ==
  /\ l1 \in [Instances -> [Lookup!Caches -> Answers]]
  /\ redis \in [Lookup!Caches -> Answers]
  /\ req \in [Requests -> Lookups]

OneLife(e) == e.age + e.left <= Lookup!ttlFor(e.value)
TwoLives(e) == e.age + e.left <= 2 * Lookup!ttlFor(e.value)
Served(e) == e.age < 2 * Lookup!ttlFor(e.value)

Lifetimes ==
  /\ \A c \in Lookup!Caches : OneLife(redis[c])
  /\ \A i \in Instances, c \in Lookup!Caches : TwoLives(l1[i][c])
  /\ \A r \in Requests :
       /\ req[r].pc # "idle" => req[r].inst \in Instances
       /\ Served(req[r].ec) /\ Served(req[r].vm)
       /\ req[r].pc = "storeStatus" => OneLife(req[r].ec)
       /\ req[r].pc = "storeTitle" => OneLife(req[r].vm)

LookupInv == LookupTypes /\ Lifetimes

\* A lifetime is a positive number; an entry just made, or none, lives once.
LEMMA EntryFacts ==
  /\ \A v : Lookup!ttlFor(v) \in Nat \ {0}
  /\ Lookup!Miss \in Answers /\ OneLife(Lookup!Miss) /\ Served(Lookup!Miss)
  /\ \A v \in Values :
       /\ Lookup!Entry(v, 0) \in Answers
       /\ OneLife(Lookup!Entry(v, 0)) /\ Served(Lookup!Entry(v, 0))
  /\ \A e \in Answers : OneLife(e) =>
       /\ Lookup!Entry(e.value, e.age) \in Answers /\ TwoLives(Lookup!Entry(e.value, e.age))
       /\ TwoLives(e) /\ Served(e)
<1>1. \A v : Lookup!ttlFor(v) \in Nat \ {0}
  BY LookupAssumption DEF Lookup!VideoLookupAssumption, Lookup!ttlFor
<1>2. Lookup!Miss \in Answers /\ OneLife(Lookup!Miss) /\ Served(Lookup!Miss)
  BY <1>1 DEF Lookup!Miss, Answers, Values, OneLife, Served
<1>3. ASSUME NEW v \in Values
      PROVE  /\ Lookup!Entry(v, 0) \in Answers
             /\ OneLife(Lookup!Entry(v, 0)) /\ Served(Lookup!Entry(v, 0))
  BY <1>1 DEF Lookup!Entry, Answers, OneLife, Served
<1>4. ASSUME NEW e \in Answers, OneLife(e)
      PROVE  /\ Lookup!Entry(e.value, e.age) \in Answers /\ TwoLives(Lookup!Entry(e.value, e.age))
             /\ TwoLives(e) /\ Served(e)
  <2>1. e.value \in Values /\ e.left \in Nat /\ e.age \in Nat /\ Lookup!ttlFor(e.value) \in Nat \ {0}
    BY <1>1 DEF Answers
  <2> QED
    BY <1>4, <2>1 DEF Lookup!Entry, Answers, OneLife, TwoLives, Served
<1> QED
  BY <1>1, <1>2, <1>3, <1>4

\* What an instance answers from its process has a life left of its two.
LEMMA HitFacts ==
  ASSUME LookupInv, NEW i \in Instances, NEW c \in Lookup!Caches
  PROVE  /\ Lookup!L1Get(i, c) \in Answers
         /\ TwoLives(Lookup!L1Get(i, c)) /\ Served(Lookup!L1Get(i, c))
<1>1. l1[i][c] \in Answers /\ TwoLives(l1[i][c])
  BY DEF LookupInv, LookupTypes, Lifetimes
<1>2. \A e \in Answers : TwoLives(e) /\ e.left # 0 => Served(e)
  BY EntryFacts DEF Answers, TwoLives, Served
<1>3. TwoLives(Lookup!Miss)
  BY EntryFacts
<1> QED
  BY <1>1, <1>2, <1>3, EntryFacts DEF Lookup!L1Get

\* One entry of one instance changes, and one request.
LEMMA L1Write ==
  ASSUME LookupInv, NEW i, NEW c \in Lookup!Caches, NEW e \in Answers, TwoLives(e),
         l1' = [l1 EXCEPT ![i][c] = e]
  PROVE  /\ l1' \in [Instances -> [Lookup!Caches -> Answers]]
         /\ \A j \in Instances, d \in Lookup!Caches : TwoLives(l1'[j][d])
BY DEF LookupInv, LookupTypes, Lifetimes

RequestIsSound(q) ==
  /\ q \in Lookups
  /\ q.pc # "idle" => q.inst \in Instances
  /\ Served(q.ec) /\ Served(q.vm)
  /\ q.pc = "storeStatus" => OneLife(q.ec)
  /\ q.pc = "storeTitle" => OneLife(q.vm)

\* One request moves to a sound state; the others stay sound.
LEMMA RequestWrite ==
  ASSUME LookupInv, NEW r \in Requests, NEW q, RequestIsSound(q), req' = [req EXCEPT ![r] = q]
  PROVE  /\ req' \in [Requests -> Lookups]
         /\ \A s \in Requests : RequestIsSound(req'[s])
BY DEF LookupInv, LookupTypes, Lifetimes, RequestIsSound

\* The invariant is made of the three parts.
LEMMA LookupParts ==
  ASSUME l1' \in [Instances -> [Lookup!Caches -> Answers]],
         \A i \in Instances, c \in Lookup!Caches : TwoLives(l1'[i][c]),
         redis' \in [Lookup!Caches -> Answers], \A c \in Lookup!Caches : OneLife(redis'[c]),
         req' \in [Requests -> Lookups], \A r \in Requests : RequestIsSound(req'[r])
  PROVE  LookupInv'
BY DEF LookupInv, LookupTypes, Lifetimes, RequestIsSound, OneLife, TwoLives, Served, Lookup!ttlFor

\* A step of one request that writes at most one entry of an instance's map and one of
\* Redis, each with what is left of its lifetime.
LEMMA RequestStep ==
  ASSUME LookupInv, NEW r \in Requests, NEW q, RequestIsSound(q), req' = [req EXCEPT ![r] = q],
         \/ UNCHANGED l1
         \/ \E i, c, e : /\ c \in Lookup!Caches /\ e \in Answers /\ TwoLives(e)
                         /\ l1' = [l1 EXCEPT ![i][c] = e],
         \/ UNCHANGED redis
         \/ \E c, e : /\ c \in Lookup!Caches /\ e \in Answers /\ OneLife(e)
                      /\ redis' \in {redis, [redis EXCEPT ![c] = e]}
  PROVE  LookupInv'
<1>1. /\ l1' \in [Instances -> [Lookup!Caches -> Answers]]
      /\ \A i \in Instances, c \in Lookup!Caches : TwoLives(l1'[i][c])
  BY L1Write DEF LookupInv, LookupTypes, Lifetimes
<1>2. redis' \in [Lookup!Caches -> Answers] /\ \A c \in Lookup!Caches : OneLife(redis'[c])
  BY DEF LookupInv, LookupTypes, Lifetimes
<1>3. req' \in [Requests -> Lookups] /\ \A s \in Requests : RequestIsSound(req'[s])
  BY RequestWrite
<1> QED
  BY <1>1, <1>2, <1>3, LookupParts

\* Every cache starts empty.
LEMMA InitIsFresh == Lookup!Init => LookupInv
<1> SUFFICES ASSUME Lookup!Init PROVE LookupInv
  OBVIOUS
<1>1. Lookup!Idle \in Lookups /\ RequestIsSound(Lookup!Idle) /\ TwoLives(Lookup!Miss)
  BY EntryFacts DEF Lookup!Idle, Lookups, Places, Lookup!Caches, RequestIsSound
<1> QED
  BY <1>1, EntryFacts DEF Lookup!Init, LookupInv, LookupTypes, Lifetimes, RequestIsSound

\* A request that goes on to Redis carries what its instance already answered.
LEMMA ReadingIsSound ==
  ASSUME NEW i \in Instances, NEW w \in SUBSET Lookup!Caches, NEW e \in Answers, NEW v \in Answers,
         Served(e), Served(v)
  PROVE  RequestIsSound([Lookup!Idle EXCEPT !.pc = "read", !.inst = i, !.wants = w, !.ec = e,
                                        !.vm = v])
<1> DEFINE q == [Lookup!Idle EXCEPT !.pc = "read", !.inst = i, !.wants = w, !.ec = e, !.vm = v]
<1>1. ASSUME NEW x \in Lookups
      PROVE  LET y == [x EXCEPT !.pc = "read", !.inst = i, !.wants = w, !.ec = e, !.vm = v]
             IN y \in Lookups /\ y.pc = "read" /\ y.inst = i /\ y.ec = e /\ y.vm = v
  BY DEF Lookups, Places
<1>2. Lookup!Idle \in Lookups
  BY EntryFacts DEF Lookup!Idle, Lookups, Places
<1>3. PICK x \in Lookups : x = Lookup!Idle
  BY <1>2
<1>4. q \in Lookups /\ q.pc = "read" /\ q.inst = i /\ q.ec = e /\ q.vm = v
  BY <1>1, <1>3, Zenon
<1> QED
  BY <1>4 DEF RequestIsSound

\* A submission consults the maps of the instance it reaches.
LEMMA SubmitStaysFresh ==
  ASSUME LookupInv, NEW r \in Requests, Lookup!Submit(r)
  PROVE  LookupInv'
<1>1. PICK i \in Instances :
        LET wanted == IF key THEN Lookup!Caches ELSE {"vm"}
            here == {c \in wanted : Lookup!Looked(i, c)}
        IN /\ req' = [req EXCEPT ![r] =
                [Lookup!Idle EXCEPT !.pc = "read", !.inst = i, !.wants = wanted \ here,
                             !.ec = IF "ec" \in here THEN Lookup!L1Get(i, "ec") ELSE Lookup!Miss,
                             !.vm = IF "vm" \in here THEN Lookup!L1Get(i, "vm") ELSE Lookup!Miss]]
           /\ l1' = [l1 EXCEPT ![i] =
                       [c \in Lookup!Caches |-> IF c \in wanted THEN Lookup!L1Get(i, c) ELSE @[c]]]
           /\ UNCHANGED redis
  BY Zenon DEF Lookup!Submit
<1> DEFINE wanted == IF key THEN Lookup!Caches ELSE {"vm"}
           here == {c \in wanted : Lookup!Looked(i, c)}
           q == [Lookup!Idle EXCEPT !.pc = "read", !.inst = i, !.wants = wanted \ here,
                             !.ec = IF "ec" \in here THEN Lookup!L1Get(i, "ec") ELSE Lookup!Miss,
                             !.vm = IF "vm" \in here THEN Lookup!L1Get(i, "vm") ELSE Lookup!Miss]
<1>2. \A c \in Lookup!Caches :
        /\ Lookup!L1Get(i, c) \in Answers
        /\ TwoLives(Lookup!L1Get(i, c)) /\ Served(Lookup!L1Get(i, c))
  BY HitFacts
<1>3. RequestIsSound(q)
  <2>1. "ec" \in Lookup!Caches /\ "vm" \in Lookup!Caches /\ wanted \ here \in SUBSET Lookup!Caches
    BY DEF Lookup!Caches
  <2>2. \A x \in {Lookup!L1Get(i, "ec"), Lookup!L1Get(i, "vm"), Lookup!Miss} : x \in Answers /\ Served(x)
    BY <1>2, <2>1, EntryFacts
  <2> HIDE DEF here, wanted
  <2>3. PICK e \in Answers :
          e = (IF "ec" \in here THEN Lookup!L1Get(i, "ec") ELSE Lookup!Miss) /\ Served(e)
    BY <2>2
  <2>4. PICK v \in Answers :
          v = (IF "vm" \in here THEN Lookup!L1Get(i, "vm") ELSE Lookup!Miss) /\ Served(v)
    BY <2>2
  <2>5. RequestIsSound([Lookup!Idle EXCEPT !.pc = "read", !.inst = i, !.wants = wanted \ here,
                                           !.ec = e, !.vm = v])
    BY <2>1, <2>3, <2>4, ReadingIsSound, Zenon
  <2> QED
    BY <2>3, <2>4, <2>5, Zenon
<1>4. req' \in [Requests -> Lookups] /\ \A s \in Requests : RequestIsSound(req'[s])
  <2>1. req' = [req EXCEPT ![r] = q]
    BY <1>1
  <2> HIDE DEF q
  <2> QED
    BY <1>3, <2>1, RequestWrite
<1>5. /\ l1' \in [Instances -> [Lookup!Caches -> Answers]]
      /\ \A j \in Instances, c \in Lookup!Caches : TwoLives(l1'[j][c])
  <2>1. \A c \in Lookup!Caches : l1'[i][c] \in {Lookup!L1Get(i, c), l1[i][c]}
    BY <1>1 DEF LookupInv, LookupTypes
  <2>2. /\ \A j \in Instances : j # i => l1'[j] = l1[j]
        /\ l1' \in [Instances -> [Lookup!Caches -> Answers]]
    BY <1>1, <1>2 DEF LookupInv, LookupTypes
  <2> QED
    BY <1>2, <2>1, <2>2 DEF LookupInv, LookupTypes, Lifetimes
<1>6. redis' \in [Lookup!Caches -> Answers] /\ \A c \in Lookup!Caches : OneLife(redis'[c])
  BY <1>1 DEF LookupInv, LookupTypes, Lifetimes
<1> QED
  BY <1>4, <1>5, <1>6, LookupParts

\* An hour passes: what ages by an hour has an hour less to live.
LEMMA TickStaysFresh ==
  ASSUME LookupInv, Lookup!Tick
  PROVE  LookupInv'
<1>1. \A e \in Answers : /\ Lookup!Older(e) \in Answers
                         /\ OneLife(e) => OneLife(Lookup!Older(e))
                         /\ TwoLives(e) => TwoLives(Lookup!Older(e))
  <2> SUFFICES ASSUME NEW e \in Answers
               PROVE  /\ Lookup!Older(e) \in Answers
                      /\ OneLife(e) => OneLife(Lookup!Older(e))
                      /\ TwoLives(e) => TwoLives(Lookup!Older(e))
    OBVIOUS
  <2>1. CASE e.left <= 1
    BY <2>1, EntryFacts DEF Lookup!Older
  <2>2. CASE ~(e.left <= 1)
    <3>1. Lookup!Older(e) = [value |-> e.value, left |-> e.left - 1, age |-> e.age + 1]
      BY <2>2 DEF Lookup!Older, Answers
    <3>2. e.value \in Values /\ e.left \in Nat /\ e.age \in Nat /\ Lookup!ttlFor(e.value) \in Nat
      BY EntryFacts DEF Answers
    <3> QED
      BY <2>2, <3>1, <3>2 DEF Answers, OneLife, TwoLives
  <2> QED
    BY <2>1, <2>2
<1>2. TwoLives(Lookup!Miss)
  BY EntryFacts
<1>3. /\ l1' \in [Instances -> [Lookup!Caches -> Answers]]
      /\ \A i \in Instances, c \in Lookup!Caches : TwoLives(l1'[i][c])
  BY <1>1 DEF Lookup!Tick, LookupInv, LookupTypes, Lifetimes
<1>4. redis' \in [Lookup!Caches -> Answers] /\ \A c \in Lookup!Caches : OneLife(redis'[c])
  BY <1>1 DEF Lookup!Tick, LookupInv, LookupTypes, Lifetimes
<1>5. req' \in [Requests -> Lookups] /\ \A r \in Requests : RequestIsSound(req'[r])
  BY DEF Lookup!Tick, LookupInv, LookupTypes, Lifetimes, RequestIsSound
<1> QED
  BY <1>3, <1>4, <1>5, LookupParts

\* An instance's map drops what it holds.
LEMMA EvictStaysFresh ==
  ASSUME LookupInv, NEW i \in Instances, Lookup!Evict(i)
  PROVE  LookupInv'
<1>1. PICK c \in Lookup!Caches : l1' = [l1 EXCEPT ![i][c] = Lookup!Miss]
  BY DEF Lookup!Evict
<1>2. /\ l1' \in [Instances -> [Lookup!Caches -> Answers]]
      /\ \A j \in Instances, d \in Lookup!Caches : TwoLives(l1'[j][d])
  BY <1>1, EntryFacts, L1Write
<1>3. redis' \in [Lookup!Caches -> Answers] /\ \A d \in Lookup!Caches : OneLife(redis'[d])
  BY DEF Lookup!Evict, LookupInv, LookupTypes, Lifetimes
<1>4. req' \in [Requests -> Lookups] /\ \A r \in Requests : RequestIsSound(req'[r])
  BY DEF Lookup!Evict, LookupInv, LookupTypes, Lifetimes, RequestIsSound
<1> QED
  BY <1>2, <1>3, <1>4, LookupParts

\* A request in any state is sound.
LEMMA RequestsAreSound == ASSUME LookupInv, NEW r \in Requests PROVE RequestIsSound(req[r])
BY DEF LookupInv, LookupTypes, Lifetimes, RequestIsSound

\* A hit in Redis starts a second lifetime in the instance: that is where the second one
\* comes from.
LEMMA ReadStaysFresh ==
  ASSUME LookupInv, NEW r \in Requests, NEW c \in Lookup!Caches, Lookup!Read(r, c)
  PROVE  LookupInv'
<1>1. RequestIsSound(req[r]) /\ req[r].pc = "read" /\ UNCHANGED redis
  BY RequestsAreSound DEF Lookup!Read
<1>2. CASE /\ Lookup!InL1(r, c, Lookup!Entry(redis[c].value, redis[c].age))
           /\ req' = [req EXCEPT ![r].wants = @ \ {c}, ![r][c] = redis[c]]
  <2>1. redis[c] \in Answers /\ OneLife(redis[c])
    BY DEF LookupInv, LookupTypes, Lifetimes
  <2>2. PICK e \in Answers :
          e = Lookup!Entry(redis[c].value, redis[c].age) /\ TwoLives(e) /\ Served(redis[c])
    BY <2>1, EntryFacts
  <2>3. l1' = [l1 EXCEPT ![req[r].inst][c] = e]
    BY <1>2, <2>2 DEF Lookup!InL1
  <2>4. CASE c = "ec"
    <3> DEFINE q == [req[r] EXCEPT !.wants = @ \ {"ec"}, !.ec = redis[c]]
    <3>1. /\ q \in Lookups /\ q.pc = "read" /\ q.ec = redis[c] /\ q.vm = req[r].vm
          /\ q.inst = req[r].inst
      BY <1>1, <2>1 DEF RequestIsSound, Lookups
    <3>2. RequestIsSound(q)
      BY <1>1, <2>2, <3>1 DEF RequestIsSound
    <3>3. req' = [req EXCEPT ![r] = q]
      BY <1>2, <2>4
    <3> HIDE DEF q
    <3> QED
      BY <1>1, <2>2, <2>3, <3>2, <3>3, RequestStep
  <2>5. CASE c = "vm"
    <3> DEFINE q == [req[r] EXCEPT !.wants = @ \ {"vm"}, !.vm = redis[c]]
    <3>1. /\ q \in Lookups /\ q.pc = "read" /\ q.vm = redis[c] /\ q.ec = req[r].ec
          /\ q.inst = req[r].inst
      BY <1>1, <2>1 DEF RequestIsSound, Lookups
    <3>2. RequestIsSound(q)
      BY <1>1, <2>2, <3>1 DEF RequestIsSound
    <3>3. req' = [req EXCEPT ![r] = q]
      BY <1>2, <2>5
    <3> HIDE DEF q
    <3> QED
      BY <1>1, <2>2, <2>3, <3>2, <3>3, RequestStep
  <2> QED
    BY <2>4, <2>5 DEF Lookup!Caches
<1>3. CASE req' = [req EXCEPT ![r].wants = @ \ {c}] /\ UNCHANGED l1
  <2> DEFINE q == [req[r] EXCEPT !.wants = @ \ {c}]
  <2>1. /\ q \in Lookups /\ q.pc = req[r].pc /\ q.ec = req[r].ec /\ q.vm = req[r].vm
        /\ q.inst = req[r].inst
    BY <1>1 DEF RequestIsSound, Lookups
  <2>2. RequestIsSound(q)
    BY <1>1, <2>1 DEF RequestIsSound
  <2>3. req' = [req EXCEPT ![r] = q]
    BY <1>3
  <2> HIDE DEF q
  <2> QED
    BY <1>1, <1>3, <2>2, <2>3, RequestStep
<1> QED
  BY <1>2, <1>3 DEF Lookup!Read

\* A request goes on without learning anything.
LEMMA GoesStaysFresh ==
  ASSUME LookupInv, NEW r \in Requests, NEW p \in {"resolve", "oembed", "done"}, Lookup!Goes(r, p),
         req[r].pc # "idle",
         UNCHANGED l1,
         \/ UNCHANGED redis
         \/ \E c, e : /\ c \in Lookup!Caches /\ e \in Answers /\ OneLife(e)
                      /\ redis' \in {redis, [redis EXCEPT ![c] = e]}
  PROVE  LookupInv'
<1> DEFINE q == [req[r] EXCEPT !.pc = p]
<1>1. q \in Lookups /\ q.pc = p /\ q.ec = req[r].ec /\ q.vm = req[r].vm /\ q.inst = req[r].inst
  BY RequestsAreSound DEF RequestIsSound, Lookups
<1>2. RequestIsSound(q)
  BY <1>1, RequestsAreSound DEF RequestIsSound
<1>3. req' = [req EXCEPT ![r] = q]
  BY DEF Lookup!Goes
<1> HIDE DEF q
<1> QED
  BY <1>2, <1>3, RequestStep

\* A request learns a title, or that there is none, which its instance remembers.
LEMMA LearnsStaysFresh ==
  ASSUME LookupInv, NEW r \in Requests, NEW p \in {"storeTitle", "done"},
         req[r].pc # "idle",
         NEW e \in Answers, Served(e), p = "storeTitle" => OneLife(e),
         NEW f \in Answers, TwoLives(f),
         req' = [req EXCEPT ![r].pc = p, ![r].vm = e], Lookup!InL1(r, "vm", f),
         \/ UNCHANGED redis
         \/ \E c, g : /\ c \in Lookup!Caches /\ g \in Answers /\ OneLife(g)
                      /\ redis' \in {redis, [redis EXCEPT ![c] = g]}
  PROVE  LookupInv'
<1> DEFINE q == [req[r] EXCEPT !.pc = p, !.vm = e]
<1>1. q \in Lookups /\ q.pc = p /\ q.ec = req[r].ec /\ q.vm = e /\ q.inst = req[r].inst
  BY RequestsAreSound DEF RequestIsSound, Lookups
<1>2. RequestIsSound(q)
  BY <1>1, RequestsAreSound DEF RequestIsSound
<1>3. req' = [req EXCEPT ![r] = q]
  OBVIOUS
<1>4. l1' = [l1 EXCEPT ![req[r].inst]["vm"] = f] /\ "vm" \in Lookup!Caches
  BY DEF Lookup!InL1, Lookup!Caches
<1> HIDE DEF q
<1> QED
  BY <1>2, <1>3, <1>4, RequestStep

\* An answer of YouTube is new: it has both lifetimes before it.
LEMMA DetailsStaysFresh ==
  ASSUME LookupInv, NEW r \in Requests, Lookup!Details(r)
  PROVE  LookupInv'
<1>1. PICK verdict \in Statuses, title \in {"title", "none"} :
        /\ req' = [req EXCEPT ![r].pc = "storeStatus", ![r].ec = Lookup!Entry(verdict, 0),
                              ![r].wants = {title}]
        /\ Lookup!InL1(r, "ec", Lookup!Entry(verdict, 0))
        /\ UNCHANGED redis /\ req[r].pc = "read"
  BY Zenon DEF Lookup!Details
<1>2. PICK e \in Answers : e = Lookup!Entry(verdict, 0) /\ OneLife(e) /\ Served(e) /\ TwoLives(e)
  BY EntryFacts DEF Values
<1> DEFINE q == [req[r] EXCEPT !.pc = "storeStatus", !.ec = e, !.wants = {title}]
<1>3. /\ q \in Lookups /\ q.pc = "storeStatus" /\ q.ec = e /\ q.vm = req[r].vm
      /\ q.inst = req[r].inst
  BY RequestsAreSound DEF RequestIsSound, Lookups
<1>4. RequestIsSound(q)
  BY <1>1, <1>2, <1>3, RequestsAreSound DEF RequestIsSound
<1>5. req' = [req EXCEPT ![r] = q]
  BY <1>1, <1>2
<1>6. l1' = [l1 EXCEPT ![req[r].inst]["ec"] = e] /\ "ec" \in Lookup!Caches
  BY <1>1, <1>2 DEF Lookup!InL1, Lookup!Caches
<1> HIDE DEF q
<1> QED
  BY <1>1, <1>2, <1>4, <1>5, <1>6, RequestStep

\* A request stores in Redis what it has just learnt.
LEMMA StoresStayFresh ==
  ASSUME LookupInv, NEW r \in Requests, Lookup!StoreStatus(r) \/ Lookup!StoreTitle(r)
  PROVE  LookupInv'
<1>1. "ec" \in Lookup!Caches /\ "vm" \in Lookup!Caches
  BY DEF Lookup!Caches
<1>2. req[r].ec \in Answers /\ req[r].vm \in Answers /\ req[r].pc # "idle"
  BY RequestsAreSound DEF RequestIsSound, Lookups, Lookup!StoreStatus, Lookup!StoreTitle
<1>3. CASE Lookup!StoreStatus(r)
  <2>1. OneLife(req[r].ec) /\ redis' \in {redis, [redis EXCEPT !["ec"] = req[r].ec]}
    BY <1>3, RequestsAreSound DEF RequestIsSound, Lookup!StoreStatus
  <2>2. CASE "title" \in req[r].wants
    <3>1. PICK e \in Answers : e = Lookup!Entry("title", 0) /\ OneLife(e) /\ Served(e) /\ TwoLives(e)
      BY EntryFacts DEF Values
    <3>2. req' = [req EXCEPT ![r].pc = "storeTitle", ![r].vm = e] /\ Lookup!InL1(r, "vm", e)
      BY <1>3, <2>2, <3>1 DEF Lookup!StoreStatus
    <3> QED
      BY <1>1, <1>2, <2>1, <3>1, <3>2, LearnsStaysFresh
  <2>3. CASE "title" \notin req[r].wants
    <3>1. Lookup!Goes(r, "resolve") /\ UNCHANGED l1
      BY <1>3, <2>3 DEF Lookup!StoreStatus
    <3> QED
      BY <1>1, <1>2, <2>1, <3>1, GoesStaysFresh
  <2> QED
    BY <2>2, <2>3
<1>4. CASE Lookup!StoreTitle(r)
  <2>1. /\ OneLife(req[r].vm) /\ redis' \in {redis, [redis EXCEPT !["vm"] = req[r].vm]}
        /\ Lookup!Goes(r, "done") /\ UNCHANGED l1
    BY <1>4, RequestsAreSound DEF RequestIsSound, Lookup!StoreTitle
  <2> QED
    BY <1>1, <1>2, <2>1, GoesStaysFresh
<1> QED
  BY <1>3, <1>4

\* The title is looked up once more before oEmbed is asked.
LEMMA AgainStaysFresh ==
  ASSUME LookupInv, NEW r \in Requests, Lookup!Again(r)
  PROVE  LookupInv'
<1> DEFINE i == req[r].inst
<1>1. "vm" \in Lookup!Caches /\ UNCHANGED redis /\ req[r].pc # "idle" /\ i \in Instances
  BY RequestsAreSound DEF RequestIsSound, Lookup!Caches, Lookup!Again
<1>2. CASE /\ Lookup!Looked(i, "vm")
           /\ req' = [req EXCEPT ![r].pc = "done", ![r].vm = Lookup!L1Get(i, "vm")]
           /\ Lookup!InL1(r, "vm", Lookup!L1Get(i, "vm"))
  <2>1. /\ Lookup!L1Get(i, "vm") \in Answers
        /\ TwoLives(Lookup!L1Get(i, "vm")) /\ Served(Lookup!L1Get(i, "vm"))
    BY <1>1, HitFacts
  <2> QED
    BY <1>1, <1>2, <2>1, LearnsStaysFresh
<1>3. CASE /\ req' = [req EXCEPT ![r].pc = "done", ![r].vm = redis["vm"]]
           /\ Lookup!InL1(r, "vm", Lookup!Entry(redis["vm"].value, redis["vm"].age))
  <2>1. redis["vm"] \in Answers /\ OneLife(redis["vm"])
    BY <1>1 DEF LookupInv, LookupTypes, Lifetimes
  <2>2. PICK f \in Answers :
          f = Lookup!Entry(redis["vm"].value, redis["vm"].age) /\ TwoLives(f) /\ Served(redis["vm"])
    BY <2>1, EntryFacts
  <2> QED
    BY <1>1, <1>3, <2>1, <2>2, LearnsStaysFresh
<1>4. CASE Lookup!Goes(r, "oembed") /\ UNCHANGED l1
  BY <1>1, <1>4, GoesStaysFresh
<1> QED
  BY <1>2, <1>3, <1>4 DEF Lookup!Again

\* oEmbed answers, or fails.
LEMMA OEmbedStaysFresh ==
  ASSUME LookupInv, NEW r \in Requests, Lookup!OEmbed(r)
  PROVE  LookupInv'
<1>1. UNCHANGED redis /\ req[r].pc # "idle"
  BY DEF Lookup!OEmbed
<1>2. CASE Lookup!Goes(r, "done") /\ UNCHANGED l1
  BY <1>1, <1>2, GoesStaysFresh
<1>3. ASSUME NEW v \in {"title", "missing"},
             req' = [req EXCEPT ![r].pc = "storeTitle", ![r].vm = Lookup!Entry(v, 0)],
             Lookup!InL1(r, "vm", Lookup!Entry(v, 0))
      PROVE  LookupInv'
  <2>1. PICK e \in Answers : e = Lookup!Entry(v, 0) /\ OneLife(e) /\ Served(e) /\ TwoLives(e)
    BY EntryFacts DEF Values
  <2> QED
    BY <1>1, <1>3, <2>1, LearnsStaysFresh
<1> QED
  BY <1>2, <1>3 DEF Lookup!OEmbed

\* A preview begins on some instance; a request answers.
LEMMA EndsStayFresh ==
  ASSUME LookupInv, NEW r \in Requests, Lookup!Preview(r) \/ Lookup!Answer(r)
  PROVE  LookupInv'
<1>1. UNCHANGED <<l1, redis>>
  BY Zenon DEF Lookup!Preview, Lookup!Answer
<1>2. Lookup!Idle \in Lookups /\ RequestIsSound(Lookup!Idle)
  BY EntryFacts DEF Lookup!Idle, Lookups, Places, Lookup!Caches, RequestIsSound
<1>3. CASE Lookup!Answer(r)
  BY <1>1, <1>2, <1>3, RequestStep DEF Lookup!Answer
<1>4. CASE Lookup!Preview(r)
  <2>1. PICK i \in Instances :
          req' = [req EXCEPT ![r] = [Lookup!Idle EXCEPT !.pc = "resolve", !.inst = i,
                                                 !.preview = TRUE]]
    BY <1>4, Zenon DEF Lookup!Preview
  <2> DEFINE q == [Lookup!Idle EXCEPT !.pc = "resolve", !.inst = i, !.preview = TRUE]
  <2>2. q \in Lookups /\ q.pc = "resolve" /\ q.inst = i /\ q.ec = Lookup!Idle.ec /\ q.vm = Lookup!Idle.vm
    BY <1>2 DEF Lookups, Places
  <2>3. RequestIsSound(q)
    BY <1>2, <2>2 DEF RequestIsSound
  <2> HIDE DEF q
  <2>4. req' = [req EXCEPT ![r] = q]
    BY <2>1 DEF q
  <2> QED
    BY <1>1, <2>3, <2>4, RequestStep
<1> QED
  BY <1>3, <1>4

\* Every step preserves the invariant.
LEMMA LookupsGoOn == LookupInv /\ [Lookup!Next]_Lookup!vars => LookupInv'
<1> SUFFICES ASSUME LookupInv, [Lookup!Next]_Lookup!vars PROVE LookupInv'
  OBVIOUS
<1>1. CASE UNCHANGED Lookup!vars
  <2>1. /\ l1' \in [Instances -> [Lookup!Caches -> Answers]]
        /\ \A i \in Instances, c \in Lookup!Caches : TwoLives(l1'[i][c])
        /\ redis' \in [Lookup!Caches -> Answers] /\ \A c \in Lookup!Caches : OneLife(redis'[c])
        /\ req' \in [Requests -> Lookups] /\ \A r \in Requests : RequestIsSound(req'[r])
    BY <1>1, RequestsAreSound DEF Lookup!vars, LookupInv, LookupTypes, Lifetimes
  <2> QED
    BY <2>1, LookupParts
<1>2. ASSUME NEW r \in Requests, Lookup!Known(r) \/ Lookup!Resolved(r)
      PROVE  LookupInv'
  <2>1. \E p \in {"resolve", "done"} : Lookup!Goes(r, p)
    BY <1>2 DEF Lookup!Known, Lookup!Resolved
  <2>2. UNCHANGED <<l1, redis>> /\ req[r].pc # "idle"
    BY <1>2 DEF Lookup!Known, Lookup!Resolved
  <2> QED
    BY <2>1, <2>2, GoesStaysFresh
<1> QED
  BY <1>1, <1>2, SubmitStaysFresh, ReadStaysFresh, DetailsStaysFresh, StoresStayFresh,
     AgainStaysFresh, OEmbedStaysFresh, EndsStayFresh, EvictStaysFresh, TickStaysFresh DEF Lookup!Next

LEMMA ServedInTime == LookupInv => Lookup!StaleAtMostTwice
<1> SUFFICES ASSUME LookupInv, NEW r \in Requests, NEW c \in Lookup!Caches
             PROVE  Served(req[r][c])
  BY DEF Lookup!StaleAtMostTwice, Served
<1> QED
  BY RequestsAreSound DEF RequestIsSound, Lookup!Caches

\* For any lifetimes and any number of instances and requests: no answer is served
\* that was obtained two lifetimes ago or more (embed-cache.ts:152, video-meta.ts:127).
THEOREM StalenessIsBounded == ScreensSpec => []LookupsAreFresh
<1>1. ScreensInit => LookupInv
  BY InitIsFresh DEF ScreensInit
<1>2. LookupInv /\ [ScreensNext]_screensVars => LookupInv'
  <2> SUFFICES ASSUME LookupInv, [ScreensNext]_screensVars
               PROVE  LookupInv'
    OBVIOUS
  <2>1. [Lookup!Next]_Lookup!vars
    BY DEF ScreensNext, Playing, Drawing, Picking, Hosting, Entering, LookingUp, Typing, Guessing,
       screensVars,
      lookupVars, Lookup!vars
  <2> QED
    BY <2>1, LookupsGoOn
<1>3. LookupInv => LookupsAreFresh
  BY ServedInTime DEF LookupsAreFresh
<1> QED
  BY <1>1, <1>2, <1>3, PTL DEF ScreensSpec
-----------------------------------------------------------------------------
(* The patron's page: a submission under way, or a song that can still be   *)
(* submitted, is one taking more that the picks and the lost calls allow.   *)

Submissions == [at : {"none", "sent", "taken", "refused"}, uuid : Patron!Uuids]
MayBeTaken == submit.at \in {"sent", "refused"} \/ (submit.at = "none" /\ picked)
PicksInv ==
  /\ uuid \in Patron!Uuids /\ picked \in BOOLEAN /\ submit \in Submissions
  /\ picks \in Nat /\ accepted \in Nat /\ lost \in Nat
  /\ accepted <= picks + lost
  /\ MayBeTaken => accepted + 1 <= picks + lost

\* Every step of the page and of the room keeps the account.
LEMMA PicksAreAccounted == PicksInv /\ [Patron!Next]_Patron!vars => PicksInv'
<1> SUFFICES ASSUME PicksInv, [Patron!Next]_Patron!vars PROVE PicksInv'
  OBVIOUS
<1> USE DEF PicksInv
<1>1. CASE UNCHANGED <<picked, submit, picks, accepted, lost>> /\ uuid' \in Patron!Uuids
  BY <1>1 DEF MayBeTaken
<1>2. CASE UNCHANGED Patron!vars
  BY <1>1, <1>2 DEF Patron!vars, Patron!history
<1>3. CASE Patron!Tick \/ Patron!RoomChanges \/ \E u \in Patron!Uuids : Patron!Registered(u) \/ Patron!PendingResolved(u)
  <2>1. UNCHANGED <<picked, submit, picks, accepted, lost>>
    BY <1>3, Zenon DEF Patron!Tick, Patron!RoomChanges, Patron!Registered, Patron!PendingResolved,
      Patron!history
  <2>2. uuid' = uuid \/ \E u \in Patron!Uuids : uuid' = u
    BY <1>3, Zenon DEF Patron!Tick, Patron!RoomChanges, Patron!Registered, Patron!PendingResolved
  <2> QED
    BY <1>1, <2>1, <2>2
<1>4. CASE \E kind \in Patron!Kinds : Patron!Serves(kind) \/ Patron!Lands(kind)
  BY <1>1, <1>4 DEF Patron!Serves, Patron!Lands, Patron!ServePoll, Patron!QueueLands,
    Patron!PendingLands, Patron!history
<1>5. CASE Patron!NotRegistered \/ \E p \in polls : Patron!PollFails(p)
  <2>1. UNCHANGED <<uuid, picked, submit, picks, accepted>> /\ lost' = lost + 1
    BY <1>5 DEF Patron!NotRegistered, Patron!PollFails, Patron!Lost
  <2> QED
    BY <2>1 DEF MayBeTaken
<1>6. CASE Patron!SaveNickname \/ Patron!RenameMe
  BY <1>1, <1>6 DEF Patron!SaveNickname, Patron!RenameMe, Patron!history
<1>7. CASE Patron!Pick
  <2>1. UNCHANGED <<uuid, submit, accepted, lost>> /\ picks' = picks + 1 /\ picked' = TRUE
    BY <1>7 DEF Patron!Pick
  <2> QED
    BY <2>1 DEF MayBeTaken
<1>8. CASE Patron!Unpick
  <2>1. UNCHANGED <<uuid, submit, picks, accepted, lost>> /\ picked' = FALSE
    BY <1>8 DEF Patron!Unpick, Patron!history
  <2> QED
    BY <2>1 DEF MayBeTaken
<1>9. CASE Patron!Submit
  <2>1. /\ UNCHANGED <<uuid, picked, picks, accepted, lost>> /\ picked /\ submit.at = "none"
        /\ submit' = [at |-> "sent", uuid |-> uuid]
    BY <1>9 DEF Patron!Submit, Patron!MaySubmit, Patron!NoSubmit, Patron!history
  <2> QED
    BY <2>1 DEF MayBeTaken, Submissions
<1>10. CASE Patron!Accepts
  <2>1. /\ UNCHANGED <<uuid, picked, picks, lost>> /\ submit.at = "sent"
        /\ accepted' = accepted + 1 /\ submit' = [submit EXCEPT !.at = "taken"]
    BY <1>10 DEF Patron!Accepts
  <2>2. submit' \in Submissions /\ submit'.at = "taken"
    BY <2>1 DEF Submissions
  <2> QED
    BY <2>1, <2>2 DEF MayBeTaken
<1>11. CASE Patron!Refuses
  <2>1. /\ UNCHANGED <<uuid, picked, picks, accepted, lost>> /\ submit.at = "sent"
        /\ submit' = [submit EXCEPT !.at = "refused"]
    BY <1>11 DEF Patron!Refuses, Patron!history
  <2>2. submit' \in Submissions
    BY <2>1 DEF Submissions
  <2> QED
    BY <2>1, <2>2 DEF MayBeTaken
<1>12. Patron!NoSubmit \in Submissions /\ Patron!NoSubmit.at = "none"
  BY DEF Patron!NoSubmit, Submissions, Patron!Uuids
<1>13. CASE Patron!Succeeds
  <2>1. UNCHANGED <<uuid, picks, accepted, lost>> /\ picked' = FALSE /\ submit' = Patron!NoSubmit
    BY <1>13 DEF Patron!Succeeds, Patron!history
  <2> QED
    BY <1>12, <2>1 DEF MayBeTaken
<1>14. CASE Patron!Fails
  <2>1. /\ UNCHANGED <<uuid, picked, picks, accepted, lost>> /\ submit' = Patron!NoSubmit
        /\ submit.at = "refused"
    BY <1>14 DEF Patron!Fails, Patron!history
  <2> QED
    BY <1>12, <2>1 DEF MayBeTaken
<1>15. CASE Patron!NetworkError
  <2>1. /\ UNCHANGED <<uuid, picked, picks, accepted>> /\ submit' = Patron!NoSubmit
        /\ lost' = lost + 1
    BY <1>15 DEF Patron!NetworkError, Patron!Lost
  <2> QED
    BY <1>12, <2>1 DEF MayBeTaken
<1> QED
  BY <1>2, <1>3, <1>4, <1>5, <1>6, <1>7, <1>8, <1>9, <1>10, <1>11, <1>13, <1>14, <1>15
     DEF Patron!Next, Patron!Patron

\* However often the patron picks, takes back and submits, and whatever answers are
\* lost, the room takes no song twice but after a lost call (PatronRoom.tsx).
THEOREM SongsAreTakenOnce == ScreensSpec => []TakenOncePerPick
<1>1. ScreensInit => PicksInv
  <2> SUFFICES ASSUME Patron!Init PROVE PicksInv
    BY DEF ScreensInit
  <2>1. uuid \in Patron!Uuids /\ picked = FALSE /\ submit \in Submissions /\ submit.at = "none"
    BY DEF Patron!Init, Submissions, Patron!NoSubmit, Patron!Uuids
  <2>2. picks = 0 /\ accepted = 0 /\ lost = 0
    BY DEF Patron!Init
  <2>3. ~MayBeTaken /\ picked \in BOOLEAN
    BY <2>1, Zenon DEF MayBeTaken
  <2>4. picks \in Nat /\ accepted \in Nat /\ lost \in Nat /\ accepted <= picks + lost
    BY <2>2
  <2> QED
    BY <2>1, <2>3, <2>4, Zenon DEF PicksInv
<1>2. PicksInv /\ [ScreensNext]_screensVars => PicksInv'
  <2> SUFFICES ASSUME PicksInv, [ScreensNext]_screensVars
               PROVE  PicksInv'
    OBVIOUS
  <2>1. [Patron!Next]_Patron!vars
    BY DEF ScreensNext, Playing, Drawing, Picking, Hosting, Entering, LookingUp, Typing, Guessing,
       screensVars,
      patronVars, Patron!vars, Patron!history
  <2> QED
    BY <2>1, PicksAreAccounted
<1>3. PicksInv => TakenOncePerPick
  BY DEF PicksInv, TakenOncePerPick, Patron!TakenOncePerPick
<1> QED
  BY <1>1, <1>2, <1>3, PTL DEF ScreensSpec
-----------------------------------------------------------------------------
(* How a host comes and goes: an accepted revocation has raised the epoch   *)
(* since the owner asked for it, also in an answer that has not landed; and *)
(* until a logout is served every request of the device, every answer to it *)
(* and its own jar carry the claim of the owner, which the room honours.    *)

Sessions == Nat \cup {None, Cleared}
Claims == {"owner", "staff", None, Cleared}
Jars == [session : Sessions, claim : Claims]
HostReplies == {Access!NoAnswer} \cup
  [status : {200, 401, 403, 429}, owner : BOOLEAN, session : Sessions, claim : Claims]
HostKinds == {"session", "elsewhere", "claim", "login", "logout", "revoke"}
HostMessages == [kind : HostKinds, cookies : Jars, answer : HostReplies]

SoundMessage(r) ==
  /\ r \in HostMessages
  /\ r.kind = "revoke" /\ r.answer.status = 200 => epoch > asked
  /\ gaveUp = "no" =>
       /\ r.cookies.claim = "owner"
       /\ r.answer # Access!NoAnswer => r.answer.claim \in {None, "owner"}

AccessInv ==
  /\ epoch \in Nat /\ asked \in Nat /\ asked <= epoch /\ jar \in Jars
  /\ revokeMsg = "done" => epoch > asked
  /\ gaveUp = "no" => "owner" \in live /\ jar.claim = "owner"
  /\ \A r \in requests : SoundMessage(r)

\* A request is sent without an answer.
LEMMA NewMessage ==
  ASSUME NEW kind \in HostKinds, NEW j \in Jars
  PROVE  LET r == [kind |-> kind, cookies |-> j, answer |-> Access!NoAnswer]
         IN  /\ r \in HostMessages /\ r.answer = Access!NoAnswer /\ r.cookies = j
             /\ r.answer.status # 200
BY DEF HostMessages, HostReplies, Access!NoAnswer

\* A step of the page: it sends, or learns of an answer, and the room does not move.
LEMMA PageStep ==
  ASSUME AccessInv, UNCHANGED <<epoch, live, asked>>, jar' \in Jars,
         gaveUp' = "no" => gaveUp = "no" /\ jar'.claim = "owner",
         revokeMsg' = "done" => revokeMsg = "done" \/ epoch > asked,
         \A r \in requests' : \/ r \in requests
                              \/ \E kind \in HostKinds :
                                   r = [kind |-> kind, cookies |-> jar', answer |-> Access!NoAnswer]
  PROVE  AccessInv'
<1>1. ASSUME NEW r \in requests' PROVE SoundMessage(r)'
  <2>1. CASE r \in requests
    BY <2>1 DEF AccessInv, SoundMessage
  <2>2. ASSUME NEW kind \in HostKinds,
               r = [kind |-> kind, cookies |-> jar', answer |-> Access!NoAnswer]
        PROVE  SoundMessage(r)'
    <3>1. /\ r \in HostMessages /\ r.answer = Access!NoAnswer /\ r.cookies = jar'
          /\ r.answer.status # 200
      BY <2>2, NewMessage, Zenon
    <3> QED
      BY <3>1 DEF SoundMessage
  <2> QED
    BY <2>1, <2>2
<1> QED
  BY <1>1 DEF AccessInv

\* A step of the server: it answers one request.
LEMMA ServeStep ==
  ASSUME AccessInv, NEW r \in requests, NEW a \in HostReplies \ {Access!NoAnswer},
         Access!Replies(r, a),
         epoch' \in Nat, epoch' >= epoch,
         r.kind = "revoke" /\ a.status = 200 => epoch' > asked,
         gaveUp' = "no" => gaveUp = "no" /\ "owner" \in live' /\ a.claim \in {None, "owner"}
  PROVE  AccessInv'
<1>1. /\ UNCHANGED <<jar, asked, revokeMsg>>
      /\ requests' = (requests \ {r}) \cup {[r EXCEPT !.answer = a]}
  BY DEF Access!Replies, Access!page
<1>2. ASSUME NEW s \in requests PROVE SoundMessage(s)'
  BY <1>1 DEF AccessInv, SoundMessage
<1>3. SoundMessage([r EXCEPT !.answer = a])'
  <2> DEFINE q == [r EXCEPT !.answer = a]
  <2>1. SoundMessage(r)
    BY DEF AccessInv
  <2>2. q \in HostMessages /\ q.kind = r.kind /\ q.cookies = r.cookies /\ q.answer = a
    BY <2>1 DEF SoundMessage, HostMessages
  <2> HIDE DEF q
  <2>3. SoundMessage(q)'
    BY <1>1, <2>1, <2>2 DEF SoundMessage, AccessInv
  <2> QED
    BY <2>3 DEF q
<1> QED
  BY <1>1, <1>2, <1>3 DEF AccessInv

\* What the room answers when it refuses.
LEMMA RefusedFacts ==
  ASSUME NEW code \in {401, 403, 429}
  PROVE  LET a == Access!Refused(code)
         IN  a \in HostReplies \ {Access!NoAnswer} /\ a.status = code /\ a.claim = None
BY DEF Access!Refused, Access!Answer, HostReplies, Access!NoAnswer, Sessions, Claims

\* A refusal changes nothing in the room.
LEMMA RefuseIsSound ==
  ASSUME AccessInv, NEW r \in requests, NEW code \in {401, 403, 429},
         Access!Replies(r, Access!Refused(code)), UNCHANGED <<epoch, live, gaveUp>>
  PROVE  AccessInv'
<1> DEFINE a == Access!Refused(code)
<1>1. a \in HostReplies \ {Access!NoAnswer} /\ a.status = code /\ a.claim = None
  BY RefusedFacts
<1>2. Access!Replies(r, a)
  OBVIOUS
<1> HIDE DEF a
<1>3. epoch' \in Nat /\ epoch' >= epoch /\ (gaveUp = "no" => "owner" \in live)
  BY DEF AccessInv
<1> QED
  BY <1>1, <1>2, <1>3, ServeStep

\* A success that leaves the epoch alone: it sets a claim the room honours, the one
\* presented unless that one is dead.
LEMMA GrantIsSound ==
  ASSUME AccessInv, NEW r \in requests, r.kind # "revoke",
         NEW a \in HostReplies \ {Access!NoAnswer}, Access!Replies(r, a),
         epoch' = epoch, gaveUp' = gaveUp, live \subseteq live',
         r.cookies.claim \in live => a.claim \in {None, r.cookies.claim}
  PROVE  AccessInv'
<1>1. epoch' \in Nat /\ epoch' >= epoch
  BY DEF AccessInv
<1>2. gaveUp = "no" => "owner" \in live' /\ a.claim \in {None, "owner"}
  BY DEF AccessInv, SoundMessage
<1> QED
  BY <1>1, <1>2, ServeStep

\* Every answer of the server keeps the invariant.
LEMMA ServesSoundly ==
  ASSUME AccessInv, NEW r \in requests, Access!Serve(r)
  PROVE  AccessInv'
<1>1. /\ SoundMessage(r) /\ epoch \in Nat /\ asked <= epoch /\ asked \in Nat
      /\ r.cookies.session \in Sessions /\ r.cookies.claim \in Claims
      /\ None \in Claims /\ None \in Sessions /\ epoch \in Sessions /\ "staff" \in Claims
      /\ 200 \in {200, 401, 403, 429}
  BY DEF AccessInv, SoundMessage, HostMessages, Jars, Sessions, Claims
<1>2. PICK owner \in BOOLEAN : owner = Access!Owner(r.cookies.claim)
  BY DEF Access!Owner
<1>3. CASE Access!ServeSession(r)
  <2>1. r.kind # "revoke" /\ epoch' = epoch /\ live' = live /\ gaveUp' = gaveUp
    BY <1>3 DEF Access!ServeSession, Access!server
  <2>2. CASE Access!Replies(r, Access!Answer(200, Access!Owner(r.cookies.claim),
                                             r.cookies.session, Access!Kept(r.cookies.claim)))
    <3>1. PICK claim \in Claims : claim = Access!Kept(r.cookies.claim)
      BY <1>1 DEF Access!Kept
    <3>2. claim \in {None, r.cookies.claim}
      BY <3>1 DEF Access!Kept
    <3>3. PICK a : a = Access!Answer(200, owner, r.cookies.session, claim)
      OBVIOUS
    <3>4. a \in HostReplies \ {Access!NoAnswer} /\ a.claim = claim
      BY <1>1, <3>3 DEF Access!Answer, HostReplies, Access!NoAnswer
    <3>5. Access!Replies(r, a)
      BY <1>2, <2>2, <3>1, <3>3, Zenon
    <3> QED
      BY <2>1, <3>2, <3>4, <3>5, GrantIsSound
  <2>3. CASE Access!Replies(r, Access!Refused(401))
    BY <2>1, <2>3, RefuseIsSound
  <2> QED
    BY <1>3, <2>2, <2>3 DEF Access!ServeSession
<1>4. CASE Access!ServeClaim(r)
  <2>1. r.kind # "revoke" /\ epoch' = epoch /\ live' = live /\ gaveUp' = gaveUp
    BY <1>4 DEF Access!ServeClaim, Access!server
  <2>2. CASE Access!Replies(r, Access!Answer(200, Access!Owner(r.cookies.claim), epoch,
                                             r.cookies.claim))
    <3>1. PICK a : a = Access!Answer(200, owner, epoch, r.cookies.claim)
      OBVIOUS
    <3>2. a \in HostReplies \ {Access!NoAnswer} /\ a.claim = r.cookies.claim
      BY <1>1, <3>1 DEF Access!Answer, HostReplies, Access!NoAnswer
    <3>3. Access!Replies(r, a)
      BY <1>2, <2>2, <3>1, Zenon
    <3> QED
      BY <2>1, <3>2, <3>3, GrantIsSound
  <2>3. CASE \E code \in {401, 429} : Access!Replies(r, Access!Refused(code))
    BY <2>1, <2>3, RefuseIsSound
  <2> QED
    BY <1>4, <2>2, <2>3 DEF Access!ServeClaim
<1>5. CASE Access!ServeLogin(r)
  <2>1. r.kind # "revoke" /\ epoch' = epoch /\ gaveUp' = gaveUp
    BY <1>5 DEF Access!ServeLogin
  <2>2. CASE /\ Access!Replies(r, Access!Answer(200, Access!Owner(r.cookies.claim), epoch,
                  IF r.cookies.claim \in live THEN r.cookies.claim ELSE "staff"))
             /\ live' = IF r.cookies.claim \in live THEN live ELSE live \cup {"staff"}
    <3>1. PICK claim \in Claims :
            claim = (IF r.cookies.claim \in live THEN r.cookies.claim ELSE "staff")
      BY <1>1
    <3>2. (r.cookies.claim \in live => claim = r.cookies.claim) /\ live \subseteq live'
      BY <2>2, <3>1
    <3>3. PICK a : a = Access!Answer(200, owner, epoch, claim)
      OBVIOUS
    <3>4. a \in HostReplies \ {Access!NoAnswer} /\ a.claim = claim
      BY <1>1, <3>3 DEF Access!Answer, HostReplies, Access!NoAnswer
    <3>5. Access!Replies(r, a)
      BY <1>2, <2>2, <3>1, <3>3, Zenon
    <3> QED
      BY <2>1, <3>2, <3>4, <3>5, GrantIsSound
  <2>3. CASE Access!Replies(r, Access!Refused(401)) /\ UNCHANGED live
    BY <2>1, <2>3, RefuseIsSound
  <2> QED
    BY <1>5, <2>2, <2>3, Zenon DEF Access!ServeLogin
<1>6. CASE Access!ServeLogout(r)
  <2>1. CASE Access!SignedIn(r)
    <3> DEFINE a == Access!Answer(200, FALSE, Cleared, Cleared)
    <3>1. Access!Replies(r, a) /\ gaveUp' = "served" /\ epoch' = epoch /\ r.kind = "logout"
      BY <1>6, <2>1 DEF Access!ServeLogout
    <3>2. a \in HostReplies \ {Access!NoAnswer} /\ a.status = 200
      BY DEF Access!Answer, HostReplies, Access!NoAnswer, Sessions, Claims
    <3> HIDE DEF a
    <3> QED
      BY <1>1, <3>1, <3>2, ServeStep
  <2>2. CASE ~Access!SignedIn(r)
    BY <1>6, <2>2, RefuseIsSound DEF Access!ServeLogout
  <2> QED
    BY <2>1, <2>2
<1>7. CASE Access!ServeRevoke(r)
  <2>1. CASE Access!RevokeRefused(r) /\ UNCHANGED <<epoch, live>> /\ gaveUp' = gaveUp
    BY <2>1, RefuseIsSound DEF Access!RevokeRefused
  <2>2. CASE /\ Access!Owner(r.cookies.claim) /\ epoch' = epoch + 1 /\ live' = {r.cookies.claim}
             /\ Access!Replies(r, Access!Answer(200, TRUE, epoch', r.cookies.claim))
             /\ gaveUp' = gaveUp
    <3> DEFINE a == Access!Answer(200, TRUE, epoch', r.cookies.claim)
    <3>1. epoch' \in Nat /\ epoch' >= epoch /\ epoch' > asked
      BY <1>1, <2>2
    <3>2. PICK e \in Sessions : e = epoch'
      BY <3>1 DEF Sessions
    <3>3. a \in HostReplies \ {Access!NoAnswer} /\ a.status = 200 /\ a.claim = r.cookies.claim
      BY <1>1, <3>2 DEF Access!Answer, HostReplies, Access!NoAnswer
    <3>4. r.cookies.claim = "owner" /\ "owner" \in live'
      BY <2>2 DEF Access!Owner
    <3>5. Access!Replies(r, a)
      BY <2>2
    <3> HIDE DEF a
    <3> QED
      BY <2>2, <3>1, <3>3, <3>4, <3>5, ServeStep
  <2> QED
    BY <1>7, <2>1, <2>2, Zenon DEF Access!ServeRevoke, Access!server
<1> QED
  BY <1>3, <1>4, <1>5, <1>6, <1>7 DEF Access!Serve

\* What an answer does to the jar.
LEMMA JarStaysSound ==
  ASSUME AccessInv, NEW r \in requests, NEW kind, Access!Arrives(r, kind)
  PROVE  /\ UNCHANGED <<epoch, live>> /\ jar' \in Jars
         /\ gaveUp' = "no" => gaveUp = "no" /\ jar'.claim = "owner"
         /\ gaveUp' \in {gaveUp, "told"}
<1>1. /\ SoundMessage(r) /\ r.answer # Access!NoAnswer /\ jar \in Jars
      /\ r.answer.session \in Sessions /\ r.answer.claim \in Claims
      /\ UNCHANGED <<epoch, live>> /\ gaveUp' \in {gaveUp, "told"}
      /\ jar' = [session |-> Access!Cookie(jar.session, r.answer.session),
                 claim |-> Access!Cookie(jar.claim, r.answer.claim)]
      /\ gaveUp = "no" => jar.claim = "owner"
  BY DEF AccessInv, SoundMessage, HostMessages, HostReplies, Access!Arrives, Access!server
<1>2. jar' \in Jars
  BY <1>1 DEF Jars, Access!Cookie, Sessions, Claims
<1>3. ASSUME gaveUp = "no" PROVE jar'.claim = "owner"
  <2>1. jar.claim = "owner" /\ r.answer.claim \in {None, "owner"}
    BY <1>1, <1>3 DEF SoundMessage
  <2> QED
    BY <1>1, <2>1, AccessAssumption DEF Access!HostAccessAssumption, Access!Cookie
<1>4. gaveUp' = "no" => gaveUp = "no"
  BY <1>1
<1> QED
  BY <1>1, <1>2, <1>3, <1>4

\* Every answer that lands keeps the invariant.
LEMMA LandsSoundly ==
  ASSUME AccessInv, NEW r \in requests, Access!Lands(r)
  PROVE  AccessInv'
<1>1. "claim" \in HostKinds /\ "session" \in HostKinds
  BY DEF HostKinds
<1>2. ASSUME NEW kind, Access!Arrives(r, kind), UNCHANGED asked,
             revokeMsg' = "done" => revokeMsg = "done" \/ epoch > asked,
             \/ Access!Gone(r)
             \/ \E k \in HostKinds :
                  requests' = (requests \ {r}) \cup
                    {[kind |-> k, cookies |-> jar', answer |-> Access!NoAnswer]}
      PROVE  AccessInv'
  <2>1. /\ UNCHANGED <<epoch, live>> /\ jar' \in Jars
        /\ gaveUp' = "no" => gaveUp = "no" /\ jar'.claim = "owner"
    BY <1>2, JarStaysSound
  <2>2. \A q \in requests' : \/ q \in requests
                             \/ \E k \in HostKinds :
                                  q = [kind |-> k, cookies |-> jar', answer |-> Access!NoAnswer]
    BY <1>2, Zenon DEF Access!Gone
  <2> QED
    BY <1>2, <2>1, <2>2, PageStep
<1>3. CASE Access!SessionLands(r)
  <2>1. /\ Access!Arrives(r, "session") /\ UNCHANGED <<asked, revokeMsg>>
        /\ \/ Access!Gone(r)
           \/ requests' = (requests \ {r}) \cup
                {[kind |-> "claim", cookies |-> jar', answer |-> Access!NoAnswer]}
    BY <1>3, Zenon DEF Access!SessionLands
  <2> QED
    BY <1>1, <1>2, <2>1
<1>4. CASE Access!ClaimLands(r) \/ Access!LoginLands(r) \/ Access!LogoutLands(r) \/ Access!LandsElsewhere(r)
  <2>1. /\ \E kind : Access!Arrives(r, kind)
        /\ UNCHANGED <<asked, revokeMsg>> /\ Access!Gone(r)
    BY <1>4 DEF Access!ClaimLands, Access!LoginLands, Access!LogoutLands, Access!LandsElsewhere,
      Access!ClaimEnds, Access!page
  <2> QED
    BY <1>2, <2>1
<1>5. CASE Access!RevokeLands(r)
  <2>1. /\ Access!Arrives(r, "revoke") /\ asked' = asked
        /\ requests' = (requests \ {r}) \cup
             (IF r.answer.status = 401
              THEN {[kind |-> "session", cookies |-> jar', answer |-> Access!NoAnswer]} ELSE {})
        /\ revokeMsg' = CASE Access!Ok(r) -> "done"
                          [] r.answer.status = 403 -> "ownerOnly"
                          [] r.answer.status = 429 -> "throttled"
                          [] OTHER -> "error"
    BY <1>5, Zenon DEF Access!RevokeLands
  <2>2. revokeMsg' = "done" => epoch > asked
    <3>1. SoundMessage(r) /\ r.kind = "revoke"
      BY <2>1 DEF AccessInv, Access!Arrives
    <3> QED
      BY <2>1, <3>1 DEF SoundMessage, Access!Ok
  <2>3. \/ Access!Gone(r)
        \/ requests' = (requests \ {r}) \cup
             {[kind |-> "session", cookies |-> jar', answer |-> Access!NoAnswer]}
    BY <2>1 DEF Access!Gone
  <2> QED
    BY <1>1, <1>2, <2>1, <2>2, <2>3
<1> QED
  BY <1>3, <1>4, <1>5 DEF Access!Lands

\* The page sends: what it sends carries the jar.
LEMMA SendsSoundly ==
  ASSUME AccessInv, UNCHANGED <<epoch, live, asked, jar, revokeMsg>>,
         gaveUp' = "no" => gaveUp = "no",
         \/ UNCHANGED requests
         \/ \E kind \in HostKinds : Access!Send(kind)
  PROVE  AccessInv'
<1>1. \A r \in requests' : \/ r \in requests
                           \/ \E kind \in HostKinds :
                                r = [kind |-> kind, cookies |-> jar', answer |-> Access!NoAnswer]
  BY DEF Access!Send, Access!Request
<1>2. jar' \in Jars /\ (gaveUp' = "no" => gaveUp = "no" /\ jar'.claim = "owner")
  BY DEF AccessInv
<1> QED
  BY <1>1, <1>2, PageStep

\* What the owner and the device do.
LEMMA DeviceIsSound ==
  ASSUME AccessInv,
         \/ Access!Reload \/ Access!Login \/ Access!ConfirmLogout \/ Access!ConfirmRevoke
         \/ Access!ProbeElsewhere \/ Access!SessionExpires
         \/ \E which \in {"logout", "revoke"} : Access!Toggle(which)
  PROVE  AccessInv'
<1>1. /\ jar \in Jars /\ (gaveUp = "no" => "owner" \in live /\ jar.claim = "owner")
      /\ {"login", "logout", "revoke", "elsewhere", "session"} \subseteq HostKinds
  BY DEF AccessInv, HostKinds
<1>2. CASE Access!Reload
  <2>1. /\ UNCHANGED <<epoch, live, jar, asked>> /\ revokeMsg' = "none"
        /\ gaveUp' = "no" => gaveUp = "no"
    BY <1>2 DEF Access!Reload, Access!server
  <2>2. \A r \in requests' : \/ r \in requests
                             \/ \E kind \in HostKinds :
                                  r = [kind |-> kind, cookies |-> jar', answer |-> Access!NoAnswer]
    BY <1>1, <1>2, <2>1 DEF Access!Reload, Access!Request
  <2> QED
    BY <1>1, <2>1, <2>2, PageStep
<1>3. CASE Access!Login \/ Access!ConfirmLogout \/ Access!ProbeElsewhere
  <2>1. /\ UNCHANGED <<epoch, live, asked, jar, revokeMsg, gaveUp>>
        /\ \E kind \in HostKinds : Access!Send(kind)
    BY <1>1, <1>3 DEF Access!Login, Access!ConfirmLogout, Access!ProbeElsewhere, Access!server,
      Access!page
  <2> QED
    BY <2>1, SendsSoundly
<1>4. CASE \E which \in {"logout", "revoke"} : Access!Toggle(which)
  <2>1. /\ UNCHANGED <<epoch, live, jar, asked, requests, gaveUp>>
        /\ revokeMsg' \in {"none", revokeMsg}
    BY <1>4, Zenon DEF Access!Toggle, Access!server
  <2> QED
    BY <1>1, <2>1, PageStep
<1>5. CASE Access!SessionExpires
  <2>1. /\ UNCHANGED <<epoch, live, asked, requests, revokeMsg, gaveUp>>
        /\ jar' = [jar EXCEPT !.session = None]
    BY <1>5 DEF Access!SessionExpires, Access!server, Access!page
  <2>2. jar' \in Jars /\ jar'.claim = jar.claim
    BY <1>1, <2>1 DEF Jars, Sessions
  <2> QED
    BY <1>1, <2>1, <2>2, PageStep
<1>6. CASE Access!ConfirmRevoke
  <2>1. /\ UNCHANGED <<epoch, live, jar, gaveUp>> /\ asked' = epoch /\ revokeMsg' = "none"
        /\ requests' = requests \cup {Access!Request("revoke")}
        /\ \A r \in requests : r.kind # "revoke"
    BY <1>6 DEF Access!ConfirmRevoke, Access!server, Access!Send, Access!Sending
  <2>2. ASSUME NEW r \in requests PROVE SoundMessage(r)'
    BY <2>1 DEF AccessInv, SoundMessage
  <2>3. PICK q : q = Access!Request("revoke")
    OBVIOUS
  <2>4. SoundMessage(q)'
    <3>1. /\ q \in HostMessages /\ q.answer = Access!NoAnswer /\ q.cookies = jar
          /\ q.answer.status # 200
      BY <1>1, <2>3, NewMessage DEF Access!Request
    <3> QED
      BY <1>1, <2>1, <3>1 DEF SoundMessage
  <2>5. \A r \in requests' : SoundMessage(r)'
    BY <2>1, <2>2, <2>3, <2>4
  <2> QED
    BY <2>1, <2>5 DEF AccessInv
<1> QED
  BY <1>2, <1>3, <1>4, <1>5, <1>6

\* A request or its answer is lost.
LEMMA LossIsSound ==
  ASSUME AccessInv, NEW r \in requests, Access!Fails(r)
  PROVE  AccessInv'
<1>1. /\ jar \in Jars /\ (gaveUp = "no" => "owner" \in live /\ jar.claim = "owner")
  BY DEF AccessInv
<1>2. /\ UNCHANGED <<epoch, live, jar, asked, gaveUp>> /\ revokeMsg' \in {revokeMsg, "error"}
      /\ requests' = requests \ {r}
  BY DEF Access!Fails, Access!Gone, Access!server, Access!page, Access!ClaimEnds
<1> QED
  BY <1>1, <1>2, PageStep

\* The owner is told that the others are out only once they are, and the owner's
\* device keeps a way back in, whichever answers are lost or late (AdminRoom.tsx).
THEOREM OwnersComeAndGo ==
  ScreensSpec => [](part = "access" => Access!DoneMeansOthersOut /\ Access!OwnerGetsBackIn)
<1>1. ScreensInit => AccessInv
  <2> SUFFICES ASSUME Access!Init PROVE AccessInv
    BY DEF ScreensInit
  <2>1. /\ epoch = 0 /\ asked = 0 /\ "owner" \in live /\ jar \in Jars /\ jar.claim = "owner"
        /\ revokeMsg = "none" /\ requests = {Access!Request("session")} /\ "session" \in HostKinds
    BY DEF Access!Init, Jars, Sessions, Claims, HostKinds
  <2>2. SoundMessage(Access!Request("session"))
    <3> DEFINE q == [kind |-> "session", cookies |-> jar, answer |-> Access!NoAnswer]
    <3>1. /\ q \in HostMessages /\ q.answer = Access!NoAnswer /\ q.cookies = jar
          /\ q.answer.status # 200
      BY <2>1, NewMessage
    <3> HIDE DEF q
    <3>2. SoundMessage(q)
      BY <2>1, <3>1 DEF SoundMessage
    <3> QED
      BY <3>2 DEF q, Access!Request
  <2> QED
    BY <2>1, <2>2 DEF AccessInv
<1>2. AccessInv /\ [ScreensNext]_screensVars => AccessInv'
  <2> SUFFICES ASSUME AccessInv, [ScreensNext]_screensVars
               PROVE  AccessInv'
    OBVIOUS
  <2>1. Access!Next \/ UNCHANGED accessVars
    BY DEF ScreensNext, Playing, Drawing, Picking, Hosting, Entering, LookingUp, Typing, Guessing,
       screensVars
  <2>2. CASE Access!Next
    BY <2>2, DeviceIsSound, ServesSoundly, LandsSoundly, LossIsSound DEF Access!Next
  <2>3. CASE UNCHANGED accessVars
    BY <2>3 DEF accessVars, AccessInv, SoundMessage
  <2> QED
    BY <2>1, <2>2, <2>3
<1>3. AccessInv => Access!DoneMeansOthersOut /\ Access!OwnerGetsBackIn
  BY DEF AccessInv, Access!DoneMeansOthersOut, Access!OwnerGetsBackIn
<1> QED
  BY <1>1, <1>2, <1>3, PTL DEF ScreensSpec

-----------------------------------------------------------------------------
(* The search box.  Its timers are armed for the text it holds; the cursor  *)
(* is that of the text and mode on the screen; a load-more that will still  *)
(* be heeded has no search beside it, and merges what the box still says.   *)

BoxTypes ==
  /\ input \in Box!Texts /\ mode \in Modes
  /\ rows \in Box!Shown \cup {None}
  /\ held \in [q : Queries \cup {None}, mode : Modes \cup {None}, rows : BOOLEAN]
  /\ filterQuery \in Queries \cup {None}
  /\ resultsOf \in (Queries \X Modes) \cup {None}
  /\ cursor \in Box!Cursors \cup {None} /\ pages \in Nat
  /\ awaiting \in Queries \cup {None} /\ loading \in BOOLEAN
  /\ debounce \in Queries \cup {None} /\ again \in Queries \cup {None}
  /\ pending \in Queries \cup {None}
  /\ search \in Box!Searches \cup {None} /\ more \in Box!Deeper \cup {None}

\* The load-more in flight is heeded when it lands.
Heeded == more # None /\ more.fresh

TimersInv ==
  /\ debounce \in {None, input} /\ pending \in {None, input}
  /\ loading => search # None
  /\ search # None /\ input \in Queries => search.q = input \/ debounce = input

\* What the load-more that is heeded narrows the pool to.
Merging == IF held.q # None /\ filterQuery # None THEN filterQuery ELSE more.q[1]

PagingInv ==
  /\ resultsOf # None => filterQuery # None /\ held.q # None
  /\ cursor # None /\ resultsOf # None => cursor.of = resultsOf /\ cursor.page = pages + 1
  /\ search # None /\ ~loading => resultsOf = None
  /\ search # None => ~Heeded
  /\ Heeded /\ resultsOf # None => more.q = resultsOf /\ more.page = pages + 1
  /\ Heeded /\ input \in Queries => debounce = input \/ (search = None /\ Merging = input)
  /\ Box!CursorBelongsToItsQuery

RowsInv ==
  /\ input \in Links =>
       /\ rows = Box!Rows(None, None, input) /\ resultsOf = None
       /\ debounce = None /\ again = None /\ search = None /\ pending = None /\ ~Heeded
  /\ input \in Queries /\ rows # None =>
       \/ rows.for = input \/ awaiting = input \/ debounce = input
       \/ search # None /\ search.q = input

BoxInv == BoxTypes /\ TimersInv /\ PagingInv /\ RowsInv

\* The kinds of texts are told apart, and None from all that is not it.
LEMMA BoxFacts ==
  /\ \A q \in Queries : q # None /\ q \notin Links /\ q # Empty /\ q \notin Shorts
  /\ \A t \in Links : t # None /\ t # Empty /\ t \notin Shorts
  /\ \A t \in Shorts : t # None /\ t # Empty
  /\ \A q \in Queries, m \in Modes : <<q, m>> # None
  /\ \A r \in Box!Shown : r # None
  /\ \A r \in Box!Cursors : r # None
  /\ \A r \in Box!Searches : r # None
  /\ \A r \in Box!Deeper : r # None
  /\ Empty # None /\ MAX_SEARCH_PAGES \in Nat
BY BoxAssumption DEF Box!SearchBoxAssumption

\* What an edit leaves in flight.
LEMMA StaleMore ==
  ASSUME BoxTypes, more' = Box!Stale
  PROVE  more' \in Box!Deeper \cup {None} /\ ~Heeded'
         /\ (more' # None => more # None /\ more'.token = more.token /\ more'.q = more.q
                             /\ more'.page = more.page)
<1>1. CASE more = None
  BY <1>1 DEF Box!Stale, Heeded
<1>2. CASE more # None
  <2>1. more \in Box!Deeper
    BY <1>2 DEF BoxTypes
  <2>2. /\ more' = [more EXCEPT !.fresh = FALSE] /\ more' \in Box!Deeper
        /\ more'.fresh = FALSE /\ more'.token = more.token /\ more'.q = more.q
        /\ more'.page = more.page
    BY <1>2, <2>1 DEF Box!Stale, Box!Deeper
  <2> QED
    BY <1>2, <2>2 DEF Heeded
<1> QED
  BY <1>1, <1>2

LEMMA LittleKeepsTheBox ==
  ASSUME BoxInv, NEW text \in Box!Texts, Box!TypeLittle(text)
  PROVE  BoxInv'
<1>1. BoxTypes'
  BY DEF BoxInv, BoxTypes, Box!TypeLittle, Box!Edit, Box!Cancel, Box!ClearRows, Box!NoRows, Box!NoPool
<1>2. text \notin Queries /\ text \notin Links
  BY BoxFacts DEF Box!TypeLittle
<1>3. TimersInv' /\ PagingInv' /\ RowsInv'
  BY <1>2 DEF BoxInv, TimersInv, PagingInv, RowsInv, Heeded, Box!TypeLittle, Box!Edit, Box!Cancel,
     Box!ClearRows, Box!NoRows, Box!NoPool, Box!CursorBelongsToItsQuery
<1> QED
  BY <1>1, <1>3 DEF BoxInv

LEMMA PasteKeepsTheBox ==
  ASSUME BoxInv, NEW text \in Box!Texts, Box!Paste(text)
  PROVE  BoxInv'
<1>1. /\ more' \in Box!Deeper \cup {None} /\ ~Heeded'
      /\ (more' # None => more # None /\ more'.token = more.token /\ more'.q = more.q
                          /\ more'.page = more.page)
  BY StaleMore DEF BoxInv, Box!Paste, Box!Bump
<1>2. text \in Links /\ text \notin Queries
  BY BoxFacts DEF Box!Paste
<1>3. Box!Rows(None, None, text) \in Box!Shown
  BY DEF Box!Rows, Box!Shown
<1>4. BoxTypes'
  BY <1>1, <1>3 DEF BoxInv, BoxTypes, Box!Paste, Box!Edit, Box!Cancel, Box!Bump, Box!NoPool
<1>5. TimersInv' /\ PagingInv' /\ RowsInv'
  BY <1>1, <1>2 DEF BoxInv, TimersInv, PagingInv, RowsInv, Box!Paste, Box!Edit, Box!Cancel,
     Box!Bump, Box!NoPool, Box!CursorBelongsToItsQuery
<1> QED
  BY <1>4, <1>5 DEF BoxInv

LEMMA NarrowingKeepsTheBox ==
  ASSUME BoxInv, NEW text \in Box!Texts, Box!TypeNarrowing(text)
  PROVE  BoxInv'
<1>1. /\ more' \in Box!Deeper \cup {None} /\ ~Heeded'
      /\ (more' # None => more # None /\ more'.token = more.token /\ more'.q = more.q
                          /\ more'.page = more.page)
  BY StaleMore DEF BoxInv, Box!TypeNarrowing, Box!Bump
<1>2. text \in Queries /\ text \notin Links /\ text # None /\ held.q # None
  BY BoxFacts DEF Box!TypeNarrowing, Box!Filter
<1>3. Box!Rows(held.q, held.mode, text) \in Box!Shown
      /\ Box!Rows(held.q, held.mode, text).for = text
  BY DEF BoxInv, BoxTypes, Box!Rows, Box!Shown
<1>4. BoxTypes'
  BY <1>1, <1>2, <1>3 DEF BoxInv, BoxTypes, Box!TypeNarrowing, Box!Edit, Box!Cancel, Box!Bump
<1>5. TimersInv' /\ PagingInv' /\ RowsInv'
  BY <1>1, <1>2, <1>3 DEF BoxInv, TimersInv, PagingInv, RowsInv, Box!TypeNarrowing, Box!Edit,
     Box!Cancel, Box!Bump, Box!CursorBelongsToItsQuery
<1> QED
  BY <1>4, <1>5 DEF BoxInv

LEMMA MoreTextKeepsTheBox ==
  ASSUME BoxInv, NEW text \in Box!Texts, Box!TypeMore(text)
  PROVE  BoxInv'
<1>1. text \in Queries /\ text \notin Links
  BY BoxFacts DEF Box!TypeMore
<1>2. BoxTypes'
  BY <1>1 DEF BoxInv, BoxTypes, Box!TypeMore, Box!Edited, Box!screen, Box!requests
<1>3. TimersInv' /\ PagingInv' /\ RowsInv'
  BY <1>1 DEF BoxInv, TimersInv, PagingInv, RowsInv, Heeded, Merging, Box!TypeMore, Box!Edited,
     Box!screen, Box!requests, Box!CursorBelongsToItsQuery
<1> QED
  BY <1>2, <1>3 DEF BoxInv

\* A search for the text in the box, by whatever sets it off.
LEMMA SearchKeepsTheBox ==
  ASSUME BoxInv, NEW asTyped \in BOOLEAN, NEW retried \in BOOLEAN, input \in Queries,
         Box!RunSearch(input, asTyped, retried), UNCHANGED <<input, mode, held, filterQuery>>,
         pending' \in {None, input}, debounce' \in {None, input},
         \/ UNCHANGED <<rows, resultsOf, cursor, pages>>
         \/ rows' = None /\ resultsOf' = None /\ cursor' = None /\ pages' = 1
  PROVE  BoxInv'
<1>1. /\ more' \in Box!Deeper \cup {None} /\ ~Heeded'
      /\ (more' # None => more # None /\ more'.token = more.token /\ more'.q = more.q
                          /\ more'.page = more.page)
  BY StaleMore DEF BoxInv, Box!RunSearch
<1>2. search' \in Box!Searches /\ search' # None /\ search'.q = input
  <2>1. mode \in Modes
    BY DEF BoxInv, BoxTypes
  <2>2. search' \in Box!Searches /\ search'.q = input
    BY <2>1 DEF Box!RunSearch, Box!Searches
  <2> QED
    BY <2>2, BoxFacts
<1>3. loading' = TRUE /\ again' = None /\ awaiting' \in {None, awaiting} /\ input \notin Links
  BY BoxFacts DEF Box!RunSearch
<1>4. BoxTypes'
  BY <1>1, <1>2, <1>3 DEF BoxInv, BoxTypes
<1>5. TimersInv' /\ PagingInv' /\ RowsInv'
  BY <1>1, <1>2, <1>3 DEF BoxInv, TimersInv, PagingInv, RowsInv, Box!CursorBelongsToItsQuery
<1> QED
  BY <1>4, <1>5 DEF BoxInv

\* The timers and the taps.
LEMMA TimersKeepTheBox ==
  ASSUME BoxInv, Box!Debounced \/ Box!Idle \/ Box!Enter \/ Box!Retry \/ Box!SearchAgain
  PROVE  BoxInv'
<1>1. /\ debounce \in {None, input} /\ pending \in {None, input}
      /\ debounce \in Queries \cup {None} /\ pending \in Queries \cup {None}
      /\ again \in Queries \cup {None}
  BY DEF BoxInv, BoxTypes, TimersInv
<1>2. CASE Box!Debounced
  <2>1. /\ debounce = input /\ input \in Queries /\ Box!RunSearch(input, FALSE, FALSE)
        /\ debounce' = None /\ pending' = pending
        /\ UNCHANGED <<input, mode, held, filterQuery, rows, resultsOf, cursor, pages>>
    BY <1>1, <1>2 DEF Box!Debounced, Box!screen, Box!trigger
  <2> QED
    BY <1>1, <2>1, SearchKeepsTheBox
<1>3. CASE Box!Idle
  <2>1. /\ pending' = pending
        /\ UNCHANGED <<input, mode, held, filterQuery, rows, resultsOf, cursor, pages>>
    BY <1>3 DEF Box!Idle, Box!screen
  <2>2. CASE Box!Fires(TRUE, missed)
    <3>1. /\ pending = input /\ input \in Queries /\ Box!RunSearch(input, TRUE, FALSE)
          /\ debounce' = None
      BY <1>1, <1>3, <2>2 DEF Box!Idle, Box!Fires
    <3> QED
      BY <1>1, <2>1, <3>1, SearchKeepsTheBox
  <2>3. CASE ~Box!Fires(TRUE, missed)
    <3>1. UNCHANGED <<debounce, again, loading, awaiting, search, more>>
      BY <1>3, <2>3 DEF Box!Idle, Box!requests
    <3> QED
      BY <2>1, <3>1 DEF BoxInv, BoxTypes, TimersInv, PagingInv, RowsInv, Heeded, Merging,
         Box!CursorBelongsToItsQuery
  <2> QED
    BY <2>2, <2>3, Zenon
<1>4. CASE Box!Enter
  <2>1. /\ pending' = input /\ input \in Queries
        /\ UNCHANGED <<input, mode, held, filterQuery, rows, resultsOf, cursor, pages>>
    BY <1>4 DEF Box!Enter, Box!screen
  <2>2. CASE Box!Key(input) # lastFired
    <3>1. Box!RunSearch(input, TRUE, FALSE) /\ debounce' = None
      BY <1>4, <2>2 DEF Box!Enter
    <3> QED
      BY <1>1, <2>1, <3>1, SearchKeepsTheBox
  <2>3. CASE Box!Key(input) = lastFired
    <3>1. UNCHANGED <<debounce, again, loading, awaiting, search, more>>
      BY <1>4, <2>3 DEF Box!Enter, Box!requests
    <3> QED
      BY <2>1, <3>1, BoxFacts DEF BoxInv, BoxTypes, TimersInv, PagingInv, RowsInv, Heeded, Merging,
         Box!CursorBelongsToItsQuery
  <2> QED
    BY <2>2, <2>3
<1>5. CASE Box!Retry
  <2>1. /\ debounce' = debounce /\ pending' = pending
        /\ UNCHANGED <<input, mode, held, filterQuery, rows, resultsOf, cursor, pages>>
    BY <1>5 DEF Box!Retry, Box!screen, Box!trigger
  <2>2. CASE input = again
    <3>1. input \in Queries /\ Box!RunSearch(input, TRUE, TRUE)
      BY <1>1, <1>5, <2>2 DEF Box!Retry
    <3> QED
      BY <1>1, <2>1, <3>1, SearchKeepsTheBox
  <2>3. CASE input # again
    <3>1. again' = None /\ UNCHANGED <<loading, awaiting, search, more>>
      BY <1>5, <2>3 DEF Box!Retry, Box!requests
    <3> QED
      BY <2>1, <3>1 DEF BoxInv, BoxTypes, TimersInv, PagingInv, RowsInv, Heeded, Merging,
         Box!CursorBelongsToItsQuery
  <2> QED
    BY <2>2, <2>3
<1>6. CASE Box!SearchAgain
  <2>1. /\ input \in Queries /\ Box!RunSearch(input, TRUE, FALSE)
        /\ debounce' = debounce /\ pending' = pending
        /\ UNCHANGED <<input, mode, held, filterQuery, rows, resultsOf, cursor, pages>>
    BY <1>6 DEF Box!SearchAgain, Box!screen, Box!trigger
  <2> QED
    BY <1>1, <2>1, SearchKeepsTheBox
<1> QED
  BY <1>2, <1>3, <1>4, <1>5, <1>6

\* The answers of a search.
LEMMA LandingKeepsTheBox ==
  ASSUME BoxInv, Box!Lands
  PROVE  BoxInv'
<1>1. search # None /\ search \in Box!Searches /\ search.q \in Queries /\ search.mode \in Modes
  <2>1. search # None /\ search \in Box!Searches
    BY DEF Box!Lands, Box!LiveRequired, Box!Deferred, Box!Answered, Box!Refused, Box!Landed,
       BoxInv, BoxTypes
  <2> QED
    BY <2>1 DEF Box!Searches
<1>2. /\ ~Heeded /\ input \notin Links
      /\ (input \in Queries => search.q = input \/ debounce = input)
      /\ debounce \in {None, input} /\ pending \in {None, input}
  BY <1>1 DEF BoxInv, PagingInv, RowsInv, TimersInv
<1>3. CASE Box!LiveRequired
  <2>1. /\ rows' = None /\ resultsOf' = None /\ cursor' = None /\ pages' = 1
        /\ UNCHANGED <<input, mode, held, filterQuery, pending>>
    BY <1>3 DEF Box!LiveRequired, Box!Restarted, Box!NoRows
  <2>2. CASE search.q = pending /\ Box!Fires(idleElapsed, TRUE)
    <3>1. input = pending /\ input \in Queries
      BY <1>1, <1>2, <2>2, BoxFacts
    <3>2. debounce' = None /\ Box!RunSearch(input, TRUE, FALSE)
      BY <1>3, <2>2, <3>1 DEF Box!LiveRequired
    <3> QED
      BY <1>2, <2>1, <3>1, <3>2, SearchKeepsTheBox
  <2>3. CASE ~(search.q = pending /\ Box!Fires(idleElapsed, TRUE))
    <3>1. /\ awaiting' = search.q /\ search' = None /\ loading' = FALSE
          /\ UNCHANGED <<debounce, again, more>>
      BY <1>3, <2>3 DEF Box!LiveRequired
    <3> QED
      BY <1>1, <1>2, <2>1, <3>1 DEF BoxInv, BoxTypes, TimersInv, PagingInv, RowsInv, Heeded,
         Box!CursorBelongsToItsQuery
  <2> QED
    BY <2>2, <2>3
<1>4. CASE ~Box!LiveRequired
  <2>1. /\ search' = None /\ loading' = FALSE
        /\ UNCHANGED <<input, mode, debounce, more>>
    BY <1>4 DEF Box!Lands, Box!Deferred, Box!Answered, Box!Refused, Box!Landed
  <2>2. CASE Box!Deferred
    <3>1. /\ cursor' = None /\ pages' = 1 /\ UNCHANGED <<rows, held, filterQuery, resultsOf, pending>>
          /\ awaiting' = search.q /\ again' \in {again, search.q}
      BY <2>2 DEF Box!Deferred, Box!Restarted
    <3>2. BoxTypes'
      BY <1>1, <2>1, <3>1 DEF BoxInv, BoxTypes
    <3>3. TimersInv' /\ PagingInv' /\ RowsInv'
      BY <1>1, <1>2, <2>1, <3>1 DEF BoxInv, TimersInv, PagingInv, RowsInv, Heeded,
         Box!CursorBelongsToItsQuery
    <3> QED
      BY <3>2, <3>3 DEF BoxInv
  <2>3. CASE Box!Refused
    <3>1. /\ rows' = None /\ held' = Box!NoPool /\ filterQuery' = None /\ resultsOf' = None
          /\ cursor' \in {None, cursor} /\ pages' \in {1, pages}
          /\ pending' \in {None, pending} /\ UNCHANGED <<awaiting, again>>
      BY <2>3 DEF Box!Refused, Box!Restarted, Box!NoRows, Box!Cancel
    <3>2. BoxTypes'
      <4>1. pages' \in Nat /\ pending' \in Queries \cup {None} /\ cursor' \in Box!Cursors \cup {None}
        BY <3>1 DEF BoxInv, BoxTypes
      <4> QED
        BY <1>1, <2>1, <3>1, <4>1 DEF BoxInv, BoxTypes, Box!NoPool
    <3>3. TimersInv' /\ PagingInv' /\ RowsInv'
      BY <1>1, <1>2, <2>1, <3>1 DEF BoxInv, TimersInv, PagingInv, RowsInv, Heeded, Box!NoPool,
         Box!CursorBelongsToItsQuery
    <3> QED
      BY <3>2, <3>3 DEF BoxInv
  <2>4. CASE Box!Answered
    <3> DEFINE of == <<search.q, search.mode>>
    <3>1. PICK some \in BOOLEAN :
            /\ held' = [q |-> search.q, mode |-> search.mode, rows |-> some]
            /\ rows' = IF some THEN Box!Rows(search.q, search.mode, search.q) ELSE None
      BY <2>4 DEF Box!Answered, Box!NoRows
    <3>2. /\ cursor' \in {None, [of |-> of, page |-> 2]} /\ pages' = 1 /\ resultsOf' = of
          /\ filterQuery' = search.q /\ awaiting' = None /\ again' = again
          /\ pending' \in {None, pending}
      BY <2>4 DEF Box!Answered, Box!Cancel, Box!trigger
    <3>3. /\ of \in Queries \X Modes /\ [of |-> of, page |-> 2] \in Box!Cursors
          /\ held' \in [q : Queries \cup {None}, mode : Modes \cup {None}, rows : BOOLEAN]
          /\ held'.q = search.q
      BY <1>1, <3>1 DEF Box!Cursors
    <3>4. rows' \in Box!Shown \cup {None} /\ (rows' # None => rows'.for = search.q)
      BY <1>1, <3>1 DEF Box!Rows, Box!Shown, Box!Texts
    <3>5. cursor' # None => cursor'.of = of /\ cursor'.page = 2
      BY <3>2
    <3> HIDE DEF of
    <3>6. BoxTypes'
      BY <1>1, <2>1, <3>2, <3>3, <3>4 DEF BoxInv, BoxTypes
    <3>7. TimersInv' /\ PagingInv' /\ RowsInv'
      BY <1>1, <1>2, <2>1, <3>2, <3>3, <3>4, <3>5, BoxFacts DEF BoxInv, TimersInv, PagingInv,
         RowsInv, Heeded, Box!CursorBelongsToItsQuery
    <3> QED
      BY <3>6, <3>7 DEF BoxInv
  <2> QED
    BY <1>4, <2>2, <2>3, <2>4 DEF Box!Lands
<1> QED
  BY <1>3, <1>4

\* A load-more leaves, with the cursor of what is on the screen.
LEMMA LoadMoreKeepsTheBox ==
  ASSUME BoxInv, Box!LoadMore
  PROVE  BoxInv'
<1>1. /\ UNCHANGED <<input, mode, rows, held, filterQuery, resultsOf, cursor, pages, awaiting, loading>>
      /\ UNCHANGED <<debounce, again, pending, search>>
      /\ ~loading /\ filterQuery \in {None, input} /\ resultsOf # None /\ cursor # None
      /\ pages < MAX_SEARCH_PAGES
      /\ more' = [q |-> resultsOf, token |-> cursor, page |-> pages + 1, fresh |-> TRUE]
  BY DEF Box!LoadMore, Box!screen, Box!trigger
<1>2. /\ resultsOf \in Queries \X Modes /\ cursor \in Box!Cursors /\ pages \in Nat
      /\ cursor.of = resultsOf /\ cursor.page = pages + 1
      /\ search = None /\ filterQuery = input /\ held.q # None /\ filterQuery # None
      /\ filterQuery \in Queries
  BY <1>1 DEF BoxInv, BoxTypes, PagingInv
<1>3. /\ more' \in Box!Deeper /\ more'.q = resultsOf /\ more'.token = cursor
      /\ more'.page = pages + 1
  BY <1>1, <1>2 DEF Box!Deeper
<1>4. pages + 1 <= MAX_SEARCH_PAGES
  BY <1>1, <1>2, BoxFacts
<1>5. BoxTypes' /\ TimersInv'
  BY <1>1, <1>3 DEF BoxInv, BoxTypes, TimersInv
<1>6. PagingInv' /\ RowsInv'
  BY <1>1, <1>2, <1>3, <1>4, BoxFacts DEF BoxInv, PagingInv, RowsInv, Heeded, Merging,
     Box!CursorBelongsToItsQuery
<1> QED
  BY <1>5, <1>6 DEF BoxInv

\* It lands: what it merges is narrowed to what the box says.
LEMMA MoreLandsKeepsTheBox ==
  ASSUME BoxInv, Box!MoreLands
  PROVE  BoxInv'
<1>1. /\ more # None /\ more' = None
      /\ UNCHANGED <<input, mode, awaiting, loading, debounce, again, pending, search>>
  BY DEF Box!MoreLands, Box!trigger
<1>2. /\ more \in Box!Deeper /\ more.q \in Queries \X Modes /\ more.page \in Nat
      /\ more.q[1] \in Queries
  <2>1. more \in Box!Deeper
    BY <1>1 DEF BoxInv, BoxTypes
  <2> QED
    BY <2>1 DEF Box!Deeper
<1>3. CASE UNCHANGED <<rows, held, filterQuery, resultsOf, pages>> /\ cursor' \in {None, cursor}
  BY <1>1, <1>3 DEF BoxInv, BoxTypes, TimersInv, PagingInv, RowsInv, Heeded,
     Box!CursorBelongsToItsQuery
<1>4. ASSUME ~(UNCHANGED <<rows, held, filterQuery, resultsOf, pages>> /\ cursor' \in {None, cursor})
      PROVE  BoxInv'
  <2>1. /\ Heeded /\ held' = [held EXCEPT !.rows = TRUE]
        /\ rows' = Box!Rows(held.q, held.mode, Merging)
        /\ cursor' \in {None, [of |-> more.q, page |-> more.page + 1]}
        /\ pages' = pages + 1 /\ UNCHANGED <<filterQuery, resultsOf>>
    BY <1>1, <1>4 DEF Box!MoreLands, Box!screen, Heeded, Merging
  <2>2. /\ filterQuery \in Queries \cup {None} /\ held.q \in Queries \cup {None}
        /\ held.mode \in Modes \cup {None} /\ pages \in Nat
        /\ held' \in [q : Queries \cup {None}, mode : Modes \cup {None}, rows : BOOLEAN]
        /\ held'.q = held.q
    BY <2>1 DEF BoxInv, BoxTypes
  <2>3. Merging \in Queries
    BY <1>2, <2>2 DEF Merging
  <2>4. rows' \in Box!Shown /\ rows'.for = Merging
    BY <2>1, <2>2, <2>3 DEF Box!Rows, Box!Shown, Box!Texts
  <2>5. /\ cursor' \in Box!Cursors \cup {None}
        /\ cursor' # None => cursor'.of = more.q /\ cursor'.page = more.page + 1
    BY <1>2, <2>1 DEF Box!Cursors
  <2>6. /\ input \notin Links
        /\ resultsOf # None => more.q = resultsOf /\ more.page = pages + 1
        /\ input \in Queries => debounce = input \/ Merging = input
        /\ search = None
    BY <2>1 DEF BoxInv, PagingInv, RowsInv
  <2>7. BoxTypes' /\ TimersInv'
    BY <1>1, <2>1, <2>2, <2>4, <2>5 DEF BoxInv, BoxTypes, TimersInv
  <2>8. PagingInv' /\ RowsInv'
    BY <1>1, <2>1, <2>2, <2>4, <2>5, <2>6 DEF BoxInv, PagingInv, RowsInv, Heeded,
       Box!CursorBelongsToItsQuery
  <2> QED
    BY <2>7, <2>8 DEF BoxInv
<1> QED
  BY <1>3, <1>4

\* The chooser.
LEMMA ChoosingKeepsTheBox ==
  ASSUME BoxInv, Box!SetMode
  PROVE  BoxInv'
BY DEF BoxInv, BoxTypes, TimersInv, PagingInv, RowsInv, Heeded, Merging, Box!SetMode, Box!screen,
   Box!trigger, Box!requests, Box!CursorBelongsToItsQuery

LEMMA BoxGoesOn == BoxInv /\ [Box!Next]_boxVars => BoxInv'
<1> SUFFICES ASSUME BoxInv, [Box!Next]_boxVars PROVE BoxInv'
  OBVIOUS
<1>1. CASE Box!Next
  <2>1. ASSUME NEW text \in Box!Texts,
               \/ Box!TypeLittle(text) \/ Box!Paste(text)
               \/ Box!TypeNarrowing(text) \/ Box!TypeMore(text)
        PROVE  BoxInv'
    BY <2>1, LittleKeepsTheBox, PasteKeepsTheBox, NarrowingKeepsTheBox, MoreTextKeepsTheBox
  <2> QED
    BY <1>1, <2>1, TimersKeepTheBox, LandingKeepsTheBox, LoadMoreKeepsTheBox,
       MoreLandsKeepsTheBox, ChoosingKeepsTheBox DEF Box!Next
<1>2. CASE UNCHANGED boxVars
  BY <1>2 DEF boxVars, BoxInv, BoxTypes, TimersInv, PagingInv, RowsInv, Heeded, Merging,
     Box!CursorBelongsToItsQuery
<1> QED
  BY <1>1, <1>2

\* A search goes out for the text in the box.
LEMMA SearchesAreForTheInput ==
  ASSUME BoxInv, Box!Next
  PROVE  /\ search' # search /\ search' # None /\ search'.live => search'.q = input
         /\ mode' # mode => UNCHANGED Box!requests
<1>1. /\ debounce \in {None, input} /\ pending \in {None, input}
  BY DEF BoxInv, TimersInv
<1>2. ASSUME NEW q, NEW asTyped \in BOOLEAN, NEW retried \in BOOLEAN, Box!RunSearch(q, asTyped, retried)
      PROVE  search'.q = q /\ search'.live = asTyped
  BY <1>2 DEF Box!RunSearch
<1>3. ASSUME NEW text \in Box!Texts,
             \/ Box!TypeLittle(text) \/ Box!Paste(text)
             \/ Box!TypeNarrowing(text) \/ Box!TypeMore(text)
      PROVE  mode' = mode /\ (search' = None \/ search' = search)
  BY <1>3 DEF Box!TypeLittle, Box!Paste, Box!TypeNarrowing, Box!TypeMore, Box!Edit, Box!Bump,
     Box!requests
<1>4. CASE Box!Debounced
  BY <1>2, <1>4 DEF Box!Debounced
<1>5. CASE Box!Idle
  <2>1. mode' = mode
    BY <1>5 DEF Box!Idle
  <2>2. CASE Box!Fires(TRUE, missed)
    <3>1. Box!RunSearch(pending, TRUE, FALSE)
      BY <1>5, <2>2, Zenon DEF Box!Idle
    <3>2. pending = input
      BY <1>1, <2>2 DEF Box!Fires
    <3> QED
      BY <1>2, <2>1, <3>1, <3>2
  <2>3. CASE ~Box!Fires(TRUE, missed)
    BY <1>5, <2>1, <2>3 DEF Box!Idle, Box!requests
  <2> QED
    BY <2>2, <2>3, Zenon
<1>6. CASE Box!Enter
  <2>1. mode' = mode /\ (search' = search \/ Box!RunSearch(input, TRUE, FALSE))
    BY <1>6 DEF Box!Enter, Box!requests
  <2> QED
    BY <1>2, <2>1
<1>7. CASE Box!Retry
  <2>1. mode' = mode
    BY <1>7 DEF Box!Retry
  <2>2. CASE input = again
    <3>1. Box!RunSearch(again, TRUE, TRUE)
      BY <1>7, <2>2, Zenon DEF Box!Retry
    <3> QED
      BY <1>2, <2>1, <2>2, <3>1
  <2>3. CASE input # again
    BY <1>7, <2>1, <2>3 DEF Box!Retry, Box!requests
  <2> QED
    BY <2>2, <2>3
<1>8. CASE Box!SearchAgain
  BY <1>2, <1>8 DEF Box!SearchAgain
<1>9. CASE Box!LiveRequired
  <2>1. mode' = mode /\ (search' = None \/
          (pending # None /\ Box!RunSearch(pending, TRUE, FALSE)))
    BY <1>9 DEF Box!LiveRequired, Box!Fires
  <2> QED
    BY <1>1, <1>2, <2>1
<1>10. CASE Box!Deferred \/ Box!Answered \/ Box!Refused
  BY <1>10 DEF Box!Deferred, Box!Answered, Box!Refused, Box!Landed
<1>11. CASE Box!SetMode \/ Box!LoadMore \/ Box!MoreLands
  BY <1>11 DEF Box!SetMode, Box!LoadMore, Box!MoreLands, Box!requests
<1> QED
  BY <1>3, <1>4, <1>5, <1>6, <1>7, <1>8, <1>9, <1>10, <1>11 DEF Box!Next, Box!Lands

\* Whatever order edits, timers and answers come in, the rows, the cursor and the billed
\* searches belong to the text in the box (SongSearch.tsx).
THEOREM TheBoxIsConsistent == ScreensSpec => BoxIsConsistent
<1>1. ScreensInit => BoxInv
  <2> SUFFICES ASSUME Box!Init PROVE BoxInv
    BY DEF ScreensInit
  <2> QED
    BY BoxFacts DEF Box!Init, BoxInv, BoxTypes, TimersInv, PagingInv, RowsInv, Heeded,
       Box!NoRows, Box!NoPool, Box!Texts, Box!CursorBelongsToItsQuery
<1>2. [ScreensNext]_screensVars => [Box!Next]_boxVars
  BY DEF ScreensNext, Playing, Drawing, Picking, Hosting, Entering, LookingUp, Typing, Guessing,
     screensVars
<1>3. BoxInv /\ [ScreensNext]_screensVars => BoxInv'
  BY <1>2, BoxGoesOn
<1>4. BoxInv => (part = "box" => Box!RowsAnswerTheInput /\ Box!CursorBelongsToItsQuery)
  <2> SUFFICES ASSUME BoxInv PROVE Box!RowsAnswerTheInput /\ Box!CursorBelongsToItsQuery
    OBVIOUS
  <2> QED
    BY BoxFacts DEF BoxInv, TimersInv, PagingInv, RowsInv, Box!RowsAnswerTheInput, Box!Settled,
       Box!NoRows
<1>5. BoxInv /\ [ScreensNext]_screensVars =>
        [/\ search' # search /\ search' # None /\ search'.live => search'.q = input
         /\ mode' # mode => UNCHANGED Box!requests]_(Box!vars)
  <2> SUFFICES ASSUME BoxInv, [Box!Next]_boxVars
               PROVE  [/\ search' # search /\ search' # None /\ search'.live => search'.q = input
                       /\ mode' # mode => UNCHANGED Box!requests]_(Box!vars)
    BY <1>2
  <2>1. CASE Box!Next
    BY <2>1, SearchesAreForTheInput
  <2>2. CASE UNCHANGED boxVars
    BY <2>2 DEF boxVars, Box!vars, Box!screen, Box!trigger, Box!requests
  <2> QED
    BY <2>1, <2>2
<1> QED
  BY <1>1, <1>3, <1>4, <1>5, PTL DEF ScreensSpec, BoxIsConsistent, Box!BillsOnlyWhatIsTyped

-----------------------------------------------------------------------------
(* Whoever guesses.  The wrong codes of a client that were looked at are    *)
(* counted, or about to be counted by its requests, or were lost with a     *)
(* failed command; so a request that finds the counter low enough adds one  *)
(* to a sum that the requests in flight bound.                              *)

LoginKey(c) ==
  <<"login", IF host = "elsewhere" THEN Throttles!Unknown
             ELSE Throttles!Normalise(CHOOSE a \in AddressesOf[c] : TRUE)>>
CallSteps == {"idle", "check", "verify", "register", "reset"}

Attempts ==
  [at : CallSteps, kind : {"login", "claim", None}, client : Clients \cup {None},
   key : Throttles!Keys \cup {None}]

SoundCall(a) ==
  /\ a \in Attempts
  /\ a.at # "idle" => a.key \in Throttles!Keys /\ a.client \in Clients
  /\ a.at # "idle" /\ a.kind = "login" => a.key = LoginKey(a.client)

\* The login requests of a client that are at a step.
At(a, c, step) == a.at = step /\ a.kind = "login" /\ a.client = c
LoginsAt(c, step) == {p \in Calls : At(attempt[p], c, step)}
Waiting(c, step) == Cardinality(LoginsAt(c, step))

One(condition) == IF condition THEN 1 ELSE 0

ThrottleTypes ==
  /\ host \in {"vercel", "proxy", "elsewhere"}
  /\ now \in Nat /\ faults \in Nat /\ revokes \in Nat
  /\ count \in [Throttles!Keys -> Nat] /\ ends \in [Throttles!Keys -> Nat \cup {None}]
  /\ guesses \in [Clients -> Nat]
  /\ DOMAIN attempt = Calls /\ \A p \in Calls : SoundCall(attempt[p])

GuessInv ==
  \A c \in Clients :
    /\ guesses[c] <= count[LoginKey(c)] + Waiting(c, "register") + faults
    /\ guesses[c] + Waiting(c, "verify") <= MAX_FAILURES + Cardinality(Calls) - 1 + faults

RevokeInv ==
  revokes <= count[Throttles!RevokeKey] + faults /\ revokes <= REVOKE_MAX + faults

ThrottleInv == ThrottleTypes /\ GuessInv /\ RevokeInv /\ Throttles!CountersEnd

LEMMA ThrottleFacts ==
  /\ MAX_FAILURES \in Nat /\ MAX_FAILURES > 0 /\ REVOKE_MAX \in Nat
  /\ WINDOW \in Nat /\ WINDOW > 0
  /\ IsFiniteSet(Calls) /\ Cardinality(Calls) \in Nat
  /\ \A n \in Nat : n # None
<1>1. /\ \A S : Throttles!IsFiniteSet(S) <=> IsFiniteSet(S)
  BY DEF Throttles!IsFiniteSet, IsFiniteSet
<1>2. /\ MAX_FAILURES \in Nat /\ MAX_FAILURES > 0 /\ REVOKE_MAX \in Nat
      /\ WINDOW \in Nat /\ WINDOW > 0
      /\ IsFiniteSet(Calls) /\ \A n \in Nat : n # None
  BY <1>1, ThrottlesAssumption DEF Throttles!FailureCounterAssumption
<1> QED
  BY <1>2, FS_CardinalityType

\* Whatever a client writes into the headers, its login key is its network's.
LEMMA HeadersDoNotHide ==
  ASSUME host \in {"vercel", "proxy", "elsewhere"},
         NEW c \in Clients, NEW h \in Throttles!Carries(c)
  PROVE  /\ <<"login", Throttles!ClientIpFrom(h)>> = LoginKey(c)
         /\ Throttles!ClientIpFrom(h) \in Throttles!Buckets
<1> DEFINE home == CHOOSE a \in AddressesOf[c] : TRUE
<1>1. home \in AddressesOf[c] /\ \A a \in AddressesOf[c] :
        Throttles!Normalise(a) = Throttles!Normalise(home)
  BY ThrottlesAssumption DEF Throttles!FailureCounterAssumption
<1>2. /\ h \in [Throttles!Headers -> AddressesOf[c] \cup Forged]
      /\ host = "vercel" => h["real-ip"] \in AddressesOf[c]
      /\ host = "proxy" => h["forwarded-for"] \in AddressesOf[c]
  BY DEF Throttles!Carries
<1>3. \A a \in AddressesOf[c] : Throttles!Normalise(a) \in Throttles!Buckets
  BY DEF Throttles!Buckets
<1>4. Throttles!Unknown \in Throttles!Buckets
  BY DEF Throttles!Buckets
<1> HIDE DEF home
<1>5. CASE host = "vercel"
  <2>1. Throttles!ClientIpFrom(h) = Throttles!Normalise(h["real-ip"])
    BY <1>5 DEF Throttles!ClientIpFrom, Throttles!FirstTrusted
  <2> QED
    BY <1>1, <1>2, <1>3, <1>5, <2>1 DEF LoginKey, home
<1>6. CASE host = "proxy"
  <2>1. Throttles!ClientIpFrom(h) = Throttles!Normalise(h["forwarded-for"])
    BY <1>6 DEF Throttles!ClientIpFrom
  <2> QED
    BY <1>1, <1>2, <1>3, <1>6, <2>1 DEF LoginKey, home
<1>7. CASE host = "elsewhere"
  <2>1. Throttles!ClientIpFrom(h) = Throttles!Unknown
    BY <1>7 DEF Throttles!ClientIpFrom
  <2> QED
    BY <1>4, <1>7, <2>1 DEF LoginKey
<1> QED
  BY <1>5, <1>6, <1>7

\* The requests of a client at a step are finitely many.
LEMMA WaitingIsCounted ==
  ASSUME NEW c, NEW step
  PROVE  /\ IsFiniteSet(LoginsAt(c, step)) /\ LoginsAt(c, step) \subseteq Calls
         /\ Waiting(c, step) \in Nat /\ Waiting(c, step) <= Cardinality(Calls)
<1>1. LoginsAt(c, step) \subseteq Calls
  BY DEF LoginsAt
<1> QED
  BY <1>1, ThrottleFacts, FS_Subset, FS_CardinalityType DEF Waiting

\* A request moves from one step to another.
LEMMA OneCallMoves ==
  ASSUME DOMAIN attempt = Calls, NEW p \in Calls, NEW q, attempt' = [attempt EXCEPT ![p] = q]
  PROVE  \A c \in Clients, step \in CallSteps :
           Waiting(c, step)' = Waiting(c, step) - One(At(attempt[p], c, step)) + One(At(q, c, step))
<1> TAKE c \in Clients, step \in CallSteps
<1> DEFINE S == LoginsAt(c, step)
           T == S \ {p}
<1>1. IsFiniteSet(S) /\ Cardinality(S) \in Nat
  BY WaitingIsCounted DEF Waiting
<1>2. /\ IsFiniteSet(T) /\ p \notin T
      /\ Cardinality(T) = IF p \in S THEN Cardinality(S) - 1 ELSE Cardinality(S)
  BY <1>1, FS_RemoveElement
<1>3. /\ IsFiniteSet(T \cup {p}) /\ Cardinality(T \cup {p}) = Cardinality(T) + 1
  BY <1>2, FS_AddElement
<1>4. LoginsAt(c, step)' = IF At(q, c, step) THEN T \cup {p} ELSE T
  <2>1. /\ attempt'[p] = q /\ \A r \in Calls \ {p} : attempt'[r] = attempt[r]
    OBVIOUS
  <2> QED
    BY <2>1 DEF LoginsAt, At
<1>5. p \in S <=> At(attempt[p], c, step)
  BY DEF LoginsAt
<1>6. Cardinality(T) \in Nat
  BY <1>2, FS_CardinalityType
<1> HIDE DEF S, T
<1>7. Waiting(c, step) = Cardinality(S) /\ Waiting(c, step)' = Cardinality(LoginsAt(c, step)')
  BY DEF Waiting, S
<1> QED
  BY <1>1, <1>2, <1>3, <1>4, <1>5, <1>6, <1>7 DEF One

\* The requests that are checked, verified and counted are different ones.
LEMMA CallsAreShared ==
  ASSUME NEW c, NEW p \in Calls, At(attempt[p], c, "check")
  PROVE  Waiting(c, "verify") + Waiting(c, "register") + 1 <= Cardinality(Calls)
<1> DEFINE V == LoginsAt(c, "verify")
           R == LoginsAt(c, "register")
<1>1. /\ IsFiniteSet(V) /\ Cardinality(V) \in Nat /\ V \subseteq Calls
      /\ IsFiniteSet(R) /\ Cardinality(R) \in Nat /\ R \subseteq Calls
  BY WaitingIsCounted DEF Waiting
<1>2. V \cap R = {} /\ p \notin V \cup R
  BY DEF LoginsAt, At
<1>3. IsFiniteSet(V \cup R) /\ Cardinality(V \cup R) = Cardinality(V) + Cardinality(R)
  <2>1. Cardinality(V \cap R) = 0
    BY <1>2, FS_EmptySet
  <2>2. /\ IsFiniteSet(V \cup R)
        /\ Cardinality(V \cup R) = Cardinality(V) + Cardinality(R) - Cardinality(V \cap R)
    BY <1>1, FS_Union
  <2> HIDE DEF V, R
  <2> QED
    BY <1>1, <2>1, <2>2
<1>4. Cardinality((V \cup R) \cup {p}) = Cardinality(V \cup R) + 1
  BY <1>2, <1>3, FS_AddElement
<1>5. Cardinality((V \cup R) \cup {p}) <= Cardinality(Calls)
  <2>1. (V \cup R) \cup {p} \in SUBSET Calls
    BY <1>1
  <2> HIDE DEF V, R
  <2> QED
    BY <2>1, ThrottleFacts, FS_Subset
<1>6. Waiting(c, "verify") = Cardinality(V) /\ Waiting(c, "register") = Cardinality(R)
  BY DEF Waiting
<1> HIDE DEF V, R
<1> QED
  BY <1>1, <1>3, <1>4, <1>5, <1>6

\* What is cleared with a counter.
LEMMA ClearedGuesses ==
  ASSUME guesses \in [Clients -> Nat], NEW gone,
         guesses' = [c \in Clients |-> IF \E k \in gone : c \in Throttles!CountedBy(k)
                                       THEN 0 ELSE guesses[c]]
  PROVE  /\ guesses' \in [Clients -> Nat]
         /\ \A c \in Clients : /\ guesses'[c] \in {0, guesses[c]}
                               /\ LoginKey(c) \in gone => guesses'[c] = 0
<1>1. \A c \in Clients : c \in Throttles!CountedBy(LoginKey(c))
  BY DEF Throttles!CountedBy, LoginKey
<1> QED
  BY <1>1

\* A request of p that is q from now on looks at one more code of c only as it counts one
\* more, or as a command fails, or because it has found the counter low enough.
Accounted(p, q, c) ==
  /\ guesses'[c] + One(At(attempt[p], c, "register")) + faults
       <= guesses[c] + One(At(q, c, "register")) + faults'
  /\ \/ guesses'[c] + One(At(q, c, "verify")) + faults
          <= guesses[c] + One(At(attempt[p], c, "verify")) + faults'
     \/ /\ At(attempt[p], c, "check") /\ count[LoginKey(c)] < MAX_FAILURES
        /\ guesses'[c] = guesses[c] /\ faults' = faults

\* A request takes a step, and no counter moves.
LEMMA CallStep ==
  ASSUME ThrottleInv, NEW p \in Calls, NEW q, SoundCall(q), attempt' = [attempt EXCEPT ![p] = q],
         UNCHANGED <<host, now, count, ends, revokes>>,
         guesses' \in [Clients -> Nat], faults' \in Nat, faults' >= faults,
         \A c \in Clients : Accounted(p, q, c)
  PROVE  ThrottleInv'
<1>1. /\ DOMAIN attempt = Calls /\ faults \in Nat /\ revokes \in Nat
      /\ guesses \in [Clients -> Nat] /\ count \in [Throttles!Keys -> Nat]
      /\ \A r \in Calls : SoundCall(attempt[r])
  BY DEF ThrottleInv, ThrottleTypes
<1>2. DOMAIN attempt' = Calls /\ \A r \in Calls : SoundCall(attempt[r])'
  <2>1. ASSUME NEW a, SoundCall(a) PROVE SoundCall(a)'
    BY <2>1 DEF SoundCall, LoginKey
  <2>2. ASSUME NEW r \in Calls PROVE SoundCall(attempt[r])'
    <3>1. attempt'[r] \in {q, attempt[r]}
      BY <1>1
    <3> QED
      BY <1>1, <2>1, <3>1 DEF SoundCall
  <2> QED
    BY <1>1, <2>2
<1>3. ThrottleTypes'
  BY <1>1, <1>2 DEF ThrottleInv, ThrottleTypes
<1>4. Throttles!CountersEnd'
  BY DEF ThrottleInv, Throttles!CountersEnd
<1>5. RevokeInv'
  <2>1. /\ REVOKE_MAX \in Nat
        /\ \A n, m, f, g \in Nat : n <= m + f /\ f <= g => n <= m + g
    BY ThrottleFacts
  <2>2. Throttles!RevokeKey \in Throttles!Keys
    BY DEF Throttles!RevokeKey, Throttles!Keys
  <2>3. revokes <= count[Throttles!RevokeKey] + faults /\ revokes <= REVOKE_MAX + faults
    BY DEF ThrottleInv, RevokeInv
  <2>4. count[Throttles!RevokeKey] \in Nat
    BY <1>1, <2>2
  <2> QED
    BY <1>1, <2>1, <2>3, <2>4 DEF RevokeInv
<1>6. GuessInv'
  <2> SUFFICES ASSUME NEW c \in Clients
               PROVE  /\ guesses'[c] <= count'[LoginKey(c)'] + Waiting(c, "register")' + faults'
                      /\ guesses'[c] + Waiting(c, "verify")'
                           <= MAX_FAILURES + Cardinality(Calls) - 1 + faults'
    BY DEF GuessInv
  <2> DEFINE n == count[LoginKey(c)]
  <2>1. count'[LoginKey(c)'] = n
    BY DEF LoginKey
  <2>2. n \in Nat
    <3>1. LoginKey(c) \in Throttles!Keys
      BY <1>1, ThrottlesAssumption DEF LoginKey, Throttles!Keys, Throttles!Buckets,
         Throttles!FailureCounterAssumption
    <3> QED
      BY <1>1, <3>1
  <2>3. /\ guesses[c] <= n + Waiting(c, "register") + faults
        /\ guesses[c] + Waiting(c, "verify") <= MAX_FAILURES + Cardinality(Calls) - 1 + faults
    BY DEF ThrottleInv, GuessInv
  <2>4. /\ Waiting(c, "register")' = Waiting(c, "register") - One(At(attempt[p], c, "register"))
                                                            + One(At(q, c, "register"))
        /\ Waiting(c, "verify")' = Waiting(c, "verify") - One(At(attempt[p], c, "verify"))
                                                        + One(At(q, c, "verify"))
    <3>1. \A step \in CallSteps :
            Waiting(c, step)' = Waiting(c, step) - One(At(attempt[p], c, step))
                                                 + One(At(q, c, step))
      BY <1>1, OneCallMoves, Zenon
    <3> QED
      BY <3>1, Zenon DEF CallSteps
  <2>5. At(attempt[p], c, "check") =>
          /\ Waiting(c, "verify") + Waiting(c, "register") + 1 <= Cardinality(Calls)
          /\ ~At(attempt[p], c, "verify")
    BY CallsAreShared DEF At
  <2>6. /\ Waiting(c, "register") \in Nat /\ Waiting(c, "verify") \in Nat
        /\ guesses[c] \in Nat /\ guesses'[c] \in Nat
        /\ MAX_FAILURES \in Nat /\ Cardinality(Calls) \in Nat
    BY <1>1, WaitingIsCounted, ThrottleFacts
  <2>7. \A b : One(b) \in {0, 1}
    BY DEF One
  <2>8. ~At(attempt[p], c, "verify") => One(At(attempt[p], c, "verify")) = 0
    BY DEF One
  <2>9. /\ guesses'[c] + One(At(attempt[p], c, "register")) + faults
             <= guesses[c] + One(At(q, c, "register")) + faults'
        /\ \/ guesses'[c] + One(At(q, c, "verify")) + faults
                <= guesses[c] + One(At(attempt[p], c, "verify")) + faults'
           \/ /\ At(attempt[p], c, "check") /\ n < MAX_FAILURES
              /\ guesses'[c] = guesses[c] /\ faults' = faults
    BY DEF Accounted
  <2>10. /\ One(At(attempt[p], c, "register")) \in {0, 1} /\ One(At(q, c, "register")) \in {0, 1}
         /\ One(At(attempt[p], c, "verify")) \in {0, 1} /\ One(At(q, c, "verify")) \in {0, 1}
    BY <2>7
  <2> HIDE DEF n
  <2>11. guesses'[c] <= n + Waiting(c, "register")' + faults'
    BY <1>1, <2>2, <2>3, <2>4, <2>6, <2>9, <2>10
  <2>12. guesses'[c] + Waiting(c, "verify")' <= MAX_FAILURES + Cardinality(Calls) - 1 + faults'
    <3>1. CASE guesses'[c] + One(At(q, c, "verify")) + faults
                 <= guesses[c] + One(At(attempt[p], c, "verify")) + faults'
      BY <1>1, <2>3, <2>4, <2>6, <2>10, <3>1
    <3>2. CASE /\ At(attempt[p], c, "check") /\ n < MAX_FAILURES
               /\ guesses'[c] = guesses[c] /\ faults' = faults
      BY <1>1, <2>2, <2>3, <2>4, <2>5, <2>6, <2>8, <2>10, <3>2
    <3> QED
      BY <2>9, <3>1, <3>2
  <2> QED
    BY <2>1, <2>11, <2>12
<1> QED
  BY <1>3, <1>4, <1>5, <1>6 DEF ThrottleInv

LEMMA AttemptFacts ==
  ASSUME NEW a, SoundCall(a), a.at # "idle", NEW step \in CallSteps
  PROVE  /\ SoundCall([a EXCEPT !.at = step])
         /\ \A c, s : At([a EXCEPT !.at = step], c, s) <=> s = step /\ At(a, c, a.at)
<1> DEFINE q == [a EXCEPT !.at = step]
<1>1. a \in Attempts
  BY DEF SoundCall
<1>2. q \in Attempts /\ q.at = step /\ q.kind = a.kind /\ q.client = a.client /\ q.key = a.key
  BY <1>1 DEF Attempts
<1> HIDE DEF q
<1>3. SoundCall(q)
  BY <1>2 DEF SoundCall
<1>4. \A c, s : At(q, c, s) <=> s = step /\ At(a, c, a.at)
  BY <1>2 DEF At
<1> QED
  BY <1>3, <1>4 DEF q

LEMMA NoCallFacts ==
  /\ SoundCall(Throttles!NoCall)
  /\ \A c, s : s # "idle" => ~At(Throttles!NoCall, c, s)
<1>1. Throttles!NoCall \in Attempts /\ Throttles!NoCall.at = "idle"
  BY DEF Throttles!NoCall, Attempts, CallSteps
<1> QED
  BY <1>1 DEF SoundCall, At

\* A request goes on to a step where it neither has a code looked at nor counts it.
LEMMA QuietStep ==
  ASSUME ThrottleInv, NEW p \in Calls, NEW q, SoundCall(q), attempt' = [attempt EXCEPT ![p] = q],
         UNCHANGED <<host, now, count, ends, guesses, revokes>>,
         faults' \in Nat, faults' >= faults,
         attempt[p].at = "register" => faults' = faults + 1,
         \A c \in Clients : ~At(q, c, "register"),
         \A c \in Clients : At(q, c, "verify") =>
           \/ faults' = faults + 1
           \/ faults' = faults /\ At(attempt[p], c, "check") /\ count[LoginKey(c)] < MAX_FAILURES
  PROVE  ThrottleInv'
<1>1. guesses \in [Clients -> Nat] /\ faults \in Nat
  BY DEF ThrottleInv, ThrottleTypes
<1>2. ASSUME NEW c \in Clients PROVE Accounted(p, q, c)
  <2>1. guesses[c] \in Nat
    BY <1>1
  <2>2. /\ One(At(q, c, "register")) = 0
        /\ One(At(attempt[p], c, "register")) \in {0, 1}
        /\ One(At(attempt[p], c, "verify")) \in {0, 1}
        /\ One(At(q, c, "verify")) \in {0, 1}
        /\ attempt[p].at # "register" => One(At(attempt[p], c, "register")) = 0
        /\ ~At(q, c, "verify") => One(At(q, c, "verify")) = 0
    BY DEF One, At
  <2>3. guesses'[c] + One(At(attempt[p], c, "register")) + faults
          <= guesses[c] + One(At(q, c, "register")) + faults'
    BY <1>1, <2>1, <2>2
  <2>4. CASE faults' = faults + 1 \/ ~At(q, c, "verify")
    BY <1>1, <2>1, <2>2, <2>3, <2>4 DEF Accounted
  <2>5. CASE faults' # faults + 1 /\ At(q, c, "verify")
    BY <2>3, <2>5 DEF Accounted
  <2> QED
    BY <2>4, <2>5
<1> QED
  BY <1>1, <1>2, CallStep

LEMMA FaultFacts ==
  ASSUME ThrottleInv, Throttles!Fault
  PROVE  faults' = faults + 1 /\ faults' \in Nat /\ faults' >= faults
BY DEF Throttles!Fault, ThrottleInv, ThrottleTypes

\* A request begins.
LEMMA CallsBegin ==
  ASSUME ThrottleInv, NEW p \in Calls, NEW c \in Clients,
         Throttles!Login(p, c) \/ Throttles!Claim(p, c)
  PROVE  ThrottleInv'
<1>1. /\ attempt[p].at = "idle" /\ host \in {"vercel", "proxy", "elsewhere"}
      /\ UNCHANGED <<host, now, count, ends, guesses, revokes, faults>> /\ faults \in Nat
  BY DEF ThrottleInv, ThrottleTypes, Throttles!Login, Throttles!Claim, Throttles!env,
     Throttles!counters, Throttles!said
<1>2. PICK h \in Throttles!Carries(c) :
        \/ attempt' = [attempt EXCEPT ![p] =
             [at |-> "check", kind |-> "login", client |-> c,
              key |-> <<"login", Throttles!ClientIpFrom(h)>>]]
        \/ attempt' = [attempt EXCEPT ![p] =
             [at |-> "verify", kind |-> "claim", client |-> c,
              key |-> <<"hostclaim", Throttles!ClientIpFrom(h)>>]]
  BY DEF Throttles!Login, Throttles!Claim
<1>3. /\ <<"login", Throttles!ClientIpFrom(h)>> = LoginKey(c)
      /\ Throttles!ClientIpFrom(h) \in Throttles!Buckets
  BY <1>1, HeadersDoNotHide
<1> DEFINE login == [at |-> "check", kind |-> "login", client |-> c,
                     key |-> <<"login", Throttles!ClientIpFrom(h)>>]
           claim == [at |-> "verify", kind |-> "claim", client |-> c,
                     key |-> <<"hostclaim", Throttles!ClientIpFrom(h)>>]
<1>4. login.key \in Throttles!Keys /\ claim.key \in Throttles!Keys
  BY <1>3 DEF Throttles!Keys
<1>5. SoundCall(login) /\ SoundCall(claim)
  BY <1>3, <1>4 DEF SoundCall, Attempts, CallSteps
<1>6. \A d \in Clients : /\ ~At(login, d, "register") /\ ~At(login, d, "verify")
                         /\ ~At(claim, d, "register") /\ ~At(claim, d, "verify")
  BY DEF At
<1>7. attempt' = [attempt EXCEPT ![p] = login] \/ attempt' = [attempt EXCEPT ![p] = claim]
  BY <1>2
<1> HIDE DEF login, claim
<1>8. PICK q \in {login, claim} : attempt' = [attempt EXCEPT ![p] = q]
  BY <1>7
<1>9. /\ SoundCall(q) /\ faults' \in Nat /\ faults' >= faults /\ attempt[p].at # "register"
      /\ \A d \in Clients : ~At(q, d, "register") /\ ~At(q, d, "verify")
  BY <1>1, <1>5, <1>6, <1>8
<1> QED
  BY <1>1, <1>8, <1>9, QuietStep

\* It finds the counter low, or the throttle out of order, and goes on, or is refused; a
\* right code, a lost command and a wrong claim leave the guesses as they are.
LEMMA QuietStepsAreSound ==
  ASSUME ThrottleInv, NEW p \in Calls,
         \/ Throttles!Check(p) \/ Throttles!CheckFails(p) \/ Throttles!Verified(p)
         \/ Throttles!CommandFails(p) \/ (Throttles!Wrong(p) /\ attempt[p].kind # "login")
  PROVE  ThrottleInv'
<1> DEFINE a == attempt[p]
           To(step) == [a EXCEPT !.at = step]
<1>1. SoundCall(a) /\ DOMAIN attempt = Calls /\ faults \in Nat
  BY DEF ThrottleInv, ThrottleTypes
<1>2. UNCHANGED <<host, now, count, ends, guesses, revokes>> /\ a.at # "idle"
  BY DEF Throttles!Check, Throttles!CheckFails, Throttles!Verified, Throttles!CommandFails,
     Throttles!Wrong, Throttles!env, Throttles!counters, Throttles!said
<1>3. /\ SoundCall(To("verify")) /\ SoundCall(To("register")) /\ SoundCall(To("reset"))
      /\ SoundCall(To("check"))
      /\ \A step \in CallSteps : \A c, s : At(To(step), c, s) <=> s = step /\ At(a, c, a.at)
  BY <1>1, <1>2, AttemptFacts DEF CallSteps
<1>4. CASE Throttles!Check(p) \/ Throttles!CheckFails(p)
  <2>1. a.at = "check" /\ faults' \in Nat /\ faults' >= faults
    BY <1>1, <1>4, FaultFacts DEF Throttles!Check, Throttles!CheckFails
  <2>2. CASE attempt' = [attempt EXCEPT ![p] = Throttles!NoCall]
    BY <1>2, <2>1, <2>2, NoCallFacts, QuietStep
  <2>3. CASE a.kind = "login" /\ attempt' = [attempt EXCEPT ![p] = To("verify")]
    <3>1. a.key = LoginKey(a.client)
      BY <1>1, <2>1, <2>3 DEF SoundCall
    <3>2. faults' = faults + 1 \/ (faults' = faults /\ count[a.key] < MAX_FAILURES)
      <4>1. CASE Throttles!CheckFails(p)
        BY <4>1, FaultFacts DEF Throttles!CheckFails
      <4>2. CASE ~Throttles!CheckFails(p)
        <5>1. Throttles!NoCall.at = "idle" /\ To("verify").at = "verify"
          BY <1>1 DEF Throttles!NoCall, SoundCall, Attempts
        <5>2. attempt'[p].at = "verify" /\ attempt' # [attempt EXCEPT ![p] = Throttles!NoCall]
          BY <1>1, <2>3, <5>1
        <5> QED
          BY <1>4, <4>2, <5>2 DEF Throttles!Check, Throttles!Answered
      <4> QED
        BY <4>1, <4>2
    <3>3. \A c \in Clients : ~At(To("verify"), c, "register")
      BY <1>3 DEF CallSteps
    <3>4. ASSUME NEW c \in Clients, At(To("verify"), c, "verify")
          PROVE  \/ faults' = faults + 1
                 \/ faults' = faults /\ At(a, c, "check") /\ count[LoginKey(c)] < MAX_FAILURES
      <4>1. At(a, c, "check") /\ a.client = c
        BY <1>3, <2>1, <3>4 DEF At, CallSteps
      <4> QED
        BY <3>1, <3>2, <4>1
    <3> HIDE DEF To
    <3> QED
      BY <1>2, <1>3, <2>1, <2>3, <3>3, <3>4, QuietStep
  <2>4. CASE a.kind # "login" /\ attempt' = [attempt EXCEPT ![p] = To("register")]
    <3>1. \A c \in Clients : ~At(To("register"), c, "register") /\ ~At(To("register"), c, "verify")
      BY <1>3, <2>4 DEF At, CallSteps
    <3> HIDE DEF To
    <3> QED
      BY <1>2, <1>3, <2>1, <2>4, <3>1, QuietStep
  <2> QED
    BY <1>4, <2>2, <2>3, <2>4 DEF Throttles!Check, Throttles!CheckFails, Throttles!Goto,
       Throttles!Answered
<1>5. CASE Throttles!Verified(p)
  <2>1. /\ attempt' = [attempt EXCEPT ![p] = To("reset")] /\ a.at = "verify"
        /\ faults' \in Nat /\ faults' >= faults
    BY <1>1, <1>5 DEF Throttles!Verified, Throttles!Goto
  <2>2. \A c \in Clients : ~At(To("reset"), c, "register") /\ ~At(To("reset"), c, "verify")
    BY <1>3 DEF CallSteps
  <2> HIDE DEF To
  <2> QED
    BY <1>1, <1>2, <1>3, <2>1, <2>2, QuietStep
<1>6. CASE Throttles!CommandFails(p)
  <2>1. attempt' = [attempt EXCEPT ![p] = Throttles!NoCall]
    BY <1>6 DEF Throttles!CommandFails, Throttles!Answered
  <2>2. faults' = faults + 1 /\ faults' \in Nat /\ faults' >= faults
    BY <1>6, FaultFacts DEF Throttles!CommandFails
  <2> QED
    BY <1>2, <2>1, <2>2, NoCallFacts, QuietStep
<1>7. CASE Throttles!Wrong(p) /\ a.kind # "login"
  <2>1. attempt' = [attempt EXCEPT ![p] = To("check")] /\ a.at = "verify"
        /\ faults' \in Nat /\ faults' >= faults
    BY <1>1, <1>7 DEF Throttles!Wrong, Throttles!Goto
  <2>2. \A c \in Clients : ~At(To("check"), c, "register") /\ ~At(To("check"), c, "verify")
    BY <1>3 DEF CallSteps
  <2> HIDE DEF To
  <2> QED
    BY <1>1, <1>2, <1>3, <2>1, <2>2, QuietStep
<1> QED
  BY <1>4, <1>5, <1>6, <1>7

\* A wrong code is looked at, and its request goes on to count it.
LEMMA GuessIsSound ==
  ASSUME ThrottleInv, NEW p \in Calls, Throttles!Wrong(p), attempt[p].kind = "login"
  PROVE  ThrottleInv'
<1> DEFINE a == attempt[p]
           q == [a EXCEPT !.at = "register"]
<1>1. /\ SoundCall(a) /\ DOMAIN attempt = Calls /\ faults \in Nat
      /\ guesses \in [Clients -> Nat]
  BY DEF ThrottleInv, ThrottleTypes
<1>2. /\ UNCHANGED <<host, now, count, ends, revokes, faults>> /\ a.at = "verify"
      /\ attempt' = [attempt EXCEPT ![p] = q]
      /\ guesses' = [guesses EXCEPT ![a.client] = @ + 1]
  BY DEF Throttles!Wrong, Throttles!Goto, Throttles!env, Throttles!counters
<1>3. a.client \in Clients
  BY <1>1, <1>2 DEF SoundCall
<1>4. SoundCall(q) /\ \A c, s : At(q, c, s) <=> s = "register" /\ At(a, c, "verify")
  <2>1. a.at # "idle" /\ "register" \in CallSteps
    BY <1>2 DEF CallSteps
  <2> QED
    BY <1>1, <1>2, <2>1, AttemptFacts
<1>5. ASSUME NEW c \in Clients PROVE Accounted(p, q, c)
  <2>1. /\ One(At(a, c, "register")) = 0 /\ One(At(q, c, "verify")) = 0
        /\ c = a.client => One(At(a, c, "verify")) = 1 /\ One(At(q, c, "register")) = 1
        /\ c # a.client => One(At(a, c, "verify")) = 0 /\ One(At(q, c, "register")) = 0
    <3>1. /\ ~At(a, c, "register") /\ ~At(q, c, "verify")
          /\ At(a, c, "verify") <=> c = a.client
          /\ At(q, c, "register") <=> c = a.client
      BY <1>2, <1>4 DEF At
    <3> HIDE DEF q
    <3> QED
      BY <3>1 DEF One
  <2>2. guesses[c] \in Nat /\ guesses'[c] = guesses[c] + (IF c = a.client THEN 1 ELSE 0)
    BY <1>1, <1>2
  <2> HIDE DEF q
  <2> QED
    BY <1>1, <1>2, <2>1, <2>2 DEF Accounted
<1>6. guesses' \in [Clients -> Nat] /\ faults' \in Nat /\ faults' >= faults
  BY <1>1, <1>2, <1>3
<1> HIDE DEF q
<1> QED
  BY <1>1, <1>2, <1>4, <1>5, <1>6, CallStep

LEMMA LoginKeyIsAKey ==
  ASSUME NEW c \in Clients
  PROVE  LoginKey(c) \in Throttles!Keys
BY ThrottlesAssumption DEF LoginKey, Throttles!Keys, Throttles!Buckets,
   Throttles!FailureCounterAssumption

\* What keeps the guesses of c counted while counters move: its own is cleared with them,
\* or it and the requests about to raise it do not fall together.
StaysCounted(c, gone) ==
  /\ Waiting(c, "verify")' <= Waiting(c, "verify")
  /\ \/ LoginKey(c) \in gone
     \/ count[LoginKey(c)] + Waiting(c, "register")
          <= count'[LoginKey(c)] + Waiting(c, "register")'

LEMMA CountersStep ==
  ASSUME ThrottleInv, NEW gone, UNCHANGED <<host, faults>>, now' \in Nat, revokes' \in Nat,
         count' \in [Throttles!Keys -> Nat], ends' \in [Throttles!Keys -> Nat \cup {None}],
         guesses' = [c \in Clients |-> IF \E k \in gone : c \in Throttles!CountedBy(k)
                                       THEN 0 ELSE guesses[c]],
         DOMAIN attempt' = Calls, \A p \in Calls : SoundCall(attempt'[p]),
         \A c \in Clients : StaysCounted(c, gone),
         RevokeInv', Throttles!CountersEnd'
  PROVE  ThrottleInv'
<1>1. /\ guesses \in [Clients -> Nat] /\ faults \in Nat /\ count \in [Throttles!Keys -> Nat]
      /\ host \in {"vercel", "proxy", "elsewhere"}
  BY DEF ThrottleInv, ThrottleTypes
<1>2. /\ guesses' \in [Clients -> Nat]
      /\ \A c \in Clients : /\ guesses'[c] \in {0, guesses[c]}
                            /\ LoginKey(c) \in gone => guesses'[c] = 0
  BY <1>1, ClearedGuesses, Zenon
<1>3. \A a : SoundCall(a) => SoundCall(a)'
  BY DEF SoundCall, LoginKey
<1>4. ThrottleTypes'
  BY <1>1, <1>2, <1>3 DEF ThrottleTypes, SoundCall, LoginKey
<1>5. GuessInv'
  <2> SUFFICES ASSUME NEW c \in Clients
               PROVE  /\ guesses'[c] <= count'[LoginKey(c)'] + Waiting(c, "register")' + faults'
                      /\ guesses'[c] + Waiting(c, "verify")'
                           <= MAX_FAILURES + Cardinality(Calls) - 1 + faults'
    BY DEF GuessInv
  <2>1. LoginKey(c)' = LoginKey(c) /\ LoginKey(c) \in Throttles!Keys
    <3>1. LoginKey(c) \in Throttles!Keys
      BY LoginKeyIsAKey
    <3> QED
      BY <3>1 DEF LoginKey
  <2>2. /\ guesses[c] <= count[LoginKey(c)] + Waiting(c, "register") + faults
        /\ guesses[c] + Waiting(c, "verify") <= MAX_FAILURES + Cardinality(Calls) - 1 + faults
    BY DEF ThrottleInv, GuessInv
  <2>3. /\ Waiting(c, "register") \in Nat /\ Waiting(c, "verify") \in Nat
        /\ Waiting(c, "verify") <= Cardinality(Calls)
    BY WaitingIsCounted
  <2>4. Waiting(c, "register")' \in Nat /\ Waiting(c, "verify")' \in Nat
    <3>1. \A S \in SUBSET Calls : Cardinality(S) \in Nat
      BY ThrottleFacts, FS_Subset, FS_CardinalityType
    <3>2. LoginsAt(c, "register")' \in SUBSET Calls /\ LoginsAt(c, "verify")' \in SUBSET Calls
      BY DEF LoginsAt
    <3> QED
      BY <3>1, <3>2 DEF Waiting
  <2>5. /\ MAX_FAILURES \in Nat /\ MAX_FAILURES > 0 /\ Cardinality(Calls) \in Nat
    BY ThrottleFacts
  <2>6. /\ count[LoginKey(c)] \in Nat /\ count'[LoginKey(c)] \in Nat
        /\ guesses[c] \in Nat /\ guesses'[c] \in {0, guesses[c]}
    BY <1>1, <1>2, <2>1
  <2>7. /\ Waiting(c, "verify")' <= Waiting(c, "verify")
        /\ guesses'[c] = 0 \/ count[LoginKey(c)] + Waiting(c, "register")
                                <= count'[LoginKey(c)] + Waiting(c, "register")'
    BY <1>2 DEF StaysCounted
  <2> DEFINE n == count[LoginKey(c)]
             m == count'[LoginKey(c)]
  <2> HIDE DEF n, m
  <2>8. guesses'[c] <= m + Waiting(c, "register")' + faults
    BY <1>1, <2>2, <2>3, <2>4, <2>6, <2>7 DEF n, m
  <2>9. guesses'[c] + Waiting(c, "verify")' <= MAX_FAILURES + Cardinality(Calls) - 1 + faults
    BY <1>1, <2>2, <2>3, <2>4, <2>5, <2>6, <2>7
  <2> QED
    BY <2>1, <2>8, <2>9 DEF m
<1> QED
  BY <1>4, <1>5 DEF ThrottleInv

\* A counter is raised, and starts or keeps its window; another may be evicted for it.
LEMMA Incremented ==
  ASSUME ThrottleInv, NEW slot \in Throttles!Keys, Throttles!Increment(slot), now' = now
  PROVE  /\ count' \in [Throttles!Keys -> Nat] /\ ends' \in [Throttles!Keys -> Nat \cup {None}]
         /\ count'[slot] = count[slot] + 1
         /\ \A x \in Throttles!Keys : x \in Throttles!Evicted(slot) \/ count'[x] >= count[x]
         /\ Throttles!CountersEnd'
<1> DEFINE gone == Throttles!Evicted(slot)
<1>1. /\ count \in [Throttles!Keys -> Nat] /\ ends \in [Throttles!Keys -> Nat \cup {None}]
      /\ now \in Nat /\ now + WINDOW \in Nat /\ now + WINDOW > now /\ now + WINDOW # None
  <2>1. count \in [Throttles!Keys -> Nat] /\ ends \in [Throttles!Keys -> Nat \cup {None}] /\ now \in Nat
    BY DEF ThrottleInv, ThrottleTypes
  <2>2. now + WINDOW \in Nat /\ now + WINDOW > now
    BY <2>1, ThrottleFacts
  <2> QED
    BY <2>1, <2>2, ThrottleFacts
<1>2. count[slot] # 0 => gone = {}
  BY DEF Throttles!Evicted
<1> HIDE DEF gone
<1>3. /\ count' = [x \in Throttles!Keys |-> IF x = slot THEN count[x] + 1
                                            ELSE IF x \in gone THEN 0 ELSE count[x]]
      /\ ends' = [x \in Throttles!Keys |-> IF x = slot /\ count[x] = 0 THEN now + WINDOW
                                           ELSE IF x \in gone THEN None ELSE ends[x]]
  BY DEF Throttles!Increment, gone
<1>4. count' \in [Throttles!Keys -> Nat] /\ ends' \in [Throttles!Keys -> Nat \cup {None}]
  BY <1>1, <1>3
<1>5. /\ count'[slot] = count[slot] + 1
      /\ \A x \in Throttles!Keys : x \in gone \/ count'[x] >= count[x]
  BY <1>1, <1>3
<1>6. \A x \in Throttles!Keys : count[x] > 0 => ends[x] # None /\ ends[x] > now
  BY DEF ThrottleInv, Throttles!CountersEnd
<1>7. ASSUME NEW x \in Throttles!Keys, count'[x] > 0
      PROVE  ends'[x] # None /\ ends'[x] > now
  <2>1. CASE x = slot /\ count[x] = 0
    BY <1>1, <1>3, <2>1
  <2>2. CASE x = slot /\ count[x] # 0
    <3>1. ends'[x] = ends[x] /\ count[x] > 0
      BY <1>1, <1>2, <1>3, <2>2
    <3> QED
      BY <1>6, <3>1
  <2>3. CASE x # slot
    <3>1. x \notin gone /\ count'[x] = count[x] /\ ends'[x] = ends[x]
      BY <1>3, <1>7, <2>3
    <3> QED
      BY <1>6, <1>7, <3>1
  <2> QED
    BY <2>1, <2>2, <2>3
<1> QED
  BY <1>4, <1>5, <1>7 DEF gone, Throttles!CountersEnd

LEMMA RevokesStay ==
  ASSUME ThrottleInv, faults' = faults,
         \/ revokes' = 0
         \/ revokes' = revokes /\ count'[Throttles!RevokeKey] >= count[Throttles!RevokeKey],
         count' \in [Throttles!Keys -> Nat]
  PROVE  RevokeInv' /\ revokes' \in Nat
<1>1. /\ revokes \in Nat /\ faults \in Nat /\ REVOKE_MAX \in Nat
      /\ count \in [Throttles!Keys -> Nat] /\ Throttles!RevokeKey \in Throttles!Keys
  BY ThrottleFacts DEF ThrottleInv, ThrottleTypes, Throttles!RevokeKey, Throttles!Keys
<1>2. revokes <= count[Throttles!RevokeKey] + faults /\ revokes <= REVOKE_MAX + faults
  BY DEF ThrottleInv, RevokeInv
<1>3. count[Throttles!RevokeKey] \in Nat /\ count'[Throttles!RevokeKey] \in Nat
  BY <1>1
<1>4. \A n, m, r, f \in Nat : r <= n + f /\ m >= n => r <= m + f
  OBVIOUS
<1>5. 0 <= count'[Throttles!RevokeKey] + faults /\ 0 <= REVOKE_MAX + faults
  BY <1>1, <1>3
<1> QED
  BY <1>1, <1>2, <1>3, <1>4, <1>5 DEF RevokeInv

\* Windows end.
LEMMA WindowsEndSoundly ==
  ASSUME ThrottleInv, Throttles!Tick
  PROVE  ThrottleInv'
<1> DEFINE gone == {k \in Throttles!Keys : ends[k] # None /\ ends[k] <= now'}
<1>1. /\ count \in [Throttles!Keys -> Nat] /\ ends \in [Throttles!Keys -> Nat \cup {None}]
      /\ now \in Nat /\ DOMAIN attempt = Calls /\ \A p \in Calls : SoundCall(attempt[p])
  BY DEF ThrottleInv, ThrottleTypes
<1>2. /\ now' = now + 1 /\ UNCHANGED <<host, faults, attempt>>
      /\ count' = [k \in Throttles!Keys |-> IF k \in gone THEN 0 ELSE count[k]]
      /\ ends' = [k \in Throttles!Keys |-> IF k \in gone THEN None ELSE ends[k]]
      /\ Throttles!Forgiven(gone)
  BY DEF Throttles!Tick, Throttles!env
<1>3. \A k \in Throttles!Keys : k \in gone <=> ends[k] # None /\ ends[k] <= now'
  OBVIOUS
<1> HIDE DEF gone
<1>4. count' \in [Throttles!Keys -> Nat] /\ ends' \in [Throttles!Keys -> Nat \cup {None}]
  BY <1>1, <1>2
<1>5. Throttles!CountersEnd'
  <2> SUFFICES ASSUME NEW k \in Throttles!Keys, count'[k] > 0
               PROVE  ends'[k] # None /\ ends'[k] > now'
    BY DEF Throttles!CountersEnd
  <2>1. k \notin gone /\ count'[k] = count[k] /\ ends'[k] = ends[k]
    BY <1>2
  <2>2. ends[k] # None
    BY <2>1 DEF ThrottleInv, Throttles!CountersEnd
  <2>3. ends[k] \in Nat /\ now' \in Nat
    BY <1>1, <1>2, <2>2
  <2> QED
    BY <1>3, <2>1, <2>2, <2>3
<1>6. \A k \in Throttles!Keys : k \in gone \/ count'[k] >= count[k]
  BY <1>1, <1>2
<1>7. RevokeInv' /\ revokes' \in Nat
  <2>1. Throttles!RevokeKey \in Throttles!Keys
        /\ Throttles!RevokeKey = <<"hostrevoke", Throttles!Unknown>>
    BY DEF Throttles!RevokeKey, Throttles!Keys
  <2>2. revokes' = IF Throttles!RevokeKey \in gone THEN 0 ELSE revokes
    BY <1>2, <2>1 DEF Throttles!Forgiven
  <2> QED
    BY <1>2, <1>4, <1>6, <2>1, <2>2, RevokesStay
<1>8. ASSUME NEW c \in Clients PROVE StaysCounted(c, gone)
  <2>1. Waiting(c, "verify")' = Waiting(c, "verify") /\ Waiting(c, "register")' = Waiting(c, "register")
    BY <1>2 DEF Waiting, LoginsAt
  <2>2. Waiting(c, "verify") \in Nat /\ Waiting(c, "register") \in Nat
    BY WaitingIsCounted
  <2>3. LoginKey(c) \in Throttles!Keys
    BY LoginKeyIsAKey
  <2>4. count[LoginKey(c)] \in Nat /\ count'[LoginKey(c)] \in Nat
    BY <1>1, <1>4, <2>3
  <2>5. LoginKey(c) \in gone \/ count'[LoginKey(c)] >= count[LoginKey(c)]
    BY <1>6, <2>3
  <2>6. \A n, m, w \in Nat : m >= n => n + w <= m + w
    OBVIOUS
  <2> QED
    BY <2>1, <2>2, <2>4, <2>5, <2>6 DEF StaysCounted
<1>9. guesses' = [c \in Clients |-> IF \E k \in gone : c \in Throttles!CountedBy(k)
                                    THEN 0 ELSE guesses[c]]
  BY <1>2 DEF Throttles!Forgiven
<1>10. now' \in Nat /\ DOMAIN attempt' = Calls /\ \A p \in Calls : SoundCall(attempt'[p])
  BY <1>1, <1>2
<1>11. UNCHANGED <<host, faults>>
  BY <1>2
<1> QED
  BY <1>4, <1>5, <1>7, <1>8, <1>9, <1>10, <1>11, CountersStep

\* A request is over: it was at some step, and is at none.
LEMMA CallEnds ==
  ASSUME ThrottleInv, NEW p \in Calls, attempt' = [attempt EXCEPT ![p] = Throttles!NoCall]
  PROVE  /\ DOMAIN attempt' = Calls /\ \A r \in Calls : SoundCall(attempt'[r])
         /\ \A c \in Clients :
              /\ Waiting(c, "verify")' <= Waiting(c, "verify")
              /\ Waiting(c, "register")' = Waiting(c, "register")
                                           - One(At(attempt[p], c, "register"))
<1>1. DOMAIN attempt = Calls /\ \A r \in Calls : SoundCall(attempt[r])
  BY DEF ThrottleInv, ThrottleTypes
<1>2. ASSUME NEW r \in Calls PROVE SoundCall(attempt'[r])
  <2>1. attempt'[r] \in {Throttles!NoCall, attempt[r]}
    BY <1>1
  <2> QED
    BY <1>1, <2>1, NoCallFacts
<1>3. ASSUME NEW c \in Clients
      PROVE  /\ Waiting(c, "verify")' <= Waiting(c, "verify")
             /\ Waiting(c, "register")' = Waiting(c, "register")
                                          - One(At(attempt[p], c, "register"))
  <2>1. \A step \in CallSteps :
          Waiting(c, step)' = Waiting(c, step) - One(At(attempt[p], c, step))
                                               + One(At(Throttles!NoCall, c, step))
    BY <1>1, OneCallMoves, Zenon
  <2>2. /\ Waiting(c, "verify")' = Waiting(c, "verify") - One(At(attempt[p], c, "verify"))
                                                        + One(At(Throttles!NoCall, c, "verify"))
        /\ Waiting(c, "register")' = Waiting(c, "register")
             - One(At(attempt[p], c, "register")) + One(At(Throttles!NoCall, c, "register"))
    BY <2>1, Zenon DEF CallSteps
  <2>3. /\ One(At(Throttles!NoCall, c, "verify")) = 0 /\ One(At(Throttles!NoCall, c, "register")) = 0
        /\ One(At(attempt[p], c, "verify")) \in {0, 1}
        /\ One(At(attempt[p], c, "register")) \in {0, 1}
    BY NoCallFacts DEF One
  <2>4. Waiting(c, "verify") \in Nat /\ Waiting(c, "register") \in Nat
    BY WaitingIsCounted
  <2> QED
    BY <2>2, <2>3, <2>4
<1>4. DOMAIN attempt' = Calls
  BY <1>1
<1> QED
  BY <1>2, <1>3, <1>4

\* A failure is counted.
LEMMA RegisterIsSound ==
  ASSUME ThrottleInv, NEW p \in Calls, Throttles!Register(p)
  PROVE  ThrottleInv'
<1> DEFINE a == attempt[p]
           gone == Throttles!Evicted(a.key)
<1>1. /\ SoundCall(a) /\ count \in [Throttles!Keys -> Nat] /\ now \in Nat
  BY DEF ThrottleInv, ThrottleTypes
<1>2. /\ a.at = "register" /\ Throttles!Increment(a.key) /\ Throttles!Forgiven(gone)
      /\ attempt' = [attempt EXCEPT ![p] = Throttles!NoCall]
      /\ UNCHANGED <<host, faults>> /\ now' = now
  BY DEF Throttles!Register, Throttles!RegisterFailure, Throttles!Answered, Throttles!env
<1>3. a.key \in Throttles!Keys
  BY <1>1, <1>2 DEF SoundCall
<1>4. /\ count' \in [Throttles!Keys -> Nat] /\ ends' \in [Throttles!Keys -> Nat \cup {None}]
      /\ count'[a.key] = count[a.key] + 1
      /\ \A x \in Throttles!Keys : x \in gone \/ count'[x] >= count[x]
      /\ Throttles!CountersEnd'
  BY <1>2, <1>3, Incremented
<1>5. /\ DOMAIN attempt' = Calls /\ \A r \in Calls : SoundCall(attempt'[r])
      /\ \A c \in Clients :
           /\ Waiting(c, "verify")' <= Waiting(c, "verify")
           /\ Waiting(c, "register")' = Waiting(c, "register") - One(At(a, c, "register"))
  BY <1>2, CallEnds
<1>6. guesses' = [c \in Clients |-> IF \E k \in gone : c \in Throttles!CountedBy(k)
                                    THEN 0 ELSE guesses[c]]
  BY <1>2 DEF Throttles!Forgiven
<1> HIDE DEF gone
<1>7. RevokeInv' /\ revokes' \in Nat
  <2>1. Throttles!RevokeKey \in Throttles!Keys
        /\ Throttles!RevokeKey = <<"hostrevoke", Throttles!Unknown>>
    BY DEF Throttles!RevokeKey, Throttles!Keys
  <2>2. revokes' = IF Throttles!RevokeKey \in gone THEN 0 ELSE revokes
    BY <1>2, <2>1 DEF Throttles!Forgiven
  <2> QED
    BY <1>2, <1>4, <2>1, <2>2, RevokesStay
<1>8. ASSUME NEW c \in Clients PROVE StaysCounted(c, gone)
  <2>1. Waiting(c, "register") \in Nat
    BY WaitingIsCounted
  <2>2. LoginKey(c) \in Throttles!Keys
    BY LoginKeyIsAKey
  <2>3. count[LoginKey(c)] \in Nat /\ count'[LoginKey(c)] \in Nat
    BY <1>1, <1>4, <2>2
  <2>4. CASE At(a, c, "register")
    <3>1. a.key = LoginKey(c) /\ One(At(a, c, "register")) = 1
      BY <1>1, <1>2, <2>4 DEF SoundCall, At, One
    <3>2. count'[LoginKey(c)] = count[LoginKey(c)] + 1
      BY <1>4, <3>1
    <3> QED
      BY <1>5, <2>1, <2>3, <3>1, <3>2 DEF StaysCounted
  <2>5. CASE ~At(a, c, "register")
    <3>1. One(At(a, c, "register")) = 0
      BY <2>5 DEF One
    <3>2. LoginKey(c) \in gone \/ count'[LoginKey(c)] >= count[LoginKey(c)]
      BY <1>4, <2>2
    <3>3. \A n, m, w \in Nat : m >= n => n + w <= m + (w - 0)
      OBVIOUS
    <3>4. Waiting(c, "register")' = Waiting(c, "register") - 0
      BY <1>5, <3>1
    <3> QED
      BY <1>5, <2>1, <2>3, <3>2, <3>3, <3>4 DEF StaysCounted
  <2> QED
    BY <2>4, <2>5
<1>9. now' \in Nat /\ UNCHANGED <<host, faults>>
  BY <1>1, <1>2
<1> QED
  BY <1>4, <1>5, <1>6, <1>7, <1>8, <1>9, CountersStep

\* A counter is cleared.
LEMMA ResetIsSound ==
  ASSUME ThrottleInv, NEW p \in Calls, Throttles!Reset(p)
  PROVE  ThrottleInv'
<1> DEFINE a == attempt[p]
           slot == a.key
<1>1. /\ count \in [Throttles!Keys -> Nat] /\ ends \in [Throttles!Keys -> Nat \cup {None}]
      /\ now \in Nat
  BY DEF ThrottleInv, ThrottleTypes
<1>2. /\ a.at = "reset" /\ Throttles!Forgiven({slot})
      /\ count' = [count EXCEPT ![slot] = 0] /\ ends' = [ends EXCEPT ![slot] = None]
      /\ attempt' = [attempt EXCEPT ![p] = Throttles!NoCall]
      /\ UNCHANGED <<host, faults>> /\ now' = now
  BY DEF Throttles!Reset, Throttles!ResetKey, Throttles!Answered, Throttles!env
<1> HIDE DEF slot
<1>3. /\ count' \in [Throttles!Keys -> Nat] /\ ends' \in [Throttles!Keys -> Nat \cup {None}]
      /\ \A x \in Throttles!Keys :
           \/ x = slot /\ count'[x] = 0
           \/ x # slot /\ count'[x] = count[x] /\ ends'[x] = ends[x]
  BY <1>1, <1>2
<1>4. Throttles!CountersEnd'
  BY <1>2, <1>3 DEF ThrottleInv, Throttles!CountersEnd
<1>5. /\ DOMAIN attempt' = Calls /\ \A r \in Calls : SoundCall(attempt'[r])
      /\ \A c \in Clients :
           /\ Waiting(c, "verify")' <= Waiting(c, "verify")
           /\ Waiting(c, "register")' = Waiting(c, "register") - One(At(a, c, "register"))
  BY <1>2, CallEnds
<1>6. guesses' = [c \in Clients |-> IF \E k \in {slot} : c \in Throttles!CountedBy(k)
                                    THEN 0 ELSE guesses[c]]
  BY <1>2 DEF Throttles!Forgiven
<1>7. RevokeInv' /\ revokes' \in Nat
  <2>1. Throttles!RevokeKey \in Throttles!Keys
        /\ Throttles!RevokeKey = <<"hostrevoke", Throttles!Unknown>>
    BY DEF Throttles!RevokeKey, Throttles!Keys
  <2>2. revokes' = IF Throttles!RevokeKey \in {slot} THEN 0 ELSE revokes
    BY <1>2, <2>1 DEF Throttles!Forgiven
  <2>3. count[Throttles!RevokeKey] \in Nat /\ \A n \in Nat : n >= n
    BY <1>1, <2>1
  <2> QED
    BY <1>2, <1>3, <2>1, <2>2, <2>3, RevokesStay
<1>8. ASSUME NEW c \in Clients PROVE StaysCounted(c, {slot})
  <2>1. Waiting(c, "register") \in Nat /\ One(At(a, c, "register")) = 0
    BY <1>2, WaitingIsCounted DEF At, One
  <2>2. LoginKey(c) \in Throttles!Keys
    BY LoginKeyIsAKey
  <2>3. count[LoginKey(c)] \in Nat
    BY <1>1, <2>2
  <2>4. \A n, w \in Nat : n + w <= n + (w - 0)
    OBVIOUS
  <2>5. LoginKey(c) \in {slot} \/ count'[LoginKey(c)] = count[LoginKey(c)]
    BY <1>3, <2>2
  <2>6. Waiting(c, "register")' = Waiting(c, "register") - 0
    BY <1>5, <2>1
  <2> QED
    BY <1>5, <2>1, <2>3, <2>4, <2>5, <2>6 DEF StaysCounted
<1>9. now' \in Nat /\ UNCHANGED <<host, faults>>
  BY <1>1, <1>2
<1> QED
  BY <1>3, <1>4, <1>5, <1>6, <1>7, <1>8, <1>9, CountersStep

\* The other devices are signed out: granted by the count, or because it cannot be read.
LEMMA RevokesAreSound ==
  ASSUME ThrottleInv, Throttles!Revoke \/ Throttles!RevokeUncounted
  PROVE  ThrottleInv'
<1> DEFINE slot == Throttles!RevokeKey
           gone == Throttles!Evicted(slot)
<1>1. /\ count \in [Throttles!Keys -> Nat] /\ now \in Nat /\ revokes \in Nat /\ faults \in Nat
      /\ guesses \in [Clients -> Nat]
      /\ DOMAIN attempt = Calls /\ \A p \in Calls : SoundCall(attempt[p])
      /\ slot \in Throttles!Keys /\ REVOKE_MAX \in Nat
      /\ revokes <= count[slot] + faults /\ revokes <= REVOKE_MAX + faults
  BY ThrottleFacts DEF ThrottleInv, ThrottleTypes, RevokeInv, Throttles!RevokeKey, Throttles!Keys
<1>2. count[slot] \in Nat
  BY <1>1
<1>3. \A c \in Clients :
        /\ Waiting(c, "register") \in Nat /\ Waiting(c, "verify") \in Nat
        /\ LoginKey(c) \in Throttles!Keys
  BY WaitingIsCounted, LoginKeyIsAKey
<1>4. CASE Throttles!Revoke
  <2>1. /\ Throttles!Increment(slot)
        /\ revokes' = IF Throttles!OfItsOwn(count'[slot]) THEN revokes + 1 ELSE revokes
        /\ guesses' = [c \in Clients |-> IF \E k \in gone : c \in Throttles!CountedBy(k)
                                         THEN 0 ELSE guesses[c]]
        /\ UNCHANGED <<host, now, attempt, faults>>
    BY <1>4 DEF Throttles!Revoke, Throttles!RegisterFailure, Throttles!env
  <2>2. /\ count' \in [Throttles!Keys -> Nat] /\ ends' \in [Throttles!Keys -> Nat \cup {None}]
        /\ count'[slot] = count[slot] + 1
        /\ \A x \in Throttles!Keys : x \in gone \/ count'[x] >= count[x]
        /\ Throttles!CountersEnd'
    BY <1>1, <2>1, Incremented
  <2> HIDE DEF gone
  <2>3. RevokeInv' /\ revokes' \in Nat
    <3>1. /\ count'[slot] = count[slot] + 1
          /\ revokes' = revokes \/ (revokes' = revokes + 1 /\ count'[slot] <= REVOKE_MAX)
      BY <2>1, <2>2 DEF Throttles!OfItsOwn
    <3>2. RevokeInv' <=> revokes' <= count'[slot] + faults' /\ revokes' <= REVOKE_MAX + faults'
      BY DEF RevokeInv, Throttles!RevokeKey
    <3> HIDE DEF slot
    <3> QED
      BY <1>1, <1>2, <2>1, <3>1, <3>2
  <2>4. ASSUME NEW c \in Clients PROVE StaysCounted(c, gone)
    <3>1. Waiting(c, "verify")' = Waiting(c, "verify") /\ Waiting(c, "register")' = Waiting(c, "register")
      BY <2>1 DEF Waiting, LoginsAt
    <3>2. count[LoginKey(c)] \in Nat /\ count'[LoginKey(c)] \in Nat
      BY <1>1, <1>3, <2>2
    <3>3. LoginKey(c) \in gone \/ count'[LoginKey(c)] >= count[LoginKey(c)]
      BY <1>3, <2>2
    <3>4. \A n, m, w \in Nat : m >= n => n + w <= m + w
      OBVIOUS
    <3> QED
      BY <1>3, <3>1, <3>2, <3>3, <3>4 DEF StaysCounted
  <2>5. /\ now' \in Nat /\ UNCHANGED <<host, faults>>
        /\ DOMAIN attempt' = Calls /\ \A p \in Calls : SoundCall(attempt'[p])
    BY <1>1, <2>1
  <2> QED
    BY <2>1, <2>2, <2>3, <2>4, <2>5, CountersStep
<1>5. CASE Throttles!RevokeUncounted
  <2>1. faults' = faults + 1 /\ faults' \in Nat
    BY <1>5, FaultFacts DEF Throttles!RevokeUncounted
  <2>2. revokes' = revokes + 1 /\ UNCHANGED <<host, now, count, ends, attempt, guesses>>
    BY <1>5 DEF Throttles!RevokeUncounted, Throttles!env, Throttles!counters
  <2>3. RevokeInv' /\ revokes' \in Nat
    <3>1. RevokeInv' <=> revokes' <= count'[slot] + faults' /\ revokes' <= REVOKE_MAX + faults'
      BY DEF RevokeInv, Throttles!RevokeKey
    <3> HIDE DEF slot
    <3> QED
      BY <1>1, <1>2, <2>1, <2>2, <3>1
  <2>4. ThrottleTypes' /\ Throttles!CountersEnd'
    BY <2>1, <2>2, <2>3 DEF ThrottleInv, ThrottleTypes, SoundCall, LoginKey, Throttles!CountersEnd
  <2>5. GuessInv'
    <3> SUFFICES ASSUME NEW c \in Clients
                 PROVE  /\ guesses'[c] <= count'[LoginKey(c)'] + Waiting(c, "register")' + faults'
                        /\ guesses'[c] + Waiting(c, "verify")'
                             <= MAX_FAILURES + Cardinality(Calls) - 1 + faults'
      BY DEF GuessInv
    <3>1. /\ LoginKey(c)' = LoginKey(c)
          /\ Waiting(c, "verify")' = Waiting(c, "verify")
          /\ Waiting(c, "register")' = Waiting(c, "register")
      BY <2>2 DEF LoginKey, Waiting, LoginsAt
    <3>2. /\ guesses[c] <= count[LoginKey(c)] + Waiting(c, "register") + faults
          /\ guesses[c] + Waiting(c, "verify") <= MAX_FAILURES + Cardinality(Calls) - 1 + faults
      BY DEF ThrottleInv, GuessInv
    <3>3. /\ count[LoginKey(c)] \in Nat /\ guesses[c] \in Nat
          /\ MAX_FAILURES \in Nat /\ Cardinality(Calls) \in Nat
      BY <1>1, <1>3, ThrottleFacts
    <3> DEFINE n == count[LoginKey(c)]
    <3>4. count'[LoginKey(c)'] = n
      BY <2>2, <3>1
    <3> HIDE DEF n, slot
    <3>5. guesses'[c] <= n + Waiting(c, "register") + faults'
      BY <1>1, <1>3, <2>1, <2>2, <3>2, <3>3 DEF n
    <3>6. guesses'[c] + Waiting(c, "verify") <= MAX_FAILURES + Cardinality(Calls) - 1 + faults'
      BY <1>1, <1>3, <2>1, <2>2, <3>2, <3>3
    <3> QED
      BY <3>1, <3>4, <3>5, <3>6
  <2> QED
    BY <2>3, <2>4, <2>5 DEF ThrottleInv
<1> QED
  BY <1>4, <1>5

LEMMA ThrottlesStart == Throttles!Init => ThrottleInv
<1> SUFFICES ASSUME Throttles!Init PROVE ThrottleInv
  OBVIOUS
<1>1. /\ host \in {"vercel", "proxy", "elsewhere"} /\ now = 0 /\ faults = 0 /\ revokes = 0
      /\ count = [k \in Throttles!Keys |-> 0] /\ ends = [k \in Throttles!Keys |-> None]
      /\ attempt = [p \in Calls |-> Throttles!NoCall] /\ guesses = [c \in Clients |-> 0]
  BY DEF Throttles!Init
<1>2. ThrottleTypes
  BY <1>1, NoCallFacts DEF ThrottleTypes
<1>3. GuessInv
  <2> SUFFICES ASSUME NEW c \in Clients
               PROVE  /\ guesses[c] <= count[LoginKey(c)] + Waiting(c, "register") + faults
                      /\ guesses[c] + Waiting(c, "verify")
                           <= MAX_FAILURES + Cardinality(Calls) - 1 + faults
    BY DEF GuessInv
  <2>1. guesses[c] = 0 /\ count[LoginKey(c)] = 0
    BY <1>1, LoginKeyIsAKey
  <2>2. /\ Waiting(c, "register") \in Nat /\ Waiting(c, "verify") \in Nat
        /\ Waiting(c, "verify") <= Cardinality(Calls)
    BY WaitingIsCounted
  <2> QED
    BY <1>1, <2>1, <2>2, ThrottleFacts
<1>4. RevokeInv
  <2>1. Throttles!RevokeKey \in Throttles!Keys
    BY DEF Throttles!RevokeKey, Throttles!Keys
  <2>2. count[Throttles!RevokeKey] = 0 /\ revokes = 0 /\ faults = 0
    BY <1>1, <2>1
  <2> QED
    BY <2>2, ThrottleFacts DEF RevokeInv
<1>5. Throttles!CountersEnd
  BY <1>1 DEF Throttles!CountersEnd
<1> QED
  BY <1>2, <1>3, <1>4, <1>5 DEF ThrottleInv

\* In any window a client has at most MAX_FAILURES wrong codes looked at, and one more for
\* every other request in flight and every failed command, whatever it writes into its
\* headers; every counter that counts ends; and the others are signed out within the
\* budget (host-auth.ts, rate-limit-counter.ts, client-ip.ts).
THEOREM GuessersAreHeldBack == ScreensSpec => [](part = "throttles" => Throttles!ThrottlesHold)
<1>1. ScreensInit => ThrottleInv
  BY ThrottlesStart DEF ScreensInit
<1>2. ThrottleInv /\ [ScreensNext]_screensVars => ThrottleInv'
  <2> SUFFICES ASSUME ThrottleInv, [ScreensNext]_screensVars PROVE ThrottleInv'
    OBVIOUS
  <2>1. Throttles!Next \/ UNCHANGED throttleVars
    BY DEF ScreensNext, Playing, Drawing, Picking, Hosting, Entering, LookingUp, Typing, Guessing,
       screensVars
  <2>2. CASE Throttles!Next
    <3>1. CASE Throttles!Tick \/ Throttles!Revoke \/ Throttles!RevokeUncounted
      BY <3>1, WindowsEndSoundly, RevokesAreSound
    <3>2. ASSUME NEW p \in Calls,
                 \/ Throttles!Check(p) \/ Throttles!CheckFails(p) \/ Throttles!Verified(p)
                 \/ Throttles!Wrong(p) \/ Throttles!Register(p) \/ Throttles!Reset(p)
                 \/ Throttles!CommandFails(p)
          PROVE  ThrottleInv'
      BY <3>2, QuietStepsAreSound, GuessIsSound, RegisterIsSound, ResetIsSound
    <3>3. ASSUME NEW p \in Calls, NEW c \in Clients,
                 Throttles!Login(p, c) \/ Throttles!Claim(p, c)
          PROVE  ThrottleInv'
      BY <3>3, CallsBegin
    <3> QED
      BY <2>2, <3>1, <3>2, <3>3 DEF Throttles!Next
  <2>3. CASE UNCHANGED throttleVars
    BY <2>3 DEF throttleVars, ThrottleInv, ThrottleTypes, GuessInv, RevokeInv, SoundCall, LoginKey,
       Waiting, LoginsAt, Throttles!CountersEnd
  <2> QED
    BY <2>1, <2>2, <2>3
<1>3. ThrottleInv => Throttles!ThrottlesHold
  <2> SUFFICES ASSUME ThrottleInv PROVE Throttles!ThrottlesHold
    OBVIOUS
  <2>1. ASSUME NEW c \in Clients
        PROVE  guesses[c] <= MAX_FAILURES + Throttles!Cardinality(Calls) - 1 + faults
    <3>1. guesses[c] + Waiting(c, "verify") <= MAX_FAILURES + Cardinality(Calls) - 1 + faults
      BY DEF ThrottleInv, GuessInv
    <3>2. guesses[c] \in Nat /\ faults \in Nat
      BY DEF ThrottleInv, ThrottleTypes
    <3>3. Waiting(c, "verify") \in Nat
      BY WaitingIsCounted
    <3>4. guesses[c] <= MAX_FAILURES + Cardinality(Calls) - 1 + faults
      BY <3>1, <3>2, <3>3, ThrottleFacts
    <3>5. Throttles!Cardinality(Calls) = Cardinality(Calls)
      BY DEF Throttles!Cardinality, Cardinality
    <3> QED
      BY <3>4, <3>5
  <2> QED
    BY <2>1 DEF ThrottleInv, RevokeInv, Throttles!ThrottlesHold, Throttles!GuessesBounded,
       Throttles!RevokesWithinBudget
<1> QED
  BY <1>1, <1>2, <1>3, PTL DEF ScreensSpec

\* The owner is told that the others are out only once they are, its device keeps a way
\* back in whichever answers are lost or late, and whoever guesses is held back
\* (AdminRoom.tsx, host-auth.ts).
THEOREM ComingAndGoing == ScreensSpec => []HostsComeAndGo
<1>1. (part = "access" => Access!DoneMeansOthersOut /\ Access!OwnerGetsBackIn)
      /\ (part = "throttles" => Throttles!ThrottlesHold) => HostsComeAndGo
  BY DEF HostsComeAndGo
<1> QED
  BY <1>1, OwnersComeAndGo, GuessersAreHeldBack, PTL

=============================================================================
