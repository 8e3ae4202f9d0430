------------------------------ MODULE TvOverlay ------------------------------
(***************************************************************************)
(* What the venue's screen draws around the video: the chrome that hides   *)
(* when nobody touches the remote, the focus state that follows it, the    *)
(* up-next cards that peek in while it lasts (tv/focus-state.ts and its    *)
(* wiring in TvScreen.tsx), the call to the microphone, and the fullscreen *)
(* element, which a player must not stay.                                  *)
(*                                                                         *)
(* TvScreen models the player and the advances; here the queue is what the *)
(* page last read: the entry on stage and how many cards follow it.        *)
(* A tick is a second; a timer that is due runs before the next tick.      *)
(***************************************************************************)
EXTENDS Naturals, Sequences, SequencesExt

CONSTANTS
  Singing, Listening,     \* the entries that reach the stage, by mode
  None,
  CHROME_HIDE,            \* the timings, in ticks
  QUEUE_PEEK_LEAD_IN, QUEUE_PEEK_PERIOD, QUEUE_PEEK_VISIBLE,
  MIC_CALL_SECONDS,
  MaxCards,               \* cards on the rail: 3 in the code
  MaxReads                \* bounds the exploration: reads that change the queue

TvOverlayAssumption ==
  /\ {CHROME_HIDE, QUEUE_PEEK_LEAD_IN, QUEUE_PEEK_PERIOD, MIC_CALL_SECONDS} \subseteq Nat \ {0}
  /\ {QUEUE_PEEK_VISIBLE, MaxCards, MaxReads} \subseteq Nat
  /\ None \notin Singing \cup Listening /\ Singing \cap Listening = {}

VARIABLES
  chrome,      \* ticks left of chromeVisible, 0 for hidden
  stage,       \* queue[0] of the last read
  cards,       \* upcomingCount
  queuePeek,
  timer,       \* the peek cycle's: its due tick, what it sets, is it armed
  micCall,     \* micCallSecs, 0 for null
  called,      \* micCallEntryRef
  full,        \* the document's fullscreen elements, the one on top last
  changed,     \* a fullscreenchange event is due
  isFullscreen,
  keysTo,      \* what has the keyboard: "page" or "player"
  reads,
  calm,        \* ticks the cycle has been running, up to the lead-in
  shown        \* ticks the cards have been on screen, up to one too many

idle == <<chrome>>
screen == <<full, changed, isFullscreen, keysTo>>
cycle == <<queuePeek, timer>>
mic == <<micCall, called>>
history == <<calm, shown>>
vars == <<idle, stage, cards, cycle, mic, screen, reads, history>>

-----------------------------------------------------------------------------
(* focus-state.ts                                                          *)

focusModeActive(left, entry) == left = 0 /\ entry # None
shouldRunQueuePeek(left, entry, count) == focusModeActive(left, entry) /\ count > 0

clampVisible(visible, period) == IF visible < period THEN visible ELSE period \div 2

\* Mutant: once hidden, the cycle is over.
StepsOnce(visible, first) ==
  [on |-> visible \/ first, shows |-> ~visible,
   left |-> IF visible THEN QUEUE_PEEK_VISIBLE ELSE QUEUE_PEEK_LEAD_IN]

\* The step after this one: what it shows, and when.
nextQueuePeekStep(visible, first) ==
  LET window == clampVisible(QUEUE_PEEK_VISIBLE, QUEUE_PEEK_PERIOD)
  IN [on |-> TRUE, shows |-> ~visible,
      left |-> IF visible THEN window
               ELSE IF first THEN QUEUE_PEEK_LEAD_IN ELSE QUEUE_PEEK_PERIOD - window]

Off == [on |-> FALSE, shows |-> FALSE, left |-> 0]

Init ==
  /\ chrome = CHROME_HIDE /\ stage = None /\ cards = 0
  /\ queuePeek = FALSE /\ timer = Off
  /\ micCall = 0 /\ called = None
  /\ full = <<>> /\ changed = FALSE /\ isFullscreen = FALSE /\ keysTo = "page"
  /\ reads = 0 /\ calm = 0 /\ shown = 0

-----------------------------------------------------------------------------
(* TvScreen.tsx: the effects that run when what they depend on has changed. *)

Running == shouldRunQueuePeek(chrome, stage, cards)
OnScreen == focusModeActive(chrome, stage) /\ queuePeek

\* How long something has lasted that may have ended or begun with this step.
Lasted(n, ticks, on, onNow, bound) ==
  IF ~(on /\ onNow) THEN 0 ELSE IF n + ticks < bound THEN n + ticks ELSE bound
Watched(ticks) ==
  /\ calm' = Lasted(calm, ticks, Running, Running', QUEUE_PEEK_LEAD_IN)
  /\ shown' = Lasted(shown, ticks, OnScreen, OnScreen', QUEUE_PEEK_PERIOD)

SameCycle == focusModeActive(chrome', stage') = focusModeActive(chrome, stage) /\ cards' = cards
GoesOn(ticks) ==
  UNCHANGED queuePeek /\ timer' = [timer EXCEPT !.left = IF timer.on THEN @ - ticks ELSE 0]

\* Mutant: leaving the focus state forgets the timer but not what it showed.
PeekEffectKeeping(ticks) ==
  /\ IF SameCycle THEN GoesOn(ticks)
     ELSE UNCHANGED queuePeek /\ timer' = IF Running' THEN nextQueuePeekStep(FALSE, TRUE) ELSE Off
  /\ Watched(ticks)

\* A change of the focus state or of the number of cards ends the cycle, and
\* starts it again at its lead-in; cards that are out stay out until it hides them.
PeekEffect(ticks) ==
  /\ IF SameCycle THEN GoesOn(ticks)
     ELSE IF Running' THEN UNCHANGED queuePeek /\ timer' = nextQueuePeekStep(FALSE, TRUE)
                      ELSE queuePeek' = FALSE /\ timer' = Off
  /\ Watched(ticks)

\* Mutant: an entry that was called before is not called again.
MicEffectOnce ==
  IF stage' \notin Singing THEN micCall' = 0 /\ UNCHANGED called
  ELSE IF called = stage' THEN UNCHANGED mic
  ELSE micCall' = MIC_CALL_SECONDS /\ called' = stage'

MicEffect ==
  IF stage' = stage THEN UNCHANGED mic
  ELSE IF stage' \notin Singing THEN micCall' = 0 /\ called' = None
  ELSE IF called = stage' THEN UNCHANGED mic
  ELSE micCall' = MIC_CALL_SECONDS /\ called' = stage'

\* pokeChrome, on any sign of life that reaches the page.
pokeChrome == chrome' = CHROME_HIDE /\ UNCHANGED <<stage, cards, mic>> /\ PeekEffect(0)

TopIs(element) == full # <<>> /\ Last(full) = element

\* exitFullscreen: the element below, if any, is on top again.
ExitFullscreen == full' = Front(full) /\ changed' = TRUE

-----------------------------------------------------------------------------
\* A poll or an advance reads another head or another number of cards; an
\* empty queue parks the player and ends its fullscreen.
ReadQueue ==
  /\ reads < MaxReads /\ reads' = reads + 1
  /\ \E entry \in Singing \cup Listening \cup {None} :
       /\ stage' = entry
       /\ IF entry = None THEN cards' = 0 ELSE cards' \in 0..MaxCards
       /\ <<stage', cards'>> # <<stage, cards>>
       /\ IF entry = None /\ TopIs("player") THEN ExitFullscreen ELSE UNCHANGED <<full, changed>>
  /\ UNCHANGED <<chrome, isFullscreen, keysTo>>
  /\ PeekEffect(0)
  /\ MicEffect

Poke ==
  /\ pokeChrome
  /\ keysTo' = "page"
  /\ UNCHANGED <<full, changed, isFullscreen, reads>>

\* A click into the player blurs the window.
ClickPlayer ==
  /\ stage # None /\ keysTo = "page"
  /\ keysTo' = "player"
  /\ pokeChrome
  /\ UNCHANGED <<full, changed, isFullscreen, reads>>

\* F reaches the page: fullscreen of the whole document, unless there is one.
PressF ==
  /\ keysTo = "page"
  /\ pokeChrome
  /\ IF full = <<>> THEN full' = <<"page">> /\ changed' = TRUE ELSE UNCHANGED <<full, changed>>
  /\ UNCHANGED <<isFullscreen, keysTo, reads>>

\* F reaches the player: its iframe becomes the fullscreen element, or stops
\* being it; the page hears of it by the event only.
PlayerTakesF ==
  /\ keysTo = "player" /\ stage # None
  /\ IF TopIs("player") THEN ExitFullscreen
                        ELSE full' = Append(full, "player") /\ changed' = TRUE
  /\ UNCHANGED <<idle, stage, cards, cycle, mic, isFullscreen, keysTo, reads, history>>

\* Escape is the browser's: out of fullscreen altogether.
Escape ==
  /\ full # <<>>
  /\ full' = <<>> /\ changed' = TRUE
  /\ UNCHANGED <<idle, stage, cards, cycle, mic, isFullscreen, keysTo, reads, history>>

\* Mutant: the page's own fullscreen is left with the player's.
FullscreenChangeLeavesAll ==
  /\ changed
  /\ IF TopIs("player") THEN full' = <<>> /\ changed' = FALSE /\ UNCHANGED isFullscreen
                        ELSE changed' = FALSE /\ isFullscreen' = (full # <<>>) /\ UNCHANGED full
  /\ UNCHANGED <<idle, stage, cards, cycle, mic, keysTo, reads, history>>

\* fullscreenchange: a player on top is taken out again, which is one more event.
FullscreenChange ==
  /\ changed
  /\ IF TopIs("player") THEN ExitFullscreen /\ isFullscreen' = FALSE
                        ELSE changed' = FALSE /\ isFullscreen' = (full # <<>>) /\ UNCHANGED full
  /\ UNCHANGED <<idle, stage, cards, cycle, mic, keysTo, reads, history>>

\* The peek cycle's timer: show or hide, and schedule the opposite.
PeekTimer ==
  /\ timer.on /\ timer.left = 0
  /\ queuePeek' = timer.shows
  /\ timer' = nextQueuePeekStep(timer.shows, FALSE)
  /\ shown' = 0
  /\ UNCHANGED <<idle, stage, cards, mic, screen, reads, calm>>

\* A second passes for the chrome, the cycle and the call to the microphone.
Tick ==
  /\ ~(timer.on /\ timer.left = 0)
  /\ chrome' = IF chrome > 0 THEN chrome - 1 ELSE 0
  /\ micCall' = IF micCall > 0 THEN micCall - 1 ELSE 0
  /\ UNCHANGED <<stage, cards, called, screen, reads>>
  /\ PeekEffect(1)

Next == \/ ReadQueue \/ Poke \/ ClickPlayer \/ PressF \/ PlayerTakesF \/ Escape
        \/ FullscreenChange \/ PeekTimer \/ Tick

Spec == Init /\ [][Next]_vars
\* The browser delivers its events and runs its timers, and time passes.
FairSpec == Spec /\ WF_vars(FullscreenChange) /\ WF_vars(PeekTimer) /\ WF_vars(Tick)

-----------------------------------------------------------------------------
TypeOK ==
  /\ chrome \in 0..CHROME_HIDE /\ cards \in 0..MaxCards /\ queuePeek \in BOOLEAN
  /\ stage \in Singing \cup Listening \cup {None} /\ called \in Singing \cup {None}
  /\ timer.left \in 0..(QUEUE_PEEK_LEAD_IN + QUEUE_PEEK_PERIOD)
  /\ micCall \in 0..MIC_CALL_SECONDS
  /\ full \in {<<>>, <<"page">>, <<"player">>, <<"page", "player">>}

\* The screen never flashes its cards at a venue that has only just let go of the
\* remote: however the chrome, the stage and the rail changed before, cards are
\* on screen only once the cycle has run for its lead-in (focus-state.ts:36-44,
\* "reads as the screen is doing something on purpose"), and there is a timer to
\* hide them again.
PeeksOnPurpose ==
  OnScreen => calm = QUEUE_PEEK_LEAD_IN /\ cards > 0 /\ timer.on

\* Every singer who comes on stage is called to the microphone, one who was on
\* stage before included, and nobody else is (TvScreen.tsx:982).
CallsTheSinger ==
  [][/\ stage' # stage /\ stage' \in Singing => micCall' > 0
     /\ micCall' > 0 => called' = stage']_vars

\* When the fullscreen events have been heard, no player is the fullscreen
\* element, and the page knows whether it has its own fullscreen (TvScreen.tsx:773).
FullscreenIsOurs ==
  ~changed => ~TopIs("player") /\ isFullscreen = TopIs("page")

\* In a focus state that lasts, the cards keep coming out and keep going away
\* (the self-scheduling timer, TvScreen.tsx:931).
PeeksGoOn == <>[]Running => []<>OnScreen /\ []<>~OnScreen

\* As the code's comments have it (focus-state.ts:49, "How long the up-next cards
\* stay revealed on each cycle"): no longer than their window.
RevealedForItsWindow ==
  shown <= clampVisible(QUEUE_PEEK_VISIBLE, QUEUE_PEEK_PERIOD)
=============================================================================
