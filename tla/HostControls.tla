----------------------------- MODULE HostControls -----------------------------
(***************************************************************************)
(* The dashboard of AdminRoom.tsx: the two polls, and the host's actions with *)
(* their optimistic views, their busy flags and what they do when a request    *)
(* is refused or lost.                                                        *)
(*                                                                           *)
(* The room's queue and pause flag are one version number, its pending list    *)
(* another, mode and moderation are booleans (fairness or another mode).  An   *)
(* action that failed on the way may have reached the server: both happen.     *)
(* Getting in and out is HostAccess', the routes are RoomQueue's, Moderation's *)
(* and RoomRecord's.                                                          *)
(***************************************************************************)
EXTENDS Naturals, FiniteSets

CONSTANTS
  MaxChanges,    \* bound: changes of the queue and of the pending list
  MaxPolls,      \* bound: requests of one kind under way
  MaxActions, MaxLost   \* bounds: actions of the host, lost calls

HostControlsAssumption == {MaxChanges, MaxPolls, MaxActions, MaxLost} \subseteq Nat

VARIABLES
  room,     \* queue, pending, mode, moderation, language, as the server has them
  view,     \* the same, as the dashboard shows them
  busy,     \* the flags busy, modBusy, langBusy that are up
  polls,    \* fetches under way
  act,      \* the actions under way
  confirming,   \* a removal waits for its confirmation
  done, lost    \* actions so far, lost calls (history)

vars == <<room, view, busy, polls, act, confirming, done, lost>>

Kinds == {"queue", "pending"}
Fields(kind) == IF kind = "queue" THEN {"queue", "mode", "moderation"} ELSE {"pending"}
NoAnswer == [none |-> TRUE]
Fetch(kind) == [kind |-> kind, answer |-> NoAnswer]
Fetching(kinds) == polls \cup {Fetch(k) : k \in {k \in kinds : Cardinality({p \in polls : p.kind = k}) < MaxPolls}}

Init ==
  /\ room \in [queue : {0}, pending : {0}, mode : {FALSE}, moderation : BOOLEAN, language : {FALSE}]
  /\ view = [queue |-> 0, pending |-> 0, mode |-> FALSE, moderation |-> FALSE, language |-> FALSE]
  /\ busy = {} /\ polls = {} /\ act = {} /\ confirming = FALSE
  /\ done = 0 /\ lost = 0

Lost == lost < MaxLost /\ lost' = lost + 1

\* ---- the room's other users ----

QueueChanges ==
  /\ room.queue < MaxChanges
  /\ room' = [room EXCEPT !.queue = @ + 1]
  /\ UNCHANGED <<view, busy, polls, act, confirming, done, lost>>

Submitted ==
  /\ room.moderation /\ room.pending < MaxChanges
  /\ room' = [room EXCEPT !.pending = @ + 1]
  /\ UNCHANGED <<view, busy, polls, act, confirming, done, lost>>

\* ---- the polls ----

Tick ==
  /\ polls' = Fetching(Kinds) /\ polls' # polls
  /\ UNCHANGED <<room, view, busy, act, confirming, done, lost>>

ServePoll(p) ==
  /\ p.answer = NoAnswer
  /\ polls' = (polls \ {p}) \cup {[p EXCEPT !.answer = [f \in Fields(p.kind) |-> room[f]]]}
  /\ UNCHANGED <<room, view, busy, act, confirming, done, lost>>

\* The mistake of a queue poll that leaves the moderation switch alone.
QueueLandsPartly(p) ==
  /\ p.kind = "queue" /\ p.answer # NoAnswer
  /\ polls' = polls \ {p}
  /\ view' = [view EXCEPT !.queue = p.answer.queue, !.mode = p.answer.mode]
  /\ UNCHANGED <<room, busy, act, confirming, done, lost>>

\* fetchQueue
QueueLands(p) ==
  /\ p.kind = "queue" /\ p.answer # NoAnswer
  /\ polls' = polls \ {p}
  /\ view' = [view EXCEPT !.queue = p.answer.queue, !.mode = p.answer.mode,
                          !.moderation = p.answer.moderation]
  /\ UNCHANGED <<room, busy, act, confirming, done, lost>>

\* fetchPending
PendingLands(p) ==
  /\ p.kind = "pending" /\ p.answer # NoAnswer
  /\ polls' = polls \ {p}
  /\ view' = [view EXCEPT !.pending = p.answer.pending]
  /\ UNCHANGED <<room, busy, act, confirming, done, lost>>

PollFails(p) ==
  /\ Lost /\ polls' = polls \ {p}
  /\ UNCHANGED <<room, view, busy, act, confirming, done>>

\* ---- the host's actions ----

Flag(kind) == CASE kind = "language" -> "language" [] kind = "moderation" -> "moderation" [] OTHER -> "busy"

Begin(kind, value, prev) ==
  /\ done < MaxActions /\ done' = done + 1
  /\ act' = act \cup {[kind |-> kind, at |-> "sent", value |-> value, prev |-> prev]}
  /\ busy' = busy \cup {Flag(kind)}

\* Skip, no-show, pause and move; their buttons are disabled while one is under way.
QueueAction ==
  /\ "busy" \notin busy
  /\ Begin("queue", TRUE, FALSE)
  /\ UNCHANGED <<room, view, polls, confirming, lost>>

\* The removal of an entry is confirmed first; the confirmation is never disabled.
AskRemove ==
  /\ "busy" \notin busy /\ confirming' = ~confirming
  /\ UNCHANGED <<room, view, busy, polls, act, done, lost>>

Remove ==
  /\ confirming /\ confirming' = FALSE
  /\ ~\E a \in act : a.kind = "queue"
  /\ Begin("queue", TRUE, FALSE)
  /\ UNCHANGED <<room, view, polls, lost>>

DecidePending ==
  /\ "busy" \notin busy /\ view.moderation /\ view.pending > 0
  /\ Begin("pending", TRUE, FALSE)
  /\ UNCHANGED <<room, view, polls, confirming, lost>>

\* changeMode, changeLanguage, toggleModeration: the view moves first.
Set(field) ==
  /\ Flag(field) \notin busy
  /\ Begin(field, ~view[field], view[field])
  /\ view' = [view EXCEPT ![field] = ~@]
  /\ UNCHANGED <<room, polls, confirming, lost>>

\* The routes.
Serve(a) ==
  /\ a.at = "sent"
  /\ CASE a.kind = "queue" -> room.queue < MaxChanges /\ room' = [room EXCEPT !.queue = @ + 1]
       [] a.kind = "pending" ->
            /\ room.pending > 0 /\ room.queue < MaxChanges
            /\ room' = [room EXCEPT !.pending = @ - 1, !.queue = @ + 1]
       [] a.kind = "moderation" ->
            room' = [room EXCEPT !.moderation = a.value, !.pending = IF a.value THEN @ ELSE 0]
       [] OTHER -> room' = [room EXCEPT ![a.kind] = a.value]
  /\ act' = (act \ {a}) \cup {[a EXCEPT !.at = "taken"]}
  /\ UNCHANGED <<view, busy, polls, confirming, done, lost>>

Refuse(a) ==
  /\ a.at = "sent"
  /\ act' = (act \ {a}) \cup {[a EXCEPT !.at = "refused"]}
  /\ UNCHANGED <<room, view, busy, polls, confirming, done, lost>>

Optimistic(a) == a.kind \in {"moderation", "language"}
Ends(a) == act' = act \ {a} /\ busy' = busy \ {Flag(a.kind)}
RefreshedBy(a) ==
  CASE a.kind = "pending" -> Kinds [] a.kind = "moderation" -> {"pending"}
    [] a.kind = "language" -> {} [] OTHER -> {"queue"}

\* The flag stays up, in the code, until the refresh is back: one poll longer.
Taken(a) ==
  /\ a.at = "taken" /\ Ends(a)
  /\ polls' = Fetching(RefreshedBy(a))
  /\ UNCHANGED <<room, view, confirming, done, lost>>

\* A refusal: the mode is read again, the switch and the language go back.
Refused(a) ==
  /\ a.at = "refused" /\ Ends(a)
  /\ view' = IF Optimistic(a) THEN [view EXCEPT ![a.kind] = a.prev] ELSE view
  /\ polls' = IF Optimistic(a) THEN polls ELSE Fetching(RefreshedBy(a))
  /\ UNCHANGED <<room, confirming, done, lost>>

\* No answer, and the request may have been taken all the same.
ActionFails(a) ==
  /\ Lost /\ Ends(a)
  /\ view' = IF Optimistic(a) THEN [view EXCEPT ![a.kind] = a.prev] ELSE view
  /\ polls' = CASE a.kind = "mode" -> Fetching({"queue"}) [] a.kind = "pending" -> Fetching({"pending"}) [] OTHER -> polls
  /\ UNCHANGED <<room, confirming, done>>

Host ==
  \/ QueueAction \/ AskRemove \/ Remove \/ DecidePending
  \/ \E field \in {"mode", "language", "moderation"} : Set(field)

Serves(kind) == \E p \in polls : p.kind = kind /\ ServePoll(p)
Lands(kind) == \E p \in polls : p.kind = kind /\ (QueueLands(p) \/ PendingLands(p))
Settle == \E a \in act : Taken(a) \/ Refused(a)
Answer == \E a \in act : Serve(a) \/ Refuse(a)

Next ==
  \/ Host \/ Tick \/ QueueChanges \/ Submitted \/ Settle \/ Answer
  \/ \E a \in act : ActionFails(a)
  \/ \E p \in polls : PollFails(p)
  \/ \E kind \in Kinds : Serves(kind) \/ Lands(kind)

Spec == Init /\ [][Next]_vars

\* The interval runs while the dashboard is open; of each kind some fetch is served
\* and some answer arrives; every request of the host is answered.
FairSpec ==
  /\ Spec
  /\ WF_vars(Tick) /\ WF_vars(Answer) /\ WF_vars(Settle)
  /\ \A kind \in Kinds : WF_vars(Serves(kind)) /\ WF_vars(Lands(kind))

\* ---- properties ----

Polled(state) == [f \in {"queue", "pending", "mode", "moderation"} |-> state[f]]

\* "Optimistic -- poll reconciles": whatever order answers come in, and whichever
\* are lost after the server acted, the dashboard ends up showing the room's mode,
\* moderation switch, queue and pending list, with no button left disabled.  (The
\* language is not among them: nothing polls it, and a lost answer leaves it wrong.)
DashboardSettles == <>[](Polled(view) = Polled(room) /\ busy = {})
=============================================================================
