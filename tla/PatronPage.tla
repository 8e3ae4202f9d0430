------------------------------ MODULE PatronPage ------------------------------
(***************************************************************************)
(* PatronRoom.tsx, the page a patron keeps open in a room: the identity it    *)
(* boots with, the nickname gate, the song picked, the submission, and the    *)
(* two polls whose answers may arrive in any order, be lost or fail.          *)
(*                                                                           *)
(* The room's queue and mode are one version number, the pending entries are  *)
(* counted per patron uuid, and the notice of a changed mode is left out.  The *)
(* search box that hands the page its picks is SearchBox's, the queue route is *)
(* RoomQueue's and Moderation's.                                              *)
(***************************************************************************)
EXTENDS Naturals, FiniteSets

CONSTANTS
  OwnUuid, ServerUuid,   \* the uuid in localStorage, and the one the cookie holds
  MaxVersion, MaxPending, MaxPicks, MaxPolls, MaxLost   \* bounds

PatronPageAssumption ==
  /\ {MaxVersion, MaxPending, MaxPicks, MaxPolls, MaxLost} \subseteq Nat
  /\ OwnUuid # ServerUuid

Uuids == {OwnUuid, ServerUuid}

VARIABLES
  room,       \* the room's version, and the patron's pending entries
  uuid, registering,
  named,      \* the nickname is set
  picked,     \* a song is selected (parsedVideoId)
  shown,      \* what the page shows: version and pending count
  polls,      \* requests under way: kind, the uuid asked for, the answer
  submit,     \* the submission under way
  picks, accepted, lost   \* songs picked, submissions taken, lost calls (history)

history == <<picks, accepted, lost>>
vars == <<room, uuid, registering, named, picked, shown, polls, submit, history>>

Kinds == {"queue", "pending"}
NoAnswer == MaxVersion + MaxPending + 1
NoSubmit == [at |-> "none", uuid |-> OwnUuid]

Init ==
  /\ room = [version |-> 0, pending |-> [u \in Uuids |-> 0]]
  /\ uuid = OwnUuid /\ registering = TRUE
  /\ named \in BOOLEAN /\ picked = FALSE
  /\ shown = [version |-> 0, pending |-> 0]
  /\ polls = {} /\ submit = NoSubmit
  /\ picks = 0 /\ accepted = 0 /\ lost = 0

Lost == lost < MaxLost /\ lost' = lost + 1

\* ---- the room, as others change it ----

RoomChanges ==
  /\ room.version < MaxVersion
  /\ room' = [room EXCEPT !.version = @ + 1]
  /\ UNCHANGED <<uuid, registering, named, picked, shown, polls, submit, history>>

\* The host approves an entry, or a rejected one expires.
PendingResolved(u) ==
  /\ room.pending[u] > 0 /\ room.version < MaxVersion
  /\ room' = [room EXCEPT !.pending[u] = @ - 1, !.version = @ + 1]
  /\ UNCHANGED <<uuid, registering, named, picked, shown, polls, submit, history>>

\* ---- polling ----

\* What the effects and the refresh after a submission ask for; only the pending
\* entries are asked for by uuid.  A request is not sent twice, and MaxPolls bounds
\* those of one kind.
Asking(kinds, u) ==
  {[kind |-> k, uuid |-> IF k = "pending" THEN u ELSE OwnUuid, answer |-> NoAnswer] :
     k \in {k \in kinds : Cardinality({p \in polls : p.kind = k}) < MaxPolls}}

\* The mistake of a polling effect that keeps the uuid it began with.
TickStaleUuid ==
  /\ polls' = polls \cup Asking(Kinds, OwnUuid) /\ polls' # polls
  /\ UNCHANGED <<room, uuid, registering, named, picked, shown, submit, history>>

\* The interval of the polling effect, which runs anew for another uuid.
Tick ==
  /\ polls' = polls \cup Asking(Kinds, uuid) /\ polls' # polls
  /\ UNCHANGED <<room, uuid, registering, named, picked, shown, submit, history>>

ServePoll(p) ==
  /\ p.answer = NoAnswer
  /\ polls' = (polls \ {p}) \cup
       {[p EXCEPT !.answer = IF p.kind = "queue" THEN room.version ELSE room.pending[p.uuid]]}
  /\ UNCHANGED <<room, uuid, registering, named, picked, shown, submit, history>>

\* fetchQueue
QueueLands(p) ==
  /\ p.kind = "queue" /\ p.answer # NoAnswer
  /\ polls' = polls \ {p}
  /\ shown' = [shown EXCEPT !.version = p.answer]
  /\ UNCHANGED <<room, uuid, registering, named, picked, submit, history>>

\* fetchPending
PendingLands(p) ==
  /\ p.kind = "pending" /\ p.answer # NoAnswer
  /\ polls' = polls \ {p}
  /\ shown' = [shown EXCEPT !.pending = p.answer]
  /\ UNCHANGED <<room, uuid, registering, named, picked, submit, history>>

PollFails(p) ==
  /\ Lost /\ polls' = polls \ {p}
  /\ UNCHANGED <<room, uuid, registering, named, picked, shown, submit, picks, accepted>>

\* ---- identity and nickname ----

\* The identity answer: the cookie's uuid replaces the page's, and the polling
\* effect, which depends on it, runs again.
Registered(u) ==
  /\ registering /\ registering' = FALSE
  /\ uuid' = u
  /\ polls' = IF u = uuid THEN polls ELSE polls \cup Asking(Kinds, u)
  /\ UNCHANGED <<room, named, picked, shown, submit, history>>

NotRegistered ==
  /\ registering /\ Lost /\ registering' = FALSE
  /\ UNCHANGED <<room, uuid, named, picked, shown, polls, submit, picks, accepted>>

SaveNickname ==
  /\ ~named /\ named' = TRUE
  /\ UNCHANGED <<room, uuid, registering, picked, shown, polls, submit, history>>

\* Back to the gate; the form's state stays.
RenameMe ==
  /\ named /\ named' = FALSE
  /\ UNCHANGED <<room, uuid, registering, picked, shown, polls, submit, history>>

\* ---- the form ----

\* handleSelect, which stays open while a submission is under way.
Pick ==
  /\ named /\ picks < MaxPicks
  /\ picks' = picks + 1 /\ picked' = TRUE
  /\ UNCHANGED <<room, uuid, registering, named, shown, polls, submit, accepted, lost>>

Unpick ==
  /\ named /\ picked /\ picked' = FALSE
  /\ UNCHANGED <<room, uuid, registering, named, shown, polls, submit, history>>

\* The button is disabled without a song and while a submission is under way.
MaySubmit == named /\ picked /\ submit = NoSubmit

Submit ==
  /\ MaySubmit
  /\ submit' = [at |-> "sent", uuid |-> uuid]
  /\ UNCHANGED <<room, uuid, registering, named, picked, shown, polls, history>>

\* The route takes the song, into the queue or into the pending list, or refuses it.
Accepts ==
  /\ submit.at = "sent"
  /\ \/ room.version < MaxVersion /\ room' = [room EXCEPT !.version = @ + 1]
     \/ room.pending[submit.uuid] < MaxPending /\ room' = [room EXCEPT !.pending[submit.uuid] = @ + 1]
  /\ accepted' = accepted + 1
  /\ submit' = [submit EXCEPT !.at = "taken"]
  /\ UNCHANGED <<uuid, registering, named, picked, shown, polls, picks, lost>>

Refuses ==
  /\ submit.at = "sent"
  /\ submit' = [submit EXCEPT !.at = "refused"]
  /\ UNCHANGED <<room, uuid, registering, named, picked, shown, polls, history>>

\* The mistake of keeping the selection after a success.
SucceedsKeepingSong ==
  /\ submit.at = "taken"
  /\ submit' = NoSubmit /\ picked' = picked
  /\ polls' = polls \cup Asking(Kinds, submit.uuid)
  /\ UNCHANGED <<room, uuid, registering, named, shown, history>>

\* The selection is cleared, whichever song it is by now; both lists are fetched
\* with the uuid of the submission.
Succeeds ==
  /\ submit.at = "taken"
  /\ submit' = NoSubmit /\ picked' = FALSE
  /\ polls' = polls \cup Asking(Kinds, submit.uuid)
  /\ UNCHANGED <<room, uuid, registering, named, shown, history>>

Fails ==
  /\ submit.at = "refused" /\ submit' = NoSubmit
  /\ UNCHANGED <<room, uuid, registering, named, picked, shown, polls, history>>

\* The request or its answer is lost: the song stays selected.
NetworkError ==
  /\ submit # NoSubmit /\ Lost /\ submit' = NoSubmit
  /\ UNCHANGED <<room, uuid, registering, named, picked, shown, polls, picks, accepted>>

Patron == Pick \/ Unpick \/ Submit \/ SaveNickname \/ RenameMe
Lands(kind) == \E p \in polls : p.kind = kind /\ (QueueLands(p) \/ PendingLands(p))
Serves(kind) == \E p \in polls : p.kind = kind /\ ServePoll(p)

Next ==
  \/ Patron \/ Tick \/ NotRegistered \/ RoomChanges
  \/ \E u \in Uuids : Registered(u) \/ PendingResolved(u)
  \/ Accepts \/ Refuses \/ Succeeds \/ Fails \/ NetworkError
  \/ \E p \in polls : PollFails(p)
  \/ \E kind \in Kinds : Serves(kind) \/ Lands(kind)

Spec == Init /\ [][Next]_vars

\* The interval goes on for as long as the page is open, and of each kind some
\* request is served and some answer arrives.
FairSpec ==
  /\ Spec
  /\ WF_vars(Tick)
  /\ \A kind \in Kinds : WF_vars(Serves(kind)) /\ WF_vars(Lands(kind))

\* ---- properties ----

\* A song picked once is taken once, but for a call whose answer was lost: the
\* patron who repeats it cannot know that the first was taken.
TakenOncePerPick == accepted <= picks + lost

\* Polls overtake each other, fail, and may ask for a uuid that is no longer the
\* page's: once the room is quiet the page still settles on what the room holds and
\* on what its own uuid has pending.
PageCatchesUp ==
  <>[](shown.version = room.version /\ shown.pending = room.pending[uuid])
=============================================================================
