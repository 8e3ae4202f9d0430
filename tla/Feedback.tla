------------------------------- MODULE Feedback -------------------------------
(***************************************************************************)
(* Feedback from a tap to the house's intake: the sheet a patron opens     *)
(* (FeedbackWidget, FeedbackSheet), POST /api/feedback with its rate limit *)
(* and the durable store's two writes (lib/feedback-store.ts), and the     *)
(* admin's reads and status changes.                                       *)
(*                                                                         *)
(* Any Redis call can fail, and the answer of a submission can be lost; a  *)
(* record's number stands for its time-sortable id.                        *)
(***************************************************************************)
EXTENDS Naturals, Sequences, FiniteSets, Functions

CONSTANTS Sheets,        \* the mounted sheets of one device
          RATE_LIMIT_MAX,
          MaxPosts, MaxFaults, MaxWindows     \* bounds of the exploration

FeedbackAssumption ==
  {MaxPosts, MaxFaults} \subseteq Nat /\ {RATE_LIMIT_MAX, MaxWindows} \subseteq Nat \ {0}

VARIABLES window,    \* the rate limit's hour: floor(now / RATE_LIMIT_WINDOW_MS)
          counter,   \* feedback:rl:<uuid>:<window>, per window
          item,      \* feedback:item:<id>, its status, or "none"
          index,     \* feedback:index
          sheet,     \* per sheet: its phase, and the number of its submission
          post,      \* per submission: where the route is with it, and its id
          stamped,   \* how many ids were generated
          patch,     \* the record an admin's status change has read
          seen,      \* the ids the intake was given, its watermark, and the
          mark,      \* ids that were not in the index when it passed them
          overtaken,
          faults

server == <<counter, item, index, stamped, patch, seen, mark, overtaken>>
vars == <<window, server, sheet, post, faults>>

Posts == 1..MaxPosts
Unsent == [pc |-> "unsent", window |-> 0, id |-> 0]
Closed == [phase |-> "closed", of |-> 0]

Init ==
  /\ window = 1 /\ faults = 0 /\ stamped = 0 /\ seen = {} /\ mark = 0 /\ overtaken = {}
  /\ counter = [w \in 1..MaxWindows |-> 0]
  /\ item = [id \in Posts |-> "none"]
  /\ index = <<>>
  /\ sheet = [s \in Sheets |-> Closed]
  /\ post = [p \in Posts |-> Unsent]
  /\ patch = 0

-----------------------------------------------------------------------------
(* The sheet.                                                               *)

Open(s) ==
  /\ sheet[s].phase = "closed"
  /\ \E p \in Posts : post[p] = Unsent
  /\ sheet' = [sheet EXCEPT ![s].phase = "form"]
  /\ UNCHANGED <<window, server, post, faults>>

\* A face is the submission; while one is being sent the others are disabled.
submit(s) ==
  /\ sheet[s].phase \in {"form", "error"}
  /\ \E p \in Posts :
       /\ post[p] = Unsent /\ \A q \in 1..(p - 1) : post[q] # Unsent
       /\ sheet' = [sheet EXCEPT ![s] = [phase |-> "sending", of |-> p]]
       /\ post' = [post EXCEPT ![p].pc = "hit"]
  /\ UNCHANGED <<window, server, faults>>

\* The answer arrives at the sheet that is still there for it.
Answered(s) ==
  /\ sheet[s].phase = "sending" /\ post[sheet[s].of].pc \in {"created", "refused", "failed"}
  /\ sheet' = [sheet EXCEPT ![s].phase =
                 IF post[sheet[s].of].pc = "created" THEN "done" ELSE "error"]
  /\ UNCHANGED <<window, server, post, faults>>

\* The connection breaks; the route may be anywhere.
Offline(s) ==
  /\ sheet[s].phase = "sending" /\ faults < MaxFaults
  /\ faults' = faults + 1
  /\ sheet' = [sheet EXCEPT ![s].phase = "error"]
  /\ UNCHANGED <<window, server, post>>

\* Escape, the cross or the overlay, at any moment: the sheet is unmounted.
Close(s) ==
  /\ sheet[s].phase # "closed"
  /\ sheet' = [sheet EXCEPT ![s] = Closed]
  /\ UNCHANGED <<window, server, post, faults>>

-----------------------------------------------------------------------------
(* POST: count the attempt, write the item, then the index, then answer.    *)

\* Within the limit the route generates the id and goes on to the item.
Admit(p, hour) ==
  /\ stamped' = stamped + 1
  /\ post' = [post EXCEPT ![p] = [pc |-> "item", window |-> hour, id |-> stamped + 1]]

\* Mutant: one more than the limit.
AllowedOneMore(count) == count <= RATE_LIMIT_MAX + 1

Allowed(count) == count <= RATE_LIMIT_MAX

\* hitRateLimit: INCR on the key of this hour, a new counter gets an expiry.
Hit(p) ==
  LET count == counter[window] + 1
  IN /\ post[p].pc = "hit"
     /\ counter' = [counter EXCEPT ![window] = count]
     /\ \/ count = 1 /\ post' = [post EXCEPT ![p].pc = "expire", ![p].window = window] /\ UNCHANGED stamped
        \/ count > 1 /\ Allowed(count) /\ Admit(p, window)
        \/ ~Allowed(count) /\ post' = [post EXCEPT ![p].pc = "refused"] /\ UNCHANGED stamped
     /\ UNCHANGED <<window, item, index, sheet, patch, seen, mark, overtaken, faults>>

Expire(p) ==
  /\ post[p].pc = "expire"
  /\ Admit(p, post[p].window)
  /\ UNCHANGED <<window, counter, item, index, sheet, patch, seen, mark, overtaken, faults>>

\* Mutant: listed before it is written.
SetItemLate(p) ==
  /\ post[p].pc = "item"
  /\ index' = Append(index, post[p].id)
  /\ post' = [post EXCEPT ![p].pc = "index"]
  /\ UNCHANGED <<window, counter, item, stamped, sheet, patch, seen, mark, overtaken, faults>>

SetItem(p) ==
  /\ post[p].pc = "item"
  /\ item' = [item EXCEPT ![post[p].id] = "new"]
  /\ post' = [post EXCEPT ![p].pc = "index"]
  /\ UNCHANGED <<window, counter, index, stamped, sheet, patch, seen, mark, overtaken, faults>>

PushIndex(p) ==
  /\ post[p].pc = "index"
  /\ index' = Append(index, post[p].id)
  /\ post' = [post EXCEPT ![p].pc = "created"]
  /\ UNCHANGED <<window, counter, item, stamped, sheet, patch, seen, mark, overtaken, faults>>

\* A Redis call throws: the route ends there with a 500.
Throws(p) ==
  /\ post[p].pc \in {"hit", "expire", "item", "index"} /\ faults < MaxFaults
  /\ faults' = faults + 1
  /\ post' = [post EXCEPT ![p].pc = "failed"]
  /\ UNCHANGED <<window, server, sheet>>

\* The hour turns.
NextWindow ==
  /\ window < MaxWindows
  /\ window' = window + 1
  /\ UNCHANGED <<server, sheet, post, faults>>

-----------------------------------------------------------------------------
(* The admin: GET ?since=<mark>&limit=<n> and PATCH.                        *)

\* Mutant: in the order they were pushed.
PageUnsorted(since, limit) ==
  LET ids == SelectSeq(index, LAMBDA id : id > since)
  IN  {ids[i] : i \in {j \in DOMAIN ids : j <= limit}}

\* list: the first ids after the watermark, by id whatever the order of the index. A list
\* of different ids in their order is their set.
Page(since, limit) ==
  LET ids == {id \in Range(index) : id > since}
  IN  {id \in ids : Cardinality({i \in ids : i < id}) < limit}

Latest(ids) == CHOOSE id \in ids : \A i \in ids : i <= id

GET ==
  /\ \E limit \in 1..MaxPosts :
       LET got == {id \in Page(mark, limit) : item[id] # "none"}
       IN /\ got # {}
          /\ seen' = seen \cup got
          /\ mark' = Latest(got)
          /\ overtaken' = overtaken \cup {id \in 1..Latest(got) : id \notin Range(index)}
  /\ UNCHANGED <<window, counter, item, index, stamped, sheet, post, patch, faults>>

\* updateStatus reads the record and writes it back.
PatchRead ==
  /\ patch = 0
  /\ \E id \in seen : item[id] = "new" /\ patch' = id
  /\ UNCHANGED <<window, counter, item, index, stamped, sheet, post, seen, mark, overtaken, faults>>

PatchWrite ==
  /\ patch # 0
  /\ item' = [item EXCEPT ![patch] = "triaged"]
  /\ patch' = 0
  /\ UNCHANGED <<window, counter, index, stamped, sheet, post, seen, mark, overtaken, faults>>

Next ==
  \/ \E s \in Sheets : Open(s) \/ submit(s) \/ Answered(s) \/ Offline(s) \/ Close(s)
  \/ \E p \in Posts : Hit(p) \/ Expire(p) \/ SetItem(p) \/ PushIndex(p) \/ Throws(p)
  \/ NextWindow \/ GET \/ PatchRead \/ PatchWrite

Spec == Init /\ [][Next]_vars

-----------------------------------------------------------------------------
Listed(id) == id \in Range(index) /\ item[id] # "none"

\* A patron who is thanked is on the list the house reads, and nothing on it is
\* a dangling id, at whatever step a call throws or a connection breaks
\* (UpstashFeedbackStore.add, feedback-store.ts:174, "never a dangling index";
\* FeedbackSheet.tsx:64).
ThanksMeansListed ==
  /\ \A s \in Sheets : sheet[s].phase = "done" => Listed(post[sheet[s].of].id)
  /\ \A id \in Range(index) : item[id] # "none"

\* A device gets at most RATE_LIMIT_MAX records in one hour's window, however
\* many sheets submit at once and whichever attempts fail
\* (hitRateLimit, feedback-store.ts:213).
WithinTheRate ==
  \A w \in 1..MaxWindows :
    Cardinality({p \in Posts : post[p].window = w /\ post[p].id # 0}) <= RATE_LIMIT_MAX

\* Reading on from the watermark, page by page, skips only what was stamped
\* before it and pushed to the index after: whatever was on the list when the
\* watermark passed it was delivered (list, feedback-store.ts:181, GET).
OnlyInFlightIsOvertaken ==
  \A id \in Range(index) : id <= mark /\ id \notin overtaken => id \in seen
=============================================================================
