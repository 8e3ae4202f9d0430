---------------------------- MODULE QueueContract ----------------------------
(***************************************************************************)
(* What lib/store/types.ts promises of a room's queue: a list on which     *)
(* every call takes effect in one atomic step between its start and its    *)
(* end.  An add appends its entry or is refused; a remove drops its entry  *)
(* and nothing else; a rearrangement keeps exactly the entries there are;  *)
(* an advance drops the head.  No other step touches the list, so no       *)
(* submission is lost and no entry that left comes back.                   *)
(***************************************************************************)
EXTENDS Sequences, Integers, Functions

CONSTANTS Ids, Callers

VARIABLES list, asked

\* What a call in flight may still do: nothing, or one of these.
NoCall == [op |-> "none"]
AddCall(id) == [op |-> "add", id |-> id]
RemoveCall(id) == [op |-> "remove", id |-> id]
ArrangeCall == [op |-> "arrange"]

Calls == {NoCall, ArrangeCall} \cup {AddCall(id) : id \in Ids}
           \cup {RemoveCall(id) : id \in Ids}

Arranges(s, S) == s \in Seq(S) /\ Range(s) = S /\ IsInjective(s)

Init == list = <<>> /\ asked = [c \in Callers |-> NoCall]

Ask(c, call) ==
  /\ asked[c] = NoCall
  /\ asked' = [asked EXCEPT ![c] = call]
  /\ UNCHANGED list

Done(c) == asked' = [asked EXCEPT ![c] = NoCall]

Add(c, id) ==
  /\ asked[c] = AddCall(id)
  /\ list' = Append(list, id)
  /\ Done(c)

\* A full queue takes no entry: the call returns false.
Refuse(c, id) ==
  /\ asked[c] = AddCall(id)
  /\ UNCHANGED list
  /\ Done(c)

Remove(c, id) ==
  /\ asked[c] = RemoveCall(id)
  /\ Arranges(list', Range(list) \ {id})
  /\ Done(c)

Rearrange(c) ==
  /\ asked[c] = ArrangeCall
  /\ Arranges(list', Range(list))
  /\ Done(c)

Advance ==
  /\ list # <<>>
  /\ list' = Tail(list)
  /\ UNCHANGED asked

Next ==
  \/ \E c \in Callers, call \in Calls : Ask(c, call)
  \/ \E c \in Callers, id \in Ids : Add(c, id) \/ Refuse(c, id) \/ Remove(c, id)
  \/ \E c \in Callers : Rearrange(c)
  \/ Advance

Spec == Init /\ [][Next]_<<list, asked>>
=============================================================================
