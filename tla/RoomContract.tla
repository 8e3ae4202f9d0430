---------------------------- MODULE RoomContract ----------------------------
(***************************************************************************)
(* What lib/rooms.ts promises of a room record that several requests       *)
(* change, whatever the changes are: every change that commits was         *)
(* computed from the latest commit, in one step, so it undoes no other; it *)
(* sees an effective session epoch that some reader could see; and the     *)
(* epoch counter only goes up.                                             *)
(***************************************************************************)
EXTENDS Integers

CONSTANTS
  Clients,
  Rooms,            \* records, with a field epoch
  Changes,
  NoChange,         \* not a change
  Changed(_, _)     \* what a change makes of a record

VARIABLES
  room,      \* the record
  counter,   \* the epoch counter
  asked      \* per client: the change it may still make

\* The epoch that readers see.
Effective == IF room.epoch >= counter THEN room.epoch ELSE counter

Init ==
  /\ room \in Rooms /\ counter = 0
  /\ asked = [c \in Clients |-> NoChange]

\* A call comes up with a change it wants to make.
Ask(c) ==
  /\ asked[c] = NoChange /\ asked'[c] \in Changes
  /\ asked' = [asked EXCEPT ![c] = asked'[c]]

Request(c) == Ask(c) /\ UNCHANGED <<room, counter>>

\* Nothing to change, or too many conflicts.
Withdraw(c) ==
  /\ asked' = [asked EXCEPT ![c] = NoChange]
  /\ UNCHANGED <<room, counter>>

Commit(c, epoch) ==
  /\ asked[c] # NoChange
  /\ room' = Changed(asked[c], [room EXCEPT !.epoch = epoch])
  /\ asked' = [asked EXCEPT ![c] = NoChange]
  /\ UNCHANGED counter

\* A revocation bumps the epoch and then asks for its rebind.
Revoke(c) ==
  /\ counter' \in Nat /\ counter' > Effective
  /\ Ask(c)
  /\ UNCHANGED room

Next ==
  \E c \in Clients :
    \/ Request(c) \/ Withdraw(c) \/ Revoke(c)
    \/ \E epoch \in room.epoch..Effective : Commit(c, epoch)

Spec == Init /\ [][Next]_<<room, counter, asked>>
=============================================================================
