----------------------------- MODULE MCRoomQueue -----------------------------
(* RoomQueue for TLC: two people, one at a table and one without, with one  *)
(* song each on the list, and a listen more when it opens over its bound,   *)
(* as racing submissions leave it; and a trio, where one of three holds two *)
(* songs.                                                                   *)
EXTENDS RoomQueue
CONSTANTS p1, p2, p3, t1
MCParticipants == {p1, p2}
MCTables == {t1}
Sing(u, v) == [uuid |-> u, table |-> IF u = p1 THEN t1 ELSE NoTable, video |-> v, kind |-> "sing"]
MCSongs == {Sing(p1, 7), Sing(p2, 7)}
MCOpening == <<Sing(p1, 1), Sing(p2, 2)>>
FullOpening == Append(MCOpening, [Sing(p2, 3) EXCEPT !.kind = "listen"])
Symmetry == Permutations(Handlers)

TrioParticipants == {p1, p2, p3}
TrioOpening == <<Sing(p1, 1), Sing(p1, 2), Sing(p2, 3), Sing(p3, 4)>>
=============================================================================
