---- MODULE MCRelayRooms ----
(* RelayRooms on a few users: a bot needs one player id, others two;
  a run that needs no second session of a user gives everyone one.        *)
EXTENDS RelayRooms

TwoIds == [u \in Users |-> IF u \in Bots THEN 1 ELSE 2]
OneId == [u \in Users |-> 1]
Symmetry == Permutations(Humans)
====
