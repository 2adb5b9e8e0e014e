---------------------------- MODULE MCSeatStream ----------------------------
(* Small instances of SeatStream. *)
EXTENDS SeatStream

CONSTANTS c1, c2

Card(k, tap) == [key |-> k, tap |-> tap]

\* One card, then two, then one of them gone and the other moved or turned.
FewBoards ==
    {<<Card(c1, 0)>>,
     <<Card(c1, 1)>>,
     <<Card(c2, 0), Card(c1, 0)>>}

Player == [local |-> FALSE, applies |-> TRUE]
OldPlayer == [local |-> FALSE, applies |-> FALSE]
LocalBot == [local |-> TRUE, applies |-> TRUE]

AllSeats == {Player, OldPlayer, LocalBot}
BotOrPlayer == {Player, LocalBot}
OldOrNew == {Player, OldPlayer}
Players == {Player}

=============================================================================
