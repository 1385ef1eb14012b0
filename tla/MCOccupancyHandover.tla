------------------------- MODULE MCOccupancyHandover -------------------------
EXTENDS OccupancyHandover

Alone(events, n) == [tools |-> FALSE, events |-> events, edits |-> n]
Beside(events, n) == [tools |-> TRUE, events |-> events, edits |-> n]

(* One behaviour in eight of these: a stream-in beside bakes; carves       *)
(* beside failing reads, or beside bakes; searches that gave up waiting; a *)
(* tool thread beside a stream-in; bricks refused beside a stream-in (with *)
(* one edit), beside bakes, and beside a tool thread.                      *)
AllHosts ==
  {Alone({"stream", "regen"}, 2), Alone({"carve", "short read", "refused read"}, 2),
   Alone({"carve", "regen"}, 2), Alone({"impatience", "carve"}, 2), Beside({"stream"}, 2),
   Alone({"drop", "stream"}, 1), Alone({"drop", "regen"}, 2), Beside({"drop"}, 2)}
CarveOnly == {Alone({"carve"}, 3)}
=============================================================================
