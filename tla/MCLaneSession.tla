--------------------------- MODULE MCLaneSession ---------------------------
(***************************************************************************)
(* Small instances of LaneSession.                                         *)
(***************************************************************************)
EXTENDS LaneSafety

F(type, id, n) == [type |-> type, id |-> id, n |-> n]

(* Stream 1 is opened, written to and closed over its lane.  Stream 2,     *)
(* which is there for an instant, or refused, takes its place among the    *)
(* tombstones; over the lane of stream 1 it is a protocol failure.         *)
LaneStreams ==
  {<<F("OPEN", 1, 0)>>, <<F("DATA", 1, 1)>>, <<F("CLOSE", 1, 0)>>,
   <<F("OPEN", 2, 0), F("CLOSE", 2, 0)>>}

(* The first body of a stream is all a socket needs to send.               *)
FirstBody == {<<F("OPEN", 1, 0)>>}

=============================================================================
