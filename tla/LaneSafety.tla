----------------------------- MODULE LaneSafety -----------------------------
(***************************************************************************)
(* What a session in a lane mode guarantees, whatever its clients send and *)
(* in whatever order handlers, sockets and backends run.                   *)
(***************************************************************************)
EXTENDS LaneSession

stream(id) == ses.streams[id]

(* The lanes as a sequence, to sum over.                                   *)
LaneSeq == [k \in 1 .. MaxStreamID + 1 |-> ses.lanes[k - 1]]

OverLanes(F(_)) == Total([k \in 1 .. MaxStreamID + 1 |-> F(LaneSeq[k])])

(* Every byte and item charged to the session belongs to a frame queued in *)
(* some lane, to a batch some lane has not been acknowledged, or to a      *)
(* write queued for a backend: neither eviction, nor the end of a socket   *)
(* or of a backend, releases anything twice (releasePendingLocked would    *)
(* panic) or forgets anything (session.go:1357-1400).                      *)
LaneAccounting ==
  LET LaneCost(lane) == Total(Costs(lane.frames)) + lane.unackedCost
      LaneItems(lane) == Len(lane.frames) + lane.unackedItems
  IN  /\ ses.pendingCost =
           OverLanes(LaneCost) + Total([id \in StreamIds |-> stream(id).pendingWriteCost])
      /\ ses.pendingItems =
           OverLanes(LaneItems) + Total([id \in StreamIds |-> stream(id).pendingWriteItems])

(* A live stream has its lane, or queueLaneFrameLocked would refuse its    *)
(* frames and close the session; and a lane whose client has got a body    *)
(* through is the lane of a live stream or of one remembered as closed:    *)
(* the map does not keep lanes that nobody will remove                     *)
(* (session.go:374, 1100, 1341).                                           *)
LanesMatchStreams ==
  ~ses.closed =>
    /\ \A id \in LiveStreams(ses) : ses.lanes[id].present
    /\ \A id \in StreamIds :
         ses.lanes[id].present /\ ses.lanes[id].lastUpSequence # 0 =>
           stream(id).live \/ WasClosed(ses, id)

Waiting(h) == polls[h].pc \in {"parked", "woken"}

(* A parked poll that owns its lane will be woken for what the lane holds, *)
(* for the end of its stream, and for the loss of the lane object itself,  *)
(* which is no longer in the map: the token is in the channel, or with a   *)
(* poll of the same object that is about to look (session.go:606-668,      *)
(* 1347-1372).                                                             *)
NoLostLaneWakeup ==
  \A h \in Pollers :
    polls[h].pc = "parked" /\ Owns(h) /\ Ended(ses, polls, h) # "no" =>
      HasToken(h) \/ \E g \in Pollers : polls[g].pc = "woken" /\ Object(g) = Object(h)

(* The newest poll of a lane object owns it, with the cursor of the lane;  *)
(* each older one has been told (session.go:599-613).                      *)
LaneOwnership ==
  \A h \in Pollers :
    Waiting(h) /\ OnCurrent(h) =>
      LET lane == ses.lanes[polls[h].lane]
      IN  /\ lane.present
          /\ polls[h].superseded <=> lane.owner # h
          /\ lane.owner = h => lane.unacked = <<>> /\ polls[h].cursor = lane.downCursor

(* X-Lane-Closed means what it says: the stream has ended, and its lane    *)
(* neither holds nor will get anything the client has not acknowledged     *)
(* (session.go:638-655, PROTOCOL.md:275).                                  *)
ClosedMeansDrained ==
  \A id \in StreamIds :
    life[id] = "over" =>
      /\ ~stream(id).live
      /\ ses.lanes[id].frames = <<>> /\ ses.lanes[id].unacked = <<>>

(* Bodies of one lane never lead applyBatchLocked to a stream that is      *)
(* neither live nor remembered, where it would dereference nil             *)
(* (PROTOCOL.md:280).                                                      *)
LateFramesHarmless == \A h \in Pollers : ups[h].pc # "panicked"

-----------------------------------------------------------------------------
(* The session cannot go on without a CLOSE that its own limits, or those  *)
(* of the global pool, have no room for.                                   *)
CloseRefused ==
  \/ \E h \in Pollers : ups[h].pc = "closing"
  \/ "control" \in PoolRefuses
  \/ ~FitsSession(ses, HeaderSize + QueueItemCost, 1, "control")

(* In websocket-lanes a socket, whatever it sends and however it ends,     *)
(* fails alone: the session closes only when it is told to, or cannot      *)
(* queue a CLOSE (session.go:1407, PROTOCOL.md:342-349).                   *)
FailureStaysInLane ==
  [][OverSockets /\ ~ses.closed /\ ses'.closed => Close \/ CloseRefused]_vars

(* PROTOCOL.md:342: closing an established lane closes its backend stream. *)
(* A stream that outlives its socket would stay until its backend ends or  *)
(* the session closes.                                                     *)
NoStreamWithoutSocket ==
  OverSockets => \A id \in LiveStreams(ses) : \E h \in Pollers : Serves(h, id)

=============================================================================
