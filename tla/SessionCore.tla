---------------------------- MODULE SessionCore ----------------------------
(***************************************************************************)
(* The state a Session guards with its mutex and the critical sections     *)
(* every carrier mode shares (internal/session/session.go).  Each operator *)
(* maps the session record before a `...Locked` helper to the record after *)
(* it; the modules that extend this one compose them into actions.         *)
(*                                                                         *)
(* A session in a multiplexed mode (https, websocket) keeps one downlink   *)
(* queue and one uplink cursor in the Session itself; in a lane mode it    *)
(* keeps one of each per carrierLane.  Both are a Lane here, and the       *)
(* multiplexed session is the one whose only lane is lane 0.               *)
(***************************************************************************)
EXTENDS SessionBudget

CONSTANTS
  CarrierLanes,        \* usesCarrierLanes(): one lane per stream
  Bodies,              \* the uplink bodies clients send
  Pollers,             \* the downlink handlers that may run at the same time
  NoPoller

ASSUME CarrierAssumption ==
  /\ CarrierLanes \in BOOLEAN
  /\ NoPoller \notin Pollers
  /\ \A body \in Bodies : body \in Seq(Frame)

LaneIds == IF CarrierLanes THEN StreamIds \cup {0} ELSE {0}

LaneOf(id) == IF CarrierLanes THEN id ELSE 0

(* streamState; live stands for the entry of s.streams.  creditNotify and  *)
(* writeNotify are channels of capacity one: a token is there or it is not. *)
Stream == [live : BOOLEAN, receiveWindow : 0 .. MaxUint32,
           sendCredit : 0 .. MaxUint32, pendingWriteBytes : Int,
           pendingWriteCost : Int, pendingWriteItems : Int,
           writes : Seq(Nat), creditNotify : BOOLEAN, writeNotify : BOOLEAN]

NoStream == [live |-> FALSE, receiveWindow |-> 0, sendCredit |-> 0,
             pendingWriteBytes |-> 0, pendingWriteCost |-> 0,
             pendingWriteItems |-> 0, writes |-> <<>>,
             creditNotify |-> FALSE, writeNotify |-> FALSE]

OpenedStream == [NoStream EXCEPT !.live = TRUE,
                                 !.receiveWindow = InitialStreamWindow,
                                 !.sendCredit = InitialStreamWindow]

(* queuedFrame: a frame of the downlink queue with the bytes charged for it. *)
QueuedFrame == [type : {"DATA", "CLOSE", "WINDOW"}, id : StreamIds, n : Nat,
                cost : Nat]

(* carrierLane, or the same fields of Session.  windows[id] is the 1-based *)
(* position of the id's mergeable WINDOW in frames, 0 for no map entry.    *)
(* owner is the poll whose channel is s.superseded; the code sets and      *)
(* clears downActive together with that channel.                           *)
Lane == [present : BOOLEAN, lastUpSequence : Nat, lastUpDigest : Bodies \cup {<<>>},
         upActive : BOOLEAN, frames : Seq(QueuedFrame),
         windows : [StreamIds -> Nat], unacked : Seq(QueuedFrame),
         unackedCost : Int, unackedItems : Int, unackedBase : Nat,
         downCursor : Nat, owner : Pollers \cup {NoPoller}, notify : BOOLEAN]

NoLane == [present |-> FALSE, lastUpSequence |-> 0, lastUpDigest |-> <<>>,
           upActive |-> FALSE, frames |-> <<>>,
           windows |-> [id \in StreamIds |-> 0], unacked |-> <<>>,
           unackedCost |-> 0, unackedItems |-> 0, unackedBase |-> 0,
           downCursor |-> 0, owner |-> NoPoller, notify |-> FALSE]

NewLane == [NoLane EXCEPT !.present = TRUE]

(* budgetWaiters are the streams whose reader waits on the budgetNotify    *)
(* channel that is still open; cancelled are those whose backend context   *)
(* has been cancelled by backendStream.close.  closedOrder holds the       *)
(* tombstones, oldest first.                                               *)
Session == [closed : BOOLEAN, streams : [StreamIds -> Stream],
            closedOrder : Seq(StreamIds), lanes : [LaneIds -> Lane],
            pendingCost : Int, pendingItems : Int,
            budgetWaiters : SUBSET StreamIds, cancelled : SUBSET StreamIds]

NewSession ==
  [closed |-> FALSE, streams |-> [id \in StreamIds |-> NoStream],
   closedOrder |-> <<>>,
   lanes |-> [l \in LaneIds |-> IF l = 0 THEN NewLane ELSE NoLane],
   pendingCost |-> 0, pendingItems |-> 0, budgetWaiters |-> {}, cancelled |-> {}]

LiveStreams(s) == {id \in StreamIds : s.streams[id].live}

WasClosed(s, id) == \E k \in 1 .. Len(s.closedOrder) : s.closedOrder[k] = id

-----------------------------------------------------------------------------
(* Budget.                                                                 *)

ReleasePending_silent(s, cost, items) ==
  [s EXCEPT !.pendingCost = @ - cost, !.pendingItems = @ - items]

(* releasePendingLocked wakes every reader waiting for budget.             *)
ReleasePending(s, cost, items) ==
  IF cost = 0 /\ items = 0
  THEN s
  ELSE [s EXCEPT !.pendingCost = @ - cost,
                 !.pendingItems = @ - items,
                 !.budgetWaiters = {}]

Reserve(s, cost, items) ==
  [s EXCEPT !.pendingCost = @ + cost, !.pendingItems = @ + items]

FitsSession(s, cost, items, class) ==
  Fits(s.pendingCost, s.pendingItems, cost, items, class)

-----------------------------------------------------------------------------
(* The downlink queue.                                                     *)

(* A WINDOW is added to the one still queued for the stream, if any.       *)
MergesWindow(lane, f) ==
  /\ f.type = "WINDOW"
  /\ lane.windows[f.id] # 0
  /\ lane.frames[lane.windows[f.id]].n + f.n <= MaxUint32

(* DATA is appended to the last queued frame if that is DATA of the same   *)
(* stream with room left.                                                  *)
ExtendsData(lane, f) ==
  /\ f.type = "DATA"
  /\ lane.frames # <<>>
  /\ LET tail == lane.frames[Len(lane.frames)]
     IN  tail.type = "DATA" /\ tail.id = f.id /\ tail.n + f.n <= MaxFramePayload

QueueCost(lane, f) ==
  IF MergesWindow(lane, f) THEN 0
  ELSE IF ExtendsData(lane, f) THEN f.n
  ELSE EncodedLength(f) + QueueItemCost

QueueItems(lane, f) ==
  IF MergesWindow(lane, f) \/ ExtendsData(lane, f) THEN 0 ELSE 1

ClassOf(f) == IF f.type = "DATA" THEN "down" ELSE "control"

(* Whether queueFrameLocked succeeds; pool is the global pool's answer.    *)
CanQueue(s, f, pool) ==
  LET lane == s.lanes[LaneOf(f.id)]
  IN  /\ lane.present
      /\ \/ MergesWindow(lane, f)
         \/ /\ pool
            /\ FitsSession(s, QueueCost(lane, f), QueueItems(lane, f), ClassOf(f))

(* A WINDOW grows in value, a DATA frame in length and so in cost.         *)
Merged(queued, n) == [queued EXCEPT !.n = @ + n]

Extended(queued, n) == [queued EXCEPT !.n = @ + n, !.cost = @ + n]

FramesWith(lane, f) ==
  IF MergesWindow(lane, f)
  THEN [lane.frames EXCEPT ![lane.windows[f.id]] = Merged(@, f.n)]
  ELSE IF ExtendsData(lane, f)
  THEN [lane.frames EXCEPT ![Len(lane.frames)] = Extended(@, f.n)]
  ELSE Append(lane.frames, [type |-> f.type, id |-> f.id, n |-> f.n,
                            cost |-> EncodedLength(f) + QueueItemCost])

WindowsWith(lane, f) ==
  IF f.type = "WINDOW" /\ ~MergesWindow(lane, f)
  THEN [lane.windows EXCEPT ![f.id] = Len(lane.frames) + 1]
  ELSE lane.windows

(* queueFrameLocked and queueLaneFrameLocked, when they succeed.           *)
QueueFrame(s, f) ==
  LET lane == s.lanes[LaneOf(f.id)]
  IN  [s EXCEPT !.pendingCost = @ + QueueCost(lane, f),
                !.pendingItems = @ + QueueItems(lane, f),
                !.lanes[LaneOf(f.id)] =
                    [lane EXCEPT !.frames = FramesWith(lane, f),
                                 !.windows = WindowsWith(lane, f),
                                 !.notify = TRUE]]

(* The index a WINDOW delta is merged through points at the last queued    *)
(* WINDOW of its stream, and a stream with one queued has an index.        *)
IsWindowOf(f, id) == f.type = "WINDOW" /\ f.id = id

WindowsIndexed(lane) ==
  \A id \in StreamIds :
    LET i == lane.windows[id]
    IN  /\ i # 0 => i <= Len(lane.frames) /\ IsWindowOf(lane.frames[i], id)
        /\ \A k \in 1 .. Len(lane.frames) :
             IsWindowOf(lane.frames[k], id) => i # 0 /\ k <= i

EncodedLengths(frames) == [k \in 1 .. Len(frames) |-> EncodedLength(frames[k])]

Costs(frames) == [k \in 1 .. Len(frames) |-> frames[k].cost]

(* takeDownBatchLocked takes the longest prefix of the queue that fits one *)
(* carrier body, and at least one frame.                                   *)
FitsBatch(frames, k) ==
  PrefixSums(EncodedLengths(frames))[k] <= CarrierBatchBytes

IsBatch(frames, k) ==
  /\ k <= MaxBatchFrames
  /\ k # 1 => FitsBatch(frames, k)
  /\ k < Minimum(Len(frames), MaxBatchFrames) => ~FitsBatch(frames, k + 1)

WindowsAfterTake_unshifted(lane, k) ==
  [id \in StreamIds |-> IF lane.windows[id] <= k THEN 0 ELSE lane.windows[id]]

WindowsAfterTake(lane, k) ==
  [id \in StreamIds |-> IF lane.windows[id] <= k THEN 0 ELSE lane.windows[id] - k]

AfterBatch(frames, k) == SubSeq(frames, k + 1, Len(frames))

TakeBatch_cursorKept(lane, k, cursor) ==
  LET batch == SubSeq(lane.frames, 1, k)
  IN  [lane EXCEPT !.frames = AfterBatch(lane.frames, k),
                   !.windows = WindowsAfterTake(lane, k),
                   !.unackedBase = cursor, !.unacked = batch,
                   !.unackedCost = Total(Costs(batch)), !.unackedItems = k,
                   !.owner = NoPoller]

TakeBatch(lane, k, cursor) ==
  LET batch == SubSeq(lane.frames, 1, k)
  IN  [lane EXCEPT !.frames = AfterBatch(lane.frames, k),
                   !.windows = WindowsAfterTake(lane, k),
                   !.unackedBase = cursor,
                   !.downCursor = @ + 1,
                   !.unacked = batch,
                   !.unackedCost = Total(Costs(batch)),
                   !.unackedItems = k,
                   !.owner = NoPoller]

(* The acknowledgement a poll carries releases the batch it covers.        *)
AckUnacked(s, l) ==
  LET lane == s.lanes[l]
  IN  [ReleasePending(s, lane.unackedCost, lane.unackedItems) EXCEPT
         !.lanes[l] = [lane EXCEPT !.unacked = <<>>,
                                   !.unackedCost = 0,
                                   !.unackedItems = 0]]

-----------------------------------------------------------------------------
(* Streams and tombstones.                                                 *)

ClearedLane(lane) ==
  [lane EXCEPT !.frames = <<>>, !.windows = [id \in StreamIds |-> 0],
               !.unacked = <<>>, !.unackedCost = 0, !.unackedItems = 0,
               !.notify = TRUE]

DropLane_keepsQueue(s, l) ==
  IF ~CarrierLanes \/ ~s.lanes[l].present
  THEN s
  ELSE [ReleasePending(s, s.lanes[l].unackedCost, s.lanes[l].unackedItems)
          EXCEPT !.lanes[l] = NoLane]

(* releaseLaneLocked followed by the removal of the lane from the map.     *)
DropLane(s, l) ==
  IF ~CarrierLanes \/ ~s.lanes[l].present
  THEN s
  ELSE LET lane == s.lanes[l]
           cost == lane.unackedCost + Total(Costs(lane.frames))
           items == lane.unackedItems + Len(lane.frames)
       IN  [ReleasePending(s, cost, items) EXCEPT !.lanes[l] = NoLane]

TombstonesFull(s) == Len(s.closedOrder) >= MaxClosedStreamIDs

(* rememberClosedLocked: a full tombstone ring forgets its oldest id.      *)
RememberClosed(s, id) ==
  IF WasClosed(s, id)
  THEN s
  ELSE LET kept == IF TombstonesFull(s) THEN DropLane(s, Head(s.closedOrder)) ELSE s
           order == IF TombstonesFull(s) THEN Tail(s.closedOrder) ELSE s.closedOrder
           told == IF CarrierLanes /\ kept.lanes[id].present
                   THEN [kept EXCEPT !.lanes[id].notify = TRUE]
                   ELSE kept
       IN  [told EXCEPT !.closedOrder = Append(order, id)]

DropStream_keepsCharge(s, id) == [s EXCEPT !.streams[id] = NoStream]

(* releaseStreamWritesLocked and the removal of the stream from the map.   *)
DropStream(s, id) ==
  [ReleasePending(s, s.streams[id].pendingWriteCost,
                     s.streams[id].pendingWriteItems)
     EXCEPT !.streams[id] = NoStream]

(* The end of a stream, whichever side closes it.                          *)
EndStream(s, id) == RememberClosed(DropStream(s, id), id)

CancelBackend_forgotten(s, ids) == s

(* backendStream.close cancels the context and closes the connection.      *)
CancelBackend(s, ids) == [s EXCEPT !.cancelled = @ \cup ids]

(* closeLocked.                                                            *)
CloseSession(s) ==
  IF s.closed
  THEN s
  ELSE [s EXCEPT !.closed = TRUE,
                 !.lanes = [l \in LaneIds |->
                              IF s.lanes[l].present THEN ClearedLane(s.lanes[l])
                                                    ELSE NoLane],
                 !.cancelled = @ \cup LiveStreams(s),
                 !.streams = [id \in StreamIds |-> NoStream],
                 !.pendingCost = 0,
                 !.pendingItems = 0]

=============================================================================
