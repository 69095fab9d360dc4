---------------------------- MODULE LaneSession ----------------------------
(***************************************************************************)
(* A session in a lane carrier mode: every stream has a carrierLane of its *)
(* own, with its uplink sequence, downlink queue and poll.  In https-lanes *)
(* requests name the lane; in websocket-lanes a socket is attached to it,  *)
(* whose reader calls ProcessUpLane and whose writer calls PollLane        *)
(* (internal/server/server.go).                                            *)
(*                                                                         *)
(* A poll keeps the pointer to its carrierLane after the map has dropped   *)
(* it.  A lane object is therefore its id and a generation, which grows    *)
(* when the id is dropped from the map.                                    *)
(*                                                                         *)
(* A handler (an element of Pollers) runs one ProcessUpLane and one        *)
(* PollLane at a time: those of two requests, or of one socket.            *)
(***************************************************************************)
EXTENDS Backend, UplinkBatch, FiniteSets

CONSTANTS
  Uppers,          \* the handlers that bring uplink bodies
  MaxSeq,          \* bound: highest uplink sequence a request carries
  MaxCursor,       \* bound: highest downlink cursor a request carries
  LanesUsed,       \* the lanes that clients name
  LanesPolled,     \* those they poll or attach sockets to
  SocketBodies,    \* the bodies they send over sockets
  MaxGeneration,   \* bound: how often a lane is created again
  OpenRefusals     \* whether the manager's acquireStream may say no

ASSUME LaneAssumption ==
  /\ CarrierLanes
  /\ MaxSeq \in Nat /\ MaxCursor \in Nat /\ MaxGeneration \in Nat
  /\ Uppers \subseteq Pollers
  /\ LanesPolled \subseteq LanesUsed \ {0} /\ LanesUsed \subseteq LaneIds
  /\ SocketBodies \subseteq Bodies
  /\ OpenRefusals \in BOOLEAN

VARIABLES
  carrier,      \* s.carrier
  ups,          \* ProcessUpLane of each handler
  polls,        \* PollLane of each handler
  sockets,      \* serveWebSocket of each handler, in websocket-lanes
  generation,   \* of the lane object an id has in carrierLanes, or gets next
  stray,        \* dropped lane objects with a token in their notify channel
  life          \* history: how far the client has come with a stream id

vars == <<ses, locked, backends, carrier, ups, polls, sockets, generation, stray, life>>

OverSockets == carrier = "websocket-lanes"

UpState ==
  [pc : {"idle", "received", "failing", "launching", "closing", "panicked"},
   lane : LaneIds, seq : Nat, body : Bodies \cup {<<>>},
   toStart : SUBSET StreamIds, toStop : SUBSET StreamIds, applied : BOOLEAN]

NoUp == [pc |-> "idle", lane |-> 0, seq |-> 0, body |-> <<>>,
         toStart |-> {}, toStop |-> {}, applied |-> FALSE]

(* superseded: the channel `mine` of the poll has been closed.             *)
PollState == [pc : {"idle", "parked", "woken", "failing"}, lane : LaneIds, gen : Nat,
              cursor : Nat, superseded : BOOLEAN]

NoPoll == [pc |-> "idle", lane |-> 0, gen |-> 0, cursor |-> 0, superseded |-> FALSE]

(* reader and writer tell whether the two goroutines still run.            *)
SocketState == [pc : {"none", "serving", "ended"}, lane : LaneIds, gen : Nat,
                sequence : Nat, cursor : Nat, reader : BOOLEAN, writer : BOOLEAN]

NoSocket == [pc |-> "none", lane |-> 0, gen |-> 0, sequence |-> 1, cursor |-> 0,
             reader |-> FALSE, writer |-> FALSE]

TypeOK ==
  /\ BackendTypeOK
  /\ carrier \in {"https-lanes", "websocket-lanes"}
  /\ ups \in [Pollers -> UpState]
  /\ polls \in [Pollers -> PollState]
  /\ sockets \in [Pollers -> SocketState]
  /\ generation \in [LaneIds -> Nat]
  /\ stray \subseteq LaneIds \X Nat
  /\ life \in [LaneIds -> {"new", "open", "over"}]

(* Only https-lanes has a lane zero.                                       *)
Init ==
  /\ carrier \in {"https-lanes", "websocket-lanes"}
  /\ ses = [NewSession EXCEPT !.lanes[0] = IF OverSockets THEN NoLane ELSE NewLane]
  /\ locked = FALSE
  /\ backends = [id \in StreamIds |-> NoBackend]
  /\ ups = [h \in Pollers |-> NoUp]
  /\ polls = [h \in Pollers |-> NoPoll]
  /\ sockets = [h \in Pollers |-> NoSocket]
  /\ generation = [l \in LaneIds |-> 0]
  /\ stray = {}
  /\ life = [l \in LaneIds |-> "new"]

-----------------------------------------------------------------------------
(* Lane objects.                                                           *)

Dropped == {l \in LaneIds : ses.lanes[l].present /\ ~ses'.lanes[l].present}

Object(h) == <<polls[h].lane, polls[h].gen>>

DroppedLanesNotify_untold ==
  /\ generation' = [l \in LaneIds |-> IF l \in Dropped THEN generation[l] + 1
                                                       ELSE generation[l]]
  /\ UNCHANGED stray

(* Every step that drops lanes leaves a token in their channels; that of   *)
(* an object no poll knows is of no account.                               *)
DroppedLanesNotify ==
  /\ generation' = [l \in LaneIds |-> IF l \in Dropped THEN generation[l] + 1
                                                       ELSE generation[l]]
  /\ stray' = (stray \cup {<<l, generation[l]>> : l \in Dropped})
              \cap {Object(h) : h \in {g \in Pollers : polls[g].pc # "idle"}}

ReleaseLane_streamKept(s, l) == DropLane(s, l)

(* ReleaseWebSocketLane, with the backend.close() that follows it.         *)
ReleaseLane(s, l) ==
  IF ~s.lanes[l].present THEN s
  ELSE DropLane(IF l \in LiveStreams(s) THEN CancelBackend(EndStream(s, l), {l}) ELSE s, l)

FailLane_session(s, l) == CloseSession(s)

(* laneProtocolFailure                                                     *)
FailLane(s, l) == IF OverSockets THEN ReleaseLane(s, l) ELSE CloseSession(s)

-----------------------------------------------------------------------------
(* ProcessUpLane.                                                          *)

(* What the caller does with the result: an HTTP handler answers, while    *)
(* readWebSocket reads the next message, tries this one again, or returns. *)
UpAnswers(h, answer) ==
  /\ ups' = [ups EXCEPT ![h] = IF OverSockets /\ answer = "retry"
                               THEN [@ EXCEPT !.pc = "received"] ELSE NoUp]
  /\ sockets' = IF ~OverSockets \/ answer = "retry" THEN sockets
                ELSE IF answer = "acked" THEN [sockets EXCEPT ![h].sequence = @ + 1]
                ELSE [sockets EXCEPT ![h].reader = FALSE]

UpGoes(h, r, pc) ==
  /\ ups' = [ups EXCEPT ![h] = [NoUp EXCEPT !.pc = pc, !.lane = r.lane]]
  /\ UNCHANGED sockets

IsRetry(lane, q) == q = lane.lastUpSequence /\ q # 0

IsNext(lane, q) == q = lane.lastUpSequence + 1

(* onlyLateFrames                                                          *)
LateOnly(body) ==
  \A k \in 1 .. Len(body) : body[k].type \in {"DATA", "WINDOW", "CLOSE"}

OfLane(body, l) == WellFormedBody(body) /\ \A k \in 1 .. Len(body) : body[k].id = l

TooManyStreams(s) == Cardinality(LiveStreams(s)) >= MaxStreamsPerSession

(* applyBatchLocked, frame by frame: the session, the reservation still to *)
(* be used, the streams opened and closed, whether the body was applied to *)
(* its end, and whether a frame met no stream, which would dereference nil. *)
Batch(s, body) ==
  [ses |-> s, cost |-> WriteCost(s, body), items |-> WriteItems(s, body),
   opened |-> {}, closed |-> {}, applied |-> TRUE, panics |-> FALSE]

OpenApplied_forgets(b, id, refused, pool) ==
  IF ~(TooManyStreams(b.ses) \/ refused)
  THEN [b EXCEPT !.ses.streams[id] = OpenedStream, !.opened = {id}]
  ELSE b

OpenApplied(b, id, refused, pool) ==
  LET remembered == RememberClosed(b.ses, id)
      frame == [type |-> "CLOSE", id |-> id, n |-> 0]
  IN  IF ~(TooManyStreams(b.ses) \/ refused)
      THEN [b EXCEPT !.ses.streams[id] = OpenedStream, !.opened = {id}]
      ELSE IF CanQueue(remembered, frame, pool)
      THEN [b EXCEPT !.ses = QueueFrame(remembered, frame)]
      ELSE [b EXCEPT !.ses = remembered, !.applied = FALSE]

DataApplied(b, id, n) ==
  LET items == IF Coalesces(b.ses.streams[id], n) THEN 0 ELSE 1
  IN  [b EXCEPT !.ses.streams[id] = WriteQueued(@, n),
                !.cost = @ - (n + items * QueueItemCost), !.items = @ - items]

WindowApplied(b, id, n) ==
  [b EXCEPT !.ses.streams[id].sendCredit = AddCredit(@, n),
            !.ses.streams[id].creditNotify = TRUE]

CloseApplied(b, id) == [b EXCEPT !.ses = EndStream(@, id), !.closed = {id}]

FrameApplied(b, f, refused, pool) ==
  CASE ~b.applied \/ f.id = 0 -> b
    [] b.applied /\ f.id # 0 /\ f.type = "OPEN" -> OpenApplied(b, f.id, refused, pool)
    [] b.applied /\ f.id # 0 /\ f.type # "OPEN" /\ WasClosed(b.ses, f.id) -> b
    [] b.applied /\ f.type # "OPEN" /\ f.id # 0 /\ ~WasClosed(b.ses, f.id) ->
         IF ~b.ses.streams[f.id].live THEN [b EXCEPT !.panics = TRUE, !.applied = FALSE]
         ELSE IF f.type = "DATA" THEN DataApplied(b, f.id, f.n)
         ELSE IF f.type = "WINDOW" THEN WindowApplied(b, f.id, f.n)
         ELSE CloseApplied(b, f.id)

BatchPrefixes(s, body, refused, pool) ==
  LET after[k \in 0 .. Len(body)] ==
        IF k = 0 THEN Batch(s, body)
                 ELSE FrameApplied(after[k - 1], body[k], refused, pool)
  IN  after

BatchApplied(s, body, refused, pool) == BatchPrefixes(s, body, refused, pool)[Len(body)]

(* What the reservation has left is released; the sequence is the lane's.  *)
Committed(r, b) ==
  LET released == ReleasePending(b.ses, b.cost, b.items)
  IN  IF ~b.applied THEN released
      ELSE [released EXCEPT !.lanes[r.lane].lastUpSequence = r.seq,
                            !.lanes[r.lane].lastUpDigest = r.body]

(* An admitted body is validated, reserved and applied under one lock.     *)
BodyApplied(h, r, b) ==
  /\ ses' = Committed(r, b)
  /\ backends' = [id \in StreamIds |-> IF id \in b.opened
                                       THEN [NoBackend EXCEPT !.run = "opened"]
                                       ELSE backends[id]]
  /\ ups' = [ups EXCEPT ![h] =
               [pc |-> IF b.panics THEN "panicked" ELSE "launching", lane |-> r.lane,
                seq |-> r.seq, body |-> <<>>, toStart |-> b.opened,
                toStop |-> b.closed, applied |-> b.applied]]
  /\ life' = IF r.body[1].type = "OPEN" THEN [life EXCEPT ![r.lane] = "open"] ELSE life
  /\ UNCHANGED sockets

UpApplies(h, r, s) ==
  LET cost == WriteCost(s, r.body)
      items == WriteItems(s, r.body)
  IN  \E up \in PoolAnswers("up"), control \in PoolAnswers("control"),
         refused \in (IF OpenRefusals THEN BOOLEAN ELSE {FALSE}) :
        \/ /\ items # 0 /\ ~(up /\ FitsSession(s, cost, items, "up"))
           /\ ses' = s
           /\ UpAnswers(h, "retry")
           /\ UNCHANGED <<backends, life>>
        \/ /\ items # 0 => up /\ FitsSession(s, cost, items, "up")
           /\ BodyApplied(h, r, BatchApplied(Reserve(s, cost, items), r.body,
                                            refused, control))

(* A request for a lane that is absent is of no account if it only brings  *)
(* late frames, and makes the lane if it begins with OPEN.  upActive is    *)
(* set and cleared under one lock: ErrConcurrent is never seen.            *)
UpLane(h, r) ==
  LET absent == ~ses.lanes[r.lane].present
      late == absent /\ r.lane # 0 /\ LateOnly(r.body)
      opens == r.lane # 0 /\ r.body[1].type = "OPEN"
      s == IF absent THEN [ses EXCEPT !.lanes[r.lane] = NewLane] ELSE ses
      lane == s.lanes[r.lane]
  IN  \/ /\ ~OfLane(r.body, r.lane)
         /\ UpGoes(h, r, "failing")
         /\ UNCHANGED <<ses, backends, life>>
      \/ /\ OfLane(r.body, r.lane)
         /\ \/ /\ ses.closed
               /\ UpAnswers(h, "failed")
               /\ UNCHANGED <<ses, backends, life>>
            \/ /\ ~ses.closed /\ late
               /\ UpAnswers(h, "acked")
               /\ UNCHANGED <<ses, backends, life>>
            \/ /\ ~ses.closed /\ absent /\ ~late /\ ~opens
               /\ UpGoes(h, r, "failing")
               /\ UNCHANGED <<ses, backends, life>>
            \/ /\ ~ses.closed /\ (absent => opens)
               /\ absent => generation[r.lane] <= MaxGeneration
               /\ \/ /\ IsRetry(lane, r.seq) /\ r.body = lane.lastUpDigest
                     /\ UpAnswers(h, "acked")
                     /\ ses' = s /\ UNCHANGED <<backends, life>>
                  \/ /\ \/ IsRetry(lane, r.seq) /\ r.body # lane.lastUpDigest
                        \/ ~IsRetry(lane, r.seq) /\ ~IsNext(lane, r.seq)
                        \/ IsNext(lane, r.seq) /\ ~ValidBatch(s, r.body)
                     /\ UpGoes(h, r, "failing")
                     /\ ses' = s /\ UNCHANGED <<backends, life>>
                  \/ /\ IsNext(lane, r.seq) /\ ValidBatch(s, r.body)
                     /\ UpApplies(h, r, s)

(* Clients never reuse a stream id, nor does a copy of a stream's first    *)
(* request arrive when the relay has forgotten that the stream was closed. *)
NoReuse(l, body) ==
  body[1].type = "OPEN" =>
    life[l] = "new" \/ WasClosed(ses, l) \/ l \in LiveStreams(ses)

(* https-lanes: a request, with whatever it carries.                       *)
UpRequest(h, l, q, body) ==
  /\ ~OverSockets
  /\ h \in Uppers
  /\ ups[h].pc = "idle"
  /\ NoReuse(l, body)
  /\ UpLane(h, [lane |-> l, seq |-> q, body |-> body])
  /\ DroppedLanesNotify
  /\ UNCHANGED <<locked, carrier, polls>>

(* After the mutex is free: closed backends are cancelled, those of opened *)
(* streams start.                                                          *)
UpLaunch(h) ==
  /\ ups[h].pc = "launching"
  /\ ses' = CancelBackend(ses, ups[h].toStop)
  /\ backends' = [id \in StreamIds |->
                    IF id \in ups[h].toStart
                    THEN [backends[id] EXCEPT !.run = "dialing"] ELSE backends[id]]
  /\ IF ups[h].applied
     THEN UpAnswers(h, "acked")
     ELSE UpGoes(h, ups[h], "closing")
  /\ UNCHANGED <<locked, carrier, polls, generation, stray, life>>

UpFails(h) ==
  /\ ups[h].pc \in {"failing", "closing"}
  /\ ses' = IF ups[h].pc = "failing" THEN FailLane(ses, ups[h].lane) ELSE CloseSession(ses)
  /\ UpAnswers(h, "failed")
  /\ DroppedLanesNotify
  /\ UNCHANGED <<locked, backends, carrier, polls, life>>

-----------------------------------------------------------------------------
(* PollLane.                                                               *)

OnCurrent(h) == polls[h].gen = generation[polls[h].lane]

(* lane.superseded == mine                                                 *)
Owns(h) ==
  IF OnCurrent(h) THEN ses.lanes[polls[h].lane].owner = h ELSE ~polls[h].superseded

HasToken(h) ==
  IF OnCurrent(h) THEN ses.lanes[polls[h].lane].notify ELSE Object(h) \in stray

Disown_always(s, h) ==
  IF OnCurrent(h) THEN [s EXCEPT !.lanes[polls[h].lane].owner = NoPoller] ELSE s

Disown(s, h) ==
  IF OnCurrent(h) /\ s.lanes[polls[h].lane].owner = h
  THEN [s EXCEPT !.lanes[polls[h].lane].owner = NoPoller] ELSE s

(* signal(lane.notify), by a poll that leaves.                             *)
TokenReturned(h) ==
  IF OnCurrent(h)
  THEN ses' = [ses EXCEPT !.lanes[polls[h].lane].notify = TRUE] /\ UNCHANGED stray
  ELSE UNCHANGED ses /\ stray' = stray \cup {Object(h)}

(* The answer of PollLane; writeWebSocket goes on with the next cursor, or *)
(* returns.  X-Lane-Closed makes a lane over for its client.               *)
PollAnswers(ps, h, answer, next) ==
  /\ polls' = [ps EXCEPT ![h] = NoPoll]
  /\ sockets' = IF ~OverSockets \/ answer = "empty" THEN sockets
                ELSE IF answer = "batch" THEN [sockets EXCEPT ![h].cursor = next]
                ELSE [sockets EXCEPT ![h].writer = FALSE]
  /\ life' = IF answer = "closed" /\ ~OverSockets
             THEN [life EXCEPT ![ps[h].lane] = "over"] ELSE life

StreamOver(s, l) == l # 0 /\ ~s.streams[l].live /\ WasClosed(s, l)

Ended_hasty(s, ps, h) ==
  LET l == ps[h].lane
      current == ps[h].gen = generation[l]
  IN  IF s.closed THEN "failed"
      ELSE IF StreamOver(s, l) \/ ~current THEN "closed"
      ELSE IF s.lanes[l].frames # <<>> THEN "batch"
      ELSE "no"

(* What the loop of PollLane finds when the poll is not superseded.        *)
Ended(s, ps, h) ==
  LET l == ps[h].lane
      current == ps[h].gen = generation[l]
  IN  IF current /\ s.lanes[l].frames # <<>> THEN "batch"
      ELSE IF s.closed THEN "failed"
      ELSE IF StreamOver(s, l) \/ ~current THEN "closed"
      ELSE "no"

PollLoops(s, ps, h) ==
  LET l == ps[h].lane
      found == Ended(s, ps, h)
  IN  \/ /\ found = "batch"
         /\ \E k \in 1 .. Len(s.lanes[l].frames) :
              /\ IsBatch(s.lanes[l].frames, k)
              /\ ses' = [s EXCEPT !.lanes[l] = TakeBatch(@, k, ps[h].cursor)]
         /\ PollAnswers(ps, h, "batch", s.lanes[l].downCursor + 1)
      \/ /\ found \in {"failed", "closed"}
         /\ ses' = IF ps[h].gen = generation[l]
                   THEN [s EXCEPT !.lanes[l].owner = NoPoller] ELSE s
         /\ PollAnswers(ps, h, found, 0)
      \/ /\ found = "no"
         /\ ses' = s
         /\ polls' = [ps EXCEPT ![h].pc = "parked"]
         /\ UNCHANGED <<sockets, life>>

(* A poll that acknowledges what its lane delivered supersedes the parked  *)
(* one, if any.                                                            *)
Superseding(h, l, cursor) ==
  [g \in Pollers |->
     IF g = h THEN [NoPoll EXCEPT !.lane = l, !.gen = generation[l], !.cursor = cursor]
     ELSE IF g = ses.lanes[l].owner THEN [polls[g] EXCEPT !.superseded = TRUE]
     ELSE polls[g]]

IsResend(lane, cursor) == lane.unacked # <<>> /\ cursor = lane.unackedBase

PollLane(h, l, cursor) ==
  LET lane == ses.lanes[l]
      mine == Superseding(h, l, cursor)
  IN  /\ polls[h].pc = "idle"
      /\ \/ /\ ses.closed \/ ~lane.present
            /\ PollAnswers(polls, h, "failed", 0)
            /\ UNCHANGED ses
         \/ /\ ~ses.closed /\ lane.present /\ IsResend(lane, cursor)
            /\ PollAnswers(polls, h, "batch", lane.downCursor)
            /\ UNCHANGED ses
         \/ /\ ~ses.closed /\ lane.present /\ ~IsResend(lane, cursor)
            /\ cursor # lane.downCursor
            /\ polls' = [polls EXCEPT ![h] = [NoPoll EXCEPT !.pc = "failing", !.lane = l,
                                                            !.gen = generation[l]]]
            /\ UNCHANGED <<ses, sockets, life>>
         \/ /\ ~ses.closed /\ lane.present /\ ~IsResend(lane, cursor)
            /\ cursor = lane.downCursor
            /\ PollLoops([AckUnacked(ses, l) EXCEPT !.lanes[l].owner = h], mine, h)
      /\ UNCHANGED <<locked, backends, carrier, ups, generation, stray>>

PollRequest(h, l, cursor) == ~OverSockets /\ PollLane(h, l, cursor)

PollWakes(h) ==
  /\ polls[h].pc = "parked"
  /\ HasToken(h)
  /\ IF OnCurrent(h)
     THEN ses' = [ses EXCEPT !.lanes[polls[h].lane].notify = FALSE] /\ UNCHANGED stray
     ELSE UNCHANGED ses /\ stray' = stray \ {Object(h)}
  /\ polls' = [polls EXCEPT ![h].pc = "woken"]
  /\ UNCHANGED <<locked, backends, carrier, ups, sockets, generation, life>>

PollResumes(h) ==
  /\ polls[h].pc = "woken"
  /\ \/ /\ ~Owns(h)
        /\ TokenReturned(h)
        /\ PollAnswers(polls, h, "empty", 0)
     \/ /\ Owns(h)
        /\ PollLoops(ses, polls, h)
        /\ UNCHANGED stray
  /\ UNCHANGED <<locked, backends, carrier, ups, generation>>

PollSuperseded(h) ==
  /\ polls[h].pc = "parked"
  /\ polls[h].superseded
  /\ TokenReturned(h)
  /\ PollAnswers(polls, h, "empty", 0)
  /\ UNCHANGED <<locked, backends, carrier, ups, generation>>

(* The request's context is done, or that of the socket whose reader has   *)
(* returned.                                                               *)
PollCancelled(h) ==
  /\ polls[h].pc = "parked"
  /\ OverSockets => ~sockets[h].reader
  /\ ses' = Disown(ses, h)
  /\ PollAnswers(polls, h, "failed", 0)
  /\ UNCHANGED <<locked, backends, carrier, ups, generation, stray>>

(* s.done                                                                  *)
PollDone(h) ==
  /\ polls[h].pc = "parked"
  /\ ses.closed
  /\ ses' = Disown(ses, h)
  /\ PollAnswers(polls, h, "failed", 0)
  /\ UNCHANGED <<locked, backends, carrier, ups, generation, stray>>

(* The long-poll deadline.                                                 *)
PollExpires(h) ==
  /\ polls[h].pc = "parked"
  /\ \/ /\ ~Owns(h)
        /\ TokenReturned(h)
        /\ PollAnswers(polls, h, "empty", 0)
     \/ /\ Owns(h)
        /\ UNCHANGED stray
        /\ IF OnCurrent(h) /\ ses.lanes[polls[h].lane].frames # <<>>
           THEN PollLoops(ses, polls, h)
           ELSE ses' = Disown(ses, h) /\ PollAnswers(polls, h, "empty", 0)
  /\ UNCHANGED <<locked, backends, carrier, ups, generation>>

PollFails(h) ==
  /\ polls[h].pc = "failing"
  /\ ses' = FailLane(ses, polls[h].lane)
  /\ PollAnswers(polls, h, "failed", 0)
  /\ DroppedLanesNotify
  /\ UNCHANGED <<locked, backends, carrier, ups>>

-----------------------------------------------------------------------------
(* serveWebSocket.                                                         *)

Serves(h, id) == sockets[h].pc = "serving" /\ sockets[h].lane = id

(* lane.websocketActive of the lane the id has now.                        *)
WebSocketActive(id) == \E h \in Pollers : Serves(h, id) /\ sockets[h].gen = generation[id]

PresentLanes == {l \in LaneIds : ses.lanes[l].present}

(* AcquireWebSocketLane, and the start of the two goroutines.              *)
SocketOpens(h, id) ==
  /\ OverSockets
  /\ sockets[h].pc = "none"
  /\ ~ses.closed
  /\ ~WasClosed(ses, id)
  /\ ses.lanes[id].present \/ Cardinality(PresentLanes) < MaxStreamsPerSession
  /\ ~WebSocketActive(id)
  /\ generation[id] <= MaxGeneration
  /\ ses' = IF ses.lanes[id].present THEN ses ELSE [ses EXCEPT !.lanes[id] = NewLane]
  /\ sockets' = [sockets EXCEPT ![h] = [NoSocket EXCEPT
                   !.pc = "serving", !.lane = id, !.gen = generation[id],
                   !.reader = TRUE, !.writer = TRUE]]
  /\ UNCHANGED <<locked, backends, carrier, ups, polls, generation, stray, life>>

(* readWebSocket has a message, which it holds while it is refused for     *)
(* backpressure ...                                                        *)
SocketReads(h, body) ==
  /\ h \in Uppers
  /\ sockets[h].pc = "serving" /\ sockets[h].reader
  /\ ups[h].pc = "idle"
  /\ sockets[h].sequence <= MaxSeq
  /\ NoReuse(sockets[h].lane, body)
  /\ ups' = [ups EXCEPT ![h] = [NoUp EXCEPT !.pc = "received", !.body = body,
                                            !.lane = sockets[h].lane,
                                            !.seq = sockets[h].sequence]]
  /\ UNCHANGED <<ses, locked, backends, carrier, polls, sockets, generation, stray, life>>

SocketSends(h) ==
  /\ ups[h].pc = "received"
  /\ NoReuse(ups[h].lane, ups[h].body)
  /\ UpLane(h, ups[h])
  /\ DroppedLanesNotify
  /\ UNCHANGED <<locked, carrier, polls>>

(* ... unless its connection fails, or its time or its context ends.       *)
ReaderEnds(h) ==
  /\ sockets[h].reader
  /\ ups[h].pc \in {"idle", "received"}
  /\ ups' = [ups EXCEPT ![h] = NoUp]
  /\ sockets' = [sockets EXCEPT ![h].reader = FALSE]
  /\ UNCHANGED <<ses, locked, backends, carrier, polls, generation, stray, life>>

SocketPolls(h) ==
  /\ sockets[h].writer
  /\ sockets[h].cursor < MaxCursor
  /\ PollLane(h, sockets[h].lane, sockets[h].cursor)

(* A message or a ping cannot be written.                                  *)
WriterEnds(h) ==
  /\ sockets[h].writer
  /\ polls[h].pc = "idle"
  /\ sockets' = [sockets EXCEPT ![h].writer = FALSE]
  /\ UNCHANGED <<ses, locked, backends, carrier, ups, polls, generation, stray, life>>

(* The first of the two to return takes the lane with it; so does a failed *)
(* upgrade.  Neither is waited for.                                        *)
SocketEnds(h) ==
  /\ sockets[h].pc = "serving"
  /\ ~(sockets[h].reader /\ sockets[h].writer)
  /\ ses' = ReleaseLane(ses, sockets[h].lane)
  /\ sockets' = [sockets EXCEPT ![h].pc = "ended"]
  /\ DroppedLanesNotify
  /\ UNCHANGED <<locked, backends, carrier, ups, polls, life>>

SocketGone(h) ==
  /\ sockets[h].pc = "ended"
  /\ ~sockets[h].reader /\ ~sockets[h].writer
  /\ sockets' = [sockets EXCEPT ![h] = NoSocket]
  /\ UNCHANGED <<ses, locked, backends, carrier, ups, polls, generation, stray, life>>

-----------------------------------------------------------------------------
Close ==
  /\ ~ses.closed
  /\ ses' = CloseSession(ses)
  /\ UNCHANGED <<locked, backends, carrier, ups, polls, sockets, generation, stray, life>>

BackendNext(id) ==
  /\ BackendStep(id)
  /\ DroppedLanesNotify
  /\ UNCHANGED <<carrier, ups, polls, sockets, life>>

UpStep(h) == UpLaunch(h) \/ UpFails(h)

PollStep(h) ==
  \/ PollWakes(h) \/ PollResumes(h) \/ PollSuperseded(h) \/ PollCancelled(h)
  \/ PollDone(h) \/ PollExpires(h) \/ PollFails(h)

SocketStep(h) ==
  \/ SocketSends(h) \/ ReaderEnds(h) \/ SocketPolls(h) \/ WriterEnds(h)
  \/ SocketEnds(h) \/ SocketGone(h)

(* What clients do.                                                        *)
Request(h) ==
  \/ \E l \in LanesUsed, q \in 1 .. MaxSeq, body \in Bodies : UpRequest(h, l, q, body)
  \/ \E l \in LanesPolled, cursor \in 0 .. MaxCursor : PollRequest(h, l, cursor)
  \/ \E id \in LanesPolled : SocketOpens(h, id)
  \/ \E body \in SocketBodies : SocketReads(h, body)

Next ==
  \/ \E h \in Pollers : Request(h) \/ UpStep(h) \/ PollStep(h) \/ SocketStep(h)
  \/ \E id \in StreamIds : BackendNext(id)
  \/ Close

Spec == Init /\ [][Next]_vars

=============================================================================
