----------------------------- MODULE LaneProofs -----------------------------
(***************************************************************************)
(* Proofs about a session in a lane mode.  A body is applied in one step,  *)
(* frame by frame, and what that does is shown by induction on the frames. *)
(***************************************************************************)
EXTENDS LaneSafety, SessionCoreProofs

-----------------------------------------------------------------------------
(* What the first frames of a body have made of a session.                 *)
LEMMA BatchStep ==
  ASSUME NEW s, NEW body, Len(body) \in Nat, NEW refused, NEW pool
  PROVE  /\ BatchPrefixes(s, body, refused, pool)[0] = Batch(s, body)
         /\ \A k \in 1 .. Len(body) :
              BatchPrefixes(s, body, refused, pool)[k] =
                FrameApplied(BatchPrefixes(s, body, refused, pool)[k - 1], body[k], refused, pool)
<1>. DEFINE after == BatchPrefixes(s, body, refused, pool)
<1>1. \E g : g = [k \in 0 .. Len(body) |->
                    IF k = 0 THEN Batch(s, body)
                    ELSE FrameApplied(g[k - 1], body[k], refused, pool)]
  <2>. DEFINE S == {n \in Nat : \E g :
                      g = [k \in 0 .. n |-> IF k = 0 THEN Batch(s, body)
                                            ELSE FrameApplied(g[k - 1], body[k], refused, pool)]}
  <2>1. 0 \in S
    <3>. DEFINE g == [k \in 0 .. 0 |-> Batch(s, body)]
    <3>1. g = [k \in 0 .. 0 |-> IF k = 0 THEN Batch(s, body)
                                ELSE FrameApplied(g[k - 1], body[k], refused, pool)]
      OBVIOUS
    <3>. QED
      BY <3>1
  <2>2. ASSUME NEW n \in Nat, n \in S PROVE n + 1 \in S
    <3>1. PICK g : g = [k \in 0 .. n |-> IF k = 0 THEN Batch(s, body)
                                         ELSE FrameApplied(g[k - 1], body[k], refused, pool)]
      BY <2>2
    <3>. DEFINE h == [k \in 0 .. n + 1 |-> IF k = n + 1
                                           THEN FrameApplied(g[n], body[n + 1], refused, pool)
                                           ELSE g[k]]
    <3>2. \A k \in 0 .. n + 1 :
            h[k] = IF k = 0 THEN Batch(s, body)
                   ELSE FrameApplied(h[k - 1], body[k], refused, pool)
      <4>. TAKE k \in 0 .. n + 1
      <4>1. CASE k = 0
        BY <4>1, <3>1
      <4>2. CASE k \in 1 .. n
        <5>1. h[k] = g[k] /\ h[k - 1] = g[k - 1]
          BY <4>2
        <5>2. g[k] = FrameApplied(g[k - 1], body[k], refused, pool)
          BY <4>2, <3>1
        <5>. QED
          BY <4>2, <5>1, <5>2
      <4>3. CASE k = n + 1
        BY <4>3
      <4>. QED
        BY <4>1, <4>2, <4>3
    <3>3. h = [k \in 0 .. n + 1 |-> IF k = 0 THEN Batch(s, body)
                                    ELSE FrameApplied(h[k - 1], body[k], refused, pool)]
      BY <3>2
    <3>. HIDE DEF h
    <3>. QED
      BY <3>3
  <2>. HIDE DEF S
  <2>3. \A n \in Nat : n \in S
    BY <2>1, <2>2, SetInduction
  <2>. QED
    BY <2>3 DEF S
<1>2. after = [k \in 0 .. Len(body) |->
                 IF k = 0 THEN Batch(s, body)
                 ELSE FrameApplied(after[k - 1], body[k], refused, pool)]
  BY <1>1, Zenon DEF BatchPrefixes
<1>. HIDE DEF after
<1>. QED
  BY <1>2 DEF after

(* What every frame keeps is so in the end; G[k] is what is so after the   *)
(* first k frames.                                                         *)
LEMMA BatchInduction ==
  ASSUME NEW s, NEW body, Len(body) \in Nat, NEW refused, NEW pool, NEW G,
         Batch(s, body) \in G[0],
         \A k \in 1 .. Len(body) : \A b \in G[k - 1] :
           FrameApplied(b, body[k], refused, pool) \in G[k]
  PROVE  BatchApplied(s, body, refused, pool) \in G[Len(body)]
<1>. DEFINE after == BatchPrefixes(s, body, refused, pool)
            S == {n \in Nat : n <= Len(body) => after[n] \in G[n]}
<1>1. /\ after[0] = Batch(s, body)
      /\ \A k \in 1 .. Len(body) :
           after[k] = FrameApplied(after[k - 1], body[k], refused, pool)
  BY BatchStep
<1>. HIDE DEF after
<1>2. 0 \in S
  BY <1>1
<1>3. ASSUME NEW n \in Nat, n \in S PROVE n + 1 \in S
  <2>. SUFFICES ASSUME n + 1 <= Len(body) PROVE after[n + 1] \in G[n + 1]
    OBVIOUS
  <2>1. n + 1 \in 1 .. Len(body) /\ (n + 1) - 1 = n /\ n <= Len(body)
    OBVIOUS
  <2>2. after[n] \in G[n]
    BY <1>3, <2>1
  <2>3. after[n + 1] = FrameApplied(after[n], body[n + 1], refused, pool)
    BY <1>1, <2>1
  <2>4. FrameApplied(after[n], body[n + 1], refused, pool) \in G[n + 1]
    BY <2>1, <2>2
  <2>. QED
    BY <2>3, <2>4
<1>. HIDE DEF S
<1>4. \A n \in Nat : n \in S
  BY <1>2, <1>3, SetInduction
<1>5. after[Len(body)] \in G[Len(body)]
  BY <1>4 DEF S
<1>. QED
  BY <1>5, Zenon DEF BatchApplied, after

-----------------------------------------------------------------------------
(* Types.                                                                  *)
BatchType ==
  [ses : Session, cost : Int, items : Int, opened : SUBSET StreamIds,
   closed : SUBSET StreamIds, applied : BOOLEAN, panics : BOOLEAN]

LEMMA BatchFields ==
  ASSUME NEW b \in BatchType
  PROVE  /\ b.ses \in Session /\ b.cost \in Int /\ b.items \in Int
         /\ b.opened \in SUBSET StreamIds /\ b.closed \in SUBSET StreamIds
         /\ b.applied \in BOOLEAN /\ b.panics \in BOOLEAN
BY Zenon DEF BatchType

(* The ways in which a frame is applied, as a rule.                        *)
LEMMA FrameRule ==
  ASSUME NEW b \in BatchType, NEW f, NEW refused, NEW pool, NEW G,
         ~b.applied \/ f.id = 0 \/ f.type # "OPEN" => b \in G,
         f.id # 0 /\ f.type = "OPEN" => OpenApplied(b, f.id, refused, pool) \in G,
         f.id # 0 /\ f.type # "OPEN" /\ ~WasClosed(b.ses, f.id)
           /\ ~b.ses.streams[f.id].live
             => [b EXCEPT !.panics = TRUE, !.applied = FALSE] \in G,
         f.id # 0 /\ b.ses.streams[f.id].live /\ f.type = "DATA"
             => DataApplied(b, f.id, f.n) \in G,
         f.id # 0 /\ b.ses.streams[f.id].live /\ f.type = "WINDOW"
             => WindowApplied(b, f.id, f.n) \in G,
         f.id # 0 /\ b.ses.streams[f.id].live => CloseApplied(b, f.id) \in G
  PROVE  FrameApplied(b, f, refused, pool) \in G
<1>. b.applied \in BOOLEAN
  BY DEF BatchType
<1>1. CASE ~b.applied \/ f.id = 0
  BY <1>1 DEF FrameApplied
<1>2. CASE b.applied /\ f.id # 0 /\ f.type = "OPEN"
  BY <1>2 DEF FrameApplied
<1>3. CASE b.applied /\ f.id # 0 /\ f.type # "OPEN" /\ WasClosed(b.ses, f.id)
  BY <1>3 DEF FrameApplied
<1>4. CASE b.applied /\ f.id # 0 /\ f.type # "OPEN" /\ ~WasClosed(b.ses, f.id)
  BY <1>4 DEF FrameApplied
<1>. QED
  BY <1>1, <1>2, <1>3, <1>4

LEMMA OpenAppliedType ==
  ASSUME NEW b \in BatchType, NEW id \in StreamIds, NEW refused, NEW pool
  PROVE  OpenApplied(b, id, refused, pool) \in BatchType
<1>. DEFINE remembered == RememberClosed(b.ses, id)
            frame == [type |-> "CLOSE", id |-> id, n |-> 0]
<1>1. remembered \in Session
  BY BatchFields, RememberClosedType, Zenon
<1>2. frame \in Queueable
  BY DEF Queueable
<1>3. QueueFrame(remembered, frame) \in Session
  BY <1>1, <1>2, QueueFrameType, Zenon
<1>4. [b.ses EXCEPT !.streams[id] = OpenedStream] \in Session
  BY BatchFields, NoStreamType, SetStreamType, Zenon
<1>5. CASE ~(TooManyStreams(b.ses) \/ refused)
  <2>. DEFINE o == [b.ses EXCEPT !.streams[id] = OpenedStream]
  <2>1. OpenApplied(b, id, refused, pool) = [b EXCEPT !.ses = o, !.opened = {id}]
    BY <1>5, BatchFields DEF OpenApplied, BatchType
  <2>. HIDE DEF o
  <2>. QED
    BY <1>4, <2>1, ZenonT(60) DEF BatchType, o
<1>6. CASE TooManyStreams(b.ses) \/ refused
  <2>. HIDE DEF remembered, frame
  <2>1. \/ OpenApplied(b, id, refused, pool) = [b EXCEPT !.ses = QueueFrame(remembered, frame)]
        \/ OpenApplied(b, id, refused, pool) = [b EXCEPT !.ses = remembered, !.applied = FALSE]
    BY <1>6, Zenon DEF OpenApplied, remembered, frame
  <2>. QED
    BY <1>1, <1>3, <2>1 DEF BatchType
<1>. QED
  BY <1>5, <1>6

LEMMA DataAppliedType ==
  ASSUME NEW b \in BatchType, NEW id \in StreamIds, NEW n \in Nat, n <= MaxFramePayload
  PROVE  DataApplied(b, id, n) \in BatchType
<1>. DEFINE items == IF Coalesces(b.ses.streams[id], n) THEN 0 ELSE 1
            o == [b.ses EXCEPT !.streams[id] = WriteQueued(b.ses.streams[id], n)]
<1>1. b.ses \in Session /\ b.ses.streams[id] \in Stream
  BY BatchFields, SessionFields
<1>2. o \in Session
  BY <1>1, WriteQueuedType, SetStreamType, Zenon
<1>3. items \in Int /\ n + items * QueueItemCost \in Int
  BY FrameAssumption
<1>4. DataApplied(b, id, n) =
        [b EXCEPT !.ses = o, !.cost = b.cost - (n + items * QueueItemCost),
                  !.items = b.items - items]
  BY <1>1, BatchFields DEF DataApplied, BatchType
<1>. HIDE DEF items, o
<1>5. b.cost - (n + items * QueueItemCost) \in Int /\ b.items - items \in Int
  BY <1>3, BatchFields
<1>. QED
  BY <1>2, <1>4, <1>5 DEF BatchType

(* A frame that changes a stream, which stays live or gone.                *)
StreamReplaced(b, c, id) ==
  \E x \in Stream :
    /\ x.live = b.ses.streams[id].live
    /\ c = [b EXCEPT !.ses = [b.ses EXCEPT !.streams[id] = x]]

LEMMA WindowAppliedStream ==
  ASSUME NEW b \in BatchType, NEW id \in StreamIds, NEW n \in Nat
  PROVE  StreamReplaced(b, WindowApplied(b, id, n), id)
<1>. DEFINE t == b.ses.streams[id]
            x == [t EXCEPT !.sendCredit = AddCredit(t.sendCredit, n), !.creditNotify = TRUE]
            o == [b.ses EXCEPT !.streams[id] = x]
<1>1. b.ses \in Session /\ t \in Stream
  BY BatchFields, SessionFields
<1>2. AddCredit(t.sendCredit, n) \in 0 .. MaxUint32
  BY <1>1, StreamFields, AddCreditType
<1>3. x \in Stream /\ x.live = t.live
  BY <1>1, <1>2 DEF Stream
<1>4. WindowApplied(b, id, n) = [b EXCEPT !.ses = o]
  <2>. DEFINE c == AddCredit(t.sendCredit, n)
              d == [b.ses EXCEPT !.streams[id].sendCredit = c, !.streams[id].creditNotify = TRUE]
  <2>1. WindowApplied(b, id, n) = [b EXCEPT !.ses.streams[id].sendCredit = c,
                                            !.ses.streams[id].creditNotify = TRUE]
    BY Zenon DEF WindowApplied
  <2>2. o = [b.ses EXCEPT !.streams[id] = [t EXCEPT !.sendCredit = c, !.creditNotify = TRUE]]
    OBVIOUS
  <2>. HIDE DEF c, x, o
  <2>3. WindowApplied(b, id, n) = [b EXCEPT !.ses = d]
    BY <2>1 DEF BatchType
  <2>4. d = o
    BY <1>1, <2>2 DEF Session
  <2>. QED
    BY <2>3, <2>4, Zenon
<1>. HIDE DEF x
<1>. QED
  BY <1>3, <1>4 DEF StreamReplaced

LEMMA WindowAppliedType ==
  ASSUME NEW b \in BatchType, NEW id \in StreamIds, NEW n \in Nat
  PROVE  WindowApplied(b, id, n) \in BatchType
<1>1. PICK x \in Stream :
        WindowApplied(b, id, n) = [b EXCEPT !.ses = [b.ses EXCEPT !.streams[id] = x]]
  BY WindowAppliedStream DEF StreamReplaced
<1>. DEFINE o == [b.ses EXCEPT !.streams[id] = x]
<1>2. o \in Session
  BY BatchFields, SetStreamType, Zenon
<1>. HIDE DEF o
<1>. QED
  BY <1>1, <1>2 DEF BatchType, o

LEMMA CloseAppliedType ==
  ASSUME NEW b \in BatchType, NEW id \in StreamIds
  PROVE  CloseApplied(b, id) \in BatchType
<1>1. EndStream(b.ses, id) \in Session
  BY BatchFields, EndStreamType, Zenon
<1>. QED
  BY <1>1 DEF CloseApplied, BatchType

LEMMA FrameAppliedType ==
  ASSUME NEW b \in BatchType, NEW f \in Frame, ValidClientShape(f),
         PayloadLength(f) <= MaxFramePayload, NEW refused, NEW pool
  PROVE  FrameApplied(b, f, refused, pool) \in BatchType
<1>1. f.n \in Nat /\ (f.id # 0 => f.id \in StreamIds)
  BY DEF Frame
<1>2. f.type = "DATA" => f.n <= MaxFramePayload
  BY DEF PayloadLength
<1>3. [b EXCEPT !.panics = TRUE, !.applied = FALSE] \in BatchType
  BY DEF BatchType
<1>5. f.id # 0 => OpenApplied(b, f.id, refused, pool) \in BatchType
  BY <1>1, OpenAppliedType, Zenon
<1>6. f.id # 0 /\ f.type = "DATA" => DataApplied(b, f.id, f.n) \in BatchType
  BY <1>1, <1>2, DataAppliedType, Zenon
<1>7. f.id # 0 => WindowApplied(b, f.id, f.n) \in BatchType
  BY <1>1, WindowAppliedType, Zenon
<1>8. f.id # 0 => CloseApplied(b, f.id) \in BatchType
  BY <1>1, CloseAppliedType, Zenon
<1>. QED
  BY <1>3, <1>5, <1>6, <1>7, <1>8, FrameRule, Zenon

LEMMA WellFormed ==
  ASSUME NEW body \in Bodies \cup {<<>>}, WellFormedBody(body)
  PROVE  /\ body # <<>> /\ Len(body) \in Nat \ {0}
         /\ \A k \in 1 .. Len(body) :
              /\ body[k] \in Frame /\ ValidClientShape(body[k])
              /\ PayloadLength(body[k]) <= MaxFramePayload
<1>1. body \in Seq(Frame) /\ \A k \in 1 .. Len(body) : body[k] \in Frame
  BY BodyType
<1>. QED
  BY <1>1 DEF WellFormedBody, Parses

LEMMA BatchAppliedType ==
  ASSUME NEW s \in Session, NEW body \in Bodies \cup {<<>>}, WellFormedBody(body),
         NEW refused, NEW pool
  PROVE  BatchApplied(s, body, refused, pool) \in BatchType
<1>. DEFINE G == [k \in Nat |-> BatchType]
<1>1. Batch(s, body) \in G[0]
  BY WriteCostType DEF Batch, BatchType
<1>2. ASSUME NEW k \in 1 .. Len(body), NEW b \in G[k - 1]
      PROVE  FrameApplied(b, body[k], refused, pool) \in G[k]
  BY WellFormed, FrameAppliedType
<1>3. Len(body) \in Nat
  BY WellFormed
<1>4. G[Len(body)] = BatchType
  BY <1>3
<1>. HIDE DEF G
<1>5. BatchApplied(s, body, refused, pool) \in G[Len(body)]
  BY <1>1, <1>2, <1>3, BatchInduction, Zenon
<1>. QED
  BY <1>4, <1>5

-----------------------------------------------------------------------------
(* Type correctness: the handlers.                                         *)
LEMMA NewStates ==
  NoUp \in UpState /\ NoPoll \in PollState /\ NoSocket \in SocketState
BY LaneZero, BodyType DEF NoUp, UpState, NoPoll, PollState, NoSocket, SocketState

LEMMA UpFields ==
  ASSUME NEW u \in UpState
  PROVE  /\ u.pc \in {"idle", "received", "failing", "launching", "closing", "panicked"}
         /\ u.lane \in LaneIds /\ u.seq \in Nat /\ u.body \in Bodies \cup {<<>>}
         /\ u.toStart \in SUBSET StreamIds /\ u.toStop \in SUBSET StreamIds
         /\ u.applied \in BOOLEAN
BY Zenon DEF UpState

LEMMA PollFields ==
  ASSUME NEW p \in PollState
  PROVE  /\ p.pc \in {"idle", "parked", "woken", "failing"} /\ p.lane \in LaneIds
         /\ p.gen \in Nat /\ p.cursor \in Nat /\ p.superseded \in BOOLEAN
BY Zenon DEF PollState

LEMMA SocketFields ==
  ASSUME NEW x \in SocketState
  PROVE  /\ x.pc \in {"none", "serving", "ended"} /\ x.lane \in LaneIds
         /\ x.gen \in Nat /\ x.sequence \in Nat /\ x.cursor \in Nat
         /\ x.reader \in BOOLEAN /\ x.writer \in BOOLEAN
BY Zenon DEF SocketState

LEMMA UpAnswersType ==
  ASSUME TypeOK, NEW h \in Pollers, NEW answer, UpAnswers(h, answer)
  PROVE  ups' \in [Pollers -> UpState] /\ sockets' \in [Pollers -> SocketState]
<1>. ups \in [Pollers -> UpState] /\ sockets \in [Pollers -> SocketState]
  BY DEF TypeOK
<1>1. ups[h] \in UpState /\ [ups[h] EXCEPT !.pc = "received"] \in UpState
  BY DEF UpState
<1>2. /\ [sockets[h] EXCEPT !.sequence = @ + 1] \in SocketState
      /\ [sockets[h] EXCEPT !.reader = FALSE] \in SocketState
  <2>1. sockets[h] \in SocketState /\ sockets[h].sequence + 1 \in Nat
    BY SocketFields
  <2>. QED
    BY <2>1 DEF SocketState
<1>3. ups' \in [Pollers -> UpState]
  BY <1>1, NewStates DEF UpAnswers
<1>4. sockets' \in [Pollers -> SocketState]
  <2>1. [sockets EXCEPT ![h].sequence = @ + 1] \in [Pollers -> SocketState]
    BY <1>2
  <2>2. [sockets EXCEPT ![h].reader = FALSE] \in [Pollers -> SocketState]
    BY <1>2
  <2>. QED
    BY <2>1, <2>2 DEF UpAnswers
<1>. QED
  BY <1>3, <1>4

LEMMA UpGoesType ==
  ASSUME TypeOK, NEW h \in Pollers, NEW r, r.lane \in LaneIds,
         NEW pc \in {"failing", "closing"}, UpGoes(h, r, pc)
  PROVE  ups' \in [Pollers -> UpState] /\ sockets' \in [Pollers -> SocketState]
<1>1. [NoUp EXCEPT !.pc = pc, !.lane = r.lane] \in UpState
  BY NewStates DEF UpState
<1>. QED
  BY <1>1 DEF UpGoes, TypeOK

LEMMA PollAnswersType ==
  ASSUME TypeOK, NEW ps \in [Pollers -> PollState], NEW h \in Pollers, NEW answer,
         NEW next \in Nat, PollAnswers(ps, h, answer, next)
  PROVE  /\ polls' \in [Pollers -> PollState] /\ sockets' \in [Pollers -> SocketState]
         /\ life' \in [LaneIds -> {"new", "open", "over"}]
<1>. sockets \in [Pollers -> SocketState] /\ life \in [LaneIds -> {"new", "open", "over"}]
  BY DEF TypeOK
<1>1. polls' \in [Pollers -> PollState]
  BY NewStates DEF PollAnswers
<1>2. /\ [sockets[h] EXCEPT !.cursor = next] \in SocketState
      /\ [sockets[h] EXCEPT !.writer = FALSE] \in SocketState
  BY DEF SocketState
<1>3. sockets' \in [Pollers -> SocketState]
  <2>1. [sockets EXCEPT ![h].cursor = next] \in [Pollers -> SocketState]
    BY <1>2
  <2>2. [sockets EXCEPT ![h].writer = FALSE] \in [Pollers -> SocketState]
    BY <1>2
  <2>. QED
    BY <2>1, <2>2 DEF PollAnswers
<1>4. life' \in [LaneIds -> {"new", "open", "over"}]
  BY DEF PollAnswers
<1>. QED
  BY <1>1, <1>3, <1>4

LEMMA NotifyType ==
  ASSUME TypeOK, DroppedLanesNotify
  PROVE  generation' \in [LaneIds -> Nat] /\ stray' \subseteq LaneIds \X Nat
<1>. /\ generation \in [LaneIds -> Nat] /\ stray \subseteq LaneIds \X Nat
  BY DEF TypeOK
<1>1. generation' \in [LaneIds -> Nat]
  BY DEF DroppedLanesNotify
<1>2. Dropped \subseteq LaneIds
  BY DEF Dropped
<1>3. {<<l, generation[l]>> : l \in Dropped} \subseteq LaneIds \X Nat
  BY <1>2
<1>4. stray' \subseteq stray \cup {<<l, generation[l]>> : l \in Dropped}
  BY DEF DroppedLanesNotify
<1>. QED
  BY <1>1, <1>3, <1>4

-----------------------------------------------------------------------------
(* Type correctness: what the handlers do to the session.                  *)
LEMMA ReleaseLaneType ==
  ASSUME NEW s \in Session, NEW l \in LaneIds
  PROVE  ReleaseLane(s, l) \in Session
<1>1. CASE l \in LiveStreams(s)
  <2>1. l \in StreamIds
    BY <1>1 DEF LiveStreams
  <2>2. EndStream(s, l) \in Session
    BY <2>1, EndStreamType
  <2>3. CancelBackend(EndStream(s, l), {l}) \in Session
    BY <2>1, <2>2, CancelBackendType
  <2>. QED
    BY <1>1, <2>3, DropLaneType DEF ReleaseLane
<1>2. CASE l \notin LiveStreams(s)
  BY <1>2, DropLaneType DEF ReleaseLane
<1>. QED
  BY <1>1, <1>2

LEMMA FailLaneType ==
  ASSUME NEW s \in Session, NEW l \in LaneIds
  PROVE  FailLane(s, l) \in Session
BY ReleaseLaneType, CloseSessionType DEF FailLane

LEMMA SetOwnerType ==
  ASSUME NEW s \in Session, NEW l \in LaneIds, NEW h \in Pollers \cup {NoPoller}
  PROVE  [s EXCEPT !.lanes[l].owner = h] \in Session
<1>1. s.lanes[l] \in Lane
  BY SessionFields
<1>2. [s.lanes[l] EXCEPT !.owner = h] \in Lane
  BY <1>1 DEF Lane
<1>3. [s EXCEPT !.lanes[l].owner = h] = [s EXCEPT !.lanes[l] = [s.lanes[l] EXCEPT !.owner = h]]
  OBVIOUS
<1>. QED
  BY <1>2, <1>3, SetLaneType

LEMMA DisownType ==
  ASSUME TypeOK, NEW s \in Session, NEW h \in Pollers
  PROVE  Disown(s, h) \in Session
<1>1. polls[h].lane \in LaneIds
  BY PollFields DEF TypeOK
<1>. QED
  BY <1>1, SetOwnerType DEF Disown

LEMMA TokenReturnedType ==
  ASSUME TypeOK, NEW h \in Pollers, TokenReturned(h)
  PROVE  ses' \in Session /\ stray' \subseteq LaneIds \X Nat
<1>1. ses \in Session /\ polls[h].lane \in LaneIds /\ polls[h].gen \in Nat
      /\ stray \subseteq LaneIds \X Nat
  BY PollFields DEF TypeOK, BackendTypeOK
<1>2. [ses EXCEPT !.lanes[polls[h].lane].notify = TRUE] \in Session
  BY <1>1, SetNotifyType
<1>3. Object(h) \in LaneIds \X Nat
  BY <1>1 DEF Object
<1>4. \/ ses' = [ses EXCEPT !.lanes[polls[h].lane].notify = TRUE] /\ stray' = stray
      \/ ses' = ses /\ stray' = stray \cup {Object(h)}
  BY DEF TokenReturned
<1>. QED
  BY <1>1, <1>2, <1>3, <1>4

LEMMA CommittedType ==
  ASSUME NEW r, r.lane \in LaneIds, r.seq \in Nat, r.body \in Bodies \cup {<<>>},
         NEW b \in BatchType
  PROVE  Committed(r, b) \in Session
<1>. DEFINE released == ReleasePending(b.ses, b.cost, b.items)
            lane == [released.lanes[r.lane] EXCEPT !.lastUpSequence = r.seq,
                                                   !.lastUpDigest = r.body]
<1>1. released \in Session
  BY BatchFields, ReleasePendingType
<1>. HIDE DEF released
<1>2. lane \in Lane
  <2>1. released.lanes[r.lane] \in Lane
    BY <1>1, SessionFields
  <2>. QED
    BY <2>1 DEF Lane
<1>3. [released EXCEPT !.lanes[r.lane] = lane] \in Session
  BY <1>1, <1>2, SetLaneType
<1>4. CASE b.applied
  <2>1. Committed(r, b) = [released EXCEPT !.lanes[r.lane] = lane]
    BY <1>1, <1>4 DEF Committed, released, Session
  <2>. QED
    BY <1>3, <2>1
<1>5. CASE ~b.applied
  BY <1>1, <1>5 DEF Committed, released
<1>. QED
  BY <1>4, <1>5

LEMMA PollLoopsType ==
  ASSUME TypeOK, NEW s \in Session, NEW ps \in [Pollers -> PollState], NEW h \in Pollers,
         PollLoops(s, ps, h)
  PROVE  /\ ses' \in Session
         /\ polls' \in [Pollers -> PollState] /\ sockets' \in [Pollers -> SocketState]
         /\ life' \in [LaneIds -> {"new", "open", "over"}]
<1>. DEFINE l == ps[h].lane
            found == Ended(s, ps, h)
<1>1. l \in LaneIds /\ ps[h].cursor \in Nat /\ s.lanes[l] \in Lane
      /\ s.lanes[l].downCursor + 1 \in Nat
  BY PollFields, SessionFields, LaneFields
<1>2. CASE /\ \E k \in 1 .. Len(s.lanes[l].frames) :
                  ses' = [s EXCEPT !.lanes[l] = TakeBatch(@, k, ps[h].cursor)]
           /\ PollAnswers(ps, h, "batch", s.lanes[l].downCursor + 1)
  <2>1. PICK k \in 1 .. Len(s.lanes[l].frames) :
               ses' = [s EXCEPT !.lanes[l] = TakeBatch(s.lanes[l], k, ps[h].cursor)]
    BY <1>2
  <2>2. ses' \in Session
    BY <1>1, <2>1, TakeBatchType, SetLaneType
  <2>. QED
    BY <1>1, <1>2, <2>2, PollAnswersType
<1>3. CASE /\ ses' \in {[s EXCEPT !.lanes[l].owner = NoPoller], s}
           /\ PollAnswers(ps, h, found, 0)
  <2>1. ses' \in Session
    BY <1>1, <1>3, SetOwnerType
  <2>. HIDE DEF found
  <2>. QED
    BY <1>3, <2>1, PollAnswersType
<1>4. CASE /\ ses' = s /\ polls' = [ps EXCEPT ![h].pc = "parked"]
           /\ UNCHANGED <<sockets, life>>
  <2>1. [ps[h] EXCEPT !.pc = "parked"] \in PollState
    BY DEF PollState
  <2>2. polls' \in [Pollers -> PollState]
    BY <1>4, <2>1
  <2>. QED
    BY <1>4, <2>2 DEF TypeOK
<1>. QED
  BY <1>2, <1>3, <1>4 DEF PollLoops

-----------------------------------------------------------------------------
(* Type correctness: the steps.  Bodies reach ProcessUpLane with the lane  *)
(* and the sequence the request, or the socket, names.                     *)
Upload(r) == r.lane \in LaneIds /\ r.seq \in Nat /\ r.body \in Bodies \cup {<<>>}

LEMMA UpAppliesType ==
  ASSUME TypeOK, NEW h \in Pollers, NEW r, Upload(r), WellFormedBody(r.body),
         NEW s \in Session, UpApplies(h, r, s)
  PROVE  /\ ses' \in Session /\ backends' \in [StreamIds -> BackendState]
         /\ ups' \in [Pollers -> UpState] /\ sockets' \in [Pollers -> SocketState]
         /\ life' \in [LaneIds -> {"new", "open", "over"}]
<1>. DEFINE cost == WriteCost(s, r.body)
            items == WriteItems(s, r.body)
<1>1. /\ ses \in Session /\ backends \in [StreamIds -> BackendState]
      /\ ups \in [Pollers -> UpState] /\ sockets \in [Pollers -> SocketState]
      /\ life \in [LaneIds -> {"new", "open", "over"}]
  BY DEF TypeOK, BackendTypeOK
<1>2. Reserve(s, cost, items) \in Session
  BY WriteCostType, ReserveType DEF Upload
<1>3. CASE ses' = s /\ UpAnswers(h, "retry") /\ UNCHANGED <<backends, life>>
  BY <1>1, <1>3, UpAnswersType
<1>4. ASSUME NEW b \in BatchType, BodyApplied(h, r, b)
      PROVE  /\ ses' \in Session /\ backends' \in [StreamIds -> BackendState]
             /\ ups' \in [Pollers -> UpState] /\ sockets' \in [Pollers -> SocketState]
             /\ life' \in [LaneIds -> {"new", "open", "over"}]
  <2>1. ses' \in Session
    BY <1>4, CommittedType DEF Upload, BodyApplied
  <2>2. [NoBackend EXCEPT !.run = "opened"] \in BackendState
    BY DEF NoBackend, BackendState
  <2>3. backends' \in [StreamIds -> BackendState]
    BY <1>1, <1>4, <2>2 DEF BodyApplied
  <2>4. [pc |-> IF b.panics THEN "panicked" ELSE "launching", lane |-> r.lane,
         seq |-> r.seq, body |-> <<>>, toStart |-> b.opened,
         toStop |-> b.closed, applied |-> b.applied] \in UpState
    BY <1>4, BatchFields DEF UpState, Upload
  <2>5. ups' \in [Pollers -> UpState]
    BY <1>1, <1>4, <2>4 DEF BodyApplied
  <2>6. life' \in [LaneIds -> {"new", "open", "over"}]
    BY <1>1, <1>4 DEF BodyApplied
  <2>. QED
    BY <1>1, <1>4, <2>1, <2>3, <2>5, <2>6 DEF BodyApplied
<1>. HIDE DEF cost, items
<1>5. \/ ses' = s /\ UpAnswers(h, "retry") /\ UNCHANGED <<backends, life>>
      \/ \E refused, pool :
            BodyApplied(h, r, BatchApplied(Reserve(s, cost, items), r.body, refused, pool))
  BY Zenon DEF UpApplies, cost, items
<1>6. \A refused, pool :
        BatchApplied(Reserve(s, cost, items), r.body, refused, pool) \in BatchType
  BY <1>2, BatchAppliedType, Zenon DEF Upload
<1>. QED
  BY <1>3, <1>4, <1>5, <1>6, Zenon

LEMMA UpLaneType ==
  ASSUME TypeOK, NEW h \in Pollers, NEW r, Upload(r), UpLane(h, r)
  PROVE  /\ ses' \in Session /\ backends' \in [StreamIds -> BackendState]
         /\ ups' \in [Pollers -> UpState] /\ sockets' \in [Pollers -> SocketState]
         /\ life' \in [LaneIds -> {"new", "open", "over"}]
<1>. DEFINE s == IF ~ses.lanes[r.lane].present
                 THEN [ses EXCEPT !.lanes[r.lane] = NewLane] ELSE ses
<1>1. /\ ses \in Session /\ backends \in [StreamIds -> BackendState]
      /\ life \in [LaneIds -> {"new", "open", "over"}]
  BY DEF TypeOK, BackendTypeOK
<1>2. s \in Session
  BY <1>1, NoLaneType, SetLaneType DEF Upload
<1>. HIDE DEF s
<1>3. CASE /\ UpGoes(h, r, "failing") /\ ses' \in {s, ses} /\ UNCHANGED <<backends, life>>
  BY <1>1, <1>2, <1>3, UpGoesType DEF Upload
<1>4. ASSUME NEW answer, UpAnswers(h, answer), ses' \in {s, ses}, UNCHANGED <<backends, life>>
      PROVE  /\ ses' \in Session /\ backends' \in [StreamIds -> BackendState]
             /\ ups' \in [Pollers -> UpState] /\ sockets' \in [Pollers -> SocketState]
             /\ life' \in [LaneIds -> {"new", "open", "over"}]
  BY <1>1, <1>2, <1>4, UpAnswersType
<1>5. CASE WellFormedBody(r.body) /\ UpApplies(h, r, s)
  BY <1>2, <1>5, UpAppliesType
<1>6. \/ UpGoes(h, r, "failing") /\ ses' \in {s, ses} /\ UNCHANGED <<backends, life>>
      \/ \E answer : UpAnswers(h, answer) /\ ses' \in {s, ses} /\ UNCHANGED <<backends, life>>
      \/ WellFormedBody(r.body) /\ UpApplies(h, r, s)
  BY DEF UpLane, OfLane, s
<1>. QED
  BY <1>3, <1>4, <1>5, <1>6, Zenon

LEMMA InitType == Init => TypeOK
<1>. SUFFICES ASSUME Init PROVE TypeOK
  OBVIOUS
<1>1. (IF OverSockets THEN NoLane ELSE NewLane) \in Lane
  BY NoLaneType
<1>2. ses \in Session
  BY <1>1, NewSessionType, LaneZero, SetLaneType DEF Init
<1>3. backends \in [StreamIds -> BackendState]
  BY DEF Init, NoBackend, BackendState
<1>. QED
  BY <1>2, <1>3, NewStates DEF Init, TypeOK, BackendTypeOK

LEMMA UpStepType ==
  ASSUME TypeOK, NEW h \in Pollers, UpStep(h)
  PROVE  TypeOK'
<1>1. /\ ses \in Session /\ backends \in [StreamIds -> BackendState]
      /\ ups[h] \in UpState /\ ups[h].lane \in LaneIds
  BY UpFields DEF TypeOK, BackendTypeOK
<1>2. CASE UpLaunch(h)
  <2>1. ses' \in Session
    BY <1>1, <1>2, UpFields, CancelBackendType DEF UpLaunch
  <2>2. backends' \in [StreamIds -> BackendState]
    <3>1. \A id \in StreamIds : [backends[id] EXCEPT !.run = "dialing"] \in BackendState
      BY <1>1 DEF BackendState
    <3>. QED
      BY <1>1, <1>2, <3>1 DEF UpLaunch
  <2>3. ups' \in [Pollers -> UpState] /\ sockets' \in [Pollers -> SocketState]
    BY <1>1, <1>2, UpAnswersType, UpGoesType DEF UpLaunch
  <2>. QED
    BY <1>2, <2>1, <2>2, <2>3 DEF UpLaunch, TypeOK, BackendTypeOK
<1>3. CASE UpFails(h)
  <2>1. ses' \in Session
    BY <1>1, <1>3, FailLaneType, CloseSessionType DEF UpFails
  <2>. QED
    BY <1>3, <2>1, UpAnswersType, NotifyType DEF UpFails, TypeOK, BackendTypeOK
<1>. QED
  BY <1>2, <1>3 DEF UpStep

LEMMA PollLaneType ==
  ASSUME TypeOK, NEW h \in Pollers, NEW l \in LaneIds, NEW cursor \in Nat,
         PollLane(h, l, cursor)
  PROVE  TypeOK'
<1>1. /\ ses \in Session /\ polls \in [Pollers -> PollState] /\ generation[l] \in Nat
      /\ ses.lanes[l].downCursor \in Nat
  BY SessionFields, LaneFields DEF TypeOK, BackendTypeOK
<1>2. /\ ses' \in Session
      /\ polls' \in [Pollers -> PollState] /\ sockets' \in [Pollers -> SocketState]
      /\ life' \in [LaneIds -> {"new", "open", "over"}]
  <2>1. CASE PollAnswers(polls, h, "failed", 0) /\ UNCHANGED ses
    BY <1>1, <2>1, PollAnswersType
  <2>2. CASE PollAnswers(polls, h, "batch", ses.lanes[l].downCursor) /\ UNCHANGED ses
    BY <1>1, <2>2, PollAnswersType
  <2>3. CASE /\ polls' = [polls EXCEPT ![h] = [NoPoll EXCEPT !.pc = "failing", !.lane = l,
                                                            !.gen = generation[l]]]
             /\ UNCHANGED <<ses, sockets, life>>
    <3>1. [NoPoll EXCEPT !.pc = "failing", !.lane = l, !.gen = generation[l]] \in PollState
      BY <1>1, NewStates DEF PollState
    <3>2. polls' \in [Pollers -> PollState]
      BY <1>1, <2>3, <3>1
    <3>. QED
      BY <1>1, <2>3, <3>2 DEF TypeOK
  <2>4. CASE PollLoops([AckUnacked(ses, l) EXCEPT !.lanes[l].owner = h],
                       Superseding(h, l, cursor), h)
    <3>. DEFINE s == [AckUnacked(ses, l) EXCEPT !.lanes[l].owner = h]
                ps == Superseding(h, l, cursor)
    <3>1. s \in Session
      BY <1>1, AckUnackedType, SetOwnerType
    <3>2. ps \in [Pollers -> PollState]
      <4>1. [NoPoll EXCEPT !.lane = l, !.gen = generation[l], !.cursor = cursor] \in PollState
        BY <1>1, NewStates DEF PollState
      <4>2. \A g \in Pollers : [polls[g] EXCEPT !.superseded = TRUE] \in PollState
        BY <1>1 DEF PollState
      <4>. QED
        BY <1>1, <4>1, <4>2 DEF Superseding
    <3>3. PollLoops(s, ps, h)
      BY <2>4
    <3>. HIDE DEF s, ps
    <3>. QED
      BY <3>1, <3>2, <3>3, PollLoopsType, Zenon
  <2>. QED
    BY <2>1, <2>2, <2>3, <2>4 DEF PollLane
<1>. QED
  BY <1>2 DEF PollLane, TypeOK, BackendTypeOK

LEMMA PollStepType ==
  ASSUME TypeOK, NEW h \in Pollers, PollStep(h)
  PROVE  TypeOK'
<1>1. /\ ses \in Session /\ polls \in [Pollers -> PollState]
      /\ polls[h] \in PollState /\ polls[h].lane \in LaneIds /\ polls[h].cursor \in Nat
      /\ stray \subseteq LaneIds \X Nat
  BY PollFields DEF TypeOK, BackendTypeOK
<1>2. Disown(ses, h) \in Session
  BY <1>1, DisownType
<1>3. CASE PollWakes(h)
  <2>1. ses' \in Session /\ stray' \subseteq LaneIds \X Nat
    BY <1>1, <1>3, SetNotifyType DEF PollWakes
  <2>2. [polls[h] EXCEPT !.pc = "woken"] \in PollState
    BY <1>1 DEF PollState
  <2>3. polls' \in [Pollers -> PollState]
    BY <1>1, <1>3, <2>2 DEF PollWakes
  <2>. QED
    BY <1>3, <2>1, <2>3 DEF PollWakes, TypeOK, BackendTypeOK
<1>4. CASE PollResumes(h)
  <2>1. CASE TokenReturned(h) /\ PollAnswers(polls, h, "empty", 0)
    BY <1>1, <1>4, <2>1, TokenReturnedType, PollAnswersType
       DEF PollResumes, TypeOK, BackendTypeOK
  <2>2. CASE PollLoops(ses, polls, h) /\ UNCHANGED stray
    BY <1>1, <1>4, <2>2, PollLoopsType DEF PollResumes, TypeOK, BackendTypeOK
  <2>. QED
    BY <1>4, <2>1, <2>2 DEF PollResumes
<1>5. CASE PollSuperseded(h)
  BY <1>1, <1>5, TokenReturnedType, PollAnswersType
     DEF PollSuperseded, TypeOK, BackendTypeOK
<1>6. CASE PollCancelled(h) \/ PollDone(h)
  BY <1>1, <1>2, <1>6, PollAnswersType DEF PollCancelled, PollDone, TypeOK, BackendTypeOK
<1>7. CASE PollExpires(h)
  <2>1. CASE TokenReturned(h) /\ PollAnswers(polls, h, "empty", 0)
    BY <1>1, <1>7, <2>1, TokenReturnedType, PollAnswersType
       DEF PollExpires, TypeOK, BackendTypeOK
  <2>2. CASE PollLoops(ses, polls, h) /\ UNCHANGED stray
    BY <1>1, <1>7, <2>2, PollLoopsType DEF PollExpires, TypeOK, BackendTypeOK
  <2>3. CASE ses' = Disown(ses, h) /\ PollAnswers(polls, h, "empty", 0) /\ UNCHANGED stray
    BY <1>1, <1>2, <1>7, <2>3, PollAnswersType DEF PollExpires, TypeOK, BackendTypeOK
  <2>. QED
    BY <1>7, <2>1, <2>2, <2>3 DEF PollExpires
<1>8. CASE PollFails(h)
  BY <1>1, <1>8, FailLaneType, PollAnswersType, NotifyType
     DEF PollFails, TypeOK, BackendTypeOK
<1>. QED
  BY <1>3, <1>4, <1>5, <1>6, <1>7, <1>8 DEF PollStep

LEMMA SocketStepType ==
  ASSUME TypeOK, NEW h \in Pollers, SocketStep(h)
  PROVE  TypeOK'
<1>1. /\ ses \in Session /\ ups \in [Pollers -> UpState] /\ ups[h] \in UpState
      /\ sockets \in [Pollers -> SocketState] /\ sockets[h] \in SocketState
      /\ sockets[h].lane \in LaneIds /\ sockets[h].cursor \in Nat
  BY SocketFields DEF TypeOK, BackendTypeOK
<1>2. /\ [sockets[h] EXCEPT !.reader = FALSE] \in SocketState
      /\ [sockets[h] EXCEPT !.writer = FALSE] \in SocketState
      /\ [sockets[h] EXCEPT !.pc = "ended"] \in SocketState
  BY <1>1 DEF SocketState
<1>3. CASE SocketSends(h)
  <2>1. Upload(ups[h])
    BY <1>1, UpFields DEF Upload
  <2>. QED
    BY <1>3, <2>1, UpLaneType, NotifyType DEF SocketSends, TypeOK, BackendTypeOK
<1>4. CASE ReaderEnds(h)
  <2>1. ups' \in [Pollers -> UpState] /\ sockets' \in [Pollers -> SocketState]
    BY <1>1, <1>2, <1>4, NewStates DEF ReaderEnds
  <2>. QED
    BY <1>4, <2>1 DEF ReaderEnds, TypeOK, BackendTypeOK
<1>5. CASE SocketPolls(h)
  BY <1>1, <1>5, PollLaneType DEF SocketPolls
<1>6. CASE WriterEnds(h)
  <2>1. sockets' \in [Pollers -> SocketState]
    BY <1>1, <1>2, <1>6 DEF WriterEnds
  <2>. QED
    BY <1>6, <2>1 DEF WriterEnds, TypeOK, BackendTypeOK
<1>7. CASE SocketEnds(h)
  <2>1. sockets' \in [Pollers -> SocketState]
    BY <1>1, <1>2, <1>7 DEF SocketEnds
  <2>2. ses' \in Session
    BY <1>1, <1>7, ReleaseLaneType DEF SocketEnds
  <2>. QED
    BY <1>7, <2>1, <2>2, NotifyType DEF SocketEnds, TypeOK, BackendTypeOK
<1>8. CASE SocketGone(h)
  <2>1. sockets' \in [Pollers -> SocketState]
    BY <1>1, <1>8, NewStates DEF SocketGone
  <2>. QED
    BY <1>8, <2>1 DEF SocketGone, TypeOK, BackendTypeOK
<1>. QED
  BY <1>3, <1>4, <1>5, <1>6, <1>7, <1>8 DEF SocketStep

LEMMA RequestType ==
  ASSUME TypeOK, NEW h \in Pollers, Request(h)
  PROVE  TypeOK'
<1>1. /\ ses \in Session /\ ups \in [Pollers -> UpState] /\ generation \in [LaneIds -> Nat]
      /\ sockets \in [Pollers -> SocketState] /\ sockets[h] \in SocketState
      /\ sockets[h].lane \in LaneIds /\ sockets[h].sequence \in Nat
  BY SocketFields DEF TypeOK, BackendTypeOK
<1>2. /\ LanesUsed \subseteq LaneIds /\ LanesPolled \subseteq LaneIds
      /\ 1 .. MaxSeq \subseteq Nat /\ 0 .. MaxCursor \subseteq Nat
      /\ SocketBodies \subseteq Bodies
  BY LaneAssumption
<1>3. ASSUME NEW l \in LanesUsed, NEW q \in 1 .. MaxSeq, NEW body \in Bodies,
             UpRequest(h, l, q, body)
      PROVE  TypeOK'
  <2>. DEFINE r == [lane |-> l, seq |-> q, body |-> body]
  <2>1. Upload(r)
    BY <1>2, <1>3 DEF Upload
  <2>2. UpLane(h, r)
    BY <1>3 DEF UpRequest
  <2>. HIDE DEF r
  <2>. QED
    BY <1>3, <2>1, <2>2, UpLaneType, NotifyType DEF UpRequest, TypeOK, BackendTypeOK
<1>4. ASSUME NEW l \in LanesPolled, NEW cursor \in 0 .. MaxCursor, PollRequest(h, l, cursor)
      PROVE  TypeOK'
  BY <1>2, <1>4, PollLaneType DEF PollRequest
<1>5. ASSUME NEW id \in LanesPolled, SocketOpens(h, id)
      PROVE  TypeOK'
  <2>1. ses' \in Session
    BY <1>1, <1>2, <1>5, NoLaneType, SetLaneType DEF SocketOpens
  <2>2. [NoSocket EXCEPT !.pc = "serving", !.lane = id, !.gen = generation[id],
                         !.reader = TRUE, !.writer = TRUE] \in SocketState
    BY <1>1, <1>2, NewStates DEF SocketState
  <2>3. sockets' \in [Pollers -> SocketState]
    BY <1>1, <1>5, <2>2 DEF SocketOpens
  <2>. QED
    BY <1>5, <2>1, <2>3 DEF SocketOpens, TypeOK, BackendTypeOK
<1>6. ASSUME NEW body \in SocketBodies, SocketReads(h, body)
      PROVE  TypeOK'
  <2>1. [NoUp EXCEPT !.pc = "received", !.body = body, !.lane = sockets[h].lane,
                     !.seq = sockets[h].sequence] \in UpState
    BY <1>1, <1>2, NewStates DEF UpState
  <2>2. ups' \in [Pollers -> UpState]
    BY <1>1, <1>6, <2>1 DEF SocketReads
  <2>. QED
    BY <1>6, <2>2 DEF SocketReads, TypeOK, BackendTypeOK
<1>. QED
  BY <1>3, <1>4, <1>5, <1>6 DEF Request

LEMMA StepType == TypeOK /\ [Next]_vars => TypeOK'
<1>. SUFFICES ASSUME TypeOK, [Next]_vars PROVE TypeOK'
  OBVIOUS
<1>1. ASSUME NEW h \in Pollers, Request(h) \/ UpStep(h) \/ PollStep(h) \/ SocketStep(h)
      PROVE  TypeOK'
  BY <1>1, RequestType, UpStepType, PollStepType, SocketStepType
<1>2. ASSUME NEW id \in StreamIds, BackendNext(id)
      PROVE  TypeOK'
  <2>1. BackendTypeOK'
    BY <1>2, BackendStepType DEF BackendNext, TypeOK
  <2>. QED
    BY <1>2, <2>1, NotifyType DEF BackendNext, TypeOK
<1>3. CASE Close
  <2>1. ses' \in Session
    BY <1>3, CloseSessionType DEF Close, TypeOK, BackendTypeOK
  <2>. QED
    BY <1>3, <2>1 DEF Close, TypeOK, BackendTypeOK
<1>4. CASE UNCHANGED vars
  BY <1>4 DEF vars, TypeOK, BackendTypeOK, UpState, PollState, SocketState
<1>. QED
  BY <1>1, <1>2, <1>3, <1>4 DEF Next

(* Whatever clients send, the session, its lanes and the handlers keep     *)
(* their types: a uint32 window or credit never leaves its range, and a    *)
(* poll never holds a cursor or a lane object that cannot be.              *)
THEOREM TypeOKHolds == Spec => []TypeOK
BY InitType, StepType, PTL DEF Spec

-----------------------------------------------------------------------------
(* What a critical section outside PollLane makes of lanes, streams and    *)
(* tombstones.  It drops lanes of streams that are gone, and none but      *)
(* those of ids gets its first frame or a stream.  A lane it keeps has a   *)
(* token, or nothing new for the poll that waits.                          *)
Orderly(s) ==
  /\ Tombs(s)
  /\ \A l \in LaneIds : s.lanes[l].present \/ s.lanes[l] = NoLane

LaneKept(s, t, l) ==
  /\ t.lanes[l].lastUpSequence = s.lanes[l].lastUpSequence
  /\ t.lanes[l].owner = s.lanes[l].owner
  /\ t.lanes[l].downCursor = s.lanes[l].downCursor
  /\ t.lanes[l].unacked \in {s.lanes[l].unacked, <<>>}
  /\ s.lanes[l].notify => t.lanes[l].notify
  /\ \/ t.lanes[l].notify
     \/ /\ t.lanes[l].frames = s.lanes[l].frames
        /\ t.closed => s.closed
        /\ StreamOver(t, l) => StreamOver(s, l)

LaneCarried(s, t, ids, l) ==
  /\ t.lanes[l].present => s.lanes[l].present /\ LaneKept(s, t, l)
  /\ s.lanes[l].present /\ ~t.lanes[l].present /\ l \in StreamIds =>
       /\ ~t.streams[l].live
       /\ OverSockets \/ WasClosed(s, l) \/ s.streams[l].live \/ l \in ids

StreamCarried(s, t, ids, id) ==
  /\ t.streams[id].live => s.streams[id].live \/ (id \in ids /\ s.lanes[id].present)
  /\ s.streams[id].live /\ ~t.streams[id].live =>
       WasClosed(t, id) \/ t.closed \/ ~t.lanes[id].present
  /\ WasClosed(s, id) => WasClosed(t, id) \/ ~t.lanes[id].present
  /\ WasClosed(t, id) => WasClosed(s, id) \/ s.streams[id].live \/ id \in ids
  /\ t.lanes[id].frames # <<>> =>
       s.lanes[id].frames # <<>> \/ s.streams[id].live \/ id \in ids

Carried(s, t, ids) ==
  /\ Orderly(t)
  /\ s.closed => t.closed
  /\ \A l \in LaneIds : LaneCarried(s, t, ids, l)
  /\ \A id \in StreamIds : StreamCarried(s, t, ids, id)

LEMMA LanesAreStreams ==
  /\ LaneIds = StreamIds \cup {0} /\ 0 \notin StreamIds /\ StreamIds \subseteq LaneIds
  /\ \A id : LaneOf(id) = id
  /\ CarrierLanes
BY LaneAssumption, FrameAssumption DEF LaneIds, LaneOf, StreamIds

LEMMA SameLanesCarried ==
  ASSUME NEW s, NEW t, Orderly(s), t.lanes = s.lanes, t.closed = s.closed,
         t.closedOrder = s.closedOrder,
         \A id \in StreamIds : t.streams[id].live <=> s.streams[id].live,
         s.closedOrder \in Seq(StreamIds)
  PROVE  Carried(s, t, {})
<1>1. \A id : WasClosed(t, id) <=> WasClosed(s, id)
  BY Zenon DEF WasClosed
<1>2. Orderly(t)
  <2>1. \A k \in 1 .. Len(s.closedOrder) : s.closedOrder[k] \in StreamIds
    OBVIOUS
  <2>2. Tombs(t)
    BY <2>1 DEF Orderly, Tombs
  <2>. QED
    BY <2>2 DEF Orderly
<1>3. \A l \in LaneIds : StreamOver(t, l) => StreamOver(s, l)
  BY <1>1, LanesAreStreams DEF StreamOver
<1>. QED
  BY <1>1, <1>2, <1>3, Zenon DEF Carried, LaneCarried, StreamCarried, LaneKept

LEMMA CarriedTransitive ==
  ASSUME NEW s, NEW t, NEW v, NEW a, NEW b, Carried(s, t, a), Carried(t, v, b),
         NEW ids, a \subseteq ids, b \subseteq ids
  PROVE  Carried(s, v, ids)
<1>1. \A l \in LaneIds : v.lanes[l].present =>
        s.lanes[l].present /\ t.lanes[l].present /\ LaneKept(s, t, l) /\ LaneKept(t, v, l)
  BY DEF Carried, LaneCarried
<1>2. \A l \in LaneIds : v.lanes[l].present => LaneKept(s, v, l)
  <2>. SUFFICES ASSUME NEW l \in LaneIds, LaneKept(s, t, l), LaneKept(t, v, l)
                PROVE  LaneKept(s, v, l)
    BY <1>1
  <2>. QED
    BY DEF LaneKept
<1>3. ASSUME NEW id \in StreamIds PROVE StreamCarried(s, v, ids, id)
  <2>1. StreamCarried(s, t, a, id) /\ StreamCarried(t, v, b, id) /\ (t.closed => v.closed)
    BY DEF Carried
  <2>2. v.lanes[id].present => t.lanes[id].present
    BY <1>1, LanesAreStreams
  <2>3. t.lanes[id].present => s.lanes[id].present
    BY LanesAreStreams DEF Carried, LaneCarried
  <2>. QED
    BY <2>1, <2>2, <2>3 DEF StreamCarried
<1>4. ASSUME NEW l \in LaneIds PROVE LaneCarried(s, v, ids, l)
  <2>1. LaneCarried(s, t, a, l) /\ LaneCarried(t, v, b, l)
    BY DEF Carried
  <2>2. l \in StreamIds => StreamCarried(s, t, a, l) /\ StreamCarried(t, v, b, l)
    BY DEF Carried
  <2>3. v.lanes[l].present => s.lanes[l].present /\ LaneKept(s, v, l)
    BY <1>1, <1>2
  <2>. QED
    BY <2>1, <2>2, <2>3 DEF LaneCarried, StreamCarried
<1>5. Orderly(v) /\ (s.closed => v.closed)
  BY DEF Carried
<1>. QED
  BY <1>3, <1>4, <1>5 DEF Carried

LEMMA CarriedWider ==
  ASSUME NEW s, NEW t, NEW a, Carried(s, t, a), NEW ids, a \subseteq ids
  PROVE  Carried(s, t, ids)
BY DEF Carried, LaneCarried, StreamCarried

LEMMA BudgetCarried ==
  ASSUME NEW s \in Session, Orderly(s)
  PROVE  /\ Carried(s, s, {})
         /\ \A cost, items : Carried(s, ReleasePending(s, cost, items), {})
         /\ \A cost, items : Carried(s, Reserve(s, cost, items), {})
         /\ \A waiters : Carried(s, [s EXCEPT !.budgetWaiters = waiters], {})
         /\ \A ids : Carried(s, CancelBackend(s, ids), {})
<1>1. s.closedOrder \in Seq(StreamIds)
  BY SessionFields
<1>2. Carried(s, s, {})
  BY <1>1, SameLanesCarried
<1>3. ASSUME NEW cost, NEW items PROVE Carried(s, ReleasePending(s, cost, items), {})
  <2>. DEFINE t == ReleasePending(s, cost, items)
  <2>1. t.closed = s.closed /\ t.streams = s.streams /\ t.closedOrder = s.closedOrder
        /\ t.lanes = s.lanes
    BY DEF ReleasePending, Session
  <2>. HIDE DEF t
  <2>2. Carried(s, t, {})
    BY <1>1, <2>1, SameLanesCarried
  <2>. QED
    BY <2>2 DEF t
<1>4. ASSUME NEW cost, NEW items PROVE Carried(s, Reserve(s, cost, items), {})
  <2>. DEFINE t == Reserve(s, cost, items)
  <2>1. t.closed = s.closed /\ t.streams = s.streams /\ t.closedOrder = s.closedOrder
        /\ t.lanes = s.lanes
    BY DEF Reserve, Session
  <2>. HIDE DEF t
  <2>2. Carried(s, t, {})
    BY <1>1, <2>1, SameLanesCarried
  <2>. QED
    BY <2>2 DEF t
<1>5. ASSUME NEW waiters PROVE Carried(s, [s EXCEPT !.budgetWaiters = waiters], {})
  <2>. DEFINE t == [s EXCEPT !.budgetWaiters = waiters]
  <2>1. t.closed = s.closed /\ t.streams = s.streams /\ t.closedOrder = s.closedOrder
        /\ t.lanes = s.lanes
    BY DEF Session
  <2>. HIDE DEF t
  <2>2. Carried(s, t, {})
    BY <1>1, <2>1, SameLanesCarried
  <2>. QED
    BY <2>2 DEF t
<1>6. ASSUME NEW ids PROVE Carried(s, CancelBackend(s, ids), {})
  <2>. DEFINE t == CancelBackend(s, ids)
  <2>1. t.closed = s.closed /\ t.streams = s.streams /\ t.closedOrder = s.closedOrder
        /\ t.lanes = s.lanes
    BY DEF CancelBackend, Session
  <2>. HIDE DEF t
  <2>2. Carried(s, t, {})
    BY <1>1, <2>1, SameLanesCarried
  <2>. QED
    BY <2>2 DEF t
<1>. QED
  BY <1>2, <1>3, <1>4, <1>5, <1>6

(* A change to a stream that stays live, or gone.                          *)
LEMMA StreamChangeCarried ==
  ASSUME NEW s \in Session, Orderly(s), NEW id \in StreamIds, NEW x,
         x.live <=> s.streams[id].live
  PROVE  Carried(s, [s EXCEPT !.streams[id] = x], {})
<1>. DEFINE t == [s EXCEPT !.streams[id] = x]
<1>1. t.closed = s.closed /\ t.closedOrder = s.closedOrder /\ t.lanes = s.lanes
  BY DEF Session
<1>2. \A i \in StreamIds : t.streams[i].live <=> s.streams[i].live
  BY SessionFields DEF Session
<1>3. s.closedOrder \in Seq(StreamIds)
  BY SessionFields
<1>. HIDE DEF t
<1>4. Carried(s, t, {})
  BY <1>1, <1>2, <1>3, SameLanesCarried
<1>. QED
  BY <1>4 DEF t

(* Frames are queued in the lane of their stream, with a token.            *)
LEMMA QueueFrameCarried ==
  ASSUME NEW s \in Session, Orderly(s), NEW f, f.id \in StreamIds,
         s.lanes[f.id].present
  PROVE  /\ Carried(s, QueueFrame(s, f), {f.id})
         /\ QueueFrame(s, f).streams = s.streams
         /\ QueueFrame(s, f).closedOrder = s.closedOrder
         /\ QueueFrame(s, f).lanes[f.id].present
<1>. DEFINE t == QueueFrame(s, f)
            lane == s.lanes[f.id]
            new == [lane EXCEPT !.frames = FramesWith(lane, f),
                                !.windows = WindowsWith(lane, f), !.notify = TRUE]
<1>1. lane \in Lane /\ f.id \in LaneIds /\ LaneOf(f.id) = f.id
  BY SessionFields, LanesAreStreams
<1>2. /\ t.closed = s.closed /\ t.streams = s.streams /\ t.closedOrder = s.closedOrder
      /\ \A l \in LaneIds : t.lanes[l] = IF l = f.id THEN new ELSE s.lanes[l]
  BY <1>1 DEF QueueFrame, Session
<1>3. /\ new.present = lane.present /\ new.lastUpSequence = lane.lastUpSequence
      /\ new.owner = lane.owner /\ new.downCursor = lane.downCursor
      /\ new.unacked = lane.unacked /\ new.notify
  BY <1>1 DEF Lane
<1>. HIDE DEF t, new
<1>4. \A i : WasClosed(t, i) <=> WasClosed(s, i)
  BY <1>2, Zenon DEF WasClosed
<1>5. Orderly(t)
  <2>1. Tombs(t)
    BY <1>2, Zenon DEF Orderly, Tombs
  <2>2. \A l \in LaneIds : t.lanes[l].present \/ t.lanes[l] = NoLane
    BY <1>2, <1>3 DEF Orderly
  <2>. QED
    BY <2>1, <2>2 DEF Orderly
<1>6. ASSUME NEW l \in LaneIds PROVE LaneCarried(s, t, {f.id}, l)
  <2>1. LaneKept(s, t, l)
    BY <1>2, <1>3, <1>4 DEF LaneKept, StreamOver
  <2>. QED
    BY <1>2, <1>3, <2>1 DEF LaneCarried
<1>7. ASSUME NEW id \in StreamIds PROVE StreamCarried(s, t, {f.id}, id)
  BY <1>2, <1>4, LanesAreStreams DEF StreamCarried
<1>8. Carried(s, t, {f.id})
  BY <1>2, <1>5, <1>6, <1>7 DEF Carried
<1>. QED
  BY <1>1, <1>2, <1>3, <1>8 DEF t

(* A lane is dropped with its stream gone: its socket has ended, or its    *)
(* tombstone.                                                              *)
LEMMA DropLaneCarried ==
  ASSUME NEW s \in Session, Orderly(s), NEW l \in LaneIds,
         l \in StreamIds => ~s.streams[l].live /\ (OverSockets \/ WasClosed(s, l))
  PROVE  Carried(s, DropLane(s, l), {})
<1>. DEFINE t == DropLane(s, l)
<1>1. /\ t.closed = s.closed /\ t.streams = s.streams /\ t.closedOrder = s.closedOrder
      /\ \A o \in LaneIds : t.lanes[o] = IF o = l /\ s.lanes[l].present
                                       THEN NoLane ELSE s.lanes[o]
  BY DropLaneFields, LanesAreStreams
<1>. HIDE DEF t
<1>2. \A i : WasClosed(t, i) <=> WasClosed(s, i)
  BY <1>1, Zenon DEF WasClosed
<1>3. Orderly(t)
  <2>1. Tombs(t)
    BY <1>1, Zenon DEF Orderly, Tombs
  <2>2. \A o \in LaneIds : t.lanes[o].present \/ t.lanes[o] = NoLane
    BY <1>1 DEF Orderly
  <2>. QED
    BY <2>1, <2>2 DEF Orderly
<1>4. ASSUME NEW o \in LaneIds PROVE LaneCarried(s, t, {}, o)
  <2>1. LaneKept(s, t, o) \/ ~t.lanes[o].present
    BY <1>1, <1>2 DEF LaneKept, StreamOver, NoLane
  <2>2. t.lanes[o].present => s.lanes[o].present
    BY <1>1 DEF NoLane
  <2>3. s.lanes[o].present /\ ~t.lanes[o].present => o = l
    BY <1>1
  <2>4. s.lanes[o].present /\ ~t.lanes[o].present /\ o \in StreamIds =>
          ~t.streams[o].live /\ (OverSockets \/ WasClosed(s, o))
    <3>. SUFFICES ASSUME o = l, o \in StreamIds
                  PROVE  ~t.streams[o].live /\ (OverSockets \/ WasClosed(s, o))
      BY <2>3
    <3>1. l \in StreamIds /\ o = l
      OBVIOUS
    <3>2. ~s.streams[l].live /\ (OverSockets \/ WasClosed(s, l))
      BY <3>1, Zenon
    <3>3. ~s.streams[o].live /\ (OverSockets \/ WasClosed(s, o))
      BY <3>1, <3>2, Zenon
    <3>. QED
      BY <1>1, <3>3, Zenon
  <2>. QED
    BY <2>1, <2>2, <2>4 DEF LaneCarried
<1>5. ASSUME NEW id \in StreamIds PROVE StreamCarried(s, t, {}, id)
  BY <1>1, <1>2, LanesAreStreams DEF StreamCarried, NoLane
<1>6. Carried(s, t, {})
  BY <1>1, <1>3, <1>4, <1>5 DEF Carried
<1>. QED
  BY <1>6 DEF t

(* rememberClosedLocked tells the stream's lane, and drops that of the     *)
(* tombstone it forgets.                                                   *)
LEMMA RememberClosedCarried ==
  ASSUME NEW s \in Session, Orderly(s), NEW id \in StreamIds, ~s.streams[id].live
  PROVE  /\ Carried(s, RememberClosed(s, id), {id})
         /\ RememberClosed(s, id).streams = s.streams
         /\ WasClosed(RememberClosed(s, id), id)
         /\ RememberClosed(s, id).lanes[id].present <=> s.lanes[id].present
<1>. DEFINE t == RememberClosed(s, id)
<1>1. /\ Tombs(t) /\ t.streams = s.streams /\ WasClosed(t, id)
      /\ \A o : WasClosed(t, o) => WasClosed(s, o) \/ o = id
      /\ \A o : WasClosed(s, o) =>
           WasClosed(t, o) \/ (TombstonesFull(s) /\ o = Head(s.closedOrder))
  BY RememberTombs, Zenon DEF Orderly
<1>2. CASE WasClosed(s, id)
  <2>1. t = s
    BY <1>2, Zenon DEF RememberClosed
  <2>2. Carried(s, s, {id})
    <3>1. Carried(s, s, {}) /\ {} \subseteq {id}
      BY BudgetCarried
    <3>. QED
      BY <3>1, CarriedWider
  <2>. QED
    BY <1>2, <2>1, <2>2, Zenon
<1>3. CASE ~WasClosed(s, id)
  <2>. DEFINE old == Head(s.closedOrder)
              full == TombstonesFull(s)
  <2>1. /\ t.closed = s.closed /\ t.streams = s.streams
        /\ \E kept \in Session :
             /\ kept = IF full THEN DropLane(s, old) ELSE s
             /\ \A o \in LaneIds :
                  t.lanes[o] = IF CarrierLanes /\ o = id /\ kept.lanes[id].present
                               THEN [kept.lanes[id] EXCEPT !.notify = TRUE]
                               ELSE kept.lanes[o]
    BY <1>3, RememberFields, Zenon
  <2>2. full => old \in StreamIds /\ WasClosed(s, old) /\ ~s.streams[old].live
    <3>. SUFFICES ASSUME full
                  PROVE  old \in StreamIds /\ WasClosed(s, old) /\ ~s.streams[old].live
      OBVIOUS
    <3>1. s.closedOrder \in Seq(StreamIds) /\ Len(s.closedOrder) # 0
      BY SessionFields, LimitAssumption DEF TombstonesFull
    <3>2. 1 \in 1 .. Len(s.closedOrder) /\ old = s.closedOrder[1] /\ old \in StreamIds
      BY <3>1
    <3>. HIDE DEF old
    <3>. QED
      BY <3>2, Zenon DEF WasClosed, Orderly, Tombs
  <2>3. full => old # id
    BY <1>3, <2>2
  <2>. HIDE DEF t, old, full
  <2>4. PICK kept \in Session :
          /\ kept = IF full THEN DropLane(s, old) ELSE s
          /\ \A o \in LaneIds :
               t.lanes[o] = IF CarrierLanes /\ o = id /\ kept.lanes[id].present
                            THEN [kept.lanes[id] EXCEPT !.notify = TRUE]
                            ELSE kept.lanes[o]
    BY <2>1, Zenon
  <2>5. \A o \in LaneIds : kept.lanes[o] = IF full /\ o = old /\ s.lanes[o].present
                                        THEN NoLane ELSE s.lanes[o]
    <3>1. full => \A o \in LaneIds : kept.lanes[o] = IF o = old /\ s.lanes[old].present
                                                 THEN NoLane ELSE s.lanes[o]
      BY <2>4, DropLaneFields, LanesAreStreams
    <3>. QED
      BY <2>4, <3>1
  <2>6. kept.lanes[id] \in Lane /\ id \in LaneIds
    BY LanesAreStreams, SessionFields
  <2>. DEFINE told == [kept.lanes[id] EXCEPT !.notify = TRUE]
  <2>7. /\ told.present = kept.lanes[id].present
        /\ told.lastUpSequence = kept.lanes[id].lastUpSequence
        /\ told.owner = kept.lanes[id].owner /\ told.downCursor = kept.lanes[id].downCursor
        /\ told.unacked = kept.lanes[id].unacked /\ told.frames = kept.lanes[id].frames
        /\ told.notify
    BY <2>6 DEF Lane
  <2>. HIDE DEF told
  <2>8. \A o \in LaneIds :
          t.lanes[o] = IF full /\ o = old /\ s.lanes[o].present THEN NoLane
                       ELSE IF o = id /\ s.lanes[id].present THEN told
                       ELSE s.lanes[o]
    BY <2>3, <2>4, <2>5, <2>6, LanesAreStreams DEF told
  <2>9. kept.lanes[id] = s.lanes[id]
    BY <2>3, <2>5, <2>6
  <2>10. Orderly(t)
    BY <1>1, <2>7, <2>8, <2>9 DEF Orderly
  <2>11. ASSUME NEW l \in LaneIds PROVE LaneCarried(s, t, {id}, l)
    <3>1. CASE full /\ l = old /\ s.lanes[l].present
      BY <2>1, <2>2, <2>8, <3>1 DEF LaneCarried, NoLane
    <3>2. CASE ~(full /\ l = old /\ s.lanes[l].present) /\ l = id /\ s.lanes[id].present
      <4>1. LaneKept(s, t, l) /\ t.lanes[l].present
        BY <2>7, <2>8, <2>9, <3>2 DEF LaneKept
      <4>. QED
        BY <3>2, <4>1 DEF LaneCarried
    <3>3. CASE ~(full /\ l = old /\ s.lanes[l].present) /\ ~(l = id /\ s.lanes[id].present)
      <4>1. t.lanes[l] = s.lanes[l]
        BY <2>8, <3>3
      <4>2. s.lanes[l].present => (StreamOver(t, l) => StreamOver(s, l))
        BY <1>1, <2>1, <3>3 DEF StreamOver
      <4>3. s.lanes[l].present => LaneKept(s, t, l)
        BY <2>1, <4>1, <4>2 DEF LaneKept
      <4>. QED
        BY <4>1, <4>3 DEF LaneCarried
    <3>. QED
      BY <3>1, <3>2, <3>3
  <2>12. ASSUME NEW i \in StreamIds PROVE StreamCarried(s, t, {id}, i)
    <3>1. i \in LaneIds
      BY LanesAreStreams
    <3>2. WasClosed(s, i) => WasClosed(t, i) \/ ~t.lanes[i].present
      BY <1>1, <2>8, <3>1 DEF NoLane, old, full
    <3>3. t.lanes[i].frames # <<>> => s.lanes[i].frames # <<>>
      BY <2>7, <2>8, <2>9, <3>1 DEF NoLane
    <3>. QED
      BY <1>1, <3>2, <3>3 DEF StreamCarried
  <2>13. t.lanes[id].present <=> s.lanes[id].present
    BY <2>3, <2>6, <2>7, <2>8, <2>9
  <2>14. Carried(s, t, {id})
    BY <2>1, <2>10, <2>11, <2>12 DEF Carried
  <2>. QED
    BY <1>1, <2>13, <2>14 DEF t
<1>. QED
  BY <1>2, <1>3

(* The end of a stream.                                                    *)
LEMMA EndStreamCarried ==
  ASSUME NEW s \in Session, Orderly(s), NEW id \in StreamIds, s.streams[id].live
  PROVE  /\ Carried(s, EndStream(s, id), {id})
         /\ ~EndStream(s, id).streams[id].live
         /\ WasClosed(EndStream(s, id), id)
         /\ EndStream(s, id).lanes[id].present <=> s.lanes[id].present
<1>. DEFINE r == ReleasePending(s, s.streams[id].pendingWriteCost,
                                   s.streams[id].pendingWriteItems)
            d == DropStream(s, id)
            t == RememberClosed(d, id)
<1>1. d \in Session
  BY DropStreamType
<1>2. /\ d.closed = s.closed /\ d.closedOrder = s.closedOrder /\ d.lanes = s.lanes
      /\ \A i \in StreamIds : d.streams[i].live <=> s.streams[i].live /\ i # id
  <2>1. /\ r.closed = s.closed /\ r.closedOrder = s.closedOrder /\ r.lanes = s.lanes
        /\ r.streams = s.streams /\ r \in Session
    <3>1. s.streams[id].pendingWriteCost \in Int /\ s.streams[id].pendingWriteItems \in Int
      BY SessionFields, StreamFields
    <3>2. r \in Session
      BY <3>1, ReleasePendingType, Zenon
    <3>. QED
      BY <3>2 DEF ReleasePending, Session
  <2>2. d = [r EXCEPT !.streams[id] = NoStream]
    BY Zenon DEF DropStream
  <2>. HIDE DEF r, d
  <2>3. r.streams \in [StreamIds -> Stream]
    BY <2>1, SessionFields
  <2>4. d.closed = r.closed /\ d.closedOrder = r.closedOrder /\ d.lanes = r.lanes
        /\ d.streams = [r.streams EXCEPT ![id] = NoStream]
    BY <2>1, <2>2 DEF Session
  <2>. QED
    BY <2>1, <2>3, <2>4 DEF NoStream
<1>. HIDE DEF d
<1>3. Orderly(d)
  <2>1. s.closedOrder \in Seq(StreamIds)
    BY SessionFields
  <2>2. \A k \in 1 .. Len(s.closedOrder) : s.closedOrder[k] \in StreamIds
    BY <2>1
  <2>3. Tombs(d)
    BY <1>2, <2>2 DEF Orderly, Tombs
  <2>. QED
    BY <1>2, <2>3 DEF Orderly
<1>4. \A i : WasClosed(d, i) <=> WasClosed(s, i)
  BY <1>2, Zenon DEF WasClosed
<1>5. ~WasClosed(s, id)
  BY Zenon DEF WasClosed, Orderly, Tombs
<1>6. /\ Carried(d, t, {id}) /\ t.streams = d.streams /\ WasClosed(t, id)
      /\ t.lanes[id].present <=> d.lanes[id].present
  BY <1>1, <1>2, <1>3, RememberClosedCarried
<1>7. EndStream(s, id) = t
  BY Zenon DEF EndStream, d
<1>. HIDE DEF t
<1>8. ASSUME NEW l \in LaneIds PROVE LaneCarried(s, t, {id}, l)
  <2>1. LaneCarried(d, t, {id}, l)
    BY <1>6 DEF Carried
  <2>2. StreamOver(d, l) => l = id \/ StreamOver(s, l)
    BY <1>2, <1>4, LanesAreStreams DEF StreamOver
  <2>3. ~StreamOver(d, id)
    BY <1>4, <1>5 DEF StreamOver
  <2>4. LaneKept(d, t, l) => LaneKept(s, t, l)
    BY <1>2, <2>2, <2>3 DEF LaneKept
  <2>. QED
    BY <1>2, <1>4, <2>1, <2>4 DEF LaneCarried
<1>9. ASSUME NEW i \in StreamIds PROVE StreamCarried(s, t, {id}, i)
  <2>1. StreamCarried(d, t, {id}, i)
    BY <1>6 DEF Carried
  <2>. QED
    BY <1>2, <1>4, <1>6, <2>1 DEF StreamCarried
<1>10. Carried(s, t, {id})
  BY <1>2, <1>6, <1>8, <1>9 DEF Carried
<1>. QED
  BY <1>2, <1>6, <1>7, <1>10

LEMMA CloseSessionCarried ==
  ASSUME NEW s \in Session, Orderly(s)
  PROVE  Carried(s, CloseSession(s), {})
<1>1. CASE s.closed
  BY <1>1, BudgetCarried, Zenon DEF CloseSession
<1>2. CASE ~s.closed
  <2>. DEFINE t == CloseSession(s)
  <2>1. /\ t.closed /\ t.closedOrder = s.closedOrder
        /\ \A i \in StreamIds : t.streams[i] = NoStream
        /\ \A l \in LaneIds : t.lanes[l] = IF s.lanes[l].present THEN ClearedLane(s.lanes[l])
                                                              ELSE NoLane
    BY <1>2 DEF CloseSession, Session
  <2>. HIDE DEF t
  <2>2. \A l \in LaneIds :
          LET lane == s.lanes[l]
              new == ClearedLane(lane)
          IN  /\ new.present = lane.present /\ new.lastUpSequence = lane.lastUpSequence
              /\ new.owner = lane.owner /\ new.downCursor = lane.downCursor
              /\ new.unacked = <<>> /\ new.frames = <<>> /\ new.notify
    BY SessionFields DEF ClearedLane, Lane
  <2>3. \A i : WasClosed(t, i) <=> WasClosed(s, i)
    BY <2>1, Zenon DEF WasClosed
  <2>4. Orderly(t)
    <3>1. \A k \in 1 .. Len(s.closedOrder) : s.closedOrder[k] \in StreamIds
      BY SessionFields
    <3>2. Tombs(t)
      BY <2>1, <3>1 DEF Orderly, Tombs, NoStream
    <3>3. \A l \in LaneIds : t.lanes[l].present \/ t.lanes[l] = NoLane
      BY <2>1, <2>2
    <3>. QED
      BY <3>2, <3>3 DEF Orderly
  <2>5. ASSUME NEW l \in LaneIds PROVE LaneCarried(s, t, {}, l)
    <3>1. CASE s.lanes[l].present
      <4>1. t.lanes[l].present /\ LaneKept(s, t, l)
        BY <2>1, <2>2, <3>1 DEF LaneKept
      <4>. QED
        BY <3>1, <4>1 DEF LaneCarried
    <3>2. CASE ~s.lanes[l].present
      BY <2>1, <3>2 DEF LaneCarried, NoLane
    <3>. QED
      BY <3>1, <3>2
  <2>6. ASSUME NEW i \in StreamIds PROVE StreamCarried(s, t, {}, i)
    <3>1. t.lanes[i].frames = <<>>
      BY <2>1, <2>2, LanesAreStreams DEF NoLane
    <3>. QED
      BY <2>1, <2>3, <3>1 DEF StreamCarried, NoStream
  <2>7. Carried(s, t, {})
    BY <2>1, <2>4, <2>5, <2>6 DEF Carried
  <2>. QED
    BY <2>7 DEF t
<1>. QED
  BY <1>1, <1>2

(* The end of a socket takes its stream and its lane.                      *)
LEMMA FailLaneCarried ==
  ASSUME NEW s \in Session, Orderly(s), NEW l \in LaneIds
  PROVE  /\ OverSockets => Carried(s, ReleaseLane(s, l), LiveStreams(s))
         /\ Carried(s, FailLane(s, l), LiveStreams(s))
<1>1. ASSUME OverSockets PROVE Carried(s, ReleaseLane(s, l), LiveStreams(s))
  <2>1. CASE ~s.lanes[l].present
    <3>1. ReleaseLane(s, l) = s
      BY <2>1 DEF ReleaseLane
    <3>2. Carried(s, s, {})
      BY BudgetCarried
    <3>. QED
      BY <3>1, <3>2, CarriedWider
  <2>2. CASE s.lanes[l].present /\ l \notin LiveStreams(s)
    <3>1. ReleaseLane(s, l) = DropLane(s, l)
      BY <2>2, Zenon DEF ReleaseLane
    <3>2. l \in StreamIds => ~s.streams[l].live
      BY <2>2 DEF LiveStreams
    <3>3. Carried(s, DropLane(s, l), {})
      BY <1>1, <3>2, DropLaneCarried, Zenon
    <3>. QED
      BY <3>1, <3>3, CarriedWider
  <2>3. CASE s.lanes[l].present /\ l \in LiveStreams(s)
    <3>. DEFINE e == EndStream(s, l)
                c == CancelBackend(e, {l})
    <3>1. ReleaseLane(s, l) = DropLane(c, l)
      BY <2>3, Zenon DEF ReleaseLane
    <3>2. l \in StreamIds /\ s.streams[l].live
      BY <2>3 DEF LiveStreams
    <3>3. e \in Session
      BY <3>2, EndStreamType
    <3>4. c \in Session /\ c.streams = e.streams
      BY <3>2, <3>3, CancelBackendType DEF CancelBackend, Session
    <3>5. Carried(s, e, {l}) /\ ~e.streams[l].live
      BY <3>2, EndStreamCarried, Zenon
    <3>6. Orderly(e)
      BY <3>5 DEF Carried
    <3>. HIDE DEF e
    <3>7. Carried(e, c, {})
      BY <3>3, <3>6, BudgetCarried, Zenon
    <3>8. Orderly(c)
      BY <3>7 DEF Carried
    <3>. HIDE DEF c
    <3>9. Carried(c, DropLane(c, l), {})
      BY <1>1, <3>4, <3>5, <3>8, DropLaneCarried
    <3>10. Carried(e, DropLane(c, l), {})
      BY <3>7, <3>9, CarriedTransitive
    <3>11. Carried(s, DropLane(c, l), LiveStreams(s))
      BY <2>3, <3>5, <3>10, CarriedTransitive
    <3>. QED
      BY <3>1, <3>11
  <2>. QED
    BY <2>1, <2>2, <2>3
<1>2. Carried(s, CloseSession(s), LiveStreams(s))
  <2>1. Carried(s, CloseSession(s), {})
    BY CloseSessionCarried
  <2>. QED
    BY <2>1, CarriedWider
<1>. QED
  BY <1>1, <1>2, Zenon DEF FailLane

LEMMA ClosedByBackendCarried ==
  ASSUME NEW s \in Session, Orderly(s), NEW id \in StreamIds, s.streams[id].live, NEW pool
  PROVE  Carried(s, ClosedByBackend(s, id, pool), {id})
<1>. DEFINE e == EndStream(s, id)
            f == [type |-> "CLOSE", id |-> id, n |-> 0]
<1>1. e \in Session /\ Carried(s, e, {id})
  BY EndStreamType, EndStreamCarried
<1>2. Orderly(e)
  BY <1>1 DEF Carried
<1>3. ClosedByBackend(s, id, pool) = IF CanQueue(e, f, pool) THEN QueueFrame(e, f)
                                                            ELSE CloseSession(e)
  BY Zenon DEF ClosedByBackend
<1>. HIDE DEF e
<1>4. CASE CanQueue(e, f, pool)
  <2>1. e.lanes[f.id].present /\ f.id = id
    BY <1>4, LanesAreStreams DEF CanQueue
  <2>2. Carried(e, QueueFrame(e, f), {id})
    BY <1>1, <1>2, <2>1, QueueFrameCarried
  <2>. HIDE DEF f
  <2>3. Carried(s, QueueFrame(e, f), {id})
    BY <1>1, <2>2, CarriedTransitive
  <2>. QED
    BY <1>3, <1>4, <2>3
<1>5. CASE ~CanQueue(e, f, pool)
  <2>1. Carried(e, CloseSession(e), {})
    BY <1>1, <1>2, CloseSessionCarried
  <2>2. Carried(s, CloseSession(e), {id})
    BY <1>1, <2>1, CarriedTransitive
  <2>. HIDE DEF f
  <2>. QED
    BY <1>3, <1>5, <2>2
<1>. QED
  BY <1>4, <1>5

LEMMA AfterWriteCarried ==
  ASSUME NEW s \in Session, Orderly(s), NEW id \in StreamIds, NEW k \in Nat, NEW pool
  PROVE  Carried(s, AfterWrite(s, id, k, pool), LiveStreams(s))
<1>. DEFINE d == Drain(s, id, k)
            f == [type |-> "WINDOW", id |-> id, n |-> k]
<1>1. Carried(s, s, LiveStreams(s))
  BY BudgetCarried, CarriedWider
<1>2. CASE CanDrain(s, id, k)
  <2>1. d \in Session
    BY <1>2, DrainType
  <2>2. /\ d.closed = s.closed /\ d.closedOrder = s.closedOrder /\ d.lanes = s.lanes
        /\ \A i \in StreamIds : d.streams[i].live <=> s.streams[i].live
    BY SessionFields, SMTT(60) DEF Drain, ReleasePending, Session, Stream
  <2>3. s.closedOrder \in Seq(StreamIds) /\ id \in LiveStreams(s)
    BY <1>2, SessionFields DEF CanDrain, LiveStreams
  <2>. HIDE DEF d
  <2>4. Carried(s, d, {})
    BY <2>2, <2>3, SameLanesCarried
  <2>5. Orderly(d)
    BY <2>4 DEF Carried
  <2>6. CASE Drained(s, id, k, pool)
    <3>1. AfterWrite(s, id, k, pool) = QueueFrame(d, f)
      BY <1>2, <2>6, Zenon DEF AfterWrite, d
    <3>2. d.lanes[f.id].present /\ f.id = id
      BY <2>6, LanesAreStreams DEF Drained, CanQueue, d
    <3>3. Carried(d, QueueFrame(d, f), {id})
      BY <2>1, <2>5, <3>2, QueueFrameCarried
    <3>. HIDE DEF f
    <3>4. Carried(s, QueueFrame(d, f), LiveStreams(s))
      BY <2>3, <2>4, <3>3, CarriedTransitive
    <3>. QED
      BY <3>1, <3>4
  <2>7. CASE ~Drained(s, id, k, pool)
    <3>1. AfterWrite(s, id, k, pool) = d
      BY <1>2, <2>7, Zenon DEF AfterWrite, d
    <3>. QED
      BY <2>4, <3>1, CarriedWider
  <2>. QED
    BY <2>6, <2>7
<1>3. CASE ~CanDrain(s, id, k)
  <2>1. AfterWrite(s, id, k, pool) = s
    BY <1>3, Zenon DEF AfterWrite
  <2>. QED
    BY <1>1, <2>1
<1>. QED
  BY <1>2, <1>3

LEMMA CancelCarried ==
  ASSUME NEW s, NEW t \in Session, NEW ids, Carried(s, t, ids), NEW some
  PROVE  Carried(s, CancelBackend(t, some), ids)
<1>1. Orderly(t)
  BY DEF Carried
<1>2. Carried(t, CancelBackend(t, some), {})
  BY <1>1, BudgetCarried, Zenon
<1>. QED
  BY <1>2, CarriedTransitive

(* What the goroutines of a backend change in the stream itself.           *)
LEMMA StreamUpdatesCarried ==
  ASSUME NEW s \in Session, Orderly(s), NEW id \in StreamIds
  PROVE  /\ \A x : Carried(s, [s EXCEPT !.streams[id].writes = x], {})
         /\ \A x : Carried(s, [s EXCEPT !.streams[id].writeNotify = x], {})
         /\ \A x, w : Carried(s, [s EXCEPT !.streams[id].creditNotify = x,
                                          !.budgetWaiters = w], {})
         /\ \A k : Carried(s, SpendCredit(s, id, k), {})
         /\ Carried(s, FinishWrite(s, id), {})
<1>1. s.closedOrder \in Seq(StreamIds)
  BY SessionFields
<1>2. s.streams \in [StreamIds -> Stream]
  BY SessionFields
<1>. DEFINE Same(t) == /\ t.closed = s.closed /\ t.closedOrder = s.closedOrder
                       /\ t.lanes = s.lanes
                       /\ \A i \in StreamIds : t.streams[i].live <=> s.streams[i].live
<1>3. ASSUME NEW t, Same(t) PROVE Carried(s, t, {})
  BY <1>1, <1>3, SameLanesCarried
<1>4. \A x : Same([s EXCEPT !.streams[id].writes = x])
  BY <1>2 DEF Session, Stream
<1>5. \A x : Same([s EXCEPT !.streams[id].writeNotify = x])
  BY <1>2 DEF Session, Stream
<1>6. \A x, w : Same([s EXCEPT !.streams[id].creditNotify = x, !.budgetWaiters = w])
  BY <1>2 DEF Session, Stream
<1>7. \A k : Same(SpendCredit(s, id, k))
  BY <1>2 DEF SpendCredit, Session, Stream
<1>8. Same(FinishWrite(s, id))
  BY <1>2 DEF FinishWrite, ReleasePending, Session, Stream
<1>. HIDE DEF Same
<1>. QED
  BY <1>3, <1>4, <1>5, <1>6, <1>7, <1>8

LEMMA BackendCarried ==
  ASSUME BackendTypeOK, Orderly(ses), NEW id \in StreamIds, BackendStep(id)
  PROVE  Carried(ses, ses', LiveStreams(ses))
<1>. DEFINE L == LiveStreams(ses)
<1>1. ses \in Session /\ backends \in [StreamIds -> BackendState]
  BY DEF BackendTypeOK
<1>2. Carried(ses, ses, {}) /\ Carried(ses, ses, L)
  BY <1>1, BudgetCarried, CarriedWider
<1>3. ASSUME NEW t \in Session, Carried(ses, t, L)
      PROVE  Carried(ses, CancelBackend(t, {id}), L)
  BY <1>3, CancelCarried
<1>4. ASSUME NEW t, Carried(ses, t, {}) PROVE Carried(ses, t, L)
  BY <1>4, CarriedWider
<1>5. Live(id) => id \in L
  BY DEF Live, LiveStreams
<1>6. backends[id] \in BackendState /\ backends[id].inHand \in Nat
      /\ 0 .. backends[id].inHand - 1 \subseteq Nat
  BY <1>1, BackendFields
<1>. SUFFICES Carried(ses, ses', L)
  OBVIOUS
<1>. HIDE DEF L
<1>7. CASE Dialled(id) \/ DialFailed(id) \/ LoopsReturned(id) \/ BudgetWakesReader(id)
  BY <1>2, <1>7 DEF Dialled, DialFailed, LoopsReturned, BudgetWakesReader
<1>8. CASE BackendClosed(id)
  <2>1. PICK pool : ses' = CancelBackend(IF Live(id) THEN ClosedByBackend(ses, id, pool)
                                                     ELSE ses, {id})
    BY <1>8 DEF BackendClosed
  <2>2. CASE Live(id)
    <3>1. ClosedByBackend(ses, id, pool) \in Session
      BY <1>1, ClosedByBackendType
    <3>2. Carried(ses, ClosedByBackend(ses, id, pool), {id})
      BY <1>1, <2>2, ClosedByBackendCarried DEF Live
    <3>3. Carried(ses, ClosedByBackend(ses, id, pool), L)
      BY <1>5, <2>2, <3>2, CarriedWider
    <3>. QED
      BY <1>3, <2>1, <2>2, <3>1, <3>3
  <2>3. CASE ~Live(id)
    BY <1>1, <1>2, <1>3, <2>1, <2>3
  <2>. QED
    BY <2>2, <2>3
<1>9. CASE NextWrite(id)
  <2>1. Carried(ses, [ses EXCEPT !.streams[id].writes = Tail(@)], {})
    BY <1>1, StreamUpdatesCarried
  <2>. QED
    BY <1>1, <1>2, <1>3, <1>4, <1>9, <2>1 DEF NextWrite
<1>10. CASE WriterWakes(id)
  BY <1>1, <1>4, <1>10, StreamUpdatesCarried DEF WriterWakes
<1>11. CASE WriterStops(id) \/ ReadEnds(id)
  BY <1>1, <1>2, <1>3, <1>11 DEF WriterStops, ReadEnds
<1>12. CASE Write(id)
  <2>1. PICK pool \in PoolAnswers("control") :
          ses' \in {AfterWrite(ses, id, backends[id].inHand, pool),
                    CancelBackend(AfterWrite(ses, id, backends[id].inHand, pool), {id})}
    BY <1>12 DEF Write
  <2>2. Carried(ses, AfterWrite(ses, id, backends[id].inHand, pool), L)
    BY <1>1, <1>6, AfterWriteCarried DEF L
  <2>3. AfterWrite(ses, id, backends[id].inHand, pool) \in Session
    BY <1>1, <1>6, AfterWriteType, PoolAnswersType
  <2>. QED
    BY <1>3, <2>1, <2>2, <2>3
<1>13. CASE WriteFails(id)
  <2>1. PICK pool \in PoolAnswers("control"), k \in 0 .. backends[id].inHand - 1 :
          ses' = CancelBackend(AfterWrite(ses, id, k, pool), {id})
    BY <1>13 DEF WriteFails
  <2>2. Carried(ses, AfterWrite(ses, id, k, pool), L)
    BY <1>1, <1>6, AfterWriteCarried DEF L
  <2>3. AfterWrite(ses, id, k, pool) \in Session
    BY <1>1, <1>6, AfterWriteType, PoolAnswersType
  <2>. QED
    BY <1>3, <2>1, <2>2, <2>3
<1>14. CASE WriteFinished(id)
  <2>1. Carried(ses, FinishWrite(ses, id), {})
    BY <1>1, StreamUpdatesCarried
  <2>. QED
    BY <1>1, <1>2, <1>3, <1>4, <1>14, <2>1 DEF WriteFinished
<1>15. CASE NextRead(id)
  <2>1. Carried(ses, [ses EXCEPT !.budgetWaiters = @ \cup {id}], {})
    BY <1>1, BudgetCarried
  <2>. QED
    BY <1>1, <1>2, <1>3, <1>4, <1>15, <2>1 DEF NextRead
<1>16. CASE CreditWakesReader(id)
  BY <1>1, <1>4, <1>16, StreamUpdatesCarried DEF CreditWakesReader
<1>17. CASE ReaderStops(id)
  <2>. DEFINE t == [ses EXCEPT !.budgetWaiters = @ \ {id}]
  <2>1. Carried(ses, t, {})
    BY <1>1, BudgetCarried
  <2>2. t \in Session
    <3>1. ses.budgetWaiters \ {id} \in SUBSET StreamIds
      BY <1>1, SessionFields
    <3>. QED
      BY <1>1, <3>1, SessionUpdates
  <2>3. ses' = CancelBackend(t, {id})
    BY <1>17 DEF ReaderStops
  <2>. HIDE DEF t
  <2>. QED
    BY <1>3, <1>4, <2>1, <2>2, <2>3
<1>18. CASE Read(id)
  <2>1. PICK pool \in PoolAnswers("down"), k \in 1 .. backends[id].allowance :
          LET frame == [type |-> "DATA", id |-> id, n |-> k]
              spent == SpendCredit(ses, id, k)
          IN  \/ ses' = CancelBackend(ses, {id})
              \/ /\ CanTakeData(ses, id, k)
                 /\ CanQueue(spent, frame, pool) /\ ses' = QueueFrame(spent, frame)
              \/ CanTakeData(ses, id, k) /\ ses' = CancelBackend(spent, {id})
    BY <1>18 DEF Read
  <2>. DEFINE frame == [type |-> "DATA", id |-> id, n |-> k]
              spent == SpendCredit(ses, id, k)
  <2>2. Carried(ses, spent, {})
    BY <1>1, StreamUpdatesCarried
  <2>3. CanTakeData(ses, id, k) => spent \in Session /\ id \in L
    <3>. SUFFICES ASSUME CanTakeData(ses, id, k) PROVE spent \in Session /\ id \in L
      OBVIOUS
    <3>1. k \in Nat /\ ses.streams[id].sendCredit \in 0 .. MaxUint32
      BY <1>1, SessionFields, StreamFields
    <3>2. ses.streams[id].sendCredit - k \in 0 .. MaxUint32
      BY <3>1, FrameAssumption DEF CanTakeData
    <3>3. spent \in Session
      BY <1>1, <3>2, SessionUpdates DEF SpendCredit
    <3>. QED
      BY <1>5, <3>3 DEF CanTakeData, Live
  <2>. HIDE DEF spent
  <2>4. Orderly(spent)
    BY <2>2 DEF Carried
  <2>5. CASE ses' = CancelBackend(ses, {id})
    BY <1>1, <1>2, <1>3, <2>5
  <2>6. CASE CanTakeData(ses, id, k) /\ CanQueue(spent, frame, pool)
             /\ ses' = QueueFrame(spent, frame)
    <3>1. spent.lanes[frame.id].present /\ frame.id = id
      BY <2>6, LanesAreStreams DEF CanQueue
    <3>2. Carried(spent, QueueFrame(spent, frame), {id})
      BY <2>3, <2>4, <2>6, <3>1, QueueFrameCarried
    <3>. HIDE DEF frame
    <3>. QED
      BY <2>2, <2>3, <2>6, <3>2, CarriedTransitive
  <2>7. CASE CanTakeData(ses, id, k) /\ ses' = CancelBackend(spent, {id})
    BY <1>3, <1>4, <2>2, <2>3, <2>7
  <2>. QED
    BY <2>1, <2>5, <2>6, <2>7 DEF spent
<1>. QED
  BY <1>7, <1>8, <1>9, <1>10, <1>11, <1>12, <1>13, <1>14, <1>15, <1>16, <1>17, <1>18
     DEF BackendStep

-----------------------------------------------------------------------------
(* A body of a lane.  Its OPEN can only be its first frame, and every      *)
(* other frame finds a stream, or the tombstone of one.                    *)
Known(s, l) == s.streams[l].live \/ WasClosed(s, l)

LEMMA BodyOrder ==
  ASSUME NEW s, NEW l \in StreamIds, NEW body \in Bodies \cup {<<>>},
         OfLane(body, l), ValidBatch(s, body)
  PROVE  /\ Len(body) \in Nat \ {0}
         /\ \A k \in 1 .. Len(body) :
              body[k] \in Frame /\ ValidClientShape(body[k]) /\ body[k].id = l /\ l # 0
              /\ PayloadLength(body[k]) <= MaxFramePayload
         /\ body[1].type = "OPEN" => ~Known(s, l)
         /\ body[1].type # "OPEN" => Known(s, l)
         /\ \A k \in 1 .. Len(body) : body[k].type = "OPEN" => k = 1
<1>1. WellFormedBody(body) /\ \A k \in 1 .. Len(body) : body[k].id = l
  BY DEF OfLane
<1>2. /\ Len(body) \in Nat \ {0}
      /\ \A k \in 1 .. Len(body) :
           /\ body[k] \in Frame /\ ValidClientShape(body[k])
           /\ PayloadLength(body[k]) <= MaxFramePayload
  BY <1>1, WellFormed
<1>3. l # 0
  BY LanesAreStreams
<1>4. 1 \in 1 .. Len(body) /\ \A j : j \notin 1 .. 1 - 1
  BY <1>2
<1>5. body[1].id = l /\ ValidFrame(s, body, 1)
  BY <1>1, <1>4 DEF ValidBatch
<1>6. body[1].type = "OPEN" => ~Known(s, l)
  BY <1>3, <1>5 DEF ValidFrame, OpenBefore, ClosedBefore, Known
<1>7. body[1].type # "OPEN" => Known(s, l)
  BY <1>3, <1>4, <1>5 DEF ValidFrame, OpenBefore, ClosedBefore, Known
<1>8. ASSUME NEW k \in 1 .. Len(body), body[k].type = "OPEN", k # 1 PROVE FALSE
  <2>1. 1 \in 1 .. k - 1
    BY <1>2, <1>8
  <2>2. body[k].id = l /\ ValidFrame(s, body, k)
    BY <1>1 DEF ValidBatch
  <2>3. ~OpenBefore(s, body, k) /\ ~ClosedBefore(s, body, k)
    BY <1>3, <1>8, <2>2 DEF ValidFrame
  <2>4. ~Known(s, l) /\ body[1].type # "OPEN"
    BY <1>5, <2>1, <2>2, <2>3 DEF OpenBefore, ClosedBefore, Known
  <2>. QED
    BY <1>7, <2>4
<1>. QED
  BY <1>1, <1>2, <1>3, <1>6, <1>7, <1>8

(* What a frame of lane l leaves, of a session that carried the lane       *)
(* through the frames before it.                                           *)
FrameCarried(b, c, l) ==
  /\ c \in BatchType
  /\ Carried(b.ses, c.ses, {l})
  /\ c.ses.lanes[l].present
  /\ Known(c.ses, l)
  /\ c.panics = b.panics
  /\ c.opened \subseteq b.opened \cup {l} /\ c.closed \subseteq b.closed \cup {l}

LEMMA OpenAppliedCarried ==
  ASSUME NEW b \in BatchType, Orderly(b.ses), NEW l \in StreamIds, b.ses.lanes[l].present,
         ~Known(b.ses, l), NEW refused, NEW pool
  PROVE  FrameCarried(b, OpenApplied(b, l, refused, pool), l)
<1>. DEFINE c == OpenApplied(b, l, refused, pool)
            s == b.ses
            remembered == RememberClosed(s, l)
            frame == [type |-> "CLOSE", id |-> l, n |-> 0]
<1>1. s \in Session /\ c \in BatchType /\ l \in LaneIds
  BY BatchFields, OpenAppliedType, LanesAreStreams
<1>2. CASE ~(TooManyStreams(s) \/ refused)
  <2>. DEFINE o == [s EXCEPT !.streams[l] = OpenedStream]
  <2>1. c = [b EXCEPT !.ses = o, !.opened = {l}]
    BY <1>1, <1>2 DEF OpenApplied, BatchType
  <2>2. /\ o.closed = s.closed /\ o.closedOrder = s.closedOrder /\ o.lanes = s.lanes
        /\ \A i \in StreamIds : o.streams[i].live <=> s.streams[i].live \/ i = l
    BY <1>1, SessionFields DEF Session, OpenedStream, NoStream
  <2>3. c.ses = o /\ c.panics = b.panics /\ c.opened = {l} /\ c.closed = b.closed
    BY <2>1 DEF BatchType
  <2>. HIDE DEF o, c
  <2>4. \A i : WasClosed(o, i) <=> WasClosed(s, i)
    BY <2>2, Zenon DEF WasClosed
  <2>5. Orderly(o)
    <3>1. \A k \in 1 .. Len(s.closedOrder) : s.closedOrder[k] \in StreamIds
      BY <1>1, SessionFields
    <3>2. \A k \in 1 .. Len(s.closedOrder) : s.closedOrder[k] # l
      BY Zenon DEF Known, WasClosed
    <3>3. Tombs(o)
      BY <2>2, <3>1, <3>2 DEF Orderly, Tombs
    <3>. QED
      BY <2>2, <3>3 DEF Orderly
  <2>6. ASSUME NEW i \in LaneIds PROVE LaneCarried(s, o, {l}, i)
    <3>1. StreamOver(o, i) => StreamOver(s, i)
      BY <2>2, <2>4, LanesAreStreams DEF StreamOver
    <3>. QED
      BY <2>2, <3>1 DEF LaneCarried, LaneKept
  <2>7. ASSUME NEW i \in StreamIds PROVE StreamCarried(s, o, {l}, i)
    BY <2>2, <2>4 DEF StreamCarried
  <2>8. Carried(s, o, {l})
    BY <2>2, <2>5, <2>6, <2>7 DEF Carried
  <2>9. FrameCarried(b, c, l)
    BY <1>1, <2>2, <2>3, <2>8 DEF FrameCarried, Known
  <2>. QED
    BY <2>9 DEF c
<1>3. CASE TooManyStreams(s) \/ refused
  <2>1. /\ Carried(s, remembered, {l}) /\ WasClosed(remembered, l)
        /\ remembered.lanes[l].present
    BY <1>1, RememberClosedCarried DEF Known
  <2>2. remembered \in Session /\ Orderly(remembered)
    BY <1>1, <2>1, RememberClosedType DEF Carried
  <2>3. \/ c = [b EXCEPT !.ses = QueueFrame(remembered, frame)]
        \/ c = [b EXCEPT !.ses = remembered, !.applied = FALSE]
    BY <1>3, Zenon DEF OpenApplied
  <2>. HIDE DEF c, remembered, s
  <2>4. c.ses \in {QueueFrame(remembered, frame), remembered}
        /\ c.panics = b.panics /\ c.opened = b.opened /\ c.closed = b.closed
    BY <2>3 DEF BatchType
  <2>5. LET q == QueueFrame(remembered, frame)
        IN  Carried(remembered, q, {l}) /\ q.closedOrder = remembered.closedOrder
            /\ q.lanes[l].present
    BY <2>1, <2>2, QueueFrameCarried
  <2>6. Carried(s, QueueFrame(remembered, frame), {l})
    <3>1. Carried(remembered, QueueFrame(remembered, frame), {l})
      BY <2>5
    <3>. HIDE DEF frame
    <3>. QED
      BY <2>1, <3>1, CarriedTransitive
  <2>7. WasClosed(QueueFrame(remembered, frame), l)
    BY <2>1, <2>5, Zenon DEF WasClosed
  <2>8. QueueFrame(remembered, frame).lanes[l].present
    BY <2>5
  <2>. HIDE DEF frame
  <2>9. FrameCarried(b, c, l)
    BY <1>1, <2>1, <2>4, <2>6, <2>7, <2>8 DEF FrameCarried, Known, s
  <2>. QED
    BY <2>9 DEF c
<1>. QED
  BY <1>2, <1>3

LEMMA WriteAppliedCarried ==
  ASSUME NEW b \in BatchType, Orderly(b.ses), NEW l \in StreamIds, b.ses.lanes[l].present,
         b.ses.streams[l].live, NEW n \in Nat, NEW c \in BatchType,
         \/ n <= MaxFramePayload /\ c = DataApplied(b, l, n)
         \/ c = WindowApplied(b, l, n)
  PROVE  FrameCarried(b, c, l)
<1>. DEFINE s == b.ses
<1>1. s \in Session /\ s.streams[l] \in Stream
  BY BatchFields, SessionFields
<1>2. /\ c.ses \in Session
      /\ \E x : x.live /\ c.ses = [s EXCEPT !.streams[l] = x]
      /\ c.panics = b.panics /\ c.opened = b.opened /\ c.closed = b.closed
  <2>1. CASE n <= MaxFramePayload /\ c = DataApplied(b, l, n)
    <3>. DEFINE x == WriteQueued(s.streams[l], n)
    <3>1. x.live
      BY <1>1 DEF WriteQueued, Stream
    <3>. HIDE DEF x
    <3>2. c.ses = [s EXCEPT !.streams[l] = x]
          /\ c.panics = b.panics /\ c.opened = b.opened /\ c.closed = b.closed
      BY <1>1, <2>1 DEF DataApplied, BatchType, x
    <3>. QED
      BY <3>1, <3>2, BatchFields
  <2>2. CASE c = WindowApplied(b, l, n)
    <3>1. StreamReplaced(b, c, l)
      BY <2>2, WindowAppliedStream, Zenon
    <3>2. PICK x \in Stream :
            /\ x.live = b.ses.streams[l].live
            /\ c = [b EXCEPT !.ses = [b.ses EXCEPT !.streams[l] = x]]
      BY <3>1, Zenon DEF StreamReplaced
    <3>3. c.ses = [s EXCEPT !.streams[l] = x] /\ x.live
          /\ c.panics = b.panics /\ c.opened = b.opened /\ c.closed = b.closed
      BY <3>2 DEF BatchType
    <3>. QED
      BY <3>2, <3>3, BatchFields
  <2>. QED
    BY <2>1, <2>2
<1>3. PICK x : x.live /\ c.ses = [s EXCEPT !.streams[l] = x]
  BY <1>2
<1>4. Carried(s, c.ses, {l})
  <2>1. Carried(s, c.ses, {})
    BY <1>1, <1>3, StreamChangeCarried
  <2>. QED
    BY <2>1, CarriedWider
<1>5. c.ses.lanes = s.lanes /\ c.ses.streams[l].live
  BY <1>1, <1>3, SessionFields DEF Session
<1>. QED
  BY <1>2, <1>4, <1>5 DEF FrameCarried, Known

LEMMA CloseAppliedCarried ==
  ASSUME NEW b \in BatchType, Orderly(b.ses), NEW l \in StreamIds, b.ses.lanes[l].present,
         b.ses.streams[l].live
  PROVE  FrameCarried(b, CloseApplied(b, l), l)
<1>. DEFINE c == CloseApplied(b, l)
<1>1. b.ses \in Session /\ c \in BatchType
  BY BatchFields, CloseAppliedType
<1>2. c.ses = EndStream(b.ses, l) /\ c.panics = b.panics /\ c.opened = b.opened
      /\ c.closed = {l}
  BY DEF CloseApplied, BatchType
<1>. HIDE DEF c
<1>3. Carried(b.ses, c.ses, {l}) /\ WasClosed(c.ses, l) /\ c.ses.lanes[l].present
  BY <1>1, <1>2, EndStreamCarried
<1>4. FrameCarried(b, c, l)
  BY <1>1, <1>2, <1>3 DEF FrameCarried, Known
<1>. QED
  BY <1>4 DEF c

(* What the first k frames of a body of lane l have made of the session.   *)
Prefixes(s, body, l, k) ==
  {b \in BatchType :
     /\ ~b.panics
     /\ Carried(s, b.ses, {l}) /\ b.ses.lanes[l].present
     /\ b.opened \subseteq {l} /\ b.closed \subseteq {l}
     /\ k = 0 => b.ses = s /\ b.applied
     /\ k > 0 \/ body[1].type # "OPEN" => Known(b.ses, l)
     /\ body[1].type # "OPEN" /\ ~s.streams[l].live => b.ses = s}

LEMMA NextPrefix ==
  ASSUME NEW s \in Session, NEW l \in StreamIds, NEW body \in Bodies \cup {<<>>},
         OfLane(body, l), ValidBatch(s, body),
         NEW k \in 1 .. Len(body), NEW b \in Prefixes(s, body, l, k - 1),
         NEW refused, NEW pool
  PROVE  FrameApplied(b, body[k], refused, pool) \in Prefixes(s, body, l, k)
<1>. DEFINE f == body[k]
            G == Prefixes(s, body, l, k)
<1>1. /\ f \in Frame /\ f.id = l /\ f.n \in Nat
      /\ f.type = "DATA" => f.n <= MaxFramePayload
  <2>1. \A j \in 1 .. Len(body) :
          body[j] \in Frame /\ ValidClientShape(body[j]) /\ body[j].id = l /\ l # 0
          /\ PayloadLength(body[j]) <= MaxFramePayload
    BY BodyOrder
  <2>2. f \in Frame /\ f.id = l /\ PayloadLength(f) <= MaxFramePayload
    BY <2>1, Zenon
  <2>. HIDE DEF f
  <2>. QED
    BY <2>2 DEF Frame, PayloadLength
<1>2. /\ body[1].type = "OPEN" => ~Known(s, l)
      /\ f.type = "OPEN" => k = 1
  BY BodyOrder
<1>3. /\ b \in BatchType /\ ~b.panics /\ Carried(s, b.ses, {l}) /\ b.ses.lanes[l].present
      /\ b.opened \subseteq {l} /\ b.closed \subseteq {l}
      /\ k = 1 => b.ses = s /\ b.applied
      /\ k > 1 \/ body[1].type # "OPEN" => Known(b.ses, l)
      /\ body[1].type # "OPEN" /\ ~s.streams[l].live => b.ses = s
  BY DEF Prefixes
<1>4. Orderly(b.ses)
  BY <1>3, Zenon DEF Carried
<1>5. ASSUME NEW c, FrameCarried(b, c, l),
             body[1].type # "OPEN" => s.streams[l].live
      PROVE  c \in G
  <2>1. /\ c \in BatchType /\ c.ses.lanes[l].present /\ Known(c.ses, l)
        /\ Carried(b.ses, c.ses, {l}) /\ c.panics = b.panics
        /\ c.opened \subseteq {l} /\ c.closed \subseteq {l}
    BY <1>3, <1>5 DEF FrameCarried
  <2>2. Carried(s, c.ses, {l})
    BY <1>3, <2>1, CarriedTransitive
  <2>. QED
    BY <1>3, <1>5, <2>1, <2>2 DEF Prefixes
<1>6. ~b.applied \/ f.id = 0 \/ f.type # "OPEN" => b \in G
  <2>. SUFFICES ASSUME ~b.applied \/ f.id = 0 \/ f.type # "OPEN" PROVE b \in G
    OBVIOUS
  <2>1. f.id # 0
    BY <1>1, LanesAreStreams
  <2>2. Known(b.ses, l)
    BY <1>3, <2>1
  <2>. QED
    BY <1>3, <2>2 DEF Prefixes
<1>7. f.id # 0 /\ f.type = "OPEN" => OpenApplied(b, f.id, refused, pool) \in G
  <2>. SUFFICES ASSUME f.type = "OPEN" PROVE OpenApplied(b, l, refused, pool) \in G
    BY <1>1
  <2>1. k = 1 /\ b.ses = s /\ ~Known(b.ses, l) /\ body[1].type = "OPEN"
    BY <1>2, <1>3
  <2>2. FrameCarried(b, OpenApplied(b, l, refused, pool), l)
    BY <1>3, <1>4, <2>1, OpenAppliedCarried
  <2>. QED
    BY <1>5, <2>1, <2>2
<1>8. f.type # "OPEN" => Known(b.ses, l)
  BY <1>2, <1>3
<1>9. b.ses.streams[l].live => (body[1].type # "OPEN" => s.streams[l].live)
  BY <1>3
<1>10. f.id # 0 /\ b.ses.streams[f.id].live /\ f.type = "DATA"
         => DataApplied(b, f.id, f.n) \in G
  BY <1>1, <1>3, <1>4, <1>5, <1>9, DataAppliedType, WriteAppliedCarried
<1>11. f.id # 0 /\ b.ses.streams[f.id].live /\ f.type = "WINDOW"
         => WindowApplied(b, f.id, f.n) \in G
  BY <1>1, <1>3, <1>4, <1>5, <1>9, WindowAppliedType, WriteAppliedCarried
<1>12. f.id # 0 /\ b.ses.streams[f.id].live => CloseApplied(b, f.id) \in G
  BY <1>1, <1>3, <1>4, <1>5, <1>9, CloseAppliedCarried
<1>13. f.id # 0 /\ f.type # "OPEN" /\ ~WasClosed(b.ses, f.id) /\ ~b.ses.streams[f.id].live
         => [b EXCEPT !.panics = TRUE, !.applied = FALSE] \in G
  BY <1>1, <1>8 DEF Known
<1>. HIDE DEF G, f
<1>14. FrameApplied(b, f, refused, pool) \in G
  BY <1>3, <1>6, <1>7, <1>10, <1>11, <1>12, <1>13, FrameRule
<1>. QED
  BY <1>14 DEF f, G

LEMMA BatchCarried ==
  ASSUME NEW s \in Session, Orderly(s), NEW l \in StreamIds, s.lanes[l].present,
         NEW body \in Bodies \cup {<<>>}, OfLane(body, l), ValidBatch(s, body),
         NEW refused, NEW pool
  PROVE  BatchApplied(s, body, refused, pool) \in Prefixes(s, body, l, Len(body))
<1>. DEFINE G == [k \in Nat |-> Prefixes(s, body, l, k)]
<1>1. Batch(s, body) \in G[0]
  <2>1. Batch(s, body) \in BatchType
    BY WriteCostType, BodyOrder DEF Batch, BatchType, OfLane
  <2>2. Carried(s, s, {l})
    <3>1. Carried(s, s, {})
      BY BudgetCarried
    <3>. QED
      BY <3>1, CarriedWider
  <2>3. body[1].type # "OPEN" => Known(s, l)
    BY BodyOrder
  <2>. QED
    BY <2>1, <2>2, <2>3 DEF Batch, Prefixes
<1>2. Len(body) \in Nat
  BY BodyOrder
<1>3. ASSUME NEW k \in 1 .. Len(body), NEW b \in G[k - 1]
      PROVE  FrameApplied(b, body[k], refused, pool) \in G[k]
  <2>1. k \in Nat /\ k - 1 \in Nat
    BY <1>2
  <2>2. b \in Prefixes(s, body, l, k - 1)
    BY <2>1
  <2>. QED
    BY <2>1, <2>2, NextPrefix, Zenon
<1>4. G[Len(body)] = Prefixes(s, body, l, Len(body))
  BY <1>2
<1>. HIDE DEF G
<1>5. BatchApplied(s, body, refused, pool) \in G[Len(body)]
  BY <1>1, <1>2, <1>3, BatchInduction, Zenon
<1>. QED
  BY <1>4, <1>5

LEMMA LaneZeroBatch ==
  ASSUME NEW s \in Session, NEW body \in Bodies \cup {<<>>}, OfLane(body, 0),
         NEW refused, NEW pool
  PROVE  LET b == BatchApplied(s, body, refused, pool)
         IN  b \in BatchType /\ b.ses = s /\ ~b.panics
<1>. DEFINE idle == {b \in BatchType : b.ses = s /\ ~b.panics}
            G == [k \in Nat |-> idle]
<1>1. Batch(s, body) \in idle
  BY WriteCostType DEF Batch, BatchType
<1>2. Len(body) \in Nat /\ \A k \in 1 .. Len(body) : body[k].id = 0
  BY WellFormed DEF OfLane
<1>3. ASSUME NEW k \in 1 .. Len(body), NEW b \in idle
      PROVE  FrameApplied(b, body[k], refused, pool) \in idle
  <2>1. FrameApplied(b, body[k], refused, pool) = b
    BY <1>2 DEF FrameApplied
  <2>. QED
    BY <2>1
<1>4. G[0] = idle /\ G[Len(body)] = idle
  BY <1>2
<1>5. ASSUME NEW k \in 1 .. Len(body), NEW b \in G[k - 1]
      PROVE  FrameApplied(b, body[k], refused, pool) \in G[k]
  BY <1>2, <1>3
<1>. HIDE DEF G
<1>6. BatchApplied(s, body, refused, pool) \in G[Len(body)]
  BY <1>1, <1>2, <1>4, <1>5, BatchInduction, Zenon
<1>. QED
  BY <1>4, <1>6

LEMMA ReserveKeeps ==
  ASSUME NEW s \in Session, NEW cost, NEW items
  PROVE  LET t == Reserve(s, cost, items)
         IN  t.closed = s.closed /\ t.streams = s.streams /\ t.closedOrder = s.closedOrder
             /\ t.lanes = s.lanes
BY DEF Reserve, Session

LEMMA ReserveValid ==
  ASSUME NEW s \in Session, NEW cost, NEW items, NEW body, ValidBatch(s, body)
  PROVE  ValidBatch(Reserve(s, cost, items), body)
<1>. DEFINE t == Reserve(s, cost, items)
<1>1. t.streams = s.streams /\ t.closedOrder = s.closedOrder
  BY ReserveKeeps
<1>. HIDE DEF t
<1>2. \A id : WasClosed(t, id) <=> WasClosed(s, id)
  BY <1>1, Zenon DEF WasClosed
<1>3. \A k : (ClosedBefore(t, body, k) <=> ClosedBefore(s, body, k))
             /\ (OpenBefore(t, body, k) <=> OpenBefore(s, body, k))
  BY <1>1, <1>2, Zenon DEF ClosedBefore, OpenBefore
<1>4. \A id : WindowAtStart(t, id) = WindowAtStart(s, id)
  BY <1>1, Zenon DEF WindowAtStart
<1>5. ASSUME NEW k, ValidFrame(s, body, k) PROVE ValidFrame(t, body, k)
  BY <1>3, <1>4, <1>5 DEF ValidFrame
<1>6. ValidBatch(t, body)
  BY <1>5 DEF ValidBatch
<1>. QED
  BY <1>6 DEF t

(* The lane a body is for remembers its sequence.                          *)
Sequenced(s, t, l) ==
  \E q, digest : t = [s EXCEPT !.lanes[l].lastUpSequence = q, !.lanes[l].lastUpDigest = digest]

(* What a body leaves of a session that has its lane.                      *)
BodyCarried(s, t, r) ==
  \E u \in Session :
    /\ Carried(s, u, {r.lane}) /\ u.lanes[r.lane].present
    /\ r.lane # 0 => Known(u, r.lane) /\ (r.body[1].type = "OPEN" => ~Known(s, r.lane))
    /\ r.lane = 0 \/ (r.body[1].type # "OPEN" /\ ~s.streams[r.lane].live)
         => u.lanes = s.lanes /\ u.streams = s.streams
    /\ t = u \/ Sequenced(u, t, r.lane)

LEMMA CommittedCarried ==
  ASSUME NEW s \in Session, Orderly(s), NEW r, Upload(r), s.lanes[r.lane].present,
         OfLane(r.body, r.lane), ValidBatch(s, r.body), NEW refused, NEW pool,
         NEW cost \in Int, NEW items \in Int
  PROVE  LET b == BatchApplied(Reserve(s, cost, items), r.body, refused, pool)
         IN  ~b.panics /\ BodyCarried(s, Committed(r, b), r)
<1>. DEFINE o == Reserve(s, cost, items)
            b == BatchApplied(o, r.body, refused, pool)
            u == ReleasePending(b.ses, b.cost, b.items)
            l == r.lane
<1>1. /\ o \in Session /\ Carried(s, o, {}) /\ Orderly(o)
      /\ o.lanes = s.lanes /\ o.streams = s.streams /\ o.closedOrder = s.closedOrder
  <2>1. Carried(s, o, {})
    BY BudgetCarried
  <2>2. Orderly(o)
    BY <2>1, Zenon DEF Carried
  <2>. QED
    BY <2>1, <2>2, ReserveType, ReserveKeeps
<1>2. /\ b \in BatchType /\ ~b.panics
      /\ Carried(o, b.ses, {l}) /\ b.ses.lanes[l].present
      /\ l # 0 => Known(b.ses, l) /\ (r.body[1].type = "OPEN" => ~Known(o, l))
      /\ l = 0 \/ (r.body[1].type # "OPEN" /\ ~s.streams[l].live) => b.ses = o
  <2>1. CASE l = 0
    <3>1. b \in BatchType /\ b.ses = o /\ ~b.panics
      BY <1>1, <2>1, LaneZeroBatch DEF Upload
    <3>2. Carried(o, o, {})
      BY <1>1, BudgetCarried
    <3>3. Carried(o, o, {l})
      BY <3>2, CarriedWider
    <3>. QED
      BY <1>1, <2>1, <3>1, <3>3
  <2>2. CASE l # 0
    <3>1. l \in StreamIds /\ r.body \in Bodies \cup {<<>>}
      BY <2>2, LanesAreStreams DEF Upload
    <3>2. ValidBatch(o, r.body)
      BY ReserveValid
    <3>3. b \in Prefixes(o, r.body, l, Len(r.body))
      BY <1>1, <3>1, <3>2, BatchCarried
    <3>4. Len(r.body) \in Nat \ {0} /\ (r.body[1].type = "OPEN" => ~Known(o, l))
      BY <3>1, <3>2, BodyOrder, Zenon
    <3>5. Len(r.body) > 0
      BY <3>4
    <3>. HIDE DEF b
    <3>. QED
      BY <1>1, <2>2, <3>3, <3>4, <3>5 DEF Prefixes
  <2>. QED
    BY <2>1, <2>2
<1>. HIDE DEF b
<1>3. Orderly(b.ses) /\ b.ses \in Session /\ b.cost \in Int /\ b.items \in Int
  BY <1>2, BatchFields DEF Carried
<1>4. /\ u \in Session /\ Carried(b.ses, u, {})
      /\ u.lanes = b.ses.lanes /\ u.streams = b.ses.streams
      /\ u.closedOrder = b.ses.closedOrder
  <2>1. Carried(b.ses, u, {}) /\ u \in Session
    BY <1>3, BudgetCarried, ReleasePendingType
  <2>2. u = ReleasePending(b.ses, b.cost, b.items)
    OBVIOUS
  <2>. HIDE DEF u
  <2>. QED
    BY <1>3, <2>1, <2>2, ReleasePendingFields
<1>. HIDE DEF u
<1>5. Carried(s, u, {l})
  <2>1. Carried(s, b.ses, {l})
    BY <1>1, <1>2, CarriedTransitive
  <2>. QED
    BY <1>4, <2>1, CarriedTransitive
<1>6. /\ \A id : WasClosed(u, id) <=> WasClosed(b.ses, id)
      /\ \A id : WasClosed(o, id) <=> WasClosed(s, id)
  BY <1>1, <1>4, Zenon DEF WasClosed
<1>7. /\ u.lanes[l].present
      /\ l # 0 => Known(u, l) /\ (r.body[1].type = "OPEN" => ~Known(s, l))
      /\ l = 0 \/ (r.body[1].type # "OPEN" /\ ~s.streams[l].live)
           => u.lanes = s.lanes /\ u.streams = s.streams
  BY <1>1, <1>2, <1>4, <1>6 DEF Known
<1>8. Committed(r, b) = u \/ Sequenced(u, Committed(r, b), l)
  BY Zenon DEF Committed, Sequenced, u
<1>9. BodyCarried(s, Committed(r, b), r)
  BY <1>4, <1>5, <1>7, <1>8, Zenon DEF BodyCarried
<1>. QED
  BY <1>2, <1>9 DEF b

(* ProcessUpLane: it may make the lane of a stream to be opened, and may   *)
(* then apply the body.                                                    *)
LaneCreated(s, t, l) == ~s.lanes[l].present /\ l # 0 /\ t = [s EXCEPT !.lanes[l] = NewLane]

LEMMA CreatedFields ==
  ASSUME NEW s \in Session, Orderly(s), NEW l \in LaneIds, NEW t, LaneCreated(s, t, l)
  PROVE  /\ t \in Session /\ Orderly(t)
         /\ t.closed = s.closed /\ t.streams = s.streams /\ t.closedOrder = s.closedOrder
         /\ t.lanes[l] = NewLane /\ l \in StreamIds
         /\ \A o \in LaneIds : o # l => t.lanes[o] = s.lanes[o]
<1>1. t = [s EXCEPT !.lanes[l] = NewLane] /\ l \in StreamIds
  BY LanesAreStreams DEF LaneCreated
<1>2. t \in Session
  BY <1>1, NoLaneType, SetLaneType
<1>3. /\ t.closed = s.closed /\ t.streams = s.streams /\ t.closedOrder = s.closedOrder
      /\ t.lanes[l] = NewLane
      /\ \A o \in LaneIds : o # l => t.lanes[o] = s.lanes[o]
  BY <1>1, SessionFields DEF Session
<1>4. NewLane.present
  BY DEF NewLane, NoLane
<1>5. Orderly(t)
  BY <1>3, <1>4 DEF Orderly, Tombs
<1>. QED
  BY <1>1, <1>2, <1>3, <1>5

Uploads(h, r, s) ==
  /\ \/ s = ses
     \/ LaneCreated(ses, s, r.lane) /\ ~ses.closed /\ r.body[1].type = "OPEN"
  /\ \/ ses' = s /\ UNCHANGED life
     \/ /\ s.lanes[r.lane].present /\ ~s.closed
        /\ OfLane(r.body, r.lane) /\ ValidBatch(s, r.body)
        /\ BodyCarried(s, ses', r)
        /\ life' = IF r.body[1].type = "OPEN" THEN [life EXCEPT ![r.lane] = "open"] ELSE life

LEMMA UpLaneUploads ==
  ASSUME TypeOK, Orderly(ses), NEW h \in Pollers, NEW r, Upload(r), UpLane(h, r)
  PROVE  /\ \A g \in Pollers : ups'[g].pc = "panicked" => ups[g].pc = "panicked"
         /\ \E s \in Session : Orderly(s) /\ Uploads(h, r, s)
<1>. DEFINE s == IF ~ses.lanes[r.lane].present
                 THEN [ses EXCEPT !.lanes[r.lane] = NewLane] ELSE ses
            calm == \A g \in Pollers : ups'[g].pc = "panicked" => ups[g].pc = "panicked"
            opens == r.lane # 0 /\ r.body[1].type = "OPEN"
            kept == \/ s = ses
                    \/ LaneCreated(ses, s, r.lane) /\ ~ses.closed /\ r.body[1].type = "OPEN"
<1>1. ses \in Session /\ ups \in [Pollers -> UpState] /\ r.lane \in LaneIds
  BY DEF TypeOK, BackendTypeOK, Upload
<1>2. ASSUME NEW answer, UpAnswers(h, answer) PROVE calm
  BY <1>1, <1>2 DEF UpAnswers, UpState, NoUp
<1>3. UpGoes(h, r, "failing") => calm
  BY <1>1 DEF UpGoes, UpState, NoUp
<1>4. ~ses.closed /\ (~ses.lanes[r.lane].present => opens) => kept
  <2>1. CASE ses.lanes[r.lane].present
    <3>1. s = ses
      BY <2>1, Zenon
    <3>. QED
      BY <3>1
  <2>2. CASE ~ses.lanes[r.lane].present
    <3>1. s = [ses EXCEPT !.lanes[r.lane] = NewLane]
      BY <2>2, Zenon
    <3>. HIDE DEF s
    <3>. QED
      BY <2>2, <3>1 DEF LaneCreated
  <2>. QED
    BY <2>1, <2>2
<1>5. kept => s \in Session /\ Orderly(s) /\ s.lanes[r.lane].present
  <2>1. CASE s = ses
    <3>1. s.lanes[r.lane].present
      BY <1>1, <2>1, NoLaneType, SessionFields DEF NewLane, NoLane, Session
    <3>. HIDE DEF s
    <3>. QED
      BY <1>1, <2>1, <3>1
  <2>2. CASE s # ses
    <3>. HIDE DEF s
    <3>1. NewLane.present
      BY DEF NewLane, NoLane
    <3>. QED
      BY <1>1, <2>2, <3>1, CreatedFields
  <2>. QED
    BY <2>1, <2>2
<1>6. \/ calm /\ ses' = ses /\ UNCHANGED life
      \/ calm /\ kept /\ ses' = s /\ UNCHANGED life
      \/ kept /\ ~ses.closed /\ OfLane(r.body, r.lane) /\ ValidBatch(s, r.body)
           /\ UpApplies(h, r, s)
  <2>. HIDE DEF calm, kept
  <2>. QED
    BY <1>2, <1>3, <1>4 DEF UpLane, s, opens
<1>7. kept => s.closed = ses.closed
  BY <1>1, CreatedFields
<1>. HIDE DEF s
<1>8. CASE calm /\ ses' = ses /\ UNCHANGED life
  <2>1. Uploads(h, r, ses)
    BY <1>8 DEF Uploads
  <2>. QED
    BY <1>1, <1>8, <2>1, Zenon
<1>9. CASE calm /\ kept /\ ses' = s /\ UNCHANGED life
  <2>1. Uploads(h, r, s)
    BY <1>9, Zenon DEF Uploads
  <2>. QED
    BY <1>5, <1>9, <2>1, Zenon
<1>10. CASE kept /\ ~ses.closed /\ OfLane(r.body, r.lane) /\ ValidBatch(s, r.body)
              /\ UpApplies(h, r, s)
  <2>. DEFINE cost == WriteCost(s, r.body)
              items == WriteItems(s, r.body)
              applied(refused, pool) ==
                BatchApplied(Reserve(s, cost, items), r.body, refused, pool)
  <2>1. s \in Session /\ Orderly(s) /\ s.lanes[r.lane].present /\ ~s.closed
    BY <1>5, <1>7, <1>10
  <2>2. cost \in Int /\ items \in Int
    BY <2>1, WriteCostType DEF Upload
  <2>3. \A refused, pool : ~applied(refused, pool).panics
                           /\ BodyCarried(s, Committed(r, applied(refused, pool)), r)
    <3>. HIDE DEF cost, items
    <3>. QED
      BY <1>10, <2>1, <2>2, CommittedCarried
  <2>4. CASE ses' = s /\ UpAnswers(h, "retry") /\ UNCHANGED <<backends, life>>
    BY <1>2, <1>10, <2>1, <2>4 DEF Uploads
  <2>5. ASSUME NEW refused, NEW pool, BodyApplied(h, r, applied(refused, pool))
        PROVE  /\ calm /\ BodyCarried(s, ses', r)
               /\ life' = IF r.body[1].type = "OPEN" THEN [life EXCEPT ![r.lane] = "open"]
                                                     ELSE life
    <3>1. ~applied(refused, pool).panics
          /\ BodyCarried(s, Committed(r, applied(refused, pool)), r)
      BY <2>3
    <3>. HIDE DEF applied
    <3>2. calm
      BY <1>1, <2>5, <3>1 DEF BodyApplied, UpState
    <3>. QED
      BY <2>5, <3>1, <3>2 DEF BodyApplied
  <2>6. \/ ses' = s /\ UpAnswers(h, "retry") /\ UNCHANGED <<backends, life>>
        \/ \E refused, pool : BodyApplied(h, r, applied(refused, pool))
    BY <1>10, Zenon DEF UpApplies, cost, items
  <2>. QED
    BY <1>10, <2>1, <2>4, <2>5, <2>6 DEF Uploads
<1>. QED
  BY <1>6, <1>8, <1>9, <1>10

-----------------------------------------------------------------------------
(* Every step is one of PollLane, or one that leaves the polls that wait   *)
(* alone.                                                                  *)
SessionStep ==
  \/ Carried(ses, ses', LiveStreams(ses)) /\ UNCHANGED life
  \/ \E h \in Pollers, s \in Session : \E r :
       Upload(r) /\ NoReuse(r.lane, r.body) /\ Orderly(s) /\ Uploads(h, r, s)
  \/ \E l \in LaneIds : LaneCreated(ses, ses', l) /\ ~ses.closed /\ OverSockets /\ UNCHANGED life

PollsStay ==
  \A h \in Pollers : \/ polls'[h] = polls[h]
                     \/ polls[h].pc = "failing" /\ polls'[h] = NoPoll

ObjectsKept ==
  /\ generation' = [l \in LaneIds |-> IF l \in Dropped THEN generation[l] + 1
                                                       ELSE generation[l]]
  /\ \A h \in Pollers :
       /\ polls[h].pc # "idle"
       /\ Object(h) \in stray \/ (OnCurrent(h) /\ polls[h].lane \in Dropped)
       => Object(h) \in stray'

NoNewPanic ==
  /\ \A g \in Pollers : ups'[g].pc = "panicked" => ups[g].pc = "panicked"
  /\ UNCHANGED carrier

Elsewhere == SessionStep /\ PollsStay /\ ObjectsKept /\ NoNewPanic

PollMoves(h) ==
  \/ \E l \in LaneIds, cursor \in Nat : PollLane(h, l, cursor)
  \/ PollWakes(h) \/ PollResumes(h) \/ PollSuperseded(h) \/ PollCancelled(h)
  \/ PollDone(h) \/ PollExpires(h)

LEMMA NotifyKept ==
  ASSUME DroppedLanesNotify
  PROVE  ObjectsKept
<1>1. ASSUME NEW h \in Pollers, polls[h].pc # "idle",
             Object(h) \in stray \/ (OnCurrent(h) /\ polls[h].lane \in Dropped)
      PROVE  Object(h) \in stray'
  <2>1. Object(h) \in stray \cup {<<l, generation[l]>> : l \in Dropped}
    BY <1>1 DEF OnCurrent, Object
  <2>2. Object(h) \in {Object(g) : g \in {x \in Pollers : polls[x].pc # "idle"}}
    BY <1>1
  <2>. QED
    BY <2>1, <2>2 DEF DroppedLanesNotify
<1>. QED
  BY <1>1 DEF ObjectsKept, DroppedLanesNotify

LEMMA NothingDropped ==
  ASSUME TypeOK, \A l \in LaneIds : ses.lanes[l].present => ses'.lanes[l].present,
         UNCHANGED <<generation, stray>>
  PROVE  ObjectsKept
<1>1. Dropped = {}
  BY Zenon DEF Dropped
<1>2. generation = [l \in LaneIds |-> generation[l]]
  BY DEF TypeOK
<1>. QED
  BY <1>1, <1>2 DEF ObjectsKept

LEMMA CarriedStep ==
  ASSUME TypeOK, Orderly(ses), Carried(ses, ses', LiveStreams(ses)), UNCHANGED life
  PROVE  SessionStep
BY DEF SessionStep

LEMMA SameSession ==
  ASSUME TypeOK, Orderly(ses), UNCHANGED ses
  PROVE  Carried(ses, ses', LiveStreams(ses))
<1>1. Carried(ses, ses, {})
  BY BudgetCarried DEF TypeOK, BackendTypeOK
<1>2. Carried(ses, ses, LiveStreams(ses))
  BY <1>1, CarriedWider
<1>. QED
  BY <1>2, Zenon

LEMMA UpLaneElsewhere ==
  ASSUME TypeOK, Orderly(ses), NEW h \in Pollers, NEW r, Upload(r), UpLane(h, r),
         NoReuse(r.lane, r.body), DroppedLanesNotify, UNCHANGED <<carrier, polls>>
  PROVE  Elsewhere
<1>1. SessionStep
  BY UpLaneUploads DEF SessionStep
<1>2. \A g \in Pollers : ups'[g].pc = "panicked" => ups[g].pc = "panicked"
  BY UpLaneUploads
<1>. QED
  BY <1>1, <1>2, NotifyKept DEF Elsewhere, PollsStay, NoNewPanic

LEMMA UpAnswersCalm ==
  ASSUME TypeOK, NEW h \in Pollers
  PROVE  /\ \A answer : UpAnswers(h, answer) =>
              \A g \in Pollers : ups'[g].pc = "panicked" => ups[g].pc = "panicked"
         /\ \A r : UpGoes(h, r, "closing") =>
              \A g \in Pollers : ups'[g].pc = "panicked" => ups[g].pc = "panicked"
<1>1. ups \in [Pollers -> UpState]
  BY DEF TypeOK
<1>2. ASSUME NEW answer, UpAnswers(h, answer), NEW g \in Pollers, ups'[g].pc = "panicked"
      PROVE  ups[g].pc = "panicked"
  BY <1>1, <1>2 DEF UpAnswers, UpState, NoUp
<1>3. ASSUME NEW r, UpGoes(h, r, "closing"), NEW g \in Pollers, ups'[g].pc = "panicked"
      PROVE  ups[g].pc = "panicked"
  BY <1>1, <1>3 DEF UpGoes, UpState, NoUp
<1>. QED
  BY <1>2, <1>3

LEMMA UpStepElsewhere ==
  ASSUME TypeOK, Orderly(ses), NEW h \in Pollers, UpStep(h)
  PROVE  Elsewhere
<1>1. /\ ses \in Session /\ ups[h].lane \in LaneIds
      /\ ups[h].toStop \in SUBSET StreamIds
  BY UpFields DEF TypeOK, BackendTypeOK
<1>2. CASE UpLaunch(h)
  <2>1. Carried(ses, ses', LiveStreams(ses))
    <3>1. Carried(ses, CancelBackend(ses, ups[h].toStop), {})
      BY <1>1, BudgetCarried
    <3>2. Carried(ses, CancelBackend(ses, ups[h].toStop), LiveStreams(ses))
      BY <3>1, CarriedWider
    <3>. QED
      BY <1>2, <3>2 DEF UpLaunch
  <2>2. ses'.lanes = ses.lanes
    BY <1>1, <1>2 DEF UpLaunch, CancelBackend, Session
  <2>3. ObjectsKept
    BY <1>2, <2>2, NothingDropped DEF UpLaunch
  <2>4. \A g \in Pollers : ups'[g].pc = "panicked" => ups[g].pc = "panicked"
    BY <1>2, UpAnswersCalm DEF UpLaunch
  <2>. QED
    BY <1>2, <2>1, <2>3, <2>4 DEF UpLaunch, Elsewhere, SessionStep, PollsStay, NoNewPanic
<1>3. CASE UpFails(h)
  <2>1. Carried(ses, ses', LiveStreams(ses))
    <3>1. Carried(ses, CloseSession(ses), {})
      BY <1>1, CloseSessionCarried
    <3>2. Carried(ses, CloseSession(ses), LiveStreams(ses))
      BY <3>1, CarriedWider
    <3>3. Carried(ses, FailLane(ses, ups[h].lane), LiveStreams(ses))
      BY <1>1, FailLaneCarried
    <3>. QED
      BY <1>3, <3>2, <3>3 DEF UpFails
  <2>2. \A g \in Pollers : ups'[g].pc = "panicked" => ups[g].pc = "panicked"
    BY <1>3, UpAnswersCalm DEF UpFails
  <2>. QED
    BY <1>3, <2>1, <2>2, NotifyKept DEF UpFails, Elsewhere, SessionStep, PollsStay, NoNewPanic
<1>. QED
  BY <1>2, <1>3 DEF UpStep

LEMMA PollStepSorted ==
  ASSUME TypeOK, Orderly(ses), NEW h \in Pollers, PollStep(h)
  PROVE  Elsewhere \/ PollMoves(h)
<1>1. ses \in Session /\ polls[h].lane \in LaneIds
  BY PollFields DEF TypeOK, BackendTypeOK
<1>2. CASE PollFails(h)
  <2>1. Carried(ses, FailLane(ses, polls[h].lane), LiveStreams(ses))
    BY <1>1, FailLaneCarried
  <2>2. SessionStep
    BY <1>2, <2>1 DEF PollFails, PollAnswers, SessionStep
  <2>3. PollsStay
    BY <1>2 DEF PollFails, PollAnswers, PollsStay, TypeOK
  <2>. QED
    BY <1>2, <2>2, <2>3, NotifyKept DEF PollFails, Elsewhere, NoNewPanic
<1>3. CASE ~PollFails(h)
  BY <1>3 DEF PollStep, PollMoves
<1>. QED
  BY <1>2, <1>3

(* Only websocket-lanes has sockets.                                       *)
SocketsServed == ~OverSockets => \A h \in Pollers : sockets[h] = NoSocket

LEMMA SocketStepSorted ==
  ASSUME TypeOK, Orderly(ses), SocketsServed, NEW h \in Pollers, SocketStep(h)
  PROVE  Elsewhere \/ PollMoves(h)
<1>1. /\ ses \in Session /\ ups[h] \in UpState /\ ups \in [Pollers -> UpState]
      /\ sockets[h].lane \in LaneIds /\ sockets[h].cursor \in Nat
  BY SocketFields DEF TypeOK, BackendTypeOK
<1>2. CASE SocketSends(h)
  <2>1. Upload(ups[h])
    BY <1>1, UpFields DEF Upload
  <2>. QED
    BY <1>2, <2>1, UpLaneElsewhere DEF SocketSends
<1>3. CASE UNCHANGED <<ses, carrier, polls, generation, stray, life>>
           /\ (ups' = ups \/ ups' = [ups EXCEPT ![h] = NoUp])
  <2>1. SessionStep /\ ObjectsKept
    BY <1>3, SameSession, NothingDropped DEF SessionStep
  <2>2. \A g \in Pollers : ups'[g].pc = "panicked" => ups[g].pc = "panicked"
    BY <1>1, <1>3 DEF NoUp
  <2>. QED
    BY <1>3, <2>1, <2>2 DEF Elsewhere, PollsStay, NoNewPanic
<1>4. CASE SocketPolls(h)
  BY <1>1, <1>4, Zenon DEF SocketPolls, PollMoves
<1>5. CASE SocketEnds(h)
  <2>1. OverSockets
    BY <1>5 DEF SocketEnds, SocketsServed, NoSocket
  <2>2. Carried(ses, ses', LiveStreams(ses))
    BY <1>1, <1>5, <2>1, FailLaneCarried DEF SocketEnds
  <2>. QED
    BY <1>5, <2>2, NotifyKept
       DEF SocketEnds, Elsewhere, SessionStep, PollsStay, NoNewPanic
<1>. QED
  BY <1>2, <1>3, <1>4, <1>5
     DEF SocketStep, ReaderEnds, WriterEnds, SocketGone

LEMMA RequestSorted ==
  ASSUME TypeOK, Orderly(ses), NEW h \in Pollers, Request(h)
  PROVE  Elsewhere \/ PollMoves(h)
<1>1. /\ ses \in Session /\ ups \in [Pollers -> UpState]
      /\ LanesUsed \subseteq LaneIds /\ LanesPolled \subseteq LaneIds \ {0}
  BY LaneAssumption DEF TypeOK, BackendTypeOK
<1>2. ASSUME NEW l \in LanesUsed, NEW q \in 1 .. MaxSeq, NEW body \in Bodies,
             UpRequest(h, l, q, body)
      PROVE  Elsewhere
  <2>. DEFINE r == [lane |-> l, seq |-> q, body |-> body]
  <2>1. q \in Nat
    BY LaneAssumption
  <2>2. Upload(r) /\ NoReuse(r.lane, r.body)
    BY <1>1, <1>2, <2>1 DEF Upload, UpRequest
  <2>3. UpLane(h, r) /\ DroppedLanesNotify /\ UNCHANGED <<carrier, polls>>
    BY <1>2 DEF UpRequest
  <2>. HIDE DEF r
  <2>. QED
    BY <2>2, <2>3, UpLaneElsewhere
<1>3. ASSUME NEW l \in LanesPolled, NEW cursor \in 0 .. MaxCursor,
             PollRequest(h, l, cursor)
      PROVE  PollMoves(h)
  BY <1>1, <1>3, LaneAssumption DEF PollRequest, PollMoves
<1>4. ASSUME NEW id \in LanesPolled, SocketOpens(h, id)
      PROVE  Elsewhere
  <2>1. id \in LaneIds /\ id # 0
    BY <1>1
  <2>2. SessionStep
    <3>1. CASE ses.lanes[id].present
      BY <1>4, <3>1, SameSession DEF SocketOpens, SessionStep
    <3>2. CASE ~ses.lanes[id].present
      <4>1. LaneCreated(ses, ses', id)
        BY <1>4, <2>1, <3>2 DEF SocketOpens, LaneCreated
      <4>. QED
        BY <1>4, <2>1, <4>1 DEF SocketOpens, SessionStep
    <3>. QED
      BY <3>1, <3>2
  <2>3. \A l \in LaneIds : ses.lanes[l].present => ses'.lanes[l].present
    <3>1. CASE ses' = ses
      BY <3>1, Zenon
    <3>2. CASE LaneCreated(ses, ses', id)
      BY <1>1, <2>1, <3>2, CreatedFields DEF LaneCreated
    <3>. QED
      BY <1>4, <2>1, <3>1, <3>2 DEF SocketOpens, LaneCreated
  <2>. QED
    BY <1>4, <2>2, <2>3, NothingDropped DEF SocketOpens, Elsewhere, PollsStay, NoNewPanic
<1>5. ASSUME NEW body \in SocketBodies, SocketReads(h, body)
      PROVE  Elsewhere
  <2>1. SessionStep /\ ObjectsKept
    BY <1>5, SameSession, NothingDropped DEF SocketReads, SessionStep
  <2>2. \A g \in Pollers : ups'[g].pc = "panicked" => ups[g].pc = "panicked"
    BY <1>1, <1>5 DEF SocketReads, NoUp
  <2>. QED
    BY <1>5, <2>1, <2>2 DEF SocketReads, Elsewhere, PollsStay, NoNewPanic
<1>. QED
  BY <1>2, <1>3, <1>4, <1>5, Zenon DEF Request

LEMMA StepSorted ==
  ASSUME TypeOK, Orderly(ses), SocketsServed, [Next]_vars
  PROVE  Elsewhere \/ \E h \in Pollers : PollMoves(h)
<1>1. ASSUME NEW h \in Pollers, Request(h) \/ UpStep(h) \/ PollStep(h) \/ SocketStep(h)
      PROVE  Elsewhere \/ PollMoves(h)
  BY <1>1, RequestSorted, UpStepElsewhere, PollStepSorted, SocketStepSorted, Zenon
<1>2. ASSUME NEW id \in StreamIds, BackendNext(id)
      PROVE  Elsewhere
  <2>1. Carried(ses, ses', LiveStreams(ses))
    BY <1>2, BackendCarried DEF BackendNext, TypeOK
  <2>. QED
    BY <1>2, <2>1, NotifyKept
       DEF BackendNext, Elsewhere, SessionStep, PollsStay, NoNewPanic
<1>3. CASE Close
  <2>1. ses \in Session
    BY DEF TypeOK, BackendTypeOK
  <2>2. Carried(ses, ses', LiveStreams(ses))
    <3>1. Carried(ses, CloseSession(ses), {})
      BY <2>1, CloseSessionCarried
    <3>2. Carried(ses, CloseSession(ses), LiveStreams(ses))
      BY <3>1, CarriedWider
    <3>. QED
      BY <1>3, <3>2 DEF Close
  <2>3. \A l \in LaneIds : ses.lanes[l].present => ses'.lanes[l].present
    <3>1. \A l \in LaneIds : ClearedLane(ses.lanes[l]).present = ses.lanes[l].present
      BY <2>1, SessionFields DEF ClearedLane, Lane
    <3>2. ses'.lanes = [l \in LaneIds |-> IF ses.lanes[l].present THEN ClearedLane(ses.lanes[l])
                                                                ELSE NoLane]
      BY <1>3, <2>1 DEF Close, CloseSession, Session
    <3>. QED
      BY <3>1, <3>2
  <2>. QED
    BY <1>3, <2>2, <2>3, NothingDropped
       DEF Close, Elsewhere, SessionStep, PollsStay, NoNewPanic
<1>4. CASE UNCHANGED vars
  <2>1. SessionStep /\ ObjectsKept
    BY <1>4, SameSession, NothingDropped DEF vars, SessionStep
  <2>. QED
    BY <1>4, <2>1 DEF vars, Elsewhere, PollsStay, NoNewPanic
<1>. QED
  BY <1>1, <1>2, <1>3, <1>4, Zenon DEF Next

-----------------------------------------------------------------------------
(* What a poll that waits relies on: LaneKept without the uplink sequence. *)
Served(s, t, l) ==
  /\ t.lanes[l].owner = s.lanes[l].owner
  /\ t.lanes[l].downCursor = s.lanes[l].downCursor
  /\ t.lanes[l].unacked \in {s.lanes[l].unacked, <<>>}
  /\ s.lanes[l].notify => t.lanes[l].notify
  /\ \/ t.lanes[l].notify
     \/ /\ t.lanes[l].frames = s.lanes[l].frames
        /\ t.closed => s.closed
        /\ StreamOver(t, l) => StreamOver(s, l)

LaneServed(s, t, l) ==
  /\ s.lanes[l].present /\ t.lanes[l].present => Served(s, t, l)
  /\ ~s.lanes[l].present /\ t.lanes[l].present => t.lanes[l].owner = NoPoller

(* Nothing else changes in the lane whose sequence is remembered.          *)
LEMMA SequenceFields ==
  ASSUME NEW u \in Session, NEW l \in LaneIds, NEW t, Sequenced(u, t, l)
  PROVE  /\ t.closed = u.closed /\ t.streams = u.streams /\ t.closedOrder = u.closedOrder
         /\ \A o \in LaneIds :
              /\ o # l => t.lanes[o] = u.lanes[o]
              /\ t.lanes[o].present = u.lanes[o].present
              /\ t.lanes[o].frames = u.lanes[o].frames
              /\ t.lanes[o].unacked = u.lanes[o].unacked
              /\ t.lanes[o].unackedCost = u.lanes[o].unackedCost
              /\ t.lanes[o].unackedItems = u.lanes[o].unackedItems
              /\ t.lanes[o].owner = u.lanes[o].owner
              /\ t.lanes[o].downCursor = u.lanes[o].downCursor
              /\ t.lanes[o].notify = u.lanes[o].notify
<1>0. PICK q, digest : t = [u EXCEPT !.lanes[l].lastUpSequence = q,
                                     !.lanes[l].lastUpDigest = digest]
  BY Zenon DEF Sequenced
<1>. DEFINE lane == [u.lanes[l] EXCEPT !.lastUpSequence = q, !.lastUpDigest = digest]
<1>1. u.lanes \in [LaneIds -> Lane] /\ u.lanes[l] \in Lane
  BY SessionFields
<1>2. /\ lane.present = u.lanes[l].present /\ lane.frames = u.lanes[l].frames
      /\ lane.unacked = u.lanes[l].unacked /\ lane.unackedCost = u.lanes[l].unackedCost
      /\ lane.unackedItems = u.lanes[l].unackedItems /\ lane.owner = u.lanes[l].owner
      /\ lane.downCursor = u.lanes[l].downCursor /\ lane.notify = u.lanes[l].notify
  BY <1>1 DEF Lane
<1>3. t = [u EXCEPT !.lanes = [u.lanes EXCEPT ![l] = lane]]
  BY <1>0, <1>1 DEF Session, Lane
<1>. HIDE DEF lane
<1>4. /\ t.closed = u.closed /\ t.streams = u.streams /\ t.closedOrder = u.closedOrder
      /\ t.lanes = [u.lanes EXCEPT ![l] = lane]
  BY <1>3 DEF Session
<1>. QED
  BY <1>1, <1>2, <1>4

LEMMA CarriedServed ==
  ASSUME NEW s, NEW t, NEW ids, Carried(s, t, ids)
  PROVE  /\ Orderly(t) /\ (s.closed => t.closed)
         /\ \A l \in LaneIds : t.lanes[l].present => s.lanes[l].present /\ Served(s, t, l)
BY Zenon DEF Carried, LaneCarried, LaneKept, Served

LEMMA BodyServed ==
  ASSUME NEW s \in Session, NEW t, NEW r, Upload(r), BodyCarried(s, t, r)
  PROVE  /\ Orderly(t) /\ (s.closed => t.closed)
         /\ \A l \in LaneIds : t.lanes[l].present => s.lanes[l].present /\ Served(s, t, l)
<1>1. PICK u \in Session :
        /\ Carried(s, u, {r.lane}) /\ u.lanes[r.lane].present
        /\ t = u \/ Sequenced(u, t, r.lane)
  BY Zenon DEF BodyCarried
<1>2. /\ Orderly(u) /\ (s.closed => u.closed)
      /\ \A l \in LaneIds : u.lanes[l].present => s.lanes[l].present /\ Served(s, u, l)
  BY <1>1, CarriedServed, Zenon
<1>3. CASE t = u
  BY <1>2, <1>3
<1>4. CASE Sequenced(u, t, r.lane)
  <2>1. /\ t.closed = u.closed /\ t.streams = u.streams /\ t.closedOrder = u.closedOrder
        /\ \A o \in LaneIds :
             /\ o # r.lane => t.lanes[o] = u.lanes[o]
             /\ t.lanes[o].present = u.lanes[o].present
             /\ t.lanes[o].frames = u.lanes[o].frames
             /\ t.lanes[o].unacked = u.lanes[o].unacked
             /\ t.lanes[o].owner = u.lanes[o].owner
             /\ t.lanes[o].downCursor = u.lanes[o].downCursor
             /\ t.lanes[o].notify = u.lanes[o].notify
    BY <1>4, SequenceFields DEF Upload
  <2>2. \A l : StreamOver(t, l) <=> StreamOver(u, l)
    BY <2>1, Zenon DEF StreamOver, WasClosed
  <2>3. Tombs(t)
    BY <1>2, <2>1 DEF Orderly, Tombs
  <2>4. Orderly(t)
    BY <1>1, <1>2, <2>1, <2>3 DEF Orderly
  <2>5. \A l \in LaneIds : Served(s, u, l) => Served(s, t, l)
    BY <2>1, <2>2 DEF Served
  <2>. QED
    BY <1>2, <2>1, <2>4, <2>5
<1>. QED
  BY <1>1, <1>3, <1>4, Zenon

LEMMA SessionServed ==
  ASSUME TypeOK, Orderly(ses), SessionStep
  PROVE  /\ Orderly(ses') /\ (ses.closed => ses'.closed)
         /\ \A l \in LaneIds : LaneServed(ses, ses', l)
<1>1. ses \in Session
  BY DEF TypeOK, BackendTypeOK
<1>2. CASE Carried(ses, ses', LiveStreams(ses))
  BY <1>2, CarriedServed, Zenon DEF LaneServed
<1>3. ASSUME NEW l \in LaneIds, NEW t, LaneCreated(ses, t, l)
      PROVE  /\ t \in Session /\ Orderly(t) /\ t.closed = ses.closed
             /\ t.lanes[l].present /\ ~ses.lanes[l].present
             /\ t.lanes[l].owner = NoPoller /\ ~StreamOver(ses, 0)
             /\ \A o \in LaneIds : o # l => t.lanes[o] = ses.lanes[o]
             /\ \A o \in LaneIds : StreamOver(t, o) <=> StreamOver(ses, o)
  <2>1. NewLane.present /\ NewLane.owner = NoPoller
    BY DEF NewLane, NoLane
  <2>2. /\ t \in Session /\ Orderly(t)
        /\ t.closed = ses.closed /\ t.streams = ses.streams
        /\ t.closedOrder = ses.closedOrder
        /\ t.lanes[l] = NewLane
        /\ \A o \in LaneIds : o # l => t.lanes[o] = ses.lanes[o]
    BY <1>1, <1>3, CreatedFields
  <2>3. \A o \in LaneIds : StreamOver(t, o) <=> StreamOver(ses, o)
    BY <2>2, Zenon DEF StreamOver, WasClosed
  <2>. QED
    BY <1>3, <2>1, <2>2, <2>3 DEF LaneCreated, StreamOver
<1>4. ASSUME NEW l \in LaneIds, LaneCreated(ses, ses', l)
      PROVE  /\ Orderly(ses') /\ (ses.closed => ses'.closed)
             /\ \A o \in LaneIds : LaneServed(ses, ses', o)
  BY <1>3, <1>4 DEF LaneServed, Served
<1>5. ASSUME NEW h \in Pollers, NEW s \in Session, NEW r, Upload(r), Orderly(s),
             Uploads(h, r, s)
      PROVE  /\ Orderly(ses') /\ (ses.closed => ses'.closed)
             /\ \A o \in LaneIds : LaneServed(ses, ses', o)
  <2>1. r.lane \in LaneIds /\ (s = ses \/ LaneCreated(ses, s, r.lane))
    BY <1>5 DEF Uploads, Upload
  <2>2. CASE ses' = s
    <3>1. CASE s = ses
      <4>1. Carried(ses, ses, {})
        BY <1>1, BudgetCarried
      <4>. QED
        BY <2>2, <3>1, <4>1, CarriedServed, Zenon DEF LaneServed
    <3>. QED
      BY <1>4, <2>1, <2>2, <3>1
  <2>3. CASE BodyCarried(s, ses', r)
    <3>1. /\ Orderly(ses') /\ (s.closed => ses'.closed)
          /\ \A l \in LaneIds :
               ses'.lanes[l].present => s.lanes[l].present /\ Served(s, ses', l)
      BY <1>5, <2>3, BodyServed
    <3>2. CASE s = ses
      BY <3>1, <3>2, Zenon DEF LaneServed
    <3>3. CASE LaneCreated(ses, s, r.lane)
      <4>1. /\ s.closed = ses.closed
            /\ s.lanes[r.lane].present /\ ~ses.lanes[r.lane].present
            /\ s.lanes[r.lane].owner = NoPoller
            /\ \A o \in LaneIds : o # r.lane => s.lanes[o] = ses.lanes[o]
            /\ \A o \in LaneIds : StreamOver(s, o) <=> StreamOver(ses, o)
        BY <1>3, <2>1, <3>3
      <4>2. \A o \in LaneIds : o # r.lane /\ Served(s, ses', o) => Served(ses, ses', o)
        BY <4>1 DEF Served
      <4>3. Served(s, ses', r.lane) => ses'.lanes[r.lane].owner = NoPoller
        BY <4>1 DEF Served
      <4>. QED
        BY <3>1, <4>1, <4>2, <4>3 DEF LaneServed
    <3>. QED
      BY <2>1, <3>2, <3>3
  <2>. QED
    BY <1>5, <2>2, <2>3 DEF Uploads
<1>. QED
  BY <1>2, <1>4, <1>5, Zenon DEF SessionStep

-----------------------------------------------------------------------------
(* The polls that wait, for a session s, polls ps, tokens st in dropped    *)
(* objects and generations gen.                                            *)
Waits(p) == p.pc \in {"parked", "woken"}

Current(p, gen) == p.gen = gen[p.lane]

SameObject(p, q) == p.lane = q.lane /\ p.gen = q.gen

Due(s, p, gen) ==
  \/ ~Current(p, gen) \/ s.closed
  \/ s.lanes[p.lane].frames # <<>> \/ StreamOver(s, p.lane)

TokenFor(s, p, st, gen) ==
  \/ Current(p, gen) /\ s.lanes[p.lane].notify
  \/ ~Current(p, gen) /\ <<p.lane, p.gen>> \in st

(* A poll that waits for the object the map has follows the owner of the   *)
(* lane.                                                                   *)
Follows(s, p, h, gen) ==
  Waits(p) /\ Current(p, gen) =>
    /\ s.lanes[p.lane].present
    /\ p.superseded <=> s.lanes[p.lane].owner # h
    /\ s.lanes[p.lane].owner = h =>
         s.lanes[p.lane].unacked = <<>> /\ p.cursor = s.lanes[p.lane].downCursor

(* It has a token coming for what is due.                                  *)
Told(s, ps, h, st, gen) ==
  ps[h].pc = "parked" /\ ~ps[h].superseded /\ Due(s, ps[h], gen) =>
    \/ TokenFor(s, ps[h], st, gen)
    \/ \E g \in Pollers : ps[g].pc = "woken" /\ SameObject(ps[g], ps[h])

PollsOrderly(s, ps, st, gen) ==
  /\ \A h \in Pollers : ps[h].pc # "idle" => ps[h].gen <= gen[ps[h].lane]
  /\ \A l \in LaneIds, h \in Pollers :
       s.lanes[l].owner = h =>
         Waits(ps[h]) /\ ps[h].lane = l /\ Current(ps[h], gen)
  /\ \A g, h \in Pollers :
       g # h /\ Waits(ps[g]) /\ Waits(ps[h]) /\ SameObject(ps[g], ps[h]) =>
         ps[g].superseded \/ ps[h].superseded
  /\ \A h \in Pollers : Follows(s, ps[h], h, gen)
  /\ \A h \in Pollers : Told(s, ps, h, st, gen)

(* What runs check of the polls that wait.                                 *)
LEMMA PollsOrderlyMeans ==
  ASSUME TypeOK, PollsOrderly(ses, polls, stray, generation)
  PROVE  LaneOwnership /\ NoLostLaneWakeup
<1>1. \A h \in Pollers : polls[h].superseded \in BOOLEAN
  BY PollFields DEF TypeOK
<1>2. LaneOwnership
  BY <1>1 DEF PollsOrderly, Follows, LaneOwnership, Waiting, Waits, OnCurrent, Current
<1>3. ASSUME NEW h \in Pollers, polls[h].pc = "parked", Owns(h), Ended(ses, polls, h) # "no"
      PROVE  HasToken(h) \/ \E g \in Pollers : polls[g].pc = "woken" /\ Object(g) = Object(h)
  <2>1. ~polls[h].superseded
    BY <1>1, <1>3 DEF PollsOrderly, Follows, Waits, Owns, OnCurrent, Current
  <2>2. Due(ses, polls[h], generation)
    BY <1>3, Zenon DEF Ended, Due, Current
  <2>3. \/ TokenFor(ses, polls[h], stray, generation)
        \/ \E g \in Pollers : polls[g].pc = "woken" /\ SameObject(polls[g], polls[h])
    BY <1>3, <2>1, <2>2, Zenon DEF PollsOrderly, Told
  <2>4. CASE TokenFor(ses, polls[h], stray, generation)
    <3>1. HasToken(h)
      BY <2>4 DEF TokenFor, Current, HasToken, OnCurrent, Object
    <3>. QED
      BY <3>1
  <2>5. CASE \E g \in Pollers : polls[g].pc = "woken" /\ SameObject(polls[g], polls[h])
    BY <2>5, Zenon DEF SameObject, Object
  <2>. QED
    BY <2>3, <2>4, <2>5
<1>. QED
  BY <1>2, <1>3 DEF NoLostLaneWakeup

LEMMA PollsOrderlyElsewhere ==
  ASSUME TypeOK, TypeOK', Orderly(ses), PollsOrderly(ses, polls, stray, generation), Elsewhere
  PROVE  PollsOrderly(ses', polls', stray', generation')
<1>1. /\ \A l \in LaneIds : generation[l] \in Nat
      /\ \A h \in Pollers : polls[h].lane \in LaneIds /\ polls[h].gen \in Nat
                            /\ polls[h].superseded \in BOOLEAN
  BY PollFields DEF TypeOK
<1>2. \A l \in LaneIds : LaneServed(ses, ses', l) /\ (ses.closed => ses'.closed)
  BY SessionServed DEF Elsewhere
<1>3. \A l \in LaneIds :
        generation'[l] = IF ses.lanes[l].present /\ ~ses'.lanes[l].present
                         THEN generation[l] + 1 ELSE generation[l]
  BY DEF Elsewhere, ObjectsKept, Dropped
<1>4. \A l \in LaneIds : generation'[l] \in Nat /\ generation[l] <= generation'[l]
  BY <1>1, <1>3
<1>5. \A h \in Pollers :
        \/ polls'[h] = polls[h]
        \/ ~Waits(polls[h]) /\ polls'[h].pc = "idle"
  BY DEF Elsewhere, PollsStay, NoPoll, Waits
<1>6. \A h \in Pollers : polls'[h].pc # "idle" => polls'[h].gen <= generation'[polls'[h].lane]
  <2>. TAKE h \in Pollers
  <2>1. polls[h].pc # "idle" => polls[h].gen <= generation[polls[h].lane]
    BY DEF PollsOrderly
  <2>. QED
    BY <1>1, <1>4, <1>5, <2>1
<1>7. \A h \in Pollers : Waits(polls'[h]) => polls'[h] = polls[h]
  BY <1>5 DEF Waits
<1>8. \A h \in Pollers : Waits(polls[h]) => polls'[h] = polls[h]
  BY <1>5
<1>9. ASSUME NEW h \in Pollers, Waits(polls[h]), Current(polls[h], generation')
      PROVE  /\ Current(polls[h], generation)
             /\ ses.lanes[polls[h].lane].present /\ ses'.lanes[polls[h].lane].present
             /\ Served(ses, ses', polls[h].lane)
  <2>. DEFINE l == polls[h].lane
  <2>1. l \in LaneIds /\ polls[h].gen <= generation[l]
    BY <1>1, <1>9 DEF PollsOrderly, Waits
  <2>2. generation'[l] = generation[l]
    BY <1>1, <1>3, <1>9, <2>1 DEF Current
  <2>3. Current(polls[h], generation)
    BY <1>9, <2>2 DEF Current
  <2>4. ses.lanes[l].present
    BY <1>9, <2>3, Zenon DEF PollsOrderly, Follows
  <2>5. ses'.lanes[l].present
    BY <1>1, <1>3, <2>1, <2>2, <2>4
  <2>. QED
    BY <1>2, <2>1, <2>3, <2>4, <2>5 DEF LaneServed
<1>10. ASSUME NEW h \in Pollers, Waits(polls[h]), Current(polls[h], generation),
              ~Current(polls[h], generation')
       PROVE  polls[h].lane \in Dropped
  BY <1>1, <1>3, <1>10 DEF Current, Dropped
<1>11. ASSUME NEW l \in LaneIds, NEW h \in Pollers, ses'.lanes[l].owner = h
       PROVE  Waits(polls'[h]) /\ polls'[h].lane = l /\ Current(polls'[h], generation')
  <2>1. ses'.lanes[l].present
    <3>1. Orderly(ses')
      BY SessionServed DEF Elsewhere
    <3>2. ses'.lanes[l].present \/ ses'.lanes[l] = NoLane
      BY <3>1, Zenon DEF Orderly
    <3>. QED
      BY <1>11, <3>2, CarrierAssumption DEF NoLane
  <2>2. ses.lanes[l].present /\ ses.lanes[l].owner = h
    BY <1>2, <1>11, <2>1, CarrierAssumption DEF LaneServed, Served
  <2>3. Waits(polls[h]) /\ polls[h].lane = l /\ Current(polls[h], generation)
    BY <2>2 DEF PollsOrderly
  <2>4. generation'[l] = generation[l]
    BY <1>3, <2>1
  <2>. QED
    BY <1>8, <2>3, <2>4 DEF Current
<1>12. ASSUME NEW g \in Pollers, NEW h \in Pollers, g # h, Waits(polls'[g]), Waits(polls'[h]),
              SameObject(polls'[g], polls'[h])
       PROVE  polls'[g].superseded \/ polls'[h].superseded
  BY <1>7, <1>12 DEF PollsOrderly
<1>13. ASSUME NEW h \in Pollers PROVE Follows(ses', polls'[h], h, generation')
  <2>. SUFFICES ASSUME Waits(polls'[h]), Current(polls'[h], generation')
                PROVE  Follows(ses', polls'[h], h, generation')
    BY DEF Follows
  <2>1. polls'[h] = polls[h]
    BY <1>7
  <2>2. /\ Current(polls[h], generation) /\ ses'.lanes[polls[h].lane].present
        /\ Served(ses, ses', polls[h].lane)
    BY <1>9, <2>1
  <2>3. Follows(ses, polls[h], h, generation)
    BY DEF PollsOrderly
  <2>. QED
    BY <2>1, <2>2, <2>3 DEF Follows, Served
<1>14. ASSUME NEW h \in Pollers PROVE Told(ses', polls', h, stray', generation')
  <2>. SUFFICES ASSUME polls'[h].pc = "parked", ~polls'[h].superseded,
                       Due(ses', polls'[h], generation')
                PROVE  \/ TokenFor(ses', polls'[h], stray', generation')
                       \/ \E g \in Pollers :
                            polls'[g].pc = "woken" /\ SameObject(polls'[g], polls'[h])
    BY DEF Told
  <2>1. polls'[h] = polls[h] /\ Waits(polls[h])
    BY <1>7 DEF Waits
  <2>2. ASSUME NEW g \in Pollers, polls[g].pc = "woken", SameObject(polls[g], polls[h])
        PROVE  polls'[g].pc = "woken" /\ SameObject(polls'[g], polls'[h])
    BY <1>8, <2>1, <2>2 DEF Waits
  <2>3. Due(ses, polls[h], generation) =>
          \/ TokenFor(ses, polls[h], stray, generation)
          \/ \E g \in Pollers : polls[g].pc = "woken" /\ SameObject(polls[g], polls[h])
    BY <2>1, Zenon DEF PollsOrderly, Told
  <2>4. <<polls[h].lane, polls[h].gen>> \in stray
          \/ (Current(polls[h], generation) /\ polls[h].lane \in Dropped)
        => <<polls[h].lane, polls[h].gen>> \in stray'
    BY <2>1, Zenon DEF Elsewhere, ObjectsKept, Object, OnCurrent, Current, Waits
  <2>5. CASE ~Current(polls[h], generation')
    <3>1. CASE Current(polls[h], generation)
      BY <1>10, <2>1, <2>4, <2>5, <3>1 DEF TokenFor
    <3>2. CASE ~Current(polls[h], generation)
      <4>1. Due(ses, polls[h], generation)
        BY <3>2 DEF Due
      <4>2. CASE TokenFor(ses, polls[h], stray, generation)
        BY <2>1, <2>4, <2>5, <3>2, <4>2 DEF TokenFor
      <4>. QED
        BY <2>2, <2>3, <4>1, <4>2
    <3>. QED
      BY <3>1, <3>2
  <2>6. CASE Current(polls[h], generation')
    <3>1. Current(polls[h], generation) /\ Served(ses, ses', polls[h].lane)
      BY <1>9, <2>1, <2>6
    <3>2. CASE ses'.lanes[polls[h].lane].notify
      BY <2>1, <2>6, <3>2 DEF TokenFor
    <3>3. CASE ~ses'.lanes[polls[h].lane].notify
      <4>1. Due(ses, polls[h], generation)
        BY <2>1, <2>6, <3>1, <3>3 DEF Due, Served
      <4>2. ~TokenFor(ses, polls[h], stray, generation)
        BY <3>1, <3>3 DEF TokenFor, Served
      <4>. QED
        BY <2>2, <2>3, <4>1, <4>2
    <3>. QED
      BY <3>2, <3>3
  <2>. QED
    BY <2>5, <2>6
<1>. QED
  BY <1>6, <1>11, <1>12, <1>13, <1>14 DEF PollsOrderly

-----------------------------------------------------------------------------
(* PollLane.  It changes only the lane of its object, and of that nothing  *)
(* uplinks or streams know of.                                             *)
PollFrame(s, t) ==
  /\ t.closed = s.closed /\ t.streams = s.streams /\ t.closedOrder = s.closedOrder
  /\ \A l \in LaneIds :
       /\ t.lanes[l].present = s.lanes[l].present
       /\ t.lanes[l].lastUpSequence = s.lanes[l].lastUpSequence
       /\ t.lanes[l] = s.lanes[l] \/ s.lanes[l].present

(* A poll of an object leaves: what it did to the lane if it was its own,  *)
(* and a token if another poll might have waited for the one it had.       *)
LeavesLane(s, t, p, h, gen) ==
  /\ PollFrame(s, t)
  /\ \A l \in LaneIds : l # p.lane => t.lanes[l] = s.lanes[l]
  /\ ~Current(p, gen) => t.lanes[p.lane] = s.lanes[p.lane]
  /\ s.lanes[p.lane].notify => t.lanes[p.lane].notify
  /\ IF s.lanes[p.lane].owner = h THEN t.lanes[p.lane].owner = NoPoller
     ELSE /\ t.lanes[p.lane].owner = s.lanes[p.lane].owner
          /\ t.lanes[p.lane].frames = s.lanes[p.lane].frames
          /\ t.lanes[p.lane].unacked = s.lanes[p.lane].unacked
          /\ t.lanes[p.lane].downCursor = s.lanes[p.lane].downCursor

LEMMA PollGone ==
  ASSUME NEW s \in Session, NEW t, NEW ps \in [Pollers -> PollState], NEW st, NEW after,
         NEW gen \in [LaneIds -> Nat],
         PollsOrderly(s, ps, st, gen), NEW h \in Pollers, Waits(ps[h]),
         LeavesLane(s, t, ps[h], h, gen), st \subseteq after,
         \/ ps[h].pc = "parked" \/ ~ps[h].superseded
         \/ TokenFor(t, ps[h], after, gen)
  PROVE  PollsOrderly(t, [ps EXCEPT ![h] = NoPoll], after, gen)
<1>. DEFINE left == [ps EXCEPT ![h] = NoPoll]
<1>1. /\ \A g \in Pollers : ps[g].lane \in LaneIds /\ ps[g].gen \in Nat
                            /\ ps[g].superseded \in BOOLEAN
      /\ \A l \in LaneIds : s.lanes[l].owner \in Pollers \cup {NoPoller}
      /\ NoPoller \notin Pollers
  BY PollFields, SessionFields, LaneFields, CarrierAssumption
<1>2. left[h].pc = "idle" /\ \A g \in Pollers : g # h => left[g] = ps[g]
  BY DEF NoPoll
<1>. HIDE DEF left
<1>3. \A g \in Pollers : Waits(left[g]) => g # h /\ left[g] = ps[g]
  BY <1>2 DEF Waits
<1>4. \A g \in Pollers : left[g].pc # "idle" => left[g].gen <= gen[left[g].lane]
  BY <1>2 DEF PollsOrderly
<1>5. ASSUME NEW l \in LaneIds, NEW g \in Pollers, t.lanes[l].owner = g
      PROVE  Waits(left[g]) /\ left[g].lane = l /\ Current(left[g], gen)
  <2>1. s.lanes[l].owner = g /\ g # h
    <3>1. CASE l = ps[h].lane
      BY <1>1, <1>5, <3>1 DEF LeavesLane
    <3>2. CASE l # ps[h].lane
      <4>1. s.lanes[l].owner = g
        BY <1>5, <3>2 DEF LeavesLane
      <4>. QED
        BY <3>2, <4>1 DEF PollsOrderly
    <3>. QED
      BY <3>1, <3>2
  <2>. QED
    BY <1>2, <2>1 DEF PollsOrderly
<1>6. ASSUME NEW f \in Pollers, NEW g \in Pollers, f # g, Waits(left[f]), Waits(left[g]),
             SameObject(left[f], left[g])
      PROVE  left[f].superseded \/ left[g].superseded
  BY <1>3, <1>6 DEF PollsOrderly
<1>7. ASSUME NEW g \in Pollers PROVE Follows(t, left[g], g, gen)
  <2>. SUFFICES ASSUME Waits(left[g]), Current(left[g], gen) PROVE Follows(t, left[g], g, gen)
    BY DEF Follows
  <2>1. g # h /\ left[g] = ps[g]
    BY <1>3
  <2>2. Follows(s, ps[g], g, gen)
    BY DEF PollsOrderly
  <2>3. t.lanes[ps[g].lane].present = s.lanes[ps[g].lane].present
    BY <1>1 DEF LeavesLane, PollFrame
  <2>4. CASE s.lanes[ps[g].lane].owner = h
    <3>1. ps[g].lane = ps[h].lane
      BY <1>1, <2>4 DEF PollsOrderly
    <3>2. t.lanes[ps[g].lane].owner = NoPoller
      BY <2>4, <3>1 DEF LeavesLane
    <3>. QED
      BY <1>1, <2>1, <2>2, <2>3, <2>4, <3>2 DEF Follows
  <2>5. CASE s.lanes[ps[g].lane].owner # h
    <3>1. /\ t.lanes[ps[g].lane].owner = s.lanes[ps[g].lane].owner
          /\ t.lanes[ps[g].lane].unacked = s.lanes[ps[g].lane].unacked
          /\ t.lanes[ps[g].lane].downCursor = s.lanes[ps[g].lane].downCursor
      BY <1>1, <2>5 DEF LeavesLane
    <3>. QED
      BY <2>1, <2>2, <2>3, <3>1 DEF Follows
  <2>. QED
    BY <2>4, <2>5
<1>8. ASSUME NEW g \in Pollers PROVE Told(t, left, g, after, gen)
  <2>. SUFFICES ASSUME left[g].pc = "parked", ~left[g].superseded, Due(t, left[g], gen)
                PROVE  \/ TokenFor(t, left[g], after, gen)
                       \/ \E f \in Pollers :
                            left[f].pc = "woken" /\ SameObject(left[f], left[g])
    BY DEF Told
  <2>1. g # h /\ left[g] = ps[g] /\ Waits(ps[g])
    BY <1>3 DEF Waits
  <2>2. Due(s, ps[g], gen) =>
          \/ TokenFor(s, ps[g], st, gen)
          \/ \E f \in Pollers : ps[f].pc = "woken" /\ SameObject(ps[f], ps[g])
    BY <2>1, Zenon DEF PollsOrderly, Told
  <2>3. Follows(s, ps[g], g, gen)
    BY DEF PollsOrderly
  <2>4. s.lanes[ps[g].lane].owner # h \/ ~Current(ps[g], gen)
    BY <2>1, <2>3 DEF Follows
  <2>5. Current(ps[g], gen) =>
          /\ t.lanes[ps[g].lane].frames = s.lanes[ps[g].lane].frames
          /\ s.lanes[ps[g].lane].notify => t.lanes[ps[g].lane].notify
    BY <1>1, <2>4 DEF LeavesLane
  <2>6. Due(s, ps[g], gen)
    BY <2>1, <2>5, Zenon DEF Due, LeavesLane, PollFrame, StreamOver, WasClosed
  <2>7. CASE TokenFor(s, ps[g], st, gen)
    BY <2>1, <2>5, <2>7 DEF TokenFor
  <2>8. ASSUME NEW f \in Pollers, ps[f].pc = "woken", SameObject(ps[f], ps[g]), f # h
        PROVE  left[f].pc = "woken" /\ SameObject(left[f], left[g])
    BY <1>2, <2>1, <2>8
  <2>9. CASE ps[h].pc = "woken" /\ SameObject(ps[h], ps[g])
    <3>1. ps[h].superseded
      BY <1>1, <2>1, <2>9 DEF PollsOrderly
    <3>2. TokenFor(t, ps[h], after, gen)
      BY <2>9, <3>1
    <3>. QED
      BY <2>1, <2>9, <3>2 DEF TokenFor, SameObject, Current
  <2>. QED
    BY <2>2, <2>6, <2>7, <2>8, <2>9, Zenon
<1>9. PollsOrderly(t, left, after, gen)
  BY <1>4, <1>5, <1>6, <1>7, <1>8 DEF PollsOrderly
<1>. QED
  BY <1>9 DEF left

(* A poll takes the token of its object.                                   *)
LEMMA PollWoken ==
  ASSUME NEW s \in Session, NEW t, NEW ps \in [Pollers -> PollState], NEW st, NEW after,
         NEW gen \in [LaneIds -> Nat],
         PollsOrderly(s, ps, st, gen), NEW h \in Pollers, ps[h].pc = "parked",
         IF Current(ps[h], gen)
         THEN t = [s EXCEPT !.lanes[ps[h].lane].notify = FALSE] /\ after = st
         ELSE t = s /\ after = st \ {<<ps[h].lane, ps[h].gen>>}
  PROVE  PollsOrderly(t, [ps EXCEPT ![h].pc = "woken"], after, gen)
<1>. DEFINE awake == [ps EXCEPT ![h].pc = "woken"]
            l == ps[h].lane
<1>1. /\ \A g \in Pollers : ps[g] \in PollState /\ ps[g].lane \in LaneIds
                            /\ ps[g].superseded \in BOOLEAN
      /\ s.lanes \in [LaneIds -> Lane]
  BY PollFields, SessionFields
<1>2. /\ t.closed = s.closed /\ t.streams = s.streams /\ t.closedOrder = s.closedOrder
      /\ \A o \in LaneIds :
           /\ t.lanes[o].present = s.lanes[o].present /\ t.lanes[o].owner = s.lanes[o].owner
           /\ t.lanes[o].frames = s.lanes[o].frames
           /\ t.lanes[o].unacked = s.lanes[o].unacked
           /\ t.lanes[o].downCursor = s.lanes[o].downCursor
           /\ o # l => t.lanes[o] = s.lanes[o]
  <2>1. CASE t = s
    BY <2>1
  <2>2. CASE t = [s EXCEPT !.lanes[ps[h].lane].notify = FALSE]
    <3>. DEFINE x == Notified(s.lanes[l], FALSE)
    <3>1. t = PutLane(s, l, x)
      <4>1. l \in LaneIds
        BY <1>1
      <4>2. [s EXCEPT !.lanes[l].notify = FALSE] = PutLane(s, l, Notified(s.lanes[l], FALSE))
        BY <4>1, SetNotifyIs
      <4>. QED
        BY <2>2, <4>2, Zenon
    <3>2. SameButNotify(s.lanes[l], x)
      BY <1>1, NotifiedFields
    <3>. HIDE DEF x, l
    <3>3. /\ t.closed = s.closed /\ t.streams = s.streams /\ t.closedOrder = s.closedOrder
          /\ t.lanes[l] = x /\ \A o \in LaneIds : o # l => t.lanes[o] = s.lanes[o]
      <4>1. l \in LaneIds
        BY <1>1 DEF l
      <4>. QED
        BY <3>1, <4>1, SetLaneFields
    <3>. QED
      BY <3>2, <3>3, Zenon DEF SameButNotify
  <2>. QED
    BY <2>1, <2>2
<1>3. /\ awake[h].pc = "woken" /\ awake[h].lane = l /\ awake[h].gen = ps[h].gen
      /\ awake[h].superseded = ps[h].superseded /\ awake[h].cursor = ps[h].cursor
      /\ \A g \in Pollers : g # h => awake[g] = ps[g]
  BY <1>1 DEF PollState
<1>. HIDE DEF awake
<1>4. \A g \in Pollers :
        /\ awake[g].lane = ps[g].lane /\ awake[g].gen = ps[g].gen
        /\ awake[g].superseded = ps[g].superseded /\ awake[g].cursor = ps[g].cursor
        /\ (Waits(awake[g]) <=> Waits(ps[g])) /\ (awake[g].pc # "idle" => ps[g].pc # "idle")
        /\ (ps[g].pc = "woken" => awake[g].pc = "woken")
        /\ (Current(awake[g], gen) <=> Current(ps[g], gen))
  BY <1>3 DEF Waits, Current
<1>5. \A g \in Pollers : awake[g].pc # "idle" => awake[g].gen <= gen[awake[g].lane]
  BY <1>4 DEF PollsOrderly
<1>6. \A o \in LaneIds, g \in Pollers :
        t.lanes[o].owner = g => Waits(awake[g]) /\ awake[g].lane = o /\ Current(awake[g], gen)
  BY <1>2, <1>4 DEF PollsOrderly
<1>7. \A f, g \in Pollers :
        f # g /\ Waits(awake[f]) /\ Waits(awake[g]) /\ SameObject(awake[f], awake[g]) =>
          awake[f].superseded \/ awake[g].superseded
  BY <1>4 DEF PollsOrderly, SameObject
<1>8. ASSUME NEW g \in Pollers PROVE Follows(t, awake[g], g, gen)
  <2>1. Follows(s, ps[g], g, gen)
    BY DEF PollsOrderly
  <2>2. LET o == ps[g].lane IN
        /\ t.lanes[o].present = s.lanes[o].present /\ t.lanes[o].owner = s.lanes[o].owner
        /\ t.lanes[o].unacked = s.lanes[o].unacked
        /\ t.lanes[o].downCursor = s.lanes[o].downCursor
    BY <1>1, <1>2
  <2>3. /\ awake[g].lane = ps[g].lane /\ awake[g].superseded = ps[g].superseded
        /\ awake[g].cursor = ps[g].cursor
        /\ Waits(awake[g]) <=> Waits(ps[g])
        /\ Current(awake[g], gen) <=> Current(ps[g], gen)
    BY <1>4
  <2>. QED
    BY <2>1, <2>2, <2>3 DEF Follows
<1>9. ASSUME NEW g \in Pollers PROVE Told(t, awake, g, after, gen)
  <2>. SUFFICES ASSUME awake[g].pc = "parked", ~awake[g].superseded, Due(t, awake[g], gen)
                PROVE  \/ TokenFor(t, awake[g], after, gen)
                       \/ \E f \in Pollers :
                            awake[f].pc = "woken" /\ SameObject(awake[f], awake[g])
    BY DEF Told
  <2>1. g # h /\ awake[g] = ps[g]
    BY <1>3
  <2>2. Due(s, ps[g], gen)
    <3>1. /\ t.lanes[ps[g].lane].frames = s.lanes[ps[g].lane].frames
          /\ StreamOver(t, ps[g].lane) <=> StreamOver(s, ps[g].lane)
      BY <1>1, <1>2, Zenon DEF StreamOver, WasClosed
    <3>. QED
      BY <1>2, <2>1, <3>1, Zenon DEF Due
  <2>3. \/ TokenFor(s, ps[g], st, gen)
        \/ \E f \in Pollers : ps[f].pc = "woken" /\ SameObject(ps[f], ps[g])
    BY <2>1, <2>2, Zenon DEF PollsOrderly, Told
  <2>4. CASE \E f \in Pollers : ps[f].pc = "woken" /\ SameObject(ps[f], ps[g])
    BY <1>4, <2>4 DEF SameObject
  <2>5. CASE SameObject(ps[h], ps[g])
    BY <1>3, <2>1, <2>5 DEF SameObject
  <2>6. CASE TokenFor(s, ps[g], st, gen) /\ ~SameObject(ps[h], ps[g])
    <3>1. CASE Current(ps[h], gen)
      <4>1. ~Current(ps[g], gen) \/ ps[g].lane # l
        BY <2>6, <3>1 DEF Current, SameObject
      <4>. QED
        BY <1>1, <1>2, <2>1, <2>6, <3>1, <4>1 DEF TokenFor
    <3>2. CASE ~Current(ps[h], gen)
      <4>1. <<ps[g].lane, ps[g].gen>> # <<ps[h].lane, ps[h].gen>>
        BY <2>6 DEF SameObject
      <4>. QED
        BY <2>1, <2>6, <3>2, <4>1 DEF TokenFor
    <3>. QED
      BY <3>1, <3>2
  <2>. QED
    BY <2>3, <2>4, <2>5, <2>6
<1>10. PollsOrderly(t, awake, after, gen)
  BY <1>5, <1>6, <1>7, <1>8, <1>9 DEF PollsOrderly
<1>. QED
  BY <1>10 DEF awake

(* A poll that acknowledges what its lane delivered takes it over.         *)
Entering(s, l, h) == [AckUnacked(s, l) EXCEPT !.lanes[l].owner = h]

LEMMA EnteringFields ==
  ASSUME NEW s \in Session, NEW l \in LaneIds, NEW h \in Pollers
  PROVE  /\ Entering(s, l, h) \in Session
         /\ Entering(s, l, h).closed = s.closed /\ Entering(s, l, h).streams = s.streams
         /\ Entering(s, l, h).closedOrder = s.closedOrder
         /\ \A o \in LaneIds : o # l => Entering(s, l, h).lanes[o] = s.lanes[o]
         /\ Entering(s, l, h).lanes[l].present = s.lanes[l].present
         /\ Entering(s, l, h).lanes[l].lastUpSequence = s.lanes[l].lastUpSequence
         /\ Entering(s, l, h).lanes[l].frames = s.lanes[l].frames
         /\ Entering(s, l, h).lanes[l].unacked = <<>>
         /\ Entering(s, l, h).lanes[l].unackedCost = 0
         /\ Entering(s, l, h).lanes[l].unackedItems = 0
         /\ Entering(s, l, h).lanes[l].downCursor = s.lanes[l].downCursor
         /\ Entering(s, l, h).lanes[l].owner = h
         /\ Entering(s, l, h).lanes[l].notify = s.lanes[l].notify
<1>. DEFINE a == AckUnacked(s, l)
            lane == [s.lanes[l] EXCEPT !.unacked = <<>>, !.unackedCost = 0, !.unackedItems = 0]
            r == ReleasePending(s, s.lanes[l].unackedCost, s.lanes[l].unackedItems)
<1>1. s.lanes \in [LaneIds -> Lane] /\ s.lanes[l] \in Lane
      /\ s.lanes[l].unackedCost \in Int /\ s.lanes[l].unackedItems \in Int
  BY SessionFields, LaneFields
<1>2. r \in Session
  BY <1>1, ReleasePendingType
<1>3. /\ r.closed = s.closed /\ r.streams = s.streams /\ r.closedOrder = s.closedOrder
      /\ r.lanes = s.lanes
  <2>1. r = ReleasePending(s, s.lanes[l].unackedCost, s.lanes[l].unackedItems)
    OBVIOUS
  <2>. HIDE DEF r
  <2>. QED
    BY <2>1, ReleasePendingFields
<1>4. a = [r EXCEPT !.lanes = [s.lanes EXCEPT ![l] = lane]]
  BY <1>1, <1>2, <1>3 DEF AckUnacked, Session
<1>5. a \in Session
  BY AckUnackedType
<1>6. Entering(s, l, h) \in Session
  BY <1>5, SetOwnerType, Zenon DEF Entering
<1>. HIDE DEF a, r, lane
<1>7. /\ a.closed = s.closed /\ a.streams = s.streams /\ a.closedOrder = s.closedOrder
      /\ a.lanes = [s.lanes EXCEPT ![l] = lane]
  BY <1>2, <1>3, <1>4 DEF Session
<1>8. Entering(s, l, h) = [a EXCEPT !.lanes = [a.lanes EXCEPT ![l] = [lane EXCEPT !.owner = h]]]
  <2>1. a.lanes[l] = lane
    BY <1>1, <1>7
  <2>. QED
    BY <1>5, <2>1 DEF Entering, Session, a
<1>9. LET e == [lane EXCEPT !.owner = h]
      IN  /\ e.present = s.lanes[l].present /\ e.lastUpSequence = s.lanes[l].lastUpSequence
          /\ e.frames = s.lanes[l].frames /\ e.unacked = <<>>
          /\ e.unackedCost = 0 /\ e.unackedItems = 0
          /\ e.downCursor = s.lanes[l].downCursor
          /\ e.owner = h /\ e.notify = s.lanes[l].notify
  BY <1>1 DEF lane, Lane
<1>10. /\ Entering(s, l, h).closed = s.closed /\ Entering(s, l, h).streams = s.streams
       /\ Entering(s, l, h).closedOrder = s.closedOrder
       /\ Entering(s, l, h).lanes = [a.lanes EXCEPT ![l] = [lane EXCEPT !.owner = h]]
  BY <1>5, <1>7, <1>8 DEF Session
<1>. QED
  BY <1>1, <1>6, <1>7, <1>9, <1>10

(* It goes on as a poll that has just woken would.                         *)
Entered(h, l, cursor) == [Superseding(h, l, cursor) EXCEPT ![h].pc = "woken"]

LEMMA EnteredFields ==
  ASSUME TypeOK, NEW h \in Pollers, NEW l \in LaneIds, NEW cursor \in Nat
  PROVE  /\ Entered(h, l, cursor) \in [Pollers -> PollState]
         /\ Entered(h, l, cursor)[h].pc = "woken" /\ Entered(h, l, cursor)[h].lane = l
         /\ Entered(h, l, cursor)[h].gen = generation[l]
         /\ Entered(h, l, cursor)[h].cursor = cursor /\ ~Entered(h, l, cursor)[h].superseded
         /\ \A g \in Pollers : g # h =>
              /\ Entered(h, l, cursor)[g].pc = polls[g].pc
              /\ Entered(h, l, cursor)[g].lane = polls[g].lane
              /\ Entered(h, l, cursor)[g].gen = polls[g].gen
              /\ Entered(h, l, cursor)[g].cursor = polls[g].cursor
              /\ Entered(h, l, cursor)[g].superseded <=>
                   polls[g].superseded \/ g = ses.lanes[l].owner
<1>. DEFINE own == [NoPoll EXCEPT !.lane = l, !.gen = generation[l], !.cursor = cursor]
            mine == Superseding(h, l, cursor)
<1>1. polls \in [Pollers -> PollState] /\ generation[l] \in Nat
  BY DEF TypeOK
<1>2. NoPoll.pc = "idle" /\ ~NoPoll.superseded
  BY DEF NoPoll
<1>3. /\ own \in PollState /\ own.lane = l /\ own.gen = generation[l] /\ own.cursor = cursor
      /\ ~own.superseded
  <2>. HIDE DEF NoPoll
  <2>. QED
    BY <1>1, <1>2, NewStates DEF PollState
<1>. HIDE DEF own
<1>4. /\ mine[h] = own
      /\ \A g \in Pollers : g # h =>
           mine[g] = IF g = ses.lanes[l].owner THEN [polls[g] EXCEPT !.superseded = TRUE]
                                               ELSE polls[g]
  BY DEF Superseding, own
<1>5. \A g \in Pollers : g # h => mine[g] \in PollState
  BY <1>1, <1>4 DEF PollState
<1>6. mine \in [Pollers -> PollState]
  BY <1>3, <1>4, <1>5 DEF Superseding
<1>. HIDE DEF mine
<1>7. Entered(h, l, cursor) = [mine EXCEPT ![h].pc = "woken"]
  BY DEF Entered, mine
<1>8. /\ Entered(h, l, cursor)[h] = [own EXCEPT !.pc = "woken"]
      /\ [own EXCEPT !.pc = "woken"] \in PollState
      /\ [own EXCEPT !.pc = "woken"].pc = "woken"
      /\ [own EXCEPT !.pc = "woken"].lane = l /\ [own EXCEPT !.pc = "woken"].cursor = cursor
      /\ [own EXCEPT !.pc = "woken"].gen = generation[l]
      /\ ~[own EXCEPT !.pc = "woken"].superseded
  BY <1>3, <1>4, <1>6, <1>7 DEF PollState
<1>9. \A g \in Pollers : g # h => Entered(h, l, cursor)[g] = mine[g]
  BY <1>6, <1>7
<1>11. Entered(h, l, cursor) \in [Pollers -> PollState]
  BY <1>5, <1>6, <1>7, <1>8, <1>9
<1>12. ASSUME NEW g \in Pollers, g # h
       PROVE  /\ mine[g].pc = polls[g].pc /\ mine[g].lane = polls[g].lane
              /\ mine[g].gen = polls[g].gen /\ mine[g].cursor = polls[g].cursor
              /\ mine[g].superseded <=> polls[g].superseded \/ g = ses.lanes[l].owner
  <2>1. polls[g] \in PollState /\ polls[g].superseded \in BOOLEAN
    BY <1>1, PollFields
  <2>2. CASE g = ses.lanes[l].owner
    BY <1>4, <1>12, <2>1, <2>2 DEF PollState
  <2>3. CASE g # ses.lanes[l].owner
    BY <1>4, <1>12, <2>1, <2>3
  <2>. QED
    BY <2>2, <2>3
<1>. QED
  BY <1>8, <1>9, <1>11, <1>12

LEMMA PollEntered ==
  ASSUME TypeOK, PollsOrderly(ses, polls, stray, generation),
         NEW h \in Pollers, NEW l \in LaneIds, NEW cursor \in Nat,
         polls[h].pc = "idle", ses.lanes[l].present, cursor = ses.lanes[l].downCursor
  PROVE  PollsOrderly(Entering(ses, l, h), Entered(h, l, cursor), stray, generation)
<1>. DEFINE s == Entering(ses, l, h)
            ps == Entered(h, l, cursor)
<1>1. /\ ses \in Session /\ ses.lanes \in [LaneIds -> Lane] /\ ses.lanes[l] \in Lane
      /\ \A g \in Pollers : polls[g].lane \in LaneIds /\ polls[g].superseded \in BOOLEAN
      /\ generation[l] \in Nat
  BY PollFields, SessionFields DEF TypeOK, BackendTypeOK
<1>2. /\ s.closed = ses.closed /\ s.streams = ses.streams
      /\ s.closedOrder = ses.closedOrder
      /\ \A o \in LaneIds : o # l => s.lanes[o] = ses.lanes[o]
      /\ s.lanes[l].owner = h /\ s.lanes[l].unacked = <<>> /\ s.lanes[l].present
      /\ s.lanes[l].downCursor = cursor /\ s.lanes[l].notify = ses.lanes[l].notify
  BY <1>1, EnteringFields
<1>3. /\ ps[h].pc = "woken" /\ ps[h].lane = l /\ ps[h].gen = generation[l]
      /\ ps[h].cursor = cursor /\ ~ps[h].superseded
      /\ \A g \in Pollers : g # h =>
           /\ ps[g].pc = polls[g].pc /\ ps[g].lane = polls[g].lane
           /\ ps[g].gen = polls[g].gen /\ ps[g].cursor = polls[g].cursor
           /\ ps[g].superseded <=> polls[g].superseded \/ g = ses.lanes[l].owner
  BY EnteredFields
<1>. HIDE DEF s, ps
<1>4. \A g \in Pollers : g # h =>
        /\ Waits(ps[g]) <=> Waits(polls[g])
        /\ Current(ps[g], generation) <=> Current(polls[g], generation)
  BY <1>3 DEF Waits, Current
<1>5. ~Waits(polls[h])
  BY DEF Waits
<1>6. \A g \in Pollers : ps[g].pc # "idle" => ps[g].gen <= generation[ps[g].lane]
  BY <1>1, <1>3 DEF PollsOrderly
<1>7. ASSUME NEW o \in LaneIds, NEW g \in Pollers, s.lanes[o].owner = g
      PROVE  Waits(ps[g]) /\ ps[g].lane = o /\ Current(ps[g], generation)
  <2>1. CASE o = l
    BY <1>2, <1>3, <1>7, <2>1 DEF Waits, Current
  <2>2. CASE o # l
    <3>1. ses.lanes[o].owner = g
      BY <1>2, <1>7, <2>2
    <3>2. Waits(polls[g]) /\ polls[g].lane = o /\ Current(polls[g], generation)
      BY <3>1 DEF PollsOrderly
    <3>. QED
      BY <1>3, <1>4, <1>5, <3>2
  <2>. QED
    BY <2>1, <2>2
<1>8. ASSUME NEW g \in Pollers, g # h, Waits(ps[g]), ps[g].lane = l, Current(ps[g], generation)
      PROVE  ps[g].superseded
  <2>1. Follows(ses, polls[g], g, generation)
    BY DEF PollsOrderly
  <2>. QED
    BY <1>1, <1>3, <1>4, <1>8, <2>1 DEF Follows
<1>9. ASSUME NEW f \in Pollers, NEW g \in Pollers, f # g, Waits(ps[f]), Waits(ps[g]),
             SameObject(ps[f], ps[g])
      PROVE  ps[f].superseded \/ ps[g].superseded
  <2>1. CASE f = h
    BY <1>3, <1>8, <1>9, <2>1 DEF SameObject, Current
  <2>2. CASE g = h
    BY <1>3, <1>8, <1>9, <2>2 DEF SameObject, Current
  <2>3. CASE f # h /\ g # h
    BY <1>3, <1>4, <1>9, <2>3 DEF PollsOrderly, SameObject
  <2>. QED
    BY <2>1, <2>2, <2>3
<1>10. ASSUME NEW g \in Pollers PROVE Follows(s, ps[g], g, generation)
  <2>1. CASE g = h
    BY <1>2, <1>3, <2>1 DEF Follows
  <2>2. CASE g # h
    <3>. SUFFICES ASSUME Waits(ps[g]), Current(ps[g], generation)
                  PROVE  Follows(s, ps[g], g, generation)
      BY DEF Follows
    <3>1. Follows(ses, polls[g], g, generation)
      BY DEF PollsOrderly
    <3>2. CASE ps[g].lane = l
      BY <1>2, <1>8, <2>2, <3>2 DEF Follows
    <3>3. CASE ps[g].lane # l
      <4>1. g # ses.lanes[l].owner
        BY <1>3, <2>2, <3>3 DEF PollsOrderly
      <4>2. /\ ps[g].superseded <=> polls[g].superseded
            /\ s.lanes[ps[g].lane] = ses.lanes[ps[g].lane]
        BY <1>1, <1>2, <1>3, <2>2, <3>3, <4>1
      <4>. QED
        <5>1. Waits(polls[g]) /\ Current(polls[g], generation) /\ g # h
          BY <1>4, <2>2
        <5>2. ps[g].lane = polls[g].lane /\ ps[g].cursor = polls[g].cursor
          BY <1>3, <2>2
        <5>. QED
          BY <3>1, <4>2, <5>1, <5>2 DEF Follows
    <3>. QED
      BY <3>2, <3>3
  <2>. QED
    BY <2>1, <2>2
<1>11. ASSUME NEW g \in Pollers PROVE Told(s, ps, g, stray, generation)
  <2>. SUFFICES ASSUME ps[g].pc = "parked", ~ps[g].superseded, Due(s, ps[g], generation)
                PROVE  \/ TokenFor(s, ps[g], stray, generation)
                       \/ \E f \in Pollers : ps[f].pc = "woken" /\ SameObject(ps[f], ps[g])
    BY DEF Told
  <2>1. g # h /\ ps[g].lane = polls[g].lane /\ ps[g].gen = polls[g].gen
        /\ polls[g].pc = "parked" /\ ~polls[g].superseded
    BY <1>3
  <2>2. ps[g].lane # l \/ ~Current(ps[g], generation)
    BY <1>8, <2>1 DEF Waits
  <2>3. Current(ps[g], generation) => s.lanes[ps[g].lane] = ses.lanes[ps[g].lane]
    BY <1>1, <1>2, <2>1, <2>2
  <2>4. Due(ses, polls[g], generation)
    BY <1>2, <1>4, <2>1, <2>3, Zenon DEF Due, StreamOver, WasClosed
  <2>5. \/ TokenFor(ses, polls[g], stray, generation)
        \/ \E f \in Pollers : polls[f].pc = "woken" /\ SameObject(polls[f], polls[g])
    BY <2>1, <2>4, Zenon DEF PollsOrderly, Told
  <2>6. CASE TokenFor(ses, polls[g], stray, generation)
    BY <1>4, <2>1, <2>3, <2>6 DEF TokenFor
  <2>7. ASSUME NEW f \in Pollers, polls[f].pc = "woken", SameObject(polls[f], polls[g])
        PROVE  ps[f].pc = "woken" /\ SameObject(ps[f], ps[g])
    BY <1>3, <2>1, <2>7 DEF SameObject
  <2>. QED
    BY <2>5, <2>6, <2>7
<1>12. PollsOrderly(s, ps, stray, generation)
  BY <1>6, <1>7, <1>9, <1>10, <1>11 DEF PollsOrderly
<1>. QED
  BY <1>12 DEF s, ps

(* A poll that finds nothing waits.                                        *)
LEMMA PollParks ==
  ASSUME NEW s, NEW ps \in [Pollers -> PollState], NEW st, NEW gen,
         PollsOrderly(s, ps, st, gen), NEW h \in Pollers, Waits(ps[h]), ~Due(s, ps[h], gen)
  PROVE  PollsOrderly(s, [ps EXCEPT ![h].pc = "parked"], st, gen)
<1>. DEFINE asleep == [ps EXCEPT ![h].pc = "parked"]
<1>1. /\ asleep[h].pc = "parked" /\ asleep[h].lane = ps[h].lane /\ asleep[h].gen = ps[h].gen
      /\ asleep[h].superseded = ps[h].superseded /\ asleep[h].cursor = ps[h].cursor
      /\ \A g \in Pollers : g # h => asleep[g] = ps[g]
  BY DEF PollState
<1>. HIDE DEF asleep
<1>2. \A g \in Pollers :
        /\ asleep[g].lane = ps[g].lane /\ asleep[g].gen = ps[g].gen
        /\ asleep[g].superseded = ps[g].superseded /\ asleep[g].cursor = ps[g].cursor
        /\ (Waits(asleep[g]) <=> Waits(ps[g])) /\ (asleep[g].pc # "idle" => ps[g].pc # "idle")
        /\ (Current(asleep[g], gen) <=> Current(ps[g], gen))
        /\ (Due(s, asleep[g], gen) <=> Due(s, ps[g], gen))
  BY <1>1 DEF Waits, Current, Due
<1>3. \A g \in Pollers : asleep[g].pc # "idle" => asleep[g].gen <= gen[asleep[g].lane]
  BY <1>2 DEF PollsOrderly
<1>4. \A o \in LaneIds, g \in Pollers :
        s.lanes[o].owner = g => Waits(asleep[g]) /\ asleep[g].lane = o /\ Current(asleep[g], gen)
  BY <1>2 DEF PollsOrderly
<1>5. \A f, g \in Pollers :
        f # g /\ Waits(asleep[f]) /\ Waits(asleep[g]) /\ SameObject(asleep[f], asleep[g]) =>
          asleep[f].superseded \/ asleep[g].superseded
  BY <1>2 DEF PollsOrderly, SameObject
<1>6. ASSUME NEW g \in Pollers PROVE Follows(s, asleep[g], g, gen)
  <2>1. Follows(s, ps[g], g, gen)
    BY DEF PollsOrderly
  <2>. QED
    BY <1>2, <2>1 DEF Follows
<1>7. ASSUME NEW g \in Pollers PROVE Told(s, asleep, g, st, gen)
  <2>. SUFFICES ASSUME asleep[g].pc = "parked", ~asleep[g].superseded, Due(s, asleep[g], gen)
                PROVE  \/ TokenFor(s, asleep[g], st, gen)
                       \/ \E f \in Pollers :
                            asleep[f].pc = "woken" /\ SameObject(asleep[f], asleep[g])
    BY DEF Told
  <2>1. Due(s, ps[g], gen) /\ g # h /\ asleep[g] = ps[g]
    BY <1>1, <1>2
  <2>2. \/ TokenFor(s, ps[g], st, gen)
        \/ \E f \in Pollers : ps[f].pc = "woken" /\ SameObject(ps[f], ps[g])
    BY <2>1, Zenon DEF PollsOrderly, Told
  <2>3. ~SameObject(ps[h], ps[g])
    BY <2>1 DEF SameObject, Due, Current
  <2>. QED
    BY <1>1, <2>1, <2>2, <2>3, Zenon
<1>8. PollsOrderly(s, asleep, st, gen)
  BY <1>3, <1>4, <1>5, <1>6, <1>7 DEF PollsOrderly
<1>. QED
  BY <1>8 DEF asleep

LEMMA SameFrame == ASSUME NEW s PROVE PollFrame(s, s)
BY DEF PollFrame

(* What a poll does to its lane as it answers.                             *)
LEMMA LaneReplaced ==
  ASSUME NEW s \in Session, NEW p, p.lane \in LaneIds, NEW h \in Pollers, NEW gen, NEW lane,
         Current(p, gen), s.lanes[p.lane].present,
         lane.present = s.lanes[p.lane].present,
         lane.lastUpSequence = s.lanes[p.lane].lastUpSequence,
         lane.notify = s.lanes[p.lane].notify,
         s.lanes[p.lane].owner = h, lane.owner = NoPoller
  PROVE  LeavesLane(s, [s EXCEPT !.lanes[p.lane] = lane], p, h, gen)
<1>. DEFINE t == [s EXCEPT !.lanes[p.lane] = lane]
<1>1. /\ t.closed = s.closed /\ t.streams = s.streams /\ t.closedOrder = s.closedOrder
      /\ t.lanes[p.lane] = lane
      /\ \A o \in LaneIds : o # p.lane => t.lanes[o] = s.lanes[o]
  BY SessionFields DEF Session
<1>. HIDE DEF t
<1>2. PollFrame(s, t)
  BY <1>1 DEF PollFrame
<1>3. LeavesLane(s, t, p, h, gen)
  BY <1>1, <1>2 DEF LeavesLane
<1>. QED
  BY <1>3 DEF t

LEMMA OwnerCleared ==
  ASSUME NEW s \in Session, NEW p, p.lane \in LaneIds, NEW h \in Pollers, NEW gen,
         Current(p, gen), s.lanes[p.lane].present, s.lanes[p.lane].owner = h
  PROVE  LeavesLane(s, [s EXCEPT !.lanes[p.lane].owner = NoPoller], p, h, gen)
<1>. DEFINE lane == [s.lanes[p.lane] EXCEPT !.owner = NoPoller]
<1>1. s.lanes[p.lane] \in Lane
  BY SessionFields
<1>2. /\ lane.present = s.lanes[p.lane].present
      /\ lane.lastUpSequence = s.lanes[p.lane].lastUpSequence
      /\ lane.notify = s.lanes[p.lane].notify /\ lane.owner = NoPoller
  BY <1>1 DEF Lane
<1>3. [s EXCEPT !.lanes[p.lane].owner = NoPoller] = [s EXCEPT !.lanes[p.lane] = lane]
  BY <1>1 DEF Session
<1>. HIDE DEF lane
<1>. QED
  BY <1>2, <1>3, LaneReplaced

LEMMA LeavesAlone ==
  ASSUME NEW s, NEW p, NEW h, NEW gen, s.lanes[p.lane].owner # h
  PROVE  LeavesLane(s, s, p, h, gen)
BY SameFrame DEF LeavesLane

(* The loop of PollLane, for a poll that has not been superseded.          *)
LEMMA PollLoopsOrderly ==
  ASSUME TypeOK, NEW s \in Session, NEW ps \in [Pollers -> PollState],
         PollsOrderly(s, ps, stray, generation), NEW h \in Pollers, Waits(ps[h]),
         ~ps[h].superseded, PollLoops(s, ps, h)
  PROVE  PollsOrderly(ses', polls', stray, generation) /\ PollFrame(s, ses')
<1>. DEFINE p == ps[h]
            l == ps[h].lane
            found == Ended(s, ps, h)
<1>1. /\ p \in PollState /\ l \in LaneIds /\ p.cursor \in Nat /\ p.superseded \in BOOLEAN
      /\ s.lanes[l] \in Lane /\ generation \in [LaneIds -> Nat] /\ NoPoller \notin Pollers
  BY PollFields, SessionFields, CarrierAssumption DEF TypeOK
<1>2. Current(p, generation) => s.lanes[l].present /\ s.lanes[l].owner = h
  BY <1>1 DEF PollsOrderly, Follows
<1>3. ~Current(p, generation) => s.lanes[l].owner # h
  BY <1>1, Zenon DEF PollsOrderly
<1>4. ASSUME LeavesLane(s, ses', p, h, generation), polls' = [ps EXCEPT ![h] = NoPoll]
      PROVE  PollsOrderly(ses', polls', stray, generation) /\ PollFrame(s, ses')
  <2>1. PollsOrderly(ses', [ps EXCEPT ![h] = NoPoll], stray, generation)
    BY <1>1, <1>4, PollGone
  <2>. QED
    BY <1>4, <2>1 DEF LeavesLane
<1>5. CASE found = "batch"
  <2>1. Current(p, generation)
    BY <1>5 DEF Ended, Current
  <2>2. PICK k \in 1 .. Len(s.lanes[l].frames) :
          ses' = [s EXCEPT !.lanes[l] = TakeBatch(@, k, ps[h].cursor)]
    BY <1>5 DEF PollLoops
  <2>. DEFINE lane == TakeBatch(s.lanes[l], k, p.cursor)
  <2>3. ses' = [s EXCEPT !.lanes[p.lane] = lane]
    BY <1>1, <2>2 DEF Session
  <2>4. /\ lane.present = s.lanes[l].present
        /\ lane.lastUpSequence = s.lanes[l].lastUpSequence
        /\ lane.notify = s.lanes[l].notify /\ lane.owner = NoPoller
    BY <1>1 DEF TakeBatch, Lane
  <2>. HIDE DEF lane
  <2>5. LeavesLane(s, [s EXCEPT !.lanes[p.lane] = lane], p, h, generation)
    BY <1>1, <1>2, <2>1, <2>4, LaneReplaced
  <2>6. polls' = [ps EXCEPT ![h] = NoPoll]
    BY <1>5 DEF PollLoops, PollAnswers
  <2>. QED
    BY <1>4, <2>3, <2>5, <2>6
<1>6. CASE found \in {"failed", "closed"}
  <2>1. polls' = [ps EXCEPT ![h] = NoPoll]
    BY <1>6 DEF PollLoops, PollAnswers
  <2>2. CASE Current(p, generation)
    <3>1. ses' = [s EXCEPT !.lanes[l].owner = NoPoller]
      BY <1>6, <2>2 DEF PollLoops, Current
    <3>2. LeavesLane(s, [s EXCEPT !.lanes[p.lane].owner = NoPoller], p, h, generation)
      BY <1>1, <1>2, <2>2, OwnerCleared
    <3>. QED
      BY <1>4, <2>1, <3>1, <3>2
  <2>3. CASE ~Current(p, generation)
    <3>1. ses' = s
      BY <1>6, <2>3 DEF PollLoops, Current
    <3>2. LeavesLane(s, s, p, h, generation)
      BY <1>3, <2>3, LeavesAlone
    <3>. QED
      BY <1>4, <2>1, <3>1, <3>2
  <2>. QED
    BY <2>2, <2>3
<1>7. CASE found = "no"
  <2>1. ses' = s /\ polls' = [ps EXCEPT ![h].pc = "parked"]
    BY <1>7 DEF PollLoops
  <2>2. ~Due(s, p, generation)
    BY <1>7, Zenon DEF Ended, Due, Current
  <2>3. PollsOrderly(s, [ps EXCEPT ![h].pc = "parked"], stray, generation)
    BY <2>2, PollParks
  <2>. QED
    BY <2>1, <2>3, SameFrame
<1>. QED
  BY <1>5, <1>6, <1>7 DEF PollLoops

(* The ways in which a poll moves.                                         *)
MayLeave(p, gen) == p.pc = "idle" \/ (p.pc = "failing" /\ p.gen <= gen[p.lane])

LEMMA PollTurnedAway ==
  ASSUME NEW s, NEW ps \in [Pollers -> PollState], NEW st, NEW gen,
         PollsOrderly(s, ps, st, gen), NEW h \in Pollers, ~Waits(ps[h]),
         NEW p, MayLeave(p, gen)
  PROVE  PollsOrderly(s, [ps EXCEPT ![h] = p], st, gen)
<1>. DEFINE after == [ps EXCEPT ![h] = p]
<1>1. after[h] = p /\ \A g \in Pollers : g # h => after[g] = ps[g]
  OBVIOUS
<1>. HIDE DEF after
<1>2. \A g \in Pollers : (Waits(after[g]) => after[g] = ps[g]) /\ (Waits(ps[g]) => after[g] = ps[g])
  BY <1>1 DEF Waits, MayLeave
<1>3. \A g \in Pollers : after[g].pc # "idle" => after[g].gen <= gen[after[g].lane]
  BY <1>1 DEF PollsOrderly, MayLeave
<1>4. \A o \in LaneIds, g \in Pollers :
        s.lanes[o].owner = g => Waits(after[g]) /\ after[g].lane = o /\ Current(after[g], gen)
  BY <1>2 DEF PollsOrderly
<1>5. \A f, g \in Pollers :
        f # g /\ Waits(after[f]) /\ Waits(after[g]) /\ SameObject(after[f], after[g]) =>
          after[f].superseded \/ after[g].superseded
  BY <1>2 DEF PollsOrderly
<1>6. ASSUME NEW g \in Pollers PROVE Follows(s, after[g], g, gen)
  BY <1>2 DEF PollsOrderly, Follows
<1>7. ASSUME NEW g \in Pollers PROVE Told(s, after, g, st, gen)
  <2>1. Told(s, ps, g, st, gen)
    BY DEF PollsOrderly
  <2>. QED
    BY <1>1, <1>2, <2>1 DEF Told, Waits
<1>8. PollsOrderly(s, after, st, gen)
  BY <1>3, <1>4, <1>5, <1>6, <1>7 DEF PollsOrderly
<1>. QED
  BY <1>8 DEF after

LEMMA LoopsAsEntered ==
  ASSUME TypeOK, NEW h \in Pollers, NEW l \in LaneIds, NEW cursor \in Nat, NEW s,
         PollLoops(s, Superseding(h, l, cursor), h)
  PROVE  PollLoops(s, Entered(h, l, cursor), h)
<1>. DEFINE mine == Superseding(h, l, cursor)
            ps == Entered(h, l, cursor)
<1>1. mine[h] = [NoPoll EXCEPT !.lane = l, !.gen = generation[l], !.cursor = cursor]
      /\ mine = [g \in Pollers |-> mine[g]]
  BY DEF Superseding
<1>2. mine[h].lane = l /\ mine[h].gen = generation[l] /\ mine[h].cursor = cursor
  BY <1>1 DEF NoPoll
<1>3. ps = [mine EXCEPT ![h].pc = "woken"]
  BY DEF Entered
<1>4. ps[h].lane = l /\ ps[h].gen = generation[l] /\ ps[h].cursor = cursor
  BY EnteredFields
<1>5. /\ [ps EXCEPT ![h] = NoPoll] = [mine EXCEPT ![h] = NoPoll]
      /\ [ps EXCEPT ![h].pc = "parked"] = [mine EXCEPT ![h].pc = "parked"]
  <2>. HIDE DEF mine
  <2>. QED
    BY <1>1, <1>3 DEF NoPoll
<1>6. Ended(s, mine, h) = Ended(s, ps, h)
  BY <1>2, <1>4, Zenon DEF Ended
<1>7. PollLoops(s, mine, h)
  OBVIOUS
<1>. HIDE DEF mine, ps
<1>8. PollLoops(s, ps, h)
  BY <1>2, <1>4, <1>5, <1>6, <1>7, Zenon DEF PollLoops, PollAnswers
<1>. QED
  BY <1>8 DEF ps

LEMMA PollLaneOrderly ==
  ASSUME TypeOK, PollsOrderly(ses, polls, stray, generation),
         NEW h \in Pollers, NEW l \in LaneIds, NEW cursor \in Nat, PollLane(h, l, cursor)
  PROVE  PollsOrderly(ses', polls', stray, generation) /\ PollFrame(ses, ses')
<1>1. /\ ses \in Session /\ polls \in [Pollers -> PollState] /\ generation[l] \in Nat
      /\ polls[h].pc = "idle" /\ ~Waits(polls[h])
  BY DEF TypeOK, BackendTypeOK, PollLane, Waits
<1>. DEFINE failing == [NoPoll EXCEPT !.pc = "failing", !.lane = l, !.gen = generation[l]]
<1>2. CASE UNCHANGED ses /\ polls' = [polls EXCEPT ![h] = NoPoll]
  <2>1. MayLeave(NoPoll, generation)
    BY DEF NoPoll, MayLeave
  <2>2. PollsOrderly(ses, [polls EXCEPT ![h] = NoPoll], stray, generation)
    BY <1>1, <2>1, PollTurnedAway
  <2>. QED
    BY <1>2, <2>2, SameFrame
<1>3. CASE UNCHANGED ses /\ polls' = [polls EXCEPT ![h] = failing]
  <2>1. MayLeave(failing, generation)
    BY <1>1 DEF NoPoll, MayLeave
  <2>. HIDE DEF failing
  <2>2. PollsOrderly(ses, [polls EXCEPT ![h] = failing], stray, generation)
    BY <1>1, <2>1, PollTurnedAway
  <2>. QED
    BY <1>3, <2>2, SameFrame
<1>4. CASE /\ ses.lanes[l].present /\ cursor = ses.lanes[l].downCursor
           /\ PollLoops(Entering(ses, l, h), Superseding(h, l, cursor), h)
  <2>. DEFINE s == Entering(ses, l, h)
              ps == Entered(h, l, cursor)
  <2>1. PollLoops(s, ps, h)
    BY <1>4, LoopsAsEntered
  <2>2. PollsOrderly(s, ps, stray, generation)
    BY <1>1, <1>4, PollEntered
  <2>3. s \in Session /\ PollFrame(ses, s)
    <3>1. /\ s \in Session /\ s.closed = ses.closed /\ s.streams = ses.streams
          /\ s.closedOrder = ses.closedOrder
          /\ \A o \in LaneIds : o # l => s.lanes[o] = ses.lanes[o]
          /\ s.lanes[l].present = ses.lanes[l].present
          /\ s.lanes[l].lastUpSequence = ses.lanes[l].lastUpSequence
      BY <1>1, EnteringFields
    <3>. HIDE DEF s
    <3>2. \A o \in LaneIds :
            /\ s.lanes[o].present = ses.lanes[o].present
            /\ s.lanes[o].lastUpSequence = ses.lanes[o].lastUpSequence
            /\ s.lanes[o] = ses.lanes[o] \/ ses.lanes[o].present
      <4>. TAKE o \in LaneIds
      <4>1. CASE o = l
        <5>1. ses.lanes[l].present
          BY <1>4
        <5>. QED
          BY <3>1, <4>1, <5>1, Zenon
      <4>2. CASE o # l
        BY <3>1, <4>2
      <4>. QED
        BY <4>1, <4>2
    <3>. QED
      BY <3>1, <3>2, Zenon DEF PollFrame
  <2>4. ps \in [Pollers -> PollState] /\ ps[h].pc = "woken" /\ ~ps[h].superseded
    BY EnteredFields
  <2>5. Waits(ps[h])
    BY <2>4 DEF Waits
  <2>. HIDE DEF s, ps
  <2>6. PollsOrderly(ses', polls', stray, generation) /\ PollFrame(s, ses')
    BY <2>1, <2>2, <2>3, <2>4, <2>5, PollLoopsOrderly
  <2>7. PollFrame(ses, ses')
    BY <2>3, <2>6 DEF PollFrame
  <2>. QED
    BY <2>6, <2>7
<1>. HIDE DEF failing
<1>. QED
  BY <1>2, <1>3, <1>4 DEF PollLane, PollAnswers, Entering, failing

LEMMA DisownLeaves ==
  ASSUME TypeOK, PollsOrderly(ses, polls, stray, generation), NEW h \in Pollers,
         Waits(polls[h])
  PROVE  LeavesLane(ses, Disown(ses, h), polls[h], h, generation)
<1>1. ses \in Session /\ polls[h].lane \in LaneIds
  BY PollFields DEF TypeOK, BackendTypeOK
<1>2. CASE ses.lanes[polls[h].lane].owner = h
  <2>1. Current(polls[h], generation)
    BY <1>1, <1>2 DEF PollsOrderly
  <2>2. ses.lanes[polls[h].lane].present
    BY <2>1, Zenon DEF PollsOrderly, Follows
  <2>3. Disown(ses, h) = [ses EXCEPT !.lanes[polls[h].lane].owner = NoPoller]
    BY <1>2, <2>1, Zenon DEF Disown, OnCurrent, Current
  <2>. QED
    BY <1>1, <1>2, <2>1, <2>2, <2>3, OwnerCleared
<1>3. CASE ses.lanes[polls[h].lane].owner # h
  <2>1. Disown(ses, h) = ses
    BY <1>3, Zenon DEF Disown
  <2>. QED
    BY <1>3, <2>1, LeavesAlone
<1>. QED
  BY <1>2, <1>3

LEMMA TokenLeaves ==
  ASSUME TypeOK, PollsOrderly(ses, polls, stray, generation), NEW h \in Pollers,
         Waits(polls[h]), polls[h].superseded, TokenReturned(h)
  PROVE  /\ LeavesLane(ses, ses', polls[h], h, generation)
         /\ stray \subseteq stray' /\ TokenFor(ses', polls[h], stray', generation)
<1>. DEFINE l == polls[h].lane
<1>1. ses \in Session /\ l \in LaneIds /\ ses.lanes \in [LaneIds -> Lane]
  BY PollFields, SessionFields DEF TypeOK, BackendTypeOK
<1>2. Current(polls[h], generation) => ses.lanes[l].present
  BY Zenon DEF PollsOrderly, Follows
<1>3. ses.lanes[l].owner # h
  <2>1. Follows(ses, polls[h], h, generation)
    BY DEF PollsOrderly
  <2>2. ses.lanes[l].owner = h => Current(polls[h], generation)
    BY <1>1 DEF PollsOrderly
  <2>. QED
    BY <2>1, <2>2 DEF Follows
<1>4. CASE Current(polls[h], generation)
  <2>1. ses' = [ses EXCEPT !.lanes[l].notify = TRUE] /\ stray' = stray
    BY <1>4 DEF TokenReturned, OnCurrent, Current
  <2>. DEFINE x == Notified(ses.lanes[l], TRUE)
  <2>2. ses' = PutLane(ses, l, x) /\ SameButNotify(ses.lanes[l], x) /\ x.notify
    <3>1. ses' = PutLane(ses, l, x)
      <4>1. [ses EXCEPT !.lanes[l].notify = TRUE] = PutLane(ses, l, Notified(ses.lanes[l], TRUE))
        BY <1>1, SetNotifyIs
      <4>. QED
        BY <2>1, <4>1, Zenon
    <3>2. SameButNotify(ses.lanes[l], x) /\ x.notify = TRUE
      BY <1>1, NotifiedFields
    <3>. QED
      BY <3>1, <3>2
  <2>. HIDE DEF x
  <2>3. /\ ses'.closed = ses.closed /\ ses'.streams = ses.streams
        /\ ses'.closedOrder = ses.closedOrder
        /\ ses'.lanes[l] = x /\ \A o \in LaneIds : o # l => ses'.lanes[o] = ses.lanes[o]
    BY <1>1, <2>2, SetLaneFields
  <2>4. /\ \A o \in LaneIds : o # l => ses'.lanes[o] = ses.lanes[o]
        /\ ses'.lanes[l].present = ses.lanes[l].present
        /\ ses'.lanes[l].lastUpSequence = ses.lanes[l].lastUpSequence
        /\ ses'.lanes[l].owner = ses.lanes[l].owner
        /\ ses'.lanes[l].frames = ses.lanes[l].frames
        /\ ses'.lanes[l].unacked = ses.lanes[l].unacked
        /\ ses'.lanes[l].downCursor = ses.lanes[l].downCursor
        /\ ses'.lanes[l].notify
    BY <2>2, <2>3, Zenon DEF SameButNotify
  <2>5. PollFrame(ses, ses')
    BY <1>2, <1>4, <2>3, <2>4 DEF PollFrame
  <2>6. LeavesLane(ses, ses', polls[h], h, generation)
    BY <1>3, <1>4, <2>4, <2>5 DEF LeavesLane
  <2>. QED
    BY <1>4, <2>1, <2>4, <2>6 DEF TokenFor
<1>5. CASE ~Current(polls[h], generation)
  <2>1. ses' = ses /\ stray' = stray \cup {<<l, polls[h].gen>>}
    BY <1>5 DEF TokenReturned, OnCurrent, Current, Object
  <2>2. LeavesLane(ses, ses, polls[h], h, generation)
    BY <1>3, LeavesAlone
  <2>. QED
    BY <1>5, <2>1, <2>2 DEF TokenFor
<1>. QED
  BY <1>4, <1>5

LEMMA WokenFrame ==
  ASSUME TypeOK, PollsOrderly(ses, polls, stray, generation), NEW h \in Pollers, PollWakes(h)
  PROVE  PollFrame(ses, ses')
<1>. DEFINE l == polls[h].lane
<1>1. ses \in Session /\ l \in LaneIds /\ ses.lanes \in [LaneIds -> Lane]
  BY PollFields, SessionFields DEF TypeOK, BackendTypeOK
<1>2. CASE OnCurrent(h)
  <2>1. Follows(ses, polls[h], h, generation)
    BY DEF PollsOrderly
  <2>2. ses.lanes[l].present
    BY <1>2, <2>1 DEF Follows, Waits, Current, OnCurrent, PollWakes
  <2>3. ses' = [ses EXCEPT !.lanes = [ses.lanes EXCEPT ![l] = [ses.lanes[l] EXCEPT !.notify = FALSE]]]
    BY <1>1, <1>2 DEF Session, PollWakes
  <2>4. /\ ses'.closed = ses.closed /\ ses'.streams = ses.streams
        /\ ses'.closedOrder = ses.closedOrder
        /\ ses'.lanes = [ses.lanes EXCEPT ![l] = [ses.lanes[l] EXCEPT !.notify = FALSE]]
    BY <1>1, <2>3 DEF Session
  <2>5. /\ \A o \in LaneIds : o # l => ses'.lanes[o] = ses.lanes[o]
        /\ ses'.lanes[l].present = ses.lanes[l].present
        /\ ses'.lanes[l].lastUpSequence = ses.lanes[l].lastUpSequence
    BY <1>1, <2>4 DEF Lane
  <2>. QED
    BY <2>2, <2>4, <2>5 DEF PollFrame
<1>3. CASE ~OnCurrent(h)
  <2>1. ses' = ses
    BY <1>3 DEF PollWakes
  <2>. QED
    BY <2>1, SameFrame
<1>. QED
  BY <1>2, <1>3

LEMMA OwnsUnlessSuperseded ==
  ASSUME PollsOrderly(ses, polls, stray, generation), NEW h \in Pollers, Waits(polls[h])
  PROVE  Owns(h) <=> ~polls[h].superseded
<1>1. Follows(ses, polls[h], h, generation)
  BY DEF PollsOrderly
<1>2. CASE OnCurrent(h)
  <2>1. polls[h].superseded <=> ses.lanes[polls[h].lane].owner # h
    BY <1>1, <1>2 DEF Follows, OnCurrent, Current
  <2>. QED
    BY <1>2, <2>1 DEF Owns
<1>3. CASE ~OnCurrent(h)
  BY <1>3, Zenon DEF Owns
<1>. QED
  BY <1>2, <1>3

(* A poll that was superseded returns the token it may have.               *)
LEMMA PollReturnsToken ==
  ASSUME TypeOK, PollsOrderly(ses, polls, stray, generation), NEW h \in Pollers,
         Waits(polls[h]), polls[h].superseded, TokenReturned(h),
         polls' = [polls EXCEPT ![h] = NoPoll]
  PROVE  PollsOrderly(ses', polls', stray', generation) /\ PollFrame(ses, ses')
<1>1. /\ LeavesLane(ses, ses', polls[h], h, generation)
      /\ stray \subseteq stray' /\ TokenFor(ses', polls[h], stray', generation)
  BY TokenLeaves
<1>2. ses \in Session /\ polls \in [Pollers -> PollState] /\ generation \in [LaneIds -> Nat]
  BY DEF TypeOK, BackendTypeOK
<1>3. PollsOrderly(ses', [polls EXCEPT ![h] = NoPoll], stray', generation)
  BY <1>1, <1>2, PollGone
<1>. QED
  BY <1>1, <1>3 DEF LeavesLane

(* A poll gives its lane up.                                               *)
LEMMA PollDisowns ==
  ASSUME TypeOK, PollsOrderly(ses, polls, stray, generation), NEW h \in Pollers,
         polls[h].pc = "parked", ses' = Disown(ses, h),
         polls' = [polls EXCEPT ![h] = NoPoll], UNCHANGED stray
  PROVE  PollsOrderly(ses', polls', stray', generation) /\ PollFrame(ses, ses')
<1>1. Waits(polls[h])
  BY DEF Waits
<1>2. LeavesLane(ses, Disown(ses, h), polls[h], h, generation)
  BY <1>1, DisownLeaves
<1>3. ses \in Session /\ polls \in [Pollers -> PollState] /\ generation \in [LaneIds -> Nat]
  BY DEF TypeOK, BackendTypeOK
<1>. DEFINE t == Disown(ses, h)
<1>4. LeavesLane(ses, t, polls[h], h, generation) /\ ses' = t
  BY <1>2
<1>. HIDE DEF t
<1>5. PollsOrderly(t, [polls EXCEPT ![h] = NoPoll], stray, generation)
  BY <1>1, <1>3, <1>4, PollGone
<1>. QED
  BY <1>4, <1>5 DEF LeavesLane

LEMMA PollMovesOrderly ==
  ASSUME TypeOK, PollsOrderly(ses, polls, stray, generation), NEW h \in Pollers, PollMoves(h)
  PROVE  /\ PollsOrderly(ses', polls', stray', generation') /\ PollFrame(ses, ses')
         /\ UNCHANGED <<generation, carrier, ups>>
<1>1. ses \in Session /\ polls \in [Pollers -> PollState] /\ generation \in [LaneIds -> Nat]
  BY DEF TypeOK, BackendTypeOK
<1>2. Waits(polls[h]) => (Owns(h) <=> ~polls[h].superseded)
  BY OwnsUnlessSuperseded
<1>3. UNCHANGED <<generation, carrier, ups>>
  BY Zenon DEF PollMoves, PollLane, PollWakes, PollResumes, PollSuperseded, PollCancelled,
               PollDone, PollExpires
<1>. SUFFICES PollsOrderly(ses', polls', stray', generation) /\ PollFrame(ses, ses')
  BY <1>3
<1>4. ASSUME NEW l \in LaneIds, NEW cursor \in Nat, PollLane(h, l, cursor)
      PROVE  PollsOrderly(ses', polls', stray', generation) /\ PollFrame(ses, ses')
  <2>1. UNCHANGED stray
    BY <1>4 DEF PollLane
  <2>. QED
    BY <1>4, <2>1, PollLaneOrderly
<1>5. CASE PollWakes(h)
  <2>1. IF Current(polls[h], generation)
        THEN ses' = [ses EXCEPT !.lanes[polls[h].lane].notify = FALSE] /\ stray' = stray
        ELSE ses' = ses /\ stray' = stray \ {<<polls[h].lane, polls[h].gen>>}
    BY <1>5 DEF PollWakes, OnCurrent, Current, Object
  <2>2. polls[h].pc = "parked" /\ polls' = [polls EXCEPT ![h].pc = "woken"]
    BY <1>5 DEF PollWakes
  <2>3. PollsOrderly(ses', polls', stray', generation)
    BY <1>1, <2>1, <2>2, PollWoken
  <2>. QED
    BY <1>5, <2>3, WokenFrame
<1>6. CASE PollResumes(h)
  <2>1. Waits(polls[h])
    BY <1>6 DEF PollResumes, Waits
  <2>2. CASE Owns(h)
    <3>1. PollLoops(ses, polls, h) /\ UNCHANGED stray
      BY <1>6, <2>2 DEF PollResumes
    <3>. QED
      BY <1>1, <1>2, <2>1, <2>2, <3>1, PollLoopsOrderly
  <2>3. CASE ~Owns(h)
    <3>1. TokenReturned(h) /\ polls' = [polls EXCEPT ![h] = NoPoll]
      BY <1>6, <2>3 DEF PollResumes, PollAnswers
    <3>. QED
      BY <1>2, <2>1, <2>3, <3>1, PollReturnsToken
  <2>. QED
    BY <2>2, <2>3
<1>7. CASE PollSuperseded(h)
  <2>1. Waits(polls[h]) /\ polls[h].superseded /\ TokenReturned(h)
        /\ polls' = [polls EXCEPT ![h] = NoPoll]
    BY <1>7 DEF PollSuperseded, Waits, PollAnswers
  <2>. QED
    BY <2>1, PollReturnsToken
<1>8. CASE PollCancelled(h) \/ PollDone(h)
  <2>1. /\ polls[h].pc = "parked" /\ ses' = Disown(ses, h)
        /\ polls' = [polls EXCEPT ![h] = NoPoll] /\ UNCHANGED stray
    BY <1>8 DEF PollCancelled, PollDone, PollAnswers
  <2>. QED
    BY <2>1, PollDisowns
<1>9. CASE PollExpires(h)
  <2>1. Waits(polls[h]) /\ polls[h].pc = "parked"
    BY <1>9 DEF PollExpires, Waits
  <2>2. CASE ~Owns(h)
    <3>1. TokenReturned(h) /\ polls' = [polls EXCEPT ![h] = NoPoll]
      BY <1>9, <2>2 DEF PollExpires, PollAnswers
    <3>. QED
      BY <1>2, <2>1, <2>2, <3>1, PollReturnsToken
  <2>3. CASE Owns(h)
    <3>1. UNCHANGED stray
      BY <1>9, <2>3 DEF PollExpires
    <3>2. CASE PollLoops(ses, polls, h)
      BY <1>1, <1>2, <2>1, <2>3, <3>1, <3>2, PollLoopsOrderly
    <3>3. CASE ses' = Disown(ses, h) /\ PollAnswers(polls, h, "empty", 0)
      <4>1. polls' = [polls EXCEPT ![h] = NoPoll]
        BY <3>3 DEF PollAnswers
      <4>. QED
        BY <2>1, <3>1, <3>3, <4>1, PollDisowns
    <3>. QED
      BY <1>9, <2>3, <3>2, <3>3, Zenon DEF PollExpires
  <2>. QED
    BY <2>2, <2>3
<1>. QED
  BY <1>4, <1>5, <1>6, <1>7, <1>8, <1>9 DEF PollMoves

-----------------------------------------------------------------------------
(* What a step relies on: the inductive invariant of the lanes.            *)
LanesOrderly ==
  Orderly(ses) /\ SocketsServed /\ PollsOrderly(ses, polls, stray, generation)

(* Requests leave the sockets, and sockets that are not there do nothing.  *)
LEMMA SocketsKept ==
  ASSUME SocketsServed, [Next]_vars, ~OverSockets
  PROVE  UNCHANGED sockets
<1>1. ASSUME NEW h, NEW answer, UpAnswers(h, answer)
      PROVE  UNCHANGED sockets
  BY <1>1 DEF UpAnswers
<1>2. ASSUME NEW ps, NEW h, NEW answer, NEW next, PollAnswers(ps, h, answer, next)
      PROVE  UNCHANGED sockets
  BY <1>2 DEF PollAnswers
<1>3. ASSUME NEW h, NEW r, NEW pc, UpGoes(h, r, pc)
      PROVE  UNCHANGED sockets
  BY <1>3 DEF UpGoes
<1>4. ASSUME NEW h, NEW r, UpLane(h, r)
      PROVE  UNCHANGED sockets
  <2>1. ASSUME NEW s, UpApplies(h, r, s)
        PROVE  UNCHANGED sockets
    BY <1>1, <2>1, Zenon DEF UpApplies, BodyApplied
  <2>. QED
    BY <1>1, <1>3, <1>4, <2>1, Zenon DEF UpLane
<1>5. ASSUME NEW s, NEW ps, NEW h, PollLoops(s, ps, h)
      PROVE  UNCHANGED sockets
  BY <1>2, <1>5, Zenon DEF PollLoops
<1>6. ASSUME NEW h, NEW l, NEW cursor, PollLane(h, l, cursor)
      PROVE  UNCHANGED sockets
  BY <1>2, <1>5, <1>6, Zenon DEF PollLane
<1>7. ASSUME NEW h \in Pollers, UpStep(h)
      PROVE  UNCHANGED sockets
  BY <1>1, <1>3, <1>7, Zenon DEF UpStep, UpLaunch, UpFails
<1>8. ASSUME NEW h \in Pollers, PollStep(h)
      PROVE  UNCHANGED sockets
  <2>1. UNCHANGED sockets \/ PollWakes(h)
    BY <1>2, <1>5, <1>8, Zenon
       DEF PollStep, PollResumes, PollSuperseded, PollCancelled, PollDone, PollExpires, PollFails
  <2>. QED
    BY <2>1 DEF PollWakes
<1>9. ASSUME NEW h \in Pollers, SocketStep(h)
      PROVE  UNCHANGED sockets
  <2>1. sockets[h] = NoSocket
    BY DEF SocketsServed
  <2>2. ~sockets[h].reader /\ ~sockets[h].writer /\ sockets[h].pc = "none"
    BY <2>1 DEF NoSocket
  <2>. QED
    BY <1>4, <1>9, <2>2
       DEF SocketStep, SocketSends, ReaderEnds, SocketPolls, WriterEnds, SocketEnds, SocketGone
<1>10. ASSUME NEW h \in Pollers, Request(h)
      PROVE  UNCHANGED sockets
  BY <1>4, <1>6, <1>10, Zenon DEF Request, UpRequest, PollRequest, SocketOpens, SocketReads
<1>11. ASSUME NEW id \in StreamIds, BackendNext(id)
      PROVE  UNCHANGED sockets
  BY <1>11, Zenon DEF BackendNext
<1>. QED
  BY <1>7, <1>8, <1>9, <1>10, <1>11, Zenon DEF Next, Close, vars

LEMMA OrderlyFramed ==
  ASSUME NEW s \in Session, NEW t \in Session, Orderly(s), PollFrame(s, t)
  PROVE  Orderly(t)
<1>1. Tombs(t)
  BY DEF Orderly, PollFrame, Tombs
<1>2. \A l \in LaneIds : t.lanes[l].present \/ t.lanes[l] = NoLane
  BY Zenon DEF Orderly, PollFrame
<1>. QED
  BY <1>1, <1>2 DEF Orderly

LEMMA LanesOrderlyStep ==
  ASSUME TypeOK, TypeOK', LanesOrderly, [Next]_vars
  PROVE  LanesOrderly'
<1>1. ses \in Session /\ ses' \in Session
  BY DEF TypeOK, BackendTypeOK
<1>2. Elsewhere \/ \E h \in Pollers : PollMoves(h)
  BY StepSorted DEF LanesOrderly
<1>3. CASE Elsewhere
  <2>1. UNCHANGED carrier
    BY <1>3 DEF Elsewhere, NoNewPanic
  <2>2. Orderly(ses')
    BY <1>3, SessionServed DEF LanesOrderly, Elsewhere
  <2>3. PollsOrderly(ses', polls', stray', generation')
    BY <1>3, PollsOrderlyElsewhere DEF LanesOrderly
  <2>. QED
    BY <2>1, <2>2, <2>3, SocketsKept DEF LanesOrderly, SocketsServed, OverSockets
<1>4. ASSUME NEW h \in Pollers, PollMoves(h)
      PROVE  LanesOrderly'
  <2>1. /\ PollsOrderly(ses', polls', stray', generation') /\ PollFrame(ses, ses')
        /\ UNCHANGED carrier
    BY <1>4, PollMovesOrderly DEF LanesOrderly
  <2>2. Orderly(ses')
    BY <1>1, <2>1, OrderlyFramed DEF LanesOrderly
  <2>. QED
    BY <2>1, <2>2, SocketsKept DEF LanesOrderly, SocketsServed, OverSockets
<1>. QED
  BY <1>2, <1>3, <1>4

LEMMA LanesOrderlyInit == Init => LanesOrderly
<1>. SUFFICES ASSUME Init PROVE LanesOrderly
  OBVIOUS
<1>1. /\ ses.closed = FALSE /\ ses.closedOrder = <<>>
      /\ \A l \in LaneIds : ses.lanes[l] \in {NoLane, NewLane}
  BY FrameAssumption DEF Init, NewSession, LaneIds
<1>2. /\ \A l \in LaneIds : ses.lanes[l].owner = NoPoller
      /\ \A l \in LaneIds : ses.lanes[l].present \/ ses.lanes[l] = NoLane
  <2>1. NoLane.owner = NoPoller /\ NewLane.owner = NoPoller
    BY DEF NoLane, NewLane
  <2>2. NewLane.present
    BY DEF NoLane, NewLane
  <2>. HIDE DEF NoLane, NewLane
  <2>3. ASSUME NEW l \in LaneIds
        PROVE  ses.lanes[l].owner = NoPoller /\ (ses.lanes[l].present \/ ses.lanes[l] = NoLane)
    <3>1. CASE ses.lanes[l] = NoLane
      BY <2>1, <3>1, Zenon
    <3>2. CASE ses.lanes[l] = NewLane
      BY <2>1, <2>2, <3>2, Zenon
    <3>. QED
      BY <1>1, <3>1, <3>2
  <2>. QED
    BY <2>3
<1>3. Orderly(ses)
  <2>1. Tombs(ses)
    BY <1>1, LimitAssumption DEF Tombs
  <2>. QED
    BY <1>2, <2>1, Zenon DEF Orderly
<1>4. SocketsServed
  BY DEF Init, SocketsServed
<1>5. \A h \in Pollers : polls[h].pc = "idle"
  BY DEF Init, NoPoll
<1>6. PollsOrderly(ses, polls, stray, generation)
  BY <1>2, <1>5, CarrierAssumption DEF PollsOrderly, Waits, Follows, Told
<1>. QED
  BY <1>3, <1>4, <1>6 DEF LanesOrderly

LEMMA LanesOrderlyHolds == Spec => []LanesOrderly
<1>1. Init => LanesOrderly
  BY LanesOrderlyInit
<1>2. TypeOK /\ TypeOK' /\ LanesOrderly /\ [Next]_vars => LanesOrderly'
  BY LanesOrderlyStep
<1>. QED
  BY <1>1, <1>2, TypeOKHolds, PTL DEF Spec

(* The newest poll of a lane object owns it, and each older one has been   *)
(* told: AckUnacked and the owner change under one lock                    *)
(* (session.go:599-613).                                                   *)
THEOREM LaneOwnershipHolds == Spec => []LaneOwnership
<1>1. TypeOK /\ LanesOrderly => LaneOwnership
  BY PollsOrderlyMeans DEF LanesOrderly
<1>. QED
  BY <1>1, TypeOKHolds, LanesOrderlyHolds, PTL

(* A parked poll that owns its lane is woken for whatever its object gets, *)
(* even when that object has left the map (session.go:606-668, 1347-1372). *)
THEOREM NoLostLaneWakeupHolds == Spec => []NoLostLaneWakeup
<1>1. TypeOK /\ LanesOrderly => NoLostLaneWakeup
  BY PollsOrderlyMeans DEF LanesOrderly
<1>. QED
  BY <1>1, TypeOKHolds, LanesOrderlyHolds, PTL

(* No body of a lane makes applyBatchLocked dereference a nil stream:      *)
(* validateBatchLocked has seen every frame of it (PROTOCOL.md:280).       *)
THEOREM LateFramesHarmlessHolds == Spec => []LateFramesHarmless
<1>1. Init => LateFramesHarmless
  BY DEF Init, LateFramesHarmless, NoUp
<1>2. TypeOK /\ LanesOrderly /\ LateFramesHarmless /\ [Next]_vars => LateFramesHarmless'
  <2>. SUFFICES ASSUME TypeOK, LanesOrderly, LateFramesHarmless, [Next]_vars
                PROVE  LateFramesHarmless'
    OBVIOUS
  <2>1. CASE Elsewhere
    BY <2>1 DEF Elsewhere, NoNewPanic, LateFramesHarmless
  <2>2. ASSUME NEW h \in Pollers, PollMoves(h)
        PROVE  LateFramesHarmless'
    BY <2>2, PollMovesOrderly DEF LanesOrderly, LateFramesHarmless
  <2>. QED
    BY <2>1, <2>2, StepSorted DEF LanesOrderly
<1>. QED
  BY <1>1, <1>2, TypeOKHolds, LanesOrderlyHolds, PTL DEF Spec

-----------------------------------------------------------------------------
(* Lanes and streams.                                                      *)
Matched(s) ==
  ~s.closed =>
    /\ \A id \in StreamIds : s.streams[id].live => s.lanes[id].present
    /\ \A id \in StreamIds :
         s.lanes[id].present /\ s.lanes[id].lastUpSequence # 0 => Known(s, id)

LEMMA MatchedCarried ==
  ASSUME NEW s, NEW t, NEW ids, Matched(s), Carried(s, t, ids)
  PROVE  Matched(t)
<1>. SUFFICES ASSUME ~t.closed, NEW id \in StreamIds
              PROVE  /\ t.streams[id].live => t.lanes[id].present
                     /\ t.lanes[id].present /\ t.lanes[id].lastUpSequence # 0 => Known(t, id)
  BY DEF Matched
<1>1. ~s.closed /\ LaneCarried(s, t, ids, id) /\ StreamCarried(s, t, ids, id)
  BY LanesAreStreams, Zenon DEF Carried
<1>2. /\ s.streams[id].live => s.lanes[id].present
      /\ s.lanes[id].present /\ s.lanes[id].lastUpSequence # 0 => Known(s, id)
  BY <1>1 DEF Matched
<1>3. ASSUME t.streams[id].live PROVE t.lanes[id].present
  BY <1>1, <1>2, <1>3, Zenon DEF LaneCarried, StreamCarried
<1>4. ASSUME t.lanes[id].present, t.lanes[id].lastUpSequence # 0 PROVE Known(t, id)
  <2>1. Known(s, id)
    BY <1>1, <1>2, <1>4, Zenon DEF LaneCarried, LaneKept
  <2>. QED
    BY <1>1, <1>4, <2>1, Zenon DEF StreamCarried, Known
<1>. QED
  BY <1>3, <1>4

LEMMA MatchedCreated ==
  ASSUME NEW s \in Session, Orderly(s), NEW t, NEW l \in LaneIds, Matched(s),
         LaneCreated(s, t, l)
  PROVE  Matched(t)
<1>1. /\ t.closed = s.closed /\ t.streams = s.streams /\ t.closedOrder = s.closedOrder
      /\ \A o \in LaneIds : o # l => t.lanes[o] = s.lanes[o]
      /\ t.lanes[l] = NewLane
  BY CreatedFields
<1>2. \A id \in StreamIds : Known(t, id) <=> Known(s, id)
  BY <1>1, Zenon DEF Known, WasClosed
<1>. SUFFICES ASSUME ~t.closed, NEW id \in StreamIds
              PROVE  /\ t.streams[id].live => t.lanes[id].present
                     /\ t.lanes[id].present /\ t.lanes[id].lastUpSequence # 0 => Known(t, id)
  BY DEF Matched
<1>3. id \in LaneIds
  BY LanesAreStreams
<1>4. CASE id = l
  <2>1. NewLane.present /\ NewLane.lastUpSequence = 0
    BY DEF NewLane, NoLane
  <2>. QED
    BY <1>1, <1>4, <2>1, Zenon
<1>5. CASE id # l
  BY <1>1, <1>2, <1>3, <1>5 DEF Matched
<1>. QED
  BY <1>4, <1>5

(* The session before and after a body's sequence is remembered.           *)
LEMMA MatchedBody ==
  ASSUME NEW s \in Session, NEW t, NEW r, Upload(r), Matched(s), BodyCarried(s, t, r)
  PROVE  Matched(t)
<1>1. PICK u \in Session :
         /\ Carried(s, u, {r.lane}) /\ u.lanes[r.lane].present
         /\ r.lane # 0 => Known(u, r.lane)
         /\ t = u \/ Sequenced(u, t, r.lane)
  BY Zenon DEF BodyCarried
<1>2. Matched(u)
  BY <1>1, MatchedCarried
<1>3. CASE t = u
  BY <1>2, <1>3
<1>4. CASE Sequenced(u, t, r.lane)
  <2>1. r.lane \in LaneIds
    BY DEF Upload
  <2>2. /\ t.closed = u.closed /\ t.streams = u.streams /\ t.closedOrder = u.closedOrder
        /\ \A o \in LaneIds :
             /\ o # r.lane => t.lanes[o] = u.lanes[o]
             /\ t.lanes[o].present = u.lanes[o].present
    BY <1>4, <2>1, SequenceFields
  <2>3. \A id \in StreamIds : Known(t, id) <=> Known(u, id)
    BY <2>2, Zenon DEF Known, WasClosed
  <2>. SUFFICES ASSUME ~t.closed, NEW id \in StreamIds
                PROVE  /\ t.streams[id].live => t.lanes[id].present
                       /\ t.lanes[id].present /\ t.lanes[id].lastUpSequence # 0 => Known(t, id)
    BY DEF Matched
  <2>4. id \in LaneIds /\ id # 0
    BY LanesAreStreams
  <2>5. t.streams[id].live => t.lanes[id].present
    <3>1. u.streams[id].live => u.lanes[id].present
      BY <1>2, <2>2 DEF Matched
    <3>2. t.lanes[id].present = u.lanes[id].present
      BY <2>2, <2>4, Zenon
    <3>. QED
      BY <2>2, <3>1, <3>2, Zenon
  <2>6. CASE id = r.lane
    BY <1>1, <2>3, <2>4, <2>5, <2>6
  <2>7. CASE id # r.lane
    BY <1>2, <2>2, <2>3, <2>4, <2>5, <2>7 DEF Matched
  <2>. QED
    BY <2>6, <2>7
<1>. QED
  BY <1>1, <1>3, <1>4

LEMMA MatchedStep ==
  ASSUME TypeOK, LanesOrderly, Matched(ses), [Next]_vars
  PROVE  Matched(ses')
<1>1. ses \in Session
  BY DEF TypeOK, BackendTypeOK
<1>2. SessionStep \/ \E h \in Pollers : PollMoves(h)
  BY StepSorted, Zenon DEF LanesOrderly, Elsewhere
<1>3. CASE Carried(ses, ses', LiveStreams(ses))
  BY <1>3, MatchedCarried
<1>4. ASSUME NEW l \in LaneIds, LaneCreated(ses, ses', l)
      PROVE  Matched(ses')
  BY <1>1, <1>4, MatchedCreated DEF LanesOrderly
<1>5. ASSUME NEW h \in Pollers, NEW s \in Session, NEW r, Upload(r), Uploads(h, r, s)
      PROVE  Matched(ses')
  <2>1. r.lane \in LaneIds
    BY <1>5 DEF Upload
  <2>2. Matched(s)
    <3>1. CASE s = ses
      BY <3>1
    <3>2. CASE LaneCreated(ses, s, r.lane)
      BY <1>1, <2>1, <3>2, MatchedCreated DEF LanesOrderly
    <3>. QED
      BY <1>5, <3>1, <3>2, Zenon DEF Uploads
  <2>3. CASE ses' = s
    BY <2>2, <2>3
  <2>4. CASE BodyCarried(s, ses', r)
    BY <1>5, <2>2, <2>4, MatchedBody
  <2>. QED
    BY <1>5, <2>3, <2>4, Zenon DEF Uploads
<1>6. ASSUME NEW h \in Pollers, PollMoves(h)
      PROVE  Matched(ses')
  <2>1. PollFrame(ses, ses')
    BY <1>6, PollMovesOrderly DEF LanesOrderly
  <2>2. \A id \in StreamIds : id \in LaneIds
    BY LanesAreStreams
  <2>3. \A id \in StreamIds : Known(ses', id) <=> Known(ses, id)
    BY <2>1, Zenon DEF PollFrame, Known, WasClosed
  <2>. QED
    BY <2>1, <2>2, <2>3, Zenon DEF PollFrame, Matched
<1>. QED
  BY <1>2, <1>3, <1>4, <1>5, <1>6, Zenon DEF SessionStep

LEMMA MatchedInit == Init => Matched(ses)
<1>1. ASSUME Init PROVE \A id \in StreamIds : ~ses.streams[id].live /\ ~ses.lanes[id].present
  <2>1. \A id \in StreamIds : ses.streams[id] = NoStream /\ ses.lanes[id] = NoLane
    BY <1>1, LanesAreStreams DEF Init, NewSession
  <2>2. ~NoStream.live /\ ~NoLane.present
    BY DEF NoStream, NoLane
  <2>. QED
    BY <2>1, <2>2, Zenon
<1>. QED
  BY <1>1 DEF Matched

(* A live stream has its lane, and a lane a body came through is that of a *)
(* stream the session knows: streams and lanes enter and leave their maps  *)
(* in different critical sections (session.go:374, 1100, 1341).            *)
THEOREM LanesMatchStreamsHolds == Spec => []LanesMatchStreams
<1>1. TypeOK /\ LanesOrderly /\ Matched(ses) /\ [Next]_vars => Matched(ses)'
  BY MatchedStep
<1>2. Matched(ses) => LanesMatchStreams
  BY DEF Matched, LanesMatchStreams, LiveStreams, Known, stream
<1>. QED
  BY <1>1, <1>2, MatchedInit, TypeOKHolds, LanesOrderlyHolds, PTL DEF Spec

-----------------------------------------------------------------------------
(* Lanes that are over.  gen counts the lane objects an id has had, lf     *)
(* tells what its client was told.                                         *)
Empty(lane) == lane.frames = <<>> /\ lane.unacked = <<>>

SettledAt(s, gen, lf, l) ==
  /\ gen[l] # 0 \/ lf[l] = "over" =>
       lf[l] # "new" /\ ~s.streams[l].live /\ Empty(s.lanes[l])
  /\ Known(s, l) => lf[l] # "new"

(* Only https-lanes keeps a lane that is over: over sockets nobody is told. *)
Settled ==
  /\ OverSockets => \A l \in StreamIds : life[l] # "over"
  /\ ~OverSockets => \A l \in StreamIds : SettledAt(ses, generation, life, l)

LEMMA SettledCarried ==
  ASSUME NEW s \in Session, NEW t, NEW ids, Carried(s, t, ids), NEW gen, NEW after, NEW lf,
         ~OverSockets, NEW l \in StreamIds, SettledAt(s, gen, lf, l),
         l \in ids => s.streams[l].live,
         after[l] # 0 => gen[l] # 0 \/ (s.lanes[l].present /\ ~t.lanes[l].present)
  PROVE  SettledAt(t, after, lf, l)
<1>1. LaneCarried(s, t, ids, l) /\ StreamCarried(s, t, ids, l) /\ Orderly(t)
  BY LanesAreStreams, Zenon DEF Carried
<1>2. Known(t, l) => Known(s, l)
  BY <1>1, Zenon DEF StreamCarried, Known
<1>3. Empty(NoLane)
  BY DEF Empty, NoLane
<1>4. ~t.lanes[l].present => Empty(t.lanes[l])
  BY <1>1, <1>3, LanesAreStreams, Zenon DEF Orderly
<1>5. ASSUME gen[l] # 0 \/ lf[l] = "over"
      PROVE  lf[l] # "new" /\ ~t.streams[l].live /\ Empty(t.lanes[l])
  <2>1. lf[l] # "new" /\ ~s.streams[l].live /\ Empty(s.lanes[l])
    BY <1>5, Zenon DEF SettledAt
  <2>2. ~t.streams[l].live
    BY <1>1, <2>1, Zenon DEF StreamCarried
  <2>3. t.lanes[l].frames = <<>>
    BY <1>1, <2>1, Zenon DEF StreamCarried, Empty
  <2>4. t.lanes[l].present => t.lanes[l].unacked = <<>>
    BY <1>1, <2>1 DEF LaneCarried, LaneKept, Empty
  <2>. QED
    BY <1>4, <2>1, <2>2, <2>3, <2>4, Zenon DEF Empty
<1>6. ASSUME s.lanes[l].present, ~t.lanes[l].present
      PROVE  lf[l] # "new" /\ ~t.streams[l].live /\ Empty(t.lanes[l])
  <2>1. ~t.streams[l].live /\ Known(s, l)
    BY <1>1, <1>6, Zenon DEF LaneCarried, Known
  <2>. QED
    BY <1>4, <1>6, <2>1, Zenon DEF SettledAt
<1>. QED
  BY <1>2, <1>5, <1>6, Zenon DEF SettledAt

LEMMA SettledSequenced ==
  ASSUME NEW u \in Session, NEW o \in LaneIds, NEW t, t = u \/ Sequenced(u, t, o),
         NEW gen, NEW lf, NEW l \in StreamIds, SettledAt(u, gen, lf, l)
  PROVE  SettledAt(t, gen, lf, l)
<1>1. CASE Sequenced(u, t, o)
  <2>1. /\ t.streams = u.streams /\ t.closedOrder = u.closedOrder
        /\ t.lanes[l].frames = u.lanes[l].frames /\ t.lanes[l].unacked = u.lanes[l].unacked
    BY <1>1, SequenceFields, LanesAreStreams
  <2>. QED
    BY <2>1, Zenon DEF SettledAt, Known, WasClosed, Empty
<1>. QED
  BY <1>1

LEMMA SettledBody ==
  ASSUME TypeOK, ~OverSockets, Orderly(ses), \A l \in StreamIds : SettledAt(ses, generation, life, l),
         NEW h \in Pollers, NEW s \in Session, NEW r, Upload(r), NoReuse(r.lane, r.body),
         Uploads(h, r, s), ObjectsKept
  PROVE  \A l \in StreamIds : SettledAt(ses', generation', life', l)
<1>1. /\ ses \in Session /\ r.lane \in LaneIds /\ r.body \in Bodies \cup {<<>>}
      /\ life \in [LaneIds -> {"new", "open", "over"}] /\ generation \in [LaneIds -> Nat]
  BY DEF TypeOK, BackendTypeOK, Upload
<1>2. /\ s.streams = ses.streams /\ s.closedOrder = ses.closedOrder
      /\ \A l \in StreamIds : (ses.lanes[l].present => s.lanes[l].present)
                              /\ SettledAt(s, generation, life, l)
  <2>1. CASE s = ses
    BY <2>1
  <2>2. CASE LaneCreated(ses, s, r.lane)
    <3>1. /\ s.streams = ses.streams /\ s.closedOrder = ses.closedOrder
          /\ s.lanes[r.lane] = NewLane
          /\ \A o \in LaneIds : o # r.lane => s.lanes[o] = ses.lanes[o]
      BY <1>1, <2>2, CreatedFields
    <3>2. NewLane.present /\ Empty(NewLane)
      BY DEF NewLane, NoLane, Empty
    <3>. SUFFICES ASSUME NEW l \in StreamIds
                  PROVE  (ses.lanes[l].present => s.lanes[l].present)
                         /\ SettledAt(s, generation, life, l)
      BY <3>1
    <3>3. Known(s, l) <=> Known(ses, l)
      BY <3>1, Zenon DEF Known, WasClosed
    <3>4. SettledAt(ses, generation, life, l) /\ l \in LaneIds
      BY LanesAreStreams
    <3>5. CASE l = r.lane
      BY <3>1, <3>2, <3>3, <3>4, <3>5, Zenon DEF SettledAt
    <3>6. CASE l # r.lane
      BY <3>1, <3>3, <3>4, <3>6, Zenon DEF SettledAt
    <3>. QED
      BY <3>5, <3>6
  <2>. QED
    BY <2>1, <2>2, Zenon DEF Uploads
<1>3. \A l \in StreamIds :
        generation'[l] # 0 => generation[l] # 0 \/ (s.lanes[l].present /\ ~ses'.lanes[l].present)
  <2>1. \A l \in StreamIds :
          generation'[l] # 0 => generation[l] # 0 \/ (ses.lanes[l].present /\ ~ses'.lanes[l].present)
    BY <1>1, LanesAreStreams DEF ObjectsKept, Dropped
  <2>. QED
    BY <1>2, <2>1, Zenon
<1>4. CASE ses' = s /\ UNCHANGED life
  <2>1. \A l \in StreamIds : generation'[l] # 0 => generation[l] # 0
    BY <1>3, <1>4, Zenon
  <2>. QED
    BY <1>2, <1>4, <2>1, Zenon DEF SettledAt
<1>5. CASE /\ OfLane(r.body, r.lane) /\ ValidBatch(s, r.body) /\ BodyCarried(s, ses', r)
           /\ life' = IF r.body[1].type = "OPEN" THEN [life EXCEPT ![r.lane] = "open"] ELSE life
  <2>1. PICK u \in Session :
          /\ Carried(s, u, {r.lane}) /\ u.lanes[r.lane].present
          /\ r.lane # 0 => Known(u, r.lane) /\ (r.body[1].type = "OPEN" => ~Known(s, r.lane))
          /\ r.lane = 0 \/ (r.body[1].type # "OPEN" /\ ~s.streams[r.lane].live)
               => u.lanes = s.lanes /\ u.streams = s.streams
          /\ ses' = u \/ Sequenced(u, ses', r.lane)
    BY <1>5, Zenon DEF BodyCarried
  <2>2. \A o \in LaneIds : /\ ses'.lanes[o].present = u.lanes[o].present
                           /\ ses'.lanes[o].frames = u.lanes[o].frames
                           /\ ses'.lanes[o].unacked = u.lanes[o].unacked
                           /\ ses'.streams = u.streams
    <3>1. CASE ses' = u
      BY <3>1, Zenon
    <3>2. CASE Sequenced(u, ses', r.lane)
      BY <1>1, <3>2, SequenceFields
    <3>. QED
      BY <2>1, <3>1, <3>2
  <2>. SUFFICES ASSUME NEW l \in StreamIds PROVE SettledAt(ses', generation', life', l)
    OBVIOUS
  <2>3. /\ SettledAt(s, generation, life, l) /\ l \in LaneIds /\ l # 0
        /\ generation'[l] # 0 => generation[l] # 0 \/ (s.lanes[l].present /\ ~u.lanes[l].present)
    BY <1>2, <1>3, <2>2, LanesAreStreams, Zenon
  <2>4. CASE l # r.lane
    <3>1. SettledAt(u, generation', life, l)
      BY <2>1, <2>3, <2>4, SettledCarried
    <3>2. SettledAt(ses', generation', life, l)
      BY <1>1, <2>1, <3>1, SettledSequenced
    <3>3. life'[l] = life[l]
      BY <1>1, <1>5, <2>4
    <3>. QED
      BY <3>2, <3>3, Zenon DEF SettledAt
  <2>5. CASE l = r.lane
    <3>1. generation'[l] # 0 => generation[l] # 0
      BY <2>1, <2>3, <2>5, Zenon
    <3>2. CASE r.body[1].type = "OPEN"
      <4>1. life'[l] = "open"
        BY <1>1, <1>5, <2>3, <2>5, <3>2
      <4>2. ~Known(s, l)
        BY <2>1, <2>3, <2>5, <3>2
      <4>3. ~Known(ses, l)
        BY <1>2, <4>2, Zenon DEF Known, WasClosed
      <4>4. life[l] = "new"
        BY <2>5, <3>2, <4>3 DEF NoReuse, Known, LiveStreams
      <4>5. generation[l] = 0
        BY <2>3, <4>4, Zenon DEF SettledAt
      <4>. QED
        BY <3>1, <4>1, <4>5 DEF SettledAt
    <3>3. CASE r.body[1].type # "OPEN"
      <4>1. Known(s, l)
        BY <1>1, <1>5, <2>5, <3>3, BodyOrder
      <4>2. life'[l] = life[l] /\ life[l] # "new"
        BY <1>5, <2>3, <3>3, <4>1 DEF SettledAt
      <4>3. ASSUME generation[l] # 0 \/ life[l] = "over"
            PROVE  ~ses'.streams[l].live /\ Empty(ses'.lanes[l])
        <5>1. ~s.streams[l].live /\ Empty(s.lanes[l])
          BY <2>3, <4>3, Zenon DEF SettledAt
        <5>2. u.lanes = s.lanes /\ u.streams = s.streams
          BY <2>1, <2>5, <3>3, <5>1, Zenon
        <5>. QED
          BY <2>2, <2>3, <5>1, <5>2, Zenon DEF Empty
      <4>. QED
        BY <3>1, <4>2, <4>3, Zenon DEF SettledAt
    <3>. QED
      BY <3>2, <3>3
  <2>. QED
    BY <2>4, <2>5
<1>. QED
  BY <1>4, <1>5, Zenon DEF Uploads

(* A poll adds nothing to a lane that is empty, and tells a client that    *)
(* its lane is over only when it is.                                       *)
Tells(s, lf, after, l) ==
  \/ after[l] = lf[l]
  \/ after[l] = "over" /\ ~OverSockets /\ ~s.streams[l].live /\ Empty(s.lanes[l])

PollSettles(s, t) ==
  \A l \in StreamIds : (Empty(s.lanes[l]) => Empty(t.lanes[l])) /\ Tells(t, life, life', l)

LEMMA UntoldSettles ==
  ASSUME NEW s, NEW t, UNCHANGED life,
         \A l \in StreamIds : t.lanes[l].frames = s.lanes[l].frames
                              /\ t.lanes[l].unacked = s.lanes[l].unacked
  PROVE  PollSettles(s, t)
BY Zenon DEF PollSettles, Tells, Empty

LEMMA PollLoopsSettles ==
  ASSUME TypeOK, NEW s \in Session, NEW ps \in [Pollers -> PollState], NEW h \in Pollers,
         PollLoops(s, ps, h),
         ~OverSockets => \A l \in StreamIds : SettledAt(s, generation, life, l),
         Current(ps[h], generation) => s.lanes[ps[h].lane].unacked = <<>>,
         ps[h].gen <= generation[ps[h].lane]
  PROVE  PollSettles(s, ses')
<1>. DEFINE l == ps[h].lane
            found == Ended(s, ps, h)
<1>1. /\ l \in LaneIds /\ ps[h].gen \in Nat /\ generation \in [LaneIds -> Nat]
      /\ life \in [LaneIds -> {"new", "open", "over"}] /\ s.lanes \in [LaneIds -> Lane]
  BY PollFields, SessionFields DEF TypeOK
<1>2. CASE found = "batch"
  <2>1. PICK k \in 1 .. Len(s.lanes[l].frames) :
          ses' = [s EXCEPT !.lanes[l] = TakeBatch(@, k, ps[h].cursor)]
    BY <1>2 DEF PollLoops
  <2>2. s.lanes[l].frames # <<>>
    BY <1>2 DEF Ended
  <2>3. \A o \in LaneIds : o # l => ses'.lanes[o] = s.lanes[o]
    BY <1>1, <2>1 DEF Session
  <2>4. UNCHANGED life
    BY <1>2 DEF PollLoops, PollAnswers
  <2>5. ASSUME NEW o \in StreamIds
        PROVE  (Empty(s.lanes[o]) => Empty(ses'.lanes[o])) /\ Tells(ses', life, life', o)
    <3>1. CASE o = l
      BY <2>2, <2>4, <3>1, Zenon DEF Empty, Tells
    <3>2. CASE o # l
      BY <2>3, <2>4, <3>2, LanesAreStreams, Zenon DEF Tells
    <3>. QED
      BY <3>1, <3>2
  <2>. QED
    BY <2>5 DEF PollSettles
<1>3. CASE found \in {"failed", "closed"}
  <2>1. /\ ses' = IF Current(ps[h], generation) THEN [s EXCEPT !.lanes[l].owner = NoPoller] ELSE s
        /\ life' = IF found = "closed" /\ ~OverSockets THEN [life EXCEPT ![l] = "over"] ELSE life
    BY <1>3 DEF PollLoops, PollAnswers, Current
  <2>2. /\ ses'.streams = s.streams
        /\ \A o \in LaneIds : ses'.lanes[o].frames = s.lanes[o].frames
                              /\ ses'.lanes[o].unacked = s.lanes[o].unacked
    <3>1. CASE Current(ps[h], generation)
      <4>. DEFINE x == [s.lanes[l] EXCEPT !.owner = NoPoller]
      <4>1. ses' = PutLane(s, l, x)
        BY <1>1, <2>1, <3>1 DEF Session, PutLane
      <4>2. x.frames = s.lanes[l].frames /\ x.unacked = s.lanes[l].unacked
        BY <1>1 DEF Lane
      <4>. HIDE DEF x
      <4>3. /\ ses'.streams = s.streams /\ ses'.lanes[l] = x
            /\ \A o \in LaneIds : o # l => ses'.lanes[o] = s.lanes[o]
        BY <1>1, <4>1, SetLaneFields
      <4>. QED
        BY <4>2, <4>3, Zenon
    <3>2. CASE ~Current(ps[h], generation)
      BY <2>1, <3>2
    <3>. QED
      BY <3>1, <3>2
  <2>3. CASE found = "closed" /\ ~OverSockets
    <3>1. ASSUME l \in StreamIds
          PROVE  ~s.streams[l].live /\ Empty(s.lanes[l])
      <4>1. CASE Current(ps[h], generation)
        <5>1. s.lanes[l].frames = <<>> /\ StreamOver(s, l)
          BY <2>3, <4>1 DEF Ended, Current
        <5>. QED
          BY <4>1, <5>1 DEF Empty, StreamOver
      <4>2. CASE ~Current(ps[h], generation)
        <5>1. generation[l] # 0
          BY <1>1, <4>2 DEF Current
        <5>. QED
          BY <2>3, <3>1, <5>1, Zenon DEF SettledAt
      <4>. QED
        BY <4>1, <4>2
    <3>2. ASSUME NEW o \in StreamIds
          PROVE  (Empty(s.lanes[o]) => Empty(ses'.lanes[o])) /\ Tells(ses', life, life', o)
      <4>1. Empty(s.lanes[o]) => Empty(ses'.lanes[o])
        BY <2>2, LanesAreStreams, Zenon DEF Empty
      <4>2. CASE o = l
        <5>1. life'[o] = "over"
          BY <1>1, <2>1, <2>3, <4>2
        <5>. QED
          BY <2>2, <2>3, <3>1, <4>1, <4>2, <5>1, Zenon DEF Tells
      <4>3. CASE o # l
        <5>1. life'[o] = life[o]
          BY <1>1, <2>1, <2>3, <4>3, LanesAreStreams
        <5>. QED
          BY <4>1, <5>1, Zenon DEF Tells
      <4>. QED
        BY <4>2, <4>3
    <3>. QED
      BY <3>2 DEF PollSettles
  <2>4. CASE ~(found = "closed" /\ ~OverSockets)
    <3>1. UNCHANGED life
      BY <2>1, <2>4
    <3>. QED
      BY <2>2, <3>1, UntoldSettles, LanesAreStreams
  <2>. QED
    BY <2>3, <2>4
<1>4. CASE found = "no"
  <2>1. ses' = s /\ UNCHANGED life
    BY <1>4 DEF PollLoops
  <2>. QED
    BY <2>1, UntoldSettles
<1>. QED
  BY <1>2, <1>3, <1>4, Zenon DEF PollLoops

LEMMA EnteringSettled ==
  ASSUME TypeOK, NEW l \in LaneIds, NEW h \in Pollers, NEW o \in StreamIds
  PROVE  /\ Empty(ses.lanes[o]) => Empty(Entering(ses, l, h).lanes[o])
         /\ SettledAt(ses, generation, life, o) =>
              SettledAt(Entering(ses, l, h), generation, life, o)
<1>. DEFINE s == Entering(ses, l, h)
<1>1. ses \in Session
  BY DEF TypeOK, BackendTypeOK
<1>2. /\ s.streams = ses.streams /\ s.closedOrder = ses.closedOrder
      /\ \A i \in LaneIds : i # l => s.lanes[i] = ses.lanes[i]
      /\ s.lanes[l].frames = ses.lanes[l].frames /\ s.lanes[l].unacked = <<>>
  BY <1>1, EnteringFields
<1>. HIDE DEF s
<1>3. Empty(ses.lanes[o]) => Empty(s.lanes[o])
  <2>1. CASE o = l
    BY <1>2, <2>1 DEF Empty
  <2>2. CASE o # l
    BY <1>2, <2>2, LanesAreStreams, Zenon
  <2>. QED
    BY <2>1, <2>2
<1>4. SettledAt(ses, generation, life, o) => SettledAt(s, generation, life, o)
  BY <1>2, <1>3, Zenon DEF SettledAt, Known, WasClosed
<1>. QED
  BY <1>3, <1>4 DEF s

LEMMA PollLaneSettles ==
  ASSUME TypeOK, NEW h \in Pollers, NEW l \in LaneIds, NEW cursor \in Nat,
         PollLane(h, l, cursor),
         ~OverSockets => \A o \in StreamIds : SettledAt(ses, generation, life, o)
  PROVE  PollSettles(ses, ses')
<1>1. CASE UNCHANGED <<ses, life>>
  BY <1>1, UntoldSettles
<1>2. CASE PollLoops(Entering(ses, l, h), Superseding(h, l, cursor), h)
  <2>. DEFINE s == Entering(ses, l, h)
              ps == Entered(h, l, cursor)
  <2>1. ses \in Session /\ generation[l] \in Nat
    BY DEF TypeOK, BackendTypeOK
  <2>2. PollLoops(s, ps, h)
    BY <1>2, LoopsAsEntered
  <2>3. s \in Session /\ s.lanes[l].unacked = <<>>
    BY <2>1, EnteringFields
  <2>4. ps \in [Pollers -> PollState] /\ ps[h].lane = l /\ ps[h].gen = generation[l]
    BY EnteredFields
  <2>5. \A o \in StreamIds : /\ Empty(ses.lanes[o]) => Empty(s.lanes[o])
                             /\ SettledAt(ses, generation, life, o) =>
                                  SettledAt(s, generation, life, o)
    BY EnteringSettled
  <2>. HIDE DEF s, ps
  <2>6. PollSettles(s, ses')
    BY <2>1, <2>2, <2>3, <2>4, <2>5, PollLoopsSettles
  <2>. QED
    BY <2>5, <2>6, Zenon DEF PollSettles
<1>3. ASSUME NEW next, PollAnswers(polls, h, "batch", next) \/ PollAnswers(polls, h, "failed", next)
      PROVE  UNCHANGED life
  BY <1>3 DEF PollAnswers
<1>. QED
  BY <1>1, <1>2, <1>3 DEF PollLane, Entering

LEMMA PollMovesSettles ==
  ASSUME TypeOK, PollsOrderly(ses, polls, stray, generation), NEW h \in Pollers, PollMoves(h),
         ~OverSockets => \A l \in StreamIds : SettledAt(ses, generation, life, l)
  PROVE  PollSettles(ses, ses')
<1>1. ses \in Session /\ polls \in [Pollers -> PollState]
  BY DEF TypeOK, BackendTypeOK
<1>. DEFINE l == polls[h].lane
<1>2. l \in LaneIds /\ ses.lanes \in [LaneIds -> Lane] /\ ses.lanes[l] \in Lane
  BY <1>1, PollFields, SessionFields
<1>3. ASSUME PollLoops(ses, polls, h), Owns(h), Waits(polls[h])
      PROVE  PollSettles(ses, ses')
  <2>1. polls[h].gen <= generation[l]
    BY <1>3 DEF PollsOrderly, Waits
  <2>2. Follows(ses, polls[h], h, generation)
    BY DEF PollsOrderly
  <2>3. Current(polls[h], generation) => ses.lanes[l].unacked = <<>>
    <3>1. SUFFICES ASSUME Current(polls[h], generation)
                   PROVE  ses.lanes[l].unacked = <<>>
      OBVIOUS
    <3>2. ses.lanes[l].owner = h
      BY <1>3, <3>1 DEF Owns, OnCurrent, Current
    <3>. QED
      BY <1>3, <2>2, <3>1, <3>2 DEF Follows
  <2>. QED
    BY <1>1, <1>3, <2>1, <2>3, PollLoopsSettles
<1>4. ASSUME NEW ps, NEW answer, answer # "closed", PollAnswers(ps, h, answer, 0)
      PROVE  UNCHANGED life
  BY <1>4 DEF PollAnswers
<1>5. ASSUME NEW lane, lane.frames = ses.lanes[l].frames,
             lane.unacked = ses.lanes[l].unacked,
             ses' = [ses EXCEPT !.lanes[l] = lane], UNCHANGED life
      PROVE  PollSettles(ses, ses')
  <2>1. ses'.lanes = [ses.lanes EXCEPT ![l] = lane]
    BY <1>1, <1>5 DEF Session
  <2>2. \A o \in StreamIds : ses'.lanes[o].frames = ses.lanes[o].frames
                             /\ ses'.lanes[o].unacked = ses.lanes[o].unacked
    BY <1>2, <1>5, <2>1, LanesAreStreams
  <2>3. UNCHANGED life
    BY <1>5
  <2>. QED
    BY <2>2, <2>3, UntoldSettles
<1>6. ASSUME UNCHANGED ses, UNCHANGED life
      PROVE  PollSettles(ses, ses')
  BY <1>6, UntoldSettles
<1>7. ASSUME TokenReturned(h), UNCHANGED life
      PROVE  PollSettles(ses, ses')
  <2>. DEFINE lane == [ses.lanes[l] EXCEPT !.notify = TRUE]
  <2>1. lane.frames = ses.lanes[l].frames /\ lane.unacked = ses.lanes[l].unacked
    BY <1>2 DEF Lane
  <2>2. ses' = ses \/ ses' = [ses EXCEPT !.lanes[l] = lane]
    BY <1>1, <1>2, <1>7 DEF TokenReturned, Session
  <2>. HIDE DEF lane
  <2>. QED
    BY <1>5, <1>6, <1>7, <2>1, <2>2
<1>8. ASSUME ses' = Disown(ses, h), UNCHANGED life
      PROVE  PollSettles(ses, ses')
  <2>. DEFINE lane == [ses.lanes[l] EXCEPT !.owner = NoPoller]
  <2>1. lane.frames = ses.lanes[l].frames /\ lane.unacked = ses.lanes[l].unacked
    BY <1>2 DEF Lane
  <2>2. ses' = ses \/ ses' = [ses EXCEPT !.lanes[l] = lane]
    BY <1>1, <1>2, <1>8 DEF Disown, Session
  <2>. HIDE DEF lane
  <2>. QED
    BY <1>5, <1>6, <1>8, <2>1, <2>2
<1>9. CASE PollWakes(h)
  <2>. DEFINE lane == [ses.lanes[l] EXCEPT !.notify = FALSE]
  <2>1. lane.frames = ses.lanes[l].frames /\ lane.unacked = ses.lanes[l].unacked
    BY <1>2 DEF Lane
  <2>2. ses' = ses \/ ses' = [ses EXCEPT !.lanes[l] = lane]
    BY <1>1, <1>2, <1>9 DEF PollWakes, Session
  <2>3. UNCHANGED life
    BY <1>9 DEF PollWakes
  <2>. HIDE DEF lane
  <2>. QED
    BY <1>5, <1>6, <2>1, <2>2, <2>3
<1>10. CASE PollResumes(h)
  BY <1>3, <1>4, <1>7, <1>10 DEF PollResumes, Waits
<1>11. CASE PollSuperseded(h)
  BY <1>4, <1>7, <1>11 DEF PollSuperseded
<1>12. CASE PollCancelled(h) \/ PollDone(h)
  BY <1>4, <1>8, <1>12 DEF PollCancelled, PollDone
<1>13. CASE PollExpires(h)
  BY <1>3, <1>4, <1>7, <1>8, <1>13, Zenon DEF PollExpires, Waits
<1>14. ASSUME NEW o \in LaneIds, NEW cursor \in Nat, PollLane(h, o, cursor)
       PROVE  PollSettles(ses, ses')
  BY <1>14, PollLaneSettles
<1>. QED
  BY <1>9, <1>10, <1>11, <1>12, <1>13, <1>14, Zenon DEF PollMoves

LEMMA SettledStep ==
  ASSUME TypeOK, TypeOK', LanesOrderly, Settled, [Next]_vars
  PROVE  Settled'
<1>1. /\ ses \in Session /\ life \in [LaneIds -> {"new", "open", "over"}]
      /\ generation \in [LaneIds -> Nat]
  BY DEF TypeOK, BackendTypeOK
<1>2. Elsewhere \/ \E h \in Pollers : PollMoves(h)
  BY StepSorted DEF LanesOrderly
<1>3. CASE Elsewhere
  <2>1. UNCHANGED carrier
    BY <1>3 DEF Elsewhere, NoNewPanic
  <2>2. CASE OverSockets
    <3>1. \A l \in StreamIds : life[l] # "over"
      BY <2>2 DEF Settled
    <3>2. \A l \in StreamIds : life'[l] # "over"
      <4>1. CASE UNCHANGED life
        BY <3>1, <4>1
      <4>2. ASSUME NEW o, life' = [life EXCEPT ![o] = "open"]
            PROVE  \A l \in StreamIds : life'[l] # "over"
        BY <1>1, <3>1, <4>2, LanesAreStreams
      <4>. QED
        BY <1>3, <4>1, <4>2, Zenon DEF Elsewhere, SessionStep, Uploads
    <3>. QED
      BY <2>1, <2>2, <3>2 DEF Settled, OverSockets
  <2>3. CASE ~OverSockets
    <3>1. \A l \in StreamIds : SettledAt(ses, generation, life, l)
      BY <2>3 DEF Settled
    <3>2. ObjectsKept
      BY <1>3 DEF Elsewhere
    <3>3. CASE Carried(ses, ses', LiveStreams(ses)) /\ UNCHANGED life
      <4>1. ASSUME NEW l \in StreamIds
            PROVE  SettledAt(ses', generation', life, l)
        <5>1. generation'[l] # 0 =>
                generation[l] # 0 \/ (ses.lanes[l].present /\ ~ses'.lanes[l].present)
          BY <1>1, <3>2, LanesAreStreams DEF ObjectsKept, Dropped
        <5>2. l \in LiveStreams(ses) => ses.streams[l].live
          BY DEF LiveStreams
        <5>. QED
          BY <1>1, <2>3, <3>1, <3>3, <5>1, <5>2, SettledCarried
      <4>. QED
        BY <2>1, <2>3, <3>3, <4>1, Zenon DEF Settled, OverSockets, SettledAt
    <3>4. ASSUME NEW h \in Pollers, NEW s \in Session, NEW r, Upload(r),
                 NoReuse(r.lane, r.body), Uploads(h, r, s)
          PROVE  Settled'
      <4>1. \A l \in StreamIds : SettledAt(ses', generation', life', l)
        BY <2>3, <3>1, <3>2, <3>4, SettledBody DEF LanesOrderly
      <4>. QED
        BY <2>1, <2>3, <4>1, Zenon DEF Settled, OverSockets, SettledAt
    <3>. QED
      BY <1>3, <2>3, <3>3, <3>4, Zenon DEF Elsewhere, SessionStep
  <2>. QED
    BY <2>2, <2>3
<1>4. ASSUME NEW h \in Pollers, PollMoves(h)
      PROVE  Settled'
  <2>1. PollFrame(ses, ses') /\ UNCHANGED <<generation, carrier>>
    BY <1>4, PollMovesOrderly DEF LanesOrderly
  <2>2. PollSettles(ses, ses')
    BY <1>4, PollMovesSettles DEF LanesOrderly, Settled
  <2>3. CASE OverSockets
    BY <2>1, <2>2, <2>3, Zenon DEF Settled, PollSettles, Tells, OverSockets
  <2>4. CASE ~OverSockets
    <3>1. ASSUME NEW l \in StreamIds
          PROVE  SettledAt(ses', generation', life', l)
      <4>1. SettledAt(ses, generation, life, l)
        BY <2>4 DEF Settled
      <4>2. /\ ses'.streams = ses.streams /\ ses'.closedOrder = ses.closedOrder
            /\ generation' = generation
        BY <2>1 DEF PollFrame
      <4>3. Known(ses', l) <=> Known(ses, l)
        BY <4>2, Zenon DEF Known, WasClosed
      <4>4. (Empty(ses.lanes[l]) => Empty(ses'.lanes[l])) /\ Tells(ses', life, life', l)
        BY <2>2 DEF PollSettles
      <4>5. CASE life'[l] = life[l]
        BY <4>1, <4>2, <4>3, <4>4, <4>5, Zenon DEF SettledAt
      <4>6. CASE life'[l] = "over" /\ ~ses'.streams[l].live /\ Empty(ses'.lanes[l])
        BY <4>6 DEF SettledAt
      <4>. QED
        BY <4>4, <4>5, <4>6 DEF Tells
    <3>. QED
      BY <2>1, <2>4, <3>1, Zenon DEF Settled, OverSockets, SettledAt
  <2>. QED
    BY <2>3, <2>4
<1>. QED
  BY <1>2, <1>3, <1>4

(* X-Lane-Closed means what it says: the lane it is said of holds nothing  *)
(* the client has not got, and nothing will be queued in it again.  What   *)
(* makes this inductive is that an id whose lane has been dropped is never *)
(* given another by a client that keeps to its ids (session.go:638-655,    *)
(* PROTOCOL.md:275).                                                       *)
THEOREM ClosedMeansDrainedHolds == Spec => []ClosedMeansDrained
<1>1. Init => Settled
  <2>. SUFFICES ASSUME Init PROVE Settled
    OBVIOUS
  <2>1. \A l \in StreamIds : /\ life[l] = "new" /\ generation[l] = 0
                             /\ ses.streams[l] = NoStream
    BY LanesAreStreams DEF Init, NewSession
  <2>2. ~NoStream.live
    BY DEF NoStream
  <2>3. ses.closedOrder = <<>>
    BY DEF Init, NewSession
  <2>4. ASSUME NEW l \in StreamIds PROVE ~Known(ses, l)
    <3>1. ~ses.streams[l].live
      BY <2>1, <2>2, Zenon
    <3>. QED
      BY <2>3, <3>1 DEF Known, WasClosed
  <2>. QED
    BY <2>1, <2>4 DEF Settled, SettledAt
<1>2. TypeOK /\ TypeOK' /\ LanesOrderly /\ Settled /\ [Next]_vars => Settled'
  BY SettledStep
<1>3. Settled => ClosedMeansDrained
  BY Zenon DEF Settled, SettledAt, ClosedMeansDrained, Empty, stream
<1>. QED
  BY <1>1, <1>2, <1>3, TypeOKHolds, LanesOrderlyHolds, PTL DEF Spec

-----------------------------------------------------------------------------
(* The budget.  Between two steps nobody holds a reservation; while a body *)
(* is applied, what its frames have left of theirs is the batch's.         *)
Balanced(s) == Charged(s, 0, 0)

BatchBalanced(b) == Charged(b.ses, b.cost, b.items)

LEMMA KeptBalanced ==
  ASSUME NEW s, NEW t, ChargesKept(s, t), Balanced(s)
  PROVE  Balanced(t)
<1>1. 0 \in Int
  OBVIOUS
<1>. QED
  BY <1>1, Zenon DEF Balanced, ChargesKept

LEMMA OpenAppliedBalanced ==
  ASSUME NEW b \in BatchType, BatchBalanced(b), NEW id \in StreamIds,
         ~b.ses.streams[id].live, NEW refused, NEW pool
  PROVE  BatchBalanced(OpenApplied(b, id, refused, pool))
<1>. DEFINE remembered == RememberClosed(b.ses, id)
            frame == [type |-> "CLOSE", id |-> id, n |-> 0]
            queued == QueueFrame(remembered, frame)
            o == PutStream(b.ses, id, OpenedStream)
            old == b.ses.streams[id]
            c == b.cost
            i == b.items
<1>1. b.ses \in Session /\ c \in Int /\ i \in Int /\ Charged(b.ses, c, i)
  BY BatchFields DEF BatchBalanced
<1>2. CASE ~(TooManyStreams(b.ses) \/ refused)
  <2>1. OpenApplied(b, id, refused, pool) = [b EXCEPT !.ses = o, !.opened = {id}]
    BY <1>2 DEF OpenApplied, BatchType, PutStream
  <2>2. /\ OpenedStream.live
        /\ OpenedStream.pendingWriteCost = 0 /\ OpenedStream.pendingWriteItems = 0
    BY DEF OpenedStream, NoStream
  <2>. HIDE DEF c, i
  <2>3. Charged(o, c - (OpenedStream.pendingWriteCost - b.ses.streams[id].pendingWriteCost),
                   i - (OpenedStream.pendingWriteItems - b.ses.streams[id].pendingWriteItems))
    BY <1>1, <2>2, NoStreamType, OneStreamCharges, Zenon
  <2>4. b.ses.streams[id].pendingWriteCost = 0 /\ b.ses.streams[id].pendingWriteItems = 0
    BY <1>1, Zenon DEF Charged, EndedOwesNothing
  <2>5. c - (0 - 0) = c /\ i - (0 - 0) = i
    BY <1>1
  <2>6. Charged(o, c, i)
    BY <2>2, <2>3, <2>4, <2>5, Zenon
  <2>. HIDE DEF o
  <2>7. /\ [b EXCEPT !.ses = o, !.opened = {id}].ses = o
        /\ [b EXCEPT !.ses = o, !.opened = {id}].cost = c
        /\ [b EXCEPT !.ses = o, !.opened = {id}].items = i
    BY DEF BatchType, c, i
  <2>. QED
    BY <2>1, <2>6, <2>7, Zenon DEF BatchBalanced
<1>3. CASE TooManyStreams(b.ses) \/ refused
  <2>1. remembered \in Session /\ Charged(remembered, c, i)
    BY <1>1, RememberClosedType, RememberCharges, Zenon DEF ChargesKept
  <2>2. frame \in Queueable
    BY DEF Queueable
  <2>. HIDE DEF remembered, frame, c, i
  <2>3. Charged(queued, c, i)
    BY <1>1, <2>1, <2>2, QueueFrameCharges, Zenon DEF ChargesKept
  <2>4. \/ OpenApplied(b, id, refused, pool) = [b EXCEPT !.ses = queued]
        \/ OpenApplied(b, id, refused, pool) = [b EXCEPT !.ses = remembered, !.applied = FALSE]
    BY <1>3, Zenon DEF OpenApplied, remembered, frame
  <2>. HIDE DEF queued
  <2>5. /\ [b EXCEPT !.ses = queued].ses = queued
        /\ [b EXCEPT !.ses = queued].cost = c /\ [b EXCEPT !.ses = queued].items = i
        /\ [b EXCEPT !.ses = remembered, !.applied = FALSE].ses = remembered
        /\ [b EXCEPT !.ses = remembered, !.applied = FALSE].cost = c
        /\ [b EXCEPT !.ses = remembered, !.applied = FALSE].items = i
    BY DEF BatchType, c, i
  <2>. QED
    BY <2>1, <2>3, <2>4, <2>5, Zenon DEF BatchBalanced
<1>. QED
  BY <1>2, <1>3

(* A queued payload moves its charge from the reservation to the stream.   *)
LEMMA DataAppliedBalanced ==
  ASSUME NEW b \in BatchType, BatchBalanced(b), NEW id \in StreamIds,
         b.ses.streams[id].live, NEW n \in Nat, n <= MaxFramePayload
  PROVE  BatchBalanced(DataApplied(b, id, n))
<1>. DEFINE old == b.ses.streams[id]
            x == WriteQueued(old, n)
            items == IF Coalesces(old, n) THEN 0 ELSE 1
            a == n + items * QueueItemCost
            o == PutStream(b.ses, id, x)
            c == b.cost
            i == b.items
<1>1. /\ b.ses \in Session /\ c \in Int /\ i \in Int /\ Charged(b.ses, c, i)
      /\ old \in Stream /\ old.pendingWriteCost \in Int /\ old.pendingWriteItems \in Int
  BY BatchFields, SessionFields, StreamFields DEF BatchBalanced
<1>2. DataApplied(b, id, n) = [b EXCEPT !.ses = o, !.cost = c - a, !.items = i - items]
  BY <1>1 DEF DataApplied, BatchType, PutStream
<1>3. items \in Int /\ a \in Int /\ items * QueueItemCost \in Int
  BY FrameAssumption
<1>. HIDE DEF old
<1>4. x \in Stream
  BY <1>1, WriteQueuedType, Zenon
<1>5. /\ x.live = old.live
      /\ x.pendingWriteCost = old.pendingWriteCost + n + items * QueueItemCost
      /\ x.pendingWriteItems = old.pendingWriteItems + items
  BY <1>1 DEF WriteQueued, Stream
<1>. HIDE DEF items, x
<1>6. x.pendingWriteCost - old.pendingWriteCost = a /\ x.pendingWriteItems - old.pendingWriteItems = items
  BY <1>1, <1>3, <1>5
<1>. HIDE DEF a, c, i
<1>7. Charged(o, c - (x.pendingWriteCost - b.ses.streams[id].pendingWriteCost),
                 i - (x.pendingWriteItems - b.ses.streams[id].pendingWriteItems))
  BY <1>1, <1>4, <1>5, OneStreamCharges, Zenon DEF old
<1>8. Charged(o, c - a, i - items)
  BY <1>6, <1>7, Zenon DEF old
<1>. HIDE DEF o
<1>9. /\ [b EXCEPT !.ses = o, !.cost = c - a, !.items = i - items].ses = o
      /\ [b EXCEPT !.ses = o, !.cost = c - a, !.items = i - items].cost = c - a
      /\ [b EXCEPT !.ses = o, !.cost = c - a, !.items = i - items].items = i - items
  BY DEF BatchType
<1>. QED
  BY <1>2, <1>8, <1>9, Zenon DEF BatchBalanced

LEMMA QuietAppliedBalanced ==
  ASSUME NEW b \in BatchType, BatchBalanced(b), NEW id \in StreamIds
  PROVE  /\ \A n : BatchBalanced(WindowApplied(b, id, n))
         /\ BatchBalanced(CloseApplied(b, id))
         /\ BatchBalanced([b EXCEPT !.panics = TRUE, !.applied = FALSE])
<1>. DEFINE old == b.ses.streams[id]
<1>1. /\ b.ses \in Session /\ b.cost \in Int /\ b.items \in Int /\ Charged(b.ses, b.cost, b.items)
      /\ old \in Stream
  BY BatchFields, SessionFields DEF BatchBalanced
<1>2. ASSUME NEW n PROVE BatchBalanced(WindowApplied(b, id, n))
  <2>. DEFINE k == AddCredit(old.sendCredit, n)
              x == [old EXCEPT !.sendCredit = k, !.creditNotify = TRUE]
              o == PutStream(b.ses, id, x)
              d == [b.ses EXCEPT !.streams[id].sendCredit = k, !.streams[id].creditNotify = TRUE]
  <2>1. WindowApplied(b, id, n) = [b EXCEPT !.ses = o]
    <3>1. WindowApplied(b, id, n) = [b EXCEPT !.ses.streams[id].sendCredit = k,
                                              !.ses.streams[id].creditNotify = TRUE]
      BY Zenon DEF WindowApplied
    <3>2. o = [b.ses EXCEPT !.streams[id] = [old EXCEPT !.sendCredit = k, !.creditNotify = TRUE]]
      BY DEF PutStream
    <3>. HIDE DEF k, x, o
    <3>3. WindowApplied(b, id, n) = [b EXCEPT !.ses = d]
      BY <3>1 DEF BatchType
    <3>4. d = o
      BY <1>1, <3>2 DEF Session
    <3>. QED
      BY <3>3, <3>4, Zenon
  <2>2. /\ x.live <=> b.ses.streams[id].live
        /\ x.pendingWriteCost = b.ses.streams[id].pendingWriteCost
        /\ x.pendingWriteItems = b.ses.streams[id].pendingWriteItems
    BY <1>1 DEF Stream
  <2>. HIDE DEF x
  <2>3. Charged(o, b.cost, b.items)
    BY <1>1, <2>2, StreamKeepsCharges, Zenon DEF ChargesKept
  <2>. HIDE DEF o
  <2>4. /\ [b EXCEPT !.ses = o].ses = o
        /\ [b EXCEPT !.ses = o].cost = b.cost /\ [b EXCEPT !.ses = o].items = b.items
    BY DEF BatchType
  <2>. QED
    BY <2>1, <2>3, <2>4, Zenon DEF BatchBalanced
<1>3. BatchBalanced(CloseApplied(b, id))
  <2>. DEFINE o == EndStream(b.ses, id)
  <2>1. Charged(o, b.cost, b.items)
    BY <1>1, EndStreamCharges, Zenon DEF ChargesKept
  <2>2. CloseApplied(b, id) = [b EXCEPT !.ses = o, !.closed = {id}]
    BY DEF CloseApplied
  <2>. HIDE DEF o
  <2>3. /\ [b EXCEPT !.ses = o, !.closed = {id}].ses = o
        /\ [b EXCEPT !.ses = o, !.closed = {id}].cost = b.cost
        /\ [b EXCEPT !.ses = o, !.closed = {id}].items = b.items
    BY DEF BatchType
  <2>. QED
    BY <2>1, <2>2, <2>3, Zenon DEF BatchBalanced
<1>4. BatchBalanced([b EXCEPT !.panics = TRUE, !.applied = FALSE])
  <2>. DEFINE d == [b EXCEPT !.panics = TRUE, !.applied = FALSE]
  <2>1. d.ses = b.ses /\ d.cost = b.cost /\ d.items = b.items
    BY DEF BatchType
  <2>. HIDE DEF d
  <2>2. BatchBalanced(d)
    BY <1>1, <2>1, Zenon DEF BatchBalanced
  <2>. QED
    BY <2>2 DEF d
<1>. QED
  BY <1>2, <1>3, <1>4

LEMMA FrameAppliedBalanced ==
  ASSUME NEW b \in BatchType, BatchBalanced(b), NEW f \in Frame, f.id \in StreamIds,
         PayloadLength(f) <= MaxFramePayload,
         f.type = "OPEN" => ~b.ses.streams[f.id].live, NEW refused, NEW pool
  PROVE  BatchBalanced(FrameApplied(b, f, refused, pool))
<1>. DEFINE G == {d \in {b, OpenApplied(b, f.id, refused, pool),
                         [b EXCEPT !.panics = TRUE, !.applied = FALSE],
                         DataApplied(b, f.id, f.n), WindowApplied(b, f.id, f.n),
                         CloseApplied(b, f.id)} : BatchBalanced(d)}
<1>1. f.type = "OPEN" => BatchBalanced(OpenApplied(b, f.id, refused, pool))
  BY OpenAppliedBalanced, Zenon
<1>2. ASSUME f.type = "DATA", b.ses.streams[f.id].live
      PROVE  BatchBalanced(DataApplied(b, f.id, f.n))
  <2>1. f.n \in Nat /\ f.n <= MaxFramePayload
    BY <1>2 DEF Frame, PayloadLength
  <2>. QED
    BY <1>2, <2>1, DataAppliedBalanced, Zenon
<1>3. /\ BatchBalanced(WindowApplied(b, f.id, f.n)) /\ BatchBalanced(CloseApplied(b, f.id))
      /\ BatchBalanced([b EXCEPT !.panics = TRUE, !.applied = FALSE])
  BY QuietAppliedBalanced
<1>4. FrameApplied(b, f, refused, pool) \in G
  <2>. HIDE DEF G
  <2>1. /\ b \in G /\ WindowApplied(b, f.id, f.n) \in G /\ CloseApplied(b, f.id) \in G
        /\ [b EXCEPT !.panics = TRUE, !.applied = FALSE] \in G
    BY <1>3 DEF G
  <2>2. /\ f.type = "OPEN" => OpenApplied(b, f.id, refused, pool) \in G
        /\ f.type = "DATA" /\ b.ses.streams[f.id].live => DataApplied(b, f.id, f.n) \in G
    BY <1>1, <1>2 DEF G
  <2>. QED
    BY <2>1, <2>2, FrameRule
<1>. QED
  BY <1>4

(* The whole body: its OPEN, if it has one, finds no stream.               *)
LEMMA BatchAppliedBalanced ==
  ASSUME NEW s \in Session, Orderly(s), NEW l \in LaneIds, s.lanes[l].present,
         NEW body \in Bodies \cup {<<>>}, OfLane(body, l), ValidBatch(s, body),
         BatchBalanced(Batch(s, body)), NEW refused, NEW pool
  PROVE  LET b == BatchApplied(s, body, refused, pool)
         IN  b \in BatchType /\ BatchBalanced(b)
<1>1. CASE l = 0
  <2>. DEFINE G == [k \in Nat |-> {Batch(s, body)}]
  <2>1. Len(body) \in Nat /\ \A k \in 1 .. Len(body) : body[k].id = 0
    BY <1>1, WellFormed DEF OfLane
  <2>2. ASSUME NEW k \in 1 .. Len(body), NEW b \in G[k - 1]
        PROVE  FrameApplied(b, body[k], refused, pool) \in G[k]
    <3>1. b = Batch(s, body)
      BY <2>1
    <3>2. FrameApplied(b, body[k], refused, pool) = b
      BY <2>1 DEF FrameApplied
    <3>. QED
      BY <2>1, <3>1, <3>2
  <2>3. Batch(s, body) \in G[0] /\ G[Len(body)] = {Batch(s, body)}
    BY <2>1
  <2>. HIDE DEF G
  <2>4. BatchApplied(s, body, refused, pool) \in G[Len(body)]
    BY <2>1, <2>2, <2>3, BatchInduction, Zenon
  <2>5. BatchApplied(s, body, refused, pool) \in BatchType
    BY <1>1, LaneZeroBatch
  <2>. QED
    BY <2>3, <2>4, <2>5
<1>2. CASE l # 0
  <2>. DEFINE G == [k \in Nat |-> {b \in Prefixes(s, body, l, k) : BatchBalanced(b)}]
  <2>1. l \in StreamIds
    BY <1>2, LanesAreStreams
  <2>2. /\ Len(body) \in Nat
        /\ \A k \in 1 .. Len(body) : body[k] \in Frame /\ body[k].id = l
                                     /\ PayloadLength(body[k]) <= MaxFramePayload
        /\ body[1].type = "OPEN" => ~Known(s, l)
        /\ \A k \in 1 .. Len(body) : body[k].type = "OPEN" => k = 1
    <3>1. Len(body) \in Nat \ {0}
      BY <2>1, BodyOrder
    <3>2. \A k \in 1 .. Len(body) : body[k] \in Frame /\ body[k].id = l
                                     /\ PayloadLength(body[k]) <= MaxFramePayload
      <4>1. \A k \in 1 .. Len(body) :
              body[k] \in Frame /\ ValidClientShape(body[k]) /\ body[k].id = l /\ l # 0
              /\ PayloadLength(body[k]) <= MaxFramePayload
        BY <2>1, BodyOrder, Zenon
      <4>. QED
        BY <4>1, Zenon
    <3>3. /\ body[1].type = "OPEN" => ~Known(s, l)
          /\ \A k \in 1 .. Len(body) : body[k].type = "OPEN" => k = 1
      BY <2>1, BodyOrder, Zenon
    <3>. QED
      BY <3>1, <3>2, <3>3
  <2>3. Batch(s, body) \in G[0]
    <3>1. Carried(s, s, {}) /\ Carried(s, s, {l})
      BY BudgetCarried, CarriedWider
    <3>2. body[1].type # "OPEN" => Known(s, l)
      BY <2>1, BodyOrder, Zenon
    <3>3. Batch(s, body) \in BatchType
      BY WriteCostType DEF Batch, BatchType
    <3>4. /\ Batch(s, body).ses = s /\ Batch(s, body).applied /\ ~Batch(s, body).panics
          /\ Batch(s, body).opened = {} /\ Batch(s, body).closed = {}
      BY DEF Batch
    <3>5. Batch(s, body) \in Prefixes(s, body, l, 0)
      BY <3>1, <3>2, <3>3, <3>4 DEF Prefixes
    <3>. QED
      BY <3>5
  <2>4. ASSUME NEW k \in 1 .. Len(body), NEW b \in G[k - 1]
        PROVE  FrameApplied(b, body[k], refused, pool) \in G[k]
    <3>1. k \in Nat /\ k - 1 \in Nat
      BY <2>2
    <3>2. b \in Prefixes(s, body, l, k - 1) /\ BatchBalanced(b)
      BY <3>1
    <3>3. b \in BatchType /\ (k - 1 = 0 => b.ses = s)
      BY <3>2, Zenon DEF Prefixes
    <3>4. body[k].type = "OPEN" => ~b.ses.streams[l].live
      BY <2>2, <3>3 DEF Known
    <3>5. BatchBalanced(FrameApplied(b, body[k], refused, pool))
      BY <2>1, <2>2, <3>2, <3>3, <3>4, FrameAppliedBalanced, Zenon
    <3>6. FrameApplied(b, body[k], refused, pool) \in Prefixes(s, body, l, k)
      BY <2>1, <3>2, NextPrefix
    <3>. QED
      BY <3>1, <3>5, <3>6
  <2>5. \A b \in G[Len(body)] : b \in BatchType /\ BatchBalanced(b)
    BY <2>2 DEF Prefixes
  <2>. HIDE DEF G
  <2>6. BatchApplied(s, body, refused, pool) \in G[Len(body)]
    BY <2>2, <2>3, <2>4, BatchInduction, Zenon
  <2>. QED
    BY <2>5, <2>6, Zenon
<1>. QED
  BY <1>1, <1>2

(* The reservation does not change what is to be reserved.                 *)
LEMMA ReserveWrites ==
  ASSUME NEW s \in Session, NEW cost, NEW items, NEW body
  PROVE  /\ WriteCost(Reserve(s, cost, items), body) = WriteCost(s, body)
         /\ WriteItems(Reserve(s, cost, items), body) = WriteItems(s, body)
<1>. DEFINE t == Reserve(s, cost, items)
<1>1. t.streams = s.streams
  BY ReserveKeeps
<1>. HIDE DEF t
<1>2. \A k : IsWrite(t, body, k) <=> IsWrite(s, body, k)
  BY <1>1, Zenon DEF IsWrite, OpenBefore
<1>3. /\ [k \in 1 .. Len(body) |-> IF IsWrite(t, body, k) THEN body[k].n + QueueItemCost ELSE 0]
           = [k \in 1 .. Len(body) |-> IF IsWrite(s, body, k) THEN body[k].n + QueueItemCost ELSE 0]
      /\ [k \in 1 .. Len(body) |-> IF IsWrite(t, body, k) THEN 1 ELSE 0]
           = [k \in 1 .. Len(body) |-> IF IsWrite(s, body, k) THEN 1 ELSE 0]
  BY <1>2
<1>. QED
  BY <1>3, Zenon DEF WriteCost, WriteItems, t

(* What is left of the reservation when the body ends is released.         *)
LEMMA CommittedBalanced ==
  ASSUME NEW s \in Session, Orderly(s), Balanced(s), NEW r, Upload(r), s.lanes[r.lane].present,
         OfLane(r.body, r.lane), ValidBatch(s, r.body), NEW refused, NEW pool
  PROVE  LET o == Reserve(s, WriteCost(s, r.body), WriteItems(s, r.body))
         IN  Balanced(Committed(r, BatchApplied(o, r.body, refused, pool)))
<1>. DEFINE cost == WriteCost(s, r.body)
            items == WriteItems(s, r.body)
            o == Reserve(s, cost, items)
            b == BatchApplied(o, r.body, refused, pool)
            u == ReleasePending(b.ses, b.cost, b.items)
            l == r.lane
            t == [u EXCEPT !.lanes[l].lastUpSequence = r.seq, !.lanes[l].lastUpDigest = r.body]
<1>1. cost \in Int /\ items \in Int /\ l \in LaneIds /\ r.body \in Bodies \cup {<<>>}
  BY WriteCostType DEF Upload
<1>2. WriteCost(o, r.body) = cost /\ WriteItems(o, r.body) = items
  BY ReserveWrites
<1>3. Batch(o, r.body).ses = o /\ Batch(o, r.body).cost = cost /\ Batch(o, r.body).items = items
  BY <1>2 DEF Batch
<1>. HIDE DEF cost, items
<1>4. BatchBalanced(Batch(o, r.body))
  <2>1. Charged(o, 0 + cost, 0 + items)
    <3>1. 0 \in Int /\ Charged(s, 0, 0)
      BY DEF Balanced
    <3>. QED
      BY <1>1, <3>1, BudgetCharges, Zenon
  <2>2. 0 + cost = cost /\ 0 + items = items
    BY <1>1
  <2>. HIDE DEF o
  <2>. QED
    BY <1>3, <2>1, <2>2, Zenon DEF BatchBalanced
<1>5. /\ o \in Session /\ Orderly(o) /\ o.lanes[l].present /\ ValidBatch(o, r.body)
  <2>1. Carried(s, o, {})
    BY BudgetCarried
  <2>2. Orderly(o)
    BY <2>1, Zenon DEF Carried
  <2>. QED
    BY <1>1, <2>2, ReserveType, ReserveKeeps, ReserveValid
<1>. HIDE DEF o
<1>6. b \in BatchType /\ BatchBalanced(b)
  BY <1>1, <1>4, <1>5, BatchAppliedBalanced
<1>. HIDE DEF b
<1>7. b.ses \in Session /\ b.cost \in Int /\ b.items \in Int
  BY <1>6, BatchFields
<1>8. u \in Session /\ Balanced(u)
  <2>1. Charged(u, b.cost - b.cost, b.items - b.items)
    BY <1>6, <1>7, BudgetCharges, Zenon DEF BatchBalanced
  <2>2. b.cost - b.cost = 0 /\ b.items - b.items = 0
    BY <1>7
  <2>3. u \in Session
    BY <1>7, ReleasePendingType
  <2>. HIDE DEF u
  <2>. QED
    BY <2>1, <2>2, <2>3, Zenon DEF Balanced
<1>9. Balanced(t)
  <2>. HIDE DEF u
  <2>. QED
    BY <1>1, <1>8, LanesCharges, KeptBalanced, Zenon
<1>10. Committed(r, b) = u \/ Committed(r, b) = t
  BY Zenon DEF Committed
<1>. HIDE DEF u, t
<1>11. Balanced(Committed(r, b))
  BY <1>8, <1>9, <1>10, Zenon
<1>. QED
  BY <1>11, Zenon DEF b, o, cost, items

(* A lane is made with nothing in it.                                      *)
LEMMA CreatedCharges ==
  ASSUME NEW s \in Session, Orderly(s), NEW l \in LaneIds, NEW t, LaneCreated(s, t, l)
  PROVE  ChargesKept(s, t)
<1>1. s.lanes[l] = NoLane /\ t = PutLane(s, l, NewLane)
  BY Zenon DEF Orderly, LaneCreated, PutLane
<1>2. SameQueued(NoLane, NewLane)
  BY DEF SameQueued, NewLane, NoLane
<1>. QED
  BY <1>1, <1>2, LaneKeepsCharges, Zenon

LEMMA UpLaneBalanced ==
  ASSUME TypeOK, Orderly(ses), Balanced(ses), NEW h \in Pollers, NEW r, Upload(r), UpLane(h, r)
  PROVE  Balanced(ses')
<1>. DEFINE s == IF ~ses.lanes[r.lane].present
                 THEN [ses EXCEPT !.lanes[r.lane] = NewLane] ELSE ses
            kept == s = ses \/ LaneCreated(ses, s, r.lane)
<1>1. ses \in Session /\ r.lane \in LaneIds
  BY DEF TypeOK, BackendTypeOK, Upload
<1>2. (~ses.lanes[r.lane].present => r.lane # 0) => kept
  BY Zenon DEF LaneCreated
<1>3. kept => s \in Session /\ Orderly(s) /\ s.lanes[r.lane].present /\ Balanced(s)
  <2>1. CASE ses.lanes[r.lane].present
    BY <1>1, <2>1
  <2>2. CASE ~ses.lanes[r.lane].present
    <3>1. SUFFICES ASSUME LaneCreated(ses, s, r.lane)
                   PROVE  s \in Session /\ Orderly(s) /\ s.lanes[r.lane].present /\ Balanced(s)
      BY <1>1, <2>2, NoLaneType, SessionFields DEF NewLane, NoLane, Session
    <3>. HIDE DEF s
    <3>2. NewLane.present
      BY DEF NewLane, NoLane
    <3>. QED
      BY <1>1, <3>1, <3>2, CreatedFields, CreatedCharges, KeptBalanced
  <2>. QED
    BY <2>1, <2>2
<1>4. \/ ses' = ses
      \/ kept /\ ses' = s
      \/ kept /\ OfLane(r.body, r.lane) /\ ValidBatch(s, r.body) /\ UpApplies(h, r, s)
  <2>. HIDE DEF kept
  <2>. QED
    BY <1>2 DEF UpLane, s
<1>. HIDE DEF s
<1>5. CASE kept /\ OfLane(r.body, r.lane) /\ ValidBatch(s, r.body) /\ UpApplies(h, r, s)
  <2>. DEFINE o == Reserve(s, WriteCost(s, r.body), WriteItems(s, r.body))
  <2>1. \A refused, pool : Balanced(Committed(r, BatchApplied(o, r.body, refused, pool)))
    BY <1>3, <1>5, CommittedBalanced
  <2>2. \/ ses' = s
        \/ \E refused, pool : ses' = Committed(r, BatchApplied(o, r.body, refused, pool))
    BY <1>5, Zenon DEF UpApplies, BodyApplied
  <2>. QED
    BY <1>3, <1>5, <2>1, <2>2, Zenon
<1>. QED
  BY <1>3, <1>4, <1>5, Zenon

(* The end of a lane takes what it and its stream owe with it.             *)
LEMMA FailLaneBalanced ==
  ASSUME NEW s \in Session, NEW l \in LaneIds, Balanced(s)
  PROVE  Balanced(ReleaseLane(s, l)) /\ Balanced(FailLane(s, l))
<1>. DEFINE ended == CancelBackend(EndStream(s, l), {l})
<1>1. l \in LiveStreams(s) => ended \in Session /\ Balanced(ended)
  <2>. SUFFICES ASSUME l \in LiveStreams(s) PROVE ended \in Session /\ Balanced(ended)
    OBVIOUS
  <2>1. l \in StreamIds
    BY DEF LiveStreams
  <2>2. EndStream(s, l) \in Session /\ Balanced(EndStream(s, l))
    BY <2>1, EndStreamType, EndStreamCharges, KeptBalanced, Zenon
  <2>. QED
    BY <2>1, <2>2, CancelBackendType, WaitersCharges, KeptBalanced
<1>. HIDE DEF ended
<1>2. /\ Balanced(DropLane(s, l))
      /\ l \in LiveStreams(s) => Balanced(DropLane(ended, l))
  BY <1>1, DropLaneCharges, KeptBalanced, Zenon
<1>3. Balanced(ReleaseLane(s, l))
  BY <1>2, Zenon DEF ReleaseLane, ended
<1>4. Balanced(CloseSession(s))
  BY CloseSessionCharges, Zenon DEF Balanced
<1>. QED
  BY <1>3, <1>4, Zenon DEF FailLane

(* What a poll takes from the queue is charged as its batch, of which      *)
(* there is none before.                                                   *)
LEMMA PollLoopsBalanced ==
  ASSUME TypeOK, NEW s \in Session, NEW ps \in [Pollers -> PollState], NEW h \in Pollers,
         PollLoops(s, ps, h), Balanced(s),
         Current(ps[h], generation) => s.lanes[ps[h].lane].unacked = <<>>
  PROVE  Balanced(ses')
<1>. DEFINE l == ps[h].lane
            found == Ended(s, ps, h)
<1>1. l \in LaneIds /\ ps[h].cursor \in Nat
  BY PollFields
<1>2. CASE found = "batch"
  <2>1. PICK k \in 1 .. Len(s.lanes[l].frames) :
          ses' = [s EXCEPT !.lanes[l] = TakeBatch(@, k, ps[h].cursor)]
    BY <1>2 DEF PollLoops
  <2>2. ses' = PutLane(s, l, TakeBatch(s.lanes[l], k, ps[h].cursor))
    BY <2>1 DEF PutLane
  <2>3. s.lanes[l].unacked = <<>>
    BY <1>2 DEF Ended, Current
  <2>. HIDE DEF l
  <2>. QED
    BY <1>1, <2>2, <2>3, TakeCharges, KeptBalanced, Zenon
<1>3. CASE found # "batch"
  <2>1. ses' = s \/ ses' = [s EXCEPT !.lanes[l].owner = NoPoller]
    BY <1>3, Zenon DEF PollLoops
  <2>. HIDE DEF l
  <2>2. ChargesKept(s, [s EXCEPT !.lanes[l].owner = NoPoller])
    BY <1>1, LanesCharges, Zenon
  <2>. QED
    BY <2>1, <2>2, KeptBalanced, Zenon
<1>. QED
  BY <1>2, <1>3

(* An acknowledgement releases the batch before another is taken.          *)
LEMMA PollLaneBalanced ==
  ASSUME TypeOK, NEW h \in Pollers, NEW l \in LaneIds, NEW cursor \in Nat,
         PollLane(h, l, cursor), Balanced(ses)
  PROVE  Balanced(ses')
<1>1. CASE UNCHANGED ses
  BY <1>1
<1>2. CASE PollLoops(Entering(ses, l, h), Superseding(h, l, cursor), h)
  <2>. DEFINE s == Entering(ses, l, h)
              ps == Entered(h, l, cursor)
              acked == AckUnacked(ses, l)
  <2>1. ses \in Session
    BY DEF TypeOK, BackendTypeOK
  <2>2. PollLoops(s, ps, h)
    BY <1>2, LoopsAsEntered
  <2>3. s \in Session /\ s.lanes[l].unacked = <<>>
    BY <2>1, EnteringFields
  <2>4. ps \in [Pollers -> PollState] /\ ps[h].lane = l
    BY EnteredFields
  <2>5. Balanced(s)
    <3>1. acked \in Session /\ Balanced(acked)
      BY <2>1, AckUnackedType, AckCharges, KeptBalanced, Zenon
    <3>2. s = [acked EXCEPT !.lanes[l].owner = h]
      BY DEF Entering
    <3>. HIDE DEF acked, s
    <3>. QED
      BY <3>1, <3>2, LanesCharges, KeptBalanced, Zenon
  <2>. HIDE DEF s, ps
  <2>. QED
    BY <2>2, <2>3, <2>4, <2>5, PollLoopsBalanced
<1>. QED
  BY <1>1, <1>2 DEF PollLane, Entering

LEMMA PollMovesBalanced ==
  ASSUME TypeOK, PollsOrderly(ses, polls, stray, generation), NEW h \in Pollers, PollMoves(h),
         Balanced(ses)
  PROVE  Balanced(ses')
<1>. DEFINE l == polls[h].lane
<1>1. ses \in Session /\ polls \in [Pollers -> PollState] /\ l \in LaneIds
  BY PollFields DEF TypeOK, BackendTypeOK
<1>2. ASSUME PollLoops(ses, polls, h), Owns(h), Waits(polls[h])
      PROVE  Balanced(ses')
  <2>1. Follows(ses, polls[h], h, generation)
    BY DEF PollsOrderly
  <2>2. Current(polls[h], generation) => ses.lanes[l].unacked = <<>>
    BY <1>2, <2>1 DEF Follows, Owns, OnCurrent, Current
  <2>. QED
    BY <1>1, <1>2, <2>2, PollLoopsBalanced
<1>3. CASE \/ UNCHANGED ses
           \/ \E x : ses' = [ses EXCEPT !.lanes[l].owner = x]
           \/ \E x : ses' = [ses EXCEPT !.lanes[l].notify = x]
  <2>. HIDE DEF l
  <2>1. /\ \A x : ChargesKept(ses, [ses EXCEPT !.lanes[l].owner = x])
        /\ \A x : ChargesKept(ses, [ses EXCEPT !.lanes[l].notify = x])
    BY <1>1, LanesCharges, Zenon
  <2>2. ASSUME NEW x, ses' = [ses EXCEPT !.lanes[l].owner = x]
        PROVE  Balanced(ses')
    <3>1. ChargesKept(ses, ses')
      BY <2>1, <2>2
    <3>. QED
      BY <3>1, KeptBalanced, Zenon
  <2>3. ASSUME NEW x, ses' = [ses EXCEPT !.lanes[l].notify = x]
        PROVE  Balanced(ses')
    <3>1. ChargesKept(ses, ses')
      BY <2>1, <2>3
    <3>. QED
      BY <3>1, KeptBalanced, Zenon
  <2>4. UNCHANGED ses => Balanced(ses')
    BY Zenon
  <2>. QED
    BY <1>3, <2>2, <2>3, <2>4, Zenon
<1>4. TokenReturned(h) \/ ses' = Disown(ses, h) => Balanced(ses')
  BY <1>3, Zenon DEF TokenReturned, Disown
<1>5. CASE PollWakes(h)
  BY <1>3, <1>5, Zenon DEF PollWakes
<1>6. CASE PollResumes(h) \/ PollSuperseded(h) \/ PollExpires(h)
  BY <1>2, <1>4, <1>6, Zenon DEF PollResumes, PollSuperseded, PollExpires, Waits
<1>7. CASE PollCancelled(h) \/ PollDone(h)
  BY <1>4, <1>7 DEF PollCancelled, PollDone
<1>8. CASE \E o \in LaneIds, cursor \in Nat : PollLane(h, o, cursor)
  BY <1>8, PollLaneBalanced, Zenon
<1>. QED
  BY <1>5, <1>6, <1>7, <1>8, Zenon DEF PollMoves

LEMMA RequestBalanced ==
  ASSUME TypeOK, Orderly(ses), Balanced(ses), NEW h \in Pollers, Request(h)
  PROVE  Balanced(ses')
<1>1. ses \in Session /\ LanesUsed \subseteq LaneIds /\ LanesPolled \subseteq LaneIds \ {0}
  BY LaneAssumption DEF TypeOK, BackendTypeOK
<1>2. ASSUME NEW l \in LanesUsed, NEW q \in 1 .. MaxSeq, NEW body \in Bodies,
             UpRequest(h, l, q, body)
      PROVE  Balanced(ses')
  <2>. DEFINE r == [lane |-> l, seq |-> q, body |-> body]
  <2>1. q \in Nat
    BY LaneAssumption
  <2>2. Upload(r)
    BY <1>1, <2>1 DEF Upload
  <2>3. UpLane(h, r)
    BY <1>2 DEF UpRequest
  <2>. HIDE DEF r
  <2>. QED
    BY <2>2, <2>3, UpLaneBalanced
<1>3. ASSUME NEW l \in LanesPolled, NEW cursor \in 0 .. MaxCursor, PollRequest(h, l, cursor)
      PROVE  Balanced(ses')
  BY <1>1, <1>3, LaneAssumption, PollLaneBalanced DEF PollRequest
<1>4. ASSUME NEW id \in LanesPolled, SocketOpens(h, id)
      PROVE  Balanced(ses')
  <2>1. id \in LaneIds /\ id # 0
    BY <1>1
  <2>2. UNCHANGED ses \/ LaneCreated(ses, ses', id)
    BY <1>4, <2>1 DEF SocketOpens, LaneCreated
  <2>. QED
    BY <1>1, <2>1, <2>2, CreatedCharges, KeptBalanced, Zenon
<1>5. ASSUME NEW body \in SocketBodies, SocketReads(h, body)
      PROVE  Balanced(ses')
  BY <1>5 DEF SocketReads
<1>. QED
  BY <1>2, <1>3, <1>4, <1>5, Zenon DEF Request

LEMMA HandlerBalanced ==
  ASSUME TypeOK, LanesOrderly, Balanced(ses), NEW h \in Pollers,
         UpStep(h) \/ PollStep(h) \/ SocketStep(h)
  PROVE  Balanced(ses')
<1>1. /\ ses \in Session /\ ups[h] \in UpState /\ Orderly(ses)
      /\ ups[h].lane \in LaneIds /\ polls[h].lane \in LaneIds /\ sockets[h].lane \in LaneIds
      /\ sockets[h].cursor \in Nat
      /\ PollsOrderly(ses, polls, stray, generation)
  BY UpFields, PollFields, SocketFields DEF TypeOK, BackendTypeOK, LanesOrderly
<1>2. CASE UpLaunch(h)
  BY <1>1, <1>2, WaitersCharges, KeptBalanced, Zenon DEF UpLaunch
<1>3. CASE UpFails(h) \/ PollFails(h) \/ SocketEnds(h)
  <2>1. /\ Balanced(CloseSession(ses))
        /\ \A l \in LaneIds : Balanced(FailLane(ses, l)) /\ Balanced(ReleaseLane(ses, l))
    BY <1>1, CloseSessionCharges, FailLaneBalanced, Zenon DEF Balanced
  <2>. QED
    BY <1>1, <1>3, <2>1, Zenon DEF UpFails, PollFails, SocketEnds
<1>4. CASE PollStep(h) /\ ~PollFails(h)
  BY <1>1, <1>4, PollMovesBalanced, Zenon DEF PollStep, PollMoves
<1>5. CASE SocketSends(h)
  <2>1. Upload(ups[h])
    BY <1>1, UpFields DEF Upload
  <2>. QED
    BY <1>1, <1>5, <2>1, UpLaneBalanced DEF SocketSends
<1>6. CASE SocketPolls(h)
  BY <1>1, <1>6, PollLaneBalanced, Zenon DEF SocketPolls
<1>7. CASE ReaderEnds(h) \/ WriterEnds(h) \/ SocketGone(h)
  BY <1>7, Zenon DEF ReaderEnds, WriterEnds, SocketGone
<1>. QED
  BY <1>2, <1>3, <1>4, <1>5, <1>6, <1>7, Zenon DEF UpStep, SocketStep

LEMMA BalancedStep ==
  ASSUME TypeOK, LanesOrderly, Balanced(ses), [Next]_vars
  PROVE  Balanced(ses')
<1>1. ses \in Session /\ Orderly(ses) /\ BackendTypeOK
  BY DEF TypeOK, BackendTypeOK, LanesOrderly
<1>2. ASSUME NEW h \in Pollers, Request(h) \/ UpStep(h) \/ PollStep(h) \/ SocketStep(h)
      PROVE  Balanced(ses')
  BY <1>1, <1>2, RequestBalanced, HandlerBalanced, Zenon
<1>3. ASSUME NEW id \in StreamIds, BackendNext(id)
      PROVE  Balanced(ses')
  <2>1. 0 \in Int /\ 0 = 0 /\ Charged(ses, 0, 0) /\ BackendStep(id)
    BY <1>3 DEF Balanced, BackendNext
  <2>. QED
    BY <1>1, <2>1, BackendCharges, Zenon DEF Balanced
<1>4. CASE Close
  BY <1>1, <1>4, CloseSessionCharges, Zenon DEF Close, Balanced
<1>5. CASE UNCHANGED vars
  BY <1>5, Zenon DEF vars
<1>. QED
  BY <1>2, <1>3, <1>4, <1>5, Zenon DEF Next

LEMMA BalancedInit == Init => Balanced(ses)
<1>. SUFFICES ASSUME Init PROVE Balanced(ses)
  OBVIOUS
<1>1. /\ ses.pendingCost = 0 /\ ses.pendingItems = 0 /\ ses \in Session
      /\ \A id \in StreamIds : ses.streams[id] = NoStream
      /\ \A l \in LaneIds : ses.lanes[l] = NewLane \/ ses.lanes[l] = NoLane
  BY InitType DEF Init, NewSession, TypeOK, BackendTypeOK
<1>2. NoStream.pendingWriteCost = 0 /\ NoStream.pendingWriteItems = 0
  BY DEF NoStream
<1>3. \A l \in LaneIds : /\ LaneOwes(ses.lanes[l]) = 0 /\ LaneHolds(ses.lanes[l]) = 0
                         /\ BatchCharged(ses.lanes[l])
  BY <1>1, NewLaneOwes, Zenon
<1>4. WritesCost(ses) = 0 /\ WritesCount(ses) = 0
  <2>. DEFINE q == [id \in StreamIds |-> ses.streams[id].pendingWriteCost]
              r == [id \in StreamIds |-> ses.streams[id].pendingWriteItems]
  <2>1. Len(q) = MaxStreamID /\ Len(r) = MaxStreamID
    BY <1>1, StreamSequences, Zenon
  <2>2. MaxStreamID \in Nat /\ StreamIds = 1 .. MaxStreamID
    BY FrameAssumption DEF StreamIds
  <2>3. \A k \in StreamIds : q[k] = 0 /\ r[k] = 0
    BY <1>1, <1>2
  <2>. HIDE DEF q, r
  <2>4. Total(q) = 0
    BY <2>1, <2>2, <2>3, TotalZeros
  <2>5. Total(r) = 0
    BY <2>1, <2>2, <2>3, TotalZeros
  <2>. QED
    BY <2>4, <2>5, Zenon DEF WritesCost, WritesCount, q, r
<1>5. LanesOwe(ses) = 0 /\ LanesHold(ses) = 0
  <2>. DEFINE q == [k \in 1 .. LaneCount |-> LaneOwes(ses.lanes[k - 1])]
              r == [k \in 1 .. LaneCount |-> LaneHolds(ses.lanes[k - 1])]
  <2>1. Len(q) = LaneCount /\ Len(r) = LaneCount
    BY <1>1, LaneSequences
  <2>2. \A k \in 1 .. LaneCount : q[k] = 0 /\ r[k] = 0
    BY <1>3, LaneNumbers
  <2>3. LaneCount \in Nat
    BY LaneNumbers
  <2>. HIDE DEF q, r
  <2>4. Total(q) = 0
    BY <2>1, <2>2, <2>3, TotalZeros
  <2>5. Total(r) = 0
    BY <2>1, <2>2, <2>3, TotalZeros
  <2>. QED
    BY <2>4, <2>5, Zenon DEF LanesOwe, LanesHold, q, r
<1>6. BatchesCharged(ses) /\ EndedOwesNothing(ses)
  BY <1>1, <1>2, <1>3 DEF BatchesCharged, EndedOwesNothing
<1>. QED
  BY <1>1, <1>4, <1>5, <1>6 DEF Balanced, Charged

(* Every byte and item charged to a session with lanes is owed by a lane   *)
(* or by a stream: neither the eviction of a tombstone with its lane, nor  *)
(* the end of a socket or of a backend, releases anything twice or forgets *)
(* anything, in whatever order they come (session.go:1357-1400).           *)
THEOREM LaneAccountingHolds == Spec => []LaneAccounting
<1>1. Balanced(ses) /\ TypeOK => LaneAccounting
  <2>. SUFFICES ASSUME Balanced(ses), TypeOK PROVE LaneAccounting
    OBVIOUS
  <2>1. LaneCount = MaxStreamID + 1
    BY LanesAreStreams DEF LaneCount
  <2>2. /\ LanesOwe(ses) = Total([k \in 1 .. MaxStreamID + 1 |-> LaneOwes(ses.lanes[k - 1])])
        /\ LanesHold(ses) = Total([k \in 1 .. MaxStreamID + 1 |-> LaneHolds(ses.lanes[k - 1])])
    BY <2>1, Zenon DEF LanesOwe, LanesHold
  <2>3. \A k \in 1 .. MaxStreamID + 1 : LaneSeq[k] = ses.lanes[k - 1]
    BY DEF LaneSeq
  <2>4. /\ [k \in 1 .. MaxStreamID + 1 |-> LaneOwes(ses.lanes[k - 1])]
             = [k \in 1 .. MaxStreamID + 1 |->
                  Total(Costs(LaneSeq[k].frames)) + LaneSeq[k].unackedCost]
        /\ [k \in 1 .. MaxStreamID + 1 |-> LaneHolds(ses.lanes[k - 1])]
             = [k \in 1 .. MaxStreamID + 1 |->
                  Len(LaneSeq[k].frames) + LaneSeq[k].unackedItems]
    BY <2>3 DEF LaneOwes, LaneHolds
  <2>5. /\ ses.pendingCost = LanesOwe(ses) + WritesCost(ses)
        /\ ses.pendingItems = LanesHold(ses) + WritesCount(ses)
    <3>1. ses \in Session
      BY DEF TypeOK, BackendTypeOK
    <3>. QED
      BY <3>1, ChargeTypes DEF Balanced, Charged
  <2>. QED
    BY <2>2, <2>4, <2>5 DEF LaneAccounting, OverLanes, WritesCost, WritesCount, stream
<1>2. TypeOK /\ LanesOrderly /\ Balanced(ses) /\ [Next]_vars => Balanced(ses)'
  BY BalancedStep
<1>. QED
  BY <1>1, <1>2, BalancedInit, TypeOKHolds, LanesOrderlyHolds, PTL DEF Spec

-----------------------------------------------------------------------------
(* Sessions that go on.  No stream owes less than nothing, so that what is *)
(* released with it, or with a tombstone, makes room and takes none.       *)
Owing(x) == x.pendingWriteCost >= 0 /\ x.pendingWriteItems >= 0

NoneOverpaid(s) == \A id \in StreamIds : Owing(s.streams[id])

GoesOn(s, t) == t.closed = s.closed /\ (NoneOverpaid(s) => NoneOverpaid(t))

LEMMA GoesOnTransitive ==
  ASSUME NEW s, NEW t, NEW u, GoesOn(s, t), GoesOn(t, u)
  PROVE  GoesOn(s, u)
BY Zenon DEF GoesOn

LEMMA SameStreamsGoOn ==
  ASSUME NEW s, NEW t, t.closed = s.closed, t.streams = s.streams
  PROVE  GoesOn(s, t)
BY Zenon DEF GoesOn, NoneOverpaid

LEMMA StreamGoesOn ==
  ASSUME NEW s, NEW t, NEW id \in StreamIds, t.closed = s.closed,
         \A other \in StreamIds \ {id} : t.streams[other] = s.streams[other],
         Owing(s.streams[id]) => Owing(t.streams[id])
  PROVE  GoesOn(s, t)
<1>1. SUFFICES ASSUME NoneOverpaid(s), NEW other \in StreamIds PROVE Owing(t.streams[other])
  BY Zenon DEF GoesOn, NoneOverpaid
<1>2. CASE other = id
  BY <1>1, <1>2, Zenon DEF NoneOverpaid
<1>3. CASE other # id
  <2>1. t.streams[other] = s.streams[other]
    BY <1>3
  <2>. QED
    BY <1>1, <2>1, Zenon DEF NoneOverpaid
<1>. QED
  BY <1>2, <1>3

LEMMA SetStreamGoesOn ==
  ASSUME NEW s \in Session, NEW id \in StreamIds, NEW x, Owing(s.streams[id]) => Owing(x)
  PROVE  GoesOn(s, PutStream(s, id, x))
<1>. DEFINE t == PutStream(s, id, x)
<1>1. /\ t.closed = s.closed /\ t.streams[id] = x
      /\ \A other \in StreamIds \ {id} : t.streams[other] = s.streams[other]
  BY SetStreamFields
<1>. HIDE DEF t
<1>2. GoesOn(s, t)
  BY <1>1, StreamGoesOn
<1>. QED
  BY <1>2 DEF t

(* The sections that release, queue and end.                               *)
LEMMA SectionsGoOn ==
  ASSUME NEW s \in Session
  PROVE  /\ GoesOn(s, s)
         /\ \A a, b : GoesOn(s, ReleasePending(s, a, b)) /\ GoesOn(s, Reserve(s, a, b))
         /\ \A w : GoesOn(s, [s EXCEPT !.budgetWaiters = w])
         /\ \A ids : GoesOn(s, CancelBackend(s, ids))
         /\ \A f : GoesOn(s, QueueFrame(s, f))
         /\ \A l : GoesOn(s, DropLane(s, l))
<1>1. GoesOn(s, s)
  BY SameStreamsGoOn, Zenon
<1>2. ASSUME NEW a, NEW b PROVE GoesOn(s, ReleasePending(s, a, b))
  <2>. DEFINE t == ReleasePending(s, a, b)
  <2>1. t.closed = s.closed /\ t.streams = s.streams
    BY ReleasePendingFields
  <2>. QED
    BY <2>1, SameStreamsGoOn, Zenon
<1>3. ASSUME NEW a, NEW b PROVE GoesOn(s, Reserve(s, a, b))
  <2>1. Reserve(s, a, b).closed = s.closed /\ Reserve(s, a, b).streams = s.streams
    BY ReserveKeeps
  <2>. QED
    BY <2>1, SameStreamsGoOn, Zenon
<1>4. ASSUME NEW w PROVE GoesOn(s, [s EXCEPT !.budgetWaiters = w])
  <2>. DEFINE t == [s EXCEPT !.budgetWaiters = w]
  <2>1. t.closed = s.closed /\ t.streams = s.streams
    BY DEF Session
  <2>. QED
    BY <2>1, SameStreamsGoOn, Zenon
<1>5. ASSUME NEW ids PROVE GoesOn(s, CancelBackend(s, ids))
  <2>1. CancelBackend(s, ids).closed = s.closed /\ CancelBackend(s, ids).streams = s.streams
    BY DEF CancelBackend, Session
  <2>. QED
    BY <2>1, SameStreamsGoOn, Zenon
<1>6. ASSUME NEW f PROVE GoesOn(s, QueueFrame(s, f))
  <2>1. QueueFrame(s, f).closed = s.closed /\ QueueFrame(s, f).streams = s.streams
    BY DEF QueueFrame, Session
  <2>. QED
    BY <2>1, SameStreamsGoOn, Zenon
<1>7. ASSUME NEW l PROVE GoesOn(s, DropLane(s, l))
  <2>. DEFINE t == DropLane(s, l)
  <2>1. t.closed = s.closed /\ t.streams = s.streams
    BY DropLaneFields
  <2>. QED
    BY <2>1, SameStreamsGoOn, Zenon
<1>. QED
  BY <1>1, <1>2, <1>3, <1>4, <1>5, <1>6, <1>7, Zenon

LEMMA EndGoesOn ==
  ASSUME NEW s \in Session, NEW id \in StreamIds
  PROVE  GoesOn(s, RememberClosed(s, id)) /\ GoesOn(s, EndStream(s, id))
<1>1. ASSUME NEW t \in Session PROVE GoesOn(t, RememberClosed(t, id))
  <2>1. CASE WasClosed(t, id)
    BY <2>1, SectionsGoOn, Zenon DEF RememberClosed
  <2>2. CASE ~WasClosed(t, id)
    <3>. DEFINE u == RememberClosed(t, id)
    <3>1. u.closed = t.closed /\ u.streams = t.streams
      BY <2>2, RememberFields
    <3>. QED
      BY <3>1, SameStreamsGoOn, Zenon
  <2>. QED
    BY <2>1, <2>2
<1>2. GoesOn(s, DropStream(s, id)) /\ DropStream(s, id) \in Session
  <2>. DEFINE r == ReleasePending(s, s.streams[id].pendingWriteCost,
                                     s.streams[id].pendingWriteItems)
  <2>1. DropStream(s, id) = PutStream(r, id, NoStream)
    BY Zenon DEF DropStream, PutStream
  <2>2. s.streams[id].pendingWriteCost \in Int /\ s.streams[id].pendingWriteItems \in Int
    BY SessionFields, StreamFields
  <2>3. r \in Session /\ GoesOn(s, r)
    BY <2>2, ReleasePendingType, SectionsGoOn, Zenon
  <2>4. Owing(NoStream)
    BY DEF Owing, NoStream
  <2>. HIDE DEF r
  <2>5. GoesOn(r, PutStream(r, id, NoStream))
    BY <2>3, <2>4, SetStreamGoesOn, Zenon
  <2>. QED
    BY <2>1, <2>3, <2>5, GoesOnTransitive, DropStreamType, Zenon
<1>. QED
  BY <1>1, <1>2, GoesOnTransitive, Zenon DEF EndStream

LEMMA ReleaseLaneGoesOn ==
  ASSUME NEW s \in Session, NEW l \in LaneIds
  PROVE  GoesOn(s, ReleaseLane(s, l))
<1>. DEFINE ended == CancelBackend(EndStream(s, l), {l})
<1>1. ASSUME l \in LiveStreams(s) PROVE ended \in Session /\ GoesOn(s, ended)
  <2>1. l \in StreamIds
    BY <1>1 DEF LiveStreams
  <2>2. EndStream(s, l) \in Session /\ GoesOn(s, EndStream(s, l))
    BY <2>1, EndStreamType, EndGoesOn, Zenon
  <2>3. ended \in Session
    BY <2>1, <2>2, EndIds, CancelBackendType, Zenon
  <2>. QED
    BY <2>2, <2>3, SectionsGoOn, GoesOnTransitive, Zenon
<1>. HIDE DEF ended
<1>2. /\ GoesOn(s, s) /\ GoesOn(s, DropLane(s, l))
      /\ l \in LiveStreams(s) => GoesOn(s, DropLane(ended, l))
  BY <1>1, SectionsGoOn, GoesOnTransitive, Zenon
<1>. QED
  BY <1>2, Zenon DEF ReleaseLane, ended

LEMMA CloseOverpaysNone ==
  ASSUME NEW s, NoneOverpaid(s)
  PROVE  NoneOverpaid(CloseSession(s))
<1>1. CASE s.closed
  BY <1>1, Zenon DEF CloseSession
<1>2. CASE ~s.closed
  BY <1>2 DEF CloseSession, NoneOverpaid, Owing, NoStream
<1>. QED
  BY <1>1, <1>2

(* The streams of a body.                                                  *)
LEMMA FrameGoesOn ==
  ASSUME NEW b \in BatchType, NEW f \in Frame, f.id \in StreamIds,
         PayloadLength(f) <= MaxFramePayload, NEW refused, NEW pool
  PROVE  GoesOn(b.ses, FrameApplied(b, f, refused, pool).ses)
<1>. DEFINE id == f.id
            old == b.ses.streams[id]
            Good(d) == GoesOn(b.ses, d.ses)
<1>1. b.ses \in Session /\ old \in Stream /\ id \in StreamIds
  BY BatchFields, SessionFields
<1>2. Good(b) /\ Good([b EXCEPT !.panics = TRUE, !.applied = FALSE])
  <2>1. [b EXCEPT !.panics = TRUE, !.applied = FALSE].ses = b.ses
    BY DEF BatchType
  <2>. QED
    BY <1>1, <2>1, SectionsGoOn, Zenon
<1>3. Good(CloseApplied(b, id))
  <2>1. CloseApplied(b, id).ses = EndStream(b.ses, id)
    BY DEF CloseApplied, BatchType
  <2>. QED
    BY <1>1, <2>1, EndGoesOn, Zenon
<1>4. Good(WindowApplied(b, id, f.n))
  <2>. DEFINE k == AddCredit(old.sendCredit, f.n)
              x == [old EXCEPT !.sendCredit = k, !.creditNotify = TRUE]
              d == [b.ses EXCEPT !.streams[id].sendCredit = k, !.streams[id].creditNotify = TRUE]
  <2>1. WindowApplied(b, id, f.n).ses = d
    <3>1. WindowApplied(b, id, f.n) = [b EXCEPT !.ses.streams[id].sendCredit = k,
                                                !.ses.streams[id].creditNotify = TRUE]
      BY Zenon DEF WindowApplied
    <3>. HIDE DEF k
    <3>. QED
      BY <3>1 DEF BatchType
  <2>2. d = PutStream(b.ses, id, x)
    <3>. HIDE DEF k
    <3>. QED
      BY <1>1 DEF Session, PutStream
  <2>3. Owing(old) => Owing(x)
    BY <1>1 DEF Stream, Owing
  <2>. HIDE DEF x, k
  <2>4. GoesOn(b.ses, PutStream(b.ses, id, x))
    BY <1>1, <2>3, SetStreamGoesOn, Zenon
  <2>. HIDE DEF d
  <2>. QED
    BY <2>1, <2>2, <2>4
<1>5. ASSUME f.type = "DATA" PROVE Good(DataApplied(b, id, f.n))
  <2>. DEFINE n == f.n
              x == WriteQueued(old, n)
              items == IF Coalesces(old, n) THEN 0 ELSE 1
  <2>1. n \in Nat /\ items \in Nat /\ items * QueueItemCost \in Nat
    BY FrameAssumption DEF Frame
  <2>2. DataApplied(b, id, n).ses = PutStream(b.ses, id, x)
    <3>. HIDE DEF x
    <3>. QED
      BY <1>1 DEF DataApplied, BatchType, PutStream, x
  <2>3. /\ x.pendingWriteCost = old.pendingWriteCost + n + items * QueueItemCost
        /\ x.pendingWriteItems = old.pendingWriteItems + items
    BY <1>1 DEF WriteQueued, Stream
  <2>4. old.pendingWriteCost \in Int /\ old.pendingWriteItems \in Int
    BY <1>1, StreamFields
  <2>. HIDE DEF items, n, x
  <2>5. Owing(old) => Owing(x)
    <3>. HIDE DEF old
    <3>. QED
      BY <2>1, <2>3, <2>4 DEF Owing
  <2>. QED
    BY <1>1, <2>2, <2>5, SetStreamGoesOn, Zenon DEF n
<1>6. Good(OpenApplied(b, id, refused, pool))
  <2>. DEFINE remembered == RememberClosed(b.ses, id)
              frame == [type |-> "CLOSE", id |-> id, n |-> 0]
              o == PutStream(b.ses, id, OpenedStream)
  <2>1. GoesOn(b.ses, o)
    <3>1. Owing(OpenedStream)
      BY DEF OpenedStream, NoStream, Owing
    <3>. QED
      BY <1>1, <3>1, SetStreamGoesOn, Zenon
  <2>2. GoesOn(b.ses, remembered) /\ GoesOn(b.ses, QueueFrame(remembered, frame))
    BY <1>1, EndGoesOn, RememberClosedType, SectionsGoOn, GoesOnTransitive, Zenon
  <2>3. OpenApplied(b, id, refused, pool).ses \in {o, remembered, QueueFrame(remembered, frame)}
    <3>. HIDE DEF remembered, frame
    <3>. QED
      BY DEF OpenApplied, BatchType, PutStream, remembered, frame
  <2>. HIDE DEF o, remembered, frame
  <2>. QED
    BY <2>1, <2>2, <2>3
<1>. DEFINE G == {d \in {b, OpenApplied(b, id, refused, pool),
                         [b EXCEPT !.panics = TRUE, !.applied = FALSE],
                         DataApplied(b, id, f.n), WindowApplied(b, id, f.n),
                         CloseApplied(b, id)} : Good(d)}
<1>. HIDE DEF Good
<1>7. /\ b \in G /\ WindowApplied(b, id, f.n) \in G /\ CloseApplied(b, id) \in G
      /\ [b EXCEPT !.panics = TRUE, !.applied = FALSE] \in G
      /\ OpenApplied(b, id, refused, pool) \in G
      /\ f.type = "DATA" => DataApplied(b, id, f.n) \in G
  BY <1>2, <1>3, <1>4, <1>5, <1>6
<1>8. \A d \in G : Good(d)
  OBVIOUS
<1>. HIDE DEF G
<1>9. FrameApplied(b, f, refused, pool) \in G
  BY <1>7, FrameRule
<1>. QED
  BY <1>8, <1>9 DEF Good

LEMMA BatchGoesOn ==
  ASSUME NEW s \in Session, NEW body \in Bodies \cup {<<>>}, WellFormedBody(body),
         NEW refused, NEW pool
  PROVE  /\ BatchApplied(s, body, refused, pool) \in BatchType
         /\ GoesOn(s, BatchApplied(s, body, refused, pool).ses)
<1>. DEFINE H == {b \in BatchType : GoesOn(s, b.ses)}
            G == [k \in Nat |-> H]
<1>1. /\ Len(body) \in Nat
      /\ \A k \in 1 .. Len(body) :
           /\ body[k] \in Frame /\ ValidClientShape(body[k])
           /\ PayloadLength(body[k]) <= MaxFramePayload
  BY WellFormed, Zenon
<1>2. Batch(s, body) \in H
  <2>1. Batch(s, body) \in BatchType /\ Batch(s, body).ses = s
    BY WriteCostType DEF Batch, BatchType
  <2>. QED
    BY <2>1, SectionsGoOn, Zenon
<1>3. ASSUME NEW k \in 1 .. Len(body), NEW b \in H
      PROVE  FrameApplied(b, body[k], refused, pool) \in H
  <2>. DEFINE c == FrameApplied(b, body[k], refused, pool)
  <2>1. c \in BatchType
    BY <1>1, FrameAppliedType
  <2>2. CASE body[k].id = 0
    BY <2>2 DEF FrameApplied
  <2>3. CASE body[k].id # 0
    <3>1. body[k].id \in StreamIds
      BY <1>1, <2>3 DEF Frame
    <3>2. GoesOn(b.ses, c.ses)
      BY <1>1, <3>1, FrameGoesOn, Zenon
    <3>3. GoesOn(s, c.ses)
      BY <3>2, GoesOnTransitive, Zenon
    <3>. QED
      BY <2>1, <3>3
  <2>. QED
    BY <2>2, <2>3
<1>. HIDE DEF H
<1>4. Batch(s, body) \in G[0] /\ G[Len(body)] = H
  BY <1>1, <1>2
<1>5. \A k \in 1 .. Len(body) : \A b \in G[k - 1] :
        FrameApplied(b, body[k], refused, pool) \in G[k]
  BY <1>1, <1>3
<1>. HIDE DEF G
<1>6. BatchApplied(s, body, refused, pool) \in G[Len(body)]
  BY <1>1, <1>4, <1>5, BatchInduction, Zenon
<1>. QED
  BY <1>4, <1>6 DEF H

LEMMA CommittedGoesOn ==
  ASSUME NEW s \in Session, NEW r, Upload(r), OfLane(r.body, r.lane),
         NEW cost \in Int, NEW items \in Int, NEW refused, NEW pool
  PROVE  GoesOn(s, Committed(r, BatchApplied(Reserve(s, cost, items), r.body, refused, pool)))
<1>. DEFINE o == Reserve(s, cost, items)
            b == BatchApplied(o, r.body, refused, pool)
            u == ReleasePending(b.ses, b.cost, b.items)
<1>1. o \in Session /\ GoesOn(s, o)
  BY ReserveType, SectionsGoOn, Zenon
<1>. HIDE DEF o
<1>2. b \in BatchType /\ GoesOn(o, b.ses)
  BY <1>1, BatchGoesOn, Zenon DEF Upload, OfLane
<1>. HIDE DEF b
<1>3. u \in Session /\ GoesOn(b.ses, u)
  BY <1>2, BatchFields, ReleasePendingType, SectionsGoOn, Zenon
<1>4. GoesOn(u, Committed(r, b))
  <2>1. \/ Committed(r, b) = u
        \/ Committed(r, b) = [u EXCEPT !.lanes[r.lane].lastUpSequence = r.seq,
                                       !.lanes[r.lane].lastUpDigest = r.body]
    BY Zenon DEF Committed
  <2>. HIDE DEF u
  <2>2. Committed(r, b).closed = u.closed /\ Committed(r, b).streams = u.streams
    BY <1>3, <2>1 DEF Session
  <2>. QED
    BY <2>2, SameStreamsGoOn, Zenon
<1>. HIDE DEF u
<1>5. GoesOn(s, Committed(r, b))
  BY <1>1, <1>2, <1>3, <1>4, GoesOnTransitive, Zenon
<1>. QED
  BY <1>5 DEF b, o

LEMMA UpLaneGoesOn ==
  ASSUME TypeOK, Orderly(ses), NEW h \in Pollers, NEW r, Upload(r), UpLane(h, r)
  PROVE  GoesOn(ses, ses')
<1>. DEFINE s == IF ~ses.lanes[r.lane].present
                 THEN [ses EXCEPT !.lanes[r.lane] = NewLane] ELSE ses
            kept == s = ses \/ LaneCreated(ses, s, r.lane)
<1>1. ses \in Session /\ r.lane \in LaneIds /\ GoesOn(ses, ses)
  BY SectionsGoOn, Zenon DEF TypeOK, BackendTypeOK, Upload
<1>2. (~ses.lanes[r.lane].present => r.lane # 0) => kept
  BY Zenon DEF LaneCreated
<1>3. \/ ses' = ses
      \/ kept /\ ses' = s
      \/ kept /\ OfLane(r.body, r.lane) /\ ValidBatch(s, r.body) /\ UpApplies(h, r, s)
  <2>. HIDE DEF kept
  <2>. QED
    BY <1>2 DEF UpLane, s
<1>. HIDE DEF s
<1>4. kept => s \in Session /\ GoesOn(ses, s)
  <2>1. CASE LaneCreated(ses, s, r.lane)
    <3>1. s \in Session /\ s.closed = ses.closed /\ s.streams = ses.streams
      BY <1>1, <2>1, CreatedFields
    <3>. QED
      BY <3>1, SameStreamsGoOn, Zenon
  <2>. QED
    BY <1>1, <2>1, Zenon
<1>5. CASE kept /\ OfLane(r.body, r.lane) /\ UpApplies(h, r, s)
  <2>. DEFINE o == Reserve(s, WriteCost(s, r.body), WriteItems(s, r.body))
  <2>1. WriteCost(s, r.body) \in Int /\ WriteItems(s, r.body) \in Int
    BY WriteCostType, Zenon DEF Upload
  <2>2. \A refused, pool : GoesOn(s, Committed(r, BatchApplied(o, r.body, refused, pool)))
    BY <1>4, <1>5, <2>1, CommittedGoesOn, Zenon
  <2>3. \/ ses' = s
        \/ \E refused, pool : ses' = Committed(r, BatchApplied(o, r.body, refused, pool))
    BY <1>5, Zenon DEF UpApplies, BodyApplied
  <2>. QED
    BY <1>4, <1>5, <2>2, <2>3, GoesOnTransitive, Zenon
<1>. QED
  BY <1>1, <1>3, <1>4, <1>5, Zenon

(* What a backend does to its stream, and to the session.                  *)
LEMMA DrainsGoOn ==
  ASSUME NEW s \in Session, NEW id \in StreamIds
  PROVE  /\ CanFinishWrite(s, id) => GoesOn(s, FinishWrite(s, id))
         /\ \A k \in Nat : CanDrain(s, id, k) => GoesOn(s, Drain(s, id, k))
<1>. DEFINE x == s.streams[id]
<1>1. x \in Stream /\ x.pendingWriteItems \in Int /\ x.pendingWriteCost \in Int
  BY SessionFields, StreamFields
<1>2. QueueItemCost \in Nat
  BY FrameAssumption
<1>3. ASSUME NEW t, AccountChanged(s, t, id), Owing(x) => Owing(t.streams[id])
      PROVE  GoesOn(s, t)
  <2>1. t.closed = s.closed /\ \A other \in StreamIds \ {id} : t.streams[other] = s.streams[other]
    BY <1>3 DEF AccountChanged
  <2>. QED
    BY <1>3, <2>1, StreamGoesOn
<1>4. ASSUME CanFinishWrite(s, id) PROVE GoesOn(s, FinishWrite(s, id))
  <2>. DEFINE t == FinishWrite(s, id)
  <2>1. AccountChanged(s, t, id) /\ t.streams[id] = AfterFinish(x)
    BY AccountsChanged, Zenon
  <2>2. /\ AfterFinish(x).pendingWriteCost = x.pendingWriteCost - QueueItemCost
        /\ AfterFinish(x).pendingWriteItems = x.pendingWriteItems - 1
    BY <1>1, AccountUpdates
  <2>3. x.pendingWriteItems # 0 /\ x.pendingWriteCost >= QueueItemCost
    BY <1>4 DEF CanFinishWrite
  <2>. HIDE DEF x, t
  <2>4. Owing(x) => Owing(AfterFinish(x))
    BY <1>1, <1>2, <2>2, <2>3 DEF Owing
  <2>. QED
    BY <1>3, <2>1, <2>4 DEF t
<1>5. ASSUME NEW k \in Nat, CanDrain(s, id, k) PROVE GoesOn(s, Drain(s, id, k))
  <2>. DEFINE t == Drain(s, id, k)
  <2>1. k \in Int
    OBVIOUS
  <2>2. AccountChanged(s, t, id) /\ t.streams[id] = AfterDrain(x, k)
    BY <2>1, AccountsChanged, Zenon
  <2>3. /\ AfterDrain(x, k).pendingWriteCost = x.pendingWriteCost - k
        /\ AfterDrain(x, k).pendingWriteItems = x.pendingWriteItems
    BY <1>1, AccountUpdates
  <2>4. k <= x.pendingWriteCost
    BY <1>5 DEF CanDrain
  <2>. HIDE DEF x, t
  <2>5. Owing(x) => Owing(AfterDrain(x, k))
    BY <1>1, <2>3, <2>4 DEF Owing
  <2>. QED
    BY <1>3, <2>2, <2>5 DEF t
<1>. QED
  BY <1>4, <1>5

LEMMA AfterWriteGoesOn ==
  ASSUME NEW s \in Session, NEW id \in StreamIds, NEW k \in Nat, NEW pool
  PROVE  GoesOn(s, AfterWrite(s, id, k, pool))
<1>. DEFINE d == Drain(s, id, k)
            f == [type |-> "WINDOW", id |-> id, n |-> k]
<1>1. CanDrain(s, id, k) => /\ d \in Session /\ GoesOn(s, d)
                            /\ GoesOn(s, QueueFrame(d, f))
  <2>1. CanDrain(s, id, k) => d \in Session /\ GoesOn(s, d)
    BY DrainType, DrainsGoOn, Zenon
  <2>. HIDE DEF d, f
  <2>. QED
    BY <2>1, SectionsGoOn, GoesOnTransitive, Zenon
<1>2. GoesOn(s, s)
  BY SectionsGoOn
<1>3. \/ AfterWrite(s, id, k, pool) = s
      \/ CanDrain(s, id, k) /\ AfterWrite(s, id, k, pool) \in {d, QueueFrame(d, f)}
  BY DEF AfterWrite
<1>. HIDE DEF d, f
<1>. QED
  BY <1>1, <1>2, <1>3

LEMMA StreamUpdatesGoOn ==
  ASSUME NEW s \in Session, NEW id \in StreamIds
  PROVE  /\ \A x : GoesOn(s, [s EXCEPT !.streams[id].writes = x])
         /\ \A x : GoesOn(s, [s EXCEPT !.streams[id].writeNotify = x])
         /\ \A x, w : GoesOn(s, [s EXCEPT !.streams[id].creditNotify = x,
                                          !.budgetWaiters = w])
         /\ \A k : GoesOn(s, SpendCredit(s, id, k))
<1>1. s.streams \in [StreamIds -> Stream]
  BY SessionFields
<1>. DEFINE Same(t) ==
              /\ t.closed = s.closed
              /\ \A i \in StreamIds \ {id} : t.streams[i] = s.streams[i]
              /\ t.streams[id].pendingWriteCost = s.streams[id].pendingWriteCost
              /\ t.streams[id].pendingWriteItems = s.streams[id].pendingWriteItems
<1>2. ASSUME NEW t, Same(t) PROVE GoesOn(s, t)
  <2>1. Owing(s.streams[id]) => Owing(t.streams[id])
    BY <1>2 DEF Owing
  <2>. QED
    BY <1>2, <2>1, StreamGoesOn
<1>3. \A x : Same([s EXCEPT !.streams[id].writes = x])
  BY <1>1 DEF Session, Stream
<1>4. \A x : Same([s EXCEPT !.streams[id].writeNotify = x])
  BY <1>1 DEF Session, Stream
<1>5. \A x, w : Same([s EXCEPT !.streams[id].creditNotify = x, !.budgetWaiters = w])
  BY <1>1 DEF Session, Stream
<1>6. \A k : Same(SpendCredit(s, id, k))
  BY <1>1 DEF SpendCredit, Session, Stream
<1>. HIDE DEF Same
<1>. QED
  BY <1>2, <1>3, <1>4, <1>5, <1>6, Zenon

-----------------------------------------------------------------------------
(* The CLOSE of a stream its backend has left.  The end of the stream does *)
(* not take room from it, so that a session that refuses it has none.      *)
Lightens(s, t) == t.pendingCost <= s.pendingCost /\ t.pendingItems <= s.pendingItems

LEMMA LaneOwesNatural ==
  ASSUME NEW lane \in Lane, BatchCharged(lane)
  PROVE  /\ lane.unackedCost + Total(Costs(lane.frames)) \in Nat
         /\ lane.unackedItems + Len(lane.frames) \in Nat
<1>1. lane.frames \in Seq(QueuedFrame) /\ lane.unacked \in Seq(QueuedFrame)
  BY LaneFields
<1>2. ASSUME NEW q \in Seq(QueuedFrame) PROVE Total(Costs(q)) \in Nat /\ Len(q) \in Nat
  <2>1. \A k \in 1 .. Len(q) : q[k].cost \in Nat
    <3>1. \A k \in 1 .. Len(q) : q[k] \in QueuedFrame
      OBVIOUS
    <3>. QED
      BY <3>1 DEF QueuedFrame
  <2>2. Costs(q) \in Seq(Nat)
    BY <2>1 DEF Costs
  <2>. QED
    BY <2>2, TotalNatural
<1>3. /\ Total(Costs(lane.frames)) \in Nat /\ Len(lane.frames) \in Nat
      /\ lane.unackedCost \in Nat /\ lane.unackedItems \in Nat
  BY <1>1, <1>2, Zenon DEF BatchCharged
<1>. QED
  BY <1>3

LEMMA DropLaneLightens ==
  ASSUME NEW s \in Session, NEW l \in LaneIds, BatchesCharged(s)
  PROVE  Lightens(s, DropLane(s, l))
<1>. DEFINE lane == s.lanes[l]
            a == lane.unackedCost + Total(Costs(lane.frames))
            b == lane.unackedItems + Len(lane.frames)
            r == ReleasePending(s, a, b)
            t == PutLane(r, l, NoLane)
<1>1. s.pendingCost \in Int /\ s.pendingItems \in Int /\ lane \in Lane
  BY SessionFields
<1>2. CASE s.lanes[l].present
  <2>1. DropLane(s, l) = t
    BY <1>2, LanesAreStreams, Zenon DEF DropLane, PutLane
  <2>2. a \in Nat /\ b \in Nat
    <3>1. BatchCharged(lane)
      BY Zenon DEF BatchesCharged
    <3>. HIDE DEF lane
    <3>. QED
      BY <1>1, <3>1, LaneOwesNatural
  <2>. HIDE DEF a, b
  <2>3. /\ r \in Session
        /\ r.pendingCost = s.pendingCost - a /\ r.pendingItems = s.pendingItems - b
    BY <2>2, ReleasePendingType, ReleasePendingBudget
  <2>. HIDE DEF r
  <2>4. t.pendingCost = r.pendingCost /\ t.pendingItems = r.pendingItems
    BY <2>3, SetLaneFields
  <2>. HIDE DEF t
  <2>. QED
    BY <1>1, <2>1, <2>2, <2>3, <2>4 DEF Lightens
<1>3. CASE ~s.lanes[l].present
  <2>1. DropLane(s, l) = s
    BY <1>3, Zenon DEF DropLane
  <2>. QED
    BY <1>1, <2>1 DEF Lightens
<1>. QED
  BY <1>2, <1>3

LEMMA RememberLightens ==
  ASSUME NEW s \in Session, NEW id \in StreamIds, BatchesCharged(s)
  PROVE  Lightens(s, RememberClosed(s, id))
<1>. DEFINE kept == IF TombstonesFull(s) THEN DropLane(s, Head(s.closedOrder)) ELSE s
            order == IF TombstonesFull(s) THEN Tail(s.closedOrder) ELSE s.closedOrder
            told == IF CarrierLanes /\ kept.lanes[id].present
                    THEN [kept EXCEPT !.lanes[id].notify = TRUE]
                    ELSE kept
            t == [told EXCEPT !.closedOrder = Append(order, id)]
<1>0. s.pendingCost \in Int /\ s.pendingItems \in Int
  BY SessionFields
<1>1. CASE WasClosed(s, id)
  <2>1. RememberClosed(s, id) = s
    BY <1>1, Zenon DEF RememberClosed
  <2>. QED
    BY <1>0, <2>1 DEF Lightens
<1>2. CASE ~WasClosed(s, id)
  <2>1. TombstonesFull(s) => Head(s.closedOrder) \in LaneIds
    <3>1. s.closedOrder \in Seq(StreamIds)
      BY SessionFields
    <3>2. TombstonesFull(s) => Head(s.closedOrder) \in StreamIds
      BY <3>1, LimitAssumption DEF TombstonesFull
    <3>. QED
      BY <3>2, LanesAreStreams
  <2>2. kept \in Session /\ Lightens(s, kept)
    <3>1. CASE TombstonesFull(s)
      BY <2>1, <3>1, DropLaneType, DropLaneLightens, Zenon
    <3>2. CASE ~TombstonesFull(s)
      BY <1>0, <3>2 DEF Lightens
    <3>. QED
      BY <3>1, <3>2
  <2>. HIDE DEF kept, order
  <2>3. t.pendingCost = kept.pendingCost /\ t.pendingItems = kept.pendingItems
    BY <2>2 DEF Session
  <2>4. RememberClosed(s, id) = t
    BY <1>2, Zenon DEF RememberClosed, kept, order, told
  <2>. HIDE DEF t
  <2>. QED
    BY <2>2, <2>3, <2>4, Zenon DEF Lightens
<1>. QED
  BY <1>1, <1>2

LEMMA EndLightens ==
  ASSUME NEW s \in Session, NEW id \in StreamIds, BatchesCharged(s), NoneOverpaid(s)
  PROVE  Lightens(s, EndStream(s, id))
<1>. DEFINE a == s.streams[id].pendingWriteCost
            b == s.streams[id].pendingWriteItems
            r == ReleasePending(s, a, b)
            d == PutStream(r, id, NoStream)
            t == RememberClosed(d, id)
<1>1. a \in Nat /\ b \in Nat
  <2>1. a \in Int /\ b \in Int
    BY SessionFields, StreamFields
  <2>2. a >= 0 /\ b >= 0
    BY DEF NoneOverpaid, Owing
  <2>. HIDE DEF a, b
  <2>. QED
    BY <2>1, <2>2
<1>2. DropStream(s, id) = d
  BY Zenon DEF DropStream, PutStream
<1>. HIDE DEF a, b
<1>3. /\ r \in Session /\ r.lanes = s.lanes
      /\ r.pendingCost = s.pendingCost - a /\ r.pendingItems = s.pendingItems - b
  BY <1>1, ReleasePendingType, ReleasePendingBudget
<1>. HIDE DEF r
<1>4. d \in Session
  BY <1>2, DropStreamType
<1>5. d.pendingCost = r.pendingCost /\ d.pendingItems = r.pendingItems /\ d.lanes = r.lanes
  BY <1>3, SetStreamFields
<1>. HIDE DEF d
<1>6. BatchesCharged(d)
  BY <1>3, <1>5, Zenon DEF BatchesCharged
<1>7. Lightens(d, t) /\ t \in Session
  BY <1>4, <1>6, RememberLightens, RememberClosedType, Zenon
<1>8. EndStream(s, id) = t
  BY <1>2, Zenon DEF EndStream
<1>. HIDE DEF t
<1>9. /\ s.pendingCost \in Int /\ s.pendingItems \in Int
      /\ t.pendingCost \in Int /\ t.pendingItems \in Int
  BY <1>7, SessionFields
<1>. QED
  BY <1>1, <1>3, <1>5, <1>7, <1>8, <1>9 DEF Lightens

LEMMA CloseHadNoRoom ==
  ASSUME NEW s \in Session, Orderly(s), BatchesCharged(s), NoneOverpaid(s),
         NEW id \in StreamIds, s.streams[id].live, s.lanes[id].present,
         NEW pool, ~CanQueue(EndStream(s, id), [type |-> "CLOSE", id |-> id, n |-> 0], pool)
  PROVE  ~pool \/ ~FitsSession(s, HeaderSize + QueueItemCost, 1, "control")
<1>. DEFINE f == [type |-> "CLOSE", id |-> id, n |-> 0]
            e == EndStream(s, id)
<1>1. e \in Session /\ Lightens(s, e) /\ e.lanes[id].present
  BY EndStreamType, EndLightens, EndStreamCarried, Zenon
<1>2. LaneOf(f.id) = id
  BY LanesAreStreams
<1>3. /\ ClassOf(f) = "control"
      /\ \A lane : QueueCost(lane, f) = HeaderSize + QueueItemCost /\ QueueItems(lane, f) = 1
  <2>1. EncodedLength(f) = HeaderSize
    BY FrameAssumption DEF EncodedLength, PayloadLength
  <2>2. f.type = "CLOSE"
    OBVIOUS
  <2>. HIDE DEF f
  <2>. QED
    BY <2>1, <2>2 DEF ClassOf, QueueCost, QueueItems, MergesWindow, ExtendsData
<1>4. ~CanQueue(e, f, pool)
  OBVIOUS
<1>. HIDE DEF e, f
<1>5. ~pool \/ ~FitsSession(e, HeaderSize + QueueItemCost, 1, "control")
  BY <1>1, <1>2, <1>3, <1>4, Zenon DEF CanQueue
<1>6. FitsSession(s, HeaderSize + QueueItemCost, 1, "control")
        => FitsSession(e, HeaderSize + QueueItemCost, 1, "control")
  <2>1. /\ s.pendingCost \in Int /\ s.pendingItems \in Int
        /\ e.pendingCost \in Int /\ e.pendingItems \in Int
    BY <1>1, SessionFields
  <2>2. CostLimit("control") \in Int /\ ItemLimit("control") \in Int
    BY LimitAssumption DEF CostLimit, ItemLimit
  <2>3. HeaderSize + QueueItemCost \in Int
    BY FrameAssumption
  <2>. QED
    BY <1>1, <2>1, <2>2, <2>3 DEF FitsSession, Fits, Lightens
<1>. QED
  BY <1>5, <1>6

(* The session closes with a step that refuses it a CLOSE, or goes on.     *)
NoRoomForClose ==
  \/ "control" \in PoolRefuses
  \/ ~FitsSession(ses, HeaderSize + QueueItemCost, 1, "control")

LEMMA BackendClosedGoesOn ==
  ASSUME BackendTypeOK, Orderly(ses), Matched(ses), Balanced(ses), NoneOverpaid(ses),
         NEW id \in StreamIds, BackendClosed(id)
  PROVE  /\ NoneOverpaid(ses')
         /\ ~ses.closed /\ ses'.closed => NoRoomForClose
<1>. DEFINE e == EndStream(ses, id)
            f == [type |-> "CLOSE", id |-> id, n |-> 0]
<1>1. ses \in Session
  BY DEF BackendTypeOK
<1>2. ASSUME NEW t \in Session
      PROVE  GoesOn(t, CancelBackend(t, {id})) /\ GoesOn(t, t)
  BY SectionsGoOn, Zenon
<1>3. PICK pool \in PoolAnswers("control") :
        ses' = CancelBackend(IF Live(id) THEN ClosedByBackend(ses, id, pool) ELSE ses, {id})
  BY Zenon DEF BackendClosed
<1>4. CASE ~Live(id)
  <2>1. GoesOn(ses, ses')
    BY <1>1, <1>2, <1>3, <1>4, Zenon
  <2>. QED
    BY <2>1 DEF GoesOn
<1>5. CASE Live(id)
  <2>1. ~ses.closed /\ ses.streams[id].live /\ ses.lanes[id].present
    BY <1>5 DEF Live, Matched
  <2>2. e \in Session /\ GoesOn(ses, e) /\ GoesOn(e, QueueFrame(e, f))
    BY <1>1, EndStreamType, EndGoesOn, SectionsGoOn, Zenon
  <2>3. /\ ClosedByBackend(ses, id, pool) = IF CanQueue(e, f, pool) THEN QueueFrame(e, f)
                                                                    ELSE CloseSession(e)
        /\ ClosedByBackend(ses, id, pool) \in Session
    BY <1>1, ClosedByBackendType, Zenon DEF ClosedByBackend
  <2>4. ~CanQueue(e, f, pool) => NoRoomForClose
    <3>1. ~CanQueue(e, f, pool) =>
            ~pool \/ ~FitsSession(ses, HeaderSize + QueueItemCost, 1, "control")
      BY <1>1, <2>1, CloseHadNoRoom, Zenon DEF Balanced, Charged
    <3>2. ~pool => "control" \in PoolRefuses
      BY <1>3 DEF PoolAnswers
    <3>. QED
      BY <3>1, <3>2 DEF NoRoomForClose
  <2>. HIDE DEF e, f
  <2>5. CASE CanQueue(e, f, pool)
    <3>1. GoesOn(ses, ses')
      BY <1>2, <1>3, <1>5, <2>2, <2>3, <2>5, GoesOnTransitive, Zenon
    <3>. QED
      BY <3>1 DEF GoesOn
  <2>6. CASE ~CanQueue(e, f, pool)
    <3>1. NoneOverpaid(CloseSession(e))
      BY <2>2, CloseOverpaysNone, Zenon DEF GoesOn
    <3>2. NoneOverpaid(ses')
      BY <1>2, <1>3, <1>5, <2>3, <2>6, <3>1, Zenon DEF GoesOn
    <3>. QED
      BY <2>4, <2>6, <3>2
  <2>. QED
    BY <2>5, <2>6
<1>. QED
  BY <1>4, <1>5

LEMMA BackendGoesOn ==
  ASSUME BackendTypeOK, NEW id \in StreamIds, BackendStep(id), ~BackendClosed(id)
  PROVE  GoesOn(ses, ses')
<1>1. ses \in Session /\ GoesOn(ses, ses)
  BY SectionsGoOn, Zenon DEF BackendTypeOK
<1>2. backends[id] \in BackendState /\ backends[id].inHand \in Nat
      /\ 0 .. backends[id].inHand - 1 \subseteq Nat
  <2>1. backends[id] \in BackendState
    BY DEF BackendTypeOK
  <2>. QED
    BY <2>1, BackendFields
<1>3. ASSUME NEW t \in Session, GoesOn(ses, t)
      PROVE  GoesOn(ses, CancelBackend(t, {id}))
  BY <1>3, SectionsGoOn, GoesOnTransitive, Zenon
<1>4. CASE UNCHANGED ses \/ ses' = CancelBackend(ses, {id})
  BY <1>1, <1>3, <1>4, Zenon
<1>5. CASE Dialled(id) \/ DialFailed(id) \/ LoopsReturned(id) \/ BudgetWakesReader(id)
           \/ WriterStops(id) \/ ReadEnds(id)
  BY <1>4, <1>5, Zenon DEF Dialled, DialFailed, LoopsReturned, BudgetWakesReader,
                           WriterStops, ReadEnds
<1>6. CASE NextWrite(id)
  <2>1. GoesOn(ses, [ses EXCEPT !.streams[id].writes = Tail(@)])
    BY <1>1, StreamUpdatesGoOn
  <2>. QED
    BY <1>4, <1>6, <2>1 DEF NextWrite
<1>7. CASE WriterWakes(id)
  BY <1>1, <1>7, StreamUpdatesGoOn DEF WriterWakes
<1>8. CASE Write(id) \/ WriteFails(id)
  <2>1. PICK pool \in PoolAnswers("control"), k \in Nat :
          ses' \in {AfterWrite(ses, id, k, pool),
                    CancelBackend(AfterWrite(ses, id, k, pool), {id})}
    <3>1. CASE Write(id)
      BY <1>2, <3>1 DEF Write
    <3>2. CASE WriteFails(id)
      BY <1>2, <3>2 DEF WriteFails
    <3>. QED
      BY <1>8, <3>1, <3>2
  <2>2. GoesOn(ses, AfterWrite(ses, id, k, pool)) /\ AfterWrite(ses, id, k, pool) \in Session
    BY <1>1, AfterWriteGoesOn, AfterWriteType, PoolAnswersType
  <2>. QED
    BY <1>3, <2>1, <2>2
<1>9. CASE WriteFinished(id)
  BY <1>1, <1>4, <1>9, DrainsGoOn, Zenon DEF WriteFinished
<1>10. CASE NextRead(id)
  <2>1. GoesOn(ses, [ses EXCEPT !.budgetWaiters = @ \cup {id}])
    BY <1>1, SectionsGoOn
  <2>. QED
    BY <1>4, <1>10, <2>1 DEF NextRead
<1>11. CASE CreditWakesReader(id)
  BY <1>1, <1>11, StreamUpdatesGoOn DEF CreditWakesReader
<1>12. CASE ReaderStops(id)
  <2>. DEFINE t == [ses EXCEPT !.budgetWaiters = @ \ {id}]
  <2>1. GoesOn(ses, t)
    BY <1>1, SectionsGoOn
  <2>2. t \in Session
    <3>1. ses.budgetWaiters \ {id} \in SUBSET StreamIds
      BY <1>1, SessionFields
    <3>. QED
      BY <1>1, <3>1, SessionUpdates
  <2>3. ses' = CancelBackend(t, {id})
    BY <1>12 DEF ReaderStops
  <2>. HIDE DEF t
  <2>. QED
    BY <1>3, <2>1, <2>2, <2>3
<1>13. CASE Read(id)
  <2>1. PICK k \in 1 .. backends[id].allowance :
          LET spent == SpendCredit(ses, id, k)
          IN  \/ ses' = CancelBackend(ses, {id})
              \/ /\ CanTakeData(ses, id, k)
                 /\ \/ ses' = QueueFrame(spent, [type |-> "DATA", id |-> id, n |-> k])
                    \/ ses' = CancelBackend(spent, {id})
    BY <1>13 DEF Read
  <2>. DEFINE frame == [type |-> "DATA", id |-> id, n |-> k]
              spent == SpendCredit(ses, id, k)
  <2>2. GoesOn(ses, spent)
    BY <1>1, StreamUpdatesGoOn
  <2>3. CanTakeData(ses, id, k) => spent \in Session
    <3>. SUFFICES ASSUME CanTakeData(ses, id, k) PROVE spent \in Session
      OBVIOUS
    <3>1. k \in Nat /\ ses.streams[id].sendCredit \in 0 .. MaxUint32
      BY <1>1, SessionFields, StreamFields
    <3>2. ses.streams[id].sendCredit - k \in 0 .. MaxUint32
      BY <3>1, FrameAssumption DEF CanTakeData
    <3>. QED
      BY <1>1, <3>2, SessionUpdates DEF SpendCredit
  <2>. HIDE DEF spent, frame
  <2>4. spent \in Session => GoesOn(ses, QueueFrame(spent, frame))
    BY <2>2, SectionsGoOn, GoesOnTransitive, Zenon
  <2>. QED
    BY <1>3, <1>4, <2>1, <2>2, <2>3, <2>4 DEF spent, frame
<1>. QED
  BY <1>5, <1>6, <1>7, <1>8, <1>9, <1>10, <1>11, <1>12, <1>13 DEF BackendStep

(* What handlers and sockets do.                                           *)
LEMMA PollMovesGoOn ==
  ASSUME TypeOK, LanesOrderly, NEW h \in Pollers, PollMoves(h)
  PROVE  GoesOn(ses, ses')
<1>1. PollFrame(ses, ses')
  BY PollMovesOrderly DEF LanesOrderly
<1>. QED
  BY <1>1, SameStreamsGoOn, Zenon DEF PollFrame

LEMMA RequestGoesOn ==
  ASSUME TypeOK, LanesOrderly, NEW h \in Pollers, Request(h)
  PROVE  GoesOn(ses, ses')
<1>1. /\ ses \in Session /\ Orderly(ses) /\ GoesOn(ses, ses)
      /\ LanesUsed \subseteq LaneIds /\ LanesPolled \subseteq LaneIds \ {0}
  BY LaneAssumption, SectionsGoOn DEF TypeOK, BackendTypeOK, LanesOrderly
<1>2. ASSUME NEW l \in LanesUsed, NEW q \in 1 .. MaxSeq, NEW body \in Bodies,
             UpRequest(h, l, q, body)
      PROVE  GoesOn(ses, ses')
  <2>. DEFINE r == [lane |-> l, seq |-> q, body |-> body]
  <2>1. q \in Nat
    BY LaneAssumption
  <2>2. Upload(r)
    BY <1>1, <2>1 DEF Upload
  <2>3. UpLane(h, r)
    BY <1>2 DEF UpRequest
  <2>. HIDE DEF r
  <2>. QED
    BY <1>1, <2>2, <2>3, UpLaneGoesOn
<1>3. ASSUME NEW l \in LanesPolled, NEW cursor \in 0 .. MaxCursor, PollRequest(h, l, cursor)
      PROVE  GoesOn(ses, ses')
  <2>1. PollMoves(h)
    BY <1>1, <1>3, LaneAssumption DEF PollRequest, PollMoves
  <2>. QED
    BY <2>1, PollMovesGoOn, Zenon
<1>4. ASSUME NEW id \in LanesPolled, SocketOpens(h, id)
      PROVE  GoesOn(ses, ses')
  <2>1. id \in LaneIds /\ id # 0
    BY <1>1
  <2>2. UNCHANGED ses \/ LaneCreated(ses, ses', id)
    BY <1>4, <2>1 DEF SocketOpens, LaneCreated
  <2>3. CASE LaneCreated(ses, ses', id)
    <3>1. ses'.closed = ses.closed /\ ses'.streams = ses.streams
      BY <1>1, <2>1, <2>3, CreatedFields
    <3>. QED
      BY <3>1, SameStreamsGoOn, Zenon
  <2>. QED
    BY <1>1, <2>2, <2>3, Zenon
<1>5. ASSUME NEW body \in SocketBodies, SocketReads(h, body)
      PROVE  GoesOn(ses, ses')
  BY <1>1, <1>5, Zenon DEF SocketReads
<1>. QED
  BY <1>2, <1>3, <1>4, <1>5, Zenon DEF Request

(* Only in https-lanes does a lane that fails take the session with it.    *)
LEMMA FailLaneGoesOn ==
  ASSUME NEW s \in Session, NEW l \in LaneIds
  PROVE  /\ OverSockets => GoesOn(s, FailLane(s, l))
         /\ NoneOverpaid(s) => NoneOverpaid(FailLane(s, l))
<1>1. GoesOn(s, ReleaseLane(s, l)) /\ (NoneOverpaid(s) => NoneOverpaid(CloseSession(s)))
  BY ReleaseLaneGoesOn, CloseOverpaysNone, Zenon
<1>. QED
  BY <1>1, Zenon DEF FailLane, GoesOn

Allowed == OverSockets /\ ~ses.closed /\ ses'.closed => Close \/ CloseRefused

LEMMA HandlerAllowed ==
  ASSUME TypeOK, LanesOrderly, NoneOverpaid(ses), NEW h \in Pollers,
         UpStep(h) \/ PollStep(h) \/ SocketStep(h)
  PROVE  NoneOverpaid(ses') /\ Allowed
<1>1. /\ ses \in Session /\ ups[h] \in UpState /\ Orderly(ses) /\ GoesOn(ses, ses)
      /\ ups[h].lane \in LaneIds /\ polls[h].lane \in LaneIds /\ sockets[h].lane \in LaneIds
      /\ sockets[h].cursor \in Nat
  BY UpFields, PollFields, SocketFields, SectionsGoOn
     DEF TypeOK, BackendTypeOK, LanesOrderly
<1>2. CASE GoesOn(ses, ses')
  BY <1>2 DEF GoesOn, Allowed
<1>3. CASE UpLaunch(h)
  BY <1>1, <1>2, <1>3, SectionsGoOn, Zenon DEF UpLaunch
<1>4. CASE UpFails(h)
  <2>1. CASE ups[h].pc = "failing"
    <3>1. ses' = FailLane(ses, ups[h].lane)
      BY <1>4, <2>1 DEF UpFails
    <3>. QED
      BY <1>1, <3>1, FailLaneGoesOn, Zenon DEF GoesOn, Allowed
  <2>2. CASE ups[h].pc # "failing"
    <3>1. CloseRefused /\ ses' = CloseSession(ses)
      BY <1>4, <2>2 DEF UpFails, CloseRefused
    <3>. QED
      BY <3>1, CloseOverpaysNone, Zenon DEF Allowed
  <2>. QED
    BY <2>1, <2>2
<1>5. CASE PollFails(h)
  BY <1>1, <1>5, FailLaneGoesOn, Zenon DEF PollFails, GoesOn, Allowed
<1>6. CASE SocketEnds(h)
  BY <1>1, <1>2, <1>6, ReleaseLaneGoesOn, Zenon DEF SocketEnds
<1>7. CASE PollStep(h) /\ ~PollFails(h)
  BY <1>2, <1>7, PollMovesGoOn, Zenon DEF PollStep, PollMoves
<1>8. CASE SocketSends(h)
  <2>1. Upload(ups[h])
    BY <1>1, UpFields DEF Upload
  <2>. QED
    BY <1>1, <1>2, <1>8, <2>1, UpLaneGoesOn DEF SocketSends
<1>9. CASE SocketPolls(h)
  <2>1. PollMoves(h)
    BY <1>1, <1>9, Zenon DEF SocketPolls, PollMoves
  <2>. QED
    BY <1>2, <2>1, PollMovesGoOn, Zenon
<1>10. CASE ReaderEnds(h) \/ WriterEnds(h) \/ SocketGone(h)
  BY <1>1, <1>2, <1>10, Zenon DEF ReaderEnds, WriterEnds, SocketGone
<1>. QED
  BY <1>3, <1>4, <1>5, <1>6, <1>7, <1>8, <1>9, <1>10, Zenon DEF UpStep, SocketStep

LEMMA AllowedStep ==
  ASSUME TypeOK, LanesOrderly, Matched(ses), Balanced(ses), NoneOverpaid(ses), [Next]_vars
  PROVE  NoneOverpaid(ses') /\ Allowed
<1>1. ses \in Session /\ Orderly(ses) /\ BackendTypeOK
  BY DEF TypeOK, BackendTypeOK, LanesOrderly
<1>2. CASE GoesOn(ses, ses')
  BY <1>2 DEF GoesOn, Allowed
<1>3. ASSUME NEW h \in Pollers, Request(h) \/ UpStep(h) \/ PollStep(h) \/ SocketStep(h)
      PROVE  NoneOverpaid(ses') /\ Allowed
  BY <1>2, <1>3, RequestGoesOn, HandlerAllowed, Zenon
<1>4. ASSUME NEW id \in StreamIds, BackendNext(id)
      PROVE  NoneOverpaid(ses') /\ Allowed
  <2>1. BackendStep(id)
    BY <1>4 DEF BackendNext
  <2>2. CASE BackendClosed(id)
    <3>1. /\ NoneOverpaid(ses')
          /\ ~ses.closed /\ ses'.closed => NoRoomForClose
      BY <1>1, <2>2, BackendClosedGoesOn, Zenon
    <3>. QED
      BY <3>1, Zenon DEF NoRoomForClose, CloseRefused, Allowed
  <2>3. CASE ~BackendClosed(id)
    BY <1>1, <1>2, <2>1, <2>3, BackendGoesOn, Zenon
  <2>. QED
    BY <2>2, <2>3
<1>5. CASE Close
  <2>1. NoneOverpaid(ses')
    BY <1>5, CloseOverpaysNone, Zenon DEF Close
  <2>. QED
    BY <1>5, <2>1, Zenon DEF Allowed
<1>6. CASE UNCHANGED vars
  BY <1>6, Zenon DEF vars, Allowed
<1>. QED
  BY <1>3, <1>4, <1>5, <1>6, Zenon DEF Next

(* Over sockets no client closes the session: whatever a socket sends and  *)
(* however it ends, only its own lane is released with it.  The session    *)
(* closes when it is told to, or with a CLOSE it has no room for           *)
(* (session.go:1407, PROTOCOL.md:342-349).                                 *)
THEOREM FailureStaysInLaneHolds == Spec => FailureStaysInLane
<1>. DEFINE Inv == TypeOK /\ LanesOrderly /\ Matched(ses) /\ Balanced(ses) /\ NoneOverpaid(ses)
<1>1. Init => NoneOverpaid(ses)
  <2>1. ASSUME Init PROVE \A id \in StreamIds : ses.streams[id] = NoStream
    BY <2>1 DEF Init, NewSession
  <2>. QED
    BY <2>1 DEF NoneOverpaid, Owing, NoStream
<1>2. Inv /\ [Next]_vars => Matched(ses)' /\ Balanced(ses)' /\ NoneOverpaid(ses)'
  BY MatchedStep, BalancedStep, AllowedStep
<1>3. Inv /\ [Next]_vars =>
        [OverSockets /\ ~ses.closed /\ ses'.closed => Close \/ CloseRefused]_vars
  BY AllowedStep, Zenon DEF Allowed
<1>. QED
  BY <1>1, <1>2, <1>3, MatchedInit, BalancedInit, TypeOKHolds, LanesOrderlyHolds, PTL
     DEF Spec, FailureStaysInLane

=============================================================================
