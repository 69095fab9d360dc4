-------------------------- MODULE MuxSessionProofs --------------------------
(***************************************************************************)
(* The steps of a multiplexed session keep its state well typed, for every *)
(* value of the constants; and two safety properties that several handlers *)
(* could break together: the hand-over of the downlink between polls, and  *)
(* the admission of one uplink request at a time.                          *)
(***************************************************************************)
EXTENDS MuxSafety, SessionCoreProofs

-----------------------------------------------------------------------------
(* Type correctness of the uplink handlers.                                *)

UpPcs == {"idle", "parsing", "applying", "panicked", "launching", "failing",
          "closing", "acked", "retry", "failed"}

LEMMA UpFields ==
  ASSUME NEW r \in UpState
  PROVE  /\ r.pc \in UpPcs /\ r.seq \in Nat /\ r.body \in Bodies \cup {<<>>}
         /\ r.k \in Nat /\ r.cost \in Int /\ r.items \in Int
         /\ r.toStart \in SUBSET StreamIds /\ r.toStop \in SUBSET StreamIds
         /\ r.applied \in BOOLEAN
BY DEF UpState, UpPcs

LEMMA NoUpType == \A pc \in UpPcs : [NoUp EXCEPT !.pc = pc] \in UpState
<1>1. /\ 0 \in Nat /\ 0 \in Int /\ {} \in SUBSET StreamIds
      /\ "idle" \in UpPcs
  BY DEF UpPcs
<1>2. NoUp \in UpState
  BY <1>1, Zenon DEF NoUp, UpState, UpPcs
<1>. HIDE DEF NoUp
<1>. QED
  BY <1>2, Zenon DEF UpState, UpPcs

(* One handler moves on to the state r.                                    *)
LEMMA SetUp ==
  ASSUME UpsTypeOK, NEW u \in Uppers, NEW r \in UpState,
         ups' = [ups EXCEPT ![u] = r],
         r.pc \in {"applying", "panicked"} => WellFormedBody(r.body) /\ r.k >= 1
  PROVE  UpsTypeOK'
<1>1. ups' \in [Uppers -> UpState]
  BY Zenon DEF UpsTypeOK
<1>2. ASSUME NEW v \in Uppers, ups'[v].pc \in {"applying", "panicked"}
      PROVE  WellFormedBody(ups'[v].body) /\ ups'[v].k >= 1
  <2>1. CASE v = u
    <3>1. ups'[v] = r
      BY <2>1, Zenon DEF UpsTypeOK
    <3>. QED
      BY <1>2, <3>1, Zenon
  <2>2. CASE v # u
    <3>1. ups'[v] = ups[v]
      BY <2>2, Zenon DEF UpsTypeOK
    <3>. QED
      BY <1>2, <3>1, Zenon DEF UpsTypeOK
  <2>. QED
    BY <2>1, <2>2
<1>. QED
  BY <1>1, <1>2, Zenon DEF UpsTypeOK

(* A handler that ends holds nothing any more.                             *)
LEMMA UpEndsType ==
  ASSUME UpsTypeOK, NEW u \in Uppers, NEW pc \in UpPcs \ {"applying", "panicked"},
         UpEnds(u, pc)
  PROVE  UpsTypeOK'
<1>. DEFINE r == [NoUp EXCEPT !.pc = pc]
<1>1. r \in UpState
  BY NoUpType, Zenon
<1>2. r.pc = pc
  BY DEF NoUp
<1>3. ups' = [ups EXCEPT ![u] = r]
  BY Zenon DEF UpEnds
<1>. HIDE DEF r
<1>. QED
  BY <1>1, <1>2, <1>3, SetUp, Zenon

LEMMA LaneUpdates ==
  ASSUME NEW s \in Session
  PROVE  /\ \A b \in BOOLEAN : [s EXCEPT !.lanes[0].upActive = b] \in Session
         /\ \A b \in BOOLEAN : [s EXCEPT !.lanes[0].notify = b] \in Session
         /\ \A p \in Pollers \cup {NoPoller} : [s EXCEPT !.lanes[0].owner = p] \in Session
         /\ \A q \in Nat, body \in Bodies \cup {<<>>} :
              [s EXCEPT !.lanes[0].lastUpSequence = q, !.lanes[0].lastUpDigest = body]
                \in Session
<1>. DEFINE lane == s.lanes[0]
<1>1. lane \in Lane
  BY SessionFields, LaneZero
<1>2. \A l \in Lane : [s EXCEPT !.lanes[0] = l] \in Session
  BY LaneZero, SetLaneType, Zenon
<1>3. /\ \A b \in BOOLEAN : [lane EXCEPT !.upActive = b] \in Lane
      /\ \A b \in BOOLEAN : [lane EXCEPT !.notify = b] \in Lane
      /\ \A p \in Pollers \cup {NoPoller} : [lane EXCEPT !.owner = p] \in Lane
      /\ \A q \in Nat, body \in Bodies \cup {<<>>} :
           [lane EXCEPT !.lastUpSequence = q, !.lastUpDigest = body] \in Lane
  BY <1>1, Zenon DEF Lane
<1>4. /\ \A b \in BOOLEAN : [s EXCEPT !.lanes[0] = [lane EXCEPT !.upActive = b]] \in Session
      /\ \A b \in BOOLEAN : [s EXCEPT !.lanes[0] = [lane EXCEPT !.notify = b]] \in Session
      /\ \A p \in Pollers \cup {NoPoller} :
           [s EXCEPT !.lanes[0] = [lane EXCEPT !.owner = p]] \in Session
  BY <1>2, <1>3, Zenon
<1>5. ASSUME NEW q \in Nat, NEW body \in Bodies \cup {<<>>}
      PROVE  [s EXCEPT !.lanes[0].lastUpSequence = q, !.lanes[0].lastUpDigest = body] \in Session
  <2>1. [s EXCEPT !.lanes[0] = [lane EXCEPT !.lastUpSequence = q, !.lastUpDigest = body]]
          \in Session
    BY <1>2, <1>3, Zenon
  <2>2. [s EXCEPT !.lanes[0].lastUpSequence = q, !.lanes[0].lastUpDigest = body]
          = [s EXCEPT !.lanes[0] = [lane EXCEPT !.lastUpSequence = q, !.lastUpDigest = body]]
    BY LaneZero DEF Session
  <2>. QED
    BY <2>1, <2>2, Zenon
<1>. QED
  BY <1>4, <1>5, Zenon

LEMMA UpBeginType ==
  ASSUME TypeOK, NEW u \in Uppers, NEW q \in 0 .. MaxSeq, NEW body \in Bodies,
         UpBegin(u, q, body)
  PROVE  TypeOK'
<1>. USE DEF TypeOK, BackendTypeOK
<1>1. {"failed", "acked", "failing", "retry"} \subseteq UpPcs \ {"applying", "panicked"}
  BY DEF UpPcs
<1>2. CASE \E pc \in {"failed", "acked", "failing", "retry"} : UpEnds(u, pc) /\ UNCHANGED ses
  <2>1. UpsTypeOK'
    BY <1>1, <1>2, UpEndsType, Zenon
  <2>. QED
    BY <1>2, <2>1, Zenon DEF UpBegin
<1>3. CASE /\ ups' = [ups EXCEPT ![u] = [NoUp EXCEPT !.pc = "parsing", !.seq = q, !.body = body]]
           /\ ses' = [ses EXCEPT !.lanes[0].upActive = TRUE]
  <2>. DEFINE r == [NoUp EXCEPT !.pc = "parsing", !.seq = q, !.body = body]
  <2>1. q \in Nat
    BY MuxAssumption
  <2>2. NoUp \in UpState
    <3>1. "idle" \in UpPcs /\ [NoUp EXCEPT !.pc = "idle"] = NoUp
      BY DEF UpPcs, NoUp
    <3>. QED
      BY <3>1, NoUpType, Zenon
  <2>3. r \in UpState
    BY <2>1, <2>2, Zenon DEF UpState
  <2>4. r.pc = "parsing"
    BY DEF NoUp
  <2>. HIDE DEF r
  <2>5. UpsTypeOK'
    BY <1>3, <2>3, <2>4, SetUp, Zenon DEF r
  <2>6. ses' \in Session
    BY <1>3, LaneUpdates, Zenon
  <2>. QED
    BY <2>5, <2>6, Zenon DEF UpBegin
<1>. QED
  BY <1>2, <1>3, Zenon DEF UpBegin

LEMMA UpCommitType ==
  ASSUME TypeOK, NEW u \in Uppers, UpCommit(u)
  PROVE  TypeOK'
<1>. USE DEF TypeOK, BackendTypeOK
<1>. DEFINE body == ups[u].body
            idle == [ses EXCEPT !.lanes[0].upActive = FALSE]
            cost == WriteCost(ses, body)
            items == WriteItems(ses, body)
<1>1. ups[u] \in UpState
  BY DEF UpsTypeOK
<1>2. body \in Bodies \cup {<<>>} /\ cost \in Int /\ items \in Int
  BY <1>1, UpFields, WriteCostType, Zenon
<1>3. idle \in Session
  BY LaneUpdates, Zenon
<1>4. CASE \E pc \in {"failed", "failing", "retry"} :
             UpEnds(u, pc) /\ ses' = idle /\ UNCHANGED locked
  <2>1. {"failed", "failing", "retry"} \subseteq UpPcs \ {"applying", "panicked"}
    BY DEF UpPcs
  <2>2. UpsTypeOK'
    BY <1>4, <2>1, UpEndsType, Zenon
  <2>. QED
    BY <1>3, <1>4, <2>2, Zenon DEF UpCommit
<1>5. CASE /\ WellFormedBody(body)
           /\ ups' = [ups EXCEPT ![u].pc = "applying", ![u].k = 1,
                                 ![u].cost = cost, ![u].items = items]
           /\ ses' = Reserve(idle, cost, items)
           /\ locked' = TRUE
  <2>. DEFINE r == [ups[u] EXCEPT !.pc = "applying", !.k = 1, !.cost = cost, !.items = items]
  <2>1. 1 \in Nat
    OBVIOUS
  <2>2. r \in UpState
    BY <1>1, <1>2, <2>1, Zenon DEF UpState
  <2>3. r.body = body /\ r.k = 1
    BY <1>1 DEF UpState
  <2>4. ups \in [Uppers -> UpState]
    BY DEF UpsTypeOK
  <2>. HIDE DEF cost, items
  <2>5. ups' = [ups EXCEPT ![u] = r]
    BY <1>5, <2>4
  <2>. HIDE DEF r
  <2>6. 1 >= 1
    OBVIOUS
  <2>7. UpsTypeOK'
    BY <1>5, <2>2, <2>3, <2>5, <2>6, SetUp, Zenon
  <2>8. ses' \in Session
    BY <1>2, <1>3, <1>5, ReserveType, Zenon
  <2>. QED
    BY <1>5, <2>7, <2>8, Zenon DEF UpCommit
<1>. QED
  BY <1>4, <1>5, Zenon DEF UpCommit

-----------------------------------------------------------------------------
(* The frame a handler applies.                                            *)
LEMMA CurrentType ==
  ASSUME UpsTypeOK, NEW u \in Uppers, Applying(u)
  PROVE  /\ Current(u) \in Frame
         /\ Current(u).n \in Nat
         /\ Current(u).id # 0 => Current(u).id \in StreamIds
         /\ ValidClientShape(Current(u))
         /\ PayloadLength(Current(u)) <= MaxFramePayload
         /\ WellFormedBody(ups[u].body)
         /\ ups[u].k + 1 \in Nat /\ ups[u].k + 1 >= 1
<1>1. ups[u] \in UpState /\ ups[u].pc = "applying"
  BY DEF UpsTypeOK, Applying
<1>2. WellFormedBody(ups[u].body) /\ ups[u].k >= 1
  BY <1>1, Zenon DEF UpsTypeOK
<1>3. ups[u].k \in 1 .. Len(ups[u].body)
  BY <1>1, <1>2, UpFields, BodyType DEF Applying
<1>4. Current(u) \in Frame
  BY <1>1, <1>3, UpFields, BodyType DEF Current
<1>5. Current(u).n \in Nat /\ (Current(u).id # 0 => Current(u).id \in StreamIds)
  BY <1>4 DEF Frame
<1>6. ValidClientShape(Current(u)) /\ PayloadLength(Current(u)) <= MaxFramePayload
  BY <1>2, <1>3, Zenon DEF WellFormedBody, Parses, Current
<1>7. ups[u].k + 1 \in Nat /\ ups[u].k + 1 >= 1
  BY <1>1, <1>2, UpFields
<1>. QED
  BY <1>2, <1>4, <1>5, <1>6, <1>7

LEMMA NextFrameType ==
  ASSUME UpsTypeOK, NEW u \in Uppers, Applying(u), NextFrame(u)
  PROVE  UpsTypeOK'
<1>. DEFINE r == [ups[u] EXCEPT !.k = ups[u].k + 1]
<1>1. ups[u] \in UpState /\ ups \in [Uppers -> UpState]
  BY DEF UpsTypeOK
<1>2. r \in UpState
  BY <1>1, CurrentType, Zenon DEF UpState
<1>3. r.body = ups[u].body /\ r.k = ups[u].k + 1
  BY <1>1 DEF UpState
<1>4. ups' = [ups EXCEPT ![u] = r]
  BY <1>1 DEF NextFrame
<1>. HIDE DEF r
<1>. QED
  BY <1>2, <1>3, <1>4, CurrentType, SetUp, Zenon

LEMMA ApplyNothingType ==
  ASSUME TypeOK, NEW u \in Uppers, ApplyNothing(u) \/ ApplyToNoStream(u)
  PROVE  TypeOK'
<1>. USE DEF TypeOK, BackendTypeOK
<1>1. CASE ApplyNothing(u)
  BY <1>1, NextFrameType, Zenon DEF ApplyNothing
<1>2. CASE ApplyToNoStream(u)
  <2>. DEFINE r == [ups[u] EXCEPT !.pc = "panicked"]
  <2>1. Applying(u) /\ ups[u] \in UpState /\ ups \in [Uppers -> UpState]
    BY <1>2, Zenon DEF ApplyToNoStream, UpsTypeOK
  <2>2. r \in UpState
    BY <2>1, Zenon DEF UpState
  <2>3. r.body = ups[u].body /\ r.k = ups[u].k
    BY <2>1 DEF UpState
  <2>4. ups' = [ups EXCEPT ![u] = r]
    BY <1>2, <2>1, Zenon DEF ApplyToNoStream
  <2>. HIDE DEF r
  <2>5. WellFormedBody(ups[u].body) /\ ups[u].k >= 1
    BY <2>1, Zenon DEF UpsTypeOK, Applying
  <2>6. UpsTypeOK'
    BY <2>2, <2>3, <2>4, <2>5, SetUp, Zenon
  <2>. QED
    BY <1>2, <2>6, Zenon DEF ApplyToNoStream
<1>. QED
  BY <1>1, <1>2

LEMMA ApplyOpenType ==
  ASSUME TypeOK, NEW u \in Uppers, ApplyOpen(u)
  PROVE  TypeOK'
<1>. USE DEF TypeOK, BackendTypeOK
<1>. DEFINE id == Current(u).id
            r == [ups[u] EXCEPT !.k = ups[u].k + 1, !.toStart = ups[u].toStart \cup {id}]
<1>1. Applying(u) /\ Current(u).type = "OPEN"
  BY Zenon DEF ApplyOpen
<1>2. id \in StreamIds
  <2>1. ValidClientShape(Current(u)) /\ (id # 0 => id \in StreamIds)
    BY <1>1, CurrentType, Zenon
  <2>. QED
    BY <1>1, <2>1 DEF ValidClientShape
<1>3. ups[u] \in UpState /\ ups \in [Uppers -> UpState]
  BY DEF UpsTypeOK
<1>4. ups[u].k + 1 \in Nat /\ ups[u].k + 1 >= 1 /\ WellFormedBody(ups[u].body)
  BY <1>1, CurrentType, Zenon
<1>. HIDE DEF id
<1>5. ups[u].toStart \cup {id} \in SUBSET StreamIds
  BY <1>2, <1>3, UpFields
<1>6. r \in UpState
  BY <1>3, <1>4, <1>5, Zenon DEF UpState
<1>7. r.body = ups[u].body /\ r.k = ups[u].k + 1
  BY <1>3 DEF UpState
<1>8. ups' = [ups EXCEPT ![u] = r]
  <2>1. ups' = [ups EXCEPT ![u].k = @ + 1, ![u].toStart = @ \cup {id}]
    BY Zenon DEF ApplyOpen, id
  <2>. QED
    BY <1>3, <2>1
<1>. HIDE DEF r
<1>9. UpsTypeOK'
  BY <1>4, <1>6, <1>7, <1>8, SetUp, Zenon
<1>10. ses' \in Session
  <2>1. ses' = [ses EXCEPT !.streams[id] = OpenedStream]
    BY Zenon DEF ApplyOpen, id
  <2>. QED
    BY <1>2, <2>1, NoStreamType, SetStreamType, Zenon
<1>11. backends' \in [StreamIds -> BackendState]
  <2>1. backends' = [backends EXCEPT ![id] = [NoBackend EXCEPT !.run = "opened"]]
    BY Zenon DEF ApplyOpen, id
  <2>2. 0 \in Nat
    OBVIOUS
  <2>3. NoBackend \in BackendState
    BY <2>2, Zenon DEF NoBackend, BackendState
  <2>. HIDE DEF NoBackend
  <2>4. [NoBackend EXCEPT !.run = "opened"] \in BackendState
    BY <2>3, Zenon DEF BackendState
  <2>. QED
    BY <1>2, <2>1, <2>4, SetBackend, Zenon
<1>. QED
  BY <1>9, <1>10, <1>11, Zenon DEF ApplyOpen

LEMMA RejectOpenType ==
  ASSUME TypeOK, NEW u \in Uppers, RejectOpen(u)
  PROVE  TypeOK'
<1>. USE DEF TypeOK, BackendTypeOK
<1>. DEFINE id == Current(u).id
            frame == [type |-> "CLOSE", id |-> id, n |-> 0]
            remembered == RememberClosed(ses, id)
<1>1. Applying(u) /\ Current(u).type = "OPEN"
  BY Zenon DEF RejectOpen
<1>2. id \in StreamIds
  <2>1. ValidClientShape(Current(u)) /\ (id # 0 => id \in StreamIds)
    BY <1>1, CurrentType, Zenon
  <2>. QED
    BY <1>1, <2>1 DEF ValidClientShape
<1>3. ups[u] \in UpState /\ ups \in [Uppers -> UpState]
  BY DEF UpsTypeOK
<1>4. frame \in Queueable
  BY <1>2 DEF Queueable
<1>5. remembered \in Session
  BY <1>2, RememberClosedType, Zenon
<1>6. backends' \in [StreamIds -> BackendState]
  BY <1>2, RunUpdates, Zenon DEF RejectOpen, id, RunStates
<1>7. CASE /\ ses' = QueueFrame(remembered, frame)
           /\ NextFrame(u)
           /\ UNCHANGED locked
  <2>1. ses' \in Session
    BY <1>4, <1>5, <1>7, QueueFrameType, Zenon
  <2>2. UpsTypeOK'
    BY <1>1, <1>7, NextFrameType, Zenon
  <2>. QED
    BY <1>7, <1>6, <2>1, <2>2, Zenon DEF RejectOpen
<1>8. CASE /\ ses' = ReleasePending(remembered, ups[u].cost, ups[u].items)
           /\ ups' = [ups EXCEPT ![u].pc = "launching", ![u].cost = 0, ![u].items = 0]
           /\ locked' = FALSE
  <2>. DEFINE r == [ups[u] EXCEPT !.pc = "launching", !.cost = 0, !.items = 0]
  <2>1. ses' \in Session
    BY <1>3, <1>5, <1>8, UpFields, ReleasePendingType, Zenon
  <2>2. 0 \in Int
    OBVIOUS
  <2>3. r \in UpState
    BY <1>3, <2>2, Zenon DEF UpState
  <2>4. r.pc = "launching"
    BY <1>3 DEF UpState
  <2>5. ups' = [ups EXCEPT ![u] = r]
    BY <1>3, <1>8
  <2>. HIDE DEF r
  <2>6. UpsTypeOK'
    BY <2>3, <2>4, <2>5, SetUp, Zenon
  <2>. QED
    BY <1>8, <1>6, <2>1, <2>6, Zenon DEF RejectOpen
<1>. QED
  BY <1>7, <1>8, Zenon DEF RejectOpen

LEMMA ApplyDataType ==
  ASSUME TypeOK, NEW u \in Uppers, ApplyData(u)
  PROVE  TypeOK'
<1>. USE DEF TypeOK, BackendTypeOK
<1>. DEFINE f == Current(u)
            t == ses.streams[f.id]
            items == IF Coalesces(t, f.n) THEN 0 ELSE 1
            r == [ups[u] EXCEPT !.k = ups[u].k + 1,
                                !.cost = ups[u].cost - (f.n + items * QueueItemCost),
                                !.items = ups[u].items - items]
<1>1. Applying(u) /\ f.id # 0 /\ f.type = "DATA"
  BY Zenon DEF ApplyData
<1>2. f.id \in StreamIds /\ f.n \in Nat /\ f.n <= MaxFramePayload
  <2>1. f.id \in StreamIds /\ f.n \in Nat /\ PayloadLength(f) <= MaxFramePayload
    BY <1>1, CurrentType, Zenon
  <2>. QED
    BY <1>1, <2>1 DEF PayloadLength
<1>3. ups[u] \in UpState /\ ups \in [Uppers -> UpState]
  BY DEF UpsTypeOK
<1>4. ups[u].k + 1 \in Nat /\ ups[u].k + 1 >= 1 /\ WellFormedBody(ups[u].body)
  BY <1>1, CurrentType, Zenon
<1>5. t \in Stream
  BY <1>2, SessionFields
<1>. HIDE DEF f
<1>6. ups[u].cost - (f.n + items * QueueItemCost) \in Int /\ ups[u].items - items \in Int
  BY <1>2, <1>3, UpFields, FrameAssumption
<1>. HIDE DEF items
<1>7. r \in UpState
  BY <1>3, <1>4, <1>6, Zenon DEF UpState
<1>8. r.body = ups[u].body /\ r.k = ups[u].k + 1
  BY <1>3 DEF UpState
<1>9. ups' = [ups EXCEPT ![u] = r]
  <2>1. ups' = [ups EXCEPT ![u].k = @ + 1, ![u].cost = @ - (f.n + items * QueueItemCost),
                           ![u].items = @ - items]
    BY Zenon DEF ApplyData, f, items
  <2>. QED
    BY <1>3, <2>1
<1>. HIDE DEF r
<1>10. UpsTypeOK'
  BY <1>4, <1>7, <1>8, <1>9, SetUp, Zenon
<1>11. ses' \in Session
  <2>1. ses' = [ses EXCEPT !.streams[f.id] = WriteQueued(t, f.n)]
    BY Zenon DEF ApplyData, f
  <2>. QED
    BY <1>2, <1>5, <2>1, WriteQueuedType, SetStreamType, Zenon
<1>. QED
  BY <1>10, <1>11, Zenon DEF ApplyData

LEMMA ApplyWindowType ==
  ASSUME TypeOK, NEW u \in Uppers, ApplyWindow(u)
  PROVE  TypeOK'
<1>. USE DEF TypeOK, BackendTypeOK
<1>. DEFINE f == Current(u)
            t == ses.streams[f.id]
            new == [t EXCEPT !.sendCredit = AddCredit(@, f.n), !.creditNotify = TRUE]
<1>1. Applying(u) /\ f.id # 0
  BY Zenon DEF ApplyWindow
<1>2. f.id \in StreamIds /\ f.n \in Nat
  BY <1>1, CurrentType, Zenon
<1>3. t \in Stream
  BY <1>2, SessionFields
<1>. HIDE DEF f
<1>4. AddCredit(t.sendCredit, f.n) \in 0 .. MaxUint32
  BY <1>2, <1>3, StreamFields, AddCreditType
<1>5. new \in Stream
  BY <1>3, <1>4, Zenon DEF Stream
<1>6. ses' = [ses EXCEPT !.streams[f.id] = new]
  <2>1. ses' = [ses EXCEPT !.streams[f.id].sendCredit = AddCredit(@, f.n),
                           !.streams[f.id].creditNotify = TRUE]
    BY Zenon DEF ApplyWindow, f
  <2>. QED
    BY <1>2, <2>1 DEF Session
<1>7. ses' \in Session
  BY <1>2, <1>5, <1>6, SetStreamType, Zenon
<1>8. UpsTypeOK'
  BY <1>1, NextFrameType, Zenon DEF ApplyWindow
<1>. QED
  BY <1>7, <1>8, Zenon DEF ApplyWindow

LEMMA ApplyCloseType ==
  ASSUME TypeOK, NEW u \in Uppers, ApplyClose(u)
  PROVE  TypeOK'
<1>. USE DEF TypeOK, BackendTypeOK
<1>. DEFINE id == Current(u).id
            r == [ups[u] EXCEPT !.k = ups[u].k + 1, !.toStop = ups[u].toStop \cup {id}]
<1>1. Applying(u) /\ id # 0
  BY Zenon DEF ApplyClose
<1>2. id \in StreamIds
  BY <1>1, CurrentType, Zenon
<1>3. ups[u] \in UpState /\ ups \in [Uppers -> UpState]
  BY DEF UpsTypeOK
<1>4. ups[u].k + 1 \in Nat /\ ups[u].k + 1 >= 1 /\ WellFormedBody(ups[u].body)
  BY <1>1, CurrentType, Zenon
<1>. HIDE DEF id
<1>5. ups[u].toStop \cup {id} \in SUBSET StreamIds
  BY <1>2, <1>3, UpFields
<1>6. r \in UpState
  BY <1>3, <1>4, <1>5, Zenon DEF UpState
<1>7. r.body = ups[u].body /\ r.k = ups[u].k + 1
  BY <1>3 DEF UpState
<1>8. ups' = [ups EXCEPT ![u] = r]
  <2>1. ups' = [ups EXCEPT ![u].k = @ + 1, ![u].toStop = @ \cup {id}]
    BY Zenon DEF ApplyClose, id
  <2>. QED
    BY <1>3, <2>1
<1>. HIDE DEF r
<1>9. UpsTypeOK'
  BY <1>4, <1>6, <1>7, <1>8, SetUp, Zenon
<1>10. ses' \in Session
  BY <1>2, EndStreamType, Zenon DEF ApplyClose, id
<1>. QED
  BY <1>9, <1>10, Zenon DEF ApplyClose

LEMMA UpAppliedType ==
  ASSUME TypeOK, NEW u \in Uppers, UpApplied(u)
  PROVE  TypeOK'
<1>. USE DEF TypeOK, BackendTypeOK
<1>. DEFINE r == [ups[u] EXCEPT !.pc = "launching", !.applied = TRUE, !.cost = 0, !.items = 0]
            released == ReleasePending(ses, ups[u].cost, ups[u].items)
<1>1. ups[u] \in UpState /\ ups \in [Uppers -> UpState] /\ 0 \in Int
  BY DEF UpsTypeOK
<1>2. r \in UpState
  BY <1>1, Zenon DEF UpState
<1>3. r.pc = "launching"
  BY <1>1 DEF UpState
<1>4. ups' = [ups EXCEPT ![u] = r]
  BY <1>1 DEF UpApplied
<1>5. released \in Session
  BY <1>1, UpFields, ReleasePendingType, Zenon
<1>. HIDE DEF r, released
<1>6. ses' \in Session
  BY <1>1, <1>5, UpFields, LaneUpdates, Zenon DEF UpApplied, released
<1>7. UpsTypeOK'
  BY <1>2, <1>3, <1>4, SetUp, Zenon
<1>. QED
  BY <1>6, <1>7, Zenon DEF UpApplied

LEMMA UpEndType ==
  ASSUME TypeOK, NEW u \in Uppers, UpLaunch(u) \/ UpCloses(u) \/ UpReturns(u)
  PROVE  TypeOK'
<1>. USE DEF TypeOK, BackendTypeOK
<1>1. ups[u] \in UpState /\ ups \in [Uppers -> UpState]
  BY DEF UpsTypeOK
<1>2. {"idle", "acked", "closing", "failed"} \subseteq UpPcs \ {"applying", "panicked"}
  BY DEF UpPcs
<1>3. CASE UpLaunch(u)
  <2>1. ses' \in Session
    BY <1>1, <1>3, UpFields, CancelBackendType, Zenon DEF UpLaunch
  <2>2. backends' \in [StreamIds -> BackendState]
    <3>1. \A id \in StreamIds : [backends[id] EXCEPT !.run = "dialing"] \in BackendState
      BY Zenon DEF BackendState
    <3>. QED
      BY <1>3, <3>1, Zenon DEF UpLaunch
  <2>3. UpsTypeOK'
    BY <1>2, <1>3, UpEndsType, Zenon DEF UpLaunch
  <2>. QED
    BY <1>3, <2>1, <2>2, <2>3, Zenon DEF UpLaunch
<1>4. CASE UpCloses(u)
  BY <1>2, <1>4, UpEndsType, CloseSessionType, Zenon DEF UpCloses
<1>5. CASE UpReturns(u)
  <2>1. NoUp = [NoUp EXCEPT !.pc = "idle"]
    BY DEF NoUp
  <2>2. UpEnds(u, "idle")
    BY <1>5, <2>1, Zenon DEF UpReturns, UpEnds
  <2>. QED
    BY <1>2, <1>5, <2>2, UpEndsType, Zenon DEF UpReturns
<1>. QED
  BY <1>3, <1>4, <1>5

-----------------------------------------------------------------------------
(* Type correctness of the polls.                                          *)

PollPcs == {"idle", "parked", "woken", "failing", "batch", "empty", "failed"}

LEMMA NoPollType ==
  ASSUME NEW pc \in PollPcs
  PROVE  /\ NoPoll \in PollState
         /\ [NoPoll EXCEPT !.pc = pc] \in PollState
         /\ \A cursor \in Nat : [NoPoll EXCEPT !.cursor = cursor] \in PollState
         /\ \A body \in Seq(QueuedFrame), next \in Nat :
              [NoPoll EXCEPT !.pc = "batch", !.body = body, !.next = next] \in PollState
<1>1. 0 \in Nat /\ <<>> \in Seq(QueuedFrame)
  OBVIOUS
<1>2. NoPoll \in PollState
  BY <1>1, Zenon DEF NoPoll, PollState
<1>. HIDE DEF NoPoll
<1>. QED
  BY <1>2, Zenon DEF PollState, PollPcs

LEMMA PollEndsType ==
  ASSUME polls \in [Pollers -> PollState], NEW p \in Pollers, NEW pc \in PollPcs,
         PollEnds(p, pc) \/ PollGoes(p, pc)
  PROVE  polls' \in [Pollers -> PollState]
<1>1. CASE PollEnds(p, pc)
  BY <1>1, NoPollType, Zenon DEF PollEnds
<1>2. CASE PollGoes(p, pc)
  <2>1. [polls[p] EXCEPT !.pc = pc] \in PollState
    BY Zenon DEF PollState, PollPcs
  <2>2. [polls EXCEPT ![p] = [polls[p] EXCEPT !.pc = pc]] \in [Pollers -> PollState]
    BY <2>1, Zenon
  <2>. QED
    BY <1>2, <2>2 DEF PollGoes
<1>. QED
  BY <1>1, <1>2

LEMMA DeliverToType ==
  ASSUME NEW ps \in [Pollers -> PollState], NEW s \in Session, NEW p \in Pollers
  PROVE  DeliverTo(ps, s, p) \in [Pollers -> PollState]
<1>1. s.lanes[0].unacked \in Seq(QueuedFrame) /\ s.lanes[0].downCursor \in Nat
  BY LaneZero, SessionFields, LaneFields
<1>2. [NoPoll EXCEPT !.pc = "batch", !.body = s.lanes[0].unacked,
                     !.next = s.lanes[0].downCursor] \in PollState
  <2>1. "idle" \in PollPcs
    BY DEF PollPcs
  <2>. QED
    BY <1>1, <2>1, NoPollType, Zenon
<1>. QED
  BY <1>2, Zenon DEF DeliverTo

LEMMA TakeOrParkType ==
  ASSUME NEW s \in Session, NEW ps \in [Pollers -> PollState], NEW p \in Pollers,
         TakeOrPark(s, ps, p)
  PROVE  ses' \in Session /\ polls' \in [Pollers -> PollState]
<1>1. s.lanes[0] \in Lane /\ 0 \in LaneIds /\ ps[p].cursor \in Nat
  BY LaneZero, SessionFields DEF PollState
<1>2. CASE s.lanes[0].frames = <<>>
  <2>1. ses' = s /\ polls' = [ps EXCEPT ![p].pc = "parked"]
    BY <1>2, Zenon DEF TakeOrPark
  <2>2. [ps[p] EXCEPT !.pc = "parked"] \in PollState
    BY Zenon DEF PollState
  <2>3. [ps EXCEPT ![p] = [ps[p] EXCEPT !.pc = "parked"]] \in [Pollers -> PollState]
    BY <2>2, Zenon
  <2>. QED
    BY <2>1, <2>3
<1>3. CASE s.lanes[0].frames # <<>>
  <2>1. PICK k \in 1 .. Len(s.lanes[0].frames) :
          /\ ses' = TakenBy(s, ps[p].cursor, k)
          /\ polls' = DeliverTo(ps, ses', p)
    BY <1>3, Zenon DEF TakeOrPark
  <2>2. ses' \in Session
    BY <1>1, <2>1, TakeBatchType, SetLaneType, Zenon DEF TakenBy
  <2>. QED
    BY <2>1, <2>2, DeliverToType, Zenon
<1>. QED
  BY <1>2, <1>3

LEMMA SupersedeType ==
  ASSUME polls \in [Pollers -> PollState], NEW p \in Pollers, NEW cursor \in Nat
  PROVE  Supersede(polls, p, cursor) \in [Pollers -> PollState]
<1>1. "idle" \in PollPcs
  BY DEF PollPcs
<1>2. [NoPoll EXCEPT !.cursor = cursor] \in PollState
  BY <1>1, NoPollType, Zenon
<1>3. \A q \in Pollers : [polls[q] EXCEPT !.superseded = TRUE] \in PollState
  BY Zenon DEF PollState
<1>. QED
  BY <1>2, <1>3, Zenon DEF Supersede

LEMMA PollBeginType ==
  ASSUME TypeOK, NEW p \in Pollers, NEW cursor \in 0 .. MaxCursor, PollBegin(p, cursor)
  PROVE  TypeOK'
<1>. USE DEF TypeOK, BackendTypeOK
<1>1. /\ "failed" \in PollPcs /\ "failing" \in PollPcs
      /\ cursor \in Nat /\ 0 \in LaneIds
  BY MuxAssumption, LaneZero DEF PollPcs
<1>2. UpsTypeOK'
  BY Zenon DEF PollBegin, UpsTypeOK
<1>3. CASE (PollEnds(p, "failed") \/ PollEnds(p, "failing")) /\ UNCHANGED ses
  <2>1. polls' \in [Pollers -> PollState]
    BY <1>1, <1>3, PollEndsType, Zenon
  <2>. QED
    BY <1>2, <1>3, <2>1, Zenon DEF PollBegin
<1>4. CASE polls' = DeliverTo(polls, ses, p) /\ UNCHANGED ses
  BY <1>2, <1>4, DeliverToType, Zenon DEF PollBegin
<1>5. CASE TakeOrPark([AckUnacked(ses, 0) EXCEPT !.lanes[0].owner = p],
                      Supersede(polls, p, cursor), p)
  <2>1. AckUnacked(ses, 0) \in Session
    BY <1>1, AckUnackedType, Zenon
  <2>. DEFINE acked == AckUnacked(ses, 0)
  <2>. HIDE DEF acked
  <2>2. acked \in Session
    BY <2>1, Zenon DEF acked
  <2>3. p \in Pollers \cup {NoPoller}
    OBVIOUS
  <2>4. [acked EXCEPT !.lanes[0].owner = p] \in Session
    BY <2>2, <2>3, LaneUpdates, Zenon
  <2>5. Supersede(polls, p, cursor) \in [Pollers -> PollState]
    BY <1>1, SupersedeType, Zenon
  <2>6. ses' \in Session /\ polls' \in [Pollers -> PollState]
    BY <1>5, <2>4, <2>5, TakeOrParkType, Zenon DEF acked
  <2>. QED
    BY <1>2, <2>6, Zenon DEF PollBegin
<1>. QED
  BY <1>3, <1>4, <1>5, Zenon DEF PollBegin

LEMMA PollStepType ==
  ASSUME TypeOK, NEW p \in Pollers, PollStep(p) \/ PollCancelled(p)
  PROVE  TypeOK'
<1>. USE DEF TypeOK, BackendTypeOK
<1>1. {"idle", "woken", "empty", "failed"} \subseteq PollPcs
  BY DEF PollPcs
<1>2. /\ Signalled(ses) \in Session
      /\ [ses EXCEPT !.lanes[0].notify = FALSE] \in Session
      /\ [ses EXCEPT !.lanes[0].owner = NoPoller] \in Session
      /\ Disown(ses, p) \in Session
  BY LaneUpdates, Zenon DEF Signalled, Disown
<1>3. UpsTypeOK' /\ UNCHANGED <<locked, backends>>
  BY Zenon DEF PollStep, PollWakes, PollResumes, PollSuperseded, PollExpires, PollCloses,
               PollReturns, PollCancelled, UpsTypeOK
<1>4. CASE PollWakes(p)
  BY <1>1, <1>2, <1>3, <1>4, PollEndsType, Zenon DEF PollWakes
<1>5. CASE PollResumes(p)
  <2>1. CASE TakeOrPark(ses, polls, p)
    BY <1>3, <2>1, TakeOrParkType, Zenon
  <2>2. CASE \E pc \in {"empty", "failed"} :
               PollEnds(p, pc) /\ ses' \in {Signalled(ses), [ses EXCEPT !.lanes[0].owner = NoPoller]}
    BY <1>1, <1>2, <1>3, <2>2, PollEndsType, Zenon
  <2>. QED
    BY <1>5, <2>1, <2>2, Zenon DEF PollResumes
<1>6. CASE PollSuperseded(p)
  BY <1>1, <1>2, <1>3, <1>6, PollEndsType, Zenon DEF PollSuperseded
<1>7. CASE PollExpires(p)
  <2>1. CASE TakeOrPark(ses, polls, p)
    BY <1>3, <2>1, TakeOrParkType, Zenon
  <2>2. CASE PollEnds(p, "empty") /\ ses' \in {Signalled(ses), Disown(ses, p)}
    BY <1>1, <1>2, <1>3, <2>2, PollEndsType, Zenon
  <2>. QED
    BY <1>7, <2>1, <2>2, Zenon DEF PollExpires
<1>8. CASE PollCloses(p)
  BY <1>1, <1>3, <1>8, CloseSessionType, PollEndsType, Zenon DEF PollCloses
<1>9. CASE PollReturns(p) \/ PollCancelled(p)
  <2>1. polls' = [polls EXCEPT ![p] = NoPoll] /\ ses' \in {ses, Disown(ses, p)}
    BY <1>9, Zenon DEF PollReturns, PollCancelled
  <2>. QED
    BY <1>1, <1>2, <1>3, <2>1, NoPollType, Zenon
<1>. QED
  BY <1>4, <1>5, <1>6, <1>7, <1>8, <1>9, Zenon DEF PollStep

-----------------------------------------------------------------------------
LEMMA InitType == Init => TypeOK
<1>. SUFFICES ASSUME Init PROVE TypeOK
  OBVIOUS
<1>1. "idle" \in UpPcs \ {"applying", "panicked"} /\ "idle" \in PollPcs
  BY DEF UpPcs, PollPcs
<1>2. NoUp = [NoUp EXCEPT !.pc = "idle"] /\ NoUp.pc = "idle"
  BY DEF NoUp
<1>3. NoUp \in UpState /\ NoPoll \in PollState
  BY <1>1, <1>2, NoUpType, NoPollType, Zenon
<1>. HIDE DEF NoUp, NoPoll
<1>4. UpsTypeOK
  BY <1>2, <1>3, Zenon DEF Init, UpsTypeOK
<1>. QED
  BY <1>3, <1>4, BackendInitType, Zenon DEF Init, TypeOK

LEMMA StepType == TypeOK /\ [Next]_vars => TypeOK'
<1>. SUFFICES ASSUME TypeOK, [Next]_vars PROVE TypeOK'
  OBVIOUS
<1>1. ASSUME NEW u \in Uppers, UpStep(u) PROVE TypeOK'
  BY <1>1, UpCommitType, ApplyNothingType, ApplyOpenType, RejectOpenType, ApplyDataType,
     ApplyWindowType, ApplyCloseType, UpAppliedType, UpEndType, Zenon DEF UpStep
<1>2. ASSUME NEW u \in Uppers, NEW q \in 0 .. MaxSeq, NEW body \in Bodies, UpBegin(u, q, body)
      PROVE  TypeOK'
  BY <1>2, UpBeginType, Zenon
<1>3. ASSUME NEW p \in Pollers, PollStep(p) \/ PollCancelled(p) PROVE TypeOK'
  BY <1>3, PollStepType, Zenon
<1>4. ASSUME NEW p \in Pollers, NEW cursor \in 0 .. MaxCursor, PollBegin(p, cursor)
      PROVE  TypeOK'
  BY <1>4, PollBeginType, Zenon
<1>5. ASSUME NEW id \in StreamIds, BackendNext(id) PROVE TypeOK'
  BY <1>5, BackendStepType, Zenon DEF BackendNext, TypeOK, UpsTypeOK
<1>6. CASE Close
  BY <1>6, CloseSessionType, Zenon DEF Close, TypeOK, BackendTypeOK, UpsTypeOK
<1>7. CASE UNCHANGED vars
  BY <1>7, Zenon DEF vars, TypeOK, BackendTypeOK, UpsTypeOK
<1>. QED
  BY <1>1, <1>2, <1>3, <1>4, <1>5, <1>6, <1>7, Zenon DEF Next, System, Environment

(* Every reachable state of a multiplexed session is well typed: windows   *)
(* and credits stay within uint32, queues hold frames that can be encoded, *)
(* and only bodies that passed ParseAll and ValidateClientShape are        *)
(* applied.                                                                *)
THEOREM TypeCorrect == Spec => []TypeOK
BY InitType, StepType, PTL DEF Spec

-----------------------------------------------------------------------------

(* The polls: what makes PollOwnership and NoLostPollWakeup inductive.     *)
PollInv ==
  /\ TypeOK
  /\ lane0.present
  /\ PollOwnership
  /\ CursorSound
  /\ NoLostPollWakeup

(* The uplink handlers: the mutex is held over several steps by exactly    *)
(* the handler that applies its body.                                      *)
Held == {"applying", "panicked"}

LockHeld == locked <=> \E u \in Uppers : ups[u].pc \in Held

UplinkInv == LockHeld /\ SingleUplink

(* What the steps of handlers and backends leave of the downlink: they may *)
(* queue frames, drop an unacknowledged batch or close the session, but    *)
(* never without leaving a token for the parked poll.  The index of        *)
(* mergeable WINDOWs stays right.                                          *)
IndexKept(a, b) == WindowsIndexed(a) => WindowsIndexed(b)

Untouched(s, t) == t.lanes = s.lanes /\ t.closed = s.closed

DownKept(s, t) ==
  LET a == s.lanes[0]
      b == t.lanes[0]
  IN  /\ b.present = a.present
      /\ b.owner = a.owner
      /\ b.downCursor = a.downCursor
      /\ b.unackedBase = a.unackedBase
      /\ b.unacked = a.unacked \/ b.unacked = <<>>
      /\ b.notify \/ (b.notify = a.notify /\ b.frames = a.frames /\ t.closed = s.closed)
      /\ IndexKept(a, b)

UplinkKept(s, t) ==
  /\ t.lanes[0].upActive = s.lanes[0].upActive
  /\ t.lanes[0].lastUpSequence = s.lanes[0].lastUpSequence

Kept(s, t) == DownKept(s, t) /\ UplinkKept(s, t)

LEMMA UntouchedKept ==
  ASSUME NEW s, NEW t, Untouched(s, t)
  PROVE  Kept(s, t)
BY Zenon DEF Untouched, Kept, DownKept, UplinkKept, IndexKept

LEMMA KeptTransitive ==
  ASSUME NEW s, NEW t, NEW v, Kept(s, t), Kept(t, v)
  PROVE  Kept(s, v)
BY DEF Kept, DownKept, UplinkKept, IndexKept

LEMMA OneLane == ~CarrierLanes /\ LaneIds = {0} /\ \A id : LaneOf(id) = 0
BY MuxAssumption DEF LaneIds, LaneOf

-----------------------------------------------------------------------------
(* The critical sections that leave the lanes alone.                       *)

LEMMA BudgetUntouched ==
  ASSUME NEW s \in Session, NEW cost \in Int, NEW items \in Int
  PROVE  /\ Untouched(s, ReleasePending(s, cost, items))
         /\ Untouched(s, Reserve(s, cost, items))
BY DEF Session, Untouched, ReleasePending, Reserve

LEMMA CancelUntouched ==
  ASSUME NEW s \in Session, NEW ids
  PROVE  Untouched(s, CancelBackend(s, ids))
BY DEF Session, Untouched, CancelBackend

LEMMA StreamUntouched ==
  ASSUME NEW s \in Session, NEW id, NEW x
  PROVE  Untouched(s, [s EXCEPT !.streams[id] = x])
BY DEF Session, Untouched

LEMMA DropStreamUntouched ==
  ASSUME NEW s \in Session, NEW id \in StreamIds
  PROVE  Untouched(s, DropStream(s, id))
<1>1. s.streams[id].pendingWriteCost \in Int /\ s.streams[id].pendingWriteItems \in Int
  BY SessionFields, StreamFields
<1>. DEFINE r == ReleasePending(s, s.streams[id].pendingWriteCost,
                                   s.streams[id].pendingWriteItems)
<1>2. Untouched(s, r) /\ r \in Session
  BY <1>1, BudgetUntouched, ReleasePendingType, Zenon
<1>. HIDE DEF r
<1>3. Untouched(r, [r EXCEPT !.streams[id] = NoStream])
  BY <1>2, StreamUntouched, Zenon
<1>. QED
  BY <1>2, <1>3, Zenon DEF DropStream, r, Untouched

LEMMA EndStreamUntouched ==
  ASSUME NEW s \in Session, NEW id \in StreamIds
  PROVE  /\ Untouched(s, RememberClosed(s, id))
         /\ Untouched(s, EndStream(s, id))
<1>1. ASSUME NEW t \in Session PROVE Untouched(t, RememberClosed(t, id))
  <2>1. \A l : DropLane(t, l) = t
    BY OneLane, Zenon DEF DropLane
  <2>2. \A order : Untouched(t, [t EXCEPT !.closedOrder = order])
    BY DEF Session, Untouched
  <2>3. Untouched(t, t)
    BY DEF Untouched
  <2>. QED
    BY <2>1, <2>2, <2>3, OneLane, Zenon DEF RememberClosed
<1>2. DropStream(s, id) \in Session /\ Untouched(s, DropStream(s, id))
  BY DropStreamType, DropStreamUntouched, Zenon
<1>. QED
  BY <1>1, <1>2, Zenon DEF EndStream, Untouched

-----------------------------------------------------------------------------
(* The critical sections that change the lane.                             *)

LEMMA QueueFrameKept ==
  ASSUME NEW s \in Session, NEW f \in Queueable
  PROVE  Kept(s, QueueFrame(s, f))
<1>. DEFINE lane == s.lanes[0]
            new == [lane EXCEPT !.frames = FramesWith(lane, f),
                                !.windows = WindowsWith(lane, f),
                                !.notify = TRUE]
            t == QueueFrame(s, f)
<1>1. lane \in Lane /\ s.lanes \in [LaneIds -> Lane] /\ 0 \in LaneIds
  BY SessionFields, LaneZero
<1>2. t.lanes[0] = new
  <2>1. t = [s EXCEPT !.pendingCost = @ + QueueCost(lane, f),
                      !.pendingItems = @ + QueueItems(lane, f),
                      !.lanes[0] = new]
    BY OneLane, Zenon DEF QueueFrame
  <2>. HIDE DEF new, t
  <2>. QED
    BY <1>1, <2>1 DEF Session
<1>3. /\ new.present = lane.present /\ new.owner = lane.owner
      /\ new.downCursor = lane.downCursor /\ new.unackedBase = lane.unackedBase
      /\ new.unacked = lane.unacked /\ new.notify = TRUE
      /\ new.upActive = lane.upActive /\ new.lastUpSequence = lane.lastUpSequence
      /\ new.frames = FramesWith(lane, f) /\ new.windows = WindowsWith(lane, f)
  <2>. DEFINE x == FramesWith(lane, f)
              y == WindowsWith(lane, f)
  <2>. HIDE DEF lane, x, y
  <2>. QED
    BY <1>1 DEF Lane
<1>. HIDE DEF t, new
<1>4. IndexKept(lane, new)
  BY <1>1, <1>3, QueueIndexed, Zenon DEF IndexKept
<1>. QED
  BY <1>2, <1>3, <1>4 DEF Kept, DownKept, UplinkKept, t

LEMMA CloseSessionKept ==
  ASSUME NEW s \in Session, s.lanes[0].present
  PROVE  Kept(s, CloseSession(s))
<1>1. CASE s.closed
  BY <1>1, UntouchedKept, Zenon DEF CloseSession, Untouched
<1>2. CASE ~s.closed
  <2>. DEFINE lane == s.lanes[0]
              new == ClearedLane(lane)
              t == CloseSession(s)
  <2>1. lane \in Lane /\ 0 \in LaneIds
    BY SessionFields, LaneZero
  <2>2. t.lanes = [l \in LaneIds |-> IF s.lanes[l].present THEN ClearedLane(s.lanes[l])
                                                           ELSE NoLane]
    BY <1>2 DEF CloseSession, Session
  <2>3. t.lanes[0] = new
    BY <2>1, <2>2, Zenon
  <2>4. /\ new.present = lane.present /\ new.owner = lane.owner
        /\ new.downCursor = lane.downCursor /\ new.unackedBase = lane.unackedBase
        /\ new.unacked = <<>> /\ new.notify = TRUE
        /\ new.upActive = lane.upActive /\ new.lastUpSequence = lane.lastUpSequence
    BY <2>1 DEF Lane, ClearedLane
  <2>5. IndexKept(lane, new)
    <3>1. new.frames = <<>> /\ new.windows = [id \in StreamIds |-> 0]
      BY <2>1 DEF Lane, ClearedLane
    <3>. HIDE DEF new
    <3>. QED
      BY <3>1 DEF IndexKept, WindowsIndexed
  <2>. HIDE DEF t, new
  <2>. QED
    BY <2>3, <2>4, <2>5 DEF Kept, DownKept, UplinkKept, t
<1>. QED
  BY <1>1, <1>2

-----------------------------------------------------------------------------
(* The steps of backends.                                                  *)

LEMMA CancelKept ==
  ASSUME NEW s, NEW t \in Session, Kept(s, t), NEW ids
  PROVE  Kept(s, CancelBackend(t, ids))
BY CancelUntouched, UntouchedKept, KeptTransitive, Zenon

LEMMA BackendUpdatesUntouched ==
  ASSUME NEW s \in Session, NEW id \in StreamIds
  PROVE  /\ \A waiters : Untouched(s, [s EXCEPT !.budgetWaiters = waiters])
         /\ \A queue : Untouched(s, [s EXCEPT !.streams[id].writes = queue])
         /\ Untouched(s, [s EXCEPT !.streams[id].writeNotify = FALSE])
         /\ \A waiters :
              Untouched(s, [s EXCEPT !.streams[id].creditNotify = FALSE,
                                     !.budgetWaiters = waiters])
         /\ \A k : Untouched(s, SpendCredit(s, id, k))
         /\ Untouched(s, FinishWrite(s, id))
         /\ \A k \in Int : Untouched(s, Drain(s, id, k))
<1>. USE DEF Session, Untouched
<1>1. \A waiters : Untouched(s, [s EXCEPT !.budgetWaiters = waiters])
  OBVIOUS
<1>2. \A queue : Untouched(s, [s EXCEPT !.streams[id].writes = queue])
  OBVIOUS
<1>3. Untouched(s, [s EXCEPT !.streams[id].writeNotify = FALSE])
  OBVIOUS
<1>4. \A waiters :
        Untouched(s, [s EXCEPT !.streams[id].creditNotify = FALSE,
                               !.budgetWaiters = waiters])
  OBVIOUS
<1>5. \A k : Untouched(s, SpendCredit(s, id, k))
  BY DEF SpendCredit
<1>6. Untouched(s, FinishWrite(s, id))
  BY FrameAssumption DEF FinishWrite, ReleasePending
<1>7. \A k \in Int : Untouched(s, Drain(s, id, k))
  BY DEF Drain, ReleasePending
<1>. QED
  BY <1>1, <1>2, <1>3, <1>4, <1>5, <1>6, <1>7

LEMMA AfterWriteKept ==
  ASSUME NEW s \in Session, NEW id \in StreamIds, NEW k \in Nat, NEW pool
  PROVE  Kept(s, AfterWrite(s, id, k, pool))
<1>1. CASE CanDrain(s, id, k)
  <2>1. k \in Int
    OBVIOUS
  <2>2. Drain(s, id, k) \in Session /\ Kept(s, Drain(s, id, k))
    BY <1>1, <2>1, DrainType, BackendUpdatesUntouched, UntouchedKept, Zenon
  <2>3. Kept(Drain(s, id, k),
                 QueueFrame(Drain(s, id, k), [type |-> "WINDOW", id |-> id, n |-> k]))
    <3>1. [type |-> "WINDOW", id |-> id, n |-> k] \in Queueable
      BY DEF Queueable
    <3>. QED
      BY <2>2, <3>1, QueueFrameKept, Zenon
  <2>4. Kept(s, QueueFrame(Drain(s, id, k), [type |-> "WINDOW", id |-> id, n |-> k]))
    BY <2>2, <2>3, KeptTransitive, Zenon
  <2>. QED
    BY <1>1, <2>2, <2>4, Zenon DEF AfterWrite
<1>2. CASE ~CanDrain(s, id, k)
  <2>1. AfterWrite(s, id, k, pool) = s
    BY <1>2, Zenon DEF AfterWrite
  <2>. QED
    BY <2>1, UntouchedKept, Zenon DEF Untouched
<1>. QED
  BY <1>1, <1>2

LEMMA ClosedByBackendKept ==
  ASSUME NEW s \in Session, s.lanes[0].present, NEW id \in StreamIds, NEW pool
  PROVE  Kept(s, ClosedByBackend(s, id, pool))
<1>. DEFINE ended == EndStream(s, id)
<1>1. ended \in Session /\ Untouched(s, ended)
  BY EndStreamType, EndStreamUntouched, Zenon
<1>2. ended.lanes[0].present /\ Kept(s, ended)
  BY <1>1, UntouchedKept, Zenon DEF Untouched
<1>. HIDE DEF ended
<1>3. /\ \A f \in Queueable : Kept(ended, QueueFrame(ended, f))
      /\ Kept(ended, CloseSession(ended))
  BY <1>1, <1>2, QueueFrameKept, CloseSessionKept, Zenon
<1>4. /\ \A f \in Queueable : Kept(s, QueueFrame(ended, f))
      /\ Kept(s, CloseSession(ended))
  BY <1>2, <1>3, KeptTransitive, Zenon
<1>5. [type |-> "CLOSE", id |-> id, n |-> 0] \in Queueable
  BY DEF Queueable
<1>. QED
  BY <1>4, <1>5, Zenon DEF ClosedByBackend, ended

LEMMA BackendKept ==
  ASSUME TypeOK, lane0.present, NEW id \in StreamIds, BackendStep(id)
  PROVE  Kept(ses, ses')
<1>. DEFINE Same == ses' = ses
            Cancels == ses' = CancelBackend(ses, {id})
<1>1. ses \in Session /\ backends[id] \in BackendState /\ Kept(ses, ses)
  BY UntouchedKept, Zenon DEF TypeOK, BackendTypeOK, Untouched
<1>2. backends[id].inHand \in Nat
  BY <1>1, BackendFields
<1>3. CASE Same \/ Cancels
  BY <1>1, <1>3, CancelKept, Zenon
<1>4. CASE Dialled(id) \/ DialFailed(id) \/ LoopsReturned(id) \/ BudgetWakesReader(id)
           \/ WriterStops(id) \/ ReadEnds(id)
  BY <1>3, <1>4, Zenon DEF Dialled, DialFailed, LoopsReturned, BudgetWakesReader,
                           WriterStops, ReadEnds
<1>5. CASE BackendClosed(id)
  <2>1. PICK pool : ses' = CancelBackend(IF Live(id) THEN ClosedByBackend(ses, id, pool) ELSE ses,
                                         {id})
    BY <1>5, Zenon DEF BackendClosed
  <2>2. /\ ClosedByBackend(ses, id, pool) \in Session
        /\ Kept(ses, ClosedByBackend(ses, id, pool))
    BY <1>1, ClosedByBackendType, ClosedByBackendKept, Zenon DEF lane0
  <2>. QED
    BY <1>1, <2>1, <2>2, CancelKept, Zenon
<1>6. CASE NextWrite(id)
  <2>1. CASE ses' = [ses EXCEPT !.streams[id].writes = Tail(@)]
    <3>1. ses' = [ses EXCEPT !.streams[id].writes = Tail(ses.streams[id].writes)]
      BY <1>1, <2>1 DEF Session
    <3>. QED
      BY <1>1, <3>1, BackendUpdatesUntouched, UntouchedKept, Zenon
  <2>. QED
    BY <1>3, <1>6, <2>1, Zenon DEF NextWrite
<1>7. CASE WriterWakes(id)
  BY <1>1, <1>7, BackendUpdatesUntouched, UntouchedKept, Zenon DEF WriterWakes
<1>8. CASE Write(id)
  <2>1. PICK pool \in PoolAnswers("control") :
          \/ ses' = AfterWrite(ses, id, backends[id].inHand, pool)
          \/ ses' = CancelBackend(AfterWrite(ses, id, backends[id].inHand, pool), {id})
    BY <1>8, Zenon DEF Write
  <2>2. pool \in BOOLEAN
    BY <2>1, PoolAnswersType, Zenon
  <2>. QED
    BY <1>1, <1>2, <2>1, <2>2, AfterWriteType, AfterWriteKept, CancelKept, Zenon
<1>9. CASE WriteFails(id)
  <2>1. PICK pool \in PoolAnswers("control"), k \in 0 .. backends[id].inHand - 1 :
          ses' = CancelBackend(AfterWrite(ses, id, k, pool), {id})
    BY <1>9, Zenon DEF WriteFails
  <2>2. pool \in BOOLEAN
    BY <2>1, PoolAnswersType, Zenon
  <2>3. k \in Nat
    BY <1>2, <2>1
  <2>. QED
    BY <1>1, <2>1, <2>2, <2>3, AfterWriteType, AfterWriteKept, CancelKept, Zenon
<1>10. CASE WriteFinished(id)
  <2>1. CASE ses' = FinishWrite(ses, id)
    BY <1>1, <2>1, BackendUpdatesUntouched, UntouchedKept, Zenon
  <2>. QED
    BY <1>3, <1>10, <2>1, Zenon DEF WriteFinished
<1>11. CASE NextRead(id)
  <2>1. CASE ses' = [ses EXCEPT !.budgetWaiters = @ \cup {id}]
    BY <1>1, <2>1, BackendUpdatesUntouched, UntouchedKept, Zenon
  <2>. QED
    BY <1>3, <1>11, <2>1, Zenon DEF NextRead
<1>12. CASE CreditWakesReader(id)
  BY <1>1, <1>12, BackendUpdatesUntouched, UntouchedKept, Zenon DEF CreditWakesReader
<1>13. CASE ReaderStops(id)
  <2>. DEFINE r == [ses EXCEPT !.budgetWaiters = @ \ {id}]
  <2>1. ses.budgetWaiters \ {id} \in SUBSET StreamIds
    BY <1>1, SessionFields
  <2>2. r \in Session /\ Kept(ses, r)
    BY <1>1, <2>1, SessionUpdates, BackendUpdatesUntouched, UntouchedKept, Zenon
  <2>3. ses' = CancelBackend(r, {id})
    BY <1>13, Zenon DEF ReaderStops
  <2>. HIDE DEF r
  <2>. QED
    BY <2>2, <2>3, CancelKept, Zenon
<1>14. CASE Read(id)
  <2>1. PICK pool \in PoolAnswers("down"), k \in 1 .. backends[id].allowance :
          LET frame == [type |-> "DATA", id |-> id, n |-> k]
              spent == SpendCredit(ses, id, k)
          IN  \/ Cancels
              \/ CanTakeData(ses, id, k) /\ ses' = QueueFrame(spent, frame)
              \/ CanTakeData(ses, id, k) /\ ses' = CancelBackend(spent, {id})
    BY <1>14, Zenon DEF Read
  <2>. DEFINE frame == [type |-> "DATA", id |-> id, n |-> k]
              spent == SpendCredit(ses, id, k)
  <2>2. CanTakeData(ses, id, k) => spent \in Session
    BY <1>1, <2>1, SpendCreditType, Zenon
  <2>3. Kept(ses, spent) /\ frame \in Queueable
    <3>1. k \in Nat
      BY <1>1, <2>1, BackendFields
    <3>2. frame \in Queueable
      BY <3>1 DEF Queueable
    <3>. QED
      BY <1>1, <3>2, BackendUpdatesUntouched, UntouchedKept, Zenon
  <2>4. \/ Cancels
        \/ spent \in Session /\ ses' = QueueFrame(spent, frame)
        \/ spent \in Session /\ ses' = CancelBackend(spent, {id})
    BY <2>1, <2>2, Zenon
  <2>. HIDE DEF spent, frame, Cancels
  <2>5. CASE spent \in Session /\ ses' = QueueFrame(spent, frame)
    BY <2>3, <2>5, QueueFrameKept, KeptTransitive, Zenon
  <2>6. CASE spent \in Session /\ ses' = CancelBackend(spent, {id})
    BY <2>3, <2>6, CancelKept, Zenon
  <2>. QED
    BY <1>3, <2>4, <2>5, <2>6, Zenon
<1>. QED
  BY <1>4, <1>5, <1>6, <1>7, <1>8, <1>9, <1>10, <1>11, <1>12, <1>13, <1>14, Zenon
     DEF BackendStep

-----------------------------------------------------------------------------
(* The steps of uplink handlers.                                           *)

LEMMA UpActiveKept ==
  ASSUME NEW s \in Session, NEW b, NEW t, t = [s EXCEPT !.lanes[0].upActive = b]
  PROVE  /\ DownKept(s, t)
         /\ t.lanes[0].upActive = b
         /\ t.lanes[0].lastUpSequence = s.lanes[0].lastUpSequence
<1>1. s.lanes \in [LaneIds -> Lane] /\ s.lanes[0] \in Lane /\ 0 \in LaneIds
  BY SessionFields, LaneZero
<1>2. t.lanes[0].frames = s.lanes[0].frames /\ t.lanes[0].windows = s.lanes[0].windows
  BY <1>1 DEF Session, Lane
<1>3. IndexKept(s.lanes[0], t.lanes[0])
  BY <1>2, IndexedByFields, Zenon DEF IndexKept
<1>. QED
  BY <1>1, <1>3 DEF DownKept, Session, Lane

LEMMA UpBeginKept ==
  ASSUME TypeOK, NEW u, NEW q, NEW body, UpBegin(u, q, body)
  PROVE  DownKept(ses, ses')
<1>1. ses \in Session /\ DownKept(ses, ses)
  BY UntouchedKept, Zenon DEF TypeOK, BackendTypeOK, Untouched, Kept
<1>2. ses' = ses \/ ses' = [ses EXCEPT !.lanes[0].upActive = TRUE]
  BY Zenon DEF UpBegin
<1>. QED
  BY <1>1, <1>2, UpActiveKept, Zenon

LEMMA ApplyKept ==
  ASSUME TypeOK, NEW u \in Uppers,
         ApplyOpen(u) \/ ApplyData(u) \/ ApplyWindow(u)
  PROVE  Kept(ses, ses')
<1>. DEFINE id == Current(u).id
<1>1. ses \in Session
  BY DEF TypeOK, BackendTypeOK
<1>2. \A x : Untouched(ses, [ses EXCEPT !.streams[id] = x])
  BY <1>1, StreamUntouched, Zenon
<1>3. \A x, y : Untouched(ses, [ses EXCEPT !.streams[id].sendCredit = x,
                                           !.streams[id].creditNotify = y])
  BY <1>1 DEF Session, Untouched
<1>4. CASE ApplyOpen(u) \/ ApplyData(u)
  BY <1>2, <1>4, UntouchedKept, Zenon DEF ApplyOpen, ApplyData
<1>5. CASE ApplyWindow(u)
  <2>1. PICK x : ses' = [ses EXCEPT !.streams[id].sendCredit = x,
                                    !.streams[id].creditNotify = TRUE]
    <3>1. ses' = [ses EXCEPT !.streams[id].sendCredit = AddCredit(@, Current(u).n),
                             !.streams[id].creditNotify = TRUE]
      BY <1>5, Zenon DEF ApplyWindow
    <3>. QED
      BY <1>1, <3>1, Zenon
  <2>. QED
    BY <1>3, <2>1, UntouchedKept, Zenon
<1>. QED
  BY <1>4, <1>5

LEMMA RejectOpenKept ==
  ASSUME TypeOK, NEW u \in Uppers, RejectOpen(u)
  PROVE  Kept(ses, ses')
<1>. DEFINE id == Current(u).id
            frame == [type |-> "CLOSE", id |-> id, n |-> 0]
            remembered == RememberClosed(ses, id)
<1>1. ses \in Session /\ ups[u] \in UpState /\ UpsTypeOK
  BY DEF TypeOK, BackendTypeOK, UpsTypeOK
<1>2. id \in StreamIds
  <2>1. ValidClientShape(Current(u)) /\ (id # 0 => id \in StreamIds)
    BY <1>1, CurrentType, Zenon DEF RejectOpen
  <2>2. Current(u).type = "OPEN"
    BY Zenon DEF RejectOpen
  <2>. QED
    BY <2>1, <2>2 DEF ValidClientShape
<1>3. remembered \in Session /\ Kept(ses, remembered)
  BY <1>1, <1>2, RememberClosedType, EndStreamUntouched, UntouchedKept, Zenon
<1>4. frame \in Queueable
  BY <1>2 DEF Queueable
<1>. HIDE DEF remembered, frame
<1>5. Kept(remembered, QueueFrame(remembered, frame))
  BY <1>3, <1>4, QueueFrameKept, Zenon
<1>6. Kept(remembered, ReleasePending(remembered, ups[u].cost, ups[u].items))
  BY <1>1, <1>3, UpFields, BudgetUntouched, UntouchedKept, Zenon
<1>7. \/ ses' = QueueFrame(remembered, frame)
      \/ ses' = ReleasePending(remembered, ups[u].cost, ups[u].items)
  BY Zenon DEF RejectOpen, remembered, frame
<1>8. \A t : Kept(remembered, t) => Kept(ses, t)
  BY <1>3, KeptTransitive, Zenon
<1>. QED
  BY <1>5, <1>6, <1>7, <1>8, Zenon

LEMMA UpQuietKept ==
  ASSUME TypeOK, lane0.present, NEW u \in Uppers,
         UpStep(u), ~UpCommit(u), ~UpApplied(u)
  PROVE  Kept(ses, ses')
<1>1. ses \in Session /\ Kept(ses, ses) /\ ups[u] \in UpState /\ UpsTypeOK
  BY UntouchedKept, Zenon DEF TypeOK, BackendTypeOK, UpsTypeOK, Untouched
<1>4. CASE ApplyNothing(u) \/ ApplyToNoStream(u) \/ UpReturns(u)
  BY <1>1, <1>4, Zenon DEF ApplyNothing, ApplyToNoStream, UpReturns
<1>5. CASE ApplyOpen(u) \/ ApplyData(u) \/ ApplyWindow(u)
  BY <1>5, ApplyKept, Zenon
<1>6. CASE RejectOpen(u)
  BY <1>6, RejectOpenKept, Zenon
<1>7. CASE ApplyClose(u)
  <2>1. Applying(u) /\ Current(u).id # 0 /\ ses' = EndStream(ses, Current(u).id)
    BY <1>7, Zenon DEF ApplyClose
  <2>2. Current(u).id \in StreamIds
    BY <1>1, <2>1, CurrentType, Zenon
  <2>. QED
    BY <1>1, <2>1, <2>2, EndStreamUntouched, UntouchedKept, Zenon
<1>9. CASE UpLaunch(u)
  BY <1>1, <1>9, CancelUntouched, UntouchedKept, Zenon DEF UpLaunch
<1>10. CASE UpCloses(u)
  BY <1>1, <1>10, CloseSessionKept, Zenon DEF UpCloses, lane0
<1>. QED
  BY <1>4, <1>5, <1>6, <1>7, <1>9, <1>10, Zenon DEF UpStep


(* The two steps that change what an uplink request is checked against.    *)
LEMMA UpCommitKept ==
  ASSUME TypeOK, NEW u \in Uppers, UpCommit(u)
  PROVE  /\ DownKept(ses, ses')
         /\ ~lane0'.upActive /\ lane0'.lastUpSequence = lane0.lastUpSequence
<1>1. ses \in Session /\ ups[u] \in UpState
  BY Zenon DEF TypeOK, BackendTypeOK, UpsTypeOK
<1>. DEFINE idle == [ses EXCEPT !.lanes[0].upActive = FALSE]
            cost == WriteCost(ses, ups[u].body)
            items == WriteItems(ses, ups[u].body)
<1>2. /\ idle \in Session /\ DownKept(ses, idle)
      /\ ~idle.lanes[0].upActive
      /\ idle.lanes[0].lastUpSequence = ses.lanes[0].lastUpSequence
  <2>1. ses.lanes \in [LaneIds -> Lane] /\ ses.lanes[0] \in Lane /\ 0 \in LaneIds
    BY <1>1, SessionFields, LaneZero
  <2>2. idle \in Session
    BY <1>1, LaneUpdates, Zenon
  <2>3. DownKept(ses, idle)
    <3>1. ASSUME NEW t, t = idle PROVE DownKept(ses, t)
      BY <1>1, <3>1, UpActiveKept, Zenon
    <3>. QED
      BY <3>1
  <2>4. ~idle.lanes[0].upActive /\ idle.lanes[0].lastUpSequence = ses.lanes[0].lastUpSequence
    BY <1>1, <2>1 DEF Session, Lane
  <2>. QED
    BY <2>2, <2>3, <2>4, Zenon
<1>3. cost \in Int /\ items \in Int
  BY <1>1, UpFields, WriteCostType, Zenon
<1>4. ses' = idle \/ ses' = Reserve(idle, cost, items)
  BY Zenon DEF UpCommit
<1>. HIDE DEF idle, cost, items
<1>5. Untouched(idle, Reserve(idle, cost, items))
  BY <1>2, <1>3, BudgetUntouched, Zenon
<1>6. ses'.lanes = idle.lanes /\ ses'.closed = idle.closed
  BY <1>4, <1>5, Zenon DEF Untouched
<1>. QED
  BY <1>2, <1>6, Zenon DEF DownKept, lane0

LEMMA UpAppliedKept ==
  ASSUME TypeOK, NEW u \in Uppers, UpApplied(u)
  PROVE  DownKept(ses, ses') /\ lane0'.upActive = lane0.upActive
<1>1. ses \in Session /\ ups[u] \in UpState
  BY Zenon DEF TypeOK, BackendTypeOK, UpsTypeOK
<1>. DEFINE r == ReleasePending(ses, ups[u].cost, ups[u].items)
<1>2. r \in Session /\ Untouched(ses, r)
  BY <1>1, UpFields, ReleasePendingType, BudgetUntouched, Zenon
<1>3. ses' = [r EXCEPT !.lanes[0].lastUpSequence = ups[u].seq,
                       !.lanes[0].lastUpDigest = ups[u].body]
  BY Zenon DEF UpApplied
<1>. HIDE DEF r
<1>4. DownKept(r, ses') /\ ses'.lanes[0].upActive = r.lanes[0].upActive
  <2>1. r.lanes \in [LaneIds -> Lane] /\ r.lanes[0] \in Lane /\ 0 \in LaneIds
    BY <1>2, SessionFields, LaneZero
  <2>2. /\ ses'.lanes[0].frames = r.lanes[0].frames
        /\ ses'.lanes[0].windows = r.lanes[0].windows
    BY <1>2, <1>3, <2>1 DEF Session, Lane
  <2>3. IndexKept(r.lanes[0], ses'.lanes[0])
    BY <2>2, IndexedByFields, Zenon DEF IndexKept
  <2>. QED
    BY <1>2, <1>3, <2>1, <2>3 DEF DownKept, Session, Lane
<1>. QED
  BY <1>2, <1>4, Zenon DEF DownKept, Untouched, lane0

-----------------------------------------------------------------------------
(* The steps of polls.                                                     *)

(* A step that keeps the downlink and leaves the polls alone keeps the     *)
(* invariant.                                                              *)
LEMMA KeptStep ==
  ASSUME PollInv, TypeOK', DownKept(ses, ses'), UNCHANGED polls
  PROVE  PollInv'
<1>. USE DEF PollInv, DownKept, lane0
<1>1. lane0'.present
  OBVIOUS
<1>2. PollOwnership'
  BY DEF PollOwnership
<1>3. CursorSound'
  BY DEF CursorSound
<1>4. NoLostPollWakeup'
  BY DEF NoLostPollWakeup
<1>. QED
  BY <1>1, <1>2, <1>3, <1>4

(* A poll that does not own the downlink goes; a token it has received     *)
(* stays behind.                                                           *)
LEMMA LeaveStep ==
  ASSUME PollInv, TypeOK', DownKept(ses, ses'),
         NEW p \in Pollers, NEW r,
         polls' = [polls EXCEPT ![p] = r], r.pc \notin {"parked", "woken"},
         lane0.owner # p,
         polls[p].pc = "woken" => lane0'.notify
  PROVE  PollInv'
<1>. USE DEF PollInv, DownKept, lane0
<1>1. polls \in [Pollers -> PollState] /\ polls'[p] = r
  BY DEF TypeOK
<1>2. \A q : q \in Pollers /\ q # p => polls'[q] = polls[q]
  BY <1>1
<1>3. ses.lanes[0].owner \in Pollers \cup {NoPoller}
  BY SessionFields, LaneFields, LaneZero DEF TypeOK, BackendTypeOK
<1>4. PollOwnership'
  BY <1>1, <1>2, <1>3 DEF PollOwnership
<1>5. CursorSound'
  BY DEF CursorSound
<1>6. NoLostPollWakeup'
  BY <1>1, <1>2, <1>3 DEF NoLostPollWakeup
<1>. QED
  BY <1>4, <1>5, <1>6

(* The owner goes and the place of the parked poll is free.                *)
LEMMA DisownStep ==
  ASSUME PollInv, TypeOK',
         NEW p \in Pollers, NEW r,
         polls' = [polls EXCEPT ![p] = r], r.pc \notin {"parked", "woken"},
         lane0.owner = p,
         ses' = [ses EXCEPT !.lanes[0].owner = NoPoller]
  PROVE  PollInv'
<1>. DEFINE lane == ses.lanes[0]
<1>1. polls \in [Pollers -> PollState] /\ polls'[p] = r
  BY DEF TypeOK, PollInv
<1>2. \A q : q \in Pollers /\ q # p => polls'[q] = polls[q]
  BY <1>1
<1>3. ses \in Session /\ lane \in Lane /\ ses.lanes \in [LaneIds -> Lane] /\ 0 \in LaneIds
  BY SessionFields, LaneZero DEF TypeOK, BackendTypeOK, PollInv
<1>4. /\ lane0'.present = lane.present /\ lane0'.owner = NoPoller
      /\ lane0'.unacked = lane.unacked /\ lane0'.downCursor = lane.downCursor
      /\ lane0'.unackedBase = lane.unackedBase
  BY <1>3 DEF lane0, Session, Lane
<1>5. p # NoPoller
  BY CarrierAssumption
<1>6. PollOwnership'
  <2>1. \A q \in Pollers : polls[q].pc \in {"parked", "woken"} => (polls[q].superseded <=> q # p)
    BY DEF PollInv, PollOwnership
  <2>2. \A q \in Pollers : polls'[q].pc \in {"parked", "woken"} => q # p /\ polls'[q].superseded
    BY <1>1, <1>2, <2>1
  <2>3. \A q \in Pollers : q # NoPoller
    BY CarrierAssumption
  <2>. QED
    BY <1>4, <2>2, <2>3 DEF PollOwnership
<1>7. CursorSound'
  BY <1>4 DEF CursorSound, PollInv, lane0
<1>8. NoLostPollWakeup'
  BY <1>4 DEF NoLostPollWakeup
<1>. QED
  BY <1>4, <1>6, <1>7, <1>8 DEF PollInv, lane0

(* The owner takes a batch, or parks on an empty queue.                    *)
LEMMA TakeOrParkStep ==
  ASSUME TypeOK', NEW s \in Session, NEW ps \in [Pollers -> PollState], NEW p \in Pollers,
         s.lanes[0].present, s.lanes[0].owner = p, s.lanes[0].unacked = <<>>,
         ~s.closed \/ s.lanes[0].frames # <<>>,
         ps[p].cursor = s.lanes[0].downCursor, ~ps[p].superseded,
         \A q \in Pollers \ {p} : ps[q].pc \in {"parked", "woken"} => ps[q].superseded,
         TakeOrPark(s, ps, p)
  PROVE  PollInv'
<1>. DEFINE lane == s.lanes[0]
<1>1. lane \in Lane /\ s.lanes \in [LaneIds -> Lane] /\ 0 \in LaneIds
  BY SessionFields, LaneZero
<1>2. \A q \in Pollers : q # NoPoller
  BY CarrierAssumption
<1>3. CASE lane.frames = <<>>
  <2>1. ses' = s /\ polls' = [ps EXCEPT ![p].pc = "parked"]
    BY <1>3, Zenon DEF TakeOrPark
  <2>2. /\ polls'[p].pc = "parked" /\ polls'[p].superseded = ps[p].superseded
        /\ polls'[p].cursor = ps[p].cursor
        /\ \A q \in Pollers \ {p} : polls'[q] = ps[q]
    BY <2>1 DEF PollState
  <2>3. PollOwnership'
    BY <2>1, <2>2 DEF PollOwnership, lane0
  <2>4. CursorSound' /\ NoLostPollWakeup'
    BY <1>3, <2>1 DEF CursorSound, NoLostPollWakeup, lane0
  <2>. QED
    BY <2>1, <2>3, <2>4 DEF PollInv, lane0
<1>4. CASE lane.frames # <<>>
  <2>1. PICK k \in 1 .. Len(lane.frames) :
          /\ ses' = TakenBy(s, ps[p].cursor, k)
          /\ polls' = DeliverTo(ps, ses', p)
    BY <1>4, Zenon DEF TakeOrPark
  <2>. DEFINE new == TakeBatch(lane, k, ps[p].cursor)
  <2>2. ses'.lanes[0] = new
    <3>. HIDE DEF new
    <3>1. ses' = [s EXCEPT !.lanes[0] = new]
      BY <1>1, <2>1 DEF TakenBy, new, Session
    <3>. QED
      BY <1>1, <3>1 DEF Session
  <2>3. /\ new.present = lane.present /\ new.owner = NoPoller
        /\ new.downCursor = lane.downCursor + 1 /\ new.unackedBase = ps[p].cursor
    <3>. DEFINE w == WindowsAfterTake(lane, k)
                f == AfterBatch(lane.frames, k)
                b == SubSeq(lane.frames, 1, k)
                c == Total(Costs(b))
    <3>1. new = [lane EXCEPT !.frames = f, !.windows = w, !.unackedBase = ps[p].cursor,
                             !.downCursor = @ + 1, !.unacked = b, !.unackedCost = c,
                             !.unackedItems = k, !.owner = NoPoller]
      BY Zenon DEF TakeBatch
    <3>. HIDE DEF lane, w, f, b, c, new
    <3>. QED
      BY <1>1, <3>1 DEF Lane
  <2>. HIDE DEF new
  <2>4. /\ polls'[p].pc = "batch"
        /\ \A q \in Pollers \ {p} : polls'[q] = ps[q]
    BY <2>1 DEF DeliverTo, NoPoll
  <2>5. PollOwnership'
    BY <1>2, <2>2, <2>3, <2>4 DEF PollOwnership, lane0
  <2>6. CursorSound' /\ NoLostPollWakeup'
    BY <2>2, <2>3 DEF CursorSound, NoLostPollWakeup, lane0
  <2>. QED
    BY <2>2, <2>3, <2>5, <2>6 DEF PollInv, lane0
<1>. QED
  BY <1>3, <1>4

LEMMA Waiting ==
  ASSUME PollInv, NEW p \in Pollers
  PROVE  /\ ses \in Session /\ polls \in [Pollers -> PollState]
         /\ polls[p].pc \notin {"parked", "woken"} => lane0.owner # p
         /\ polls[p].pc \in {"parked", "woken"} => (polls[p].superseded <=> lane0.owner # p)
         /\ lane0.owner = p =>
              /\ polls[p].pc \in {"parked", "woken"} /\ ~polls[p].superseded
              /\ polls[p].cursor = lane0.downCursor /\ lane0.unacked = <<>>
              /\ \A q \in Pollers \ {p} : polls[q].pc \in {"parked", "woken"}
                                            => polls[q].superseded
<1>1. p # NoPoller
  BY CarrierAssumption
<1>. QED
  BY <1>1 DEF PollInv, PollOwnership, TypeOK, BackendTypeOK

(* A poll that ends has the state [NoPoll EXCEPT !.pc = pc].               *)
LEMMA EndsAs ==
  ASSUME NEW p, NEW pc, pc \notin {"parked", "woken"}, PollEnds(p, pc)
  PROVE  \E r : polls' = [polls EXCEPT ![p] = r] /\ r.pc \notin {"parked", "woken"}
<1>1. [NoPoll EXCEPT !.pc = pc].pc \notin {"parked", "woken"}
  BY DEF NoPoll
<1>. QED
  BY <1>1, Zenon DEF PollEnds

LEMMA NotifySet ==
  ASSUME NEW s \in Session, NEW t, t = Signalled(s)
  PROVE  DownKept(s, t) /\ t.lanes[0].notify
<1>1. s.lanes \in [LaneIds -> Lane] /\ s.lanes[0] \in Lane /\ 0 \in LaneIds
  BY SessionFields, LaneZero
<1>2. t.lanes[0].frames = s.lanes[0].frames /\ t.lanes[0].windows = s.lanes[0].windows
  BY <1>1 DEF Session, Lane, Signalled
<1>3. IndexKept(s.lanes[0], t.lanes[0])
  BY <1>2, IndexedByFields, Zenon DEF IndexKept
<1>. QED
  BY <1>1, <1>3 DEF DownKept, Session, Lane, Signalled

LEMMA PollWakesStep ==
  ASSUME PollInv, TypeOK', NEW p \in Pollers, PollWakes(p)
  PROVE  PollInv'
<1>. DEFINE lane == ses.lanes[0]
<1>1. polls \in [Pollers -> PollState] /\ ses \in Session
  BY Waiting
<1>2. lane \in Lane /\ ses.lanes \in [LaneIds -> Lane] /\ 0 \in LaneIds
  BY <1>1, SessionFields, LaneZero
<1>3. ses' = [ses EXCEPT !.lanes[0].notify = FALSE]
  BY DEF PollWakes
<1>4. /\ lane0'.present = lane.present /\ lane0'.owner = lane.owner
      /\ lane0'.unacked = lane.unacked /\ lane0'.downCursor = lane.downCursor
      /\ lane0'.unackedBase = lane.unackedBase
  BY <1>1, <1>2, <1>3 DEF lane0, Session, Lane
<1>5. /\ polls[p].pc = "parked" /\ polls'[p].pc = "woken"
      /\ polls'[p].superseded = polls[p].superseded /\ polls'[p].cursor = polls[p].cursor
      /\ \A q \in Pollers \ {p} : polls'[q] = polls[q]
  BY <1>1 DEF PollWakes, PollGoes, PollState
<1>6. lane.owner \in Pollers \cup {NoPoller}
  BY <1>2, LaneFields
<1>7. PollOwnership'
  <2>1. PollOwnership
    BY DEF PollInv
  <2>. QED
    BY <1>4, <1>5, <1>6, <2>1 DEF PollOwnership, lane0
<1>8. CursorSound'
  BY <1>4 DEF CursorSound, PollInv, lane0
<1>9. NoLostPollWakeup'
  BY <1>5 DEF NoLostPollWakeup
<1>. QED
  BY <1>4, <1>7, <1>8, <1>9 DEF PollInv, lane0

LEMMA PollEndStep ==
  ASSUME PollInv, TypeOK', NEW p \in Pollers,
         PollResumes(p) \/ PollSuperseded(p) \/ PollExpires(p) \/ PollCancelled(p)
  PROVE  PollInv'
<1>1. ses \in Session /\ polls \in [Pollers -> PollState] /\ polls[p].pc \in {"parked", "woken"}
  BY Waiting, Zenon DEF PollResumes, PollSuperseded, PollExpires, PollCancelled
<1>2. polls[p].pc = "parked" => polls[p].pc # "woken"
  OBVIOUS
<1>3. CASE lane0.owner # p /\ ses' = Signalled(ses) /\ PollEnds(p, "empty")
  <2>1. PICK r : polls' = [polls EXCEPT ![p] = r] /\ r.pc \notin {"parked", "woken"}
    BY <1>3, EndsAs
  <2>2. DownKept(ses, ses') /\ lane0'.notify
    BY <1>1, <1>3, NotifySet, Zenon DEF lane0
  <2>. QED
    BY <1>3, <2>1, <2>2, LeaveStep, Zenon
<1>4. CASE /\ lane0.owner = p /\ ses' = [ses EXCEPT !.lanes[0].owner = NoPoller]
           /\ PollEnds(p, "failed") \/ PollEnds(p, "empty") \/ polls' = [polls EXCEPT ![p] = NoPoll]
  <2>1. NoPoll.pc \notin {"parked", "woken"}
    BY DEF NoPoll
  <2>2. PICK r : polls' = [polls EXCEPT ![p] = r] /\ r.pc \notin {"parked", "woken"}
    <3>1. CASE PollEnds(p, "failed")
      BY <3>1, EndsAs
    <3>2. CASE PollEnds(p, "empty")
      BY <3>2, EndsAs
    <3>. QED
      BY <1>4, <2>1, <3>1, <3>2, Zenon
  <2>. QED
    BY <1>4, <2>2, DisownStep, Zenon
<1>5. CASE /\ lane0.owner = p
           /\ ~ses.closed \/ lane0.frames # <<>>
           /\ TakeOrPark(ses, polls, p)
  <2>1. ses.lanes[0].present
    BY DEF PollInv, lane0
  <2>2. /\ ses.lanes[0].owner = p /\ ses.lanes[0].unacked = <<>>
        /\ polls[p].cursor = ses.lanes[0].downCursor /\ ~polls[p].superseded
        /\ \A q \in Pollers \ {p} : polls[q].pc \in {"parked", "woken"} => polls[q].superseded
    <3>1. /\ lane0.owner = p
          /\ ~polls[p].superseded /\ polls[p].cursor = lane0.downCursor
          /\ lane0.unacked = <<>>
          /\ \A q \in Pollers \ {p} : polls[q].pc \in {"parked", "woken"}
                                         => polls[q].superseded
      BY <1>5, Waiting
    <3>. QED
      BY <3>1, Zenon DEF lane0
  <2>3. (~ses.closed \/ ses.lanes[0].frames # <<>>) /\ TakeOrPark(ses, polls, p)
    BY <1>5, Zenon DEF lane0
  <2>. QED
    BY <1>1, <2>1, <2>2, <2>3, TakeOrParkStep, Zenon
<1>6. CASE PollResumes(p)
  BY <1>3, <1>4, <1>5, <1>6, Zenon DEF PollResumes
<1>7. CASE PollSuperseded(p)
  <2>1. lane0.owner # p
    BY <1>1, <1>7, Waiting, Zenon DEF PollSuperseded
  <2>. QED
    BY <1>3, <1>7, <2>1, Zenon DEF PollSuperseded
<1>8. CASE PollCancelled(p)
  <2>1. CASE lane0.owner = p
    BY <1>4, <1>8, <2>1, Zenon DEF PollCancelled, Disown, lane0
  <2>2. CASE lane0.owner # p
    <3>1. ses' = ses /\ polls' = [polls EXCEPT ![p] = NoPoll] /\ polls[p].pc = "parked"
      BY <1>8, <2>2, Zenon DEF PollCancelled, Disown, lane0
    <3>2. NoPoll.pc \notin {"parked", "woken"}
      BY DEF NoPoll
    <3>3. DownKept(ses, ses')
      BY <3>1, UntouchedKept, Zenon DEF Untouched, Kept
    <3>4. polls[p].pc # "woken"
      BY <3>1
    <3>. QED
      BY <2>2, <3>1, <3>2, <3>3, <3>4, LeaveStep, Zenon
  <2>. QED
    BY <2>1, <2>2
<1>9. CASE PollExpires(p)
  <2>1. CASE lane0.owner = p /\ ses' = Disown(ses, p) /\ PollEnds(p, "empty")
    BY <1>4, <2>1, Zenon DEF Disown, lane0
  <2>2. CASE lane0.owner = p /\ lane0.frames # <<>> /\ TakeOrPark(ses, polls, p)
    BY <1>5, <2>2, Zenon
  <2>. QED
    BY <1>3, <1>9, <2>1, <2>2, Zenon DEF PollExpires
<1>. QED
  BY <1>6, <1>7, <1>8, <1>9

LEMMA PollQuietStep ==
  ASSUME PollInv, TypeOK', NEW p \in Pollers, PollCloses(p) \/ PollReturns(p)
  PROVE  PollInv'
<1>1. ses \in Session /\ polls \in [Pollers -> PollState] /\ ses.lanes[0].present
  BY Waiting, Zenon DEF PollInv, lane0
<1>2. polls[p].pc \notin {"parked", "woken"}
  BY DEF PollCloses, PollReturns
<1>3. lane0.owner # p /\ polls[p].pc # "woken"
  BY <1>2, Waiting
<1>4. DownKept(ses, ses')
  BY <1>1, CloseSessionKept, UntouchedKept, Zenon DEF PollCloses, PollReturns, Untouched, Kept
<1>5. PICK r : polls' = [polls EXCEPT ![p] = r] /\ r.pc \notin {"parked", "woken"}
  <2>1. CASE PollCloses(p)
    <3>1. polls' = [polls EXCEPT ![p] = [polls[p] EXCEPT !.pc = "failed"]]
      BY <1>1, <2>1 DEF PollCloses, PollGoes
    <3>2. [polls[p] EXCEPT !.pc = "failed"].pc \notin {"parked", "woken"}
      BY <1>1 DEF PollState
    <3>. QED
      BY <3>1, <3>2, Zenon
  <2>2. CASE PollReturns(p)
    <3>1. NoPoll.pc \notin {"parked", "woken"}
      BY DEF NoPoll
    <3>. QED
      BY <2>2, <3>1, Zenon DEF PollReturns
  <2>. QED
    BY <2>1, <2>2
<1>. QED
  BY <1>3, <1>4, <1>5, LeaveStep, Zenon

LEMMA PollBeginStep ==
  ASSUME PollInv, TypeOK', NEW p \in Pollers, NEW cursor \in 0 .. MaxCursor,
         PollBegin(p, cursor)
  PROVE  PollInv'
<1>1. /\ ses \in Session /\ polls \in [Pollers -> PollState] /\ ses.lanes[0].present
      /\ polls[p].pc = "idle" /\ cursor \in Nat /\ 0 \in LaneIds
  <2>1. cursor \in Nat
    BY MuxAssumption
  <2>. QED
    BY <2>1, Waiting, LaneZero, Zenon DEF PollInv, lane0, PollBegin
<1>2. lane0.owner # p /\ polls[p].pc # "woken"
  BY <1>1, Waiting
<1>3. CASE UNCHANGED ses /\ (\/ PollEnds(p, "failed") \/ PollEnds(p, "failing")
                             \/ polls' = DeliverTo(polls, ses, p))
  <2>1. PICK r : polls' = [polls EXCEPT ![p] = r] /\ r.pc \notin {"parked", "woken"}
    <3>1. CASE PollEnds(p, "failed")
      BY <3>1, EndsAs
    <3>2. CASE PollEnds(p, "failing")
      BY <3>2, EndsAs
    <3>3. CASE polls' = DeliverTo(polls, ses, p)
      <4>. DEFINE r == [NoPoll EXCEPT !.pc = "batch", !.body = ses.lanes[0].unacked,
                                      !.next = ses.lanes[0].downCursor]
      <4>1. r.pc \notin {"parked", "woken"}
        BY DEF NoPoll
      <4>. QED
        BY <3>3, <4>1, Zenon DEF DeliverTo
    <3>. QED
      BY <1>3, <3>1, <3>2, <3>3
  <2>2. DownKept(ses, ses')
    BY <1>3, UntouchedKept, Zenon DEF Untouched, Kept
  <2>. QED
    BY <1>2, <2>1, <2>2, LeaveStep, Zenon
<1>4. CASE /\ ~ses.closed /\ IsAck(ses, cursor)
           /\ TakeOrPark([AckUnacked(ses, 0) EXCEPT !.lanes[0].owner = p],
                         Supersede(polls, p, cursor), p)
  <2>. DEFINE lane == ses.lanes[0]
              acked == AckUnacked(ses, 0)
              s == [acked EXCEPT !.lanes[0].owner = p]
              ps == Supersede(polls, p, cursor)
  <2>1. lane \in Lane /\ lane.unackedCost \in Int /\ lane.unackedItems \in Int
    BY <1>1, SessionFields, LaneFields
  <2>2. acked \in Session /\ s \in Session /\ ps \in [Pollers -> PollState]
    <3>1. acked \in Session
      BY <1>1, AckUnackedType, Zenon
    <3>. HIDE DEF acked
    <3>2. p \in Pollers \cup {NoPoller}
      OBVIOUS
    <3>. QED
      BY <1>1, <3>1, <3>2, LaneUpdates, SupersedeType, Zenon
  <2>3. /\ acked.closed = ses.closed
        /\ acked.lanes[0] = [lane EXCEPT !.unacked = <<>>, !.unackedCost = 0,
                                         !.unackedItems = 0]
    <3>. DEFINE r == ReleasePending(ses, lane.unackedCost, lane.unackedItems)
    <3>1. r \in Session /\ Untouched(ses, r)
      BY <1>1, <2>1, ReleasePendingType, BudgetUntouched, Zenon
    <3>2. r.lanes \in [LaneIds -> Lane]
      BY <3>1, SessionFields
    <3>. HIDE DEF r
    <3>. QED
      BY <1>1, <3>1, <3>2 DEF AckUnacked, r, Session, Untouched
  <2>4. /\ acked.lanes[0].present /\ acked.lanes[0].unacked = <<>>
        /\ acked.lanes[0].downCursor = lane.downCursor
    <3>. HIDE DEF acked
    <3>1. acked.lanes[0].present = lane.present
      BY <2>1, <2>3 DEF Lane
    <3>2. acked.lanes[0].unacked = <<>>
      BY <2>1, <2>3 DEF Lane
    <3>3. acked.lanes[0].downCursor = lane.downCursor
      BY <2>1, <2>3 DEF Lane
    <3>. QED
      BY <1>1, <3>1, <3>2, <3>3, Zenon
  <2>. HIDE DEF acked
  <2>5. /\ s.lanes[0].present /\ s.lanes[0].owner = p /\ s.lanes[0].unacked = <<>>
        /\ s.lanes[0].downCursor = lane.downCursor /\ s.closed = acked.closed
    <3>1. acked.lanes \in [LaneIds -> Lane] /\ acked.lanes[0] \in Lane
      BY <1>1, <2>2, SessionFields
    <3>. QED
      BY <1>1, <2>2, <2>4, <3>1 DEF Session, Lane
  <2>6. cursor = lane.downCursor
    BY <1>4 DEF IsAck
  <2>7. ps[p].cursor = cursor /\ ~ps[p].superseded
    BY DEF Supersede, NoPoll
  <2>8. ASSUME NEW q \in Pollers \ {p}, ps[q].pc \in {"parked", "woken"}
        PROVE  ps[q].superseded
    <3>1. CASE q = lane0.owner
      BY <1>1, <3>1 DEF Supersede, PollState
    <3>2. CASE q # lane0.owner
      <4>1. ps[q] = polls[q]
        BY <3>2 DEF Supersede
      <4>. QED
        BY <2>8, <3>2, <4>1, Waiting
    <3>. QED
      BY <3>1, <3>2
  <2>. HIDE DEF s, ps, lane
  <2>9. ~s.closed /\ ps[p].cursor = s.lanes[0].downCursor /\ TakeOrPark(s, ps, p)
    BY <1>4, <2>3, <2>5, <2>6, <2>7, Zenon DEF s, ps, acked
  <2>. QED
    BY <2>2, <2>5, <2>7, <2>8, <2>9, TakeOrParkStep, Zenon
<1>. QED
  BY <1>3, <1>4, Zenon DEF PollBegin

-----------------------------------------------------------------------------
LEMMA PollInvInit == Init => PollInv
<1>. SUFFICES ASSUME Init PROVE PollInv
  OBVIOUS
<1>1. TypeOK
  BY InitType
<1>2. ses = NewSession /\ polls = [p \in Pollers |-> NoPoll]
  BY DEF Init, BackendInit
<1>3. lane0 = NewLane
  BY <1>2, LaneZero DEF lane0, NewSession
<1>4. lane0.present /\ lane0.owner = NoPoller /\ lane0.unacked = <<>>
  BY <1>3 DEF NewLane, NoLane
<1>5. \A p \in Pollers : polls[p].pc = "idle"
  BY <1>2 DEF NoPoll
<1>. QED
  BY <1>1, <1>4, <1>5 DEF PollInv, PollOwnership, CursorSound, NoLostPollWakeup

LEMMA PollInvStep == PollInv /\ [Next]_vars => PollInv'
<1>. SUFFICES ASSUME PollInv, [Next]_vars PROVE PollInv'
  OBVIOUS
<1>1. TypeOK /\ lane0.present /\ TypeOK'
  BY StepType DEF PollInv
<1>2. ses \in Session
  BY <1>1, Zenon DEF TypeOK, BackendTypeOK
<1>3. ASSUME NEW u \in Uppers, UpStep(u) PROVE PollInv'
  <2>1. UNCHANGED polls
    BY <1>3, Zenon DEF UpStep, UpCommit, ApplyNothing, ApplyToNoStream, ApplyOpen, RejectOpen,
         ApplyData, ApplyWindow, ApplyClose, UpApplied, UpLaunch, UpCloses, UpReturns
  <2>. QED
    BY <1>1, <1>3, <2>1, UpQuietKept, UpCommitKept, UpAppliedKept, KeptStep, Zenon
       DEF Kept
<1>4. ASSUME NEW u \in Uppers, NEW q, NEW body, UpBegin(u, q, body) PROVE PollInv'
  <2>1. UNCHANGED polls
    BY <1>4, Zenon DEF UpBegin
  <2>. QED
    BY <1>1, <1>4, <2>1, UpBeginKept, KeptStep, Zenon
<1>5. ASSUME NEW id \in StreamIds, BackendNext(id) PROVE PollInv'
  BY <1>1, <1>5, BackendKept, KeptStep, Zenon DEF BackendNext, Kept
<1>6. CASE Close
  <2>1. DownKept(ses, ses')
    BY <1>1, <1>2, <1>6, CloseSessionKept, Zenon DEF Close, lane0, Kept
  <2>. QED
    BY <1>1, <1>6, <2>1, KeptStep, Zenon DEF Close
<1>7. CASE UNCHANGED vars
  <2>1. UNCHANGED <<ses, polls>>
    BY <1>7, Zenon DEF vars
  <2>2. DownKept(ses, ses')
    BY <2>1, UntouchedKept, Zenon DEF Untouched, Kept
  <2>. QED
    BY <1>1, <2>1, <2>2, KeptStep, Zenon
<1>8. ASSUME NEW p \in Pollers, PollStep(p) \/ PollCancelled(p) PROVE PollInv'
  BY <1>1, <1>8, PollWakesStep, PollEndStep, PollQuietStep, Zenon DEF PollStep
<1>9. ASSUME NEW p \in Pollers, NEW cursor \in 0 .. MaxCursor, PollBegin(p, cursor)
      PROVE  PollInv'
  BY <1>1, <1>9, PollBeginStep, Zenon
<1>. QED
  BY <1>3, <1>4, <1>5, <1>6, <1>7, <1>8, <1>9, Zenon DEF Next, System, Environment

LEMMA PollInvariant == Spec => []PollInv
BY PollInvInit, PollInvStep, PTL DEF Spec

(* The newest poll owns the downlink: whatever polls arrive, expire or are *)
(* cancelled, a waiting poll either owns the downlink with the session's   *)
(* cursor or has been told that it was superseded (Poll, session.go).      *)
THEOREM PollOwnershipHolds == Spec => []PollOwnership
<1>1. PollInv => PollOwnership
  BY Zenon DEF PollInv
<1>. QED
  BY <1>1, PollInvariant, PTL

(* No queued frame and no Close leaves the owning poll asleep: the token   *)
(* of s.notify is in the channel or with a poll that will pass it on.      *)
THEOREM NoLostPollWakeupHolds == Spec => []NoLostPollWakeup
<1>1. PollInv => NoLostPollWakeup
  BY Zenon DEF PollInv
<1>. QED
  BY <1>1, PollInvariant, PTL

(* The cursor of an unacknowledged batch and the one that acknowledges it  *)
(* differ by one, so a poll's cursor tells a resend from an acknowledgement. *)
THEOREM CursorSoundHolds == Spec => []CursorSound
<1>1. PollInv => CursorSound
  BY Zenon DEF PollInv
<1>. QED
  BY <1>1, PollInvariant, PTL

-----------------------------------------------------------------------------
(* One uplink request at a time.                                           *)

(* A handler moves without being admitted or dismissed.                    *)
LEMMA UpMoves ==
  ASSUME UplinkInv, UpsTypeOK, UplinkKept(ses, ses'), UNCHANGED locked,
         NEW u \in Uppers, NEW r, ups' = [ups EXCEPT ![u] = r],
         ups[u].pc = "parsing" <=> r.pc = "parsing",
         ups[u].pc \in Held <=> r.pc \in Held,
         r.pc \in Held \cup {"parsing"} => r.seq = ups[u].seq
  PROVE  UplinkInv'
<1>1. ups'[u] = r /\ \A v \in Uppers \ {u} : ups'[v] = ups[v]
  BY DEF UpsTypeOK
<1>2. \A v \in Uppers :
        /\ ups[v].pc = "parsing" <=> ups'[v].pc = "parsing"
        /\ ups[v].pc \in Held <=> ups'[v].pc \in Held
        /\ ups'[v].pc \in Held \cup {"parsing"} => ups'[v].seq = ups[v].seq
  BY <1>1
<1>3. LockHeld'
  BY <1>2, Zenon DEF LockHeld, UplinkInv
<1>4. SingleUplink'
  <2>1. /\ \A v \in Uppers : ups[v].pc \in Held \cup {"parsing"} =>
             /\ ups[v].seq = lane0.lastUpSequence + 1
             /\ \A w \in Uppers : ups[w].pc \in Held \cup {"parsing"} => w = v
        /\ lane0.upActive <=> \E v \in Uppers : ups[v].pc = "parsing"
    BY DEF UplinkInv, SingleUplink, Held
  <2>2. lane0'.upActive = lane0.upActive /\ lane0'.lastUpSequence = lane0.lastUpSequence
    BY DEF UplinkKept, lane0
  <2>. QED
    BY <1>2, <2>1, <2>2 DEF SingleUplink, Held
<1>. QED
  BY <1>3, <1>4 DEF UplinkInv

(* The admitted handler is dismissed.                                      *)
LEMMA UpDismissed ==
  ASSUME UplinkInv, UpsTypeOK, NEW u \in Uppers, NEW r, ups' = [ups EXCEPT ![u] = r],
         ups[u].pc \in Held \cup {"parsing"}, r.pc \notin Held \cup {"parsing"},
         ~lane0'.upActive, ~locked'
  PROVE  UplinkInv'
<1>1. ups'[u] = r /\ \A v \in Uppers \ {u} : ups'[v] = ups[v]
  BY DEF UpsTypeOK
<1>2. \A v \in Uppers : ups[v].pc \in Held \cup {"parsing"} => v = u
  BY DEF UplinkInv, SingleUplink, Held
<1>3. \A v \in Uppers : ups'[v].pc \notin Held \cup {"parsing"}
  BY <1>1, <1>2
<1>. QED
  BY <1>3 DEF UplinkInv, LockHeld, SingleUplink, Held

LEMMA UpQuiet ==
  ASSUME UplinkInv, UplinkKept(ses, ses'), UNCHANGED <<locked, ups>>
  PROVE  UplinkInv'
BY DEF UplinkInv, UplinkKept, LockHeld, SingleUplink, lane0

(* A handler that ends is neither admitted nor holding the mutex.          *)
LEMMA UpEndsAs ==
  ASSUME NEW u, NEW pc, pc \notin Held \cup {"parsing"}, UpEnds(u, pc)
  PROVE  \E r : ups' = [ups EXCEPT ![u] = r] /\ r.pc \notin Held \cup {"parsing"}
<1>1. [NoUp EXCEPT !.pc = pc].pc = pc
  BY DEF NoUp
<1>. QED
  BY <1>1, Zenon DEF UpEnds

LEMMA UpBeginUplink ==
  ASSUME TypeOK, UplinkInv, NEW u \in Uppers, NEW q \in Nat, NEW body, UpBegin(u, q, body)
  PROVE  UplinkInv'
<1>1. ses \in Session /\ UpsTypeOK /\ UplinkKept(ses, ses) /\ ups \in [Uppers -> UpState]
      /\ lane0.lastUpSequence \in Nat
  BY SessionFields, LaneZero, LaneFields, Zenon
     DEF TypeOK, BackendTypeOK, UplinkKept, UpsTypeOK, lane0
<1>2. ~locked /\ UNCHANGED locked /\ ups[u].pc = "idle"
  BY Zenon DEF UpBegin
<1>3. CASE UNCHANGED ses /\ \E pc \in {"failed", "acked", "failing", "retry"} : UpEnds(u, pc)
  <2>1. PICK r : ups' = [ups EXCEPT ![u] = r] /\ r.pc \notin Held \cup {"parsing"}
    <3>1. PICK pc \in {"failed", "acked", "failing", "retry"} : UpEnds(u, pc)
      BY <1>3
    <3>2. pc \notin Held \cup {"parsing"}
      BY <3>1 DEF Held
    <3>. QED
      BY <3>1, <3>2, UpEndsAs, Zenon
  <2>2. ups[u].pc \notin Held \cup {"parsing"}
    BY <1>2 DEF Held
  <2>3. UplinkKept(ses, ses')
    BY <1>1, <1>3, Zenon
  <2>4. /\ ups[u].pc = "parsing" <=> r.pc = "parsing"
        /\ ups[u].pc \in Held <=> r.pc \in Held
        /\ r.pc \in Held \cup {"parsing"} => r.seq = ups[u].seq
    BY <2>1, <2>2
  <2>. QED
    BY <1>1, <1>2, <2>1, <2>3, <2>4, UpMoves, Zenon
<1>4. CASE /\ ~IsRetry(q) /\ IsNext(q) /\ ~lane0.upActive
           /\ ups' = [ups EXCEPT ![u] = [NoUp EXCEPT !.pc = "parsing", !.seq = q, !.body = body]]
           /\ ses' = [ses EXCEPT !.lanes[0].upActive = TRUE]
  <2>1. lane0'.upActive /\ lane0'.lastUpSequence = lane0.lastUpSequence
    <3>1. ses'.lanes[0].upActive = TRUE
          /\ ses'.lanes[0].lastUpSequence = ses.lanes[0].lastUpSequence
      <4>1. ses.lanes \in [LaneIds -> Lane] /\ ses.lanes[0] \in Lane /\ 0 \in LaneIds
        BY <1>1, SessionFields, LaneZero
      <4>. QED
        BY <1>1, <1>4, <4>1 DEF Session, Lane
    <3>. QED
      BY <3>1 DEF lane0
  <2>2. /\ ups'[u].pc = "parsing" /\ ups'[u].seq = q
        /\ \A v \in Uppers \ {u} : ups'[v] = ups[v]
    BY <1>1, <1>4 DEF NoUp
  <2>3. \A v \in Uppers : ups[v].pc \notin Held \cup {"parsing"}
    BY <1>2, <1>4 DEF UplinkInv, LockHeld, SingleUplink
  <2>4. q = lane0.lastUpSequence + 1
    BY <1>4 DEF IsNext
  <2>5. LockHeld'
    BY <1>2, <2>2, <2>3 DEF LockHeld, Held
  <2>6. SingleUplink'
    BY <2>1, <2>2, <2>3, <2>4 DEF SingleUplink, Held
  <2>. QED
    BY <2>5, <2>6 DEF UplinkInv
<1>. QED
  BY <1>3, <1>4, Zenon DEF UpBegin

LEMMA UpCommitUplink ==
  ASSUME TypeOK, UplinkInv, NEW u \in Uppers, UpCommit(u)
  PROVE  UplinkInv'
<1>1. ~lane0'.upActive /\ lane0'.lastUpSequence = lane0.lastUpSequence
  BY UpCommitKept
<1>2. ~locked /\ ups[u].pc = "parsing" /\ ups[u].pc \in Held \cup {"parsing"}
  BY Zenon DEF UpCommit
<1>3. UpsTypeOK /\ ups \in [Uppers -> UpState]
  BY DEF TypeOK, UpsTypeOK
<1>4. CASE UNCHANGED locked /\ \E pc \in {"failed", "failing", "retry"} : UpEnds(u, pc)
  <2>1. PICK r : ups' = [ups EXCEPT ![u] = r] /\ r.pc \notin Held \cup {"parsing"}
    <3>1. PICK pc \in {"failed", "failing", "retry"} : UpEnds(u, pc)
      BY <1>4
    <3>2. pc \notin Held \cup {"parsing"}
      BY <3>1 DEF Held
    <3>. QED
      BY <3>1, <3>2, UpEndsAs, Zenon
  <2>2. ~locked'
    BY <1>2, <1>4, Zenon
  <2>. QED
    BY <1>1, <1>2, <1>3, <2>1, <2>2, UpDismissed, Zenon
<1>5. CASE /\ locked' = TRUE
           /\ \E c, i : ups' = [ups EXCEPT ![u].pc = "applying", ![u].k = 1,
                                           ![u].cost = c, ![u].items = i]
  <2>1. /\ ups'[u].pc = "applying" /\ ups'[u].seq = ups[u].seq
        /\ \A v \in Uppers \ {u} : ups'[v] = ups[v]
    <3>1. PICK c, i : ups' = [ups EXCEPT ![u].pc = "applying", ![u].k = 1,
                                         ![u].cost = c, ![u].items = i]
      BY <1>5
    <3>. QED
      BY <1>3, <3>1 DEF UpState
  <2>2. /\ \A v \in Uppers : ups[v].pc \in Held \cup {"parsing"} => v = u
        /\ ups[u].seq = lane0.lastUpSequence + 1
    BY <1>2 DEF UplinkInv, SingleUplink, Held
  <2>3. LockHeld'
    BY <1>5, <2>1 DEF LockHeld, Held
  <2>4. SingleUplink'
    BY <1>1, <2>1, <2>2 DEF SingleUplink, Held
  <2>. QED
    BY <2>3, <2>4 DEF UplinkInv
<1>. QED
  BY <1>4, <1>5, Zenon DEF UpCommit

(* The handler that holds the mutex is the only one admitted.              *)
LEMMA HolderAlone ==
  ASSUME UplinkInv, NEW u \in Uppers, ups[u].pc \in Held
  PROVE  ~lane0.upActive
<1>1. \A v \in Uppers : ups[v].pc = "parsing" => v = u
  BY DEF UplinkInv, SingleUplink, Held
<1>. QED
  BY <1>1 DEF UplinkInv, SingleUplink, Held

LEMMA ApplyUplink ==
  ASSUME TypeOK, UplinkInv, NEW u \in Uppers, UplinkKept(ses, ses'),
         \/ ApplyNothing(u) \/ ApplyToNoStream(u) \/ ApplyOpen(u) \/ RejectOpen(u)
         \/ ApplyData(u) \/ ApplyWindow(u) \/ ApplyClose(u)
  PROVE  UplinkInv'
<1>1. UpsTypeOK /\ ups \in [Uppers -> UpState]
  BY DEF TypeOK, UpsTypeOK
<1>2. ups[u].pc = "applying" /\ ups[u].pc \in Held
  BY DEF ApplyNothing, ApplyToNoStream, ApplyOpen, RejectOpen, ApplyData, ApplyWindow,
         ApplyClose, Applying, Held
<1>3. CASE /\ UNCHANGED locked
           /\ \E r : /\ ups' = [ups EXCEPT ![u] = r]
                     /\ r.pc \in Held /\ r.seq = ups[u].seq
  <2>1. PICK r : ups' = [ups EXCEPT ![u] = r] /\ r.pc \in Held /\ r.seq = ups[u].seq
    BY <1>3
  <2>2. /\ ups[u].pc = "parsing" <=> r.pc = "parsing"
        /\ ups[u].pc \in Held <=> r.pc \in Held
    BY <1>2, <2>1 DEF Held
  <2>. QED
    BY <1>1, <1>3, <2>1, <2>2, UpMoves, Zenon
<1>4. CASE /\ locked' = FALSE
           /\ ups' = [ups EXCEPT ![u].pc = "launching", ![u].cost = 0, ![u].items = 0]
  <2>. DEFINE r == [ups[u] EXCEPT !.pc = "launching", !.cost = 0, !.items = 0]
  <2>1. ups' = [ups EXCEPT ![u] = r]
    BY <1>1, <1>4
  <2>2. r.pc \notin Held \cup {"parsing"}
    BY <1>1 DEF UpState, Held
  <2>3. ~lane0'.upActive
    BY <1>2, HolderAlone, Zenon DEF UplinkKept, lane0
  <2>4. ups[u].pc \in Held \cup {"parsing"} /\ ~locked'
    BY <1>2, <1>4
  <2>. HIDE DEF r
  <2>. QED
    BY <1>1, <2>1, <2>2, <2>3, <2>4, UpDismissed, Zenon
<1>5. CASE NextFrame(u) /\ UNCHANGED locked
  <2>1. ups' = [ups EXCEPT ![u] = [ups[u] EXCEPT !.k = @ + 1]]
    BY <1>1, <1>5 DEF NextFrame
  <2>2. /\ [ups[u] EXCEPT !.k = @ + 1].pc \in Held
        /\ [ups[u] EXCEPT !.k = @ + 1].seq = ups[u].seq
    BY <1>1, <1>2 DEF UpState
  <2>. QED
    BY <1>3, <1>5, <2>1, <2>2, Zenon
<1>6. CASE ApplyNothing(u) \/ ApplyWindow(u)
  BY <1>5, <1>6, Zenon DEF ApplyNothing, ApplyWindow
<1>7. CASE RejectOpen(u)
  BY <1>4, <1>5, <1>7, Zenon DEF RejectOpen
<1>8. CASE ApplyToNoStream(u)
  <2>1. ups' = [ups EXCEPT ![u] = [ups[u] EXCEPT !.pc = "panicked"]]
    BY <1>1, <1>8 DEF ApplyToNoStream
  <2>2. /\ [ups[u] EXCEPT !.pc = "panicked"].pc \in Held
        /\ [ups[u] EXCEPT !.pc = "panicked"].seq = ups[u].seq
    BY <1>1 DEF UpState, Held
  <2>. QED
    BY <1>3, <1>8, <2>1, <2>2, Zenon DEF ApplyToNoStream
<1>9. CASE \/ ApplyOpen(u) \/ ApplyData(u) \/ ApplyClose(u)
  <2>1. UNCHANGED locked
    BY <1>9, Zenon DEF ApplyOpen, ApplyData, ApplyClose
  <2>2. PICK r : ups' = [ups EXCEPT ![u] = r] /\ r.pc = ups[u].pc /\ r.seq = ups[u].seq
    <3>1. CASE ApplyOpen(u)
      <4>. DEFINE r == [ups[u] EXCEPT !.k = @ + 1, !.toStart = @ \cup {Current(u).id}]
      <4>1. ups' = [ups EXCEPT ![u] = r]
        BY <1>1, <3>1 DEF ApplyOpen
      <4>2. r.pc = ups[u].pc /\ r.seq = ups[u].seq
        BY <1>1 DEF UpState
      <4>. QED
        BY <4>1, <4>2, Zenon
    <3>2. CASE ApplyData(u)
      <4>1. PICK c, i : ups' = [ups EXCEPT ![u].k = @ + 1, ![u].cost = @ - c, ![u].items = @ - i]
        BY <3>2, Zenon DEF ApplyData
      <4>. DEFINE r == [ups[u] EXCEPT !.k = @ + 1, !.cost = @ - c, !.items = @ - i]
      <4>2. ups' = [ups EXCEPT ![u] = r]
        BY <1>1, <4>1
      <4>3. r.pc = ups[u].pc /\ r.seq = ups[u].seq
        BY <1>1 DEF UpState
      <4>. QED
        BY <4>2, <4>3, Zenon
    <3>3. CASE ApplyClose(u)
      <4>. DEFINE r == [ups[u] EXCEPT !.k = @ + 1, !.toStop = @ \cup {Current(u).id}]
      <4>1. ups' = [ups EXCEPT ![u] = r]
        BY <1>1, <3>3 DEF ApplyClose
      <4>2. r.pc = ups[u].pc /\ r.seq = ups[u].seq
        BY <1>1 DEF UpState
      <4>. QED
        BY <4>1, <4>2, Zenon
    <3>. QED
      BY <1>9, <3>1, <3>2, <3>3
  <2>. QED
    BY <1>2, <1>3, <2>1, <2>2
<1>. QED
  BY <1>6, <1>7, <1>8, <1>9

LEMMA UpEndUplink ==
  ASSUME TypeOK, UplinkInv, NEW u \in Uppers, UplinkKept(ses, ses'),
         UpLaunch(u) \/ UpCloses(u) \/ UpReturns(u)
  PROVE  UplinkInv'
<1>1. UpsTypeOK /\ UNCHANGED locked
  BY Zenon DEF TypeOK, UpLaunch, UpCloses, UpReturns
<1>2. ups[u].pc \notin Held \cup {"parsing"}
  BY DEF UpLaunch, UpCloses, UpReturns, Held
<1>3. PICK r : ups' = [ups EXCEPT ![u] = r] /\ r.pc \notin Held \cup {"parsing"}
  <2>1. {"acked", "closing", "failed"} \cap (Held \cup {"parsing"}) = {}
    BY DEF Held
  <2>2. CASE \E pc \in {"acked", "closing", "failed"} : UpEnds(u, pc)
    <3>1. PICK pc \in {"acked", "closing", "failed"} : UpEnds(u, pc)
      BY <2>2
    <3>2. pc \notin Held \cup {"parsing"}
      BY <2>1, <3>1
    <3>. QED
      BY <3>1, <3>2, UpEndsAs, Zenon
  <2>3. CASE UpReturns(u)
    <3>1. NoUp.pc \notin Held \cup {"parsing"}
      BY DEF NoUp, Held
    <3>. QED
      BY <2>3, <3>1, Zenon DEF UpReturns
  <2>. QED
    BY <2>2, <2>3, Zenon DEF UpLaunch, UpCloses
<1>4. /\ ups[u].pc = "parsing" <=> r.pc = "parsing"
      /\ ups[u].pc \in Held <=> r.pc \in Held
      /\ r.pc \in Held \cup {"parsing"} => r.seq = ups[u].seq
  BY <1>2, <1>3
<1>. QED
  BY <1>1, <1>3, <1>4, UpMoves, Zenon

LEMMA UpAppliedUplink ==
  ASSUME TypeOK, UplinkInv, NEW u \in Uppers, UpApplied(u)
  PROVE  UplinkInv'
<1>1. UpsTypeOK /\ ups \in [Uppers -> UpState] /\ ups[u].pc = "applying"
  BY Zenon DEF TypeOK, UpsTypeOK, UpApplied
<1>. DEFINE r == [ups[u] EXCEPT !.pc = "launching", !.applied = TRUE, !.cost = 0, !.items = 0]
<1>2. ups' = [ups EXCEPT ![u] = r]
  BY <1>1 DEF UpApplied
<1>3. r.pc \notin Held \cup {"parsing"}
  BY <1>1 DEF UpState, Held
<1>4. ups[u].pc \in Held /\ ups[u].pc \in Held \cup {"parsing"} /\ ~locked'
  BY <1>1 DEF Held, UpApplied
<1>5. ~lane0'.upActive
  BY <1>4, HolderAlone, UpAppliedKept, Zenon
<1>. HIDE DEF r
<1>. QED
  BY <1>1, <1>2, <1>3, <1>4, <1>5, UpDismissed, Zenon

LEMMA PollUplinkKept ==
  ASSUME PollInv, NEW p \in Pollers,
         \/ PollStep(p) \/ PollCancelled(p) \/ \E cursor \in 0 .. MaxCursor : PollBegin(p, cursor)
  PROVE  UplinkKept(ses, ses') /\ UNCHANGED <<locked, ups>>
<1>1. UNCHANGED <<locked, ups>>
  BY Zenon DEF PollStep, PollWakes, PollResumes, PollSuperseded, PollExpires, PollCloses,
               PollReturns, PollCancelled, PollBegin
<1>2. ses \in Session /\ ses.lanes[0].present /\ UplinkKept(ses, ses) /\ 0 \in LaneIds
  BY LaneZero, Zenon DEF PollInv, TypeOK, BackendTypeOK, UplinkKept, lane0
<1>3. ASSUME NEW s \in Session, NEW ps, TakeOrPark(s, ps, p) PROVE UplinkKept(s, ses')
  <2>1. s.lanes \in [LaneIds -> Lane] /\ s.lanes[0] \in Lane
    BY <1>2, SessionFields
  <2>2. CASE ses' = s
    BY <2>2, Zenon DEF UplinkKept
  <2>3. CASE \E k : ses' = TakenBy(s, ps[p].cursor, k)
    <3>1. PICK k : ses' = TakenBy(s, ps[p].cursor, k)
      BY <2>3
    <3>. DEFINE lane == s.lanes[0]
                new == TakeBatch(lane, k, ps[p].cursor)
    <3>2. new.upActive = lane.upActive /\ new.lastUpSequence = lane.lastUpSequence
      BY <2>1 DEF TakeBatch, Lane
    <3>. HIDE DEF new
    <3>3. ses'.lanes[0] = new
      BY <1>2, <2>1, <3>1 DEF TakenBy, new, Session
    <3>. QED
      BY <3>2, <3>3 DEF UplinkKept
  <2>. QED
    BY <1>3, <2>2, <2>3, Zenon DEF TakeOrPark
<1>4. ASSUME NEW s \in Session
      PROVE  /\ UplinkKept(s, Signalled(s))
             /\ UplinkKept(s, [s EXCEPT !.lanes[0].notify = FALSE])
             /\ \A o : UplinkKept(s, [s EXCEPT !.lanes[0].owner = o])
  <2>1. s.lanes \in [LaneIds -> Lane] /\ s.lanes[0] \in Lane
    BY <1>2, SessionFields
  <2>2. UplinkKept(s, Signalled(s))
    BY <1>2, <2>1 DEF UplinkKept, Signalled, Session, Lane
  <2>3. UplinkKept(s, [s EXCEPT !.lanes[0].notify = FALSE])
    BY <1>2, <2>1 DEF UplinkKept, Session, Lane
  <2>4. ASSUME NEW o PROVE UplinkKept(s, [s EXCEPT !.lanes[0].owner = o])
    BY <1>2, <2>1 DEF UplinkKept, Session, Lane
  <2>. QED
    BY <2>2, <2>3, <2>4
<1>5. UplinkKept(ses, CloseSession(ses)) /\ UplinkKept(ses, Disown(ses, p))
  BY <1>2, <1>4, CloseSessionKept, Zenon DEF Kept, Disown
<1>6. CASE PollStep(p) \/ PollCancelled(p)
  BY <1>2, <1>3, <1>4, <1>5, <1>6, Zenon
     DEF PollStep, PollWakes, PollResumes, PollSuperseded, PollExpires, PollCloses,
         PollReturns, PollCancelled
<1>7. CASE \E cursor \in 0 .. MaxCursor : PollBegin(p, cursor)
  <2>1. PICK cursor \in 0 .. MaxCursor : PollBegin(p, cursor)
    BY <1>7
  <2>. DEFINE acked == AckUnacked(ses, 0)
  <2>2. acked \in Session /\ UplinkKept(ses, acked)
    <3>1. acked \in Session
      BY <1>2, AckUnackedType, Zenon
    <3>. DEFINE lane == ses.lanes[0]
                r == ReleasePending(ses, lane.unackedCost, lane.unackedItems)
    <3>2. lane \in Lane /\ lane.unackedCost \in Int /\ lane.unackedItems \in Int
      BY <1>2, SessionFields, LaneFields
    <3>3. r \in Session
      BY <1>2, <3>2, ReleasePendingType, Zenon
    <3>4. r.lanes \in [LaneIds -> Lane]
      BY <3>3, SessionFields
    <3>. HIDE DEF r
    <3>5. acked.lanes[0] = [lane EXCEPT !.unacked = <<>>, !.unackedCost = 0, !.unackedItems = 0]
      BY <1>2, <3>3, <3>4 DEF AckUnacked, r, Session
    <3>. HIDE DEF acked
    <3>6. UplinkKept(ses, acked)
      BY <3>2, <3>5 DEF UplinkKept, Lane
    <3>. QED
      BY <3>1, <3>6 DEF acked
  <2>. HIDE DEF acked
  <2>3. p \in Pollers \cup {NoPoller}
    OBVIOUS
  <2>4. /\ [acked EXCEPT !.lanes[0].owner = p] \in Session
        /\ UplinkKept(ses, [acked EXCEPT !.lanes[0].owner = p])
    BY <1>4, <2>2, <2>3, LaneUpdates, Zenon DEF UplinkKept
  <2>5. \/ ses' = ses
        \/ TakeOrPark([acked EXCEPT !.lanes[0].owner = p], Supersede(polls, p, cursor), p)
    BY <2>1, Zenon DEF PollBegin, acked
  <2>. DEFINE s == [acked EXCEPT !.lanes[0].owner = p]
  <2>. HIDE DEF s
  <2>6. TakeOrPark(s, Supersede(polls, p, cursor), p) => UplinkKept(s, ses')
    BY <1>3, <2>4, Zenon DEF s
  <2>7. UplinkKept(ses, ses')
    BY <1>2, <2>4, <2>5, <2>6, Zenon DEF UplinkKept, s
  <2>. QED
    BY <1>1, <2>7, Zenon
<1>. QED
  BY <1>1, <1>6, <1>7, Zenon

LEMMA UplinkInvInit == Init => UplinkInv
<1>. SUFFICES ASSUME Init PROVE UplinkInv
  OBVIOUS
<1>1. ses = NewSession /\ ~locked /\ \A u \in Uppers : ups[u].pc = "idle"
  BY DEF Init, BackendInit, NoUp
<1>2. ~lane0.upActive
  BY <1>1, LaneZero DEF lane0, NewSession, NewLane, NoLane
<1>. QED
  BY <1>1, <1>2 DEF UplinkInv, LockHeld, SingleUplink, Held

LEMMA UplinkInvStep == PollInv /\ UplinkInv /\ [Next]_vars => UplinkInv'
<1>. SUFFICES ASSUME PollInv, UplinkInv, [Next]_vars PROVE UplinkInv'
  OBVIOUS
<1>1. TypeOK /\ lane0.present /\ UpsTypeOK /\ ses \in Session /\ UplinkKept(ses, ses)
  BY Zenon DEF PollInv, TypeOK, BackendTypeOK, UplinkKept
<1>2. ASSUME NEW u \in Uppers, UpStep(u) PROVE UplinkInv'
  <2>1. CASE UpCommit(u) \/ UpApplied(u)
    BY <1>1, <2>1, UpCommitUplink, UpAppliedUplink, Zenon
  <2>2. CASE ~UpCommit(u) /\ ~UpApplied(u)
    <3>1. UplinkKept(ses, ses')
      BY <1>1, <1>2, <2>2, UpQuietKept, Zenon DEF Kept
    <3>. QED
      BY <1>1, <1>2, <2>2, <3>1, ApplyUplink, UpEndUplink, Zenon DEF UpStep
  <2>. QED
    BY <2>1, <2>2, Zenon
<1>3. ASSUME NEW u \in Uppers, NEW q \in 0 .. MaxSeq, NEW body, UpBegin(u, q, body)
      PROVE  UplinkInv'
  <2>1. q \in Nat
    BY MuxAssumption
  <2>. QED
    BY <1>1, <1>3, <2>1, UpBeginUplink, Zenon
<1>4. ASSUME NEW id \in StreamIds, BackendNext(id) PROVE UplinkInv'
  <2>1. UplinkKept(ses, ses')
    BY <1>1, <1>4, BackendKept, Zenon DEF BackendNext, Kept
  <2>2. UNCHANGED <<locked, ups>>
    BY <1>4, Zenon DEF BackendNext, BackendStep, Dialled, DialFailed, LoopsReturned,
         BackendClosed, NextWrite, WriterWakes, WriterStops, Write, WriteFails, WriteFinished,
         NextRead, CreditWakesReader, BudgetWakesReader, ReaderStops, Read, ReadEnds
  <2>. QED
    BY <2>1, <2>2, UpQuiet
<1>5. CASE Close
  <2>1. UplinkKept(ses, ses')
    BY <1>1, <1>5, CloseSessionKept, Zenon DEF Close, lane0, Kept
  <2>. QED
    BY <1>5, <2>1, UpQuiet, Zenon DEF Close
<1>6. CASE UNCHANGED vars
  BY <1>1, <1>6, UpQuiet, Zenon DEF vars, UplinkKept
<1>7. ASSUME NEW p \in Pollers,
             \/ PollStep(p) \/ PollCancelled(p)
             \/ \E cursor \in 0 .. MaxCursor : PollBegin(p, cursor)
      PROVE  UplinkInv'
  BY <1>7, PollUplinkKept, UpQuiet, Zenon
<1>. QED
  BY <1>2, <1>3, <1>4, <1>5, <1>6, <1>7, Zenon DEF Next, System, Environment

(* Only one uplink request is between its admission and its commit, and it *)
(* carries the next sequence, although ProcessUp parses a body without the *)
(* mutex and any number of requests may arrive meanwhile.                  *)
THEOREM SingleUplinkHolds == Spec => []SingleUplink
<1>1. UplinkInv => SingleUplink
  BY Zenon DEF UplinkInv
<1>. QED
  BY <1>1, UplinkInvInit, UplinkInvStep, PollInvariant, PTL DEF Spec

=============================================================================
