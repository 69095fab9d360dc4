---------------------------- MODULE UplinkBatch ----------------------------
(***************************************************************************)
(* How a session reads the frames of one uplink body: validation, the      *)
(* reservation of its writes, and the queue of a backend's writes.         *)
(* ProcessUp and ProcessUpLane share them.                                 *)
(***************************************************************************)
EXTENDS SessionCore

(* Validation of the k-th frame looks at the frames before it.             *)
ClosedBefore(s, body, k) ==
  \/ WasClosed(s, body[k].id)
  \/ \E j \in 1 .. k - 1 : body[j].id = body[k].id /\ body[j].type = "CLOSE"

OpenBefore(s, body, k) ==
  \/ s.streams[body[k].id].live
  \/ \E j \in 1 .. k - 1 : body[j].id = body[k].id /\ body[j].type = "OPEN"

(* The bytes of DATA the first k frames of the body carry for a stream.    *)
DataUpTo(body, k, id) ==
  PrefixSums([j \in 1 .. Len(body) |->
                IF body[j].type = "DATA" /\ body[j].id = id THEN body[j].n ELSE 0])[k]

WindowAtStart(s, id) ==
  IF s.streams[id].live THEN s.streams[id].receiveWindow ELSE InitialStreamWindow

ValidFrame_reopens(s, body, k) ==
  LET f == body[k]
  IN  \/ f.id = 0 /\ f.type = "PONG"
      \/ f.id # 0 /\ f.type = "OPEN" /\ ~OpenBefore(s, body, k)
      \/ /\ f.id # 0
         /\ f.type \in {"DATA", "WINDOW", "CLOSE"}
         /\ \/ ClosedBefore(s, body, k)
            \/ /\ OpenBefore(s, body, k)
               /\ f.type = "DATA" => DataUpTo(body, k, f.id) <= WindowAtStart(s, f.id)

(* validateBatchLocked: the k-th frame of the body, given the frames       *)
(* before it passed.                                                       *)
ValidFrame(s, body, k) ==
  LET f == body[k]
  IN  \/ f.id = 0 /\ f.type = "PONG"
      \/ /\ f.id # 0
         /\ f.type = "OPEN"
         /\ ~OpenBefore(s, body, k) /\ ~ClosedBefore(s, body, k)
      \/ /\ f.id # 0
         /\ f.type \in {"DATA", "WINDOW", "CLOSE"}
         /\ \/ ClosedBefore(s, body, k)
            \/ /\ OpenBefore(s, body, k)
               /\ f.type = "DATA" => DataUpTo(body, k, f.id) <= WindowAtStart(s, f.id)

ValidBatch(s, body) == \A k \in 1 .. Len(body) : ValidFrame(s, body, k)

(* backendWriteReservationLocked: every DATA frame of a stream that is     *)
(* live when the frame comes up is charged as an item of its own.          *)
IsWrite(s, body, k) ==
  /\ body[k].type = "DATA"
  /\ body[k].id # 0
  /\ OpenBefore(s, body, k)
  /\ ~\E j \in 1 .. k - 1 : body[j].id = body[k].id /\ body[j].type = "CLOSE"

WriteCost(s, body) ==
  Total([k \in 1 .. Len(body) |->
           IF IsWrite(s, body, k) THEN body[k].n + QueueItemCost ELSE 0])

WriteItems(s, body) ==
  Total([k \in 1 .. Len(body) |-> IF IsWrite(s, body, k) THEN 1 ELSE 0])

-----------------------------------------------------------------------------
(* appendBackendWriteLocked: a payload joins the last queued write if the  *)
(* two fit one chunk; the cost of the saved item stays in the reservation. *)
Coalesces(stream, n) ==
  /\ stream.writes # <<>>
  /\ stream.writes[Len(stream.writes)] + n <= DataChunk

WritesWith_inFront(stream, n) == <<n>> \o stream.writes

WritesWith(stream, n) ==
  IF Coalesces(stream, n)
  THEN [stream.writes EXCEPT ![Len(stream.writes)] = @ + n]
  ELSE Append(stream.writes, n)

WriteQueued_unsignalled(stream, n) ==
  LET items == IF Coalesces(stream, n) THEN 0 ELSE 1
  IN  [stream EXCEPT !.writes = WritesWith(stream, n),
                     !.pendingWriteBytes = @ + n,
                     !.pendingWriteCost = @ + n + items * QueueItemCost,
                     !.pendingWriteItems = @ + items,
                     !.receiveWindow = Minus32(@, n)]

WriteQueued(stream, n) ==
  LET items == IF Coalesces(stream, n) THEN 0 ELSE 1
  IN  [stream EXCEPT !.writes = WritesWith(stream, n),
                     !.pendingWriteBytes = @ + n,
                     !.pendingWriteCost = @ + n + items * QueueItemCost,
                     !.pendingWriteItems = @ + items,
                     !.receiveWindow = Minus32(@, n),
                     !.writeNotify = TRUE]

=============================================================================
