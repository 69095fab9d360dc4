------------------------------ MODULE MuxSafety ------------------------------
(***************************************************************************)
(* What a multiplexed session guarantees, whatever its clients send and in *)
(* whatever order its goroutines run.                                      *)
(***************************************************************************)
EXTENDS MuxSession

stream(id) == ses.streams[id]

(* The handler that holds the mutex to apply its body, if there is one,    *)
(* still owns the part of its reservation it has not turned into writes.   *)
Holder == {u \in Uppers : ups[u].pc \in {"applying", "panicked"}}

HeldCost == IF Holder = {} THEN 0 ELSE ups[CHOOSE u \in Holder : TRUE].cost

HeldItems == IF Holder = {} THEN 0 ELSE ups[CHOOSE u \in Holder : TRUE].items

(* Every byte and item charged to the session belongs to a queued frame,   *)
(* to the unacknowledged batch, to a write queued for a backend or to the  *)
(* body being applied, and to nothing twice.  releasePendingLocked panics  *)
(* when this is violated downwards; upwards the budget leaks.              *)
Accounting ==
  /\ ses.pendingCost = Total(Costs(lane0.frames)) + lane0.unackedCost
                       + Total([id \in StreamIds |-> stream(id).pendingWriteCost])
                       + HeldCost
  /\ ses.pendingItems = Len(lane0.frames) + lane0.unackedItems
                        + Total([id \in StreamIds |-> stream(id).pendingWriteItems])
                        + HeldItems
  /\ lane0.unackedCost = Total(Costs(lane0.unacked))
  /\ lane0.unackedItems = Len(lane0.unacked)

(* While its write loop runs, a live stream's queue accounts for the bytes *)
(* the client has sent and the backend has not taken: the receive window   *)
(* is short of exactly those, and cost and items follow from them.         *)
InHand(id) == IF backends[id].writer = "write" THEN backends[id].inHand ELSE 0

WritesInHand(id) == IF backends[id].writer \in {"write", "finish"} THEN 1 ELSE 0

WindowConserved ==
  \A id \in LiveStreams(ses) :
    /\ stream(id).receiveWindow + stream(id).pendingWriteBytes = InitialStreamWindow
    /\ stream(id).pendingWriteCost =
         stream(id).pendingWriteBytes + QueueItemCost * stream(id).pendingWriteItems
    /\ backends[id].writer # "exit" =>
         /\ stream(id).pendingWriteBytes = Total(stream(id).writes) + InHand(id)
         /\ stream(id).pendingWriteItems = Len(stream(id).writes) + WritesInHand(id)

(* Merging a WINDOW delta reaches the newest queued WINDOW of its stream,  *)
(* across every batch a poll takes from the front of the queue.            *)
WindowIndexSound == WindowsIndexed(lane0)

(* A parked poll that owns the downlink will be woken for what is queued:  *)
(* the token is in the channel or with a superseded poll that returns it.  *)
NoLostPollWakeup ==
  LET p == lane0.owner
  IN  p # NoPoller /\ polls[p].pc = "parked" /\ (lane0.frames # <<>> \/ ses.closed)
        => lane0.notify \/ \E q \in Pollers : polls[q].pc = "woken"

(* A parked write loop is woken for queued writes.                         *)
NoLostWriterWakeup ==
  \A id \in StreamIds :
    backends[id].writer = "wait" /\ Live(id) /\ stream(id).writes # <<>>
      => stream(id).writeNotify

(* A parked read loop is woken once it has both credit and budget.         *)
NoLostReaderWakeup ==
  \A id \in StreamIds :
    backends[id].reader = "wait" /\ Live(id) /\ ReadAllowance(ses, id) # 0
      => stream(id).creditNotify \/ id \notin ses.budgetWaiters

(* The newest poll owns the downlink: a waiting poll either owns it, and   *)
(* its cursor is the session's, or has been told that it was superseded.   *)
PollOwnership ==
  /\ \A p \in Pollers :
       polls[p].pc \in {"parked", "woken"} => (polls[p].superseded <=> lane0.owner # p)
  /\ lane0.owner # NoPoller =>
       /\ polls[lane0.owner].pc \in {"parked", "woken"}
       /\ polls[lane0.owner].cursor = lane0.downCursor
       /\ lane0.unacked = <<>>

(* The client can tell a batch it has from the one it has not.             *)
CursorSound ==
  lane0.unacked # <<>> => lane0.downCursor = lane0.unackedBase + 1

(* Nothing follows the CLOSE of a stream on the downlink, and the stream   *)
(* is not live any more.                                                   *)
CloseIsLast ==
  LET line == lane0.unacked \o lane0.frames
  IN  \A k \in 1 .. Len(line) :
        line[k].type = "CLOSE" =>
          /\ ~stream(line[k].id).live
          /\ \A j \in k + 1 .. Len(line) : line[j].id # line[k].id

(* upActive means that one request is being parsed; whatever other         *)
(* requests arrive meanwhile, what is committed next is the next sequence. *)
SingleUplink ==
  LET admitted == {u \in Uppers : ups[u].pc \in {"parsing", "applying", "panicked"}}
  IN  /\ \A u \in admitted :
           /\ ups[u].seq = lane0.lastUpSequence + 1
           /\ \A v \in admitted : v = u
      /\ lane0.upActive <=> \E u \in Uppers : ups[u].pc = "parsing"

(* Every backend whose stream has left the session is cancelled, or the    *)
(* handler that will cancel it is on its way; a live stream has a backend  *)
(* that will report its end.                                               *)
NoOrphanBackend ==
  \A id \in StreamIds :
    /\ backends[id].run \in {"opened", "dialing", "streaming"} /\ ~Live(id) =>
         Cancelled(id) \/ \E u \in Uppers : id \in ups[u].toStop
    /\ Live(id) => backends[id].run \notin {"none", "done"}
    /\ backends[id].run = "opened" => \E u \in Uppers : id \in ups[u].toStart

(* A stream is live or remembered as closed, never both.                   *)
TombstonesAreDead ==
  /\ \A k \in 1 .. Len(ses.closedOrder) : ~stream(ses.closedOrder[k]).live
  /\ \A j, k \in 1 .. Len(ses.closedOrder) :
       ses.closedOrder[j] = ses.closedOrder[k] => j = k
  /\ Len(ses.closedOrder) <= MaxClosedStreamIDs

-----------------------------------------------------------------------------
(* What a step may do to the downlink.  Frames join the end of the queue   *)
(* or grow in place, and the batch that is out keeps its cursors; or the   *)
(* queue moves up and its front becomes the next batch.                    *)
Extends(new, old) ==
  /\ Len(new) >= Len(old)
  /\ \A k \in 1 .. Len(old) :
       new[k].type = old[k].type /\ new[k].id = old[k].id /\ new[k].n >= old[k].n

KeepsBatch ==
  /\ lane0'.unacked = lane0.unacked
  /\ lane0'.unackedBase = lane0.unackedBase /\ lane0'.downCursor = lane0.downCursor
  /\ Extends(lane0'.frames, lane0.frames)

(* A poll comes that asks for what follows the batch that is out: it waits *)
(* with that cursor, or is answered with a batch that starts there.        *)
Acknowledges(p) ==
  /\ polls[p].pc = "idle"
  /\ \/ polls[p]'.pc = "parked" /\ polls[p]'.cursor = lane0.downCursor
     \/ polls[p]'.pc = "batch" /\ lane0'.unackedBase = lane0.downCursor

MovesUp ==
  /\ lane0'.unacked \o lane0'.frames = lane0.frames
  /\ lane0.unacked # <<>> => \E p \in Pollers : Acknowledges(p)
  /\ lane0'.unacked # <<>> => /\ lane0'.unackedBase = lane0.downCursor
                             /\ lane0'.downCursor = lane0.downCursor + 1

(* The answer to a poll carries the batch that is out and the cursor that  *)
(* acknowledges it.                                                        *)
AnswersBatch(p) ==
  polls[p].pc # "batch" /\ polls[p]'.pc = "batch" =>
    /\ polls[p]'.body = lane0'.unacked /\ lane0'.unacked # <<>>
    /\ polls[p]'.next = lane0'.downCursor

(* The client loses no frame and sees none out of order, whatever answers  *)
(* are lost: a batch stays out, and is what every poll with its cursor is  *)
(* answered with, until a poll carries the cursor that only those answers  *)
(* hold, or the session closes (session.go:446-556).                       *)
DownlinkStep ==
  /\ ses'.closed \/ KeepsBatch \/ MovesUp
  /\ \A p \in Pollers : AnswersBatch(p)

DownlinkInOrder == [][DownlinkStep]_vars

(* The bytes a client has sent on a stream leave the session only into the *)
(* backend, in the order in which they came, while the stream lives: its   *)
(* queue grows at the end, and shrinks only by what the write loop takes.  *)
UplinkStep(id) ==
  LET old == stream(id).writes
      new == stream(id)'.writes
  IN  \/ ~Live(id) \/ ~Live(id)'
      \/ Len(old) > 0 /\ new = Tail(old) /\ backends[id]'.inHand = old[1]
      \/ /\ Len(new) >= Len(old)
         /\ \A k \in 1 .. Len(old) : new[k] >= old[k]
         /\ \A k \in 1 .. Len(old) - 1 : new[k] = old[k]

UplinkInOrder == [][\A id \in StreamIds : UplinkStep(id)]_vars

(* PROTOCOL.md:433-434 keeps tombstones so that well-formed late DATA,     *)
(* WINDOW and CLOSE frames are ignored: applyBatchLocked meets no frame of *)
(* a stream that is neither live nor remembered, where it would            *)
(* dereference nil.                                                        *)
NoHandlerPanics == \A u \in Uppers : ups[u].pc # "panicked"

(* PROTOCOL.md:428-429: backend reads pause when the downlink partition is *)
(* full.  A read that nextReadAllowance admitted is never turned down by   *)
(* backendData, which would end its stream.                                *)
ReadsPause == \A id \in StreamIds : ~backends[id].refused

=============================================================================
