--------------------------- MODULE MuxQueueProofs ---------------------------
(***************************************************************************)
(* Proofs about the queues of a multiplexed session: the index through     *)
(* which WINDOW deltas are merged into the downlink queue, the write queue *)
(* of each stream, the order of its bytes and the wake-ups of its two      *)
(* loops, and the tombstones.                                              *)
(***************************************************************************)
EXTENDS MuxSessionProofs

-----------------------------------------------------------------------------
(* What polls do to the index of mergeable WINDOWs.                        *)

(* An update that leaves the queue alone.                                  *)
LEMMA SameQueue ==
  ASSUME NEW s, NEW t,
         t.lanes[0].frames = s.lanes[0].frames,
         t.lanes[0].windows = s.lanes[0].windows
  PROVE  IndexKept(s.lanes[0], t.lanes[0])
BY IndexedByFields, Zenon DEF IndexKept

LEMMA LaneFlagsIndexKept ==
  ASSUME NEW s \in Session, NEW x, NEW t,
         \/ t = [s EXCEPT !.lanes[0].owner = x]
         \/ t = [s EXCEPT !.lanes[0].notify = x]
  PROVE  IndexKept(s.lanes[0], t.lanes[0])
<1>1. s.lanes \in [LaneIds -> Lane] /\ s.lanes[0] \in Lane /\ 0 \in LaneIds
  BY SessionFields, LaneZero
<1>2. t.lanes[0].frames = s.lanes[0].frames /\ t.lanes[0].windows = s.lanes[0].windows
  <2>1. CASE t = [s EXCEPT !.lanes[0].owner = x]
    BY <1>1, <2>1 DEF Session, Lane
  <2>2. CASE t = [s EXCEPT !.lanes[0].notify = x]
    BY <1>1, <2>2 DEF Session, Lane
  <2>. QED
    BY <2>1, <2>2
<1>. QED
  BY <1>2, SameQueue, Zenon

LEMMA AckIndexKept ==
  ASSUME NEW s \in Session
  PROVE  IndexKept(s.lanes[0], AckUnacked(s, 0).lanes[0])
<1>. DEFINE lane == s.lanes[0]
            r == ReleasePending(s, lane.unackedCost, lane.unackedItems)
            t == AckUnacked(s, 0)
<1>1. lane \in Lane /\ lane.unackedCost \in Int /\ lane.unackedItems \in Int /\ 0 \in LaneIds
  BY SessionFields, LaneFields, LaneZero
<1>2. r \in Session /\ Untouched(s, r)
  BY <1>1, ReleasePendingType, BudgetUntouched, Zenon
<1>3. r.lanes \in [LaneIds -> Lane]
  BY <1>2, SessionFields
<1>4. t.lanes[0].frames = lane.frames /\ t.lanes[0].windows = lane.windows
  <2>. DEFINE new == [lane EXCEPT !.unacked = <<>>, !.unackedCost = 0, !.unackedItems = 0]
  <2>1. t = [r EXCEPT !.lanes[0] = new]
    BY Zenon DEF AckUnacked
  <2>2. new.frames = lane.frames /\ new.windows = lane.windows
    BY <1>1 DEF Lane
  <2>. HIDE DEF r, new, t
  <2>. QED
    BY <1>1, <1>2, <1>3, <2>1, <2>2 DEF Session
<1>. HIDE DEF t
<1>. QED
  BY <1>4, SameQueue, Zenon DEF t

(* A poll that takes a batch shifts the index with the queue.              *)
LEMMA TakeOrParkIndexKept ==
  ASSUME NEW s \in Session, NEW ps, NEW p, TakeOrPark(s, ps, p)
  PROVE  IndexKept(s.lanes[0], lane0')
<1>. DEFINE lane == s.lanes[0]
<1>1. lane \in Lane /\ s.lanes \in [LaneIds -> Lane] /\ 0 \in LaneIds
  BY SessionFields, LaneZero
<1>2. CASE lane.frames = <<>>
  <2>1. ses' = s
    BY <1>2, Zenon DEF TakeOrPark
  <2>. QED
    BY <2>1, Zenon DEF IndexKept, lane0
<1>3. CASE lane.frames # <<>>
  <2>1. PICK k \in 1 .. Len(lane.frames) : ses' = TakenBy(s, ps[p].cursor, k)
    BY <1>3, Zenon DEF TakeOrPark
  <2>. DEFINE new == TakeBatch(lane, k, ps[p].cursor)
              w == WindowsAfterTake(lane, k)
              f == AfterBatch(lane.frames, k)
  <2>2. new.frames = f /\ new.windows = w
    <3>. DEFINE b == SubSeq(lane.frames, 1, k)
                c == Total(Costs(b))
    <3>1. new = [lane EXCEPT !.frames = f, !.windows = w, !.unackedBase = ps[p].cursor,
                             !.downCursor = @ + 1, !.unacked = b, !.unackedCost = c,
                             !.unackedItems = k, !.owner = NoPoller]
      BY Zenon DEF TakeBatch
    <3>. HIDE DEF lane, w, f, b, c, new
    <3>. QED
      BY <1>1, <3>1 DEF Lane
  <2>. HIDE DEF new
  <2>3. ses'.lanes[0] = new
    <3>1. ses' = [s EXCEPT !.lanes[0] = new]
      BY <1>1, <2>1 DEF TakenBy, new, Session
    <3>. QED
      BY <1>1, <3>1 DEF Session
  <2>4. IndexKept(lane, new)
    BY <1>1, <2>2, TakeIndexed, Zenon DEF IndexKept
  <2>. QED
    BY <2>3, <2>4, Zenon DEF lane0
<1>. QED
  BY <1>2, <1>3

LEMMA PollIndexKept ==
  ASSUME PollInv, NEW p \in Pollers, PollStep(p) \/ PollCancelled(p)
  PROVE  IndexKept(lane0, lane0')
<1>1. ses \in Session /\ ses.lanes[0].present
  BY Waiting, Zenon DEF PollInv, lane0
<1>2. CASE ses' = ses
  BY <1>2, Zenon DEF IndexKept, lane0
<1>3. CASE \/ ses' = [ses EXCEPT !.lanes[0].owner = NoPoller]
           \/ ses' = [ses EXCEPT !.lanes[0].notify = FALSE]
           \/ ses' = [ses EXCEPT !.lanes[0].notify = TRUE]
  <2>1. PICK x : \/ ses' = [ses EXCEPT !.lanes[0].owner = x]
                 \/ ses' = [ses EXCEPT !.lanes[0].notify = x]
    BY <1>3
  <2>. QED
    BY <1>1, <2>1, LaneFlagsIndexKept, Zenon DEF lane0
<1>4. CASE ses' = CloseSession(ses)
  BY <1>1, <1>4, CloseSessionKept, Zenon DEF Kept, DownKept, lane0
<1>5. CASE TakeOrPark(ses, polls, p)
  BY <1>1, <1>5, TakeOrParkIndexKept, Zenon DEF lane0
<1>6. CASE PollWakes(p)
  BY <1>3, <1>6, Zenon DEF PollWakes
<1>7. CASE PollResumes(p)
  BY <1>3, <1>5, <1>7, Zenon DEF PollResumes, Signalled
<1>8. CASE PollSuperseded(p)
  BY <1>3, <1>8, Zenon DEF PollSuperseded, Signalled
<1>9. CASE PollCancelled(p)
  BY <1>2, <1>3, <1>9, Zenon DEF PollCancelled, Disown
<1>10. CASE PollExpires(p)
  BY <1>2, <1>3, <1>5, <1>10, Zenon DEF PollExpires, Disown, Signalled
<1>11. CASE PollCloses(p)
  BY <1>4, <1>11, Zenon DEF PollCloses
<1>12. CASE PollReturns(p)
  BY <1>2, <1>12, Zenon DEF PollReturns
<1>. QED
  BY <1>6, <1>7, <1>8, <1>9, <1>10, <1>11, <1>12, Zenon DEF PollStep

LEMMA PollBeginIndexKept ==
  ASSUME PollInv, NEW p \in Pollers, NEW cursor, PollBegin(p, cursor)
  PROVE  IndexKept(lane0, lane0')
<1>1. ses \in Session
  BY Waiting
<1>2. CASE UNCHANGED ses
  BY <1>2, Zenon DEF IndexKept, lane0
<1>3. CASE TakeOrPark([AckUnacked(ses, 0) EXCEPT !.lanes[0].owner = p],
                      Supersede(polls, p, cursor), p)
  <2>. DEFINE acked == AckUnacked(ses, 0)
              s == [acked EXCEPT !.lanes[0].owner = p]
  <2>1. acked \in Session /\ IndexKept(ses.lanes[0], acked.lanes[0])
    BY <1>1, LaneZero, AckUnackedType, AckIndexKept, Zenon
  <2>. HIDE DEF acked
  <2>2. s \in Session
    <3>1. p \in Pollers \cup {NoPoller}
      OBVIOUS
    <3>. QED
      BY <2>1, <3>1, LaneUpdates, Zenon
  <2>3. IndexKept(acked.lanes[0], s.lanes[0])
    <3>1. ASSUME NEW t, t = s PROVE IndexKept(acked.lanes[0], t.lanes[0])
      BY <2>1, <3>1, LaneFlagsIndexKept, Zenon
    <3>. QED
      BY <3>1
  <2>. HIDE DEF s
  <2>4. IndexKept(s.lanes[0], lane0')
    BY <1>3, <2>2, TakeOrParkIndexKept, Zenon DEF s, acked
  <2>. QED
    BY <2>1, <2>3, <2>4, Zenon DEF IndexKept, lane0
<1>. QED
  BY <1>2, <1>3, Zenon DEF PollBegin

-----------------------------------------------------------------------------
LEMMA WindowIndexInit == Init => WindowIndexSound
<1>. SUFFICES ASSUME Init PROVE WindowIndexSound
  OBVIOUS
<1>1. lane0 = NewLane
  BY LaneZero DEF Init, BackendInit, lane0, NewSession
<1>2. lane0.frames = <<>> /\ \A id \in StreamIds : lane0.windows[id] = 0
  BY <1>1 DEF NewLane, NoLane
<1>. QED
  BY <1>2 DEF WindowIndexSound, WindowsIndexed

LEMMA WindowIndexStep ==
  ASSUME PollInv, WindowIndexSound, [Next]_vars
  PROVE  WindowIndexSound'
<1>. SUFFICES IndexKept(lane0, lane0')
  BY Zenon DEF WindowIndexSound, IndexKept
<1>1. TypeOK /\ lane0.present /\ ses \in Session
  BY Zenon DEF PollInv, TypeOK, BackendTypeOK
<1>2. CASE DownKept(ses, ses')
  BY <1>2, Zenon DEF DownKept, lane0
<1>3. ASSUME NEW u \in Uppers, UpStep(u) PROVE IndexKept(lane0, lane0')
  BY <1>1, <1>2, <1>3, UpQuietKept, UpCommitKept, UpAppliedKept, Zenon DEF Kept
<1>4. ASSUME NEW u \in Uppers, NEW q, NEW body, UpBegin(u, q, body)
      PROVE  IndexKept(lane0, lane0')
  BY <1>1, <1>2, <1>4, UpBeginKept, Zenon
<1>5. ASSUME NEW id \in StreamIds, BackendNext(id) PROVE IndexKept(lane0, lane0')
  BY <1>1, <1>2, <1>5, BackendKept, Zenon DEF BackendNext, Kept
<1>6. CASE Close
  BY <1>1, <1>2, <1>6, CloseSessionKept, Zenon DEF Close, lane0, Kept
<1>7. CASE UNCHANGED vars
  BY <1>7, Zenon DEF vars, IndexKept, lane0
<1>8. ASSUME NEW p \in Pollers, PollStep(p) \/ PollCancelled(p)
      PROVE  IndexKept(lane0, lane0')
  BY <1>8, PollIndexKept, Zenon
<1>9. ASSUME NEW p \in Pollers, NEW cursor, PollBegin(p, cursor)
      PROVE  IndexKept(lane0, lane0')
  BY <1>9, PollBeginIndexKept, Zenon
<1>. QED
  BY <1>3, <1>4, <1>5, <1>6, <1>7, <1>8, <1>9, Zenon DEF Next, System, Environment

(* The index through which queueFrameLocked merges a WINDOW delta points   *)
(* at the newest queued WINDOW of its stream and at no other frame,        *)
(* whatever batches polls take from the front of the queue meanwhile.      *)
THEOREM WindowIndexSoundHolds == Spec => []WindowIndexSound
BY WindowIndexInit, WindowIndexStep, PollInvariant, PTL DEF Spec

-----------------------------------------------------------------------------
(* What the critical sections leave of the write queues: a stream that is  *)
(* live afterwards was live before, with the same queue and signal.        *)
SameWrites(x, y) == x.live /\ y.writes = x.writes /\ y.writeNotify = x.writeNotify

WritesKept(s, t) ==
  /\ s.closed => t.closed
  /\ \A id \in StreamIds :
       t.streams[id].live => SameWrites(s.streams[id], t.streams[id])

LEMMA SameStreams ==
  ASSUME NEW s, NEW t, t.streams = s.streams, t.closed = s.closed
  PROVE  WritesKept(s, t)
BY Zenon DEF WritesKept, SameWrites

LEMMA WritesKeptTransitive ==
  ASSUME NEW s, NEW t, NEW v, WritesKept(s, t), WritesKept(t, v)
  PROVE  WritesKept(s, v)
BY DEF WritesKept, SameWrites

LEMMA OneStreamWritesKept ==
  ASSUME NEW s \in Session, NEW id \in StreamIds, NEW x,
         x.live => SameWrites(s.streams[id], x)
  PROVE  WritesKept(s, [s EXCEPT !.streams[id] = x])
<1>. DEFINE t == [s EXCEPT !.streams[id] = x]
<1>1. /\ t.closed = s.closed /\ t.streams[id] = x
      /\ \A other \in StreamIds \ {id} : t.streams[other] = s.streams[other]
  BY DEF Session
<1>. HIDE DEF t
<1>2. WritesKept(s, t)
  BY <1>1 DEF WritesKept, SameWrites
<1>. QED
  BY <1>2 DEF t

LEMMA BudgetWritesKept ==
  ASSUME NEW s \in Session, NEW cost \in Int, NEW items \in Int
  PROVE  /\ WritesKept(s, ReleasePending(s, cost, items))
         /\ WritesKept(s, Reserve(s, cost, items))
<1>1. /\ ReleasePending(s, cost, items).streams = s.streams
      /\ ReleasePending(s, cost, items).closed = s.closed
      /\ Reserve(s, cost, items).streams = s.streams
      /\ Reserve(s, cost, items).closed = s.closed
  BY DEF Session, ReleasePending, Reserve
<1>. QED
  BY <1>1, SameStreams, Zenon

LEMMA CancelWritesKept ==
  ASSUME NEW s, NEW t \in Session, WritesKept(s, t), NEW ids
  PROVE  WritesKept(s, CancelBackend(t, ids))
<1>1. CancelBackend(t, ids).streams = t.streams /\ CancelBackend(t, ids).closed = t.closed
  BY DEF Session, CancelBackend
<1>. QED
  BY <1>1, SameStreams, WritesKeptTransitive, Zenon

LEMMA DropStreamWritesKept ==
  ASSUME NEW s \in Session, NEW id \in StreamIds
  PROVE  WritesKept(s, DropStream(s, id))
<1>1. s.streams[id].pendingWriteCost \in Int /\ s.streams[id].pendingWriteItems \in Int
  BY SessionFields, StreamFields
<1>. DEFINE r == ReleasePending(s, s.streams[id].pendingWriteCost,
                                   s.streams[id].pendingWriteItems)
<1>2. WritesKept(s, r) /\ r \in Session
  BY <1>1, BudgetWritesKept, ReleasePendingType, Zenon
<1>. HIDE DEF r
<1>3. ~NoStream.live
  BY DEF NoStream
<1>4. WritesKept(r, [r EXCEPT !.streams[id] = NoStream])
  BY <1>2, <1>3, OneStreamWritesKept, Zenon
<1>. QED
  BY <1>2, <1>4, WritesKeptTransitive, Zenon DEF DropStream, r

LEMMA EndStreamWritesKept ==
  ASSUME NEW s \in Session, NEW id \in StreamIds
  PROVE  /\ WritesKept(s, RememberClosed(s, id))
         /\ WritesKept(s, EndStream(s, id))
<1>1. ASSUME NEW t \in Session PROVE WritesKept(t, RememberClosed(t, id))
  <2>1. \A l : DropLane(t, l) = t
    BY OneLane, Zenon DEF DropLane
  <2>2. \A order : /\ [t EXCEPT !.closedOrder = order].streams = t.streams
                   /\ [t EXCEPT !.closedOrder = order].closed = t.closed
    BY DEF Session
  <2>3. WritesKept(t, t) /\ \A order : WritesKept(t, [t EXCEPT !.closedOrder = order])
    BY <2>2, SameStreams, Zenon
  <2>. QED
    BY <2>1, <2>3, OneLane, Zenon DEF RememberClosed
<1>2. DropStream(s, id) \in Session /\ WritesKept(s, DropStream(s, id))
  BY DropStreamType, DropStreamWritesKept, Zenon
<1>. QED
  BY <1>1, <1>2, WritesKeptTransitive, Zenon DEF EndStream

LEMMA QueueFrameWritesKept ==
  ASSUME NEW s \in Session, NEW f
  PROVE  WritesKept(s, QueueFrame(s, f))
<1>1. QueueFrame(s, f).streams = s.streams /\ QueueFrame(s, f).closed = s.closed
  <2>. DEFINE a == QueueCost(s.lanes[LaneOf(f.id)], f)
              b == QueueItems(s.lanes[LaneOf(f.id)], f)
              c == [s.lanes[LaneOf(f.id)] EXCEPT
                      !.frames = FramesWith(s.lanes[LaneOf(f.id)], f),
                      !.windows = WindowsWith(s.lanes[LaneOf(f.id)], f),
                      !.notify = TRUE]
  <2>1. QueueFrame(s, f) = [s EXCEPT !.pendingCost = @ + a, !.pendingItems = @ + b,
                                     !.lanes[LaneOf(f.id)] = c]
    BY Zenon DEF QueueFrame
  <2>. HIDE DEF a, b, c
  <2>. QED
    BY <2>1 DEF Session
<1>. QED
  BY <1>1, SameStreams, Zenon

LEMMA CloseSessionWritesKept ==
  ASSUME NEW s \in Session
  PROVE  WritesKept(s, CloseSession(s))
<1>1. CASE s.closed
  BY <1>1, SameStreams, Zenon DEF CloseSession
<1>2. CASE ~s.closed
  <2>1. /\ CloseSession(s).closed = TRUE
        /\ \A id \in StreamIds : CloseSession(s).streams[id] = NoStream
    BY <1>2 DEF CloseSession, Session
  <2>2. ~NoStream.live
    BY DEF NoStream
  <2>. QED
    BY <2>1, <2>2 DEF WritesKept
<1>. QED
  BY <1>1, <1>2

(* Draining, finishing a write, spending or receiving credit, and leaving  *)
(* the list of budget waiters touch other fields of the stream.            *)
LEMMA AccountsWritesKept ==
  ASSUME NEW s \in Session, NEW id \in StreamIds
  PROVE  /\ \A k : WritesKept(s, SpendCredit(s, id, k))
         /\ WritesKept(s, FinishWrite(s, id))
         /\ \A k \in Int : WritesKept(s, Drain(s, id, k))
         /\ \A waiters : WritesKept(s, [s EXCEPT !.budgetWaiters = waiters])
         /\ \A waiters : WritesKept(s, [s EXCEPT !.streams[id].creditNotify = FALSE,
                                                 !.budgetWaiters = waiters])
         /\ \A x, y : WritesKept(s, [s EXCEPT !.streams[id].sendCredit = x,
                                              !.streams[id].creditNotify = y])
<1>1. ASSUME NEW r \in Session, NEW t, t.closed = r.closed,
             t.streams[id].live = r.streams[id].live,
             t.streams[id].writes = r.streams[id].writes,
             t.streams[id].writeNotify = r.streams[id].writeNotify,
             \A other \in StreamIds \ {id} : t.streams[other] = r.streams[other]
      PROVE  WritesKept(r, t)
  BY <1>1 DEF WritesKept, SameWrites
<1>2. \A r \in Session : r.streams \in [StreamIds -> Stream] /\ r.streams[id] \in Stream
  BY SessionFields
<1>3. ASSUME NEW k PROVE WritesKept(s, SpendCredit(s, id, k))
  <2>. DEFINE t == SpendCredit(s, id, k)
  <2>1. /\ t.closed = s.closed /\ t.streams[id].live = s.streams[id].live
        /\ t.streams[id].writes = s.streams[id].writes
        /\ t.streams[id].writeNotify = s.streams[id].writeNotify
        /\ \A other \in StreamIds \ {id} : t.streams[other] = s.streams[other]
    BY <1>2 DEF SpendCredit, Session, Stream
  <2>. HIDE DEF t
  <2>2. WritesKept(s, t)
    BY <1>1, <2>1, Zenon
  <2>. QED
    BY <2>2 DEF t
<1>4. WritesKept(s, FinishWrite(s, id))
  <2>1. AccountChanged(s, FinishWrite(s, id), id)
    BY AccountsChanged
  <2>2. \A t : AccountChanged(s, t, id) => WritesKept(s, t)
    BY <1>1 DEF AccountChanged, SameButAccount
  <2>. QED
    BY <2>1, <2>2, Zenon
<1>5. ASSUME NEW k \in Int PROVE WritesKept(s, Drain(s, id, k))
  <2>1. AccountChanged(s, Drain(s, id, k), id)
    BY AccountsChanged
  <2>2. \A t : AccountChanged(s, t, id) => WritesKept(s, t)
    BY <1>1 DEF AccountChanged, SameButAccount
  <2>. QED
    BY <2>1, <2>2, Zenon
<1>6. \A waiters : WritesKept(s, [s EXCEPT !.budgetWaiters = waiters])
  <2>1. \A waiters : /\ [s EXCEPT !.budgetWaiters = waiters].streams = s.streams
                     /\ [s EXCEPT !.budgetWaiters = waiters].closed = s.closed
    BY DEF Session
  <2>. QED
    BY <2>1, SameStreams, Zenon
<1>7. ASSUME NEW waiters
      PROVE  WritesKept(s, [s EXCEPT !.streams[id].creditNotify = FALSE,
                                     !.budgetWaiters = waiters])
  <2>. DEFINE t == [s EXCEPT !.streams[id].creditNotify = FALSE, !.budgetWaiters = waiters]
  <2>1. /\ t.closed = s.closed /\ t.streams[id].live = s.streams[id].live
        /\ t.streams[id].writes = s.streams[id].writes
        /\ t.streams[id].writeNotify = s.streams[id].writeNotify
        /\ \A other \in StreamIds \ {id} : t.streams[other] = s.streams[other]
    BY <1>2 DEF Session, Stream
  <2>. HIDE DEF t
  <2>2. WritesKept(s, t)
    BY <1>1, <2>1, Zenon
  <2>. QED
    BY <2>2 DEF t
<1>8. ASSUME NEW x, NEW y
      PROVE  WritesKept(s, [s EXCEPT !.streams[id].sendCredit = x,
                                     !.streams[id].creditNotify = y])
  <2>. DEFINE t == [s EXCEPT !.streams[id].sendCredit = x, !.streams[id].creditNotify = y]
  <2>1. /\ t.closed = s.closed /\ t.streams[id].live = s.streams[id].live
        /\ t.streams[id].writes = s.streams[id].writes
        /\ t.streams[id].writeNotify = s.streams[id].writeNotify
        /\ \A other \in StreamIds \ {id} : t.streams[other] = s.streams[other]
    BY <1>2 DEF Session, Stream
  <2>. HIDE DEF t
  <2>2. WritesKept(s, t)
    BY <1>1, <2>1, Zenon
  <2>. QED
    BY <2>2 DEF t
<1>. QED
  BY <1>3, <1>4, <1>5, <1>6, <1>7, <1>8

LEMMA AfterWriteWritesKept ==
  ASSUME NEW s \in Session, NEW id \in StreamIds, NEW k \in Nat, NEW pool
  PROVE  WritesKept(s, AfterWrite(s, id, k, pool))
<1>1. WritesKept(s, s) /\ k \in Int
  BY SameStreams
<1>2. CASE CanDrain(s, id, k)
  <2>1. Drain(s, id, k) \in Session /\ WritesKept(s, Drain(s, id, k))
    BY <1>1, <1>2, DrainType, AccountsWritesKept, Zenon
  <2>2. \A f : WritesKept(s, QueueFrame(Drain(s, id, k), f))
    BY <2>1, QueueFrameWritesKept, WritesKeptTransitive, Zenon
  <2>. QED
    BY <1>2, <2>1, <2>2, Zenon DEF AfterWrite
<1>3. CASE ~CanDrain(s, id, k)
  BY <1>1, <1>3, Zenon DEF AfterWrite
<1>. QED
  BY <1>2, <1>3

LEMMA ClosedByBackendWritesKept ==
  ASSUME NEW s \in Session, NEW id \in StreamIds, NEW pool
  PROVE  WritesKept(s, ClosedByBackend(s, id, pool))
<1>. DEFINE ended == EndStream(s, id)
<1>1. ended \in Session /\ WritesKept(s, ended)
  BY EndStreamType, EndStreamWritesKept, Zenon
<1>. HIDE DEF ended
<1>2. (\A f : WritesKept(s, QueueFrame(ended, f))) /\ WritesKept(s, CloseSession(ended))
  BY <1>1, QueueFrameWritesKept, CloseSessionWritesKept, WritesKeptTransitive, Zenon
<1>. QED
  BY <1>2, Zenon DEF ClosedByBackend, ended

-----------------------------------------------------------------------------
(* The steps of backends.                                                  *)

LEMMA BackendWritesKept ==
  ASSUME TypeOK, NEW id \in StreamIds, BackendStep(id), ~NextWrite(id), ~WriterWakes(id)
  PROVE  WritesKept(ses, ses')
<1>. DEFINE Same == ses' = ses
            Cancels == ses' = CancelBackend(ses, {id})
<1>1. ses \in Session /\ backends[id] \in BackendState /\ WritesKept(ses, ses)
  BY SameStreams, Zenon DEF TypeOK, BackendTypeOK
<1>2. backends[id].inHand \in Nat
  BY <1>1, BackendFields
<1>3. CASE Same \/ Cancels
  BY <1>1, <1>3, CancelWritesKept, Zenon
<1>4. CASE Dialled(id) \/ DialFailed(id) \/ LoopsReturned(id) \/ BudgetWakesReader(id)
           \/ WriterStops(id) \/ ReadEnds(id)
  BY <1>3, <1>4, Zenon DEF Dialled, DialFailed, LoopsReturned, BudgetWakesReader,
                           WriterStops, ReadEnds
<1>5. CASE BackendClosed(id)
  <2>1. PICK pool : ses' = CancelBackend(IF Live(id) THEN ClosedByBackend(ses, id, pool) ELSE ses,
                                         {id})
    BY <1>5, Zenon DEF BackendClosed
  <2>2. /\ ClosedByBackend(ses, id, pool) \in Session
        /\ WritesKept(ses, ClosedByBackend(ses, id, pool))
    BY <1>1, ClosedByBackendType, ClosedByBackendWritesKept, Zenon
  <2>. QED
    BY <1>1, <2>1, <2>2, CancelWritesKept, Zenon
<1>6. CASE Write(id)
  <2>1. PICK pool \in PoolAnswers("control") :
          \/ ses' = AfterWrite(ses, id, backends[id].inHand, pool)
          \/ ses' = CancelBackend(AfterWrite(ses, id, backends[id].inHand, pool), {id})
    BY <1>6, Zenon DEF Write
  <2>2. pool \in BOOLEAN
    BY <2>1, PoolAnswersType, Zenon
  <2>. QED
    BY <1>1, <1>2, <2>1, <2>2, AfterWriteType, AfterWriteWritesKept, CancelWritesKept, Zenon
<1>7. CASE WriteFails(id)
  <2>1. PICK pool \in PoolAnswers("control"), k \in 0 .. backends[id].inHand - 1 :
          ses' = CancelBackend(AfterWrite(ses, id, k, pool), {id})
    BY <1>7, Zenon DEF WriteFails
  <2>2. pool \in BOOLEAN
    BY <2>1, PoolAnswersType, Zenon
  <2>3. k \in Nat
    BY <1>2, <2>1
  <2>. QED
    BY <1>1, <2>1, <2>2, <2>3, AfterWriteType, AfterWriteWritesKept, CancelWritesKept, Zenon
<1>8. CASE WriteFinished(id)
  <2>1. CASE ses' = FinishWrite(ses, id)
    BY <1>1, <2>1, AccountsWritesKept, Zenon
  <2>. QED
    BY <1>3, <1>8, <2>1, Zenon DEF WriteFinished
<1>9. CASE NextRead(id)
  <2>1. CASE ses' = [ses EXCEPT !.budgetWaiters = @ \cup {id}]
    BY <1>1, <2>1, AccountsWritesKept, Zenon
  <2>. QED
    BY <1>3, <1>9, <2>1, Zenon DEF NextRead
<1>10. CASE CreditWakesReader(id)
  BY <1>1, <1>10, AccountsWritesKept, Zenon DEF CreditWakesReader
<1>11. CASE ReaderStops(id)
  <2>. DEFINE r == [ses EXCEPT !.budgetWaiters = @ \ {id}]
  <2>1. ses.budgetWaiters \ {id} \in SUBSET StreamIds
    BY <1>1, SessionFields
  <2>2. r \in Session /\ WritesKept(ses, r)
    BY <1>1, <2>1, SessionUpdates, AccountsWritesKept, Zenon
  <2>3. ses' = CancelBackend(r, {id})
    BY <1>11, Zenon DEF ReaderStops
  <2>. HIDE DEF r
  <2>. QED
    BY <2>2, <2>3, CancelWritesKept, Zenon
<1>12. CASE Read(id)
  <2>1. PICK k \in 1 .. backends[id].allowance :
          LET spent == SpendCredit(ses, id, k)
          IN  \/ Cancels
              \/ /\ CanTakeData(ses, id, k)
                 /\ \/ ses' = QueueFrame(spent, [type |-> "DATA", id |-> id, n |-> k])
                    \/ ses' = CancelBackend(spent, {id})
    BY <1>12, Zenon DEF Read
  <2>. DEFINE spent == SpendCredit(ses, id, k)
  <2>2. CanTakeData(ses, id, k) => spent \in Session
    BY <1>1, <2>1, SpendCreditType, Zenon
  <2>3. WritesKept(ses, spent)
    BY <1>1, AccountsWritesKept, Zenon
  <2>4. \/ Cancels
        \/ spent \in Session /\ ses' = QueueFrame(spent, [type |-> "DATA", id |-> id, n |-> k])
        \/ spent \in Session /\ ses' = CancelBackend(spent, {id})
    BY <2>1, <2>2, Zenon
  <2>. HIDE DEF spent, Cancels
  <2>5. CASE spent \in Session /\ ses' = QueueFrame(spent, [type |-> "DATA", id |-> id, n |-> k])
    BY <2>3, <2>5, QueueFrameWritesKept, WritesKeptTransitive, Zenon
  <2>6. CASE spent \in Session /\ ses' = CancelBackend(spent, {id})
    BY <2>3, <2>6, CancelWritesKept, Zenon
  <2>. QED
    BY <1>3, <2>4, <2>5, <2>6, Zenon
<1>. QED
  BY <1>4, <1>5, <1>6, <1>7, <1>8, <1>9, <1>10, <1>11, <1>12, Zenon DEF BackendStep

(* Only NextWrite puts a write loop to sleep.                              *)
WritersQuiet ==
  \A id \in StreamIds : backends'[id].writer = "wait" => backends[id].writer = "wait"

LEMMA BackendWritersQuiet ==
  ASSUME TypeOK, NEW id \in StreamIds, BackendStep(id), ~NextWrite(id)
  PROVE  WritersQuiet
<1>1. backends \in [StreamIds -> BackendState]
  BY DEF TypeOK, BackendTypeOK
<1>2. /\ \A other \in StreamIds \ {id} : backends'[other] = backends[other]
      /\ backends'[id].writer = "wait" => backends[id].writer = "wait"
  <2>1. CASE Dialled(id) \/ DialFailed(id) \/ LoopsReturned(id) \/ BackendClosed(id)
    BY <1>1, <2>1 DEF Dialled, DialFailed, LoopsReturned, BackendClosed, BackendState
  <2>2. CASE WriterWakes(id) \/ WriterStops(id) \/ Write(id) \/ WriteFails(id)
             \/ WriteFinished(id)
    BY <1>1, <2>2 DEF WriterWakes, WriterStops, Write, WriteFails, WriteFinished,
                      WriterExits, BackendState
  <2>3. CASE NextRead(id) \/ CreditWakesReader(id) \/ BudgetWakesReader(id)
    BY <1>1, <2>3 DEF NextRead, CreditWakesReader, BudgetWakesReader, ReaderExits, BackendState
  <2>4. ASSUME NEW refused, ReaderExits(id, refused)
        PROVE  /\ \A other \in StreamIds \ {id} : backends'[other] = backends[other]
               /\ backends'[id].writer = backends[id].writer
    BY <1>1, <2>4 DEF ReaderExits, BackendState
  <2>5. CASE ReaderStops(id) \/ ReadEnds(id)
    BY <2>4, <2>5, Zenon DEF ReaderStops, ReadEnds
  <2>6. CASE Read(id)
    <3>1. CASE backends' = [backends EXCEPT ![id].reader = "next", ![id].allowance = 0]
      BY <1>1, <3>1 DEF BackendState
    <3>. QED
      BY <2>4, <2>6, <3>1, Zenon DEF Read
  <2>. QED
    BY <2>1, <2>2, <2>3, <2>5, <2>6 DEF BackendStep
<1>. QED
  BY <1>2 DEF WritersQuiet

-----------------------------------------------------------------------------
(* The steps of handlers and polls.                                        *)

(* What does not touch streams or the closed flag.                         *)
LEMMA LanesWritesKept ==
  ASSUME NEW s \in Session
  PROVE  /\ \A x : WritesKept(s, [s EXCEPT !.lanes[0].upActive = x])
         /\ \A x : WritesKept(s, [s EXCEPT !.lanes[0].owner = x])
         /\ \A x : WritesKept(s, [s EXCEPT !.lanes[0].notify = x])
         /\ \A x : WritesKept(s, [s EXCEPT !.lanes[0] = x])
         /\ \A x, y : WritesKept(s, [s EXCEPT !.lanes[0].lastUpSequence = x,
                                              !.lanes[0].lastUpDigest = y])
<1>1. ASSUME NEW x PROVE WritesKept(s, [s EXCEPT !.lanes[0].upActive = x])
  <2>1. [s EXCEPT !.lanes[0].upActive = x].streams = s.streams /\ [s EXCEPT !.lanes[0].upActive = x].closed = s.closed
    BY DEF Session
  <2>. QED
    BY <2>1, SameStreams, Zenon
<1>2. ASSUME NEW x PROVE WritesKept(s, [s EXCEPT !.lanes[0].owner = x])
  <2>1. [s EXCEPT !.lanes[0].owner = x].streams = s.streams /\ [s EXCEPT !.lanes[0].owner = x].closed = s.closed
    BY DEF Session
  <2>. QED
    BY <2>1, SameStreams, Zenon
<1>3. ASSUME NEW x PROVE WritesKept(s, [s EXCEPT !.lanes[0].notify = x])
  <2>1. [s EXCEPT !.lanes[0].notify = x].streams = s.streams /\ [s EXCEPT !.lanes[0].notify = x].closed = s.closed
    BY DEF Session
  <2>. QED
    BY <2>1, SameStreams, Zenon
<1>4. ASSUME NEW x PROVE WritesKept(s, [s EXCEPT !.lanes[0] = x])
  <2>1. [s EXCEPT !.lanes[0] = x].streams = s.streams /\ [s EXCEPT !.lanes[0] = x].closed = s.closed
    BY DEF Session
  <2>. QED
    BY <2>1, SameStreams, Zenon
<1>5. ASSUME NEW x, NEW y
      PROVE  WritesKept(s, [s EXCEPT !.lanes[0].lastUpSequence = x, !.lanes[0].lastUpDigest = y])
  <2>. DEFINE t == [s EXCEPT !.lanes[0].lastUpSequence = x, !.lanes[0].lastUpDigest = y]
  <2>1. t.streams = s.streams /\ t.closed = s.closed
    BY DEF Session
  <2>. QED
    BY <2>1, SameStreams, Zenon
<1>. QED
  BY <1>1, <1>2, <1>3, <1>4, <1>5

LEMMA UpWritesKept ==
  ASSUME TypeOK, NEW u \in Uppers, UpStep(u), ~ApplyOpen(u), ~ApplyData(u)
  PROVE  WritesKept(ses, ses')
<1>1. ses \in Session /\ WritesKept(ses, ses) /\ ups[u] \in UpState /\ UpsTypeOK
  BY SameStreams, Zenon DEF TypeOK, BackendTypeOK, UpsTypeOK
<1>2. Applying(u) /\ Current(u).id # 0 => Current(u).id \in StreamIds
  BY <1>1, CurrentType, Zenon
<1>3. CASE ApplyNothing(u) \/ ApplyToNoStream(u) \/ UpReturns(u)
  BY <1>1, <1>3, Zenon DEF ApplyNothing, ApplyToNoStream, UpReturns
<1>4. CASE RejectOpen(u)
  <2>. DEFINE id == Current(u).id
              remembered == RememberClosed(ses, id)
  <2>1. id \in StreamIds
    <3>1. ValidClientShape(Current(u)) /\ Applying(u) /\ Current(u).type = "OPEN"
      BY <1>1, <1>4, CurrentType, Zenon DEF RejectOpen
    <3>2. id # 0
      BY <3>1 DEF ValidClientShape
    <3>. QED
      BY <1>2, <3>1, <3>2, Zenon
  <2>2. remembered \in Session /\ WritesKept(ses, remembered)
    BY <1>1, <2>1, RememberClosedType, EndStreamWritesKept, Zenon
  <2>3. \/ ses' = QueueFrame(remembered, [type |-> "CLOSE", id |-> id, n |-> 0])
        \/ ses' = ReleasePending(remembered, ups[u].cost, ups[u].items)
    BY <1>4, Zenon DEF RejectOpen
  <2>. HIDE DEF remembered, id
  <2>4. /\ \A f : WritesKept(remembered, QueueFrame(remembered, f))
        /\ WritesKept(remembered, ReleasePending(remembered, ups[u].cost, ups[u].items))
    BY <1>1, <2>2, UpFields, QueueFrameWritesKept, BudgetWritesKept, Zenon
  <2>5. WritesKept(remembered, ses')
    BY <2>3, <2>4
  <2>. QED
    BY <2>2, <2>5, WritesKeptTransitive, Zenon
<1>5. CASE ApplyWindow(u)
  <2>. DEFINE id == Current(u).id
  <2>1. ses' = [ses EXCEPT !.streams[id].sendCredit = AddCredit(@, Current(u).n),
                           !.streams[id].creditNotify = TRUE]
    BY <1>5, Zenon DEF ApplyWindow
  <2>2. PICK x : ses' = [ses EXCEPT !.streams[id].sendCredit = x,
                                    !.streams[id].creditNotify = TRUE]
    BY <1>1, <2>1, Zenon
  <2>3. id \in StreamIds
    BY <1>2, <1>5, Zenon DEF ApplyWindow
  <2>. QED
    BY <1>1, <2>2, <2>3, AccountsWritesKept, Zenon
<1>6. CASE ApplyClose(u)
  BY <1>1, <1>2, <1>6, EndStreamWritesKept, Zenon DEF ApplyClose
<1>7. CASE UpLaunch(u)
  BY <1>1, <1>7, CancelWritesKept, Zenon DEF UpLaunch
<1>8. CASE UpCloses(u)
  BY <1>1, <1>8, CloseSessionWritesKept, Zenon DEF UpCloses
<1>9. CASE UpCommit(u)
  <2>. DEFINE idle == [ses EXCEPT !.lanes[0].upActive = FALSE]
              cost == WriteCost(ses, ups[u].body)
              items == WriteItems(ses, ups[u].body)
  <2>1. idle \in Session /\ WritesKept(ses, idle)
    BY <1>1, LaneUpdates, LanesWritesKept, Zenon
  <2>2. cost \in Int /\ items \in Int
    BY <1>1, UpFields, WriteCostType, Zenon
  <2>3. ses' = idle \/ ses' = Reserve(idle, cost, items)
    BY <1>9, Zenon DEF UpCommit
  <2>. HIDE DEF idle, cost, items
  <2>4. WritesKept(idle, Reserve(idle, cost, items))
    BY <2>1, <2>2, BudgetWritesKept, Zenon
  <2>5. CASE ses' = idle
    BY <2>1, <2>5
  <2>6. CASE ses' = Reserve(idle, cost, items)
    BY <2>1, <2>4, <2>6, WritesKeptTransitive, Zenon
  <2>. QED
    BY <2>3, <2>5, <2>6
<1>10. CASE UpApplied(u)
  <2>. DEFINE r == ReleasePending(ses, ups[u].cost, ups[u].items)
  <2>1. r \in Session /\ WritesKept(ses, r)
    BY <1>1, UpFields, ReleasePendingType, BudgetWritesKept, Zenon
  <2>2. ses' = [r EXCEPT !.lanes[0].lastUpSequence = ups[u].seq,
                         !.lanes[0].lastUpDigest = ups[u].body]
    BY <1>10, Zenon DEF UpApplied
  <2>. HIDE DEF r
  <2>3. WritesKept(r, ses')
    BY <2>1, <2>2, LanesWritesKept, Zenon
  <2>. QED
    BY <2>1, <2>3, WritesKeptTransitive, Zenon
<1>. QED
  BY <1>3, <1>4, <1>5, <1>6, <1>7, <1>8, <1>9, <1>10, Zenon DEF UpStep

LEMMA TakeOrParkWritesKept ==
  ASSUME NEW s \in Session, NEW ps, NEW p, TakeOrPark(s, ps, p)
  PROVE  WritesKept(s, ses')
<1>1. ses' = s \/ \E x : ses' = [s EXCEPT !.lanes[0] = x]
  <2>1. CASE s.lanes[0].frames = <<>>
    BY <2>1, Zenon DEF TakeOrPark
  <2>2. CASE s.lanes[0].frames # <<>>
    <3>1. PICK k : ses' = TakenBy(s, ps[p].cursor, k)
      BY <2>2, Zenon DEF TakeOrPark
    <3>. DEFINE x == TakeBatch(s.lanes[0], k, ps[p].cursor)
    <3>2. ses' = [s EXCEPT !.lanes[0] = x]
      BY <3>1, SessionFields, LaneZero DEF TakenBy, Session
    <3>. HIDE DEF x
    <3>. QED
      BY <3>2, Zenon
  <2>. QED
    BY <2>1, <2>2
<1>2. CASE ses' = s
  BY <1>2, SameStreams, Zenon
<1>3. CASE \E x : ses' = [s EXCEPT !.lanes[0] = x]
  BY <1>3, LanesWritesKept, Zenon
<1>. QED
  BY <1>1, <1>2, <1>3

LEMMA PollWritesKept ==
  ASSUME TypeOK, NEW p \in Pollers,
         PollStep(p) \/ PollCancelled(p) \/ \E cursor : PollBegin(p, cursor)
  PROVE  WritesKept(ses, ses')
<1>1. ses \in Session /\ WritesKept(ses, ses)
  BY SameStreams, Zenon DEF TypeOK, BackendTypeOK
<1>2. CASE ses' = ses
  BY <1>1, <1>2, Zenon
<1>3. CASE \/ ses' = [ses EXCEPT !.lanes[0].owner = NoPoller]
           \/ ses' = [ses EXCEPT !.lanes[0].notify = FALSE]
           \/ ses' = [ses EXCEPT !.lanes[0].notify = TRUE]
  BY <1>1, <1>3, LanesWritesKept, Zenon
<1>4. CASE ses' = CloseSession(ses)
  BY <1>1, <1>4, CloseSessionWritesKept, Zenon
<1>5. CASE TakeOrPark(ses, polls, p)
  BY <1>1, <1>5, TakeOrParkWritesKept, Zenon
<1>6. CASE \E cursor : PollBegin(p, cursor)
  <2>1. CASE UNCHANGED ses
    BY <1>2, <2>1
  <2>2. CASE \E ps : TakeOrPark([AckUnacked(ses, 0) EXCEPT !.lanes[0].owner = p], ps, p)
    <3>. DEFINE acked == AckUnacked(ses, 0)
                s == [acked EXCEPT !.lanes[0].owner = p]
                lane == ses.lanes[0]
                r == ReleasePending(ses, lane.unackedCost, lane.unackedItems)
                x == [lane EXCEPT !.unacked = <<>>, !.unackedCost = 0, !.unackedItems = 0]
    <3>1. lane.unackedCost \in Int /\ lane.unackedItems \in Int
      BY <1>1, SessionFields, LaneFields, LaneZero
    <3>2. r \in Session /\ WritesKept(ses, r)
      BY <1>1, <3>1, ReleasePendingType, BudgetWritesKept, Zenon
    <3>3. acked = [r EXCEPT !.lanes[0] = x]
      BY Zenon DEF AckUnacked
    <3>4. acked \in Session
      BY <1>1, LaneZero, AckUnackedType, Zenon
    <3>. HIDE DEF acked, r, x
    <3>5. WritesKept(ses, acked)
      BY <3>2, <3>3, LanesWritesKept, WritesKeptTransitive, Zenon
    <3>6. s \in Session
      <4>1. p \in Pollers \cup {NoPoller}
        OBVIOUS
      <4>. QED
        BY <3>4, <4>1, LaneUpdates, Zenon
    <3>7. WritesKept(acked, s)
      BY <3>4, LanesWritesKept, Zenon
    <3>. HIDE DEF s
    <3>8. WritesKept(s, ses')
      BY <2>2, <3>6, TakeOrParkWritesKept, Zenon DEF s, acked
    <3>. QED
      BY <3>5, <3>7, <3>8, WritesKeptTransitive, Zenon
  <2>. QED
    BY <1>6, <2>1, <2>2, Zenon DEF PollBegin
<1>7. CASE PollWakes(p) \/ PollResumes(p) \/ PollSuperseded(p)
  BY <1>3, <1>5, <1>7, Zenon DEF PollWakes, PollResumes, PollSuperseded, Signalled
<1>8. CASE PollCancelled(p) \/ PollExpires(p)
  BY <1>2, <1>3, <1>5, <1>8, Zenon DEF PollCancelled, PollExpires, Disown, Signalled
<1>9. CASE PollCloses(p) \/ PollReturns(p)
  BY <1>2, <1>4, <1>9, Zenon DEF PollCloses, PollReturns
<1>. QED
  BY <1>6, <1>7, <1>8, <1>9, Zenon DEF PollStep

-----------------------------------------------------------------------------
(* A step that keeps the write queues and puts no write loop to sleep      *)
(* loses no signal.                                                        *)
LEMMA QuietStep ==
  ASSUME NoLostWriterWakeup, WritesKept(ses, ses'), WritersQuiet
  PROVE  NoLostWriterWakeup'
BY DEF NoLostWriterWakeup, WritesKept, SameWrites, WritersQuiet, Live, stream

(* A step that changes the queue of one stream only.                       *)
LEMMA OneStreamStep ==
  ASSUME NoLostWriterWakeup, WritersQuiet, NEW id \in StreamIds,
         ses'.closed = ses.closed,
         \A other \in StreamIds \ {id} : ses'.streams[other] = ses.streams[other],
         \/ backends'[id].writer # "wait"
         \/ ses'.streams[id].writes = <<>>
         \/ ses'.streams[id].writeNotify = TRUE
  PROVE  NoLostWriterWakeup'
<1>1. ASSUME NEW other \in StreamIds, backends'[other].writer = "wait", Live(other)',
             stream(other)'.writes # <<>>
      PROVE  stream(other)'.writeNotify
  <2>1. CASE other = id
    BY <1>1, <2>1 DEF stream
  <2>2. CASE other # id
    BY <1>1, <2>2 DEF NoLostWriterWakeup, WritersQuiet, Live, stream
  <2>. QED
    BY <2>1, <2>2
<1>. QED
  BY <1>1 DEF NoLostWriterWakeup

(* The write loop takes a write, or goes to sleep on an empty queue.       *)
LEMMA NextWriteStep ==
  ASSUME TypeOK, NoLostWriterWakeup, NEW id \in StreamIds, NextWrite(id)
  PROVE  NoLostWriterWakeup'
<1>1. ses \in Session /\ backends \in [StreamIds -> BackendState] /\ WritesKept(ses, ses)
  BY SameStreams, Zenon DEF TypeOK, BackendTypeOK
<1>2. \A other \in StreamIds \ {id} : backends'[other] = backends[other]
  BY <1>1 DEF NextWrite, WriterExits
<1>3. CASE ~Live(id)
  <2>1. ses' = CancelBackend(ses, {id}) /\ WriterExits(id)
    BY <1>3, Zenon DEF NextWrite
  <2>2. WritesKept(ses, ses')
    BY <1>1, <2>1, CancelWritesKept, Zenon
  <2>3. WritersQuiet
    BY <1>1, <1>2, <2>1 DEF WriterExits, WritersQuiet, BackendState
  <2>. QED
    BY <2>2, <2>3, QuietStep, Zenon
<1>4. CASE Live(id) /\ ses.streams[id].writes # <<>>
  <2>. DEFINE queue == Tail(ses.streams[id].writes)
  <2>1. /\ backends' = [backends EXCEPT ![id].writer = "write",
                                        ![id].inHand = Head(ses.streams[id].writes)]
        /\ ses' = [ses EXCEPT !.streams[id].writes = Tail(@)]
    BY <1>4, Zenon DEF NextWrite
  <2>2. backends'[id].writer # "wait"
    BY <1>1, <2>1 DEF BackendState
  <2>3. WritersQuiet
    BY <1>2, <2>2 DEF WritersQuiet
  <2>4. /\ ses'.closed = ses.closed
        /\ \A other \in StreamIds \ {id} : ses'.streams[other] = ses.streams[other]
    BY <1>1, <2>1 DEF Session
  <2>. QED
    BY <2>2, <2>3, <2>4, OneStreamStep, Zenon
<1>5. CASE Live(id) /\ ses.streams[id].writes = <<>>
  <2>1. backends' = [backends EXCEPT ![id].writer = "wait"] /\ ses' = ses
    BY <1>5, Zenon DEF NextWrite
  <2>. QED
    BY <1>2, <1>5, <2>1 DEF NoLostWriterWakeup, Live, stream
<1>. QED
  BY <1>3, <1>4, <1>5

(* The write loop takes the token and looks at the queue next.             *)
LEMMA WriterWakesStep ==
  ASSUME TypeOK, NoLostWriterWakeup, NEW id \in StreamIds, WriterWakes(id), WritersQuiet
  PROVE  NoLostWriterWakeup'
<1>1. ses \in Session /\ backends \in [StreamIds -> BackendState]
  BY DEF TypeOK, BackendTypeOK
<1>2. backends'[id].writer # "wait"
  BY <1>1 DEF WriterWakes, BackendState
<1>3. /\ ses'.closed = ses.closed
      /\ \A other \in StreamIds \ {id} : ses'.streams[other] = ses.streams[other]
  BY <1>1 DEF WriterWakes, Session
<1>. QED
  BY <1>2, <1>3, OneStreamStep, Zenon

(* An opened stream has no writes, and a write that is queued is signalled. *)
LEMMA ApplyWritesStep ==
  ASSUME TypeOK, NoLostWriterWakeup, NEW u \in Uppers, ApplyOpen(u) \/ ApplyData(u)
  PROVE  NoLostWriterWakeup'
<1>. DEFINE id == Current(u).id
<1>1. /\ ses \in Session /\ backends \in [StreamIds -> BackendState] /\ UpsTypeOK
  BY Zenon DEF TypeOK, BackendTypeOK
<1>2. Applying(u) => ValidClientShape(Current(u)) /\ (id # 0 => id \in StreamIds)
  BY <1>1, CurrentType, Zenon
<1>3. CASE ApplyOpen(u)
  <2>1. id \in StreamIds
    BY <1>2, <1>3 DEF ApplyOpen, ValidClientShape
  <2>. HIDE DEF id
  <2>2. /\ ses' = [ses EXCEPT !.streams[id] = OpenedStream]
        /\ backends' = [backends EXCEPT ![id] = [NoBackend EXCEPT !.run = "opened"]]
    BY <1>3, Zenon DEF ApplyOpen, id
  <2>3. /\ ses'.closed = ses.closed
        /\ \A other \in StreamIds \ {id} : ses'.streams[other] = ses.streams[other]
    BY <1>1, <2>2 DEF Session
  <2>4. backends'[id].writer # "wait" /\ WritersQuiet
    BY <1>1, <2>1, <2>2 DEF WritersQuiet, NoBackend
  <2>. QED
    BY <2>1, <2>3, <2>4, OneStreamStep, Zenon
<1>4. CASE ApplyData(u)
  <2>1. id \in StreamIds
    BY <1>2, <1>4, Zenon DEF ApplyData
  <2>. DEFINE x == WriteQueued(ses.streams[id], Current(u).n)
  <2>2. ses' = [ses EXCEPT !.streams[id] = x] /\ backends' = backends
    BY <1>4, Zenon DEF ApplyData
  <2>3. x.writeNotify = TRUE
    <3>1. ses.streams[id] \in Stream
      BY <1>1, <2>1, SessionFields
    <3>. QED
      BY <3>1 DEF WriteQueued, Stream
  <2>. HIDE DEF x, id
  <2>4. /\ ses'.closed = ses.closed /\ ses'.streams[id] = x
        /\ \A other \in StreamIds \ {id} : ses'.streams[other] = ses.streams[other]
    BY <1>1, <2>1, <2>2 DEF Session
  <2>5. WritersQuiet
    BY <2>2 DEF WritersQuiet
  <2>. QED
    BY <2>1, <2>3, <2>4, <2>5, OneStreamStep
<1>. QED
  BY <1>3, <1>4

(* A handler that opens no stream leaves the loops of all backends alone.  *)
LoopsKept == \A id \in StreamIds :
               /\ backends'[id].writer = backends[id].writer
               /\ backends'[id].inHand = backends[id].inHand
               /\ backends'[id].reader = backends[id].reader
               /\ backends'[id].allowance = backends[id].allowance

LEMMA UpLoopsKept ==
  ASSUME TypeOK, NEW u \in Uppers, UpStep(u), ~ApplyOpen(u)
  PROVE  LoopsKept
<1>1. backends \in [StreamIds -> BackendState]
  BY Zenon DEF TypeOK, BackendTypeOK
<1>2. CASE UpLaunch(u)
  BY <1>1, <1>2 DEF UpLaunch, BackendState, LoopsKept
<1>3. CASE RejectOpen(u)
  <2>1. backends' = [backends EXCEPT ![Current(u).id].run = "done"]
    BY <1>3, Zenon DEF RejectOpen
  <2>. QED
    BY <1>1, <2>1 DEF BackendState, LoopsKept
<1>4. CASE ~UpLaunch(u) /\ ~RejectOpen(u)
  <2>1. UNCHANGED backends
    BY <1>4, Zenon DEF UpStep, UpCommit, ApplyNothing, ApplyToNoStream, ApplyData,
       ApplyWindow, ApplyClose, UpApplied, UpCloses, UpReturns
  <2>. QED
    BY <2>1, Zenon DEF LoopsKept
<1>. QED
  BY <1>2, <1>3, <1>4

LEMMA WriterWakeupInit == Init => NoLostWriterWakeup
<1>. SUFFICES ASSUME Init, NEW id \in StreamIds PROVE backends[id].writer # "wait"
  BY DEF NoLostWriterWakeup
<1>. QED
  BY DEF Init, BackendInit, NoBackend

LEMMA WriterWakeupStep ==
  ASSUME TypeOK, NoLostWriterWakeup, [Next]_vars
  PROVE  NoLostWriterWakeup'
<1>1. ses \in Session /\ backends \in [StreamIds -> BackendState] /\ WritesKept(ses, ses)
  BY SameStreams, Zenon DEF TypeOK, BackendTypeOK
<1>2. UNCHANGED backends => WritersQuiet
  BY DEF WritersQuiet
<1>3. ASSUME NEW u \in Uppers, UpStep(u) PROVE NoLostWriterWakeup'
  <2>1. CASE ApplyOpen(u) \/ ApplyData(u)
    BY <2>1, ApplyWritesStep, Zenon
  <2>2. CASE ~ApplyOpen(u) /\ ~ApplyData(u)
    <3>1. WritesKept(ses, ses')
      BY <1>3, <2>2, UpWritesKept, Zenon
    <3>2. WritersQuiet
      BY <1>3, <2>2, UpLoopsKept, Zenon DEF LoopsKept, WritersQuiet
    <3>. QED
      BY <3>1, <3>2, QuietStep, Zenon
  <2>. QED
    BY <2>1, <2>2
<1>4. ASSUME NEW u \in Uppers, NEW q, NEW body, UpBegin(u, q, body)
      PROVE  NoLostWriterWakeup'
  <2>1. UNCHANGED backends
    BY <1>4, Zenon DEF UpBegin
  <2>2. ses' = ses \/ ses' = [ses EXCEPT !.lanes[0].upActive = TRUE]
    BY <1>4, Zenon DEF UpBegin
  <2>. QED
    BY <1>1, <1>2, <2>1, <2>2, LanesWritesKept, QuietStep, Zenon
<1>5. ASSUME NEW id \in StreamIds, BackendNext(id) PROVE NoLostWriterWakeup'
  <2>1. BackendStep(id)
    BY <1>5, Zenon DEF BackendNext
  <2>2. CASE NextWrite(id)
    BY <2>2, NextWriteStep, Zenon
  <2>3. CASE ~NextWrite(id)
    BY <2>1, <2>3, BackendWritersQuiet, BackendWritesKept, WriterWakesStep, QuietStep, Zenon
  <2>. QED
    BY <2>2, <2>3
<1>6. CASE Close
  BY <1>1, <1>2, <1>6, CloseSessionWritesKept, QuietStep, Zenon DEF Close
<1>7. CASE UNCHANGED vars
  BY <1>1, <1>2, <1>7, QuietStep, Zenon DEF vars
<1>8. ASSUME NEW p \in Pollers,
             PollStep(p) \/ PollCancelled(p) \/ \E cursor : PollBegin(p, cursor)
      PROVE  NoLostWriterWakeup'
  <2>1. UNCHANGED backends
    BY <1>8, Zenon DEF PollStep, PollWakes, PollResumes, PollSuperseded, PollExpires,
       PollCloses, PollReturns, PollCancelled, PollBegin
  <2>. QED
    BY <1>2, <1>8, <2>1, PollWritesKept, QuietStep, Zenon
<1>. QED
  BY <1>3, <1>4, <1>5, <1>6, <1>7, <1>8, Zenon DEF Next, System, Environment

(* No payload that appendBackendWriteLocked queues leaves the write loop   *)
(* of a live stream asleep: whatever frames, polls and other backends do   *)
(* in between, the token of writeNotify is still in the channel.           *)
THEOREM NoLostWriterWakeupHolds == Spec => []NoLostWriterWakeup
BY TypeCorrect, WriterWakeupInit, WriterWakeupStep, PTL DEF Spec

-----------------------------------------------------------------------------
(* The tombstones: only the end of a stream and a refused OPEN write them. *)
SameOrder(s, t) == t.closedOrder = s.closedOrder

LEMMA OrderKept ==
  ASSUME NEW s \in Session
  PROVE  /\ \A cost \in Int, items \in Int : /\ SameOrder(s, ReleasePending(s, cost, items))
                                            /\ SameOrder(s, Reserve(s, cost, items))
         /\ \A ids : SameOrder(s, CancelBackend(s, ids))
         /\ SameOrder(s, CloseSession(s))
         /\ \A id, x : SameOrder(s, [s EXCEPT !.streams[id] = x])
         /\ \A id : SameOrder(s, FinishWrite(s, id))
         /\ \A id : \A k \in Int : SameOrder(s, Drain(s, id, k))
         /\ \A id, k : SameOrder(s, SpendCredit(s, id, k))
         /\ \A l, x : SameOrder(s, [s EXCEPT !.lanes[l] = x])
<1>. USE DEF SameOrder, Session
<1>1. ASSUME NEW cost \in Int, NEW items \in Int
      PROVE  /\ SameOrder(s, ReleasePending(s, cost, items))
             /\ SameOrder(s, Reserve(s, cost, items))
  BY DEF ReleasePending, Reserve
<1>2. \A ids : SameOrder(s, CancelBackend(s, ids))
  BY DEF CancelBackend
<1>3. SameOrder(s, CloseSession(s))
  BY DEF CloseSession
<1>4. \A id, x : SameOrder(s, [s EXCEPT !.streams[id] = x])
  OBVIOUS
<1>5. \A id : SameOrder(s, FinishWrite(s, id))
  BY FrameAssumption DEF FinishWrite, ReleasePending
<1>6. \A id : \A k \in Int : SameOrder(s, Drain(s, id, k))
  BY DEF Drain, ReleasePending
<1>7. \A id, k : SameOrder(s, SpendCredit(s, id, k))
  BY DEF SpendCredit
<1>8. \A l, x : SameOrder(s, [s EXCEPT !.lanes[l] = x])
  OBVIOUS
<1>. QED
  BY <1>1, <1>2, <1>3, <1>4, <1>5, <1>6, <1>7, <1>8

LEMMA QueueFrameOrderKept ==
  ASSUME NEW s \in Session, NEW f
  PROVE  SameOrder(s, QueueFrame(s, f))
<1>. DEFINE a == QueueCost(s.lanes[LaneOf(f.id)], f)
            b == QueueItems(s.lanes[LaneOf(f.id)], f)
            c == [s.lanes[LaneOf(f.id)] EXCEPT
                    !.frames = FramesWith(s.lanes[LaneOf(f.id)], f),
                    !.windows = WindowsWith(s.lanes[LaneOf(f.id)], f),
                    !.notify = TRUE]
<1>1. QueueFrame(s, f) = [s EXCEPT !.pendingCost = @ + a, !.pendingItems = @ + b,
                                   !.lanes[LaneOf(f.id)] = c]
  BY Zenon DEF QueueFrame
<1>. HIDE DEF a, b, c
<1>. QED
  BY <1>1 DEF Session, SameOrder

LEMMA AfterWriteOrderKept ==
  ASSUME NEW s \in Session, NEW id \in StreamIds, NEW k \in Nat, NEW pool
  PROVE  SameOrder(s, AfterWrite(s, id, k, pool))
<1>1. k \in Int
  OBVIOUS
<1>2. CASE CanDrain(s, id, k)
  <2>1. Drain(s, id, k) \in Session /\ SameOrder(s, Drain(s, id, k))
    BY <1>1, <1>2, DrainType, OrderKept, Zenon
  <2>2. \A f : SameOrder(s, QueueFrame(Drain(s, id, k), f))
    BY <2>1, QueueFrameOrderKept, Zenon DEF SameOrder
  <2>. QED
    BY <1>2, <2>1, <2>2, Zenon DEF AfterWrite
<1>3. CASE ~CanDrain(s, id, k)
  BY <1>3, Zenon DEF AfterWrite, SameOrder
<1>. QED
  BY <1>2, <1>3

LEMMA BackendOrderKept ==
  ASSUME TypeOK, NEW id \in StreamIds, BackendStep(id), ~BackendClosed(id)
  PROVE  SameOrder(ses, ses')
<1>1. ses \in Session /\ backends[id] \in BackendState
  BY Zenon DEF TypeOK, BackendTypeOK
<1>2. backends[id].inHand \in Nat
  BY <1>1, BackendFields
<1>3. CASE ses' = ses \/ ses' = CancelBackend(ses, {id})
  BY <1>1, <1>3 DEF CancelBackend, SameOrder, Session
<1>4. CASE Dialled(id) \/ DialFailed(id) \/ LoopsReturned(id) \/ BudgetWakesReader(id)
           \/ WriterStops(id) \/ ReadEnds(id)
  BY <1>3, <1>4, Zenon DEF Dialled, DialFailed, LoopsReturned, BudgetWakesReader,
                           WriterStops, ReadEnds
<1>5. CASE NextWrite(id) \/ WriterWakes(id) \/ NextRead(id) \/ CreditWakesReader(id)
           \/ ReaderStops(id)
  BY <1>1, <1>5 DEF NextWrite, WriterWakes, NextRead, CreditWakesReader, ReaderStops,
                    CancelBackend, SameOrder, Session
<1>6. CASE Write(id) \/ WriteFails(id)
  <2>1. PICK pool \in BOOLEAN, k \in Nat :
          \/ ses' = AfterWrite(ses, id, k, pool)
          \/ ses' = CancelBackend(AfterWrite(ses, id, k, pool), {id})
    <3>1. CASE Write(id)
      BY <1>2, <3>1, PoolAnswersType, Zenon DEF Write
    <3>2. CASE WriteFails(id)
      <4>1. PICK pool \in PoolAnswers("control"), k \in 0 .. backends[id].inHand - 1 :
              ses' = CancelBackend(AfterWrite(ses, id, k, pool), {id})
        BY <3>2, Zenon DEF WriteFails
      <4>2. pool \in BOOLEAN
        BY <4>1, PoolAnswersType, Zenon
      <4>3. k \in Nat
        BY <1>2, <4>1
      <4>. QED
        BY <4>1, <4>2, <4>3, Zenon
    <3>. QED
      BY <1>6, <3>1, <3>2
  <2>. DEFINE after == AfterWrite(ses, id, k, pool)
  <2>2. after \in Session /\ SameOrder(ses, after)
    BY <1>1, AfterWriteType, AfterWriteOrderKept, Zenon
  <2>. HIDE DEF after
  <2>3. SameOrder(after, CancelBackend(after, {id}))
    BY <2>2, OrderKept, Zenon
  <2>. QED
    BY <2>1, <2>2, <2>3, Zenon DEF SameOrder, after
<1>7. CASE WriteFinished(id)
  <2>1. CASE ses' = FinishWrite(ses, id)
    BY <1>1, <2>1, OrderKept, Zenon
  <2>. QED
    BY <1>3, <1>7, <2>1, Zenon DEF WriteFinished
<1>8. CASE Read(id)
  <2>1. PICK k \in 1 .. backends[id].allowance :
          LET spent == SpendCredit(ses, id, k)
          IN  \/ ses' = CancelBackend(ses, {id})
              \/ /\ CanTakeData(ses, id, k)
                 /\ \/ ses' = QueueFrame(spent, [type |-> "DATA", id |-> id, n |-> k])
                    \/ ses' = CancelBackend(spent, {id})
    BY <1>8, Zenon DEF Read
  <2>. DEFINE spent == SpendCredit(ses, id, k)
              frame == [type |-> "DATA", id |-> id, n |-> k]
  <2>2. SameOrder(ses, spent) /\ (CanTakeData(ses, id, k) => spent \in Session)
    BY <1>1, <2>1, OrderKept, SpendCreditType, Zenon
  <2>. HIDE DEF spent, frame
  <2>3. CanTakeData(ses, id, k) => /\ SameOrder(spent, QueueFrame(spent, frame))
                                   /\ SameOrder(spent, CancelBackend(spent, {id}))
    BY <2>2, QueueFrameOrderKept, OrderKept, Zenon
  <2>4. \/ ses' = CancelBackend(ses, {id})
        \/ CanTakeData(ses, id, k) /\ ses' = QueueFrame(spent, frame)
        \/ CanTakeData(ses, id, k) /\ ses' = CancelBackend(spent, {id})
    BY <2>1, Zenon DEF spent, frame
  <2>. QED
    BY <1>3, <2>2, <2>3, <2>4, Zenon DEF SameOrder
<1>. QED
  BY <1>4, <1>5, <1>6, <1>7, <1>8, Zenon DEF BackendStep

LEMMA UpOrderKept ==
  ASSUME TypeOK, NEW u \in Uppers, UpStep(u), ~RejectOpen(u), ~ApplyClose(u)
  PROVE  SameOrder(ses, ses')
<1>1. ses \in Session /\ ups[u] \in UpState
  BY Zenon DEF TypeOK, BackendTypeOK, UpsTypeOK
<1>2. CASE ApplyNothing(u) \/ ApplyToNoStream(u) \/ UpReturns(u)
  BY <1>2, Zenon DEF ApplyNothing, ApplyToNoStream, UpReturns, SameOrder
<1>3. CASE ApplyOpen(u) \/ ApplyData(u)
  <2>1. PICK id, x : ses' = [ses EXCEPT !.streams[id] = x]
    BY <1>3, Zenon DEF ApplyOpen, ApplyData
  <2>. QED
    BY <1>1, <2>1 DEF SameOrder, Session
<1>4. CASE ApplyWindow(u)
  BY <1>1, <1>4 DEF ApplyWindow, SameOrder, Session
<1>5. CASE UpLaunch(u) \/ UpCloses(u)
  BY <1>1, <1>5, OrderKept, Zenon DEF UpLaunch, UpCloses
<1>6. CASE UpCommit(u)
  <2>. DEFINE idle == [ses EXCEPT !.lanes[0].upActive = FALSE]
              cost == WriteCost(ses, ups[u].body)
              items == WriteItems(ses, ups[u].body)
  <2>1. idle \in Session /\ SameOrder(ses, idle)
    <3>1. SameOrder(ses, idle)
      BY <1>1 DEF SameOrder, Session
    <3>. QED
      BY <1>1, <3>1, LaneUpdates, Zenon
  <2>2. cost \in Int /\ items \in Int
    BY <1>1, UpFields, WriteCostType, Zenon
  <2>3. ses' = idle \/ ses' = Reserve(idle, cost, items)
    BY <1>6, Zenon DEF UpCommit
  <2>. HIDE DEF idle, cost, items
  <2>4. SameOrder(idle, Reserve(idle, cost, items))
    BY <2>1, <2>2, OrderKept, Zenon
  <2>. QED
    BY <2>1, <2>3, <2>4, Zenon DEF SameOrder
<1>7. CASE UpApplied(u)
  <2>. DEFINE r == ReleasePending(ses, ups[u].cost, ups[u].items)
  <2>1. r \in Session /\ SameOrder(ses, r)
    BY <1>1, UpFields, ReleasePendingType, OrderKept, Zenon
  <2>2. ses' = [r EXCEPT !.lanes[0].lastUpSequence = ups[u].seq,
                         !.lanes[0].lastUpDigest = ups[u].body]
    BY <1>7, Zenon DEF UpApplied
  <2>. HIDE DEF r
  <2>. QED
    BY <2>1, <2>2 DEF SameOrder, Session
<1>. QED
  BY <1>2, <1>3, <1>4, <1>5, <1>6, <1>7, Zenon DEF UpStep

LEMMA TakeOrParkOrderKept ==
  ASSUME NEW s \in Session, NEW ps, NEW p, TakeOrPark(s, ps, p)
  PROVE  SameOrder(s, ses')
<1>1. CASE s.lanes[0].frames = <<>>
  BY <1>1, Zenon DEF TakeOrPark, SameOrder
<1>2. CASE s.lanes[0].frames # <<>>
  <2>1. PICK k : ses' = TakenBy(s, ps[p].cursor, k)
    BY <1>2, Zenon DEF TakeOrPark
  <2>. DEFINE x == TakeBatch(s.lanes[0], k, ps[p].cursor)
  <2>2. ses' = [s EXCEPT !.lanes[0] = x]
    BY <2>1, SessionFields, LaneZero DEF TakenBy, Session
  <2>. HIDE DEF x
  <2>. QED
    BY <2>2 DEF SameOrder, Session
<1>. QED
  BY <1>1, <1>2

LEMMA PollOrderKept ==
  ASSUME TypeOK, NEW p \in Pollers,
         PollStep(p) \/ PollCancelled(p) \/ \E cursor : PollBegin(p, cursor)
  PROVE  SameOrder(ses, ses')
<1>1. ses \in Session
  BY Zenon DEF TypeOK, BackendTypeOK
<1>2. CASE ses' = ses
  BY <1>2, Zenon DEF SameOrder
<1>3. CASE \/ ses' = [ses EXCEPT !.lanes[0].owner = NoPoller]
           \/ ses' = [ses EXCEPT !.lanes[0].notify = FALSE]
           \/ ses' = [ses EXCEPT !.lanes[0].notify = TRUE]
  BY <1>1, <1>3 DEF SameOrder, Session
<1>4. CASE ses' = CloseSession(ses)
  BY <1>1, <1>4, OrderKept, Zenon
<1>5. CASE TakeOrPark(ses, polls, p)
  BY <1>1, <1>5, TakeOrParkOrderKept, Zenon
<1>6. CASE \E cursor : PollBegin(p, cursor)
  <2>1. CASE UNCHANGED ses
    BY <1>2, <2>1
  <2>2. CASE \E ps : TakeOrPark([AckUnacked(ses, 0) EXCEPT !.lanes[0].owner = p], ps, p)
    <3>. DEFINE acked == AckUnacked(ses, 0)
                s == [acked EXCEPT !.lanes[0].owner = p]
                lane == ses.lanes[0]
                r == ReleasePending(ses, lane.unackedCost, lane.unackedItems)
                x == [lane EXCEPT !.unacked = <<>>, !.unackedCost = 0, !.unackedItems = 0]
    <3>1. lane.unackedCost \in Int /\ lane.unackedItems \in Int
      BY <1>1, SessionFields, LaneFields, LaneZero
    <3>2. r \in Session /\ SameOrder(ses, r)
      BY <1>1, <3>1, ReleasePendingType, OrderKept, Zenon
    <3>3. acked = [r EXCEPT !.lanes[0] = x]
      BY Zenon DEF AckUnacked
    <3>4. acked \in Session
      BY <1>1, LaneZero, AckUnackedType, Zenon
    <3>. HIDE DEF acked, r, x
    <3>5. SameOrder(ses, acked)
      BY <3>2, <3>3 DEF SameOrder, Session
    <3>6. s \in Session
      <4>1. p \in Pollers \cup {NoPoller}
        OBVIOUS
      <4>. QED
        BY <3>4, <4>1, LaneUpdates, Zenon
    <3>7. SameOrder(acked, s)
      BY <3>4 DEF SameOrder, Session
    <3>. HIDE DEF s
    <3>8. SameOrder(s, ses')
      BY <2>2, <3>6, TakeOrParkOrderKept, Zenon DEF s, acked
    <3>. QED
      BY <3>5, <3>7, <3>8, Zenon DEF SameOrder
  <2>. QED
    BY <1>6, <2>1, <2>2, Zenon DEF PollBegin
<1>7. CASE PollWakes(p) \/ PollResumes(p) \/ PollSuperseded(p)
  BY <1>3, <1>5, <1>7, Zenon DEF PollWakes, PollResumes, PollSuperseded, Signalled
<1>8. CASE PollCancelled(p) \/ PollExpires(p)
  BY <1>2, <1>3, <1>5, <1>8, Zenon DEF PollCancelled, PollExpires, Disown, Signalled
<1>9. CASE PollCloses(p) \/ PollReturns(p)
  BY <1>2, <1>4, <1>9, Zenon DEF PollCloses, PollReturns
<1>. QED
  BY <1>6, <1>7, <1>8, <1>9, Zenon DEF PollStep

-----------------------------------------------------------------------------
(* A stream that ends becomes a tombstone.                                 *)
(* No tombstone is added and no stream opened.                             *)
Calm(s, t) ==
  /\ SameOrder(s, t)
  /\ \A id \in StreamIds : t.streams[id].live => s.streams[id].live

LEMMA CalmTombs ==
  ASSUME NEW s \in Session, NEW t, Calm(s, t), Tombs(s)
  PROVE  Tombs(t)
<1>1. s.closedOrder \in Seq(StreamIds)
  BY SessionFields
<1>. QED
  BY <1>1 DEF Calm, SameOrder, Tombs

(* EndStream on a record: the stream is gone before it is remembered.      *)
LEMMA EndTombs ==
  ASSUME NEW s \in Session, NEW id \in StreamIds, Tombs(s)
  PROVE  /\ Tombs(EndStream(s, id))
         /\ \A other \in StreamIds :
              EndStream(s, id).streams[other].live => s.streams[other].live
         /\ \A other : WasClosed(EndStream(s, id), other) => WasClosed(s, other) \/ other = id
<1>. DEFINE d == DropStream(s, id)
            r == ReleasePending(s, s.streams[id].pendingWriteCost,
                                   s.streams[id].pendingWriteItems)
<1>1. r \in Session /\ SameOrder(s, r) /\ WritesKept(s, r)
  <2>1. s.streams[id].pendingWriteCost \in Int /\ s.streams[id].pendingWriteItems \in Int
    BY SessionFields, StreamFields
  <2>. QED
    BY <2>1, ReleasePendingType, OrderKept, BudgetWritesKept, Zenon
<1>2. d = [r EXCEPT !.streams[id] = NoStream]
  BY Zenon DEF DropStream
<1>3. d \in Session /\ WritesKept(s, d)
  BY DropStreamType, DropStreamWritesKept, Zenon
<1>. HIDE DEF r, d
<1>4. SameOrder(s, d) /\ ~d.streams[id].live
  BY <1>1, <1>2 DEF SameOrder, Session, NoStream
<1>5. Calm(s, d)
  BY <1>3, <1>4 DEF Calm, WritesKept, SameWrites
<1>6. Tombs(d)
  BY <1>5, CalmTombs, Zenon
<1>7. \A other : WasClosed(d, other) <=> WasClosed(s, other)
  BY <1>4, Zenon DEF WasClosed, SameOrder
<1>8. EndStream(s, id) = RememberClosed(d, id)
  BY Zenon DEF EndStream, d
<1>9. /\ Tombs(RememberClosed(d, id))
      /\ RememberClosed(d, id).streams = d.streams
      /\ \A other : WasClosed(RememberClosed(d, id), other) => WasClosed(d, other) \/ other = id
  BY <1>3, <1>4, <1>6, RememberTombs, Zenon
<1>. QED
  BY <1>5, <1>7, <1>8, <1>9, Zenon DEF Calm

(* backendClosed ends the stream, and tells the client or closes.          *)
LEMMA BackendClosedTombs ==
  ASSUME TypeOK, NEW id \in StreamIds, BackendClosed(id), Tombs(ses)
  PROVE  Tombs(ses')
<1>1. ses \in Session /\ Calm(ses, ses)
  BY Zenon DEF TypeOK, BackendTypeOK, Calm, SameOrder
<1>2. PICK pool : ses' = CancelBackend(IF Live(id) THEN ClosedByBackend(ses, id, pool) ELSE ses,
                                       {id})
  BY Zenon DEF BackendClosed
<1>3. ASSUME NEW s \in Session, Tombs(s) PROVE Tombs(CancelBackend(s, {id}))
  <2>1. Calm(s, CancelBackend(s, {id}))
    BY <1>3 DEF CancelBackend, Session, Calm, SameOrder
  <2>. QED
    BY <1>3, <2>1, CalmTombs, Zenon
<1>4. ClosedByBackend(ses, id, pool) \in Session
  BY <1>1, ClosedByBackendType, Zenon
<1>5. Tombs(ClosedByBackend(ses, id, pool))
  <2>. DEFINE ended == EndStream(ses, id)
  <2>1. ended \in Session /\ Tombs(ended)
    BY <1>1, EndStreamType, EndTombs, Zenon
  <2>. HIDE DEF ended
  <2>2. ASSUME NEW t, SameOrder(ended, t), WritesKept(ended, t) PROVE Tombs(t)
    <3>1. Calm(ended, t)
      BY <2>2, Zenon DEF Calm, WritesKept, SameWrites
    <3>. QED
      BY <2>1, <3>1, CalmTombs, Zenon
  <2>3. \A f : Tombs(QueueFrame(ended, f))
    BY <2>1, <2>2, QueueFrameOrderKept, QueueFrameWritesKept, Zenon
  <2>4. Tombs(CloseSession(ended))
    BY <2>1, <2>2, OrderKept, CloseSessionWritesKept, Zenon
  <2>. QED
    BY <2>3, <2>4, Zenon DEF ClosedByBackend, ended
<1>. QED
  BY <1>1, <1>2, <1>3, <1>4, <1>5, Zenon

-----------------------------------------------------------------------------
(* The OPENs still to come of a body that is being applied name streams    *)
(* that are neither live nor remembered: validateBatchLocked saw to it,    *)
(* and the handler has held the mutex since.                               *)
OpensAhead(s, body, k) ==
  \A j \in k .. Len(body) :
    body[j].type = "OPEN" =>
      /\ body[j].id \in StreamIds
      /\ ~WasClosed(s, body[j].id)
      /\ ~s.streams[body[j].id].live
      /\ \A i \in k .. j - 1 :
           body[i].id = body[j].id => body[i].type \notin {"OPEN", "CLOSE"}

OpensFresh == \A u \in Uppers : ups[u].pc = "applying" => OpensAhead(ses, ups[u].body, ups[u].k)

TombInv == Tombs(ses) /\ OpensFresh

(* A validated body satisfies it at its first frame.                       *)
LEMMA ValidOpensAhead ==
  ASSUME NEW s, NEW body \in Bodies \cup {<<>>}, WellFormedBody(body), ValidBatch(s, body)
  PROVE  OpensAhead(s, body, 1)
<1>1. body \in Seq(Frame)
  BY BodyType
<1>. SUFFICES ASSUME NEW j \in 1 .. Len(body), body[j].type = "OPEN"
              PROVE  /\ body[j].id \in StreamIds
                     /\ ~WasClosed(s, body[j].id)
                     /\ ~s.streams[body[j].id].live
                     /\ \A i \in 1 .. j - 1 :
                          body[i].id = body[j].id => body[i].type \notin {"OPEN", "CLOSE"}
  BY DEF OpensAhead
<1>2. ~OpenBefore(s, body, j) /\ ~ClosedBefore(s, body, j)
  BY DEF ValidBatch, ValidFrame
<1>3. body[j].id \in StreamIds
  <2>1. ValidClientShape(body[j])
    BY DEF WellFormedBody
  <2>2. body[j] \in Frame
    BY <1>1
  <2>. QED
    BY <2>1, <2>2 DEF ValidClientShape, Frame
<1>. QED
  BY <1>2, <1>3 DEF OpenBefore, ClosedBefore

LEMMA CalmOpensAhead ==
  ASSUME NEW s, NEW t, Calm(s, t), NEW body, NEW k, OpensAhead(s, body, k)
  PROVE  OpensAhead(t, body, k)
<1>1. \A id : WasClosed(t, id) <=> WasClosed(s, id)
  BY Zenon DEF Calm, SameOrder, WasClosed
<1>. QED
  BY <1>1, Zenon DEF OpensAhead, Calm

(* The frame at k is applied and touches its own stream at most.           *)
LEMMA OpensAheadNext ==
  ASSUME NEW s, NEW t, NEW body \in Seq(Frame), NEW k \in Nat, k <= Len(body),
         OpensAhead(s, body, k),
         \A id : WasClosed(t, id) =>
                   WasClosed(s, id) \/ (id = body[k].id /\ body[k].type \in {"OPEN", "CLOSE"}),
         \A id \in StreamIds : t.streams[id].live =>
                   s.streams[id].live \/ (id = body[k].id /\ body[k].type = "OPEN")
  PROVE  OpensAhead(t, body, k + 1)
<1>1. Len(body) \in Nat
  OBVIOUS
<1>. SUFFICES ASSUME NEW j \in k + 1 .. Len(body), body[j].type = "OPEN"
              PROVE  /\ body[j].id \in StreamIds
                     /\ ~WasClosed(t, body[j].id)
                     /\ ~t.streams[body[j].id].live
                     /\ \A i \in k + 1 .. j - 1 :
                          body[i].id = body[j].id => body[i].type \notin {"OPEN", "CLOSE"}
  BY DEF OpensAhead
<1>2. j \in k .. Len(body) /\ k \in k .. j - 1 /\ \A i \in k + 1 .. j - 1 : i \in k .. j - 1
  BY <1>1
<1>3. /\ ~WasClosed(s, body[j].id) /\ ~s.streams[body[j].id].live
      /\ body[j].id \in StreamIds
      /\ \A i \in k .. j - 1 : body[i].id = body[j].id => body[i].type \notin {"OPEN", "CLOSE"}
  BY <1>2, Zenon DEF OpensAhead
<1>4. body[k].id = body[j].id => body[k].type \notin {"OPEN", "CLOSE"}
  BY <1>2, <1>3, Zenon
<1>5. body[k].id = body[j].id => body[k].type # "OPEN"
  BY <1>4
<1>6. ~WasClosed(t, body[j].id)
  BY <1>3, <1>4, Zenon
<1>7. ~t.streams[body[j].id].live
  BY <1>3, <1>5, Zenon
<1>. QED
  BY <1>2, <1>3, <1>6, <1>7, Zenon

(* A step that adds no tombstone and opens no stream, and during which no  *)
(* handler comes to another frame.                                         *)
LEMMA CalmStep ==
  ASSUME ses \in Session, TombInv, Calm(ses, ses'),
         \A u \in Uppers : ups'[u].pc = "applying" =>
            ups[u].pc = "applying" /\ ups'[u].body = ups[u].body /\ ups'[u].k = ups[u].k
  PROVE  TombInv'
<1>1. Tombs(ses')
  BY CalmTombs, Zenon DEF TombInv
<1>2. ASSUME NEW u \in Uppers, ups'[u].pc = "applying"
      PROVE  OpensAhead(ses', ups'[u].body, ups'[u].k)
  <2>1. OpensAhead(ses, ups'[u].body, ups'[u].k)
    BY <1>2, Zenon DEF TombInv, OpensFresh
  <2>. QED
    BY <2>1, CalmOpensAhead, Zenon
<1>. QED
  BY <1>1, <1>2, Zenon DEF TombInv, OpensFresh, Tombs

(* A step of one handler: the others are not applying anything, or not     *)
(* disturbed.                                                              *)
LEMMA OneUpStep ==
  ASSUME UpsTypeOK, OpensFresh, Tombs(ses'), NEW u \in Uppers, NEW r,
         ups' = [ups EXCEPT ![u] = r],
         r.pc = "applying" => OpensAhead(ses', r.body, r.k),
         \/ Calm(ses, ses')
         \/ \A v \in Uppers \ {u} : ups[v].pc # "applying"
  PROVE  TombInv'
<1>1. ups'[u] = r /\ \A v \in Uppers \ {u} : ups'[v] = ups[v]
  BY DEF UpsTypeOK
<1>2. ASSUME NEW v \in Uppers \ {u}, ups'[v].pc = "applying"
      PROVE  OpensAhead(ses', ups'[v].body, ups'[v].k)
  <2>1. ups[v].pc = "applying" /\ Calm(ses, ses') /\ ups'[v] = ups[v]
    BY <1>1, <1>2, Zenon
  <2>2. OpensAhead(ses, ups[v].body, ups[v].k)
    BY <2>1, Zenon DEF OpensFresh
  <2>3. OpensAhead(ses', ups[v].body, ups[v].k)
    BY <2>1, <2>2, CalmOpensAhead, Zenon
  <2>. QED
    BY <2>1, <2>3, Zenon
<1>3. ASSUME NEW v \in Uppers, ups'[v].pc = "applying"
      PROVE  OpensAhead(ses', ups'[v].body, ups'[v].k)
  <2>1. CASE v = u
    BY <1>1, <1>3, <2>1
  <2>2. CASE v # u
    BY <1>2, <1>3, <2>2, Zenon
  <2>. QED
    BY <2>1, <2>2
<1>. QED
  BY <1>3, Zenon DEF TombInv, OpensFresh, Tombs

(* The handler that holds the mutex is the only one that applies frames.   *)
LEMMA OthersNotApplying ==
  ASSUME UplinkInv
  PROVE  /\ ~locked => \A v \in Uppers : ups[v].pc # "applying"
         /\ \A u \in Uppers : ups[u].pc \in {"applying", "parsing"} =>
              \A v \in Uppers \ {u} : ups[v].pc # "applying"
BY DEF UplinkInv, LockHeld, SingleUplink, Held

LEMMA UpCommitTombs ==
  ASSUME TypeOK, UplinkInv, TombInv, NEW u \in Uppers, UpCommit(u)
  PROVE  TombInv'
<1>1. /\ ses \in Session /\ UpsTypeOK /\ ups[u] \in UpState
      /\ ups[u].pc = "parsing" /\ Tombs(ses) /\ OpensFresh
  BY Zenon DEF TypeOK, BackendTypeOK, UpsTypeOK, UpCommit, TombInv
<1>2. Calm(ses, ses')
  <2>1. UpStep(u) /\ ~ApplyOpen(u) /\ ~ApplyData(u) /\ ~RejectOpen(u) /\ ~ApplyClose(u)
    BY <1>1 DEF UpStep, ApplyOpen, ApplyData, RejectOpen, ApplyClose, Applying
  <2>. QED
    BY <2>1, UpOrderKept, UpWritesKept, Zenon DEF Calm, WritesKept, SameWrites
<1>3. Tombs(ses')
  BY <1>1, <1>2, CalmTombs, Zenon
<1>4. CASE \E pc \in {"failed", "failing", "retry"} : UpEnds(u, pc)
  <2>1. PICK pc \in {"failed", "failing", "retry"} : UpEnds(u, pc)
    BY <1>4
  <2>. DEFINE r == [NoUp EXCEPT !.pc = pc]
  <2>2. ups' = [ups EXCEPT ![u] = r] /\ r.pc # "applying"
    BY <2>1 DEF UpEnds, NoUp
  <2>. HIDE DEF r
  <2>. QED
    BY <1>1, <1>2, <1>3, <2>2, OneUpStep, Zenon
<1>5. CASE /\ WellFormedBody(ups[u].body) /\ ValidBatch(ses, ups[u].body)
           /\ \E cost, items : ups' = [ups EXCEPT ![u].pc = "applying", ![u].k = 1,
                                                  ![u].cost = cost, ![u].items = items]
  <2>1. PICK cost, items : ups' = [ups EXCEPT ![u].pc = "applying", ![u].k = 1,
                                              ![u].cost = cost, ![u].items = items]
    BY <1>5
  <2>. DEFINE r == [ups[u] EXCEPT !.pc = "applying", !.k = 1, !.cost = cost, !.items = items]
  <2>2. ups' = [ups EXCEPT ![u] = r]
    BY <2>1 DEF UpsTypeOK
  <2>3. r.body = ups[u].body /\ r.k = 1
    BY <1>1 DEF UpState
  <2>. HIDE DEF r
  <2>4. OpensAhead(ses, ups[u].body, 1)
    BY <1>1, <1>5, UpFields, ValidOpensAhead, Zenon
  <2>5. OpensAhead(ses', ups[u].body, 1)
    BY <1>2, <2>4, CalmOpensAhead, Zenon
  <2>. QED
    BY <1>1, <1>2, <1>3, <2>2, <2>3, <2>5, OneUpStep
<1>. QED
  BY <1>4, <1>5, Zenon DEF UpCommit

(* What an applied frame does to the tombstones and the live streams, and  *)
(* where the handler stands then.                                          *)
LEMMA AppliedTombs ==
  ASSUME TypeOK, UplinkInv, TombInv, NEW u \in Uppers, Applying(u), Tombs(ses'),
         \A id : WasClosed(ses', id) =>
            \/ WasClosed(ses, id)
            \/ id = Current(u).id /\ Current(u).type \in {"OPEN", "CLOSE"},
         \A id \in StreamIds : ses'.streams[id].live =>
            \/ ses.streams[id].live
            \/ id = Current(u).id /\ Current(u).type = "OPEN",
         NEW r, ups' = [ups EXCEPT ![u] = r],
         r.pc = "applying" => r.body = ups[u].body /\ r.k = ups[u].k + 1
  PROVE  TombInv'
<1>1. UpsTypeOK /\ ups[u] \in UpState /\ ups[u].pc = "applying" /\ OpensFresh
  BY Zenon DEF TypeOK, UpsTypeOK, TombInv, Applying
<1>2. ups[u].body \in Seq(Frame) /\ ups[u].k \in Nat /\ ups[u].k <= Len(ups[u].body)
  BY <1>1, UpFields, BodyType DEF Applying
<1>3. OpensAhead(ses, ups[u].body, ups[u].k)
  BY <1>1, Zenon DEF OpensFresh
<1>4. OpensAhead(ses', ups[u].body, ups[u].k + 1)
  BY <1>2, <1>3, OpensAheadNext, Zenon DEF Current
<1>5. \A v \in Uppers \ {u} : ups[v].pc # "applying"
  BY <1>1, OthersNotApplying
<1>6. r.pc = "applying" => OpensAhead(ses', r.body, r.k)
  BY <1>4
<1>. QED
  BY <1>1, <1>5, <1>6, OneUpStep, Zenon

(* The record of a handler that has applied a frame.                       *)
LEMMA AppliedUp ==
  ASSUME UpsTypeOK, NEW u \in Uppers,
         \/ NextFrame(u) \/ ApplyOpen(u) \/ ApplyData(u) \/ ApplyClose(u)
  PROVE  \E r : ups' = [ups EXCEPT ![u] = r] /\ r.body = ups[u].body /\ r.k = ups[u].k + 1
<1>1. ups \in [Uppers -> UpState] /\ ups[u] \in UpState
  BY DEF UpsTypeOK
<1>2. CASE NextFrame(u)
  <2>. DEFINE r == [ups[u] EXCEPT !.k = @ + 1]
  <2>1. ups' = [ups EXCEPT ![u] = r] /\ r.body = ups[u].body /\ r.k = ups[u].k + 1
    BY <1>1, <1>2 DEF NextFrame, UpState
  <2>. QED
    BY <2>1
<1>3. CASE ApplyOpen(u)
  <2>. DEFINE r == [ups[u] EXCEPT !.k = @ + 1, !.toStart = @ \cup {Current(u).id}]
  <2>1. ups' = [ups EXCEPT ![u] = r]
    BY <1>1, <1>3 DEF ApplyOpen
  <2>2. r.body = ups[u].body /\ r.k = ups[u].k + 1
    BY <1>1 DEF UpState
  <2>. QED
    BY <2>1, <2>2, Zenon
<1>4. CASE ApplyData(u)
  <2>1. PICK c, i : ups' = [ups EXCEPT ![u].k = @ + 1, ![u].cost = @ - c, ![u].items = @ - i]
    BY <1>4, Zenon DEF ApplyData
  <2>. DEFINE r == [ups[u] EXCEPT !.k = @ + 1, !.cost = @ - c, !.items = @ - i]
  <2>2. ups' = [ups EXCEPT ![u] = r]
    BY <1>1, <2>1
  <2>3. r.body = ups[u].body /\ r.k = ups[u].k + 1
    BY <1>1 DEF UpState
  <2>. QED
    BY <2>2, <2>3, Zenon
<1>5. CASE ApplyClose(u)
  <2>. DEFINE r == [ups[u] EXCEPT !.k = @ + 1, !.toStop = @ \cup {Current(u).id}]
  <2>1. ups' = [ups EXCEPT ![u] = r]
    BY <1>1, <1>5 DEF ApplyClose
  <2>2. r.body = ups[u].body /\ r.k = ups[u].k + 1
    BY <1>1 DEF UpState
  <2>. QED
    BY <2>1, <2>2, Zenon
<1>. QED
  BY <1>2, <1>3, <1>4, <1>5

LEMMA ApplyOpenTombs ==
  ASSUME TypeOK, UplinkInv, TombInv, NEW u \in Uppers, ApplyOpen(u)
  PROVE  TombInv'
<1>. DEFINE id == Current(u).id
<1>1. /\ ses \in Session /\ UpsTypeOK /\ ups[u] \in UpState /\ Tombs(ses) /\ OpensFresh
      /\ Applying(u) /\ ups[u].pc = "applying" /\ Current(u).type = "OPEN"
  BY Zenon DEF TypeOK, BackendTypeOK, UpsTypeOK, ApplyOpen, TombInv, Applying
<1>2. ~WasClosed(ses, id)
  <2>1. ups[u].k \in ups[u].k .. Len(ups[u].body)
    BY <1>1, UpFields, BodyType DEF Applying
  <2>. QED
    BY <1>1, <2>1, Zenon DEF OpensFresh, OpensAhead, Current
<1>. HIDE DEF id
<1>3. ses' = [ses EXCEPT !.streams[id] = OpenedStream]
  BY Zenon DEF ApplyOpen, id
<1>4. /\ SameOrder(ses, ses')
      /\ \A other \in StreamIds \ {id} : ses'.streams[other] = ses.streams[other]
  BY <1>1, <1>3 DEF SameOrder, Session
<1>5. \A other : WasClosed(ses', other) <=> WasClosed(ses, other)
  BY <1>4, Zenon DEF SameOrder, WasClosed
<1>6. Tombs(ses')
  <2>1. ses.closedOrder \in Seq(StreamIds)
    BY <1>1, SessionFields
  <2>2. ASSUME NEW k \in 1 .. Len(ses.closedOrder)
        PROVE  ~ses'.streams[ses.closedOrder[k]].live
    <3>1. ses.closedOrder[k] # id
      BY <1>2, Zenon DEF WasClosed
    <3>2. ses.closedOrder[k] \in StreamIds
      BY <2>1
    <3>. QED
      BY <1>1, <1>4, <3>1, <3>2, Zenon DEF Tombs
  <2>. QED
    BY <1>1, <1>4, <2>2, Zenon DEF Tombs, SameOrder
<1>7. \A other \in StreamIds : ses'.streams[other].live =>
        ses.streams[other].live \/ (other = Current(u).id /\ Current(u).type = "OPEN")
  BY <1>1, <1>4, Zenon DEF id
<1>8. PICK r : ups' = [ups EXCEPT ![u] = r] /\ r.body = ups[u].body /\ r.k = ups[u].k + 1
  BY <1>1, AppliedUp, Zenon
<1>. QED
  BY <1>1, <1>5, <1>6, <1>7, <1>8, AppliedTombs, Zenon

(* A refused OPEN becomes a tombstone; whatever of the body is not applied *)
(* any more does not matter.                                               *)
LEMMA RejectOpenTombs ==
  ASSUME TypeOK, UplinkInv, TombInv, NEW u \in Uppers, RejectOpen(u)
  PROVE  TombInv'
<1>. DEFINE id == Current(u).id
            remembered == RememberClosed(ses, id)
            queued == QueueFrame(remembered, [type |-> "CLOSE", id |-> id, n |-> 0])
            released == ReleasePending(remembered, ups[u].cost, ups[u].items)
<1>1. /\ ses \in Session /\ UpsTypeOK /\ ups[u] \in UpState /\ Tombs(ses) /\ OpensFresh
      /\ Applying(u) /\ ups[u].pc = "applying" /\ Current(u).type = "OPEN"
  BY Zenon DEF TypeOK, BackendTypeOK, UpsTypeOK, RejectOpen, TombInv, Applying
<1>2. id \in StreamIds /\ ~ses.streams[id].live
  <2>1. ups[u].k \in ups[u].k .. Len(ups[u].body)
    BY <1>1, UpFields, BodyType DEF Applying
  <2>. QED
    BY <1>1, <2>1, Zenon DEF OpensFresh, OpensAhead, Current
<1>3. /\ remembered \in Session /\ Tombs(remembered) /\ remembered.streams = ses.streams
      /\ \A other : WasClosed(remembered, other) => WasClosed(ses, other) \/ other = id
  BY <1>1, <1>2, RememberClosedType, RememberTombs, Zenon
<1>. HIDE DEF remembered
<1>4. Calm(remembered, queued) /\ Calm(remembered, released)
  <2>1. \A f : SameOrder(remembered, QueueFrame(remembered, f))
               /\ WritesKept(remembered, QueueFrame(remembered, f))
    BY <1>3, QueueFrameOrderKept, QueueFrameWritesKept, Zenon
  <2>2. SameOrder(remembered, released) /\ WritesKept(remembered, released)
    BY <1>1, <1>3, UpFields, OrderKept, BudgetWritesKept, Zenon
  <2>. QED
    BY <2>1, <2>2, Zenon DEF Calm, WritesKept, SameWrites
<1>5. \/ ses' = queued /\ NextFrame(u)
      \/ /\ ses' = released
         /\ ups' = [ups EXCEPT ![u].pc = "launching", ![u].cost = 0, ![u].items = 0]
  BY Zenon DEF RejectOpen, remembered
<1>. HIDE DEF queued, released
<1>6. Calm(remembered, ses')
  BY <1>4, <1>5
<1>7. Tombs(ses')
  BY <1>3, <1>6, CalmTombs, Zenon
<1>8. \A other : WasClosed(ses', other) <=> WasClosed(remembered, other)
  BY <1>6, Zenon DEF Calm, SameOrder, WasClosed
<1>9. \A other \in StreamIds : ses'.streams[other].live => ses.streams[other].live
  BY <1>3, <1>6, Zenon DEF Calm
<1>10. PICK r : /\ ups' = [ups EXCEPT ![u] = r]
                /\ r.pc = "applying" => r.body = ups[u].body /\ r.k = ups[u].k + 1
  <2>1. CASE NextFrame(u)
    BY <1>1, <2>1, AppliedUp, Zenon
  <2>2. CASE ups' = [ups EXCEPT ![u].pc = "launching", ![u].cost = 0, ![u].items = 0]
    <3>. DEFINE r == [ups[u] EXCEPT !.pc = "launching", !.cost = 0, !.items = 0]
    <3>1. ups' = [ups EXCEPT ![u] = r] /\ r.pc # "applying"
      BY <1>1, <2>2 DEF UpsTypeOK, UpState
    <3>. QED
      BY <3>1, Zenon
  <2>. QED
    BY <1>5, <2>1, <2>2
<1>11. \A other : WasClosed(ses', other) =>
         \/ WasClosed(ses, other)
         \/ other = Current(u).id /\ Current(u).type \in {"OPEN", "CLOSE"}
  <2>1. Current(u).type \in {"OPEN", "CLOSE"}
    BY <1>1
  <2>. QED
    BY <1>3, <1>8, <2>1, Zenon DEF id
<1>. QED
  BY <1>1, <1>7, <1>9, <1>10, <1>11, AppliedTombs, Zenon

LEMMA ApplyCloseTombs ==
  ASSUME TypeOK, UplinkInv, TombInv, NEW u \in Uppers, ApplyClose(u)
  PROVE  TombInv'
<1>. DEFINE id == Current(u).id
<1>1. /\ ses \in Session /\ UpsTypeOK /\ Tombs(ses) /\ Applying(u)
      /\ Current(u).type = "CLOSE" /\ id # 0 /\ ses' = EndStream(ses, id)
  BY Zenon DEF TypeOK, BackendTypeOK, ApplyClose, TombInv
<1>2. id \in StreamIds
  BY <1>1, CurrentType, Zenon
<1>3. /\ Tombs(ses')
      /\ \A other \in StreamIds : ses'.streams[other].live => ses.streams[other].live
      /\ \A other : WasClosed(ses', other) => WasClosed(ses, other) \/ other = id
  BY <1>1, <1>2, EndTombs, Zenon
<1>4. PICK r : ups' = [ups EXCEPT ![u] = r] /\ r.body = ups[u].body /\ r.k = ups[u].k + 1
  BY <1>1, AppliedUp, Zenon
<1>5. Current(u).type \in {"OPEN", "CLOSE"}
  BY <1>1
<1>. QED
  BY <1>1, <1>3, <1>4, <1>5, AppliedTombs, Zenon

LEMMA ApplyCalmTombs ==
  ASSUME TypeOK, UplinkInv, TombInv, NEW u \in Uppers,
         ApplyNothing(u) \/ ApplyData(u) \/ ApplyWindow(u)
  PROVE  TombInv'
<1>1. /\ ses \in Session /\ UpsTypeOK /\ Tombs(ses) /\ Applying(u) /\ UpStep(u)
  BY Zenon DEF TypeOK, BackendTypeOK, TombInv, ApplyNothing, ApplyData, ApplyWindow, UpStep
<1>2. ~RejectOpen(u) /\ ~ApplyClose(u) /\ ~ApplyOpen(u)
  <2>1. ASSUME ApplyNothing(u)
        PROVE  Current(u).id = 0 \/ (Current(u).type # "OPEN" /\ WasClosed(ses, Current(u).id))
    BY <2>1 DEF ApplyNothing
  <2>2. Current(u).type = "OPEN" => Current(u).id # 0
    BY <1>1, CurrentType DEF ValidClientShape
  <2>. QED
    BY <2>1, <2>2 DEF RejectOpen, ApplyClose, ApplyOpen, ApplyData, ApplyWindow
<1>3. SameOrder(ses, ses')
  BY <1>1, <1>2, UpOrderKept, Zenon
<1>4. \A id \in StreamIds : ses'.streams[id].live => ses.streams[id].live
  <2>1. CASE ApplyData(u)
    <3>. DEFINE id == Current(u).id
                x == WriteQueued(ses.streams[id], Current(u).n)
    <3>1. ses' = [ses EXCEPT !.streams[id] = x] /\ ses.streams[id].live
      BY <2>1, Zenon DEF ApplyData
    <3>. HIDE DEF x, id
    <3>. QED
      BY <1>1, <3>1 DEF Session
  <2>2. CASE ~ApplyData(u)
    BY <1>1, <1>2, <2>2, UpWritesKept, Zenon DEF WritesKept, SameWrites
  <2>. QED
    BY <2>1, <2>2
<1>5. Tombs(ses') /\ \A id : WasClosed(ses', id) => WasClosed(ses, id)
  <2>1. Calm(ses, ses')
    BY <1>3, <1>4, Zenon DEF Calm
  <2>2. Tombs(ses')
    BY <1>1, <2>1, CalmTombs, Zenon
  <2>. QED
    BY <1>3, <2>2, Zenon DEF SameOrder, WasClosed
<1>6. PICK r : ups' = [ups EXCEPT ![u] = r] /\ r.body = ups[u].body /\ r.k = ups[u].k + 1
  <2>1. NextFrame(u) \/ ApplyData(u)
    BY Zenon DEF ApplyNothing, ApplyWindow
  <2>. QED
    BY <1>1, <2>1, AppliedUp, Zenon
<1>. QED
  BY <1>1, <1>4, <1>5, <1>6, AppliedTombs, Zenon

(* The steps that end a batch have no frame of it to apply.                *)
LEMMA EndsApplyNothing ==
  ASSUME NEW u \in Uppers, ups[u] \in UpState,
         UpApplied(u) \/ UpLaunch(u) \/ UpCloses(u) \/ UpReturns(u)
  PROVE  ~Applying(u)
<1>1. ASSUME UpApplied(u), ups[u].k <= Len(ups[u].body) PROVE FALSE
  <2>1. ups[u].k \in Int /\ Len(ups[u].body) \in Int
    BY UpFields, BodyType
  <2>2. ups[u].k > Len(ups[u].body)
    BY <1>1, Zenon DEF UpApplied
  <2>. QED
    BY <1>1, <2>1, <2>2
<1>2. UpLaunch(u) \/ UpCloses(u) \/ UpReturns(u) => ups[u].pc # "applying"
  BY Zenon DEF UpLaunch, UpCloses, UpReturns
<1>. QED
  BY <1>1, <1>2, Zenon DEF Applying

(* The steps that leave the handler applying nothing.                      *)
LEMMA UpEndTombs ==
  ASSUME TypeOK, TombInv, NEW u \in Uppers,
         ApplyToNoStream(u) \/ UpApplied(u) \/ UpLaunch(u) \/ UpCloses(u) \/ UpReturns(u)
  PROVE  TombInv'
<1>1. /\ ses \in Session /\ UpsTypeOK /\ ups[u] \in UpState /\ Tombs(ses) /\ OpensFresh
      /\ UpStep(u)
  BY Zenon DEF TypeOK, BackendTypeOK, UpsTypeOK, TombInv, UpStep
<1>2. Calm(ses, ses')
  <2>1. CASE ApplyToNoStream(u)
    BY <2>1, Zenon DEF ApplyToNoStream, Calm, SameOrder
  <2>2. CASE UpApplied(u) \/ UpLaunch(u) \/ UpCloses(u) \/ UpReturns(u)
    <3>1. ~Applying(u)
      BY <1>1, <2>2, EndsApplyNothing, Zenon
    <3>2. ~RejectOpen(u) /\ ~ApplyClose(u) /\ ~ApplyOpen(u) /\ ~ApplyData(u)
      BY <3>1, Zenon DEF RejectOpen, ApplyClose, ApplyOpen, ApplyData
    <3>. QED
      BY <1>1, <3>2, UpOrderKept, UpWritesKept, Zenon DEF Calm, WritesKept, SameWrites
  <2>. QED
    BY <2>1, <2>2
<1>3. Tombs(ses')
  BY <1>1, <1>2, CalmTombs, Zenon
<1>4. PICK r : ups' = [ups EXCEPT ![u] = r] /\ r.pc # "applying"
  <2>1. CASE ApplyToNoStream(u)
    <3>. DEFINE r == [ups[u] EXCEPT !.pc = "panicked"]
    <3>1. ups' = [ups EXCEPT ![u] = r] /\ r.pc # "applying"
      BY <1>1, <2>1 DEF ApplyToNoStream, UpsTypeOK, UpState
    <3>. QED
      BY <3>1, Zenon
  <2>2. CASE UpApplied(u)
    <3>. DEFINE r == [ups[u] EXCEPT !.pc = "launching", !.applied = TRUE, !.cost = 0,
                                    !.items = 0]
    <3>1. ups' = [ups EXCEPT ![u] = r]
      BY <1>1, <2>2 DEF UpApplied, UpsTypeOK
    <3>2. r.pc # "applying"
      BY <1>1 DEF UpState
    <3>. QED
      BY <3>1, <3>2, Zenon
  <2>3. CASE \E pc \in {"acked", "closing", "failed"} : UpEnds(u, pc)
    <3>1. PICK pc \in {"acked", "closing", "failed"} : UpEnds(u, pc)
      BY <2>3
    <3>2. ups' = [ups EXCEPT ![u] = [NoUp EXCEPT !.pc = pc]] /\ [NoUp EXCEPT !.pc = pc].pc # "applying"
      BY <3>1 DEF UpEnds, NoUp
    <3>. QED
      BY <3>2, Zenon
  <2>4. CASE UpReturns(u)
    <3>1. ups' = [ups EXCEPT ![u] = NoUp] /\ NoUp.pc # "applying"
      BY <2>4 DEF UpReturns, NoUp
    <3>. QED
      BY <3>1, Zenon
  <2>. QED
    BY <2>1, <2>2, <2>3, <2>4, Zenon DEF UpLaunch, UpCloses
<1>. QED
  BY <1>1, <1>2, <1>3, <1>4, OneUpStep, Zenon

(* A backend only ends streams, and only while nobody applies a body.      *)
LEMMA BackendTombs ==
  ASSUME TypeOK, UplinkInv, TombInv, NEW id \in StreamIds, BackendNext(id)
  PROVE  TombInv'
<1>1. ses \in Session /\ Tombs(ses) /\ BackendStep(id) /\ UNCHANGED ups
  BY Zenon DEF TypeOK, BackendTypeOK, TombInv, BackendNext
<1>2. CASE BackendClosed(id)
  <2>1. Tombs(ses')
    BY <1>1, <1>2, BackendClosedTombs, Zenon
  <2>2. \A u \in Uppers : ups[u].pc # "applying"
    BY <1>2, OthersNotApplying, Zenon DEF BackendClosed
  <2>. QED
    BY <1>1, <2>1, <2>2, Zenon DEF TombInv, OpensFresh, Tombs
<1>3. CASE ~BackendClosed(id)
  <2>1. SameOrder(ses, ses')
    BY <1>1, <1>3, BackendOrderKept, Zenon
  <2>2. \A other \in StreamIds : ses'.streams[other].live => ses.streams[other].live
    <3>1. CASE NextWrite(id) \/ WriterWakes(id)
      <4>1. \/ ses' = CancelBackend(ses, {id})
            \/ ses' = [ses EXCEPT !.streams[id].writes = Tail(@)]
            \/ ses' = ses
            \/ ses' = [ses EXCEPT !.streams[id].writeNotify = FALSE]
        BY <3>1, Zenon DEF NextWrite, WriterWakes
      <4>2. ses.streams \in [StreamIds -> Stream] /\ WritesKept(ses, ses)
        BY <1>1, SessionFields, SameStreams, Zenon
      <4>3. CASE ses' = ses \/ ses' = CancelBackend(ses, {id})
        <5>1. WritesKept(ses, ses')
          <6>1. CASE ses' = ses
            BY <4>2, <6>1
          <6>2. CASE ses' = CancelBackend(ses, {id})
            BY <1>1, <4>2, <6>2, CancelWritesKept, Zenon
          <6>. QED
            BY <4>3, <6>1, <6>2
        <5>. QED
          BY <5>1, Zenon DEF WritesKept, SameWrites
      <4>4. ASSUME NEW x, ses' = [ses EXCEPT !.streams[id] = x], x.live = ses.streams[id].live
            PROVE  \A other \in StreamIds : ses'.streams[other].live => ses.streams[other].live
        BY <1>1, <4>4 DEF Session
      <4>5. CASE ses' = [ses EXCEPT !.streams[id].writes = Tail(@)]
        <5>. DEFINE x == [ses.streams[id] EXCEPT !.writes = Tail(@)]
        <5>1. ses' = [ses EXCEPT !.streams[id] = x]
          BY <1>1, <4>5 DEF Session
        <5>2. x.live = ses.streams[id].live
          BY <4>2 DEF Stream
        <5>. QED
          BY <4>4, <5>1, <5>2, Zenon
      <4>6. CASE ses' = [ses EXCEPT !.streams[id].writeNotify = FALSE]
        <5>. DEFINE x == [ses.streams[id] EXCEPT !.writeNotify = FALSE]
        <5>1. ses' = [ses EXCEPT !.streams[id] = x]
          BY <1>1, <4>6 DEF Session
        <5>2. x.live = ses.streams[id].live
          BY <4>2 DEF Stream
        <5>. QED
          BY <4>4, <5>1, <5>2, Zenon
      <4>. QED
        BY <4>1, <4>3, <4>5, <4>6
    <3>2. CASE ~NextWrite(id) /\ ~WriterWakes(id)
      BY <1>1, <3>2, BackendWritesKept, Zenon DEF WritesKept, SameWrites
    <3>. QED
      BY <3>1, <3>2
  <2>3. Calm(ses, ses')
    BY <2>1, <2>2, Zenon DEF Calm
  <2>. QED
    BY <1>1, <2>3, CalmStep, Zenon
<1>. QED
  BY <1>2, <1>3

LEMMA UpBeginTombs ==
  ASSUME TypeOK, TombInv, NEW u \in Uppers, NEW q, NEW body, UpBegin(u, q, body)
  PROVE  TombInv'
<1>1. ses \in Session /\ UpsTypeOK /\ Tombs(ses) /\ OpensFresh
  BY Zenon DEF TypeOK, BackendTypeOK, TombInv
<1>2. Calm(ses, ses')
  <2>1. ses' = ses \/ ses' = [ses EXCEPT !.lanes[0].upActive = TRUE]
    BY Zenon DEF UpBegin
  <2>2. SameOrder(ses, ses') /\ WritesKept(ses, ses')
    BY <1>1, <2>1, SameStreams, OrderKept, LanesWritesKept, ZenonT(60) DEF SameOrder, Session
  <2>. QED
    BY <2>2, Zenon DEF Calm, WritesKept, SameWrites
<1>3. Tombs(ses')
  BY <1>1, <1>2, CalmTombs, Zenon
<1>4. PICK r : ups' = [ups EXCEPT ![u] = r] /\ r.pc # "applying"
  <2>1. CASE \E pc \in {"failed", "acked", "failing", "retry"} : UpEnds(u, pc)
    <3>1. PICK pc \in {"failed", "acked", "failing", "retry"} : UpEnds(u, pc)
      BY <2>1
    <3>2. ups' = [ups EXCEPT ![u] = [NoUp EXCEPT !.pc = pc]] /\ [NoUp EXCEPT !.pc = pc].pc # "applying"
      BY <3>1 DEF UpEnds, NoUp
    <3>. QED
      BY <3>2, Zenon
  <2>2. CASE ups' = [ups EXCEPT ![u] = [NoUp EXCEPT !.pc = "parsing", !.seq = q, !.body = body]]
    <3>. DEFINE r == [NoUp EXCEPT !.pc = "parsing", !.seq = q, !.body = body]
    <3>1. r.pc # "applying"
      BY DEF NoUp
    <3>. HIDE DEF r
    <3>2. ups' = [ups EXCEPT ![u] = r]
      BY <2>2, Zenon DEF r
    <3>. QED
      BY <3>1, <3>2
  <2>. QED
    BY <2>1, <2>2, Zenon DEF UpBegin
<1>. QED
  BY <1>1, <1>2, <1>3, <1>4, OneUpStep, Zenon

LEMMA TombInit == Init => TombInv
<1>. SUFFICES ASSUME Init PROVE TombInv
  OBVIOUS
<1>1. ses.closedOrder = <<>> /\ \A u \in Uppers : ups[u].pc = "idle"
  BY DEF Init, BackendInit, NewSession, NoUp
<1>2. MaxClosedStreamIDs \in Nat
  BY LimitAssumption
<1>. QED
  BY <1>1, <1>2 DEF TombInv, Tombs, OpensFresh

LEMMA TombStep == TypeOK /\ UplinkInv /\ TombInv /\ [Next]_vars => TombInv'
<1>. SUFFICES ASSUME TypeOK, UplinkInv, TombInv, [Next]_vars PROVE TombInv'
  OBVIOUS
<1>1. ses \in Session
  BY Zenon DEF TypeOK, BackendTypeOK
<1>2. ASSUME UNCHANGED ups, SameOrder(ses, ses'), WritesKept(ses, ses') PROVE TombInv'
  <2>1. Calm(ses, ses')
    BY <1>2, Zenon DEF Calm, WritesKept, SameWrites
  <2>. QED
    BY <1>1, <1>2, <2>1, CalmStep, Zenon
<1>3. ASSUME NEW u \in Uppers, UpStep(u) PROVE TombInv'
  BY <1>3, UpCommitTombs, ApplyCalmTombs, ApplyOpenTombs, RejectOpenTombs, ApplyCloseTombs,
     UpEndTombs, Zenon DEF UpStep
<1>4. ASSUME NEW u \in Uppers, NEW q, NEW body, UpBegin(u, q, body) PROVE TombInv'
  BY <1>4, UpBeginTombs, Zenon
<1>5. ASSUME NEW id \in StreamIds, BackendNext(id) PROVE TombInv'
  BY <1>5, BackendTombs, Zenon
<1>6. CASE Close
  BY <1>1, <1>2, <1>6, OrderKept, CloseSessionWritesKept, Zenon DEF Close
<1>7. CASE UNCHANGED vars
  BY <1>2, <1>7, SameStreams, Zenon DEF vars, SameOrder
<1>8. ASSUME NEW p \in Pollers,
             PollStep(p) \/ PollCancelled(p) \/ \E cursor : PollBegin(p, cursor)
      PROVE  TombInv'
  <2>1. UNCHANGED ups
    BY <1>8, Zenon DEF PollStep, PollWakes, PollResumes, PollSuperseded, PollExpires,
       PollCloses, PollReturns, PollCancelled, PollBegin
  <2>. QED
    BY <1>2, <1>8, <2>1, PollOrderKept, PollWritesKept, Zenon
<1>. QED
  BY <1>3, <1>4, <1>5, <1>6, <1>7, <1>8, Zenon DEF Next, System, Environment

(* No stream is live while closedStreams remembers it, none is remembered  *)
(* twice, and no more are than the limit: rememberClosedLocked trusts its  *)
(* callers for the first, and validateBatchLocked is what makes them right *)
(* about the OPENs of a body, however many frames ahead they are.          *)
THEOREM TombstonesAreDeadHolds == Spec => []TombstonesAreDead
<1>1. TombInv => TombstonesAreDead
  BY Zenon DEF TombInv, Tombs, TombstonesAreDead, stream
<1>2. PollInv => TypeOK
  BY Zenon DEF PollInv
<1>. QED
  BY <1>1, <1>2, TombInit, TombStep, UplinkInvInit, UplinkInvStep, PollInvariant,
     PTL DEF Spec

-----------------------------------------------------------------------------
(* The readers that wait for credit or budget.  A starved reader waits on  *)
(* the open channel and has no credit token, although it has both credit   *)
(* and budget: nothing would ever wake it.                                 *)
Starved(s, id) ==
  /\ ~s.closed
  /\ s.streams[id].live
  /\ id \in s.budgetWaiters
  /\ ~s.streams[id].creditNotify
  /\ ReadAllowance(s, id) # 0

ReadersKept(s, t) == \A id \in StreamIds : Starved(t, id) => Starved(s, id)

LEMMA ReadersKeptTransitive ==
  ASSUME NEW s, NEW t, NEW v, ReadersKept(s, t), ReadersKept(t, v)
  PROVE  ReadersKept(s, v)
BY DEF ReadersKept

(* What nextReadAllowance allows does not grow as the queues are charged.  *)
LEMMA AllowanceShrinks ==
  ASSUME NEW s \in Session, NEW id \in StreamIds, NEW t,
         t.pendingCost \in Int, t.pendingItems \in Int,
         t.streams[id].sendCredit \in Nat,
         s.pendingCost <= t.pendingCost, s.pendingItems <= t.pendingItems,
         t.streams[id].sendCredit <= s.streams[id].sendCredit,
         ReadAllowance(t, id) # 0
  PROVE  ReadAllowance(s, id) # 0
<1>. DEFINE a == s.streams[id].sendCredit
            b == t.streams[id].sendCredit
<1>1. a \in Nat /\ b \in Nat /\ b <= a /\ s.pendingCost \in Int /\ s.pendingItems \in Int
  BY SessionFields, StreamFields, FrameAssumption
<1>2. CostLimit("down") \in Int /\ ItemLimit("down") \in Int
  BY LimitAssumption, FrameAssumption
     DEF CostLimit, ItemLimit, Monus, ControlReserveCost, ControlReserveItems,
         UplinkReserveCost, UplinkReserveItems, Minimum
<1>. HIDE DEF CostLimit, ItemLimit, a, b
<1>3. b # 0 /\ DataFrameAllowance(t.pendingCost, t.pendingItems, Minimum(b, DataChunk)) # 0
  BY DEF ReadAllowance, b
<1>4. /\ t.pendingItems < ItemLimit("down")
      /\ CostLimit("down") - t.pendingCost - QueueItemCost - HeaderSize > 0
  BY <1>2, <1>3, FrameAssumption DEF DataFrameAllowance
<1>5. /\ ~(s.pendingItems >= ItemLimit("down"))
      /\ CostLimit("down") - s.pendingCost - QueueItemCost - HeaderSize \in Int
      /\ CostLimit("down") - s.pendingCost - QueueItemCost - HeaderSize > 0
  BY <1>1, <1>2, <1>4, FrameAssumption
<1>6. Minimum(a, DataChunk) \in Nat /\ Minimum(a, DataChunk) # 0
  BY <1>1, <1>3, FrameAssumption DEF Minimum
<1>7. DataFrameAllowance(s.pendingCost, s.pendingItems, Minimum(a, DataChunk)) # 0
  BY <1>5, <1>6 DEF DataFrameAllowance, Minimum
<1>8. a # 0
  BY <1>1, <1>3
<1>. QED
  BY <1>7, <1>8, Zenon DEF ReadAllowance, a

LEMMA SameReaders ==
  ASSUME NEW s, NEW t, t.closed = s.closed, t.streams = s.streams,
         t.budgetWaiters = s.budgetWaiters,
         t.pendingCost = s.pendingCost, t.pendingItems = s.pendingItems
  PROVE  ReadersKept(s, t)
BY Zenon DEF ReadersKept, Starved, ReadAllowance

LEMMA WokenReaders ==
  ASSUME NEW s, NEW t, t.budgetWaiters = {}
  PROVE  ReadersKept(s, t)
BY DEF ReadersKept, Starved

LEMMA ChargedReaders ==
  ASSUME NEW s \in Session, NEW t, NEW cost \in Nat, NEW items \in Nat,
         t.closed = s.closed, t.streams = s.streams, t.budgetWaiters = s.budgetWaiters,
         t.pendingCost = s.pendingCost + cost, t.pendingItems = s.pendingItems + items
  PROVE  ReadersKept(s, t)
<1>1. /\ t.pendingCost \in Int /\ t.pendingItems \in Int
      /\ s.pendingCost <= t.pendingCost /\ s.pendingItems <= t.pendingItems
  BY SessionFields
<1>2. ASSUME NEW id \in StreamIds
      PROVE  /\ t.streams[id].sendCredit \in Nat
             /\ t.streams[id].sendCredit <= s.streams[id].sendCredit
  BY SessionFields, StreamFields, FrameAssumption
<1>3. \A id \in StreamIds : ReadAllowance(t, id) # 0 => ReadAllowance(s, id) # 0
  BY <1>1, <1>2, AllowanceShrinks, Zenon
<1>. QED
  BY <1>3, Zenon DEF ReadersKept, Starved

(* A stream is replaced by one that is not live, has a credit token, or    *)
(* differs in what no reader looks at.                                     *)
LEMMA OneStreamReaders ==
  ASSUME NEW s \in Session, NEW id \in StreamIds, NEW t, NEW x,
         t = [s EXCEPT !.streams[id] = x],
         \/ ~x.live
         \/ x.creditNotify
         \/ /\ s.streams[id].live
            /\ x.creditNotify = s.streams[id].creditNotify
            /\ x.sendCredit \in Nat /\ x.sendCredit <= s.streams[id].sendCredit
  PROVE  ReadersKept(s, t)
<1>1. /\ t.closed = s.closed /\ t.budgetWaiters = s.budgetWaiters
      /\ t.pendingCost = s.pendingCost /\ t.pendingItems = s.pendingItems
      /\ t.streams[id] = x
      /\ \A other \in StreamIds \ {id} : t.streams[other] = s.streams[other]
  BY DEF Session
<1>2. \A other \in StreamIds \ {id} : Starved(t, other) => Starved(s, other)
  BY <1>1, Zenon DEF Starved, ReadAllowance
<1>3. Starved(t, id) => Starved(s, id)
  <2>. SUFFICES ASSUME Starved(t, id) PROVE Starved(s, id)
    OBVIOUS
  <2>1. /\ s.streams[id].live
        /\ x.creditNotify = s.streams[id].creditNotify
        /\ x.sendCredit \in Nat /\ x.sendCredit <= s.streams[id].sendCredit
    BY <1>1, Zenon DEF Starved
  <2>2. s.pendingCost \in Int /\ s.pendingItems \in Int
    BY SessionFields
  <2>3. s.pendingCost <= t.pendingCost /\ s.pendingItems <= t.pendingItems
        /\ t.pendingCost \in Int /\ t.pendingItems \in Int
    BY <1>1, <2>2
  <2>4. ReadAllowance(s, id) # 0
    BY <1>1, <2>1, <2>3, AllowanceShrinks, Zenon DEF Starved
  <2>. QED
    BY <1>1, <2>1, <2>4, Zenon DEF Starved
<1>. QED
  BY <1>2, <1>3 DEF ReadersKept

(* A release wakes every waiting reader, or releases nothing; a            *)
(* reservation charges.                                                    *)
LEMMA BudgetReaders ==
  ASSUME NEW s \in Session
  PROVE  /\ \A cost, items : ReadersKept(s, ReleasePending(s, cost, items))
         /\ \A cost \in Nat, items \in Nat : ReadersKept(s, Reserve(s, cost, items))
<1>1. ASSUME NEW cost, NEW items PROVE ReadersKept(s, ReleasePending(s, cost, items))
  <2>1. CASE cost = 0 /\ items = 0
    BY <2>1, SameReaders, Zenon DEF ReleasePending
  <2>2. CASE ~(cost = 0 /\ items = 0)
    <3>1. ReleasePending(s, cost, items).budgetWaiters = {}
      BY <2>2 DEF ReleasePending, Session
    <3>. QED
      BY <3>1, WokenReaders, Zenon
  <2>. QED
    BY <2>1, <2>2
<1>2. ASSUME NEW cost \in Nat, NEW items \in Nat PROVE ReadersKept(s, Reserve(s, cost, items))
  <2>. DEFINE t == Reserve(s, cost, items)
  <2>1. /\ t.closed = s.closed /\ t.streams = s.streams /\ t.budgetWaiters = s.budgetWaiters
        /\ t.pendingCost = s.pendingCost + cost /\ t.pendingItems = s.pendingItems + items
    BY DEF Reserve, Session
  <2>. HIDE DEF t
  <2>2. ReadersKept(s, t)
    BY <2>1, ChargedReaders, Zenon
  <2>. QED
    BY <2>2 DEF t
<1>. QED
  BY <1>1, <1>2

LEMMA LanesReaders ==
  ASSUME NEW s \in Session
  PROVE  /\ \A x : ReadersKept(s, [s EXCEPT !.lanes[0].upActive = x])
         /\ \A x : ReadersKept(s, [s EXCEPT !.lanes[0].owner = x])
         /\ \A x : ReadersKept(s, [s EXCEPT !.lanes[0].notify = x])
         /\ \A x : ReadersKept(s, [s EXCEPT !.lanes[0] = x])
         /\ \A x, y : ReadersKept(s, [s EXCEPT !.lanes[0].lastUpSequence = x,
                                               !.lanes[0].lastUpDigest = y])
         /\ \A order : ReadersKept(s, [s EXCEPT !.closedOrder = order])
         /\ \A ids : ReadersKept(s, CancelBackend(s, ids))
<1>. DEFINE Apart(t) == /\ t.closed = s.closed /\ t.streams = s.streams
                        /\ t.budgetWaiters = s.budgetWaiters
                        /\ t.pendingCost = s.pendingCost /\ t.pendingItems = s.pendingItems
<1>1. ASSUME NEW t, Apart(t) PROVE ReadersKept(s, t)
  BY <1>1, SameReaders, Zenon
<1>2. /\ \A x : Apart([s EXCEPT !.lanes[0].upActive = x])
      /\ \A x : Apart([s EXCEPT !.lanes[0].owner = x])
      /\ \A x : Apart([s EXCEPT !.lanes[0].notify = x])
      /\ \A x : Apart([s EXCEPT !.lanes[0] = x])
  BY DEF Session
<1>3. \A x, y : Apart([s EXCEPT !.lanes[0].lastUpSequence = x, !.lanes[0].lastUpDigest = y])
  BY DEF Session
<1>4. \A order : Apart([s EXCEPT !.closedOrder = order])
  BY DEF Session
<1>5. \A ids : Apart(CancelBackend(s, ids))
  BY DEF Session, CancelBackend
<1>. HIDE DEF Apart
<1>. QED
  BY <1>1, <1>2, <1>3, <1>4, <1>5, Zenon

LEMMA EndStreamReaders ==
  ASSUME NEW s \in Session, NEW id \in StreamIds
  PROVE  ReadersKept(s, RememberClosed(s, id)) /\ ReadersKept(s, EndStream(s, id))
<1>1. ASSUME NEW t \in Session PROVE ReadersKept(t, RememberClosed(t, id))
  <2>1. \A l : DropLane(t, l) = t
    BY OneLane, Zenon DEF DropLane
  <2>2. ReadersKept(t, t)
    BY DEF ReadersKept
  <2>. QED
    BY <1>1, <2>1, <2>2, LanesReaders, OneLane, Zenon DEF RememberClosed
<1>. DEFINE r == ReleasePending(s, s.streams[id].pendingWriteCost,
                                   s.streams[id].pendingWriteItems)
<1>2. r \in Session /\ ReadersKept(s, r)
  <2>1. s.streams[id].pendingWriteCost \in Int /\ s.streams[id].pendingWriteItems \in Int
    BY SessionFields, StreamFields
  <2>. QED
    BY <2>1, ReleasePendingType, BudgetReaders, Zenon
<1>3. DropStream(s, id) = [r EXCEPT !.streams[id] = NoStream]
  BY Zenon DEF DropStream
<1>. HIDE DEF r
<1>4. ~NoStream.live
  BY DEF NoStream
<1>5. ReadersKept(s, DropStream(s, id))
  BY <1>2, <1>3, <1>4, OneStreamReaders, ReadersKeptTransitive, Zenon
<1>. QED
  BY <1>1, <1>5, DropStreamType, ReadersKeptTransitive, Zenon DEF EndStream

LEMMA QueueFrameReaders ==
  ASSUME NEW s \in Session, NEW f \in Queueable
  PROVE  ReadersKept(s, QueueFrame(s, f))
<1>. DEFINE lane == s.lanes[LaneOf(f.id)]
            a == QueueCost(lane, f)
            b == QueueItems(lane, f)
            c == [lane EXCEPT !.frames = FramesWith(lane, f),
                              !.windows = WindowsWith(lane, f),
                              !.notify = TRUE]
            t == QueueFrame(s, f)
<1>1. t = [s EXCEPT !.pendingCost = @ + a, !.pendingItems = @ + b, !.lanes[LaneOf(f.id)] = c]
  BY Zenon DEF QueueFrame
<1>2. a \in Nat /\ b \in Nat
  <2>1. f.n \in Nat
    BY DEF Queueable
  <2>. QED
    BY <2>1, EncodedLengthType, FrameAssumption DEF QueueCost, QueueItems
<1>. HIDE DEF a, b, c, t
<1>3. /\ t.closed = s.closed /\ t.streams = s.streams /\ t.budgetWaiters = s.budgetWaiters
      /\ t.pendingCost = s.pendingCost + a /\ t.pendingItems = s.pendingItems + b
  BY <1>1 DEF Session
<1>4. ReadersKept(s, t)
  BY <1>2, <1>3, ChargedReaders, Zenon
<1>. QED
  BY <1>4 DEF t

LEMMA CloseSessionReaders ==
  ASSUME NEW s \in Session
  PROVE  ReadersKept(s, CloseSession(s))
<1>1. CASE s.closed
  BY <1>1, SameReaders, Zenon DEF CloseSession
<1>2. CASE ~s.closed
  <2>1. CloseSession(s).closed = TRUE
    BY <1>2 DEF CloseSession, Session
  <2>. QED
    BY <2>1 DEF ReadersKept, Starved
<1>. QED
  BY <1>1, <1>2

(* Draining and finishing a write touch other fields of the stream and     *)
(* release; spending credit leaves less of it.                             *)
LEMMA AccountsReaders ==
  ASSUME NEW s \in Session, NEW id \in StreamIds, s.streams[id].live
  PROVE  /\ \A k \in Nat : k <= s.streams[id].sendCredit =>
                             ReadersKept(s, SpendCredit(s, id, k))
         /\ ReadersKept(s, FinishWrite(s, id))
         /\ \A k \in Int : ReadersKept(s, Drain(s, id, k))
<1>0. ASSUME NEW x, x.live = s.streams[id].live, x.creditNotify = s.streams[id].creditNotify,
             x.sendCredit \in Nat, x.sendCredit <= s.streams[id].sendCredit,
             NEW r \in Session, r.streams = s.streams, NEW t, t = [r EXCEPT !.streams[id] = x]
      PROVE  ReadersKept(r, t)
  BY <1>0, OneStreamReaders, Zenon
<1>1. s.streams[id] \in Stream /\ s.streams[id].sendCredit \in Nat
      /\ s.streams[id].sendCredit <= s.streams[id].sendCredit
  BY SessionFields, StreamFields, FrameAssumption
<1>2. ASSUME NEW k \in Nat, k <= s.streams[id].sendCredit
      PROVE  ReadersKept(s, SpendCredit(s, id, k))
  <2>. DEFINE x == [s.streams[id] EXCEPT !.sendCredit = @ - k]
  <2>1. SpendCredit(s, id, k) = [s EXCEPT !.streams[id] = x]
    BY DEF SpendCredit, Session
  <2>2. /\ x.live = s.streams[id].live /\ x.creditNotify = s.streams[id].creditNotify
        /\ x.sendCredit = s.streams[id].sendCredit - k
    BY <1>1 DEF Stream
  <2>. HIDE DEF x
  <2>3. x.sendCredit \in Nat /\ x.sendCredit <= s.streams[id].sendCredit
    BY <1>1, <1>2, <2>2
  <2>. QED
    BY <1>0, <2>1, <2>2, <2>3, Zenon
<1>3. \A cost \in Int, items \in Int :
        /\ ReleasePending(s, cost, items) \in Session
        /\ ReleasePending(s, cost, items).streams = s.streams
        /\ ReadersKept(s, ReleasePending(s, cost, items))
  <2>1. \A cost, items : ReleasePending(s, cost, items).streams = s.streams
    BY DEF ReleasePending, Session
  <2>. QED
    BY <2>1, ReleasePendingType, BudgetReaders, Zenon
<1>4. ReadersKept(s, FinishWrite(s, id))
  <2>. DEFINE r == ReleasePending(s, QueueItemCost, 1)
              x == AfterFinish(s.streams[id])
  <2>1. r \in Session /\ r.streams = s.streams /\ ReadersKept(s, r)
    BY <1>3, FrameAssumption
  <2>2. FinishWrite(s, id) = [r EXCEPT !.streams[id] = x]
    BY FinishWriteIs, Zenon DEF PutStream
  <2>3. /\ x.live = s.streams[id].live /\ x.creditNotify = s.streams[id].creditNotify
        /\ x.sendCredit = s.streams[id].sendCredit
    BY <1>1, AccountUpdates, Zenon DEF SameButAccount
  <2>. HIDE DEF r, x
  <2>4. ReadersKept(r, FinishWrite(s, id))
    BY <1>0, <1>1, <2>1, <2>2, <2>3, Zenon
  <2>. QED
    BY <2>1, <2>4, ReadersKeptTransitive, Zenon
<1>5. ASSUME NEW k \in Int PROVE ReadersKept(s, Drain(s, id, k))
  <2>. DEFINE r == ReleasePending(s, k, 0)
              x == AfterDrain(s.streams[id], k)
  <2>1. r \in Session /\ r.streams = s.streams /\ ReadersKept(s, r)
    BY <1>3
  <2>2. Drain(s, id, k) = [r EXCEPT !.streams[id] = x]
    BY DrainIs, Zenon DEF PutStream
  <2>3. /\ x.live = s.streams[id].live /\ x.creditNotify = s.streams[id].creditNotify
        /\ x.sendCredit = s.streams[id].sendCredit
    BY <1>1, AccountUpdates, Zenon DEF SameButAccount
  <2>. HIDE DEF r, x
  <2>4. ReadersKept(r, Drain(s, id, k))
    BY <1>0, <1>1, <2>1, <2>2, <2>3, Zenon
  <2>. QED
    BY <2>1, <2>4, ReadersKeptTransitive, Zenon
<1>. QED
  BY <1>2, <1>4, <1>5

LEMMA AfterWriteReaders ==
  ASSUME NEW s \in Session, NEW id \in StreamIds, NEW k \in Nat, NEW pool
  PROVE  ReadersKept(s, AfterWrite(s, id, k, pool))
<1>1. ReadersKept(s, s) /\ k \in Int
  BY DEF ReadersKept
<1>2. CASE CanDrain(s, id, k)
  <2>. DEFINE f == [type |-> "WINDOW", id |-> id, n |-> k]
  <2>1. Drain(s, id, k) \in Session
    BY <1>1, <1>2, DrainType, Zenon
  <2>2. ReadersKept(s, Drain(s, id, k))
    <3>1. s.streams[id].live
      BY <1>2, Zenon DEF CanDrain
    <3>. QED
      BY <1>1, <3>1, AccountsReaders, Zenon
  <2>3. f \in Queueable
    BY DEF Queueable
  <2>. HIDE DEF f
  <2>4. ReadersKept(s, QueueFrame(Drain(s, id, k), f))
    BY <2>1, <2>2, <2>3, QueueFrameReaders, ReadersKeptTransitive, Zenon
  <2>. QED
    BY <1>2, <2>2, <2>4, Zenon DEF AfterWrite, f
<1>3. CASE ~CanDrain(s, id, k)
  BY <1>1, <1>3, Zenon DEF AfterWrite
<1>. QED
  BY <1>2, <1>3

LEMMA ClosedByBackendReaders ==
  ASSUME NEW s \in Session, NEW id \in StreamIds, NEW pool
  PROVE  ReadersKept(s, ClosedByBackend(s, id, pool))
<1>. DEFINE ended == EndStream(s, id)
            f == [type |-> "CLOSE", id |-> id, n |-> 0]
<1>1. ended \in Session /\ ReadersKept(s, ended)
  BY EndStreamType, EndStreamReaders, Zenon
<1>2. f \in Queueable
  BY DEF Queueable
<1>. HIDE DEF ended, f
<1>3. ReadersKept(s, QueueFrame(ended, f)) /\ ReadersKept(s, CloseSession(ended))
  BY <1>1, <1>2, QueueFrameReaders, CloseSessionReaders, ReadersKeptTransitive, Zenon
<1>. QED
  BY <1>3, Zenon DEF ClosedByBackend, ended, f

(* Leaving the list of waiters starves nobody.                             *)
LEMMA LeavingReaders ==
  ASSUME NEW s \in Session, NEW id
  PROVE  ReadersKept(s, [s EXCEPT !.budgetWaiters = @ \ {id}])
<1>. DEFINE t == [s EXCEPT !.budgetWaiters = @ \ {id}]
<1>1. /\ t.closed = s.closed /\ t.streams = s.streams
      /\ \A other \in t.budgetWaiters : other \in s.budgetWaiters
      /\ t.pendingCost = s.pendingCost /\ t.pendingItems = s.pendingItems
  BY DEF Session
<1>. HIDE DEF t
<1>2. ReadersKept(s, t)
  BY <1>1, Zenon DEF ReadersKept, Starved, ReadAllowance
<1>. QED
  BY <1>2 DEF t

LEMMA BackendReaders ==
  ASSUME TypeOK, NEW id \in StreamIds, BackendStep(id), ~NextRead(id), ~CreditWakesReader(id)
  PROVE  ReadersKept(ses, ses')
<1>. DEFINE Same == ses' = ses
            Cancels == ses' = CancelBackend(ses, {id})
<1>1. ses \in Session /\ backends[id] \in BackendState /\ ReadersKept(ses, ses)
  BY Zenon DEF TypeOK, BackendTypeOK, ReadersKept
<1>2. backends[id].inHand \in Nat
  BY <1>1, BackendFields
<1>3. CASE Same \/ Cancels
  BY <1>1, <1>3, LanesReaders, Zenon
<1>4. CASE Dialled(id) \/ DialFailed(id) \/ LoopsReturned(id) \/ BudgetWakesReader(id)
           \/ WriterStops(id) \/ ReadEnds(id)
  BY <1>3, <1>4, Zenon DEF Dialled, DialFailed, LoopsReturned, BudgetWakesReader,
                           WriterStops, ReadEnds
<1>5. ASSUME NEW s \in Session, ReadersKept(ses, s)
      PROVE  ReadersKept(ses, CancelBackend(s, {id}))
  BY <1>5, LanesReaders, ReadersKeptTransitive, Zenon
<1>6. CASE BackendClosed(id)
  <2>1. PICK pool : ses' = CancelBackend(IF Live(id) THEN ClosedByBackend(ses, id, pool) ELSE ses,
                                         {id})
    BY <1>6, Zenon DEF BackendClosed
  <2>2. /\ ClosedByBackend(ses, id, pool) \in Session
        /\ ReadersKept(ses, ClosedByBackend(ses, id, pool))
    BY <1>1, ClosedByBackendType, ClosedByBackendReaders, Zenon
  <2>. QED
    BY <1>1, <1>5, <2>1, <2>2, Zenon
<1>7. CASE Write(id)
  <2>1. PICK pool \in PoolAnswers("control") :
          \/ ses' = AfterWrite(ses, id, backends[id].inHand, pool)
          \/ ses' = CancelBackend(AfterWrite(ses, id, backends[id].inHand, pool), {id})
    BY <1>7, Zenon DEF Write
  <2>2. pool \in BOOLEAN
    BY <2>1, PoolAnswersType, Zenon
  <2>. QED
    BY <1>1, <1>2, <1>5, <2>1, <2>2, AfterWriteType, AfterWriteReaders, Zenon
<1>8. CASE WriteFails(id)
  <2>1. PICK pool \in PoolAnswers("control"), k \in 0 .. backends[id].inHand - 1 :
          ses' = CancelBackend(AfterWrite(ses, id, k, pool), {id})
    BY <1>8, Zenon DEF WriteFails
  <2>2. pool \in BOOLEAN
    BY <2>1, PoolAnswersType, Zenon
  <2>3. k \in Nat
    BY <1>2, <2>1
  <2>. QED
    BY <1>1, <1>5, <2>1, <2>2, <2>3, AfterWriteType, AfterWriteReaders, Zenon
<1>9. CASE WriteFinished(id)
  <2>1. CASE CanFinishWrite(ses, id)
    <3>1. ses.streams[id].live /\ ses' = FinishWrite(ses, id)
      BY <1>9, <2>1, Zenon DEF WriteFinished, CanFinishWrite
    <3>. QED
      BY <1>1, <3>1, AccountsReaders, Zenon
  <2>2. CASE ~CanFinishWrite(ses, id)
    BY <1>3, <1>9, <2>2, Zenon DEF WriteFinished
  <2>. QED
    BY <2>1, <2>2
<1>10. CASE NextWrite(id) \/ WriterWakes(id)
  <2>1. /\ ses.streams[id] \in Stream /\ ses.streams[id].sendCredit \in Nat
        /\ ses.streams[id].sendCredit <= ses.streams[id].sendCredit
    BY <1>1, SessionFields, StreamFields, FrameAssumption
  <2>2. ASSUME NEW x, ses' = [ses EXCEPT !.streams[id] = x], x.live = ses.streams[id].live,
               x.creditNotify = ses.streams[id].creditNotify,
               x.sendCredit = ses.streams[id].sendCredit
        PROVE  ReadersKept(ses, ses')
    BY <1>1, <2>1, <2>2, OneStreamReaders, Zenon
  <2>3. CASE ses' = [ses EXCEPT !.streams[id].writes = Tail(@)]
    <3>. DEFINE x == [ses.streams[id] EXCEPT !.writes = Tail(@)]
    <3>1. ses' = [ses EXCEPT !.streams[id] = x]
      BY <1>1, <2>3 DEF Session
    <3>2. /\ x.live = ses.streams[id].live /\ x.creditNotify = ses.streams[id].creditNotify
          /\ x.sendCredit = ses.streams[id].sendCredit
      BY <2>1 DEF Stream
    <3>. QED
      BY <2>2, <3>1, <3>2, Zenon
  <2>4. CASE ses' = [ses EXCEPT !.streams[id].writeNotify = FALSE]
    <3>. DEFINE x == [ses.streams[id] EXCEPT !.writeNotify = FALSE]
    <3>1. ses' = [ses EXCEPT !.streams[id] = x]
      BY <1>1, <2>4 DEF Session
    <3>2. /\ x.live = ses.streams[id].live /\ x.creditNotify = ses.streams[id].creditNotify
          /\ x.sendCredit = ses.streams[id].sendCredit
      BY <2>1 DEF Stream
    <3>. QED
      BY <2>2, <3>1, <3>2, Zenon
  <2>. QED
    BY <1>3, <1>10, <2>3, <2>4, Zenon DEF NextWrite, WriterWakes
<1>11. CASE ReaderStops(id)
  <2>. DEFINE r == [ses EXCEPT !.budgetWaiters = @ \ {id}]
  <2>1. ses.budgetWaiters \ {id} \in SUBSET StreamIds
    BY <1>1, SessionFields
  <2>2. r \in Session /\ ReadersKept(ses, r)
    BY <1>1, <2>1, SessionUpdates, LeavingReaders, Zenon
  <2>3. ses' = CancelBackend(r, {id})
    BY <1>11, Zenon DEF ReaderStops
  <2>. HIDE DEF r
  <2>. QED
    BY <1>5, <2>2, <2>3, Zenon
<1>12. CASE Read(id)
  <2>1. PICK k \in 1 .. backends[id].allowance :
          LET spent == SpendCredit(ses, id, k)
          IN  \/ Cancels
              \/ /\ CanTakeData(ses, id, k)
                 /\ \/ ses' = QueueFrame(spent, [type |-> "DATA", id |-> id, n |-> k])
                    \/ ses' = CancelBackend(spent, {id})
    BY <1>12, Zenon DEF Read
  <2>. DEFINE spent == SpendCredit(ses, id, k)
              f == [type |-> "DATA", id |-> id, n |-> k]
  <2>2. k \in Nat /\ f \in Queueable
    BY DEF Queueable
  <2>3. CanTakeData(ses, id, k) => spent \in Session /\ ReadersKept(ses, spent)
    <3>. SUFFICES ASSUME CanTakeData(ses, id, k)
                  PROVE  spent \in Session /\ ReadersKept(ses, spent)
      OBVIOUS
    <3>1. ses.streams[id].live /\ k <= ses.streams[id].sendCredit
      BY Zenon DEF CanTakeData
    <3>. QED
      BY <1>1, <2>1, <2>2, <3>1, SpendCreditType, AccountsReaders, Zenon
  <2>4. \/ Cancels
        \/ spent \in Session /\ ReadersKept(ses, spent) /\ ses' = QueueFrame(spent, f)
        \/ spent \in Session /\ ReadersKept(ses, spent) /\ ses' = CancelBackend(spent, {id})
    BY <2>1, <2>3, Zenon
  <2>. HIDE DEF spent, f, Cancels
  <2>5. CASE spent \in Session /\ ReadersKept(ses, spent) /\ ses' = QueueFrame(spent, f)
    BY <2>2, <2>5, QueueFrameReaders, ReadersKeptTransitive, Zenon
  <2>6. CASE spent \in Session /\ ReadersKept(ses, spent) /\ ses' = CancelBackend(spent, {id})
    BY <1>5, <2>6, Zenon
  <2>. QED
    BY <1>3, <2>4, <2>5, <2>6, Zenon
<1>. QED
  BY <1>4, <1>6, <1>7, <1>8, <1>9, <1>10, <1>11, <1>12, Zenon DEF BackendStep

(* Only NextRead puts a read loop to sleep.                                *)
ReadersQuiet ==
  \A id \in StreamIds : backends'[id].reader = "wait" => backends[id].reader = "wait"

LEMMA BackendReadersQuiet ==
  ASSUME TypeOK, NEW id \in StreamIds, BackendStep(id), ~NextRead(id)
  PROVE  ReadersQuiet
<1>1. backends \in [StreamIds -> BackendState]
  BY DEF TypeOK, BackendTypeOK
<1>2. /\ \A other \in StreamIds \ {id} : backends'[other] = backends[other]
      /\ backends'[id].reader = "wait" => backends[id].reader = "wait"
  <2>1. CASE Dialled(id) \/ DialFailed(id) \/ LoopsReturned(id) \/ BackendClosed(id)
    BY <1>1, <2>1 DEF Dialled, DialFailed, LoopsReturned, BackendClosed, BackendState
  <2>2. CASE WriterWakes(id) \/ WriterStops(id) \/ WriteFinished(id)
    BY <1>1, <2>2 DEF WriterWakes, WriterStops, WriteFinished, WriterExits, BackendState
  <2>3. CASE NextWrite(id) \/ Write(id) \/ WriteFails(id)
    <3>1. ASSUME NEW writer, NEW inHand,
                 backends' = [backends EXCEPT ![id].writer = writer, ![id].inHand = inHand]
          PROVE  /\ \A other \in StreamIds \ {id} : backends'[other] = backends[other]
                 /\ backends'[id].reader = backends[id].reader
      BY <1>1, <3>1 DEF BackendState
    <3>2. CASE NextWrite(id) /\ backends' = [backends EXCEPT ![id].writer = "wait"]
      BY <1>1, <3>2 DEF BackendState
    <3>3. CASE WriterExits(id)
      BY <3>1, <3>3, Zenon DEF WriterExits
    <3>4. CASE NextWrite(id)
      <4>1. \/ WriterExits(id)
            \/ backends' = [backends EXCEPT ![id].writer = "write",
                                            ![id].inHand = Head(ses.streams[id].writes)]
            \/ backends' = [backends EXCEPT ![id].writer = "wait"]
        BY <3>4, Zenon DEF NextWrite
      <4>2. CASE backends' = [backends EXCEPT ![id].writer = "write",
                                              ![id].inHand = Head(ses.streams[id].writes)]
        BY <3>1, <4>2, Zenon
      <4>. QED
        BY <3>2, <3>3, <3>4, <4>1, <4>2, Zenon
    <3>5. CASE Write(id)
      BY <3>1, <3>3, <3>5, Zenon DEF Write
    <3>6. CASE WriteFails(id)
      BY <3>3, <3>6, Zenon DEF WriteFails
    <3>. QED
      BY <2>3, <3>4, <3>5, <3>6
  <2>4. CASE CreditWakesReader(id) \/ BudgetWakesReader(id)
    BY <1>1, <2>4 DEF CreditWakesReader, BudgetWakesReader, BackendState
  <2>5. ASSUME NEW refused, ReaderExits(id, refused)
        PROVE  /\ \A other \in StreamIds \ {id} : backends'[other] = backends[other]
               /\ backends'[id].reader # "wait"
    BY <1>1, <2>5 DEF ReaderExits, BackendState
  <2>6. CASE ReaderStops(id) \/ ReadEnds(id)
    BY <2>5, <2>6, Zenon DEF ReaderStops, ReadEnds
  <2>7. CASE Read(id)
    <3>1. CASE backends' = [backends EXCEPT ![id].reader = "next", ![id].allowance = 0]
      BY <1>1, <3>1 DEF BackendState
    <3>. QED
      BY <2>5, <2>7, <3>1, Zenon DEF Read
  <2>. QED
    BY <2>1, <2>2, <2>3, <2>4, <2>6, <2>7, Zenon DEF BackendStep
<1>. QED
  BY <1>2 DEF ReadersQuiet

-----------------------------------------------------------------------------
(* The steps of handlers and polls, for the readers.                       *)
LEMMA WriteCostNatural ==
  ASSUME NEW s, NEW body \in Bodies \cup {<<>>}
  PROVE  WriteCost(s, body) \in Nat /\ WriteItems(s, body) \in Nat
<1>1. ASSUME NEW k \in 1 .. Len(body) PROVE body[k].n \in Nat
  <2>1. body[k] \in Frame
    BY BodyType
  <2>. QED
    BY <2>1 DEF Frame
<1>2. Len(body) \in Nat
  BY BodyType
<1>3. [k \in 1 .. Len(body) |-> IF IsWrite(s, body, k) THEN body[k].n + QueueItemCost ELSE 0]
        \in Seq(Nat)
  <2>1. \A k \in 1 .. Len(body) :
          (IF IsWrite(s, body, k) THEN body[k].n + QueueItemCost ELSE 0) \in Nat
    BY <1>1, FrameAssumption
  <2>. QED
    BY <1>2, <2>1
<1>4. [k \in 1 .. Len(body) |-> IF IsWrite(s, body, k) THEN 1 ELSE 0] \in Seq(Nat)
  BY <1>2
<1>. QED
  BY <1>3, <1>4, TotalNatural, Zenon DEF WriteCost, WriteItems

LEMMA UpReaders ==
  ASSUME TypeOK, NEW u \in Uppers, UpStep(u), ~ApplyOpen(u)
  PROVE  ReadersKept(ses, ses')
<1>1. ses \in Session /\ ReadersKept(ses, ses) /\ ups[u] \in UpState /\ UpsTypeOK
  BY Zenon DEF TypeOK, BackendTypeOK, UpsTypeOK, ReadersKept
<1>2. Applying(u) /\ Current(u).id # 0 => Current(u).id \in StreamIds
  BY <1>1, CurrentType, Zenon
<1>3. CASE ApplyNothing(u) \/ ApplyToNoStream(u) \/ UpReturns(u)
  BY <1>1, <1>3, Zenon DEF ApplyNothing, ApplyToNoStream, UpReturns
<1>4. CASE RejectOpen(u)
  <2>. DEFINE id == Current(u).id
              f == [type |-> "CLOSE", id |-> id, n |-> 0]
              remembered == RememberClosed(ses, id)
  <2>1. id \in StreamIds
    <3>1. ValidClientShape(Current(u)) /\ Applying(u) /\ Current(u).type = "OPEN"
      BY <1>1, <1>4, CurrentType, Zenon DEF RejectOpen
    <3>2. id # 0
      BY <3>1 DEF ValidClientShape
    <3>. QED
      BY <1>2, <3>1, <3>2, Zenon
  <2>. HIDE DEF id
  <2>2. remembered \in Session /\ ReadersKept(ses, remembered) /\ f \in Queueable
    <3>1. f \in Queueable
      BY <2>1 DEF Queueable
    <3>. QED
      BY <1>1, <2>1, <3>1, RememberClosedType, EndStreamReaders, Zenon
  <2>3. ses' = QueueFrame(remembered, f) \/ ses' = ReleasePending(remembered, ups[u].cost, ups[u].items)
    BY <1>4, Zenon DEF RejectOpen, id
  <2>. HIDE DEF remembered, f
  <2>4. /\ ReadersKept(remembered, QueueFrame(remembered, f))
        /\ ReadersKept(remembered, ReleasePending(remembered, ups[u].cost, ups[u].items))
    BY <2>2, QueueFrameReaders, BudgetReaders, Zenon
  <2>5. ReadersKept(remembered, ses')
    BY <2>3, <2>4
  <2>. QED
    BY <2>2, <2>5, ReadersKeptTransitive, Zenon
<1>5. CASE ApplyWindow(u)
  <2>. DEFINE id == Current(u).id
  <2>1. id \in StreamIds
    BY <1>2, <1>5, Zenon DEF ApplyWindow
  <2>2. ses' = [ses EXCEPT !.streams[id].sendCredit = AddCredit(@, Current(u).n),
                           !.streams[id].creditNotify = TRUE]
    BY <1>5, Zenon DEF ApplyWindow
  <2>. DEFINE x == [ses.streams[id] EXCEPT !.sendCredit = AddCredit(@, Current(u).n),
                                           !.creditNotify = TRUE]
  <2>. HIDE DEF id
  <2>3. ses' = [ses EXCEPT !.streams[id] = x]
    BY <1>1, <2>1, <2>2 DEF Session
  <2>4. x.creditNotify = TRUE
    <3>1. ses.streams[id] \in Stream
      BY <1>1, <2>1, SessionFields
    <3>. QED
      BY <3>1 DEF Stream
  <2>. HIDE DEF x
  <2>. QED
    BY <1>1, <2>1, <2>3, <2>4, OneStreamReaders
<1>6. CASE ApplyData(u)
  <2>. DEFINE id == Current(u).id
              x == WriteQueued(ses.streams[id], Current(u).n)
  <2>1. id \in StreamIds /\ ses' = [ses EXCEPT !.streams[id] = x] /\ ses.streams[id].live
    BY <1>2, <1>6, Zenon DEF ApplyData
  <2>2. /\ ses.streams[id] \in Stream /\ ses.streams[id].sendCredit \in Nat
        /\ ses.streams[id].sendCredit <= ses.streams[id].sendCredit
    BY <1>1, <2>1, SessionFields, StreamFields, FrameAssumption
  <2>3. /\ x.creditNotify = ses.streams[id].creditNotify
        /\ x.sendCredit = ses.streams[id].sendCredit
    BY <2>2 DEF WriteQueued, Stream
  <2>. HIDE DEF x, id
  <2>. QED
    BY <1>1, <2>1, <2>2, <2>3, OneStreamReaders, Zenon
<1>7. CASE ApplyClose(u)
  BY <1>1, <1>2, <1>7, EndStreamReaders, Zenon DEF ApplyClose
<1>8. CASE UpLaunch(u)
  BY <1>1, <1>8, LanesReaders, Zenon DEF UpLaunch
<1>9. CASE UpCloses(u)
  BY <1>1, <1>9, CloseSessionReaders, Zenon DEF UpCloses
<1>10. CASE UpCommit(u)
  <2>. DEFINE idle == [ses EXCEPT !.lanes[0].upActive = FALSE]
              cost == WriteCost(ses, ups[u].body)
              items == WriteItems(ses, ups[u].body)
  <2>1. idle \in Session /\ ReadersKept(ses, idle)
    BY <1>1, LaneUpdates, LanesReaders, Zenon
  <2>2. cost \in Nat /\ items \in Nat
    BY <1>1, UpFields, WriteCostNatural, Zenon
  <2>3. ses' = idle \/ ses' = Reserve(idle, cost, items)
    BY <1>10, Zenon DEF UpCommit
  <2>. HIDE DEF idle, cost, items
  <2>4. ReadersKept(idle, Reserve(idle, cost, items))
    BY <2>1, <2>2, BudgetReaders, Zenon
  <2>5. CASE ses' = idle
    BY <2>1, <2>5
  <2>6. CASE ses' = Reserve(idle, cost, items)
    BY <2>1, <2>4, <2>6, ReadersKeptTransitive, Zenon
  <2>. QED
    BY <2>3, <2>5, <2>6
<1>11. CASE UpApplied(u)
  <2>. DEFINE r == ReleasePending(ses, ups[u].cost, ups[u].items)
  <2>1. r \in Session /\ ReadersKept(ses, r)
    BY <1>1, UpFields, ReleasePendingType, BudgetReaders, Zenon
  <2>2. ses' = [r EXCEPT !.lanes[0].lastUpSequence = ups[u].seq,
                         !.lanes[0].lastUpDigest = ups[u].body]
    BY <1>11, Zenon DEF UpApplied
  <2>. HIDE DEF r
  <2>3. ReadersKept(r, ses')
    BY <2>1, <2>2, LanesReaders, Zenon
  <2>. QED
    BY <2>1, <2>3, ReadersKeptTransitive, Zenon
<1>. QED
  BY <1>3, <1>4, <1>5, <1>6, <1>7, <1>8, <1>9, <1>10, <1>11, Zenon DEF UpStep

LEMMA TakeOrParkReaders ==
  ASSUME NEW s \in Session, NEW ps, NEW p, TakeOrPark(s, ps, p)
  PROVE  ReadersKept(s, ses')
<1>1. ses' = s \/ \E x : ses' = [s EXCEPT !.lanes[0] = x]
  <2>1. CASE s.lanes[0].frames = <<>>
    BY <2>1, Zenon DEF TakeOrPark
  <2>2. CASE s.lanes[0].frames # <<>>
    <3>1. PICK k : ses' = TakenBy(s, ps[p].cursor, k)
      BY <2>2, Zenon DEF TakeOrPark
    <3>. DEFINE x == TakeBatch(s.lanes[0], k, ps[p].cursor)
    <3>2. ses' = [s EXCEPT !.lanes[0] = x]
      BY <3>1, SessionFields, LaneZero DEF TakenBy, Session
    <3>. HIDE DEF x
    <3>. QED
      BY <3>2, Zenon
  <2>. QED
    BY <2>1, <2>2
<1>2. \A x : ReadersKept(s, [s EXCEPT !.lanes[0] = x])
  BY LanesReaders, Zenon
<1>3. ReadersKept(s, s)
  BY DEF ReadersKept
<1>4. CASE ses' = s
  BY <1>3, <1>4, Zenon
<1>5. CASE \E x : ses' = [s EXCEPT !.lanes[0] = x]
  BY <1>2, <1>5, Zenon
<1>. QED
  BY <1>1, <1>4, <1>5

LEMMA PollReaders ==
  ASSUME TypeOK, NEW p \in Pollers,
         PollStep(p) \/ PollCancelled(p) \/ \E cursor : PollBegin(p, cursor)
  PROVE  ReadersKept(ses, ses')
<1>1. ses \in Session /\ ReadersKept(ses, ses)
  BY Zenon DEF TypeOK, BackendTypeOK, ReadersKept
<1>2. CASE ses' = ses
  BY <1>1, <1>2, Zenon
<1>3. CASE \/ ses' = [ses EXCEPT !.lanes[0].owner = NoPoller]
           \/ ses' = [ses EXCEPT !.lanes[0].notify = FALSE]
           \/ ses' = [ses EXCEPT !.lanes[0].notify = TRUE]
  BY <1>1, <1>3, LanesReaders, Zenon
<1>4. CASE ses' = CloseSession(ses)
  BY <1>1, <1>4, CloseSessionReaders, Zenon
<1>5. CASE TakeOrPark(ses, polls, p)
  BY <1>1, <1>5, TakeOrParkReaders, Zenon
<1>6. CASE \E cursor : PollBegin(p, cursor)
  <2>1. CASE UNCHANGED ses
    BY <1>2, <2>1
  <2>2. CASE \E ps : TakeOrPark([AckUnacked(ses, 0) EXCEPT !.lanes[0].owner = p], ps, p)
    <3>. DEFINE acked == AckUnacked(ses, 0)
                s == [acked EXCEPT !.lanes[0].owner = p]
                lane == ses.lanes[0]
                r == ReleasePending(ses, lane.unackedCost, lane.unackedItems)
                x == [lane EXCEPT !.unacked = <<>>, !.unackedCost = 0, !.unackedItems = 0]
    <3>1. lane.unackedCost \in Int /\ lane.unackedItems \in Int
      BY <1>1, SessionFields, LaneFields, LaneZero
    <3>2. r \in Session /\ ReadersKept(ses, r)
      BY <1>1, <3>1, ReleasePendingType, BudgetReaders, Zenon
    <3>3. acked = [r EXCEPT !.lanes[0] = x]
      BY Zenon DEF AckUnacked
    <3>4. acked \in Session
      BY <1>1, LaneZero, AckUnackedType, Zenon
    <3>. HIDE DEF acked, r, x
    <3>5. ReadersKept(ses, acked)
      BY <3>2, <3>3, LanesReaders, ReadersKeptTransitive, Zenon
    <3>6. s \in Session
      <4>1. p \in Pollers \cup {NoPoller}
        OBVIOUS
      <4>. QED
        BY <3>4, <4>1, LaneUpdates, Zenon
    <3>7. ReadersKept(acked, s)
      BY <3>4, LanesReaders, Zenon
    <3>. HIDE DEF s
    <3>8. ReadersKept(s, ses')
      BY <2>2, <3>6, TakeOrParkReaders, Zenon DEF s, acked
    <3>. QED
      BY <3>5, <3>7, <3>8, ReadersKeptTransitive, Zenon
  <2>. QED
    BY <1>6, <2>1, <2>2, Zenon DEF PollBegin
<1>7. CASE PollWakes(p) \/ PollResumes(p) \/ PollSuperseded(p)
  BY <1>3, <1>5, <1>7, Zenon DEF PollWakes, PollResumes, PollSuperseded, Signalled
<1>8. CASE PollCancelled(p) \/ PollExpires(p)
  BY <1>2, <1>3, <1>5, <1>8, Zenon DEF PollCancelled, PollExpires, Disown, Signalled
<1>9. CASE PollCloses(p) \/ PollReturns(p)
  BY <1>2, <1>4, <1>9, Zenon DEF PollCloses, PollReturns
<1>. QED
  BY <1>6, <1>7, <1>8, <1>9, Zenon DEF PollStep

(* A step that starves no reader and puts none to sleep.                   *)
LEMMA QuietReadersStep ==
  ASSUME NoLostReaderWakeup, ReadersKept(ses, ses'), ReadersQuiet
  PROVE  NoLostReaderWakeup'
<1>1. \A id \in StreamIds : backends[id].reader = "wait" => ~Starved(ses, id)
  BY Zenon DEF NoLostReaderWakeup, Starved, Live, stream
<1>2. \A id \in StreamIds : backends'[id].reader = "wait" => ~Starved(ses', id)
  BY <1>1, Zenon DEF ReadersKept, ReadersQuiet
<1>3. ASSUME NEW id \in StreamIds, backends'[id].reader = "wait", Live(id)',
             ReadAllowance(ses', id) # 0
      PROVE  stream(id)'.creditNotify \/ id \notin ses'.budgetWaiters
  BY <1>2, <1>3, Zenon DEF Starved, Live, stream
<1>. QED
  BY <1>3, Zenon DEF NoLostReaderWakeup

(* A step that concerns the reader of one stream.                          *)
LEMMA OneReaderStep ==
  ASSUME NoLostReaderWakeup, NEW id \in StreamIds,
         \A other \in StreamIds \ {id} :
           /\ Starved(ses', other) => Starved(ses, other)
           /\ backends'[other].reader = "wait" => backends[other].reader = "wait",
         backends'[id].reader = "wait" => ~Starved(ses', id)
  PROVE  NoLostReaderWakeup'
<1>1. \A other \in StreamIds : backends[other].reader = "wait" => ~Starved(ses, other)
  BY Zenon DEF NoLostReaderWakeup, Starved, Live, stream
<1>2. \A other \in StreamIds : backends'[other].reader = "wait" => ~Starved(ses', other)
  BY <1>1
<1>3. ASSUME NEW other \in StreamIds, backends'[other].reader = "wait", Live(other)',
             ReadAllowance(ses', other) # 0
      PROVE  stream(other)'.creditNotify \/ other \notin ses'.budgetWaiters
  BY <1>2, <1>3, Zenon DEF Starved, Live, stream
<1>. QED
  BY <1>3, Zenon DEF NoLostReaderWakeup

(* A reader goes to sleep only without an allowance, and takes the budget  *)
(* channel in the critical section in which it looked.                     *)
LEMMA NextReadStep ==
  ASSUME TypeOK, NoLostReaderWakeup, NEW id \in StreamIds, NextRead(id)
  PROVE  NoLostReaderWakeup'
<1>1. ses \in Session /\ backends \in [StreamIds -> BackendState]
  BY Zenon DEF TypeOK, BackendTypeOK
<1>2. \A other \in StreamIds \ {id} : backends'[other] = backends[other]
  BY <1>1 DEF NextRead, ReaderExits
<1>3. CASE ses' = ses \/ ses' = CancelBackend(ses, {id})
  <2>1. ReadersKept(ses, ses')
    BY <1>1, <1>3, LanesReaders, SameReaders, Zenon
  <2>2. CASE backends'[id].reader # "wait"
    BY <1>2, <2>1, <2>2, OneReaderStep DEF ReadersKept
  <2>3. CASE backends'[id].reader = "wait"
    <3>1. backends' = [backends EXCEPT ![id].reader = "wait"]
          /\ ReadAllowance(ses, id) = 0
          /\ ses' = [ses EXCEPT !.budgetWaiters = @ \cup {id}]
      BY <1>1, <2>3 DEF NextRead, ReaderExits, BackendState
    <3>2. /\ ses'.streams = ses.streams /\ ses'.pendingCost = ses.pendingCost
          /\ ses'.pendingItems = ses.pendingItems
      BY <1>1, <3>1 DEF Session
    <3>3. ReadAllowance(ses', id) = 0
      BY <3>1, <3>2, Zenon DEF ReadAllowance
    <3>. QED
      BY <1>2, <2>1, <3>3, OneReaderStep DEF ReadersKept, Starved
  <2>. QED
    BY <2>2, <2>3
<1>4. CASE ses' = [ses EXCEPT !.budgetWaiters = @ \cup {id}] /\ ReadAllowance(ses, id) = 0
  <2>1. /\ ses'.closed = ses.closed /\ ses'.streams = ses.streams
        /\ \A other \in StreamIds \ {id} : other \in ses'.budgetWaiters => other \in ses.budgetWaiters
        /\ ses'.pendingCost = ses.pendingCost /\ ses'.pendingItems = ses.pendingItems
    BY <1>1, <1>4 DEF Session
  <2>2. \A other \in StreamIds \ {id} : Starved(ses', other) => Starved(ses, other)
    BY <2>1, Zenon DEF Starved, ReadAllowance
  <2>3. ReadAllowance(ses', id) = 0
    BY <1>4, <2>1, Zenon DEF ReadAllowance
  <2>. QED
    BY <1>2, <2>2, <2>3, OneReaderStep DEF Starved
<1>. QED
  BY <1>3, <1>4, Zenon DEF NextRead

LEMMA CreditWakesReaderStep ==
  ASSUME TypeOK, NoLostReaderWakeup, NEW id \in StreamIds, CreditWakesReader(id)
  PROVE  NoLostReaderWakeup'
<1>1. ses \in Session /\ backends \in [StreamIds -> BackendState]
  BY Zenon DEF TypeOK, BackendTypeOK
<1>2. /\ \A other \in StreamIds \ {id} : backends'[other] = backends[other]
      /\ backends'[id].reader # "wait"
  BY <1>1 DEF CreditWakesReader, BackendState
<1>3. /\ ses'.closed = ses.closed
      /\ \A other \in StreamIds \ {id} : /\ ses'.streams[other] = ses.streams[other]
                                         /\ other \in ses'.budgetWaiters => other \in ses.budgetWaiters
      /\ ses'.pendingCost = ses.pendingCost /\ ses'.pendingItems = ses.pendingItems
  BY <1>1 DEF CreditWakesReader, Session
<1>4. \A other \in StreamIds \ {id} : Starved(ses', other) => Starved(ses, other)
  BY <1>3, Zenon DEF Starved, ReadAllowance
<1>. QED
  BY <1>2, <1>4, OneReaderStep

(* The reader of a stream that is opened does not run yet.                 *)
LEMMA ApplyOpenReaders ==
  ASSUME TypeOK, NoLostReaderWakeup, NEW u \in Uppers, ApplyOpen(u)
  PROVE  NoLostReaderWakeup'
<1>. DEFINE id == Current(u).id
<1>1. /\ ses \in Session /\ backends \in [StreamIds -> BackendState] /\ UpsTypeOK
      /\ Applying(u) /\ Current(u).type = "OPEN"
  BY Zenon DEF TypeOK, BackendTypeOK, ApplyOpen
<1>2. id \in StreamIds
  <2>1. ValidClientShape(Current(u)) /\ (id # 0 => id \in StreamIds)
    BY <1>1, CurrentType, Zenon
  <2>. QED
    BY <1>1, <2>1 DEF ValidClientShape
<1>. HIDE DEF id
<1>3. /\ ses' = [ses EXCEPT !.streams[id] = OpenedStream]
      /\ backends' = [backends EXCEPT ![id] = [NoBackend EXCEPT !.run = "opened"]]
  BY Zenon DEF ApplyOpen, id
<1>4. /\ \A other \in StreamIds \ {id} : backends'[other] = backends[other]
      /\ backends'[id].reader # "wait"
  BY <1>1, <1>2, <1>3 DEF NoBackend
<1>5. /\ ses'.closed = ses.closed /\ ses'.budgetWaiters = ses.budgetWaiters
      /\ \A other \in StreamIds \ {id} : ses'.streams[other] = ses.streams[other]
      /\ ses'.pendingCost = ses.pendingCost /\ ses'.pendingItems = ses.pendingItems
  BY <1>1, <1>3 DEF Session
<1>6. \A other \in StreamIds \ {id} : Starved(ses', other) => Starved(ses, other)
  BY <1>5, Zenon DEF Starved, ReadAllowance
<1>. QED
  BY <1>2, <1>4, <1>6, OneReaderStep

LEMMA ReaderWakeupInit == Init => NoLostReaderWakeup
<1>. SUFFICES ASSUME Init, NEW id \in StreamIds PROVE backends[id].reader # "wait"
  BY Zenon DEF NoLostReaderWakeup
<1>. QED
  BY DEF Init, BackendInit, NoBackend

LEMMA ReaderWakeupStep ==
  ASSUME TypeOK, NoLostReaderWakeup, [Next]_vars
  PROVE  NoLostReaderWakeup'
<1>1. ses \in Session /\ backends \in [StreamIds -> BackendState] /\ ReadersKept(ses, ses)
  BY Zenon DEF TypeOK, BackendTypeOK, ReadersKept
<1>2. UNCHANGED backends => ReadersQuiet
  BY DEF ReadersQuiet
<1>3. ASSUME NEW u \in Uppers, UpStep(u) PROVE NoLostReaderWakeup'
  <2>1. CASE ApplyOpen(u)
    BY <2>1, ApplyOpenReaders, Zenon
  <2>2. CASE ~ApplyOpen(u)
    <3>1. ReadersKept(ses, ses')
      BY <1>3, <2>2, UpReaders, Zenon
    <3>2. ReadersQuiet
      BY <1>3, <2>2, UpLoopsKept, Zenon DEF LoopsKept, ReadersQuiet
    <3>. QED
      BY <3>1, <3>2, QuietReadersStep, Zenon
  <2>. QED
    BY <2>1, <2>2
<1>4. ASSUME NEW u \in Uppers, NEW q, NEW body, UpBegin(u, q, body)
      PROVE  NoLostReaderWakeup'
  <2>1. UNCHANGED backends
    BY <1>4, Zenon DEF UpBegin
  <2>2. ses' = ses \/ ses' = [ses EXCEPT !.lanes[0].upActive = TRUE]
    BY <1>4, Zenon DEF UpBegin
  <2>3. ReadersKept(ses, ses')
    BY <1>1, <2>2, LanesReaders, Zenon
  <2>. QED
    BY <1>2, <2>1, <2>3, QuietReadersStep, Zenon
<1>5. ASSUME NEW id \in StreamIds, BackendNext(id) PROVE NoLostReaderWakeup'
  <2>1. BackendStep(id)
    BY <1>5, Zenon DEF BackendNext
  <2>2. CASE NextRead(id)
    BY <2>2, NextReadStep, Zenon
  <2>3. CASE CreditWakesReader(id)
    BY <2>3, CreditWakesReaderStep, Zenon
  <2>4. CASE ~NextRead(id) /\ ~CreditWakesReader(id)
    BY <2>1, <2>4, BackendReadersQuiet, BackendReaders, QuietReadersStep, Zenon
  <2>. QED
    BY <2>2, <2>3, <2>4
<1>6. CASE Close
  BY <1>1, <1>2, <1>6, CloseSessionReaders, QuietReadersStep, Zenon DEF Close
<1>7. CASE UNCHANGED vars
  BY <1>1, <1>2, <1>7, QuietReadersStep, Zenon DEF vars
<1>8. ASSUME NEW p \in Pollers,
             PollStep(p) \/ PollCancelled(p) \/ \E cursor : PollBegin(p, cursor)
      PROVE  NoLostReaderWakeup'
  <2>1. UNCHANGED backends
    BY <1>8, Zenon DEF PollStep, PollWakes, PollResumes, PollSuperseded, PollExpires,
       PollCloses, PollReturns, PollCancelled, PollBegin
  <2>. QED
    BY <1>2, <1>8, <2>1, PollReaders, QuietReadersStep, Zenon
<1>. QED
  BY <1>3, <1>4, <1>5, <1>6, <1>7, <1>8, Zenon DEF Next, System, Environment

(* No read loop sleeps on while it has both credit and room: whatever      *)
(* restores the one leaves a token for it or closes the channel it waits   *)
(* on, which it took in the critical section in which it looked.           *)
THEOREM NoLostReaderWakeupHolds == Spec => []NoLostReaderWakeup
BY TypeCorrect, ReaderWakeupInit, ReaderWakeupStep, PTL DEF Spec

-----------------------------------------------------------------------------
(* What a critical section that opens no stream leaves of those outside    *)
(* ids: it does not touch their life and their flow control, or it closes  *)
(* the session and cancels the backends of all that were live.             *)

SameFlow(x, y) ==
  /\ y.live = x.live
  /\ y.receiveWindow = x.receiveWindow
  /\ y.pendingWriteBytes = x.pendingWriteBytes
  /\ y.pendingWriteCost = x.pendingWriteCost
  /\ y.pendingWriteItems = x.pendingWriteItems
  /\ y.writes = x.writes

FlowKept(s, t, ids) ==
  /\ s.cancelled \subseteq t.cancelled
  /\ \A id \in StreamIds : t.streams[id].live => s.streams[id].live
  /\ \/ /\ t.closed = s.closed
        /\ \A id \in StreamIds \ ids : SameFlow(s.streams[id], t.streams[id])
     \/ /\ t.closed
        /\ \A id \in StreamIds : ~t.streams[id].live
        /\ \A id \in StreamIds \ ids : s.streams[id].live => id \in t.cancelled

LEMMA SameStreamsFlow ==
  ASSUME NEW s, NEW t, t.streams = s.streams, t.closed = s.closed,
         s.cancelled \subseteq t.cancelled, NEW ids
  PROVE  FlowKept(s, t, ids)
BY Zenon DEF FlowKept, SameFlow

LEMMA FlowTransitive ==
  ASSUME NEW s, NEW t, NEW v, NEW a, NEW b, FlowKept(s, t, a), FlowKept(t, v, b),
         NEW ids, a \subseteq ids, b \subseteq ids
  PROVE  FlowKept(s, v, ids)
<1>1. /\ s.cancelled \subseteq v.cancelled
      /\ \A id \in StreamIds : v.streams[id].live => s.streams[id].live
  BY DEF FlowKept
<1>2. CASE /\ v.closed
           /\ \A id \in StreamIds : ~v.streams[id].live
           /\ \A id \in StreamIds \ b : t.streams[id].live => id \in v.cancelled
  BY <1>1, <1>2 DEF FlowKept, SameFlow
<1>3. CASE /\ v.closed = t.closed
           /\ \A id \in StreamIds \ b : SameFlow(t.streams[id], v.streams[id])
  <2>1. CASE /\ t.closed = s.closed
             /\ \A id \in StreamIds \ a : SameFlow(s.streams[id], t.streams[id])
    <3>1. v.closed = s.closed
      BY <1>3, <2>1, Zenon
    <3>2. ASSUME NEW id \in StreamIds \ ids
          PROVE  SameFlow(s.streams[id], v.streams[id])
      <4>1. id \in StreamIds \ a /\ id \in StreamIds \ b
        OBVIOUS
      <4>2. SameFlow(s.streams[id], t.streams[id]) /\ SameFlow(t.streams[id], v.streams[id])
        BY <1>3, <2>1, <4>1, Zenon
      <4>. QED
        BY <4>2, Zenon DEF SameFlow
    <3>. QED
      BY <1>1, <3>1, <3>2, Zenon DEF FlowKept
  <2>2. CASE /\ t.closed
             /\ \A id \in StreamIds : ~t.streams[id].live
             /\ \A id \in StreamIds \ a : s.streams[id].live => id \in t.cancelled
    <3>1. v.closed /\ t.cancelled \subseteq v.cancelled
      BY <1>3, <2>2, Zenon DEF FlowKept
    <3>2. \A id \in StreamIds : ~v.streams[id].live
      BY <2>2, Zenon DEF FlowKept
    <3>3. \A id \in StreamIds \ ids : s.streams[id].live => id \in v.cancelled
      BY <2>2, <3>1
    <3>. QED
      BY <1>1, <3>1, <3>2, <3>3, Zenon DEF FlowKept
  <2>. QED
    BY <2>1, <2>2, Zenon DEF FlowKept
<1>. QED
  BY <1>2, <1>3 DEF FlowKept

LEMMA OneStreamFlow ==
  ASSUME NEW s \in Session, NEW id \in StreamIds, NEW x, x.live => s.streams[id].live
  PROVE  /\ FlowKept(s, [s EXCEPT !.streams[id] = x], {id})
         /\ SameFlow(s.streams[id], x) => FlowKept(s, [s EXCEPT !.streams[id] = x], {})
<1>. DEFINE t == [s EXCEPT !.streams[id] = x]
<1>1. /\ t.closed = s.closed /\ t.cancelled = s.cancelled /\ t.streams[id] = x
      /\ \A other \in StreamIds \ {id} : t.streams[other] = s.streams[other]
  BY DEF Session
<1>. HIDE DEF t
<1>2. FlowKept(s, t, {id}) /\ (SameFlow(s.streams[id], x) => FlowKept(s, t, {}))
  BY <1>1 DEF FlowKept, SameFlow
<1>. QED
  BY <1>2 DEF t

LEMMA BudgetFlow ==
  ASSUME NEW s \in Session, NEW cost \in Int, NEW items \in Int
  PROVE  /\ FlowKept(s, ReleasePending(s, cost, items), {})
         /\ FlowKept(s, Reserve(s, cost, items), {})
<1>1. /\ ReleasePending(s, cost, items).streams = s.streams
      /\ ReleasePending(s, cost, items).closed = s.closed
      /\ ReleasePending(s, cost, items).cancelled = s.cancelled
      /\ Reserve(s, cost, items).streams = s.streams
      /\ Reserve(s, cost, items).closed = s.closed
      /\ Reserve(s, cost, items).cancelled = s.cancelled
  BY DEF Session, ReleasePending, Reserve
<1>. QED
  BY <1>1, SameStreamsFlow

LEMMA CancelFlow ==
  ASSUME NEW s, NEW t \in Session, NEW ids, FlowKept(s, t, ids), NEW some
  PROVE  FlowKept(s, CancelBackend(t, some), ids)
<1>1. /\ CancelBackend(t, some).streams = t.streams /\ CancelBackend(t, some).closed = t.closed
      /\ t.cancelled \subseteq CancelBackend(t, some).cancelled
  BY DEF Session, CancelBackend
<1>. QED
  BY <1>1, SameStreamsFlow, FlowTransitive, Zenon

(* What does not touch streams, the closed flag or the cancelled ones.     *)
LEMMA LanesFlow ==
  ASSUME NEW s \in Session
  PROVE  /\ FlowKept(s, s, {})
         /\ \A x : FlowKept(s, [s EXCEPT !.lanes[0].upActive = x], {})
         /\ \A x : FlowKept(s, [s EXCEPT !.lanes[0].owner = x], {})
         /\ \A x : FlowKept(s, [s EXCEPT !.lanes[0].notify = x], {})
         /\ \A x : FlowKept(s, [s EXCEPT !.lanes[0] = x], {})
         /\ \A x, y : FlowKept(s, [s EXCEPT !.lanes[0].lastUpSequence = x,
                                            !.lanes[0].lastUpDigest = y], {})
         /\ \A order : FlowKept(s, [s EXCEPT !.closedOrder = order], {})
         /\ \A waiters : FlowKept(s, [s EXCEPT !.budgetWaiters = waiters], {})
<1>1. ASSUME NEW x, NEW t, \/ t = s
                           \/ t = [s EXCEPT !.lanes[0].upActive = x]
                           \/ t = [s EXCEPT !.lanes[0].owner = x]
                           \/ t = [s EXCEPT !.lanes[0].notify = x]
                           \/ t = [s EXCEPT !.lanes[0] = x]
                           \/ t = [s EXCEPT !.closedOrder = x]
                           \/ t = [s EXCEPT !.budgetWaiters = x]
      PROVE  FlowKept(s, t, {})
  <2>1. t.streams = s.streams /\ t.closed = s.closed /\ t.cancelled = s.cancelled
    BY <1>1 DEF Session
  <2>. QED
    BY <2>1, SameStreamsFlow
<1>2. ASSUME NEW x, NEW y
      PROVE  FlowKept(s, [s EXCEPT !.lanes[0].lastUpSequence = x, !.lanes[0].lastUpDigest = y], {})
  <2>. DEFINE t == [s EXCEPT !.lanes[0].lastUpSequence = x, !.lanes[0].lastUpDigest = y]
  <2>1. t.streams = s.streams /\ t.closed = s.closed /\ t.cancelled = s.cancelled
    BY DEF Session
  <2>. HIDE DEF t
  <2>2. FlowKept(s, t, {})
    BY <2>1, SameStreamsFlow
  <2>. QED
    BY <2>2 DEF t
<1>. QED
  BY <1>1, <1>2, Zenon

LEMMA QueueFrameFlow ==
  ASSUME NEW s \in Session, NEW f
  PROVE  FlowKept(s, QueueFrame(s, f), {})
<1>. DEFINE a == QueueCost(s.lanes[LaneOf(f.id)], f)
            b == QueueItems(s.lanes[LaneOf(f.id)], f)
            c == [s.lanes[LaneOf(f.id)] EXCEPT
                    !.frames = FramesWith(s.lanes[LaneOf(f.id)], f),
                    !.windows = WindowsWith(s.lanes[LaneOf(f.id)], f),
                    !.notify = TRUE]
            t == QueueFrame(s, f)
<1>1. t = [s EXCEPT !.pendingCost = @ + a, !.pendingItems = @ + b,
                    !.lanes[LaneOf(f.id)] = c]
  BY Zenon DEF QueueFrame
<1>. HIDE DEF a, b, c, t
<1>2. t.streams = s.streams /\ t.closed = s.closed /\ t.cancelled = s.cancelled
  BY <1>1 DEF Session
<1>3. FlowKept(s, t, {})
  BY <1>2, SameStreamsFlow
<1>. QED
  BY <1>3 DEF t

LEMMA CloseSessionFlow ==
  ASSUME NEW s \in Session
  PROVE  /\ FlowKept(s, CloseSession(s), {})
         /\ CloseSession(s).closed
         /\ s.closed \/ \A id \in StreamIds : ~CloseSession(s).streams[id].live
<1>1. CASE s.closed
  BY <1>1, LanesFlow, Zenon DEF CloseSession
<1>2. CASE ~s.closed
  <2>1. /\ CloseSession(s).closed = TRUE
        /\ CloseSession(s).cancelled = s.cancelled \cup LiveStreams(s)
        /\ \A id \in StreamIds : CloseSession(s).streams[id] = NoStream
    BY <1>2 DEF CloseSession, Session
  <2>2. ~NoStream.live
    BY DEF NoStream
  <2>3. \A id \in StreamIds : s.streams[id].live => id \in CloseSession(s).cancelled
    BY <2>1 DEF LiveStreams
  <2>. QED
    BY <2>1, <2>2, <2>3 DEF FlowKept
<1>. QED
  BY <1>1, <1>2

(* The end of a stream concerns it alone.                                  *)
LEMMA EndStreamFlow ==
  ASSUME NEW s \in Session, NEW id \in StreamIds
  PROVE  /\ FlowKept(s, RememberClosed(s, id), {})
         /\ FlowKept(s, EndStream(s, id), {id})
         /\ ~EndStream(s, id).streams[id].live
<1>1. ASSUME NEW t \in Session
      PROVE  FlowKept(t, RememberClosed(t, id), {}) /\ RememberClosed(t, id).streams = t.streams
  <2>1. \A l : DropLane(t, l) = t
    BY OneLane, Zenon DEF DropLane
  <2>2. \A order : [t EXCEPT !.closedOrder = order].streams = t.streams
    BY DEF Session
  <2>. QED
    BY <2>1, <2>2, OneLane, LanesFlow, Zenon DEF RememberClosed
<1>. DEFINE r == ReleasePending(s, s.streams[id].pendingWriteCost,
                                   s.streams[id].pendingWriteItems)
            d == DropStream(s, id)
<1>2. r \in Session /\ FlowKept(s, r, {})
  <2>1. s.streams[id].pendingWriteCost \in Int /\ s.streams[id].pendingWriteItems \in Int
    BY SessionFields, StreamFields
  <2>. QED
    BY <2>1, BudgetFlow, ReleasePendingType, Zenon
<1>3. d = [r EXCEPT !.streams[id] = NoStream] /\ d \in Session
  BY DropStreamType, Zenon DEF DropStream
<1>. HIDE DEF r, d
<1>4. FlowKept(r, d, {id})
  <2>1. ~NoStream.live
    BY DEF NoStream
  <2>. QED
    BY <1>2, <1>3, <2>1, OneStreamFlow, Zenon
<1>5. ~d.streams[id].live
  <2>1. d.streams[id] = NoStream
    BY <1>2, <1>3 DEF Session
  <2>. QED
    BY <2>1 DEF NoStream
<1>6. FlowKept(s, d, {id})
  BY <1>2, <1>4, FlowTransitive
<1>7. FlowKept(d, RememberClosed(d, id), {}) /\ RememberClosed(d, id).streams = d.streams
  BY <1>1, <1>3
<1>8. FlowKept(s, RememberClosed(d, id), {id})
  BY <1>6, <1>7, FlowTransitive
<1>. QED
  BY <1>1, <1>5, <1>7, <1>8 DEF EndStream, d

(* What leaves the life, the window and the writes of all streams alone.   *)
LEMMA SignalsFlow ==
  ASSUME NEW s \in Session, NEW id \in StreamIds
  PROVE  /\ \A k : FlowKept(s, SpendCredit(s, id, k), {})
         /\ FlowKept(s, [s EXCEPT !.streams[id].writeNotify = FALSE], {})
         /\ \A waiters : FlowKept(s, [s EXCEPT !.streams[id].creditNotify = FALSE,
                                               !.budgetWaiters = waiters], {})
         /\ \A x, y : FlowKept(s, [s EXCEPT !.streams[id].sendCredit = x,
                                            !.streams[id].creditNotify = y], {})
<1>1. ASSUME NEW t, t.closed = s.closed, t.cancelled = s.cancelled,
             SameFlow(s.streams[id], t.streams[id]),
             \A other \in StreamIds \ {id} : t.streams[other] = s.streams[other]
      PROVE  FlowKept(s, t, {})
  BY <1>1 DEF FlowKept, SameFlow
<1>2. s.streams \in [StreamIds -> Stream] /\ s.streams[id] \in Stream
  BY SessionFields
<1>3. ASSUME NEW x, NEW t, t = SpendCredit(s, id, x)
      PROVE  FlowKept(s, t, {})
  <2>1. t.streams[id] = [s.streams[id] EXCEPT !.sendCredit = @ - x]
    BY <1>2, <1>3 DEF SpendCredit, Session
  <2>2. SameFlow(s.streams[id], t.streams[id])
    BY <1>2, <2>1 DEF Stream, SameFlow
  <2>. QED
    BY <1>1, <1>2, <1>3, <2>2 DEF SpendCredit, Session
<1>4. ASSUME NEW t, t = [s EXCEPT !.streams[id].writeNotify = FALSE]
      PROVE  FlowKept(s, t, {})
  <2>1. t.streams[id] = [s.streams[id] EXCEPT !.writeNotify = FALSE]
    BY <1>2, <1>4 DEF Session
  <2>2. SameFlow(s.streams[id], t.streams[id])
    BY <1>2, <2>1 DEF Stream, SameFlow
  <2>. QED
    BY <1>1, <1>2, <1>4, <2>2 DEF Session
<1>5. ASSUME NEW x, NEW t, t = [s EXCEPT !.streams[id].creditNotify = FALSE, !.budgetWaiters = x]
      PROVE  FlowKept(s, t, {})
  <2>1. t.streams[id] = [s.streams[id] EXCEPT !.creditNotify = FALSE]
    BY <1>2, <1>5 DEF Session
  <2>2. SameFlow(s.streams[id], t.streams[id])
    BY <1>2, <2>1 DEF Stream, SameFlow
  <2>. QED
    BY <1>1, <1>2, <1>5, <2>2 DEF Session
<1>6. ASSUME NEW x, NEW y, NEW t,
             t = [s EXCEPT !.streams[id].sendCredit = x, !.streams[id].creditNotify = y]
      PROVE  FlowKept(s, t, {})
  <2>1. t.streams[id] = [s.streams[id] EXCEPT !.sendCredit = x, !.creditNotify = y]
    BY <1>2, <1>6 DEF Session
  <2>2. SameFlow(s.streams[id], t.streams[id])
    BY <1>2, <2>1 DEF Stream, SameFlow
  <2>. QED
    BY <1>1, <1>2, <1>6, <2>2 DEF Session
<1>. QED
  BY <1>3, <1>4, <1>5, <1>6, Zenon

(* Draining and finishing a write concern the stream they are about.       *)
LEMMA AccountsFlow ==
  ASSUME NEW s \in Session, NEW id \in StreamIds
  PROVE  /\ FlowKept(s, FinishWrite(s, id), {id})
         /\ \A k \in Int : FlowKept(s, Drain(s, id, k), {id})
<1>1. \A t : AccountChanged(s, t, id) => FlowKept(s, t, {id})
  BY DEF AccountChanged, SameButAccount, FlowKept, SameFlow
<1>. QED
  BY <1>1, AccountsChanged, Zenon

LEMMA AfterWriteFlow ==
  ASSUME NEW s \in Session, NEW id \in StreamIds, NEW k \in Nat, NEW pool
  PROVE  FlowKept(s, AfterWrite(s, id, k, pool), {id})
<1>1. FlowKept(s, s, {id}) /\ k \in Int
  BY SameStreamsFlow
<1>2. CASE CanDrain(s, id, k)
  <2>1. Drain(s, id, k) \in Session /\ FlowKept(s, Drain(s, id, k), {id})
    BY <1>1, <1>2, DrainType, AccountsFlow, Zenon
  <2>2. ASSUME NEW f PROVE FlowKept(s, QueueFrame(Drain(s, id, k), f), {id})
    BY <2>1, QueueFrameFlow, FlowTransitive
  <2>. QED
    BY <1>2, <2>1, <2>2, Zenon DEF AfterWrite
<1>3. CASE ~CanDrain(s, id, k)
  BY <1>1, <1>3, Zenon DEF AfterWrite
<1>. QED
  BY <1>2, <1>3

(* backendClosed ends its stream, and possibly all.                        *)
LEMMA ClosedByBackendFlow ==
  ASSUME NEW s \in Session, NEW id \in StreamIds, NEW pool
  PROVE  /\ FlowKept(s, ClosedByBackend(s, id, pool), {id})
         /\ ~ClosedByBackend(s, id, pool).streams[id].live
<1>. DEFINE ended == EndStream(s, id)
            told == [type |-> "CLOSE", id |-> id, n |-> 0]
<1>1. ended \in Session /\ FlowKept(s, ended, {id}) /\ ~ended.streams[id].live
  BY EndStreamType, EndStreamFlow, Zenon
<1>2. ClosedByBackend(s, id, pool) \in {QueueFrame(ended, told), CloseSession(ended)}
  BY Zenon DEF ClosedByBackend
<1>. HIDE DEF ended, told
<1>3. FlowKept(ended, QueueFrame(ended, told), {}) /\ FlowKept(ended, CloseSession(ended), {})
  BY <1>1, QueueFrameFlow, CloseSessionFlow, Zenon
<1>4. ASSUME NEW t, FlowKept(ended, t, {})
      PROVE  FlowKept(s, t, {id}) /\ ~t.streams[id].live
  <2>1. FlowKept(s, t, {id})
    <3>1. {id} \subseteq {id} /\ {} \subseteq {id}
      OBVIOUS
    <3>. QED
      BY <1>1, <1>4, <3>1, FlowTransitive
  <2>2. ~t.streams[id].live
    BY <1>1, <1>4, Zenon DEF FlowKept
  <2>. QED
    BY <2>1, <2>2
<1>. QED
  BY <1>2, <1>3, <1>4

-----------------------------------------------------------------------------
(* The steps of backends, handlers and polls, for the streams.             *)

LEMMA FlowWider ==
  ASSUME NEW s, NEW t, FlowKept(s, t, {}), NEW ids
  PROVE  FlowKept(s, t, ids)
BY DEF FlowKept

(* What a backend does to other streams is nothing, unless it closes the   *)
(* session.                                                                *)
Accountable(id) ==
  NextWrite(id) \/ Write(id) \/ WriteFails(id) \/ WriteFinished(id) \/ BackendClosed(id)

LEMMA BackendFlow ==
  ASSUME TypeOK, NEW id \in StreamIds, BackendStep(id)
  PROVE  /\ FlowKept(ses, ses', {id})
         /\ ~Accountable(id) => FlowKept(ses, ses', {})
<1>. DEFINE Cancels == ses' = CancelBackend(ses, {id})
<1>1. ses \in Session /\ backends[id] \in BackendState /\ FlowKept(ses, ses, {})
  BY LanesFlow, Zenon DEF TypeOK, BackendTypeOK
<1>2. backends[id].inHand \in Nat
  BY <1>1, BackendFields
<1>3. CASE FlowKept(ses, ses', {})
  BY <1>3, FlowWider
<1>4. CASE ses' = ses \/ Cancels
  BY <1>1, <1>3, <1>4, CancelFlow, Zenon
<1>5. CASE Dialled(id) \/ DialFailed(id) \/ LoopsReturned(id) \/ BudgetWakesReader(id)
           \/ WriterStops(id) \/ ReadEnds(id)
  BY <1>4, <1>5, Zenon DEF Dialled, DialFailed, LoopsReturned, BudgetWakesReader,
                           WriterStops, ReadEnds
<1>6. CASE BackendClosed(id)
  <2>1. PICK pool : ses' = CancelBackend(IF Live(id) THEN ClosedByBackend(ses, id, pool) ELSE ses,
                                         {id})
    BY <1>6, Zenon DEF BackendClosed
  <2>2. /\ ClosedByBackend(ses, id, pool) \in Session
        /\ FlowKept(ses, ClosedByBackend(ses, id, pool), {id})
        /\ FlowKept(ses, ses, {id})
    BY <1>1, ClosedByBackendType, ClosedByBackendFlow, FlowWider, Zenon
  <2>3. FlowKept(ses, ses', {id})
    BY <1>1, <2>1, <2>2, CancelFlow, Zenon
  <2>. QED
    BY <1>6, <2>3 DEF Accountable
<1>7. CASE NextWrite(id)
  <2>1. CASE ses' = [ses EXCEPT !.streams[id].writes = Tail(@)]
    <3>1. PICK x : ses' = [ses EXCEPT !.streams[id] = x] /\ x.live = ses.streams[id].live
      <4>. DEFINE y == [ses.streams[id] EXCEPT !.writes = Tail(@)]
      <4>1. ses.streams[id] \in Stream
        BY <1>1, SessionFields
      <4>2. ses' = [ses EXCEPT !.streams[id] = y]
        BY <1>1, <2>1 DEF Session
      <4>3. y.live = ses.streams[id].live
        BY <4>1 DEF Stream
      <4>. QED
        BY <4>2, <4>3
    <3>2. FlowKept(ses, ses', {id})
      BY <1>1, <3>1, OneStreamFlow, Zenon
    <3>. QED
      BY <1>7, <3>2 DEF Accountable
  <2>. QED
    BY <1>4, <1>7, <2>1, Zenon DEF NextWrite
<1>8. CASE Write(id) \/ WriteFails(id)
  <2>1. ASSUME NEW k \in Nat, NEW pool \in BOOLEAN,
               \/ ses' = AfterWrite(ses, id, k, pool)
               \/ ses' = CancelBackend(AfterWrite(ses, id, k, pool), {id})
        PROVE  FlowKept(ses, ses', {id})
    <3>. DEFINE after == AfterWrite(ses, id, k, pool)
    <3>1. after \in Session /\ FlowKept(ses, after, {id})
      BY <1>1, AfterWriteType, AfterWriteFlow, Zenon
    <3>. HIDE DEF after
    <3>2. FlowKept(ses, CancelBackend(after, {id}), {id})
      BY <3>1, CancelFlow, Zenon
    <3>. QED
      BY <2>1, <3>1, <3>2, Zenon DEF after
  <2>2. CASE Write(id)
    <3>1. PICK pool \in PoolAnswers("control") :
            \/ ses' = AfterWrite(ses, id, backends[id].inHand, pool)
            \/ ses' = CancelBackend(AfterWrite(ses, id, backends[id].inHand, pool), {id})
      BY <2>2, Zenon DEF Write
    <3>2. pool \in BOOLEAN
      BY <3>1, PoolAnswersType, Zenon
    <3>. QED
      BY <1>2, <2>1, <2>2, <3>1, <3>2, Zenon DEF Accountable
  <2>3. CASE WriteFails(id)
    <3>1. PICK pool \in PoolAnswers("control"), k \in 0 .. backends[id].inHand - 1 :
            ses' = CancelBackend(AfterWrite(ses, id, k, pool), {id})
      BY <2>3, Zenon DEF WriteFails
    <3>2. pool \in BOOLEAN
      BY <3>1, PoolAnswersType, Zenon
    <3>3. k \in Nat
      BY <1>2, <3>1
    <3>. QED
      BY <2>1, <2>3, <3>1, <3>2, <3>3, Zenon DEF Accountable
  <2>. QED
    BY <1>8, <2>2, <2>3
<1>9. CASE WriteFinished(id)
  <2>1. CASE ses' = FinishWrite(ses, id)
    BY <1>1, <1>9, <2>1, AccountsFlow, Zenon DEF Accountable
  <2>. QED
    BY <1>4, <1>9, <2>1, Zenon DEF WriteFinished
<1>10. CASE WriterWakes(id)
  BY <1>1, <1>3, <1>10, SignalsFlow, Zenon DEF WriterWakes
<1>11. CASE NextRead(id)
  <2>1. CASE ses' = [ses EXCEPT !.budgetWaiters = @ \cup {id}]
    BY <1>1, <1>3, <2>1, LanesFlow, Zenon
  <2>. QED
    BY <1>4, <1>11, <2>1, Zenon DEF NextRead
<1>12. CASE CreditWakesReader(id)
  BY <1>1, <1>3, <1>12, SignalsFlow, Zenon DEF CreditWakesReader
<1>13. CASE ReaderStops(id)
  <2>. DEFINE r == [ses EXCEPT !.budgetWaiters = @ \ {id}]
  <2>1. ses.budgetWaiters \ {id} \in SUBSET StreamIds
    BY <1>1, SessionFields
  <2>2. r \in Session /\ FlowKept(ses, r, {})
    BY <1>1, <2>1, SessionUpdates, LanesFlow, Zenon
  <2>3. ses' = CancelBackend(r, {id})
    BY <1>13, Zenon DEF ReaderStops
  <2>. HIDE DEF r
  <2>. QED
    BY <1>3, <2>2, <2>3, CancelFlow, Zenon
<1>14. CASE Read(id)
  <2>1. PICK k \in 1 .. backends[id].allowance :
          LET spent == SpendCredit(ses, id, k)
          IN  \/ Cancels
              \/ /\ CanTakeData(ses, id, k)
                 /\ \/ ses' = QueueFrame(spent, [type |-> "DATA", id |-> id, n |-> k])
                    \/ ses' = CancelBackend(spent, {id})
    BY <1>14, Zenon DEF Read
  <2>. DEFINE spent == SpendCredit(ses, id, k)
  <2>2. CanTakeData(ses, id, k) => spent \in Session
    BY <1>1, <2>1, SpendCreditType, Zenon
  <2>3. FlowKept(ses, spent, {})
    BY <1>1, SignalsFlow, Zenon
  <2>4. \/ Cancels
        \/ spent \in Session /\ ses' = QueueFrame(spent, [type |-> "DATA", id |-> id, n |-> k])
        \/ spent \in Session /\ ses' = CancelBackend(spent, {id})
    BY <2>1, <2>2, Zenon
  <2>. HIDE DEF spent, Cancels
  <2>5. CASE spent \in Session /\ ses' = QueueFrame(spent, [type |-> "DATA", id |-> id, n |-> k])
    <3>1. FlowKept(spent, ses', {})
      BY <2>5, QueueFrameFlow, Zenon
    <3>. QED
      BY <1>3, <2>3, <3>1, FlowTransitive
  <2>6. CASE spent \in Session /\ ses' = CancelBackend(spent, {id})
    BY <1>3, <2>3, <2>6, CancelFlow, Zenon
  <2>. QED
    BY <1>4, <2>4, <2>5, <2>6, Zenon DEF Cancels
<1>. QED
  BY <1>5, <1>6, <1>7, <1>8, <1>9, <1>10, <1>11, <1>12, <1>13, <1>14, Zenon DEF BackendStep

(* What a handler does to the streams its current frame is not about.      *)
LEMMA UpFlow ==
  ASSUME TypeOK, NEW u \in Uppers, UpStep(u), ~ApplyOpen(u), ~ApplyData(u), ~ApplyClose(u)
  PROVE  FlowKept(ses, ses', {})
<1>1. ses \in Session /\ FlowKept(ses, ses, {}) /\ ups[u] \in UpState /\ UpsTypeOK
  BY LanesFlow, Zenon DEF TypeOK, BackendTypeOK, UpsTypeOK
<1>2. Applying(u) /\ Current(u).id # 0 => Current(u).id \in StreamIds
  BY <1>1, CurrentType, Zenon
<1>3. CASE ApplyNothing(u) \/ ApplyToNoStream(u) \/ UpReturns(u)
  BY <1>1, <1>3, Zenon DEF ApplyNothing, ApplyToNoStream, UpReturns
<1>4. CASE RejectOpen(u)
  <2>. DEFINE id == Current(u).id
              remembered == RememberClosed(ses, id)
  <2>1. id \in StreamIds
    <3>1. ValidClientShape(Current(u)) /\ Applying(u) /\ Current(u).type = "OPEN"
      BY <1>1, <1>4, CurrentType, Zenon DEF RejectOpen
    <3>2. id # 0
      BY <3>1 DEF ValidClientShape
    <3>. QED
      BY <1>2, <3>1, <3>2, Zenon
  <2>2. remembered \in Session /\ FlowKept(ses, remembered, {})
    BY <1>1, <2>1, RememberClosedType, EndStreamFlow, Zenon
  <2>3. \/ ses' = QueueFrame(remembered, [type |-> "CLOSE", id |-> id, n |-> 0])
        \/ ses' = ReleasePending(remembered, ups[u].cost, ups[u].items)
    BY <1>4, Zenon DEF RejectOpen
  <2>. HIDE DEF remembered, id
  <2>4. /\ \A f : FlowKept(remembered, QueueFrame(remembered, f), {})
        /\ FlowKept(remembered, ReleasePending(remembered, ups[u].cost, ups[u].items), {})
    BY <1>1, <2>2, UpFields, QueueFrameFlow, BudgetFlow, Zenon
  <2>5. FlowKept(remembered, ses', {})
    BY <2>3, <2>4
  <2>. QED
    BY <2>2, <2>5, FlowTransitive
<1>5. CASE ApplyWindow(u)
  <2>. DEFINE id == Current(u).id
  <2>1. ses' = [ses EXCEPT !.streams[id].sendCredit = AddCredit(@, Current(u).n),
                           !.streams[id].creditNotify = TRUE]
    BY <1>5, Zenon DEF ApplyWindow
  <2>2. PICK x : ses' = [ses EXCEPT !.streams[id].sendCredit = x,
                                    !.streams[id].creditNotify = TRUE]
    BY <1>1, <2>1, Zenon
  <2>3. id \in StreamIds
    BY <1>2, <1>5, Zenon DEF ApplyWindow
  <2>. QED
    BY <1>1, <2>2, <2>3, SignalsFlow, Zenon
<1>6. CASE UpLaunch(u)
  BY <1>1, <1>6, CancelFlow, Zenon DEF UpLaunch
<1>7. CASE UpCloses(u)
  BY <1>1, <1>7, CloseSessionFlow, Zenon DEF UpCloses
<1>8. CASE UpCommit(u)
  <2>. DEFINE idle == [ses EXCEPT !.lanes[0].upActive = FALSE]
              cost == WriteCost(ses, ups[u].body)
              items == WriteItems(ses, ups[u].body)
  <2>1. idle \in Session /\ FlowKept(ses, idle, {})
    BY <1>1, LaneUpdates, LanesFlow, Zenon
  <2>2. cost \in Int /\ items \in Int
    BY <1>1, UpFields, WriteCostType, Zenon
  <2>3. ses' = idle \/ ses' = Reserve(idle, cost, items)
    BY <1>8, Zenon DEF UpCommit
  <2>. HIDE DEF idle, cost, items
  <2>4. FlowKept(idle, Reserve(idle, cost, items), {})
    BY <2>1, <2>2, BudgetFlow, Zenon
  <2>. QED
    BY <2>1, <2>3, <2>4, FlowTransitive
<1>9. CASE UpApplied(u)
  <2>. DEFINE r == ReleasePending(ses, ups[u].cost, ups[u].items)
  <2>1. r \in Session /\ FlowKept(ses, r, {})
    BY <1>1, UpFields, ReleasePendingType, BudgetFlow, Zenon
  <2>2. ses' = [r EXCEPT !.lanes[0].lastUpSequence = ups[u].seq,
                         !.lanes[0].lastUpDigest = ups[u].body]
    BY <1>9, Zenon DEF UpApplied
  <2>. HIDE DEF r
  <2>3. FlowKept(r, ses', {})
    BY <2>1, <2>2, LanesFlow, Zenon
  <2>. QED
    BY <2>1, <2>3, FlowTransitive
<1>. QED
  BY <1>3, <1>4, <1>5, <1>6, <1>7, <1>8, <1>9, Zenon DEF UpStep

LEMMA TakeOrParkFlow ==
  ASSUME NEW s \in Session, NEW ps, NEW p, TakeOrPark(s, ps, p)
  PROVE  FlowKept(s, ses', {})
<1>1. ses' = s \/ \E x : ses' = [s EXCEPT !.lanes[0] = x]
  <2>1. CASE s.lanes[0].frames = <<>>
    BY <2>1, Zenon DEF TakeOrPark
  <2>2. CASE s.lanes[0].frames # <<>>
    <3>1. PICK k : ses' = TakenBy(s, ps[p].cursor, k)
      BY <2>2, Zenon DEF TakeOrPark
    <3>. DEFINE x == TakeBatch(s.lanes[0], k, ps[p].cursor)
    <3>2. ses' = [s EXCEPT !.lanes[0] = x]
      BY <3>1, SessionFields, LaneZero DEF TakenBy, Session
    <3>. HIDE DEF x
    <3>. QED
      BY <3>2, Zenon
  <2>. QED
    BY <2>1, <2>2
<1>. QED
  BY <1>1, LanesFlow, Zenon

LEMMA PollFlow ==
  ASSUME TypeOK, NEW p \in Pollers,
         PollStep(p) \/ PollCancelled(p) \/ \E cursor : PollBegin(p, cursor)
  PROVE  FlowKept(ses, ses', {})
<1>1. ses \in Session /\ FlowKept(ses, ses, {})
  BY LanesFlow, Zenon DEF TypeOK, BackendTypeOK
<1>2. CASE ses' = ses
  BY <1>1, <1>2, Zenon
<1>3. CASE \/ ses' = [ses EXCEPT !.lanes[0].owner = NoPoller]
           \/ ses' = [ses EXCEPT !.lanes[0].notify = FALSE]
           \/ ses' = [ses EXCEPT !.lanes[0].notify = TRUE]
  BY <1>1, <1>3, LanesFlow, Zenon
<1>4. CASE ses' = CloseSession(ses)
  BY <1>1, <1>4, CloseSessionFlow, Zenon
<1>5. CASE TakeOrPark(ses, polls, p)
  BY <1>1, <1>5, TakeOrParkFlow, Zenon
<1>6. CASE \E cursor : PollBegin(p, cursor)
  <2>1. CASE UNCHANGED ses
    BY <1>2, <2>1
  <2>2. CASE \E ps : TakeOrPark([AckUnacked(ses, 0) EXCEPT !.lanes[0].owner = p], ps, p)
    <3>. DEFINE acked == AckUnacked(ses, 0)
                s == [acked EXCEPT !.lanes[0].owner = p]
                lane == ses.lanes[0]
                r == ReleasePending(ses, lane.unackedCost, lane.unackedItems)
                x == [lane EXCEPT !.unacked = <<>>, !.unackedCost = 0, !.unackedItems = 0]
    <3>1. lane.unackedCost \in Int /\ lane.unackedItems \in Int
      BY <1>1, SessionFields, LaneFields, LaneZero
    <3>2. r \in Session /\ FlowKept(ses, r, {})
      BY <1>1, <3>1, ReleasePendingType, BudgetFlow, Zenon
    <3>3. acked = [r EXCEPT !.lanes[0] = x]
      BY Zenon DEF AckUnacked
    <3>4. acked \in Session
      BY <1>1, LaneZero, AckUnackedType, Zenon
    <3>. HIDE DEF acked, r, x
    <3>5. FlowKept(r, acked, {})
      BY <3>2, <3>3, LanesFlow, Zenon
    <3>6. s \in Session
      <4>1. p \in Pollers \cup {NoPoller}
        OBVIOUS
      <4>. QED
        BY <3>4, <4>1, LaneUpdates, Zenon
    <3>7. FlowKept(acked, s, {})
      BY <3>4, LanesFlow, Zenon
    <3>. HIDE DEF s
    <3>8. FlowKept(s, ses', {})
      BY <2>2, <3>6, TakeOrParkFlow, Zenon DEF s, acked
    <3>9. FlowKept(ses, s, {})
      BY <3>2, <3>5, <3>7, FlowTransitive
    <3>. QED
      BY <3>8, <3>9, FlowTransitive
  <2>. QED
    BY <1>6, <2>1, <2>2, Zenon DEF PollBegin
<1>7. CASE PollWakes(p) \/ PollResumes(p) \/ PollSuperseded(p)
  BY <1>3, <1>5, <1>7, Zenon DEF PollWakes, PollResumes, PollSuperseded, Signalled
<1>8. CASE PollCancelled(p) \/ PollExpires(p)
  BY <1>2, <1>3, <1>5, <1>8, Zenon DEF PollCancelled, PollExpires, Disown, Signalled
<1>9. CASE PollCloses(p) \/ PollReturns(p)
  BY <1>2, <1>4, <1>9, Zenon DEF PollCloses, PollReturns
<1>. QED
  BY <1>6, <1>7, <1>8, <1>9, Zenon DEF PollStep

(* The frames that change a stream change one.                             *)
LEMMA CurrentStream ==
  ASSUME UpsTypeOK, NEW u \in Uppers,
         ApplyOpen(u) \/ RejectOpen(u) \/ ApplyData(u) \/ ApplyClose(u)
  PROVE  Current(u).id \in StreamIds
<1>1. Applying(u) /\ (Current(u).type = "OPEN" \/ Current(u).id # 0)
  BY Zenon DEF ApplyOpen, RejectOpen, ApplyData, ApplyClose
<1>2. ValidClientShape(Current(u)) /\ (Current(u).id # 0 => Current(u).id \in StreamIds)
  BY <1>1, CurrentType, Zenon
<1>3. Current(u).id # 0
  BY <1>1, <1>2 DEF ValidClientShape
<1>. QED
  BY <1>2, <1>3

LEMMA ApplyOpenFlow ==
  ASSUME TypeOK, NEW u \in Uppers, ApplyOpen(u)
  PROVE  /\ ses'.closed = ses.closed /\ ses'.cancelled = ses.cancelled
         /\ ses'.streams[Current(u).id] = OpenedStream
         /\ \A id \in StreamIds \ {Current(u).id} : ses'.streams[id] = ses.streams[id]
<1>1. ses \in Session /\ Current(u).id \in StreamIds
  BY CurrentStream, Zenon DEF TypeOK, BackendTypeOK
<1>2. ses' = [ses EXCEPT !.streams[Current(u).id] = OpenedStream]
  BY Zenon DEF ApplyOpen
<1>. QED
  BY <1>1, <1>2 DEF Session

LEMMA ApplyFlow ==
  ASSUME TypeOK, NEW u \in Uppers, ApplyData(u) \/ ApplyClose(u)
  PROVE  /\ FlowKept(ses, ses', {Current(u).id})
         /\ ApplyData(u) => ses'.closed = ses.closed /\ ses'.cancelled = ses.cancelled
<1>. DEFINE id == Current(u).id
<1>1. ses \in Session /\ id \in StreamIds
  BY CurrentStream, Zenon DEF TypeOK, BackendTypeOK
<1>2. CASE ApplyData(u)
  <2>1. PICK x : ses' = [ses EXCEPT !.streams[id] = x]
    BY <1>2, Zenon DEF ApplyData
  <2>2. ses'.closed = ses.closed /\ ses'.cancelled = ses.cancelled
    BY <1>1, <2>1 DEF Session
  <2>3. ses.streams[id].live
    BY <1>2, Zenon DEF ApplyData
  <2>4. FlowKept(ses, ses', {id})
    BY <1>1, <2>1, <2>3, OneStreamFlow, Zenon
  <2>. QED
    BY <2>2, <2>4
<1>3. CASE ApplyClose(u) /\ ~ApplyData(u)
  <2>1. ses' = EndStream(ses, id)
    BY <1>3, Zenon DEF ApplyClose
  <2>2. FlowKept(ses, ses', {id})
    BY <1>1, <2>1, EndStreamFlow, Zenon
  <2>. QED
    BY <1>3, <2>2
<1>. QED
  BY <1>2, <1>3

-----------------------------------------------------------------------------
(* The order of the bytes of a write queue.                                *)

LEMMA SameOrderOfWrites ==
  ASSUME TypeOK, NEW id \in StreamIds,
         ses'.streams[id].live => ses'.streams[id].writes = ses.streams[id].writes
  PROVE  UplinkStep(id)
<1>. DEFINE old == ses.streams[id].writes
            new == ses'.streams[id].writes
<1>1. old \in Seq(Nat)
  BY SessionFields, StreamFields DEF TypeOK, BackendTypeOK
<1>2. CASE ~ses'.streams[id].live
  BY <1>2 DEF UplinkStep, Live
<1>3. CASE new = old
  <2>. HIDE DEF old, new
  <2>1. Len(old) \in Nat /\ \A k \in 1 .. Len(old) : old[k] \in Nat
    BY <1>1
  <2>2. Len(new) >= Len(old) /\ \A k \in 1 .. Len(old) : new[k] >= old[k]
    BY <1>3, <2>1
  <2>3. \A k \in 1 .. Len(old) - 1 : new[k] = old[k]
    BY <1>3
  <2>. QED
    BY <2>2, <2>3 DEF UplinkStep, stream, old, new
<1>. QED
  BY <1>2, <1>3

LEMMA FlowOrder ==
  ASSUME NEW ids, FlowKept(ses, ses', ids), TypeOK, NEW id \in StreamIds \ ids
  PROVE  UplinkStep(id)
BY SameOrderOfWrites DEF FlowKept, SameFlow

LEMMA WritesOrder ==
  ASSUME WritesKept(ses, ses'), TypeOK, NEW id \in StreamIds
  PROVE  UplinkStep(id)
BY SameOrderOfWrites DEF WritesKept, SameWrites

(* A payload joins the last write or the end of the queue.                 *)
LEMMA WritesWithOrder ==
  ASSUME NEW t \in Stream, NEW n \in Nat
  PROVE  /\ Len(WritesWith(t, n)) >= Len(t.writes)
         /\ \A k \in 1 .. Len(t.writes) : WritesWith(t, n)[k] >= t.writes[k]
         /\ \A k \in 1 .. Len(t.writes) - 1 : WritesWith(t, n)[k] = t.writes[k]
<1>. DEFINE q == t.writes
<1>1. q \in Seq(Nat)
  BY StreamFields
<1>2. Len(q) \in Nat /\ \A k \in 1 .. Len(q) : q[k] \in Nat
  BY <1>1
<1>. HIDE DEF q
<1>3. CASE Coalesces(t, n)
  <2>1. WritesWith(t, n) = [q EXCEPT ![Len(q)] = @ + n]
    BY <1>3 DEF WritesWith, q
  <2>. QED
    BY <1>1, <1>2, <2>1 DEF q
<1>4. CASE ~Coalesces(t, n)
  <2>1. WritesWith(t, n) = Append(q, n)
    BY <1>4 DEF WritesWith, q
  <2>. QED
    BY <1>1, <1>2, <2>1 DEF q
<1>. QED
  BY <1>3, <1>4

LEMMA UplinkOrderStep ==
  ASSUME TypeOK, TombInv, [Next]_vars, NEW id \in StreamIds
  PROVE  UplinkStep(id)
<1>1. ses \in Session /\ backends \in [StreamIds -> BackendState] /\ UpsTypeOK
  BY DEF TypeOK, BackendTypeOK
<1>2. CASE WritesKept(ses, ses')
  BY <1>2, WritesOrder
<1>3. CASE FlowKept(ses, ses', {})
  BY <1>3, FlowOrder
<1>4. ASSUME NEW b \in StreamIds, NextWrite(b) PROVE UplinkStep(id)
  <2>1. CASE id # b
    <3>1. FlowKept(ses, ses', {b})
      BY <1>4, BackendFlow, Zenon DEF BackendStep
    <3>. QED
      BY <2>1, <3>1, FlowOrder
  <2>2. CASE id = b
    <3>1. CASE ses' = ses \/ ses' = CancelBackend(ses, {id})
      <4>1. WritesKept(ses, ses) /\ WritesKept(ses, CancelBackend(ses, {id}))
        BY <1>1, SameStreams, CancelWritesKept, Zenon
      <4>. QED
        BY <1>2, <3>1, <4>1
    <3>2. CASE /\ ses.streams[id].writes # <<>>
               /\ backends' = [backends EXCEPT ![id].writer = "write",
                                               ![id].inHand = Head(ses.streams[id].writes)]
               /\ ses' = [ses EXCEPT !.streams[id].writes = Tail(@)]
      <4>. DEFINE old == ses.streams[id].writes
      <4>1. old \in Seq(Nat) /\ ses.streams[id] \in Stream
        BY <1>1, SessionFields, StreamFields
      <4>2. Len(old) > 0 /\ Head(old) = old[1]
        BY <3>2, <4>1
      <4>3. ses'.streams[id].writes = Tail(old)
        BY <1>1, <3>2, <4>1 DEF Session, Stream
      <4>4. backends'[id].inHand = Head(old)
        BY <1>1, <3>2 DEF BackendState
      <4>. QED
        BY <4>2, <4>3, <4>4 DEF UplinkStep, stream
    <3>. QED
      BY <1>4, <2>2, <3>1, <3>2, Zenon DEF NextWrite
  <2>. QED
    BY <2>1, <2>2
<1>5. ASSUME NEW b \in StreamIds, BackendNext(b) PROVE UplinkStep(id)
  <2>1. BackendStep(b)
    BY <1>5 DEF BackendNext
  <2>2. CASE WriterWakes(b)
    <3>1. ~Accountable(b)
      BY <1>1, <2>2 DEF Accountable, WriterWakes, NextWrite, Write, WriteFails, WriteFinished,
                        BackendClosed, BackendState
    <3>. QED
      BY <1>3, <2>1, <3>1, BackendFlow
  <2>. QED
    BY <1>2, <1>4, <2>1, <2>2, BackendWritesKept
<1>6. ASSUME NEW u \in Uppers, UpStep(u) PROVE UplinkStep(id)
  <2>1. CASE ApplyOpen(u) \/ ApplyData(u)
    <3>1. CASE id # Current(u).id
      <4>1. CASE ApplyOpen(u)
        BY <3>1, <4>1, ApplyOpenFlow, SameOrderOfWrites
      <4>. QED
        BY <2>1, <3>1, <4>1, ApplyFlow, FlowOrder
    <3>2. CASE id = Current(u).id /\ ApplyOpen(u)
      <4>1. ups[u].pc = "applying" /\ ups[u].k \in ups[u].k .. Len(ups[u].body)
            /\ ups[u].body[ups[u].k].type = "OPEN"
        <5>1. ups[u].k \in Nat /\ ups[u].k <= Len(ups[u].body) /\ Len(ups[u].body) \in Nat
          BY <1>1, <3>2, UpFields, BodyType DEF ApplyOpen, Applying, UpsTypeOK
        <5>2. ups[u].k \in ups[u].k .. Len(ups[u].body)
          BY <5>1
        <5>. QED
          BY <3>2, <5>2, Zenon DEF ApplyOpen, Applying, Current
      <4>2. ~ses.streams[Current(u).id].live
        BY <4>1 DEF TombInv, OpensFresh, OpensAhead, Current
      <4>. QED
        BY <3>2, <4>2 DEF UplinkStep, Live
    <3>3. CASE id = Current(u).id /\ ApplyData(u)
      <4>. DEFINE n == Current(u).n
                  t == ses.streams[id]
      <4>1. t \in Stream /\ n \in Nat
        BY <1>1, <3>3, SessionFields, CurrentType, Zenon DEF ApplyData
      <4>2. ses' = [ses EXCEPT !.streams[id] = WriteQueued(t, n)]
        BY <3>3, Zenon DEF ApplyData
      <4>. HIDE DEF n, t
      <4>3. ses'.streams[id] = WriteQueued(t, n)
        BY <1>1, <4>2 DEF Session
      <4>4. WriteQueued(t, n).writes = WritesWith(t, n)
        BY <4>1 DEF WriteQueued, Stream
      <4>5. ses'.streams[id].writes = WritesWith(t, n)
        BY <4>3, <4>4
      <4>. QED
        BY <4>1, <4>5, WritesWithOrder DEF UplinkStep, stream, t
    <3>. QED
      BY <2>1, <3>1, <3>2, <3>3
  <2>. QED
    BY <1>2, <1>6, <2>1, UpWritesKept
<1>7. ASSUME NEW u \in Uppers, NEW q, NEW body, UpBegin(u, q, body) PROVE UplinkStep(id)
  <2>1. ses' = ses \/ ses' = [ses EXCEPT !.lanes[0].upActive = TRUE]
    BY <1>7, Zenon DEF UpBegin
  <2>. QED
    BY <1>1, <1>3, <2>1, LanesFlow, Zenon
<1>8. ASSUME NEW p \in Pollers,
             PollStep(p) \/ PollCancelled(p) \/ \E cursor : PollBegin(p, cursor)
      PROVE  UplinkStep(id)
  BY <1>3, <1>8, PollFlow
<1>9. CASE Close
  BY <1>1, <1>3, <1>9, CloseSessionFlow, Zenon DEF Close
<1>10. CASE UNCHANGED vars
  BY <1>1, <1>3, <1>10, LanesFlow, Zenon DEF vars
<1>. QED
  BY <1>5, <1>6, <1>7, <1>8, <1>9, <1>10, Zenon DEF Next, System, Environment

LEMMA SafeInvariant == Spec => [](PollInv /\ UplinkInv /\ TombInv)
<1>1. PollInv => TypeOK
  BY DEF PollInv
<1>. QED
  BY <1>1, PollInvariant, UplinkInvInit, UplinkInvStep, TombInit, TombStep, PTL DEF Spec

(* The bytes a client has sent on a stream reach its backend in the order  *)
(* in which they came and none is dropped while the stream lives: frames   *)
(* only join the end of the write queue and only the write loop takes      *)
(* from its front, whatever other handlers and backends do meanwhile.      *)
THEOREM UplinkInOrderHolds == Spec => UplinkInOrder
<1>1. TypeOK /\ TombInv /\ [Next]_vars => [\A id \in StreamIds : UplinkStep(id)]_vars
  BY UplinkOrderStep
<1>2. PollInv => TypeOK
  BY DEF PollInv
<1>. QED
  BY <1>1, <1>2, SafeInvariant, PTL DEF Spec, UplinkInOrder

=============================================================================
