--------------------------- MODULE MuxStreamProofs ---------------------------
(***************************************************************************)
(* Proofs about the streams of a multiplexed session: how a stream and its *)
(* backend leave together, that the CLOSE of a stream is the last the      *)
(* client hears of it, that the frames to the client keep their order,     *)
(* and that the flow-control window accounts for every byte of a write     *)
(* queue.                                                                  *)
(***************************************************************************)
EXTENDS MuxQueueProofs, FiniteSetTheorems

-----------------------------------------------------------------------------
(* The session does not close while a body is being applied, and a closed  *)
(* session has no streams.                                                 *)

ClosedEnds == ses.closed => \A id \in StreamIds : ~ses.streams[id].live

LockedOpen == locked => ~ses.closed

LockInv == ClosedEnds /\ LockedOpen

LEMMA SameClosed ==
  ASSUME NEW s \in Session
  PROVE  /\ \A ids : CancelBackend(s, ids).closed = s.closed
         /\ \A id \in StreamIds : RememberClosed(s, id).closed = s.closed
         /\ \A id \in StreamIds : EndStream(s, id).closed = s.closed
         /\ \A f : QueueFrame(s, f).closed = s.closed
         /\ \A cost \in Int, items \in Int :
              /\ ReleasePending(s, cost, items).closed = s.closed
              /\ Reserve(s, cost, items).closed = s.closed
<1>1. \A ids : CancelBackend(s, ids).closed = s.closed
  BY DEF CancelBackend, Session
<1>2. \A id \in StreamIds : RememberClosed(s, id).closed = s.closed
                            /\ EndStream(s, id).closed = s.closed
  BY EndStreamUntouched, Zenon DEF Untouched
<1>3. ASSUME NEW f PROVE QueueFrame(s, f).closed = s.closed
  <2>. DEFINE a == QueueCost(s.lanes[LaneOf(f.id)], f)
              b == QueueItems(s.lanes[LaneOf(f.id)], f)
              c == [s.lanes[LaneOf(f.id)] EXCEPT
                      !.frames = FramesWith(s.lanes[LaneOf(f.id)], f),
                      !.windows = WindowsWith(s.lanes[LaneOf(f.id)], f),
                      !.notify = TRUE]
  <2>1. QueueFrame(s, f) = [s EXCEPT !.pendingCost = @ + a, !.pendingItems = @ + b,
                                     !.lanes[LaneOf(f.id)] = c]
    BY Zenon DEF QueueFrame
  <2>. HIDE DEF a, b, c
  <2>. QED
    BY <2>1 DEF Session
<1>4. \A cost \in Int, items \in Int : /\ ReleasePending(s, cost, items).closed = s.closed
                                       /\ Reserve(s, cost, items).closed = s.closed
  BY BudgetUntouched, Zenon DEF Untouched
<1>. QED
  BY <1>1, <1>2, <1>3, <1>4

(* A handler closes the session only through Close, which takes the mutex. *)
LEMMA UpClosed ==
  ASSUME TypeOK, NEW u \in Uppers, UpStep(u)
  PROVE  /\ ses'.closed = ses.closed \/ (~locked /\ ~locked')
         /\ locked' => locked \/ ~ses.closed
<1>1. ses \in Session /\ UpsTypeOK /\ ups[u] \in UpState
  BY Zenon DEF TypeOK, BackendTypeOK, UpsTypeOK
<1>2. CASE ApplyNothing(u) \/ ApplyToNoStream(u) \/ UpReturns(u)
  BY <1>2 DEF ApplyNothing, ApplyToNoStream, UpReturns
<1>3. CASE UpCommit(u)
  <2>. DEFINE idle == [ses EXCEPT !.lanes[0].upActive = FALSE]
              cost == WriteCost(ses, ups[u].body)
              items == WriteItems(ses, ups[u].body)
  <2>1. idle \in Session /\ idle.closed = ses.closed
    <3>1. idle.closed = ses.closed
      BY <1>1 DEF Session
    <3>. QED
      BY <1>1, <3>1, LaneUpdates, Zenon
  <2>2. cost \in Int /\ items \in Int
    BY <1>1, UpFields, WriteCostType, Zenon
  <2>3. ses' = idle \/ (ses' = Reserve(idle, cost, items) /\ ~ses.closed)
    BY <1>3, Zenon DEF UpCommit
  <2>4. locked' => locked \/ ~ses.closed
    BY <1>3, Zenon DEF UpCommit
  <2>. HIDE DEF idle, cost, items
  <2>. QED
    BY <2>1, <2>2, <2>3, <2>4, SameClosed
<1>4. CASE ApplyOpen(u)
  BY <1>4, ApplyOpenFlow DEF ApplyOpen
<1>5. CASE ApplyData(u)
  BY <1>5, ApplyFlow DEF ApplyData
<1>6. CASE ApplyClose(u)
  BY <1>1, <1>6, CurrentStream, SameClosed, Zenon DEF ApplyClose
<1>7. CASE ApplyWindow(u)
  <2>1. ses'.closed = ses.closed
    BY <1>1, <1>7 DEF ApplyWindow, Session
  <2>. QED
    BY <1>7, <2>1 DEF ApplyWindow
<1>8. CASE RejectOpen(u)
  <2>. DEFINE remembered == RememberClosed(ses, Current(u).id)
  <2>1. remembered \in Session /\ remembered.closed = ses.closed
    BY <1>1, <1>8, CurrentStream, SameClosed, RememberClosedType, Zenon
  <2>2. \/ ses' = QueueFrame(remembered, [type |-> "CLOSE", id |-> Current(u).id, n |-> 0])
        \/ ses' = ReleasePending(remembered, ups[u].cost, ups[u].items)
    BY <1>8, Zenon DEF RejectOpen
  <2>3. ups[u].cost \in Int /\ ups[u].items \in Int
    BY <1>1, UpFields
  <2>4. locked' => locked
    BY <1>8, Zenon DEF RejectOpen
  <2>. HIDE DEF remembered
  <2>5. ses'.closed = remembered.closed
    BY <2>1, <2>2, <2>3, SameClosed
  <2>. QED
    BY <2>1, <2>4, <2>5
<1>9. CASE UpApplied(u)
  <2>. DEFINE r == ReleasePending(ses, ups[u].cost, ups[u].items)
  <2>1. r \in Session /\ r.closed = ses.closed
    BY <1>1, UpFields, ReleasePendingType, SameClosed, Zenon
  <2>2. ses' = [r EXCEPT !.lanes[0].lastUpSequence = ups[u].seq,
                         !.lanes[0].lastUpDigest = ups[u].body]
    BY <1>9, Zenon DEF UpApplied
  <2>. HIDE DEF r
  <2>3. ses'.closed = r.closed
    BY <2>1, <2>2 DEF Session
  <2>. QED
    BY <1>9, <2>1, <2>3 DEF UpApplied
<1>10. CASE UpLaunch(u)
  BY <1>1, <1>10, SameClosed DEF UpLaunch
<1>11. CASE UpCloses(u)
  BY <1>11 DEF UpCloses
<1>. QED
  BY <1>2, <1>3, <1>4, <1>5, <1>6, <1>7, <1>8, <1>9, <1>10, <1>11, Zenon DEF UpStep

(* The steps of backends and polls that do not take the mutex.             *)
LEMMA LockedBackend ==
  ASSUME TypeOK, NEW id \in StreamIds, BackendStep(id), locked
  PROVE  ses'.closed = ses.closed /\ ~Accountable(id)
<1>1. ses \in Session
  BY DEF TypeOK, BackendTypeOK
<1>2. ~Accountable(id)
  BY DEF Accountable, NextWrite, Write, WriteFails, WriteFinished, BackendClosed
<1>3. \/ ses' = ses
      \/ ses' = CancelBackend(ses, {id})
      \/ ses' = [ses EXCEPT !.streams[id].writeNotify = FALSE]
      \/ ses' = [ses EXCEPT !.streams[id].creditNotify = FALSE, !.budgetWaiters = @ \ {id}]
      \/ ses' = CancelBackend([ses EXCEPT !.budgetWaiters = @ \ {id}], {id})
  BY Zenon DEF BackendStep, Dialled, DialFailed, LoopsReturned, BackendClosed,
     NextWrite, WriterWakes, WriterStops, Write, WriteFails, WriteFinished,
     NextRead, CreditWakesReader, BudgetWakesReader, ReaderStops, Read, ReadEnds
<1>4. ses'.closed = ses.closed
  BY <1>1, <1>3 DEF Session, CancelBackend
<1>. QED
  BY <1>2, <1>4

LEMMA LockedPoll ==
  ASSUME TypeOK, NEW p \in Pollers,
         PollStep(p) \/ PollCancelled(p) \/ \E cursor : PollBegin(p, cursor),
         locked
  PROVE  ses'.closed = ses.closed
<1>1. ses \in Session
  BY DEF TypeOK, BackendTypeOK
<1>2. ses' = ses \/ ses' = [ses EXCEPT !.lanes[0].notify = FALSE]
  BY Zenon DEF PollStep, PollWakes, PollResumes, PollSuperseded, PollExpires, PollCloses,
     PollReturns, PollCancelled, PollBegin
<1>. QED
  BY <1>1, <1>2 DEF Session

LEMMA LockInvInit == Init => LockInv
BY DEF Init, BackendInit, NewSession, LockInv, ClosedEnds, LockedOpen

LEMMA LockInvStep == TypeOK /\ UplinkInv /\ LockInv /\ [Next]_vars => LockInv'
<1>. SUFFICES ASSUME TypeOK, UplinkInv, LockInv, [Next]_vars PROVE LockInv'
  OBVIOUS
<1>1. ses \in Session
  BY DEF TypeOK, BackendTypeOK
<1>2. ASSUME NEW ids, FlowKept(ses, ses', ids),
             ses'.closed = ses.closed \/ (~locked /\ ~locked'),
             locked' => locked \/ ~ses.closed
      PROVE  LockInv'
  BY <1>2 DEF LockInv, ClosedEnds, LockedOpen, FlowKept
<1>3. ASSUME NEW u \in Uppers, UpStep(u) PROVE LockInv'
  <2>1. CASE ApplyOpen(u)
    <3>1. locked
      BY <2>1 DEF UplinkInv, LockHeld, ApplyOpen, Applying, Held
    <3>2. ses'.closed = ses.closed
      BY <2>1, ApplyOpenFlow
    <3>. QED
      BY <3>1, <3>2 DEF LockInv, ClosedEnds, LockedOpen
  <2>2. CASE ApplyData(u) \/ ApplyClose(u)
    BY <1>2, <1>3, <2>2, ApplyFlow, UpClosed
  <2>. QED
    BY <1>2, <1>3, <2>1, <2>2, UpFlow, UpClosed
<1>4. ASSUME NEW u \in Uppers, NEW q, NEW body, UpBegin(u, q, body) PROVE LockInv'
  <2>1. ses' = ses \/ ses' = [ses EXCEPT !.lanes[0].upActive = TRUE]
    BY <1>4, Zenon DEF UpBegin
  <2>2. FlowKept(ses, ses', {})
    BY <1>1, <2>1, LanesFlow, Zenon
  <2>. QED
    BY <1>2, <1>4, <2>2 DEF UpBegin
<1>5. ASSUME NEW id \in StreamIds, BackendNext(id) PROVE LockInv'
  <2>1. UNCHANGED locked /\ BackendStep(id)
    BY <1>5, Zenon DEF BackendNext, BackendStep, Dialled, DialFailed, LoopsReturned, BackendClosed,
       NextWrite, WriterWakes, WriterStops, Write, WriteFails, WriteFinished,
       NextRead, CreditWakesReader, BudgetWakesReader, ReaderStops, Read, ReadEnds
  <2>. QED
    BY <1>2, <2>1, BackendFlow, LockedBackend
<1>6. ASSUME NEW p \in Pollers,
             PollStep(p) \/ PollCancelled(p) \/ \E cursor : PollBegin(p, cursor)
      PROVE  LockInv'
  <2>1. UNCHANGED locked
    BY <1>6, Zenon DEF PollStep, PollWakes, PollResumes, PollSuperseded, PollExpires, PollCloses,
       PollReturns, PollCancelled, PollBegin
  <2>. QED
    BY <1>2, <1>6, <2>1, PollFlow, LockedPoll
<1>7. CASE Close
  BY <1>1, <1>2, <1>7, CloseSessionFlow DEF Close
<1>8. CASE UNCHANGED vars
  BY <1>8 DEF vars, LockInv, ClosedEnds, LockedOpen
<1>. QED
  BY <1>3, <1>4, <1>5, <1>6, <1>7, <1>8, Zenon DEF Next, System, Environment

-----------------------------------------------------------------------------
(* What becomes of a tombstone.                                            *)

LEMMA IntervalSize ==
  ASSUME NEW m \in Nat
  PROVE  IsFiniteSet(1 .. m) /\ Cardinality(1 .. m) = m
<1>1. m \in Int /\ 1 \in Int
  OBVIOUS
<1>2. Cardinality(1 .. m) = IF 1 > m THEN 0 ELSE m - 1 + 1
  BY <1>1, FS_Interval, Zenon
<1>3. IsFiniteSet(1 .. m)
  BY <1>1, FS_Interval, Zenon
<1>. QED
  BY <1>2, <1>3

LEMMA DistinctMembers ==
  ASSUME NEW n \in Nat, NEW q \in Seq(1 .. n),
         \A j, k \in 1 .. Len(q) : q[j] = q[k] => j = k,
         NEW x \in 1 .. n, \A k \in 1 .. Len(q) : q[k] # x
  PROVE  Len(q) < n
<1>. SUFFICES ASSUME ~(Len(q) < n) PROVE FALSE
  OBVIOUS
<1>. DEFINE S == 1 .. Len(q)
            T == (1 .. n) \ {x}
<1>1. Len(q) \in Nat
  OBVIOUS
<1>2. \A m \in Nat : IsFiniteSet(1 .. m) /\ Cardinality(1 .. m) = m
  BY IntervalSize
<1>3. IsFiniteSet(T) /\ Cardinality(T) = n - 1
  BY <1>2, FS_RemoveElement
<1>4. IsFiniteSet(S) /\ Cardinality(S) = Len(q)
  BY <1>1, <1>2
<1>5. q \in [S -> T]
  OBVIOUS
<1>6. Cardinality(T) < Cardinality(S)
  BY <1>1, <1>3, <1>4
<1>. HIDE DEF S, T
<1>7. \E j, k \in S : j # k /\ q[j] = q[k]
  BY <1>3, <1>4, <1>5, <1>6, FS_PigeonHole, SMTT(60)
<1>. QED
  BY <1>7 DEF S

(* A stream that ends is remembered, and as long as there is room for all  *)
(* streams no other is forgotten for it.                                   *)
LEMMA RememberedOrder ==
  ASSUME NEW s \in Session, NEW id \in StreamIds, Tombs(s)
  PROVE  /\ WasClosed(RememberClosed(s, id), id)
         /\ MaxStreamID <= MaxClosedStreamIDs =>
              \A other : WasClosed(s, other) => WasClosed(RememberClosed(s, id), other)
<1>. DEFINE q == s.closedOrder
            r == RememberClosed(s, id)
<1>1. CASE WasClosed(s, id)
  BY <1>1 DEF RememberClosed
<1>2. CASE ~WasClosed(s, id)
  <2>1. q \in Seq(StreamIds) /\ Len(q) \in Nat
    BY SessionFields
  <2>2. \A l : DropLane(s, l) = s
    BY OneLane, Zenon DEF DropLane
  <2>3. CASE TombstonesFull(s)
    <3>1. r = [s EXCEPT !.closedOrder = Append(Tail(q), id)]
      BY <1>2, <2>2, <2>3, OneLane, Zenon DEF RememberClosed
    <3>2. r.closedOrder = Append(Tail(q), id)
      BY <3>1 DEF Session
    <3>3. q # <<>>
      BY <2>1, <2>3, LimitAssumption DEF TombstonesFull
    <3>4. Tail(q) \in Seq(StreamIds)
      BY <2>1, <3>3, TailElements, Zenon
    <3>. HIDE DEF r, q
    <3>5. /\ Append(Tail(q), id)[Len(Tail(q)) + 1] = id
          /\ Len(Tail(q)) + 1 \in 1 .. Len(Append(Tail(q), id))
      BY <3>4
    <3>6. WasClosed(r, id)
      BY <3>2, <3>5 DEF WasClosed
    <3>7. ~(MaxStreamID <= MaxClosedStreamIDs)
      <4>1. \A k \in 1 .. Len(q) : q[k] # id
        BY <1>2 DEF WasClosed, q
      <4>2. Len(q) < MaxStreamID
        <5>1. MaxStreamID \in Nat /\ q \in Seq(1 .. MaxStreamID) /\ id \in 1 .. MaxStreamID
          BY <2>1, FrameAssumption DEF StreamIds, q
        <5>2. \A j, k \in 1 .. Len(q) : q[j] = q[k] => j = k
          BY DEF Tombs, q
        <5>. QED
          BY <4>1, <5>1, <5>2, DistinctMembers
      <4>. QED
        BY <2>1, <2>3, <4>2, FrameAssumption, LimitAssumption DEF TombstonesFull, q
    <3>. QED
      BY <3>6, <3>7 DEF r
  <2>4. CASE ~TombstonesFull(s)
    <3>1. r = [s EXCEPT !.closedOrder = Append(q, id)]
      BY <1>2, <2>2, <2>4, OneLane, Zenon DEF RememberClosed
    <3>2. r.closedOrder = Append(q, id)
      BY <3>1 DEF Session
    <3>. HIDE DEF r, q
    <3>3. /\ Append(q, id)[Len(q) + 1] = id
          /\ Len(q) + 1 \in 1 .. Len(Append(q, id))
          /\ \A k \in 1 .. Len(q) : Append(q, id)[k] = q[k] /\ k \in 1 .. Len(Append(q, id))
      BY <2>1 DEF q
    <3>4. WasClosed(r, id)
      BY <3>2, <3>3 DEF WasClosed
    <3>5. \A other : WasClosed(s, other) => WasClosed(r, other)
      BY <3>2, <3>3 DEF WasClosed, q
    <3>. QED
      BY <3>4, <3>5 DEF r
  <2>. QED
    BY <2>3, <2>4
<1>. QED
  BY <1>1, <1>2

LEMMA SameOrderRemembers ==
  ASSUME NEW s, NEW t, SameOrder(s, t)
  PROVE  \A id : WasClosed(t, id) <=> WasClosed(s, id)
BY DEF SameOrder, WasClosed

LEMMA EndedOrder ==
  ASSUME NEW s \in Session, NEW id \in StreamIds, Tombs(s)
  PROVE  /\ WasClosed(EndStream(s, id), id)
         /\ MaxStreamID <= MaxClosedStreamIDs =>
              \A other : WasClosed(s, other) => WasClosed(EndStream(s, id), other)
<1>. DEFINE d == DropStream(s, id)
            r == ReleasePending(s, s.streams[id].pendingWriteCost,
                                   s.streams[id].pendingWriteItems)
<1>1. r \in Session /\ SameOrder(s, r) /\ r.streams = s.streams
  <2>1. s.streams[id].pendingWriteCost \in Int /\ s.streams[id].pendingWriteItems \in Int
    BY SessionFields, StreamFields
  <2>2. r.streams = s.streams
    BY DEF ReleasePending, Session
  <2>. QED
    BY <2>1, <2>2, ReleasePendingType, OrderKept, Zenon
<1>2. d = [r EXCEPT !.streams[id] = NoStream]
  BY Zenon DEF DropStream
<1>3. d \in Session
  BY DropStreamType
<1>. HIDE DEF r, d
<1>4. SameOrder(s, d)
  BY <1>1, <1>2, OrderKept DEF SameOrder
<1>5. Tombs(d)
  <2>1. \A other \in StreamIds : d.streams[other].live => s.streams[other].live
    BY <1>1, <1>2 DEF Session, NoStream
  <2>. QED
    BY <1>4, <2>1, CalmTombs DEF Calm
<1>6. /\ WasClosed(RememberClosed(d, id), id)
      /\ MaxStreamID <= MaxClosedStreamIDs =>
           \A other : WasClosed(d, other) => WasClosed(RememberClosed(d, id), other)
  BY <1>3, <1>5, RememberedOrder
<1>. QED
  BY <1>4, <1>6, SameOrderRemembers DEF EndStream, d

-----------------------------------------------------------------------------
(* The life of streams and backends.                                       *)

(* A step opens no stream, and ends one only when it closes the session    *)
(* and cancels the backends of all.                                        *)
LivesKept(s, t) ==
  /\ s.cancelled \subseteq t.cancelled
  /\ \/ /\ t.closed = s.closed
        /\ \A id \in StreamIds : t.streams[id].live = s.streams[id].live
     \/ /\ t.closed
        /\ \A id \in StreamIds : ~t.streams[id].live
        /\ \A id \in StreamIds : s.streams[id].live => id \in t.cancelled

LEMMA FlowLives ==
  ASSUME NEW s, NEW t, FlowKept(s, t, {})
  PROVE  LivesKept(s, t)
BY DEF FlowKept, LivesKept, SameFlow

(* Queueing and accounting end no stream.                                  *)
SameLives(s, t) ==
  /\ s.cancelled \subseteq t.cancelled
  /\ t.closed = s.closed
  /\ \A id \in StreamIds : t.streams[id].live = s.streams[id].live

LEMMA SameLivesTransitive ==
  ASSUME NEW s, NEW t, NEW v, SameLives(s, t), SameLives(t, v)
  PROVE  SameLives(s, v)
BY DEF SameLives

LEMMA LivesSame ==
  ASSUME NEW s \in Session, NEW id \in StreamIds
  PROVE  /\ \A x : x.live = s.streams[id].live => SameLives(s, [s EXCEPT !.streams[id] = x])
         /\ \A cost \in Int, items \in Int : SameLives(s, ReleasePending(s, cost, items))
         /\ \A f : SameLives(s, QueueFrame(s, f))
         /\ \A ids : SameLives(s, CancelBackend(s, ids))
<1>1. \A x : x.live = s.streams[id].live => SameLives(s, [s EXCEPT !.streams[id] = x])
  BY DEF SameLives, Session
<1>2. \A cost \in Int, items \in Int : SameLives(s, ReleasePending(s, cost, items))
  BY DEF SameLives, Session, ReleasePending
<1>3. \A f : SameLives(s, QueueFrame(s, f))
  BY DEF SameLives, Session, QueueFrame
<1>4. \A ids : SameLives(s, CancelBackend(s, ids))
  BY DEF SameLives, Session, CancelBackend
<1>. QED
  BY <1>1, <1>2, <1>3, <1>4

LEMMA AccountsLives ==
  ASSUME NEW s \in Session, NEW id \in StreamIds
  PROVE  /\ SameLives(s, FinishWrite(s, id))
         /\ \A k \in Int : SameLives(s, Drain(s, id, k))
<1>1. \A t : AccountChanged(s, t, id) => SameLives(s, t)
  BY DEF AccountChanged, SameButAccount, SameLives
<1>. QED
  BY <1>1, AccountsChanged, Zenon

LEMMA AfterWriteLives ==
  ASSUME NEW s \in Session, NEW id \in StreamIds, NEW k \in Nat, NEW pool
  PROVE  SameLives(s, AfterWrite(s, id, k, pool))
<1>1. SameLives(s, s) /\ k \in Int
  BY DEF SameLives
<1>2. CASE CanDrain(s, id, k)
  <2>1. Drain(s, id, k) \in Session /\ SameLives(s, Drain(s, id, k))
    BY <1>1, <1>2, DrainType, AccountsLives, Zenon
  <2>2. ASSUME NEW f PROVE SameLives(s, QueueFrame(Drain(s, id, k), f))
    BY <2>1, LivesSame, SameLivesTransitive, Zenon
  <2>. QED
    BY <1>2, <2>1, <2>2, Zenon DEF AfterWrite
<1>3. CASE ~CanDrain(s, id, k)
  BY <1>1, <1>3, Zenon DEF AfterWrite
<1>. QED
  BY <1>2, <1>3

(* Until its run ends, a backend's loops end no stream.                    *)
LEMMA BackendLives ==
  ASSUME TypeOK, NEW id \in StreamIds, BackendStep(id), ~BackendClosed(id)
  PROVE  LivesKept(ses, ses')
<1>. DEFINE Cancels == ses' = CancelBackend(ses, {id})
<1>1. ses \in Session /\ backends[id] \in BackendState /\ SameLives(ses, ses)
  BY Zenon DEF TypeOK, BackendTypeOK, SameLives
<1>2. backends[id].inHand \in Nat
  BY <1>1, BackendFields
<1>3. SameLives(ses, ses') => LivesKept(ses, ses')
  BY DEF LivesKept, SameLives
<1>4. CASE ses' = ses \/ Cancels
  BY <1>1, <1>3, <1>4, LivesSame, Zenon
<1>5. CASE ~Accountable(id)
  BY <1>5, BackendFlow, FlowLives, Zenon
<1>6. CASE NextWrite(id)
  <2>1. CASE ses' = [ses EXCEPT !.streams[id].writes = Tail(@)]
    <3>. DEFINE y == [ses.streams[id] EXCEPT !.writes = Tail(@)]
    <3>1. ses.streams[id] \in Stream
      BY <1>1, SessionFields
    <3>2. ses' = [ses EXCEPT !.streams[id] = y]
      BY <1>1, <2>1 DEF Session
    <3>3. y.live = ses.streams[id].live
      BY <3>1 DEF Stream
    <3>. QED
      BY <1>1, <1>3, <3>2, <3>3, LivesSame, Zenon
  <2>. QED
    BY <1>4, <1>6, <2>1, Zenon DEF NextWrite
<1>7. CASE Write(id) \/ WriteFails(id)
  <2>1. ASSUME NEW k \in Nat, NEW pool \in BOOLEAN,
               \/ ses' = AfterWrite(ses, id, k, pool)
               \/ ses' = CancelBackend(AfterWrite(ses, id, k, pool), {id})
        PROVE  LivesKept(ses, ses')
    <3>. DEFINE after == AfterWrite(ses, id, k, pool)
    <3>1. after \in Session /\ SameLives(ses, after)
      BY <1>1, AfterWriteType, AfterWriteLives, Zenon
    <3>. HIDE DEF after
    <3>2. SameLives(ses, CancelBackend(after, {id}))
      BY <3>1, LivesSame, SameLivesTransitive, Zenon
    <3>. QED
      BY <1>3, <2>1, <3>1, <3>2, Zenon DEF after
  <2>2. CASE Write(id)
    <3>1. PICK pool \in PoolAnswers("control") :
            \/ ses' = AfterWrite(ses, id, backends[id].inHand, pool)
            \/ ses' = CancelBackend(AfterWrite(ses, id, backends[id].inHand, pool), {id})
      BY <2>2, Zenon DEF Write
    <3>2. pool \in BOOLEAN
      BY <3>1, PoolAnswersType, Zenon
    <3>. QED
      BY <1>2, <2>1, <3>1, <3>2, Zenon
  <2>3. CASE WriteFails(id)
    <3>1. PICK pool \in PoolAnswers("control"), k \in 0 .. backends[id].inHand - 1 :
            ses' = CancelBackend(AfterWrite(ses, id, k, pool), {id})
      BY <2>3, Zenon DEF WriteFails
    <3>2. pool \in BOOLEAN
      BY <3>1, PoolAnswersType, Zenon
    <3>3. k \in Nat
      BY <1>2, <3>1
    <3>. QED
      BY <2>1, <3>1, <3>2, <3>3, Zenon
  <2>. QED
    BY <1>7, <2>2, <2>3
<1>8. CASE WriteFinished(id)
  <2>1. CASE ses' = FinishWrite(ses, id)
    BY <1>1, <1>3, <2>1, AccountsLives, Zenon
  <2>. QED
    BY <1>4, <1>8, <2>1, Zenon DEF WriteFinished
<1>. QED
  BY <1>5, <1>6, <1>7, <1>8 DEF Accountable

(* The run of a backend only goes on.                                      *)
LEMMA BackendRun ==
  ASSUME TypeOK, NEW id \in StreamIds, BackendStep(id)
  PROVE  /\ \A other \in StreamIds \ {id} : backends'[other] = backends[other]
         /\ BackendClosed(id) => backends[id].run = "ending" /\ backends'[id].run = "done"
         /\ ~BackendClosed(id) =>
              \/ backends'[id].run = backends[id].run
              \/ /\ backends[id].run \in {"dialing", "streaming"}
                 /\ backends'[id].run \in {"streaming", "ending"}
<1>. DEFINE Only(new) == \A other \in StreamIds \ {id} : new[other] = backends[other]
            Same(new) == Only(new) /\ new[id].run = backends[id].run
<1>1. backends \in [StreamIds -> BackendState] /\ backends[id] \in BackendState
  BY DEF TypeOK, BackendTypeOK
<1>2. ASSUME NEW run PROVE LET new == [backends EXCEPT ![id].run = run]
                           IN  Only(new) /\ new[id].run = run
  BY <1>1 DEF BackendState
<1>3. \A w : Same([backends EXCEPT ![id].writer = w])
  BY <1>1 DEF BackendState
<1>4. \A w, n : Same([backends EXCEPT ![id].writer = w, ![id].inHand = n])
  BY <1>1 DEF BackendState
<1>5. \A r : Same([backends EXCEPT ![id].reader = r])
  BY <1>1 DEF BackendState
<1>6. \A r, n : Same([backends EXCEPT ![id].reader = r, ![id].allowance = n])
  BY <1>1 DEF BackendState
<1>7. \A r, n, m :
        Same([backends EXCEPT ![id].reader = r, ![id].allowance = n, ![id].refused = m])
  BY <1>1 DEF BackendState
<1>8. CASE Dialled(id)
  <2>. DEFINE new == [backends EXCEPT ![id].run = "streaming", ![id].writer = "next",
                                      ![id].reader = "next"]
  <2>1. Only(new) /\ new[id].run = "streaming"
    BY <1>1 DEF BackendState
  <2>2. backends' = new /\ backends[id].run = "dialing"
    BY <1>8 DEF Dialled
  <2>3. ~BackendClosed(id)
    BY <2>2 DEF BackendClosed
  <2>. QED
    BY <2>1, <2>2, <2>3
<1>9. CASE DialFailed(id) \/ LoopsReturned(id)
  <2>1. /\ backends' = [backends EXCEPT ![id].run = "ending"]
        /\ backends[id].run \in {"dialing", "streaming"}
    BY <1>9 DEF DialFailed, LoopsReturned
  <2>2. ~BackendClosed(id)
    BY <2>1 DEF BackendClosed
  <2>. QED
    BY <1>2, <2>1, <2>2
<1>10. CASE BackendClosed(id)
  BY <1>2, <1>10 DEF BackendClosed
<1>. HIDE DEF Same
<1>11. ASSUME ~BackendClosed(id), Same(backends')
       PROVE  Only(backends') /\ backends'[id].run = backends[id].run
  BY <1>11 DEF Same
<1>12. CASE NextWrite(id) \/ WriterWakes(id) \/ WriterStops(id)
            \/ Write(id) \/ WriteFails(id) \/ WriteFinished(id)
  <2>1. ASSUME NextWrite(id)
        PROVE  Same(backends')
    <3>1. CASE \E w : backends' = [backends EXCEPT ![id].writer = w]
      <4>1. PICK w : backends' = [backends EXCEPT ![id].writer = w]
        BY <3>1
      <4>. QED
        BY <4>1, <1>3, Zenon
    <3>2. CASE \E w, n : backends' = [backends EXCEPT ![id].writer = w, ![id].inHand = n]
      <4>1. PICK w, n : backends' = [backends EXCEPT ![id].writer = w, ![id].inHand = n]
        BY <3>2
      <4>. QED
        BY <4>1, <1>4, Zenon
    <3>. QED
      BY <3>1, <3>2, <2>1 DEF NextWrite, WriterExits
  <2>2. ASSUME WriterWakes(id)
        PROVE  Same(backends')
    BY <1>3, <1>4, <2>2, Zenon DEF WriterWakes
  <2>3. ASSUME WriterStops(id)
        PROVE  Same(backends')
    BY <1>3, <1>4, <2>3, Zenon DEF WriterStops, WriterExits
  <2>4. ASSUME Write(id)
        PROVE  Same(backends')
    <3>1. CASE \E w : backends' = [backends EXCEPT ![id].writer = w]
      <4>1. PICK w : backends' = [backends EXCEPT ![id].writer = w]
        BY <3>1
      <4>. QED
        BY <4>1, <1>3, Zenon
    <3>2. CASE \E w, n : backends' = [backends EXCEPT ![id].writer = w, ![id].inHand = n]
      <4>1. PICK w, n : backends' = [backends EXCEPT ![id].writer = w, ![id].inHand = n]
        BY <3>2
      <4>. QED
        BY <4>1, <1>4, Zenon
    <3>. QED
      BY <3>1, <3>2, <2>4 DEF Write, WriterExits
  <2>5. ASSUME WriteFails(id)
        PROVE  Same(backends')
    BY <1>3, <1>4, <2>5, Zenon DEF WriteFails, WriterExits
  <2>6. ASSUME WriteFinished(id)
        PROVE  Same(backends')
    <3>1. CASE \E w : backends' = [backends EXCEPT ![id].writer = w]
      <4>1. PICK w : backends' = [backends EXCEPT ![id].writer = w]
        BY <3>1
      <4>. QED
        BY <4>1, <1>3, Zenon
    <3>2. CASE \E w, n : backends' = [backends EXCEPT ![id].writer = w, ![id].inHand = n]
      <4>1. PICK w, n : backends' = [backends EXCEPT ![id].writer = w, ![id].inHand = n]
        BY <3>2
      <4>. QED
        BY <4>1, <1>4, Zenon
    <3>. QED
      BY <3>1, <3>2, <2>6 DEF WriteFinished, WriterExits
  <2>7. Same(backends')
    BY <1>12, <2>1, <2>2, <2>3, <2>4, <2>5, <2>6
  <2>. QED
    BY <1>10, <1>11, <2>7
<1>13. CASE NextRead(id) \/ CreditWakesReader(id) \/ BudgetWakesReader(id)
            \/ ReaderStops(id) \/ Read(id) \/ ReadEnds(id)
  <2>1. ASSUME NextRead(id)
        PROVE  Same(backends')
    <3>1. CASE \E r : backends' = [backends EXCEPT ![id].reader = r]
      <4>1. PICK r : backends' = [backends EXCEPT ![id].reader = r]
        BY <3>1
      <4>. QED
        BY <4>1, <1>5, Zenon
    <3>2. CASE \E r, n : backends' = [backends EXCEPT ![id].reader = r, ![id].allowance = n]
      <4>1. PICK r, n : backends' = [backends EXCEPT ![id].reader = r, ![id].allowance = n]
        BY <3>2
      <4>. QED
        BY <4>1, <1>6, Zenon
    <3>3. CASE \E r, n, m : backends' = [backends EXCEPT ![id].reader = r, ![id].allowance = n,
                                                       ![id].refused = m]
      <4>1. PICK r, n, m : backends' = [backends EXCEPT ![id].reader = r, ![id].allowance = n,
                                                       ![id].refused = m]
        BY <3>3
      <4>. QED
        BY <4>1, <1>7, Zenon
    <3>. QED
      BY <3>1, <3>2, <3>3, <2>1 DEF NextRead, ReaderExits
  <2>2. ASSUME CreditWakesReader(id)
        PROVE  Same(backends')
    BY <1>5, <1>6, <1>7, <2>2, Zenon DEF CreditWakesReader
  <2>3. ASSUME BudgetWakesReader(id)
        PROVE  Same(backends')
    BY <1>5, <1>6, <1>7, <2>3, Zenon DEF BudgetWakesReader
  <2>4. ASSUME ReaderStops(id)
        PROVE  Same(backends')
    BY <1>5, <1>6, <1>7, <2>4, Zenon DEF ReaderStops, ReaderExits
  <2>5. ASSUME Read(id)
        PROVE  Same(backends')
    <3>1. CASE \E r : backends' = [backends EXCEPT ![id].reader = r]
      <4>1. PICK r : backends' = [backends EXCEPT ![id].reader = r]
        BY <3>1
      <4>. QED
        BY <4>1, <1>5, Zenon
    <3>2. CASE \E r, n : backends' = [backends EXCEPT ![id].reader = r, ![id].allowance = n]
      <4>1. PICK r, n : backends' = [backends EXCEPT ![id].reader = r, ![id].allowance = n]
        BY <3>2
      <4>. QED
        BY <4>1, <1>6, Zenon
    <3>3. CASE \E r, n, m : backends' = [backends EXCEPT ![id].reader = r, ![id].allowance = n,
                                                       ![id].refused = m]
      <4>1. PICK r, n, m : backends' = [backends EXCEPT ![id].reader = r, ![id].allowance = n,
                                                       ![id].refused = m]
        BY <3>3
      <4>. QED
        BY <4>1, <1>7, Zenon
    <3>. QED
      BY <3>1, <3>2, <3>3, <2>5 DEF Read, ReaderExits
  <2>6. ASSUME ReadEnds(id)
        PROVE  Same(backends')
    BY <1>5, <1>6, <1>7, <2>6, Zenon DEF ReadEnds, ReaderExits
  <2>7. Same(backends')
    BY <1>13, <2>1, <2>2, <2>3, <2>4, <2>5, <2>6
  <2>. QED
    BY <1>10, <1>11, <2>7
<1>. QED
  BY <1>8, <1>9, <1>10, <1>12, <1>13 DEF BackendStep

-----------------------------------------------------------------------------
(* No backend is lost.                                                     *)

(* A handler has backends to start and to stop only between the frame that *)
(* opened or closed them and the end of its request; the ones it is to     *)
(* start are opened and nobody else's.                                     *)
Busy == {"applying", "panicked", "launching"}

StartsHeld ==
  \A u \in Uppers :
    /\ ups[u].pc \notin Busy => ups[u].toStart = {} /\ ups[u].toStop = {}
    /\ \A id \in ups[u].toStart : backends[id].run = "opened"
    /\ \A v \in Uppers \ {u} : ups[u].toStart \cap ups[v].toStart = {}

(* While every tombstone is kept, an id that was used is live or           *)
(* remembered.                                                             *)
UsedRemembered ==
  MaxStreamID <= MaxClosedStreamIDs /\ ~ses.closed =>
    \A id \in StreamIds :
      backends[id].run # "none" => ses.streams[id].live \/ WasClosed(ses, id)

LifeInv == StartsHeld /\ UsedRemembered /\ NoOrphanBackend

(* The OPENs still to come of a body that is being applied name streams    *)
(* that never had a backend: they are validated against the tombstones,    *)
(* and clients do not reuse the ids of those that are forgotten.           *)
Unused(body, k) ==
  \A j \in k .. Len(body) :
    body[j].type = "OPEN" /\ body[j].id \in StreamIds => backends[body[j].id].run = "none"

OpensUnused ==
  \A u \in Uppers : ups[u].pc = "applying" => Unused(ups[u].body, ups[u].k)

ParsedAdmissible ==
  \A u \in Uppers : ups[u].pc = "parsing" =>
    MaxStreamID <= MaxClosedStreamIDs \/ Unused(ups[u].body, 1)

FreshInv == OpensUnused /\ ParsedAdmissible

(* When one handler moves and no backend does, only its body is in         *)
(* question.                                                               *)
LEMMA FreshElsewhere ==
  ASSUME FreshInv, UNCHANGED backends, NEW u \in Uppers,
         \A v \in Uppers : v # u => ups'[v] = ups[v],
         ups'[u].pc = "applying" => Unused(ups'[u].body, ups'[u].k),
         ups'[u].pc = "parsing" =>
           MaxStreamID <= MaxClosedStreamIDs \/ Unused(ups'[u].body, 1)
  PROVE  OpensUnused' /\ ParsedAdmissible'
<1>. DEFINE Open(body, k, bs) ==
       \A j \in k .. Len(body) :
         body[j].type = "OPEN" /\ body[j].id \in StreamIds => bs[body[j].id].run = "none"
<1>1. \A body, k : Unused(body, k) <=> Open(body, k, backends)
  BY DEF Unused
<1>2. OpensUnused' <=>
        \A v \in Uppers : ups'[v].pc = "applying" => Open(ups'[v].body, ups'[v].k, backends')
  BY DEF OpensUnused, Unused
<1>3. ParsedAdmissible' <=>
        \A v \in Uppers : ups'[v].pc = "parsing" =>
          MaxStreamID <= MaxClosedStreamIDs \/ Open(ups'[v].body, 1, backends')
  BY DEF ParsedAdmissible, Unused
<1>. HIDE DEF Open
<1>4. ASSUME NEW v \in Uppers
      PROVE  /\ ups'[v].pc = "applying" => Open(ups'[v].body, ups'[v].k, backends)
             /\ ups'[v].pc = "parsing" =>
                  MaxStreamID <= MaxClosedStreamIDs \/ Open(ups'[v].body, 1, backends)
  BY <1>1, Zenon DEF FreshInv, OpensUnused, ParsedAdmissible
<1>. QED
  BY <1>2, <1>3, <1>4, Zenon

(* What most steps leave of the runs of backends, of what handlers have to *)
(* start and stop, and of the bodies they still have to apply.             *)
RunsOn ==
  \A id \in StreamIds :
    \/ backends'[id].run = backends[id].run
    \/ /\ backends[id].run \in {"dialing", "streaming"}
       /\ backends'[id].run \in {"streaming", "ending"}

HandsKept ==
  \A u \in Uppers :
    /\ ups'[u].toStart = ups[u].toStart /\ ups'[u].toStop = ups[u].toStop
    /\ ups[u].pc \in Busy => ups'[u].pc \in Busy

BodiesKept ==
  \A u \in Uppers :
    /\ ups'[u].pc = "applying" =>
         /\ ups[u].pc = "applying" /\ ups'[u].body = ups[u].body
         /\ ups[u].k <= ups'[u].k
    /\ ups'[u].pc = "parsing" => ups[u].pc = "parsing" /\ ups'[u].body = ups[u].body

LEMMA LifeStays ==
  ASSUME UpsTypeOK, LifeInv, LivesKept(ses, ses'), RunsOn, HandsKept,
         MaxStreamID <= MaxClosedStreamIDs =>
           \A id : WasClosed(ses, id) => WasClosed(ses', id)
  PROVE  LifeInv'
<1>1. StartsHeld'
  <2>. SUFFICES ASSUME NEW u \in Uppers
                PROVE  /\ ups'[u].pc \notin Busy => ups'[u].toStart = {} /\ ups'[u].toStop = {}
                       /\ \A id \in ups'[u].toStart : backends'[id].run = "opened"
                       /\ \A v \in Uppers \ {u} : ups'[u].toStart \cap ups'[v].toStart = {}
    BY Zenon DEF StartsHeld
  <2>1. \A id \in ups[u].toStart : id \in StreamIds
    BY DEF UpsTypeOK, UpState
  <2>. QED
    BY <2>1 DEF LifeInv, StartsHeld, HandsKept, RunsOn
<1>2. UsedRemembered'
  BY DEF LifeInv, UsedRemembered, RunsOn, LivesKept
<1>3. NoOrphanBackend'
  BY DEF LifeInv, NoOrphanBackend, RunsOn, LivesKept, Live, Cancelled, HandsKept
<1>. QED
  BY <1>1, <1>2, <1>3 DEF LifeInv

LEMMA FreshStays ==
  ASSUME FreshInv, BodiesKept, UpsTypeOK, UpsTypeOK',
         \A id \in StreamIds : backends[id].run = "none" => backends'[id].run = "none"
  PROVE  FreshInv'
<1>2. \A u \in Uppers : ups[u].k \in Int /\ ups'[u].k \in Int
  BY DEF UpsTypeOK, UpState
<1>3. OpensUnused'
  <2>. SUFFICES ASSUME NEW u \in Uppers, ups'[u].pc = "applying"
                PROVE  Unused(ups[u].body, ups[u].k)'
    BY Zenon DEF OpensUnused
  <2>1. /\ ups[u].pc = "applying" /\ ups'[u].body = ups[u].body /\ ups[u].k <= ups'[u].k
        /\ ups[u].k \in Int /\ ups'[u].k \in Int
    BY <1>2 DEF BodiesKept
  <2>2. Unused(ups[u].body, ups[u].k)
    BY <2>1 DEF FreshInv, OpensUnused
  <2>. QED
    BY <2>1, <2>2 DEF Unused
<1>4. ParsedAdmissible'
  BY DEF FreshInv, ParsedAdmissible, BodiesKept, Unused
<1>. QED
  BY <1>3, <1>4 DEF FreshInv

(* The steps of handlers that neither open nor close a stream.             *)
LEMMA QuietHands ==
  ASSUME UpsTypeOK, NEW u \in Uppers,
         \/ ApplyNothing(u) \/ ApplyToNoStream(u) \/ ApplyData(u) \/ ApplyWindow(u)
         \/ UpApplied(u)
  PROVE  HandsKept /\ BodiesKept
<1>. DEFINE Quiet(r) == /\ r.toStart = ups[u].toStart /\ r.toStop = ups[u].toStop
                        /\ r.pc \in Busy
                        /\ r.pc = "applying" => r.body = ups[u].body /\ ups[u].k <= r.k
<1>1. ups \in [Uppers -> UpState] /\ ups[u] \in UpState /\ ups[u].k \in Nat
  BY DEF UpsTypeOK, UpState
<1>2. ups[u].pc = "applying"
  BY DEF ApplyNothing, ApplyToNoStream, ApplyData, ApplyWindow, UpApplied, Applying
<1>3. \E r : ups' = [ups EXCEPT ![u] = r] /\ Quiet(r)
  <2>1. CASE ApplyNothing(u) \/ ApplyWindow(u)
    <3>1. ups' = [ups EXCEPT ![u] = [ups[u] EXCEPT !.k = @ + 1]]
      BY <1>1, <2>1 DEF ApplyNothing, ApplyWindow, NextFrame
    <3>2. Quiet([ups[u] EXCEPT !.k = @ + 1])
      BY <1>1, <1>2 DEF UpState, Busy
    <3>. QED
      BY <3>1, <3>2
  <2>2. CASE ApplyToNoStream(u)
    <3>1. ups' = [ups EXCEPT ![u] = [ups[u] EXCEPT !.pc = "panicked"]]
      BY <1>1, <2>2 DEF ApplyToNoStream
    <3>2. Quiet([ups[u] EXCEPT !.pc = "panicked"])
      BY <1>1 DEF UpState, Busy
    <3>. QED
      BY <3>1, <3>2
  <2>3. CASE ApplyData(u)
    <3>1. PICK c, i : ups' = [ups EXCEPT ![u].k = @ + 1, ![u].cost = @ - c, ![u].items = @ - i]
      BY <2>3, Zenon DEF ApplyData
    <3>. DEFINE r == [ups[u] EXCEPT !.k = @ + 1, !.cost = @ - c, !.items = @ - i]
    <3>2. ups' = [ups EXCEPT ![u] = r]
      BY <1>1, <3>1
    <3>3. Quiet(r)
      BY <1>1, <1>2 DEF UpState, Busy
    <3>. QED
      BY <3>2, <3>3
  <2>4. CASE UpApplied(u)
    <3>. DEFINE r == [ups[u] EXCEPT !.pc = "launching", !.applied = TRUE, !.cost = 0, !.items = 0]
    <3>1. ups' = [ups EXCEPT ![u] = r]
      BY <1>1, <2>4 DEF UpApplied
    <3>2. Quiet(r)
      BY <1>1 DEF UpState, Busy
    <3>. QED
      BY <3>1, <3>2
  <2>. QED
    BY <2>1, <2>2, <2>3, <2>4
<1>4. PICK r : ups' = [ups EXCEPT ![u] = r] /\ Quiet(r)
  BY <1>3
<1>5. ups'[u] = r /\ \A v \in Uppers \ {u} : ups'[v] = ups[v]
  BY <1>1, <1>4
<1>6. r.pc # "parsing" /\ \A v \in Uppers : ups[v].k \in Nat
  BY <1>1, <1>4 DEF Busy, UpState
<1>. QED
  BY <1>1, <1>2, <1>4, <1>5, <1>6 DEF HandsKept, BodiesKept

LEMMA EndedHands ==
  ASSUME UpsTypeOK, StartsHeld, NEW u \in Uppers, ups[u].pc \notin Busy,
         NEW pc \in UpPcs \ {"applying", "parsing"}, UpEnds(u, pc)
  PROVE  HandsKept /\ BodiesKept
<1>. DEFINE r == [NoUp EXCEPT !.pc = pc]
<1>1. ups \in [Uppers -> UpState] /\ \A v \in Uppers : ups[v].k \in Nat
  BY DEF UpsTypeOK, UpState
<1>2. ups'[u] = r /\ \A v \in Uppers \ {u} : ups'[v] = ups[v]
  BY <1>1 DEF UpEnds
<1>3. r.toStart = {} /\ r.toStop = {} /\ r.pc = pc
  BY DEF NoUp
<1>4. ups[u].toStart = {} /\ ups[u].toStop = {}
  BY DEF StartsHeld
<1>. HIDE DEF r
<1>5. HandsKept
  BY <1>2, <1>3, <1>4 DEF HandsKept
<1>6. BodiesKept
  BY <1>1, <1>2, <1>3 DEF BodiesKept
<1>. QED
  BY <1>5, <1>6

(* A step that touches no backend's run and no handler.                    *)
LEMMA CalmLife ==
  ASSUME TypeOK, TypeOK', LifeInv, FreshInv, LivesKept(ses, ses'), SameOrder(ses, ses'),
         HandsKept, BodiesKept, \A id \in StreamIds : backends'[id].run = backends[id].run
  PROVE  LifeInv' /\ FreshInv'
<1>1. RunsOn
  BY DEF RunsOn
<1>2. \A id : WasClosed(ses, id) => WasClosed(ses', id)
  BY SameOrderRemembers, Zenon
<1>. QED
  BY <1>1, <1>2, LifeStays, FreshStays, Zenon DEF TypeOK

(* The stream of an OPEN that comes up was never used.                     *)
LEMMA CurrentOpen ==
  ASSUME UpsTypeOK, UplinkInv, TombInv, FreshInv, LockInv, NEW u \in Uppers, Applying(u),
         Current(u).type = "OPEN"
  PROVE  /\ Current(u).id \in StreamIds
         /\ ~WasClosed(ses, Current(u).id) /\ ~ses.streams[Current(u).id].live
         /\ backends[Current(u).id].run = "none"
         /\ ~ses.closed
         /\ \A v \in Uppers \ {u} : ups[v].pc \notin {"applying", "parsing"}
<1>1. /\ ups[u].pc = "applying" /\ ups[u].k \in Nat /\ Len(ups[u].body) \in Nat
      /\ ups[u].k \in ups[u].k .. Len(ups[u].body)
  <2>1. ups[u] \in UpState
    BY DEF UpsTypeOK
  <2>2. ups[u].body \in Seq(Frame)
    BY <2>1, UpFields, BodyType
  <2>. QED
    BY <2>1, <2>2, UpFields DEF Applying
<1>2. OpensAhead(ses, ups[u].body, ups[u].k) /\ Unused(ups[u].body, ups[u].k)
  BY <1>1 DEF TombInv, OpensFresh, FreshInv, OpensUnused
<1>3. /\ Current(u).id \in StreamIds
      /\ ~WasClosed(ses, Current(u).id) /\ ~ses.streams[Current(u).id].live
  BY <1>1, <1>2, Zenon DEF OpensAhead, Current
<1>4. backends[Current(u).id].run = "none"
  BY <1>1, <1>2, <1>3, Zenon DEF Unused, Current
<1>5. \A v \in Uppers \ {u} : ups[v].pc \notin {"applying", "parsing"}
  BY <1>1 DEF UplinkInv, SingleUplink
<1>6. ~ses.closed
  BY <1>1 DEF UplinkInv, LockHeld, LockInv, LockedOpen, Held
<1>. QED
  BY <1>3, <1>4, <1>5, <1>6

LEMMA OpenedFresh ==
  ASSUME UpsTypeOK, UplinkInv, TombInv, FreshInv, LockInv, NEW u \in Uppers, Applying(u),
         Current(u).type = "OPEN",
         \A id \in StreamIds \ {Current(u).id} : backends'[id].run = backends[id].run,
         NEW r, ups' = [ups EXCEPT ![u] = r], r.pc \in {"applying", "launching"},
         r.pc = "applying" => r.body = ups[u].body /\ r.k = ups[u].k + 1
  PROVE  FreshInv'
<1>1. /\ Current(u).id \in StreamIds
      /\ \A v \in Uppers \ {u} : ups[v].pc \notin {"applying", "parsing"}
  BY CurrentOpen
<1>2. ups[u].k \in Nat /\ Len(ups[u].body) \in Nat /\ ups[u].pc = "applying"
  <2>1. ups[u] \in UpState
    BY DEF UpsTypeOK
  <2>2. ups[u].body \in Seq(Frame)
    BY <2>1, UpFields, BodyType
  <2>. QED
    BY <2>1, <2>2, UpFields DEF Applying
<1>3. OpensAhead(ses, ups[u].body, ups[u].k) /\ Unused(ups[u].body, ups[u].k)
  BY <1>2 DEF TombInv, OpensFresh, FreshInv, OpensUnused
<1>4. ASSUME NEW j \in ups[u].k + 1 .. Len(ups[u].body), ups[u].body[j].type = "OPEN"
      PROVE  /\ ups[u].body[j].id \in StreamIds \ {Current(u).id}
             /\ backends[ups[u].body[j].id].run = "none"
  <2>1. j \in ups[u].k .. Len(ups[u].body) /\ ups[u].k \in ups[u].k .. j - 1
    BY <1>2, <1>4
  <2>2. /\ ups[u].body[j].id \in StreamIds
        /\ Current(u).id = ups[u].body[j].id => Current(u).type # "OPEN"
    BY <1>3, <1>4, <2>1 DEF OpensAhead, Current
  <2>. QED
    BY <1>3, <1>4, <2>1, <2>2 DEF Unused
<1>5. ups'[u] = r /\ \A v \in Uppers \ {u} : ups'[v] = ups[v]
  BY DEF UpsTypeOK
<1>6. OpensUnused'
  <2>. SUFFICES ASSUME NEW v \in Uppers, ups'[v].pc = "applying",
                       NEW j \in ups'[v].k .. Len(ups'[v].body),
                       ups'[v].body[j].type = "OPEN"
                PROVE  backends'[ups'[v].body[j].id].run = "none"
    BY DEF OpensUnused, Unused
  <2>1. v = u /\ ups'[v].body = ups[u].body /\ ups'[v].k = ups[u].k + 1
    BY <1>1, <1>5
  <2>. QED
    BY <1>4, <2>1
<1>7. ParsedAdmissible'
  BY <1>1, <1>5 DEF ParsedAdmissible
<1>. QED
  BY <1>6, <1>7 DEF FreshInv

LEMMA ApplyOpenLife ==
  ASSUME TypeOK, UplinkInv, TombInv, LockInv, LifeInv, FreshInv, NEW u \in Uppers, ApplyOpen(u)
  PROVE  LifeInv' /\ FreshInv'
<1>. DEFINE id == Current(u).id
            r == [ups[u] EXCEPT !.k = @ + 1, !.toStart = @ \cup {id}]
<1>1. /\ ups \in [Uppers -> UpState] /\ ups[u] \in UpState /\ UpsTypeOK
      /\ backends \in [StreamIds -> BackendState]
  BY DEF TypeOK, UpsTypeOK, BackendTypeOK
<1>2. Applying(u) /\ Current(u).type = "OPEN"
  BY DEF ApplyOpen
<1>3. /\ id \in StreamIds /\ backends[id].run = "none" /\ ~ses.closed
      /\ ~WasClosed(ses, id)
  BY <1>1, <1>2, CurrentOpen, Zenon
<1>4. /\ ses'.closed = ses.closed /\ ses'.cancelled = ses.cancelled
      /\ ses'.streams[id].live
      /\ \A other \in StreamIds \ {id} : ses'.streams[other] = ses.streams[other]
  BY ApplyOpenFlow DEF OpenedStream, NoStream
<1>5. SameOrder(ses, ses')
  <2>1. ses \in Session /\ ses' = [ses EXCEPT !.streams[id] = OpenedStream]
    BY DEF ApplyOpen, TypeOK, BackendTypeOK
  <2>. QED
    BY <2>1, OrderKept, Zenon
<1>6. /\ ups' = [ups EXCEPT ![u] = r]
      /\ backends' = [backends EXCEPT ![id] = [NoBackend EXCEPT !.run = "opened"]]
  BY <1>1 DEF ApplyOpen
<1>7. r.pc = ups[u].pc /\ r.body = ups[u].body /\ r.k = ups[u].k + 1
      /\ r.toStart = ups[u].toStart \cup {id} /\ r.toStop = ups[u].toStop
  BY <1>1 DEF UpState
<1>8. /\ backends'[id].run = "opened"
      /\ \A other \in StreamIds \ {id} : backends'[other] = backends[other]
  BY <1>1, <1>3, <1>6 DEF NoBackend
<1>. HIDE DEF id, r
<1>9. ups'[u] = r /\ (\A v \in Uppers \ {u} : ups'[v] = ups[v]) /\ ups[u].pc = "applying"
  BY <1>1, <1>2, <1>6 DEF Applying
<1>10. \A v \in Uppers : id \notin ups[v].toStart /\ ups[v].toStart \subseteq StreamIds
  BY <1>1, <1>3 DEF LifeInv, StartsHeld, UpState
<1>11. FreshInv'
  BY <1>1, <1>2, <1>6, <1>7, <1>8, <1>9, OpenedFresh, Zenon DEF id
<1>12. StartsHeld'
  <2>. SUFFICES ASSUME NEW v \in Uppers
                PROVE  /\ ups'[v].pc \notin Busy => ups'[v].toStart = {} /\ ups'[v].toStop = {}
                       /\ \A i \in ups'[v].toStart : backends'[i].run = "opened"
                       /\ \A w \in Uppers \ {v} : ups'[v].toStart \cap ups'[w].toStart = {}
    BY Zenon DEF StartsHeld
  <2>1. /\ ups[v].pc \notin Busy => ups[v].toStart = {} /\ ups[v].toStop = {}
        /\ \A i \in ups[v].toStart : backends[i].run = "opened"
        /\ \A w \in Uppers \ {v} : ups[v].toStart \cap ups[w].toStart = {}
    BY DEF LifeInv, StartsHeld
  <2>. QED
    BY <1>7, <1>8, <1>9, <1>10, <2>1 DEF Busy
<1>13. UsedRemembered'
  BY <1>4, <1>5, <1>8, SameOrderRemembers DEF LifeInv, UsedRemembered
<1>14. NoOrphanBackend'
  <2>. SUFFICES ASSUME NEW i \in StreamIds
                PROVE  /\ backends'[i].run \in {"opened", "dialing", "streaming"} /\ ~Live(i)' =>
                            Cancelled(i)' \/ \E v \in Uppers : i \in ups'[v].toStop
                       /\ Live(i)' => backends'[i].run \notin {"none", "done"}
                       /\ backends'[i].run = "opened" => \E v \in Uppers : i \in ups'[v].toStart
    BY Zenon DEF NoOrphanBackend
  <2>1. CASE i = id
    BY <1>3, <1>4, <1>7, <1>8, <1>9, <2>1 DEF Live
  <2>2. CASE i # id
    <3>1. /\ backends[i].run \in {"opened", "dialing", "streaming"} /\ ~Live(i) =>
                            Cancelled(i) \/ \E v \in Uppers : i \in ups[v].toStop
          /\ Live(i) => backends[i].run \notin {"none", "done"}
          /\ backends[i].run = "opened" => \E v \in Uppers : i \in ups[v].toStart
      BY DEF LifeInv, NoOrphanBackend
    <3>2. (Live(i)' <=> Live(i)) /\ (Cancelled(i)' <=> Cancelled(i)) /\ backends'[i] = backends[i]
      BY <1>4, <1>8, <2>2 DEF Live, Cancelled
    <3>3. \A v \in Uppers : /\ i \in ups[v].toStop => i \in ups'[v].toStop
                            /\ i \in ups[v].toStart => i \in ups'[v].toStart
      BY <1>7, <1>9
    <3>. QED
      BY <3>1, <3>2, <3>3
  <2>. QED
    BY <2>1, <2>2
<1>. QED
  BY <1>11, <1>12, <1>13, <1>14 DEF LifeInv

(* The session that remembers a refused OPEN is otherwise the same.        *)
LEMMA RejectOpenLives ==
  ASSUME TypeOK, TombInv, NEW u \in Uppers, RejectOpen(u)
  PROVE  /\ SameLives(ses, ses')
         /\ WasClosed(ses', Current(u).id)
         /\ MaxStreamID <= MaxClosedStreamIDs =>
              \A id : WasClosed(ses, id) => WasClosed(ses', id)
<1>. DEFINE id == Current(u).id
            told == [type |-> "CLOSE", id |-> id, n |-> 0]
            kept == RememberClosed(ses, id)
<1>1. ses \in Session /\ id \in StreamIds /\ UpsTypeOK /\ Tombs(ses)
  BY CurrentStream, Zenon DEF TypeOK, BackendTypeOK, TombInv
<1>2. ups[u].cost \in Int /\ ups[u].items \in Int
  BY <1>1 DEF UpsTypeOK, UpState
<1>3. \/ ses' = QueueFrame(kept, told)
      \/ ses' = ReleasePending(kept, ups[u].cost, ups[u].items)
  BY DEF RejectOpen
<1>4. kept \in Session /\ SameLives(ses, kept)
  <2>1. FlowKept(ses, kept, {})
    BY <1>1, EndStreamFlow, Zenon
  <2>2. kept.closed = ses.closed /\ kept \in Session
    BY <1>1, SameClosed, RememberClosedType, Zenon
  <2>3. kept.streams = ses.streams /\ kept.cancelled = ses.cancelled
    BY <1>1, OneLane DEF RememberClosed, DropLane, Session
  <2>. QED
    BY <2>2, <2>3 DEF SameLives
<1>5. WasClosed(kept, id) /\ (MaxStreamID <= MaxClosedStreamIDs =>
                                \A other : WasClosed(ses, other) => WasClosed(kept, other))
  BY <1>1, RememberedOrder, Zenon
<1>. HIDE DEF kept, told
<1>6. SameOrder(kept, ses')
  BY <1>2, <1>3, <1>4, QueueFrameOrderKept, OrderKept, Zenon
<1>7. SameLives(kept, ses')
  BY <1>1, <1>2, <1>3, <1>4, LivesSame, Zenon
<1>. QED
  BY <1>4, <1>5, <1>6, <1>7, SameOrderRemembers, SameLivesTransitive, Zenon DEF kept, id

LEMMA RejectOpenLife ==
  ASSUME TypeOK, UplinkInv, TombInv, LockInv, LifeInv, FreshInv, NEW u \in Uppers, RejectOpen(u)
  PROVE  LifeInv' /\ FreshInv'
<1>. DEFINE id == Current(u).id
<1>1. /\ ups \in [Uppers -> UpState] /\ ups[u] \in UpState /\ UpsTypeOK
      /\ backends \in [StreamIds -> BackendState]
  BY DEF TypeOK, UpsTypeOK, BackendTypeOK
<1>2. Applying(u) /\ Current(u).type = "OPEN"
  BY DEF RejectOpen
<1>3. /\ id \in StreamIds /\ backends[id].run = "none" /\ ~ses.streams[id].live
  BY <1>1, <1>2, CurrentOpen, Zenon
<1>4. /\ SameLives(ses, ses') /\ WasClosed(ses', id)
      /\ MaxStreamID <= MaxClosedStreamIDs =>
           \A other : WasClosed(ses, other) => WasClosed(ses', other)
  BY RejectOpenLives, Zenon
<1>5. backends' = [backends EXCEPT ![id].run = "done"]
  BY DEF RejectOpen
<1>6. /\ backends'[id].run = "done"
      /\ \A other \in StreamIds \ {id} : backends'[other] = backends[other]
  BY <1>1, <1>3, <1>5 DEF BackendState
<1>7. PICK r : /\ ups' = [ups EXCEPT ![u] = r]
               /\ r.toStart = ups[u].toStart /\ r.toStop = ups[u].toStop
               /\ r.pc \in {"applying", "launching"}
               /\ r.pc = "applying" => r.body = ups[u].body /\ r.k = ups[u].k + 1
  <2>1. CASE NextFrame(u)
    <3>. DEFINE r == [ups[u] EXCEPT !.k = @ + 1]
    <3>1. ups' = [ups EXCEPT ![u] = r]
      BY <1>1, <2>1 DEF NextFrame
    <3>2. /\ r.toStart = ups[u].toStart /\ r.toStop = ups[u].toStop
          /\ r.pc = "applying" /\ r.body = ups[u].body /\ r.k = ups[u].k + 1
      BY <1>1, <1>2 DEF UpState, Applying
    <3>. HIDE DEF r
    <3>. QED
      BY <3>1, <3>2
  <2>2. CASE ups' = [ups EXCEPT ![u].pc = "launching", ![u].cost = 0, ![u].items = 0]
    <3>. DEFINE r == [ups[u] EXCEPT !.pc = "launching", !.cost = 0, !.items = 0]
    <3>1. ups' = [ups EXCEPT ![u] = r]
      BY <1>1, <2>2
    <3>2. /\ r.toStart = ups[u].toStart /\ r.toStop = ups[u].toStop
          /\ r.pc = "launching"
      BY <1>1 DEF UpState
    <3>. HIDE DEF r
    <3>. QED
      BY <3>1, <3>2
  <2>. QED
    BY <2>1, <2>2 DEF RejectOpen
<1>8. ups'[u] = r /\ (\A v \in Uppers \ {u} : ups'[v] = ups[v]) /\ ups[u].pc = "applying"
  BY <1>1, <1>2, <1>7 DEF Applying
<1>. HIDE DEF id
<1>9. FreshInv'
  BY <1>1, <1>2, <1>6, <1>7, OpenedFresh, Zenon DEF id
<1>10. \A v \in Uppers : ups'[v].toStart = ups[v].toStart /\ ups'[v].toStop = ups[v].toStop
  BY <1>7, <1>8
<1>11. \A v \in Uppers : ups[v].pc \in Busy => ups'[v].pc \in Busy
  BY <1>7, <1>8 DEF Busy
<1>12. \A v \in Uppers : id \notin ups[v].toStart /\ ups[v].toStart \subseteq StreamIds
  BY <1>1, <1>3 DEF LifeInv, StartsHeld, UpState
<1>13. StartsHeld'
  <2>. SUFFICES ASSUME NEW v \in Uppers
                PROVE  /\ ups'[v].pc \notin Busy => ups'[v].toStart = {} /\ ups'[v].toStop = {}
                       /\ \A i \in ups'[v].toStart : backends'[i].run = "opened"
                       /\ \A w \in Uppers \ {v} : ups'[v].toStart \cap ups'[w].toStart = {}
    BY Zenon DEF StartsHeld
  <2>1. /\ ups[v].pc \notin Busy => ups[v].toStart = {} /\ ups[v].toStop = {}
        /\ \A i \in ups[v].toStart : backends[i].run = "opened"
        /\ \A w \in Uppers \ {v} : ups[v].toStart \cap ups[w].toStart = {}
    BY DEF LifeInv, StartsHeld
  <2>. QED
    BY <1>6, <1>10, <1>11, <1>12, <2>1
<1>14. UsedRemembered'
  BY <1>4, <1>6 DEF LifeInv, UsedRemembered, SameLives
<1>15. NoOrphanBackend'
  BY <1>3, <1>4, <1>6, <1>10 DEF LifeInv, NoOrphanBackend, Live, Cancelled, SameLives
<1>. QED
  BY <1>9, <1>13, <1>14, <1>15 DEF LifeInv

(* A handler that closes a stream has its backend to stop.                 *)
LEMMA ApplyCloseLife ==
  ASSUME TypeOK, TypeOK', UplinkInv, TombInv, LockInv, LifeInv, FreshInv, NEW u \in Uppers,
         ApplyClose(u)
  PROVE  LifeInv' /\ FreshInv'
<1>. DEFINE id == Current(u).id
            r == [ups[u] EXCEPT !.k = @ + 1, !.toStop = @ \cup {id}]
<1>1. /\ ups \in [Uppers -> UpState] /\ ups[u] \in UpState /\ UpsTypeOK /\ UpsTypeOK'
      /\ ses \in Session /\ Tombs(ses)
  BY DEF TypeOK, UpsTypeOK, BackendTypeOK, TombInv
<1>2. id \in StreamIds
  BY <1>1, CurrentStream, Zenon
<1>3. ses' = EndStream(ses, id) /\ UNCHANGED backends
  BY DEF ApplyClose
<1>4. /\ FlowKept(ses, ses', {id}) /\ ~ses'.streams[id].live
      /\ ses'.closed = ses.closed
      /\ WasClosed(ses', id)
      /\ MaxStreamID <= MaxClosedStreamIDs =>
           \A other : WasClosed(ses, other) => WasClosed(ses', other)
  BY <1>1, <1>2, <1>3, EndStreamFlow, SameClosed, EndedOrder, Zenon
<1>5. ups' = [ups EXCEPT ![u] = r]
  BY <1>1 DEF ApplyClose
<1>6. r.pc = ups[u].pc /\ r.body = ups[u].body /\ r.k = ups[u].k + 1
      /\ r.toStart = ups[u].toStart /\ r.toStop = ups[u].toStop \cup {id}
  BY <1>1 DEF UpState
<1>. HIDE DEF id, r
<1>7. ups'[u] = r /\ (\A v \in Uppers \ {u} : ups'[v] = ups[v]) /\ ups[u].pc = "applying"
  BY <1>1, <1>5 DEF ApplyClose, Applying
<1>8. \A v \in Uppers : ups[v].k \in Nat
  BY <1>1 DEF UpState
<1>9. FreshInv'
  <2>1. BodiesKept
    BY <1>6, <1>7, <1>8 DEF BodiesKept
  <2>. QED
    BY <1>1, <1>3, <2>1, FreshStays
<1>10. \A v \in Uppers : /\ ups'[v].toStart = ups[v].toStart
                         /\ ups'[v].pc \notin Busy =>
                              ups[v].pc \notin Busy /\ ups'[v].toStop = ups[v].toStop
                         /\ ups[v].toStop \subseteq ups'[v].toStop
  BY <1>6, <1>7 DEF Busy
<1>11. StartsHeld'
  <2>. SUFFICES ASSUME NEW v \in Uppers
                PROVE  /\ ups'[v].pc \notin Busy => ups'[v].toStart = {} /\ ups'[v].toStop = {}
                       /\ \A i \in ups'[v].toStart : backends'[i].run = "opened"
                       /\ \A w \in Uppers \ {v} : ups'[v].toStart \cap ups'[w].toStart = {}
    BY Zenon DEF StartsHeld
  <2>1. /\ ups[v].pc \notin Busy => ups[v].toStart = {} /\ ups[v].toStop = {}
        /\ \A i \in ups[v].toStart : backends[i].run = "opened"
        /\ \A w \in Uppers \ {v} : ups[v].toStart \cap ups[w].toStart = {}
    BY DEF LifeInv, StartsHeld
  <2>. QED
    BY <1>3, <1>10, <2>1
<1>12. UsedRemembered'
  BY <1>3, <1>4 DEF LifeInv, UsedRemembered, FlowKept, SameFlow
<1>13. NoOrphanBackend'
  <2>. SUFFICES ASSUME NEW i \in StreamIds
                PROVE  /\ backends'[i].run \in {"opened", "dialing", "streaming"} /\ ~Live(i)' =>
                            Cancelled(i)' \/ \E v \in Uppers : i \in ups'[v].toStop
                       /\ Live(i)' => backends'[i].run \notin {"none", "done"}
                       /\ backends'[i].run = "opened" => \E v \in Uppers : i \in ups'[v].toStart
    BY Zenon DEF NoOrphanBackend
  <2>1. /\ backends[i].run \in {"opened", "dialing", "streaming"} /\ ~Live(i) =>
                          Cancelled(i) \/ \E v \in Uppers : i \in ups[v].toStop
        /\ Live(i) => backends[i].run \notin {"none", "done"}
        /\ backends[i].run = "opened" => \E v \in Uppers : i \in ups[v].toStart
    BY DEF LifeInv, NoOrphanBackend
  <2>2. (Live(i)' => Live(i)) /\ (Cancelled(i) => Cancelled(i)') /\ backends'[i] = backends[i]
    BY <1>3, <1>4 DEF Live, Cancelled, FlowKept
  <2>3. Live(i) /\ ~Live(i)' => i = id \/ Cancelled(i)'
    BY <1>4 DEF Live, Cancelled, FlowKept, SameFlow
  <2>4. id \in ups'[u].toStop
    BY <1>6, <1>7
  <2>. QED
    BY <1>10, <2>1, <2>2, <2>3, <2>4
<1>. QED
  BY <1>9, <1>11, <1>12, <1>13 DEF LifeInv

(* What a handler has to stop is cancelled and what it has to start is     *)
(* started before it forgets about them.                                   *)
LEMMA UpLaunchLife ==
  ASSUME TypeOK, TypeOK', LifeInv, FreshInv, NEW u \in Uppers, UpLaunch(u)
  PROVE  LifeInv' /\ FreshInv'
<1>1. /\ ups \in [Uppers -> UpState] /\ ups[u] \in UpState /\ UpsTypeOK /\ UpsTypeOK'
      /\ ses \in Session /\ backends \in [StreamIds -> BackendState]
  BY DEF TypeOK, UpsTypeOK, BackendTypeOK
<1>2. ses'.cancelled = ses.cancelled \cup ups[u].toStop /\ ses'.closed = ses.closed
      /\ ses'.streams = ses.streams /\ ses'.closedOrder = ses.closedOrder
  BY <1>1 DEF UpLaunch, CancelBackend, Session
<1>3. \A id \in StreamIds : backends'[id].run = IF id \in ups[u].toStart THEN "dialing"
                                                ELSE backends[id].run
  BY <1>1 DEF UpLaunch, BackendState
<1>4. PICK pc \in {"acked", "closing"} : UpEnds(u, pc)
  BY DEF UpLaunch
<1>5. /\ ups'[u].pc = pc /\ ups'[u].toStart = {} /\ ups'[u].toStop = {}
      /\ \A v \in Uppers \ {u} : ups'[v] = ups[v]
  BY <1>1, <1>4 DEF UpEnds, NoUp
<1>6. \A v \in Uppers : ups[v].k \in Nat /\ ups[v].toStart \subseteq StreamIds
  BY <1>1 DEF UpState
<1>7. /\ \A v \in Uppers : \A id \in ups[v].toStart : backends[id].run = "opened"
      /\ \A v \in Uppers \ {u} : ups[u].toStart \cap ups[v].toStart = {}
  BY DEF LifeInv, StartsHeld
<1>8. FreshInv'
  <2>1. BodiesKept
    BY <1>4, <1>5, <1>6 DEF BodiesKept
  <2>2. \A id \in StreamIds : backends[id].run = "none" => backends'[id].run = "none"
    BY <1>3, <1>7
  <2>. QED
    BY <1>1, <2>1, <2>2, FreshStays
<1>9. StartsHeld'
  <2>. SUFFICES ASSUME NEW v \in Uppers
                PROVE  /\ ups'[v].pc \notin Busy => ups'[v].toStart = {} /\ ups'[v].toStop = {}
                       /\ \A i \in ups'[v].toStart : backends'[i].run = "opened"
                       /\ \A w \in Uppers \ {v} : ups'[v].toStart \cap ups'[w].toStart = {}
    BY Zenon DEF StartsHeld
  <2>1. /\ ups[v].pc \notin Busy => ups[v].toStart = {} /\ ups[v].toStop = {}
        /\ \A w \in Uppers \ {v} : ups[v].toStart \cap ups[w].toStart = {}
    BY DEF LifeInv, StartsHeld
  <2>2. CASE v = u
    BY <1>5, <2>2
  <2>3. CASE v # u
    BY <1>3, <1>5, <1>6, <1>7, <2>1, <2>3
  <2>. QED
    BY <2>2, <2>3
<1>10. UsedRemembered'
  <2>1. \A id \in StreamIds : backends'[id].run # "none" => backends[id].run # "none"
    BY <1>3, <1>7
  <2>. QED
    BY <1>2, <2>1 DEF LifeInv, UsedRemembered, WasClosed
<1>11. NoOrphanBackend'
  <2>. SUFFICES ASSUME NEW i \in StreamIds
                PROVE  /\ backends'[i].run \in {"opened", "dialing", "streaming"} /\ ~Live(i)' =>
                            Cancelled(i)' \/ \E v \in Uppers : i \in ups'[v].toStop
                       /\ Live(i)' => backends'[i].run \notin {"none", "done"}
                       /\ backends'[i].run = "opened" => \E v \in Uppers : i \in ups'[v].toStart
    BY Zenon DEF NoOrphanBackend
  <2>1. /\ backends[i].run \in {"opened", "dialing", "streaming"} /\ ~Live(i) =>
                          Cancelled(i) \/ \E v \in Uppers : i \in ups[v].toStop
        /\ Live(i) => backends[i].run \notin {"none", "done"}
        /\ backends[i].run = "opened" => \E v \in Uppers : i \in ups[v].toStart
    BY DEF LifeInv, NoOrphanBackend
  <2>2. /\ Live(i)' <=> Live(i)
        /\ Cancelled(i)' <=> Cancelled(i) \/ i \in ups[u].toStop
    BY <1>2 DEF Live, Cancelled
  <2>. QED
    BY <1>3, <1>5, <1>7, <2>1, <2>2
<1>. QED
  BY <1>8, <1>9, <1>10, <1>11 DEF LifeInv

(* A backend whose run has ended is gone with its stream.                  *)
LEMMA ClosedByBackendOrder ==
  ASSUME NEW s \in Session, NEW id \in StreamIds, NEW pool, Tombs(s)
  PROVE  /\ WasClosed(ClosedByBackend(s, id, pool), id)
         /\ MaxStreamID <= MaxClosedStreamIDs =>
              \A other : WasClosed(s, other) => WasClosed(ClosedByBackend(s, id, pool), other)
<1>. DEFINE ended == EndStream(s, id)
            told == [type |-> "CLOSE", id |-> id, n |-> 0]
<1>1. ended \in Session /\ WasClosed(ended, id)
      /\ (MaxStreamID <= MaxClosedStreamIDs =>
            \A other : WasClosed(s, other) => WasClosed(ended, other))
  BY EndStreamType, EndedOrder, Zenon
<1>2. ClosedByBackend(s, id, pool) \in {QueueFrame(ended, told), CloseSession(ended)}
  BY Zenon DEF ClosedByBackend
<1>. HIDE DEF ended, told
<1>3. SameOrder(ended, QueueFrame(ended, told)) /\ SameOrder(ended, CloseSession(ended))
  BY <1>1, QueueFrameOrderKept, OrderKept, Zenon
<1>. QED
  BY <1>1, <1>2, <1>3, SameOrderRemembers, Zenon

LEMMA BackendClosedLife ==
  ASSUME TypeOK, TypeOK', TombInv, LifeInv, FreshInv, NEW id \in StreamIds,
         BackendClosed(id), UNCHANGED ups
  PROVE  LifeInv' /\ FreshInv'
<1>1. /\ ups \in [Uppers -> UpState] /\ UpsTypeOK /\ UpsTypeOK'
      /\ ses \in Session /\ backends \in [StreamIds -> BackendState] /\ Tombs(ses)
  BY DEF TypeOK, UpsTypeOK, BackendTypeOK, TombInv
<1>2. /\ backends[id].run = "ending" /\ backends'[id].run = "done"
      /\ \A other \in StreamIds \ {id} : backends'[other] = backends[other]
  BY BackendRun DEF BackendStep
<1>3. PICK pool : ses' = CancelBackend(IF Live(id) THEN ClosedByBackend(ses, id, pool) ELSE ses,
                                       {id})
  BY DEF BackendClosed
<1>. DEFINE gone == IF Live(id) THEN ClosedByBackend(ses, id, pool) ELSE ses
<1>4. /\ gone \in Session
      /\ FlowKept(ses, gone, {id})
      /\ MaxStreamID <= MaxClosedStreamIDs =>
           \A other : WasClosed(ses, other) => WasClosed(gone, other)
  <2>1. FlowKept(ses, ses, {id})
    BY SameStreamsFlow
  <2>. QED
    BY <1>1, <2>1, ClosedByBackendType, ClosedByBackendFlow, ClosedByBackendOrder
<1>5. /\ Live(id) => ~gone.streams[id].live /\ WasClosed(gone, id)
      /\ ~Live(id) => gone = ses
  BY <1>1, ClosedByBackendFlow, ClosedByBackendOrder
<1>. HIDE DEF gone
<1>6. /\ ses'.streams = gone.streams /\ ses'.closed = gone.closed
      /\ ses'.closedOrder = gone.closedOrder /\ ses'.cancelled = gone.cancelled \cup {id}
  BY <1>3, <1>4 DEF CancelBackend, Session, gone
<1>7. FreshInv'
  <2>1. BodiesKept
    BY <1>1 DEF BodiesKept, UpState
  <2>. QED
    BY <1>1, <1>2, <2>1, FreshStays
<1>8. StartsHeld'
  BY <1>1, <1>2 DEF LifeInv, StartsHeld, UpState
<1>9. UsedRemembered'
  <2>. SUFFICES ASSUME MaxStreamID <= MaxClosedStreamIDs, ~ses'.closed,
                       NEW i \in StreamIds, backends'[i].run # "none"
                PROVE  ses'.streams[i].live \/ WasClosed(ses', i)
    BY DEF UsedRemembered
  <2>1. ~ses.closed /\ \A other \in StreamIds \ {id} : SameFlow(ses.streams[other], gone.streams[other])
    BY <1>4, <1>6 DEF FlowKept
  <2>2. ses.streams[i].live \/ WasClosed(ses, i)
    BY <1>2, <2>1 DEF LifeInv, UsedRemembered
  <2>3. WasClosed(ses', i) <=> WasClosed(gone, i)
    BY <1>6 DEF WasClosed
  <2>4. CASE i = id
    BY <1>4, <1>5, <1>6, <2>1, <2>2, <2>3, <2>4 DEF Live
  <2>5. CASE i # id
    BY <1>4, <1>6, <2>1, <2>2, <2>3, <2>5 DEF SameFlow
  <2>. QED
    BY <2>4, <2>5
<1>10. NoOrphanBackend'
  <2>. SUFFICES ASSUME NEW i \in StreamIds
                PROVE  /\ backends'[i].run \in {"opened", "dialing", "streaming"} /\ ~Live(i)' =>
                            Cancelled(i)' \/ \E v \in Uppers : i \in ups'[v].toStop
                       /\ Live(i)' => backends'[i].run \notin {"none", "done"}
                       /\ backends'[i].run = "opened" => \E v \in Uppers : i \in ups'[v].toStart
    BY Zenon DEF NoOrphanBackend
  <2>1. CASE i = id
    <3>1. ~Live(i)'
      BY <1>4, <1>5, <1>6, <2>1 DEF Live
    <3>. QED
      BY <1>2, <2>1, <3>1
  <2>2. CASE i # id
    <3>1. /\ backends[i].run \in {"opened", "dialing", "streaming"} /\ ~Live(i) =>
                            Cancelled(i) \/ \E v \in Uppers : i \in ups[v].toStop
          /\ Live(i) => backends[i].run \notin {"none", "done"}
          /\ backends[i].run = "opened" => \E v \in Uppers : i \in ups[v].toStart
      BY DEF LifeInv, NoOrphanBackend
    <3>2. (Live(i)' => Live(i)) /\ (Cancelled(i) => Cancelled(i)') /\ backends'[i] = backends[i]
      BY <1>2, <1>4, <1>6, <2>2 DEF Live, Cancelled, FlowKept
    <3>3. Live(i) /\ ~Live(i)' => Cancelled(i)'
      BY <1>4, <1>6, <2>2 DEF Live, Cancelled, FlowKept, SameFlow
    <3>. QED
      BY <3>1, <3>2, <3>3
  <2>. QED
    BY <2>1, <2>2
<1>. QED
  BY <1>7, <1>8, <1>9, <1>10 DEF LifeInv

(* A request comes in.                                                     *)
LEMMA UpBeginLife ==
  ASSUME TypeOK, TypeOK', LifeInv, FreshInv, NEW u \in Uppers, NEW q, NEW body \in Bodies,
         UpBegin(u, q, body)
  PROVE  LifeInv' /\ FreshInv'
<1>1. /\ ups \in [Uppers -> UpState] /\ UpsTypeOK /\ UpsTypeOK' /\ ses \in Session
      /\ ups[u].pc = "idle" /\ UNCHANGED backends
  BY DEF TypeOK, UpsTypeOK, BackendTypeOK, UpBegin
<1>2. ses' = ses \/ ses' = [ses EXCEPT !.lanes[0].upActive = TRUE]
  BY Zenon DEF UpBegin
<1>3. LivesKept(ses, ses') /\ SameOrder(ses, ses')
  <2>1. FlowKept(ses, ses', {})
    BY <1>1, <1>2, LanesFlow, Zenon
  <2>2. SameOrder(ses, ses')
    BY <1>1, <1>2 DEF SameOrder, Session
  <2>. QED
    BY <2>1, <2>2, FlowLives, Zenon
<1>4. CASE \E pc \in {"failed", "acked", "failing", "retry"} : UpEnds(u, pc)
  <2>1. PICK pc \in UpPcs \ {"applying", "parsing"} : UpEnds(u, pc)
    BY <1>4 DEF UpPcs
  <2>2. HandsKept /\ BodiesKept
    BY <1>1, <2>1, EndedHands DEF LifeInv, Busy
  <2>. QED
    BY <1>1, <1>3, <2>2, CalmLife
<1>5. CASE /\ ups' = [ups EXCEPT ![u] = [NoUp EXCEPT !.pc = "parsing", !.seq = q, !.body = body]]
           /\ IsNext(q)
  <2>1. /\ ups'[u].pc = "parsing" /\ ups'[u].body = body
        /\ ups'[u].toStart = {} /\ ups'[u].toStop = {}
        /\ \A v \in Uppers \ {u} : ups'[v] = ups[v]
    BY <1>1, <1>5 DEF NoUp
  <2>2. HandsKept
    <3>1. ups[u].toStart = {} /\ ups[u].toStop = {}
      BY <1>1 DEF LifeInv, StartsHeld, Busy
    <3>. QED
      BY <1>1, <2>1, <3>1 DEF HandsKept, Busy
  <2>3. LifeInv'
    <3>1. RunsOn /\ \A id : WasClosed(ses, id) => WasClosed(ses', id)
      BY <1>1, <1>3, SameOrderRemembers DEF RunsOn
    <3>. QED
      BY <1>1, <1>3, <2>2, <3>1, LifeStays, Zenon
  <2>4. MaxStreamID <= MaxClosedStreamIDs \/ Unused(body, 1)
    BY <1>5 DEF UpBegin, NoReuse, Unused
  <2>5. OpensUnused' /\ ParsedAdmissible'
    <3>1. FreshInv /\ \A v \in Uppers : v # u => ups'[v] = ups[v]
      BY <2>1
    <3>2. ups'[u].pc # "applying"
      BY <2>1
    <3>. QED
      BY <1>1, <2>1, <2>4, <3>1, <3>2, FreshElsewhere, Zenon
  <2>. QED
    BY <2>3, <2>5 DEF FreshInv
<1>. QED
  BY <1>4, <1>5 DEF UpBegin

(* A body that is validated opens only streams that were never used.       *)
LEMMA UpCommitLife ==
  ASSUME TypeOK, TypeOK', LifeInv, FreshInv, NEW u \in Uppers, UpCommit(u)
  PROVE  LifeInv' /\ FreshInv'
<1>1. /\ ups \in [Uppers -> UpState] /\ ups[u] \in UpState /\ UpsTypeOK /\ UpsTypeOK'
      /\ ses \in Session /\ ups[u].pc = "parsing" /\ UNCHANGED backends
  BY DEF TypeOK, UpsTypeOK, BackendTypeOK, UpCommit
<1>2. LivesKept(ses, ses') /\ SameOrder(ses, ses')
  <2>1. /\ ~ApplyOpen(u) /\ ~ApplyData(u) /\ ~ApplyClose(u) /\ ~RejectOpen(u)
    BY <1>1 DEF ApplyOpen, ApplyData, ApplyClose, RejectOpen, Applying
  <2>. QED
    BY <2>1, UpFlow, FlowLives, UpOrderKept, Zenon DEF UpStep
<1>3. CASE \E pc \in {"failed", "failing", "retry"} : UpEnds(u, pc)
  <2>1. PICK pc \in UpPcs \ {"applying", "parsing"} : UpEnds(u, pc)
    BY <1>3 DEF UpPcs
  <2>2. HandsKept /\ BodiesKept
    BY <1>1, <2>1, EndedHands DEF LifeInv, Busy
  <2>. QED
    BY <1>1, <1>2, <2>2, CalmLife
<1>4. CASE \E c, i : /\ ups' = [ups EXCEPT ![u].pc = "applying", ![u].k = 1,
                                           ![u].cost = c, ![u].items = i]
                     /\ ~ses.closed
                     /\ WellFormedBody(ups[u].body) /\ ValidBatch(ses, ups[u].body)
  <2>1. PICK c, i : ups' = [ups EXCEPT ![u].pc = "applying", ![u].k = 1,
                                       ![u].cost = c, ![u].items = i]
    BY <1>4
  <2>. DEFINE r == [ups[u] EXCEPT !.pc = "applying", !.k = 1, !.cost = c, !.items = i]
  <2>2. ups' = [ups EXCEPT ![u] = r]
    BY <1>1, <2>1
  <2>3. /\ r.pc = "applying" /\ r.k = 1 /\ r.body = ups[u].body
        /\ r.toStart = ups[u].toStart /\ r.toStop = ups[u].toStop
    BY <1>1 DEF UpState
  <2>. HIDE DEF r
  <2>4. ups'[u] = r /\ \A v \in Uppers \ {u} : ups'[v] = ups[v]
    BY <1>1, <2>2
  <2>5. HandsKept
    BY <1>1, <2>3, <2>4 DEF HandsKept, Busy
  <2>6. LifeInv'
    <3>1. RunsOn /\ \A id : WasClosed(ses, id) => WasClosed(ses', id)
      BY <1>1, <1>2, SameOrderRemembers DEF RunsOn
    <3>. QED
      BY <1>1, <1>2, <2>5, <3>1, LifeStays, Zenon
  <2>7. Unused(ups[u].body, 1)
    <3>1. OpensAhead(ses, ups[u].body, 1)
      BY <1>1, <1>4, UpFields, ValidOpensAhead
    <3>2. CASE MaxStreamID <= MaxClosedStreamIDs
      BY <1>4, <3>1, <3>2 DEF LifeInv, UsedRemembered, OpensAhead, Unused
    <3>3. CASE ~(MaxStreamID <= MaxClosedStreamIDs)
      BY <1>1, <3>3 DEF FreshInv, ParsedAdmissible
    <3>. QED
      BY <3>2, <3>3
  <2>8. OpensUnused' /\ ParsedAdmissible'
    <3>1. FreshInv /\ \A v \in Uppers : v # u => ups'[v] = ups[v]
      BY <2>4
    <3>. QED
      BY <1>1, <2>3, <2>4, <2>7, <3>1, FreshElsewhere, Zenon
  <2>. QED
    BY <2>6, <2>8 DEF FreshInv
<1>. QED
  BY <1>3, <1>4 DEF UpCommit

LEMMA UpLife ==
  ASSUME TypeOK, TypeOK', UplinkInv, TombInv, LockInv, LifeInv, FreshInv, NEW u \in Uppers,
         UpStep(u)
  PROVE  LifeInv' /\ FreshInv'
<1>1. CASE ApplyOpen(u) \/ RejectOpen(u) \/ ApplyClose(u) \/ UpLaunch(u) \/ UpCommit(u)
  BY <1>1, ApplyOpenLife, RejectOpenLife, ApplyCloseLife, UpLaunchLife, UpCommitLife
<1>2. CASE ~(ApplyOpen(u) \/ RejectOpen(u) \/ ApplyClose(u) \/ UpLaunch(u) \/ UpCommit(u))
  <2>1. UpsTypeOK /\ StartsHeld /\ ses \in Session
    BY DEF TypeOK, BackendTypeOK, LifeInv
  <2>2. UNCHANGED backends /\ SameOrder(ses, ses')
    <3>1. UNCHANGED backends
      BY <1>2, Zenon DEF UpStep, ApplyNothing, ApplyToNoStream, ApplyData, ApplyWindow, UpApplied,
                         UpCloses, UpReturns
    <3>. QED
      BY <1>2, <3>1, UpOrderKept, Zenon
  <2>3. HandsKept /\ BodiesKept
    <3>1. CASE UpCloses(u) \/ UpReturns(u)
      <4>1. ups[u].pc \notin Busy
        BY <3>1 DEF UpCloses, UpReturns, Busy
      <4>2. UpEnds(u, "failed") \/ UpEnds(u, "idle")
        <5>1. [NoUp EXCEPT !.pc = "idle"] = NoUp
          BY DEF NoUp
        <5>. QED
          BY <3>1, <5>1 DEF UpCloses, UpReturns, UpEnds
      <4>. QED
        BY <2>1, <4>1, <4>2, EndedHands DEF UpPcs
    <3>2. CASE ~UpCloses(u) /\ ~UpReturns(u)
      BY <1>2, <2>1, <3>2, QuietHands, Zenon DEF UpStep
    <3>. QED
      BY <3>1, <3>2
  <2>4. LivesKept(ses, ses')
    <3>1. CASE ApplyData(u)
      <4>1. /\ FlowKept(ses, ses', {Current(u).id})
            /\ ses'.closed = ses.closed /\ ses'.cancelled = ses.cancelled
        BY <3>1, ApplyFlow
      <4>2. Current(u).id \in StreamIds /\ ses.streams[Current(u).id].live
        BY <2>1, <3>1, CurrentStream DEF ApplyData
      <4>3. ses'.streams[Current(u).id].live
        <5>. DEFINE t == ses.streams[Current(u).id]
        <5>1. t \in Stream /\ t.live
          BY <2>1, <4>2, SessionFields
        <5>2. ses' = [ses EXCEPT !.streams[Current(u).id] = WriteQueued(t, Current(u).n)]
          BY <3>1 DEF ApplyData
        <5>3. ses'.streams[Current(u).id] = WriteQueued(t, Current(u).n)
          BY <2>1, <4>2, <5>2 DEF Session
        <5>4. WriteQueued(t, Current(u).n).live
          BY <5>1 DEF WriteQueued, Stream
        <5>. QED
          BY <5>3, <5>4
      <4>4. \A id \in StreamIds \ {Current(u).id} : ses'.streams[id].live = ses.streams[id].live
        BY <4>1, <4>2, <4>3 DEF FlowKept, SameFlow
      <4>5. ses.streams[Current(u).id].live = TRUE /\ ses'.streams[Current(u).id].live = TRUE
        <5>1. /\ ses.streams[Current(u).id].live \in BOOLEAN
              /\ ses'.streams[Current(u).id].live \in BOOLEAN
          BY <2>1, <4>2, SessionFields, StreamFields DEF TypeOK, BackendTypeOK
        <5>. QED
          BY <4>2, <4>3, <5>1
      <4>. QED
        BY <4>1, <4>4, <4>5 DEF LivesKept
    <3>2. CASE ~ApplyData(u)
      BY <1>2, <3>2, UpFlow, FlowLives
    <3>. QED
      BY <3>1, <3>2
  <2>. QED
    BY <2>2, <2>3, <2>4, CalmLife
<1>. QED
  BY <1>1, <1>2

LEMMA BackendLife ==
  ASSUME TypeOK, TypeOK', TombInv, LifeInv, FreshInv, NEW id \in StreamIds, BackendNext(id)
  PROVE  LifeInv' /\ FreshInv'
<1>1. BackendStep(id) /\ UNCHANGED ups /\ UpsTypeOK /\ UpsTypeOK'
  BY DEF BackendNext, TypeOK
<1>2. CASE BackendClosed(id)
  BY <1>1, <1>2, BackendClosedLife
<1>3. CASE ~BackendClosed(id)
  <2>1. LivesKept(ses, ses') /\ SameOrder(ses, ses')
    BY <1>1, <1>3, BackendLives, BackendOrderKept, Zenon
  <2>2. RunsOn
    BY <1>1, <1>3, BackendRun DEF RunsOn
  <2>3. HandsKept /\ BodiesKept
    BY <1>1 DEF HandsKept, BodiesKept, UpsTypeOK, UpState
  <2>4. \A i \in StreamIds : backends[i].run = "none" => backends'[i].run = "none"
    BY <2>2 DEF RunsOn
  <2>5. \A i : WasClosed(ses, i) => WasClosed(ses', i)
    BY <2>1, SameOrderRemembers, Zenon
  <2>. QED
    BY <1>1, <2>1, <2>2, <2>3, <2>4, <2>5, LifeStays, FreshStays, Zenon
<1>. QED
  BY <1>2, <1>3

LEMMA LifeInit == Init => LifeInv /\ FreshInv
<1>. SUFFICES ASSUME Init PROVE LifeInv /\ FreshInv
  OBVIOUS
<1>1. \A u \in Uppers : /\ ups[u].pc = "idle" /\ ups[u].toStart = {} /\ ups[u].toStop = {}
  BY DEF Init, NoUp
<1>2. \A id \in StreamIds : backends[id].run = "none" /\ ~ses.streams[id].live
  BY DEF Init, BackendInit, NoBackend, NewSession, NoStream
<1>. QED
  BY <1>1, <1>2 DEF LifeInv, FreshInv, StartsHeld, UsedRemembered, NoOrphanBackend,
                    OpensUnused, ParsedAdmissible, Live

LEMMA LifeStep ==
  ASSUME TypeOK, TypeOK', UplinkInv, TombInv, LockInv, LifeInv, FreshInv, [Next]_vars
  PROVE  LifeInv' /\ FreshInv'
<1>1. ses \in Session /\ UpsTypeOK
  BY DEF TypeOK, BackendTypeOK
<1>2. ASSUME UNCHANGED <<ups, backends>>, FlowKept(ses, ses', {}), SameOrder(ses, ses')
      PROVE  LifeInv' /\ FreshInv'
  <2>1. HandsKept /\ BodiesKept
    BY <1>1, <1>2 DEF HandsKept, BodiesKept, UpsTypeOK, UpState
  <2>. QED
    BY <1>2, <2>1, FlowLives, CalmLife
<1>3. ASSUME NEW u \in Uppers, UpStep(u) PROVE LifeInv' /\ FreshInv'
  BY <1>3, UpLife
<1>4. ASSUME NEW u \in Uppers, NEW q, NEW body \in Bodies, UpBegin(u, q, body)
      PROVE LifeInv' /\ FreshInv'
  BY <1>4, UpBeginLife
<1>5. ASSUME NEW id \in StreamIds, BackendNext(id) PROVE LifeInv' /\ FreshInv'
  BY <1>5, BackendLife
<1>6. ASSUME NEW p \in Pollers,
             PollStep(p) \/ PollCancelled(p) \/ \E cursor : PollBegin(p, cursor)
      PROVE  LifeInv' /\ FreshInv'
  <2>1. UNCHANGED <<ups, backends>>
    BY <1>6, Zenon DEF PollStep, PollWakes, PollResumes, PollSuperseded, PollExpires, PollCloses,
       PollReturns, PollCancelled, PollBegin
  <2>. QED
    BY <1>2, <1>6, <2>1, PollFlow, PollOrderKept
<1>7. CASE Close
  <2>1. ses' = CloseSession(ses) /\ UNCHANGED <<ups, backends>>
    BY <1>7 DEF Close
  <2>. QED
    BY <1>1, <1>2, <2>1, CloseSessionFlow, OrderKept
<1>8. CASE UNCHANGED vars
  <2>1. UNCHANGED <<ups, backends, ses>>
    BY <1>8 DEF vars
  <2>2. FlowKept(ses, ses', {}) /\ SameOrder(ses, ses')
    BY <2>1, SameStreamsFlow DEF SameOrder
  <2>. QED
    BY <1>2, <2>1, <2>2
<1>. QED
  BY <1>3, <1>4, <1>5, <1>6, <1>7, <1>8, Zenon DEF Next, System, Environment

LEMMA LifeInvariant == Spec => [](TypeOK /\ UplinkInv /\ TombInv /\ LockInv /\ LifeInv /\ FreshInv)
<1>1. Init => LockInv /\ LifeInv /\ FreshInv
  BY LockInvInit, LifeInit
<1>2. (PollInv /\ UplinkInv /\ TombInv) /\ (LockInv /\ LifeInv /\ FreshInv)
        /\ (PollInv /\ UplinkInv /\ TombInv)' /\ [Next]_vars
        => (LockInv /\ LifeInv /\ FreshInv)'
  <2>1. PollInv => TypeOK
    BY DEF PollInv
  <2>2. PollInv' => TypeOK'
    BY DEF PollInv
  <2>. QED
    BY <2>1, <2>2, LockInvStep, LifeStep
<1>3. PollInv => TypeOK
  BY DEF PollInv
<1>. QED
  BY <1>1, <1>2, <1>3, SafeInvariant, PTL DEF Spec

(* Every backend whose stream has left the session is cancelled or about   *)
(* to be, although stream and backend are dropped in different critical    *)
(* sections and by different goroutines; a live stream always has a        *)
(* backend that will report its end, and one that is opened is started.    *)
THEOREM NoOrphanBackendHolds == Spec => []NoOrphanBackend
<1>1. LifeInv => NoOrphanBackend
  BY DEF LifeInv
<1>. QED
  BY <1>1, LifeInvariant, PTL

-----------------------------------------------------------------------------
(* The line of frames to the client.                                       *)

(* What a critical section other than a poll's does to the downlink queue: *)
(* at most one frame joins its end, the others stay in place and only      *)
(* grow, or the session closes and the queue is dropped.                   *)
GrewBy(old, new, id, types) ==
  /\ Extends(new, old)
  /\ \/ Len(new) = Len(old)
     \/ Len(new) = Len(old) + 1 /\ new[Len(new)].id = id /\ new[Len(new)].type \in types

Grown(s, t, id, types) ==
  \/ t.closed /\ t.lanes[0].unacked = <<>> /\ t.lanes[0].frames = <<>>
  \/ /\ t.lanes[0].unacked = s.lanes[0].unacked
     /\ GrewBy(s.lanes[0].frames, t.lanes[0].frames, id, types)

LEMMA QueueFields ==
  ASSUME NEW s \in Session
  PROVE  /\ s.lanes[0] \in Lane
         /\ s.lanes[0].frames \in Seq(QueuedFrame)
         /\ s.lanes[0].unacked \in Seq(QueuedFrame)
BY SessionFields, LaneZero, LaneFields

LEMMA GrewNothing ==
  ASSUME NEW q \in Seq(QueuedFrame), NEW id, NEW types
  PROVE  GrewBy(q, q, id, types)
<1>1. \A k \in 1 .. Len(q) : q[k] \in QueuedFrame
  OBVIOUS
<1>2. \A k \in 1 .. Len(q) : q[k].n \in Nat
  BY <1>1 DEF QueuedFrame
<1>. QED
  BY <1>2 DEF GrewBy, Extends

LEMMA SameLineGrown ==
  ASSUME NEW s \in Session, NEW t, NEW id, NEW types,
         t.lanes[0].unacked = s.lanes[0].unacked, t.lanes[0].frames = s.lanes[0].frames
  PROVE  Grown(s, t, id, types)
BY QueueFields, GrewNothing, Zenon DEF Grown

LEMMA UntouchedGrown ==
  ASSUME NEW s \in Session, NEW t, Untouched(s, t), NEW id, NEW types
  PROVE  Grown(s, t, id, types)
BY SameLineGrown, Zenon DEF Untouched

LEMMA UntouchedLine ==
  ASSUME NEW s, NEW t, NEW v, NEW id, NEW types
  PROVE  /\ Untouched(s, t) /\ Grown(t, v, id, types) => Grown(s, v, id, types)
         /\ Grown(s, t, id, types) /\ Untouched(t, v) => Grown(s, v, id, types)
BY Zenon DEF Untouched, Grown

LEMMA CancelGrown ==
  ASSUME NEW s, NEW t \in Session, NEW id, NEW types, Grown(s, t, id, types), NEW ids
  PROVE  Grown(s, CancelBackend(t, ids), id, types)
BY CancelUntouched, UntouchedLine, Zenon

(* queueFrameLocked adds to a frame of the queue or appends one.           *)
LEMMA FramesGrown ==
  ASSUME NEW lane \in Lane, NEW f \in Queueable
  PROVE  GrewBy(lane.frames, FramesWith(lane, f), f.id, {f.type})
<1>. DEFINE old == lane.frames
            new == FramesWith(lane, f)
            n == Len(old)
<1>1. /\ old \in Seq(QueuedFrame) /\ new \in Seq(QueuedFrame) /\ n \in Nat /\ f.n \in Nat
  BY LaneFields, FramesWithType DEF Queueable
<1>2. \A k \in 1 .. n : old[k] \in QueuedFrame
  BY <1>1
<1>3. \A k \in 1 .. n : old[k].n \in Nat
  BY <1>2 DEF QueuedFrame
<1>4. ASSUME NEW w, NEW e, new = [old EXCEPT ![w] = e],
             w \in 1 .. n => e.type = old[w].type /\ e.id = old[w].id /\ e.n = old[w].n + f.n
      PROVE  GrewBy(old, new, f.id, {f.type})
  <2>. HIDE DEF old, new, n
  <2>1. Len(new) = Len(old)
    BY <1>1, <1>4 DEF n
  <2>2. \A k \in 1 .. n : k # w => new[k] = old[k]
    BY <1>1, <1>4 DEF n
  <2>3. w \in 1 .. n => new[w] = e
    BY <1>1, <1>4 DEF n
  <2>4. ASSUME NEW k \in 1 .. n
        PROVE  new[k].type = old[k].type /\ new[k].id = old[k].id /\ new[k].n >= old[k].n
    BY <1>1, <1>3, <1>4, <2>2, <2>3
  <2>. QED
    BY <1>1, <2>1, <2>4 DEF GrewBy, Extends, n
<1>5. CASE MergesWindow(lane, f)
  <2>. DEFINE w == lane.windows[f.id]
              e == Merged(old[w], f.n)
  <2>1. new = [old EXCEPT ![w] = e]
    BY <1>5, Zenon DEF FramesWith
  <2>2. \A q \in QueuedFrame :
          LET m == Merged(q, f.n) IN m.type = q.type /\ m.id = q.id /\ m.n = q.n + f.n
    BY DEF Merged, QueuedFrame
  <2>3. w \in 1 .. n => e.type = old[w].type /\ e.id = old[w].id /\ e.n = old[w].n + f.n
    BY <1>2, <2>2, Zenon
  <2>. HIDE DEF old, new, w, e
  <2>. QED
    BY <1>4, <2>1, <2>3, Zenon DEF old, new
<1>6. CASE ~MergesWindow(lane, f) /\ ExtendsData(lane, f)
  <2>. DEFINE e == Extended(old[n], f.n)
  <2>1. new = [old EXCEPT ![n] = e]
    BY <1>6, Zenon DEF FramesWith
  <2>2. \A q \in QueuedFrame :
          LET m == Extended(q, f.n) IN m.type = q.type /\ m.id = q.id /\ m.n = q.n + f.n
    BY DEF Extended, QueuedFrame
  <2>3. n \in 1 .. n => e.type = old[n].type /\ e.id = old[n].id /\ e.n = old[n].n + f.n
    BY <1>2, <2>2, Zenon
  <2>. HIDE DEF old, new, e
  <2>. QED
    BY <1>4, <2>1, <2>3, Zenon DEF old, new
<1>7. CASE ~MergesWindow(lane, f) /\ ~ExtendsData(lane, f)
  <2>. DEFINE e == [type |-> f.type, id |-> f.id, n |-> f.n,
                    cost |-> EncodedLength(f) + QueueItemCost]
  <2>1. new = Append(old, e)
    BY <1>7, Zenon DEF FramesWith
  <2>2. e.type \in {f.type} /\ e.id = f.id
    OBVIOUS
  <2>. HIDE DEF old, new, e
  <2>3. Len(new) = Len(old) + 1 /\ new[Len(new)] = e /\ \A k \in 1 .. n : new[k] = old[k]
    BY <1>1, <2>1 DEF n
  <2>4. new[Len(new)].id = f.id /\ new[Len(new)].type \in {f.type}
    BY <2>2, <2>3, Zenon
  <2>. QED
    BY <1>1, <1>3, <2>3, <2>4 DEF GrewBy, Extends, old, new, n
<1>. QED
  BY <1>5, <1>6, <1>7

LEMMA QueueFrameGrown ==
  ASSUME NEW s \in Session, NEW f \in Queueable
  PROVE  Grown(s, QueueFrame(s, f), f.id, {f.type})
<1>. DEFINE lane == s.lanes[0]
            new == [lane EXCEPT !.frames = FramesWith(lane, f),
                                !.windows = WindowsWith(lane, f),
                                !.notify = TRUE]
            t == QueueFrame(s, f)
<1>1. lane \in Lane /\ s.lanes \in [LaneIds -> Lane] /\ 0 \in LaneIds
  BY SessionFields, LaneZero
<1>2. t.lanes[0] = new
  <2>1. t = [s EXCEPT !.pendingCost = @ + QueueCost(lane, f),
                      !.pendingItems = @ + QueueItems(lane, f),
                      !.lanes[0] = new]
    BY OneLane, Zenon DEF QueueFrame
  <2>. HIDE DEF new, t
  <2>. QED
    BY <1>1, <2>1 DEF Session
<1>3. new.unacked = lane.unacked /\ new.frames = FramesWith(lane, f)
  <2>. DEFINE x == FramesWith(lane, f)
              y == WindowsWith(lane, f)
  <2>. HIDE DEF lane, x, y
  <2>. QED
    BY <1>1 DEF Lane
<1>. HIDE DEF t, new
<1>. QED
  BY <1>1, <1>2, <1>3, FramesGrown, Zenon DEF Grown, t

LEMMA CloseSessionGrown ==
  ASSUME NEW s \in Session, s.lanes[0].present, NEW id, NEW types
  PROVE  Grown(s, CloseSession(s), id, types)
<1>1. CASE s.closed
  BY <1>1, UntouchedGrown, Zenon DEF CloseSession, Untouched
<1>2. CASE ~s.closed
  <2>. DEFINE lane == s.lanes[0]
              new == ClearedLane(lane)
              t == CloseSession(s)
  <2>1. lane \in Lane /\ 0 \in LaneIds
    BY SessionFields, LaneZero
  <2>2. /\ t.lanes = [l \in LaneIds |-> IF s.lanes[l].present THEN ClearedLane(s.lanes[l])
                                                           ELSE NoLane]
        /\ t.closed
    BY <1>2 DEF CloseSession, Session
  <2>3. t.lanes[0] = new
    BY <2>1, <2>2, Zenon
  <2>4. new.unacked = <<>> /\ new.frames = <<>>
    BY <2>1 DEF Lane, ClearedLane
  <2>. HIDE DEF t, new
  <2>. QED
    BY <2>2, <2>3, <2>4, Zenon DEF Grown, t
<1>. QED
  BY <1>1, <1>2

-----------------------------------------------------------------------------
(* What backends add to the line.                                          *)

LEMMA AfterWriteGrown ==
  ASSUME NEW s \in Session, NEW id \in StreamIds, NEW k \in Nat, NEW pool
  PROVE  /\ Grown(s, AfterWrite(s, id, k, pool), id, {"DATA", "WINDOW"})
         /\ ~s.streams[id].live => AfterWrite(s, id, k, pool) = s
<1>0. \A t, u, x : Grown(t, u, x, {"WINDOW"}) => Grown(t, u, x, {"DATA", "WINDOW"})
  BY DEF Grown, GrewBy
<1>1. CASE CanDrain(s, id, k)
  <2>. DEFINE drained == Drain(s, id, k)
              f == [type |-> "WINDOW", id |-> id, n |-> k]
  <2>1. k \in Int
    OBVIOUS
  <2>2. drained \in Session /\ Untouched(s, drained)
    BY <1>1, <2>1, DrainType, BackendUpdatesUntouched, Zenon
  <2>3. f \in Queueable /\ f.id = id /\ f.type = "WINDOW"
    BY DEF Queueable
  <2>. HIDE DEF drained, f
  <2>4. Grown(drained, QueueFrame(drained, f), id, {"WINDOW"})
    BY <2>2, <2>3, QueueFrameGrown, Zenon
  <2>5. Grown(s, QueueFrame(drained, f), id, {"DATA", "WINDOW"})
    BY <1>0, <2>2, <2>4, UntouchedLine, Zenon
  <2>6. Grown(s, drained, id, {"DATA", "WINDOW"})
    BY <2>2, UntouchedGrown, Zenon
  <2>. QED
    BY <1>1, <2>5, <2>6, Zenon DEF AfterWrite, CanDrain, drained, f
<1>2. CASE ~CanDrain(s, id, k)
  <2>1. AfterWrite(s, id, k, pool) = s
    BY <1>2, Zenon DEF AfterWrite
  <2>. QED
    BY <2>1, UntouchedGrown, Zenon DEF Untouched
<1>. QED
  BY <1>1, <1>2

LEMMA ClosedByBackendGrown ==
  ASSUME NEW s \in Session, s.lanes[0].present, NEW id \in StreamIds, NEW pool
  PROVE  Grown(s, ClosedByBackend(s, id, pool), id, {"CLOSE"})
<1>. DEFINE ended == EndStream(s, id)
            f == [type |-> "CLOSE", id |-> id, n |-> 0]
<1>1. ended \in Session /\ Untouched(s, ended)
  BY EndStreamType, EndStreamUntouched, Zenon
<1>2. f \in Queueable /\ f.id = id /\ f.type = "CLOSE"
  BY DEF Queueable
<1>3. ClosedByBackend(s, id, pool) = QueueFrame(ended, f)
      \/ ClosedByBackend(s, id, pool) = CloseSession(ended)
  BY Zenon DEF ClosedByBackend
<1>. HIDE DEF ended, f
<1>4. ended.lanes[0].present
  BY <1>1, Zenon DEF Untouched
<1>5. /\ Grown(ended, QueueFrame(ended, f), id, {"CLOSE"})
      /\ Grown(ended, CloseSession(ended), id, {"CLOSE"})
  BY <1>1, <1>2, <1>4, QueueFrameGrown, CloseSessionGrown, Zenon
<1>. QED
  BY <1>1, <1>3, <1>5, UntouchedLine, Zenon

(* A backend's loops queue DATA and WINDOW for a stream that is live; the  *)
(* end of its run queues CLOSE and takes the stream out of the session.    *)
BackendLine(id) ==
  \/ Grown(ses, ses', id, {})
  \/ ses.streams[id].live /\ Grown(ses, ses', id, {"DATA", "WINDOW"})
  \/ /\ ses.streams[id].live /\ ~ses'.streams[id].live
     /\ Grown(ses, ses', id, {"CLOSE"})

LEMMA BackendGrown ==
  ASSUME TypeOK, lane0.present, NEW id \in StreamIds, BackendStep(id)
  PROVE  BackendLine(id)
<1>. DEFINE Same == ses' = ses
            Cancels == ses' = CancelBackend(ses, {id})
<1>1. ses \in Session /\ backends[id] \in BackendState
  BY Zenon DEF TypeOK, BackendTypeOK
<1>2. backends[id].inHand \in Nat
  BY <1>1, BackendFields
<1>3. ASSUME Untouched(ses, ses') PROVE BackendLine(id)
  BY <1>1, <1>3, UntouchedGrown, Zenon DEF BackendLine
<1>4. CASE Same \/ Cancels
  BY <1>1, <1>3, <1>4, CancelUntouched, Zenon DEF Untouched
<1>5. CASE Dialled(id) \/ DialFailed(id) \/ LoopsReturned(id) \/ BudgetWakesReader(id)
           \/ WriterStops(id) \/ ReadEnds(id)
  BY <1>4, <1>5, Zenon DEF Dialled, DialFailed, LoopsReturned, BudgetWakesReader,
                           WriterStops, ReadEnds
<1>6. CASE BackendClosed(id)
  <2>1. PICK pool : ses' = CancelBackend(IF Live(id) THEN ClosedByBackend(ses, id, pool) ELSE ses,
                                         {id})
    BY <1>6, Zenon DEF BackendClosed
  <2>. DEFINE t == ClosedByBackend(ses, id, pool)
  <2>2. /\ t \in Session /\ ~t.streams[id].live
        /\ Grown(ses, t, id, {"CLOSE"})
    BY <1>1, ClosedByBackendType, ClosedByBackendGrown, ClosedByBackendFlow, Zenon DEF lane0
  <2>. HIDE DEF t
  <2>3. /\ Grown(ses, CancelBackend(t, {id}), id, {"CLOSE"})
        /\ CancelBackend(t, {id}).streams[id].live = t.streams[id].live
    BY <2>2, CancelGrown, LivesSame, ZenonT(60) DEF SameLives
  <2>4. CASE Live(id)
    <3>1. ses' = CancelBackend(t, {id})
      BY <2>1, <2>4, Zenon DEF t
    <3>. QED
      BY <2>2, <2>3, <2>4, <3>1, Zenon DEF BackendLine, Live
  <2>5. CASE ~Live(id)
    BY <1>4, <2>1, <2>5, Zenon
  <2>. QED
    BY <2>4, <2>5
<1>7. CASE NextWrite(id)
  <2>1. CASE ses' = [ses EXCEPT !.streams[id].writes = Tail(@)]
    <3>1. ses' = [ses EXCEPT !.streams[id].writes = Tail(ses.streams[id].writes)]
      BY <1>1, <2>1 DEF Session
    <3>. QED
      BY <1>1, <1>3, <3>1, BackendUpdatesUntouched, Zenon
  <2>. QED
    BY <1>4, <1>7, <2>1, Zenon DEF NextWrite
<1>8. CASE WriterWakes(id)
  BY <1>1, <1>3, <1>8, BackendUpdatesUntouched, Zenon DEF WriterWakes
<1>9. ASSUME NEW k \in Nat, NEW pool \in BOOLEAN, NEW t, t = AfterWrite(ses, id, k, pool),
             ses' = t \/ ses' = CancelBackend(t, {id})
      PROVE  BackendLine(id)
  <2>1. /\ t \in Session /\ Grown(ses, t, id, {"DATA", "WINDOW"})
        /\ ~ses.streams[id].live => t = ses
    BY <1>1, <1>9, AfterWriteType, AfterWriteGrown, Zenon
  <2>2. CASE ses.streams[id].live
    <3>1. Grown(ses, CancelBackend(t, {id}), id, {"DATA", "WINDOW"})
      BY <2>1, CancelGrown, Zenon
    <3>2. Grown(ses, ses', id, {"DATA", "WINDOW"})
      BY <1>9, <2>1, <3>1, Zenon
    <3>. QED
      BY <2>2, <3>2, Zenon DEF BackendLine
  <2>3. CASE ~ses.streams[id].live
    BY <1>4, <1>9, <2>1, <2>3, Zenon
  <2>. QED
    BY <2>2, <2>3
<1>10. CASE Write(id)
  <2>1. PICK pool \in PoolAnswers("control") :
          \/ ses' = AfterWrite(ses, id, backends[id].inHand, pool)
          \/ ses' = CancelBackend(AfterWrite(ses, id, backends[id].inHand, pool), {id})
    BY <1>10, Zenon DEF Write
  <2>2. pool \in BOOLEAN
    BY <2>1, PoolAnswersType, Zenon
  <2>. QED
    BY <1>2, <1>9, <2>1, <2>2, Zenon
<1>11. CASE WriteFails(id)
  <2>1. PICK pool \in PoolAnswers("control"), k \in 0 .. backends[id].inHand - 1 :
          ses' = CancelBackend(AfterWrite(ses, id, k, pool), {id})
    BY <1>11, Zenon DEF WriteFails
  <2>2. pool \in BOOLEAN
    BY <2>1, PoolAnswersType, Zenon
  <2>3. k \in Nat
    BY <1>2, <2>1
  <2>. QED
    BY <1>9, <2>1, <2>2, <2>3, Zenon
<1>12. CASE WriteFinished(id)
  <2>1. CASE ses' = FinishWrite(ses, id)
    BY <1>1, <1>3, <2>1, BackendUpdatesUntouched, Zenon
  <2>. QED
    BY <1>4, <1>12, <2>1, Zenon DEF WriteFinished
<1>13. CASE NextRead(id)
  <2>1. CASE ses' = [ses EXCEPT !.budgetWaiters = @ \cup {id}]
    BY <1>1, <1>3, <2>1, BackendUpdatesUntouched, Zenon
  <2>. QED
    BY <1>4, <1>13, <2>1, Zenon DEF NextRead
<1>14. CASE CreditWakesReader(id)
  BY <1>1, <1>3, <1>14, BackendUpdatesUntouched, Zenon DEF CreditWakesReader
<1>15. CASE ReaderStops(id)
  <2>. DEFINE r == [ses EXCEPT !.budgetWaiters = @ \ {id}]
  <2>1. ses.budgetWaiters \ {id} \in SUBSET StreamIds
    BY <1>1, SessionFields
  <2>2. r \in Session /\ Untouched(ses, r)
    BY <1>1, <2>1, SessionUpdates, BackendUpdatesUntouched, Zenon
  <2>3. ses' = CancelBackend(r, {id})
    BY <1>15, Zenon DEF ReaderStops
  <2>. HIDE DEF r
  <2>. QED
    BY <1>3, <2>2, <2>3, CancelUntouched, Zenon DEF Untouched
<1>16. CASE Read(id)
  <2>1. PICK pool \in PoolAnswers("down"), k \in 1 .. backends[id].allowance :
          LET frame == [type |-> "DATA", id |-> id, n |-> k]
              spent == SpendCredit(ses, id, k)
          IN  \/ Cancels
              \/ CanTakeData(ses, id, k) /\ ses' = QueueFrame(spent, frame)
              \/ CanTakeData(ses, id, k) /\ ses' = CancelBackend(spent, {id})
    BY <1>16, Zenon DEF Read
  <2>. DEFINE frame == [type |-> "DATA", id |-> id, n |-> k]
              spent == SpendCredit(ses, id, k)
  <2>2. CanTakeData(ses, id, k) => spent \in Session /\ ses.streams[id].live
    BY <1>1, <2>1, SpendCreditType, Zenon DEF CanTakeData
  <2>3. Untouched(ses, spent) /\ frame \in Queueable /\ frame.id = id /\ frame.type = "DATA"
    <3>1. k \in Nat
      BY <1>1, <2>1, BackendFields
    <3>2. frame \in Queueable
      BY <3>1 DEF Queueable
    <3>. QED
      BY <1>1, <3>2, BackendUpdatesUntouched, Zenon
  <2>4. \/ Cancels
        \/ ses.streams[id].live /\ spent \in Session /\ ses' = QueueFrame(spent, frame)
        \/ spent \in Session /\ ses' = CancelBackend(spent, {id})
    BY <2>1, <2>2, Zenon
  <2>. HIDE DEF spent, frame, Cancels
  <2>5. CASE ses.streams[id].live /\ spent \in Session /\ ses' = QueueFrame(spent, frame)
    <3>1. Grown(spent, ses', id, {"DATA"})
      BY <2>3, <2>5, QueueFrameGrown, Zenon
    <3>2. Grown(ses, ses', id, {"DATA"})
      BY <2>3, <3>1, UntouchedLine, Zenon
    <3>3. Grown(ses, ses', id, {"DATA", "WINDOW"})
      BY <3>2 DEF Grown, GrewBy
    <3>. QED
      BY <2>5, <3>3, Zenon DEF BackendLine
  <2>6. CASE spent \in Session /\ ses' = CancelBackend(spent, {id})
    BY <1>3, <2>3, <2>6, CancelUntouched, Zenon DEF Untouched
  <2>. QED
    BY <1>4, <2>4, <2>5, <2>6, Zenon
<1>. QED
  BY <1>5, <1>6, <1>7, <1>8, <1>10, <1>11, <1>12, <1>13, <1>14, <1>15, <1>16, Zenon
     DEF BackendStep

-----------------------------------------------------------------------------
(* What handlers add to the line.                                          *)

LEMMA FlagsGrown ==
  ASSUME NEW s \in Session
  PROVE  /\ \A x : Grown(s, [s EXCEPT !.lanes[0].upActive = x], 0, {})
         /\ \A x, y : Grown(s, [s EXCEPT !.lanes[0].lastUpSequence = x,
                                         !.lanes[0].lastUpDigest = y], 0, {})
<1>1. s.lanes \in [LaneIds -> Lane] /\ s.lanes[0] \in Lane /\ 0 \in LaneIds
  BY SessionFields, LaneZero
<1>2. ASSUME NEW t, NEW x, NEW y,
             \/ t = [s EXCEPT !.lanes[0].upActive = x]
             \/ t = [s EXCEPT !.lanes[0].lastUpSequence = x,
                              !.lanes[0].lastUpDigest = y]
      PROVE  Grown(s, t, 0, {})
  <2>1. t.lanes[0].unacked = s.lanes[0].unacked /\ t.lanes[0].frames = s.lanes[0].frames
    <3>1. CASE t = [s EXCEPT !.lanes[0].upActive = x]
      BY <1>1, <3>1 DEF Session, Lane
    <3>2. CASE t = [s EXCEPT !.lanes[0].lastUpSequence = x, !.lanes[0].lastUpDigest = y]
      BY <1>1, <3>2 DEF Session, Lane
    <3>. QED
      BY <1>2, <3>1, <3>2
  <2>. QED
    BY <2>1, SameLineGrown, Zenon
<1>3. ASSUME NEW x PROVE Grown(s, [s EXCEPT !.lanes[0].upActive = x], 0, {})
  <2>1. ASSUME NEW t, t = [s EXCEPT !.lanes[0].upActive = x] PROVE Grown(s, t, 0, {})
    BY <1>2, <2>1, Zenon
  <2>. QED
    BY <2>1
<1>4. ASSUME NEW x, NEW y
      PROVE  Grown(s, [s EXCEPT !.lanes[0].lastUpSequence = x,
                                !.lanes[0].lastUpDigest = y], 0, {})
  <2>1. ASSUME NEW t, t = [s EXCEPT !.lanes[0].lastUpSequence = x, !.lanes[0].lastUpDigest = y]
        PROVE  Grown(s, t, 0, {})
    BY <1>2, <2>1, Zenon
  <2>. QED
    BY <2>1
<1>. QED
  BY <1>3, <1>4, Zenon

LEMMA RejectOpenGrown ==
  ASSUME TypeOK, NEW u \in Uppers, RejectOpen(u)
  PROVE  Grown(ses, ses', Current(u).id, {"CLOSE"})
<1>. DEFINE id == Current(u).id
            frame == [type |-> "CLOSE", id |-> id, n |-> 0]
            remembered == RememberClosed(ses, id)
<1>1. ses \in Session /\ ups[u] \in UpState /\ UpsTypeOK
  BY DEF TypeOK, BackendTypeOK, UpsTypeOK
<1>2. id \in StreamIds
  BY <1>1, CurrentStream, Zenon
<1>3. remembered \in Session /\ Untouched(ses, remembered)
  BY <1>1, <1>2, RememberClosedType, EndStreamUntouched, Zenon
<1>4. frame \in Queueable /\ frame.id = id /\ frame.type = "CLOSE"
  BY <1>2 DEF Queueable
<1>. DEFINE released == ReleasePending(remembered, ups[u].cost, ups[u].items)
<1>5. ses' = QueueFrame(remembered, frame) \/ ses' = released
  BY Zenon DEF RejectOpen
<1>. HIDE DEF remembered, frame, id
<1>6. Grown(remembered, QueueFrame(remembered, frame), id, {"CLOSE"})
  BY <1>3, <1>4, QueueFrameGrown, Zenon
<1>7. Grown(remembered, released, id, {"CLOSE"})
  BY <1>1, <1>3, UpFields, BudgetUntouched, UntouchedGrown, Zenon
<1>8. Grown(ses, ses', id, {"CLOSE"})
  BY <1>3, <1>5, <1>6, <1>7, UntouchedLine, Zenon
<1>. QED
  BY <1>8 DEF id

LEMMA UpGrown ==
  ASSUME TypeOK, lane0.present, NEW u \in Uppers, UpStep(u), ~RejectOpen(u)
  PROVE  Grown(ses, ses', 0, {})
<1>1. ses \in Session /\ ups[u] \in UpState /\ UpsTypeOK
  BY Zenon DEF TypeOK, BackendTypeOK, UpsTypeOK
<1>2. ASSUME Untouched(ses, ses') PROVE Grown(ses, ses', 0, {})
  BY <1>1, <1>2, UntouchedGrown, Zenon
<1>3. CASE ApplyNothing(u) \/ ApplyToNoStream(u) \/ UpReturns(u)
  BY <1>1, <1>2, <1>3, Zenon DEF ApplyNothing, ApplyToNoStream, UpReturns, Untouched
<1>4. CASE ApplyOpen(u) \/ ApplyData(u)
  <2>. DEFINE id == Current(u).id
  <2>1. \A x : Untouched(ses, [ses EXCEPT !.streams[id] = x])
    BY <1>1, StreamUntouched, Zenon
  <2>2. \E x : ses' = [ses EXCEPT !.streams[id] = x]
    BY <1>4, Zenon DEF ApplyOpen, ApplyData
  <2>. QED
    BY <1>2, <2>1, <2>2, Zenon
<1>5. CASE ApplyWindow(u)
  <2>. DEFINE id == Current(u).id
  <2>1. \A x, y : Untouched(ses, [ses EXCEPT !.streams[id].sendCredit = x,
                                             !.streams[id].creditNotify = y])
    BY <1>1 DEF Session, Untouched
  <2>2. PICK x : ses' = [ses EXCEPT !.streams[id].sendCredit = x,
                                    !.streams[id].creditNotify = TRUE]
    <3>1. ses' = [ses EXCEPT !.streams[id].sendCredit = AddCredit(@, Current(u).n),
                             !.streams[id].creditNotify = TRUE]
      BY <1>5, Zenon DEF ApplyWindow
    <3>. QED
      BY <1>1, <3>1, Zenon
  <2>. QED
    BY <1>2, <2>1, <2>2, Zenon
<1>6. CASE ApplyClose(u)
  <2>1. Current(u).id \in StreamIds /\ ses' = EndStream(ses, Current(u).id)
    BY <1>1, <1>6, CurrentStream, Zenon DEF ApplyClose
  <2>. QED
    BY <1>1, <1>2, <2>1, EndStreamUntouched, Zenon
<1>7. CASE UpLaunch(u)
  BY <1>1, <1>2, <1>7, CancelUntouched, Zenon DEF UpLaunch
<1>8. CASE UpCloses(u)
  BY <1>1, <1>8, CloseSessionGrown, Zenon DEF UpCloses, lane0
<1>9. CASE UpCommit(u)
  <2>. DEFINE idle == [ses EXCEPT !.lanes[0].upActive = FALSE]
              cost == WriteCost(ses, ups[u].body)
              items == WriteItems(ses, ups[u].body)
  <2>1. idle \in Session /\ Grown(ses, idle, 0, {})
    <3>1. idle \in Session
      BY <1>1, LaneUpdates, Zenon
    <3>. QED
      BY <1>1, <3>1, FlagsGrown, Zenon
  <2>2. cost \in Int /\ items \in Int
    BY <1>1, UpFields, WriteCostType, Zenon
  <2>3. ses' = idle \/ ses' = Reserve(idle, cost, items)
    BY <1>9, Zenon DEF UpCommit
  <2>. HIDE DEF idle, cost, items
  <2>4. Untouched(idle, Reserve(idle, cost, items))
    BY <2>1, <2>2, BudgetUntouched, Zenon
  <2>. QED
    BY <2>1, <2>3, <2>4, UntouchedLine, Zenon
<1>10. CASE UpApplied(u)
  <2>. DEFINE r == ReleasePending(ses, ups[u].cost, ups[u].items)
  <2>1. r \in Session /\ Untouched(ses, r)
    BY <1>1, UpFields, ReleasePendingType, BudgetUntouched, Zenon
  <2>2. ses' = [r EXCEPT !.lanes[0].lastUpSequence = ups[u].seq,
                         !.lanes[0].lastUpDigest = ups[u].body]
    BY <1>10, Zenon DEF UpApplied
  <2>. HIDE DEF r
  <2>3. Grown(r, ses', 0, {})
    BY <2>1, <2>2, FlagsGrown, Zenon
  <2>. QED
    BY <2>1, <2>3, UntouchedLine, Zenon
<1>. QED
  BY <1>3, <1>4, <1>5, <1>6, <1>7, <1>8, <1>9, <1>10, Zenon DEF UpStep

LEMMA UpBeginGrown ==
  ASSUME TypeOK, NEW u, NEW q, NEW body, UpBegin(u, q, body)
  PROVE  Grown(ses, ses', 0, {})
<1>1. ses \in Session
  BY DEF TypeOK, BackendTypeOK
<1>2. CASE ses' = ses
  BY <1>1, <1>2, UntouchedGrown, Zenon DEF Untouched
<1>3. CASE ses' = [ses EXCEPT !.lanes[0].upActive = TRUE]
  BY <1>1, <1>3, FlagsGrown, Zenon
<1>. QED
  BY <1>2, <1>3, Zenon DEF UpBegin

-----------------------------------------------------------------------------
(* What polls take from the line.                                          *)

Line(s) == s.lanes[0].unacked \o s.lanes[0].frames

CursorsKept(s, t) ==
  /\ t.lanes[0].unackedBase = s.lanes[0].unackedBase
  /\ t.lanes[0].downCursor = s.lanes[0].downCursor

LEMMA BatchSplits ==
  ASSUME NEW q \in Seq(QueuedFrame), NEW k \in 1 .. Len(q)
  PROVE  SubSeq(q, 1, k) \o AfterBatch(q, k) = q
<1>1. Len(q) \in Nat /\ 1 \in 1 .. Len(q) + 1 /\ k \in 1 - 1 .. Len(q) /\ Len(q) \in k .. Len(q)
  OBVIOUS
<1>2. SubSeq(q, 1, k) \o SubSeq(q, k + 1, Len(q)) = SubSeq(q, 1, Len(q))
  BY <1>1, ConcatAdjacentSubSeq, Zenon
<1>. QED
  BY <1>2, SubSeqFull, Zenon DEF AfterBatch

(* The owner of the downlink moves the front of the queue into its batch.  *)
LEMMA TakeOrParkLine ==
  ASSUME NEW s \in Session, NEW ps, NEW p, s.lanes[0].unacked = <<>>, TakeOrPark(s, ps, p)
  PROVE  Line(ses') = s.lanes[0].frames
<1>. DEFINE lane == s.lanes[0]
<1>1. lane \in Lane /\ s.lanes \in [LaneIds -> Lane] /\ 0 \in LaneIds
      /\ lane.frames \in Seq(QueuedFrame)
  BY SessionFields, LaneZero, LaneFields
<1>2. CASE lane.frames = <<>>
  <2>1. ses' = s
    BY <1>2, Zenon DEF TakeOrPark
  <2>2. <<>> \o lane.frames = lane.frames
    BY <1>1, ConcatEmptySeq, Zenon
  <2>. QED
    BY <2>1, <2>2, Zenon DEF Line
<1>3. CASE lane.frames # <<>>
  <2>1. PICK k \in 1 .. Len(lane.frames) : ses' = TakenBy(s, ps[p].cursor, k)
    BY <1>3, Zenon DEF TakeOrPark
  <2>. DEFINE new == TakeBatch(lane, k, ps[p].cursor)
              f == AfterBatch(lane.frames, k)
              b == SubSeq(lane.frames, 1, k)
  <2>2. new.frames = f /\ new.unacked = b
    <3>. DEFINE w == WindowsAfterTake(lane, k)
                c == Total(Costs(b))
    <3>1. new = [lane EXCEPT !.frames = f, !.windows = w, !.unackedBase = ps[p].cursor,
                             !.downCursor = @ + 1, !.unacked = b, !.unackedCost = c,
                             !.unackedItems = k, !.owner = NoPoller]
      BY Zenon DEF TakeBatch
    <3>. HIDE DEF lane, w, f, b, c, new
    <3>. QED
      BY <1>1, <3>1 DEF Lane
  <2>. HIDE DEF new
  <2>3. ses'.lanes[0] = new
    <3>1. ses' = [s EXCEPT !.lanes[0] = new]
      BY <1>1, <2>1 DEF TakenBy, new, Session
    <3>. QED
      BY <1>1, <3>1 DEF Session
  <2>4. b \o f = lane.frames
    BY <1>1, BatchSplits, Zenon
  <2>. HIDE DEF b, f
  <2>. QED
    BY <2>2, <2>3, <2>4, Zenon DEF Line
<1>. QED
  BY <1>2, <1>3

(* What the owner that looks at the queue does: it parks, or it is         *)
(* answered with the batch it takes, which starts at its cursor.           *)
Parks(s, ps, p) == ses' = s /\ polls' = [ps EXCEPT ![p].pc = "parked"]

Takes(s, ps, p) ==
  /\ lane0'.unacked # <<>>
  /\ lane0'.unackedBase = ps[p].cursor
  /\ lane0'.downCursor = s.lanes[0].downCursor + 1
  /\ polls' = DeliverTo(ps, ses', p)

LEMMA TakeOrParkAnswer ==
  ASSUME NEW s \in Session, NEW ps, NEW p, TakeOrPark(s, ps, p)
  PROVE  Parks(s, ps, p) \/ Takes(s, ps, p)
<1>. DEFINE lane == s.lanes[0]
<1>1. lane \in Lane /\ s.lanes \in [LaneIds -> Lane] /\ 0 \in LaneIds
      /\ lane.frames \in Seq(QueuedFrame)
  BY SessionFields, LaneZero, LaneFields
<1>2. CASE lane.frames = <<>>
  BY <1>2, Zenon DEF TakeOrPark, Parks
<1>3. CASE lane.frames # <<>>
  <2>1. PICK k \in 1 .. Len(lane.frames) :
          ses' = TakenBy(s, ps[p].cursor, k) /\ polls' = DeliverTo(ps, ses', p)
    BY <1>3, Zenon DEF TakeOrPark
  <2>. DEFINE new == TakeBatch(lane, k, ps[p].cursor)
              f == AfterBatch(lane.frames, k)
              b == SubSeq(lane.frames, 1, k)
  <2>2. /\ new.unacked = b /\ new.unackedBase = ps[p].cursor
        /\ new.downCursor = lane.downCursor + 1
    <3>. DEFINE w == WindowsAfterTake(lane, k)
                c == Total(Costs(b))
    <3>1. new = [lane EXCEPT !.frames = f, !.windows = w, !.unackedBase = ps[p].cursor,
                             !.downCursor = @ + 1, !.unacked = b, !.unackedCost = c,
                             !.unackedItems = k, !.owner = NoPoller]
      BY Zenon DEF TakeBatch
    <3>. HIDE DEF lane, w, f, b, c, new
    <3>. QED
      BY <1>1, <3>1 DEF Lane
  <2>3. b # <<>>
    BY <1>1
  <2>. HIDE DEF new, b
  <2>4. ses'.lanes[0] = new
    <3>1. ses' = [s EXCEPT !.lanes[0] = new]
      BY <1>1, <2>1 DEF TakenBy, new, Session
    <3>. QED
      BY <1>1, <3>1 DEF Session
  <2>. QED
    BY <2>1, <2>2, <2>3, <2>4, Zenon DEF Takes, lane0
<1>. QED
  BY <1>2, <1>3

(* The poll that looks is answered with the batch that is out then; the    *)
(* others are answered nothing.                                            *)
LEMMA TakeOrParkAnswers ==
  ASSUME NEW s \in Session, NEW p \in Pollers, NEW ps \in [Pollers -> PollState],
         \A q \in Pollers \ {p} : ps[q].pc = "batch" => polls[q].pc = "batch",
         TakeOrPark(s, ps, p)
  PROVE  \A q \in Pollers : AnswersBatch(q)
<1>. SUFFICES ASSUME NEW q \in Pollers PROVE AnswersBatch(q)
  OBVIOUS
<1>1. Parks(s, ps, p) \/ Takes(s, ps, p)
  BY TakeOrParkAnswer, Zenon
<1>2. CASE q # p
  <2>1. polls'[q] = ps[q]
    BY <1>1, <1>2 DEF Parks, Takes, DeliverTo
  <2>. QED
    BY <1>2, <2>1, Zenon DEF AnswersBatch
<1>3. CASE q = p /\ Parks(s, ps, p)
  <2>1. polls'[p] = [ps[p] EXCEPT !.pc = "parked"]
    BY <1>3 DEF Parks
  <2>2. polls'[p].pc # "batch"
    BY <2>1 DEF PollState
  <2>. QED
    BY <1>3, <2>2, Zenon DEF AnswersBatch
<1>4. CASE q = p /\ Takes(s, ps, p)
  <2>1. polls'[p] = [NoPoll EXCEPT !.pc = "batch", !.body = ses'.lanes[0].unacked,
                                   !.next = ses'.lanes[0].downCursor]
    BY <1>4 DEF Takes, DeliverTo
  <2>2. polls'[p].body = ses'.lanes[0].unacked /\ polls'[p].next = ses'.lanes[0].downCursor
    BY <2>1 DEF NoPoll
  <2>. QED
    BY <1>4, <2>2, Zenon DEF AnswersBatch, Takes, lane0
<1>. QED
  BY <1>1, <1>2, <1>3, <1>4

LEMMA PollFlagsGrown ==
  ASSUME NEW s \in Session
  PROVE  /\ \A x : Grown(s, [s EXCEPT !.lanes[0].owner = x], 0, {})
         /\ \A x : Grown(s, [s EXCEPT !.lanes[0].notify = x], 0, {})
<1>1. s.lanes \in [LaneIds -> Lane] /\ s.lanes[0] \in Lane /\ 0 \in LaneIds
  BY SessionFields, LaneZero
<1>2. ASSUME NEW t, NEW x,
             \/ t = [s EXCEPT !.lanes[0].owner = x]
             \/ t = [s EXCEPT !.lanes[0].notify = x]
      PROVE  Grown(s, t, 0, {})
  <2>1. t.lanes[0].unacked = s.lanes[0].unacked /\ t.lanes[0].frames = s.lanes[0].frames
    <3>1. CASE t = [s EXCEPT !.lanes[0].owner = x]
      BY <1>1, <3>1 DEF Session, Lane
    <3>2. CASE t = [s EXCEPT !.lanes[0].notify = x]
      BY <1>1, <3>2 DEF Session, Lane
    <3>. QED
      BY <1>2, <3>1, <3>2
  <2>. QED
    BY <2>1, SameLineGrown, Zenon
<1>3. ASSUME NEW x, NEW t, t = [s EXCEPT !.lanes[0].owner = x] PROVE Grown(s, t, 0, {})
  BY <1>2, <1>3, Zenon
<1>4. ASSUME NEW x, NEW t, t = [s EXCEPT !.lanes[0].notify = x] PROVE Grown(s, t, 0, {})
  BY <1>2, <1>4, Zenon
<1>. QED
  BY <1>3, <1>4

LEMMA PollFlagsCursors ==
  ASSUME NEW s \in Session, NEW x, NEW t,
         \/ t = [s EXCEPT !.lanes[0].owner = x]
         \/ t = [s EXCEPT !.lanes[0].notify = x]
  PROVE  CursorsKept(s, t)
<1>1. s.lanes \in [LaneIds -> Lane] /\ s.lanes[0] \in Lane /\ 0 \in LaneIds
  BY SessionFields, LaneZero
<1>2. CASE t = [s EXCEPT !.lanes[0].owner = x]
  BY <1>1, <1>2 DEF CursorsKept, Session, Lane
<1>3. CASE t = [s EXCEPT !.lanes[0].notify = x]
  BY <1>1, <1>3 DEF CursorsKept, Session, Lane
<1>. QED
  BY <1>2, <1>3

(* The batch that the queue's owner takes starts at the session's cursor.  *)
NextBatch ==
  lane0'.unacked # <<>> => /\ lane0'.unackedBase = lane0.downCursor
                           /\ lane0'.downCursor = lane0.downCursor + 1

LEMMA PollLine ==
  ASSUME PollInv, NEW p \in Pollers, PollStep(p) \/ PollCancelled(p)
  PROVE  \/ Grown(ses, ses', 0, {}) /\ CursorsKept(ses, ses')
         \/ lane0.unacked = <<>> /\ Line(ses') = lane0.frames /\ NextBatch
<1>. DEFINE Goal == \/ Grown(ses, ses', 0, {}) /\ CursorsKept(ses, ses')
                    \/ lane0.unacked = <<>> /\ Line(ses') = lane0.frames /\ NextBatch
<1>1. ses \in Session /\ ses.lanes[0].present
      /\ (lane0.owner = p => lane0.unacked = <<>> /\ polls[p].cursor = lane0.downCursor)
  BY Waiting, Zenon DEF PollInv, lane0
<1>2. CASE ses' = ses
  BY <1>1, <1>2, UntouchedGrown, Zenon DEF Untouched, CursorsKept
<1>3. CASE \/ ses' = [ses EXCEPT !.lanes[0].owner = NoPoller]
           \/ ses' = [ses EXCEPT !.lanes[0].notify = FALSE]
           \/ ses' = [ses EXCEPT !.lanes[0].notify = TRUE]
  <2>1. Grown(ses, ses', 0, {})
    BY <1>1, <1>3, PollFlagsGrown, Zenon
  <2>2. CursorsKept(ses, ses')
    BY <1>1, <1>3, PollFlagsCursors, Zenon
  <2>. QED
    BY <2>1, <2>2, Zenon
<1>4. CASE ses' = CloseSession(ses)
  BY <1>1, <1>4, CloseSessionGrown, CloseSessionKept, Zenon DEF Kept, DownKept, CursorsKept
<1>5. CASE lane0.owner = p /\ TakeOrPark(ses, polls, p)
  <2>1. lane0.unacked = <<>> /\ Line(ses') = lane0.frames
    BY <1>1, <1>5, TakeOrParkLine, Zenon DEF lane0
  <2>2. CASE Parks(ses, polls, p)
    BY <1>2, <2>2, Zenon DEF Parks
  <2>3. CASE Takes(ses, polls, p)
    BY <1>1, <1>5, <2>1, <2>3, Zenon DEF Takes, NextBatch, lane0
  <2>. QED
    BY <1>1, <1>5, <2>2, <2>3, TakeOrParkAnswer, Zenon
<1>. HIDE DEF Goal
<1>6. CASE PollWakes(p)
  BY <1>3, <1>6, Zenon DEF PollWakes
<1>7. CASE PollResumes(p)
  BY <1>3, <1>5, <1>7, Zenon DEF PollResumes, Signalled
<1>8. CASE PollSuperseded(p)
  BY <1>3, <1>8, Zenon DEF PollSuperseded, Signalled
<1>9. CASE PollCancelled(p)
  BY <1>2, <1>3, <1>9, Zenon DEF PollCancelled, Disown
<1>10. CASE PollExpires(p)
  BY <1>2, <1>3, <1>5, <1>10, Zenon DEF PollExpires, Disown, Signalled
<1>11. CASE PollCloses(p)
  BY <1>4, <1>11, Zenon DEF PollCloses
<1>12. CASE PollReturns(p)
  BY <1>2, <1>12, Zenon DEF PollReturns
<1>. QED
  BY <1>6, <1>7, <1>8, <1>9, <1>10, <1>11, <1>12, Zenon DEF PollStep

(* A poll that ends otherwise, or goes on, is answered no batch.           *)
LEMMA QuietAnswers ==
  ASSUME polls \in [Pollers -> PollState], NEW p, NEW r,
         polls' = [polls EXCEPT ![p] = r], r.pc # "batch"
  PROVE  \A q \in Pollers : AnswersBatch(q)
<1>. SUFFICES ASSUME NEW q \in Pollers PROVE AnswersBatch(q)
  OBVIOUS
<1>1. polls'[q] = polls[q] \/ polls'[q] = r
  OBVIOUS
<1>. QED
  BY <1>1, Zenon DEF AnswersBatch

LEMMA EndsQuiet ==
  ASSUME polls \in [Pollers -> PollState], NEW p, NEW pc, pc # "batch", PollEnds(p, pc)
  PROVE  \A q \in Pollers : AnswersBatch(q)
<1>1. ASSUME NEW r, r = [NoPoll EXCEPT !.pc = pc] PROVE r.pc # "batch"
  BY <1>1 DEF NoPoll
<1>. QED
  BY <1>1, QuietAnswers, Zenon DEF PollEnds

LEMMA GoesQuiet ==
  ASSUME polls \in [Pollers -> PollState], NEW p \in Pollers, NEW pc, pc # "batch",
         PollGoes(p, pc)
  PROVE  \A q \in Pollers : AnswersBatch(q)
<1>. DEFINE r == [polls[p] EXCEPT !.pc = pc]
<1>1. polls' = [polls EXCEPT ![p] = r] /\ r.pc # "batch"
  BY DEF PollGoes, PollState
<1>. HIDE DEF r
<1>. QED
  BY <1>1, QuietAnswers, Zenon

LEMMA PollAnswers ==
  ASSUME PollInv, NEW p \in Pollers, PollStep(p) \/ PollCancelled(p)
  PROVE  \A q \in Pollers : AnswersBatch(q)
<1>1. ses \in Session /\ polls \in [Pollers -> PollState]
  BY Waiting
<1>2. CASE TakeOrPark(ses, polls, p)
  BY <1>1, <1>2, TakeOrParkAnswers, Zenon
<1>3. CASE PollEnds(p, "empty") \/ PollEnds(p, "failed")
  BY <1>1, <1>3, EndsQuiet, Zenon
<1>4. CASE PollGoes(p, "woken") \/ PollGoes(p, "failed")
  BY <1>1, <1>4, GoesQuiet, Zenon
<1>5. CASE polls' = [polls EXCEPT ![p] = NoPoll]
  <2>1. NoPoll.pc # "batch"
    BY DEF NoPoll
  <2>. QED
    BY <1>1, <1>5, <2>1, QuietAnswers, Zenon
<1>. QED
  BY <1>2, <1>3, <1>4, <1>5, Zenon DEF PollStep, PollWakes, PollResumes, PollSuperseded,
     PollExpires, PollCloses, PollReturns, PollCancelled

(* A new poll's acknowledgement drops the batch it covers.                 *)
LEMMA AckLine ==
  ASSUME NEW s \in Session, NEW x
  PROVE  LET t == [AckUnacked(s, 0) EXCEPT !.lanes[0].owner = x]
         IN  /\ t.lanes[0].unacked = <<>> /\ t.lanes[0].frames = s.lanes[0].frames
             /\ t.lanes[0].downCursor = s.lanes[0].downCursor
<1>. DEFINE lane == s.lanes[0]
            r == ReleasePending(s, lane.unackedCost, lane.unackedItems)
            new == [lane EXCEPT !.unacked = <<>>, !.unackedCost = 0, !.unackedItems = 0]
            a == AckUnacked(s, 0)
            t == [a EXCEPT !.lanes[0].owner = x]
<1>1. lane \in Lane /\ lane.unackedCost \in Int /\ lane.unackedItems \in Int /\ 0 \in LaneIds
  BY SessionFields, LaneFields, LaneZero
<1>2. r \in Session
  BY <1>1, ReleasePendingType, Zenon
<1>3. r.lanes \in [LaneIds -> Lane] /\ a \in Session
  BY <1>1, <1>2, SessionFields, AckUnackedType
<1>4. a = [r EXCEPT !.lanes[0] = new]
  BY Zenon DEF AckUnacked
<1>5. new.frames = lane.frames /\ new.unacked = <<>> /\ new.downCursor = lane.downCursor
  BY <1>1 DEF Lane
<1>. HIDE DEF r, new, a
<1>6. a.lanes[0] = new
  BY <1>1, <1>2, <1>3, <1>4 DEF Session
<1>7. a.lanes \in [LaneIds -> Lane]
  BY <1>3, SessionFields
<1>8. a.lanes[0] \in Lane
  BY <1>1, <1>7
<1>9. /\ t.lanes[0].unacked = a.lanes[0].unacked /\ t.lanes[0].frames = a.lanes[0].frames
      /\ t.lanes[0].downCursor = a.lanes[0].downCursor
  BY <1>1, <1>3, <1>7, <1>8 DEF Session, Lane
<1>. QED
  BY <1>5, <1>6, <1>9, Zenon DEF a

LEMMA PollBeginLine ==
  ASSUME PollInv, NEW p \in Pollers, NEW cursor, PollBegin(p, cursor)
  PROVE  /\ \/ Grown(ses, ses', 0, {}) /\ CursorsKept(ses, ses')
            \/ Line(ses') = lane0.frames /\ NextBatch /\ Acknowledges(p)
         /\ \A q \in Pollers : AnswersBatch(q)
<1>. DEFINE Goal1 == \/ Grown(ses, ses', 0, {}) /\ CursorsKept(ses, ses')
                     \/ Line(ses') = lane0.frames /\ NextBatch /\ Acknowledges(p)
            Goal2 == \A q \in Pollers : AnswersBatch(q)
<1>1. ses \in Session /\ polls \in [Pollers -> PollState] /\ polls[p].pc = "idle"
  BY Waiting, Zenon DEF PollBegin
<1>2. ASSUME UNCHANGED ses PROVE Goal1
  BY <1>1, <1>2, UntouchedGrown, Zenon DEF Untouched, CursorsKept
<1>3. CASE IsAck(ses, cursor)
           /\ TakeOrPark([AckUnacked(ses, 0) EXCEPT !.lanes[0].owner = p],
                         Supersede(polls, p, cursor), p)
  <2>. DEFINE acked == AckUnacked(ses, 0)
              s == [acked EXCEPT !.lanes[0].owner = p]
              ps == Supersede(polls, p, cursor)
  <2>1. acked \in Session
    BY <1>1, LaneZero, AckUnackedType, Zenon
  <2>2. s \in Session
    <3>. HIDE DEF acked
    <3>1. p \in Pollers \cup {NoPoller}
      OBVIOUS
    <3>. QED
      BY <2>1, <3>1, LaneUpdates, Zenon
  <2>3. /\ s.lanes[0].unacked = <<>> /\ s.lanes[0].frames = lane0.frames
        /\ s.lanes[0].downCursor = lane0.downCursor
    BY <1>1, AckLine, Zenon DEF lane0
  <2>4. cursor = lane0.downCursor /\ cursor \in Nat
    <3>1. lane0 \in Lane
      BY <1>1, SessionFields, LaneZero DEF lane0
    <3>. QED
      BY <1>3, <3>1 DEF IsAck, Lane, lane0
  <2>5. ps \in [Pollers -> PollState]
    BY <1>1, <2>4, SupersedeType, Zenon
  <2>6. /\ ps[p].cursor = cursor
        /\ \A q \in Pollers \ {p} : ps[q].pc = "batch" => polls[q].pc = "batch"
    <3>1. ps[p] = [NoPoll EXCEPT !.cursor = cursor]
      BY DEF Supersede
    <3>2. ASSUME NEW q \in Pollers \ {p} PROVE ps[q].pc = polls[q].pc
      BY <1>1, <3>2 DEF Supersede, PollState
    <3>. QED
      BY <3>1, <3>2 DEF NoPoll
  <2>7. TakeOrPark(s, ps, p)
    BY <1>3, Zenon
  <2>. HIDE DEF s, ps
  <2>8. Line(ses') = lane0.frames
    BY <2>2, <2>3, <2>7, TakeOrParkLine, Zenon
  <2>9. Goal2
    BY <2>2, <2>5, <2>6, <2>7, TakeOrParkAnswers, Zenon
  <2>10. CASE Parks(s, ps, p)
    <3>1. polls'[p].pc = "parked" /\ polls'[p].cursor = cursor
      BY <2>5, <2>6, <2>10 DEF Parks, PollState
    <3>2. Acknowledges(p)
      BY <1>1, <2>4, <3>1, Zenon DEF Acknowledges
    <3>3. NextBatch
      BY <2>3, <2>10, Zenon DEF Parks, NextBatch, lane0
    <3>. QED
      BY <2>8, <2>9, <3>2, <3>3, Zenon
  <2>11. CASE Takes(s, ps, p)
    <3>1. polls'[p].pc = "batch"
      BY <2>5, <2>11 DEF Takes, DeliverTo, NoPoll
    <3>2. lane0'.unackedBase = lane0.downCursor
      BY <2>4, <2>6, <2>11, Zenon DEF Takes
    <3>3. NextBatch
      BY <2>3, <2>11, <3>2, Zenon DEF Takes, NextBatch
    <3>4. Acknowledges(p)
      BY <1>1, <3>1, <3>2, Zenon DEF Acknowledges
    <3>. QED
      BY <2>8, <2>9, <3>3, <3>4, Zenon
  <2>. QED
    BY <2>2, <2>7, <2>10, <2>11, TakeOrParkAnswer, Zenon
<1>4. CASE UNCHANGED ses /\ (PollEnds(p, "failed") \/ PollEnds(p, "failing"))
  <2>1. Goal2
    BY <1>1, <1>4, EndsQuiet, Zenon
  <2>. QED
    BY <1>2, <1>4, <2>1, Zenon
<1>5. CASE UNCHANGED ses /\ IsResend(ses, cursor) /\ polls' = DeliverTo(polls, ses, p)
  <2>1. ASSUME NEW q \in Pollers, q # p PROVE AnswersBatch(q)
    <3>1. polls'[q] = polls[q]
      BY <1>1, <1>5, <2>1 DEF DeliverTo
    <3>. QED
      BY <3>1, Zenon DEF AnswersBatch
  <2>2. AnswersBatch(p)
    <3>1. polls'[p] = [NoPoll EXCEPT !.pc = "batch", !.body = ses.lanes[0].unacked,
                                     !.next = ses.lanes[0].downCursor]
      BY <1>1, <1>5 DEF DeliverTo
    <3>2. polls'[p].body = ses.lanes[0].unacked /\ polls'[p].next = ses.lanes[0].downCursor
      BY <3>1 DEF NoPoll
    <3>. QED
      BY <1>5, <3>2, Zenon DEF AnswersBatch, IsResend, lane0
  <2>. QED
    BY <1>2, <1>5, <2>1, <2>2, Zenon
<1>. QED
  BY <1>3, <1>4, <1>5, Zenon DEF PollBegin

-----------------------------------------------------------------------------
LEMMA GrownOrder ==
  ASSUME NEW id, NEW types, Grown(ses, ses', id, types), CursorsKept(ses, ses'),
         \A p \in Pollers : AnswersBatch(p)
  PROVE  DownlinkStep
BY Zenon DEF Grown, GrewBy, CursorsKept, DownlinkStep, KeepsBatch, lane0

(* Without a poll nobody is answered.                                      *)
LEMMA NobodyAnswered ==
  ASSUME UNCHANGED polls
  PROVE  \A p \in Pollers : AnswersBatch(p)
BY Zenon DEF AnswersBatch

LEMMA OthersOrder ==
  ASSUME NEW id, NEW types, Grown(ses, ses', id, types), DownKept(ses, ses'),
         UNCHANGED polls
  PROVE  DownlinkStep
<1>1. CursorsKept(ses, ses')
  BY Zenon DEF DownKept, CursorsKept
<1>. QED
  BY <1>1, NobodyAnswered, GrownOrder, Zenon

LEMMA DownlinkOrderStep ==
  ASSUME PollInv, [Next]_vars
  PROVE  DownlinkStep
<1>1. TypeOK /\ lane0.present /\ ses \in Session /\ ses.lanes[0].present
  BY Zenon DEF PollInv, TypeOK, BackendTypeOK, lane0
<1>2. ASSUME NEW u \in Uppers, UpStep(u) PROVE DownlinkStep
  <2>1. UNCHANGED polls
    BY <1>2, Zenon DEF UpStep, UpCommit, ApplyNothing, ApplyToNoStream, ApplyOpen, RejectOpen,
         ApplyData, ApplyWindow, ApplyClose, UpApplied, UpLaunch, UpCloses, UpReturns
  <2>2. DownKept(ses, ses')
    BY <1>1, <1>2, UpQuietKept, UpCommitKept, UpAppliedKept, Zenon DEF Kept
  <2>. QED
    BY <1>1, <1>2, <2>1, <2>2, UpGrown, RejectOpenGrown, OthersOrder, Zenon
<1>3. ASSUME NEW u \in Uppers, NEW q, NEW body, UpBegin(u, q, body) PROVE DownlinkStep
  <2>1. UNCHANGED polls
    BY <1>3, Zenon DEF UpBegin
  <2>. QED
    BY <1>1, <1>3, <2>1, UpBeginGrown, UpBeginKept, OthersOrder, Zenon
<1>4. ASSUME NEW id \in StreamIds, BackendNext(id) PROVE DownlinkStep
  <2>1. UNCHANGED polls /\ DownKept(ses, ses')
    BY <1>1, <1>4, BackendKept, Zenon DEF BackendNext, Kept
  <2>. QED
    BY <1>1, <1>4, <2>1, BackendGrown, OthersOrder, Zenon DEF BackendNext, BackendLine
<1>5. ASSUME NEW p \in Pollers, PollStep(p) \/ PollCancelled(p) PROVE DownlinkStep
  <2>1. \A q \in Pollers : AnswersBatch(q)
    BY <1>5, PollAnswers, Zenon
  <2>2. CASE Grown(ses, ses', 0, {}) /\ CursorsKept(ses, ses')
    BY <2>1, <2>2, GrownOrder, Zenon
  <2>3. CASE lane0.unacked = <<>> /\ Line(ses') = lane0.frames /\ NextBatch
    BY <2>1, <2>3, Zenon DEF DownlinkStep, MovesUp, NextBatch, Line, lane0
  <2>. QED
    BY <1>5, <2>2, <2>3, PollLine, Zenon
<1>6. ASSUME NEW p \in Pollers, NEW cursor, PollBegin(p, cursor) PROVE DownlinkStep
  <2>1. \A q \in Pollers : AnswersBatch(q)
    BY <1>6, PollBeginLine, Zenon
  <2>2. CASE Grown(ses, ses', 0, {}) /\ CursorsKept(ses, ses')
    BY <2>1, <2>2, GrownOrder, Zenon
  <2>3. CASE Line(ses') = lane0.frames /\ NextBatch /\ Acknowledges(p)
    BY <2>1, <2>3, Zenon DEF DownlinkStep, MovesUp, NextBatch, Line, lane0
  <2>. QED
    BY <1>6, <2>2, <2>3, PollBeginLine, Zenon
<1>7. CASE Close
  <2>1. UNCHANGED polls /\ DownKept(ses, ses')
    BY <1>1, <1>7, CloseSessionKept, Zenon DEF Close, Kept
  <2>. QED
    BY <1>1, <1>7, <2>1, CloseSessionGrown, OthersOrder, Zenon DEF Close
<1>8. CASE UNCHANGED vars
  <2>1. UNCHANGED <<ses, polls>>
    BY <1>8, Zenon DEF vars
  <2>2. DownKept(ses, ses') /\ Grown(ses, ses', 0, {})
    BY <1>1, <2>1, UntouchedKept, UntouchedGrown, Zenon DEF Untouched, Kept
  <2>. QED
    BY <2>1, <2>2, OthersOrder, Zenon
<1>. QED
  BY <1>2, <1>3, <1>4, <1>5, <1>6, <1>7, <1>8, Zenon DEF Next, System, Environment

(* The client receives the frames of the downlink in the order in which    *)
(* they were queued and misses none, whatever polls time out, are resent   *)
(* or supersede each other: the batch that is out stays the answer to its  *)
(* cursor until a poll brings the next cursor, which only those answers    *)
(* carry, or the session closes; and the front of the queue follows it.    *)
THEOREM DownlinkInOrderHolds == Spec => DownlinkInOrder
<1>1. PollInv /\ [Next]_vars => [DownlinkStep]_vars
  BY DownlinkOrderStep
<1>. QED
  BY <1>1, PollInvariant, PTL DEF Spec, DownlinkInOrder

-----------------------------------------------------------------------------
(* Nothing follows a CLOSE.                                                *)

(* A stream with a frame in the line had a backend or was turned down; it  *)
(* is not opened again, so nothing of it can follow its CLOSE.             *)
LineKnown == \A k \in 1 .. Len(Line(ses)) : backends[Line(ses)[k].id].run # "none"

LineInv == CloseIsLast /\ LineKnown

LEMMA LineFields ==
  ASSUME NEW s \in Session
  PROVE  Line(s) \in Seq(QueuedFrame)
BY QueueFields, ConcatProperties, Zenon DEF Line

LEMMA ConcatGrew ==
  ASSUME NEW u \in Seq(QueuedFrame), NEW old \in Seq(QueuedFrame), NEW new \in Seq(QueuedFrame),
         NEW id, NEW types, GrewBy(old, new, id, types)
  PROVE  GrewBy(u \o old, u \o new, id, types)
<1>. DEFINE l == u \o old
            m == u \o new
<1>1. /\ Len(l) = Len(u) + Len(old)
      /\ \A i \in 1 .. Len(u) + Len(old) : l[i] = IF i <= Len(u) THEN u[i] ELSE old[i - Len(u)]
  BY ConcatProperties, Zenon
<1>2. /\ Len(m) = Len(u) + Len(new)
      /\ \A i \in 1 .. Len(u) + Len(new) : m[i] = IF i <= Len(u) THEN u[i] ELSE new[i - Len(u)]
  BY ConcatProperties, Zenon
<1>3. Len(u) \in Nat /\ Len(old) \in Nat /\ Len(new) \in Nat
  OBVIOUS
<1>4. \A i \in 1 .. Len(u) : u[i].n >= u[i].n
  <2>1. \A i \in 1 .. Len(u) : u[i] \in QueuedFrame
    OBVIOUS
  <2>2. \A i \in 1 .. Len(u) : u[i].n \in Nat
    BY <2>1 DEF QueuedFrame
  <2>. QED
    BY <2>2
<1>. HIDE DEF l, m
<1>5. /\ Len(new) >= Len(old)
      /\ \A k \in 1 .. Len(old) :
           new[k].type = old[k].type /\ new[k].id = old[k].id /\ new[k].n >= old[k].n
  BY Zenon DEF GrewBy, Extends
<1>6. ASSUME NEW k \in 1 .. Len(l)
      PROVE  m[k].type = l[k].type /\ m[k].id = l[k].id /\ m[k].n >= l[k].n
  <2>1. CASE k <= Len(u)
    <3>1. k \in 1 .. Len(u) /\ m[k] = u[k] /\ l[k] = u[k]
      BY <1>1, <1>2, <1>3, <1>5, <2>1
    <3>. QED
      BY <1>4, <3>1, Zenon
  <2>2. CASE ~(k <= Len(u))
    <3>1. k - Len(u) \in 1 .. Len(old) /\ m[k] = new[k - Len(u)] /\ l[k] = old[k - Len(u)]
      BY <1>1, <1>2, <1>3, <1>5, <2>2
    <3>. QED
      BY <1>5, <3>1, Zenon
  <2>. QED
    BY <2>1, <2>2
<1>7. Len(m) >= Len(l)
  BY <1>1, <1>2, <1>3, <1>5
<1>8. CASE Len(new) = Len(old)
  BY <1>1, <1>2, <1>6, <1>7, <1>8, Zenon DEF GrewBy, Extends, l, m
<1>9. CASE Len(new) = Len(old) + 1 /\ new[Len(new)].id = id /\ new[Len(new)].type \in types
  <2>1. Len(m) = Len(l) + 1 /\ m[Len(m)] = new[Len(new)]
    BY <1>1, <1>2, <1>3, <1>9
  <2>. QED
    BY <1>6, <1>7, <1>9, <2>1, Zenon DEF GrewBy, Extends, l, m
<1>. QED
  BY <1>8, <1>9, Zenon DEF GrewBy

LEMMA LineGrew ==
  ASSUME NEW s \in Session, NEW t \in Session, NEW id, NEW types, Grown(s, t, id, types)
  PROVE  Line(t) = <<>> \/ GrewBy(Line(s), Line(t), id, types)
<1>1. CASE t.lanes[0].unacked = <<>> /\ t.lanes[0].frames = <<>>
  BY <1>1, ConcatEmptySeq, EmptySeq DEF Line
<1>2. CASE /\ t.lanes[0].unacked = s.lanes[0].unacked
           /\ GrewBy(s.lanes[0].frames, t.lanes[0].frames, id, types)
  <2>. DEFINE u == s.lanes[0].unacked
              old == s.lanes[0].frames
              new == t.lanes[0].frames
  <2>1. u \in Seq(QueuedFrame) /\ old \in Seq(QueuedFrame) /\ new \in Seq(QueuedFrame)
    BY QueueFields, Zenon
  <2>. HIDE DEF u, old, new
  <2>2. GrewBy(old, new, id, types)
    BY <1>2 DEF u, old, new
  <2>3. GrewBy(u \o old, u \o new, id, types)
    BY <2>1, <2>2, ConcatGrew, Zenon
  <2>. QED
    BY <1>2, <2>3, Zenon DEF Line, u, old, new
<1>. QED
  BY <1>1, <1>2, Zenon DEF Grown

(* Streams that were used are not opened again.                            *)
NoneReopened ==
  \A id \in StreamIds : backends[id].run # "none" =>
    /\ backends'[id].run # "none"
    /\ ses'.streams[id].live => ses.streams[id].live

LEMMA LineGrows ==
  ASSUME ses \in Session, ses' \in Session, LineInv, NoneReopened, NEW id, NEW types,
         Grown(ses, ses', id, types),
         types = {} \/ /\ ses.streams[id].live \/ backends[id].run = "none"
                       /\ backends'[id].run # "none"
                       /\ "CLOSE" \in types => ~ses'.streams[id].live
  PROVE  LineInv'
<1>. DEFINE l == Line(ses)
            m == Line(ses')
<1>1. l \in Seq(QueuedFrame) /\ m \in Seq(QueuedFrame)
  BY LineFields, Zenon
<1>2. /\ \A k \in 1 .. Len(l) : l[k] \in QueuedFrame
      /\ \A k \in 1 .. Len(l) : l[k].id \in StreamIds
      /\ Len(l) \in Nat /\ Len(m) \in Nat
  <2>1. \A k \in 1 .. Len(l) : l[k] \in QueuedFrame
    BY <1>1
  <2>. QED
    BY <1>1, <2>1 DEF QueuedFrame
<1>3. /\ \A k \in 1 .. Len(l) : backends[l[k].id].run # "none"
      /\ \A k \in 1 .. Len(l) : l[k].type = "CLOSE" =>
           /\ ~ses.streams[l[k].id].live
           /\ \A j \in k + 1 .. Len(l) : l[j].id # l[k].id
  BY Zenon DEF LineInv, LineKnown, CloseIsLast, Line, lane0, stream
<1>4. SUFFICES /\ \A k \in 1 .. Len(m) : backends'[m[k].id].run # "none"
               /\ \A k \in 1 .. Len(m) : m[k].type = "CLOSE" =>
                    /\ ~ses'.streams[m[k].id].live
                    /\ \A j \in k + 1 .. Len(m) : m[j].id # m[k].id
  BY Zenon DEF LineInv, LineKnown, CloseIsLast, Line, lane0, stream
<1>. HIDE DEF l, m
<1>5. CASE m = <<>>
  <2>1. 1 .. Len(m) = {}
    BY <1>5
  <2>. QED
    BY <2>1, Zenon
<1>6. CASE GrewBy(l, m, id, types)
  <2>1. \A k \in 1 .. Len(l) : m[k].type = l[k].type /\ m[k].id = l[k].id
    BY <1>6, Zenon DEF GrewBy, Extends
  <2>2. ASSUME NEW k \in 1 .. Len(l)
        PROVE  /\ backends'[m[k].id].run # "none"
               /\ m[k].type = "CLOSE" => ~ses'.streams[m[k].id].live
    <3>1. m[k].type = l[k].type /\ m[k].id = l[k].id /\ l[k].id \in StreamIds
      BY <1>2, <2>1, Zenon
    <3>2. /\ backends[l[k].id].run # "none"
          /\ l[k].type = "CLOSE" => ~ses.streams[l[k].id].live
      BY <1>3, Zenon
    <3>3. /\ backends'[l[k].id].run # "none"
          /\ ses'.streams[l[k].id].live => ses.streams[l[k].id].live
      BY <3>1, <3>2, Zenon DEF NoneReopened
    <3>. QED
      BY <3>1, <3>2, <3>3
  <2>3. ASSUME NEW k \in 1 .. Len(l), m[k].type = "CLOSE", NEW j \in k + 1 .. Len(l)
        PROVE  m[j].id # m[k].id
    <3>1. j \in 1 .. Len(l)
      BY <1>2, <2>3
    <3>2. l[j].id # l[k].id
      BY <1>3, <2>1, <2>3, Zenon
    <3>. QED
      BY <2>1, <3>1, <3>2, Zenon
  <2>4. CASE Len(m) = Len(l)
    BY <2>2, <2>3, <2>4, Zenon
  <2>5. CASE Len(m) = Len(l) + 1 /\ m[Len(m)].id = id /\ m[Len(m)].type \in types
    <3>1. /\ ses.streams[id].live \/ backends[id].run = "none"
          /\ backends'[id].run # "none"
          /\ "CLOSE" \in types => ~ses'.streams[id].live
      BY <2>5, Zenon
    <3>2. /\ backends'[m[Len(m)].id].run # "none"
          /\ m[Len(m)].type = "CLOSE" => ~ses'.streams[m[Len(m)].id].live
      BY <2>5, <3>1, Zenon
    <3>3. ASSUME NEW k \in 1 .. Len(l), m[k].type = "CLOSE" PROVE m[Len(m)].id # m[k].id
      BY <1>3, <2>1, <2>5, <3>1, <3>3, ZenonT(60)
    <3>4. \A k \in 1 .. Len(m) : k \in 1 .. Len(l) \/ k = Len(m)
      BY <1>2, <2>5
    <3>5. \A k \in 1 .. Len(m) : /\ backends'[m[k].id].run # "none"
                                 /\ m[k].type = "CLOSE" => ~ses'.streams[m[k].id].live
      BY <2>2, <3>2, <3>4, Zenon
    <3>6. ASSUME NEW k \in 1 .. Len(m), m[k].type = "CLOSE", NEW j \in k + 1 .. Len(m)
          PROVE  m[j].id # m[k].id
      <4>1. k \in 1 .. Len(l) /\ (j \in k + 1 .. Len(l) \/ j = Len(m))
        BY <1>2, <2>5, <3>6
      <4>. QED
        BY <2>3, <3>3, <3>6, <4>1, Zenon
    <3>. QED
      BY <3>5, <3>6, Zenon
  <2>. QED
    BY <1>6, <2>4, <2>5, Zenon DEF GrewBy
<1>. QED
  BY <1>5, <1>6, LineGrew, Zenon DEF l, m

LEMMA LineDrops ==
  ASSUME ses \in Session, LineInv, NoneReopened, Line(ses') = lane0.frames
  PROVE  LineInv'
<1>. DEFINE l == Line(ses)
            m == Line(ses')
            d == Len(lane0.unacked)
<1>1. /\ lane0.unacked \in Seq(QueuedFrame) /\ m \in Seq(QueuedFrame)
      /\ l = lane0.unacked \o m /\ l \in Seq(QueuedFrame)
  BY QueueFields, LineFields, Zenon DEF Line, lane0
<1>2. /\ d \in Nat /\ Len(m) \in Nat /\ Len(l) = d + Len(m)
      /\ \A k \in 1 .. Len(m) : k + d \in 1 .. Len(l) /\ m[k] = l[k + d]
  <2>. HIDE DEF l, m
  <2>1. /\ Len(l) = d + Len(m)
        /\ \A i \in 1 .. d + Len(m) : l[i] = IF i <= d THEN lane0.unacked[i] ELSE m[i - d]
    BY <1>1, ConcatProperties, Zenon
  <2>2. d \in Nat /\ Len(m) \in Nat
    BY <1>1
  <2>. HIDE DEF d
  <2>. QED
    BY <2>1, <2>2
<1>3. /\ \A k \in 1 .. Len(l) : backends[l[k].id].run # "none"
      /\ \A k \in 1 .. Len(l) : l[k].type = "CLOSE" =>
           /\ ~ses.streams[l[k].id].live
           /\ \A j \in k + 1 .. Len(l) : l[j].id # l[k].id
  BY Zenon DEF LineInv, LineKnown, CloseIsLast, Line, lane0, stream
<1>4. SUFFICES /\ \A k \in 1 .. Len(m) : backends'[m[k].id].run # "none"
               /\ \A k \in 1 .. Len(m) : m[k].type = "CLOSE" =>
                    /\ ~ses'.streams[m[k].id].live
                    /\ \A j \in k + 1 .. Len(m) : m[j].id # m[k].id
  BY Zenon DEF LineInv, LineKnown, CloseIsLast, Line, lane0, stream
<1>. HIDE DEF l, m, d
<1>5. \A k \in 1 .. Len(m) : m[k].id \in StreamIds
  <2>1. \A k \in 1 .. Len(m) : m[k] \in QueuedFrame
    BY <1>1
  <2>. QED
    BY <2>1 DEF QueuedFrame
<1>6. ASSUME NEW k \in 1 .. Len(m)
      PROVE  /\ backends'[m[k].id].run # "none"
             /\ m[k].type = "CLOSE" => ~ses'.streams[m[k].id].live
  <2>1. k + d \in 1 .. Len(l) /\ m[k] = l[k + d] /\ m[k].id \in StreamIds
    BY <1>2, <1>5, <1>6, Zenon
  <2>2. /\ backends[m[k].id].run # "none"
        /\ m[k].type = "CLOSE" => ~ses.streams[m[k].id].live
    BY <1>3, <2>1, Zenon
  <2>. QED
    BY <2>1, <2>2, Zenon DEF NoneReopened
<1>7. ASSUME NEW k \in 1 .. Len(m), m[k].type = "CLOSE", NEW j \in k + 1 .. Len(m)
      PROVE  m[j].id # m[k].id
  <2>1. j \in 1 .. Len(m) /\ j + d \in k + d + 1 .. Len(l)
    BY <1>2, <1>7
  <2>2. l[j + d].id # l[k + d].id
    BY <1>2, <1>3, <1>7, <2>1, Zenon
  <2>. QED
    BY <1>2, <2>1, <2>2, Zenon
<1>. QED
  BY <1>6, <1>7, Zenon

-----------------------------------------------------------------------------
(* A step opens no stream that was used.                                   *)

LEMMA FlowNoneReopened ==
  ASSUME NEW ids, FlowKept(ses, ses', ids),
         \A id \in StreamIds : backends[id].run # "none" => backends'[id].run # "none"
  PROVE  NoneReopened
BY Zenon DEF FlowKept, NoneReopened

LEMMA UpNoneReopened ==
  ASSUME TypeOK, UplinkInv, TombInv, LockInv, FreshInv, NEW u \in Uppers, UpStep(u)
  PROVE  NoneReopened
<1>1. /\ ses \in Session /\ backends \in [StreamIds -> BackendState]
      /\ UpsTypeOK /\ ups[u] \in UpState
  BY Zenon DEF TypeOK, BackendTypeOK, UpsTypeOK
<1>2. CASE ApplyOpen(u)
  <2>. DEFINE id == Current(u).id
  <2>1. id \in StreamIds /\ backends[id].run = "none"
    BY <1>1, <1>2, CurrentOpen, Zenon DEF ApplyOpen
  <2>2. \A x \in StreamIds \ {id} : ses'.streams[x] = ses.streams[x]
    BY <1>2, ApplyOpenFlow, Zenon
  <2>3. backends' = [backends EXCEPT ![id] = [NoBackend EXCEPT !.run = "opened"]]
    BY <1>2, Zenon DEF ApplyOpen
  <2>4. \A x \in StreamIds \ {id} : backends'[x] = backends[x]
    BY <1>1, <2>3, Zenon
  <2>. QED
    BY <2>1, <2>2, <2>4, Zenon DEF NoneReopened
<1>3. CASE RejectOpen(u)
  <2>. DEFINE id == Current(u).id
  <2>1. id \in StreamIds /\ \A x \in StreamIds : ses'.streams[x].live = ses.streams[x].live
    BY <1>1, <1>3, CurrentStream, RejectOpenLives, Zenon DEF SameLives
  <2>2. backends' = [backends EXCEPT ![id].run = "done"]
    BY <1>3, Zenon DEF RejectOpen
  <2>3. \A x \in StreamIds : backends[x].run # "none" => backends'[x].run # "none"
    BY <1>1, <2>1, <2>2 DEF BackendState
  <2>. QED
    BY <2>1, <2>3, Zenon DEF NoneReopened
<1>4. CASE ApplyData(u) \/ ApplyClose(u)
  <2>1. backends' = backends
    BY <1>4, Zenon DEF ApplyData, ApplyClose
  <2>. QED
    BY <1>4, <2>1, ApplyFlow, FlowNoneReopened, Zenon
<1>5. CASE ~ApplyOpen(u) /\ ~RejectOpen(u) /\ ~ApplyData(u) /\ ~ApplyClose(u)
  <2>1. FlowKept(ses, ses', {})
    BY <1>5, UpFlow, Zenon
  <2>2. CASE UpLaunch(u)
    <3>1. backends' = [id \in StreamIds |->
                         IF id \in ups[u].toStart
                         THEN [backends[id] EXCEPT !.run = "dialing"]
                         ELSE backends[id]]
      BY <2>2, Zenon DEF UpLaunch
    <3>2. \A id \in StreamIds : [backends[id] EXCEPT !.run = "dialing"].run = "dialing"
      BY <1>1 DEF BackendState
    <3>3. \A id \in StreamIds :
            backends'[id].run = "dialing" \/ backends'[id] = backends[id]
      BY <3>1, <3>2, Zenon
    <3>4. \A id \in StreamIds : backends[id].run # "none" => backends'[id].run # "none"
      BY <3>3
    <3>. QED
      BY <2>1, <3>4, FlowNoneReopened, Zenon
  <2>3. CASE ~UpLaunch(u)
    <3>1. backends' = backends
      BY <1>5, <2>3, Zenon DEF UpStep, UpCommit, ApplyNothing, ApplyToNoStream, ApplyWindow,
                               UpApplied, UpCloses, UpReturns
    <3>. QED
      BY <2>1, <3>1, FlowNoneReopened, Zenon
  <2>. QED
    BY <2>2, <2>3
<1>. QED
  BY <1>2, <1>3, <1>4, <1>5, Zenon

LEMMA LineStep ==
  ASSUME PollInv, TypeOK', UplinkInv, TombInv, LockInv, LifeInv, FreshInv, LineInv, [Next]_vars
  PROVE  LineInv'
<1>1. /\ TypeOK /\ lane0.present /\ ses \in Session /\ ses.lanes[0].present
      /\ ses' \in Session /\ UpsTypeOK
  BY Zenon DEF PollInv, TypeOK, BackendTypeOK, lane0
<1>2. ASSUME NoneReopened, Grown(ses, ses', 0, {}) PROVE LineInv'
  BY <1>1, <1>2, LineGrows, Zenon
<1>3. ASSUME UNCHANGED backends, FlowKept(ses, ses', {}) PROVE NoneReopened
  BY <1>3, FlowNoneReopened, Zenon
<1>4. ASSUME NEW u \in Uppers, UpStep(u) PROVE LineInv'
  <2>1. NoneReopened
    BY <1>1, <1>4, UpNoneReopened, Zenon
  <2>2. CASE RejectOpen(u)
    <3>. DEFINE id == Current(u).id
    <3>1. Grown(ses, ses', id, {"CLOSE"})
      BY <1>1, <2>2, RejectOpenGrown, Zenon
    <3>2. id \in StreamIds /\ backends[id].run = "none" /\ ~ses.streams[id].live
      BY <1>1, <2>2, CurrentOpen, Zenon DEF RejectOpen
    <3>3. ~ses'.streams[id].live
      BY <1>1, <2>2, <3>2, RejectOpenLives, Zenon DEF SameLives
    <3>4. backends'[id].run # "none"
      <4>1. backends' = [backends EXCEPT ![id].run = "done"] /\ backends[id] \in BackendState
            /\ backends \in [StreamIds -> BackendState]
        BY <1>1, <2>2, <3>2, Zenon DEF RejectOpen, TypeOK, BackendTypeOK
      <4>. HIDE DEF id
      <4>. QED
        BY <3>2, <4>1 DEF BackendState
    <3>. HIDE DEF id
    <3>. QED
      BY <1>1, <2>1, <3>1, <3>2, <3>3, <3>4, LineGrows, Zenon
  <2>3. CASE ~RejectOpen(u)
    BY <1>1, <1>2, <1>4, <2>1, <2>3, UpGrown, Zenon
  <2>. QED
    BY <2>2, <2>3
<1>5. ASSUME NEW u \in Uppers, NEW q, NEW body, UpBegin(u, q, body) PROVE LineInv'
  <2>1. UNCHANGED backends /\ (ses' = ses \/ ses' = [ses EXCEPT !.lanes[0].upActive = TRUE])
    BY <1>5, Zenon DEF UpBegin
  <2>2. FlowKept(ses, ses', {})
    BY <1>1, <2>1, LanesFlow, Zenon
  <2>. QED
    BY <1>1, <1>2, <1>3, <1>5, <2>1, <2>2, UpBeginGrown, Zenon
<1>6. ASSUME NEW id \in StreamIds, BackendNext(id) PROVE LineInv'
  <2>1. BackendStep(id)
    BY <1>6, Zenon DEF BackendNext
  <2>2. /\ \A x \in StreamIds : backends[x].run # "none" => backends'[x].run # "none"
    <3>1. \A x \in StreamIds \ {id} : backends'[x] = backends[x]
      BY <1>1, <2>1, BackendRun, Zenon
    <3>2. backends[id].run # "none" => backends'[id].run # "none"
      BY <1>1, <2>1, BackendRun
    <3>. QED
      BY <3>1, <3>2, Zenon
  <2>3. NoneReopened
    BY <1>1, <2>1, <2>2, BackendFlow, FlowNoneReopened, Zenon
  <2>4. ses.streams[id].live => backends[id].run # "none"
    <3>1. ses.streams[id].live => Live(id)
      BY Zenon DEF LockInv, ClosedEnds, Live
    <3>2. Live(id) => backends[id].run \notin {"none", "done"}
      BY Zenon DEF LifeInv, NoOrphanBackend
    <3>. QED
      BY <3>1, <3>2, Zenon
  <2>5. BackendLine(id)
    BY <1>1, <2>1, BackendGrown, Zenon
  <2>6. CASE Grown(ses, ses', id, {})
    BY <1>1, <2>3, <2>6, LineGrows, Zenon
  <2>7. CASE ses.streams[id].live /\ Grown(ses, ses', id, {"DATA", "WINDOW"})
    <3>1. "CLOSE" \notin {"DATA", "WINDOW"}
      OBVIOUS
    <3>. QED
      BY <1>1, <2>2, <2>3, <2>4, <2>7, <3>1, LineGrows, Zenon
  <2>8. CASE /\ ses.streams[id].live /\ ~ses'.streams[id].live
             /\ Grown(ses, ses', id, {"CLOSE"})
    BY <1>1, <2>2, <2>3, <2>4, <2>8, LineGrows, Zenon
  <2>. QED
    BY <2>5, <2>6, <2>7, <2>8, Zenon DEF BackendLine
<1>7. ASSUME NEW p \in Pollers, PollStep(p) \/ PollCancelled(p) PROVE LineInv'
  <2>1. NoneReopened
    <3>1. FlowKept(ses, ses', {})
      BY <1>1, <1>7, PollFlow, Zenon
    <3>2. UNCHANGED backends
      BY <1>7, Zenon DEF PollStep, PollWakes, PollResumes, PollSuperseded, PollExpires,
                         PollCloses, PollReturns, PollCancelled
    <3>. QED
      BY <1>3, <3>1, <3>2, Zenon
  <2>2. CASE Grown(ses, ses', 0, {})
    BY <1>2, <2>1, <2>2, Zenon
  <2>3. CASE Line(ses') = lane0.frames
    BY <1>1, <2>1, <2>3, LineDrops, Zenon
  <2>. QED
    BY <1>7, <2>2, <2>3, PollLine, Zenon
<1>8. ASSUME NEW p \in Pollers, NEW cursor, PollBegin(p, cursor) PROVE LineInv'
  <2>1. NoneReopened
    <3>1. FlowKept(ses, ses', {})
      BY <1>1, <1>8, PollFlow, Zenon
    <3>2. UNCHANGED backends
      BY <1>8, Zenon DEF PollBegin
    <3>. QED
      BY <1>3, <3>1, <3>2, Zenon
  <2>2. CASE Grown(ses, ses', 0, {})
    BY <1>2, <2>1, <2>2, Zenon
  <2>3. CASE Line(ses') = lane0.frames
    BY <1>1, <2>1, <2>3, LineDrops, Zenon
  <2>. QED
    BY <1>8, <2>2, <2>3, PollBeginLine, Zenon
<1>9. CASE Close
  <2>1. UNCHANGED backends /\ ses' = CloseSession(ses)
    BY <1>9, Zenon DEF Close
  <2>. QED
    BY <1>1, <1>2, <1>3, <2>1, CloseSessionFlow, CloseSessionGrown, Zenon
<1>10. CASE UNCHANGED vars
  <2>1. UNCHANGED backends /\ ses' = ses
    BY <1>10, Zenon DEF vars
  <2>2. FlowKept(ses, ses', {}) /\ Untouched(ses, ses')
    BY <1>1, <2>1, LanesFlow, Zenon DEF Untouched
  <2>. QED
    BY <1>1, <1>2, <1>3, <2>1, <2>2, UntouchedGrown, Zenon
<1>. QED
  BY <1>4, <1>5, <1>6, <1>7, <1>8, <1>9, <1>10, Zenon DEF Next, System, Environment

LEMMA LineInit == Init => LineInv
<1>. SUFFICES ASSUME Init PROVE LineInv
  OBVIOUS
<1>1. lane0 = NewLane
  BY LaneZero DEF Init, BackendInit, lane0, NewSession
<1>2. lane0.frames = <<>> /\ lane0.unacked = <<>>
  BY <1>1 DEF NewLane, NoLane
<1>3. Line(ses) = <<>> /\ 1 .. Len(Line(ses)) = {}
  BY <1>2 DEF Line, lane0
<1>4. lane0.unacked \o lane0.frames = Line(ses)
  BY Zenon DEF Line, lane0
<1>. QED
  BY <1>3, <1>4, Zenon DEF LineInv, LineKnown, CloseIsLast

LEMMA LineInvariant == Spec => [](PollInv /\ UplinkInv /\ TombInv /\ LockInv /\ LifeInv
                                  /\ FreshInv /\ LineInv)
<1>1. PollInv /\ TypeOK' /\ UplinkInv /\ TombInv /\ LockInv /\ LifeInv /\ FreshInv /\ LineInv
        /\ [Next]_vars => LineInv'
  BY LineStep
<1>2. PollInv => TypeOK
  BY DEF PollInv
<1>. QED
  BY <1>1, <1>2, SafeInvariant, LifeInvariant, LineInit, PTL DEF Spec

(* The CLOSE of a stream is the last frame of it on the downlink, whether  *)
(* backendClosed queues it or the refusal of an OPEN, whatever the other   *)
(* side of the stream was about to queue and however many tombstones have  *)
(* been forgotten since.                                                   *)
THEOREM CloseIsLastHolds == Spec => []CloseIsLast
<1>1. LineInv => CloseIsLast
  BY DEF LineInv
<1>. QED
  BY <1>1, LineInvariant, PTL

-----------------------------------------------------------------------------
(* The window and the frames a handler has still to apply.                 *)

(* A frame of DATA that will be queued for a backend, not dropped, has     *)
(* room in the window, whatever of its stream comes before it in the body: *)
(* validateBatchLocked has added them up before the first was applied.     *)
Lasts(s, body, k, j) ==
  /\ body[j].type = "DATA" /\ body[j].id # 0
  /\ ~WasClosed(s, body[j].id)
  /\ \A i \in k .. j - 1 : body[i].id = body[j].id => body[i].type # "CLOSE"
  /\ \/ s.streams[body[j].id].live
     \/ \E i \in k .. j - 1 : body[i].id = body[j].id /\ body[i].type = "OPEN"

DataFits(s, body, k) ==
  \A j \in k .. Len(body) :
    Lasts(s, body, k, j) =>
      DataUpTo(body, j, body[j].id) - DataUpTo(body, k - 1, body[j].id)
        <= WindowAtStart(s, body[j].id)

WindowAhead == \A u \in Uppers : ups[u].pc = "applying" => DataFits(ses, ups[u].body, ups[u].k)

LEMMA DataSums ==
  ASSUME NEW body \in Seq(Frame), NEW id
  PROVE  /\ DataUpTo(body, 0, id) = 0
         /\ \A k \in 0 .. Len(body) : DataUpTo(body, k, id) \in Int
         /\ \A k \in 1 .. Len(body) :
              DataUpTo(body, k, id) = DataUpTo(body, k - 1, id)
                + (IF body[k].type = "DATA" /\ body[k].id = id THEN body[k].n ELSE 0)
<1>. DEFINE q == [j \in 1 .. Len(body) |->
                    IF body[j].type = "DATA" /\ body[j].id = id THEN body[j].n ELSE 0]
<1>1. \A j \in 1 .. Len(body) : body[j] \in Frame
  OBVIOUS
<1>2. q \in Seq(Int) /\ Len(q) = Len(body) /\ Len(q) \in Nat
  BY <1>1 DEF Frame
<1>3. \A k \in 1 .. Len(body) :
        q[k] = IF body[k].type = "DATA" /\ body[k].id = id THEN body[k].n ELSE 0
  OBVIOUS
<1>4. \A k : DataUpTo(body, k, id) = PrefixSums(q)[k]
  BY Zenon DEF DataUpTo
<1>. HIDE DEF q
<1>5. \A k \in 0 .. Len(q) : PrefixSums(q)[k] \in Int
  BY <1>2, PrefixSumsType, Zenon
<1>6. /\ PrefixSums(q)[0] = 0
      /\ \A k \in 1 .. Len(q) : PrefixSums(q)[k] = PrefixSums(q)[k - 1] + q[k]
  BY <1>2, PrefixSumsStep, Zenon
<1>. QED
  BY <1>2, <1>3, <1>4, <1>5, <1>6, ZenonT(60)

(* A body that is admitted fits the windows it is validated against.       *)
LEMMA ValidDataFits ==
  ASSUME NEW s, NEW body \in Seq(Frame), ValidBatch(s, body), WellFormedBody(body),
         \A id \in StreamIds : WindowAtStart(s, id) \in Int
  PROVE  DataFits(s, body, 1)
<1>. SUFFICES ASSUME NEW j \in 1 .. Len(body), Lasts(s, body, 1, j)
              PROVE  DataUpTo(body, j, body[j].id) - DataUpTo(body, 1 - 1, body[j].id)
                       <= WindowAtStart(s, body[j].id)
  BY Zenon DEF DataFits
<1>1. ValidFrame(s, body, j)
  BY DEF ValidBatch
<1>2. ~ClosedBefore(s, body, j)
  BY Zenon DEF Lasts, ClosedBefore
<1>3. body[j].type = "DATA" /\ body[j].id # 0
  BY DEF Lasts
<1>4. DataUpTo(body, j, body[j].id) <= WindowAtStart(s, body[j].id)
  BY <1>1, <1>2, <1>3 DEF ValidFrame
<1>5. body[j] \in Frame /\ 1 - 1 = 0
  OBVIOUS
<1>6. body[j].id \in StreamIds
  BY <1>3, <1>5 DEF Frame
<1>7. DataUpTo(body, 0, body[j].id) = 0 /\ DataUpTo(body, j, body[j].id) \in Int
  <2>1. j \in 0 .. Len(body)
    OBVIOUS
  <2>. QED
    BY <2>1, DataSums, Zenon
<1>. QED
  BY <1>4, <1>5, <1>6, <1>7

(* What leaves the windows, the live streams and the tombstones alone.     *)
LEMMA SameDataFits ==
  ASSUME NEW s, NEW t, NEW body \in Seq(Frame), NEW k, DataFits(s, body, k), SameOrder(s, t),
         k \in Nat, k >= 1,
         \A id \in StreamIds : SameFlow(s.streams[id], t.streams[id])
  PROVE  DataFits(t, body, k)
<1>. SUFFICES ASSUME NEW j \in k .. Len(body), Lasts(t, body, k, j)
              PROVE  DataUpTo(body, j, body[j].id) - DataUpTo(body, k - 1, body[j].id)
                       <= WindowAtStart(t, body[j].id)
  BY Zenon DEF DataFits
<1>1. body[j].id # 0 /\ body[j] \in Frame
  BY DEF Lasts
<1>2. body[j].id \in StreamIds
  BY <1>1 DEF Frame
<1>3. SameFlow(s.streams[body[j].id], t.streams[body[j].id])
  BY <1>2, Zenon
<1>4. Lasts(s, body, k, j)
  BY <1>3, SameOrderRemembers, Zenon DEF Lasts, SameFlow
<1>5. WindowAtStart(t, body[j].id) = WindowAtStart(s, body[j].id)
  BY <1>3, Zenon DEF WindowAtStart, SameFlow
<1>. QED
  BY <1>4, <1>5, Zenon DEF DataFits

(* What an applied frame does to its own stream: it ends it or finds it    *)
(* ended, opens it, takes the payload from its window, or leaves the       *)
(* window alone.                                                           *)
Applied(s, t, f) ==
  \/ WasClosed(t, f.id)
  \/ f.type = "OPEN" /\ t.streams[f.id] = OpenedStream
  \/ /\ f.type \in {"DATA", "WINDOW"}
     /\ s.streams[f.id].live /\ t.streams[f.id].live
     /\ ~WasClosed(s, f.id)
     /\ t.streams[f.id].receiveWindow =
          s.streams[f.id].receiveWindow - (IF f.type = "DATA" THEN f.n ELSE 0)

LEMMA NextDataFits ==
  ASSUME NEW s \in Session, NEW t, NEW body \in Seq(Frame), NEW k \in Nat, k >= 1,
         k <= Len(body), DataFits(s, body, k), OpensAhead(s, body, k), Tombs(s),
         \A id \in StreamIds \ {body[k].id} :
           /\ t.streams[id].live = s.streams[id].live
           /\ t.streams[id].receiveWindow = s.streams[id].receiveWindow,
         body[k].id # 0 => Applied(s, t, body[k])
  PROVE  DataFits(t, body, k + 1)
<1>. DEFINE f == body[k]
<1>. SUFFICES ASSUME NEW j \in k + 1 .. Len(body), Lasts(t, body, k + 1, j)
              PROVE  DataUpTo(body, j, body[j].id) - DataUpTo(body, (k + 1) - 1, body[j].id)
                       <= WindowAtStart(t, body[j].id)
  BY Zenon DEF DataFits
<1>. DEFINE id == body[j].id
<1>1. /\ j \in Int /\ j \in k .. Len(body) /\ k \in k .. Len(body) /\ k \in 1 .. Len(body)
      /\ k - 1 \in 0 .. Len(body) /\ k \in 0 .. Len(body) /\ j \in 0 .. Len(body)
      /\ (k + 1) - 1 = k /\ \A i : i \in k .. j - 1 <=> i = k \/ i \in k + 1 .. j - 1
  OBVIOUS
<1>2. body[j] \in Frame /\ body[k] \in Frame
  BY <1>1
<1>3. /\ id # 0 /\ body[j].type = "DATA" /\ ~WasClosed(t, id)
      /\ \A i \in k + 1 .. j - 1 : body[i].id = id => body[i].type # "CLOSE"
      /\ \/ t.streams[id].live
         \/ \E i \in k + 1 .. j - 1 : body[i].id = id /\ body[i].type = "OPEN"
  BY Zenon DEF Lasts
<1>4. id \in StreamIds
  BY <1>2, <1>3 DEF Frame
<1>5. /\ DataUpTo(body, k, id) = DataUpTo(body, k - 1, id)
           + (IF body[k].type = "DATA" /\ body[k].id = id THEN body[k].n ELSE 0)
      /\ DataUpTo(body, k, id) \in Int /\ DataUpTo(body, k - 1, id) \in Int
      /\ DataUpTo(body, j, id) \in Int
  BY <1>1, DataSums, Zenon
<1>6. s.streams[id] \in Stream /\ s.streams[id].receiveWindow \in Int
  BY <1>4, SessionFields, StreamFields
<1>. HIDE DEF id
<1>7. CASE body[k].id # id
  <2>1. /\ t.streams[id].live = s.streams[id].live
        /\ t.streams[id].receiveWindow = s.streams[id].receiveWindow
    BY <1>4, <1>7
  <2>2. ~WasClosed(s, id)
    <3>. SUFFICES ASSUME WasClosed(s, id) PROVE FALSE
      OBVIOUS
    <3>1. ~s.streams[id].live
      BY Zenon DEF WasClosed, Tombs
    <3>2. PICK i \in k + 1 .. j - 1 : body[i].id = id /\ body[i].type = "OPEN"
      BY <1>3, <2>1, <3>1, Zenon
    <3>3. i \in k .. Len(body)
      BY <3>2
    <3>. QED
      BY <3>2, <3>3, Zenon DEF OpensAhead
  <2>3. Lasts(s, body, k, j)
    BY <1>1, <1>3, <1>7, <2>1, <2>2, Zenon DEF Lasts, id
  <2>4. WindowAtStart(t, id) = WindowAtStart(s, id)
    BY <2>1, Zenon DEF WindowAtStart
  <2>5. DataUpTo(body, j, id) - DataUpTo(body, k - 1, id) <= WindowAtStart(s, id)
    BY <1>1, <2>3, Zenon DEF DataFits, id
  <2>6. DataUpTo(body, k, id) = DataUpTo(body, k - 1, id)
    BY <1>5, <1>7
  <2>. QED
    BY <1>1, <2>4, <2>5, <2>6 DEF id
<1>8. CASE body[k].id = id
  <2>1. Applied(s, t, body[k]) /\ ~WasClosed(t, body[k].id)
    BY <1>3, <1>8
  <2>2. CASE body[k].type = "OPEN" /\ t.streams[id] = OpenedStream
    <3>1. ~WasClosed(s, id) /\ ~s.streams[id].live
      BY <1>1, <1>8, <2>2, Zenon DEF OpensAhead
    <3>2. body[k].type # "CLOSE" /\ body[k].type # "DATA"
      BY <2>2
    <3>3. Lasts(s, body, k, j)
      BY <1>1, <1>3, <1>8, <2>2, <3>1, <3>2, Zenon DEF Lasts, id
    <3>4. DataUpTo(body, j, id) - DataUpTo(body, k - 1, id) <= WindowAtStart(s, id)
      BY <1>1, <3>3, Zenon DEF DataFits, id
    <3>5. WindowAtStart(s, id) = InitialStreamWindow
      BY <3>1, Zenon DEF WindowAtStart
    <3>6. t.streams[id].live /\ t.streams[id].receiveWindow = InitialStreamWindow
      BY <2>2 DEF OpenedStream, NoStream
    <3>7. WindowAtStart(t, id) = InitialStreamWindow
      BY <3>6, Zenon DEF WindowAtStart
    <3>8. DataUpTo(body, k, id) = DataUpTo(body, k - 1, id)
      BY <1>5, <3>2
    <3>. QED
      BY <1>1, <3>4, <3>5, <3>7, <3>8 DEF id
  <2>3. CASE /\ body[k].type \in {"DATA", "WINDOW"}
             /\ s.streams[id].live /\ t.streams[id].live /\ ~WasClosed(s, id)
             /\ t.streams[id].receiveWindow =
                  s.streams[id].receiveWindow - (IF body[k].type = "DATA" THEN body[k].n ELSE 0)
    <3>1. body[k].type # "CLOSE" /\ body[k].n \in Int
      BY <1>2, <2>3 DEF Frame
    <3>2. Lasts(s, body, k, j)
      BY <1>1, <1>3, <2>3, <3>1, Zenon DEF Lasts, id
    <3>3. DataUpTo(body, j, id) - DataUpTo(body, k - 1, id) <= WindowAtStart(s, id)
      BY <1>1, <3>2, Zenon DEF DataFits, id
    <3>4. /\ WindowAtStart(s, id) = s.streams[id].receiveWindow
          /\ WindowAtStart(t, id) = t.streams[id].receiveWindow
      BY <2>3, Zenon DEF WindowAtStart
    <3>. DEFINE n == IF body[k].type = "DATA" THEN body[k].n ELSE 0
    <3>5. n \in Int
      BY <3>1
    <3>6. DataUpTo(body, k, id) = DataUpTo(body, k - 1, id) + n
      BY <1>5, <1>8
    <3>7. WindowAtStart(t, id) = WindowAtStart(s, id) - n /\ WindowAtStart(s, id) \in Int
      BY <1>6, <2>3, <3>4
    <3>8. DataUpTo(body, j, id) \in Int /\ DataUpTo(body, k - 1, id) \in Int
      BY <1>5
    <3>. HIDE DEF n
    <3>9. DataUpTo(body, j, id) - DataUpTo(body, k, id) <= WindowAtStart(t, id)
      BY <3>3, <3>5, <3>6, <3>7, <3>8
    <3>10. (k + 1) - 1 = k
      BY <1>1
    <3>. QED
      BY <3>9, <3>10, Zenon DEF id
  <2>. QED
    BY <1>8, <2>1, <2>2, <2>3, Zenon DEF Applied
<1>. QED
  BY <1>7, <1>8

-----------------------------------------------------------------------------
(* The accounts of one stream and its write loop.                          *)

WriteHeld(b) == IF b.writer = "write" THEN b.inHand ELSE 0

WritesHeld(b) == IF b.writer \in {"write", "finish"} THEN 1 ELSE 0

Conserved(x, b) ==
  x.live =>
    /\ x.receiveWindow + x.pendingWriteBytes = InitialStreamWindow
    /\ x.pendingWriteCost = x.pendingWriteBytes + QueueItemCost * x.pendingWriteItems
    /\ b.writer # "exit" =>
         /\ x.pendingWriteBytes = Total(x.writes) + WriteHeld(b)
         /\ x.pendingWriteItems = Len(x.writes) + WritesHeld(b)

AllConserved == \A id \in StreamIds : Conserved(ses.streams[id], backends[id])

LEMMA ConservedWindows == AllConserved <=> WindowConserved
BY Zenon DEF AllConserved, WindowConserved, Conserved, LiveStreams, stream, InHand,
             WritesInHand, WriteHeld, WritesHeld

(* The write loop ends, holds what it has held, or still holds nothing.    *)
LoopKept(b, c) ==
  \/ c.writer = "exit"
  \/ c.writer = b.writer /\ c.inHand = b.inHand
  \/ b.writer \in {"off", "next", "wait"} /\ c.writer \in {"off", "next", "wait"}

LEMMA KeptConserved ==
  ASSUME NEW x, NEW y, NEW b, NEW c, Conserved(x, b), SameFlow(x, y) \/ ~y.live, LoopKept(b, c)
  PROVE  Conserved(y, c)
<1>1. CASE ~y.live
  BY <1>1 DEF Conserved
<1>2. CASE SameFlow(x, y) /\ c.writer = "exit"
  BY <1>2, Zenon DEF Conserved, SameFlow
<1>3. CASE SameFlow(x, y) /\ c.writer # "exit"
  <2>1. b.writer # "exit" /\ WriteHeld(c) = WriteHeld(b) /\ WritesHeld(c) = WritesHeld(b)
    BY <1>3 DEF LoopKept, WriteHeld, WritesHeld
  <2>. QED
    BY <1>3, <2>1, Zenon DEF Conserved, SameFlow
<1>. QED
  BY <1>1, <1>2, <1>3

LEMMA FlowConserved ==
  ASSUME NEW s, NEW t, NEW ids, FlowKept(s, t, ids), NEW id \in StreamIds \ ids
  PROVE  SameFlow(s.streams[id], t.streams[id]) \/ ~t.streams[id].live
BY DEF FlowKept

(* A queue is worth its first write and the rest.                          *)
LEMMA TotalTail ==
  ASSUME NEW q \in Seq(Nat), q # <<>>
  PROVE  Total(q) = Head(q) + Total(Tail(q)) /\ Len(q) = Len(Tail(q)) + 1
         /\ Total(Tail(q)) \in Int
<1>1. /\ q \in Seq(Int) /\ Tail(q) \in Seq(Int) /\ <<Head(q)>> \in Seq(Int) /\ Head(q) \in Int
      /\ Len(q) = 1 + Len(Tail(q)) /\ Len(<<Head(q)>>) = 1 /\ Len(Tail(q)) \in Nat
      /\ \A k \in 1 .. 1 : q[k] = <<Head(q)>>[k]
      /\ \A k \in 1 .. Len(Tail(q)) : q[1 + k] = Tail(q)[k]
  OBVIOUS
<1>. DEFINE a == <<Head(q)>>
            b == Tail(q)
<1>2. /\ Len(q) = Len(a) + Len(b)
      /\ \A k \in 1 .. Len(a) : q[k] = a[k]
      /\ \A k \in 1 .. Len(b) : q[Len(a) + k] = b[k]
      /\ a \in Seq(Int) /\ b \in Seq(Int)
  BY <1>1
<1>3. Total(a) = Head(q)
  BY <1>1, TotalOne, Zenon
<1>4. Total(b) \in Int
  BY <1>1, TotalType, Zenon
<1>. HIDE DEF a, b
<1>5. Total(q) = Total(a) + Total(b)
  BY <1>1, <1>2, TotalParts, Zenon
<1>. QED
  BY <1>1, <1>3, <1>4, <1>5 DEF b

(* What a payload adds to a write queue.                                   *)
LEMMA WritesWithTotal ==
  ASSUME NEW x \in Stream, NEW n \in Nat
  PROVE  /\ Total(WritesWith(x, n)) = Total(x.writes) + n
         /\ Len(WritesWith(x, n)) = Len(x.writes) + (IF Coalesces(x, n) THEN 0 ELSE 1)
         /\ Total(x.writes) \in Int /\ Len(x.writes) \in Int
<1>1. x.writes \in Seq(Nat) /\ x.writes \in Seq(Int) /\ Len(x.writes) \in Nat /\ n \in Int
  BY StreamFields
<1>2. Total(x.writes) \in Int
  BY <1>1, TotalType, Zenon
<1>3. CASE Coalesces(x, n)
  <2>. DEFINE q == x.writes
              i == Len(q)
              r == [q EXCEPT ![i] = q[i] + n]
  <2>1. WritesWith(x, n) = r
    BY <1>3 DEF WritesWith
  <2>2. i \in 1 .. Len(q) /\ q[i] \in Int
    BY <1>1, <1>3 DEF Coalesces
  <2>3. r \in Seq(Int) /\ Len(r) = Len(q) /\ r[i] = q[i] + n
        /\ \A k \in 1 .. Len(q) : k # i => r[k] = q[k]
    BY <1>1, <2>2
  <2>4. Total(r) = Total(q) + (r[i] - q[i])
    <3>. HIDE DEF r, i
    <3>. QED
      BY <1>1, <2>2, <2>3, TotalChanged, Zenon
  <2>. HIDE DEF r
  <2>. QED
    BY <1>1, <1>2, <1>3, <2>1, <2>2, <2>3, <2>4
<1>4. CASE ~Coalesces(x, n)
  <2>1. WritesWith(x, n) = Append(x.writes, n)
    BY <1>4 DEF WritesWith
  <2>2. Total(Append(x.writes, n)) = Total(x.writes) + n
    BY <1>1, TotalAppend, Zenon
  <2>. QED
    BY <1>1, <1>2, <1>4, <2>1, <2>2
<1>. QED
  BY <1>3, <1>4

(* The stream after what a write has delivered is drained or a write is    *)
(* finished.                                                               *)
LEMMA DrainStream ==
  ASSUME NEW s \in Session, NEW id \in StreamIds
  PROVE  /\ \A k \in Int :
              Drain(s, id, k).streams[id] =
                [s.streams[id] EXCEPT !.pendingWriteBytes = @ - k, !.pendingWriteCost = @ - k,
                                      !.receiveWindow = @ + k]
         /\ FinishWrite(s, id).streams[id] =
              [s.streams[id] EXCEPT !.pendingWriteItems = @ - 1,
                                    !.pendingWriteCost = @ - QueueItemCost]
<1>1. /\ FinishWrite(s, id).streams[id] = AfterFinish(s.streams[id])
      /\ \A k \in Int : Drain(s, id, k).streams[id] = AfterDrain(s.streams[id], k)
  BY AccountsChanged
<1>. QED
  BY <1>1, Zenon DEF AfterDrain, AfterFinish

(* A stream from which k bytes have been drained.                          *)
DrainedBy(x, y, k) ==
  /\ y.live = x.live
  /\ y.receiveWindow = x.receiveWindow + k
  /\ y.pendingWriteBytes = x.pendingWriteBytes - k
  /\ y.pendingWriteCost = x.pendingWriteCost - k
  /\ y.pendingWriteItems = x.pendingWriteItems
  /\ y.writes = x.writes

LEMMA AfterWriteStream ==
  ASSUME NEW s \in Session, NEW id \in StreamIds, NEW k \in Nat, NEW pool
  PROVE  LET x == s.streams[id]
             y == AfterWrite(s, id, k, pool).streams[id]
         IN  /\ y = x \/ DrainedBy(x, y, k)
             /\ Drained(s, id, k, pool) => DrainedBy(x, y, k)
<1>. DEFINE x == s.streams[id]
            t == Drain(s, id, k)
            y == AfterWrite(s, id, k, pool).streams[id]
<1>1. x \in Stream /\ k \in Int
  BY SessionFields
<1>2. t.streams[id] = [x EXCEPT !.pendingWriteBytes = @ - k, !.pendingWriteCost = @ - k,
                                !.receiveWindow = @ + k]
  <2>1. \A n \in Int :
          Drain(s, id, n).streams[id] =
            [s.streams[id] EXCEPT !.pendingWriteBytes = @ - n, !.pendingWriteCost = @ - n,
                                  !.receiveWindow = @ + n]
    BY DrainStream, Zenon
  <2>. QED
    BY <1>1, <2>1
<1>3. DrainedBy(x, t.streams[id], k)
  <2>. HIDE DEF t, x
  <2>. QED
    BY <1>1, <1>2 DEF Stream, DrainedBy
<1>4. \A f : QueueFrame(t, f).streams = t.streams \/ ~CanDrain(s, id, k)
  <2>1. CanDrain(s, id, k) => t \in Session
    BY DrainType, Zenon
  <2>. HIDE DEF t
  <2>. QED
    BY <2>1 DEF QueueFrame, Session
<1>5. CASE ~CanDrain(s, id, k)
  BY <1>5, Zenon DEF AfterWrite, Drained
<1>6. CASE CanDrain(s, id, k)
  <2>1. y = t.streams[id]
    BY <1>4, <1>6, Zenon DEF AfterWrite
  <2>. QED
    BY <1>3, <2>1, Zenon
<1>. QED
  BY <1>5, <1>6

-----------------------------------------------------------------------------
(* The steps of backends, for the accounts.                                *)

(* The write loop of a backend that does not stream yet has not started.   *)
WriterOff ==
  \A id \in StreamIds : backends[id].run \in {"opened", "dialing"} => backends[id].writer = "off"

LEMMA BackendLoop ==
  ASSUME TypeOK, WriterOff, NEW id \in StreamIds, BackendStep(id), ~Accountable(id)
  PROVE  /\ LoopKept(backends[id], backends'[id])
         /\ \/ backends'[id].writer = backends[id].writer
            \/ Dialled(id) \/ WriterWakes(id) \/ WriterStops(id)
<1>1. backends \in [StreamIds -> BackendState] /\ backends[id] \in BackendState
  BY DEF TypeOK, BackendTypeOK
<1>. DEFINE b == backends[id]
            Same(new) == new[id].writer = b.writer /\ new[id].inHand = b.inHand
<1>2. CASE Dialled(id)
  <2>1. b.writer = "off"
    BY <1>2 DEF WriterOff, Dialled
  <2>2. backends'[id].writer = "next"
    BY <1>1, <1>2 DEF Dialled, BackendState
  <2>. QED
    BY <1>2, <2>1, <2>2 DEF LoopKept
<1>3. CASE WriterWakes(id)
  <2>1. b.writer = "wait" /\ backends'[id].writer = "next"
    BY <1>1, <1>3 DEF WriterWakes, BackendState
  <2>. QED
    BY <1>3, <2>1 DEF LoopKept
<1>4. CASE WriterStops(id)
  <2>1. backends'[id].writer = "exit"
    BY <1>1, <1>4 DEF WriterStops, WriterExits, BackendState
  <2>. QED
    BY <1>4, <2>1 DEF LoopKept
<1>5. \A run : Same([backends EXCEPT ![id].run = run])
  BY <1>1 DEF BackendState
<1>6. \A r : Same([backends EXCEPT ![id].reader = r])
  BY <1>1 DEF BackendState
<1>7. \A r, n : Same([backends EXCEPT ![id].reader = r, ![id].allowance = n])
  BY <1>1 DEF BackendState
<1>8. \A r, n, m :
        Same([backends EXCEPT ![id].reader = r, ![id].allowance = n, ![id].refused = m])
  BY <1>1 DEF BackendState
<1>. HIDE DEF Same
<1>9. CASE DialFailed(id) \/ LoopsReturned(id) \/ NextRead(id) \/ CreditWakesReader(id)
           \/ BudgetWakesReader(id) \/ ReaderStops(id) \/ Read(id) \/ ReadEnds(id)
  <2>1. ASSUME NextRead(id)
       PROVE  Same(backends')
    <3>1. CASE \E r : backends' = [backends EXCEPT ![id].reader = r]
      <4>1. PICK r : backends' = [backends EXCEPT ![id].reader = r]
        BY <3>1
      <4>. QED
        BY <4>1, <1>6, Zenon
    <3>2. CASE \E r, n : backends' = [backends EXCEPT ![id].reader = r, ![id].allowance = n]
      <4>1. PICK r, n : backends' = [backends EXCEPT ![id].reader = r, ![id].allowance = n]
        BY <3>2
      <4>. QED
        BY <4>1, <1>7, Zenon
    <3>3. CASE \E r, n, m : backends' = [backends EXCEPT ![id].reader = r, ![id].allowance = n,
                                                       ![id].refused = m]
      <4>1. PICK r, n, m : backends' = [backends EXCEPT ![id].reader = r, ![id].allowance = n,
                                                       ![id].refused = m]
        BY <3>3
      <4>. QED
        BY <4>1, <1>8, Zenon
    <3>. QED
      BY <3>1, <3>2, <3>3, <2>1 DEF NextRead, ReaderExits
  <2>2. ASSUME Read(id)
       PROVE  Same(backends')
    <3>1. CASE \E r : backends' = [backends EXCEPT ![id].reader = r]
      <4>1. PICK r : backends' = [backends EXCEPT ![id].reader = r]
        BY <3>1
      <4>. QED
        BY <4>1, <1>6, Zenon
    <3>2. CASE \E r, n : backends' = [backends EXCEPT ![id].reader = r, ![id].allowance = n]
      <4>1. PICK r, n : backends' = [backends EXCEPT ![id].reader = r, ![id].allowance = n]
        BY <3>2
      <4>. QED
        BY <4>1, <1>7, Zenon
    <3>3. CASE \E r, n, m : backends' = [backends EXCEPT ![id].reader = r, ![id].allowance = n,
                                                       ![id].refused = m]
      <4>1. PICK r, n, m : backends' = [backends EXCEPT ![id].reader = r, ![id].allowance = n,
                                                       ![id].refused = m]
        BY <3>3
      <4>. QED
        BY <4>1, <1>8, Zenon
    <3>. QED
      BY <3>1, <3>2, <3>3, <2>2 DEF Read, ReaderExits
  <2>3. ASSUME DialFailed(id)
       PROVE  Same(backends')
    BY <1>5, <2>3, Zenon DEF DialFailed
  <2>4. ASSUME LoopsReturned(id)
       PROVE  Same(backends')
    BY <1>5, <2>4, Zenon DEF LoopsReturned
  <2>5. ASSUME CreditWakesReader(id)
       PROVE  Same(backends')
    BY <1>6, <1>7, <1>8, <2>5, Zenon DEF CreditWakesReader, ReaderExits
  <2>6. ASSUME BudgetWakesReader(id)
       PROVE  Same(backends')
    BY <1>6, <1>7, <1>8, <2>6, Zenon DEF BudgetWakesReader, ReaderExits
  <2>7. ASSUME ReaderStops(id)
       PROVE  Same(backends')
    BY <1>6, <1>7, <1>8, <2>7, Zenon DEF ReaderStops, ReaderExits
  <2>8. ASSUME ReadEnds(id)
       PROVE  Same(backends')
    BY <1>6, <1>7, <1>8, <2>8, Zenon DEF ReadEnds, ReaderExits
  <2>9. Same(backends')
    BY <1>9, <2>1, <2>2, <2>3, <2>4, <2>5, <2>6, <2>7, <2>8
  <2>. QED
    BY <2>9 DEF Same, LoopKept
<1>. QED
  BY <1>2, <1>3, <1>4, <1>9, Zenon DEF BackendStep, Accountable

LEMMA BackendWriterOff ==
  ASSUME TypeOK, WriterOff, NEW id \in StreamIds, BackendStep(id)
  PROVE  WriterOff'
<1>1. \A other \in StreamIds \ {id} : backends'[other] = backends[other]
  BY BackendRun, Zenon
<1>2. ASSUME backends'[id].run \in {"opened", "dialing"} PROVE backends'[id].writer = "off"
  <2>1. backends[id].run \in {"opened", "dialing"}
    BY <1>2, BackendRun
  <2>2. backends[id].writer = "off"
    BY <2>1 DEF WriterOff
  <2>3. ~Accountable(id)
    BY <2>1, <2>2 DEF Accountable, NextWrite, Write, WriteFails, WriteFinished, BackendClosed
  <2>4. \/ backends'[id].writer = backends[id].writer
        \/ Dialled(id) \/ WriterWakes(id) \/ WriterStops(id)
    BY <2>3, BackendLoop, Zenon
  <2>5. ~Dialled(id) /\ ~WriterWakes(id) /\ ~WriterStops(id)
    <3>1. backends \in [StreamIds -> BackendState]
      BY DEF TypeOK, BackendTypeOK
    <3>2. Dialled(id) => backends'[id].run = "streaming"
      BY <3>1 DEF Dialled, BackendState
    <3>. QED
      BY <1>2, <2>2, <3>2 DEF WriterWakes, WriterStops
  <2>. QED
    BY <2>2, <2>4, <2>5
<1>. QED
  BY <1>1, <1>2 DEF WriterOff

(* The accounts of the stream whose write loop or whose end it is.         *)
LEMMA EndedConserved ==
  ASSUME NEW x, NEW b, ~x.live
  PROVE  Conserved(x, b)
BY DEF Conserved

LEMMA NextWriteConserved ==
  ASSUME TypeOK, AllConserved, NEW id \in StreamIds, NextWrite(id)
  PROVE  Conserved(ses'.streams[id], backends'[id])
<1>. DEFINE x == ses.streams[id]
            b == backends[id]
            y == ses'.streams[id]
            c == backends'[id]
<1>1. /\ backends \in [StreamIds -> BackendState] /\ b \in BackendState
      /\ ses \in Session /\ x \in Stream
  BY DEF TypeOK, BackendTypeOK, Session
<1>2. Conserved(x, b) /\ b.writer = "next"
  BY DEF AllConserved, NextWrite
<1>3. CASE ~Live(id)
  <2>1. c.writer = "exit"
    BY <1>1, <1>3 DEF NextWrite, WriterExits, BackendState
  <2>2. SameFlow(x, y)
    BY <1>1, <1>3 DEF NextWrite, CancelBackend, SameFlow, Session
  <2>3. LoopKept(b, c)
    BY <2>1 DEF LoopKept
  <2>. QED
    BY <1>2, <2>2, <2>3, KeptConserved, Zenon
<1>4. CASE Live(id) /\ x.writes # <<>>
  <2>1. c = [b EXCEPT !.writer = "write", !.inHand = Head(x.writes)]
    BY <1>1, <1>4 DEF NextWrite
  <2>2. c.writer = "write" /\ c.inHand = Head(x.writes)
    BY <1>1, <2>1 DEF BackendState
  <2>3. y = [x EXCEPT !.writes = Tail(@)]
    <3>1. ses.streams \in [StreamIds -> Stream]
      BY <1>1, SessionFields
    <3>2. ses' = [ses EXCEPT !.streams[id].writes = Tail(@)]
      BY <1>4 DEF NextWrite
    <3>3. ses'.streams = [ses.streams EXCEPT ![id].writes = Tail(@)]
      BY <1>1, <3>2 DEF Session
    <3>. QED
      BY <3>1, <3>3
  <2>4. y.writes = Tail(x.writes)
    BY <1>1, <2>3 DEF Stream
  <2>5. /\ y.live = x.live /\ y.receiveWindow = x.receiveWindow
        /\ y.pendingWriteBytes = x.pendingWriteBytes
        /\ y.pendingWriteCost = x.pendingWriteCost
        /\ y.pendingWriteItems = x.pendingWriteItems
    BY <1>1, <2>3 DEF Stream
  <2>6. x.writes \in Seq(Nat)
    BY <1>1, StreamFields
  <2>7. Total(x.writes) = Head(x.writes) + Total(Tail(x.writes))
        /\ Len(x.writes) = Len(Tail(x.writes)) + 1
    BY <1>4, <2>6, TotalTail
  <2>8. Total(Tail(x.writes)) \in Int /\ Head(x.writes) \in Nat /\ Len(Tail(x.writes)) \in Nat
    BY <1>4, <2>6, TotalTail, SMTT(60)
  <2>. HIDE DEF x, b, y, c
  <2>9. WriteHeld(b) = 0 /\ WritesHeld(b) = 0 /\ b.writer # "exit"
    BY <1>2 DEF WriteHeld, WritesHeld
  <2>10. WriteHeld(c) = Head(x.writes) /\ WritesHeld(c) = 1
    BY <2>2 DEF WriteHeld, WritesHeld
  <2>11. x.live => /\ x.pendingWriteBytes = Total(x.writes)
                   /\ x.pendingWriteItems = Len(x.writes)
    BY <1>1, <1>2, <2>6, <2>7, <2>8, <2>9 DEF Conserved
  <2>12. x.live => /\ y.pendingWriteBytes = Total(y.writes) + WriteHeld(c)
                   /\ y.pendingWriteItems = Len(y.writes) + WritesHeld(c)
    BY <2>4, <2>5, <2>7, <2>8, <2>10, <2>11
  <2>13. Conserved(y, c)
    BY <1>2, <2>5, <2>12, Zenon DEF Conserved
  <2>. QED
    BY <2>13 DEF y, c
<1>5. CASE Live(id) /\ x.writes = <<>>
  <2>1. c.writer = "wait" /\ ses' = ses
    BY <1>1, <1>5 DEF NextWrite, BackendState
  <2>2. LoopKept(b, c) /\ SameFlow(x, y)
    BY <1>2, <2>1 DEF LoopKept, SameFlow
  <2>. QED
    BY <1>2, <2>2, KeptConserved, Zenon
<1>. QED
  BY <1>3, <1>4, <1>5

(* Delivered bytes go from the queue to the window.  The loop ends, or     *)
(* still holds the item of the bytes it has written.                       *)
LEMMA DrainedConserved ==
  ASSUME NEW x \in Stream, NEW b, NEW c, NEW y, NEW k \in Nat, Conserved(x, b),
         y = x \/ DrainedBy(x, y, k),
         \/ c.writer = "exit"
         \/ /\ b.writer = "write" /\ k = b.inHand /\ DrainedBy(x, y, k)
            /\ c.writer = "finish"
  PROVE  Conserved(y, c)
<1>1. /\ x.receiveWindow \in Int /\ x.pendingWriteBytes \in Int /\ x.pendingWriteCost \in Int
      /\ InitialStreamWindow \in Int
  BY StreamFields, FrameAssumption
<1>2. CASE y = x /\ c.writer = "exit"
  BY <1>2 DEF Conserved
<1>3. CASE DrainedBy(x, y, k)
  <2>. DEFINE q == QueueItemCost * x.pendingWriteItems
  <2>1. q \in Int
    BY StreamFields, FrameAssumption
  <2>2. x.live => /\ x.receiveWindow + x.pendingWriteBytes = InitialStreamWindow
                  /\ x.pendingWriteCost = x.pendingWriteBytes + q
    BY DEF Conserved
  <2>3. /\ y.live = x.live /\ y.receiveWindow = x.receiveWindow + k
        /\ y.pendingWriteBytes = x.pendingWriteBytes - k
        /\ y.pendingWriteCost = x.pendingWriteCost - k
        /\ QueueItemCost * y.pendingWriteItems = q
    BY <1>3 DEF DrainedBy
  <2>. HIDE DEF q
  <2>4. y.live => /\ y.receiveWindow + y.pendingWriteBytes = InitialStreamWindow
                  /\ y.pendingWriteCost = y.pendingWriteBytes + q
    BY <1>1, <2>1, <2>2, <2>3
  <2>5. CASE c.writer = "exit"
    BY <2>3, <2>4, <2>5 DEF Conserved
  <2>6. CASE b.writer = "write" /\ k = b.inHand /\ c.writer = "finish"
    <3>1. y.live => /\ x.pendingWriteBytes = Total(x.writes) + k
                    /\ x.pendingWriteItems = Len(x.writes) + 1
      BY <2>3, <2>6 DEF Conserved, WriteHeld, WritesHeld
    <3>2. Total(x.writes) \in Int
      BY WritesWithTotal
    <3>3. y.writes = x.writes /\ y.pendingWriteItems = x.pendingWriteItems
      BY <1>3 DEF DrainedBy
    <3>4. y.live => /\ y.pendingWriteBytes = Total(y.writes) + 0
                    /\ y.pendingWriteItems = Len(y.writes) + 1
      BY <1>1, <2>3, <3>1, <3>2, <3>3
    <3>5. WriteHeld(c) = 0 /\ WritesHeld(c) = 1
      BY <2>6 DEF WriteHeld, WritesHeld
    <3>. QED
      BY <2>3, <2>4, <3>4, <3>5 DEF Conserved
  <2>. QED
    BY <2>5, <2>6
<1>. QED
  BY <1>2, <1>3

LEMMA WriteConserved ==
  ASSUME TypeOK, AllConserved, NEW id \in StreamIds, Write(id) \/ WriteFails(id)
  PROVE  Conserved(ses'.streams[id], backends'[id])
<1>. DEFINE x == ses.streams[id]
            b == backends[id]
            y == ses'.streams[id]
            c == backends'[id]
<1>1. /\ backends \in [StreamIds -> BackendState] /\ b \in BackendState
      /\ ses \in Session /\ x \in Stream /\ b.inHand \in Nat
  BY DEF TypeOK, BackendTypeOK, Session, BackendState
<1>2. Conserved(x, b) /\ b.writer = "write"
  BY DEF AllConserved, Write, WriteFails
<1>3. \A s, ids : CancelBackend(s, ids).streams = s.streams
  BY DEF CancelBackend
<1>4. ASSUME Write(id) PROVE Conserved(y, c)
  <2>1. PICK pool \in PoolAnswers("control") :
          IF Drained(ses, id, b.inHand, pool)
          THEN /\ backends' = [backends EXCEPT ![id].writer = "finish", ![id].inHand = 0]
               /\ ses' = AfterWrite(ses, id, b.inHand, pool)
          ELSE /\ WriterExits(id)
               /\ ses' = CancelBackend(AfterWrite(ses, id, b.inHand, pool), {id})
    BY <1>4 DEF Write
  <2>2. y = AfterWrite(ses, id, b.inHand, pool).streams[id]
    BY <1>3, <2>1
  <2>3. /\ y = x \/ DrainedBy(x, y, b.inHand)
        /\ Drained(ses, id, b.inHand, pool) => DrainedBy(x, y, b.inHand)
    BY <1>1, <2>2, AfterWriteStream
  <2>4. CASE ~Drained(ses, id, b.inHand, pool)
    <3>1. c.writer = "exit"
      BY <1>1, <2>1, <2>4 DEF WriterExits, BackendState
    <3>. QED
      BY <1>1, <1>2, <2>3, <3>1, DrainedConserved, Zenon
  <2>5. CASE Drained(ses, id, b.inHand, pool)
    <3>1. c.writer = "finish"
      BY <1>1, <2>1, <2>5 DEF BackendState
    <3>2. DrainedBy(x, y, b.inHand)
      BY <2>3, <2>5
    <3>. QED
      BY <1>1, <1>2, <3>1, <3>2, DrainedConserved, Zenon
  <2>. QED
    BY <2>4, <2>5
<1>5. ASSUME WriteFails(id) PROVE Conserved(y, c)
  <2>1. PICK pool \in PoolAnswers("control"), k \in 0 .. b.inHand - 1 :
          ses' = CancelBackend(AfterWrite(ses, id, k, pool), {id})
    BY <1>5 DEF WriteFails
  <2>2. k \in Nat
    BY <1>1, <2>1
  <2>3. y = AfterWrite(ses, id, k, pool).streams[id]
    BY <1>3, <2>1
  <2>4. y = x \/ DrainedBy(x, y, k)
    BY <1>1, <2>2, <2>3, AfterWriteStream
  <2>5. c.writer = "exit"
    BY <1>1, <1>5 DEF WriteFails, WriterExits, BackendState
  <2>. QED
    BY <1>1, <1>2, <2>2, <2>4, <2>5, DrainedConserved, Zenon
<1>. QED
  BY <1>4, <1>5

LEMMA WriteFinishedConserved ==
  ASSUME TypeOK, AllConserved, NEW id \in StreamIds, WriteFinished(id)
  PROVE  Conserved(ses'.streams[id], backends'[id])
<1>. DEFINE x == ses.streams[id]
            b == backends[id]
            y == ses'.streams[id]
            c == backends'[id]
<1>1. /\ backends \in [StreamIds -> BackendState] /\ b \in BackendState
      /\ ses \in Session /\ x \in Stream
  BY DEF TypeOK, BackendTypeOK, Session
<1>2. Conserved(x, b) /\ b.writer = "finish"
  BY DEF AllConserved, WriteFinished
<1>3. CASE ~CanFinishWrite(ses, id)
  <2>1. c.writer = "exit"
    BY <1>1, <1>3 DEF WriteFinished, WriterExits, BackendState
  <2>2. y = x
    <3>1. ses' = CancelBackend(ses, {id})
      BY <1>3, Zenon DEF WriteFinished
    <3>2. CancelBackend(ses, {id}).streams = ses.streams
      BY <1>1 DEF CancelBackend, Session
    <3>. QED
      BY <3>1, <3>2, Zenon
  <2>3. LoopKept(b, c) /\ SameFlow(x, y)
    BY <2>1, <2>2 DEF LoopKept, SameFlow
  <2>. QED
    BY <1>2, <2>3, KeptConserved, Zenon
<1>4. CASE CanFinishWrite(ses, id)
  <2>1. c.writer = "next"
    BY <1>1, <1>4 DEF WriteFinished, BackendState
  <2>2. y = [x EXCEPT !.pendingWriteItems = @ - 1, !.pendingWriteCost = @ - QueueItemCost]
    <3>1. ses' = FinishWrite(ses, id)
      BY <1>4, Zenon DEF WriteFinished
    <3>. QED
      BY <1>1, <3>1, DrainStream, Zenon
  <2>3. /\ y.live = x.live /\ y.receiveWindow = x.receiveWindow
        /\ y.pendingWriteBytes = x.pendingWriteBytes
        /\ y.pendingWriteCost = x.pendingWriteCost - QueueItemCost
        /\ y.pendingWriteItems = x.pendingWriteItems - 1
        /\ y.writes = x.writes
    BY <1>1, <2>2 DEF Stream
  <2>4. /\ x.pendingWriteBytes \in Int /\ x.pendingWriteCost \in Int
        /\ x.pendingWriteItems \in Int /\ QueueItemCost \in Int
    BY <1>1, StreamFields, FrameAssumption
  <2>5. Total(x.writes) \in Int /\ Len(x.writes) \in Int
    BY <1>1, WritesWithTotal
  <2>6. WriteHeld(b) = 0 /\ WritesHeld(b) = 1 /\ b.writer # "exit"
    BY <1>2 DEF WriteHeld, WritesHeld
  <2>7. WriteHeld(c) = 0 /\ WritesHeld(c) = 0
    BY <2>1 DEF WriteHeld, WritesHeld
  <2>. HIDE DEF x, b, y, c
  <2>8. QueueItemCost * (x.pendingWriteItems - 1)
          = QueueItemCost * x.pendingWriteItems - QueueItemCost
    BY <2>4
  <2>9. QueueItemCost * x.pendingWriteItems \in Int
    BY <2>4
  <2>10. x.live => /\ x.receiveWindow + x.pendingWriteBytes = InitialStreamWindow
                   /\ x.pendingWriteCost = x.pendingWriteBytes
                                             + QueueItemCost * x.pendingWriteItems
                   /\ x.pendingWriteBytes = Total(x.writes) + 0
                   /\ x.pendingWriteItems = Len(x.writes) + 1
    BY <1>2, <2>6 DEF Conserved
  <2>11. y.live => /\ y.receiveWindow + y.pendingWriteBytes = InitialStreamWindow
                   /\ y.pendingWriteCost = y.pendingWriteBytes
                                             + QueueItemCost * y.pendingWriteItems
    <3>. DEFINE m == QueueItemCost * x.pendingWriteItems
                n == QueueItemCost * y.pendingWriteItems
    <3>1. n = m - QueueItemCost /\ m \in Int
      BY <2>3, <2>8, <2>9
    <3>. HIDE DEF m, n
    <3>2. x.live => x.pendingWriteCost = x.pendingWriteBytes + m
      BY <2>10 DEF m
    <3>3. y.live => y.pendingWriteCost = y.pendingWriteBytes + n
      BY <2>3, <2>4, <3>1, <3>2
    <3>. QED
      BY <2>3, <2>10, <3>3 DEF n
  <2>12. y.live => /\ y.pendingWriteBytes = Total(y.writes) + 0
                   /\ y.pendingWriteItems = Len(y.writes) + 0
    <3>1. x.live => x.pendingWriteItems - 1 = Len(x.writes) + 0
      BY <2>4, <2>5, <2>10
    <3>. QED
      BY <2>3, <2>10, <3>1
  <2>13. Conserved(y, c)
    BY <2>7, <2>11, <2>12 DEF Conserved
  <2>. QED
    BY <2>13 DEF y, c
<1>. QED
  BY <1>3, <1>4

LEMMA BackendClosedConserved ==
  ASSUME TypeOK, LockInv, NEW id \in StreamIds, BackendClosed(id)
  PROVE  Conserved(ses'.streams[id], backends'[id])
<1>1. \A s, ids : CancelBackend(s, ids).streams = s.streams
  BY DEF CancelBackend
<1>2. ses \in Session
  BY DEF TypeOK, BackendTypeOK
<1>3. PICK pool : ses' = CancelBackend(IF Live(id) THEN ClosedByBackend(ses, id, pool) ELSE ses,
                                       {id})
  BY DEF BackendClosed
<1>4. ~ses'.streams[id].live
  <2>1. CASE Live(id)
    <3>1. ses'.streams = ClosedByBackend(ses, id, pool).streams
      BY <1>1, <1>3, <2>1
    <3>. QED
      BY <1>2, <3>1, ClosedByBackendFlow
  <2>2. CASE ~Live(id)
    <3>1. ses'.streams = ses.streams
      BY <1>1, <1>3, <2>2
    <3>. QED
      BY <2>2, <3>1 DEF Live, LockInv, ClosedEnds
  <2>. QED
    BY <2>1, <2>2
<1>. QED
  BY <1>4, EndedConserved

LEMMA BackendWindow ==
  ASSUME TypeOK, LockInv, WriterOff, AllConserved, NEW id \in StreamIds, BackendStep(id)
  PROVE  AllConserved'
<1>. SUFFICES ASSUME NEW other \in StreamIds
              PROVE  Conserved(ses'.streams[other], backends'[other])
  BY DEF AllConserved
<1>1. Conserved(ses.streams[other], backends[other])
  BY DEF AllConserved
<1>2. CASE other # id
  <2>1. backends'[other] = backends[other]
    BY <1>2, BackendRun, Zenon
  <2>2. LoopKept(backends[other], backends'[other])
    BY <2>1 DEF LoopKept
  <2>3. SameFlow(ses.streams[other], ses'.streams[other]) \/ ~ses'.streams[other].live
    <3>1. FlowKept(ses, ses', {id}) /\ other \in StreamIds \ {id}
      BY <1>2, BackendFlow
    <3>. QED
      BY <3>1, FlowConserved, Zenon
  <2>. QED
    BY <1>1, <2>2, <2>3, KeptConserved, Zenon
<1>3. CASE other = id /\ ~Accountable(id)
  <2>1. LoopKept(backends[other], backends'[other])
    BY <1>3, BackendLoop
  <2>2. SameFlow(ses.streams[other], ses'.streams[other]) \/ ~ses'.streams[other].live
    <3>1. FlowKept(ses, ses', {}) /\ other \in StreamIds \ {}
      BY <1>3, BackendFlow
    <3>. QED
      BY <3>1, FlowConserved, Zenon
  <2>. QED
    BY <1>1, <2>1, <2>2, KeptConserved, Zenon
<1>4. CASE other = id /\ Accountable(id)
  BY <1>4, NextWriteConserved, WriteConserved, WriteFinishedConserved, BackendClosedConserved
     DEF Accountable
<1>. QED
  BY <1>2, <1>3, <1>4

-----------------------------------------------------------------------------
(* The steps of handlers, for the accounts.                                *)

LEMMA NoneBefore ==
  ASSUME NEW k \in Nat
  PROVE  \A i \in k .. k - 1 : FALSE
OBVIOUS

(* The payload that is queued has room in the window of its stream.        *)
LEMMA CurrentFits ==
  ASSUME TypeOK, WindowAhead, NEW u \in Uppers, Applying(u),
         Current(u).id # 0, Current(u).type = "DATA", ~WasClosed(ses, Current(u).id),
         ses.streams[Current(u).id].live
  PROVE  Current(u).n <= ses.streams[Current(u).id].receiveWindow
<1>. DEFINE body == ups[u].body
            k == ups[u].k
            id == Current(u).id
<1>1. /\ ses \in Session /\ body \in Seq(Frame) /\ k \in Nat /\ k >= 1 /\ k <= Len(body)
      /\ Current(u) = body[k] /\ Current(u).n \in Nat /\ id \in StreamIds
  <2>1. ups[u] \in UpState /\ ups[u].pc = "applying"
    BY DEF TypeOK, UpsTypeOK, Applying
  <2>2. body \in Bodies \cup {<<>>} /\ k \in Nat
    BY <2>1, UpFields
  <2>3. body \in Seq(Frame) /\ k >= 1 /\ k <= Len(body)
    BY <2>1, <2>2, BodyType DEF TypeOK, UpsTypeOK, Applying
  <2>4. Current(u).n \in Nat /\ id \in StreamIds
    BY CurrentType DEF TypeOK
  <2>. QED
    BY <2>2, <2>3, <2>4 DEF TypeOK, BackendTypeOK, Current
<1>2. DataFits(ses, body, k)
  BY DEF WindowAhead, Applying
<1>3. \A i \in k .. k - 1 : FALSE
  BY <1>1, NoneBefore, Zenon
<1>. HIDE DEF body, k
<1>4. Lasts(ses, body, k, k)
  BY <1>1, <1>3 DEF Lasts
<1>5. k \in k .. Len(body) /\ k \in 1 .. Len(body) /\ k - 1 \in 0 .. Len(body)
  BY <1>1
<1>6. DataUpTo(body, k, id) - DataUpTo(body, k - 1, id) <= WindowAtStart(ses, id)
  BY <1>1, <1>2, <1>4, <1>5 DEF DataFits
<1>7. /\ DataUpTo(body, k, id) = DataUpTo(body, k - 1, id) + Current(u).n
      /\ DataUpTo(body, k - 1, id) \in Int
  BY <1>1, <1>5, DataSums
<1>8. WindowAtStart(ses, id) = ses.streams[id].receiveWindow
  BY DEF WindowAtStart
<1>9. ses.streams[id] \in Stream /\ ses.streams[id].receiveWindow \in Int
  <2>1. ses.streams[id] \in Stream
    BY <1>1 DEF Session
  <2>. QED
    BY <2>1, StreamFields
<1>. QED
  BY <1>1, <1>6, <1>7, <1>8, <1>9

(* The payload is taken from the window and added to the accounts.         *)
LEMMA QueuedConserved ==
  ASSUME NEW x \in Stream, NEW n \in Nat, n <= x.receiveWindow
  PROVE  LET y == WriteQueued(x, n)
         IN  /\ y.live = x.live
             /\ y.receiveWindow = x.receiveWindow - n
             /\ \A b : b.inHand \in Nat /\ Conserved(x, b) => Conserved(y, b)
<1>. DEFINE y == WriteQueued(x, n)
            items == IF Coalesces(x, n) THEN 0 ELSE 1
            queue == WritesWith(x, n)
            window == Minus32(x.receiveWindow, n)
<1>1. /\ x.receiveWindow \in Int /\ x.pendingWriteBytes \in Int /\ x.pendingWriteCost \in Int
      /\ x.pendingWriteItems \in Int /\ QueueItemCost \in Int /\ InitialStreamWindow \in Int
  BY StreamFields, FrameAssumption
<1>2. window = x.receiveWindow - n
  BY <1>1 DEF Minus32
<1>3. /\ Total(queue) = Total(x.writes) + n /\ Len(queue) = Len(x.writes) + items
      /\ Total(x.writes) \in Int /\ Len(x.writes) \in Int
  BY WritesWithTotal
<1>4. items \in Int
  OBVIOUS
<1>5. y = [x EXCEPT !.writes = queue, !.pendingWriteBytes = @ + n,
                    !.pendingWriteCost = @ + n + items * QueueItemCost,
                    !.pendingWriteItems = @ + items, !.receiveWindow = window,
                    !.writeNotify = TRUE]
  BY Zenon DEF WriteQueued
<1>. HIDE DEF y, items, queue, window
<1>6. /\ y.live = x.live /\ y.receiveWindow = window /\ y.writes = queue
      /\ y.pendingWriteBytes = x.pendingWriteBytes + n
      /\ y.pendingWriteCost = x.pendingWriteCost + n + items * QueueItemCost
      /\ y.pendingWriteItems = x.pendingWriteItems + items
  BY <1>5 DEF Stream
<1>7. QueueItemCost * (x.pendingWriteItems + items)
        = QueueItemCost * x.pendingWriteItems + items * QueueItemCost
  BY <1>1, <1>4
<1>8. QueueItemCost * x.pendingWriteItems \in Int /\ items * QueueItemCost \in Int
  BY <1>1, <1>4
<1>9. ASSUME NEW b, b.inHand \in Nat, Conserved(x, b) PROVE Conserved(y, b)
  <2>. DEFINE m == QueueItemCost * x.pendingWriteItems
              l == items * QueueItemCost
              a == QueueItemCost * y.pendingWriteItems
  <2>1. a = m + l /\ m \in Int /\ l \in Int
    BY <1>6, <1>7, <1>8
  <2>2. x.live => /\ x.receiveWindow + x.pendingWriteBytes = InitialStreamWindow
                  /\ x.pendingWriteCost = x.pendingWriteBytes + m
    BY <1>9 DEF Conserved
  <2>3. y.pendingWriteCost = x.pendingWriteCost + n + l
    BY <1>6
  <2>. HIDE DEF m, l, a
  <2>4. y.live => /\ y.receiveWindow + y.pendingWriteBytes = InitialStreamWindow
                  /\ y.pendingWriteCost = y.pendingWriteBytes + a
    BY <1>1, <1>2, <1>6, <2>1, <2>2, <2>3
  <2>6. ASSUME y.live, b.writer # "exit"
        PROVE  /\ y.pendingWriteBytes = Total(y.writes) + WriteHeld(b)
               /\ y.pendingWriteItems = Len(y.writes) + WritesHeld(b)
    <3>1. /\ x.pendingWriteBytes = Total(x.writes) + WriteHeld(b)
          /\ x.pendingWriteItems = Len(x.writes) + WritesHeld(b)
      BY <1>6, <1>9, <2>6 DEF Conserved
    <3>2. WriteHeld(b) \in Int /\ WritesHeld(b) \in Int
      BY <1>9 DEF WriteHeld, WritesHeld
    <3>3. Total(y.writes) = Total(x.writes) + n /\ Len(y.writes) = Len(x.writes) + items
      BY <1>3, <1>6
    <3>4. y.pendingWriteBytes = Total(y.writes) + WriteHeld(b)
      BY <1>1, <1>3, <1>6, <3>1, <3>2, <3>3
    <3>5. y.pendingWriteItems = Len(y.writes) + WritesHeld(b)
      <4>1. y.pendingWriteItems = x.pendingWriteItems + items
        BY <1>6
      <4>. QED
        BY <1>3, <1>4, <3>1, <3>2, <3>3, <4>1
    <3>. QED
      BY <3>4, <3>5
  <2>. QED
    BY <2>4, <2>6 DEF Conserved, a
<1>. QED
  BY <1>2, <1>6, <1>9 DEF y

(* A step that is no backend's keeps what write loops hold.                *)
LEMMA LoopsConserved ==
  ASSUME AllConserved, NEW ids, FlowKept(ses, ses', ids), NEW id \in StreamIds \ ids,
         backends'[id].writer = backends[id].writer,
         backends'[id].inHand = backends[id].inHand
  PROVE  Conserved(ses'.streams[id], backends'[id])
<1>1. Conserved(ses.streams[id], backends[id])
  BY DEF AllConserved
<1>2. LoopKept(backends[id], backends'[id])
  BY DEF LoopKept
<1>3. SameFlow(ses.streams[id], ses'.streams[id]) \/ ~ses'.streams[id].live
  BY FlowConserved, Zenon
<1>. QED
  BY <1>1, <1>2, <1>3, KeptConserved, Zenon

LEMMA ApplyOpenConserved ==
  ASSUME TypeOK, AllConserved, NEW u \in Uppers, ApplyOpen(u)
  PROVE  AllConserved'
<1>. DEFINE id == Current(u).id
            b == [NoBackend EXCEPT !.run = "opened"]
<1>1. ses'.streams[id] = OpenedStream
      /\ \A other \in StreamIds \ {id} : ses'.streams[other] = ses.streams[other]
  BY ApplyOpenFlow, Zenon
<1>2. backends \in [StreamIds -> BackendState] /\ id \in StreamIds
  BY CurrentStream DEF TypeOK, BackendTypeOK
<1>3. backends' = [backends EXCEPT ![id] = b]
  BY DEF ApplyOpen
<1>4. Conserved(OpenedStream, b)
  <2>1. b.writer = "off"
    BY DEF NoBackend
  <2>. HIDE DEF b
  <2>2. WriteHeld(b) = 0 /\ WritesHeld(b) = 0
    BY <2>1 DEF WriteHeld, WritesHeld
  <2>3. /\ OpenedStream.receiveWindow = InitialStreamWindow
        /\ OpenedStream.pendingWriteBytes = 0 /\ OpenedStream.pendingWriteCost = 0
        /\ OpenedStream.pendingWriteItems = 0 /\ OpenedStream.writes = <<>>
    BY DEF OpenedStream, NoStream
  <2>4. InitialStreamWindow \in Int /\ QueueItemCost \in Int
    BY FrameAssumption
  <2>5. QueueItemCost * 0 = 0
    BY <2>4
  <2>. QED
    BY <2>2, <2>3, <2>4, <2>5, TotalEmpty DEF Conserved
<1>. HIDE DEF id, b
<1>5. \A other \in StreamIds \ {id} : backends'[other] = backends[other]
  BY <1>2, <1>3
<1>6. backends'[id] = b
  BY <1>2, <1>3
<1>. QED
  BY <1>1, <1>4, <1>5, <1>6 DEF AllConserved

LEMMA ApplyDataConserved ==
  ASSUME TypeOK, WindowAhead, AllConserved, NEW u \in Uppers, ApplyData(u)
  PROVE  /\ AllConserved'
         /\ ses'.streams[Current(u).id].live
         /\ ses'.streams[Current(u).id].receiveWindow
              = ses.streams[Current(u).id].receiveWindow - Current(u).n
<1>. DEFINE id == Current(u).id
            x == ses.streams[id]
            y == WriteQueued(x, Current(u).n)
<1>1. /\ backends \in [StreamIds -> BackendState] /\ id \in StreamIds /\ ses \in Session
      /\ x \in Stream
  BY CurrentStream DEF TypeOK, BackendTypeOK, Session
<1>2. /\ Applying(u) /\ id # 0 /\ Current(u).type = "DATA" /\ ~WasClosed(ses, id) /\ x.live
      /\ backends' = backends /\ ses' = [ses EXCEPT !.streams[id] = y]
  BY DEF ApplyData
<1>3. Current(u).n <= x.receiveWindow /\ Current(u).n \in Nat
  BY <1>2, CurrentFits, CurrentType DEF TypeOK
<1>4. /\ y.live = x.live
      /\ y.receiveWindow = x.receiveWindow - Current(u).n
      /\ \A b : b.inHand \in Nat /\ Conserved(x, b) => Conserved(y, b)
  BY <1>1, <1>3, QueuedConserved, Zenon
<1>. HIDE DEF y
<1>5. ses'.streams[id] = y /\ \A other \in StreamIds \ {id} : ses'.streams[other] = ses.streams[other]
  BY <1>1, <1>2 DEF Session
<1>6. backends[id].inHand \in Nat
  BY <1>1 DEF BackendState
<1>7. Conserved(y, backends[id])
  BY <1>1, <1>4, <1>6, Zenon DEF AllConserved
<1>8. AllConserved'
  BY <1>2, <1>5, <1>7 DEF AllConserved
<1>. QED
  BY <1>2, <1>4, <1>5, <1>8

LEMMA UpWindow ==
  ASSUME TypeOK, WindowAhead, AllConserved, NEW u \in Uppers, UpStep(u)
  PROVE  AllConserved'
<1>1. CASE ApplyOpen(u)
  BY <1>1, ApplyOpenConserved
<1>2. CASE ApplyData(u)
  BY <1>2, ApplyDataConserved
<1>3. CASE ~ApplyOpen(u) /\ ~ApplyData(u)
  <2>1. LoopsKept
    BY <1>3, UpLoopsKept
  <2>2. ASSUME NEW id \in StreamIds
        PROVE  Conserved(ses'.streams[id], backends'[id])
    <3>1. /\ backends'[id].writer = backends[id].writer
          /\ backends'[id].inHand = backends[id].inHand
      BY <2>1 DEF LoopsKept
    <3>2. CASE ~ApplyClose(u)
      <4>1. FlowKept(ses, ses', {}) /\ id \in StreamIds \ {}
        BY <1>3, <3>2, UpFlow
      <4>. QED
        BY <3>1, <4>1, LoopsConserved, Zenon
    <3>3. CASE ApplyClose(u) /\ id # Current(u).id
      <4>1. FlowKept(ses, ses', {Current(u).id}) /\ id \in StreamIds \ {Current(u).id}
        BY <3>3, ApplyFlow
      <4>. QED
        BY <3>1, <4>1, LoopsConserved, Zenon
    <3>4. CASE ApplyClose(u) /\ id = Current(u).id
      <4>1. ses' = EndStream(ses, id) /\ ses \in Session
        BY <3>4 DEF ApplyClose, TypeOK, BackendTypeOK
      <4>2. ~ses'.streams[id].live
        BY <4>1, EndStreamFlow
      <4>. QED
        BY <4>2, EndedConserved
    <3>. QED
      BY <3>2, <3>3, <3>4
  <2>. QED
    BY <2>2 DEF AllConserved
<1>. QED
  BY <1>1, <1>2, <1>3

LEMMA UpWriterOff ==
  ASSUME TypeOK, WriterOff, StartsHeld, NEW u \in Uppers, UpStep(u)
  PROVE  WriterOff'
<1>1. backends \in [StreamIds -> BackendState]
  BY DEF TypeOK, BackendTypeOK
<1>2. CASE ApplyOpen(u)
  <2>. DEFINE b == [NoBackend EXCEPT !.run = "opened"]
  <2>1. backends' = [backends EXCEPT ![Current(u).id] = b]
    BY <1>2 DEF ApplyOpen
  <2>2. b.writer = "off"
    BY DEF NoBackend
  <2>. HIDE DEF b
  <2>. QED
    BY <1>1, <2>1, <2>2 DEF WriterOff
<1>3. CASE RejectOpen(u)
  <2>1. backends' = [backends EXCEPT ![Current(u).id].run = "done"]
    BY <1>3 DEF RejectOpen
  <2>2. \A id \in StreamIds : \/ backends'[id].run = "done"
                              \/ backends'[id] = backends[id]
    BY <1>1, <2>1 DEF BackendState
  <2>. QED
    BY <2>2 DEF WriterOff
<1>4. CASE UpLaunch(u)
  <2>1. LoopsKept
    BY <1>4, UpLoopsKept DEF UpStep, ApplyOpen, UpLaunch, Applying
  <2>2. \A id \in StreamIds \ ups[u].toStart : backends'[id] = backends[id]
    BY <1>4 DEF UpLaunch
  <2>3. \A id \in ups[u].toStart : backends[id].run = "opened"
    BY DEF StartsHeld
  <2>. QED
    BY <2>1, <2>2, <2>3 DEF WriterOff, LoopsKept
<1>5. CASE UNCHANGED backends
  BY <1>5 DEF WriterOff
<1>. QED
  BY <1>2, <1>3, <1>4, <1>5, Zenon DEF UpStep, UpCommit, ApplyNothing, ApplyToNoStream,
     ApplyData, ApplyWindow, ApplyClose, UpApplied, UpCloses, UpReturns

-----------------------------------------------------------------------------
(* The frames ahead.                                                       *)

LEMMA UpBody ==
  ASSUME UpsTypeOK, NEW u \in Uppers, ups[u].pc = "applying"
  PROVE  /\ ups[u].body \in Seq(Frame) /\ ups[u].k \in Nat /\ ups[u].k >= 1
         /\ WellFormedBody(ups[u].body)
<1>1. ups[u] \in UpState /\ WellFormedBody(ups[u].body) /\ ups[u].k >= 1
  BY DEF UpsTypeOK
<1>2. ups[u].body \in Bodies \cup {<<>>} /\ ups[u].k \in Nat
  BY <1>1, UpFields
<1>. QED
  BY <1>1, <1>2, BodyType

(* One handler comes to apply the record r, and nobody else any body.      *)
LEMMA OneUpFits ==
  ASSUME UpsTypeOK, NEW u \in Uppers, NEW r, ups' = [ups EXCEPT ![u] = r],
         r.pc = "applying" => DataFits(ses', r.body, r.k),
         \A v \in Uppers \ {u} : ups[v].pc # "applying"
  PROVE  WindowAhead'
<1>1. ups'[u] = r /\ \A v \in Uppers \ {u} : ups'[v] = ups[v]
  BY DEF UpsTypeOK
<1>. QED
  BY <1>1 DEF WindowAhead

(* What a body that is being applied is not disturbed by.                  *)
LEMMA QuietFits ==
  ASSUME UpsTypeOK, WindowAhead, SameOrder(ses, ses'),
         \A id \in StreamIds : SameFlow(ses.streams[id], ses'.streams[id]),
         \A u \in Uppers : ups'[u].pc = "applying" =>
            ups[u].pc = "applying" /\ ups'[u].body = ups[u].body /\ ups'[u].k = ups[u].k
  PROVE  WindowAhead'
<1>1. ASSUME NEW u \in Uppers, ups'[u].pc = "applying"
      PROVE  DataFits(ses', ups'[u].body, ups'[u].k)
  <2>. DEFINE body == ups[u].body
              k == ups[u].k
  <2>1. ups[u].pc = "applying" /\ ups'[u].body = body /\ ups'[u].k = k
    BY <1>1
  <2>2. body \in Seq(Frame) /\ k \in Nat /\ k >= 1
    BY <2>1, UpBody
  <2>3. DataFits(ses, body, k)
    BY <2>1 DEF WindowAhead
  <2>. HIDE DEF body, k
  <2>4. DataFits(ses', body, k)
    BY <2>2, <2>3, SameDataFits
  <2>. QED
    BY <2>1, <2>4
<1>. QED
  BY <1>1 DEF WindowAhead

LEMMA UnlockedFits ==
  ASSUME UplinkInv, ~locked,
         \A u \in Uppers : ups'[u].pc = "applying" => ups[u].pc = "applying"
  PROVE  WindowAhead'
<1>1. \A u \in Uppers : ups[u].pc # "applying"
  BY OthersNotApplying
<1>. QED
  BY <1>1 DEF WindowAhead

(* While the mutex is held, what leaves the flow of the streams alone does *)
(* not close the session either.                                           *)
LEMMA LockedFlow ==
  ASSUME LockInv, locked, FlowKept(ses, ses', {}), ses'.closed = ses.closed
  PROVE  \A id \in StreamIds : SameFlow(ses.streams[id], ses'.streams[id])
<1>1. ~ses'.closed
  BY DEF LockInv, LockedOpen
<1>2. \A id \in StreamIds : id \in StreamIds \ {}
  OBVIOUS
<1>. QED
  BY <1>1, <1>2 DEF FlowKept

(* A handler that applies holds the mutex.                                 *)
LEMMA ApplyingLocked ==
  ASSUME UplinkInv, NEW u \in Uppers, ups[u].pc \in {"applying", "panicked"}
  PROVE  locked
BY DEF UplinkInv, LockHeld, Held

LEMMA AppliedFits ==
  ASSUME TypeOK, UplinkInv, TombInv, WindowAhead, NEW u \in Uppers, Applying(u), NEW r,
         ups' = [ups EXCEPT ![u] = r],
         r.pc = "applying" => r.body = ups[u].body /\ r.k = ups[u].k + 1,
         \A id \in StreamIds \ {Current(u).id} :
           /\ ses'.streams[id].live = ses.streams[id].live
           /\ ses'.streams[id].receiveWindow = ses.streams[id].receiveWindow,
         Current(u).id # 0 => Applied(ses, ses', Current(u))
  PROVE  WindowAhead'
<1>. DEFINE body == ups[u].body
            k == ups[u].k
<1>1. ups[u].pc = "applying" /\ UpsTypeOK /\ ses \in Session /\ Tombs(ses)
  BY DEF Applying, TypeOK, BackendTypeOK, TombInv
<1>2. /\ body \in Seq(Frame) /\ k \in Nat /\ k >= 1
      /\ DataFits(ses, body, k) /\ OpensAhead(ses, body, k)
  BY <1>1, UpBody DEF WindowAhead, TombInv, OpensFresh
<1>3. k <= Len(body) /\ Current(u) = body[k]
  BY DEF Applying, Current
<1>4. \A v \in Uppers \ {u} : ups[v].pc # "applying"
  BY <1>1, OthersNotApplying
<1>. HIDE DEF body, k
<1>5. DataFits(ses', body, k + 1)
  <2>1. \A id \in StreamIds \ {body[k].id} :
          /\ ses'.streams[id].live = ses.streams[id].live
          /\ ses'.streams[id].receiveWindow = ses.streams[id].receiveWindow
    BY <1>3
  <2>2. body[k].id # 0 => Applied(ses, ses', body[k])
    BY <1>3
  <2>. QED
    BY <1>1, <1>2, <1>3, <2>1, <2>2, NextDataFits, Zenon
<1>6. r.pc = "applying" => DataFits(ses', r.body, r.k)
  BY <1>5 DEF body, k
<1>. QED
  BY <1>1, <1>4, <1>6, OneUpFits, Zenon

LEMMA ApplyOpenFits ==
  ASSUME TypeOK, UplinkInv, TombInv, WindowAhead, NEW u \in Uppers, ApplyOpen(u)
  PROVE  WindowAhead'
<1>1. Applying(u) /\ UpsTypeOK /\ Current(u).type = "OPEN"
  BY DEF ApplyOpen, TypeOK
<1>2. /\ ses'.streams[Current(u).id] = OpenedStream
      /\ \A id \in StreamIds \ {Current(u).id} : ses'.streams[id] = ses.streams[id]
  BY ApplyOpenFlow
<1>3. PICK r : ups' = [ups EXCEPT ![u] = r] /\ r.body = ups[u].body /\ r.k = ups[u].k + 1
  BY <1>1, AppliedUp, Zenon
<1>4. Applied(ses, ses', Current(u))
  BY <1>1, <1>2 DEF Applied
<1>5. \A id \in StreamIds \ {Current(u).id} :
        /\ ses'.streams[id].live = ses.streams[id].live
        /\ ses'.streams[id].receiveWindow = ses.streams[id].receiveWindow
  BY <1>2
<1>. QED
  BY <1>1, <1>3, <1>4, <1>5, AppliedFits, Zenon

LEMMA RejectOpenFits ==
  ASSUME TypeOK, UplinkInv, TombInv, LockInv, WindowAhead, NEW u \in Uppers, RejectOpen(u)
  PROVE  WindowAhead'
<1>1. /\ Applying(u) /\ UpsTypeOK /\ ups[u] \in UpState /\ locked
  BY ApplyingLocked DEF RejectOpen, TypeOK, UpsTypeOK, Applying
<1>2. WasClosed(ses', Current(u).id) /\ ses'.closed = ses.closed
  BY RejectOpenLives DEF SameLives
<1>3. UpStep(u) /\ ~ApplyOpen(u) /\ ~ApplyData(u) /\ ~ApplyClose(u)
  <2>1. backends' = [backends EXCEPT ![Current(u).id].run = "done"] /\ Current(u).type = "OPEN"
    BY DEF RejectOpen
  <2>2. Current(u).id \in StreamIds /\ backends \in [StreamIds -> BackendState]
    BY CurrentStream DEF TypeOK, BackendTypeOK
  <2>3. backends'[Current(u).id].run = "done"
    BY <2>1, <2>2 DEF BackendState
  <2>4. ASSUME ApplyOpen(u) PROVE FALSE
    <3>1. backends'[Current(u).id].run = "opened"
      BY <2>2, <2>4 DEF ApplyOpen, NoBackend
    <3>. QED
      BY <2>3, <3>1
  <2>. QED
    BY <2>1, <2>4 DEF UpStep, ApplyData, ApplyClose
<1>4. \A id \in StreamIds : SameFlow(ses.streams[id], ses'.streams[id])
  BY <1>1, <1>2, <1>3, UpFlow, LockedFlow
<1>5. PICK r : /\ ups' = [ups EXCEPT ![u] = r]
               /\ r.pc = "applying" => r.body = ups[u].body /\ r.k = ups[u].k + 1
  <2>1. CASE NextFrame(u)
    BY <1>1, <2>1, AppliedUp, Zenon
  <2>2. CASE ups' = [ups EXCEPT ![u].pc = "launching", ![u].cost = 0, ![u].items = 0]
    <3>. DEFINE r == [ups[u] EXCEPT !.pc = "launching", !.cost = 0, !.items = 0]
    <3>1. ups' = [ups EXCEPT ![u] = r] /\ r.pc # "applying"
      BY <1>1, <2>2 DEF UpsTypeOK, UpState
    <3>. QED
      BY <3>1, Zenon
  <2>. QED
    BY <2>1, <2>2, Zenon DEF RejectOpen
<1>6. Applied(ses, ses', Current(u))
  BY <1>2 DEF Applied
<1>7. \A id \in StreamIds \ {Current(u).id} :
        /\ ses'.streams[id].live = ses.streams[id].live
        /\ ses'.streams[id].receiveWindow = ses.streams[id].receiveWindow
  BY <1>4 DEF SameFlow
<1>. QED
  BY <1>1, <1>5, <1>6, <1>7, AppliedFits, Zenon

LEMMA ApplyDataFits ==
  ASSUME TypeOK, UplinkInv, TombInv, WindowAhead, AllConserved, NEW u \in Uppers, ApplyData(u)
  PROVE  WindowAhead'
<1>1. /\ Applying(u) /\ UpsTypeOK /\ Current(u).type = "DATA"
      /\ ses.streams[Current(u).id].live /\ ~WasClosed(ses, Current(u).id)
      /\ \E x : ses' = [ses EXCEPT !.streams[Current(u).id] = x]
      /\ ses \in Session
  BY DEF ApplyData, TypeOK, BackendTypeOK
<1>2. /\ ses'.streams[Current(u).id].live
      /\ ses'.streams[Current(u).id].receiveWindow
           = ses.streams[Current(u).id].receiveWindow - Current(u).n
  BY ApplyDataConserved
<1>3. PICK r : ups' = [ups EXCEPT ![u] = r] /\ r.body = ups[u].body /\ r.k = ups[u].k + 1
  BY <1>1, AppliedUp, Zenon
<1>4. Applied(ses, ses', Current(u))
  BY <1>1, <1>2 DEF Applied
<1>5. \A id \in StreamIds \ {Current(u).id} :
        /\ ses'.streams[id].live = ses.streams[id].live
        /\ ses'.streams[id].receiveWindow = ses.streams[id].receiveWindow
  BY <1>1 DEF Session
<1>. QED
  BY <1>1, <1>3, <1>4, <1>5, AppliedFits, Zenon

LEMMA ApplyCloseFits ==
  ASSUME TypeOK, UplinkInv, TombInv, LockInv, WindowAhead, NEW u \in Uppers, ApplyClose(u)
  PROVE  WindowAhead'
<1>. DEFINE id == Current(u).id
<1>1. /\ Applying(u) /\ UpsTypeOK /\ locked /\ ses \in Session /\ Tombs(ses)
      /\ ses' = EndStream(ses, id) /\ id \in StreamIds
  BY ApplyingLocked, CurrentStream DEF ApplyClose, TypeOK, BackendTypeOK, TombInv, Applying
<1>2. WasClosed(ses', id)
  BY <1>1, EndedOrder
<1>3. ses'.closed = ses.closed
  BY <1>1, SameClosed, Zenon
<1>4. FlowKept(ses, ses', {id})
  BY ApplyFlow
<1>5. ~ses'.closed
  BY <1>1, <1>3 DEF LockInv, LockedOpen
<1>6. \A other \in StreamIds \ {id} :
        /\ ses'.streams[other].live = ses.streams[other].live
        /\ ses'.streams[other].receiveWindow = ses.streams[other].receiveWindow
  BY <1>4, <1>5 DEF FlowKept, SameFlow
<1>7. PICK r : ups' = [ups EXCEPT ![u] = r] /\ r.body = ups[u].body /\ r.k = ups[u].k + 1
  BY <1>1, AppliedUp, Zenon
<1>8. Applied(ses, ses', Current(u))
  BY <1>2 DEF Applied
<1>. QED
  BY <1>1, <1>6, <1>7, <1>8, AppliedFits, Zenon

LEMMA ApplyQuietFits ==
  ASSUME TypeOK, UplinkInv, TombInv, LockInv, WindowAhead, NEW u \in Uppers,
         ApplyNothing(u) \/ ApplyWindow(u)
  PROVE  WindowAhead'
<1>1. Applying(u) /\ NextFrame(u) /\ UpsTypeOK /\ locked /\ UpStep(u) /\ ses \in Session
  BY ApplyingLocked DEF ApplyNothing, ApplyWindow, TypeOK, BackendTypeOK, Applying, UpStep
<1>2. \A id \in StreamIds : SameFlow(ses.streams[id], ses'.streams[id])
  <2>1. CASE ApplyNothing(u)
    BY <2>1 DEF ApplyNothing, SameFlow
  <2>2. CASE ApplyWindow(u)
    <3>1. ~ApplyOpen(u) /\ ~ApplyData(u) /\ ~ApplyClose(u)
      BY <2>2 DEF ApplyWindow, ApplyOpen, ApplyData, ApplyClose
    <3>2. ses'.closed = ses.closed
      BY <1>1, UpClosed
    <3>. QED
      BY <1>1, <3>1, <3>2, UpFlow, LockedFlow
  <2>. QED
    BY <2>1, <2>2
<1>3. PICK r : ups' = [ups EXCEPT ![u] = r] /\ r.body = ups[u].body /\ r.k = ups[u].k + 1
  BY <1>1, AppliedUp, Zenon
<1>4. ASSUME Current(u).id # 0 PROVE Applied(ses, ses', Current(u))
  <2>1. CASE ApplyNothing(u)
    BY <1>4, <2>1 DEF ApplyNothing, Applied
  <2>2. CASE ApplyWindow(u)
    <3>1. /\ Current(u).type = "WINDOW" /\ ses.streams[Current(u).id].live
          /\ ~WasClosed(ses, Current(u).id)
      BY <2>2 DEF ApplyWindow
    <3>2. Current(u).id \in StreamIds
      BY <1>1, <1>4, CurrentType
    <3>3. ses.streams[Current(u).id] \in Stream
      BY <1>1, <3>2 DEF Session
    <3>4. ses.streams[Current(u).id].receiveWindow \in Int
      BY <3>3, StreamFields
    <3>5. SameFlow(ses.streams[Current(u).id], ses'.streams[Current(u).id])
      BY <1>2, <3>2
    <3>. QED
      BY <3>1, <3>4, <3>5 DEF Applied, SameFlow
  <2>. QED
    BY <2>1, <2>2
<1>5. \A id \in StreamIds \ {Current(u).id} :
        /\ ses'.streams[id].live = ses.streams[id].live
        /\ ses'.streams[id].receiveWindow = ses.streams[id].receiveWindow
  BY <1>2 DEF SameFlow
<1>. QED
  BY <1>1, <1>3, <1>4, <1>5, AppliedFits, Zenon

(* The steps after which the handler applies nothing.                      *)
LEMMA UpEndFits ==
  ASSUME TypeOK, UplinkInv, LockInv, WindowAhead, NEW u \in Uppers,
         ApplyToNoStream(u) \/ UpApplied(u) \/ UpLaunch(u) \/ UpCloses(u) \/ UpReturns(u)
  PROVE  WindowAhead'
<1>1. UpsTypeOK /\ ups[u] \in UpState /\ UpStep(u) /\ ups \in [Uppers -> UpState]
  BY Zenon DEF TypeOK, UpsTypeOK, UpStep
<1>2. PICK r : ups' = [ups EXCEPT ![u] = r] /\ r.pc # "applying"
  <2>1. CASE ApplyToNoStream(u)
    <3>. DEFINE r == [ups[u] EXCEPT !.pc = "panicked"]
    <3>1. ups' = [ups EXCEPT ![u] = r] /\ r.pc # "applying"
      BY <1>1, <2>1 DEF ApplyToNoStream, UpState
    <3>. QED
      BY <3>1, Zenon
  <2>2. CASE UpApplied(u)
    <3>. DEFINE r == [ups[u] EXCEPT !.pc = "launching", !.applied = TRUE, !.cost = 0,
                                    !.items = 0]
    <3>1. ups' = [ups EXCEPT ![u] = r]
      BY <1>1, <2>2 DEF UpApplied
    <3>2. r.pc # "applying"
      BY <1>1 DEF UpState
    <3>. QED
      BY <3>1, <3>2, Zenon
  <2>3. CASE \E pc \in {"acked", "closing", "failed"} : UpEnds(u, pc)
    <3>1. PICK pc \in {"acked", "closing", "failed"} : UpEnds(u, pc)
      BY <2>3
    <3>2. ups' = [ups EXCEPT ![u] = [NoUp EXCEPT !.pc = pc]] /\ [NoUp EXCEPT !.pc = pc].pc # "applying"
      BY <3>1 DEF UpEnds, NoUp
    <3>. QED
      BY <3>2, Zenon
  <2>4. CASE UpReturns(u)
    <3>1. ups' = [ups EXCEPT ![u] = NoUp] /\ NoUp.pc # "applying"
      BY <2>4 DEF UpReturns, NoUp
    <3>. QED
      BY <3>1, Zenon
  <2>. QED
    BY <2>1, <2>2, <2>3, <2>4, Zenon DEF UpLaunch, UpCloses
<1>3. \A v \in Uppers : ups'[v].pc = "applying" => v # u /\ ups'[v] = ups[v]
  BY <1>1, <1>2
<1>4. CASE ~locked
  BY <1>3, <1>4, UnlockedFits
<1>5. CASE locked
  <2>1. \/ ApplyToNoStream(u)
        \/ ~RejectOpen(u) /\ ~ApplyClose(u) /\ ~ApplyOpen(u) /\ ~ApplyData(u)
    <3>1. CASE UpApplied(u) \/ UpLaunch(u) \/ UpCloses(u) \/ UpReturns(u)
      <4>1. ~Applying(u)
        BY <1>1, <3>1, EndsApplyNothing, Zenon
      <4>. QED
        BY <4>1, Zenon DEF RejectOpen, ApplyClose, ApplyOpen, ApplyData
    <3>. QED
      BY <3>1
  <2>2. SameOrder(ses, ses') /\ \A id \in StreamIds : SameFlow(ses.streams[id], ses'.streams[id])
    <3>1. CASE ApplyToNoStream(u)
      BY <3>1 DEF ApplyToNoStream, SameOrder, SameFlow
    <3>2. CASE ~RejectOpen(u) /\ ~ApplyClose(u) /\ ~ApplyOpen(u) /\ ~ApplyData(u)
      <4>1. SameOrder(ses, ses') /\ FlowKept(ses, ses', {}) /\ ses'.closed = ses.closed
        BY <1>1, <1>5, <3>2, UpOrderKept, UpFlow, UpClosed
      <4>. QED
        BY <1>5, <4>1, LockedFlow
    <3>. QED
      BY <2>1, <3>1, <3>2
  <2>. QED
    BY <1>1, <1>3, <2>2, QuietFits
<1>. QED
  BY <1>4, <1>5

LEMMA UpCommitFits ==
  ASSUME TypeOK, UplinkInv, WindowAhead, NEW u \in Uppers, UpCommit(u)
  PROVE  WindowAhead'
<1>1. /\ ses \in Session /\ UpsTypeOK /\ ups[u] \in UpState /\ ups[u].pc = "parsing"
      /\ ups \in [Uppers -> UpState]
  BY Zenon DEF TypeOK, BackendTypeOK, UpsTypeOK, UpCommit
<1>2. \A v \in Uppers \ {u} : ups[v].pc # "applying"
  BY <1>1, OthersNotApplying
<1>3. CASE \E pc \in {"failed", "failing", "retry"} : UpEnds(u, pc)
  <2>1. PICK pc \in {"failed", "failing", "retry"} : UpEnds(u, pc)
    BY <1>3
  <2>. DEFINE r == [NoUp EXCEPT !.pc = pc]
  <2>2. ups' = [ups EXCEPT ![u] = r] /\ r.pc # "applying"
    BY <2>1 DEF UpEnds, NoUp
  <2>. HIDE DEF r
  <2>. QED
    BY <1>1, <1>2, <2>2, OneUpFits, Zenon
<1>4. CASE /\ WellFormedBody(ups[u].body) /\ ValidBatch(ses, ups[u].body)
           /\ \E cost, items : /\ ups' = [ups EXCEPT ![u].pc = "applying", ![u].k = 1,
                                                     ![u].cost = cost, ![u].items = items]
                               /\ ses' = Reserve([ses EXCEPT !.lanes[0].upActive = FALSE],
                                                 cost, items)
  <2>. DEFINE body == ups[u].body
  <2>1. PICK cost, items : /\ ups' = [ups EXCEPT ![u].pc = "applying", ![u].k = 1,
                                                 ![u].cost = cost, ![u].items = items]
                           /\ ses' = Reserve([ses EXCEPT !.lanes[0].upActive = FALSE],
                                             cost, items)
    BY <1>4
  <2>. DEFINE r == [ups[u] EXCEPT !.pc = "applying", !.k = 1, !.cost = cost, !.items = items]
  <2>2. ups' = [ups EXCEPT ![u] = r]
    BY <1>1, <2>1
  <2>3. r.body = body /\ r.k = 1
    BY <1>1 DEF UpState
  <2>. HIDE DEF r
  <2>4. body \in Seq(Frame)
    BY <1>1, UpFields, BodyType
  <2>5. \A id \in StreamIds : WindowAtStart(ses, id) \in Int
    <3>1. \A id \in StreamIds : ses.streams[id].receiveWindow \in Int
      BY <1>1, StreamFields DEF Session
    <3>2. InitialStreamWindow \in Int
      BY FrameAssumption
    <3>. QED
      BY <3>1, <3>2 DEF WindowAtStart
  <2>6. DataFits(ses, body, 1)
    BY <1>4, <2>4, <2>5, ValidDataFits, Zenon
  <2>7. /\ ses'.streams = ses.streams /\ ses'.closedOrder = ses.closedOrder
    <3>. DEFINE idle == [ses EXCEPT !.lanes[0].upActive = FALSE]
    <3>1. idle.streams = ses.streams /\ idle.closedOrder = ses.closedOrder
      BY <1>1 DEF Session
    <3>2. ses' = Reserve(idle, cost, items)
      BY <2>1
    <3>. HIDE DEF idle
    <3>3. \A s : Reserve(s, cost, items).streams = s.streams
                 /\ Reserve(s, cost, items).closedOrder = s.closedOrder
      BY DEF Reserve
    <3>. QED
      BY <3>1, <3>2, <3>3
  <2>8. SameOrder(ses, ses') /\ \A id \in StreamIds : SameFlow(ses.streams[id], ses'.streams[id])
    BY <2>7 DEF SameOrder, SameFlow
  <2>. HIDE DEF body
  <2>9. DataFits(ses', body, 1)
    BY <2>4, <2>6, <2>8, SameDataFits
  <2>. QED
    BY <1>1, <1>2, <2>2, <2>3, <2>9, OneUpFits, Zenon
<1>. QED
  BY <1>3, <1>4, Zenon DEF UpCommit

LEMMA UpFits ==
  ASSUME TypeOK, UplinkInv, TombInv, LockInv, WindowAhead, AllConserved, NEW u \in Uppers,
         UpStep(u)
  PROVE  WindowAhead'
BY UpCommitFits, ApplyQuietFits, ApplyOpenFits, RejectOpenFits, ApplyDataFits, ApplyCloseFits,
   UpEndFits DEF UpStep

(* Backends and polls do not disturb a body that is being applied.         *)
LEMMA BackendFits ==
  ASSUME TypeOK, UplinkInv, LockInv, WindowAhead, NEW id \in StreamIds, BackendNext(id)
  PROVE  WindowAhead'
<1>1. BackendStep(id) /\ UNCHANGED ups /\ UpsTypeOK
  BY DEF BackendNext, TypeOK
<1>2. CASE ~locked
  BY <1>1, <1>2, UnlockedFits
<1>3. CASE locked
  <2>1. ses'.closed = ses.closed /\ ~Accountable(id)
    BY <1>1, <1>3, LockedBackend
  <2>2. FlowKept(ses, ses', {}) /\ SameOrder(ses, ses')
    BY <1>1, <2>1, BackendFlow, BackendOrderKept DEF Accountable
  <2>3. \A other \in StreamIds : SameFlow(ses.streams[other], ses'.streams[other])
    BY <1>3, <2>1, <2>2, LockedFlow
  <2>. QED
    BY <1>1, <2>2, <2>3, QuietFits
<1>. QED
  BY <1>2, <1>3

LEMMA PollFits ==
  ASSUME TypeOK, UplinkInv, LockInv, WindowAhead, NEW p \in Pollers,
         PollStep(p) \/ PollCancelled(p) \/ \E cursor : PollBegin(p, cursor)
  PROVE  WindowAhead'
<1>1. UNCHANGED ups /\ UpsTypeOK
  BY Zenon DEF TypeOK, PollStep, PollWakes, PollResumes, PollSuperseded, PollExpires,
               PollCloses, PollReturns, PollCancelled, PollBegin
<1>2. CASE ~locked
  BY <1>1, <1>2, UnlockedFits
<1>3. CASE locked
  <2>1. ses'.closed = ses.closed
    BY <1>3, LockedPoll
  <2>2. FlowKept(ses, ses', {}) /\ SameOrder(ses, ses')
    BY PollFlow, PollOrderKept
  <2>3. \A id \in StreamIds : SameFlow(ses.streams[id], ses'.streams[id])
    BY <1>3, <2>1, <2>2, LockedFlow
  <2>. QED
    BY <1>1, <2>2, <2>3, QuietFits
<1>. QED
  BY <1>2, <1>3

LEMMA UpBeginFits ==
  ASSUME TypeOK, UplinkInv, NEW u \in Uppers, NEW q, NEW body, UpBegin(u, q, body)
  PROVE  WindowAhead'
<1>1. UpsTypeOK /\ ups \in [Uppers -> UpState] /\ ~locked
  BY DEF TypeOK, UpsTypeOK, UpBegin
<1>2. PICK r : ups' = [ups EXCEPT ![u] = r] /\ r.pc # "applying"
  <2>1. CASE \E pc \in {"failed", "acked", "failing", "retry"} : UpEnds(u, pc)
    <3>1. PICK pc \in {"failed", "acked", "failing", "retry"} : UpEnds(u, pc)
      BY <2>1
    <3>2. ups' = [ups EXCEPT ![u] = [NoUp EXCEPT !.pc = pc]] /\ [NoUp EXCEPT !.pc = pc].pc # "applying"
      BY <3>1 DEF UpEnds, NoUp
    <3>. QED
      BY <3>2, Zenon
  <2>2. CASE ups' = [ups EXCEPT ![u] = [NoUp EXCEPT !.pc = "parsing", !.seq = q, !.body = body]]
    <3>. DEFINE r == [NoUp EXCEPT !.pc = "parsing", !.seq = q, !.body = body]
    <3>1. r.pc # "applying"
      BY DEF NoUp
    <3>. HIDE DEF r
    <3>2. ups' = [ups EXCEPT ![u] = r]
      BY <2>2, Zenon DEF r
    <3>. QED
      BY <3>1, <3>2
  <2>. QED
    BY <2>1, <2>2, Zenon DEF UpBegin
<1>3. \A v \in Uppers : ups'[v].pc = "applying" => ups[v].pc = "applying"
  BY <1>1, <1>2
<1>. QED
  BY <1>1, <1>3, UnlockedFits

-----------------------------------------------------------------------------
(* What no backend does: write loops and queues are left alone.            *)
LEMMA QuietWindow ==
  ASSUME TypeOK, AllConserved, WriterOff, UNCHANGED backends, FlowKept(ses, ses', {})
  PROVE  AllConserved' /\ WriterOff'
<1>1. ASSUME NEW id \in StreamIds PROVE Conserved(ses'.streams[id], backends'[id])
  <2>1. id \in StreamIds \ {} /\ backends'[id] = backends[id]
    OBVIOUS
  <2>. QED
    BY <2>1, LoopsConserved
<1>. QED
  BY <1>1 DEF AllConserved, WriterOff

WindowInv == AllConserved /\ WriterOff /\ WindowAhead

LEMMA WindowStep ==
  ASSUME TypeOK, UplinkInv, TombInv, LockInv, LifeInv, WindowInv, [Next]_vars
  PROVE  WindowInv'
<1>1. AllConserved /\ WriterOff /\ WindowAhead /\ StartsHeld /\ ses \in Session /\ UpsTypeOK
  BY DEF WindowInv, LifeInv, TypeOK, BackendTypeOK
<1>2. ASSUME NEW u \in Uppers, UpStep(u) PROVE WindowInv'
  BY <1>1, <1>2, UpWindow, UpWriterOff, UpFits, Zenon DEF WindowInv
<1>3. ASSUME NEW u \in Uppers, NEW q, NEW body, UpBegin(u, q, body) PROVE WindowInv'
  <2>1. UNCHANGED backends /\ (ses' = ses \/ ses' = [ses EXCEPT !.lanes[0].upActive = TRUE])
    BY <1>3, Zenon DEF UpBegin
  <2>2. FlowKept(ses, ses', {})
    BY <1>1, <2>1, LanesFlow, Zenon
  <2>. QED
    BY <1>1, <1>3, <2>1, <2>2, QuietWindow, UpBeginFits, Zenon DEF WindowInv
<1>4. ASSUME NEW id \in StreamIds, BackendNext(id) PROVE WindowInv'
  <2>1. BackendStep(id)
    BY <1>4 DEF BackendNext
  <2>. QED
    BY <1>1, <1>4, <2>1, BackendWindow, BackendWriterOff, BackendFits, Zenon DEF WindowInv
<1>5. ASSUME NEW p \in Pollers,
             PollStep(p) \/ PollCancelled(p) \/ \E cursor : PollBegin(p, cursor)
      PROVE  WindowInv'
  <2>1. UNCHANGED backends
    BY <1>5, Zenon DEF PollStep, PollWakes, PollResumes, PollSuperseded, PollExpires,
                       PollCloses, PollReturns, PollCancelled, PollBegin
  <2>2. FlowKept(ses, ses', {})
    BY <1>5, PollFlow, Zenon
  <2>. QED
    BY <1>1, <1>5, <2>1, <2>2, QuietWindow, PollFits, Zenon DEF WindowInv
<1>6. CASE Close
  <2>1. UNCHANGED <<backends, ups>> /\ ses' = CloseSession(ses) /\ ~locked
    BY <1>6 DEF Close
  <2>2. FlowKept(ses, ses', {})
    BY <1>1, <2>1, CloseSessionFlow, Zenon
  <2>3. WindowAhead'
    BY <2>1, UnlockedFits
  <2>. QED
    BY <1>1, <2>1, <2>2, <2>3, QuietWindow, Zenon DEF WindowInv
<1>7. CASE UNCHANGED vars
  <2>1. ses' = ses /\ UNCHANGED backends /\ UNCHANGED ups
    BY <1>7 DEF vars
  <2>. QED
    BY <1>1, <2>1, Zenon DEF WindowInv, AllConserved, WriterOff, WindowAhead
<1>. QED
  BY <1>2, <1>3, <1>4, <1>5, <1>6, <1>7, Zenon DEF Next, System, Environment

LEMMA WindowInit == Init => WindowInv
<1>. SUFFICES ASSUME Init PROVE WindowInv
  OBVIOUS
<1>1. \A id \in StreamIds : ~ses.streams[id].live
  BY DEF Init, BackendInit, NewSession, NoStream
<1>2. \A id \in StreamIds : backends[id].writer = "off"
  BY DEF Init, BackendInit, NoBackend
<1>3. \A u \in Uppers : ups[u].pc = "idle"
  BY DEF Init, NoUp
<1>. QED
  BY <1>1, <1>2, <1>3, EndedConserved DEF WindowInv, AllConserved, WriterOff, WindowAhead

LEMMA WindowInvariant == Spec => []WindowInv
<1>1. TypeOK /\ UplinkInv /\ TombInv /\ LockInv /\ LifeInv /\ WindowInv /\ [Next]_vars
        => WindowInv'
  BY WindowStep
<1>. QED
  BY <1>1, LifeInvariant, WindowInit, PTL DEF Spec

(* The window of a live stream is short of exactly the bytes its backend   *)
(* has not taken: whatever bodies are applied, however their payloads      *)
(* coalesce, and wherever the write loop is between taking a payload and   *)
(* reporting it, appendBackendWriteLocked never lets the window wrap and   *)
(* backendDrained never gives back more than was taken.                    *)
THEOREM WindowConservedHolds == Spec => []WindowConserved
<1>1. WindowInv => WindowConserved
  BY ConservedWindows DEF WindowInv
<1>. QED
  BY <1>1, WindowInvariant, PTL

=============================================================================
