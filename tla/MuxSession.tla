----------------------------- MODULE MuxSession -----------------------------
(***************************************************************************)
(* A session in a multiplexed carrier mode: the uplink handler ProcessUp,  *)
(* the long poll Poll, the backends, and Close.                            *)
(*                                                                         *)
(* Several handlers of each kind run at the same time, with whatever       *)
(* sequence, body and cursor their request carries: a request that a slow  *)
(* or dead connection delivers late is just another handler.               *)
(***************************************************************************)
EXTENDS Backend, UplinkBatch, FiniteSets

CONSTANTS
  Uppers,       \* the uplink handlers that may run at the same time
  MaxSeq,       \* bound: highest uplink sequence a request carries
  MaxCursor,    \* bound: highest downlink cursor a request carries
  OpenRefusals  \* whether the manager's acquireStream may say no

VARIABLES
  ups,          \* one record per uplink handler
  polls         \* one record per poll handler

vars == <<ses, locked, backends, ups, polls>>

ASSUME MuxAssumption ==
  /\ ~CarrierLanes
  /\ MaxSeq \in Nat /\ MaxCursor \in Nat
  /\ OpenRefusals \in BOOLEAN

lane0 == ses.lanes[0]

UpState ==
  [pc : {"idle", "parsing", "applying", "panicked", "launching", "failing",
         "closing", "acked", "retry", "failed"},
   seq : Nat, body : Bodies \cup {<<>>}, k : Nat, cost : Int, items : Int,
   toStart : SUBSET StreamIds, toStop : SUBSET StreamIds, applied : BOOLEAN]

NoUp == [pc |-> "idle", seq |-> 0, body |-> <<>>, k |-> 0, cost |-> 0, items |-> 0,
         toStart |-> {}, toStop |-> {}, applied |-> FALSE]

PollState ==
  [pc : {"idle", "parked", "woken", "failing", "batch", "empty", "failed"},
   cursor : Nat, superseded : BOOLEAN, body : Seq(QueuedFrame), next : Nat]

NoPoll == [pc |-> "idle", cursor |-> 0, superseded |-> FALSE, body |-> <<>>,
           next |-> 0]

(* A handler only applies a body that ParseAll and ValidateClientShape let *)
(* through.                                                                *)
UpsTypeOK ==
  /\ ups \in [Uppers -> UpState]
  /\ \A u \in Uppers :
       ups[u].pc \in {"applying", "panicked"} => WellFormedBody(ups[u].body) /\ ups[u].k >= 1

TypeOK ==
  /\ BackendTypeOK
  /\ UpsTypeOK
  /\ polls \in [Pollers -> PollState]

Init ==
  /\ BackendInit
  /\ ups = [u \in Uppers |-> NoUp]
  /\ polls = [p \in Pollers |-> NoPoll]

-----------------------------------------------------------------------------
(* ProcessUp: admission of a request.                                      *)

(* What an answered or failing request carried no longer matters.          *)
UpEnds(u, pc) == ups' = [ups EXCEPT ![u] = [NoUp EXCEPT !.pc = pc]]

IsRetry(q) == q = lane0.lastUpSequence /\ q # 0

IsNext_orLater(q) == q > lane0.lastUpSequence

IsNext(q) == q = lane0.lastUpSequence + 1

(* Clients never reuse a stream id, even one whose OPEN was rejected.  The *)
(* relay relies on it once it has forgotten a tombstone; as long as it     *)
(* forgets none, any body may come.                                        *)
NoReuse(body) ==
  \/ MaxStreamID <= MaxClosedStreamIDs
  \/ \A k \in 1 .. Len(body) :
       body[k].type = "OPEN" => backends[body[k].id].run = "none"

UpBegin(u, q, body) ==
  /\ ~locked
  /\ IsNext(q) => NoReuse(body)
  /\ ups[u].pc = "idle"
  /\ IF ses.closed
     THEN UpEnds(u, "failed") /\ UNCHANGED ses
     ELSE IF IsRetry(q)
     THEN /\ UpEnds(u, IF body = lane0.lastUpDigest THEN "acked" ELSE "failing")
          /\ UNCHANGED ses
     ELSE IF ~IsNext(q)
     THEN UpEnds(u, "failing") /\ UNCHANGED ses
     ELSE IF lane0.upActive
     THEN UpEnds(u, "retry") /\ UNCHANGED ses
     ELSE /\ ups' = [ups EXCEPT ![u] = [NoUp EXCEPT !.pc = "parsing", !.seq = q,
                                                    !.body = body]]
          /\ ses' = [ses EXCEPT !.lanes[0].upActive = TRUE]
  /\ UNCHANGED <<locked, backends, polls>>

-----------------------------------------------------------------------------
(* ProcessUp: validation and reservation of a parsed body.                 *)

(* The second critical section of ProcessUp up to the first frame.  An     *)
(* admitted body is applied without letting go of the mutex.               *)
UpCommit(u) ==
  /\ ~locked
  /\ ups[u].pc = "parsing"
  /\ LET body == ups[u].body
         idle == [ses EXCEPT !.lanes[0].upActive = FALSE]
         cost == WriteCost(ses, body)
         items == WriteItems(ses, body)
     IN  \/ /\ ses.closed
            /\ UpEnds(u, "failed")
            /\ ses' = idle
            /\ UNCHANGED locked
         \/ /\ ~ses.closed
            /\ ~WellFormedBody(body) \/ ~ValidBatch(ses, body)
            /\ UpEnds(u, "failing")
            /\ ses' = idle
            /\ UNCHANGED locked
         \/ /\ ~ses.closed
            /\ WellFormedBody(body) /\ ValidBatch(ses, body)
            /\ \E pool \in PoolAnswers("up") :
                 IF items = 0 \/ (pool /\ FitsSession(ses, cost, items, "up"))
                 THEN /\ ups' = [ups EXCEPT ![u].pc = "applying", ![u].k = 1,
                                            ![u].cost = cost, ![u].items = items]
                      /\ ses' = Reserve(idle, cost, items)
                      /\ locked' = TRUE
                 ELSE /\ UpEnds(u, "retry")
                      /\ ses' = idle
                      /\ UNCHANGED locked
  /\ UNCHANGED <<backends, polls>>

-----------------------------------------------------------------------------
(* applyBatchLocked, one frame at a time.                                  *)

Applying(u) == ups[u].pc = "applying" /\ ups[u].k <= Len(ups[u].body)

Current(u) == ups[u].body[ups[u].k]

NextFrame(u) == ups' = [ups EXCEPT ![u].k = @ + 1]

(* A frame of stream zero, or a late frame of a remembered stream.         *)
ApplyNothing(u) ==
  /\ Applying(u)
  /\ LET f == Current(u)
     IN  f.id = 0 \/ (f.type # "OPEN" /\ WasClosed(ses, f.id))
  /\ NextFrame(u)
  /\ UNCHANGED <<ses, locked, backends, polls>>

(* The code indexes a stream that is neither live nor remembered: it       *)
(* dereferences nil, and the handler dies holding the mutex.               *)
ApplyToNoStream(u) ==
  /\ Applying(u)
  /\ LET f == Current(u)
     IN  /\ f.id # 0 /\ f.type # "OPEN"
         /\ ~WasClosed(ses, f.id) /\ ~ses.streams[f.id].live
  /\ ups' = [ups EXCEPT ![u].pc = "panicked"]
  /\ UNCHANGED <<ses, locked, backends, polls>>

TooManyStreams == Cardinality(LiveStreams(ses)) >= MaxStreamsPerSession

ApplyOpen(u) ==
  /\ Applying(u)
  /\ Current(u).type = "OPEN"
  /\ ~TooManyStreams
  /\ LET id == Current(u).id
     IN  /\ ses' = [ses EXCEPT !.streams[id] = OpenedStream]
         /\ backends' = [backends EXCEPT ![id] = [NoBackend EXCEPT !.run = "opened"]]
         /\ ups' = [ups EXCEPT ![u].k = @ + 1, ![u].toStart = @ \cup {id}]
  /\ UNCHANGED <<locked, polls>>

(* The OPEN exceeds a limit: the stream is remembered as closed and the    *)
(* client told so.  If not even the CLOSE can be queued the rest of the    *)
(* body is dropped and the session closed.  The id is used, although it    *)
(* never had a backend.                                                    *)
RejectOpen(u) ==
  /\ Applying(u)
  /\ Current(u).type = "OPEN"
  /\ TooManyStreams \/ OpenRefusals
  /\ \E pool \in PoolAnswers("control") :
       LET id == Current(u).id
           frame == [type |-> "CLOSE", id |-> id, n |-> 0]
           remembered == RememberClosed(ses, id)
       IN  IF CanQueue(remembered, frame, pool)
           THEN /\ ses' = QueueFrame(remembered, frame)
                /\ NextFrame(u)
                /\ UNCHANGED locked
           ELSE /\ ses' = ReleasePending(remembered, ups[u].cost, ups[u].items)
                /\ ups' = [ups EXCEPT ![u].pc = "launching",
                                      ![u].cost = 0, ![u].items = 0]
                /\ locked' = FALSE
  /\ backends' = [backends EXCEPT ![Current(u).id].run = "done"]
  /\ UNCHANGED polls

ApplyData(u) ==
  /\ Applying(u)
  /\ LET f == Current(u)
         stream == ses.streams[f.id]
         items == IF Coalesces(stream, f.n) THEN 0 ELSE 1
     IN  /\ f.id # 0 /\ f.type = "DATA"
         /\ ~WasClosed(ses, f.id) /\ stream.live
         /\ ses' = [ses EXCEPT !.streams[f.id] = WriteQueued(stream, f.n)]
         /\ ups' = [ups EXCEPT ![u].k = @ + 1,
                               ![u].cost = @ - (f.n + items * QueueItemCost),
                               ![u].items = @ - items]
  /\ UNCHANGED <<locked, backends, polls>>

ApplyWindow(u) ==
  /\ Applying(u)
  /\ LET f == Current(u)
     IN  /\ f.id # 0 /\ f.type = "WINDOW"
         /\ ~WasClosed(ses, f.id) /\ ses.streams[f.id].live
         /\ ses' = [ses EXCEPT !.streams[f.id].sendCredit = AddCredit(@, f.n),
                               !.streams[f.id].creditNotify = TRUE]
  /\ NextFrame(u)
  /\ UNCHANGED <<locked, backends, polls>>

ApplyClose(u) ==
  /\ Applying(u)
  /\ LET f == Current(u)
     IN  /\ f.id # 0 /\ f.type = "CLOSE"
         /\ ~WasClosed(ses, f.id) /\ ses.streams[f.id].live
         /\ ses' = EndStream(ses, f.id)
         /\ ups' = [ups EXCEPT ![u].k = @ + 1, ![u].toStop = @ \cup {f.id}]
  /\ UNCHANGED <<locked, backends, polls>>

(* Every frame is applied: what coalescing saved is released and the       *)
(* sequence is committed.                                                  *)
UpApplied(u) ==
  /\ ups[u].pc = "applying"
  /\ ups[u].k > Len(ups[u].body)
  /\ ses' = [ReleasePending(ses, ups[u].cost, ups[u].items)
               EXCEPT !.lanes[0].lastUpSequence = ups[u].seq,
                      !.lanes[0].lastUpDigest = ups[u].body]
  /\ ups' = [ups EXCEPT ![u].pc = "launching", ![u].applied = TRUE,
                        ![u].cost = 0, ![u].items = 0]
  /\ locked' = FALSE
  /\ UNCHANGED <<backends, polls>>

(* After the mutex is free: closed backends are cancelled, the goroutines  *)
(* of opened ones start.                                                   *)
UpLaunch(u) ==
  /\ ups[u].pc = "launching"
  /\ ses' = CancelBackend(ses, ups[u].toStop)
  /\ backends' = [id \in StreamIds |->
                    IF id \in ups[u].toStart
                    THEN [backends[id] EXCEPT !.run = "dialing"]
                    ELSE backends[id]]
  /\ UpEnds(u, IF ups[u].applied THEN "acked" ELSE "closing")
  /\ UNCHANGED <<locked, polls>>

(* protocolFailure, or the Close after a body that could not be applied.   *)
UpCloses(u) ==
  /\ ~locked
  /\ ups[u].pc \in {"failing", "closing"}
  /\ ses' = CloseSession(ses)
  /\ UpEnds(u, "failed")
  /\ UNCHANGED <<locked, backends, polls>>

UpReturns(u) ==
  /\ ups[u].pc \in {"acked", "retry", "failed"}
  /\ ups' = [ups EXCEPT ![u] = NoUp]
  /\ UNCHANGED <<ses, locked, backends, polls>>

-----------------------------------------------------------------------------
(* Poll.                                                                   *)

PollGoes(p, pc) == polls' = [polls EXCEPT ![p].pc = pc]

PollEnds(p, pc) == polls' = [polls EXCEPT ![p] = [NoPoll EXCEPT !.pc = pc]]

IsResend(s, cursor) == s.lanes[0].unacked # <<>> /\ cursor = s.lanes[0].unackedBase

IsAck_stale(s, cursor) == cursor <= s.lanes[0].downCursor

IsAck(s, cursor) == ~IsResend(s, cursor) /\ cursor = s.lanes[0].downCursor

(* The owner takes a batch and frees the place of the parked poll.         *)
TakenBy(s, cursor, k) == [s EXCEPT !.lanes[0] = TakeBatch(@, k, cursor)]

DeliverTo(ps, s, p) ==
  [ps EXCEPT ![p] = [NoPoll EXCEPT !.pc = "batch",
                                   !.body = s.lanes[0].unacked,
                                   !.next = s.lanes[0].downCursor]]

(* A poll that is not superseded looks at the queue: it takes a batch or   *)
(* parks.  s and ps are the session and the polls when it does.            *)
TakeOrPark(s, ps, p) ==
  IF s.lanes[0].frames = <<>>
  THEN /\ ses' = s
       /\ polls' = [ps EXCEPT ![p].pc = "parked"]
  ELSE \E k \in 1 .. Len(s.lanes[0].frames) :
         /\ IsBatch(s.lanes[0].frames, k)
         /\ ses' = TakenBy(s, ps[p].cursor, k)
         /\ polls' = DeliverTo(ps, ses', p)

(* An acknowledging poll supersedes the parked one, if any.                *)
Supersede(ps, p, cursor) ==
  [q \in Pollers |->
     IF q = p THEN [NoPoll EXCEPT !.cursor = cursor]
     ELSE IF q = lane0.owner THEN [ps[q] EXCEPT !.superseded = TRUE]
     ELSE ps[q]]

PollBegin(p, cursor) ==
  /\ ~locked
  /\ polls[p].pc = "idle"
  /\ \/ /\ ses.closed
        /\ PollEnds(p, "failed")
        /\ UNCHANGED ses
     \/ /\ ~ses.closed /\ IsResend(ses, cursor)
        /\ polls' = DeliverTo(polls, ses, p)
        /\ UNCHANGED ses
     \/ /\ ~ses.closed /\ ~IsResend(ses, cursor) /\ ~IsAck(ses, cursor)
        /\ PollEnds(p, "failing")
        /\ UNCHANGED ses
     \/ /\ ~ses.closed /\ IsAck(ses, cursor)
        /\ TakeOrPark([AckUnacked(ses, 0) EXCEPT !.lanes[0].owner = p],
                      Supersede(polls, p, cursor), p)
  /\ UNCHANGED <<locked, backends, ups>>

(* A parked poll receives the token of s.notify ...                        *)
PollWakes(p) ==
  /\ polls[p].pc = "parked"
  /\ lane0.notify
  /\ ses' = [ses EXCEPT !.lanes[0].notify = FALSE]
  /\ PollGoes(p, "woken")
  /\ UNCHANGED <<locked, backends, ups>>

Signalled_dropped(s) == s

Signalled(s) == [s EXCEPT !.lanes[0].notify = TRUE]

(* ... and then the mutex.  A superseded poll passes the token on.         *)
PollResumes(p) ==
  /\ ~locked
  /\ polls[p].pc = "woken"
  /\ \/ /\ lane0.owner # p
        /\ ses' = Signalled(ses)
        /\ PollEnds(p, "empty")
     \/ /\ lane0.owner = p
        /\ ses.closed
        /\ ses' = [ses EXCEPT !.lanes[0].owner = NoPoller]
        /\ PollEnds(p, "failed")
     \/ /\ lane0.owner = p
        /\ ~ses.closed
        /\ TakeOrPark(ses, polls, p)
  /\ UNCHANGED <<locked, backends, ups>>

(* The channel of this poll was closed by the one that took over.          *)
PollSuperseded(p) ==
  /\ ~locked
  /\ polls[p].pc = "parked"
  /\ polls[p].superseded
  /\ ses' = Signalled(ses)
  /\ PollEnds(p, "empty")
  /\ UNCHANGED <<locked, backends, ups>>

Disown_always(s, p) == [s EXCEPT !.lanes[0].owner = NoPoller]

Disown(s, p) ==
  IF s.lanes[0].owner = p THEN [s EXCEPT !.lanes[0].owner = NoPoller] ELSE s

(* The request's context is done; nobody reads the answer.                 *)
PollCancelled(p) ==
  /\ ~locked
  /\ polls[p].pc = "parked"
  /\ ses' = Disown(ses, p)
  /\ polls' = [polls EXCEPT ![p] = NoPoll]
  /\ UNCHANGED <<locked, backends, ups>>

(* The long-poll deadline.                                                 *)
PollExpires(p) ==
  /\ ~locked
  /\ polls[p].pc = "parked"
  /\ \/ /\ lane0.owner # p
        /\ ses' = Signalled(ses)
        /\ PollEnds(p, "empty")
     \/ /\ lane0.owner = p
        /\ lane0.frames # <<>>
        /\ TakeOrPark(ses, polls, p)
     \/ /\ lane0.owner = p
        /\ lane0.frames = <<>>
        /\ ses' = Disown(ses, p)
        /\ PollEnds(p, "empty")
  /\ UNCHANGED <<locked, backends, ups>>

PollCloses(p) ==
  /\ ~locked
  /\ polls[p].pc = "failing"
  /\ ses' = CloseSession(ses)
  /\ PollGoes(p, "failed")
  /\ UNCHANGED <<locked, backends, ups>>

PollReturns(p) ==
  /\ polls[p].pc \in {"batch", "empty", "failed"}
  /\ polls' = [polls EXCEPT ![p] = NoPoll]
  /\ UNCHANGED <<ses, locked, backends, ups>>

-----------------------------------------------------------------------------
(* Session.Close: the client's DELETE, the manager's reaper or shutdown.   *)
Close ==
  /\ ~locked
  /\ ~ses.closed
  /\ ses' = CloseSession(ses)
  /\ UNCHANGED <<locked, backends, ups, polls>>

UpStep(u) ==
  \/ UpCommit(u) \/ ApplyNothing(u) \/ ApplyToNoStream(u) \/ ApplyOpen(u)
  \/ RejectOpen(u) \/ ApplyData(u) \/ ApplyWindow(u) \/ ApplyClose(u)
  \/ UpApplied(u) \/ UpLaunch(u) \/ UpCloses(u) \/ UpReturns(u)

PollStep(p) ==
  \/ PollWakes(p) \/ PollResumes(p) \/ PollSuperseded(p) \/ PollExpires(p)
  \/ PollCloses(p) \/ PollReturns(p)

BackendNext(id) == BackendStep(id) /\ UNCHANGED <<ups, polls>>

(* What the relay does on its own ...                                      *)
System ==
  \/ \E u \in Uppers : UpStep(u)
  \/ \E p \in Pollers : PollStep(p)
  \/ \E id \in StreamIds : BackendNext(id)

(* ... and what its clients make it do.                                    *)
Environment ==
  \/ \E u \in Uppers, q \in 0 .. MaxSeq, body \in Bodies : UpBegin(u, q, body)
  \/ \E p \in Pollers, cursor \in 0 .. MaxCursor : PollBegin(p, cursor)
  \/ \E p \in Pollers : PollCancelled(p)
  \/ Close

Next == System \/ Environment

Spec == Init /\ [][Next]_vars

=============================================================================
