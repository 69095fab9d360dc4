# A TLA+ verification of tg-web-proxy

tg-web-proxy relays Telegram client streams through HTTPS requests or
WebSockets that look like an ordinary web site. A *bridge page* runs in the
client's WebView and moves frames between the app and the *relay*, a Go
process; the relay turns every stream into one TCP connection to a local
MTProxy. This directory holds TLA+ models of the relay's core, the
configurations TLC checks them with, and the theorems TLAPS proves about them.
Paths are relative to the repository; `session.go` is
`internal/session/session.go`, and so on.

## The system

| Component | State | Operations | Interaction |
|---|---|---|---|
| Frame codec (`internal/frame`) | none | `ParseAll`, `ValidateClientShape`, `Encode` | called by every carrier |
| Session (`session.go`) | streams, tombstones, pending budget, downlink queue and unacknowledged batch, cursors | `ProcessUp`, `Poll`, `Close`; the lane variants `ProcessUpLane`, `PollLane`; WebSocket acquire and release | handlers, backends and the manager share it under `Session.mu` |
| Backend stream (`session.go`) | dial context, connection, what its two loops hold | `run`, `writeLoop`, `readLoop`, `close` | enters the session's critical sections; woken through channels of capacity one and a broadcast channel for budget |
| Pending budget (`session.go`, `manager.go`) | bytes and items per session and in total | reserve, release, read allowance | reserved by the uplink, the downlink queue and control frames |
| Manager (`manager.go`) | bootstraps, sessions, counters, rate limiters, global budget | `IssueBootstrap`, `Create`, `Get`, `CloseToken`, `Shutdown`, `cleanupLoop`, callbacks of the sessions | callbacks run while `Session.mu` is held |
| HTTP API and WebSocket carrier (`internal/server/server.go`) | loop variables of one socket | `serveSession`, `serveUp`, `serveDown`, `serveWebSocket` | maps session errors to 503 (try again) or 404 |
| Bridge page (`internal/bridge/page.go`) | queues, sequence and cursor, lanes | creation, uplink loop, poll loop, lanes, close | one request in flight per direction and lane, retried |
| Static site, configuration, entry point, deployment | none that changes | | |

What is hard in this code:

* **Interleaving.** Two to four goroutines per stream, handlers of requests that
  a dead connection may have duplicated, and the manager all enter one session.
  `ProcessUp` lets go of the mutex while it parses; a backend reads with an
  allowance that was computed before the mutex was released; polls supersede
  each other and pass a single wake-up token on.
* **Delivery.** Requests are retried with the same sequence or cursor and may
  arrive late, twice or never; a response may be lost after the relay has moved
  a batch out of its queue.
* **Bounded resources.** Every queued byte and item is charged to one of three
  partitions. A charge lost leaks capacity, a charge released twice panics.
* **Partial failure.** Writes stop half way, dials fail, a frame in the middle
  of a batch is refused.

What makes each component correct:

* *uplink*: one request is committed at a time, in sequence, at most once, and
  its bytes reach the backend in order; the client's window is returned for
  exactly the bytes the backend took;
* *downlink*: frames reach the client in order, without loss or duplication
  whatever happens to responses; nothing follows the CLOSE of a stream;
* *budget*: what is charged is what is queued; waiting readers hear of releases;
* *streams and tombstones*: a stream is live or remembered, never both; every
  goroutine that was started stops and reports once;
* *polls*: the newest owns the downlink, no wake-up is lost, the others end;
* *lanes*: a lane has the life of its stream or of the stream's tombstone; what
  a lane held is given back once; a failed socket takes its own stream with it
  and no other;
* *https carrier*: whatever the network does, each direction is a FIFO channel
  that loses and repeats nothing, and only a request the bridge has given up can
  make the relay close the session;
* *manager*: counters equal what is live, limits hold, a bootstrap makes one
  session, every session gives its place back, shutdown ends and leaves nothing
  of the sessions it found.

## Modules

    Sums            totals of sequences
    Frames          frames, costs, what parses, credit arithmetic
    SessionBudget   partitions of the pending budget
    SessionCore     the session record and its `...Locked` helpers
    UplinkBatch     validation, reservation and write queue of an uplink body
    Backend         dial, write loop, read loop and their critical sections

    MuxSession      ProcessUp, Poll, Close, on UplinkBatch and Backend
    MuxSafety       invariants and action properties of MuxSession
    MuxLiveness     fairness and liveness
    MCMuxSession    instances for TLC (MCMux*.cfg)

    LaneSession     ProcessUpLane, PollLane, the sockets of websocket-lanes,
                    on UplinkBatch and Backend
    LaneSafety      invariants and action properties of LaneSession
    MCLaneSession   instances for TLC (MCLanes*.cfg)

    Channel         what one direction of a carrier promises
    HttpsCarrier    the bridge's two request loops, a network, the relay's
                    decisions; implements Channel twice
    MCHttpsCarrier  instances for TLC (MCHttps*.cfg)

    Manager         bootstraps, registry, counters, cleanup, shutdown
    MCManager       instances for TLC (MCManager*.cfg)

    SessionCoreProofs, MuxSessionProofs, MuxQueueProofs,
    MuxBudgetProofs, MuxStreamProofs, LaneProofs,
    HttpsCarrierProofs, ManagerProofs                            theorems

`SessionCore` is parameterised by `CarrierLanes`, so that the two session
modules share its helpers and those of `UplinkBatch` and `Backend`.
`HttpsCarrier` and `Manager` look at sessions from outside and take several
steps of `MuxSession` as one. `PROJECT.json` maps every definition to the lines
it models.

### How state corresponds

`ses` is what `Session.mu` guards. `ses.streams[id]` is the `streamState`, with
`live` for its presence in the map; `closedOrder` is the tombstone ring, oldest
first, and stands for `closedStreams` too. The downlink fields and the uplink
cursor of a multiplexed session are the lane `ses.lanes[0]`; a lane session uses
the other lanes with the same operators. `owner` is the poll whose channel
is `s.superseded`. `notify`, `creditNotify` and `writeNotify` are
one-place channels, so a Boolean. `budgetNotify`, which is closed and replaced
at every release, is the set `budgetWaiters` of the readers that hold the
channel still open. `cancelled` are the backends whose context is cancelled.

`locked` is `Session.mu`. A critical section that touches nothing but the
session is one action, enabled when `locked` is FALSE. Only the application of a
batch holds the mutex over several actions, one per frame, because that is where
the handler can die half way. `connection.Write` and `connection.Read` are taken
together with the critical section that follows them, in the same goroutine:
they share nothing with other goroutines except through it.

Each `ups[u]` and `polls[p]` is the program counter and the local variables of a
handler. Handlers start with any sequence, body and cursor within the bounds, so
retries, duplicates and late requests need no model of the client. The digest of
a body is the body. A frame is `[type, id, n]`, where `n` is the payload length
or the WINDOW delta; bytes themselves are not modelled. Integers that the code
keeps in a uint32 are bounded by `MaxUint32` and wrap or saturate as the code
does.

In `LaneSession` a handler runs one `ProcessUpLane` and one `PollLane` at a time.
A poll keeps the pointer to its `carrierLane` when the map has dropped it, so a
lane object is its id and its `generation`, which grows when the id leaves the
map; `stray` holds the objects outside the map whose channel has a token.
`applyBatchLocked` runs under the mutex without a gap, so here a body is one step,
a fold over its frames. In `websocket-lanes` each handler may own a socket:
`reader` and `writer` say which of the two goroutines still run, `sequence` and
`cursor` are their loop variables. A body that meets backpressure stays with the
reader. `serveWebSocket` releases the lane when the first of the two has returned
and waits for neither; the cancellation of the context comes before the release,
so that a parked poll may be cancelled first. A failed upgrade is a reader that
ends before it has read. `backend.close` after a release touches nothing of the
session and is folded into it. `life` is a history variable: how far the client
has come with a stream id.

In `HttpsCarrier` a frame is its number in the order of arrival at its end of the
carrier; how many fit a request is any number. `upCall` and `downCall` are the
two `request()` calls of the page with their attempts; a fetch the bridge has
given up leaves a copy in `lateUps` or `latePolls`, which may arrive later, any
number of times, or never. A critical section of the relay together with the
`Close` that follows a protocol failure is one step, as is a parked poll with its
wake-up; `MuxSession` has them in detail.

In `Manager` everything `m.mu` guards is a variable of its own. Tokens are numbers
in the order of issue. A session is what the manager sees: open or closed,
registered or not, its finish callback on its way or not, its backends dialling,
running or finished. `cleanupLoop` collects the silent sessions under the mutex
and closes them after it; `Shutdown` closes and waits outside the mutex: each is
several actions. A session calls the manager with `Session.mu` held and the
manager takes no session's mutex under `m.mu`, so an operation that takes `m.mu`
once is one action. A second caller of `Shutdown` only waits for the cleanup loop
(manager.go:347-351), changes nothing, and is left out.

`ShutdownEnds` says that the call returns, `ShutdownDrains` what becomes of all it
does not wait for: creations and streams admitted before, dials, finish callbacks
of sessions that had closed already. It is the rest of what
`NoLingeringGoroutine` finds missing at the moment of the return: the goroutine
is late, but it ends.

### What is assumed of the environment

* `net.Conn.Write` writes everything or reports an error with a count;
  `net.Conn.Read` returns bytes or an error, not both. Both hold for Go's TCP
  connections.
* The manager's answers (`acquireStream`, the global budget) are any answers;
  `OpenRefusals` and `PoolRefuses` switch them on.
* Once a tombstone can have been evicted, a client does not open the same
  stream id again, nor does a copy of the stream's first request arrive so late
  (`NoReuse`; PROTOCOL.md:432-433 "Stream IDs cannot be reused during a session",
  which the relay can only enforce while it remembers the id).
* In `HttpsCarrier` the network may do anything to requests and answers except
  forge them; the client closes, and the relay loses a session, at any time.
* In `Manager` clients repeat a creation at any time; sessions close at any time.
* A write token left in the channel of a stream that has since been removed is
  not modelled: its goroutine finds the stream gone or its context cancelled.

Left out of the session modules: `lastActivity` and traffic callbacks (only the
manager reads them; `Manager` has the silence of a session as `stale`),
the branches that guard against overflow of the machine's int when limits are
near `math.MaxInt`, and the release of Go memory.

## What TLC checks

Costs are scaled down (header, window payload and item cost are 1) so that
partitions fill after a few frames; the arithmetic is the same.

| Run | Instance | Question |
|---|---|---|
| `mux_uplink` | 2 uplink handlers, 2 stream ids, 1 stream at a time, 1 tombstone, sequences to 2, bodies that open, coalesce, overrun the window, close, evict, do not parse | `SingleUplink`, `WindowConserved`, `NoLostWriterWakeup`, `NoOrphanBackend`, `UplinkInOrder` |
| `mux_downlink` | 2 polls, cursors to 2, 1 stream that is fed, credited, closed, 1 that is refused, 2 tombstones, bodies that open both again | `TypeOK`, `NoLostPollWakeup`, `PollOwnership`, `CursorSound`, `CloseIsLast`, `Accounting`, `WindowIndexSound`, `NoLostReaderWakeup`, `TombstonesAreDead`, `DownlinkInOrder` |
| `mux_liveness` | 2 polls, 1 stream, fair scheduling | `PollServed`, `BackendsWindDown` |
| `mux_late_frame` | the bodies of `mux_uplink` | `NoHandlerPanics` is violated |
| `mux_read_refused` | 2 streams, a downlink partition of two frames | `ReadsPause` is violated |
| `lanes` | 2 handlers or sockets, 2 stream ids, 1 stream at a time, 1 tombstone, sequences to 2, cursors to 1, a global pool that may refuse uplink writes; both lane modes | `LaneAccounting`, `LanesMatchStreams`, `NoLostLaneWakeup`, `LaneOwnership`, `ClosedMeansDrained`, `LateFramesHarmless`, `FailureStaysInLane` |
| `lanes_orphan` | one body, sockets | `NoStreamWithoutSocket` is violated |
| `https_up` | 3 frames up, 2 attempts, fair | `OnlyStaleRequestsFail`, `UplinkIsFifo`, `UplinkIsChannel` |
| `https_down` | 4 frames down, 3 attempts, fair | `OnlyStaleRequestsFail`, `DownlinkIsFifo`, `DownlinkIsChannel`, `BridgeLearns` |
| `manager_safety` | 2 addresses, 1 profile, 2 bootstraps, 2 sessions, 2 backends, tight limits | `TypeOK`, `CountersExact`, `OneSessionPerBootstrap`, `UsedBootstrapsKept`, `NoLostPlace`, `ShutdownLeavesNothing` |
| `manager_liveness` | 1 address, 2 sessions, 1 backend, clients that vanish, fair | `ShutdownEnds`, `ShutdownDrains`, `AbandonedReclaimed` |
| `manager_lingering` | 1 session, 1 backend | `NoLingeringGoroutine` is violated |

Why the bounds suffice. Two handlers of a kind are enough for every race the code
names: the handler that holds `upActive` or owns the downlink, and the one that
contends; a third would contend with the same state. Two sequences cover first
request, retry, next and out of order; cursors up to 2 cover two full
acknowledge-and-take rounds and every stale or future cursor (in `lanes`, where
cursors are the same code, up to 1). Two stream ids are needed where streams
compete for tombstones or places. In `mux_downlink` the ring has room for both:
`NoReuse` excludes nothing there, and it is `validateBatchLocked` that refuses an
id that was used; eviction is met in `mux_uplink`, `mux_late_frame` and `lanes`,
with a ring of one. In `lanes` only one handler brings bodies in `https-lanes`,
because `ProcessUpLane` applies a body under one lock and two such
handlers never meet; sequences out of order, repeated and for the wrong lane come
from that one. A lane may be created twice (`MaxGeneration`). The frames of
`HttpsCarrier` are three or four so that a request, its retry and a late copy of
its predecessor exist at once, and the attempts are two or three so that a call
can fail for good. In `manager_safety` each limit is one below what clients ask
for. `MaxSeq`, `MaxCursor`, `MaxStreamID`, `MaxGeneration`, `MaxUp`, `MaxDown`,
`MaxIssued` and `MaxCreated` are the only bounds the code does not have; the rest
are its own limits, made small. Symmetry is used for handlers, addresses and
backends only, in runs without liveness.

Deadlock checking is off where the system may stop: after a panic with the mutex
held (`mux_uplink`, `mux_late_frame`), when a session is closed and its sockets
are gone (`lanes`), when both ends of the carrier are closed, and when `Shutdown`
has returned. In the other runs the session can always go on, because handlers of
a closed session still answer.

### Four disagreements with the documentation

1. **A late frame can kill its handler** (`mux_late_frame`). PROTOCOL.md:433-434
   promises that well-formed late frames of remembered streams are ignored.
   `validateBatchLocked` checks a batch against the tombstones as they are before
   it; `applyBatchLocked` looks them up again while the batch itself adds new
   ones. With a full ring, `<<CLOSE 2, DATA 1>>` evicts the tombstone of stream
   1 in its first frame and meets stream 1 as unknown in its second: a nil
   dereference, with `Session.mu` held. With the default limits the ring holds
   4096 ids.
2. **A read that was admitted may be refused** (`mux_read_refused`).
   PROTOCOL.md:428-429 says that backend reads pause when the partition is full.
   The allowance is not reserved, so two readers can be granted the same room; the
   slower one's bytes are refused and its stream is closed, with the bytes lost.
3. **A stream can outlive its socket** (`lanes_orphan`). PROTOCOL.md:342-343 says
   that closing an established lane closes its backend stream. `serveWebSocket`
   does not wait for the second of its two goroutines: when the writer fails first
   and the reader already holds the stream's first message, `ProcessUpLane` finds
   the lane gone and a body that begins with OPEN, and creates lane, stream and
   backend anew. No socket serves them; they stay until the backend ends or the session closes.
4. **Shutdown may leave a goroutine** (`manager_lingering`). PLAN.md:937 asks for
   shutdown "without lingering goroutines". `Shutdown` waits for the backends of
   the sessions that are registered; one that closed shortly before is not, and
   its backends may still wind down when `Shutdown` returns.

### Fairness

Nothing is ever assumed of clients or of the network.

`MuxLiveness!FairSpec` assumes weak fairness of every goroutine that can run: the Go
scheduler is fair and `Session.mu` is starvation free. A dial ends because
`net.Dialer` has a timeout. A cancelled backend's `Read` and `Write` return
because `close` closes the connection; nothing is assumed of a backend that is
not cancelled and neither sends nor accepts. The
long-poll deadline is *not* assumed to fire: `PollServed` says that an
answer does not need it.

`HttpsCarrier!FairSpec` assumes that the page's event loop and the relay's
goroutines run and that the timers of the page fire: a fetch is given up after its
timeout, and a series of 503 answers ends at its deadline. No request and no
answer need ever arrive; the channel then breaks, and `BridgeLearns` says that the
bridge notices.

`Manager!FairSpec` assumes that goroutines run, that the cleanup ticker fires,
that a vanished client's silence lasts, that a dial ends by its timeout and that
the backends of a closed session end, which is `BackendsWindDown` of
`MuxLiveness`. `CleanerStops` needs strong fairness: `select` chooses at random
between a tick and the stop, so the stop is not passed over for ever.

## What is proved

`MuxSessionProofs!TypeCorrect`: `Spec => []TypeOK`, for every value of the
constants that satisfies the named assumptions: any number of streams, handlers
and tombstones, any limits and any set of bodies. It says that no step leaves
the declared domains; the substance is that `sendCredit` and `receiveWindow`
never leave the range of a uint32, and that a handler which applies a body
applies one that parsed. The proof takes
one lemma per helper of `SessionCore` (`SessionCoreProofs`), one per goroutine
action and one per handler action, and each of them needs no more than the type
of its arguments.

`SessionCoreProofs` first proves by induction on sets what the models need of
`Total`: type, empty, one element, concatenation, append, and the effect of changing one
element. `Total` is a recursive function, so its unfolding is proved too. Its lemmas
about the helpers of `SessionCore` and the goroutines of `Backend` serve the
multiplexed session and the lanes alike. So do those about the pending budget:
`Charged(s, c, i)` says that what a session is charged is what its lanes and its
streams owe, and `c` bytes and `i` items that a handler has reserved; that each
batch is charged with the cost of its frames; and that a stream that is not live
owes nothing (`EndedOwesNothing`). Every helper is shown to keep it
(`ChargesKept`), whatever the number of lanes: one lane's part of the sum moves
with the session's counters (`LaneCharges`), and so does one stream's
(`OneStreamCharges`). `closeLocked` forgets all charges at once and is right only
because nobody else holds a reservation then (`CloseSessionCharges`).

`MuxSessionProofs` goes on to four safety invariants, again for every value of
the constants:

- `PollOwnershipHolds`, `NoLostPollWakeupHolds` and `CursorSoundHolds`, from
  the inductive invariant `PollInv`: the three properties together, `TypeOK`
  and that lane 0 exists. None of the three is inductive alone: that a parked
  poll is woken rests on which poll owns the downlink (a poll that is cancelled
  without owning it passes nothing on), and the cursor of a new batch is sound
  because the owner's cursor is the session's. The proof separates the steps
  that only touch the downlink through queueFrameLocked or closeLocked
  (`DownKept`: owner and cursors stay, and what is queued leaves a token) from
  the polls' own, which are of three kinds: a poll that does not own the
  downlink leaves (`LeaveStep`), the owner leaves (`DisownStep`), the owner
  takes a batch or parks (`TakeOrParkStep`).
- `SingleUplinkHolds`, from `UplinkInv`: `SingleUplink` and `LockHeld`, which
  says that the mutex is held across steps exactly while a handler applies its
  body. `LockHeld` is needed because `upActive` is cleared before the body is
  applied: from then on it is the mutex alone that keeps a second request out.

`MuxQueueProofs` proves what concerns the queues, each property by a relation
between the session before and after a helper that every step is shown to keep,
and the few steps that do more:

- `WindowIndexSoundHolds`: `queueFrameLocked` and the taking of a batch keep the
  index (`QueueIndexed`, `TakeIndexed`), whatever prefix of the queue the batch
  is; the property is inductive by itself.
- `NoLostWriterWakeupHolds`: only `WriteQueued` gives a stream writes, and it
  leaves a token; only `NextWrite` puts a write loop to sleep, on an empty queue
  (`WritesKept`).
- `NoLostReaderWakeupHolds`: no helper starves a reader (`ReadersKept`). What
  charges the queues lowers every allowance (`AllowanceShrinks`); what releases
  wakes all who wait; what grants credit leaves a token.
- `TombstonesAreDeadHolds`, from `TombInv` together with `UplinkInv` and
  `PollInv`. The property is not inductive by itself, because a batch is validated
  before it is applied: `OpensFresh` says of every handler that applies a body
  that the OPENs still ahead of it name streams that are neither live nor
  remembered and that no frame before them opens or closes. It is kept because
  the handler alone holds the mutex (`UplinkInv`).

- `UplinkInOrderHolds`: a critical section either leaves a stream's life, window
  and writes alone or is one of the few that are about it (`FlowKept`); those add
  to the last write or append one (`WritesWithOrder`), or take the first.

`MuxBudgetProofs` proves `AccountingHolds` from `Books`: `Charged` with what the
handlers hold between the steps in which they apply a body. `EndedOwesNothing` is
what makes it inductive: `ApplyOpen` puts a fresh stream in the place of an ended
one, and the sums are over all ids. That the place is an ended one's needs
`OpensFresh`, and that one handler at most holds a reservation needs `UplinkInv`; a
poll takes a new batch only when it owns the downlink, and then, by
`PollOwnership`, nothing is unacknowledged whose charge it could overwrite.
`UpCommit`, `ApplyData` and `UpApplied` are the steps that change the remainder.

`MuxStreamProofs` proves what concerns the life of a stream and the frames and
bytes that go through it.

- `DownlinkInOrderHolds`: every critical section but a poll's lets the queue of
  frames grow at its end, by one frame at most, or drops it with the session
  (`Grown`), and answers no poll (`NobodyAnswered`). The owning poll moves the
  front of the queue into its batch and answers it (`TakeOrParkLine`,
  `TakeOrParkAnswer`); of the polls that arrive, one with the cursor of the batch
  that is out gets that batch again, and only one with the next cursor drops it
  (`PollBeginLine`, `AckLine`). That a batch which is taken meets none that is
  unacknowledged is `CursorSound` and `PollOwnership`. Acknowledgement and new
  batch may be one step or, when the queue was empty, two.
- `NoOrphanBackendHolds`, from `LifeInv`: with the property, `StartsHeld` (what a
  handler has to start is opened and nobody else's, and handlers forget what they
  have to start and to stop only when they have done it) and `UsedRemembered`
  (while every tombstone is kept, an id that was used is live or remembered).
- `CloseIsLastHolds`, from `LineInv`: with the property, every stream with a frame
  in the line was used (`LineKnown`). It rests on `NoneReopened`, that no step
  opens a stream that was used, and so on `FreshInv`: the OPENs still ahead of a
  handler name unused streams. While every tombstone is kept that follows from the
  validation against them (`UsedRemembered`); otherwise from `NoReuse`, which is an
  assumption on clients and must be counted from the first request of an id on,
  refused or not: an OPEN that the relay refuses queues a CLOSE too, and an id
  that may be opened again after it would break the property.
- `WindowConservedHolds`, from `WindowInv`: with the property for each stream,
  `WriterOff` (a backend that does not stream yet has no write loop) and
  `WindowAhead` (for every payload still ahead of a handler that will be queued,
  the payloads of its stream up to it fit its window as it is now).
  `appendBackendWriteLocked` subtracts without looking; that it cannot wrap is
  because `validateBatchLocked` has added up the body before its first frame
  (`ValidDataFits`), each frame keeps what it promised (`NextDataFits`, which also
  needs that an OPEN in the body is the first of its stream, `OpensFresh`), and
  meanwhile nobody else changes a window or closes the session, since the handler
  holds the mutex (`LockInv`: `ClosedEnds` and `LockedOpen`).

`LaneProofs` proves the type of `LaneSession` (`TypeOKHolds`) and what its run
checks of the lanes. A body is one step here, a fold over its frames; the fold is
a function (`BatchPrefixes`), and an induction over the sets of states its
prefixes may be in (`Prefixes`, `BatchCarried`) says what it does to a session for
a body of any length. Every critical section that is not a poll's is shown to
satisfy one relation, `Carried(s, t, ids)`: lanes lose their life only with that of
their stream or its tombstone, and keep owner, cursor and the uplink's sequence; a
lane gets frames, or its stream ends, only with a token left in its channel; only the
streams `ids` may begin. `StepSorted` says that every step is of that kind or a move
of a poll (`PollMoves`).

- `LaneOwnershipHolds` and `NoLostLaneWakeupHolds`, from `LanesOrderly`: with the
  two, stated for polls of any lane object (`PollsOrderly`: an owner waits and is of
  the current object; of two polls of one object that wait, one is superseded; the
  newest has a token coming for all that is due, the loss of the object from the map
  included), the tombstones (`Tombs`), absent lanes are blank, and only
  `websocket-lanes` has sockets.
- `LateFramesHarmlessHolds`: what `validateBatchLocked` has found of a body is true
  of each frame when it comes up (`FrameRule`), because in a lane only the body's own
  stream is touched and the tombstone it may need is the newest.
- `LanesMatchStreamsHolds`, from `Matched` and `LanesOrderly`.
- `ClosedMeansDrainedHolds`, from `Settled`: a client that has been told that its
  lane is over, or whose lane has left the map, has used its id, and the lane is
  empty; an id that is live or remembered was used. That the poll which says so has
  nothing unacknowledged behind it is `LaneOwnership`; that the lane stays empty
  rests on `NoReuse`.
- `LaneAccountingHolds`, from `Balanced`, which is `Charged` with nothing reserved:
  a body reserves its writes and spends them in one step. Within the step the
  induction on frames carries `Charged` with what is still reserved
  (`BatchBalanced`), and `Committed` releases the rest. An evicted tombstone's
  lane is released before it leaves the map (`RememberCharges`), and a poll takes a
  batch only where `LanesOrderly` shows nothing unacknowledged.
- `FailureStaysInLaneHolds`, an action property. Every step but three kinds goes on
  (`GoesOn`): it leaves `closed` alone and makes no stream owe less than nothing
  (`NoneOverpaid`, inductive because `backendDrained` and `backendWriteFinished`
  check before they release). The three are `Close`, the closing of a session whose
  body was not applied for want of a CLOSE, and `backendClosed`. The last refuses
  the CLOSE in the session in which the stream has already ended, while the property
  speaks of the session before: `Balanced` and `NoneOverpaid` show that the end of
  the stream, and of the lane whose tombstone it evicts, only makes room
  (`EndLightens`), and `Matched` that its lane is there, so that a CLOSE refused
  after it had no room before it (`CloseHadNoRoom`). The global pool's answer is
  not state of the session: where it may refuse a control frame (`PoolRefuses`),
  the property asks nothing of the closings it causes.

`HttpsCarrierProofs` proves that each direction of the carrier implements
`Channel` (its safety part), and `OnlyStaleRequestsFail`. The inductive
invariants are `UpInv` and `DownInv`: where each frame is. Uplink: what is
committed, what the call in progress carries and what is pending are consecutive
spans of the numbers of frames, every late copy with the relay's next sequence is
the call in progress, and every other late copy is of a sequence already
committed. Downlink: what was received, the unacknowledged batch as far as the
cursor has not passed it, and the queue are consecutive spans, and the cursors of
the bridge and of the relay differ by one exactly while a batch is on its way.

`ManagerProofs` proves the type of every variable, `CountersExact`,
`OneSessionPerBootstrap`, `UsedBootstrapsKept`, `NoLostPlace`
and `ShutdownLeavesNothing` from `ManagerInv`, the conjunction of
five: `RegistryInv` (the registry and its counters; open and finishing sessions
are disjoint and make up the registry), `BootInv` (the table of bootstraps and its
counters, and what has been answered), `StreamInv` (backends and their counters),
`KeptInv` (a used bootstrap belongs to a registered session and the reverse) and
`ShutdownInv` (what Shutdown has closed and waited for stays so). Counters are
related to cardinalities by the operator `Counts`, whose lemmas say what adding to
and removing from one of the counted sets does.

Assumptions: `FrameAssumption`, `LimitAssumption`, `CarrierAssumption`,
`PoolAssumption`, `MuxAssumption`, `LaneAssumption`, `HttpsAssumption`,
`ManagerAssumption`. The
limits in them are what `Config.validate` enforces; TLC evaluates all of them in
the runs of their modules.

Only model-checked: the liveness properties, which are beyond the proof system.

## Plan

1. The bridge in its lane modes: `runLaneUp`, `pollLane`, the limits of its
   queues, and its creation of a session.
2. `RateLimiter` for `takeRate`, and the global budget as a module of its own.

## Not modelled

* Lane 0 of the lane modes is not polled in `LaneSession` (`LanesPolled` is a
  subset of the stream lanes), although the bridge keeps a poll on it in
  `https-lanes` (page.go:214) and `PollLane` answers it. It carries no stream, so
  that such a poll only waits, and ends by its deadline, by a newer one or by the
  end of the session, as the polls of stream lanes do. The module lets clients
  upload to it (a PONG is all that is valid there); the run does not.
* A socket that has ended reads no message in `LaneSession`; the library may still
  return one that was buffered when the connection was closed. One that the reader
  holds already is modelled (`lanes_orphan`), with the same consequences.
* A poll of `HttpsCarrier` that ends with its session is refused; a poll whose
  deadline fires in the same moment may also answer with an empty body
  (session.go:533-547). The bridge then learns with its next poll.

* The bridge page's lane and WebSocket modes, and how it creates a session and
  queues messages meanwhile (page.go:198-224). In https mode it is part of
  `HttpsCarrier`.
* `AcquireWebSocket` of the multiplexed `websocket` mode is a flag that is set
  once; the loops of its socket call `ProcessUp` and `Poll`, which `MuxSession`
  lets handlers call with any sequence and cursor.
* The manager's rate limiters and its global budget: token buckets over real
  time, and a sum that the session models see as any answer.
* The static site, configuration loading, capability derivation, the admin
  endpoints, the entry point and the deployment scripts have no behaviour over
  time that a model checker would say anything about. The pages under `web/sites`
  and their prebuilt JavaScript are content the relay serves to visitors; they
  take no part in relaying.

## Running

    tlc -workers 2 -config MCMuxUplink.cfg MCMuxSession
    tlc -workers 2 -config MCLanes.cfg MCLaneSession
    tlapm MuxQueueProofs.tla
