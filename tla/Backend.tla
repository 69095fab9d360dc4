------------------------------ MODULE Backend ------------------------------
(***************************************************************************)
(* The goroutines of one backendStream: run, writeLoop and readLoop, and   *)
(* the session's critical sections they enter.                             *)
(*                                                                         *)
(* A critical section that does nothing but touch the session is one       *)
(* action, enabled when `locked` is FALSE; only the application of an      *)
(* uplink body holds the mutex over several steps.  Receiving from a       *)
(* channel needs no mutex.  connection.Write and connection.Read are       *)
(* folded into the critical section that follows them, since nothing is    *)
(* shared in between; a loop that returns cancels its backend at once,     *)
(* because backendStream.close follows without touching the session.       *)
(***************************************************************************)
EXTENDS SessionCore

CONSTANT PoolRefuses   \* the classes the global pool may turn down

VARIABLES
  ses,       \* what Session.mu guards
  locked,    \* Session.mu is held by an uplink handler
  backends   \* the goroutines of each stream's backend

ASSUME PoolAssumption == PoolRefuses \subseteq Classes

PoolAnswers(class) == IF class \in PoolRefuses THEN BOOLEAN ELSE {TRUE}

BackendState ==
  [run : {"none", "opened", "dialing", "streaming", "ending", "done"},
   writer : {"off", "next", "wait", "write", "finish", "exit"},
   inHand : Nat,
   reader : {"off", "next", "wait", "read", "exit"},
   allowance : Nat,
   refused : BOOLEAN]   \* readLoop returned because backendData was refused

NoBackend == [run |-> "none", writer |-> "off", inHand |-> 0,
              reader |-> "off", allowance |-> 0, refused |-> FALSE]

BackendTypeOK ==
  /\ ses \in Session
  /\ locked \in BOOLEAN
  /\ backends \in [StreamIds -> BackendState]

BackendInit ==
  /\ ses = NewSession
  /\ locked = FALSE
  /\ backends = [id \in StreamIds |-> NoBackend]

Live(id) == ~ses.closed /\ ses.streams[id].live

Cancelled(id) == id \in ses.cancelled

-----------------------------------------------------------------------------
(* backendStream.run                                                       *)

Dialled(id) ==
  /\ backends[id].run = "dialing"
  /\ ~Cancelled(id)
  /\ backends' = [backends EXCEPT ![id].run = "streaming",
                                  ![id].writer = "next", ![id].reader = "next"]
  /\ UNCHANGED <<ses, locked>>

(* The dial failed, timed out, or its context was cancelled meanwhile.     *)
DialFailed(id) ==
  /\ backends[id].run = "dialing"
  /\ backends' = [backends EXCEPT ![id].run = "ending"]
  /\ UNCHANGED <<ses, locked>>

(* readLoop has returned and writeDone is closed.                          *)
LoopsReturned(id) ==
  /\ backends[id].run = "streaming"
  /\ backends[id].writer = "exit"
  /\ backends[id].reader = "exit"
  /\ backends' = [backends EXCEPT ![id].run = "ending"]
  /\ UNCHANGED <<ses, locked>>

ClosedByBackend_keepsStream(s, id, pool) ==
  QueueFrame(s, [type |-> "CLOSE", id |-> id, n |-> 0])

(* The deferred backendClosed: the client learns of the end through CLOSE, *)
(* and a session that cannot queue it is closed.                           *)
ClosedByBackend(s, id, pool) ==
  LET ended == EndStream(s, id)
      frame == [type |-> "CLOSE", id |-> id, n |-> 0]
  IN  IF CanQueue(ended, frame, pool)
      THEN QueueFrame(ended, frame)
      ELSE CloseSession(ended)

BackendClosed(id) ==
  /\ ~locked
  /\ backends[id].run = "ending"
  /\ \E pool \in PoolAnswers("control") :
       ses' = CancelBackend(IF Live(id) THEN ClosedByBackend(ses, id, pool) ELSE ses,
                            {id})
  /\ backends' = [backends EXCEPT ![id].run = "done"]
  /\ UNCHANGED locked

-----------------------------------------------------------------------------
(* writeLoop                                                               *)

WriterExits(id) ==
  backends' = [backends EXCEPT ![id].writer = "exit", ![id].inHand = 0]

(* nextWrite                                                               *)
NextWrite(id) ==
  /\ ~locked
  /\ backends[id].writer = "next"
  /\ IF ~Live(id)
     THEN /\ WriterExits(id)
          /\ ses' = CancelBackend(ses, {id})
     ELSE IF ses.streams[id].writes # <<>>
     THEN /\ backends' = [backends EXCEPT ![id].writer = "write",
                                          ![id].inHand = Head(ses.streams[id].writes)]
          /\ ses' = [ses EXCEPT !.streams[id].writes = Tail(@)]
     ELSE /\ backends' = [backends EXCEPT ![id].writer = "wait"]
          /\ UNCHANGED ses
  /\ UNCHANGED locked

WriterWakes(id) ==
  /\ backends[id].writer = "wait"
  /\ ses.streams[id].writeNotify
  /\ ses' = [ses EXCEPT !.streams[id].writeNotify = FALSE]
  /\ backends' = [backends EXCEPT ![id].writer = "next"]
  /\ UNCHANGED locked

WriterStops(id) ==
  /\ backends[id].writer = "wait"
  /\ ses.closed \/ Cancelled(id)
  /\ WriterExits(id)
  /\ ses' = CancelBackend(ses, {id})
  /\ UNCHANGED locked

(* backendDrained: the bytes a write delivered leave the budget and their  *)
(* window is returned to the client.                                       *)
CanDrain(s, id, k) ==
  LET stream == s.streams[id]
  IN  /\ ~s.closed /\ stream.live
      /\ k > 0
      /\ k <= stream.pendingWriteBytes
      /\ k <= stream.pendingWriteCost
      /\ stream.receiveWindow + k <= InitialStreamWindow

Drain_costKept(s, id, k) ==
  [ReleasePending(s, k, 0) EXCEPT !.streams[id].pendingWriteBytes = @ - k,
                                  !.streams[id].receiveWindow = @ + k]

Drain(s, id, k) ==
  [ReleasePending(s, k, 0) EXCEPT !.streams[id].pendingWriteBytes = @ - k,
                                  !.streams[id].pendingWriteCost = @ - k,
                                  !.streams[id].receiveWindow = @ + k]

(* What one connection.Write that delivered k bytes does to the session;   *)
(* Drained tells whether backendDrained reports success.                  *)
Drained(s, id, k, pool) ==
  CanDrain(s, id, k) /\ CanQueue(Drain(s, id, k), [type |-> "WINDOW", id |-> id, n |-> k], pool)

AfterWrite(s, id, k, pool) ==
  IF ~CanDrain(s, id, k) THEN s
  ELSE IF Drained(s, id, k, pool)
  THEN QueueFrame(Drain(s, id, k), [type |-> "WINDOW", id |-> id, n |-> k])
  ELSE Drain(s, id, k)

Write(id) ==
  /\ ~locked
  /\ backends[id].writer = "write"
  /\ \E pool \in PoolAnswers("control") :
       LET k == backends[id].inHand
           after == AfterWrite(ses, id, k, pool)
       IN  IF Drained(ses, id, k, pool)
           THEN /\ backends' = [backends EXCEPT ![id].writer = "finish", ![id].inHand = 0]
                /\ ses' = after
           ELSE /\ WriterExits(id)
                /\ ses' = CancelBackend(after, {id})
  /\ UNCHANGED locked

(* A write error, after k of the bytes were delivered.                     *)
WriteFails(id) ==
  /\ ~locked
  /\ backends[id].writer = "write"
  /\ \E pool \in PoolAnswers("control"), k \in 0 .. backends[id].inHand - 1 :
       ses' = CancelBackend(AfterWrite(ses, id, k, pool), {id})
  /\ WriterExits(id)
  /\ UNCHANGED locked

(* backendWriteFinished                                                    *)
CanFinishWrite(s, id) ==
  LET stream == s.streams[id]
  IN  /\ ~s.closed /\ stream.live
      /\ stream.pendingWriteItems # 0
      /\ stream.pendingWriteCost >= QueueItemCost

FinishWrite(s, id) ==
  [ReleasePending(s, QueueItemCost, 1)
     EXCEPT !.streams[id].pendingWriteItems = @ - 1,
            !.streams[id].pendingWriteCost = @ - QueueItemCost]

WriteFinished(id) ==
  /\ ~locked
  /\ backends[id].writer = "finish"
  /\ IF CanFinishWrite(ses, id)
     THEN /\ ses' = FinishWrite(ses, id)
          /\ backends' = [backends EXCEPT ![id].writer = "next"]
     ELSE /\ ses' = CancelBackend(ses, {id})
          /\ WriterExits(id)
  /\ UNCHANGED locked

-----------------------------------------------------------------------------
(* readLoop                                                                *)

ReaderExits(id, refused) ==
  backends' = [backends EXCEPT ![id].reader = "exit", ![id].allowance = 0,
                               ![id].refused = refused]

(* nextReadAllowance: the credit the client granted, in chunks, as far as  *)
(* the downlink partition has room.                                        *)
ReadAllowance(s, id) ==
  IF s.streams[id].sendCredit = 0
  THEN 0
  ELSE DataFrameAllowance(s.pendingCost, s.pendingItems,
                          Minimum(s.streams[id].sendCredit, DataChunk))

NextRead(id) ==
  /\ ~locked
  /\ backends[id].reader = "next"
  /\ IF ~Live(id)
     THEN /\ ReaderExits(id, FALSE)
          /\ ses' = CancelBackend(ses, {id})
     ELSE IF ReadAllowance(ses, id) # 0
     THEN /\ backends' = [backends EXCEPT ![id].reader = "read",
                                          ![id].allowance = ReadAllowance(ses, id)]
          /\ UNCHANGED ses
     ELSE /\ backends' = [backends EXCEPT ![id].reader = "wait"]
          /\ ses' = [ses EXCEPT !.budgetWaiters = @ \cup {id}]
  /\ UNCHANGED locked

CreditWakesReader(id) ==
  /\ backends[id].reader = "wait"
  /\ ses.streams[id].creditNotify
  /\ ses' = [ses EXCEPT !.streams[id].creditNotify = FALSE,
                        !.budgetWaiters = @ \ {id}]
  /\ backends' = [backends EXCEPT ![id].reader = "next"]
  /\ UNCHANGED locked

BudgetWakesReader(id) ==
  /\ backends[id].reader = "wait"
  /\ id \notin ses.budgetWaiters
  /\ backends' = [backends EXCEPT ![id].reader = "next"]
  /\ UNCHANGED <<ses, locked>>

ReaderStops(id) ==
  /\ backends[id].reader = "wait"
  /\ ses.closed \/ Cancelled(id)
  /\ ReaderExits(id, FALSE)
  /\ ses' = CancelBackend([ses EXCEPT !.budgetWaiters = @ \ {id}], {id})
  /\ UNCHANGED locked

(* connection.Read brought k bytes and backendData queues them; the credit *)
(* is spent even when the queue refuses them.                              *)
CanTakeData(s, id, k) ==
  ~s.closed /\ s.streams[id].live /\ k <= s.streams[id].sendCredit

SpendCredit(s, id, k) == [s EXCEPT !.streams[id].sendCredit = @ - k]

Read(id) ==
  /\ ~locked
  /\ backends[id].reader = "read"
  /\ \E pool \in PoolAnswers("down"), k \in 1 .. backends[id].allowance :
       LET frame == [type |-> "DATA", id |-> id, n |-> k]
           spent == SpendCredit(ses, id, k)
       IN  IF ~CanTakeData(ses, id, k)
           THEN /\ ReaderExits(id, FALSE)
                /\ ses' = CancelBackend(ses, {id})
           ELSE IF CanQueue(spent, frame, pool)
           THEN /\ backends' = [backends EXCEPT ![id].reader = "next",
                                                ![id].allowance = 0]
                /\ ses' = QueueFrame(spent, frame)
           ELSE /\ ReaderExits(id, TRUE)
                /\ ses' = CancelBackend(spent, {id})
  /\ UNCHANGED locked

(* End of file, an error, or the connection was closed.                    *)
ReadEnds(id) ==
  /\ backends[id].reader = "read"
  /\ ReaderExits(id, FALSE)
  /\ ses' = CancelBackend(ses, {id})
  /\ UNCHANGED locked

-----------------------------------------------------------------------------
BackendStep(id) ==
  \/ Dialled(id) \/ DialFailed(id) \/ LoopsReturned(id) \/ BackendClosed(id)
  \/ NextWrite(id) \/ WriterWakes(id) \/ WriterStops(id)
  \/ Write(id) \/ WriteFails(id) \/ WriteFinished(id)
  \/ NextRead(id) \/ CreditWakesReader(id) \/ BudgetWakesReader(id)
  \/ ReaderStops(id) \/ Read(id) \/ ReadEnds(id)

=============================================================================
