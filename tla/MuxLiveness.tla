----------------------------- MODULE MuxLiveness -----------------------------
(***************************************************************************)
(* What a multiplexed session eventually does.                             *)
(*                                                                         *)
(* The Go scheduler runs every goroutine that can run, a dial ends because *)
(* it has a timeout, and a connection that was closed returns from Read    *)
(* and Write.  Nothing is assumed of the clients, of a backend that        *)
(* neither sends nor accepts bytes, or of the long-poll deadline.          *)
(***************************************************************************)
EXTENDS MuxSafety

BackendFairness(id) ==
  /\ WF_vars(BackendNext(id) /\ backends[id].run \in {"dialing", "ending"})
  /\ WF_vars(LoopsReturned(id) /\ UNCHANGED <<ups, polls>>)
  /\ WF_vars((NextWrite(id) \/ WriterWakes(id) \/ WriterStops(id) \/ WriteFinished(id))
             /\ UNCHANGED <<ups, polls>>)
  /\ WF_vars(Cancelled(id) /\ (Write(id) \/ WriteFails(id)) /\ UNCHANGED <<ups, polls>>)
  /\ WF_vars((NextRead(id) \/ CreditWakesReader(id) \/ BudgetWakesReader(id)
              \/ ReaderStops(id)) /\ UNCHANGED <<ups, polls>>)
  /\ WF_vars(Cancelled(id) /\ (Read(id) \/ ReadEnds(id)) /\ UNCHANGED <<ups, polls>>)

PollFairness(p) ==
  /\ WF_vars(PollWakes(p))
  /\ WF_vars(PollResumes(p))
  /\ WF_vars(PollSuperseded(p))
  /\ WF_vars(PollCloses(p))
  /\ WF_vars(PollReturns(p))

Fairness ==
  /\ \A u \in Uppers : WF_vars(UpStep(u))
  /\ \A p \in Pollers : PollFairness(p)
  /\ \A id \in StreamIds : BackendFairness(id)

FairSpec == Spec /\ Fairness

(* The poll that owns the downlink is answered once a frame is queued or   *)
(* the session is closed, without waiting for its deadline.                *)
PollServed ==
  \A p \in Pollers :
    (polls[p].pc = "parked" /\ lane0.owner = p /\ (lane0.frames # <<>> \/ ses.closed))
      ~> polls[p].pc \notin {"parked", "woken"}

(* Whoever ends a stream, its goroutines return and report it, so that     *)
(* Session.wait and the manager's stream count come to their end.          *)
BackendsWindDown ==
  \A id \in StreamIds :
    (backends[id].run \notin {"none", "done"} /\ ~Live(id)) ~> backends[id].run = "done"

=============================================================================
