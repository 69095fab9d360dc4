---------------------------- MODULE MCMuxSession ----------------------------
(***************************************************************************)
(* Small instances of MuxSession.                                          *)
(***************************************************************************)
EXTENDS MuxLiveness, TLC

F(type, id, n) == [type |-> type, id |-> id, n |-> n]

Open(id) == F("OPEN", id, 0)
Data(id, n) == F("DATA", id, n)
Window(id, n) == F("WINDOW", id, n)
Shut(id) == F("CLOSE", id, 0)

PollerSymmetry == Permutations(Pollers)

UpperSymmetry == Permutations(Uppers)

(* Two streams and room for one tombstone.  A stream is opened, written to *)
(* and closed while the other takes its place; among the bodies are one    *)
(* that exceeds the window and one that is not a batch of frames.          *)
UplinkBodies ==
  {<<Open(1), Data(1, 2), Data(1, 1)>>, <<Data(1, 1), Data(1, 1)>>,
   <<Shut(1), Open(2)>>, <<Open(1), Open(2)>>, <<Shut(1), Data(2, 1)>>,
   <<F("PARTIAL", 0, 0)>>}

(* A stream is opened, fed, granted credit and closed; a second one is     *)
(* refused.  Both come again: in the body that closed the stream, or in a  *)
(* later one.                                                              *)
DownlinkBodies ==
  {<<Open(1), Data(1, 1), Data(1, 1)>>, <<Data(1, 1), Window(1, 1)>>, <<Shut(1)>>,
   <<Open(1), Open(2)>>, <<Shut(1), Open(1)>>}

LivenessBodies == {<<Open(1), Data(1, 1)>>, <<Data(1, 1), Shut(1)>>}

(* Two streams compete for the session's budget.                           *)
BudgetBodies == {<<Open(1), Open(2), Data(1, 1), Window(2, 1)>>}

=============================================================================
