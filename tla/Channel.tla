------------------------------ MODULE Channel ------------------------------
(***************************************************************************)
(* What one direction of a carrier promises to those who use it: frames    *)
(* arrive in the order in which they were sent, none twice and none        *)
(* missing, until the channel breaks; and as long as it does not break,    *)
(* every frame arrives.                                                    *)
(*                                                                         *)
(* A frame is the number under which it was sent.                          *)
(***************************************************************************)
EXTENDS Naturals, Sequences

VARIABLES
  sent,        \* how many frames were sent
  delivered,   \* the frames that arrived, in the order of arrival
  broken       \* the channel makes no promise to deliver any more

channel == <<sent, delivered, broken>>

(* Frames a + 1 to b.                                                      *)
Interval(a, b) == [i \in 1 .. b - a |-> a + i]

Init ==
  /\ sent = 0
  /\ delivered = <<>>
  /\ broken = FALSE

(* A sender need not know that the channel is broken.                      *)
Send ==
  /\ sent' = sent + 1
  /\ UNCHANGED <<delivered, broken>>

(* Any number of frames arrive together.                                   *)
Deliver ==
  /\ \E n \in Len(delivered) + 1 .. sent : delivered' = Interval(0, n)
  /\ UNCHANGED <<sent, broken>>

Break ==
  /\ ~broken
  /\ broken' = TRUE
  /\ UNCHANGED <<sent, delivered>>

Next == Send \/ Deliver \/ Break

Spec == Init /\ [][Next]_channel

FairSpec == Spec /\ WF_channel(~broken /\ Deliver)

=============================================================================
