------------------------- MODULE HttpsCarrierProofs -------------------------
(***************************************************************************)
(* The https carrier is a FIFO channel in both directions, and only        *)
(* requests that were given up make the relay close the session.           *)
(***************************************************************************)
EXTENDS HttpsCarrier, TLAPS

(* Frames a + 1 to b, as in Channel.                                       *)
Span(a, b) == [i \in 1 .. b - a |-> a + i]

-----------------------------------------------------------------------------
(* Spans.                                                                  *)

(* A span is a sequence of numbers.                                        *)
LEMMA SpanType ==
  ASSUME NEW a \in Nat, NEW b \in Nat, a <= b
  PROVE  Span(a, b) \in Seq(Nat) /\ Len(Span(a, b)) = b - a
BY DEF Span

LEMMA SpanEmpty ==
  ASSUME NEW a \in Nat, NEW s \in Seq(Nat), Len(s) = 0
  PROVE  s = Span(a, a)
BY DEF Span

(* joinPending and takeDownBatchLocked cut a span in two spans.            *)
LEMMA SpanCut ==
  ASSUME NEW a \in Nat, NEW b \in Nat, a <= b, NEW k \in 1 .. b - a
  PROVE  /\ SubSeq(Span(a, b), 1, k) = Span(a, a + k)
         /\ SubSeq(Span(a, b), k + 1, b - a) = Span(a + k, b)
BY DEF Span

(* A frame is posted.                                                      *)
LEMMA SpanAppend ==
  ASSUME NEW a \in Nat, NEW b \in Nat, a <= b
  PROVE  Append(Span(a, b), b + 1) = Span(a, b + 1)
BY DEF Span

(* A batch arrives.                                                        *)
LEMMA SpanJoin ==
  ASSUME NEW a \in Nat, NEW b \in Nat, NEW c \in Nat, a <= b, b <= c
  PROVE  Span(a, b) \o Span(b, c) = Span(a, c)
BY DEF Span

-----------------------------------------------------------------------------
(* Types.                                                                  *)

(* What the steps do to sequences of frames.                               *)
LEMMA SequenceTypes ==
  /\ <<>> \in Seq(Nat)
  /\ \A s \in Seq(Nat), k \in Nat :
       k \in 1 .. Len(s) =>
         SubSeq(s, 1, k) \in Seq(Nat) /\ SubSeq(s, k + 1, Len(s)) \in Seq(Nat)
  /\ \A s \in Seq(Nat), n \in Nat : Append(s, n) \in Seq(Nat)
  /\ \A s, t \in Seq(Nat) : s \o t \in Seq(Nat)
OBVIOUS

UpPcs == {"idle", "sent", "parsing", "acked", "busy", "refused", "pause"}

DownPcs == {"idle", "sent", "parked", "batch", "empty", "refused", "pause"}

(* The records of calls and requests.                                      *)
LEMMA RecordTypes ==
  /\ NoUpCall \in UpCall /\ NoDownCall \in DownCall
  /\ NotParsing \in Parsing /\ NoFault \in Fault
  /\ \A c \in UpCall, pc \in UpPcs : [c EXCEPT !.pc = pc] \in UpCall
  /\ \A c \in UpCall : [c EXCEPT !.expired = TRUE] \in UpCall
  /\ \A c \in UpCall :
       c.attempt + 1 < MaxAttempts =>
         [c EXCEPT !.pc = "pause", !.attempt = @ + 1] \in UpCall
  /\ \A b \in Seq(Nat) : [NoUpCall EXCEPT !.pc = "sent", !.body = b] \in UpCall
  /\ \A c \in DownCall, pc \in DownPcs : [c EXCEPT !.pc = pc] \in DownCall
  /\ \A n \in 0 .. MaxAttempts - 1 : [NoDownCall EXCEPT !.pc = "pause", !.attempt = n] \in DownCall
  /\ \A c \in DownCall, b \in Seq(Nat), n \in Nat :
       [c EXCEPT !.pc = "batch", !.body = b, !.next = n] \in DownCall
  /\ \A r \in Parsing : [r EXCEPT !.live = FALSE] \in Parsing
<1>0. 0 \in 0 .. MaxAttempts - 1 /\ 0 \in Nat
  BY HttpsAssumption
<1>1. NoUpCall \in UpCall /\ NotParsing \in Parsing
  BY <1>0, SequenceTypes, Zenon DEF NoUpCall, UpCall, NotParsing, Parsing
<1>2. NoDownCall \in DownCall /\ NoFault \in Fault
  BY <1>0, SequenceTypes, Zenon DEF NoDownCall, DownCall, NoFault, Fault
<1>3. \A c \in UpCall, pc \in UpPcs : [c EXCEPT !.pc = pc] \in UpCall
  BY DEF UpCall, UpPcs
<1>4. \A c \in UpCall : [c EXCEPT !.expired = TRUE] \in UpCall
  BY DEF UpCall
<1>5. \A c \in UpCall :
        c.attempt + 1 < MaxAttempts =>
          [c EXCEPT !.pc = "pause", !.attempt = @ + 1] \in UpCall
  <2> TAKE c \in UpCall
  <2> HAVE c.attempt + 1 < MaxAttempts
  <2>1. c.attempt + 1 \in 0 .. MaxAttempts - 1
    BY HttpsAssumption DEF UpCall
  <2> QED BY <2>1, Zenon DEF UpCall
<1>6. \A b \in Seq(Nat) : [NoUpCall EXCEPT !.pc = "sent", !.body = b] \in UpCall
  BY <1>1 DEF UpCall
<1>7. \A c \in DownCall, pc \in DownPcs : [c EXCEPT !.pc = pc] \in DownCall
  BY DEF DownCall, DownPcs
<1>8. \A n \in 0 .. MaxAttempts - 1 : [NoDownCall EXCEPT !.pc = "pause", !.attempt = n] \in DownCall
  BY <1>2 DEF DownCall
<1>9. \A c \in DownCall, b \in Seq(Nat), n \in Nat :
        [c EXCEPT !.pc = "batch", !.body = b, !.next = n] \in DownCall
  BY DEF DownCall
<1>10. \A r \in Parsing : [r EXCEPT !.live = FALSE] \in Parsing
  BY DEF Parsing
<1> QED
  BY <1>1, <1>2, <1>3, <1>4, <1>5, <1>6, <1>7, <1>8, <1>9, <1>10

-----------------------------------------------------------------------------
(* Every step keeps the types.                                             *)

(* The relay takes in an uplink request.                                   *)
LEMMA ProcessUpType ==
  ASSUME TypeOK, NEW r \in Request, NEW live \in BOOLEAN, ProcessUp(r, live),
         UNCHANGED <<closed, deleteSent>>
  PROVE  EndsType' /\ RelayUpType' /\ RelayDownType'
<1>1. r.seq \in Nat /\ r.body \in Seq(Nat)
  BY DEF Request
<1>2. parsing' \in Parsing
  BY <1>1 DEF TypeOK, RelayUpType, ProcessUp, Parsing
<1>3. fault' \in Fault
  <2>1. (~live) \in BOOLEAN /\ (r.seq < lastUpSequence) \in BOOLEAN
    OBVIOUS
  <2>2. [kind |-> "up", late |-> ~live, behind |-> r.seq < lastUpSequence] \in Fault
    BY <2>1, Zenon DEF Fault
  <2> QED BY <2>2 DEF TypeOK, EndsType, ProcessUp
<1> QED
  BY <1>2, <1>3, SequenceTypes
  DEF TypeOK, EndsType, RelayUpType, RelayDownType, ProcessUp, SessionCloses

(* A poll takes a batch.                                                   *)
LEMMA TakeBatchType ==
  ASSUME TypeOK, TakeBatch, UNCHANGED queued
  PROVE  RelayDownType'
BY SequenceTypes DEF TypeOK, RelayDownType, TakeBatch

(* A poll acknowledges.                                                    *)
LEMMA AcknowledgesType ==
  ASSUME TypeOK, NEW who \in {"live", "late"}, Acknowledges(who),
         UNCHANGED <<queued, closed, deleteSent>>
  PROVE  RelayDownType' /\ EndsType'
BY TakeBatchType, SequenceTypes DEF TypeOK, RelayDownType, EndsType, Acknowledges

(* A poll with a wrong cursor closes the session.                          *)
LEMMA PollFailsType ==
  ASSUME TypeOK, NEW c \in Nat, NEW live \in BOOLEAN, PollFails(c, live),
         UNCHANGED <<queued, closed, deleteSent>>
  PROVE  RelayDownType' /\ EndsType'
<1>1. fault' \in Fault
  BY DEF PollFails, Fault
<1> QED
  BY <1>1, SequenceTypes DEF TypeOK, RelayDownType, EndsType, PollFails, SessionCloses

(* A poll that is answered at once.                                        *)
LEMMA PollUnservedType ==
  ASSUME TypeOK, PollUnserved, UNCHANGED <<queued, closed, deleteSent>>
  PROVE  RelayDownType' /\ EndsType'
BY DEF TypeOK, RelayDownType, EndsType, PollUnserved

(* The request of the running call.                                        *)
LEMMA CallRequest ==
  ASSUME TypeOK
  PROVE  [seq |-> upSequence, body |-> upCall.body] \in Request
BY DEF TypeOK, UpType, UpCall, Request

(* UpStart keeps the types.                                              *)
LEMMA UpStartType == TypeOK /\ UpStart => TypeOK'
<1> SUFFICES ASSUME TypeOK, UpStart PROVE TypeOK'
  OBVIOUS
<1> PICK k \in 1 .. Len(upPending) :
      /\ upCall' = [NoUpCall EXCEPT !.pc = "sent", !.body = SubSeq(upPending, 1, k)]
      /\ upPending' = SubSeq(upPending, k + 1, Len(upPending))
  BY DEF UpStart
<1>1. upPending \in Seq(Nat)
  BY DEF TypeOK, UpType
<1>2. SubSeq(upPending, 1, k) \in Seq(Nat) /\ upPending' \in Seq(Nat)
  BY <1>1, SequenceTypes
<1>3. upCall' \in UpCall
  BY <1>2, RecordTypes, Zenon
<1> QED
  BY <1>2, <1>3
  DEF TypeOK, EndsType, UpType, RelayUpType, BridgeDownType, RelayDownType,
      bridgeUp, bridgeDown, relayUp, relayDown, ends,
      UpStart

(* UpRetry keeps the types.                                              *)
LEMMA UpRetryType == TypeOK /\ UpRetry => TypeOK'
BY HttpsAssumption, RecordTypes
DEF TypeOK, EndsType, UpType, RelayUpType, BridgeDownType, RelayDownType,
      bridgeUp, bridgeDown, relayUp, relayDown, ends,
      UpRetry, UpPc, UpPcs

(* UpFetchFails keeps the types.                                         *)
LEMMA UpFetchFailsType == TypeOK /\ UpFetchFails => TypeOK'
<1> SUFFICES ASSUME TypeOK, UpFetchFails PROVE TypeOK'
  OBVIOUS
<1>1. upCall' \in UpCall
  <2>1. CASE closed \/ upCall.attempt + 1 >= MaxAttempts
    BY <2>1, RecordTypes DEF UpFetchFails
  <2>2. CASE ~(closed \/ upCall.attempt + 1 >= MaxAttempts)
    <3>1. upCall \in UpCall /\ upCall.attempt + 1 < MaxAttempts
      BY <2>2, HttpsAssumption DEF TypeOK, UpType, UpCall
    <3> QED BY <2>2, <3>1, RecordTypes, Zenon DEF UpFetchFails
  <2> QED BY <2>1, <2>2
<1>2. parsing' \in Parsing
  BY RecordTypes, Zenon DEF UpFetchFails, TypeOK, RelayUpType
<1>3. lateUps' \subseteq Request
  BY CallRequest DEF UpFetchFails, TypeOK, UpType
<1> QED
  BY <1>1, <1>2, <1>3
  DEF TypeOK, EndsType, UpType, RelayUpType, BridgeDownType, RelayDownType,
      bridgeUp, bridgeDown, relayUp, relayDown, ends,
      UpFetchFails, Fail

(* UpAcked keeps the types.                                              *)
LEMMA UpAckedType == TypeOK /\ UpAcked => TypeOK'
<1> SUFFICES ASSUME TypeOK, UpAcked PROVE TypeOK'
  OBVIOUS
<1>1. upCall' \in UpCall
  BY RecordTypes, Zenon DEF UpAcked
<1>2. upSequence' \in Nat
  BY DEF TypeOK, UpType, UpAcked
<1> QED
  BY <1>1, <1>2
  DEF TypeOK, EndsType, UpType, RelayUpType, BridgeDownType, RelayDownType,
      bridgeUp, bridgeDown, relayUp, relayDown, ends,
      UpAcked

(* UpBusy keeps the types.                                               *)
LEMMA UpBusyType == TypeOK /\ UpBusy => TypeOK'
BY HttpsAssumption, RecordTypes
DEF TypeOK, EndsType, UpType, RelayUpType, BridgeDownType, RelayDownType,
      bridgeUp, bridgeDown, relayUp, relayDown, ends,
      UpBusy, UpPc, UpPcs

(* UpRejected keeps the types.                                           *)
LEMMA UpRejectedType == TypeOK /\ UpRejected => TypeOK'
BY HttpsAssumption, RecordTypes
DEF TypeOK, EndsType, UpType, RelayUpType, BridgeDownType, RelayDownType,
      bridgeUp, bridgeDown, relayUp, relayDown, ends,
      UpRejected, Fail

(* DownStart keeps the types.                                            *)
LEMMA DownStartType == TypeOK /\ DownStart => TypeOK'
BY HttpsAssumption, RecordTypes
DEF TypeOK, EndsType, UpType, RelayUpType, BridgeDownType, RelayDownType,
      bridgeUp, bridgeDown, relayUp, relayDown, ends,
      DownStart, DownPcs

(* DownRetry keeps the types.                                            *)
LEMMA DownRetryType == TypeOK /\ DownRetry => TypeOK'
BY HttpsAssumption, RecordTypes
DEF TypeOK, EndsType, UpType, RelayUpType, BridgeDownType, RelayDownType,
      bridgeUp, bridgeDown, relayUp, relayDown, ends,
      DownRetry, DownPcs

(* DownFetchFails keeps the types.                                       *)
LEMMA DownFetchFailsType == TypeOK /\ DownFetchFails => TypeOK'
<1> SUFFICES ASSUME TypeOK, DownFetchFails PROVE TypeOK'
  OBVIOUS
<1>1. downCall.attempt + 1 < MaxAttempts => downCall.attempt + 1 \in 0 .. MaxAttempts - 1
  BY HttpsAssumption DEF TypeOK, BridgeDownType, DownCall
<1>2. downCall' \in DownCall
  <2>1. CASE closed \/ downCall.attempt + 1 >= MaxAttempts
    BY <2>1, RecordTypes DEF DownFetchFails
  <2>2. CASE ~(closed \/ downCall.attempt + 1 >= MaxAttempts)
    <3>1. downCall.attempt + 1 < MaxAttempts
      BY <2>2, HttpsAssumption DEF TypeOK, BridgeDownType, DownCall
    <3> QED BY <1>1, <2>2, <3>1, RecordTypes, Zenon DEF DownFetchFails
  <2> QED BY <2>1, <2>2
<1>3. latePolls' \subseteq Nat /\ owner' \in {"none", "live", "late"}
  BY DEF DownFetchFails, TypeOK, BridgeDownType, RelayDownType
<1> QED
  BY <1>2, <1>3
  DEF TypeOK, EndsType, UpType, RelayUpType, BridgeDownType, RelayDownType,
      bridgeUp, bridgeDown, relayUp, relayDown, ends,
      DownFetchFails, Fail

(* DownEmpty keeps the types.                                            *)
LEMMA DownEmptyType == TypeOK /\ DownEmpty => TypeOK'
BY HttpsAssumption, RecordTypes
DEF TypeOK, EndsType, UpType, RelayUpType, BridgeDownType, RelayDownType,
      bridgeUp, bridgeDown, relayUp, relayDown, ends,
      DownEmpty

(* DownReceived keeps the types.                                         *)
LEMMA DownReceivedType == TypeOK /\ DownReceived => TypeOK'
<1> SUFFICES ASSUME TypeOK, DownReceived PROVE TypeOK'
  OBVIOUS
<1>1. downCall.body \in Seq(Nat) /\ downCall.next \in Nat
  BY DEF TypeOK, BridgeDownType, DownCall
<1>2. received' \in Seq(Nat) /\ cursor' \in Nat
  BY <1>1, SequenceTypes DEF TypeOK, BridgeDownType, DownReceived
<1> QED
  BY <1>2, RecordTypes
  DEF TypeOK, EndsType, UpType, RelayUpType, BridgeDownType, RelayDownType,
      bridgeUp, bridgeDown, relayUp, relayDown, ends,
      DownReceived

(* DownRejected keeps the types.                                         *)
LEMMA DownRejectedType == TypeOK /\ DownRejected => TypeOK'
BY HttpsAssumption, RecordTypes
DEF TypeOK, EndsType, UpType, RelayUpType, BridgeDownType, RelayDownType,
      bridgeUp, bridgeDown, relayUp, relayDown, ends,
      DownRejected, Fail

(* DeleteArrives keeps the types.                                        *)
LEMMA DeleteArrivesType == TypeOK /\ DeleteArrives => TypeOK'
BY HttpsAssumption, SequenceTypes
DEF TypeOK, EndsType, UpType, RelayUpType, BridgeDownType, RelayDownType,
      bridgeUp, bridgeDown, relayUp, relayDown, ends,
      DeleteArrives, SessionCloses

(* DeleteLost keeps the types.                                           *)
LEMMA DeleteLostType == TypeOK /\ DeleteLost => TypeOK'
BY HttpsAssumption
DEF TypeOK, EndsType, UpType, RelayUpType, BridgeDownType, RelayDownType,
      bridgeUp, bridgeDown, relayUp, relayDown, ends,
      DeleteLost

(* PollSuperseded keeps the types.                                       *)
LEMMA PollSupersededType == TypeOK /\ PollSuperseded => TypeOK'
BY HttpsAssumption, RecordTypes
DEF TypeOK, EndsType, UpType, RelayUpType, BridgeDownType, RelayDownType,
      bridgeUp, bridgeDown, relayUp, relayDown, ends,
      PollSuperseded, Answer, DownPcs

(* PollEnds keeps the types.                                             *)
LEMMA PollEndsType == TypeOK /\ PollEnds => TypeOK'
BY HttpsAssumption, RecordTypes
DEF TypeOK, EndsType, UpType, RelayUpType, BridgeDownType, RelayDownType,
      bridgeUp, bridgeDown, relayUp, relayDown, ends,
      PollEnds, Answer, DownPcs

(* PollDisconnects keeps the types.                                      *)
LEMMA PollDisconnectsType == TypeOK /\ PollDisconnects => TypeOK'
BY HttpsAssumption
DEF TypeOK, EndsType, UpType, RelayUpType, BridgeDownType, RelayDownType,
      bridgeUp, bridgeDown, relayUp, relayDown, ends,
      PollDisconnects

(* Accept keeps the types.                                               *)
LEMMA AcceptType == TypeOK /\ Accept => TypeOK'
BY HttpsAssumption, SequenceTypes
DEF TypeOK, EndsType, UpType, RelayUpType, BridgeDownType, RelayDownType,
      bridgeUp, bridgeDown, relayUp, relayDown, ends,
      Accept

(* RelayQueues keeps the types.                                          *)
LEMMA RelayQueuesType == TypeOK /\ RelayQueues => TypeOK'
BY HttpsAssumption, SequenceTypes
DEF TypeOK, EndsType, UpType, RelayUpType, BridgeDownType, RelayDownType,
      bridgeUp, bridgeDown, relayUp, relayDown, ends,
      RelayQueues

(* BridgeCloses keeps the types.                                         *)
LEMMA BridgeClosesType == TypeOK /\ BridgeCloses => TypeOK'
BY HttpsAssumption
DEF TypeOK, EndsType, UpType, RelayUpType, BridgeDownType, RelayDownType,
      bridgeUp, bridgeDown, relayUp, relayDown, ends,
      BridgeCloses, Fail

(* RelayCloses keeps the types.                                          *)
LEMMA RelayClosesType == TypeOK /\ RelayCloses => TypeOK'
BY HttpsAssumption, SequenceTypes
DEF TypeOK, EndsType, UpType, RelayUpType, BridgeDownType, RelayDownType,
      bridgeUp, bridgeDown, relayUp, relayDown, ends,
      RelayCloses, SessionCloses

(* UpDeadline keeps the types.                                           *)
LEMMA UpDeadlineType == TypeOK /\ UpDeadline => TypeOK'
BY HttpsAssumption, RecordTypes
DEF TypeOK, EndsType, UpType, RelayUpType, BridgeDownType, RelayDownType,
      bridgeUp, bridgeDown, relayUp, relayDown, ends,
      UpDeadline

(* UpArrives keeps the types.                                              *)
LEMMA UpArrivesType == TypeOK /\ UpArrives => TypeOK'
<1> SUFFICES ASSUME TypeOK, UpArrives PROVE TypeOK'
  OBVIOUS
<1> DEFINE r == [seq |-> upSequence, body |-> upCall.body]
<1>1. r \in Request
  BY CallRequest
<1>2. ProcessUp(r, TRUE) /\ UNCHANGED <<closed, deleteSent>>
  BY DEF UpArrives
<1>3. EndsType' /\ RelayUpType' /\ RelayDownType'
  BY <1>1, <1>2, ProcessUpType, Zenon
<1>4. (IF Verdict(r) = "fails" THEN "refused" ELSE Verdict(r)) \in UpPcs
  BY DEF Verdict, UpPcs
<1>5. upCall' \in UpCall
  BY <1>4, RecordTypes, Zenon DEF UpArrives, UpPc, TypeOK, UpType
<1> QED
  BY <1>3, <1>5 DEF UpArrives, TypeOK, UpType, BridgeDownType, bridgeDown

(* LateUpArrives keeps the types.                                          *)
LEMMA LateUpArrivesType == TypeOK /\ LateUpArrives => TypeOK'
<1> SUFFICES ASSUME TypeOK, LateUpArrives PROVE TypeOK'
  OBVIOUS
<1> PICK r \in lateUps : ProcessUp(r, FALSE)
  BY DEF LateUpArrives
<1>1. r \in Request /\ UNCHANGED <<closed, deleteSent>>
  BY DEF TypeOK, UpType, LateUpArrives
<1>2. EndsType' /\ RelayUpType' /\ RelayDownType'
  BY <1>1, ProcessUpType, Zenon
<1> QED
  BY <1>2 DEF LateUpArrives, TypeOK, UpType, BridgeDownType, bridgeUp, bridgeDown

(* DownArrives keeps the types.                                            *)
LEMMA DownArrivesType == TypeOK /\ DownArrives => TypeOK'
<1> SUFFICES ASSUME TypeOK, DownArrives PROVE TypeOK'
  OBVIOUS
<1> USE DEF DownPcs
<1>1. UNCHANGED <<queued, closed, deleteSent>> /\ cursor \in Nat
  BY DEF DownArrives, TypeOK, BridgeDownType
<1>2. unacked \in Seq(Nat) /\ downCursor \in Nat /\ downCall \in DownCall
  BY DEF TypeOK, RelayDownType, BridgeDownType
<1>3. RelayDownType' /\ EndsType' /\ downCall' \in DownCall
  <2>1. CASE Answer("refused") /\ PollUnserved
    BY <1>1, <1>2, <2>1, PollUnservedType, RecordTypes, Zenon DEF Answer
  <2>2. CASE AnswerWith(unacked, downCursor) /\ PollUnserved
    BY <1>1, <1>2, <2>2, PollUnservedType, RecordTypes, Zenon DEF AnswerWith
  <2>3. CASE Answer("refused") /\ PollFails(cursor, TRUE)
    BY <1>1, <1>2, <2>3, PollFailsType, RecordTypes, Zenon DEF Answer
  <2>4. CASE /\ Acknowledges("live")
             /\ IF owner' = "live" THEN Answer("parked")
                ELSE AnswerWith(unacked', downCursor')
    <3>1. RelayDownType' /\ EndsType'
      BY <1>1, <2>4, AcknowledgesType, Zenon
    <3>2. unacked' \in Seq(Nat) /\ downCursor' \in Nat
      BY <3>1 DEF RelayDownType
    <3>3. [downCall EXCEPT !.pc = "parked"] \in DownCall
      BY <1>2, RecordTypes
    <3>4. [downCall EXCEPT !.pc = "batch", !.body = unacked', !.next = downCursor']
            \in DownCall
      BY <1>2, <3>2, RecordTypes
    <3>5. downCall' \in DownCall
      BY <2>4, <3>3, <3>4, Zenon DEF Answer, AnswerWith
    <3> QED BY <3>1, <3>5
  <2> QED BY <2>1, <2>2, <2>3, <2>4, Zenon DEF DownArrives
<1> QED
  BY <1>3 DEF DownArrives, TypeOK, UpType, RelayUpType, BridgeDownType, bridgeUp, relayUp

(* LatePollArrives keeps the types.                                        *)
LEMMA LatePollArrivesType == TypeOK /\ LatePollArrives => TypeOK'
<1> SUFFICES ASSUME TypeOK, LatePollArrives PROVE TypeOK'
  OBVIOUS
<1> PICK c \in latePolls : PollUnserved \/ PollFails(c, FALSE) \/ Acknowledges("late")
  BY DEF LatePollArrives
<1>1. UNCHANGED <<queued, closed, deleteSent>> /\ c \in Nat
  BY DEF LatePollArrives, TypeOK, BridgeDownType
<1>2. RelayDownType' /\ EndsType'
  BY <1>1, PollUnservedType, PollFailsType, AcknowledgesType, Zenon
<1> QED
  BY <1>2
  DEF LatePollArrives, TypeOK, UpType, RelayUpType, BridgeDownType, bridgeUp, bridgeDown,
      relayUp

(* UpParsed keeps the types.                                               *)
LEMMA UpParsedType == TypeOK /\ UpParsed => TypeOK'
<1> SUFFICES ASSUME TypeOK, UpParsed PROVE TypeOK'
  OBVIOUS
<1> USE DEF UpPcs
<1>1. parsing.seq \in Nat /\ parsing.body \in Seq(Nat) /\ upCall \in UpCall
  BY DEF TypeOK, RelayUpType, UpType, Parsing
<1>2. committed' \in Seq(Nat)
  BY <1>1, SequenceTypes DEF UpParsed, TypeOK, RelayUpType
<1>3. upCall' \in UpCall
  BY <1>1, RecordTypes, Zenon DEF UpParsed
<1>4. parsing' \in Parsing
  BY RecordTypes, Zenon DEF UpParsed
<1> QED
  BY <1>1, <1>2, <1>3, <1>4
  DEF TypeOK, EndsType, UpType, RelayUpType, BridgeDownType, RelayDownType,
      bridgeUp, bridgeDown, relayUp, relayDown, ends,
      UpParsed

(* PollWakes keeps the types.                                              *)
LEMMA PollWakesType == TypeOK /\ PollWakes => TypeOK'
<1> SUFFICES ASSUME TypeOK, PollWakes PROVE TypeOK'
  OBVIOUS
<1>1. RelayDownType'
  BY TakeBatchType, Zenon DEF PollWakes
<1>2. unacked' \in Seq(Nat) /\ downCursor' \in Nat /\ downCall \in DownCall
  BY <1>1 DEF RelayDownType, TypeOK, BridgeDownType
<1>3. [downCall EXCEPT !.pc = "batch", !.body = unacked', !.next = downCursor']
        \in DownCall
  BY <1>2, RecordTypes
<1>4. downCall' \in DownCall
  BY <1>2, <1>3, Zenon DEF PollWakes, AnswerWith
<1> QED
  BY <1>1, <1>4
  DEF PollWakes, TypeOK, EndsType, UpType, RelayUpType, BridgeDownType, bridgeUp, relayUp,
      ends

(* TypeOK holds in every reachable state.                                  *)
THEOREM TypeCorrect == Spec => []TypeOK
<1>1. Init => TypeOK
  <2> SUFFICES ASSUME Init PROVE TypeOK
    OBVIOUS
  <2>1. 0 \in 0 .. MaxUp /\ 0 \in 0 .. MaxDown /\ 0 \in Nat /\ 1 \in Nat
    BY HttpsAssumption
  <2>2. <<>> \in Seq(Nat)
    BY SequenceTypes
  <2>3. EndsType
    BY RecordTypes, Zenon DEF Init, EndsType
  <2>4. UpType
    BY <2>1, <2>2, RecordTypes, Zenon DEF Init, UpType
  <2>5. RelayUpType
    BY <2>1, <2>2, RecordTypes, Zenon DEF Init, RelayUpType
  <2>6. BridgeDownType
    BY <2>1, <2>2, RecordTypes, Zenon DEF Init, BridgeDownType
  <2>7. RelayDownType
    BY <2>1, <2>2, Zenon DEF Init, RelayDownType
  <2> QED BY <2>3, <2>4, <2>5, <2>6, <2>7 DEF TypeOK
<1>2. TypeOK /\ [Next]_vars => TypeOK'
  <2>1. TypeOK /\ (BridgeUplink \/ BridgeDownlink) => TypeOK'
    BY UpStartType, UpRetryType, UpFetchFailsType, UpAckedType, UpBusyType,
       UpRejectedType, DownStartType, DownRetryType, DownFetchFailsType, DownEmptyType,
       DownReceivedType, DownRejectedType
    DEF BridgeUplink, BridgeDownlink
  <2>2. TypeOK /\ (Network \/ Relay) => TypeOK'
    BY UpArrivesType, LateUpArrivesType, DownArrivesType, LatePollArrivesType,
       DeleteArrivesType, DeleteLostType, UpParsedType, PollWakesType,
       PollSupersededType, PollEndsType, PollDisconnectsType
    DEF Network, Relay
  <2>3. TypeOK /\ (Users \/ UpDeadline) => TypeOK'
    BY AcceptType, RelayQueuesType, BridgeClosesType, RelayClosesType, UpDeadlineType
    DEF Users
  <2>4. TypeOK /\ UNCHANGED vars => TypeOK'
    BY DEF vars, TypeOK, EndsType, UpType, RelayUpType, BridgeDownType, RelayDownType,
      bridgeUp, bridgeDown, relayUp, relayDown, ends
  <2> QED BY <2>1, <2>2, <2>3, <2>4 DEF Next
<1> QED BY <1>1, <1>2, PTL DEF Spec

-----------------------------------------------------------------------------
(* The uplink.                                                             *)

(* Frames that some request carries or has carried, and frames committed.  *)
taken == accepted - Len(upPending)
done == Len(committed)

(* A request that was ever sent either carries the next sequence, and then *)
(* exactly the frames that are taken and not committed, or the last one,   *)
(* and then the body that was committed, or is older.                      *)
Fits(q, b) ==
  /\ q \in 1 .. lastUpSequence + 1
  /\ q = lastUpSequence + 1 => b = Span(done, taken)
  /\ q = lastUpSequence => b = lastUpDigest

(* The frames divide into committed, taken and pending ones.               *)
Divided ==
  /\ taken \in Nat /\ done <= taken
  /\ upPending = Span(taken, accepted)
  /\ committed = Span(0, done)

LateFit ==
  \A r \in lateUps :
    /\ Fits(r.seq, r.body)
    /\ r.seq <= upSequence
    /\ upCall.pc = "idle" /\ ~closed => r.seq < upSequence

ParsingFits ==
  parsing.on =>
    /\ Fits(parsing.seq, parsing.body)
    /\ parsing.seq = lastUpSequence + 1
    /\ parsing.seq <= upSequence
    /\ parsing.live => upCall.pc = "parsing" /\ parsing.seq = upSequence

CallFits ==
  /\ upCall.pc # "idle" =>
       /\ Fits(upSequence, upCall.body)
       /\ upSequence >= lastUpSequence
       /\ upSequence = lastUpSequence => done = taken
       /\ upCall.pc = "acked" => upSequence = lastUpSequence
  /\ upCall.pc = "idle" /\ ~closed =>
       /\ done = taken
       /\ upSequence = lastUpSequence + 1
       /\ ~parsing.on

UpFaultStale == fault.kind = "up" => fault.late /\ fault.behind

UpInv == Divided /\ LateFit /\ ParsingFits /\ CallFits /\ UpFaultStale

(* The arithmetic types of what the invariant talks about.                 *)
LEMMA UpNumbers ==
  ASSUME TypeOK
  PROVE  /\ accepted \in Nat /\ Len(upPending) \in Nat /\ done \in Nat /\ taken \in Int
         /\ upSequence \in Nat /\ lastUpSequence \in Nat
         /\ \A r \in lateUps : r.seq \in Nat
         /\ parsing.seq \in Nat /\ upCall.pc \in UpPcs
BY DEF TypeOK, UpType, RelayUpType, Request, Parsing, UpCall, UpPcs, done, taken

(* A step that leaves the frames and the committed sequence alone leaves   *)
(* what a request may carry alone.                                         *)
LEMMA FitsKept ==
  ASSUME UNCHANGED <<accepted, upPending, committed, lastUpSequence, lastUpDigest>>
  PROVE  /\ taken' = taken /\ done' = done
         /\ \A q, b : Fits(q, b) <=> Fits(q, b)'
         /\ Divided <=> Divided'
BY DEF taken, done, Fits, Divided

(* Steps that touch neither frames, sequences, requests nor the running    *)
(* call keep UpInv, whether or not they close either end.                  *)
LEMMA UpUntouched ==
  ASSUME UpInv, UNCHANGED <<bridgeUp, relayUp, lateUps>>, closed => closed',
         UNCHANGED fault \/ fault'.kind = "poll"
  PROVE  UpInv'
<1>1. UNCHANGED <<accepted, upPending, committed, lastUpSequence, lastUpDigest, upSequence,
                  upCall, parsing>>
  BY DEF bridgeUp, relayUp
<1>2. LateFit'
  BY <1>1, FitsKept DEF UpInv, LateFit
<1>3. ParsingFits'
  BY <1>1, FitsKept DEF UpInv, ParsingFits
<1>4. CallFits'
  BY <1>1, FitsKept DEF UpInv, CallFits
<1> QED
  BY <1>1, <1>2, <1>3, <1>4, FitsKept DEF UpInv, UpFaultStale

(* The running call goes on: neither what it carries nor anything that was *)
(* sent changes.                                                           *)
LEMMA CallGoesOn ==
  ASSUME UpInv, UNCHANGED <<accepted, upPending, upSequence, committed, lastUpSequence,
                            lastUpDigest, lateUps, parsing, closed, fault>>,
         upCall.pc # "idle", upCall.pc # "parsing", upCall'.body = upCall.body,
         upCall'.pc \notin {"idle", "acked"}
  PROVE  UpInv'
<1>1. LateFit'
  BY FitsKept DEF UpInv, LateFit
<1>2. ParsingFits'
  BY FitsKept DEF UpInv, ParsingFits
<1>3. CallFits'
  BY FitsKept DEF UpInv, CallFits
<1> QED
  BY <1>1, <1>2, <1>3, FitsKept DEF UpInv, UpFaultStale

(* The running call ends with the bridge.                                  *)
LEMMA CallEnds ==
  ASSUME UpInv, UNCHANGED <<accepted, upPending, upSequence, committed, lastUpSequence,
                            lastUpDigest, lateUps, fault>>,
         parsing' = [parsing EXCEPT !.live = FALSE] \/ (parsing' = parsing /\ upCall.pc # "parsing"),
         TypeOK, upCall'.pc = "idle", closed'
  PROVE  UpInv'
<1>1. LateFit'
  BY FitsKept DEF UpInv, LateFit
<1>2. ParsingFits'
  BY FitsKept DEF UpInv, ParsingFits, TypeOK, RelayUpType, Parsing
<1>3. CallFits'
  BY FitsKept DEF UpInv, CallFits
<1> QED
  BY <1>1, <1>2, <1>3, FitsKept DEF UpInv, UpFaultStale

(* A frame is posted to the bridge.                                        *)
LEMMA AcceptUp ==
  ASSUME TypeOK, UpInv, Accept
  PROVE  UpInv'
<1>1. UNCHANGED <<upSequence, upCall, committed, lastUpSequence, lastUpDigest, parsing,
                  closed, lateUps, fault>>
  BY DEF Accept, relayUp, ends
<1>2. accepted' = accepted + 1 /\ upPending' = Append(upPending, accepted + 1)
      /\ upPending \in Seq(Nat)
  BY DEF Accept, TypeOK, UpType
<1>3. taken' = taken /\ done' = done
  BY <1>1, <1>2, UpNumbers DEF taken, done
<1>4. taken <= accepted
  BY UpNumbers DEF taken
<1>5. Divided'
  BY <1>1, <1>2, <1>3, <1>4, SpanAppend, UpNumbers DEF UpInv, Divided
<1>6. \A q, b : Fits(q, b) <=> Fits(q, b)'
  BY <1>1, <1>3 DEF Fits
<1>7. LateFit' /\ ParsingFits'
  BY <1>1, <1>6 DEF UpInv, LateFit, ParsingFits
<1>8. CallFits'
  BY <1>1, <1>3, <1>6 DEF UpInv, CallFits
<1> QED
  BY <1>1, <1>5, <1>7, <1>8 DEF UpInv, UpFaultStale

(* runUp takes frames from the queue.                                      *)
LEMMA UpStartUp ==
  ASSUME TypeOK, UpInv, UpStart
  PROVE  UpInv'
<1> PICK k \in 1 .. Len(upPending) :
      /\ upCall' = [NoUpCall EXCEPT !.pc = "sent", !.body = SubSeq(upPending, 1, k)]
      /\ upPending' = SubSeq(upPending, k + 1, Len(upPending))
  BY DEF UpStart
<1>1. UNCHANGED <<accepted, upSequence, committed, lastUpSequence, lastUpDigest, parsing,
                  closed, lateUps, fault>>
  BY DEF UpStart, relayUp, ends
<1>2. upCall.pc = "idle" /\ ~closed
  BY DEF UpStart
<1>3. /\ done = taken /\ upSequence = lastUpSequence + 1 /\ ~parsing.on
      /\ \A r \in lateUps : Fits(r.seq, r.body) /\ r.seq < upSequence
  BY <1>2 DEF UpInv, CallFits, LateFit
<1>4. /\ taken \in Nat /\ taken <= accepted /\ Len(upPending) = accepted - taken
      /\ upPending = Span(taken, accepted)
  BY UpNumbers DEF UpInv, Divided, taken
<1>5. k \in 1 .. accepted - taken /\ k \in Nat /\ taken + k \in Nat
       /\ taken + k <= accepted /\ accepted \in Nat
  BY <1>4, UpNumbers
<1>6. SubSeq(upPending, 1, k) = Span(taken, taken + k)
      /\ upPending' = Span(taken + k, accepted)
  <2>1. /\ SubSeq(Span(taken, accepted), 1, k) = Span(taken, taken + k)
        /\ SubSeq(Span(taken, accepted), k + 1, accepted - taken) = Span(taken + k, accepted)
    BY <1>4, <1>5, SpanCut
  <2> QED BY <1>4, <2>1
<1>7. Len(upPending') = accepted - (taken + k)
  BY <1>6, <1>5, SpanType
<1>8. taken' = taken + k /\ done' = done
  <2>1. taken' = accepted - Len(upPending') /\ done' = done
    BY <1>1, Zenon DEF taken, done
  <2> QED BY <1>4, <1>5, <1>7, <2>1
<1>9. Divided'
  <2>1. taken' \in Nat /\ done' <= taken'
    BY <1>3, <1>5, <1>8, UpNumbers
  <2>2. upPending' = Span(taken', accepted')
    BY <1>1, <1>6, <1>8
  <2>3. committed' = Span(0, done')
    BY <1>1, <1>8 DEF UpInv, Divided
  <2> QED BY <2>1, <2>2, <2>3 DEF Divided
<1>10. LateFit'
  BY <1>1, <1>3, UpNumbers DEF LateFit, Fits
<1>11. ParsingFits'
  BY <1>1, <1>3 DEF ParsingFits
<1>12. upCall'.pc = "sent" /\ upCall'.body = Span(done', taken')
  BY <1>3, <1>6, <1>8 DEF NoUpCall
<1>13. CallFits'
  BY <1>1, <1>3, <1>8, <1>12, UpNumbers DEF CallFits, Fits
<1> QED
  BY <1>1, <1>9, <1>10, <1>11, <1>13 DEF UpInv, UpFaultStale

(* The pauses of request().                                                *)
LEMMA UpWaitsUp ==
  ASSUME TypeOK, UpInv, UpRetry \/ UpBusy
  PROVE  UpInv'
<1>1. UNCHANGED <<accepted, upPending, upSequence, committed, lastUpSequence,
                  lastUpDigest, lateUps, parsing, closed, fault>>
  BY DEF UpRetry, UpBusy, relayUp, ends
<1>2. /\ upCall.pc # "idle" /\ upCall.pc # "parsing"
      /\ upCall'.body = upCall.body /\ upCall'.pc \notin {"idle", "acked"}
  BY DEF UpRetry, UpBusy, UpPc, TypeOK, UpType, UpCall
<1> QED
  BY <1>1, <1>2, CallGoesOn

(* The deadline of a call passes.                                          *)
LEMMA UpDeadlineUp ==
  ASSUME TypeOK, UpInv, UpDeadline
  PROVE  UpInv'
<1>1. UNCHANGED <<accepted, upPending, upSequence, committed, lastUpSequence,
                  lastUpDigest, lateUps, parsing, closed, fault>>
  BY DEF UpDeadline, relayUp, ends
<1>2. upCall'.body = upCall.body /\ upCall'.pc = upCall.pc
  BY DEF UpDeadline, TypeOK, UpType, UpCall
<1>3. LateFit' /\ ParsingFits'
  BY <1>1, <1>2, FitsKept DEF UpInv, LateFit, ParsingFits
<1>4. CallFits'
  BY <1>1, <1>2, FitsKept DEF UpInv, CallFits
<1> QED
  BY <1>1, <1>3, <1>4, FitsKept DEF UpInv, UpFaultStale

(* A fetch fails; its request may arrive later.                            *)
LEMMA UpFetchFailsUp ==
  ASSUME TypeOK, UpInv, UpFetchFails
  PROVE  UpInv'
<1> DEFINE r == [seq |-> upSequence, body |-> upCall.body]
<1>1. UNCHANGED <<accepted, upPending, upSequence, committed, lastUpSequence,
                  lastUpDigest, fault>>
  BY DEF UpFetchFails
<1>2. upCall.pc # "idle" /\ parsing' = [parsing EXCEPT !.live = FALSE]
  BY DEF UpFetchFails
<1>3. \/ upCall'.pc = "idle" /\ closed'
      \/ /\ upCall'.pc = "pause" /\ upCall'.body = upCall.body
         /\ closed' = closed
  <2>1. CASE closed \/ upCall.attempt + 1 >= MaxAttempts
    BY <2>1 DEF UpFetchFails, Fail, NoUpCall
  <2>2. CASE ~(closed \/ upCall.attempt + 1 >= MaxAttempts)
    BY <2>2 DEF UpFetchFails, TypeOK, UpType, UpCall
  <2> QED BY <2>1, <2>2
<1>4. Fits(r.seq, r.body) /\ r.seq = upSequence
  BY <1>2 DEF UpInv, CallFits
<1>5. \A q \in lateUps' : q \in lateUps \/ q = r
  BY DEF UpFetchFails
<1> HIDE DEF r
<1>6. LateFit'
  BY <1>1, <1>3, <1>4, <1>5, FitsKept, UpNumbers DEF UpInv, LateFit
<1>7. ParsingFits'
  BY <1>1, <1>2, FitsKept DEF UpInv, ParsingFits, TypeOK, RelayUpType, Parsing
<1>8. CallFits'
  BY <1>1, <1>2, <1>3, FitsKept DEF UpInv, CallFits
<1> QED
  BY <1>1, <1>6, <1>7, <1>8, FitsKept DEF UpInv, UpFaultStale

(* The relay takes in a request that was sent.                             *)
LEMMA ProcessUpUp ==
  ASSUME TypeOK, UpInv, NEW r \in Request, NEW live \in BOOLEAN, ProcessUp(r, live),
         Fits(r.seq, r.body), r.seq <= upSequence,
         live => upCall.pc # "parsing" /\ upSequence >= lastUpSequence
                 /\ r.seq = upSequence,
         upCall.pc = "idle" /\ ~closed => r.seq <= lastUpSequence,
         UNCHANGED <<accepted, upPending, upSequence, lateUps, closed>>,
         upCall.pc = "idle" => ~live,
         live => /\ upCall'.body = upCall.body
                 /\ upCall'.pc = IF Verdict(r) = "fails" THEN "refused" ELSE Verdict(r),
         ~live => upCall' = upCall
  PROVE  UpInv'
<1>1. UNCHANGED <<committed, lastUpSequence, lastUpDigest>>
  BY DEF ProcessUp
<1>2. r.seq \in Nat /\ r.seq # 0 /\ lastUpSequence \in Nat
  BY UpNumbers DEF Fits
<1>3. Verdict(r) = "parsing" => r.seq = lastUpSequence + 1 /\ ~parsing.on
  BY DEF Verdict
<1>4. Verdict(r) = "acked" => r.seq = lastUpSequence
  BY DEF Verdict
<1>5. Verdict(r) = "fails" => r.seq < lastUpSequence
  BY <1>2 DEF Verdict, Fits
<1>6. Verdict(r) # "idle"
  BY DEF Verdict
<1>7. \/ parsing' = parsing /\ Verdict(r) # "parsing"
      \/ /\ Verdict(r) = "parsing" /\ parsing'.on /\ parsing'.live = live
         /\ parsing'.seq = r.seq /\ parsing'.body = r.body
  BY DEF ProcessUp
<1>8. LateFit'
  BY <1>1, <1>6, FitsKept DEF UpInv, LateFit
<1>9. ParsingFits'
  BY <1>1, <1>3, <1>7, FitsKept DEF UpInv, ParsingFits
<1>10. CallFits'
  BY <1>1, <1>2, <1>3, <1>4, <1>6, <1>7, FitsKept DEF UpInv, CallFits
<1>11. UpFaultStale'
  <2>1. CASE Verdict(r) = "fails"
    <3>1. ~live
      BY <2>1, <1>5, UpNumbers
    <3>2. fault' = [kind |-> "up", late |-> ~live, behind |-> r.seq < lastUpSequence]
      BY <2>1 DEF ProcessUp
    <3>3. (~live) = TRUE /\ (r.seq < lastUpSequence) = TRUE
      BY <2>1, <3>1, <1>5
    <3>4. fault' = [kind |-> "up", late |-> TRUE, behind |-> TRUE]
      BY <3>2, <3>3, Zenon
    <3> QED BY <3>4 DEF UpFaultStale
  <2>2. CASE Verdict(r) # "fails"
    BY <2>2 DEF ProcessUp, UpInv, UpFaultStale
  <2> QED BY <2>1, <2>2
<1> QED
  BY <1>1, <1>8, <1>9, <1>10, <1>11, FitsKept DEF UpInv

(* The relay takes in the request of the running call.                     *)
LEMMA UpArrivesUp ==
  ASSUME TypeOK, UpInv, UpArrives
  PROVE  UpInv'
<1> DEFINE r == [seq |-> upSequence, body |-> upCall.body]
<1>1. r \in Request /\ r.seq = upSequence /\ r.body = upCall.body
  BY CallRequest
<1>2. upCall.pc = "sent" /\ ProcessUp(r, TRUE)
      /\ upCall' = [upCall EXCEPT !.pc = IF Verdict(r) = "fails" THEN "refused"
                                         ELSE Verdict(r)]
  BY DEF UpArrives, UpPc
<1>3. UNCHANGED <<accepted, upPending, upSequence, lateUps, closed>>
  BY DEF UpArrives
<1>4. Fits(upSequence, upCall.body) /\ upSequence >= lastUpSequence
  BY <1>2 DEF UpInv, CallFits
<1>5. upCall \in UpCall
  BY DEF TypeOK, UpType
<1> HIDE DEF r
<1>6. /\ upCall'.body = upCall.body
      /\ upCall'.pc = IF Verdict(r) = "fails" THEN "refused" ELSE Verdict(r)
  BY <1>2, <1>5 DEF UpCall
<1>7. upSequence <= upSequence
  BY UpNumbers
<1>8. Fits(r.seq, r.body)
  BY <1>1, <1>4
<1> QED
  BY <1>1, <1>2, <1>3, <1>4, <1>6, <1>7, <1>8, ProcessUpUp

(* A request that was given up arrives.                                    *)
LEMMA LateUpArrivesUp ==
  ASSUME TypeOK, UpInv, LateUpArrives
  PROVE  UpInv'
<1> PICK r \in lateUps : ProcessUp(r, FALSE)
  BY DEF LateUpArrives
<1>1. UNCHANGED <<accepted, upPending, upSequence, lateUps, closed>> /\ upCall' = upCall
  BY DEF LateUpArrives, bridgeUp
<1>2. r \in Request
  BY DEF TypeOK, UpType
<1>3. Fits(r.seq, r.body) /\ r.seq <= upSequence
      /\ (upCall.pc = "idle" /\ ~closed => r.seq < upSequence)
  BY DEF UpInv, LateFit
<1>4. upCall.pc = "idle" /\ ~closed => r.seq <= lastUpSequence
  BY <1>3, UpNumbers DEF UpInv, CallFits
<1> QED
  BY <1>1, <1>2, <1>3, <1>4, ProcessUpUp

(* The relay commits the request, or turns it away.                        *)
LEMMA UpParsedUp ==
  ASSUME TypeOK, UpInv, UpParsed
  PROVE  UpInv'
<1>1. UNCHANGED <<accepted, upPending, upSequence, closed, lateUps, fault>>
  BY DEF UpParsed, ends
<1>2. /\ parsing.on /\ parsing.seq = lastUpSequence + 1 /\ parsing.seq <= upSequence
      /\ parsing.body = Span(done, taken)
      /\ parsing.live => upCall.pc = "parsing" /\ parsing.seq = upSequence
  BY DEF UpParsed, UpInv, ParsingFits, Fits
<1>3. ~parsing'.on
  BY DEF UpParsed, NotParsing
<1>4. upCall.pc = "idle" => closed
  BY <1>2 DEF UpInv, CallFits
<1>5. /\ upCall'.body = upCall.body
      /\ \/ upCall' = upCall /\ ~parsing.live
         \/ upCall'.pc # "idle" /\ parsing.live
  BY DEF UpParsed, TypeOK, UpType, UpCall
<1>6. CASE UNCHANGED <<lastUpSequence, lastUpDigest, committed>>
           /\ (parsing.live => upCall'.pc # "acked")
  <2>1. LateFit'
    BY <1>1, <1>2, <1>5, <1>6, FitsKept DEF UpInv, LateFit
  <2>2. CallFits'
    BY <1>1, <1>2, <1>3, <1>4, <1>5, <1>6, FitsKept DEF UpInv, CallFits
  <2> QED
    BY <1>1, <1>3, <1>6, <2>1, <2>2, FitsKept DEF UpInv, ParsingFits, UpFaultStale
<1>7. CASE /\ committed' = committed \o parsing.body
           /\ lastUpSequence' = parsing.seq /\ lastUpDigest' = parsing.body
  <2>1. committed = Span(0, done) /\ done \in Nat /\ taken \in Nat /\ done <= taken
    BY UpNumbers DEF UpInv, Divided
  <2>2. committed' = Span(0, taken)
    <3>1. 0 \in Nat /\ 0 <= done
      BY <2>1
    <3>2. Span(0, done) \o Span(done, taken) = Span(0, taken)
      BY <2>1, <3>1, SpanJoin, Zenon
    <3> QED BY <1>2, <1>7, <2>1, <3>2
  <2>3. done' = taken
    BY <2>1, <2>2, SpanType DEF done
  <2>4. taken' = taken
    BY <1>1 DEF taken
  <2>5. Divided'
    BY <1>1, <2>1, <2>2, <2>3, <2>4 DEF UpInv, Divided
  <2>6. \A q, b : q \in Nat /\ Fits(q, b) => Fits(q, b)' /\ q <= lastUpSequence'
    BY <1>2, <1>7, UpNumbers DEF Fits
  <2>7. LateFit'
    BY <1>1, <1>5, <1>4, <2>6, <1>2, UpNumbers DEF UpInv, LateFit
  <2>8. CallFits'
    BY <1>1, <1>2, <1>3, <1>4, <1>5, <1>7, <2>3, <2>4, <2>6, UpNumbers
    DEF UpInv, CallFits
  <2> QED
    BY <1>1, <1>3, <2>5, <2>7, <2>8 DEF UpInv, ParsingFits, UpFaultStale
<1> QED
  BY <1>6, <1>7 DEF UpParsed, TypeOK, UpType, UpCall

(* The answer is read.                                                     *)
LEMMA UpAckedUp ==
  ASSUME TypeOK, UpInv, UpAcked
  PROVE  UpInv'
<1>1. UNCHANGED <<accepted, upPending, committed, lastUpSequence, lastUpDigest, lateUps,
                  parsing, closed, fault>>
  BY DEF UpAcked, relayUp, ends
<1>2. upCall.pc = "acked" /\ upSequence' = upSequence + 1 /\ upCall'.pc = "idle"
  BY DEF UpAcked, NoUpCall
<1>3. upSequence = lastUpSequence /\ done = taken
  BY <1>2 DEF UpInv, CallFits
<1>4. ~parsing.on
  BY <1>3, UpNumbers DEF UpInv, ParsingFits
<1>5. LateFit'
  BY <1>1, <1>2, FitsKept, UpNumbers DEF UpInv, LateFit
<1>6. CallFits'
  BY <1>1, <1>2, <1>3, <1>4, FitsKept DEF CallFits
<1> QED
  BY <1>1, <1>4, <1>5, <1>6, FitsKept DEF UpInv, ParsingFits, UpFaultStale

(* The answer is a refusal, or 503 after the deadline.                     *)
LEMMA UpRejectedUp ==
  ASSUME TypeOK, UpInv, UpRejected
  PROVE  UpInv'
<1>1. UNCHANGED <<accepted, upPending, upSequence, committed, lastUpSequence,
                  lastUpDigest, lateUps, fault>>
      /\ parsing' = parsing /\ upCall.pc # "parsing" /\ upCall'.pc = "idle" /\ closed'
  BY DEF UpRejected, NoUpCall, Fail, relayUp
<1> QED
  BY <1>1, CallEnds

(* UpInv is inductive.                                                     *)
LEMMA UpInvStep == TypeOK /\ UpInv /\ [Next]_vars => UpInv'
<1> SUFFICES ASSUME TypeOK, UpInv, [Next]_vars PROVE UpInv'
  OBVIOUS
<1>1. CASE BridgeUplink
  BY <1>1, UpStartUp, UpWaitsUp, UpFetchFailsUp, UpAckedUp, UpRejectedUp DEF BridgeUplink
<1>2. CASE BridgeDownlink
  <2>1. UNCHANGED <<bridgeUp, relayUp, lateUps, fault>> /\ (closed => closed')
    BY <1>2
    DEF BridgeDownlink, DownStart, DownRetry, DownFetchFails, DownEmpty, DownReceived,
        DownRejected, Fail, ends
  <2> QED BY <2>1, UpUntouched
<1>3. CASE Network
  <2>1. CASE UpArrives
    BY <2>1, UpArrivesUp
  <2>2. CASE LateUpArrives
    BY <2>2, LateUpArrivesUp
  <2>3. CASE DownArrives \/ LatePollArrives \/ DeleteArrives \/ DeleteLost
    <3>1. UNCHANGED <<bridgeUp, relayUp, lateUps, closed>>
      BY <2>3 DEF DownArrives, LatePollArrives, DeleteArrives, DeleteLost
    <3>2. UNCHANGED fault \/ fault'.kind = "poll"
      BY <2>3
      DEF DownArrives, LatePollArrives, DeleteArrives, DeleteLost, PollUnserved, PollFails,
          Acknowledges
    <3> QED BY <3>1, <3>2, UpUntouched
  <2> QED BY <1>3, <2>1, <2>2, <2>3 DEF Network
<1>4. CASE Relay
  <2>1. CASE UpParsed
    BY <2>1, UpParsedUp
  <2>2. CASE PollWakes \/ PollSuperseded \/ PollEnds \/ PollDisconnects
    <3>1. UNCHANGED <<bridgeUp, relayUp, lateUps, closed, fault>>
      BY <2>2 DEF PollWakes, PollSuperseded, PollEnds, PollDisconnects, ends
    <3> QED BY <3>1, UpUntouched
  <2> QED BY <1>4, <2>1, <2>2 DEF Relay
<1>5. CASE Users \/ UpDeadline
  <2>1. CASE Accept
    BY <2>1, AcceptUp
  <2>2. CASE UpDeadline
    BY <2>2, UpDeadlineUp
  <2>3. CASE RelayQueues \/ BridgeCloses \/ RelayCloses
    <3>1. UNCHANGED <<bridgeUp, relayUp, lateUps, fault>> /\ (closed => closed')
      BY <2>3 DEF RelayQueues, BridgeCloses, RelayCloses, Fail, ends
    <3> QED BY <3>1, UpUntouched
  <2> QED BY <1>5, <2>1, <2>2, <2>3 DEF Users
<1>6. CASE UNCHANGED vars
  <2>1. UNCHANGED <<bridgeUp, relayUp, lateUps, fault, closed>>
    BY <1>6 DEF vars, ends
  <2> QED BY <2>1, UpUntouched
<1> QED BY <1>1, <1>2, <1>3, <1>4, <1>5, <1>6 DEF Next

(* It holds initially.                                                     *)
LEMMA UpInvInit == Init => UpInv
<1> SUFFICES ASSUME Init PROVE UpInv
  OBVIOUS
<1>1. accepted = 0 /\ upPending = <<>> /\ committed = <<>> /\ <<>> \in Seq(Nat)
      /\ Len(upPending) = 0 /\ Len(committed) = 0
  BY SequenceTypes DEF Init
<1>2. taken = 0 /\ done = 0
  <2>1. taken = 0 - 0
    BY <1>1, Zenon DEF taken
  <2>2. done = 0
    BY <1>1, Zenon DEF done
  <2> QED BY <2>1, <2>2
<1>3. Span(0, 0) = <<>>
  BY <1>1, SpanEmpty
<1>4. Divided
  BY <1>1, <1>2, <1>3 DEF Divided
<1>5. LateFit /\ ParsingFits /\ UpFaultStale
  BY DEF Init, LateFit, ParsingFits, UpFaultStale, NotParsing, NoFault
<1>6. CallFits
  BY <1>2 DEF Init, CallFits, NoUpCall, NotParsing
<1> QED BY <1>4, <1>5, <1>6 DEF UpInv

-----------------------------------------------------------------------------
(* The downlink.                                                           *)

(* Frames that polls have taken from the queue, and frames the client has. *)
drawn == queued - Len(pendingFrames)
got == Len(received)

(* The queue and the unacknowledged batch follow each other, until the     *)
(* session closes and drops both.                                          *)
Queues ==
  /\ got <= queued
  /\ received = Span(0, got)
  /\ ~sclosed =>
       /\ drawn \in Nat /\ got <= drawn
       /\ pendingFrames = Span(drawn, queued)
       /\ unacked # <<>> => downCursor = unackedBase + 1
  /\ sclosed => pendingFrames = <<>>

(* The bridge's cursor is the relay's, and then it has everything that was *)
(* taken; or it is the one before, and the bridge lacks the                *)
(* unacknowledged batch.                                                   *)
CursorsAgree ==
  /\ cursor = downCursor \/ cursor + 1 = downCursor
  /\ ~sclosed /\ cursor = downCursor => got = drawn
  /\ ~sclosed /\ cursor + 1 = downCursor =>
       /\ unacked = Span(got, drawn) /\ unacked # <<>>
       /\ unackedBase = cursor

(* A batch on its way to the bridge is the one it lacks.                   *)
AnswerFits ==
  downCall.pc = "batch" =>
    /\ downCall.next = cursor + 1 /\ downCursor = cursor + 1
    /\ got + Len(downCall.body) <= queued
    /\ downCall.body = Span(got, got + Len(downCall.body))
    /\ ~sclosed => downCall.body = unacked

OwnerCurrent == owner # "none" => cursor = downCursor

LatePollsOld == \A c \in latePolls : c <= cursor

PollFaultStale == fault.kind = "poll" => fault.late /\ fault.behind

DownInv ==
  Queues /\ CursorsAgree /\ AnswerFits /\ OwnerCurrent /\ LatePollsOld /\ PollFaultStale

(* The arithmetic types of what the invariant talks about.                 *)
LEMMA DownNumbers ==
  ASSUME TypeOK
  PROVE  /\ queued \in Nat /\ Len(pendingFrames) \in Nat /\ got \in Nat /\ drawn \in Int
         /\ cursor \in Nat /\ downCursor \in Nat /\ unackedBase \in Nat
         /\ pendingFrames \in Seq(Nat) /\ unacked \in Seq(Nat) /\ received \in Seq(Nat)
         /\ downCall.body \in Seq(Nat) /\ Len(downCall.body) \in Nat
         /\ \A c \in latePolls : c \in Nat
BY DEF TypeOK, BridgeDownType, RelayDownType, DownCall, got, drawn

(* Steps that leave the queues, the cursors and the polls alone keep       *)
(* DownInv, whether or not the bridge closes or an answer is dropped.      *)
LEMMA DownUntouched ==
  ASSUME DownInv,
         UNCHANGED <<cursor, received, queued, pendingFrames, unacked, unackedBase,
                     downCursor, sclosed>>,
         downCall' = downCall \/ downCall'.pc # "batch",
         owner' # "none" => owner # "none",
         \A c \in latePolls' : c \in latePolls \/ c = cursor,
         cursor <= cursor,
         UNCHANGED fault \/ fault'.kind = "up"
  PROVE  DownInv'
<1>1. drawn' = drawn /\ got' = got
  BY DEF drawn, got
<1>2. Queues' /\ CursorsAgree'
  BY <1>1 DEF DownInv, Queues, CursorsAgree
<1>3. AnswerFits'
  BY <1>1 DEF DownInv, AnswerFits
<1>4. OwnerCurrent' /\ LatePollsOld' /\ PollFaultStale'
  BY DEF DownInv, OwnerCurrent, LatePollsOld, PollFaultStale
<1> QED BY <1>2, <1>3, <1>4 DEF DownInv

(* The session closes: the queues are dropped, and an answer on its way    *)
(* stays what it is.                                                       *)
LEMMA DownClosed ==
  ASSUME DownInv, SessionCloses,
         UNCHANGED <<cursor, received, queued, unackedBase, downCursor, latePolls, owner>>,
         downCall' = downCall \/ downCall'.pc # "batch",
         UNCHANGED fault \/ fault'.kind = "up" \/ PollFaultStale'
  PROVE  DownInv'
<1>1. got' = got /\ sclosed'
  BY DEF got, SessionCloses
<1>2. Queues' /\ CursorsAgree'
  BY <1>1 DEF DownInv, Queues, CursorsAgree, SessionCloses
<1>3. AnswerFits'
  BY <1>1 DEF DownInv, AnswerFits
<1>4. OwnerCurrent' /\ LatePollsOld' /\ PollFaultStale'
  BY DEF DownInv, OwnerCurrent, LatePollsOld, PollFaultStale
<1> QED BY <1>2, <1>3, <1>4 DEF DownInv

(* The relay queues a frame.                                               *)
LEMMA RelayQueuesDown ==
  ASSUME TypeOK, DownInv, RelayQueues
  PROVE  DownInv'
<1>1. UNCHANGED <<cursor, received, downCall, unacked, unackedBase, downCursor, owner,
                  sclosed, fault, latePolls>>
  BY DEF RelayQueues, bridgeDown, ends
<1>2. queued' = queued + 1 /\ pendingFrames' = Append(pendingFrames, queued + 1)
      /\ ~sclosed
  BY DEF RelayQueues
<1>3. drawn' = drawn /\ got' = got
  BY <1>1, <1>2, DownNumbers DEF drawn, got
<1>4. drawn \in Nat /\ drawn <= queued /\ pendingFrames = Span(drawn, queued)
  BY <1>2, DownNumbers DEF DownInv, Queues, drawn
<1>5. pendingFrames' = Span(drawn, queued')
  BY <1>2, <1>4, SpanAppend, DownNumbers
<1>6. Queues'
  BY <1>1, <1>2, <1>3, <1>5, DownNumbers DEF DownInv, Queues
<1>7. CursorsAgree' /\ OwnerCurrent' /\ LatePollsOld' /\ PollFaultStale'
  BY <1>1, <1>3 DEF DownInv, CursorsAgree, OwnerCurrent, LatePollsOld, PollFaultStale
<1>8. AnswerFits'
  BY <1>1, <1>2, <1>3, DownNumbers DEF DownInv, AnswerFits
<1> QED BY <1>6, <1>7, <1>8 DEF DownInv

(* A poll of the current cursor takes a batch.                             *)
LEMMA TakeBatchDown ==
  ASSUME TypeOK, DownInv, TakeBatch, cursor = downCursor, ~sclosed,
         UNCHANGED <<cursor, received, queued, sclosed, fault, latePolls>>,
         \/ downCall' = downCall
         \/ downCall'.pc = "batch" /\ downCall'.body = unacked'
            /\ downCall'.next = downCursor'
  PROVE  DownInv'
<1> PICK k \in 1 .. Len(pendingFrames) :
      /\ unacked' = SubSeq(pendingFrames, 1, k)
      /\ pendingFrames' = SubSeq(pendingFrames, k + 1, Len(pendingFrames))
  BY DEF TakeBatch
<1>1. unackedBase' = downCursor /\ downCursor' = downCursor + 1 /\ owner' = "none"
  BY DEF TakeBatch
<1>2. /\ got = drawn /\ drawn \in Nat /\ drawn <= queued
      /\ Len(pendingFrames) = queued - drawn /\ pendingFrames = Span(drawn, queued)
  <2>1. got = drawn /\ drawn \in Nat /\ pendingFrames = Span(drawn, queued)
    BY DEF DownInv, Queues, CursorsAgree
  <2>2. drawn = queued - Len(pendingFrames)
    BY Zenon DEF drawn
  <2> QED BY <2>1, <2>2, DownNumbers
<1>3. /\ k \in 1 .. queued - drawn /\ k \in Nat /\ drawn + k \in Nat
      /\ drawn + k <= queued /\ queued \in Nat
      /\ drawn <= drawn + k /\ (drawn + k) - drawn = k
  BY <1>2, DownNumbers
<1>4. unacked' = Span(drawn, drawn + k) /\ pendingFrames' = Span(drawn + k, queued)
  <2>1. /\ SubSeq(Span(drawn, queued), 1, k) = Span(drawn, drawn + k)
        /\ SubSeq(Span(drawn, queued), k + 1, queued - drawn) = Span(drawn + k, queued)
    BY <1>2, <1>3, SpanCut
  <2> QED BY <1>2, <2>1
<1>5. Len(pendingFrames') = queued - (drawn + k) /\ Len(unacked') = k
  <2>1. Len(Span(drawn + k, queued)) = queued - (drawn + k)
    BY <1>3, SpanType
  <2>2. Len(Span(drawn, drawn + k)) = (drawn + k) - drawn
    BY <1>2, <1>3, SpanType, Zenon
  <2> QED BY <1>2, <1>3, <1>4, <2>1, <2>2
<1>6. drawn' = drawn + k /\ got' = got
  <2>1. drawn' = queued - Len(pendingFrames') /\ got' = got
    BY Zenon DEF drawn, got
  <2> QED BY <1>2, <1>3, <1>5, <2>1
<1>7. unacked' # <<>>
  BY <1>5, <1>3
<1>8. Queues'
  BY <1>1, <1>2, <1>3, <1>4, <1>6, DownNumbers DEF DownInv, Queues
<1>9. CursorsAgree'
  <2>1. cursor' + 1 = downCursor' /\ cursor' # downCursor' /\ unackedBase' = cursor'
    BY <1>1, DownNumbers
  <2>2. unacked' = Span(got', drawn')
    BY <1>2, <1>4, <1>6
  <2> QED BY <1>7, <2>1, <2>2 DEF CursorsAgree
<1>10. AnswerFits'
  <2>1. CASE downCall' = downCall
    <3>1. downCall.pc # "batch"
      BY DownNumbers DEF DownInv, AnswerFits
    <3> QED BY <2>1, <3>1 DEF AnswerFits
  <2>2. CASE downCall'.pc = "batch" /\ downCall'.body = unacked'
             /\ downCall'.next = downCursor'
    BY <2>2, <1>1, <1>2, <1>3, <1>4, <1>5, <1>6, DownNumbers DEF AnswerFits
  <2> QED BY <2>1, <2>2
<1>11. OwnerCurrent' /\ LatePollsOld' /\ PollFaultStale'
  BY <1>1 DEF DownInv, OwnerCurrent, LatePollsOld, PollFaultStale
<1> QED BY <1>8, <1>9, <1>10, <1>11 DEF DownInv

(* A poll of the current cursor acknowledges.                              *)
LEMMA AcknowledgesDown ==
  ASSUME TypeOK, DownInv, NEW who \in {"live", "late"}, Acknowledges(who),
         cursor = downCursor, ~sclosed,
         UNCHANGED <<cursor, received, queued, latePolls>>,
         \/ downCall' = downCall
         \/ owner' # "none" /\ downCall'.pc # "batch"
         \/ downCall'.pc = "batch" /\ downCall'.body = unacked'
            /\ downCall'.next = downCursor' /\ owner' = "none"
  PROVE  DownInv'
<1>1. UNCHANGED <<sclosed, fault>>
  BY DEF Acknowledges
<1>2. CASE TakeBatch
  <2>1. owner' = "none"
    BY <1>2 DEF TakeBatch
  <2> QED BY <1>1, <1>2, <2>1, TakeBatchDown
<1>3. CASE /\ pendingFrames = <<>> /\ unacked' = <<>> /\ owner' = who
           /\ UNCHANGED <<pendingFrames, unackedBase, downCursor>>
  <2>1. drawn' = drawn /\ got' = got
    BY <1>3 DEF drawn, got
  <2>2. Queues'
    BY <1>1, <1>3, <2>1 DEF DownInv, Queues
  <2>3. cursor' = downCursor' /\ cursor' + 1 # downCursor'
    BY <1>3, DownNumbers
  <2>4. CursorsAgree'
    BY <1>1, <2>1, <2>3 DEF DownInv, CursorsAgree
  <2>5. downCall'.pc # "batch"
    BY <1>3, DownNumbers DEF DownInv, AnswerFits
  <2>6. AnswerFits' /\ OwnerCurrent' /\ LatePollsOld' /\ PollFaultStale'
    BY <1>1, <2>3, <2>5
    DEF DownInv, AnswerFits, OwnerCurrent, LatePollsOld, PollFaultStale
  <2> QED BY <2>2, <2>4, <2>6 DEF DownInv
<1> QED BY <1>2, <1>3 DEF Acknowledges

(* The relay takes in the poll that the bridge waits for.                  *)
LEMMA DownArrivesDown ==
  ASSUME TypeOK, DownInv, DownArrives
  PROVE  DownInv'
<1>1. UNCHANGED <<cursor, received, queued, latePolls>> /\ downCall.pc = "sent"
      /\ downCall \in DownCall /\ cursor <= cursor
  BY DownNumbers DEF DownArrives, TypeOK, BridgeDownType
<1>2. CASE Answer("refused") /\ PollUnserved
  <2>1. downCall'.pc # "batch"
    BY <1>1, <1>2 DEF Answer, DownCall
  <2> QED BY <1>1, <1>2, <2>1, DownUntouched DEF PollUnserved
<1>3. CASE PollVerdict(cursor) = "resend" /\ AnswerWith(unacked, downCursor)
           /\ PollUnserved
  <2>1. /\ downCall'.pc = "batch" /\ downCall'.body = unacked
        /\ downCall'.next = downCursor
    BY <1>1, <1>3 DEF AnswerWith, DownCall
  <2>2. ~sclosed /\ unacked # <<>> /\ cursor = unackedBase
    BY <1>3 DEF PollVerdict
  <2>3. downCursor = cursor + 1 /\ unacked = Span(got, drawn) /\ got <= drawn
        /\ drawn \in Nat /\ drawn <= queued
    BY <2>2, DownNumbers DEF DownInv, Queues, CursorsAgree, drawn
  <2>4. Len(unacked) = drawn - got
    BY <2>3, SpanType, DownNumbers
  <2>5. got' = got /\ drawn' = drawn
    BY <1>1, <1>3 DEF PollUnserved, got, drawn
  <2>6. AnswerFits'
    BY <1>1, <1>3, <2>1, <2>3, <2>4, <2>5, DownNumbers DEF AnswerFits, PollUnserved
  <2>7. Queues' /\ CursorsAgree'
    BY <1>1, <1>3, <2>5 DEF DownInv, Queues, CursorsAgree, PollUnserved
  <2>8. OwnerCurrent' /\ LatePollsOld' /\ PollFaultStale'
    BY <1>1, <1>3 DEF DownInv, OwnerCurrent, LatePollsOld, PollFaultStale, PollUnserved
  <2> QED BY <2>6, <2>7, <2>8 DEF DownInv
<1>4. CASE PollVerdict(cursor) = "fails"
  <2>1. ~sclosed /\ ~(unacked # <<>> /\ cursor = unackedBase) /\ cursor # downCursor
    BY <1>4 DEF PollVerdict
  <2> QED BY <2>1 DEF DownInv, CursorsAgree
<1>5. CASE /\ PollVerdict(cursor) = "owns"
           /\ Acknowledges("live")
           /\ IF owner' = "live" THEN Answer("parked") ELSE AnswerWith(unacked', downCursor')
  <2>1. ~sclosed /\ cursor = downCursor
    BY <1>5 DEF PollVerdict
  <2>2. owner' \in {"live", "none"}
    BY <1>5 DEF Acknowledges, TakeBatch
  <2>3. \/ owner' # "none" /\ downCall'.pc # "batch"
        \/ downCall'.pc = "batch" /\ downCall'.body = unacked'
           /\ downCall'.next = downCursor' /\ owner' = "none"
    BY <1>1, <1>5, <2>2 DEF Answer, AnswerWith, DownCall
  <2> QED BY <1>1, <1>5, <2>1, <2>3, AcknowledgesDown
<1> QED BY <1>2, <1>3, <1>4, <1>5 DEF DownArrives

(* A poll that was given up arrives.                                       *)
LEMMA LatePollArrivesDown ==
  ASSUME TypeOK, DownInv, LatePollArrives
  PROVE  DownInv'
<1> PICK c \in latePolls :
      \/ PollUnserved
      \/ PollVerdict(c) = "fails" /\ PollFails(c, FALSE)
      \/ PollVerdict(c) = "owns" /\ Acknowledges("late")
  BY DEF LatePollArrives
<1>1. UNCHANGED <<cursor, received, downCall, queued, latePolls>> /\ cursor <= cursor
  BY DownNumbers DEF LatePollArrives, bridgeDown
<1>2. c \in Nat /\ c <= cursor /\ cursor <= downCursor
  BY DownNumbers DEF DownInv, LatePollsOld, CursorsAgree
<1>3. CASE PollUnserved
  BY <1>1, <1>3, DownUntouched DEF PollUnserved
<1>4. CASE PollVerdict(c) = "fails" /\ PollFails(c, FALSE)
  <2>1. c # downCursor
    BY <1>4 DEF PollVerdict
  <2>2. (~FALSE) = TRUE /\ (c < downCursor) = TRUE
    BY <1>2, <2>1, DownNumbers
  <2>3. fault' = [kind |-> "poll", late |-> TRUE, behind |-> TRUE]
    BY <1>4, <2>2, Zenon DEF PollFails
  <2>4. PollFaultStale'
    BY <2>3 DEF PollFaultStale
  <2> QED BY <1>1, <1>4, <2>4, DownClosed DEF PollFails
<1>5. CASE PollVerdict(c) = "owns" /\ Acknowledges("late")
  <2>1. ~sclosed /\ c = downCursor
    BY <1>5 DEF PollVerdict
  <2>2. cursor = downCursor
    BY <1>2, <2>1, DownNumbers
  <2> QED BY <1>1, <1>5, <2>1, <2>2, AcknowledgesDown
<1> QED BY <1>3, <1>4, <1>5

(* The parked poll takes a batch.                                          *)
LEMMA PollWakesDown ==
  ASSUME TypeOK, DownInv, PollWakes
  PROVE  DownInv'
<1>1. UNCHANGED <<cursor, received, queued, sclosed, fault, latePolls>>
      /\ TakeBatch /\ owner # "none" /\ downCall \in DownCall
  BY DEF PollWakes, ends, TypeOK, BridgeDownType
<1>2. cursor = downCursor
  BY <1>1 DEF DownInv, OwnerCurrent
<1>3. CASE sclosed
  <2>1. pendingFrames = <<>>
    BY <1>3 DEF DownInv, Queues
  <2> QED BY <1>1, <2>1 DEF TakeBatch
<1>4. CASE ~sclosed
  <2>1. \/ downCall' = downCall
        \/ downCall'.pc = "batch" /\ downCall'.body = unacked'
           /\ downCall'.next = downCursor'
    BY <1>1 DEF PollWakes, AnswerWith, DownCall
  <2> QED BY <1>1, <1>2, <1>4, <2>1, TakeBatchDown
<1> QED BY <1>3, <1>4

(* The bridge posts a batch to the client.                                 *)
LEMMA DownReceivedDown ==
  ASSUME TypeOK, DownInv, DownReceived
  PROVE  DownInv'
<1>1. UNCHANGED <<queued, pendingFrames, unacked, unackedBase, downCursor, owner, sclosed,
                  closed, fault, latePolls>>
      /\ downCall.pc = "batch" /\ downCall'.pc = "idle"
  BY DEF DownReceived, NoDownCall, relayDown, ends
<1>2. CASE UNCHANGED <<cursor, received>>
  <2>1. cursor <= cursor
    BY DownNumbers
  <2> QED BY <1>1, <1>2, <2>1, DownUntouched
<1>3. CASE received' = received \o downCall.body /\ cursor' = downCall.next
  <2> DEFINE n == Len(downCall.body)
  <2>1. /\ cursor' = cursor + 1 /\ downCursor = cursor + 1
        /\ downCall.body = Span(got, got + n) /\ got + n <= queued
        /\ ~sclosed => downCall.body = unacked
    BY <1>1, <1>3 DEF DownInv, AnswerFits
  <2>2. /\ got \in Nat /\ n \in Nat /\ got + n \in Nat /\ got <= got + n
        /\ 0 \in Nat /\ 0 <= got /\ (got + n) - 0 = got + n /\ 0 <= got + n
    BY DownNumbers
  <2> HIDE DEF n
  <2>3. received' = Span(0, got + n)
    <3>1. received = Span(0, got)
      BY DEF DownInv, Queues
    <3>2. Span(0, got) \o Span(got, got + n) = Span(0, got + n)
      BY <2>2, SpanJoin, Zenon
    <3> QED BY <1>3, <2>1, <3>1, <3>2
  <2>4. got' = got + n
    <3>1. Len(Span(0, got + n)) = (got + n) - 0
      BY <2>2, SpanType, Zenon
    <3>2. got' = Len(received')
      BY Zenon DEF got
    <3> QED BY <2>2, <2>3, <3>1, <3>2
  <2>5. drawn' = drawn
    BY <1>1 DEF drawn
  <2>6. ~sclosed => got' = drawn
    <3>1. SUFFICES ASSUME ~sclosed PROVE got + n = drawn
      BY <2>4
    <3>2. unacked = Span(got, drawn) /\ got <= drawn /\ drawn \in Nat
      BY <2>1, <3>1 DEF DownInv, CursorsAgree, Queues
    <3>3. Len(Span(got, drawn)) = drawn - got
      BY <2>2, <3>2, SpanType
    <3>4. n = drawn - got
      BY <2>1, <3>1, <3>2, <3>3, Zenon DEF n
    <3> QED BY <2>2, <3>2, <3>4
  <2>7. Queues'
    BY <1>1, <2>1, <2>2, <2>3, <2>4, <2>5, <2>6 DEF DownInv, Queues
  <2>8. CursorsAgree'
    BY <1>1, <2>1, <2>5, <2>6, DownNumbers DEF CursorsAgree
  <2>9. AnswerFits' /\ OwnerCurrent' /\ PollFaultStale'
    BY <1>1, <2>1, DownNumbers DEF DownInv, AnswerFits, OwnerCurrent, PollFaultStale
  <2>10. LatePollsOld'
    BY <1>1, <2>1, DownNumbers DEF DownInv, LatePollsOld
  <2> QED BY <2>7, <2>8, <2>9, <2>10 DEF DownInv
<1> QED BY <1>2, <1>3 DEF DownReceived

(* DownInv is inductive.                                                   *)
LEMMA DownInvStep == TypeOK /\ DownInv /\ [Next]_vars => DownInv'
<1> SUFFICES ASSUME TypeOK, DownInv, [Next]_vars PROVE DownInv'
  OBVIOUS
<1>0. cursor <= cursor /\ downCall \in DownCall
  BY DownNumbers DEF TypeOK, BridgeDownType
<1>1. CASE BridgeUplink
  <2>1. UNCHANGED <<bridgeDown, relayDown, sclosed, fault, latePolls>>
    BY <1>1
    DEF BridgeUplink, UpStart, UpRetry, UpFetchFails, UpAcked, UpBusy, UpRejected, ends
  <2> QED BY <1>0, <2>1, DownUntouched DEF bridgeDown, relayDown
<1>2. CASE BridgeDownlink
  <2>1. CASE DownReceived
    BY <2>1, DownReceivedDown
  <2>2. CASE DownStart \/ DownRetry \/ DownEmpty \/ DownRejected
    <3>1. UNCHANGED <<cursor, received, relayDown, sclosed, fault, latePolls>>
          /\ downCall'.pc # "batch"
      BY <1>0, <2>2
      DEF DownStart, DownRetry, DownEmpty, DownRejected, NoDownCall, DownCall, ends
    <3> QED BY <1>0, <3>1, DownUntouched DEF relayDown
  <2>3. CASE DownFetchFails
    <3>1. UNCHANGED <<cursor, received, queued, pendingFrames, unacked, unackedBase,
                      downCursor, sclosed, fault>>
          /\ (owner' # "none" => owner # "none")
      BY <2>3 DEF DownFetchFails
    <3>3. downCall' \in {NoDownCall, [NoDownCall EXCEPT !.pc = "pause",
                                                       !.attempt = downCall.attempt + 1]}
      BY <2>3 DEF DownFetchFails
    <3>4. downCall'.pc # "batch"
      <4>1. CASE downCall' = NoDownCall
        BY <4>1 DEF NoDownCall
      <4>2. CASE downCall' = [NoDownCall EXCEPT !.pc = "pause",
                                                !.attempt = downCall.attempt + 1]
        BY <4>2 DEF NoDownCall
      <4> QED BY <3>3, <4>1, <4>2
    <3>2. \A c \in latePolls' : c \in latePolls \/ c = cursor
      BY <2>3 DEF DownFetchFails
    <3> QED BY <1>0, <3>1, <3>2, <3>4, DownUntouched
  <2> QED BY <1>2, <2>1, <2>2, <2>3 DEF BridgeDownlink
<1>3. CASE Network
  <2>1. CASE UpArrives \/ LateUpArrives
    <3>1. PICK r, live : ProcessUp(r, live)
      BY <2>1 DEF UpArrives, LateUpArrives
    <3>2. UNCHANGED <<bridgeDown, latePolls>>
      BY <2>1 DEF UpArrives, LateUpArrives
    <3>3. CASE SessionCloses /\ fault'.kind = "up"
      BY <3>1, <3>2, <3>3, DownClosed DEF ProcessUp, bridgeDown
    <3>4. CASE UNCHANGED <<sclosed, fault, pendingFrames, unacked>>
      BY <1>0, <3>1, <3>2, <3>4, DownUntouched DEF ProcessUp, bridgeDown
    <3> QED BY <3>1, <3>3, <3>4 DEF ProcessUp
  <2>2. CASE DownArrives
    BY <2>2, DownArrivesDown
  <2>3. CASE LatePollArrives
    BY <2>3, LatePollArrivesDown
  <2>4. CASE DeleteArrives
    BY <2>4, DownClosed DEF DeleteArrives, bridgeDown
  <2>5. CASE DeleteLost
    BY <1>0, <2>5, DownUntouched DEF DeleteLost, bridgeDown, relayDown
  <2> QED BY <1>3, <2>1, <2>2, <2>3, <2>4, <2>5 DEF Network
<1>4. CASE Relay
  <2>1. CASE PollWakes
    BY <2>1, PollWakesDown
  <2>2. CASE UpParsed
    BY <1>0, <2>2, DownUntouched DEF UpParsed, bridgeDown, relayDown, ends
  <2>3. CASE PollSuperseded \/ PollEnds \/ PollDisconnects
    <3>1. UNCHANGED <<cursor, received, queued, pendingFrames, unacked, unackedBase,
                      downCursor, sclosed, fault, latePolls>>
          /\ (owner' # "none" => owner # "none")
      BY <2>3 DEF PollSuperseded, PollEnds, PollDisconnects, relayDown, bridgeDown, ends
    <3>2. downCall' = downCall \/ downCall'.pc # "batch"
      BY <1>0, <2>3
      DEF PollSuperseded, PollEnds, PollDisconnects, Answer, DownCall, bridgeDown
    <3> QED BY <1>0, <3>1, <3>2, DownUntouched
  <2> QED BY <1>4, <2>1, <2>2, <2>3 DEF Relay
<1>5. CASE Users \/ UpDeadline
  <2>1. CASE RelayQueues
    BY <2>1, RelayQueuesDown
  <2>2. CASE RelayCloses
    BY <2>2, DownClosed DEF RelayCloses, bridgeDown
  <2>3. CASE Accept \/ BridgeCloses \/ UpDeadline
    <3>1. UNCHANGED <<bridgeDown, relayDown, sclosed, fault, latePolls>>
      BY <2>3 DEF Accept, BridgeCloses, UpDeadline, ends
    <3> QED BY <1>0, <3>1, DownUntouched DEF bridgeDown, relayDown
  <2> QED BY <1>5, <2>1, <2>2, <2>3 DEF Users
<1>6. CASE UNCHANGED vars
  BY <1>0, <1>6, DownUntouched DEF vars, bridgeDown, relayDown, ends
<1> QED BY <1>1, <1>2, <1>3, <1>4, <1>5, <1>6 DEF Next

(* It holds initially.                                                     *)
LEMMA DownInvInit == Init => DownInv
<1> SUFFICES ASSUME Init PROVE DownInv
  OBVIOUS
<1>1. queued = 0 /\ pendingFrames = <<>> /\ received = <<>> /\ <<>> \in Seq(Nat)
      /\ Len(pendingFrames) = 0 /\ Len(received) = 0 /\ cursor = 0 /\ downCursor = 0
  BY SequenceTypes DEF Init
<1>2. drawn = 0 /\ got = 0
  <2>1. drawn = 0 - 0
    BY <1>1, Zenon DEF drawn
  <2>2. got = 0
    BY <1>1, Zenon DEF got
  <2> QED BY <2>1, <2>2
<1>3. Span(0, 0) = <<>>
  BY <1>1, SpanEmpty
<1>4. Queues /\ CursorsAgree
  BY <1>1, <1>2, <1>3 DEF Init, Queues, CursorsAgree
<1>5. AnswerFits /\ OwnerCurrent /\ LatePollsOld /\ PollFaultStale
  BY DEF Init, AnswerFits, OwnerCurrent, LatePollsOld, PollFaultStale, NoDownCall, NoFault
<1> QED BY <1>4, <1>5 DEF DownInv

-----------------------------------------------------------------------------
(* Every step of the carrier is a step of each direction's channel.        *)

(* Neither end opens again.                                                *)
LEMMA EndsStayClosed == [Next]_vars => (closed => closed') /\ (sclosed => sclosed')
<1> SUFFICES ASSUME [Next]_vars PROVE (closed => closed') /\ (sclosed => sclosed')
  OBVIOUS
<1>1. CASE BridgeUplink \/ BridgeDownlink
  <2>1. UNCHANGED sclosed
    BY <1>1
    DEF BridgeUplink, BridgeDownlink, UpStart, UpRetry, UpFetchFails, UpAcked, UpBusy,
        UpRejected, DownStart, DownRetry, DownFetchFails, DownEmpty, DownReceived,
        DownRejected, ends
  <2>2. CASE BridgeUplink
    <3>1. closed' = TRUE \/ UNCHANGED closed
      BY <2>2
      DEF BridgeUplink, UpStart, UpRetry, UpFetchFails, UpAcked, UpBusy, UpRejected, Fail,
          ends
    <3> QED BY <2>1, <3>1
  <2>3. CASE BridgeDownlink
    BY <2>1, <2>3
    DEF BridgeDownlink, DownStart, DownRetry, DownFetchFails, DownEmpty, DownReceived,
        DownRejected, Fail, ends
  <2> QED BY <1>1, <2>2, <2>3
<1>2. CASE Network
  <2>1. UNCHANGED closed
    BY <1>2
    DEF Network, UpArrives, LateUpArrives, DownArrives, LatePollArrives, DeleteArrives,
        DeleteLost
  <2>2. sclosed' = TRUE \/ UNCHANGED sclosed
    BY <1>2
    DEF Network, UpArrives, LateUpArrives, ProcessUp, DownArrives, LatePollArrives,
        PollUnserved, PollFails, Acknowledges, SessionCloses, DeleteArrives, DeleteLost
  <2> QED BY <2>1, <2>2
<1>3. CASE Relay
  BY <1>3 DEF Relay, UpParsed, PollWakes, PollSuperseded, PollEnds, PollDisconnects, ends
<1>4. CASE Users \/ UpDeadline
  BY <1>4
  DEF Users, Accept, RelayQueues, BridgeCloses, RelayCloses, UpDeadline, SessionCloses,
      Fail, ends
<1>5. CASE UNCHANGED vars
  BY <1>5 DEF vars, ends
<1> QED BY <1>1, <1>2, <1>3, <1>4, <1>5 DEF Next

(* The frames of the uplink move in two actions only.                      *)
LEMMA UplinkMoves ==
  [Next]_vars =>
    \/ UNCHANGED <<accepted, committed>>
    \/ accepted' = accepted + 1 /\ UNCHANGED <<committed, closed, sclosed>>
    \/ UNCHANGED <<accepted, closed, sclosed>>
BY DEF Next, BridgeUplink, BridgeDownlink, Network, Relay, Users, UpStart, UpRetry,
       UpFetchFails, UpAcked, UpBusy, UpRejected, DownStart, DownRetry, DownFetchFails,
       DownEmpty, DownReceived, DownRejected, UpArrives, LateUpArrives, ProcessUp,
       DownArrives, LatePollArrives, DeleteArrives, DeleteLost, UpParsed, PollWakes,
       PollSuperseded, PollEnds, PollDisconnects, Accept, RelayQueues, BridgeCloses,
       RelayCloses, UpDeadline, vars, ends, bridgeUp, relayUp

(* Frames are committed, never taken back.                                 *)
LEMMA CommittedGrows ==
  [Next]_vars => UNCHANGED committed \/ committed' = committed \o parsing.body
BY DEF Next, BridgeUplink, BridgeDownlink, Network, Relay, Users, UpStart, UpRetry,
       UpFetchFails, UpAcked, UpBusy, UpRejected, DownStart, DownRetry, DownFetchFails,
       DownEmpty, DownReceived, DownRejected, UpArrives, LateUpArrives, ProcessUp,
       DownArrives, LatePollArrives, DeleteArrives, DeleteLost, UpParsed, PollWakes,
       PollSuperseded, PollEnds, PollDisconnects, Accept, RelayQueues, BridgeCloses,
       RelayCloses, UpDeadline, vars, relayUp

(* The uplink of a step.                                                   *)
LEMMA UplinkStep ==
  TypeOK /\ TypeOK' /\ UpInv /\ UpInv' /\ [Next]_vars => [Uplink!Next]_(Uplink!channel)
<1> SUFFICES ASSUME TypeOK, TypeOK', UpInv, UpInv', [Next]_vars
             PROVE  [Uplink!Next]_(Uplink!channel)
  OBVIOUS
<1>1. Broken => Broken'
  BY EndsStayClosed DEF Broken
<1>2. CASE UNCHANGED <<accepted, committed>>
  <2>1. CASE Broken' = Broken
    BY <1>2, <2>1 DEF Uplink!channel
  <2>2. CASE ~Broken /\ Broken'
    BY <1>2, <2>2 DEF Uplink!Next, Uplink!Break
  <2> QED BY <1>1, <2>1, <2>2 DEF Broken, TypeOK, EndsType
<1>3. CASE accepted' = accepted + 1 /\ UNCHANGED <<committed, closed, sclosed>>
  BY <1>3 DEF Uplink!Next, Uplink!Send, Broken
<1>4. CASE UNCHANGED <<accepted, closed, sclosed>> /\ ~UNCHANGED committed
  <2>1. committed' = committed \o parsing.body
    BY <1>4, CommittedGrows
  <2>2. committed' = Span(0, done') /\ done' <= accepted' /\ done' \in Nat
    BY UpNumbers DEF UpInv, Divided, taken, done, TypeOK, UpType, RelayUpType
  <2>3. committed = Span(0, done) /\ done \in Nat
    BY UpNumbers DEF UpInv, Divided
  <2>4. done' >= done
    BY <2>1 DEF done, TypeOK, RelayUpType, Parsing
  <2>5. done' # done
    BY <1>4, <2>2, <2>3
  <2>6. done' \in Len(committed) + 1 .. accepted
    BY <1>4, <2>2, <2>3, <2>4, <2>5 DEF done
  <2>7. committed' = Uplink!Interval(0, done')
    BY <2>2 DEF Uplink!Interval, Span
  <2> QED
    BY <1>4, <2>6, <2>7 DEF Uplink!Next, Uplink!Deliver, Broken
<1> QED BY <1>2, <1>3, <1>4, UplinkMoves

(* The uplink of the https carrier (page.go:229-241, session.go:248-335)   *)
(* delivers what is posted in order, once, and without gaps, for any       *)
(* number of frames and attempts.                                          *)
THEOREM UplinkRefinesChannel == Spec => UplinkIsFifo
<1>1. Init => Uplink!Init
  BY DEF Init, Uplink!Init, Broken
<1>2. Spec => []UpInv
  BY UpInvInit, UpInvStep, TypeCorrect, PTL DEF Spec
<1> QED
  BY <1>1, <1>2, TypeCorrect, UplinkStep, PTL DEF Spec, UplinkIsFifo, Uplink!Spec

(* The frames of the downlink move in two actions only.                    *)
LEMMA DownlinkMoves ==
  [Next]_vars =>
    \/ UNCHANGED <<queued, received>>
    \/ queued' = queued + 1 /\ UNCHANGED <<received, closed, sclosed>>
    \/ /\ UNCHANGED <<queued, closed, sclosed>>
       /\ received' = received \o downCall.body
BY DEF Next, BridgeUplink, BridgeDownlink, Network, Relay, Users, UpStart, UpRetry,
       UpFetchFails, UpAcked, UpBusy, UpRejected, DownStart, DownRetry, DownFetchFails,
       DownEmpty, DownReceived, DownRejected, UpArrives, LateUpArrives, ProcessUp,
       DownArrives, LatePollArrives, DeleteArrives, DeleteLost, UpParsed, PollWakes,
       PollSuperseded, PollEnds, PollDisconnects, Accept, RelayQueues, BridgeCloses,
       RelayCloses, UpDeadline, vars, ends, bridgeDown, relayDown

(* The downlink of a step.                                                 *)
LEMMA DownlinkStep ==
  TypeOK /\ TypeOK' /\ DownInv /\ DownInv' /\ [Next]_vars
    => [Downlink!Next]_(Downlink!channel)
<1> SUFFICES ASSUME TypeOK, TypeOK', DownInv, DownInv', [Next]_vars
             PROVE  [Downlink!Next]_(Downlink!channel)
  OBVIOUS
<1>1. Broken => Broken'
  BY EndsStayClosed DEF Broken
<1>2. CASE UNCHANGED <<queued, received>>
  <2>1. CASE Broken' = Broken
    BY <1>2, <2>1 DEF Downlink!channel
  <2>2. CASE ~Broken /\ Broken'
    BY <1>2, <2>2 DEF Downlink!Next, Downlink!Break
  <2> QED BY <1>1, <2>1, <2>2 DEF Broken, TypeOK, EndsType
<1>3. CASE queued' = queued + 1 /\ UNCHANGED <<received, closed, sclosed>>
  BY <1>3 DEF Downlink!Next, Downlink!Send, Broken
<1>4. CASE /\ UNCHANGED <<queued, closed, sclosed>>
           /\ received' = received \o downCall.body
           /\ ~UNCHANGED received
  <2>1. received' = Span(0, got') /\ got' <= queued' /\ got' \in Nat
    BY DEF DownInv, Queues, got, TypeOK, BridgeDownType
  <2>2. received = Span(0, got) /\ got \in Nat
    BY DownNumbers DEF DownInv, Queues
  <2>3. got' >= got
    BY <1>4 DEF got, TypeOK, BridgeDownType, DownCall
  <2>4. got' # got
    BY <1>4, <2>1, <2>2
  <2>5. got' \in Len(received) + 1 .. queued
    BY <1>4, <2>1, <2>2, <2>3, <2>4 DEF got
  <2>6. received' = Downlink!Interval(0, got')
    BY <2>1 DEF Downlink!Interval, Span
  <2> QED
    BY <1>4, <2>5, <2>6 DEF Downlink!Next, Downlink!Deliver, Broken
<1> QED BY <1>2, <1>3, <1>4, DownlinkMoves

(* The downlink of the https carrier (page.go:242-255, session.go:446-556) *)
(* delivers what the relay queues in order, once, and without gaps, for    *)
(* any number of frames and attempts.                                      *)
THEOREM DownlinkRefinesChannel == Spec => DownlinkIsFifo
<1>1. Init => Downlink!Init
  BY DEF Init, Downlink!Init, Broken
<1>2. Spec => []DownInv
  BY DownInvInit, DownInvStep, TypeCorrect, PTL DEF Spec
<1> QED
  BY <1>1, <1>2, TypeCorrect, DownlinkStep, PTL DEF Spec, DownlinkIsFifo, Downlink!Spec

(* Only requests that the bridge gave up, and that come after a later one  *)
(* was answered, look like protocol violations to the relay (session.go:   *)
(* 268 and 484).                                                           *)
THEOREM OnlyStaleRequestsFailHolds == Spec => []OnlyStaleRequestsFail
<1>1. TypeOK /\ UpInv /\ DownInv => OnlyStaleRequestsFail
  BY DEF TypeOK, EndsType, Fault, UpInv, DownInv, UpFaultStale, PollFaultStale,
         OnlyStaleRequestsFail
<1>2. Spec => []UpInv
  BY UpInvInit, UpInvStep, TypeCorrect, PTL DEF Spec
<1>3. Spec => []DownInv
  BY DownInvInit, DownInvStep, TypeCorrect, PTL DEF Spec
<1> QED
  BY <1>1, <1>2, <1>3, TypeCorrect, PTL

=============================================================================
