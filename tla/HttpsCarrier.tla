---------------------------- MODULE HttpsCarrier ----------------------------
(***************************************************************************)
(* The https carrier from end to end: the uplink and poll loops of the     *)
(* bridge page, a network that loses, delays and repeats requests and      *)
(* loses answers, and the relay's decisions about sequences and cursors.   *)
(*                                                                         *)
(* A fetch the bridge gives up may still be on its way: its copy arrives   *)
(* at any later time, several times (as do the copies of several           *)
(* attempts), or never.  Frames are numbered in the order in which they    *)
(* are handed to their end of the carrier; how many fit a request depends  *)
(* on their sizes and is any number.                                       *)
(*                                                                         *)
(* What MuxSession models in detail is taken as one step here: a critical  *)
(* section with the Close that follows a protocol failure, and a parked    *)
(* poll with its wake-up.                                                  *)
(***************************************************************************)
EXTENDS Integers, Sequences

CONSTANTS
  MaxUp,        \* bound: frames the client hands to the bridge
  MaxDown,      \* bound: frames the relay queues for the client
  MaxAttempts   \* failed fetches after which request() gives up: 9

ASSUME HttpsAssumption ==
  /\ MaxUp \in Nat /\ MaxDown \in Nat
  /\ MaxAttempts \in Nat \ {0}

VARIABLES
  \* the bridge
  closed,          \* close() has run
  accepted,        \* frames the client has posted
  upPending,       \* those that no request carries yet
  upSequence,
  upCall,          \* the request() that runUp awaits
  cursor,          \* poll's downCursor
  received,        \* frames posted to the client
  downCall,        \* the request() that poll awaits
  \* the network
  lateUps,         \* abandoned uplink requests
  latePolls,       \* cursors of abandoned polls
  deleteSent,      \* a DELETE may arrive
  \* the relay
  sclosed,
  parsing,         \* the request that holds upActive
  lastUpSequence,
  lastUpDigest,
  committed,       \* frames handed to the streams
  queued,          \* frames queued for the client
  pendingFrames,
  unacked,
  unackedBase,
  downCursor,
  owner,           \* the parked poll
  fault            \* the request that made the relay fail, if one did

bridgeUp == <<accepted, upPending, upSequence, upCall>>
bridgeDown == <<cursor, received, downCall>>
relayUp == <<parsing, lastUpSequence, lastUpDigest, committed>>
relayDown == <<queued, pendingFrames, unacked, unackedBase, downCursor, owner>>
ends == <<closed, sclosed, deleteSent, fault>>

vars == <<bridgeUp, bridgeDown, relayUp, relayDown, ends, lateUps, latePolls>>

Request == [seq : Nat, body : Seq(Nat)]

UpCall ==
  [pc : {"idle", "sent", "parsing", "acked", "busy", "refused", "pause"},
   attempt : 0 .. MaxAttempts - 1, expired : BOOLEAN, body : Seq(Nat)]

NoUpCall == [pc |-> "idle", attempt |-> 0, expired |-> FALSE, body |-> <<>>]

DownCall ==
  [pc : {"idle", "sent", "parked", "batch", "empty", "refused", "pause"},
   attempt : 0 .. MaxAttempts - 1, body : Seq(Nat), next : Nat]

NoDownCall == [pc |-> "idle", attempt |-> 0, body |-> <<>>, next |-> 0]

(* upActive: the request being parsed, and whether the bridge still waits  *)
(* for its answer.                                                         *)
Parsing == [on : BOOLEAN, live : BOOLEAN, seq : Nat, body : Seq(Nat)]

NotParsing == [on |-> FALSE, live |-> FALSE, seq |-> 0, body |-> <<>>]

Fault == [kind : {"none", "up", "poll"}, late : BOOLEAN, behind : BOOLEAN]

NoFault == [kind |-> "none", late |-> FALSE, behind |-> FALSE]

EndsType ==
  /\ closed \in BOOLEAN /\ sclosed \in BOOLEAN /\ deleteSent \in BOOLEAN
  /\ fault \in Fault

UpType ==
  /\ accepted \in 0 .. MaxUp /\ upPending \in Seq(Nat) /\ upSequence \in Nat
  /\ upCall \in UpCall /\ lateUps \subseteq Request

RelayUpType ==
  /\ parsing \in Parsing
  /\ lastUpSequence \in Nat /\ lastUpDigest \in Seq(Nat) /\ committed \in Seq(Nat)

BridgeDownType ==
  /\ cursor \in Nat /\ received \in Seq(Nat) /\ downCall \in DownCall
  /\ latePolls \subseteq Nat

RelayDownType ==
  /\ queued \in 0 .. MaxDown /\ pendingFrames \in Seq(Nat) /\ unacked \in Seq(Nat)
  /\ unackedBase \in Nat /\ downCursor \in Nat
  /\ owner \in {"none", "live", "late"}

TypeOK == EndsType /\ UpType /\ RelayUpType /\ BridgeDownType /\ RelayDownType

Init ==
  /\ closed = FALSE /\ sclosed = FALSE /\ deleteSent = FALSE /\ fault = NoFault
  /\ accepted = 0 /\ upPending = <<>> /\ upSequence = 1 /\ upCall = NoUpCall
  /\ cursor = 0 /\ received = <<>> /\ downCall = NoDownCall
  /\ lateUps = {} /\ latePolls = {}
  /\ parsing = NotParsing
  /\ lastUpSequence = 0 /\ lastUpDigest = <<>> /\ committed = <<>>
  /\ queued = 0 /\ pendingFrames = <<>> /\ unacked = <<>> /\ unackedBase = 0
  /\ downCursor = 0 /\ owner = "none"

-----------------------------------------------------------------------------
(* Closing.                                                                *)

(* fail() and close(true): the running poll is aborted (it sees `closed`   *)
(* when its fetch rejects), and a DELETE is sent once.                     *)
Fail ==
  /\ closed' = TRUE
  /\ deleteSent' = (deleteSent \/ ~closed)

(* The client closes the port, the page goes away, or a queue overflows.   *)
BridgeCloses ==
  /\ ~closed
  /\ Fail
  /\ UNCHANGED <<sclosed, fault, bridgeUp, bridgeDown, relayUp, relayDown,
                 lateUps, latePolls>>

(* closeLocked drops what is queued.                                       *)
SessionCloses ==
  /\ sclosed' = TRUE
  /\ pendingFrames' = <<>>
  /\ unacked' = <<>>

DeleteArrives ==
  /\ deleteSent
  /\ SessionCloses
  /\ deleteSent' = FALSE
  /\ UNCHANGED <<closed, fault, bridgeUp, bridgeDown, relayUp, queued, unackedBase,
                 downCursor, owner, lateUps, latePolls>>

DeleteLost ==
  /\ deleteSent
  /\ deleteSent' = FALSE
  /\ UNCHANGED <<closed, sclosed, fault, bridgeUp, bridgeDown, relayUp, relayDown,
                 lateUps, latePolls>>

(* A limit, a shutdown, a control frame that does not fit; and, when the   *)
(* bridge is gone, the manager's cleanup.                                  *)
RelayCloses ==
  /\ ~sclosed
  /\ SessionCloses
  /\ UNCHANGED <<closed, deleteSent, fault, bridgeUp, bridgeDown, relayUp, queued,
                 unackedBase, downCursor, owner, lateUps, latePolls>>

-----------------------------------------------------------------------------
(* Uplink: the bridge sends.                                               *)

Accept ==
  /\ ~closed
  /\ accepted < MaxUp
  /\ accepted' = accepted + 1
  /\ upPending' = Append(upPending, accepted + 1)
  /\ UNCHANGED <<upSequence, upCall, bridgeDown, relayUp, relayDown, ends,
                 lateUps, latePolls>>

(* runUp and joinPending.                                                  *)
UpStart ==
  /\ upCall.pc = "idle"
  /\ ~closed
  /\ \E k \in 1 .. Len(upPending) :
       /\ upCall' = [NoUpCall EXCEPT !.pc = "sent",
                                     !.body = SubSeq(upPending, 1, k)]
       /\ upPending' = SubSeq(upPending, k + 1, Len(upPending))
  /\ UNCHANGED <<accepted, upSequence, bridgeDown, relayUp, relayDown, ends,
                 lateUps, latePolls>>

UpPc(pc) == upCall' = [upCall EXCEPT !.pc = pc]

UpRetry ==
  /\ upCall.pc = "pause"
  /\ UpPc("sent")
  /\ UNCHANGED <<accepted, upPending, upSequence, bridgeDown, relayUp, relayDown,
                 ends, lateUps, latePolls>>

(* The 90 seconds in which 503 is answered with a further attempt.         *)
UpDeadline ==
  /\ upCall.pc # "idle"
  /\ ~upCall.expired
  /\ upCall' = [upCall EXCEPT !.expired = TRUE]
  /\ UNCHANGED <<accepted, upPending, upSequence, bridgeDown, relayUp, relayDown,
                 ends, lateUps, latePolls>>

(* fetch rejects: no connection, the answer lost, or the abort timer.  The *)
(* request may be lost, may still arrive, or its handler may be running.   *)
UpFetchFails ==
  /\ upCall.pc \in {"sent", "parsing", "acked", "busy", "refused"}
  /\ lateUps' \in
       {lateUps} \cup
       IF upCall.pc = "sent"
       THEN {lateUps \cup {[seq |-> upSequence, body |-> upCall.body]}}
       ELSE {}
  /\ parsing' = [parsing EXCEPT !.live = FALSE]
  /\ IF closed \/ upCall.attempt + 1 >= MaxAttempts
     THEN /\ upCall' = NoUpCall
          /\ Fail
     ELSE /\ upCall' = [upCall EXCEPT !.pc = "pause", !.attempt = @ + 1]
          /\ UNCHANGED <<closed, deleteSent>>
  /\ UNCHANGED <<sclosed, fault, accepted, upPending, upSequence, bridgeDown,
                 lastUpSequence, lastUpDigest, committed, relayDown, latePolls>>

-----------------------------------------------------------------------------
(* Uplink: the relay decides (ProcessUp).                                  *)

Verdict_recommits(r) ==
  IF sclosed THEN "refused"
  ELSE IF r.seq \notin {lastUpSequence, lastUpSequence + 1} THEN "fails"
  ELSE IF parsing.on THEN "busy"
  ELSE "parsing"

Verdict_strict(r) ==
  IF sclosed THEN "refused"
  ELSE IF r.seq = lastUpSequence /\ r.body = lastUpDigest THEN "acked"
  ELSE IF parsing.on \/ r.seq # lastUpSequence + 1 THEN "fails"
  ELSE "parsing"

Verdict(r) ==
  IF sclosed THEN "refused"
  ELSE IF r.seq = lastUpSequence /\ r.seq # 0
  THEN IF r.body = lastUpDigest THEN "acked" ELSE "fails"
  ELSE IF r.seq # lastUpSequence + 1 THEN "fails"
  ELSE IF parsing.on THEN "busy"
  ELSE "parsing"

ProcessUp(r, live) ==
  /\ parsing' = IF Verdict(r) = "parsing"
                THEN [on |-> TRUE, live |-> live, seq |-> r.seq, body |-> r.body]
                ELSE parsing
  /\ IF Verdict(r) = "fails"
     THEN /\ SessionCloses
          /\ fault' = [kind |-> "up", late |-> ~live, behind |-> r.seq < lastUpSequence]
     ELSE UNCHANGED <<sclosed, fault, pendingFrames, unacked>>
  /\ UNCHANGED <<lastUpSequence, lastUpDigest, committed, queued, unackedBase,
                 downCursor, owner>>

UpArrives ==
  /\ upCall.pc = "sent"
  /\ LET r == [seq |-> upSequence, body |-> upCall.body]
     IN  /\ ProcessUp(r, TRUE)
         /\ UpPc(IF Verdict(r) = "fails" THEN "refused" ELSE Verdict(r))
  /\ UNCHANGED <<closed, deleteSent, accepted, upPending, upSequence, bridgeDown,
                 lateUps, latePolls>>

LateUpArrives ==
  /\ \E r \in lateUps : ProcessUp(r, FALSE)
  /\ UNCHANGED <<closed, deleteSent, bridgeUp, bridgeDown, lateUps, latePolls>>

(* The second critical section: the body is committed, or finds the budget *)
(* full, or the session closed.                                            *)
UpParsed ==
  /\ parsing.on
  /\ parsing' = NotParsing
  /\ \/ /\ sclosed
        /\ upCall' = IF parsing.live THEN [upCall EXCEPT !.pc = "refused"] ELSE upCall
        /\ UNCHANGED <<lastUpSequence, lastUpDigest, committed>>
     \/ /\ ~sclosed
        /\ committed' = committed \o parsing.body
        /\ lastUpSequence' = parsing.seq
        /\ lastUpDigest' = parsing.body
        /\ upCall' = IF parsing.live THEN [upCall EXCEPT !.pc = "acked"] ELSE upCall
     \/ /\ ~sclosed
        /\ upCall' = IF parsing.live THEN [upCall EXCEPT !.pc = "busy"] ELSE upCall
        /\ UNCHANGED <<lastUpSequence, lastUpDigest, committed>>
  /\ UNCHANGED <<accepted, upPending, upSequence, bridgeDown, relayDown, ends,
                 lateUps, latePolls>>

-----------------------------------------------------------------------------
(* Uplink: the bridge reads the answer.                                    *)

UpAcked ==
  /\ upCall.pc = "acked"
  /\ upSequence' = upSequence + 1
  /\ upCall' = NoUpCall
  /\ UNCHANGED <<accepted, upPending, bridgeDown, relayUp, relayDown, ends,
                 lateUps, latePolls>>

UpBusy_forever ==
  /\ upCall.pc = "busy"
  /\ UpPc("pause")
  /\ UNCHANGED <<accepted, upPending, upSequence, bridgeDown, relayUp, relayDown,
                 ends, lateUps, latePolls>>

(* 503 is retried without counting until the deadline, even by a bridge    *)
(* that was closed meanwhile.                                              *)
UpBusy ==
  /\ upCall.pc = "busy"
  /\ ~upCall.expired
  /\ UpPc("pause")
  /\ UNCHANGED <<accepted, upPending, upSequence, bridgeDown, relayUp, relayDown,
                 ends, lateUps, latePolls>>

UpRejected ==
  /\ upCall.pc = "refused" \/ (upCall.pc = "busy" /\ upCall.expired)
  /\ upCall' = NoUpCall
  /\ Fail
  /\ UNCHANGED <<sclosed, fault, accepted, upPending, upSequence, bridgeDown,
                 relayUp, relayDown, lateUps, latePolls>>

-----------------------------------------------------------------------------
(* Downlink: the bridge polls.                                             *)

RelayQueues ==
  /\ ~sclosed
  /\ queued < MaxDown
  /\ queued' = queued + 1
  /\ pendingFrames' = Append(pendingFrames, queued + 1)
  /\ UNCHANGED <<bridgeUp, bridgeDown, relayUp, unacked, unackedBase, downCursor,
                 owner, ends, lateUps, latePolls>>

DownStart ==
  /\ downCall.pc = "idle"
  /\ ~closed
  /\ downCall' = [NoDownCall EXCEPT !.pc = "sent"]
  /\ UNCHANGED <<bridgeUp, cursor, received, relayUp, relayDown, ends, lateUps,
                 latePolls>>

(* Also after close(): an attempt that was pausing starts a fetch that the *)
(* abort signal no longer reaches.                                         *)
DownRetry ==
  /\ downCall.pc = "pause"
  /\ downCall' = [downCall EXCEPT !.pc = "sent"]
  /\ UNCHANGED <<bridgeUp, cursor, received, relayUp, relayDown, ends, lateUps,
                 latePolls>>

DownFetchFails_uncounted ==
  /\ downCall.pc \in {"sent", "parked", "batch", "empty", "refused"}
  /\ latePolls' = latePolls
  /\ owner' = IF owner = "live" THEN "late" ELSE owner
  /\ downCall' = IF closed THEN NoDownCall ELSE [NoDownCall EXCEPT !.pc = "pause"]
  /\ UNCHANGED <<closed, deleteSent, sclosed, fault, bridgeUp, cursor, received, relayUp,
                 queued, pendingFrames, unacked, unackedBase, downCursor, lateUps>>

(* The handler of a poll that was parked stays parked until the relay      *)
(* notices.                                                                *)
DownFetchFails ==
  /\ downCall.pc \in {"sent", "parked", "batch", "empty", "refused"}
  /\ latePolls' \in
       {latePolls} \cup IF downCall.pc = "sent" THEN {latePolls \cup {cursor}} ELSE {}
  /\ owner' = IF owner = "live" THEN "late" ELSE owner
  /\ IF closed \/ downCall.attempt + 1 >= MaxAttempts
     THEN /\ downCall' = NoDownCall
          /\ Fail
     ELSE /\ downCall' = [NoDownCall EXCEPT !.pc = "pause",
                                            !.attempt = downCall.attempt + 1]
          /\ UNCHANGED <<closed, deleteSent>>
  /\ UNCHANGED <<sclosed, fault, bridgeUp, cursor, received, relayUp, queued,
                 pendingFrames, unacked, unackedBase, downCursor, lateUps>>

-----------------------------------------------------------------------------
(* Downlink: the relay decides (Poll).                                     *)

Answer(pc) == downCall' = [downCall EXCEPT !.pc = pc]

AnswerWith(body, next) ==
  downCall' = [downCall EXCEPT !.pc = "batch", !.body = body, !.next = next]

PollVerdict_skips(c) ==
  IF sclosed THEN "refused"
  ELSE IF c # downCursor /\ ~(unacked # <<>> /\ c = unackedBase) THEN "fails"
  ELSE "owns"

PollVerdict_noResend(c) ==
  IF sclosed THEN "refused" ELSE IF c # downCursor THEN "fails" ELSE "owns"

PollVerdict(c) ==
  IF sclosed THEN "refused"
  ELSE IF unacked # <<>> /\ c = unackedBase THEN "resend"
  ELSE IF c # downCursor THEN "fails"
  ELSE "owns"

PollFails(c, live) ==
  /\ SessionCloses
  /\ fault' = [kind |-> "poll", late |-> ~live, behind |-> c < downCursor]
  /\ UNCHANGED <<unackedBase, downCursor, owner>>

TakeBatch ==
  /\ \E k \in 1 .. Len(pendingFrames) :
       /\ unacked' = SubSeq(pendingFrames, 1, k)
       /\ pendingFrames' = SubSeq(pendingFrames, k + 1, Len(pendingFrames))
  /\ unackedBase' = downCursor
  /\ downCursor' = downCursor + 1
  /\ owner' = "none"

(* A poll of the current cursor acknowledges; it takes what is queued, or  *)
(* the place of the parked poll.                                           *)
Acknowledges(who) ==
  /\ \/ TakeBatch
     \/ /\ pendingFrames = <<>>
        /\ unacked' = <<>>
        /\ owner' = who
        /\ UNCHANGED <<pendingFrames, unackedBase, downCursor>>
  /\ UNCHANGED <<sclosed, fault>>

PollUnserved ==
  UNCHANGED <<sclosed, fault, pendingFrames, unacked, unackedBase, downCursor, owner>>

DownArrives ==
  /\ downCall.pc = "sent"
  /\ \/ /\ PollVerdict(cursor) = "refused"
        /\ Answer("refused")
        /\ PollUnserved
     \/ /\ PollVerdict(cursor) = "resend"
        /\ AnswerWith(unacked, downCursor)
        /\ PollUnserved
     \/ /\ PollVerdict(cursor) = "fails"
        /\ Answer("refused")
        /\ PollFails(cursor, TRUE)
     \/ /\ PollVerdict(cursor) = "owns"
        /\ Acknowledges("live")
        /\ IF owner' = "live" THEN Answer("parked") ELSE AnswerWith(unacked', downCursor')
  /\ UNCHANGED <<closed, deleteSent, bridgeUp, cursor, received, relayUp, queued,
                 lateUps, latePolls>>

LatePollArrives ==
  /\ \E c \in latePolls :
       \/ /\ PollVerdict(c) \in {"refused", "resend"}
          /\ PollUnserved
       \/ /\ PollVerdict(c) = "fails"
          /\ PollFails(c, FALSE)
       \/ /\ PollVerdict(c) = "owns"
          /\ Acknowledges("late")
  /\ UNCHANGED <<closed, deleteSent, bridgeUp, bridgeDown, relayUp, queued,
                 lateUps, latePolls>>

(* The parked poll wakes and takes what was queued.                        *)
PollWakes ==
  /\ owner # "none"
  /\ TakeBatch
  /\ IF owner = "live" THEN AnswerWith(unacked', downCursor') ELSE UNCHANGED downCall
  /\ UNCHANGED <<bridgeUp, cursor, received, relayUp, queued, ends, lateUps, latePolls>>

PollSuperseded ==
  /\ downCall.pc = "parked"
  /\ owner # "live"
  /\ Answer("empty")
  /\ UNCHANGED <<bridgeUp, cursor, received, relayUp, relayDown, ends, lateUps,
                 latePolls>>

(* The long-poll deadline finds nothing queued, or a closed session wakes  *)
(* its poll.                                                               *)
PollEnds ==
  /\ owner # "none"
  /\ pendingFrames = <<>>
  /\ owner' = "none"
  /\ IF owner = "live"
     THEN Answer(IF sclosed THEN "refused" ELSE "empty")
     ELSE UNCHANGED downCall
  /\ UNCHANGED <<bridgeUp, cursor, received, relayUp, queued, pendingFrames, unacked,
                 unackedBase, downCursor, ends, lateUps, latePolls>>

(* The relay notices that nobody waits for the parked poll any more.       *)
PollDisconnects ==
  /\ owner = "late"
  /\ owner' = "none"
  /\ UNCHANGED <<bridgeUp, bridgeDown, relayUp, queued, pendingFrames, unacked,
                 unackedBase, downCursor, ends, lateUps, latePolls>>

-----------------------------------------------------------------------------
(* Downlink: the bridge reads the answer.                                  *)

(* 200 and its body; a closed bridge posts nothing.                        *)
DownReceived ==
  /\ downCall.pc = "batch"
  /\ downCall' = NoDownCall
  /\ IF closed
     THEN UNCHANGED <<cursor, received>>
     ELSE /\ received' = received \o downCall.body
          /\ cursor' = downCall.next
  /\ UNCHANGED <<bridgeUp, relayUp, relayDown, ends, lateUps, latePolls>>

DownEmpty ==
  /\ downCall.pc = "empty"
  /\ downCall' = NoDownCall
  /\ UNCHANGED <<bridgeUp, cursor, received, relayUp, relayDown, ends, lateUps,
                 latePolls>>

DownRejected_ignored ==
  /\ downCall.pc \in {"refused", "batch"}
  /\ downCall' = NoDownCall
  /\ UNCHANGED <<bridgeUp, cursor, received, relayUp, relayDown, ends, lateUps, latePolls>>

(* 404; or the body of a 200 breaks off, which request() does not retry.   *)
DownRejected ==
  /\ downCall.pc \in {"refused", "batch"}
  /\ downCall' = NoDownCall
  /\ Fail
  /\ UNCHANGED <<sclosed, fault, bridgeUp, cursor, received, relayUp, relayDown,
                 lateUps, latePolls>>

-----------------------------------------------------------------------------
BridgeUplink == UpStart \/ UpRetry \/ UpFetchFails \/ UpAcked \/ UpBusy \/ UpRejected

BridgeDownlink == DownStart \/ DownRetry \/ DownFetchFails \/ DownEmpty \/ DownReceived
                  \/ DownRejected

Network == UpArrives \/ LateUpArrives \/ DownArrives \/ LatePollArrives
           \/ DeleteArrives \/ DeleteLost

Relay == UpParsed \/ PollWakes \/ PollSuperseded \/ PollEnds \/ PollDisconnects

Users == Accept \/ RelayQueues \/ BridgeCloses \/ RelayCloses

Next == BridgeUplink \/ BridgeDownlink \/ Network \/ Relay \/ Users \/ UpDeadline

Spec == Init /\ [][Next]_vars

(***************************************************************************)
(* The page's event loop and the relay's goroutines run; timers fire, so   *)
(* that no fetch and no series of 503 answers lasts for ever.  Nothing is  *)
(* assumed of the network: no request and no answer need ever arrive.      *)
(***************************************************************************)
Fairness ==
  /\ WF_vars(BridgeUplink)
  /\ WF_vars(BridgeDownlink)
  /\ WF_vars(UpDeadline)
  /\ WF_vars(UpParsed)
  /\ WF_vars(PollWakes)
  /\ WF_vars(PollSuperseded)

FairSpec == Spec /\ Fairness

-----------------------------------------------------------------------------
(* Either end has closed.                                                  *)
Broken == closed \/ sclosed

Uplink == INSTANCE Channel WITH
            sent <- accepted, delivered <- committed, broken <- Broken

Downlink == INSTANCE Channel WITH
              sent <- queued, delivered <- received, broken <- Broken

(* The relay hands the frames the client posts to its streams in order,    *)
(* none twice and none missing, whatever the network does to requests and  *)
(* answers (page.go:229-241, session.go:248-335).                          *)
UplinkIsFifo == Uplink!Spec

(* The bridge posts the frames the relay queues to the client in order,    *)
(* none twice and none missing (page.go:242-255, session.go:446-556).      *)
DownlinkIsFifo == Downlink!Spec

(* ... and every frame arrives as long as both ends last.                  *)
UplinkIsChannel == Uplink!FairSpec

DownlinkIsChannel == Downlink!FairSpec

(* Sequences and cursors make the relay close the session only for a       *)
(* request that the bridge had given up and that comes after a later one   *)
(* was answered (session.go:268 and 484); no request the bridge waits for  *)
(* ever looks like a protocol violation.                                   *)
OnlyStaleRequestsFail == fault.kind # "none" => fault.late /\ fault.behind

(* When the relay closes the session, for whatever reason, the bridge      *)
(* finds out and tells its client: nothing but its own requests can tell   *)
(* it, and each of them may be lost.                                       *)
BridgeLearns == sclosed ~> closed

=============================================================================
