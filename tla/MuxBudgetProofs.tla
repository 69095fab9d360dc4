--------------------------- MODULE MuxBudgetProofs ---------------------------
(***************************************************************************)
(* Proof that the pending budget of a multiplexed session is exact: every  *)
(* step that moves a charge from the handler that reserved it to a stream, *)
(* from the queue to the unacknowledged batch or out of the session moves  *)
(* the budget with it.                                                     *)
(***************************************************************************)
EXTENDS MuxQueueProofs

-----------------------------------------------------------------------------
(* Without carrier lanes, what the lanes owe is what the one lane owes.    *)
LEMMA OnlyLaneOwes ==
  ASSUME NEW s \in Session
  PROVE  /\ LanesOwe(s) = LaneOwes(s.lanes[0])
         /\ LanesHold(s) = LaneHolds(s.lanes[0])
<1>1. LaneCount = 1
  BY OneLane DEF LaneCount
<1>2. LaneOwes(s.lanes[0]) \in Int /\ LaneHolds(s.lanes[0]) \in Int
  BY ChargeTypes, LaneZero, Zenon
<1>3. /\ [k \in 1 .. 1 |-> LaneOwes(s.lanes[k - 1])] = <<LaneOwes(s.lanes[0])>>
      /\ [k \in 1 .. 1 |-> LaneHolds(s.lanes[k - 1])] = <<LaneHolds(s.lanes[0])>>
  OBVIOUS
<1>. QED
  BY <1>1, <1>2, <1>3, TotalOne DEF LanesOwe, LanesHold

(* What the handlers change of the one lane without moving a charge.       *)
LEMMA OnlyLaneCharges ==
  ASSUME NEW s \in Session
  PROVE  /\ ChargesKept(s, s)
         /\ \A x : ChargesKept(s, [s EXCEPT !.lanes[0].upActive = x])
         /\ \A x : ChargesKept(s, [s EXCEPT !.lanes[0].owner = x])
         /\ \A x : ChargesKept(s, [s EXCEPT !.lanes[0].notify = x])
         /\ \A x, y : ChargesKept(s, [s EXCEPT !.lanes[0].lastUpSequence = x,
                                               !.lanes[0].lastUpDigest = y])
BY LaneZero, LanesCharges, ChargesKeptSame, Zenon

(* The steps of polls, for what is charged.                                *)
LEMMA TakeOrParkCharges ==
  ASSUME NEW s \in Session, NEW ps \in [Pollers -> PollState], NEW p \in Pollers,
         TakeOrPark(s, ps, p), s.lanes[0].unacked = <<>>
  PROVE  ChargesKept(s, ses')
<1>1. CASE s.lanes[0].frames = <<>>
  BY <1>1, OnlyLaneCharges, Zenon DEF TakeOrPark
<1>2. CASE s.lanes[0].frames # <<>>
  <2>1. PICK k \in 1 .. Len(s.lanes[0].frames) : ses' = TakenBy(s, ps[p].cursor, k)
    BY <1>2, Zenon DEF TakeOrPark
  <2>2. ps[p].cursor \in Nat
    BY DEF PollState
  <2>3. ses' = PutLane(s, 0, TakeBatch(s.lanes[0], k, ps[p].cursor))
    BY <2>1 DEF TakenBy, PutLane
  <2>. QED
    BY <2>2, <2>3, LaneZero, TakeCharges, Zenon
<1>. QED
  BY <1>1, <1>2

LEMMA PollCharges ==
  ASSUME PollInv, NEW p \in Pollers,
         PollStep(p) \/ PollCancelled(p) \/ \E cursor \in 0 .. MaxCursor : PollBegin(p, cursor),
         NEW c \in Int, NEW i \in Int, Charged(ses, c, i), locked \/ (c = 0 /\ i = 0)
  PROVE  Charged(ses', c, i)
<1>1. ses \in Session /\ ChargesKept(ses, ses) /\ polls \in [Pollers -> PollState]
  BY ChargesKeptSame, Zenon DEF PollInv, TypeOK, BackendTypeOK
<1>2. ChargesKept(ses, ses') => Charged(ses', c, i)
  BY Zenon DEF ChargesKept
<1>3. CASE ses' = ses
  BY <1>1, <1>3, Zenon
<1>4. CASE \/ ses' = [ses EXCEPT !.lanes[0].owner = NoPoller]
           \/ ses' = [ses EXCEPT !.lanes[0].notify = FALSE]
           \/ ses' = [ses EXCEPT !.lanes[0].notify = TRUE]
  BY <1>1, <1>2, <1>4, OnlyLaneCharges, Zenon
<1>5. CASE PollCloses(p)
  <2>1. c = 0 /\ i = 0 /\ ses' = CloseSession(ses)
    BY <1>5, Zenon DEF PollCloses
  <2>. QED
    BY <1>1, <2>1, CloseSessionCharges, Zenon
<1>6. CASE TakeOrPark(ses, polls, p) /\ lane0.owner = p
  <2>1. lane0.owner # NoPoller
    BY <1>6, CarrierAssumption
  <2>2. ses.lanes[0].unacked = <<>>
    BY <2>1, Zenon DEF PollInv, PollOwnership, lane0
  <2>. QED
    BY <1>1, <1>2, <1>6, <2>2, TakeOrParkCharges, Zenon
<1>7. CASE \E cursor \in 0 .. MaxCursor : PollBegin(p, cursor)
  <2>. PICK cursor \in 0 .. MaxCursor : PollBegin(p, cursor)
    BY <1>7
  <2>1. CASE UNCHANGED ses
    BY <1>3, <2>1
  <2>2. CASE TakeOrPark([AckUnacked(ses, 0) EXCEPT !.lanes[0].owner = p],
                        Supersede(polls, p, cursor), p)
    <3>. DEFINE acked == AckUnacked(ses, 0)
                s == [acked EXCEPT !.lanes[0].owner = p]
    <3>1. acked \in Session /\ ChargesKept(ses, acked) /\ acked.lanes[0].unacked = <<>>
      BY <1>1, LaneZero, AckUnackedType, AckCharges, Zenon
    <3>. HIDE DEF acked
    <3>2. s \in Session /\ ChargesKept(acked, s)
      <4>1. p \in Pollers \cup {NoPoller}
        OBVIOUS
      <4>. QED
        BY <3>1, <4>1, LaneUpdates, OnlyLaneCharges, Zenon
    <3>3. s.lanes[0].unacked = <<>>
      <4>1. acked.lanes[0] \in Lane /\ 0 \in LaneIds
        BY <3>1, SessionFields, LaneZero
      <4>. QED
        BY <3>1, <4>1 DEF Session, Lane
    <3>4. Supersede(polls, p, cursor) \in [Pollers -> PollState]
      <4>1. cursor \in Nat
        BY MuxAssumption
      <4>. QED
        BY <1>1, <4>1, SupersedeType, Zenon
    <3>. HIDE DEF s
    <3>5. ChargesKept(s, ses')
      BY <2>2, <3>2, <3>3, <3>4, TakeOrParkCharges, Zenon DEF s, acked
    <3>. QED
      BY <1>2, <3>1, <3>2, <3>5, ChargesKeptTransitive, Zenon
  <2>. QED
    BY <2>1, <2>2, Zenon DEF PollBegin
<1>8. CASE PollWakes(p) \/ PollResumes(p) \/ PollSuperseded(p)
  BY <1>4, <1>6, <1>8, Zenon DEF PollWakes, PollResumes, PollSuperseded, Signalled
<1>9. CASE PollCancelled(p) \/ PollExpires(p)
  BY <1>3, <1>4, <1>6, <1>9, Zenon DEF PollCancelled, PollExpires, Disown, Signalled
<1>10. CASE PollReturns(p)
  BY <1>3, <1>10, Zenon DEF PollReturns
<1>. QED
  BY <1>5, <1>7, <1>8, <1>9, <1>10, Zenon DEF PollStep

-----------------------------------------------------------------------------
(* What the handler that holds the mutex has reserved, of any handlers us. *)
HoldersIn(us) == {u \in Uppers : us[u].pc \in Held}

CostHeld(us) == IF HoldersIn(us) = {} THEN 0 ELSE us[CHOOSE u \in HoldersIn(us) : TRUE].cost

ItemsHeld(us) == IF HoldersIn(us) = {} THEN 0 ELSE us[CHOOSE u \in HoldersIn(us) : TRUE].items

Books == Charged(ses, CostHeld(ups), ItemsHeld(ups))

LEMMA NoneHeld ==
  ASSUME NEW us, \A u \in Uppers : us[u].pc \notin Held
  PROVE  CostHeld(us) = 0 /\ ItemsHeld(us) = 0
<1>1. HoldersIn(us) = {}
  BY DEF HoldersIn
<1>. QED
  BY <1>1, Zenon DEF CostHeld, ItemsHeld

LEMMA OneHeld ==
  ASSUME NEW us, NEW u \in Uppers, us[u].pc \in Held,
         \A v \in Uppers \ {u} : us[v].pc \notin Held
  PROVE  CostHeld(us) = us[u].cost /\ ItemsHeld(us) = us[u].items
<1>1. HoldersIn(us) = {u}
  BY DEF HoldersIn
<1>2. (CHOOSE v \in HoldersIn(us) : TRUE) = u
  BY <1>1
<1>3. HoldersIn(us) # {}
  BY <1>1
<1>. QED
  BY <1>2, <1>3, Zenon DEF CostHeld, ItemsHeld

LEMMA SameHeld ==
  ASSUME NEW us, NEW vs,
         \A u \in Uppers : us[u].pc \in Held <=> vs[u].pc \in Held,
         \A u \in Uppers : us[u].pc \in Held =>
           vs[u].cost = us[u].cost /\ vs[u].items = us[u].items
  PROVE  CostHeld(vs) = CostHeld(us) /\ ItemsHeld(vs) = ItemsHeld(us)
<1>1. HoldersIn(us) = HoldersIn(vs)
  BY DEF HoldersIn
<1>2. CASE HoldersIn(us) = {}
  BY <1>1, <1>2, Zenon DEF CostHeld, ItemsHeld
<1>3. CASE HoldersIn(us) # {}
  <2>. DEFINE w == CHOOSE u \in HoldersIn(us) : TRUE
  <2>1. w \in HoldersIn(us)
    BY <1>3
  <2>2. (CHOOSE u \in HoldersIn(vs) : TRUE) = w
    BY <1>1
  <2>. HIDE DEF w
  <2>3. w \in Uppers /\ us[w].pc \in Held
    BY <2>1 DEF HoldersIn
  <2>4. vs[w].cost = us[w].cost /\ vs[w].items = us[w].items
    BY <2>3
  <2>5. CostHeld(us) = us[w].cost /\ ItemsHeld(us) = us[w].items
    BY <1>3, Zenon DEF CostHeld, ItemsHeld, w
  <2>6. CostHeld(vs) = vs[w].cost /\ ItemsHeld(vs) = vs[w].items
    BY <1>1, <1>3, <2>2, Zenon DEF CostHeld, ItemsHeld
  <2>. QED
    BY <2>4, <2>5, <2>6
<1>. QED
  BY <1>2, <1>3

(* Without the mutex nothing is held, and with it one handler holds it.    *)
LEMMA HeldTypes ==
  ASSUME UpsTypeOK, UplinkInv
  PROVE  /\ CostHeld(ups) \in Int /\ ItemsHeld(ups) \in Int
         /\ ~locked => CostHeld(ups) = 0 /\ ItemsHeld(ups) = 0
         /\ \A u \in Uppers : ups[u].pc \in Held \cup {"parsing"} =>
              \A v \in Uppers \ {u} : ups[v].pc \notin Held
         /\ \A u \in Uppers : ups[u].pc \in Held =>
              CostHeld(ups) = ups[u].cost /\ ItemsHeld(ups) = ups[u].items
<1>1. \A u \in Uppers : ups[u].pc \in Held \cup {"parsing"} =>
        \A v \in Uppers \ {u} : ups[v].pc \notin Held
  BY DEF UplinkInv, SingleUplink, Held
<1>2. \A u \in Uppers : ups[u].pc \in Held =>
        CostHeld(ups) = ups[u].cost /\ ItemsHeld(ups) = ups[u].items
  BY <1>1, OneHeld, Zenon
<1>3. ~locked => CostHeld(ups) = 0 /\ ItemsHeld(ups) = 0
  BY NoneHeld, Zenon DEF UplinkInv, LockHeld
<1>4. CostHeld(ups) \in Int /\ ItemsHeld(ups) \in Int
  <2>1. CASE \A u \in Uppers : ups[u].pc \notin Held
    <3>1. CostHeld(ups) = 0 /\ ItemsHeld(ups) = 0
      BY <2>1, NoneHeld, Zenon
    <3>. QED
      BY <3>1
  <2>2. CASE \E u \in Uppers : ups[u].pc \in Held
    <3>1. PICK u \in Uppers : ups[u].pc \in Held
      BY <2>2
    <3>2. ups[u].cost \in Int /\ ups[u].items \in Int
      BY UpFields DEF UpsTypeOK
    <3>. QED
      BY <1>2, <3>1, <3>2, Zenon
  <2>. QED
    BY <2>1, <2>2, Zenon
<1>. QED
  BY <1>1, <1>2, <1>3, <1>4, Zenon

(* A handler moves with what it holds, if anything.                        *)
LEMMA HeldOnward ==
  ASSUME UpsTypeOK, NEW u \in Uppers, NEW r, ups' = [ups EXCEPT ![u] = r],
         ups[u].pc \in Held <=> r.pc \in Held,
         ups[u].pc \in Held => r.cost = ups[u].cost /\ r.items = ups[u].items
  PROVE  CostHeld(ups') = CostHeld(ups) /\ ItemsHeld(ups') = ItemsHeld(ups)
<1>1. ups'[u] = r /\ \A v \in Uppers \ {u} : ups'[v] = ups[v]
  BY DEF UpsTypeOK
<1>2. \A v \in Uppers : ups[v].pc \in Held <=> ups'[v].pc \in Held
  BY <1>1
<1>3. \A v \in Uppers : ups[v].pc \in Held =>
        ups'[v].cost = ups[v].cost /\ ups'[v].items = ups[v].items
  BY <1>1
<1>. QED
  BY <1>2, <1>3, SameHeld, Zenon

(* The handler that is admitted or holds the mutex comes to hold r's part. *)
LEMMA HeldBecomes ==
  ASSUME UpsTypeOK, UplinkInv, NEW u \in Uppers, NEW r, ups' = [ups EXCEPT ![u] = r],
         ups[u].pc \in Held \cup {"parsing"}
  PROVE  /\ r.pc \in Held => CostHeld(ups') = r.cost /\ ItemsHeld(ups') = r.items
         /\ r.pc \notin Held => CostHeld(ups') = 0 /\ ItemsHeld(ups') = 0
<1>1. ups'[u] = r /\ \A v \in Uppers \ {u} : ups'[v] = ups[v]
  BY DEF UpsTypeOK
<1>2. \A v \in Uppers \ {u} : ups'[v].pc \notin Held
  BY <1>1, HeldTypes, Zenon
<1>3. ASSUME r.pc \in Held PROVE CostHeld(ups') = r.cost /\ ItemsHeld(ups') = r.items
  <2>1. ups'[u].pc \in Held
    BY <1>1, <1>3
  <2>2. CostHeld(ups') = ups'[u].cost /\ ItemsHeld(ups') = ups'[u].items
    BY <1>2, <2>1, OneHeld, Zenon
  <2>. QED
    BY <1>1, <2>2
<1>4. r.pc \notin Held => CostHeld(ups') = 0 /\ ItemsHeld(ups') = 0
  <2>1. r.pc \notin Held => \A v \in Uppers : ups'[v].pc \notin Held
    BY <1>1, <1>2
  <2>. QED
    BY <2>1, NoneHeld, Zenon
<1>. QED
  BY <1>3, <1>4

LEMMA UpCommitBooks ==
  ASSUME TypeOK, UplinkInv, Books, NEW u \in Uppers, UpCommit(u)
  PROVE  Books'
<1>. DEFINE idle == [ses EXCEPT !.lanes[0].upActive = FALSE]
            cost == WriteCost(ses, ups[u].body)
            items == WriteItems(ses, ups[u].body)
<1>1. /\ ses \in Session /\ UpsTypeOK /\ ups[u] \in UpState /\ ups[u].pc = "parsing"
      /\ ups[u].pc \in Held \cup {"parsing"} /\ ~locked
  BY Zenon DEF TypeOK, BackendTypeOK, UpsTypeOK, UpCommit
<1>2. idle \in Session /\ ChargesKept(ses, idle)
  BY <1>1, LaneUpdates, OnlyLaneCharges, Zenon
<1>3. cost \in Int /\ items \in Int
  BY <1>1, UpFields, WriteCostType, Zenon
<1>4. CostHeld(ups) = 0 /\ ItemsHeld(ups) = 0 /\ 0 \in Int
  BY <1>1, HeldTypes
<1>5. Charged(idle, 0, 0)
  BY <1>2, <1>4, Zenon DEF Books, ChargesKept
<1>6. CASE ses' = idle /\ \E pc \in {"failed", "failing", "retry"} : UpEnds(u, pc)
  <2>1. PICK pc \in {"failed", "failing", "retry"} : UpEnds(u, pc)
    BY <1>6
  <2>. DEFINE r == [NoUp EXCEPT !.pc = pc]
  <2>2. ups' = [ups EXCEPT ![u] = r] /\ r.pc \notin Held
    BY <2>1 DEF UpEnds, NoUp, Held
  <2>. HIDE DEF r
  <2>3. CostHeld(ups') = 0 /\ ItemsHeld(ups') = 0
    BY <1>1, <2>2, HeldBecomes, Zenon
  <2>. QED
    BY <1>5, <1>6, <2>3, Zenon DEF Books
<1>7. CASE /\ ses' = Reserve(idle, cost, items)
           /\ ups' = [ups EXCEPT ![u].pc = "applying", ![u].k = 1,
                                 ![u].cost = cost, ![u].items = items]
  <2>. DEFINE r == [ups[u] EXCEPT !.pc = "applying", !.k = 1, !.cost = cost, !.items = items]
  <2>. HIDE DEF cost, items, idle
  <2>1. ups' = [ups EXCEPT ![u] = r]
    BY <1>7 DEF UpsTypeOK
  <2>2. r.pc \in Held /\ r.cost = cost /\ r.items = items
    BY <1>1 DEF UpState, Held
  <2>. HIDE DEF r
  <2>3. CostHeld(ups') = cost /\ ItemsHeld(ups') = items
    BY <1>1, <2>1, <2>2, HeldBecomes, Zenon
  <2>4. Charged(Reserve(idle, cost, items), 0 + cost, 0 + items)
    BY <1>2, <1>3, <1>4, <1>5, BudgetCharges, Zenon
  <2>5. 0 + cost = cost /\ 0 + items = items
    BY <1>3
  <2>6. Charged(Reserve(idle, cost, items), cost, items)
    BY <2>4, <2>5, Zenon
  <2>. QED
    BY <1>7, <2>3, <2>6, Zenon DEF Books
<1>. QED
  BY <1>6, <1>7, Zenon DEF UpCommit

LEMMA UpAppliedBooks ==
  ASSUME TypeOK, UplinkInv, Books, NEW u \in Uppers, UpApplied(u)
  PROVE  Books'
<1>. DEFINE c == ups[u].cost
            i == ups[u].items
            released == ReleasePending(ses, c, i)
            r == [ups[u] EXCEPT !.pc = "launching", !.applied = TRUE, !.cost = 0, !.items = 0]
<1>1. /\ ses \in Session /\ UpsTypeOK /\ ups[u] \in UpState /\ ups[u].pc = "applying"
      /\ c \in Int /\ i \in Int
  BY UpFields, Zenon DEF TypeOK, BackendTypeOK, UpsTypeOK, UpApplied
<1>2. ups[u].pc \in Held /\ ups[u].pc \in Held \cup {"parsing"}
  BY <1>1 DEF Held
<1>3. Charged(ses, c, i)
  BY <1>1, <1>2, HeldTypes, Zenon DEF Books
<1>4. released \in Session /\ Charged(released, c - c, i - i)
  BY <1>1, <1>3, ReleasePendingType, BudgetCharges, Zenon
<1>5. c - c = 0 /\ i - i = 0 /\ 0 \in Int
  BY <1>1
<1>6. ses' = [released EXCEPT !.lanes[0].lastUpSequence = ups[u].seq,
                              !.lanes[0].lastUpDigest = ups[u].body]
  BY Zenon DEF UpApplied
<1>7. ups' = [ups EXCEPT ![u] = r]
  BY <1>1 DEF UpApplied, UpsTypeOK
<1>8. r.pc \notin Held
  BY <1>1 DEF UpState, Held
<1>. HIDE DEF released, r, c, i
<1>9. CostHeld(ups') = 0 /\ ItemsHeld(ups') = 0
  BY <1>1, <1>2, <1>7, <1>8, HeldBecomes, Zenon
<1>10. Charged(released, 0, 0) /\ ChargesKept(released, ses')
  BY <1>4, <1>5, <1>6, OnlyLaneCharges, Zenon
<1>11. Charged(ses', 0, 0)
  BY <1>5, <1>10, Zenon DEF ChargesKept
<1>. QED
  BY <1>9, <1>11, Zenon DEF Books

LEMMA ApplyOpenBooks ==
  ASSUME TypeOK, UplinkInv, TombInv, Books, NEW u \in Uppers, ApplyOpen(u)
  PROVE  Books'
<1>. DEFINE id == Current(u).id
            c == CostHeld(ups)
            i == ItemsHeld(ups)
            r == [ups[u] EXCEPT !.k = @ + 1, !.toStart = @ \cup {id}]
<1>1. /\ ses \in Session /\ UpsTypeOK /\ ups[u] \in UpState /\ OpensFresh
      /\ Applying(u) /\ ups[u].pc = "applying" /\ Current(u).type = "OPEN"
  BY Zenon DEF TypeOK, BackendTypeOK, UpsTypeOK, ApplyOpen, TombInv, Applying
<1>2. id \in StreamIds /\ ~ses.streams[id].live
  <2>1. ups[u].k \in ups[u].k .. Len(ups[u].body)
    BY <1>1, UpFields, BodyType DEF Applying
  <2>. QED
    BY <1>1, <2>1, Zenon DEF OpensFresh, OpensAhead, Current
<1>3. ups' = [ups EXCEPT ![u] = r]
  BY <1>1 DEF ApplyOpen, UpsTypeOK
<1>4. r.pc = ups[u].pc /\ r.cost = ups[u].cost /\ r.items = ups[u].items
  BY <1>1 DEF UpState
<1>. HIDE DEF r, id
<1>5. CostHeld(ups') = c /\ ItemsHeld(ups') = i
  BY <1>1, <1>3, <1>4, HeldOnward, Zenon
<1>6. c \in Int /\ i \in Int
  BY <1>1, HeldTypes, Zenon
<1>. HIDE DEF c, i
<1>7. Charged(ses, c, i)
  BY Zenon DEF Books, c, i
<1>8. ses' = PutStream(ses, id, OpenedStream)
  BY Zenon DEF ApplyOpen, PutStream, id
<1>9. /\ OpenedStream.live
      /\ OpenedStream.pendingWriteCost = 0 /\ OpenedStream.pendingWriteItems = 0
  BY DEF OpenedStream, NoStream
<1>10. Charged(ses', c - (OpenedStream.pendingWriteCost - ses.streams[id].pendingWriteCost),
                     i - (OpenedStream.pendingWriteItems - ses.streams[id].pendingWriteItems))
  BY <1>1, <1>2, <1>6, <1>7, <1>8, <1>9, NoStreamType, OneStreamCharges, Zenon
<1>11. ses.streams[id].pendingWriteCost = 0 /\ ses.streams[id].pendingWriteItems = 0
  BY <1>2, <1>7, Zenon DEF Charged, EndedOwesNothing
<1>12. c - (0 - 0) = c /\ i - (0 - 0) = i
  BY <1>6
<1>13. Charged(ses', c, i)
  BY <1>9, <1>10, <1>11, <1>12, Zenon
<1>. QED
  BY <1>5, <1>13, Zenon DEF Books

(* A refused OPEN keeps the books when its CLOSE is queued, and ends the   *)
(* body, whose reservation is released, when it is not.                    *)
LEMMA RejectOpenBooks ==
  ASSUME TypeOK, UplinkInv, Books, NEW u \in Uppers, RejectOpen(u)
  PROVE  Books'
<1>. DEFINE id == Current(u).id
            f == [type |-> "CLOSE", id |-> id, n |-> 0]
            remembered == RememberClosed(ses, id)
            c == ups[u].cost
            i == ups[u].items
<1>1. /\ ses \in Session /\ UpsTypeOK /\ ups[u] \in UpState
      /\ Applying(u) /\ ups[u].pc = "applying" /\ Current(u).type = "OPEN"
      /\ c \in Int /\ i \in Int
  BY UpFields, Zenon DEF TypeOK, BackendTypeOK, UpsTypeOK, RejectOpen, Applying
<1>2. ups[u].pc \in Held /\ ups[u].pc \in Held \cup {"parsing"}
  BY <1>1 DEF Held
<1>3. id \in StreamIds
  <2>1. ValidClientShape(Current(u)) /\ (id # 0 => id \in StreamIds)
    BY <1>1, CurrentType, Zenon
  <2>. QED
    BY <1>1, <2>1 DEF ValidClientShape
<1>. HIDE DEF id
<1>4. CostHeld(ups) = c /\ ItemsHeld(ups) = i
  BY <1>1, <1>2, HeldTypes, Zenon
<1>. HIDE DEF c, i
<1>5. f \in Queueable
  BY <1>3 DEF Queueable
<1>6. remembered \in Session /\ Charged(remembered, c, i)
  BY <1>1, <1>3, <1>4, RememberClosedType, RememberCharges, Zenon DEF Books, ChargesKept
<1>7. CASE ses' = QueueFrame(remembered, f) /\ NextFrame(u)
  <2>. HIDE DEF f, remembered
  <2>1. Charged(ses', c, i)
    BY <1>1, <1>5, <1>6, <1>7, QueueFrameCharges, Zenon DEF ChargesKept
  <2>. DEFINE r == [ups[u] EXCEPT !.k = @ + 1]
  <2>2. ups' = [ups EXCEPT ![u] = r]
    BY <1>1, <1>7 DEF NextFrame, UpsTypeOK
  <2>3. r.pc = ups[u].pc /\ r.cost = ups[u].cost /\ r.items = ups[u].items
    BY <1>1 DEF UpState
  <2>. HIDE DEF r
  <2>4. CostHeld(ups') = c /\ ItemsHeld(ups') = i
    BY <1>1, <1>4, <2>2, <2>3, HeldOnward, Zenon
  <2>. QED
    BY <2>1, <2>4, Zenon DEF Books
<1>8. CASE /\ ses' = ReleasePending(remembered, c, i)
           /\ ups' = [ups EXCEPT ![u].pc = "launching", ![u].cost = 0, ![u].items = 0]
  <2>. HIDE DEF remembered
  <2>1. Charged(ses', c - c, i - i)
    BY <1>1, <1>6, <1>8, BudgetCharges, Zenon
  <2>2. c - c = 0 /\ i - i = 0
    BY <1>1
  <2>3. Charged(ses', 0, 0)
    BY <2>1, <2>2, Zenon
  <2>. DEFINE r == [ups[u] EXCEPT !.pc = "launching", !.cost = 0, !.items = 0]
  <2>4. ups' = [ups EXCEPT ![u] = r]
    BY <1>8 DEF UpsTypeOK
  <2>5. r.pc \notin Held
    BY <1>1 DEF UpState, Held
  <2>. HIDE DEF r
  <2>6. CostHeld(ups') = 0 /\ ItemsHeld(ups') = 0
    BY <1>1, <1>2, <2>4, <2>5, HeldBecomes, Zenon
  <2>. QED
    BY <2>3, <2>6, Zenon DEF Books
<1>. QED
  BY <1>7, <1>8, Zenon DEF RejectOpen, f, remembered, id, c, i

(* A queued payload moves its charge from the reservation to the stream.   *)
LEMMA ApplyDataBooks ==
  ASSUME TypeOK, UplinkInv, Books, NEW u \in Uppers, ApplyData(u)
  PROVE  Books'
<1>. DEFINE f == Current(u)
            id == f.id
            n == f.n
            old == ses.streams[id]
            x == WriteQueued(old, n)
            items == IF Coalesces(old, n) THEN 0 ELSE 1
            a == n + items * QueueItemCost
            c == ups[u].cost
            i == ups[u].items
            r == [ups[u] EXCEPT !.k = @ + 1, !.cost = @ - a, !.items = @ - items]
<1>1. /\ ses \in Session /\ UpsTypeOK /\ ups[u] \in UpState
      /\ Applying(u) /\ ups[u].pc = "applying"
      /\ c \in Int /\ i \in Int
  BY UpFields, Zenon DEF TypeOK, BackendTypeOK, UpsTypeOK, ApplyData, Applying
<1>2. ups[u].pc \in Held /\ ups[u].pc \in Held \cup {"parsing"}
  BY <1>1 DEF Held
<1>3. id \in StreamIds /\ n \in Nat /\ n <= MaxFramePayload /\ old.live
  <2>1. id \in StreamIds /\ n \in Nat /\ PayloadLength(f) <= MaxFramePayload /\ old.live
    BY <1>1, CurrentType, Zenon DEF ApplyData
  <2>2. f.type = "DATA"
    BY Zenon DEF ApplyData
  <2>. QED
    BY <2>1, <2>2 DEF PayloadLength
<1>4. ses' = PutStream(ses, id, x)
  BY Zenon DEF ApplyData, PutStream
<1>5. ups' = [ups EXCEPT ![u] = r]
  <2>1. ups' = [ups EXCEPT ![u].k = @ + 1, ![u].cost = @ - a, ![u].items = @ - items]
    BY Zenon DEF ApplyData
  <2>. HIDE DEF a, items
  <2>. QED
    BY <1>1, <2>1 DEF UpsTypeOK
<1>. HIDE DEF f, id, n
<1>6. items \in Int /\ a \in Int
  BY <1>3, FrameAssumption
<1>7. old \in Stream /\ old.pendingWriteCost \in Int /\ old.pendingWriteItems \in Int
  BY <1>1, <1>3, SessionFields, StreamFields
<1>. HIDE DEF old
<1>8. x \in Stream
  BY <1>3, <1>7, WriteQueuedType, Zenon
<1>9. /\ x.live = old.live
      /\ x.pendingWriteCost = old.pendingWriteCost + n + items * QueueItemCost
      /\ x.pendingWriteItems = old.pendingWriteItems + items
  BY <1>7 DEF WriteQueued, Stream
<1>10. /\ x.pendingWriteCost - old.pendingWriteCost = a
       /\ x.pendingWriteItems - old.pendingWriteItems = items
  <2>1. items * QueueItemCost \in Int
    BY FrameAssumption
  <2>. HIDE DEF items, x
  <2>. QED
    BY <1>3, <1>6, <1>7, <1>9, <2>1
<1>11. r.pc = ups[u].pc /\ r.cost = c - a /\ r.items = i - items
  <2>. HIDE DEF a, items
  <2>. QED
    BY <1>1 DEF UpState
<1>. HIDE DEF a, items, x, r, c, i
<1>12. CostHeld(ups) = c /\ ItemsHeld(ups) = i
  BY <1>1, <1>2, HeldTypes, Zenon DEF c, i
<1>13. CostHeld(ups') = c - a /\ ItemsHeld(ups') = i - items
  BY <1>1, <1>2, <1>5, <1>11, HeldBecomes, Zenon
<1>14. Charged(ses, c, i)
  BY <1>12, Zenon DEF Books
<1>15. Charged(ses', c - (x.pendingWriteCost - ses.streams[id].pendingWriteCost),
                     i - (x.pendingWriteItems - ses.streams[id].pendingWriteItems))
  BY <1>1, <1>3, <1>4, <1>8, <1>9, <1>14, OneStreamCharges, Zenon
<1>16. Charged(ses', c - a, i - items)
  BY <1>10, <1>15, Zenon DEF old
<1>. QED
  BY <1>13, <1>16, Zenon DEF Books

(* The frames that charge nothing.                                         *)
LEMMA ApplyQuietBooks ==
  ASSUME TypeOK, UplinkInv, Books, NEW u \in Uppers,
         ApplyNothing(u) \/ ApplyToNoStream(u) \/ ApplyWindow(u) \/ ApplyClose(u)
  PROVE  Books'
<1>. DEFINE id == Current(u).id
            c == CostHeld(ups)
            i == ItemsHeld(ups)
<1>1. /\ ses \in Session /\ UpsTypeOK /\ ups[u] \in UpState /\ ChargesKept(ses, ses)
      /\ Applying(u) /\ ups[u].pc = "applying" /\ c \in Int /\ i \in Int
  BY HeldTypes, ChargesKeptSame, Zenon DEF TypeOK, BackendTypeOK, UpsTypeOK, Applying, ApplyNothing,
     ApplyToNoStream, ApplyWindow, ApplyClose
<1>2. id # 0 => id \in StreamIds
  BY <1>1, CurrentType, Zenon
<1>3. ASSUME NEW r, ups' = [ups EXCEPT ![u] = r], r.pc \in Held,
             r.cost = ups[u].cost, r.items = ups[u].items, ChargesKept(ses, ses')
      PROVE  Books'
  <2>1. ups[u].pc \in Held
    BY <1>1 DEF Held
  <2>2. CostHeld(ups') = c /\ ItemsHeld(ups') = i
    BY <1>1, <1>3, <2>1, HeldOnward, Zenon
  <2>3. Charged(ses', c, i)
    BY <1>1, <1>3, Zenon DEF Books, ChargesKept
  <2>. QED
    BY <2>2, <2>3, Zenon DEF Books
<1>. HIDE DEF c, i
<1>4. ASSUME NextFrame(u), ChargesKept(ses, ses') PROVE Books'
  <2>. DEFINE r == [ups[u] EXCEPT !.k = @ + 1]
  <2>1. ups' = [ups EXCEPT ![u] = r]
    BY <1>1, <1>4 DEF NextFrame, UpsTypeOK
  <2>2. r.pc \in Held /\ r.cost = ups[u].cost /\ r.items = ups[u].items
    BY <1>1 DEF UpState, Held
  <2>. HIDE DEF r
  <2>. QED
    BY <1>3, <1>4, <2>1, <2>2, Zenon
<1>5. CASE ApplyNothing(u)
  BY <1>1, <1>4, <1>5, Zenon DEF ApplyNothing
<1>6. CASE ApplyToNoStream(u)
  <2>. DEFINE r == [ups[u] EXCEPT !.pc = "panicked"]
  <2>1. ups' = [ups EXCEPT ![u] = r] /\ ses' = ses
    BY <1>1, <1>6 DEF ApplyToNoStream, UpsTypeOK
  <2>2. r.pc \in Held /\ r.cost = ups[u].cost /\ r.items = ups[u].items
    BY <1>1 DEF UpState, Held
  <2>. HIDE DEF r
  <2>. QED
    BY <1>1, <1>3, <2>1, <2>2, Zenon
<1>7. CASE ApplyWindow(u)
  <2>. DEFINE old == ses.streams[id]
              x == [old EXCEPT !.sendCredit = AddCredit(@, Current(u).n), !.creditNotify = TRUE]
  <2>1. /\ id \in StreamIds /\ NextFrame(u)
        /\ ses' = [ses EXCEPT !.streams[id].sendCredit = AddCredit(@, Current(u).n),
                              !.streams[id].creditNotify = TRUE]
    BY <1>2, <1>7, Zenon DEF ApplyWindow
  <2>. HIDE DEF id
  <2>2. old \in Stream
    BY <1>1, <2>1, SessionFields
  <2>3. ses' = PutStream(ses, id, x)
    BY <1>1, <2>1 DEF Session, PutStream
  <2>4. /\ x.live <=> old.live
        /\ x.pendingWriteCost = old.pendingWriteCost
        /\ x.pendingWriteItems = old.pendingWriteItems
    BY <2>2 DEF Stream
  <2>. HIDE DEF x
  <2>5. ChargesKept(ses, ses')
    BY <1>1, <2>1, <2>3, <2>4, StreamKeepsCharges, Zenon
  <2>. QED
    BY <1>4, <2>1, <2>5, Zenon
<1>8. CASE ApplyClose(u)
  <2>. DEFINE r == [ups[u] EXCEPT !.k = @ + 1, !.toStop = @ \cup {id}]
  <2>1. id \in StreamIds /\ ses' = EndStream(ses, id)
    BY <1>2, <1>8, Zenon DEF ApplyClose
  <2>2. ups' = [ups EXCEPT ![u] = r]
    BY <1>1, <1>8 DEF ApplyClose, UpsTypeOK
  <2>3. r.pc \in Held /\ r.cost = ups[u].cost /\ r.items = ups[u].items
    BY <1>1 DEF UpState, Held
  <2>. HIDE DEF r, id
  <2>4. ChargesKept(ses, ses')
    BY <1>1, <2>1, EndStreamCharges, Zenon
  <2>. QED
    BY <1>3, <2>2, <2>3, <2>4, Zenon
<1>. QED
  BY <1>5, <1>6, <1>7, <1>8

(* The steps of a handler that holds nothing, before and after.            *)
LEMMA UpEndBooks ==
  ASSUME TypeOK, UplinkInv, Books, NEW u \in Uppers,
         \/ UpLaunch(u) \/ UpCloses(u) \/ UpReturns(u)
         \/ \E q, body : UpBegin(u, q, body)
  PROVE  Books'
<1>. DEFINE c == CostHeld(ups)
            i == ItemsHeld(ups)
<1>1. /\ ses \in Session /\ UpsTypeOK /\ c \in Int /\ i \in Int
      /\ ~locked => c = 0 /\ i = 0
  BY HeldTypes, Zenon DEF TypeOK, BackendTypeOK
<1>2. Charged(ses, c, i)
  BY DEF Books
<1>3. Charged(ses', c, i)
  <2>1. ChargesKept(ses, ses') => Charged(ses', c, i)
    BY <1>1, <1>2, Zenon DEF ChargesKept
  <2>2. CASE UpCloses(u)
    <3>1. c = 0 /\ i = 0 /\ ses' = CloseSession(ses)
      BY <1>1, <2>2, Zenon DEF UpCloses
    <3>. QED
      BY <1>1, <1>2, <3>1, CloseSessionCharges, Zenon
  <2>3. CASE UpLaunch(u)
    BY <1>1, <2>1, <2>3, OnlyLaneCharges, WaitersCharges, ChargesKeptTransitive, Zenon DEF UpLaunch
  <2>4. CASE UpReturns(u)
    BY <1>1, <2>1, <2>4, OnlyLaneCharges, Zenon DEF UpReturns
  <2>5. CASE \E q, body : UpBegin(u, q, body)
    <3>1. ses' = ses \/ ses' = [ses EXCEPT !.lanes[0].upActive = TRUE]
      BY <2>5, Zenon DEF UpBegin
    <3>. QED
      BY <1>1, <2>1, <3>1, OnlyLaneCharges, Zenon
  <2>. QED
    BY <2>2, <2>3, <2>4, <2>5
<1>4. \E r : ups' = [ups EXCEPT ![u] = r] /\ r.pc \notin Held
  <2>1. ASSUME NEW pc, pc \notin Held, UpEnds(u, pc)
        PROVE  \E r : ups' = [ups EXCEPT ![u] = r] /\ r.pc \notin Held
    <3>1. [NoUp EXCEPT !.pc = pc].pc = pc
      BY DEF NoUp
    <3>. QED
      BY <2>1, <3>1, Zenon DEF UpEnds
  <2>2. /\ "failed" \notin Held /\ "acked" \notin Held /\ "failing" \notin Held
        /\ "retry" \notin Held /\ "closing" \notin Held /\ "parsing" \notin Held
        /\ NoUp.pc \notin Held
    BY DEF Held, NoUp
  <2>3. CASE UpLaunch(u) \/ UpCloses(u)
    BY <2>1, <2>2, <2>3, Zenon DEF UpLaunch, UpCloses
  <2>4. CASE UpReturns(u)
    BY <2>2, <2>4, Zenon DEF UpReturns
  <2>5. CASE \E q, body : UpBegin(u, q, body)
    <3>1. PICK q, body : UpBegin(u, q, body)
      BY <2>5
    <3>2. CASE \E pc \in {"failed", "acked", "failing", "retry"} : UpEnds(u, pc)
      BY <2>1, <2>2, <3>2
    <3>3. CASE ups' = [ups EXCEPT ![u] = [NoUp EXCEPT !.pc = "parsing", !.seq = q,
                                                      !.body = body]]
      <4>1. [NoUp EXCEPT !.pc = "parsing", !.seq = q, !.body = body].pc = "parsing"
        BY DEF NoUp
      <4>. QED
        BY <2>2, <3>3, <4>1, Zenon
    <3>. QED
      BY <3>1, <3>2, <3>3 DEF UpBegin
  <2>. QED
    BY <2>3, <2>4, <2>5
<1>5. ups[u].pc \notin Held
  BY DEF UpLaunch, UpCloses, UpReturns, UpBegin, Held
<1>6. CostHeld(ups') = c /\ ItemsHeld(ups') = i
  BY <1>1, <1>4, <1>5, HeldOnward, Zenon
<1>. QED
  BY <1>3, <1>6, Zenon DEF Books

LEMMA BooksInit == Init => Books
<1>. SUFFICES ASSUME Init PROVE Books
  OBVIOUS
<1>1. ses = NewSession /\ \A u \in Uppers : ups[u].pc \notin Held
  BY DEF Init, BackendInit, NoUp, Held
<1>2. CostHeld(ups) = 0 /\ ItemsHeld(ups) = 0
  BY <1>1, NoneHeld, Zenon
<1>3. /\ NewSession.pendingCost = 0 /\ NewSession.pendingItems = 0
      /\ NewSession.lanes[0].frames = <<>> /\ NewSession.lanes[0].unacked = <<>>
      /\ NewSession.lanes[0].unackedCost = 0 /\ NewSession.lanes[0].unackedItems = 0
      /\ \A id \in StreamIds : /\ NewSession.streams[id].pendingWriteCost = 0
                               /\ NewSession.streams[id].pendingWriteItems = 0
  BY LaneZero DEF NewSession, NewLane, NoLane, NoStream
<1>4. WritesCost(NewSession) = 0 /\ WritesCount(NewSession) = 0
  <2>. DEFINE q == [id \in StreamIds |-> NewSession.streams[id].pendingWriteCost]
              r == [id \in StreamIds |-> NewSession.streams[id].pendingWriteItems]
  <2>1. /\ Len(q) = MaxStreamID /\ Len(r) = MaxStreamID
    BY NewSessionType, StreamSequences, Zenon
  <2>2. MaxStreamID \in Nat /\ StreamIds = 1 .. MaxStreamID
    BY FrameAssumption DEF StreamIds
  <2>3. \A k \in StreamIds : q[k] = 0 /\ r[k] = 0
    BY <1>3
  <2>. HIDE DEF q, r
  <2>4. Total(q) = 0
    BY <2>1, <2>2, <2>3, TotalZeros
  <2>5. Total(r) = 0
    BY <2>1, <2>2, <2>3, TotalZeros
  <2>. QED
    BY <2>4, <2>5, Zenon DEF WritesCost, WritesCount, q, r
<1>5. /\ LanesOwe(NewSession) = LaneOwes(NewSession.lanes[0])
      /\ LanesHold(NewSession) = LaneHolds(NewSession.lanes[0])
  BY NewSessionType, OnlyLaneOwes, Zenon
<1>6. /\ LaneOwes(NewSession.lanes[0]) = 0 /\ LaneHolds(NewSession.lanes[0]) = 0
      /\ BatchesCharged(NewSession) /\ EndedOwesNothing(NewSession)
  <2>1. NewSession.lanes[0] = NewLane
    BY LaneZero DEF NewSession
  <2>2. EndedOwesNothing(NewSession)
    BY <1>3 DEF EndedOwesNothing
  <2>. QED
    BY <2>1, <2>2, NewLaneOwes, OneLane DEF BatchesCharged
<1>7. Charged(NewSession, 0, 0)
  BY <1>3, <1>4, <1>5, <1>6 DEF Charged
<1>. QED
  BY <1>1, <1>2, <1>7, Zenon DEF Books

LEMMA BooksStep == PollInv /\ UplinkInv /\ TombInv /\ Books /\ [Next]_vars => Books'
<1>. SUFFICES ASSUME PollInv, UplinkInv, TombInv, Books, [Next]_vars PROVE Books'
  OBVIOUS
<1>. DEFINE c == CostHeld(ups)
            i == ItemsHeld(ups)
<1>1. TypeOK /\ BackendTypeOK /\ ses \in Session /\ UpsTypeOK
  BY Zenon DEF PollInv, TypeOK, BackendTypeOK
<1>2. /\ c \in Int /\ i \in Int /\ Charged(ses, c, i)
      /\ locked \/ (c = 0 /\ i = 0)
  BY <1>1, HeldTypes, Zenon DEF Books
<1>3. ASSUME UNCHANGED ups, Charged(ses', c, i) PROVE Books'
  BY <1>3, Zenon DEF Books
<1>. HIDE DEF c, i
<1>4. ASSUME NEW u \in Uppers, UpStep(u) PROVE Books'
  BY <1>1, <1>4, UpCommitBooks, ApplyQuietBooks, ApplyOpenBooks, RejectOpenBooks,
     ApplyDataBooks, UpAppliedBooks, UpEndBooks, Zenon DEF UpStep
<1>5. ASSUME NEW u \in Uppers, NEW q, NEW body, UpBegin(u, q, body) PROVE Books'
  BY <1>1, <1>5, UpEndBooks, Zenon
<1>6. ASSUME NEW id \in StreamIds, BackendNext(id) PROVE Books'
  BY <1>1, <1>2, <1>3, <1>6, BackendCharges, Zenon DEF BackendNext
<1>7. CASE Close
  <2>1. UNCHANGED ups /\ c = 0 /\ i = 0 /\ ses' = CloseSession(ses)
    BY <1>2, <1>7, Zenon DEF Close
  <2>2. Charged(ses', c, i)
    BY <1>1, <1>2, <2>1, CloseSessionCharges, Zenon
  <2>. QED
    BY <1>3, <2>1, <2>2, Zenon
<1>8. CASE UNCHANGED vars
  BY <1>2, <1>3, <1>8, Zenon DEF vars
<1>9. ASSUME NEW p \in Pollers,
             PollStep(p) \/ PollCancelled(p) \/ \E cursor \in 0 .. MaxCursor : PollBegin(p, cursor)
      PROVE  Books'
  <2>1. UNCHANGED ups
    BY <1>9, Zenon DEF PollStep, PollWakes, PollResumes, PollSuperseded, PollExpires,
       PollCloses, PollReturns, PollCancelled, PollBegin
  <2>2. Charged(ses', c, i)
    BY <1>2, <1>9, PollCharges, Zenon
  <2>. QED
    BY <1>3, <2>1, <2>2, Zenon
<1>. QED
  BY <1>4, <1>5, <1>6, <1>7, <1>8, <1>9, Zenon DEF Next, System, Environment

(* The budget of a session is exactly what its queue, its unacknowledged   *)
(* batch, its streams and the body being applied owe: releasePendingLocked *)
(* never finds less than it is told to release, and nothing leaks.         *)
THEOREM AccountingHolds == Spec => []Accounting
<1>1. PollInv /\ Books => Accounting
  <2>. SUFFICES ASSUME PollInv, Books PROVE Accounting
    OBVIOUS
  <2>1. Holder = HoldersIn(ups)
    BY Zenon DEF Holder, HoldersIn, Held
  <2>2. HeldCost = CostHeld(ups) /\ HeldItems = ItemsHeld(ups)
    <3>1. (CHOOSE u \in Holder : TRUE) = (CHOOSE u \in HoldersIn(ups) : TRUE)
      BY <2>1
    <3>2. CASE Holder = {}
      BY <2>1, <3>2 DEF HeldCost, HeldItems, CostHeld, ItemsHeld
    <3>3. CASE Holder # {}
      <4>. DEFINE v == CHOOSE u \in Holder : TRUE
                  w == CHOOSE u \in HoldersIn(ups) : TRUE
      <4>1. HeldCost = ups[v].cost /\ HeldItems = ups[v].items
        BY <3>3, Zenon DEF HeldCost, HeldItems
      <4>2. CostHeld(ups) = ups[w].cost /\ ItemsHeld(ups) = ups[w].items
        BY <2>1, <3>3, Zenon DEF CostHeld, ItemsHeld
      <4>3. v = w
        BY <3>1
      <4>. HIDE DEF v, w
      <4>. QED
        BY <4>1, <4>2, <4>3
    <3>. QED
      BY <3>2, <3>3
  <2>3. LanesOwe(ses) = LaneOwes(lane0) /\ LanesHold(ses) = LaneHolds(lane0) /\ ses \in Session
    BY OnlyLaneOwes, Zenon DEF lane0, PollInv, TypeOK, BackendTypeOK
  <2>4. BatchCharged(lane0)
    BY LaneZero DEF Books, Charged, BatchesCharged, lane0
  <2>. QED
    BY <2>2, <2>3, <2>4 DEF Books, Charged, Accounting, BatchCharged, WritesCost, WritesCount,
       LaneOwes, LaneHolds, stream
<1>2. PollInv => TypeOK
  BY Zenon DEF PollInv
<1>. QED
  BY <1>1, <1>2, BooksInit, BooksStep, TombInit, TombStep, UplinkInvInit, UplinkInvStep,
     PollInvariant, PTL DEF Spec

=============================================================================
