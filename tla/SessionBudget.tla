--------------------------- MODULE SessionBudget ---------------------------
(***************************************************************************)
(* The pending-queue budget of one session (internal/session/session.go).  *)
(*                                                                         *)
(* A session may hold MaxPendingPerSession bytes in at most                *)
(* MaxPendingItemsPerSession items.  Control frames may use all of it;     *)
(* the writes queued to backends (class "up") leave the control reserve    *)
(* free, and the DATA frames queued to the client (class "down") leave in  *)
(* addition enough for one whole uplink body.                              *)
(***************************************************************************)
EXTENDS Frames

CONSTANTS
  MaxStreamsPerSession,
  MaxClosedStreamIDs,
  MaxBodyBytes,
  CarrierBatchBytes,
  MaxPendingPerSession,
  MaxPendingItemsPerSession,
  ControlReserveExtraItems,
  ControlReserveItemsPerStream

(* Config.validate: every limit is positive.                               *)
ASSUME LimitAssumption ==
  /\ MaxStreamsPerSession \in Nat \ {0}
  /\ MaxClosedStreamIDs \in Nat \ {0}
  /\ MaxBodyBytes \in Nat \ {0}
  /\ CarrierBatchBytes \in 1 .. MaxBodyBytes
  /\ MaxPendingPerSession \in Nat \ {0}
  /\ MaxPendingItemsPerSession \in Nat \ {0}
  /\ ControlReserveExtraItems \in Nat
  /\ ControlReserveItemsPerStream \in Nat

Classes == {"up", "down", "control"}

Minimum(a, b) == IF a < b THEN a ELSE b

Monus(a, b) == IF b >= a THEN 0 ELSE a - b

ControlReserveItems ==
  ControlReserveExtraItems + MaxStreamsPerSession * ControlReserveItemsPerStream

ControlReserveCost ==
  ControlReserveItems * (QueueItemCost + HeaderSize + WindowPayloadSize)

UplinkReserveItems == Minimum(MaxBodyBytes \div HeaderSize, MaxBatchFrames)

UplinkReserveCost == MaxBodyBytes + UplinkReserveItems * QueueItemCost

CostLimit(class) ==
  CASE class = "control" -> MaxPendingPerSession
    [] class = "up"      -> Monus(MaxPendingPerSession, ControlReserveCost)
    [] class = "down"    -> Monus(Monus(MaxPendingPerSession, ControlReserveCost),
                                  UplinkReserveCost)

ItemLimit(class) ==
  CASE class = "control" -> MaxPendingItemsPerSession
    [] class = "up"      -> Monus(MaxPendingItemsPerSession, ControlReserveItems)
    [] class = "down"    -> Monus(Monus(MaxPendingItemsPerSession, ControlReserveItems),
                                  UplinkReserveItems)

(* reservePendingLocked: whether a charge fits the session's own limits.   *)
Fits(pendingCost, pendingItems, cost, items, class) ==
  /\ cost > 0
  /\ pendingCost + cost <= CostLimit(class)
  /\ pendingItems + items <= ItemLimit(class)

(* dataFrameAllowanceLocked: how much of `limit` a backend read may bring. *)
DataFrameAllowance(pendingCost, pendingItems, limit) ==
  LET available == CostLimit("down") - pendingCost - QueueItemCost - HeaderSize
  IN  IF pendingItems >= ItemLimit("down") \/ available <= 0
      THEN 0
      ELSE Minimum(limit, available)

=============================================================================
