------------------------------- MODULE Frames -------------------------------
(***************************************************************************)
(* The frame layer (internal/frame/frame.go) and the costs the session     *)
(* charges for a queued frame.                                             *)
(*                                                                         *)
(* A frame is a record [type, id, n].  The payload is abstracted to the    *)
(* number the relay acts on: n is the payload length of a DATA frame, the  *)
(* delta of a WINDOW frame and the payload length of every other type.     *)
(* A carrier body is a sequence of frames.  The type "PARTIAL" stands for  *)
(* bytes that do not form a complete frame.                                *)
(***************************************************************************)
EXTENDS Sums

CONSTANTS
  MaxStreamID,         \* frame.MaxStreamID
  MaxUint32,           \* math.MaxUint32, scaled down for model checking
  HeaderSize,          \* frame.HeaderSize
  WindowPayloadSize,   \* the four bytes of a WINDOW payload
  InitialStreamWindow, \* frame.InitialStreamWindow
  DataChunk,           \* frame.DataChunk
  MaxBatchFrames,      \* frame.MaxBatchFrames
  MaxFramePayload,     \* limits.MaxFramePayload
  QueueItemCost        \* queueItemCost

ASSUME FrameAssumption ==
  /\ MaxStreamID \in Nat \ {0}
  /\ HeaderSize \in Nat \ {0}
  /\ WindowPayloadSize \in Nat \ {0}
  /\ DataChunk \in Nat \ {0}
  /\ MaxBatchFrames \in Nat \ {0}
  /\ MaxFramePayload \in Nat \ {0}
  /\ QueueItemCost \in Nat \ {0}
  /\ InitialStreamWindow \in Nat \ {0}
  /\ MaxUint32 \in Nat
  /\ InitialStreamWindow <= MaxUint32
  /\ DataChunk <= MaxUint32
  /\ MaxFramePayload <= MaxUint32

StreamIds == 1 .. MaxStreamID

FrameTypes == {"OPEN", "DATA", "CLOSE", "WINDOW", "PING", "PONG", "HELLO",
               "WELCOME", "BYE", "PARTIAL"}

Frame == [type : FrameTypes, id : StreamIds \cup {0}, n : Nat]

PayloadLength(f) == IF f.type = "WINDOW" THEN WindowPayloadSize ELSE f.n

EncodedLength(f) == HeaderSize + PayloadLength(f)

(* ParseAll: a body is a non-empty batch of at most MaxBatchFrames whole   *)
(* frames, none with a payload above the configured limit.                 *)
Parses(body) ==
  /\ Len(body) \in 1 .. MaxBatchFrames
  /\ \A k \in 1 .. Len(body) : /\ body[k].type # "PARTIAL"
                               /\ PayloadLength(body[k]) <= MaxFramePayload

(* ValidateClientShape: what a client may send, one frame at a time.       *)
ValidClientShape(f) ==
  \/ f.id = 0 /\ f.type = "PONG" /\ f.n <= 64
  \/ f.id # 0 /\ f.type \in {"OPEN", "CLOSE"} /\ f.n = 0
  \/ f.id # 0 /\ f.type = "DATA" /\ f.n # 0
  \/ f.id # 0 /\ f.type = "WINDOW" /\ f.n \in 1 .. MaxUint32

WellFormedBody(body) ==
  /\ Parses(body)
  /\ \A k \in 1 .. Len(body) : ValidClientShape(body[k])

AddCredit_unbounded(credit, delta) == credit + delta

(* A sendCredit never exceeds math.MaxUint32: WINDOW deltas saturate.      *)
AddCredit(credit, delta) ==
  IF credit + delta > MaxUint32 THEN MaxUint32 ELSE credit + delta

(* uint32 subtraction wraps.                                               *)
Minus32(a, b) == IF a >= b THEN a - b ELSE a - b + MaxUint32 + 1

=============================================================================
