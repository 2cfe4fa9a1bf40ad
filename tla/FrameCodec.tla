----------------------------- MODULE FrameCodec -----------------------------
(***************************************************************************)
(* The version 1 wire format (src/transport/frame.cpp).                    *)
(*                                                                         *)
(* An encoded frame is a sequence of cells, each the bytes of one region   *)
(* of one frame: cell 1 holds magic, version, flags and header size, cell  *)
(* 2 the sizes, the message fields and the CRC, and each unit of topic and *)
(* payload is one more cell.  A cell [frame, at] read at another offset    *)
(* than `at` shows other fields than the ones it was written for; a cell   *)
(* whose bytes were changed on the way has at = 0.  The CRC covers topic   *)
(* and payload only and is taken to be injective; no other bytes look like *)
(* a magic number.                                                         *)
(***************************************************************************)
EXTENDS Integers, Sequences

CONSTANT NoFrame      \* decode_frame throws

HeaderSize == 2       \* Frame::kHeaderSize
Rejected == 0         \* a size that is refused by an exception

\* FrameLimits.  A size_t holds the sum of a u16, a u32 and the header.
checked_frame_size(topic, payload, limits) ==
    LET total == HeaderSize + topic + payload IN
    IF topic <= 65535 /\ topic <= limits.max_topic_size
          /\ payload <= limits.max_payload_size /\ total <= limits.max_frame_size
    THEN total ELSE Rejected

size(f) == HeaderSize + f.topic + f.payload

encode_frame(f) == [i \in 1..size(f) |-> [frame |-> f, at |-> i]]

\* Every size the header may declare: the bytes of a misplaced cell read as
\* sizes are refused, or happen to be sizes within the limits.
frame_size_from_header(buffer, limits) ==
    IF buffer[1].at # 1 THEN {Rejected}
    ELSE IF buffer[2].at # 2 THEN {Rejected} \cup HeaderSize..limits.max_frame_size
    ELSE LET f == buffer[2].frame IN {checked_frame_size(f.topic, f.payload, limits)}

crc_matches(buffer) ==
    /\ buffer[2].at = 2
    /\ \A i \in HeaderSize + 1..Len(buffer) :
          buffer[i] = [frame |-> buffer[2].frame, at |-> i]

\* The flags come from cell 1, which neither the sizes nor the CRC vouch for.
decode_frame(buffer, limits) ==
    IF /\ Len(buffer) >= HeaderSize
       /\ Len(buffer) \in frame_size_from_header(buffer, limits)
       /\ crc_matches(buffer)
    THEN [buffer[2].frame EXCEPT !.flags = buffer[1].frame.flags]
    ELSE NoFrame
=============================================================================
