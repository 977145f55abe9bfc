-------------------------------- MODULE Framing --------------------------------
(***************************************************************************)
(* How the two processors with a framed protocol cut their stream into     *)
(* frames.  A frame is a header of HeaderSize bytes, which gives the size  *)
(* of the body, and the body; the socket hands the stream to process_data  *)
(* in pieces.                                                              *)
(*                                                                         *)
(*   "rpc"    rpc::MessageProcessor (rpc/message_processor.cpp): messages  *)
(*            of the bridge and container sockets, with three size bytes   *)
(*            and a type, as Channel::send_message writes them             *)
(*   "qemud"  qemu::QemudMessageProcessor (qemu/qemud_message_processor.cpp):*)
(*            commands of the guest's qemud clients, with four hexadecimal *)
(*            digits                                                       *)
(*                                                                         *)
(* What the bytes mean is left out: a byte is its position in the stream,  *)
(* and ends[i] is the position where frame i ends.                         *)
(***************************************************************************)
EXTENDS Integers

CONSTANTS HeaderSize,  \* header_size, 4 in both
          Frames,      \* number of frames in a stream
          Streams,     \* the streams considered, each the ends of its frames
          SizeRange,   \* sizes a header tells apart: 2^24 and 2^16
          ReadSizes    \* bytes one read returns, up to 8192

ASSUME FramingAssumption ==
  /\ HeaderSize \in Nat \ {0}
  /\ Frames \in Nat
  /\ SizeRange \in Nat \ {0}
  /\ ReadSizes \subseteq Nat \ {0}
  /\ \A e \in Streams :
       /\ e \in [0 .. Frames -> Nat]
       /\ e[0] = 0
       /\ \A i \in 1 .. Frames : /\ e[i] >= e[i - 1] + HeaderSize
                                 \* nothing in send_message sees to this
                                 /\ e[i] - e[i - 1] - HeaderSize < SizeRange

VARIABLES protocol,  \* "rpc" or "qemud"
          ends,      \* the stream: ends[i] bytes belong to frames 1 to i
          arrived,   \* bytes appended to buffer_ so far
          start,     \* bytes erased from it: buffer_ holds start + 1 .. arrived
          handled,   \* frames handed to their handler
          pc         \* "receive", "loop", or "overrun" after an access behind the
                     \* end of buffer_

framingVars == <<protocol, ends, arrived, start, handled, pc>>

Buffered == arrived - start   \* buffer_.size()

FramingTypeOK == /\ protocol \in {"rpc", "qemud"}
                 /\ ends \in Streams
                 /\ arrived \in 0 .. ends[Frames]
                 /\ start \in 0 .. arrived
                 /\ handled \in 0 .. Frames
                 /\ pc \in {"receive", "loop", "overrun"}

FramingInit == /\ protocol \in {"rpc", "qemud"}
               /\ ends \in Streams
               /\ arrived = 0 /\ start = 0 /\ handled = 0
               /\ pc = "receive"

\* process_data appends the next piece to buffer_.
Receive(n) == /\ pc = "receive"
              /\ arrived + n <= ends[Frames]
              /\ arrived' = arrived + n
              /\ pc' = "loop"
              /\ UNCHANGED <<protocol, ends, start, handled>>

\* What the header of the next frame says about its body.
BodySize == ends[handled + 1] - ends[handled] - HeaderSize
message_size == BodySize % SizeRange

\* Fault: the header stays in buffer_.
HandleFrame_keeps_header(n) == /\ handled' = handled + 1
                               /\ start' = start + n
                               /\ UNCHANGED <<protocol, ends, arrived>>

\* The handler gets the frame with a body of n bytes; buffer_.erase removes it.
HandleFrame(n) == /\ handled' = handled + 1
                  /\ start' = start + HeaderSize + n
                  /\ UNCHANGED <<protocol, ends, arrived>>

\* The loop ends, what is left in buffer_ stays there until the next read.
Break == pc' = "receive" /\ UNCHANGED <<protocol, ends, arrived, start, handled>>
--------------------------------------------------------------------------------
(* One iteration of each loop. *)

\* With less than a header in buffer_ the header is read from behind its end,
\* whatever is there, and the unsigned difference buffer_.size() - header_size
\* wraps around, so that the comparison fails and a message is parsed, handled
\* and erased that is not there.
rpc_process_data ==
  /\ protocol = "rpc" /\ pc = "loop"
  /\ \/ Buffered = 0 /\ Break
     \/ /\ Buffered \in 1 .. HeaderSize - 1
        /\ pc' = "overrun"
        /\ UNCHANGED <<protocol, ends, arrived, start, handled>>
     \/ Buffered >= HeaderSize /\ Buffered - HeaderSize < message_size /\ Break
     \/ /\ Buffered >= HeaderSize /\ Buffered - HeaderSize >= message_size
        /\ HandleFrame(message_size)
        /\ UNCHANGED pc

\* Fault: the loop ends after the first command.
process_commands_once ==
  /\ protocol = "qemud" /\ pc = "loop"
  /\ \/ Buffered < HeaderSize /\ Break
     \/ Buffered >= HeaderSize /\ Buffered < HeaderSize + message_size /\ Break
     \/ /\ Buffered >= HeaderSize /\ Buffered >= HeaderSize + message_size
        /\ HandleFrame(message_size)
        /\ pc' = "receive"

\* remaining is computed after the command was erased, from the size that is
\* left: the loop ends when what is left is as long as the command before it.
process_commands ==
  /\ protocol = "qemud" /\ pc = "loop"
  /\ \/ Buffered < HeaderSize /\ Break
     \/ Buffered >= HeaderSize /\ Buffered < HeaderSize + message_size /\ Break
     \/ /\ Buffered >= HeaderSize /\ Buffered >= HeaderSize + message_size
        /\ HandleFrame(message_size)
        /\ pc' = IF Buffered - (HeaderSize + message_size) = HeaderSize + message_size
                 THEN "receive" ELSE "loop"

FramingNext == (\E n \in ReadSizes : Receive(n)) \/ rpc_process_data \/ process_commands

FramingSpec == FramingInit /\ [][FramingNext]_framingVars
--------------------------------------------------------------------------------
(* Properties. *)

\* The stream is cut at k bytes inside a header.
InsideHeader(k) == \E i \in 0 .. Frames - 1 : ends[i] < k /\ k < ends[i] + HeaderSize

\* buffer_ begins with the first byte of a header, and the frames handled are
\* the first ones of the stream, each whole and once, wherever the reads cut it.
\* process_commands never fails in this; process_data does only if a read ends
\* inside a header: reads that end anywhere else, inside a body included, do no
\* harm.
BrokenOnlyInsideHeader ==
  /\ start = ends[handled]
  /\ pc = "overrun" => protocol = "rpc" /\ InsideHeader(arrived)

\* When the processor waits for the next read no complete frame is in buffer_,
\* unless process_commands has just handled a command that was exactly as long
\* as everything that is left.
LeftBehindOnlyIfEqual ==
  pc = "receive" /\ handled < Frames /\ arrived >= ends[handled + 1]
    => protocol = "qemud" /\ handled > 0 /\ Buffered = ends[handled] - ends[handled - 1]
================================================================================
