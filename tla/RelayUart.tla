----------------------------- MODULE RelayUart -----------------------------
(***************************************************************************)
(* The UART of the relay board, byte by byte: Uart's reading thread        *)
(* (HandleInMessage), which every UART of the station has, and what        *)
(* RelayProtocol::OnMessage makes of a block of bytes.                     *)
(*                                                                         *)
(* The thread reads until a read brings nothing or the buffer is nearly    *)
(* full and hands over what it has: a block may end inside a frame.  The   *)
(* buffer is zero beyond the block.                                        *)
(*                                                                         *)
(* A frame: AA 55, a length n in two bytes, an opcode in two bytes,        *)
(* n - 2 bytes of data of which the first four are the relays, a checksum. *)
(***************************************************************************)
EXTENDS Integers, Sequences, FiniteSets, SequencesExt

CONSTANTS
  Streams,      \* what the board may send: sequences of items
  BUFFER_SIZE,
  Slack         \* 128 in the code

Byte == 0 .. 255
Relays == 1 .. 4

\* an item: its bytes, and the data of the relays, or NoFrame for noise
NoFrame == <<>>

FrameHolds(frame, data) ==
  LET n == Len(data) + 2
  IN  /\ n \in 6 .. 68
      /\ Len(frame) = n + 5
      /\ frame[1] = 170 /\ frame[2] = 85 /\ frame[3] = n /\ frame[4] = 0
      /\ \A i \in 1 .. Len(data) : frame[6 + i] = data[i]

\* what the parameters have to be
RelayUartAssumption ==
  /\ Streams \subseteq Seq([bytes : Seq(Byte), data : Seq(Byte)])
  /\ \A s \in Streams : \A i \in 1 .. Len(s) :
       s[i].bytes # <<>> /\ (s[i].data # NoFrame => FrameHolds(s[i].bytes, s[i].data))
  /\ BUFFER_SIZE \in Nat /\ Slack \in 1 .. BUFFER_SIZE

VARIABLES
  stream,        \* what the board sends
  arrived,       \* how many bytes of it have arrived
  taken,         \* how many of those were read
  at,            \* the thread: "closed", "poll", "read", "scan" or "exit"
  len_one_read,
  rx_buf,        \* the bytes read, without the zeroes that follow
  d,             \* OnMessage: the position reached
  rl,            \* rl1 .. rl4
  cut,           \* history: a block ended inside an item
  paused         \* history: a read brought nothing inside an item, or the
                 \* buffer was nearly full

vars == <<stream, arrived, taken, at, len_one_read, rx_buf, d, rl, cut, paused>>

bytes == FlattenSeq([i \in 1 .. Len(stream) |-> stream[i].bytes])

\* the positions of the stream at which an item ends
End(k) == Len(FlattenSeq([i \in 1 .. k |-> stream[i].bytes]))
Ends == {End(k) : k \in 0 .. Len(stream)}

Init ==
  /\ stream \in Streams
  /\ arrived = 0 /\ taken = 0
  /\ at = "closed"
  /\ len_one_read = 0
  /\ rx_buf = <<>>
  /\ d = 0
  /\ rl = [r \in Relays |-> 0]
  /\ cut = FALSE /\ paused = FALSE

\* Uart::init: a port that cannot be opened ends the process
Open ==
  /\ at = "closed"
  /\ at' \in {"poll", "exit"}
  /\ UNCHANGED <<stream, arrived, taken, len_one_read, rx_buf, d, rl, cut, paused>>

Arrive ==
  /\ at # "closed"
  /\ \E n \in 1 .. (Len(bytes) - arrived) : arrived' = arrived + n
  /\ UNCHANGED <<stream, taken, at, len_one_read, rx_buf, d, rl, cut, paused>>
-----------------------------------------------------------------------------
(* HandleInMessage                                                         *)

\* ioctl(FIONREAD)
Poll ==
  /\ at = "poll"
  /\ len_one_read' = arrived - taken
  /\ at' = "read"
  /\ UNCHANGED <<stream, arrived, taken, rx_buf, d, rl, cut, paused>>

\* usleep(timeout), then read what is there, as far as the buffer goes
Read ==
  /\ at = "read"
  /\ len_one_read > 0 /\ Len(rx_buf) < BUFFER_SIZE - Slack
  /\ LET n == Min({arrived - taken, BUFFER_SIZE - Len(rx_buf)})
     IN  /\ rx_buf' = rx_buf \o SubSeq(bytes, taken + 1, taken + n)
         /\ taken' = taken + n
         /\ len_one_read' = n
         /\ paused' = (paused \/ (n = 0 /\ taken \notin Ends)
                              \/ Len(rx_buf') >= BUFFER_SIZE - Slack)
  /\ UNCHANGED <<stream, arrived, at, d, rl, cut>>

\* the block goes to OnMessage, or there is none
Deliver ==
  /\ at = "read"
  /\ len_one_read <= 0 \/ Len(rx_buf) >= BUFFER_SIZE - Slack
  /\ at' = IF rx_buf = <<>> THEN "poll" ELSE "scan"
  /\ cut' = (cut \/ taken \notin Ends)
  /\ d' = 0
  /\ UNCHANGED <<stream, arrived, taken, len_one_read, rx_buf, rl, paused>>

\* memset
Clear ==
  /\ at = "scan"
  /\ Len(rx_buf) - d < 7
  /\ rx_buf' = <<>>
  /\ at' = "poll"
  /\ UNCHANGED <<stream, arrived, taken, len_one_read, d, rl, cut, paused>>
-----------------------------------------------------------------------------
(* RelayProtocol::OnMessage, one round of its loop                         *)

\* what is at an offset from d, past the block a zero
Field(i) == IF d + i + 1 <= Len(rx_buf) THEN rx_buf[d + i + 1] ELSE 0

length == Field(2) + 256 * Field(3)
header == Field(0) + 256 * Field(1)

IsFrame == length >= 3 /\ length <= 68 /\ header = 170 + 256 * 85   \* 0x55aa

\* Plausible bugs: a bad byte ends the block, or the relays are not inverted.
StopAtNoise ==
  /\ d' = IF IsFrame THEN d + length + 5 ELSE Len(rx_buf)
  /\ rl' = IF IsFrame
             THEN [r \in Relays |-> IF Field(5 + r) = 0 THEN 1 ELSE 0] ELSE rl
\* a frame, or one byte forward
Round ==
  /\ d' = IF IsFrame THEN d + length + 5 ELSE d + 1
  /\ rl' = IF IsFrame
             THEN [r \in Relays |-> IF Field(5 + r) = 0 THEN 1 ELSE 0] ELSE rl

OnMessage ==
  /\ at = "scan"
  /\ Len(rx_buf) - d >= 7
  /\ Round
  /\ UNCHANGED <<stream, arrived, taken, at, len_one_read, rx_buf, cut, paused>>

GetStatusRelay(index) == IF index \in 0 .. 3 THEN rl[index + 1] ELSE -1

Next == Open \/ Arrive \/ Poll \/ Read \/ Deliver \/ Clear \/ OnMessage

Spec == Init /\ [][Next]_vars
-----------------------------------------------------------------------------
TypeOK ==
  /\ stream \in Streams
  /\ taken \in 0 .. arrived /\ arrived \in 0 .. Len(bytes)
  /\ at \in {"closed", "poll", "read", "scan", "exit"}
  /\ len_one_read \in 0 .. Len(bytes)
  /\ rx_buf \in Seq(Byte) /\ Len(rx_buf) <= BUFFER_SIZE
  /\ d \in 0 .. (BUFFER_SIZE + 68 + 5)
  /\ rl \in [Relays -> Byte]
  /\ cut \in BOOLEAN /\ paused \in BOOLEAN

Framed == {j \in 1 .. Len(stream) : stream[j].data # NoFrame}
Shown(data) == [r \in Relays |-> IF data[r] = 0 THEN 1 ELSE 0]

\* no noise looks like the beginning of a frame
NoiseHasNoHeader ==
  \A i \in 1 .. Len(stream) \ Framed :
    LET noise == stream[i].bytes
    IN  \A j \in 1 .. Len(noise) : noise[j] = 170 => j < Len(noise) /\ noise[j + 1] # 85

\* When all has arrived, been read and scanned, the relays are those of the
\* last frame, whatever noise without a header came around it, unless a block
\* was cut.
LastFrameWins ==
  (at = "poll" /\ taken = Len(bytes) /\ ~cut /\ NoiseHasNoHeader /\ Framed # {}) =>
    \A r \in Relays : GetStatusRelay(r - 1) = Shown(stream[Max(Framed)].data)[r]

\* The relays shown are those of a frame that was sent, unless noise held a
\* header or a block was cut: then the zeroes behind it count as data, and a relay shows as on that no
\* frame had on (RelayProtocol.cpp:62-65, Uart.cpp:176).
RelaysWereSent ==
  (~cut /\ NoiseHasNoHeader) =>
    \/ rl = [r \in Relays |-> 0]
    \/ \E i \in Framed : rl = Shown(stream[i].data)

\* A block is cut only if the bytes of an item came with a pause between them
\* or more of them than the buffer takes (Uart.cpp:159-162).
CutNeedsAPause == cut => paused

\* The block is what was read last.
BlockInv ==
  /\ Len(rx_buf) <= taken
  /\ rx_buf = SubSeq(bytes, taken - Len(rx_buf) + 1, taken)
  /\ at \in {"closed", "poll", "exit"} => rx_buf = <<>>

\* Where nothing is left to be read, an item ends, or a pause was seen.
PauseInv ==
  (at # "read" \/ len_one_read = 0 \/ Len(rx_buf) >= BUFFER_SIZE - Slack) =>
    taken \in Ends \/ paused

\* how far OnMessage has come in the stream
Scanned == taken - Len(rx_buf) + (IF at = "scan" THEN d ELSE 0)

\* the relays are those of the last frame among the first k items
ShowsLast(k) ==
  \/ Framed \cap (1 .. k) = {} /\ rl = [r \in Relays |-> 0]
  \/ \E j \in Framed \cap (1 .. k) :
       Framed \cap (j + 1 .. k) = {} /\ rl = Shown(stream[j].data)

\* OnMessage is at the end of an item or in the noise behind it, and has seen
\* every frame before.
ScanInv ==
  (~cut /\ NoiseHasNoHeader) =>
    /\ at \in {"closed", "poll", "scan"} => taken \in Ends
    /\ Scanned <= taken
    /\ \E k \in 0 .. Len(stream) :
         /\ ShowsLast(k)
         /\ \/ Scanned = End(k)
            \/ /\ at = "scan" /\ k < Len(stream) /\ k + 1 \notin Framed
               /\ Scanned \in End(k) .. End(k + 1)

\* Inductive: the types, and what the invariants rest on.
IInv == TypeOK /\ BlockInv /\ PauseInv /\ CutNeedsAPause /\ ScanInv
=============================================================================
