------------------------------- MODULE QrScan -------------------------------
(***************************************************************************)
(* What QrProtocol::OnMessage makes of the bytes of the QR scanner.  The   *)
(* scanner sends each code it reads with a CR behind it; the UART's thread *)
(* (HandleInMessage, byte by byte in RelayUart) hands them over in blocks  *)
(* that end wherever a read brought nothing: a block may be part of a      *)
(* code, one code, or several.  A code is a sequence of bytes; the fields  *)
(* of a product code lie at fixed distances from its end.                  *)
(***************************************************************************)
EXTENDS Integers, Sequences, SequencesExt

CONSTANTS
  Streams,      \* what may be scanned: sequences of codes
  BUFFER_SIZE

Byte == 0 .. 255
UINT16_MAX == 65535
Unicast == 1 .. 32767
CR == 13
Hyphen == 45

\* what the parameters have to be
QrScanAssumption ==
  /\ Streams \subseteq Seq(Seq(Byte \ {CR}))
  /\ BUFFER_SIZE \in Nat \ {0}

VARIABLES
  stream,       \* the codes scanned
  taken,        \* how many of their bytes were handed over
  prod_num, prod_code, serial, mac,   \* the fields of the product
  addr,         \* its mesh address
  startTest,    \* a test runs, or is to begin
  block         \* history: the block that raised startTest

fields == <<prod_num, prod_code, serial, mac>>
vars == <<stream, taken, fields, addr, startTest, block>>

bytes == FlattenSeq([i \in 1 .. Len(stream) |-> Append(stream[i], CR)])

Init ==
  /\ stream \in Streams
  /\ taken = 0
  /\ prod_num = <<>> /\ prod_code = <<>> /\ serial = <<>> /\ mac = <<>>
  /\ addr = 0
  /\ startTest = FALSE
  /\ block = <<>>
-----------------------------------------------------------------------------
qrLength == 123

\* code.substr(qrLength - from, n), for a code of any length
Substr(code, from, n) == SubSeq(code, Len(code) - from + 1, Len(code) - from + n)

FieldsOf(code) ==
  <<Substr(code, 43, 13), Substr(code, 30, 8), Substr(code, 22, 9), Substr(code, 12, 12)>>

HasHyphen(code) == code[Len(code) - 13 + 1] = Hyphen

HexDigit(c) ==
  CASE c \in 48 .. 57 -> c - 48
    [] c \in 65 .. 70 -> c - 55
    [] c \in 97 .. 102 -> c - 87
    [] OTHER -> -1

\* Reading a hex number from a stream stops at the first character that is
\* none; with no digit at all it gives 0.  (No mac holds a sign or an x.)
HexNumber(s) ==
  LET digits == CHOOSE n \in 0 .. Len(s) :
        /\ \A i \in 1 .. n : HexDigit(s[i]) >= 0
        /\ n < Len(s) => HexDigit(s[n + 1]) < 0
      number[n \in 0 .. Len(s)] ==
        IF n = 0 THEN 0 ELSE 16 * number[n - 1] + HexDigit(s[n])
  IN  number[digits]

getLast4HexAsUint16(m) == HexNumber(SubSeq(m, Len(m) - 3, Len(m)))

AddrOf(mac_tail) == IF mac_tail > 32768 THEN mac_tail - 32768 ELSE mac_tail

\* the block ends with a CR and holds a code's length before it
IsScan(b) == b[Len(b)] = CR /\ Len(b) = qrLength + 1

\* A plausible bug: the test starts although the hyphen is missing.
StartAnyway(s) ==
  /\ mac' = Substr(s, 12, 12)
  /\ addr' = AddrOf(getLast4HexAsUint16(mac'))
  /\ startTest' = TRUE

\* the mac, the address and the start of the test, if the hyphen is there
StartIfHyphen(s) ==
  IF HasHyphen(s)
    THEN /\ mac' = Substr(s, 12, 12)
         /\ addr' = AddrOf(getLast4HexAsUint16(mac'))
         /\ startTest' = TRUE
    ELSE UNCHANGED <<mac, addr, startTest>>

\* number, code and serial are written before the hyphen is looked for
OnMessage(b) ==
  IF startTest \/ ~IsScan(b)
    THEN UNCHANGED <<fields, addr, startTest>>
    ELSE LET s == Front(b)
         IN  /\ prod_num' = Substr(s, 43, 13)
             /\ prod_code' = Substr(s, 30, 8)
             /\ serial' = Substr(s, 22, 9)
             /\ StartIfHyphen(s)

\* the UART's thread hands over the next bytes
Deliver ==
  \E n \in 1 .. Len(bytes) - taken :
    LET b == SubSeq(bytes, taken + 1, taken + n)
    IN  /\ n <= BUFFER_SIZE
        /\ taken' = taken + n
        /\ OnMessage(b)
        /\ block' = IF ~startTest /\ startTest' THEN b ELSE block
        /\ UNCHANGED stream

\* TestSwitch, at the end of a test, for the next product
EndTest ==
  /\ startTest
  /\ startTest' = FALSE
  /\ UNCHANGED <<stream, taken, fields, addr, block>>

Next == Deliver \/ EndTest

Spec == Init /\ [][Next]_vars
-----------------------------------------------------------------------------
TypeOK ==
  /\ stream \in Streams
  /\ taken \in 0 .. Len(bytes)
  /\ \A f \in {prod_num, prod_code, serial, mac} : f \in Seq(Byte)
  /\ addr \in 0 .. UINT16_MAX
  /\ startTest \in BOOLEAN
  /\ block \in Seq(Byte)

\* the block of the test held the end of another code as well
Joined == CR \in ToSet(Front(block))

\* A test is about one code that was scanned, all four fields of it, however
\* the UART cut the codes, unless shorter codes came in one block whose length
\* is that of a product code (QrProtocol.cpp:83-99, Uart.cpp:174).
TestIsOfOneCode ==
  startTest => \/ Joined
               \/ \E i \in 1 .. Len(stream) :
                    /\ Len(stream[i]) >= 43 /\ HasHyphen(stream[i])
                    /\ fields = FieldsOf(stream[i])

\* The address of a product under test is one a node can have, 1 to 0x7fff,
\* unless its mac ends in 0000 or 8000, or in no number at all
\* (QrProtocol.cpp:171-172).
AddressIsUnicast ==
  startTest => \/ addr \in Unicast
               \/ getLast4HexAsUint16(mac) \in {0, 32768}

\* The address is that of the mac.
AddressInv ==
  startTest => Len(mac) = 12 /\ addr = AddrOf(getLast4HexAsUint16(mac))

\* Inductive: the types, and what the two invariants rest on.
IInv == TypeOK /\ TestIsOfOneCode /\ AddressInv
=============================================================================
