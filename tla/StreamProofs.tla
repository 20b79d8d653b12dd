---------------------------- MODULE StreamProofs ----------------------------
(***************************************************************************)
(* Machine-checked proofs about the parts of Parts that read what comes    *)
(* in.  Of the QR scanner and the relay board: for any streams of bytes    *)
(* and any way the blocks are cut.  Of the topics: for any topics of which *)
(* none hides in another, in any order of registration.                    *)
(***************************************************************************)
EXTENDS Parts, FiniteSetTheorems, SequenceTheorems, WellFoundedInduction, TLAPS

(* Induction; sequences one behind the other.                              *)

\* What holds of 0 and, with a number, of the next one holds of all of them.
LEMMA Induction ==
  ASSUME NEW T, T \subseteq Nat, 0 \in T, \A n \in T : n + 1 \in T
  PROVE  T = Nat
  <1>1. SUFFICES ASSUME Nat \ T # {} PROVE FALSE
    OBVIOUS
  <1>2. PICK x \in Nat \ T : \A y \in Nat \ T : ~ (<<y, x>> \in OpToRel(<, Nat))
    BY <1>1, NatLessThanWellFounded, WFMin
  <1>3. \A y \in Nat \ T : ~ (y < x)
    BY <1>2 DEF OpToRel
  <1>4. x # 0 /\ x - 1 \in Nat /\ x - 1 < x
    OBVIOUS
  <1>5. x - 1 \in T /\ (x - 1) + 1 = x
    BY <1>3, <1>4
  <1>6. QED
    BY <1>5

\* Sequences one behind the other: the recursion of FlattenSeq has a solution.
LEMMA FlatteningExists ==
  ASSUME NEW s
  PROVE  \A n \in Nat : \E F : F = [i \in 1 .. n |-> IF i = 1 THEN s[i] ELSE F[i - 1] \o s[i]]
  <1> DEFINE Good(F, n) ==
               F = [i \in 1 .. n |-> IF i = 1 THEN s[i] ELSE F[i - 1] \o s[i]]
             T == {n \in Nat : \E F : Good(F, n)}
  <1>1. 0 \in T
    <2> DEFINE F == [i \in 1 .. 0 |-> s[i]]
    <2>1. Good(F, 0)
      OBVIOUS
    <2> HIDE DEF F, Good
    <2>2. QED
      BY <2>1
  <1>2. ASSUME NEW n \in T PROVE n + 1 \in T
    <2> HIDE DEF Good
    <2>1. n \in Nat /\ n + 1 \in Nat
      OBVIOUS
    <2>2. PICK F : Good(F, n)
      OBVIOUS
    <2> HIDE DEF T
    <2> DEFINE G == [i \in 1 .. n + 1 |->
                       IF i = 1 THEN s[i] ELSE IF i = n + 1 THEN F[i - 1] \o s[i] ELSE F[i]]
    <2>3. \A i \in 1 .. n : i \in 1 .. n + 1 /\ i # n + 1 /\ (i # 1 => i - 1 \in 1 .. n)
      BY <2>1
    <2>4. \A i \in 1 .. n : F[i] = IF i = 1 THEN s[i] ELSE F[i - 1] \o s[i]
      BY <2>2 DEF Good
    <2>5. \A i \in 1 .. n : G[i] = F[i]
      BY <2>3, <2>4
    <2>6. \A i \in 1 .. n + 1 : (i = n + 1 \/ i \in 1 .. n) /\ (i # 1 => i - 1 \in 1 .. n)
      BY <2>1
    <2>7. \A i \in 1 .. n + 1 : G[i] = IF i = 1 THEN s[i] ELSE F[i - 1] \o s[i]
      BY <2>4, <2>6
    <2>8. G = [i \in 1 .. n + 1 |-> G[i]]
      OBVIOUS
    <2> HIDE DEF G
    <2>9. Good(G, n + 1)
      BY <2>5, <2>6, <2>7, <2>8 DEF Good
    <2>10. QED
      BY <2>1, <2>9 DEF T
  <1> HIDE DEF T
  <1>3. T = Nat
    BY <1>1, <1>2, Induction DEF T
  <1>4. QED
    BY <1>3 DEF T

LEMMA Flattening ==
  ASSUME NEW E, NEW s \in Seq(Seq(E)), s # <<>>
  PROVE  \E F : /\ F \in [1 .. Len(s) -> Seq(E)]
                /\ F[1] = s[1]
                /\ \A i \in 2 .. Len(s) : F[i] = F[i - 1] \o s[i]
                /\ Qr!FlattenSeq(s) = F[Len(s)]
  <1> DEFINE N == Len(s)
             Def(F) == F = [i \in 1 .. N |-> IF i = 1 THEN s[i] ELSE F[i - 1] \o s[i]]
             F == CHOOSE f : Def(f)
  <1>1. N \in Nat /\ N # 0 /\ \A i \in 1 .. N : s[i] \in Seq(E)
    OBVIOUS
  <1>2. Qr!FlattenSeq(s) = F[N]
    BY <1>1 DEF Qr!FlattenSeq
  <1>3. Def(F)
    <2>1. \E f : Def(f)
      BY <1>1, FlatteningExists
    <2>2. QED
      BY <2>1
  <1> HIDE DEF F, N
  <1>4. /\ 1 \in 1 .. N /\ F[1] = s[1]
        /\ \A i \in 2 .. N : F[i] = F[i - 1] \o s[i]
        /\ F = [i \in 1 .. N |-> F[i]]
    <2>1. 1 \in 1 .. N /\ \A i \in 2 .. N : i \in 1 .. N /\ i # 1
      BY <1>1
    <2>2. \A i \in 1 .. N : F[i] = IF i = 1 THEN s[i] ELSE F[i - 1] \o s[i]
      BY <1>3
    <2>3. F = [i \in 1 .. N |-> F[i]]
      BY <1>3
    <2>4. QED
      BY <2>1, <2>2, <2>3
  <1> HIDE DEF Def
  <1> DEFINE T == {n \in Nat : n + 1 \in 1 .. N => F[n + 1] \in Seq(E)}
  <1>5. 0 \in T
    BY <1>1, <1>4
  <1>6. ASSUME NEW n \in T PROVE n + 1 \in T
    <2>1. /\ n \in Nat /\ n + 1 \in Nat /\ (n + 1) + 1 = n + 2 /\ (n + 2) - 1 = n + 1
          /\ n + 2 \in 1 .. N => n + 2 \in 2 .. N /\ n + 1 \in 1 .. N
      BY <1>1
    <2>2. SUFFICES ASSUME n + 2 \in 1 .. N PROVE F[n + 2] \in Seq(E)
      BY <2>1
    <2>3. F[n + 1] \in Seq(E)
      BY <2>1, <2>2
    <2>4. s[n + 2] \in Seq(E) /\ F[n + 2] = F[n + 1] \o s[n + 2]
      BY <1>1, <1>4, <2>1, <2>2
    <2>5. QED
      BY <2>3, <2>4
  <1> HIDE DEF T
  <1>7. T = Nat
    BY <1>5, <1>6, Induction DEF T
  <1>8. \A i \in 1 .. N : F[i] \in Seq(E)
    <2>1. SUFFICES ASSUME NEW i \in 1 .. N PROVE F[i] \in Seq(E)
      OBVIOUS
    <2>2. i - 1 \in Nat /\ (i - 1) + 1 = i
      BY <1>1
    <2>3. QED
      BY <1>7, <2>2 DEF T
  <1>9. QED
    BY <1>2, <1>4, <1>8 DEF N

-----------------------------------------------------------------------------
(* The QR scanner.                                                         *)

\* The codes of the scanner, each with its CR.
CodeOf(i) == Append(scanned[i], 13)
IsCodeIn(b, e, i) ==
  LET n == Len(scanned[i])
  IN  /\ e - n >= 1
      /\ e - n = 1 \/ b[e - n - 1] = 13
      /\ \A j \in 1 .. n : b[e - n - 1 + j] = scanned[i][j]
CodesEnd(b) ==
  \A e \in 1 .. Len(b) : b[e] = 13 => \E i \in 1 .. Len(scanned) : IsCodeIn(b, e, i)

LEMMA QrCodes ==
  ASSUME scanned \in QrStreams
  PROVE  /\ scanned \in Seq(Seq(Qr!Byte \ {13}))
         /\ Len(scanned) \in Nat
         /\ \A i \in 1 .. Len(scanned) :
              /\ scanned[i] \in Seq(Qr!Byte \ {13}) /\ Len(scanned[i]) \in Nat
              /\ CodeOf(i) \in Seq(Qr!Byte) /\ Len(CodeOf(i)) = Len(scanned[i]) + 1
              /\ CodeOf(i)[Len(scanned[i]) + 1] = 13
              /\ \A j \in 1 .. Len(scanned[i]) :
                   CodeOf(i)[j] = scanned[i][j] /\ scanned[i][j] # 13
  <1>1. scanned \in Seq(Seq(Qr!Byte \ {13}))
    BY PartsAssumption DEF Qr!QrScanAssumption, Qr!CR
  <1>2. Len(scanned) \in Nat
    BY <1>1
  <1>3. ASSUME NEW i \in 1 .. Len(scanned)
        PROVE  /\ scanned[i] \in Seq(Qr!Byte \ {13}) /\ Len(scanned[i]) \in Nat
               /\ CodeOf(i) \in Seq(Qr!Byte) /\ Len(CodeOf(i)) = Len(scanned[i]) + 1
               /\ CodeOf(i)[Len(scanned[i]) + 1] = 13
               /\ \A j \in 1 .. Len(scanned[i]) :
                    CodeOf(i)[j] = scanned[i][j] /\ scanned[i][j] # 13
    <2> DEFINE c == scanned[i]
    <2>1. c \in Seq(Qr!Byte \ {13})
      BY <1>1
    <2> HIDE DEF c
    <2>2. Len(c) \in Nat /\ c \in Seq(Qr!Byte) /\ 13 \in Qr!Byte
      BY <2>1 DEF Qr!Byte
    <2>3. \A j \in 1 .. Len(c) : c[j] # 13
      BY <2>1
    <2>4. /\ Append(c, 13) \in Seq(Qr!Byte) /\ Len(Append(c, 13)) = Len(c) + 1
          /\ \A j \in 1 .. Len(c) + 1 : Append(c, 13)[j] = IF j <= Len(c) THEN c[j] ELSE 13
      BY <2>2, AppendProperties
    <2>5. QED
      BY <2>1, <2>2, <2>3, <2>4 DEF c, CodeOf
  <1>4. QED
    BY <1>1, <1>2, <1>3

\* One more code behind others.
LEMMA QrOneMore ==
  ASSUME scanned \in QrStreams, NEW b \in Seq(Qr!Byte), CodesEnd(b),
         b = <<>> \/ b[Len(b)] = 13, NEW i \in 1 .. Len(scanned)
  PROVE  LET c == b \o CodeOf(i)
         IN  c \in Seq(Qr!Byte) /\ c # <<>> /\ c[Len(c)] = 13 /\ CodesEnd(c)
  <1> DEFINE s == CodeOf(i)
             c == b \o s
             m == Len(b)
             n == Len(scanned[i])
  <1>1. m \in Nat /\ n \in Nat /\ Len(s) = n + 1 /\ s \in Seq(Qr!Byte) /\ s[n + 1] = 13
    BY QrCodes
  <1>2. \A j \in 1 .. n : s[j] = scanned[i][j] /\ s[j] # 13
    BY QrCodes
  <1>3. b = <<>> <=> m = 0
    OBVIOUS
  <1> HIDE DEF s
  <1>4. /\ c \in Seq(Qr!Byte) /\ Len(c) = m + (n + 1)
        /\ \A j \in 1 .. m + (n + 1) : c[j] = IF j <= m THEN b[j] ELSE s[j - m]
    <2>1. /\ c \in Seq(Qr!Byte) /\ Len(c) = Len(b) + Len(s)
          /\ \A j \in 1 .. Len(b) + Len(s) : c[j] = IF j <= Len(b) THEN b[j] ELSE s[j - Len(b)]
      BY <1>1, ConcatProperties
    <2> HIDE DEF c, n
    <2>2. QED
      BY <1>1, <2>1
  <1>5. \A e \in 1 .. m : b[e] = 13 => \E k \in 1 .. Len(scanned) : IsCodeIn(b, e, k)
    BY DEF CodesEnd
  <1>6. m # 0 => b[m] = 13
    BY <1>3
  <1> HIDE DEF c, m, n
  <1>7. c[m + (n + 1)] = 13
    BY <1>1, <1>4
  <1>8. \A e \in 1 .. m : e \in 1 .. m + (n + 1) /\ c[e] = b[e]
    BY <1>1, <1>4
  <1>9. ASSUME NEW e \in 1 .. m, c[e] = 13
        PROVE  \E k \in 1 .. Len(scanned) : IsCodeIn(c, e, k)
    <2>1. PICK k \in 1 .. Len(scanned) : IsCodeIn(b, e, k)
      BY <1>5, <1>8, <1>9
    <2> DEFINE l == Len(scanned[k])
    <2>2. /\ e - l >= 1 /\ (e - l = 1 \/ b[e - l - 1] = 13)
          /\ \A j \in 1 .. l : b[e - l - 1 + j] = scanned[k][j]
      BY <2>1 DEF IsCodeIn
    <2>3. l \in Nat
      BY QrCodes
    <2> HIDE DEF l
    <2>4. e - l = 1 \/ e - l - 1 \in 1 .. m
      BY <1>1, <2>2, <2>3
    <2>5. \A j \in 1 .. l : e - l - 1 + j \in 1 .. m
      BY <1>1, <2>2, <2>3
    <2>6. /\ e - l = 1 \/ c[e - l - 1] = 13
          /\ \A j \in 1 .. l : c[e - l - 1 + j] = scanned[k][j]
      BY <1>8, <2>2, <2>4, <2>5
    <2>7. IsCodeIn(c, e, k)
      BY <2>2, <2>6 DEF IsCodeIn, l
    <2>8. QED
      BY <2>7
  <1>10. ASSUME NEW e \in 1 .. m + (n + 1), e > m, c[e] = 13
         PROVE  IsCodeIn(c, e, i)
    <2>1. e - m \in 1 .. n + 1 /\ c[e] = s[e - m] /\ (e - m \in 1 .. n \/ e = m + n + 1)
      BY <1>1, <1>4, <1>10
    <2>2. e = m + n + 1
      BY <1>2, <1>10, <2>1
    <2>3. e - n >= 1 /\ (e - n = 1 \/ (e - n - 1 = m /\ m # 0 /\ m \in 1 .. m))
      BY <1>1, <2>2
    <2>4. e - n = 1 \/ c[e - n - 1] = 13
      BY <1>6, <1>8, <2>3
    <2>5. \A j \in 1 .. n : /\ e - n - 1 + j \in 1 .. m + (n + 1) /\ e - n - 1 + j > m
                            /\ (e - n - 1 + j) - m = j
      BY <1>1, <2>2
    <2>6. \A j \in 1 .. n : c[e - n - 1 + j] = s[j]
      <3>1. \A k \in 1 .. m + (n + 1) : k > m => c[k] = s[k - m]
        BY <1>1, <1>4
      <3>2. QED
        BY <2>5, <3>1
    <2>7. QED
      BY <1>2, <2>3, <2>4, <2>6 DEF IsCodeIn, n
  <1>11. \A e \in 1 .. m + (n + 1) : e \in 1 .. m \/ e > m
    BY <1>1
  <1>12. CodesEnd(c)
    BY <1>4, <1>9, <1>10, <1>11 DEF CodesEnd
  <1>13. c # <<>>
    BY <1>1, <1>4
  <1>14. QED
    BY <1>4, <1>7, <1>12, <1>13 DEF c, s

LEMMA QrBytes ==
  ASSUME scanned \in QrStreams
  PROVE  Qr!bytes \in Seq(Qr!Byte) /\ CodesEnd(Qr!bytes)
  <1> DEFINE N == Len(scanned)
             s == [i \in 1 .. N |-> CodeOf(i)]
  <1>1. N \in Nat /\ \A i \in 1 .. N : CodeOf(i) \in Seq(Qr!Byte)
    BY QrCodes
  <1>2. Qr!bytes = Qr!FlattenSeq(s)
    BY DEF Qr!bytes, Qr!CR, CodeOf
  <1> HIDE DEF N
  <1>3. s \in Seq(Seq(Qr!Byte)) /\ Len(s) = N /\ \A i \in 1 .. N : s[i] = CodeOf(i)
    BY <1>1
  <1>4. CASE N = 0
    <2>1. Qr!bytes = s /\ Len(s) = 0 /\ s = <<>>
      BY <1>2, <1>3, <1>4 DEF Qr!FlattenSeq
    <2>2. <<>> \in Seq(Qr!Byte) /\ CodesEnd(<<>>)
      BY DEF CodesEnd
    <2> HIDE DEF s
    <2>3. QED
      BY <2>1, <2>2
  <1>5. CASE N # 0
    <2>1. s # <<>> /\ 1 \in 1 .. N /\ N \in 1 .. N
      BY <1>1, <1>3, <1>5
    <2> HIDE DEF s
    <2>2. PICK F : /\ F \in [1 .. N -> Seq(Qr!Byte)]
                   /\ F[1] = CodeOf(1)
                   /\ \A i \in 2 .. N : F[i] = F[i - 1] \o CodeOf(i)
                   /\ Qr!bytes = F[N]
      <3>1. \E F : /\ F \in [1 .. Len(s) -> Seq(Qr!Byte)]
                   /\ F[1] = s[1]
                   /\ \A i \in 2 .. Len(s) : F[i] = F[i - 1] \o s[i]
                   /\ Qr!FlattenSeq(s) = F[Len(s)]
        BY <1>3, <2>1, Flattening
      <3>2. \A i \in 2 .. N : i \in 1 .. N
        BY <1>1
      <3>3. QED
        BY <1>2, <1>3, <2>1, <3>1, <3>2
    <2> DEFINE Good(b) == b \in Seq(Qr!Byte) /\ b # <<>> /\ b[Len(b)] = 13 /\ CodesEnd(b)
               T == {n \in Nat : n + 1 \in 1 .. N => Good(F[n + 1])}
    <2>3. \A b \in Seq(Qr!Byte), i \in 1 .. N :
            CodesEnd(b) /\ (b = <<>> \/ b[Len(b)] = 13) => Good(b \o CodeOf(i))
      BY QrOneMore DEF N
    <2>4. 0 \in T
      <3>1. <<>> \in Seq(Qr!Byte) /\ CodesEnd(<<>>) /\ <<>> \o CodeOf(1) = CodeOf(1)
        BY <1>1, <2>1 DEF CodesEnd
      <3>2. Good(CodeOf(1))
        <4> HIDE DEF Good
        <4>1. QED
          BY <2>1, <2>3, <3>1
      <3> HIDE DEF Good
      <3>3. QED
        BY <2>2, <3>2
    <2>5. ASSUME NEW n \in T PROVE n + 1 \in T
      <3> HIDE DEF Good
      <3>1. /\ n \in Nat /\ n + 1 \in Nat /\ (n + 1) + 1 = n + 2 /\ (n + 2) - 1 = n + 1
            /\ n + 2 \in 1 .. N => n + 2 \in 2 .. N /\ n + 1 \in 1 .. N
        BY <1>1
      <3>2. SUFFICES ASSUME n + 2 \in 1 .. N PROVE Good(F[n + 2])
        BY <3>1
      <3>3. Good(F[n + 1])
        BY <3>1, <3>2
      <3>4. F[n + 2] = F[n + 1] \o CodeOf(n + 2)
        BY <2>2, <3>1, <3>2
      <3> HIDE DEF T
      <3>5. Good(F[n + 1] \o CodeOf(n + 2))
        BY <2>3, <3>2, <3>3 DEF Good
      <3>6. QED
        BY <3>4, <3>5
    <2> HIDE DEF T, Good
    <2>6. T = Nat
      BY <2>4, <2>5, Induction DEF T
    <2>7. N - 1 \in Nat /\ (N - 1) + 1 = N
      BY <1>1, <1>5
    <2>8. Good(F[N])
      BY <2>1, <2>6, <2>7 DEF T
    <2>9. QED
      BY <2>2, <2>8 DEF Good
  <1>6. QED
    BY <1>4, <1>5

\* A hex number of four digits fits in two bytes.
LEMMA QrHex ==
  ASSUME NEW m \in Seq(Qr!Byte), Len(m) = 12
  PROVE  Qr!getLast4HexAsUint16(m) \in Nat /\ Qr!getLast4HexAsUint16(m) <= 65535
  <1> DEFINE s == SubSeq(m, 9, 12)
             h(i) == Qr!HexDigit(s[i])
             Upto(n) == /\ \A i \in 1 .. n : h(i) >= 0
                        /\ n < 4 => h(n + 1) < 0
             k == CHOOSE n \in 0 .. 4 : Upto(n)
             IsNumber(f) == f = [n \in 0 .. 4 |-> IF n = 0 THEN 0 ELSE 16 * f[n - 1] + h(n)]
             g == CHOOSE f : IsNumber(f)
  <1> USE DEF Qr!Byte
  <1>1. /\ s \in Seq(0 .. 255) /\ Len(s) = 4
        /\ \A i \in 1 .. 4 : s[i] \in 0 .. 255
    <2> HIDE DEF s, h, Upto, k, IsNumber, g
    <2>1. \A i \in 9 .. 12 : m[i] \in 0 .. 255
      <3>1. \A i \in 9 .. 12 : i \in 1 .. 12
        OBVIOUS
      <3>2. \A i \in 1 .. 12 : m[i] \in 0 .. 255
        BY ElementOfSeq
      <3>3. QED
        BY <3>1, <3>2
    <2>2. s \in Seq(0 .. 255) /\ Len(s) = (IF 9 <= 12 THEN 12 - 9 + 1 ELSE 0)
      BY <2>1, SubSeqProperties DEF s
    <2>3. s \in Seq(0 .. 255) /\ Len(s) = 4
      BY <2>2
    <2>4. \A i \in 1 .. 4 : s[i] \in 0 .. 255
      BY <2>3, ElementOfSeq
    <2>5. QED
      BY <2>3, <2>4
  <1>2. \A x \in 0 .. 255 : Qr!HexDigit(x) \in -1 .. 15
    BY DEF Qr!HexDigit
  <1>3. Qr!getLast4HexAsUint16(m) = g[k]
    <2>1. SubSeq(m, Len(m) - 3, Len(m)) = s
      OBVIOUS
    <2> HIDE DEF s
    <2>2. QED
      BY <1>1, <2>1 DEF Qr!getLast4HexAsUint16, Qr!HexNumber
  <1> HIDE DEF s
  <1>4. \A i \in 1 .. 4 : h(i) \in -1 .. 15
    BY <1>1, <1>2
  <1> HIDE DEF h
  <1>5. k \in 0 .. 4 /\ Upto(k)
    <2>1. \E n \in 0 .. 4 : Upto(n)
      <3>1. h(1) < 0 => Upto(0)
        OBVIOUS
      <3>2. h(1) >= 0 /\ h(2) < 0 => Upto(1)
        OBVIOUS
      <3>3. h(1) >= 0 /\ h(2) >= 0 /\ h(3) < 0 => Upto(2)
        OBVIOUS
      <3>4. h(1) >= 0 /\ h(2) >= 0 /\ h(3) >= 0 /\ h(4) < 0 => Upto(3)
        OBVIOUS
      <3>5. h(1) >= 0 /\ h(2) >= 0 /\ h(3) >= 0 /\ h(4) >= 0 => Upto(4)
        OBVIOUS
      <3>6. /\ h(1) < 0 \/ h(1) >= 0
            /\ h(2) < 0 \/ h(2) >= 0
            /\ h(3) < 0 \/ h(3) >= 0
            /\ h(4) < 0 \/ h(4) >= 0
        BY <1>4
      <3> HIDE DEF Upto
      <3>7. 0 \in 0 .. 4 /\ 1 \in 0 .. 4 /\ 2 \in 0 .. 4 /\ 3 \in 0 .. 4 /\ 4 \in 0 .. 4
        OBVIOUS
      <3>8. QED
        BY <3>1, <3>2, <3>3, <3>4, <3>5, <3>6, <3>7
    <2> HIDE DEF Upto
    <2>2. QED
      BY <2>1
  <1> HIDE DEF k
  <1>6. IsNumber(g)
    <2> DEFINE n1 == h(1)
               n2 == 16 * n1 + h(2)
               n3 == 16 * n2 + h(3)
               n4 == 16 * n3 + h(4)
               f == [n \in 0 .. 4 |->
                       IF n = 0 THEN 0 ELSE IF n = 1 THEN n1
                       ELSE IF n = 2 THEN n2 ELSE IF n = 3 THEN n3 ELSE n4]
    <2>1. /\ f[0] = 0 /\ f[1] = 16 * f[0] + h(1) /\ f[2] = 16 * f[1] + h(2)
          /\ f[3] = 16 * f[2] + h(3) /\ f[4] = 16 * f[3] + h(4)
      BY <1>4
    <2>2. f = [n \in 0 .. 4 |-> f[n]]
      OBVIOUS
    <2> HIDE DEF f
    <2>3. \A n \in 0 .. 4 : f[n] = IF n = 0 THEN 0 ELSE 16 * f[n - 1] + h(n)
      <3>1. \A n \in 0 .. 4 : n = 0 \/ n = 1 \/ n = 2 \/ n = 3 \/ n = 4
        OBVIOUS
      <3>2. 1 - 1 = 0 /\ 2 - 1 = 1 /\ 3 - 1 = 2 /\ 4 - 1 = 3
        OBVIOUS
      <3>3. QED
        BY <2>1, <3>1, <3>2
    <2>4. IsNumber(f)
      BY <2>2, <2>3
    <2> HIDE DEF IsNumber
    <2>5. QED
      BY <2>4
  <1> HIDE DEF g
  <1>7. /\ g[0] = 0 /\ g[1] = 16 * g[0] + h(1) /\ g[2] = 16 * g[1] + h(2)
        /\ g[3] = 16 * g[2] + h(3) /\ g[4] = 16 * g[3] + h(4)
    <2>1. \A n \in 0 .. 4 : g[n] = IF n = 0 THEN 0 ELSE 16 * g[n - 1] + h(n)
      BY <1>6
    <2> HIDE DEF IsNumber
    <2>2. QED
      BY <2>1
  <1> HIDE DEF IsNumber
  <1>8. k \in Nat /\ \A i \in 1 .. 4 : i <= k => h(i) \in Nat /\ h(i) <= 15
    BY <1>4, <1>5
  <1>9. k = 0 \/ k = 1 \/ k = 2 \/ k = 3 \/ k = 4
    BY <1>5
  <1>10. g[k] \in Nat /\ g[k] <= 65535
    <2>1. \A a, b \in Nat : /\ a <= 0 /\ b <= 15 => 16 * a + b <= 15
                            /\ a <= 15 /\ b <= 15 => 16 * a + b <= 255
                            /\ a <= 255 /\ b <= 15 => 16 * a + b <= 4095
                            /\ a <= 4095 /\ b <= 15 => 16 * a + b <= 65535
                            /\ 16 * a + b \in Nat
      OBVIOUS
    <2>2. /\ k >= 1 => h(1) \in Nat /\ h(1) <= 15
          /\ k >= 2 => h(2) \in Nat /\ h(2) <= 15
          /\ k >= 3 => h(3) \in Nat /\ h(3) <= 15
          /\ k >= 4 => h(4) \in Nat /\ h(4) <= 15
      BY <1>8
    <2>3. /\ k >= 4 => k >= 3
          /\ k >= 3 => k >= 2
          /\ k >= 2 => k >= 1
      BY <1>8
    <2>4. g[0] \in Nat /\ g[0] <= 0
      BY <1>7
    <2>5. k >= 1 => g[1] \in Nat /\ g[1] <= 15
      BY <1>7, <2>1, <2>2, <2>4
    <2>6. k >= 2 => g[2] \in Nat /\ g[2] <= 255
      BY <1>7, <2>1, <2>2, <2>3, <2>5
    <2>7. k >= 3 => g[3] \in Nat /\ g[3] <= 4095
      BY <1>7, <2>1, <2>2, <2>3, <2>6
    <2>8. k >= 4 => g[4] \in Nat /\ g[4] <= 65535
      BY <1>7, <2>1, <2>2, <2>3, <2>7
    <2>9. QED
      BY <1>9, <2>4, <2>5, <2>6, <2>7, <2>8
  <1>11. QED
    BY <1>3, <1>10

\* A field of a code; the fields of a code are those of its last 123 bytes.
LEMMA QrSubstr ==
  ASSUME NEW S, NEW c \in Seq(S), NEW from \in Nat, NEW n \in Nat,
         1 <= n, n <= from, from <= Len(c)
  PROVE  /\ Qr!Substr(c, from, n) \in Seq(S) /\ Len(Qr!Substr(c, from, n)) = n
         /\ \A j \in 1 .. n : Qr!Substr(c, from, n)[j] = c[Len(c) - from + j]
  <1> DEFINE L == Len(c)
             u == L - from + 1
             v == L - from + n
  <1>1. L \in Nat /\ from <= L
    OBVIOUS
  <1>2. \A i \in 1 .. L : c[i] \in S
    BY ElementOfSeq
  <1> HIDE DEF L
  <1>3. u \in 1 .. L /\ v \in 1 .. L /\ u <= v /\ v - u + 1 = n /\ u \in Int /\ v \in Int
    BY <1>1
  <1>4. \A j \in 1 .. n : u + j - 1 = L - from + j
    BY <1>1
  <1> HIDE DEF u, v
  <1>5. \A i \in u .. v : c[i] \in S
    BY <1>1, <1>2, <1>3
  <1>6. /\ SubSeq(c, u, v) \in Seq(S)
        /\ Len(SubSeq(c, u, v)) = (IF u <= v THEN v - u + 1 ELSE 0)
        /\ \A i \in 1 .. v - u + 1 : SubSeq(c, u, v)[i] = c[u + i - 1]
    BY <1>3, <1>5, SubSeqProperties
  <1>7. Qr!Substr(c, from, n) = SubSeq(c, u, v)
    BY DEF Qr!Substr, u, v, L
  <1>8. QED
    BY <1>3, <1>4, <1>6, <1>7 DEF L

IsTail(s, c, k) == \A j \in 1 .. k : s[j] = c[Len(c) - k + j]

LEMMA QrField ==
  ASSUME NEW S, NEW s \in Seq(S), NEW c \in Seq(S), NEW k \in Nat, Len(s) = k, Len(c) >= k,
         IsTail(s, c, k),
         
         NEW from \in Nat, NEW n \in Nat, 1 <= n, n <= from, from <= k
  PROVE  Qr!Substr(s, from, n) = Qr!Substr(c, from, n)
  <1> DEFINE L == Len(c)
             p == Qr!Substr(s, from, n)
             q == Qr!Substr(c, from, n)
  <1>1. L \in Nat /\ L >= k /\ from <= L /\ from <= Len(s)
    OBVIOUS
  <1>2. /\ p \in Seq(S) /\ Len(p) = n /\ \A j \in 1 .. n : p[j] = s[k - from + j]
    <2> HIDE DEF q, L
    <2>1. /\ Qr!Substr(s, from, n) \in Seq(S) /\ Len(Qr!Substr(s, from, n)) = n
          /\ \A j \in 1 .. n : Qr!Substr(s, from, n)[j] = s[Len(s) - from + j]
      BY <1>1, QrSubstr, Zenon
    <2>2. QED
      BY <2>1
  <1>3. /\ q \in Seq(S) /\ Len(q) = n /\ \A j \in 1 .. n : q[j] = c[L - from + j]
    BY <1>1, QrSubstr
  <1> HIDE DEF p, q, L
  <1>4. \A j \in 1 .. n : k - from + j \in 1 .. k /\ L - k + (k - from + j) = L - from + j
    BY <1>1
  <1>5. \A j \in 1 .. k : s[j] = c[L - k + j]
    BY DEF L, IsTail
  <1>6. \A j \in 1 .. n : s[k - from + j] = c[L - from + j]
    BY <1>4, <1>5
  <1>7. \A j \in 1 .. n : p[j] = q[j]
    BY <1>2, <1>3, <1>6
  <1>8. p = q
    BY <1>2, <1>3, <1>7, SeqEqual
  <1>9. QED
    BY <1>8 DEF p, q

\* A block with a CR at its end and none before it is the end of a code.
LEMMA QrBlock ==
  ASSUME scanned \in QrStreams, NEW t \in Nat, NEW k \in Nat,
         t + (k + 1) <= Len(Qr!bytes), NEW b, b = SubSeq(Qr!bytes, t + 1, t + (k + 1)),
         b[k + 1] = 13, \A j \in 1 .. k : b[j] # 13
  PROVE  \E i \in 1 .. Len(scanned) :
           /\ Len(scanned[i]) >= k
           /\ IsTail(b, scanned[i], k)
  <1> DEFINE B == Qr!bytes
             e == t + (k + 1)
  <1>1. B \in Seq(Qr!Byte) /\ CodesEnd(B) /\ Len(B) \in Nat
    BY QrBytes
  <1> HIDE DEF B
  <1>2. e \in Nat /\ e \in 1 .. Len(B) /\ t + 1 <= e /\ e - (t + 1) + 1 = k + 1
    BY <1>1 DEF B
  <1>3. \A j \in 1 .. k + 1 : b[j] = B[t + j]
    <2>1. \A i \in t + 1 .. e : i \in 1 .. Len(B)
      BY <1>1, <1>2
    <2>2. \A i \in 1 .. Len(B) : B[i] \in Qr!Byte
      BY <1>1, ElementOfSeq
    <2>3. \A i \in t + 1 .. e : B[i] \in Qr!Byte
      BY <2>1, <2>2
    <2> HIDE DEF e
    <2>4. t + 1 \in Int /\ e \in Int
      BY <1>2
    <2>5. \A i \in 1 .. e - (t + 1) + 1 : SubSeq(B, t + 1, e)[i] = B[(t + 1) + i - 1]
      BY <2>3, <2>4, SubSeqProperties
    <2>6. b = SubSeq(B, t + 1, e)
      BY DEF B, e
    <2>7. \A j \in 1 .. k + 1 : (t + 1) + j - 1 = t + j
      OBVIOUS
    <2>8. QED
      BY <1>2, <2>5, <2>6, <2>7
  <1>4. k + 1 \in 1 .. k + 1 /\ \A j \in 1 .. k : j \in 1 .. k + 1
    OBVIOUS
  <1>5. B[e] = 13
    BY <1>3, <1>4
  <1>6. PICK i \in 1 .. Len(scanned) : IsCodeIn(B, e, i)
    BY <1>1, <1>2, <1>5 DEF CodesEnd
  <1> DEFINE n == Len(scanned[i])
  <1>7. /\ e - n >= 1 /\ (e - n = 1 \/ B[e - n - 1] = 13)
        /\ \A j \in 1 .. n : B[e - n - 1 + j] = scanned[i][j]
    BY <1>6 DEF IsCodeIn
  <1>8. n \in Nat
    BY QrCodes
  <1> HIDE DEF n
  <1>9. n >= k
    <2>1. SUFFICES ASSUME n < k PROVE FALSE
      BY <1>8
    <2>2. k - n \in 1 .. k /\ t + (k - n) = e - n - 1 /\ e - n # 1
      BY <1>8, <2>1
    <2>3. b[k - n] = B[e - n - 1]
      BY <1>3, <1>4, <2>2
    <2>4. QED
      BY <1>7, <2>2, <2>3
  <1>10. \A j \in 1 .. k : n - k + j \in 1 .. n /\ e - n - 1 + (n - k + j) = t + j
    BY <1>8, <1>9
  <1>11. \A j \in 1 .. k : b[j] = scanned[i][n - k + j]
    BY <1>3, <1>4, <1>7, <1>10
  <1>12. QED
    BY <1>9, <1>11 DEF n, IsTail

LEMMA QrInit ==
  ASSUME Qr!Init PROVE Qr!IInv
  <1>1. scanned \in QrStreams /\ Len(Qr!bytes) \in Nat
    BY QrBytes DEF Qr!Init
  <1>2. scanTaken \in 0 .. Len(Qr!bytes)
    BY <1>1 DEF Qr!Init
  <1>3. <<>> \in Seq(Qr!Byte)
    OBVIOUS
  <1>4. /\ prod_num = <<>> /\ prod_code = <<>> /\ serial = <<>> /\ mac = <<>>
        /\ block = <<>> /\ addr = 0 /\ startTest = FALSE
    BY DEF Qr!Init
  <1>5. /\ \A f \in {prod_num, prod_code, serial, mac} : f \in Seq(Qr!Byte)
        /\ addr \in 0 .. Qr!UINT16_MAX /\ startTest \in BOOLEAN /\ block \in Seq(Qr!Byte)
    <2>1. block \in Seq(Qr!Byte)
      BY <1>3, <1>4, Zenon
    <2>2. \A f \in {prod_num, prod_code, serial, mac} : f \in Seq(Qr!Byte)
      BY <1>3, <1>4, Zenon
    <2>3. addr \in 0 .. Qr!UINT16_MAX
      BY <1>4 DEF Qr!UINT16_MAX
    <2>4. startTest \in BOOLEAN
      BY <1>4
    <2>5. QED
      BY <2>1, <2>2, <2>3, <2>4
  <1>6. Qr!TypeOK
    BY <1>1, <1>2, <1>5 DEF Qr!TypeOK
  <1>7. QED
    BY <1>6 DEF Qr!Init, Qr!IInv, Qr!TestIsOfOneCode, Qr!AddressInv

\* A block that is taken as a scan, without its CR.
LEMMA QrScanBlock ==
  ASSUME NEW b \in Seq(Qr!Byte), Qr!IsScan(b)
  PROVE  /\ Qr!Front(b) \in Seq(Qr!Byte) /\ Len(Qr!Front(b)) = 123 /\ Len(b) = 124
         /\ b[124] = 13
         /\ \A j \in 1 .. 123 : Qr!Front(b)[j] = b[j]
  <1> DEFINE k == 123
  <1>1. Len(b) = k + 1 /\ b[k + 1] = 13 /\ k \in Nat
    BY DEF Qr!IsScan, Qr!CR, Qr!qrLength
  <1>2. Qr!Front(b) = SubSeq(b, 1, k)
    BY <1>1 DEF Qr!Front
  <1> HIDE DEF k
  <1>3. \A i \in 1 .. k : b[i] \in Qr!Byte
    <2>1. \A i \in 1 .. k : i \in 1 .. k + 1
      BY <1>1
    <2>2. QED
      BY <1>1, <2>1, ElementOfSeq
  <1>4. (1 <= k => k - 1 + 1 = k) /\ (~ (1 <= k) => k = 0) /\ \A j \in 1 .. k : 1 + j - 1 = j
    BY <1>1
  <1>5. /\ SubSeq(b, 1, k) \in Seq(Qr!Byte)
        /\ Len(SubSeq(b, 1, k)) = (IF 1 <= k THEN k - 1 + 1 ELSE 0)
        /\ \A i \in 1 .. k - 1 + 1 : SubSeq(b, 1, k)[i] = b[1 + i - 1]
    BY <1>1, <1>3, SubSeqProperties
  <1>6. /\ Qr!Front(b) \in Seq(Qr!Byte) /\ Len(Qr!Front(b)) = k
        /\ \A j \in 1 .. k : Qr!Front(b)[j] = b[j]
    BY <1>1, <1>2, <1>4, <1>5
  <1>7. QED
    BY <1>1, <1>6 DEF k

QrFields == <<prod_num, prod_code, serial, mac>>

\* A block that begins a test was the end of one code, or holds a CR inside.
LEMMA QrFinds ==
  ASSUME scanned \in QrStreams, NEW t \in Nat, NEW n \in Nat, n >= 1,
         t + n <= Len(Qr!bytes), NEW b, b = SubSeq(Qr!bytes, t + 1, t + n),
         b \in Seq(Qr!Byte), Qr!IsScan(b), Qr!HasHyphen(Qr!Front(b))
  PROVE  \/ 13 \in Qr!ToSet(Qr!Front(b))
         \/ \E i \in 1 .. Len(scanned) :
              /\ Len(scanned[i]) >= 43 /\ Qr!HasHyphen(scanned[i])
              /\ Qr!FieldsOf(Qr!Front(b)) = Qr!FieldsOf(scanned[i])
  <1> DEFINE k == 123
             s == Qr!Front(b)
  <1>1. /\ s \in Seq(Qr!Byte) /\ Len(s) = k /\ b[k + 1] = 13
        /\ Len(b) = k + 1
        /\ \A j \in 1 .. k : s[j] = b[j]
    <2>1. /\ Qr!Front(b) \in Seq(Qr!Byte) /\ Len(Qr!Front(b)) = 123 /\ Len(b) = 124
          /\ b[124] = 13
          /\ \A j \in 1 .. 123 : Qr!Front(b)[j] = b[j]
      BY QrScanBlock
    <2>2. QED
      BY <2>1
  <1>2. k \in Nat /\ k > 43 /\ k - 13 + 1 \in 1 .. k
    OBVIOUS
  <1>3. s[k - 13 + 1] = 45
    BY <1>1 DEF Qr!HasHyphen, Qr!Hyphen
  <1> HIDE DEF k, s
  <1>4. n = k + 1
    <2>1. \A i \in t + 1 .. t + n : Qr!bytes[i] \in Qr!Byte
      <3>1. \A i \in t + 1 .. t + n : i \in 1 .. Len(Qr!bytes)
        BY QrBytes
      <3>2. QED
        BY <3>1, QrBytes, ElementOfSeq
    <2>2. t + 1 \in Int /\ t + n \in Int /\ t + 1 <= t + n /\ t + n - (t + 1) + 1 = n
      OBVIOUS
    <2>3. Len(b) = IF t + 1 <= t + n THEN t + n - (t + 1) + 1 ELSE 0
      BY <2>1, <2>2, SubSeqProperties
    <2>4. QED
      BY <1>1, <2>2, <2>3
  <1>5. SUFFICES ASSUME 13 \notin Qr!ToSet(s)
                 PROVE  \E i \in 1 .. Len(scanned) :
                          /\ Len(scanned[i]) >= 43 /\ Qr!HasHyphen(scanned[i])
                          /\ Qr!FieldsOf(s) = Qr!FieldsOf(scanned[i])
    BY DEF s
  <1>6. \A j \in 1 .. k : b[j] # 13
    <2>1. DOMAIN s = 1 .. k
      BY <1>1
    <2>2. QED
      BY <1>1, <1>5, <2>1 DEF Qr!ToSet
  <1>7. PICK i \in 1 .. Len(scanned) :
          /\ Len(scanned[i]) >= k
          /\ IsTail(b, scanned[i], k)
    BY <1>1, <1>2, <1>4, <1>6, QrBlock
  <1> DEFINE c == scanned[i]
             m == Len(c)
  <1>8. c \in Seq(Qr!Byte) /\ m \in Nat /\ m >= k
    <2>1. c \in Seq(Qr!Byte \ {13})
      BY QrCodes
    <2>2. Seq(Qr!Byte \ {13}) \subseteq Seq(Qr!Byte)
      BY SeqMonotonic
    <2>3. QED
      BY <1>7, <2>1, <2>2
  <1>9. IsTail(s, c, k) /\ \A j \in 1 .. k : s[j] = c[m - k + j]
    BY <1>1, <1>7 DEF IsTail
  <1> HIDE DEF c
  <1>10. /\ Qr!Substr(s, 43, 13) = Qr!Substr(c, 43, 13)
         /\ Qr!Substr(s, 30, 8) = Qr!Substr(c, 30, 8)
         /\ Qr!Substr(s, 22, 9) = Qr!Substr(c, 22, 9)
         /\ Qr!Substr(s, 12, 12) = Qr!Substr(c, 12, 12)
    <2>1. \A from, l \in Nat : 1 <= l /\ l <= from /\ from <= k =>
            Qr!Substr(s, from, l) = Qr!Substr(c, from, l)
      BY <1>1, <1>2, <1>8, <1>9, QrField
    <2>2. 43 <= k /\ 30 <= k /\ 22 <= k /\ 12 <= k
      BY <1>2
    <2>3. QED
      BY <2>1, <2>2
  <1>11. c[m - 13 + 1] = 45
    <2> HIDE DEF m
    <2>1. m - k + (k - 13 + 1) = m - 13 + 1
      BY <1>2, <1>8
    <2>2. s[k - 13 + 1] = c[m - k + (k - 13 + 1)]
      BY <1>2, <1>9
    <2>3. QED
      BY <1>3, <2>1, <2>2
  <1>12. /\ Len(c) >= 43 /\ Qr!HasHyphen(c)
         /\ Qr!FieldsOf(s) = Qr!FieldsOf(c)
    <2>1. Len(c) >= 43
      BY <1>2, <1>8
    <2>2. Qr!HasHyphen(c)
      BY <1>11 DEF Qr!HasHyphen, Qr!Hyphen
    <2>3. QED
      BY <1>10, <2>1, <2>2 DEF Qr!FieldsOf
  <1>13. QED
    BY <1>12 DEF c

\* What a block changes: nothing, or the fields and no test, or all of it.
LEMMA QrMessage ==
  ASSUME Qr!TypeOK, NEW b \in Seq(Qr!Byte), Qr!OnMessage(b)
  PROVE  \/ UNCHANGED <<prod_num, prod_code, serial, mac, addr, startTest>>
         \/ /\ ~startTest /\ Qr!IsScan(b)
            /\ \A f \in {prod_num', prod_code', serial', mac'} : f \in Seq(Qr!Byte)
            /\ \/ UNCHANGED <<addr, startTest>>
               \/ /\ startTest' = TRUE /\ Qr!HasHyphen(Qr!Front(b))
                  /\ QrFields' = Qr!FieldsOf(Qr!Front(b))
                  /\ Len(mac') = 12
                  /\ addr' = Qr!AddrOf(Qr!getLast4HexAsUint16(mac'))
  <1> DEFINE s == Qr!Front(b)
  <1>1. CASE startTest \/ ~Qr!IsScan(b)
    BY <1>1 DEF Qr!OnMessage, Qr!fields
  <1>2. CASE ~(startTest \/ ~Qr!IsScan(b))
    <2>1. /\ prod_num' = Qr!Substr(s, 43, 13) /\ prod_code' = Qr!Substr(s, 30, 8)
          /\ serial' = Qr!Substr(s, 22, 9) /\ Qr!StartIfHyphen(s)
      BY <1>2 DEF Qr!OnMessage
    <2>2. /\ Qr!Substr(s, 43, 13) \in Seq(Qr!Byte) /\ Qr!Substr(s, 30, 8) \in Seq(Qr!Byte)
          /\ Qr!Substr(s, 22, 9) \in Seq(Qr!Byte) /\ Qr!Substr(s, 12, 12) \in Seq(Qr!Byte)
          /\ Len(Qr!Substr(s, 12, 12)) = 12
      <3>1. s \in Seq(Qr!Byte) /\ Len(s) = 123
        BY <1>2, QrScanBlock
      <3> HIDE DEF s
      <3>2. ASSUME NEW from \in Nat, NEW l \in Nat, 1 <= l, l <= from, from <= Len(s)
            PROVE  Qr!Substr(s, from, l) \in Seq(Qr!Byte) /\ Len(Qr!Substr(s, from, l)) = l
        <4>1. s \in Seq(Qr!Byte)
          BY <3>1
        <4>2. QED
          BY <3>2, <4>1, QrSubstr, Zenon
      <3>3. 43 <= Len(s) /\ 30 <= Len(s) /\ 22 <= Len(s) /\ 12 <= Len(s)
        BY <3>1
      <3>4. Qr!Substr(s, 43, 13) \in Seq(Qr!Byte)
        BY <3>2, <3>3
      <3>5. Qr!Substr(s, 30, 8) \in Seq(Qr!Byte)
        BY <3>2, <3>3
      <3>6. Qr!Substr(s, 22, 9) \in Seq(Qr!Byte)
        BY <3>2, <3>3
      <3>7. Qr!Substr(s, 12, 12) \in Seq(Qr!Byte) /\ Len(Qr!Substr(s, 12, 12)) = 12
        <4>1. 12 \in Nat /\ 1 <= 12 /\ 12 <= 12 /\ 12 <= Len(s)
          BY <3>3
        <4>2. QED
          BY <3>2, <4>1, Zenon
      <3>8. QED
        BY <3>4, <3>5, <3>6, <3>7
    <2>3. mac \in Seq(Qr!Byte)
      BY DEF Qr!TypeOK
    <2> HIDE DEF s
    <2>4. CASE Qr!HasHyphen(s)
      <3>1. /\ mac' = Qr!Substr(s, 12, 12) /\ startTest' = TRUE
            /\ addr' = Qr!AddrOf(Qr!getLast4HexAsUint16(mac'))
        BY <2>1, <2>4 DEF Qr!StartIfHyphen
      <3>2. QrFields' = Qr!FieldsOf(s)
        BY <2>1, <3>1 DEF QrFields, Qr!FieldsOf
      <3>3. \A f \in {prod_num', prod_code', serial', mac'} : f \in Seq(Qr!Byte)
        BY <2>1, <2>2, <3>1
      <3>4. QED
        BY <1>2, <2>2, <2>4, <3>1, <3>2, <3>3 DEF s
    <2>5. CASE ~Qr!HasHyphen(s)
      <3>1. UNCHANGED <<mac, addr, startTest>>
        BY <2>1, <2>5 DEF Qr!StartIfHyphen
      <3>2. \A f \in {prod_num', prod_code', serial', mac'} : f \in Seq(Qr!Byte)
        BY <2>1, <2>2, <2>3, <3>1
      <3>3. QED
        BY <1>2, <3>1, <3>2
    <2>6. QED
      BY <2>4, <2>5
  <1>3. QED
    BY <1>1, <1>2

LEMMA QrAddress ==
  ASSUME NEW m \in Seq(Qr!Byte), Len(m) = 12
  PROVE  LET a == Qr!AddrOf(Qr!getLast4HexAsUint16(m))
         IN  /\ a \in 0 .. Qr!UINT16_MAX
             /\ a \in Qr!Unicast \/ Qr!getLast4HexAsUint16(m) \in {0, 32768}
  <1> DEFINE h == Qr!getLast4HexAsUint16(m)
             a == Qr!AddrOf(h)
  <1>1. h \in Nat /\ h <= 65535
    BY QrHex
  <1> HIDE DEF h
  <1>2. a \in Nat /\ a <= 65535 /\ (h = 0 \/ h = 32768 \/ (1 <= a /\ a <= 32767))
    BY <1>1 DEF Qr!AddrOf
  <1> HIDE DEF a
  <1>3. a \in 0 .. Qr!UINT16_MAX
    <2>1. a \in Nat /\ a <= Qr!UINT16_MAX /\ Qr!UINT16_MAX \in Nat
      BY <1>2 DEF Qr!UINT16_MAX
    <2>2. QED
      BY <2>1
  <1>4. (1 <= a /\ a <= 32767) => a \in Qr!Unicast
    <2> DEFINE high == 32767
    <2>1. high \in Nat /\ Qr!Unicast = 1 .. high
      BY DEF Qr!Unicast
    <2> HIDE DEF high
    <2>2. (1 <= a /\ a <= high) => a \in 1 .. high
      BY <1>2, <2>1
    <2>3. QED
      BY <2>1, <2>2 DEF high
  <1>5. QED
    BY <1>2, <1>3, <1>4 DEF a, h

\* The UART's thread hands over a block.
LEMMA QrDeliver ==
  ASSUME Qr!IInv, Qr!Deliver PROVE Qr!IInv'
  <1>1. /\ scanned \in QrStreams /\ scanTaken \in Nat /\ scanTaken <= Len(Qr!bytes)
        /\ Qr!bytes \in Seq(Qr!Byte) /\ Len(Qr!bytes) \in Nat
    <2>1. scanned \in QrStreams /\ scanTaken \in 0 .. Len(Qr!bytes)
      BY DEF Qr!IInv, Qr!TypeOK
    <2>2. Qr!bytes \in Seq(Qr!Byte)
      BY <2>1, QrBytes
    <2> HIDE DEF Qr!bytes
    <2>3. QED
      BY <2>1, <2>2
  <1>2. PICK n \in 1 .. Len(Qr!bytes) - scanTaken :
          /\ scanTaken' = scanTaken + n
          /\ Qr!OnMessage(SubSeq(Qr!bytes, scanTaken + 1, scanTaken + n))
          /\ block' = IF ~startTest /\ startTest'
                        THEN SubSeq(Qr!bytes, scanTaken + 1, scanTaken + n) ELSE block
          /\ UNCHANGED scanned
    BY Zenon DEF Qr!Deliver
  <1> DEFINE B == Qr!bytes
             t == scanTaken
             b == SubSeq(B, t + 1, t + n)
  <1>3. n \in Nat /\ n >= 1 /\ t + n <= Len(B) /\ t + n \in 0 .. Len(B)
    <2> HIDE DEF B
    <2>1. QED
      BY <1>1, <1>2 DEF B
  <1>4. B' = B
    BY <1>2 DEF Qr!bytes, Qr!CR
  <1> HIDE DEF B
  <1>5. b \in Seq(Qr!Byte)
    <2>1. \A i \in t + 1 .. t + n : i \in 1 .. Len(B)
      BY <1>1, <1>3 DEF B
    <2>2. \A i \in t + 1 .. t + n : B[i] \in Qr!Byte
      BY <1>1, <2>1, ElementOfSeq DEF B
    <2>3. t + 1 \in Int /\ t + n \in Int
      BY <1>1, <1>3
    <2>4. QED
      BY <2>2, <2>3, SubSeqProperties
  <1>6. Qr!OnMessage(b) /\ block' = IF ~startTest /\ startTest' THEN b ELSE block
    BY <1>2 DEF B
  <1>7. block \in Seq(Qr!Byte) /\ b \in Seq(Qr!Byte)
    BY <1>5 DEF Qr!IInv, Qr!TypeOK
  <1>8. scanned' \in QrStreams /\ scanTaken' \in 0 .. Len(Qr!bytes)' /\ block' \in Seq(Qr!Byte)
    BY <1>1, <1>2, <1>3, <1>4, <1>6, <1>7 DEF B
  <1>9. CASE UNCHANGED <<prod_num, prod_code, serial, mac, addr, startTest>>
    <2>1. block' = block
      BY <1>6, <1>9
    <2>2. Qr!TypeOK'
      BY <1>8, <1>9 DEF Qr!IInv, Qr!TypeOK
    <2>3. Qr!TestIsOfOneCode'
      BY <1>2, <1>9, <2>1
         DEF Qr!IInv, Qr!TestIsOfOneCode, Qr!Joined, Qr!fields, Qr!HasHyphen, Qr!FieldsOf
    <2>4. Qr!AddressInv'
      BY <1>9 DEF Qr!IInv, Qr!AddressInv
    <2>5. QED
      BY <2>2, <2>3, <2>4 DEF Qr!IInv
  <1>10. CASE /\ ~startTest
              /\ \A f \in {prod_num', prod_code', serial', mac'} : f \in Seq(Qr!Byte)
              /\ UNCHANGED <<addr, startTest>>
    <2>1. Qr!TypeOK'
      BY <1>8, <1>10 DEF Qr!IInv, Qr!TypeOK
    <2>2. Qr!TestIsOfOneCode' /\ Qr!AddressInv'
      BY <1>10 DEF Qr!TestIsOfOneCode, Qr!AddressInv
    <2>3. QED
      BY <2>1, <2>2 DEF Qr!IInv
  <1>11. CASE /\ ~startTest /\ Qr!IsScan(b)
              /\ \A f \in {prod_num', prod_code', serial', mac'} : f \in Seq(Qr!Byte)
              /\ startTest' = TRUE /\ Qr!HasHyphen(Qr!Front(b))
              /\ QrFields' = Qr!FieldsOf(Qr!Front(b))
              /\ Len(mac') = 12
              /\ addr' = Qr!AddrOf(Qr!getLast4HexAsUint16(mac'))
    <2>1. block' = b
      BY <1>6, <1>11
    <2>2. addr' \in 0 .. Qr!UINT16_MAX
      <3>1. mac' \in Seq(Qr!Byte)
        BY <1>11
      <3>2. QED
        BY <1>11, <3>1, QrAddress
    <2>3. Qr!TypeOK'
      <3>1. startTest' \in BOOLEAN
        BY <1>11
      <3>2. QED
        BY <1>8, <1>11, <2>2, <3>1 DEF Qr!TypeOK
    <2>4. \/ 13 \in Qr!ToSet(Qr!Front(b))
          \/ \E i \in 1 .. Len(scanned) :
               /\ Len(scanned[i]) >= 43 /\ Qr!HasHyphen(scanned[i])
               /\ Qr!FieldsOf(Qr!Front(b)) = Qr!FieldsOf(scanned[i])
      BY <1>1, <1>3, <1>5, <1>11, QrFinds DEF B
    <2>5. Qr!TestIsOfOneCode'
      <3>1. (13 \in Qr!ToSet(Qr!Front(b))) => Qr!Joined'
        BY <2>1 DEF Qr!Joined, Qr!CR, Qr!ToSet, Qr!Front
      <3>2. ASSUME NEW i \in 1 .. Len(scanned),
                   Len(scanned[i]) >= 43, Qr!HasHyphen(scanned[i]),
                   Qr!FieldsOf(Qr!Front(b)) = Qr!FieldsOf(scanned[i])
            PROVE  Qr!TestIsOfOneCode'
        <4>1. i \in 1 .. Len(scanned') /\ Len(scanned'[i]) >= 43
          BY <1>2, <3>2
        <4>2. Qr!HasHyphen(scanned[i])' /\ Qr!fields' = Qr!FieldsOf(scanned[i])'
          BY <1>2, <1>11, <3>2 DEF Qr!HasHyphen, Qr!FieldsOf, Qr!fields, QrFields, Qr!Hyphen,
             Qr!Substr
        <4>3. QED
          BY <4>1, <4>2 DEF Qr!TestIsOfOneCode
      <3>3. QED
        BY <2>4, <3>1, <3>2 DEF Qr!TestIsOfOneCode
    <2>6. Qr!AddressInv'
      BY <1>11 DEF Qr!AddressInv
    <2>7. QED
      BY <2>3, <2>5, <2>6 DEF Qr!IInv
  <1>12. QED
    <2>1. Qr!TypeOK
      BY DEF Qr!IInv
    <2>2. QED
      BY <1>5, <1>6, <1>9, <1>10, <1>11, <2>1, QrMessage

LEMMA QrEndTest ==
  ASSUME Qr!IInv, Qr!EndTest PROVE Qr!IInv'
  <1>1. /\ startTest' = FALSE
        /\ UNCHANGED <<scanned, scanTaken, prod_num, prod_code, serial, mac, addr, block>>
    BY DEF Qr!EndTest, Qr!fields
  <1>2. Qr!bytes' = Qr!bytes
    BY <1>1 DEF Qr!bytes, Qr!CR
  <1>3. Qr!TypeOK'
    BY <1>1, <1>2 DEF Qr!IInv, Qr!TypeOK
  <1>4. QED
    BY <1>1, <1>3 DEF Qr!IInv, Qr!TestIsOfOneCode, Qr!AddressInv

LEMMA QrStutter ==
  ASSUME Qr!IInv, UNCHANGED Qr!vars PROVE Qr!IInv'
  BY DEF Qr!vars, Qr!fields, Qr!IInv, Qr!TypeOK, Qr!TestIsOfOneCode, Qr!AddressInv, Qr!bytes,
     Qr!Joined, Qr!HasHyphen, Qr!FieldsOf

\* The inductive invariant of the scanner: what it knows of a test is one code,
\* or its block held a CR before the last (QrProtocol.cpp:83-99).
THEOREM QrInvariance == PartsSpec => [](part = "qr" => Qr!IInv)
  <1> DEFINE Inv == part = "qr" => Qr!IInv
  <1>1. PartsInit => Inv
    BY QrInit DEF PartsInit
  <1>2. Inv /\ [PartsNext]_partsVars => Inv'
    <2> SUFFICES ASSUME Qr!IInv, part' = part, [PartsNext]_partsVars, part = "qr"
                 PROVE  Qr!IInv'
      BY DEF PartsNext, partsVars
    <2>1. Qr!Next \/ UNCHANGED Qr!vars
      BY DEF PartsNext, partsVars, qrVars, Qr!vars, Qr!fields
    <2>2. QED
      BY <2>1, QrDeliver, QrEndTest, QrStutter DEF Qr!Next
  <1>3. QED
    BY <1>1, <1>2, PTL DEF PartsSpec

\* A test is about one code, whatever is scanned and however the UART cuts it,
\* unless codes came joined in a block; its address is a node's, unless its mac
\* has none (QrProtocol.cpp:83-99, 171; Uart.cpp:174).
THEOREM QrTestIsOfOneCodeAlways == PartsSpec => []QrTestIsOfOneCode
  <1>1. (part = "qr" => Qr!IInv) => QrTestIsOfOneCode
    <2> SUFFICES ASSUME Qr!IInv PROVE Qr!TypeOK /\ Qr!TestIsOfOneCode /\ Qr!AddressIsUnicast
      BY DEF QrTestIsOfOneCode
    <2>1. startTest => mac \in Seq(Qr!Byte) /\ Len(mac) = 12
                       /\ addr = Qr!AddrOf(Qr!getLast4HexAsUint16(mac))
      BY DEF Qr!IInv, Qr!TypeOK, Qr!AddressInv
    <2>2. Qr!AddressIsUnicast
      BY <2>1, QrAddress DEF Qr!AddressIsUnicast
    <2>3. QED
      BY <2>2 DEF Qr!IInv
  <1>2. QED
    BY <1>1, QrInvariance, PTL

-----------------------------------------------------------------------------
(* The relay board.                                                        *)

\* What the board sends: the bytes of its first k items.
RelayPart(k) == [i \in 1 .. k |-> sent[i].bytes]
RelayFlat(k) == Relay!FlattenSeq(RelayPart(k))

LEMMA RelayItems ==
  ASSUME sent \in RelayStreams
  PROVE  /\ Len(sent) \in Nat
         /\ \A i \in 1 .. Len(sent) :
              /\ sent[i].bytes \in Seq(Relay!Byte) /\ sent[i].bytes # <<>>
              /\ sent[i].data \in Seq(Relay!Byte)
              /\ i \in Relay!Framed => Relay!FrameHolds(sent[i].bytes, sent[i].data)
  <1> DEFINE Item == [bytes : Seq(Relay!Byte), data : Seq(Relay!Byte)]
  <1>1. sent \in Seq(Item)
    BY PartsAssumption DEF Relay!RelayUartAssumption
  <1>2. Len(sent) \in Nat /\ \A i \in 1 .. Len(sent) : sent[i] \in Item
    <2> HIDE DEF Item
    <2>1. QED
      BY <1>1, ElementOfSeq, LenProperties
  <1>3. \A i \in 1 .. Len(sent) :
          /\ sent[i].bytes # <<>>
          /\ sent[i].data # Relay!NoFrame => Relay!FrameHolds(sent[i].bytes, sent[i].data)
    BY PartsAssumption DEF Relay!RelayUartAssumption
  <1>4. QED
    BY <1>2, <1>3 DEF Relay!Framed

LEMMA RelayPartIsSeq ==
  ASSUME sent \in RelayStreams, NEW k \in 1 .. Len(sent)
  PROVE  RelayPart(k) \in Seq(Seq(Relay!Byte)) /\ Len(RelayPart(k)) = k /\ RelayPart(k) # <<>>
  <1> DEFINE n == Len(sent)
  <1>1. n \in Nat /\ \A i \in 1 .. n : sent[i].bytes \in Seq(Relay!Byte)
    BY RelayItems
  <1> HIDE DEF n
  <1>2. k \in 1 .. n
    BY DEF n
  <1>3. k \in Nat /\ k # 0 /\ \A i \in 1 .. k : i \in 1 .. n
    BY <1>1, <1>2
  <1>4. RelayPart(k) \in [1 .. k -> Seq(Relay!Byte)]
    BY <1>1, <1>3 DEF RelayPart
  <1>5. RelayPart(k) \in Seq(Seq(Relay!Byte)) /\ DOMAIN RelayPart(k) = 1 .. k
    BY <1>3, <1>4
  <1>6. Len(RelayPart(k)) = k
    BY <1>3, <1>5
  <1>7. QED
    BY <1>3, <1>5, <1>6

\* One item more is what was there and its bytes.
LEMMA RelayOneMore ==
  ASSUME sent \in RelayStreams, NEW k \in 0 .. Len(sent) - 1
  PROVE  /\ RelayFlat(0) = <<>>
         /\ RelayFlat(k + 1) \in Seq(Relay!Byte)
         /\ RelayFlat(k + 1) = RelayFlat(k) \o sent[k + 1].bytes
  <1> DEFINE n == Len(sent)
             B == Relay!Byte
  <1>1. n \in Nat /\ \A i \in 1 .. n : sent[i].bytes \in Seq(B)
    BY RelayItems
  <1>2. \A s : Relay!FlattenSeq(s) = Qr!FlattenSeq(s)
    BY DEF Relay!FlattenSeq, Qr!FlattenSeq
  <1>3. RelayPart(0) = <<>> /\ RelayFlat(0) = <<>>
    <2>1. RelayPart(0) = <<>>
      BY DEF RelayPart
    <2>2. Relay!FlattenSeq(<<>>) = <<>>
      BY DEF Relay!FlattenSeq
    <2>3. QED
      BY <2>1, <2>2 DEF RelayFlat
  <1> DEFINE Is(F, m) ==
               /\ F \in [1 .. m -> Seq(B)]
               /\ F[1] = sent[1].bytes
               /\ \A i \in 2 .. m : F[i] = F[i - 1] \o sent[i].bytes
  <1>4. ASSUME NEW m \in 1 .. n
        PROVE  \E F : Is(F, m) /\ RelayFlat(m) = F[m]
    <2> DEFINE s == RelayPart(m)
    <2>1. s \in Seq(Seq(B)) /\ Len(s) = m /\ s # <<>>
      BY RelayPartIsSeq
    <2>2. m \in Nat /\ \A i \in 1 .. m : s[i] = sent[i].bytes
      BY <1>1 DEF RelayPart
    <2>3. 1 \in 1 .. m /\ \A i \in 2 .. m : i \in 1 .. m
      BY <1>1
    <2> HIDE DEF s, B
    <2>4. PICK F : /\ F \in [1 .. Len(s) -> Seq(B)]
                   /\ F[1] = s[1]
                   /\ \A i \in 2 .. Len(s) : F[i] = F[i - 1] \o s[i]
                   /\ Qr!FlattenSeq(s) = F[Len(s)]
      BY <2>1, Flattening
    <2>5. Is(F, m)
      BY <2>1, <2>2, <2>3, <2>4
    <2>6. RelayFlat(m) = F[m]
      BY <1>2, <2>1, <2>4 DEF RelayFlat, s
    <2>7. QED
      BY <2>5, <2>6
  <1> HIDE DEF n, B
  <1>5. k + 1 \in 1 .. n /\ k \in Nat /\ (k # 0 => k \in 1 .. n /\ k \in 1 .. k + 1)
    BY <1>1 DEF n
  <1> HIDE DEF Is
  <1>6. PICK F : Is(F, k + 1) /\ RelayFlat(k + 1) = F[k + 1]
    BY <1>4, <1>5
  <1>7. F[k + 1] \in Seq(B)
    <2>1. k + 1 \in 1 .. k + 1
      BY <1>5
    <2>2. QED
      BY <1>6, <2>1 DEF Is
  <1>8. CASE k = 0
    <2>1. F[1] = sent[1].bytes /\ sent[1].bytes \in Seq(B) /\ k + 1 = 1
      BY <1>1, <1>5, <1>6, <1>8 DEF Is
    <2>2. <<>> \o sent[1].bytes = sent[1].bytes
      BY <2>1, ConcatEmptySeq
    <2>3. QED
      BY <1>3, <1>6, <1>7, <1>8, <2>1, <2>2 DEF B
  <1>9. CASE k # 0
    <2>1. PICK G : Is(G, k) /\ RelayFlat(k) = G[k]
      BY <1>4, <1>5, <1>9
    <2> DEFINE T == {m \in Nat : m + 1 \in 1 .. k => F[m + 1] = G[m + 1]}
    <2>2. 0 \in T
      BY <1>6, <2>1 DEF Is
    <2>3. ASSUME NEW m \in T PROVE m + 1 \in T
      <3>1. /\ m \in Nat /\ m + 1 \in Nat /\ (m + 1) + 1 = m + 2 /\ (m + 2) - 1 = m + 1
            /\ m + 2 \in 1 .. k => m + 2 \in 2 .. k /\ m + 2 \in 2 .. k + 1 /\ m + 1 \in 1 .. k
        BY <1>5
      <3>2. SUFFICES ASSUME m + 2 \in 1 .. k PROVE F[m + 2] = G[m + 2]
        BY <3>1
      <3>3. F[m + 1] = G[m + 1]
        BY <3>1, <3>2
      <3>4. F[m + 2] = F[m + 1] \o sent[m + 2].bytes
        BY <1>6, <3>1, <3>2 DEF Is
      <3>5. G[m + 2] = G[m + 1] \o sent[m + 2].bytes
        BY <2>1, <3>1, <3>2 DEF Is
      <3>6. QED
        BY <3>3, <3>4, <3>5
    <2> HIDE DEF T
    <2>4. T = Nat
      BY <2>2, <2>3, Induction DEF T
    <2>5. F[k] = G[k]
      <3>1. k - 1 \in T /\ (k - 1) + 1 = k /\ k \in 1 .. k
        BY <1>5, <1>9, <2>4
      <3>2. QED
        BY <3>1 DEF T
    <2>6. F[k + 1] = F[k] \o sent[k + 1].bytes
      <3>1. k + 1 \in 2 .. k + 1 /\ (k + 1) - 1 = k
        BY <1>5, <1>9
      <3>2. QED
        BY <1>6, <3>1 DEF Is
    <2>7. QED
      BY <1>3, <1>6, <1>7, <2>1, <2>5, <2>6 DEF B
  <1>10. QED
    BY <1>8, <1>9


\* One behind the other: where an item begins, and what stands there.
LEMMA RelayNextItem ==
  ASSUME sent \in RelayStreams, NEW k \in 0 .. Len(sent) - 1
  PROVE  LET f == RelayFlat(k)
             s == sent[k + 1].bytes
             g == RelayFlat(k + 1)
         IN  /\ f \in Seq(Relay!Byte) /\ g \in Seq(Relay!Byte)
             /\ Len(f) \in Nat /\ Len(s) \in Nat \ {0} /\ Len(g) = Len(f) + Len(s)
             /\ \A j \in 1 .. Len(f) : g[j] = f[j]
             /\ \A j \in 1 .. Len(s) : g[Len(f) + j] = s[j]
  <1> DEFINE f == RelayFlat(k)
             s == sent[k + 1].bytes
             g == RelayFlat(k + 1)
             n == Len(sent)
  <1>1. n \in Nat /\ \A i \in 1 .. n : sent[i].bytes \in Seq(Relay!Byte) /\ sent[i].bytes # <<>>
    BY RelayItems
  <1>2. g \in Seq(Relay!Byte) /\ g = f \o s /\ RelayFlat(0) = <<>>
    BY RelayOneMore
  <1> HIDE DEF n
  <1>3. k + 1 \in 1 .. n /\ k \in Nat /\ k + 1 <= n
    BY <1>1 DEF n
  <1>4. s \in Seq(Relay!Byte) /\ s # <<>>
    BY <1>1, <1>3
  <1>5. f \in Seq(Relay!Byte)
    <2>1. CASE k = 0
      <3>1. f = <<>>
        BY <1>2, <2>1 DEF f
      <3>2. QED
        BY <3>1
    <2>2. CASE k # 0
      <3>1. k - 1 \in 0 .. n - 1 /\ (k - 1) + 1 = k
        BY <1>1, <1>3, <2>2
      <3>2. RelayFlat((k - 1) + 1) \in Seq(Relay!Byte)
        BY <3>1, RelayOneMore DEF n
      <3>3. QED
        BY <3>1, <3>2 DEF f
    <2>3. QED
      BY <2>1, <2>2
  <1> HIDE DEF f, s, g
  <1>6. Len(f) \in Nat /\ Len(s) \in Nat \ {0}
    BY <1>4, <1>5
  <1>7. /\ Len(f \o s) = Len(f) + Len(s)
        /\ \A j \in 1 .. Len(f) + Len(s) :
             (f \o s)[j] = IF j <= Len(f) THEN f[j] ELSE s[j - Len(f)]
    BY <1>4, <1>5
  <1>8. \A j \in 1 .. Len(f) : g[j] = f[j]
    BY <1>2, <1>6, <1>7
  <1>9. \A j \in 1 .. Len(s) : g[Len(f) + j] = s[j]
    <2>1. SUFFICES ASSUME NEW j \in 1 .. Len(s) PROVE g[Len(f) + j] = s[j]
      OBVIOUS
    <2>2. /\ Len(f) + j \in 1 .. Len(f) + Len(s) /\ ~ (Len(f) + j <= Len(f))
          /\ (Len(f) + j) - Len(f) = j
      BY <1>6
    <2>3. QED
      BY <1>2, <1>7, <2>2
  <1>10. QED
    BY <1>2, <1>5, <1>6, <1>7, <1>8, <1>9 DEF f, s, g

\* The ends of the items grow, and the stream begins with its first items.
LEMMA RelayPrefixes ==
  ASSUME sent \in RelayStreams
  PROVE  \A l \in 0 .. Len(sent) : \A k \in 0 .. l :
           /\ RelayFlat(l) \in Seq(Relay!Byte) /\ Len(RelayFlat(l)) \in Nat
           /\ Len(RelayFlat(k)) \in Nat
           /\ Len(RelayFlat(k)) + (l - k) <= Len(RelayFlat(l))
           /\ \A j \in 1 .. Len(RelayFlat(k)) : RelayFlat(l)[j] = RelayFlat(k)[j]
  <1> DEFINE n == Len(sent)
             L(k) == Len(RelayFlat(k))
             Good(k, l) ==
               /\ RelayFlat(l) \in Seq(Relay!Byte) /\ L(l) \in Nat
               /\ L(k) \in Nat
               /\ L(k) + (l - k) <= L(l)
               /\ \A j \in 1 .. L(k) : RelayFlat(l)[j] = RelayFlat(k)[j]
             T == {l \in Nat : l <= n => \A k \in 0 .. l : Good(k, l)}
  <1>1. n \in Nat
    BY RelayItems
  <1>2. 0 \in T
    <2>1. RelayFlat(0) = <<>>
      BY DEF RelayFlat, RelayPart, Relay!FlattenSeq
    <2> DEFINE e == RelayFlat(0)
    <2>2. e \in Seq(Relay!Byte) /\ Len(e) = 0
      <3> HIDE DEF e
      <3>1. e = <<>>
        BY <2>1 DEF e
      <3>2. QED
        BY <3>1
    <2>3. \A k \in 0 .. 0 : k = 0
      OBVIOUS
    <2>4. Good(0, 0)
      BY <2>2
    <2> HIDE DEF Good
    <2>5. QED
      BY <2>3, <2>4
  <1>3. ASSUME NEW l \in T PROVE l + 1 \in T
    <2> HIDE DEF Good
    <2>1. l \in Nat /\ l + 1 \in Nat /\ (l + 1 <= n => l \in 0 .. n - 1 /\ l <= n)
      BY <1>1
    <2>2. SUFFICES ASSUME l + 1 <= n, NEW k \in 0 .. l + 1 PROVE Good(k, l + 1)
      BY <2>1
    <2>3. l \in 0 .. Len(sent) - 1
      BY <2>1, <2>2
    <2> DEFINE f == RelayFlat(l)
               s == sent[l + 1].bytes
               g == RelayFlat(l + 1)
    <2>4. /\ f \in Seq(Relay!Byte) /\ g \in Seq(Relay!Byte)
          /\ L(l) \in Nat /\ Len(s) \in Nat \ {0} /\ L(l + 1) = L(l) + Len(s)
          /\ \A j \in 1 .. L(l) : g[j] = f[j]
      BY <2>3, RelayNextItem
    <2> HIDE DEF s, T, n, L
    <2>5. CASE k = l + 1
      <3>1. L(l + 1) \in Nat /\ L(l + 1) + ((l + 1) - (l + 1)) <= L(l + 1)
        BY <2>1, <2>4
      <3>2. QED
        BY <2>4, <2>5, <3>1 DEF Good
    <2>6. CASE k # l + 1
      <3>1. k \in 0 .. l /\ l <= n
        BY <2>1, <2>2, <2>6
      <3>2. Good(k, l)
        BY <3>1 DEF T
      <3>3. L(l + 1) \in Nat /\ L(k) + ((l + 1) - k) <= L(l + 1)
        BY <2>1, <2>4, <3>1, <3>2 DEF Good
      <3>4. \A j \in 1 .. L(k) : j \in 1 .. L(l)
        BY <2>1, <2>4, <3>1, <3>2 DEF Good
      <3>5. \A j \in 1 .. L(k) : g[j] = RelayFlat(k)[j]
        BY <2>4, <3>2, <3>4 DEF Good
      <3>6. QED
        BY <2>4, <3>2, <3>3, <3>5 DEF Good
    <2>7. QED
      BY <2>5, <2>6
  <1> HIDE DEF T, Good
  <1>4. T = Nat
    BY <1>2, <1>3, Induction DEF T
  <1>5. \A l \in 0 .. n : \A k \in 0 .. l : Good(k, l)
    BY <1>1, <1>4 DEF T
  <1>6. QED
    BY <1>5 DEF Good, L, n

\* The ends of items and the bytes between them.
LEMMA RelayEnds ==
  ASSUME sent \in RelayStreams
  PROVE  /\ Relay!bytes \in Seq(Relay!Byte) /\ Len(Relay!bytes) \in Nat
         /\ Relay!End(0) = 0 /\ Relay!End(Len(sent)) = Len(Relay!bytes)
         /\ \A k \in 0 .. Len(sent) : Relay!End(k) \in 0 .. Len(Relay!bytes)
         /\ \A k, l \in 0 .. Len(sent) : k <= l => Relay!End(k) + (l - k) <= Relay!End(l)
  <1> DEFINE n == Len(sent)
             E(k) == Len(RelayFlat(k))
  <1>1. n \in Nat
    BY RelayItems
  <1>2. Relay!bytes = RelayFlat(n)
    BY DEF Relay!bytes, RelayFlat, RelayPart
  <1>3. \A k : Relay!End(k) = E(k)
    BY DEF Relay!End, RelayFlat, RelayPart
  <1>4. RelayFlat(0) = <<>>
    BY DEF RelayFlat, RelayPart, Relay!FlattenSeq
  <1>5. \A l \in 0 .. n : \A k \in 0 .. l :
          /\ RelayFlat(l) \in Seq(Relay!Byte) /\ E(l) \in Nat /\ E(k) \in Nat
          /\ E(k) + (l - k) <= E(l)
    BY RelayPrefixes
  <1>6. E(0) = 0 /\ Relay!End(n) = Len(Relay!bytes)
    BY <1>2, <1>3, <1>4
  <1> HIDE DEF n
  <1>7. 0 \in 0 .. n /\ n \in 0 .. n
    BY <1>1
  <1>8. Relay!bytes \in Seq(Relay!Byte) /\ Len(Relay!bytes) \in Nat
    BY <1>2, <1>5, <1>7
  <1> HIDE DEF E
  <1>9. \A k, l \in 0 .. n : k <= l => E(k) + (l - k) <= E(l)
    <2>1. SUFFICES ASSUME NEW k \in 0 .. n, NEW l \in 0 .. n, k <= l PROVE E(k) + (l - k) <= E(l)
      OBVIOUS
    <2>2. k \in 0 .. l
      BY <1>1, <2>1
    <2>3. QED
      BY <1>5, <2>2
  <1>10. \A k \in 0 .. n : E(k) \in 0 .. E(n)
    <2>1. SUFFICES ASSUME NEW k \in 0 .. n PROVE E(k) \in 0 .. E(n)
      OBVIOUS
    <2>2. E(k) + (n - k) <= E(n) /\ k <= n /\ k \in Nat
      BY <1>1, <1>7, <1>9
    <2>3. E(k) \in Nat /\ E(n) \in Nat
      BY <1>1, <1>5, <1>7
    <2>4. QED
      BY <1>1, <2>2, <2>3
  <1>11. QED
    BY <1>3, <1>6, <1>8, <1>9, <1>10 DEF n

\* The bytes of an item stand behind the item before.
LEMMA RelayItemStands ==
  ASSUME sent \in RelayStreams, NEW k \in 0 .. Len(sent) - 1
  PROVE  /\ Len(sent[k + 1].bytes) \in Nat \ {0}
         /\ Relay!End(k + 1) = Relay!End(k) + Len(sent[k + 1].bytes)
         /\ \A j \in 1 .. Len(sent[k + 1].bytes) :
              Relay!bytes[Relay!End(k) + j] = sent[k + 1].bytes[j]
  <1> DEFINE n == Len(sent)
             E(i) == Len(RelayFlat(i))
             s == sent[k + 1].bytes
  <1>1. n \in Nat
    BY RelayItems
  <1>2. Relay!bytes = RelayFlat(n)
    BY DEF Relay!bytes, RelayFlat, RelayPart
  <1>3. \A i : Relay!End(i) = E(i)
    BY DEF Relay!End, RelayFlat, RelayPart
  <1>4. /\ E(k) \in Nat /\ Len(s) \in Nat \ {0} /\ E(k + 1) = E(k) + Len(s)
        /\ \A j \in 1 .. Len(s) : RelayFlat(k + 1)[E(k) + j] = s[j]
    BY RelayNextItem
  <1>5. k + 1 \in 0 .. n
    BY <1>1
  <1>6. \A j \in 1 .. E(k + 1) : RelayFlat(n)[j] = RelayFlat(k + 1)[j]
    <2>1. n \in 0 .. n
      BY <1>1
    <2>2. QED
      BY <1>5, <2>1, RelayPrefixes
  <1> HIDE DEF n, E, s
  <1>7. \A j \in 1 .. Len(s) : E(k) + j \in 1 .. E(k + 1)
    BY <1>4
  <1>8. \A j \in 1 .. Len(s) : Relay!bytes[E(k) + j] = s[j]
    BY <1>2, <1>4, <1>6, <1>7
  <1>9. QED
    BY <1>3, <1>4, <1>8 DEF s


\* What depends on the stream only stays as it is.
LEMMA RelaySame ==
  ASSUME sent' = sent
  PROVE  /\ Relay!bytes' = Relay!bytes /\ Relay!Ends' = Relay!Ends
         /\ Relay!Framed' = Relay!Framed
         /\ Relay!NoiseHasNoHeader' <=> Relay!NoiseHasNoHeader
  BY DEF Relay!bytes, Relay!Ends, Relay!End, Relay!Framed, Relay!NoiseHasNoHeader

LEMMA RelaySameEnd ==
  ASSUME sent' = sent, NEW k PROVE Relay!End(k)' = Relay!End(k)
  BY DEF Relay!End

LEMMA RelaySizes ==
  /\ RELAY_BUFFER_SIZE \in Nat /\ Slack \in Nat \ {0} /\ Slack <= RELAY_BUFFER_SIZE
  BY PartsAssumption DEF Relay!RelayUartAssumption

\* What OnMessage looks at is what stands in the stream.
LEMMA RelayFieldIsByte ==
  ASSUME Relay!TypeOK, NEW i \in 0 .. 9
  PROVE  /\ Relay!Field(i) \in Relay!Byte
         /\ (Relay!BlockInv /\ uart = "scan" /\ d + i + 1 <= Len(rx_buf)) =>
              Relay!Field(i) = Relay!bytes[Relay!Scanned + i + 1]
  <1> DEFINE n == Len(rx_buf)
             b == Relay!bytes
  <1>1. /\ rx_buf \in Seq(Relay!Byte) /\ n \in Nat /\ d \in Nat
        /\ \A m \in 1 .. n : rx_buf[m] \in Relay!Byte
    BY RelaySizes, ElementOfSeq, LenProperties DEF Relay!TypeOK
  <1>2. 0 \in Relay!Byte
    BY DEF Relay!Byte
  <1>3. Relay!Field(i) = IF d + i + 1 <= n THEN rx_buf[d + i + 1] ELSE 0
    BY DEF Relay!Field
  <1>4. d + i + 1 \in Nat /\ d + i + 1 >= 1
    BY <1>1
  <1>5. Relay!Field(i) \in Relay!Byte
    <2> HIDE DEF n
    <2>1. CASE d + i + 1 <= n
      <3>1. d + i + 1 \in 1 .. n
        BY <1>1, <1>4, <2>1
      <3>2. QED
        BY <1>1, <1>3, <2>1, <3>1
    <2>2. CASE ~ (d + i + 1 <= n)
      BY <1>2, <1>3, <2>2
    <2>3. QED
      BY <2>1, <2>2
  <1>6. ASSUME Relay!BlockInv, uart = "scan", d + i + 1 <= n
        PROVE  Relay!Field(i) = b[Relay!Scanned + i + 1]
    <2>1. b \in Seq(Relay!Byte) /\ Len(b) \in Nat
      BY RelayEnds DEF Relay!TypeOK
    <2>2. taken \in Nat /\ taken <= Len(b)
      BY <2>1 DEF Relay!TypeOK
    <2>3. n <= taken /\ rx_buf = SubSeq(b, taken - n + 1, taken)
      BY <1>6 DEF Relay!BlockInv
    <2>4. Relay!Scanned = taken - n + d
      BY <1>1, <1>6, <2>2 DEF Relay!Scanned
    <2> HIDE DEF b, n
    <2>5. \A m \in 1 .. n : rx_buf[m] = b[taken - n + m]
      <3>1. SUFFICES ASSUME NEW m \in 1 .. n PROVE rx_buf[m] = b[taken - n + m]
        OBVIOUS
      <3>2. taken - n + 1 \in 1 .. Len(b) + 1 /\ taken \in taken - n + 1 - 1 .. Len(b)
        BY <1>1, <2>1, <2>2, <2>3
      <3>3. /\ taken - (taken - n + 1) + 1 = n /\ (taken - n + 1) + m - 1 = taken - n + m
            /\ n \in Nat
        BY <1>1, <2>2
      <3>4. SubSeq(b, taken - n + 1, taken) = [j \in 1 .. taken - (taken - n + 1) + 1 |->
                                                 b[j + (taken - n + 1) - 1]]
        BY <2>1, <2>2, <1>1 DEF SubSeq
      <3>5. rx_buf[m] = b[m + (taken - n + 1) - 1]
        BY <2>3, <3>3, <3>4
      <3>6. m + (taken - n + 1) - 1 = taken - n + m
        BY <1>1, <2>2
      <3>7. QED
        BY <3>5, <3>6
    <2>6. d + i + 1 \in 1 .. n
      BY <1>1, <1>6, <1>4
    <2>7. Relay!Field(i) = b[taken - n + (d + i + 1)]
      BY <1>3, <1>6, <2>5, <2>6
    <2>8. taken - n + (d + i + 1) = (taken - n + d) + i + 1
      BY <1>1, <2>2
    <2>9. QED
      BY <2>4, <2>7, <2>8
  <1>7. QED
    BY <1>5, <1>6

\* A frame that begins where OnMessage is is seen, as the block reaches its end.
LEMMA RelayFrameIsSeen ==
  ASSUME Relay!TypeOK, Relay!BlockInv, uart = "scan", Len(rx_buf) - d >= 7,
         taken \in Relay!Ends, NEW k \in 0 .. Len(sent) - 1, k + 1 \in Relay!Framed,
         Relay!Scanned = Relay!End(k)
  PROVE  /\ Relay!IsFrame
         /\ Relay!Scanned + Relay!length + 5 = Relay!End(k + 1)
         /\ Relay!End(k + 1) <= taken
         /\ [r \in Relay!Relays |-> IF Relay!Field(5 + r) = 0 THEN 1 ELSE 0]
              = Relay!Shown(sent[k + 1].data)
  <1> DEFINE n == Len(sent)
             N == Len(rx_buf)
             b == Relay!bytes
             s == sent[k + 1].bytes
             data == sent[k + 1].data
             p == Relay!Scanned
  <1>1. sent \in RelayStreams
    BY DEF Relay!TypeOK
  <1>2. /\ n \in Nat /\ k \in Nat /\ k + 1 \in 1 .. n /\ k + 1 \in 0 .. n /\ k \in 0 .. n
    BY <1>1, RelayItems
  <1>3. /\ s \in Seq(Relay!Byte) /\ data \in Seq(Relay!Byte)
        /\ Relay!FrameHolds(s, data)
    BY <1>1, <1>2, RelayItems
  <1>4. /\ Len(s) \in Nat \ {0} /\ Relay!End(k + 1) = Relay!End(k) + Len(s)
        /\ \A j \in 1 .. Len(s) : b[p + j] = s[j]
    BY <1>1, RelayItemStands
  <1>5. taken \in Nat /\ N \in Nat /\ d \in Nat /\ N <= taken /\ Relay!Scanned = taken - N + d
    BY RelaySizes DEF Relay!TypeOK, Relay!BlockInv, Relay!Scanned
  <1>6. Relay!End(k + 1) <= taken
    <2>1. PICK m \in 0 .. n : taken = Relay!End(m)
      BY DEF Relay!Ends
    <2>2. m > k
      <3>1. SUFFICES ASSUME m <= k PROVE FALSE
        BY <1>2, <2>1
      <3>2. Relay!End(m) + (k - m) <= Relay!End(k)
        BY <1>1, <1>2, <2>1, <3>1, RelayEnds
      <3>3. Relay!End(k) = taken - N + d /\ N - d >= 7
        BY <1>5
      <3> HIDE DEF N, n
      <3>4. QED
        BY <1>2, <1>5, <2>1, <3>1, <3>2, <3>3
    <2>3. Relay!End(k + 1) + (m - (k + 1)) <= Relay!End(m)
      <3>1. k + 1 <= m
        BY <1>2, <2>1, <2>2
      <3>2. QED
        BY <1>1, <1>2, <2>1, <3>1, RelayEnds
    <2>4. Relay!End(k + 1) \in Nat
      BY <1>1, <1>2, RelayEnds
    <2>5. QED
      BY <1>2, <1>5, <2>1, <2>2, <2>3, <2>4
  <1> DEFINE size == Len(data)
  <1>7. size \in Nat /\ size >= 4 /\ size + 2 <= 68 /\ Len(s) = (size + 2) + 5
    <2> HIDE DEF s, data
    <2>1. size \in Nat
      BY <1>3
    <2>2. size + 2 \in 6 .. 68 /\ Len(s) = (size + 2) + 5
      BY <1>3 DEF Relay!FrameHolds
    <2> HIDE DEF size
    <2>3. QED
      BY <2>1, <2>2
  <1>8. /\ s[1] = 170 /\ s[2] = 85 /\ s[3] = size + 2 /\ s[4] = 0
        /\ \A j \in 1 .. size : s[6 + j] = data[j]
    BY <1>3 DEF Relay!FrameHolds
  <1>9. \A i \in 0 .. 9 : i + 1 <= Len(s) => Relay!Field(i) = s[i + 1]
    <2>1. SUFFICES ASSUME NEW i \in 0 .. 9, i + 1 <= Len(s) PROVE Relay!Field(i) = s[i + 1]
      OBVIOUS
    <2>2. p + Len(s) <= taken
      BY <1>4, <1>6
    <2> HIDE DEF N, s
    <2>3. d + i + 1 <= N
      BY <1>4, <1>5, <2>1, <2>2
    <2>4. Relay!Field(i) = b[Relay!Scanned + i + 1]
      BY <2>3, RelayFieldIsByte DEF N
    <2>5. i + 1 \in 1 .. Len(s) /\ p + i + 1 = p + (i + 1)
      BY <1>4, <1>5, <2>1
    <2>6. QED
      BY <1>4, <2>4, <2>5
  <1> HIDE DEF s, data, size, p, b, N, n
  <1>10. \A i \in 0 .. 9 : Relay!Field(i) = s[i + 1]
    BY <1>7, <1>9
  <1>11. /\ Relay!Field(0) = 170 /\ Relay!Field(1) = 85
         /\ Relay!Field(2) = size + 2 /\ Relay!Field(3) = 0
    BY <1>8, <1>10
  <1>12. Relay!length = size + 2
    BY <1>7, <1>11 DEF Relay!length
  <1>13. Relay!IsFrame
    BY <1>7, <1>11, <1>12 DEF Relay!IsFrame, Relay!header
  <1>14. p + Relay!length + 5 = Relay!End(k + 1)
    BY <1>4, <1>5, <1>7, <1>12 DEF p
  <1>15. \A r \in Relay!Relays : Relay!Field(5 + r) = data[r]
    <2>1. SUFFICES ASSUME NEW r \in 1 .. 4 PROVE Relay!Field(5 + r) = data[r]
      BY DEF Relay!Relays
    <2>2. 5 + r \in 0 .. 9 /\ (5 + r) + 1 = 6 + r /\ r \in 1 .. size
      BY <1>7
    <2>3. QED
      BY <1>8, <1>10, <2>2
  <1>16. QED
    BY <1>6, <1>13, <1>14, <1>15 DEF Relay!Shown, data, p

\* Noise that does not look like the beginning of a frame is no frame.
LEMMA RelayNoiseIsSkipped ==
  ASSUME Relay!TypeOK, Relay!BlockInv, uart = "scan", Len(rx_buf) - d >= 7,
         Relay!NoiseHasNoHeader, NEW k \in 0 .. Len(sent) - 1, k + 1 \notin Relay!Framed,
         Relay!Scanned >= Relay!End(k), Relay!Scanned < Relay!End(k + 1)
  PROVE  ~ Relay!IsFrame
  <1> DEFINE n == Len(sent)
             N == Len(rx_buf)
             b == Relay!bytes
             s == sent[k + 1].bytes
             e == Relay!End(k)
             p == Relay!Scanned
             j == p - e + 1
  <1>1. sent \in RelayStreams
    BY DEF Relay!TypeOK
  <1>2. n \in Nat /\ k + 1 \in 1 .. n /\ k \in 0 .. n
    BY <1>1, RelayItems
  <1>3. /\ Len(s) \in Nat \ {0} /\ Relay!End(k + 1) = e + Len(s)
        /\ \A i \in 1 .. Len(s) : b[e + i] = s[i]
    BY <1>1, RelayItemStands
  <1>4. e \in Nat
    BY <1>1, <1>2, RelayEnds
  <1>5. taken \in Nat /\ N \in Nat /\ d \in Nat /\ N <= taken /\ p = taken - N + d
    BY RelaySizes DEF Relay!TypeOK, Relay!BlockInv, Relay!Scanned
  <1>6. \A i \in 1 .. Len(s) : s[i] = 170 => i < Len(s) /\ s[i + 1] # 85
    BY <1>2 DEF Relay!NoiseHasNoHeader
  <1>7. /\ Relay!Field(0) \in Relay!Byte /\ Relay!Field(1) \in Relay!Byte
        /\ Relay!Field(0) = b[p + 0 + 1] /\ Relay!Field(1) = b[p + 1 + 1]
    <2>1. d + 0 + 1 <= N /\ d + 1 + 1 <= N
      BY <1>5
    <2>2. QED
      BY <2>1, RelayFieldIsByte
  <1> HIDE DEF s, p, b, N, n, e
  <1>8. SUFFICES ASSUME Relay!IsFrame PROVE FALSE
    OBVIOUS
  <1>9. Relay!Field(0) = 170 /\ Relay!Field(1) = 85
    <2>1. \A x, y \in Relay!Byte : x + 256 * y = 170 + 256 * 85 => x = 170 /\ y = 85
      BY DEF Relay!Byte
    <2>2. Relay!Field(0) + 256 * Relay!Field(1) = 170 + 256 * 85
      BY <1>8 DEF Relay!IsFrame, Relay!header
    <2>3. QED
      BY <1>7, <2>1, <2>2
  <1>10. j \in 1 .. Len(s) /\ p + 0 + 1 = e + j /\ p + 1 + 1 = e + (j + 1)
    BY <1>3, <1>4, <1>5 DEF e, p
  <1>11. s[j] = 170
    BY <1>3, <1>7, <1>9, <1>10
  <1>12. j < Len(s) /\ s[j + 1] # 85
    BY <1>6, <1>10, <1>11
  <1>13. j + 1 \in 1 .. Len(s)
    BY <1>3, <1>10, <1>12
  <1>14. QED
    BY <1>3, <1>7, <1>9, <1>10, <1>12, <1>13


\* Items that are no frames change nothing of what the relays should show.
LEMMA RelayShowsOn ==
  ASSUME NEW k \in Nat, NEW l \in Nat, k <= l, Relay!ShowsLast(k),
         Relay!Framed \cap (k + 1 .. l) = {}
  PROVE  Relay!ShowsLast(l)
  <1>1. \A i \in 1 .. l : i \in 1 .. k \/ i \in k + 1 .. l
    OBVIOUS
  <1>2. \A i \in 1 .. k : i \in 1 .. l
    OBVIOUS
  <1>3. CASE Relay!Framed \cap (1 .. k) = {} /\ rl = [r \in Relay!Relays |-> 0]
    <2>1. Relay!Framed \cap (1 .. l) = {}
      BY <1>1, <1>3
    <2>2. QED
      BY <1>3, <2>1 DEF Relay!ShowsLast
  <1>4. ASSUME NEW j \in Relay!Framed \cap (1 .. k),
               Relay!Framed \cap (j + 1 .. k) = {}, rl = Relay!Shown(sent[j].data)
        PROVE  Relay!ShowsLast(l)
    <2>1. \A i \in j + 1 .. l : i \in j + 1 .. k \/ i \in k + 1 .. l
      OBVIOUS
    <2>2. Relay!Framed \cap (j + 1 .. l) = {} /\ j \in Relay!Framed \cap (1 .. l)
      BY <1>2, <1>4, <2>1
    <2>3. QED
      BY <1>4, <2>2 DEF Relay!ShowsLast
  <1>5. QED
    BY <1>3, <1>4 DEF Relay!ShowsLast

\* Where OnMessage is when k items were seen: at their end or in the noise behind.
RelayIsAt(k) ==
  \/ Relay!Scanned = Relay!End(k)
  \/ /\ uart = "scan" /\ k < Len(sent) /\ k + 1 \notin Relay!Framed
     /\ Relay!Scanned \in Relay!End(k) .. Relay!End(k + 1)

\* Short of the end it is before the last byte of some item.
LEMMA RelayNextSeen ==
  ASSUME sent \in RelayStreams, NEW k \in 0 .. Len(sent), Relay!ShowsLast(k), RelayIsAt(k),
         Relay!Scanned < Relay!End(Len(sent))
  PROVE  \E l \in 0 .. Len(sent) - 1 :
           /\ Relay!ShowsLast(l)
           /\ Relay!Scanned >= Relay!End(l) /\ Relay!Scanned < Relay!End(l + 1)
           /\ l + 1 \in Relay!Framed => Relay!Scanned = Relay!End(l)
  <1> DEFINE n == Len(sent)
             p == Relay!Scanned
             E(i) == Relay!End(i)
  <1>1. n \in Nat
    BY RelayItems
  <1>2. /\ \A i \in 0 .. n : E(i) \in Nat
        /\ \A i, j \in 0 .. n : i <= j => E(i) + (j - i) <= E(j)
    BY RelayEnds
  <1> HIDE DEF n, p, E
  <1>3. k \in 0 .. n /\ p < E(n)
    BY DEF n, p, E
  <1>4. CASE p = E(k)
    <2>1. k # n
      BY <1>2, <1>3, <1>4
    <2>2. k \in 0 .. n - 1 /\ k + 1 \in 0 .. n /\ k <= k + 1
      BY <1>1, <1>3, <2>1
    <2>3. E(k) + ((k + 1) - k) <= E(k + 1) /\ E(k) \in Nat /\ E(k + 1) \in Nat
      BY <1>2, <1>3, <2>2
    <2>4. p >= E(k) /\ p < E(k + 1)
      BY <1>4, <2>2, <2>3
    <2>5. QED
      BY <1>4, <2>2, <2>4 DEF n, p, E
  <1>5. CASE /\ k < n /\ k + 1 \notin Relay!Framed /\ p \in E(k) .. E(k + 1) /\ p # E(k)
    <2>1. k \in Nat /\ k \in 0 .. n - 1 /\ k + 1 \in 0 .. n
      BY <1>1, <1>3, <1>5
    <2>2. E(k) \in Nat /\ E(k + 1) \in Nat /\ p \in Nat
      BY <1>2, <1>3, <1>5, <2>1
    <2>3. CASE p # E(k + 1)
      <3>1. p >= E(k) /\ p < E(k + 1)
        BY <1>5, <2>2, <2>3
      <3>2. QED
        BY <1>5, <2>1, <3>1 DEF n, p, E
    <2>4. CASE p = E(k + 1)
      <3>1. k + 1 # n
        BY <1>3, <2>2, <2>4
      <3>2. /\ k + 1 \in 0 .. n - 1 /\ (k + 1) + 1 \in 0 .. n /\ k + 1 <= (k + 1) + 1
            /\ k + 1 \in Nat /\ k <= k + 1
        BY <1>1, <2>1, <3>1
      <3>3. E(k + 1) + (((k + 1) + 1) - (k + 1)) <= E((k + 1) + 1) /\ E((k + 1) + 1) \in Nat
        BY <1>2, <2>1, <3>2
      <3>4. p >= E(k + 1) /\ p < E((k + 1) + 1)
        BY <2>1, <2>2, <2>4, <3>3
      <3>5. \A i \in k + 1 .. k + 1 : i = k + 1
        BY <2>1
      <3>6. Relay!Framed \cap (k + 1 .. k + 1) = {}
        BY <1>5, <3>5
      <3>7. Relay!ShowsLast(k + 1)
        BY <2>1, <3>2, <3>6, RelayShowsOn
      <3>8. QED
        BY <2>4, <3>2, <3>4, <3>7 DEF n, p, E
    <2>5. QED
      BY <2>3, <2>4
  <1>6. QED
    BY <1>4, <1>5 DEF RelayIsAt, n, p, E

\* Less than seven bytes hold no frame: at the end of a block all were seen.
LEMMA RelayAllSeen ==
  ASSUME sent \in RelayStreams, NEW k \in 0 .. Len(sent), Relay!ShowsLast(k), RelayIsAt(k),
         NEW m \in 0 .. Len(sent), Relay!Scanned \in Int, Relay!Scanned <= Relay!End(m),
         Relay!End(m) - Relay!Scanned < 7
  PROVE  Relay!ShowsLast(m)
  <1> DEFINE n == Len(sent)
             p == Relay!Scanned
             E(i) == Relay!End(i)
  <1>1. n \in Nat
    BY RelayItems
  <1>2. /\ \A i \in 0 .. n : E(i) \in Nat
        /\ \A i, j \in 0 .. n : i <= j => E(i) + (j - i) <= E(j)
    BY RelayEnds
  <1>3. \A i \in 0 .. n - 1 : i + 1 \in Relay!Framed => E(i + 1) >= E(i) + 11
    <2>1. SUFFICES ASSUME NEW i \in 0 .. n - 1, i + 1 \in Relay!Framed
                   PROVE  E(i + 1) >= E(i) + 11
      OBVIOUS
    <2> DEFINE s == sent[i + 1].bytes
               data == sent[i + 1].data
    <2>2. Len(s) \in Nat \ {0} /\ E(i + 1) = E(i) + Len(s)
      BY RelayItemStands
    <2>3. i + 1 \in 1 .. n /\ i \in 0 .. n
      BY <1>1
    <2>4. Relay!FrameHolds(s, data) /\ data \in Seq(Relay!Byte)
      BY <2>1, <2>3, RelayItems
    <2>5. E(i) \in Nat
      BY <1>2, <2>3
    <2> DEFINE size == Len(data)
    <2> HIDE DEF s, data, E
    <2>6. size + 2 \in 6 .. 68 /\ Len(s) = (size + 2) + 5
      BY <2>4 DEF Relay!FrameHolds
    <2>7. size \in Nat
      BY <2>4
    <2> HIDE DEF size
    <2>8. Len(s) >= 11
      BY <2>6, <2>7
    <2>9. QED
      BY <2>2, <2>5, <2>8
  <1> HIDE DEF n, p, E
  <1>4. /\ k \in 0 .. n /\ m \in 0 .. n /\ p \in Int /\ p <= E(m) /\ E(m) - p < 7
        /\ \/ p = E(k)
           \/ k < n /\ k + 1 \notin Relay!Framed /\ p \in E(k) .. E(k + 1)
    BY DEF n, p, E, RelayIsAt
  <1>5. E(k) <= p
    <2>1. E(k) \in Nat
      BY <1>2, <1>4
    <2>2. QED
      BY <1>4, <2>1
  <1>6. k <= m
    <2>1. SUFFICES ASSUME m < k PROVE FALSE
      BY <1>1, <1>4
    <2>2. E(m) + (k - m) <= E(k) /\ E(m) \in Nat /\ E(k) \in Nat
      BY <1>1, <1>2, <1>4, <2>1
    <2>3. QED
      BY <1>1, <1>4, <1>5, <2>1, <2>2
  <1>7. ASSUME NEW j \in Relay!Framed, j \in k + 1 .. m PROVE FALSE
    <2>1. /\ j - 1 \in 0 .. n - 1 /\ (j - 1) + 1 = j /\ j - 1 \in 0 .. n /\ j \in 0 .. n
          /\ k <= j - 1 /\ j <= m
      BY <1>1, <1>4, <1>7
    <2>2. E(j) >= E(j - 1) + 11
      BY <1>3, <1>7, <2>1
    <2>3. E(j) + (m - j) <= E(m)
      BY <1>2, <1>4, <2>1
    <2>4. E(j) \in Nat /\ E(j - 1) \in Nat /\ E(m) \in Nat /\ E(k) \in Nat
      BY <1>2, <1>4, <2>1
    <2>5. CASE p = E(k)
      <3>1. E(k) + ((j - 1) - k) <= E(j - 1)
        BY <1>2, <1>4, <2>1
      <3>2. QED
        BY <1>1, <1>4, <2>1, <2>2, <2>3, <2>4, <2>5, <3>1
    <2>6. CASE k < n /\ k + 1 \notin Relay!Framed /\ p \in E(k) .. E(k + 1)
      <3>1. j # k + 1
        BY <1>7, <2>6
      <3>2. k + 1 \in 0 .. n /\ k + 1 <= j - 1
        BY <1>1, <1>4, <2>1, <2>6, <3>1
      <3>3. E(k + 1) + ((j - 1) - (k + 1)) <= E(j - 1) /\ E(k + 1) \in Nat
        BY <1>2, <2>1, <3>2
      <3>4. p <= E(k + 1)
        BY <2>4, <2>6, <3>3
      <3>5. QED
        BY <1>1, <1>4, <2>1, <2>2, <2>3, <2>4, <3>2, <3>3, <3>4
    <2>7. QED
      BY <1>4, <2>5, <2>6
  <1>8. QED
    BY <1>4, <1>6, <1>7, RelayShowsOn DEF n


LEMMA RelayTypes ==
  ASSUME Relay!TypeOK
  PROVE  /\ sent \in RelayStreams /\ Relay!bytes \in Seq(Relay!Byte)
         /\ Len(Relay!bytes) \in Nat
         /\ taken \in Nat /\ arrived \in Nat /\ taken <= arrived /\ arrived <= Len(Relay!bytes)
         /\ len_one_read \in Nat
         /\ rx_buf \in Seq(Relay!Byte) /\ Len(rx_buf) \in Nat
         /\ Len(rx_buf) <= RELAY_BUFFER_SIZE
         /\ d \in Nat /\ RELAY_BUFFER_SIZE \in Nat /\ Slack \in Nat /\ Slack > 0
         /\ cut \in BOOLEAN /\ paused \in BOOLEAN
  <1>1. sent \in RelayStreams /\ rx_buf \in Seq(Relay!Byte)
    BY DEF Relay!TypeOK
  <1>2. Relay!bytes \in Seq(Relay!Byte) /\ Len(Relay!bytes) \in Nat
    BY <1>1, RelayEnds
  <1>3. Len(rx_buf) \in Nat
    BY <1>1
  <1>4. QED
    BY <1>1, <1>2, <1>3, RelaySizes DEF Relay!TypeOK

LEMMA RelayInitial == ASSUME Relay!Init PROVE Relay!IInv
  <1>1. /\ sent \in RelayStreams /\ arrived = 0 /\ taken = 0 /\ uart = "closed"
        /\ len_one_read = 0 /\ rx_buf = <<>> /\ d = 0
        /\ rl = [r \in Relay!Relays |-> 0] /\ cut = FALSE /\ paused = FALSE
    BY DEF Relay!Init
  <1>2. /\ Relay!bytes \in Seq(Relay!Byte) /\ Len(Relay!bytes) \in Nat /\ Relay!End(0) = 0
        /\ Len(sent) \in Nat
    BY <1>1, RelayEnds, RelayItems
  <1>3. taken \in Relay!Ends
    BY <1>1, <1>2 DEF Relay!Ends
  <1>4. rx_buf \in Seq(Relay!Byte) /\ Len(rx_buf) = 0
    BY <1>1
  <1>5. Relay!TypeOK
    <2>1. rl \in [Relay!Relays -> Relay!Byte]
      BY <1>1 DEF Relay!Byte
    <2> DEFINE n == Len(Relay!bytes)
    <2>2. n \in Nat
      BY <1>2
    <2> HIDE DEF n
    <2>3. taken \in 0 .. arrived /\ arrived \in 0 .. n /\ len_one_read \in 0 .. n
      BY <1>1, <2>2
    <2>4. d \in 0 .. (RELAY_BUFFER_SIZE + 68 + 5) /\ Len(rx_buf) <= RELAY_BUFFER_SIZE
      BY <1>1, <1>4, RelaySizes
    <2>5. QED
      BY <1>1, <1>4, <2>1, <2>3, <2>4 DEF Relay!TypeOK, n
  <1>6. Relay!BlockInv
    <2>1. SubSeq(Relay!bytes, 0 - 0 + 1, 0) = <<>>
      BY SubSeqEmpty
    <2>2. QED
      BY <1>1, <1>4, <2>1 DEF Relay!BlockInv
  <1>7. Relay!PauseInv
    BY <1>3 DEF Relay!PauseInv
  <1>8. Relay!CutNeedsAPause
    BY <1>1 DEF Relay!CutNeedsAPause
  <1>9. Relay!ScanInv
    <2>1. Relay!Scanned = 0
      <3>1. Relay!Scanned = taken - Len(rx_buf) + 0
        BY <1>1 DEF Relay!Scanned
      <3>2. QED
        BY <1>1, <1>4, <3>1
    <2>2. Relay!ShowsLast(0) /\ 0 \in 0 .. Len(sent)
      BY <1>1, <1>2 DEF Relay!ShowsLast
    <2>3. QED
      BY <1>1, <1>2, <1>3, <2>1, <2>2 DEF Relay!ScanInv
  <1>10. QED
    BY <1>5, <1>6, <1>7, <1>8, <1>9 DEF Relay!IInv

\* A step that moves neither OnMessage nor the relays.
LEMMA RelayScanStays ==
  ASSUME Relay!ScanInv, sent' = sent, rl' = rl, ~ cut' => ~ cut,
         Relay!Scanned' = Relay!Scanned,
         (Relay!Scanned <= taken /\ ~ cut') => Relay!Scanned' <= taken',
         uart = "scan" => uart' = "scan",
         (~ cut' /\ Relay!NoiseHasNoHeader /\ uart' \in {"closed", "poll", "scan"}) =>
           taken' \in Relay!Ends
  PROVE  Relay!ScanInv'
  <1>1. /\ Relay!Ends' = Relay!Ends /\ Relay!Framed' = Relay!Framed
        /\ Relay!NoiseHasNoHeader' <=> Relay!NoiseHasNoHeader
    BY RelaySame
  <1>2. SUFFICES ASSUME ~ cut', Relay!NoiseHasNoHeader
        PROVE  /\ uart' \in {"closed", "poll", "scan"} => taken' \in Relay!Ends
               /\ Relay!Scanned' <= taken'
               /\ (\E k \in 0 .. Len(sent) :
                    /\ Relay!ShowsLast(k)
                    /\ \/ Relay!Scanned = Relay!End(k)
                       \/ /\ uart = "scan" /\ k < Len(sent) /\ k + 1 \notin Relay!Framed
                          /\ Relay!Scanned \in Relay!End(k) .. Relay!End(k + 1))'
    BY <1>1 DEF Relay!ScanInv
  <1>3. PICK k \in 0 .. Len(sent) :
          /\ Relay!ShowsLast(k)
          /\ \/ Relay!Scanned = Relay!End(k)
             \/ /\ uart = "scan" /\ k < Len(sent) /\ k + 1 \notin Relay!Framed
                /\ Relay!Scanned \in Relay!End(k) .. Relay!End(k + 1)
    BY <1>2 DEF Relay!ScanInv
  <1>4. \A i : Relay!End(i)' = Relay!End(i)
    BY RelaySameEnd
  <1>5. Relay!ShowsLast(k)'
    BY <1>1, <1>3 DEF Relay!ShowsLast, Relay!Shown
  <1>6. k \in 0 .. Len(sent') /\ Len(sent') = Len(sent)
    BY <1>3
  <1>7. Relay!Scanned <= taken
    BY <1>2 DEF Relay!ScanInv
  <1>8. QED
    <2>1. uart' \in {"closed", "poll", "scan"} => taken' \in Relay!Ends
      BY <1>2
    <2>2. Relay!Scanned' <= taken'
      BY <1>2, <1>7
    <2>3. \/ Relay!Scanned' = Relay!End(k)'
          \/ /\ uart' = "scan" /\ k < Len(sent)' /\ (k + 1 \notin Relay!Framed)'
             /\ (Relay!Scanned \in Relay!End(k) .. Relay!End(k + 1))'
      BY <1>1, <1>3, <1>4, <1>6
    <2>4. QED
      BY <1>5, <1>6, <2>1, <2>2, <2>3


\* Steps that change neither what was read nor the relays.
LEMMA RelaySteady ==
  ASSUME Relay!IInv,
         UNCHANGED <<sent, taken, rx_buf, rl, paused>>,
         arrived' \in Nat, arrived <= arrived', arrived' <= Len(Relay!bytes),
         uart' \in {"closed", "poll", "read", "scan", "exit"},
         len_one_read' \in 0 .. Len(Relay!bytes),
         d' = d \/ d' = 0,
         cut' \in BOOLEAN
  PROVE  /\ Relay!TypeOK'
         /\ (uart' \in {"closed", "poll", "exit"} => rx_buf = <<>>) => Relay!BlockInv'
  <1>1. Relay!TypeOK /\ Relay!BlockInv
    BY DEF Relay!IInv
  <1>2. Relay!bytes' = Relay!bytes
    BY RelaySame
  <1>3. /\ taken \in Nat /\ arrived \in Nat /\ taken <= arrived /\ d \in Nat
        /\ RELAY_BUFFER_SIZE \in Nat /\ Len(Relay!bytes) \in Nat
    BY <1>1, RelayTypes
  <1>4. d' \in 0 .. (RELAY_BUFFER_SIZE + 68 + 5)
    <2>1. d \in 0 .. (RELAY_BUFFER_SIZE + 68 + 5) /\ 0 \in 0 .. (RELAY_BUFFER_SIZE + 68 + 5)
      BY <1>1, <1>3 DEF Relay!TypeOK
    <2>2. QED
      BY <2>1
  <1>5. Relay!TypeOK'
    <2> DEFINE n == Len(Relay!bytes)
    <2>1. n \in Nat /\ n' = n
      BY <1>2, <1>3
    <2>2. arrived' \in 0 .. n /\ len_one_read' \in 0 .. n
      BY <1>3
    <2>3. taken' \in 0 .. arrived'
      BY <1>3
    <2>4. sent' \in RelayStreams /\ rx_buf' \in Seq(Relay!Byte)
          /\ Len(rx_buf') <= RELAY_BUFFER_SIZE /\ rl' \in [Relay!Relays -> Relay!Byte]
          /\ paused' \in BOOLEAN
      BY <1>1 DEF Relay!TypeOK
    <2> HIDE DEF n
    <2>5. arrived' \in 0 .. n' /\ len_one_read' \in 0 .. n'
      BY <2>1, <2>2
    <2>6. QED
      BY <1>4, <2>3, <2>4, <2>5 DEF Relay!TypeOK, n
  <1>6. ASSUME uart' \in {"closed", "poll", "exit"} => rx_buf = <<>> PROVE Relay!BlockInv'
    BY <1>1, <1>2, <1>6 DEF Relay!BlockInv
  <1>7. QED
    BY <1>5, <1>6

LEMMA RelayScannedInt ==
  ASSUME Relay!TypeOK
  PROVE  /\ uart = "scan" => Relay!Scanned = taken - Len(rx_buf) + d
         /\ uart # "scan" => Relay!Scanned = taken - Len(rx_buf)
         /\ Relay!Scanned \in Int
  <1>1. taken \in Nat /\ Len(rx_buf) \in Nat /\ d \in Nat
    BY RelayTypes
  <1> DEFINE n == Len(rx_buf)
  <1>2. uart = "scan" => Relay!Scanned = taken - n + d
    BY DEF Relay!Scanned
  <1>3. uart # "scan" => Relay!Scanned = taken - n + 0
    BY DEF Relay!Scanned
  <1> HIDE DEF n
  <1>4. n \in Nat
    BY <1>1 DEF n
  <1>5. taken - n + 0 = taken - n /\ taken - n \in Int /\ taken - n + d \in Int
    BY <1>1, <1>4
  <1>6. QED
    BY <1>2, <1>3, <1>5 DEF n

LEMMA RelayScannedNext ==
  ASSUME Relay!TypeOK'
  PROVE  /\ uart' = "scan" => Relay!Scanned' = taken' - Len(rx_buf') + d'
         /\ uart' # "scan" => Relay!Scanned' = taken' - Len(rx_buf')
  <1>1. taken' \in Nat /\ rx_buf' \in Seq(Relay!Byte)
    <2>1. taken' \in 0 .. arrived' /\ arrived' \in 0 .. Len(Relay!bytes')
      BY DEF Relay!TypeOK
    <2>2. QED
      BY <2>1 DEF Relay!TypeOK
  <1> DEFINE n == Len(rx_buf')
  <1>2. n \in Nat
    BY <1>1
  <1>3. uart' = "scan" => Relay!Scanned' = taken' - n + d'
    BY DEF Relay!Scanned
  <1>4. uart' # "scan" => Relay!Scanned' = taken' - n + 0
    BY DEF Relay!Scanned
  <1> HIDE DEF n
  <1>5. taken' - n + 0 = taken' - n
    BY <1>1, <1>2
  <1>6. QED
    BY <1>3, <1>4, <1>5 DEF n

LEMMA RelayOpen == ASSUME Relay!IInv, Relay!Open PROVE Relay!IInv'
  <1>1. /\ uart = "closed" /\ uart' \in {"poll", "exit"}
        /\ UNCHANGED <<sent, arrived, taken, len_one_read, rx_buf, d, rl, cut, paused>>
    BY DEF Relay!Open
  <1>2. /\ Relay!TypeOK /\ Relay!BlockInv /\ Relay!PauseInv /\ Relay!CutNeedsAPause
        /\ Relay!ScanInv
    BY DEF Relay!IInv
  <1>3. Relay!TypeOK' /\ Relay!BlockInv'
    <2>1. rx_buf = <<>>
      BY <1>1, <1>2 DEF Relay!BlockInv
    <2>2. arrived' \in Nat /\ arrived <= arrived' /\ arrived' <= Len(Relay!bytes) /\ cut' \in BOOLEAN
      BY <1>1, <1>2, RelayTypes
    <2>3. len_one_read' \in 0 .. Len(Relay!bytes)
      BY <1>1, <1>2 DEF Relay!TypeOK
    <2>4. QED
      BY <1>1, <2>1, <2>2, <2>3, RelaySteady
  <1>4. Relay!Ends' = Relay!Ends
    BY <1>1, RelaySame
  <1>5. Relay!PauseInv'
    BY <1>1, <1>2, <1>4 DEF Relay!PauseInv
  <1>6. Relay!CutNeedsAPause'
    BY <1>1, <1>2 DEF Relay!CutNeedsAPause
  <1>7. Relay!ScanInv'
    <2>1. Relay!Scanned' = Relay!Scanned
      BY <1>1, <1>2, <1>3, RelayScannedInt, RelayScannedNext
    <2>2. ~ cut' /\ Relay!NoiseHasNoHeader => taken' \in Relay!Ends
      BY <1>1, <1>2 DEF Relay!ScanInv
    <2>3. QED
      BY <1>1, <1>2, <2>1, <2>2, RelayScanStays
  <1>8. QED
    BY <1>3, <1>5, <1>6, <1>7 DEF Relay!IInv

LEMMA RelayArrive == ASSUME Relay!IInv, Relay!Arrive PROVE Relay!IInv'
  <1>1. /\ UNCHANGED <<sent, taken, uart, len_one_read, rx_buf, d, rl, cut, paused>>
        /\ \E n \in 1 .. (Len(Relay!bytes) - arrived) : arrived' = arrived + n
    BY DEF Relay!Arrive
  <1>2. /\ Relay!TypeOK /\ Relay!BlockInv /\ Relay!PauseInv /\ Relay!CutNeedsAPause
        /\ Relay!ScanInv
    BY DEF Relay!IInv
  <1>3. Relay!TypeOK' /\ Relay!BlockInv'
    <2> DEFINE b == Len(Relay!bytes)
    <2>1. uart \in {"closed", "poll", "exit"} => rx_buf = <<>>
      BY <1>2 DEF Relay!BlockInv
    <2>2. arrived \in Nat /\ b \in Nat /\ cut \in BOOLEAN
      BY <1>2, RelayTypes
    <2>3. len_one_read' \in 0 .. b /\ uart' \in {"closed", "poll", "read", "scan", "exit"}
      BY <1>1, <1>2 DEF Relay!TypeOK
    <2>4. arrived' \in Nat /\ arrived <= arrived' /\ arrived' <= b
      <3> HIDE DEF b
      <3>1. QED
        BY <1>1, <2>2 DEF b
    <2>5. QED
      BY <1>1, <2>1, <2>2, <2>3, <2>4, RelaySteady
  <1>4. Relay!Ends' = Relay!Ends
    BY <1>1, RelaySame
  <1>5. Relay!PauseInv'
    BY <1>1, <1>2, <1>4 DEF Relay!PauseInv
  <1>6. Relay!CutNeedsAPause'
    BY <1>1, <1>2 DEF Relay!CutNeedsAPause
  <1>7. Relay!ScanInv'
    <2>1. Relay!Scanned' = Relay!Scanned
      BY <1>1, <1>2, <1>3, RelayScannedInt, RelayScannedNext
    <2>2. ~ cut' /\ Relay!NoiseHasNoHeader /\ uart' \in {"closed", "poll", "scan"}
            => taken' \in Relay!Ends
      BY <1>1, <1>2 DEF Relay!ScanInv
    <2>3. QED
      BY <1>1, <1>2, <2>1, <2>2, RelayScanStays
  <1>8. QED
    BY <1>3, <1>5, <1>6, <1>7 DEF Relay!IInv

LEMMA RelayPoll == ASSUME Relay!IInv, Relay!Poll PROVE Relay!IInv'
  <1>1. /\ uart = "poll" /\ uart' = "read" /\ len_one_read' = arrived - taken
        /\ UNCHANGED <<sent, arrived, taken, rx_buf, d, rl, cut, paused>>
    BY DEF Relay!Poll
  <1>2. /\ Relay!TypeOK /\ Relay!BlockInv /\ Relay!PauseInv /\ Relay!CutNeedsAPause
        /\ Relay!ScanInv
    BY DEF Relay!IInv
  <1>3. Relay!TypeOK' /\ Relay!BlockInv'
    <2> DEFINE b == Len(Relay!bytes)
    <2>1. /\ arrived \in Nat /\ taken \in Nat /\ taken <= arrived /\ arrived <= b /\ b \in Nat
          /\ cut \in BOOLEAN
      BY <1>2, RelayTypes
    <2>2. arrived - taken \in 0 .. b /\ arrived <= arrived
      <3> HIDE DEF b
      <3>1. QED
        BY <2>1
    <2>3. QED
      BY <1>1, <2>1, <2>2, RelaySteady
  <1>4. Relay!Ends' = Relay!Ends
    BY <1>1, RelaySame
  <1>5. Relay!PauseInv'
    BY <1>1, <1>2, <1>4 DEF Relay!PauseInv
  <1>6. Relay!CutNeedsAPause'
    BY <1>1, <1>2 DEF Relay!CutNeedsAPause
  <1>7. Relay!ScanInv'
    <2>1. Relay!Scanned' = Relay!Scanned
      BY <1>1, <1>2, <1>3, RelayScannedInt, RelayScannedNext
    <2>2. QED
      BY <1>1, <1>2, <2>1, RelayScanStays
  <1>8. QED
    BY <1>3, <1>5, <1>6, <1>7 DEF Relay!IInv

LEMMA RelayDeliver == ASSUME Relay!IInv, Relay!Deliver PROVE Relay!IInv'
  <1>1. /\ uart = "read"
        /\ len_one_read <= 0 \/ Len(rx_buf) >= RELAY_BUFFER_SIZE - Slack
        /\ uart' = IF rx_buf = <<>> THEN "poll" ELSE "scan"
        /\ cut' = (cut \/ taken \notin Relay!Ends) /\ d' = 0
        /\ UNCHANGED <<sent, arrived, taken, len_one_read, rx_buf, rl, paused>>
    BY DEF Relay!Deliver
  <1>2. /\ Relay!TypeOK /\ Relay!BlockInv /\ Relay!PauseInv /\ Relay!CutNeedsAPause
        /\ Relay!ScanInv
    BY DEF Relay!IInv
  <1>3. uart' \in {"poll", "scan"} /\ (uart' = "poll" => rx_buf = <<>>)
    BY <1>1
  <1>4. Relay!TypeOK' /\ Relay!BlockInv'
    <2>1. arrived' \in Nat /\ arrived <= arrived' /\ arrived' <= Len(Relay!bytes)
      BY <1>1, <1>2, RelayTypes
    <2>2. len_one_read' \in 0 .. Len(Relay!bytes)
      BY <1>1, <1>2 DEF Relay!TypeOK
    <2>3. cut' \in BOOLEAN
      BY <1>1
    <2>4. QED
      BY <1>1, <1>3, <2>1, <2>2, <2>3, RelaySteady
  <1>5. Relay!Ends' = Relay!Ends
    BY <1>1, RelaySame
  <1>6. taken \in Relay!Ends \/ paused
    <2>1. len_one_read = 0 \/ Len(rx_buf) >= RELAY_BUFFER_SIZE - Slack
      BY <1>1, <1>2, RelayTypes
    <2>2. QED
      BY <1>2, <2>1 DEF Relay!PauseInv
  <1>7. Relay!PauseInv'
    BY <1>1, <1>5, <1>6 DEF Relay!PauseInv
  <1>8. Relay!CutNeedsAPause'
    BY <1>1, <1>2, <1>6 DEF Relay!CutNeedsAPause
  <1>9. Relay!ScanInv'
    <2>1. Relay!Scanned' = Relay!Scanned
      <3> DEFINE n == Len(rx_buf)
      <3>1. taken \in Nat /\ n \in Nat
        BY <1>2, RelayTypes
      <3>2. Relay!Scanned = taken - n
        BY <1>1, <1>2, RelayScannedInt
      <3>3. Relay!Scanned' = taken - n \/ Relay!Scanned' = taken - n + 0
        BY <1>1, <1>3, <1>4, RelayScannedNext
      <3> HIDE DEF n
      <3>4. QED
        BY <3>1, <3>2, <3>3
    <2>2. ~ cut' => ~ cut /\ taken \in Relay!Ends
      BY <1>1
    <2>3. QED
      BY <1>1, <1>2, <2>1, <2>2, RelayScanStays
  <1>10. QED
    BY <1>4, <1>7, <1>8, <1>9 DEF Relay!IInv


LEMMA RelayMin ==
  ASSUME NEW a \in Int, NEW b \in Int
  PROVE  Relay!Min({a, b}) = IF a <= b THEN a ELSE b
  <1> DEFINE m == IF a <= b THEN a ELSE b
  <1>1. m \in {a, b} /\ \A y \in {a, b} : m <= y
    OBVIOUS
  <1>2. \A x \in {a, b} : (\A y \in {a, b} : x <= y) => x = m
    OBVIOUS
  <1> HIDE DEF m
  <1>3. (CHOOSE x \in {a, b} : \A y \in {a, b} : x <= y) = m
    BY <1>1, <1>2
  <1>4. QED
    BY <1>3 DEF Relay!Min, m

LEMMA RelayRead == ASSUME Relay!IInv, Relay!Read PROVE Relay!IInv'
  <1> DEFINE L == Len(rx_buf)
             b == Relay!bytes
             B == RELAY_BUFFER_SIZE
  <1>1. PICK n : /\ n = Relay!Min({arrived - taken, B - L})
                 /\ rx_buf' = rx_buf \o SubSeq(b, taken + 1, taken + n)
                 /\ taken' = taken + n
                 /\ len_one_read' = n
                 /\ paused' = (paused \/ (n = 0 /\ taken \notin Relay!Ends)
                                      \/ Len(rx_buf') >= B - Slack)
    BY DEF Relay!Read
  <1>2. /\ uart = "read" /\ len_one_read > 0 /\ L < B - Slack
        /\ UNCHANGED <<sent, arrived, uart, d, rl, cut>>
    BY DEF Relay!Read
  <1>3. /\ Relay!TypeOK /\ Relay!BlockInv /\ Relay!PauseInv /\ Relay!CutNeedsAPause
        /\ Relay!ScanInv
    BY DEF Relay!IInv
  <1>4. /\ b \in Seq(Relay!Byte) /\ Len(b) \in Nat /\ rx_buf \in Seq(Relay!Byte)
        /\ taken \in Nat /\ arrived \in Nat /\ taken <= arrived /\ arrived <= Len(b)
        /\ L \in Nat /\ B \in Nat /\ Slack \in Nat /\ Slack > 0 /\ L <= B
        /\ paused \in BOOLEAN
    BY <1>3, RelayTypes
  <1>5. L <= taken /\ rx_buf = SubSeq(b, taken - L + 1, taken)
    BY <1>3 DEF Relay!BlockInv
  <1>6. b' = b /\ Relay!Ends' = Relay!Ends
    BY <1>2, RelaySame
  <1> DEFINE M == Len(b)
             lo == taken - L + 1
             hi == taken + n
  <1> HIDE DEF L, B, M
  <1>8. /\ n \in Nat /\ n <= arrived - taken /\ n <= B - L
        /\ n = 0 => taken = arrived
    <2>1. arrived - taken \in Int /\ B - L \in Int
      BY <1>4
    <2>2. n = IF arrived - taken <= B - L THEN arrived - taken ELSE B - L
      BY <1>1, <2>1, RelayMin
    <2>3. QED
      BY <1>2, <1>4, <2>2
  <1>9. lo \in 1 .. M + 1 /\ taken \in lo - 1 .. M /\ hi \in taken .. M
    BY <1>4, <1>5, <1>8 DEF M
  <1>10. rx_buf' = SubSeq(b, taken - L + 1, taken + n)
    <2> HIDE DEF b
    <2>1. SubSeq(b, lo, taken) \o SubSeq(b, taken + 1, hi) = SubSeq(b, lo, hi)
      <3> HIDE DEF lo, hi
      <3>1. lo \in 1 .. Len(b) + 1 /\ taken \in lo - 1 .. Len(b) /\ hi \in taken .. Len(b)
        BY <1>9 DEF M
      <3>2. QED
        BY <1>4, <3>1, ConcatAdjacentSubSeq
    <2>2. QED
      BY <1>1, <1>5, <2>1
  <1>11. rx_buf' \in Seq(Relay!Byte) /\ Len(rx_buf') = L + n
    <2> HIDE DEF b
    <2>1. taken - L + 1 \in Int /\ taken + n \in Int
      BY <1>4, <1>8
    <2>2. \A i \in taken - L + 1 .. taken + n : b[i] \in Relay!Byte
      <3>1. SUFFICES ASSUME NEW i \in taken - L + 1 .. taken + n PROVE b[i] \in Relay!Byte
        OBVIOUS
      <3>2. i \in 1 .. M
        BY <1>4, <1>9 DEF M
      <3>3. QED
        BY <1>4, <3>2, ElementOfSeq DEF M
    <2>3. /\ SubSeq(b, lo, hi) \in Seq(Relay!Byte)
          /\ Len(SubSeq(b, lo, hi)) = IF lo <= hi THEN hi - lo + 1 ELSE 0
      <3> HIDE DEF lo, hi
      <3>1. lo \in Int /\ hi \in Int /\ \A i \in lo .. hi : b[i] \in Relay!Byte
        BY <2>1, <2>2 DEF lo, hi
      <3>2. QED
        BY <3>1, SubSeqProperties
    <2>4. (IF lo <= hi THEN hi - lo + 1 ELSE 0) = L + n
      BY <1>4, <1>8
    <2>5. QED
      BY <1>10, <2>3, <2>4
  <1>12. Relay!TypeOK'
    <2>1. taken' \in 0 .. arrived' /\ arrived' \in 0 .. M /\ len_one_read' \in 0 .. M
      BY <1>1, <1>2, <1>4, <1>8 DEF M
    <2>2. Len(rx_buf') <= B
      BY <1>4, <1>8, <1>11
    <2>3. M' = M
      BY <1>6 DEF M
    <2>4. /\ sent' \in RelayStreams /\ uart' \in {"closed", "poll", "read", "scan", "exit"}
          /\ d' \in 0 .. (RELAY_BUFFER_SIZE + 68 + 5) /\ rl' \in [Relay!Relays -> Relay!Byte]
          /\ cut' \in BOOLEAN
      BY <1>2, <1>3 DEF Relay!TypeOK
    <2>5. paused' \in BOOLEAN
      BY <1>1
    <2>6. QED
      BY <1>11, <2>1, <2>2, <2>3, <2>4, <2>5 DEF Relay!TypeOK, M, B
  <1>13. Relay!BlockInv'
    <2>1. taken + n - (L + n) + 1 = taken - L + 1 /\ L + n <= taken + n
      BY <1>4, <1>5, <1>8
    <2>2. rx_buf' = SubSeq(b', taken' - Len(rx_buf') + 1, taken') /\ Len(rx_buf') <= taken'
      <3>1. taken' - Len(rx_buf') + 1 = taken - L + 1 /\ Len(rx_buf') <= taken'
        <4>1. taken' = taken + n
          BY <1>1
        <4>2. Len(rx_buf') = L + n
          BY <1>11
        <4>3. taken' - Len(rx_buf') + 1 = taken + n - (L + n) + 1
          <5>1. taken \in Nat /\ L \in Nat /\ n \in Nat
            BY <1>4, <1>8
          <5>2. QED
            BY <4>1, <4>2, <5>1
        <4>4. L + n <= taken + n /\ Len(rx_buf') <= taken'
          BY <2>1, <4>1, <4>2
        <4>5. QED
          BY <2>1, <4>3, <4>4
      <3> HIDE DEF b
      <3>2. SubSeq(b', taken - L + 1, taken') = SubSeq(b, taken - L + 1, taken + n)
        BY <1>1, <1>6
      <3>3. QED
        BY <1>10, <3>1, <3>2
    <2>3. uart' \notin {"closed", "poll", "exit"}
      BY <1>2
    <2>4. QED
      BY <2>2, <2>3 DEF Relay!BlockInv
  <1>14. Relay!PauseInv'
    <2>1. SUFFICES ASSUME n = 0 \/ Len(rx_buf') >= B - Slack
                   PROVE  (taken' \in Relay!Ends) \/ paused'
      BY <1>1, <1>2, <1>6 DEF Relay!PauseInv, B
    <2>2. CASE Len(rx_buf') >= B - Slack
      BY <1>1, <2>2
    <2>3. CASE n = 0
      <3>1. taken' = taken
        BY <1>1, <1>4, <2>3
      <3>2. QED
        BY <1>1, <2>3, <3>1
    <2>4. QED
      BY <2>1, <2>2, <2>3
  <1>15. Relay!CutNeedsAPause'
    BY <1>1, <1>2, <1>3 DEF Relay!CutNeedsAPause
  <1>16. Relay!ScanInv'
    <2>1. Relay!Scanned = taken - L
      BY <1>2, <1>3, RelayScannedInt DEF L
    <2>2. Relay!Scanned' = taken + n - (L + n)
      <3>1. Relay!Scanned' = taken' - Len(rx_buf')
        BY <1>2, <1>12, RelayScannedNext
      <3>2. taken' = taken + n
        BY <1>1
      <3>3. Len(rx_buf') = L + n
        BY <1>11
      <3>4. taken \in Nat /\ L \in Nat /\ n \in Nat
        BY <1>4, <1>8
      <3>5. QED
        BY <3>1, <3>2, <3>3, <3>4
    <2>3. Relay!Scanned' = Relay!Scanned /\ Relay!Scanned' <= taken'
      <3>1. taken + n - (L + n) = taken - L /\ taken - L <= taken + n
        BY <1>4, <1>8
      <3>2. QED
        BY <1>1, <2>1, <2>2, <3>1
    <2>4. QED
      BY <1>2, <1>3, <2>3, RelayScanStays
  <1>17. QED
    BY <1>12, <1>13, <1>14, <1>15, <1>16 DEF Relay!IInv


LEMMA RelayClear == ASSUME Relay!IInv, Relay!Clear PROVE Relay!IInv'
  <1> DEFINE L == Len(rx_buf)
             b == Relay!bytes
  <1>1. /\ uart = "scan" /\ L - d < 7 /\ rx_buf' = <<>> /\ uart' = "poll"
        /\ UNCHANGED <<sent, arrived, taken, len_one_read, d, rl, cut, paused>>
    BY DEF Relay!Clear
  <1>2. /\ Relay!TypeOK /\ Relay!BlockInv /\ Relay!PauseInv /\ Relay!CutNeedsAPause
        /\ Relay!ScanInv
    BY DEF Relay!IInv
  <1>3. taken \in Nat /\ L \in Nat /\ d \in Nat
    BY <1>2, RelayTypes
  <1>4. /\ b' = b /\ Relay!Ends' = Relay!Ends /\ Relay!Framed' = Relay!Framed
        /\ Relay!NoiseHasNoHeader' <=> Relay!NoiseHasNoHeader
    BY <1>1, RelaySame
  <1>5. rx_buf' \in Seq(Relay!Byte) /\ Len(rx_buf') = 0
    BY <1>1
  <1>6. Relay!TypeOK'
    <2>1. Len(rx_buf') <= RELAY_BUFFER_SIZE
      BY <1>5, RelaySizes
    <2>2. uart' \in {"closed", "poll", "read", "scan", "exit"}
      BY <1>1
    <2>3. QED
      BY <1>1, <1>2, <1>4, <1>5, <2>1, <2>2 DEF Relay!TypeOK
  <1>7. Relay!BlockInv'
    <2>1. SubSeq(b, taken - 0 + 1, taken) = <<>>
      <3>1. taken - 0 + 1 \in Int /\ taken \in Int /\ taken < taken - 0 + 1
        BY <1>3
      <3>2. QED
        BY <3>1, SubSeqEmpty
    <2>2. rx_buf' = SubSeq(b', taken' - Len(rx_buf') + 1, taken')
      BY <1>1, <1>4, <1>5, <2>1
    <2>3. Len(rx_buf') <= taken'
      BY <1>1, <1>3, <1>5
    <2>4. QED
      BY <1>1, <2>2, <2>3 DEF Relay!BlockInv
  <1>8. Relay!PauseInv'
    BY <1>1, <1>2, <1>4 DEF Relay!PauseInv
  <1>9. Relay!CutNeedsAPause'
    BY <1>1, <1>2 DEF Relay!CutNeedsAPause
  <1>10. Relay!ScanInv'
    <2> HIDE DEF L, b
    <2>1. SUFFICES ASSUME ~ cut, Relay!NoiseHasNoHeader PROVE Relay!ScanInv'
      BY <1>1, <1>4 DEF Relay!ScanInv
    <2>2. taken \in Relay!Ends /\ Relay!Scanned <= taken
      BY <1>1, <1>2, <2>1 DEF Relay!ScanInv
    <2>3. PICK k \in 0 .. Len(sent) : Relay!ShowsLast(k) /\ RelayIsAt(k)
      BY <1>2, <2>1 DEF Relay!ScanInv, RelayIsAt
    <2>4. PICK m \in 0 .. Len(sent) : taken = Relay!End(m)
      BY <2>2 DEF Relay!Ends
    <2>5. Relay!Scanned = taken - L + d /\ Relay!Scanned \in Int
      BY <1>1, <1>2, RelayScannedInt DEF L
    <2>6. Relay!End(m) - Relay!Scanned < 7
      BY <1>1, <1>3, <2>4, <2>5
    <2>7. Relay!ShowsLast(m)
      <3>1. sent \in RelayStreams
        BY <1>2 DEF Relay!TypeOK
      <3>2. QED
        BY <2>2, <2>3, <2>4, <2>5, <2>6, <3>1, RelayAllSeen
    <2>8. Relay!ShowsLast(m)'
      BY <1>1, <1>4, <2>7 DEF Relay!ShowsLast, Relay!Shown
    <2>9. Relay!Scanned' = taken /\ taken' = taken
      <3>1. Relay!Scanned' = taken' - Len(rx_buf')
        BY <1>1, <1>6, RelayScannedNext
      <3>2. QED
        BY <1>1, <1>3, <1>5, <3>1
    <2>10. Relay!End(m)' = Relay!End(m) /\ Len(sent') = Len(sent)
      BY <1>1, RelaySameEnd
    <2>11. (taken \in Relay!Ends)' /\ Relay!Scanned' <= taken'
      BY <1>3, <1>4, <2>2, <2>9
    <2>12. (Relay!Scanned = Relay!End(m))'
      BY <2>4, <2>9, <2>10
    <2>13. m \in 0 .. Len(sent')
      BY <2>10
    <2>14. QED
      BY <2>8, <2>11, <2>12, <2>13 DEF Relay!ScanInv
  <1>11. QED
    BY <1>6, <1>7, <1>8, <1>9, <1>10 DEF Relay!IInv

LEMMA RelayOnMessage == ASSUME Relay!IInv, Relay!OnMessage PROVE Relay!IInv'
  <1> DEFINE L == Len(rx_buf)
             b == Relay!bytes
             new == [r \in Relay!Relays |-> IF Relay!Field(5 + r) = 0 THEN 1 ELSE 0]
  <1>1. /\ uart = "scan" /\ L - d >= 7
        /\ UNCHANGED <<sent, arrived, taken, uart, len_one_read, rx_buf, cut, paused>>
    BY DEF Relay!OnMessage
  <1>2. /\ d' = IF Relay!IsFrame THEN d + Relay!length + 5 ELSE d + 1
        /\ rl' = IF Relay!IsFrame THEN new ELSE rl
    BY DEF Relay!OnMessage, Relay!Round
  <1>3. /\ Relay!TypeOK /\ Relay!BlockInv /\ Relay!PauseInv /\ Relay!CutNeedsAPause
        /\ Relay!ScanInv
    BY DEF Relay!IInv
  <1>4. /\ taken \in Nat /\ L \in Nat /\ d \in Nat /\ L <= RELAY_BUFFER_SIZE
        /\ RELAY_BUFFER_SIZE \in Nat
    BY <1>3, RelayTypes
  <1>5. /\ b' = b /\ Relay!Ends' = Relay!Ends /\ Relay!Framed' = Relay!Framed
        /\ Relay!NoiseHasNoHeader' <=> Relay!NoiseHasNoHeader
    BY <1>1, RelaySame
  <1>6. Relay!length \in Nat
    <2>1. Relay!Field(2) \in Relay!Byte /\ Relay!Field(3) \in Relay!Byte
      BY <1>3, RelayFieldIsByte
    <2>2. \A x, y \in Relay!Byte : x + 256 * y \in Nat
      BY DEF Relay!Byte
    <2>3. QED
      BY <2>1, <2>2 DEF Relay!length
  <1>7. Relay!TypeOK'
    <2> HIDE DEF L, new
    <2>1. d' \in 0 .. (RELAY_BUFFER_SIZE + 68 + 5)
      <3>1. CASE Relay!IsFrame
        <4>1. Relay!length <= 68
          BY <3>1 DEF Relay!IsFrame
        <4>2. QED
          BY <1>1, <1>2, <1>4, <1>6, <3>1, <4>1
      <3>2. CASE ~ Relay!IsFrame
        BY <1>1, <1>2, <1>4, <3>2
      <3>3. QED
        BY <3>1, <3>2
    <2>2. rl' \in [Relay!Relays -> Relay!Byte]
      <3>1. 0 \in Relay!Byte /\ 1 \in Relay!Byte
        BY DEF Relay!Byte
      <3>2. new \in [Relay!Relays -> Relay!Byte]
        BY <3>1 DEF new
      <3>3. QED
        BY <1>2, <1>3, <3>2 DEF Relay!TypeOK
    <2>3. QED
      BY <1>1, <1>3, <1>5, <2>1, <2>2 DEF Relay!TypeOK
  <1>8. Relay!BlockInv'
    BY <1>1, <1>3, <1>5 DEF Relay!BlockInv
  <1>9. Relay!PauseInv'
    BY <1>1, <1>3, <1>5 DEF Relay!PauseInv
  <1>10. Relay!CutNeedsAPause'
    BY <1>1, <1>3 DEF Relay!CutNeedsAPause
  <1>11. Relay!ScanInv'
    <2> DEFINE p == Relay!Scanned
    <2> HIDE DEF L, b, new
    <2>1. SUFFICES ASSUME ~ cut, Relay!NoiseHasNoHeader PROVE Relay!ScanInv'
      BY <1>1, <1>5 DEF Relay!ScanInv
    <2>2. taken \in Relay!Ends /\ p <= taken
      BY <1>1, <1>3, <2>1 DEF Relay!ScanInv
    <2>3. PICK k0 \in 0 .. Len(sent) : Relay!ShowsLast(k0) /\ RelayIsAt(k0)
      BY <1>3, <2>1 DEF Relay!ScanInv, RelayIsAt
    <2>4. p = taken - L + d /\ p \in Int /\ p + 7 <= taken
      <3>1. p = taken - L + d /\ p \in Int
        BY <1>1, <1>3, RelayScannedInt DEF L
      <3> HIDE DEF p
      <3>2. QED
        BY <1>1, <1>4, <3>1
    <2>5. sent \in RelayStreams /\ Len(sent) \in Nat
      BY <1>3, RelayItems DEF Relay!TypeOK
    <2>6. p < Relay!End(Len(sent))
      <3>1. taken <= Len(Relay!bytes) /\ Len(Relay!bytes) \in Nat
        BY <1>3, RelayTypes
      <3>2. Relay!End(Len(sent)) = Len(Relay!bytes)
        BY <2>5, RelayEnds
      <3> HIDE DEF p
      <3>3. QED
        BY <1>4, <2>4, <3>1, <3>2
    <2>7. PICK k \in 0 .. Len(sent) - 1 :
            /\ Relay!ShowsLast(k)
            /\ p >= Relay!End(k) /\ p < Relay!End(k + 1)
            /\ k + 1 \in Relay!Framed => p = Relay!End(k)
      BY <2>3, <2>5, <2>6, RelayNextSeen
    <2>8. Relay!Scanned' = taken - L + d'
      <3>1. Relay!Scanned' = taken' - Len(rx_buf') + d'
        BY <1>1, <1>7, RelayScannedNext
      <3>2. QED
        BY <1>1, <3>1 DEF L
    <2>9. /\ Relay!End(k)' = Relay!End(k) /\ Relay!End(k + 1)' = Relay!End(k + 1)
          /\ Len(sent') = Len(sent)
      BY <1>1, RelaySameEnd
    <2>10. /\ k \in Nat /\ k + 1 \in Nat /\ k \in 0 .. Len(sent) /\ k + 1 \in 0 .. Len(sent)
           /\ k < Len(sent) /\ k + 1 \in 1 .. k + 1
      BY <2>5, <2>7
    <2>11. Relay!End(k) \in Nat /\ Relay!End(k + 1) \in Nat
      BY <2>5, <2>10, RelayEnds
    <2>12. (taken \in Relay!Ends)' /\ taken' = taken
      BY <1>1, <1>5, <2>2
    <2>13. CASE k + 1 \in Relay!Framed
      <3>1. p = Relay!End(k)
        BY <2>7, <2>13
      <3>2. /\ Relay!IsFrame /\ p + Relay!length + 5 = Relay!End(k + 1)
            /\ Relay!End(k + 1) <= taken /\ new = Relay!Shown(sent[k + 1].data)
        BY <1>1, <1>3, <2>2, <2>7, <2>13, <3>1, RelayFrameIsSeen DEF L, new
      <3>3. d' = d + Relay!length + 5 /\ rl' = Relay!Shown(sent[k + 1].data)
        BY <1>2, <3>2
      <3>4. Relay!Scanned' = Relay!End(k + 1)
        <4> HIDE DEF p
        <4>1. QED
          BY <1>4, <1>6, <2>4, <2>8, <3>2, <3>3
      <3>5. Relay!ShowsLast(k + 1)'
        <4>1. \A i \in (k + 1) + 1 .. k + 1 : FALSE
          BY <2>10
        <4>2. Relay!Framed \cap ((k + 1) + 1 .. k + 1) = {}
          BY <4>1
        <4>3. k + 1 \in Relay!Framed \cap (1 .. k + 1)
          BY <2>10, <2>13
        <4>4. rl' = Relay!Shown(sent[k + 1].data)'
          BY <1>1, <3>3 DEF Relay!Shown
        <4>5. QED
          BY <1>5, <4>2, <4>3, <4>4 DEF Relay!ShowsLast
      <3>6. (Relay!Scanned = Relay!End(k + 1))' /\ Relay!Scanned' <= taken'
        BY <2>9, <2>12, <3>2, <3>4
      <3>7. k + 1 \in 0 .. Len(sent')
        BY <2>9, <2>10
      <3>8. QED
        BY <2>12, <3>5, <3>6, <3>7 DEF Relay!ScanInv
    <2>14. CASE k + 1 \notin Relay!Framed
      <3>1. ~ Relay!IsFrame
        BY <1>1, <1>3, <2>1, <2>7, <2>14, RelayNoiseIsSkipped DEF L
      <3>2. d' = d + 1 /\ rl' = rl
        BY <1>2, <3>1
      <3>3. Relay!Scanned' = p + 1
        <4> HIDE DEF p
        <4>1. QED
          BY <1>4, <2>4, <2>8, <3>2
      <3>4. Relay!Scanned' \in Relay!End(k) .. Relay!End(k + 1) /\ Relay!Scanned' <= taken
        <4> HIDE DEF p
        <4>1. QED
          BY <1>4, <2>4, <2>7, <2>11, <3>3
      <3>5. Relay!ShowsLast(k)'
        BY <1>1, <1>5, <2>7, <3>2 DEF Relay!ShowsLast, Relay!Shown
      <3>6. /\ uart' = "scan" /\ k < Len(sent') /\ k + 1 \notin Relay!Framed'
            /\ (Relay!Scanned \in Relay!End(k) .. Relay!End(k + 1))'
        BY <1>1, <1>5, <2>9, <2>10, <2>14, <3>4
      <3>7. k \in 0 .. Len(sent') /\ Relay!Scanned' <= taken'
        BY <2>9, <2>10, <2>12, <3>4
      <3>8. QED
        BY <2>12, <3>5, <3>6, <3>7 DEF Relay!ScanInv
    <2>15. QED
      BY <2>13, <2>14
  <1>12. QED
    BY <1>7, <1>8, <1>9, <1>10, <1>11 DEF Relay!IInv

LEMMA RelayStutter ==
  ASSUME Relay!IInv, UNCHANGED <<sent, arrived, taken, uart, len_one_read, rx_buf, d, rl, cut, paused>>
  PROVE  Relay!IInv'
  <1>1. /\ Relay!TypeOK /\ Relay!BlockInv /\ Relay!PauseInv /\ Relay!CutNeedsAPause
        /\ Relay!ScanInv
    BY DEF Relay!IInv
  <1>2. Relay!bytes' = Relay!bytes /\ Relay!Ends' = Relay!Ends
    BY RelaySame
  <1>3. Relay!TypeOK' /\ Relay!BlockInv'
    BY <1>1, <1>2 DEF Relay!TypeOK, Relay!BlockInv
  <1>4. Relay!PauseInv' /\ Relay!CutNeedsAPause'
    BY <1>1, <1>2 DEF Relay!PauseInv, Relay!CutNeedsAPause
  <1>5. Relay!ScanInv'
    <2>1. Relay!Scanned' = Relay!Scanned
      BY DEF Relay!Scanned
    <2>2. ~ cut' /\ Relay!NoiseHasNoHeader /\ uart' \in {"closed", "poll", "scan"}
            => taken' \in Relay!Ends
      BY <1>1 DEF Relay!ScanInv
    <2>3. QED
      BY <1>1, <2>1, <2>2, RelayScanStays
  <1>6. QED
    BY <1>3, <1>4, <1>5 DEF Relay!IInv

\* The relays shown are those of the last frame, in the end of the last of all.
LEMMA RelayHolds ==
  ASSUME Relay!IInv
  PROVE  /\ Relay!TypeOK
         /\ Relay!RelaysWereSent /\ Relay!LastFrameWins /\ Relay!CutNeedsAPause
  <1>1. /\ Relay!TypeOK /\ Relay!BlockInv /\ Relay!CutNeedsAPause /\ Relay!ScanInv
    BY DEF Relay!IInv
  <1>2. sent \in RelayStreams /\ Len(sent) \in Nat
    BY <1>1, RelayItems DEF Relay!TypeOK
  <1>3. Relay!RelaysWereSent
    <2>1. SUFFICES ASSUME ~ cut, Relay!NoiseHasNoHeader
                   PROVE  \/ rl = [r \in Relay!Relays |-> 0]
                          \/ \E i \in Relay!Framed : rl = Relay!Shown(sent[i].data)
      BY DEF Relay!RelaysWereSent
    <2>2. PICK k \in 0 .. Len(sent) : Relay!ShowsLast(k)
      BY <1>1, <2>1 DEF Relay!ScanInv
    <2>3. QED
      BY <2>2 DEF Relay!ShowsLast
  <1>4. Relay!LastFrameWins
    <2> DEFINE N == Len(sent)
    <2>1. SUFFICES ASSUME uart = "poll", taken = Len(Relay!bytes), ~ cut,
                          Relay!NoiseHasNoHeader, Relay!Framed # {},
                          NEW r \in Relay!Relays
                   PROVE  Relay!GetStatusRelay(r - 1)
                            = Relay!Shown(sent[Relay!Max(Relay!Framed)].data)[r]
      BY DEF Relay!LastFrameWins
    <2>2. PICK k \in 0 .. N : Relay!ShowsLast(k) /\ Relay!Scanned = Relay!End(k)
      BY <1>1, <2>1 DEF Relay!ScanInv
    <2>3. Relay!Scanned = taken /\ taken \in Nat
      <3>1. rx_buf = <<>>
        BY <1>1, <2>1 DEF Relay!BlockInv
      <3>2. Len(rx_buf) = 0
        BY <3>1
      <3>3. Relay!Scanned = taken - Len(rx_buf) /\ taken \in Nat
        BY <1>1, <2>1, RelayScannedInt, RelayTypes
      <3>4. QED
        BY <3>2, <3>3
    <2>4. k = N
      <3>1. Relay!End(k) = Relay!End(N)
        BY <1>2, <2>1, <2>2, <2>3, RelayEnds
      <3>2. Relay!End(k) + (N - k) <= Relay!End(N)
        BY <1>2, RelayEnds
      <3>3. Relay!End(N) \in Nat
        BY <1>2, <2>1, <2>3, RelayEnds
      <3> HIDE DEF N
      <3>4. N \in Nat
        BY <1>2 DEF N
      <3>5. QED
        BY <3>1, <3>2, <3>3, <3>4
    <2>5. Relay!Framed \subseteq 1 .. N
      BY DEF Relay!Framed
    <2>6. PICK j \in Relay!Framed : /\ Relay!Framed \cap (j + 1 .. N) = {}
                                    /\ rl = Relay!Shown(sent[j].data)
      BY <2>1, <2>2, <2>4, <2>5 DEF Relay!ShowsLast
    <2>7. Relay!Max(Relay!Framed) = j
      <3>1. \A y \in Relay!Framed : j >= y
        <4>1. SUFFICES ASSUME NEW y \in Relay!Framed, ~ (j >= y) PROVE FALSE
          OBVIOUS
        <4>2. y \in 1 .. N /\ j \in 1 .. N
          BY <2>5
        <4>3. y \in j + 1 .. N
          <5> HIDE DEF N
          <5>1. N \in Nat
            BY <1>2 DEF N
          <5>2. QED
            BY <4>1, <4>2, <5>1
        <4>4. QED
          BY <2>6, <4>3
      <3>2. \A x \in Relay!Framed : (\A y \in Relay!Framed : x >= y) => x = j
        <4>1. SUFFICES ASSUME NEW x \in Relay!Framed, \A y \in Relay!Framed : x >= y PROVE x = j
          OBVIOUS
        <4>2. x >= j /\ j >= x /\ x \in 1 .. N /\ j \in 1 .. N
          BY <2>5, <3>1, <4>1
        <4> HIDE DEF N
        <4>3. QED
          BY <4>2
      <3>3. (CHOOSE x \in Relay!Framed : \A y \in Relay!Framed : x >= y) = j
        BY <3>1, <3>2
      <3>4. QED
        BY <3>3 DEF Relay!Max
    <2>8. Relay!GetStatusRelay(r - 1) = rl[r]
      <3>1. r \in 1 .. 4
        BY DEF Relay!Relays
      <3>2. r - 1 \in 0 .. 3 /\ (r - 1) + 1 = r
        BY <3>1
      <3>3. QED
        BY <3>2 DEF Relay!GetStatusRelay
    <2>9. QED
      BY <2>6, <2>7, <2>8
  <1>5. QED
    BY <1>1, <1>3, <1>4

\* Whatever the board sends, and however it is cut into blocks: the blocks are
\* what was read, OnMessage is at an item's end or in noise, and the relays are
\* those of the last frame it passed (Uart.cpp:152-181, RelayProtocol.cpp:54-89).
THEOREM RelayInvariance == PartsSpec => [](part = "relay" => Relay!IInv)
  <1>1. PartsInit => (part = "relay" => Relay!IInv)
    BY RelayInitial DEF PartsInit
  <1>2. (part = "relay" => Relay!IInv) /\ [PartsNext]_partsVars
          => (part = "relay" => Relay!IInv)'
    <2>1. SUFFICES ASSUME part = "relay" => Relay!IInv, [PartsNext]_partsVars, part' = "relay"
                   PROVE  Relay!IInv'
      OBVIOUS
    <2>2. part = "relay" /\ Relay!IInv
      <3>1. part' = part
        BY <2>1 DEF PartsNext, partsVars
      <3>2. QED
        BY <2>1, <3>1
    <2>3. CASE UNCHANGED relayVars
      BY <2>2, <2>3, RelayStutter DEF relayVars
    <2>4. CASE Relay!Next
      BY <2>2, <2>4, RelayOpen, RelayArrive, RelayPoll, RelayRead, RelayDeliver, RelayClear,
        RelayOnMessage DEF Relay!Next
    <2>5. QED
      BY <2>1, <2>2, <2>3, <2>4 DEF PartsNext, partsVars
  <1>3. QED
    BY <1>1, <1>2, PTL DEF PartsSpec

\* The relays shown are those of a frame of the board, and in the end of the
\* last one, whatever noise without a header came around it, unless a block was
\* cut, which needs a pause or a burst (RelayProtocol.cpp:62-65, Uart.cpp:159-176).
THEOREM RelaysAreTheBoardsAlways == PartsSpec => []RelaysAreTheBoards
  <1>1. (part = "relay" => Relay!IInv) => RelaysAreTheBoards
    BY RelayHolds DEF RelaysAreTheBoards
  <1>2. QED
    BY <1>1, RelayInvariance, PTL

-----------------------------------------------------------------------------
(* The topics.                                                             *)

\* The levels of a topic one by one: the list that splitString builds.
TopicLists(t, n, K) ==
  K = [i \in 0 .. n |-> IF i = 0 THEN <<>>
                        ELSE IF t[i] = Topic!NoLevel THEN K[i - 1] ELSE Append(K[i - 1], t[i])]

LEMMA TopicListsExist ==
  ASSUME NEW t
  PROVE  \A n \in Nat : \E K : TopicLists(t, n, K)
  <1> DEFINE T == {n \in Nat : \E K : TopicLists(t, n, K)}
  <1>1. 0 \in T
    <2> DEFINE K == [i \in 0 .. 0 |-> <<>>]
    <2>1. \A i \in 0 .. 0 : i = 0
      OBVIOUS
    <2>2. TopicLists(t, 0, K)
      BY <2>1 DEF TopicLists
    <2> HIDE DEF K
    <2>3. QED
      BY <2>2
  <1>2. ASSUME NEW n \in T PROVE n + 1 \in T
    <2>1. n \in Nat /\ n + 1 \in Nat
      OBVIOUS
    <2>2. PICK K : TopicLists(t, n, K)
      OBVIOUS
    <2> HIDE DEF T
    <2> DEFINE G == [i \in 0 .. n + 1 |->
                       IF i = n + 1
                         THEN IF t[i] = Topic!NoLevel THEN K[i - 1] ELSE Append(K[i - 1], t[i])
                         ELSE K[i]]
    <2>3. \A i \in 0 .. n : i \in 0 .. n + 1 /\ i # n + 1 /\ (i # 0 => i - 1 \in 0 .. n)
      BY <2>1
    <2>4. \A i \in 0 .. n :
            K[i] = IF i = 0 THEN <<>>
                   ELSE IF t[i] = Topic!NoLevel THEN K[i - 1] ELSE Append(K[i - 1], t[i])
      BY <2>2 DEF TopicLists
    <2>5. \A i \in 0 .. n : G[i] = K[i]
      BY <2>3
    <2>6. n + 1 \in 0 .. n + 1 /\ n + 1 # 0 /\ (n + 1) - 1 = n /\ n \in 0 .. n
      BY <2>1
    <2>7. G[n + 1] = IF t[n + 1] = Topic!NoLevel THEN G[n] ELSE Append(G[n], t[n + 1])
      BY <2>5, <2>6
    <2>8. \A i \in 0 .. n + 1 : i = n + 1 \/ i \in 0 .. n
      BY <2>1
    <2>9. G = [i \in 0 .. n + 1 |-> G[i]]
      OBVIOUS
    <2> HIDE DEF G
    <2>10. \A i \in 0 .. n + 1 :
             G[i] = IF i = 0 THEN <<>>
                    ELSE IF t[i] = Topic!NoLevel THEN G[i - 1] ELSE Append(G[i - 1], t[i])
      <3>1. SUFFICES ASSUME NEW i \in 0 .. n + 1
              PROVE G[i] = IF i = 0 THEN <<>>
                           ELSE IF t[i] = Topic!NoLevel THEN G[i - 1] ELSE Append(G[i - 1], t[i])
        OBVIOUS
      <3>2. CASE i = n + 1
        BY <2>6, <2>7, <3>2
      <3>3. CASE i \in 0 .. n
        BY <2>3, <2>4, <2>5, <3>3
      <3>4. QED
        BY <2>8, <3>2, <3>3
    <2>11. TopicLists(t, n + 1, G)
      BY <2>9, <2>10 DEF TopicLists
    <2>12. QED
      BY <2>1, <2>11 DEF T
  <1> HIDE DEF T
  <1>3. T = Nat
    BY <1>1, <1>2, Induction DEF T
  <1>4. QED
    BY <1>3 DEF T

\* ... K[n] is the list after n levels
TopicListing(S, t, K) ==
  /\ K \in [0 .. Len(t) -> Seq(S)]
  /\ K[0] = <<>>
  /\ \A n \in 0 .. Len(t) - 1 :
       K[n + 1] = IF t[n + 1] = Topic!NoLevel THEN K[n] ELSE Append(K[n], t[n + 1])
  /\ Topic!splitString(t) = K[Len(t)]

LEMMA TopicSplitting ==
  ASSUME NEW S, NEW t \in Seq(S)
  PROVE  \E K : TopicListing(S, t, K)
  <1> DEFINE N == Len(t)
             K == CHOOSE k : TopicLists(t, N, k)
  <1>1. N \in Nat /\ \A i \in 1 .. N : t[i] \in S
    OBVIOUS
  <1>2. Topic!splitString(t) = K[N]
    BY DEF Topic!splitString, TopicLists
  <1>3. TopicLists(t, N, K)
    BY <1>1, TopicListsExist
  <1> HIDE DEF K, N
  <1>4. /\ K[0] = <<>>
        /\ \A n \in 0 .. N - 1 :
             K[n + 1] = IF t[n + 1] = Topic!NoLevel THEN K[n] ELSE Append(K[n], t[n + 1])
        /\ K = [i \in 0 .. N |-> K[i]]
    <2>1. /\ 0 \in 0 .. N
          /\ \A n \in 0 .. N - 1 : n + 1 \in 0 .. N /\ n + 1 # 0 /\ (n + 1) - 1 = n
      BY <1>1
    <2>2. \A i \in 0 .. N :
            K[i] = IF i = 0 THEN <<>>
                   ELSE IF t[i] = Topic!NoLevel THEN K[i - 1] ELSE Append(K[i - 1], t[i])
      BY <1>3 DEF TopicLists
    <2>3. K = [i \in 0 .. N |-> K[i]]
      BY <1>3 DEF TopicLists
    <2>4. QED
      BY <2>1, <2>2, <2>3
  <1> DEFINE T == {n \in Nat : n \in 0 .. N => K[n] \in Seq(S)}
  <1>5. 0 \in T
    <2>1. <<>> \in Seq(S)
      OBVIOUS
    <2>2. QED
      BY <1>4, <2>1
  <1>6. ASSUME NEW n \in T PROVE n + 1 \in T
    <2>1. /\ n \in Nat /\ n + 1 \in Nat
          /\ n + 1 \in 0 .. N => n \in 0 .. N - 1 /\ n \in 0 .. N /\ n + 1 \in 1 .. N
      BY <1>1
    <2>2. SUFFICES ASSUME n + 1 \in 0 .. N PROVE K[n + 1] \in Seq(S)
      BY <2>1
    <2>3. K[n] \in Seq(S) /\ t[n + 1] \in S
      BY <1>1, <2>1, <2>2
    <2>4. K[n + 1] = IF t[n + 1] = Topic!NoLevel THEN K[n] ELSE Append(K[n], t[n + 1])
      BY <1>4, <2>1, <2>2
    <2>5. Append(K[n], t[n + 1]) \in Seq(S)
      BY <2>3
    <2>6. QED
      BY <2>3, <2>4, <2>5
  <1> HIDE DEF T
  <1>7. T = Nat
    BY <1>5, <1>6, Induction DEF T
  <1>8. \A i \in 0 .. N : K[i] \in Seq(S)
    BY <1>1, <1>7 DEF T
  <1>9. K \in [0 .. N -> Seq(S)]
    BY <1>4, <1>8
  <1>10. TopicListing(S, t, K)
    BY <1>2, <1>4, <1>9 DEF TopicListing, N
  <1>11. QED
    BY <1>10

\* Without an empty level but a first one: all levels behind it.
LEMMA TopicOfFullLevels ==
  ASSUME NEW S, NEW t \in Seq(S), t # <<>>, Topic!Full(t)
  PROVE  LET o == IF t[1] = Topic!NoLevel THEN 1 ELSE 0
             s == Topic!splitString(t)
         IN  /\ s \in Seq(S) /\ Len(s) = Len(t) - o
             /\ \A j \in 1 .. Len(t) - o : s[j] = t[j + o]
  <1> DEFINE o == IF t[1] = Topic!NoLevel THEN 1 ELSE 0
             s == Topic!splitString(t)
             N == Len(t)
  <1>1. N \in Nat /\ N # 0 /\ o \in {0, 1}
    OBVIOUS
  <1>2. PICK K : TopicListing(S, t, K)
    BY TopicSplitting
  <1>3. /\ K \in [0 .. N -> Seq(S)] /\ K[0] = <<>> /\ s = K[N]
        /\ \A n \in 0 .. N - 1 :
             K[n + 1] = IF t[n + 1] = Topic!NoLevel THEN K[n] ELSE Append(K[n], t[n + 1])
    BY <1>2 DEF TopicListing
  <1>4. \A i \in 1 .. N : t[i] \in S /\ (t[i] = Topic!NoLevel => i = 1)
    <2>1. \A i \in 1 .. N : t[i] \in S
      OBVIOUS
    <2>2. \A i \in 1 .. N : i = 1 \/ i \in 2 .. N
      BY <1>1
    <2>3. \A i \in 2 .. N : t[i] # Topic!NoLevel
      BY DEF Topic!Full
    <2>4. QED
      BY <2>1, <2>2, <2>3
  <1>5. (t[1] = Topic!NoLevel => o = 1) /\ (t[1] # Topic!NoLevel => o = 0)
    OBVIOUS
  <1> HIDE DEF N, o, s
  <1> DEFINE Good(m) == Len(K[m]) = m - o /\ \A j \in 1 .. m - o : K[m][j] = t[j + o]
             T == {n \in Nat : n \in 0 .. N - 1 => Good(n + 1)}
  <1>6. 0 \in T
    <2>1. 0 \in 0 .. N - 1 /\ 1 \in 1 .. N /\ 0 + 1 = 1
      BY <1>1
    <2>2. K[1] = IF t[1] = Topic!NoLevel THEN <<>> ELSE Append(<<>>, t[1])
      BY <1>3, <2>1
    <2>3. CASE o = 1
      <3>1. t[1] = Topic!NoLevel
        BY <1>5, <2>3
      <3>2. K[1] = <<>>
        BY <2>2, <3>1
      <3>3. Len(K[1]) = 1 - o /\ \A j \in 1 .. 1 - o : FALSE
        BY <2>3, <3>2
      <3>4. Good(1)
        BY <3>3
      <3> HIDE DEF Good
      <3>5. QED
        BY <2>1, <3>4
    <2>4. CASE o = 0
      <3>1. t[1] # Topic!NoLevel
        BY <1>5, <2>4
      <3>2. Append(<<>>, t[1]) = <<t[1]>>
        BY <1>4, <2>1
      <3>3. K[1] = <<t[1]>>
        BY <2>2, <3>1, <3>2
      <3>4. Len(K[1]) = 1 /\ K[1][1] = t[1]
        BY <3>3
      <3>5. 1 - o = 1 /\ \A j \in 1 .. 1 - o : j = 1 /\ j + o = 1
        BY <2>4
      <3>6. Good(1)
        BY <3>4, <3>5
      <3> HIDE DEF Good
      <3>7. QED
        BY <2>1, <3>6
    <2>5. QED
      BY <1>1, <2>3, <2>4
  <1>7. ASSUME NEW n \in T PROVE n + 1 \in T
    <2>1. n \in Nat /\ n + 1 \in Nat /\ (n + 1) + 1 = n + 2
      OBVIOUS
    <2>2. SUFFICES ASSUME n + 1 \in 0 .. N - 1 PROVE Good(n + 2)
      <3> HIDE DEF Good
      <3>1. QED
        BY <2>1
    <2>3. n \in 0 .. N - 1 /\ n + 2 \in 1 .. N /\ n + 2 # 1 /\ n + 1 \in 0 .. N
      BY <1>1, <2>1, <2>2
    <2>4. Good(n + 1)
      BY <2>3
    <2> DEFINE k == K[n + 1]
    <2>5. K[n + 2] = Append(k, t[n + 2]) /\ k \in Seq(S)
      <3>1. t[n + 2] # Topic!NoLevel
        BY <1>4, <2>3
      <3>2. K[(n + 1) + 1] = IF t[(n + 1) + 1] = Topic!NoLevel THEN K[n + 1] ELSE Append(K[n + 1], t[(n + 1) + 1])
        BY <1>3, <2>2
      <3>3. QED
        BY <1>3, <2>1, <2>3, <3>1, <3>2
    <2>6. Len(k) = n + 1 - o /\ \A j \in 1 .. n + 1 - o : k[j] = t[j + o]
      <3> HIDE DEF T
      <3>1. QED
        BY <1>1, <2>1, <2>4
    <2> HIDE DEF k
    <2>7. Len(K[n + 2]) = n + 2 - o
      BY <1>1, <2>1, <2>5, <2>6
    <2>8. ASSUME NEW j \in 1 .. n + 2 - o PROVE K[n + 2][j] = t[j + o]
      <3>1. CASE j \in 1 .. n + 1 - o
        <4>1. Append(k, t[n + 2])[j] = k[j]
          BY <1>1, <2>1, <2>5, <2>6, <3>1
        <4>2. QED
          BY <2>5, <2>6, <3>1, <4>1
      <3>2. CASE j = n + 2 - o
        <4>1. j = Len(k) + 1 /\ j + o = n + 2
          BY <1>1, <2>1, <2>6, <3>2
        <4>2. Append(k, t[n + 2])[Len(k) + 1] = t[n + 2]
          BY <2>5
        <4>3. QED
          BY <2>5, <4>1, <4>2
      <3>3. QED
        BY <1>1, <2>1, <3>1, <3>2
    <2>9. QED
      <3> HIDE DEF T
      <3>1. QED
        BY <1>1, <2>1, <2>7, <2>8
  <1> HIDE DEF T, Good
  <1>8. T = Nat
    BY <1>6, <1>7, Induction DEF T
  <1>9. N - 1 \in Nat /\ N - 1 \in 0 .. N - 1 /\ (N - 1) + 1 = N /\ N \in 0 .. N
    BY <1>1
  <1>10. Good(N)
    <2>1. Good((N - 1) + 1)
      BY <1>8, <1>9 DEF T
    <2>2. QED
      BY <1>9, <2>1
  <1>11. s \in Seq(S)
    BY <1>3, <1>9
  <1>12. Len(s) = N - o /\ \A j \in 1 .. N - o : s[j] = t[j + o]
    BY <1>3, <1>10 DEF Good
  <1>13. QED
    BY <1>11, <1>12 DEF s, o, N


LEMMA TopicFilters ==
  ASSUME NEW f \in Filters
  PROVE  /\ f \in Seq(STRING) /\ f # <<>> /\ Len(f) \in Nat \ {0}
         /\ f[1] # "+" /\ Topic!Full(f)
         /\ \A i \in 1 .. Len(f) : f[i] # "#" /\ (i # 1 => f[i] # Topic!NoLevel)
         /\ Len(f) = 7 /\ f[3] = "mobile" => f[1] = Topic!NoLevel
         /\ Len(f) >= 2 /\ f[2] = "bin" => Len(f) = 7 /\ f[1] # Topic!NoLevel
  <1>1. /\ f \in Seq(STRING) /\ f # <<>>
        /\ f[1] # "+"
        /\ \A i \in 1 .. Len(f) : f[i] # "#" /\ (i # 1 => f[i] # Topic!NoLevel)
        /\ Len(f) = 7 /\ f[3] = "mobile" => f[1] = Topic!NoLevel
        /\ Len(f) >= 2 /\ f[2] = "bin" => Len(f) = 7 /\ f[1] # Topic!NoLevel
    BY PartsAssumption DEF Topic!MqttTopicAssumption
  <1>2. Len(f) \in Nat \ {0}
    BY <1>1
  <1>3. Topic!Full(f)
    <2>1. \A i \in 2 .. Len(f) : i \in 1 .. Len(f) /\ i # 1
      BY <1>2
    <2>2. QED
      BY <1>1, <2>1 DEF Topic!Full
  <1>4. QED
    BY <1>1, <1>2, <1>3

\* A topic fits a filter without "#" level by level.
TopicFits(t, f) ==
  t \in Seq(STRING) /\ Len(t) = Len(f) /\ \A i \in 1 .. Len(f) : f[i] = "+" \/ f[i] = t[i]

LEMMA TopicMatchesFits ==
  ASSUME NEW f \in Filters, NEW t \in Seq(STRING)
  PROVE  Topic!Matches(t, f) <=> TopicFits(t, f)
  <1>1. f # <<>> /\ f[Len(f)] # "#"
    <2>1. Len(f) \in 1 .. Len(f)
      BY TopicFilters
    <2>2. QED
      BY <2>1, TopicFilters
  <1>2. ~ Topic!Open(f) /\ Topic!Fixed(f) = f
    BY <1>1 DEF Topic!Open, Topic!Fixed, Topic!Last
  <1>3. Topic!Matches(t, f) <=>
          /\ Len(t) = Len(f)
          /\ \A i \in 1 .. Len(f) : f[i] \in {"+", t[i]}
    BY <1>2 DEF Topic!Matches
  <1>4. QED
    BY <1>3 DEF TopicFits

\* What is left of a topic that fits: no more levels than of the filter, and the
\* same ones before the filter's first "+".
LEMMA TopicKeepsTheBeginning ==
  ASSUME NEW f \in Filters, NEW t, TopicFits(t, f)
  PROVE  LET p == Topic!splitString(t)
             q == Topic!splitString(f)
         IN  /\ p \in Seq(STRING) /\ q \in Seq(STRING \ {"#"})
             /\ Len(p) <= Len(q)
             /\ \A i \in 1 .. Len(q) :
                  (\A j \in 1 .. i : q[j] # "+") => i \in 1 .. Len(p) /\ p[i] = q[i]
  <1> DEFINE p == Topic!splitString(t)
             q == Topic!splitString(f)
             N == Len(f)
             S == STRING \ {"#"}
  <1>1. /\ N \in Nat \ {0} /\ f \in Seq(S) /\ t \in Seq(STRING) /\ Len(t) = N
        /\ f[1] # "+" /\ \A i \in 1 .. N : i # 1 => f[i] # Topic!NoLevel
        /\ \A i \in 1 .. N : f[i] = "+" \/ f[i] = t[i]
    <2>1. f \in Seq(STRING) /\ N \in Nat \ {0} /\ \A i \in 1 .. N : f[i] # "#"
      BY TopicFilters
    <2>2. f \in Seq(S)
      BY <2>1
    <2>3. QED
      BY <2>1, <2>2, TopicFilters DEF TopicFits
  <1>2. PICK K : TopicListing(STRING, t, K)
    BY <1>1, TopicSplitting
  <1>3. PICK F : TopicListing(S, f, F)
    <2> HIDE DEF S
    <2>1. QED
      BY <1>1, TopicSplitting
  <1> HIDE DEF N, S, p, q
  <1>4. /\ K \in [0 .. N -> Seq(STRING)] /\ K[0] = <<>> /\ p = K[N]
        /\ \A n \in 0 .. N - 1 :
             K[n + 1] = IF t[n + 1] = Topic!NoLevel THEN K[n] ELSE Append(K[n], t[n + 1])
    BY <1>1, <1>2 DEF TopicListing, p
  <1>5. /\ F \in [0 .. N -> Seq(S)] /\ F[0] = <<>> /\ q = F[N]
        /\ \A n \in 0 .. N - 1 :
             F[n + 1] = IF f[n + 1] = Topic!NoLevel THEN F[n] ELSE Append(F[n], f[n + 1])
    BY <1>3 DEF TopicListing, q, N
  <1> DEFINE Good(a, b) ==
               /\ Len(a) <= Len(b)
               /\ \A i \in 1 .. Len(b) :
                    (\A j \in 1 .. i : b[j] # "+") => i \in 1 .. Len(a) /\ a[i] = b[i]
             T == {n \in Nat : n \in 0 .. N => Good(K[n], F[n])}
  <1>6. 0 \in T
    <2>1. Len(<<>>) = 0 /\ Good(<<>>, <<>>)
      OBVIOUS
    <2> HIDE DEF Good
    <2>2. QED
      BY <1>4, <1>5, <2>1
  <1>7. ASSUME NEW n \in T PROVE n + 1 \in T
    <2> HIDE DEF Good
    <2>1. /\ n \in Nat /\ n + 1 \in Nat
          /\ n + 1 \in 0 .. N => n \in 0 .. N - 1 /\ n \in 0 .. N /\ n + 1 \in 1 .. N
      BY <1>1
    <2>2. SUFFICES ASSUME n + 1 \in 0 .. N PROVE Good(K[n + 1], F[n + 1])
      BY <2>1
    <2>3. Good(K[n], F[n])
      BY <2>1, <2>2
    <2> HIDE DEF T
    <2> DEFINE a == K[n]
               b == F[n]
               x == t[n + 1]
               y == f[n + 1]
    <2>4. /\ a \in Seq(STRING) /\ b \in Seq(S) /\ Good(a, b)
          /\ x \in STRING /\ y \in S
          /\ y = "+" \/ y = x
          /\ y = Topic!NoLevel => n + 1 = 1
      <3>1. n \in 0 .. N /\ n + 1 \in 1 .. N
        BY <2>1, <2>2
      <3>2. a \in Seq(STRING) /\ b \in Seq(S)
        BY <1>4, <1>5, <3>1
      <3>3. x \in STRING
        BY <1>1, <3>1, ElementOfSeq
      <3>4. y \in S
        BY <1>1, <3>1, ElementOfSeq DEF N
      <3>5. (y = "+" \/ y = x) /\ (y = Topic!NoLevel => n + 1 = 1)
        BY <1>1, <3>1
      <3>6. QED
        BY <2>3, <3>2, <3>3, <3>4, <3>5
    <2>5. /\ K[n + 1] = IF x = Topic!NoLevel THEN a ELSE Append(a, x)
          /\ F[n + 1] = IF y = Topic!NoLevel THEN b ELSE Append(b, y)
      BY <1>4, <1>5, <2>1, <2>2
    <2>6. CASE y = Topic!NoLevel
      <3>1. x = Topic!NoLevel
        BY <1>1, <2>4, <2>6
      <3>2. QED
        BY <2>4, <2>5, <2>6, <3>1
    <2>7. CASE y # Topic!NoLevel /\ y = x
      <3>1. K[n + 1] = Append(a, x) /\ F[n + 1] = Append(b, x)
        BY <2>5, <2>7
      <3>2. b \in Seq(STRING)
        BY <2>4 DEF S
      <3> HIDE DEF a, b, x, y
      <3>3. Len(a) \in Nat /\ Len(b) \in Nat
        BY <2>4
      <3>4. Len(a) <= Len(b)
        BY <2>4 DEF Good
      <3> DEFINE c == Append(a, x)
                 e == Append(b, x)
      <3>5. /\ Len(c) = Len(a) + 1 /\ Len(e) = Len(b) + 1
            /\ \A i \in 1 .. Len(a) : c[i] = a[i]
            /\ \A i \in 1 .. Len(b) : e[i] = b[i]
            /\ c[Len(a) + 1] = x /\ e[Len(b) + 1] = x
        BY <2>4, <3>2
      <3> HIDE DEF c, e
      <3>6. ASSUME NEW i \in 1 .. Len(e), \A j \in 1 .. i : e[j] # "+"
            PROVE  i \in 1 .. Len(c) /\ c[i] = e[i]
        <4>1. CASE i \in 1 .. Len(b)
          <5>1. \A j \in 1 .. i : j \in 1 .. Len(b)
            BY <3>3, <4>1
          <5>2. \A j \in 1 .. i : b[j] # "+"
            BY <3>5, <3>6, <5>1
          <5>3. i \in 1 .. Len(a) /\ a[i] = b[i]
            BY <2>4, <4>1, <5>2 DEF Good
          <5>4. i \in 1 .. Len(c)
            BY <3>3, <3>5, <5>3
          <5>5. QED
            BY <3>5, <4>1, <5>3, <5>4
        <4>2. CASE i = Len(b) + 1
          <5>1. Len(a) = Len(b)
            <6>1. CASE Len(b) = 0
              BY <3>3, <3>4, <6>1
            <6>2. CASE Len(b) # 0
              <7> DEFINE k == Len(b)
              <7>1. k \in 1 .. k /\ \A j \in 1 .. k : j \in 1 .. i
                BY <3>3, <4>2, <6>2
              <7>2. \A j \in 1 .. k : b[j] # "+"
                BY <3>5, <3>6, <7>1
              <7>3. k \in 1 .. Len(a)
                BY <2>4, <7>1, <7>2 DEF Good
              <7>4. QED
                BY <3>3, <3>4, <7>3
            <6>3. QED
              BY <6>1, <6>2
          <5>2. QED
            BY <3>3, <3>5, <4>2, <5>1
        <4>3. QED
          BY <3>3, <3>5, <4>1, <4>2
      <3>7. Good(c, e)
        BY <3>3, <3>4, <3>5, <3>6 DEF Good
      <3>8. QED
        BY <3>1, <3>7 DEF c, e
    <2>8. CASE y # Topic!NoLevel /\ y = "+"
      <3>1. F[n + 1] = Append(b, y)
        BY <2>5, <2>8
      <3> HIDE DEF a, b, x, y
      <3>2. Len(a) \in Nat /\ Len(b) \in Nat
        BY <2>4
      <3>3. Len(a) <= Len(b)
        BY <2>4 DEF Good
      <3> DEFINE c == K[n + 1]
                 e == Append(b, y)
      <3>4. /\ Len(e) = Len(b) + 1 /\ e[Len(b) + 1] = y
            /\ \A i \in 1 .. Len(b) : e[i] = b[i]
        BY <2>4
      <3>5. /\ Len(c) \in Nat /\ Len(c) >= Len(a) /\ Len(c) <= Len(a) + 1
            /\ \A i \in 1 .. Len(a) : c[i] = a[i]
        <4>1. c = a \/ c = Append(a, x)
          BY <2>5
        <4>2. QED
          BY <2>4, <3>2, <4>1
      <3> HIDE DEF c, e
      <3>6. ASSUME NEW i \in 1 .. Len(e), \A j \in 1 .. i : e[j] # "+"
            PROVE  i \in 1 .. Len(c) /\ c[i] = e[i]
        <4>1. i # Len(b) + 1
          <5>1. SUFFICES ASSUME i = Len(b) + 1 PROVE FALSE
            OBVIOUS
          <5>2. i \in 1 .. i
            BY <3>2, <3>4
          <5>3. QED
            BY <2>8, <3>4, <3>6, <5>1, <5>2
        <4>2. i \in 1 .. Len(b)
          BY <3>2, <3>4, <4>1
        <4>3. \A j \in 1 .. i : j \in 1 .. Len(b)
          BY <3>2, <4>2
        <4>4. \A j \in 1 .. i : b[j] # "+"
          BY <3>4, <3>6, <4>3
        <4>5. i \in 1 .. Len(a) /\ a[i] = b[i]
          BY <2>4, <4>2, <4>4 DEF Good
        <4>6. i \in 1 .. Len(c)
          BY <3>2, <3>5, <4>5
        <4>7. QED
          BY <3>4, <3>5, <4>2, <4>5, <4>6
      <3>7. Good(c, e)
        BY <3>2, <3>3, <3>4, <3>5, <3>6 DEF Good
      <3>8. QED
        BY <3>1, <3>7 DEF c, e
    <2>9. QED
      BY <2>4, <2>6, <2>7, <2>8
  <1> HIDE DEF T, Good
  <1>8. T = Nat
    BY <1>6, <1>7, Induction DEF T
  <1>9. N \in 0 .. N
    BY <1>1
  <1>10. Good(p, q) /\ p \in Seq(STRING) /\ q \in Seq(S)
    BY <1>4, <1>5, <1>8, <1>9 DEF T
  <1>11. QED
    BY <1>10 DEF Good, p, q, S


LEMMA TopicMin ==
  ASSUME NEW X, X \subseteq Nat, X # {}
  PROVE  Topic!Min(X) \in X /\ \A y \in X : Topic!Min(X) <= y
  <1>1. PICK x \in X : \A y \in X : ~ (<<y, x>> \in OpToRel(<, Nat))
    BY NatLessThanWellFounded, WFMin
  <1>2. \A y \in X : x <= y
    <2>1. \A y \in X : ~ (y < x)
      BY <1>1 DEF OpToRel
    <2>2. \A y \in X : y \in Nat /\ x \in Nat
      OBVIOUS
    <2>3. QED
      BY <2>1, <2>2
  <1>3. /\ (CHOOSE m \in X : \A y \in X : m <= y) \in X
        /\ \A y \in X : (CHOOSE m \in X : \A z \in X : m <= z) <= y
    BY <1>2
  <1>4. QED
    BY <1>3 DEF Topic!Min

\* The rounds of checkMqttTopic: the first that does not go on decides.
TopicEnds(p, q) == {i \in 1 .. Len(p) : Topic!Verdict(i, p, q) # "continue"}

LEMMA TopicCheck ==
  ASSUME NEW t, NEW f,
         Topic!splitString(t) \in Seq(STRING), Topic!splitString(f) \in Seq(STRING \ {"#"})
  PROVE  LET p == Topic!splitString(t)
             q == Topic!splitString(f)
             c == Topic!checkMqttTopic(t, f)
         IN  /\ Len(p) <= Len(q) => c # "out_of_range"
             /\ (\E i \in 1 .. Len(p) : i <= Len(q) /\ q[i] # "+" /\ q[i] # p[i]) =>
                  c = "CODE_ERROR"
             /\ (Len(p) = Len(q) /\ \A i \in 1 .. Len(q) : q[i] = "+" \/ q[i] = p[i]) =>
                  c = "CODE_OK"
  <1> DEFINE p == Topic!splitString(t)
             q == Topic!splitString(f)
             c == Topic!checkMqttTopic(t, f)
             ends == TopicEnds(p, q)
  <1>1. /\ Len(p) \in Nat /\ Len(q) \in Nat
        /\ \A i \in 1 .. Len(q) : q[i] # "#"
    OBVIOUS
  <1>2. c = IF ends # {} THEN Topic!Verdict(Topic!Min(ends), p, q)
            ELSE IF Len(q) = Len(p) THEN "CODE_OK" ELSE "CODE_ERROR"
    BY DEF Topic!checkMqttTopic, TopicEnds
  <1> HIDE DEF p, q, c, ends
  <1> DEFINE V(i) == Topic!Verdict(i, p, q)
  <1>3. ASSUME NEW i \in 1 .. Len(q)
        PROVE  V(i) = IF q[i] = "+" \/ q[i] = p[i] THEN "continue" ELSE "CODE_ERROR"
    <2>1. ~ (Len(q) < i - 1) /\ Len(q) # i - 1
      BY <1>1
    <2>2. q[i] # "#"
      BY <1>1
    <2> HIDE DEF p, q
    <2>3. CASE q[i] = "+" \/ q[i] = p[i]
      BY <2>1, <2>2, <2>3 DEF Topic!Verdict
    <2>4. CASE ~ (q[i] = "+" \/ q[i] = p[i])
      BY <2>1, <2>2, <2>4 DEF Topic!Verdict
    <2>5. QED
      BY <2>3, <2>4
  <1>4. ASSUME ends # {}
        PROVE  /\ Topic!Min(ends) \in ends /\ \A y \in ends : Topic!Min(ends) <= y
               /\ \A y \in ends : y \in 1 .. Len(p) /\ V(y) # "continue"
    <2>1. ends \subseteq 1 .. Len(p) /\ \A y \in ends : V(y) # "continue"
      BY DEF ends, TopicEnds
    <2>2. ends \subseteq Nat
      BY <1>1, <2>1
    <2>3. QED
      BY <1>4, <2>1, <2>2, TopicMin
  <1>5. Len(p) <= Len(q) => c # "out_of_range"
    <2>1. SUFFICES ASSUME Len(p) <= Len(q) PROVE c # "out_of_range"
      OBVIOUS
    <2>2. CASE ends = {}
      BY <1>2, <2>2
    <2>3. CASE ends # {}
      <3> DEFINE m == Topic!Min(ends)
      <3>1. m \in 1 .. Len(p) /\ c = V(m)
        BY <1>2, <1>4, <2>3
      <3>2. m \in 1 .. Len(q)
        BY <1>1, <2>1, <3>1
      <3>3. V(m) = "continue" \/ V(m) = "CODE_ERROR"
        BY <1>3, <3>2
      <3> HIDE DEF V, m
      <3>4. QED
        BY <3>1, <3>3
    <2>4. QED
      BY <2>2, <2>3
  <1>6. ASSUME NEW i \in 1 .. Len(p), i <= Len(q), q[i] # "+", q[i] # p[i]
        PROVE  c = "CODE_ERROR"
    <2>1. i \in 1 .. Len(q)
      BY <1>1, <1>6
    <2>2. V(i) = "CODE_ERROR"
      BY <1>3, <1>6, <2>1
    <2>3. i \in ends
      BY <2>2 DEF ends, TopicEnds
    <2> DEFINE m == Topic!Min(ends)
    <2>4. m <= i /\ m \in 1 .. Len(p) /\ c = V(m) /\ V(m) # "continue"
      BY <1>2, <1>4, <2>3
    <2>5. m \in 1 .. Len(q)
      <3> HIDE DEF m, V
      <3>1. QED
        BY <1>1, <2>1, <2>4
    <2>6. V(m) = "continue" \/ V(m) = "CODE_ERROR"
      BY <1>3, <2>5
    <2> HIDE DEF V, m
    <2>7. QED
      BY <2>4, <2>6
  <1>7. ASSUME Len(p) = Len(q), \A i \in 1 .. Len(q) : q[i] = "+" \/ q[i] = p[i]
        PROVE  c = "CODE_OK"
    <2>1. ends = {}
      <3>1. SUFFICES ASSUME NEW i \in ends PROVE FALSE
        OBVIOUS
      <3>2. i \in 1 .. Len(q) /\ V(i) # "continue"
        BY <1>7, <3>1 DEF ends, TopicEnds
      <3>3. V(i) = "continue"
        BY <1>3, <1>7, <3>2
      <3>4. QED
        BY <3>2, <3>3
    <2>2. QED
      BY <1>2, <1>7, <2>1
  <1>8. QED
    BY <1>5, <1>6, <1>7 DEF p, q, c

\* What a message that fits a registered filter meets at the filters registered:
\* no exception, and if no level is missing, its own filter only.
LEMMA TopicMeets ==
  ASSUME NEW f \in Filters, NEW g \in Filters, NEW t, TopicFits(t, f)
  PROVE  /\ Topic!checkMqttTopic(t, g) # "out_of_range"
         /\ Topic!Full(t) =>
              Topic!checkMqttTopic(t, g) = IF g = f THEN "CODE_OK" ELSE "CODE_ERROR"
  <1> DEFINE p == Topic!splitString(t)
             q == Topic!splitString(f)
             r == Topic!splitString(g)
             S == STRING \ {"#"}
  <1>1. /\ p \in Seq(STRING) /\ q \in Seq(S) /\ Len(p) <= Len(q)
        /\ \A i \in 1 .. Len(q) :
             (\A j \in 1 .. i : q[j] # "+") => i \in 1 .. Len(p) /\ p[i] = q[i]
    BY TopicKeepsTheBeginning
  <1>2. r \in Seq(S)
    <2>1. TopicFits(g, g)
      BY TopicFilters DEF TopicFits
    <2>2. QED
      BY <2>1, TopicKeepsTheBeginning
  <1>3. Topic!Full(t) =>
          Len(p) = Len(q) /\ \A i \in 1 .. Len(q) : q[i] = "+" \/ q[i] = p[i]
    <2>1. SUFFICES ASSUME Topic!Full(t)
            PROVE Len(p) = Len(q) /\ \A i \in 1 .. Len(q) : q[i] = "+" \/ q[i] = p[i]
      OBVIOUS
    <2> DEFINE N == Len(f)
               o == IF f[1] = Topic!NoLevel THEN 1 ELSE 0
    <2>2. /\ N \in Nat \ {0} /\ f \in Seq(STRING) /\ f # <<>> /\ f[1] # "+" /\ Topic!Full(f)
          /\ t \in Seq(STRING) /\ Len(t) = N
          /\ \A i \in 1 .. N : f[i] = "+" \/ f[i] = t[i]
      BY TopicFilters DEF TopicFits
    <2>3. t # <<>> /\ t[1] = f[1]
      BY <2>2
    <2>4. Len(q) = N - o /\ \A j \in 1 .. N - o : q[j] = f[j + o]
      BY <2>2, TopicOfFullLevels
    <2>5. Len(p) = N - o /\ \A j \in 1 .. N - o : p[j] = t[j + o]
      <3>1. /\ Len(p) = Len(t) - (IF t[1] = Topic!NoLevel THEN 1 ELSE 0)
            /\ \A j \in 1 .. Len(t) - (IF t[1] = Topic!NoLevel THEN 1 ELSE 0) :
                 p[j] = t[j + (IF t[1] = Topic!NoLevel THEN 1 ELSE 0)]
        BY <2>1, <2>2, <2>3, TopicOfFullLevels
      <3>2. Len(t) = N /\ (IF t[1] = Topic!NoLevel THEN 1 ELSE 0) = o
        BY <2>2, <2>3
      <3> HIDE DEF N, o, p
      <3>3. QED
        BY <3>1, <3>2
    <2>6. o \in {0, 1}
      OBVIOUS
    <2> HIDE DEF N, o, p, q
    <2>7. \A i \in 1 .. N - o : i + o \in 1 .. N
      BY <2>2, <2>6
    <2>8. QED
      BY <2>2, <2>4, <2>5, <2>7
  <1>4. g # f => Topic!Apart(q, r)
    BY PartsAssumption DEF Topic!MqttTopicAssumption
  <1> DEFINE c == Topic!checkMqttTopic(t, g)
  <1>5. /\ Len(p) <= Len(r) => c # "out_of_range"
        /\ (\E i \in 1 .. Len(p) : i <= Len(r) /\ r[i] # "+" /\ r[i] # p[i]) =>
             c = "CODE_ERROR"
        /\ (Len(p) = Len(r) /\ \A i \in 1 .. Len(r) : r[i] = "+" \/ r[i] = p[i]) =>
             c = "CODE_OK"
    BY <1>1, <1>2, TopicCheck
  <1>6. g = f => r = q /\ Len(p) <= Len(r)
    BY <1>1
  <1> HIDE DEF p, q, r, c, S
  <1>7. Len(p) \in Nat /\ Len(q) \in Nat /\ Len(r) \in Nat
    BY <1>1, <1>2
  <1>8. CASE g = f
    <2>1. r = q
      BY <1>8 DEF r, q
    <2>2. QED
      BY <1>1, <1>3, <1>5, <1>8, <2>1 DEF c
  <1>9. CASE g # f
    <2>1. Topic!Apart(q, r)
      BY <1>4, <1>9
    <2>2. c # "out_of_range"
      <3>1. CASE Len(r) < Len(q)
        <4>1. PICK i \in 1 .. Len(q) : Topic!Differ(q, r, i) /\ \A j \in 1 .. i : q[j] # "+"
          BY <2>1, <3>1 DEF Topic!Apart
        <4>2. i \in 1 .. Len(p) /\ p[i] = q[i]
          BY <1>1, <4>1
        <4>3. c = "CODE_ERROR"
          BY <1>5, <4>1, <4>2 DEF Topic!Differ
        <4>4. QED
          BY <4>3
      <3>2. CASE ~ (Len(r) < Len(q))
        BY <1>1, <1>5, <1>7, <3>2
      <3>3. QED
        BY <3>1, <3>2
    <2>3. Topic!Full(t) => c = "CODE_ERROR"
      <3>1. PICK i \in 1 .. Len(q) : Topic!Differ(q, r, i)
        BY <2>1 DEF Topic!Apart
      <3>2. Topic!Full(t) => i \in 1 .. Len(p) /\ p[i] = q[i]
        BY <1>3, <3>1 DEF Topic!Differ
      <3>3. QED
        BY <1>5, <3>1, <3>2 DEF Topic!Differ
    <2>4. QED
      BY <1>9, <2>2, <2>3 DEF c
  <1>10. QED
    BY <1>8, <1>9


\* What a message that some subscription brings does.
LEMMA TopicDispatch ==
  ASSUME Topic!TypeOK, NEW t \in Seq(STRING), NEW k \in 1 .. Len(actionCallbacks),
         Topic!Matches(t, actionCallbacks[k])
  PROVE  LET h == Topic!findActionCallbackFuncFromTopic(t)
         IN  /\ h \in 0 .. Len(actionCallbacks)
             /\ h # 0 => Topic!checkMqttTopic(t, actionCallbacks[h]) # "out_of_range"
             /\ Topic!Full(t) => h = k
  <1> DEFINE n == Len(actionCallbacks)
             f == actionCallbacks[k]
             stops == Topic!Stops(t)
             h == Topic!findActionCallbackFuncFromTopic(t)
  <1>1. /\ n \in Nat /\ \A l \in 1 .. n : actionCallbacks[l] \in Filters
        /\ \A l \in 1 .. n : actionCallbacks[l] = f => l = k
    <2>1. actionCallbacks \in Seq(Filters)
      BY DEF Topic!TypeOK
    <2>2. n \in Nat /\ \A l \in 1 .. n : actionCallbacks[l] \in Filters
      BY <2>1, ElementOfSeq, LenProperties
    <2>3. QED
      BY <2>2 DEF Topic!TypeOK
  <1>2. f \in Filters /\ TopicFits(t, f)
    BY <1>1, TopicMatchesFits
  <1>3. \A l \in 1 .. n :
          /\ Topic!checkMqttTopic(t, actionCallbacks[l]) # "out_of_range"
          /\ Topic!Full(t) =>
               Topic!checkMqttTopic(t, actionCallbacks[l])
                 = IF actionCallbacks[l] = f THEN "CODE_OK" ELSE "CODE_ERROR"
    BY <1>1, <1>2, TopicMeets
  <1>4. stops \subseteq 1 .. n
    BY DEF Topic!Stops
  <1>5. h = IF stops = {} THEN 0 ELSE Topic!Min(stops)
    BY DEF Topic!findActionCallbackFuncFromTopic
  <1>6. stops # {} => Topic!Min(stops) \in stops
    <2>1. stops \subseteq Nat
      BY <1>1, <1>4
    <2> HIDE DEF stops
    <2>2. QED
      BY <2>1, TopicMin
  <1>7. Topic!Full(t) => stops = {k}
    <2>1. SUFFICES ASSUME Topic!Full(t) PROVE stops = {k}
      OBVIOUS
    <2>2. k \in stops
      BY <1>3, <2>1 DEF Topic!Stops
    <2>3. \A l \in stops : l = k
      BY <1>1, <1>3, <2>1 DEF Topic!Stops
    <2>4. QED
      BY <2>2, <2>3
  <1> HIDE DEF stops, h, n
  <1>8. h \in 0 .. n
    <2>1. h = 0 \/ h \in 1 .. n
      BY <1>4, <1>5, <1>6
    <2>2. QED
      BY <1>1, <2>1
  <1>9. h # 0 => Topic!checkMqttTopic(t, actionCallbacks[h]) # "out_of_range"
    <2>1. h # 0 => h \in 1 .. n
      BY <1>1, <1>8
    <2>2. QED
      BY <1>3, <2>1
  <1>10. Topic!Full(t) => h = k
    BY <1>5, <1>6, <1>7
  <1>11. QED
    BY <1>8, <1>9, <1>10 DEF h, n

\* The topics a subscription brings fit its filter.
LEMMA TopicInstanceFits ==
  ASSUME NEW f \in Filters, NEW t \in Topic!Instances(f)
  PROVE  t \in Seq(STRING) /\ Topic!Matches(t, f)
  <1>1. /\ f \in Seq(STRING) /\ Len(f) \in Nat \ {0} /\ f[Len(f)] # "#"
        /\ Levels \subseteq STRING
    <2>1. /\ f \in Seq(STRING) /\ Len(f) \in Nat \ {0}
          /\ \A i \in 1 .. Len(f) : f[i] # "#"
      BY TopicFilters
    <2>2. Len(f) \in 1 .. Len(f)
      BY <2>1
    <2>3. Levels \subseteq STRING
      BY PartsAssumption DEF Topic!MqttTopicAssumption
    <2>4. QED
      BY <2>1, <2>2, <2>3
  <1>2. ~ Topic!Open(f)
    BY <1>1 DEF Topic!Open, Topic!Last
  <1> DEFINE plus == {i \in 1 .. Len(f) : f[i] = "+"}
             Fill(g) == [i \in 1 .. Len(f) |-> IF i \in plus THEN g[i] ELSE f[i]]
  <1>3. PICK g \in [plus -> Levels] : t = Fill(g) \o <<>>
    <2>1. Topic!Fixed(f) = f /\ Topic!Rests(f) = {<<>>}
      BY <1>2 DEF Topic!Fixed, Topic!Rests, Topic!Open
    <2>2. t \in {v \o r : v \in Topic!Filled(f), r \in {<<>>}}
      BY <2>1 DEF Topic!Instances
    <2>3. PICK v \in Topic!Filled(f), r \in {<<>>} : t = v \o r
      BY <2>2
    <2>4. PICK x \in [plus -> Levels] : v = Fill(x)
      BY Zenon DEF Topic!Filled
    <2>5. r = <<>>
      OBVIOUS
    <2>6. QED
      BY <2>3, <2>4, <2>5
  <1> DEFINE u == Fill(g)
  <1>4. u \in Seq(STRING) /\ Len(u) = Len(f) /\ \A i \in 1 .. Len(f) : f[i] = "+" \/ f[i] = u[i]
    <2> DEFINE N == Len(f)
    <2>1. N \in Nat /\ \A i \in 1 .. N : f[i] \in STRING
      BY <1>1
    <2>2. \A i \in plus : g[i] \in STRING
      BY <1>1
    <2> HIDE DEF N
    <2>3. u \in [1 .. N -> STRING] /\ \A i \in 1 .. N : f[i] = "+" \/ f[i] = u[i]
      BY <2>1, <2>2 DEF N
    <2> HIDE DEF u
    <2>4. u \in Seq(STRING) /\ DOMAIN u = 1 .. N
      BY <2>1, <2>3
    <2>5. Len(u) = N
      BY <2>1, <2>4
    <2>6. QED
      BY <2>3, <2>4, <2>5 DEF N
  <1> HIDE DEF u
  <1>5. t = u
    BY <1>3, <1>4, ConcatEmptySeq DEF u
  <1>6. TopicFits(t, f)
    BY <1>4, <1>5 DEF TopicFits
  <1>7. QED
    BY <1>4, <1>5, <1>6, TopicMatchesFits

LEMMA TopicInitial == ASSUME Topic!Init PROVE Topic!IInv
  <1>1. actionCallbacks = <<>> /\ topic = <<>> /\ handler = 0 /\ topicCrashed = FALSE
    BY DEF Topic!Init, Topic!Idle
  <1>2. Len(actionCallbacks) = 0 /\ actionCallbacks \in Seq(Filters) /\ topic \in Seq(STRING)
    BY <1>1
  <1>3. Topic!TypeOK
    <2> DEFINE n == Len(actionCallbacks)
    <2>1. n = 0
      BY <1>2
    <2> HIDE DEF n
    <2>2. handler \in 0 .. n
      BY <1>1, <2>1
    <2>3. \A k, l \in 1 .. n : k = l
      BY <2>1
    <2>4. QED
      BY <1>1, <1>2, <2>2, <2>3 DEF Topic!TypeOK, n
  <1>4. QED
    BY <1>1, <1>3 DEF Topic!IInv, Topic!Idle

LEMMA TopicStep ==
  ASSUME Topic!IInv, Topic!Next
  PROVE  Topic!IInv'
  <1>1. /\ Topic!TypeOK /\ ~ topicCrashed
    BY DEF Topic!IInv
  <1>2. /\ actionCallbacks \in Seq(Filters) /\ Len(actionCallbacks) \in Nat
        /\ \A k \in 1 .. Len(actionCallbacks) : actionCallbacks[k] \in Filters
        /\ \A k, l \in 1 .. Len(actionCallbacks) :
             actionCallbacks[k] = actionCallbacks[l] => k = l
        /\ handler \in 0 .. Len(actionCallbacks) /\ topic \in Seq(STRING)
    <2>1. actionCallbacks \in Seq(Filters)
      BY <1>1 DEF Topic!TypeOK
    <2>2. QED
      BY <1>1, <2>1, ElementOfSeq, LenProperties DEF Topic!TypeOK
  <1>3. ASSUME NEW filter \in Filters, Topic!addActionCallback(filter) PROVE Topic!IInv'
    <2>1. /\ topic = Topic!Idle
          /\ \A k \in 1 .. Len(actionCallbacks) : actionCallbacks[k] # filter
          /\ actionCallbacks' = Append(actionCallbacks, filter)
          /\ UNCHANGED <<topic, handler, topicCrashed>>
      BY <1>3 DEF Topic!addActionCallback
    <2> DEFINE n == Len(actionCallbacks)
               c == Append(actionCallbacks, filter)
    <2>2. /\ c \in Seq(Filters) /\ Len(c) = n + 1 /\ c[n + 1] = filter
          /\ \A i \in 1 .. n : c[i] = actionCallbacks[i]
      BY <1>2
    <2> HIDE DEF n, c
    <2>3. n \in Nat /\ \A i \in 1 .. n + 1 : i = n + 1 \/ i \in 1 .. n
      BY <1>2 DEF n
    <2>4. \A k, l \in 1 .. n + 1 : c[k] = c[l] => k = l
      <3>1. SUFFICES ASSUME NEW k \in 1 .. n + 1, NEW l \in 1 .. n + 1, c[k] = c[l] PROVE k = l
        OBVIOUS
      <3>2. \A i \in 1 .. n : c[i] # filter
        BY <2>1, <2>2 DEF n
      <3>3. CASE k = n + 1
        BY <2>2, <2>3, <3>1, <3>2, <3>3
      <3>4. CASE k \in 1 .. n
        <4>1. l \in 1 .. n
          BY <2>2, <2>3, <3>1, <3>2, <3>4
        <4>2. QED
          BY <1>2, <2>2, <3>1, <3>4, <4>1 DEF n
      <3>5. QED
        BY <2>3, <3>3, <3>4
    <2>5. handler \in 0 .. n + 1
      BY <1>2, <2>3 DEF n
    <2>6. Topic!TypeOK'
      BY <1>1, <2>1, <2>2, <2>4, <2>5 DEF Topic!TypeOK, c
    <2>7. topic' = Topic!Idle' /\ ~ topicCrashed'
      BY <1>1, <2>1 DEF Topic!Idle
    <2>8. QED
      BY <2>6, <2>7 DEF Topic!IInv
  <1>4. ASSUME NEW k \in 1 .. Len(actionCallbacks),
               NEW t \in Topic!Instances(actionCallbacks[k]), Topic!OnMessage(t)
        PROVE  Topic!IInv'
    <2> DEFINE h == Topic!findActionCallbackFuncFromTopic(t)
    <2>1. /\ topic' = t /\ handler' = h /\ actionCallbacks' = actionCallbacks
          /\ topicCrashed' = (h # 0 /\ Topic!checkMqttTopic(t, actionCallbacks[h]) = "out_of_range")
      BY <1>4 DEF Topic!OnMessage
    <2>2. t \in Seq(STRING) /\ Topic!Matches(t, actionCallbacks[k])
      BY <1>2, <1>4, TopicInstanceFits
    <2>3. /\ h \in 0 .. Len(actionCallbacks)
          /\ h # 0 => Topic!checkMqttTopic(t, actionCallbacks[h]) # "out_of_range"
      BY <1>1, <2>2, TopicDispatch
    <2>4. topicCrashed' = FALSE
      <3> HIDE DEF h
      <3>1. QED
        BY <2>1, <2>3
    <2>5. Topic!TypeOK'
      <3> HIDE DEF h
      <3>1. QED
        BY <1>1, <2>1, <2>2, <2>3, <2>4 DEF Topic!TypeOK
    <2>6. Topic!Matches(topic, actionCallbacks[k])'
      BY <2>1, <2>2 DEF Topic!Matches
    <2>7. (handler = Topic!findActionCallbackFuncFromTopic(topic))'
      BY <2>1 DEF Topic!findActionCallbackFuncFromTopic, Topic!Stops
    <2>8. k \in 1 .. Len(actionCallbacks')
      BY <2>1
    <2>9. QED
      BY <2>4, <2>5, <2>6, <2>7, <2>8 DEF Topic!IInv
  <1>5. ASSUME Topic!Done PROVE Topic!IInv'
    <2>1. /\ topic' = Topic!Idle /\ handler' = 0
          /\ UNCHANGED <<actionCallbacks, topicCrashed>>
      BY <1>5 DEF Topic!Done
    <2>2. topic' \in Seq(STRING) /\ topic' = Topic!Idle'
      BY <2>1 DEF Topic!Idle
    <2>3. handler' \in 0 .. Len(actionCallbacks')
      BY <1>2, <2>1
    <2>4. Topic!TypeOK'
      BY <1>1, <2>1, <2>2, <2>3 DEF Topic!TypeOK
    <2>5. QED
      BY <1>1, <2>1, <2>2, <2>4 DEF Topic!IInv
  <1>6. QED
    BY <1>3, <1>4, <1>5 DEF Topic!Next

LEMMA TopicStutter ==
  ASSUME Topic!IInv, UNCHANGED topicVars
  PROVE  Topic!IInv'
  BY DEF topicVars, Topic!IInv, Topic!TypeOK, Topic!Idle, Topic!Matches,
    Topic!findActionCallbackFuncFromTopic, Topic!Stops

LEMMA TopicHolds ==
  ASSUME Topic!IInv
  PROVE  Topic!StationDispatches /\ Topic!AnswerFindsTheMobile
  <1> DEFINE n == Len(actionCallbacks)
  <1>1. Topic!TypeOK /\ ~ topicCrashed /\ topic \in Seq(STRING) /\ handler \in 0 .. n
    BY DEF Topic!IInv, Topic!TypeOK
  <1>2. actionCallbacks \in Seq(Filters) /\ n \in Nat
        /\ \A k \in 1 .. n : actionCallbacks[k] \in Filters
    <2>1. actionCallbacks \in Seq(Filters)
      BY <1>1 DEF Topic!TypeOK
    <2>2. QED
      BY <2>1, ElementOfSeq, LenProperties
  <1>3. SUFFICES ASSUME topic # Topic!Idle
                 PROVE  Topic!StationDispatches /\ Topic!AnswerFindsTheMobile
    BY DEF Topic!StationDispatches, Topic!AnswerFindsTheMobile
  <1>4. /\ \E k \in 1 .. n : Topic!Matches(topic, actionCallbacks[k])
        /\ handler = Topic!findActionCallbackFuncFromTopic(topic)
    BY <1>3 DEF Topic!IInv
  <1>5. ASSUME NEW k \in 1 .. n, Topic!Full(topic), Topic!Matches(topic, actionCallbacks[k])
        PROVE  handler = k
    BY <1>1, <1>4, <1>5, TopicDispatch
  <1>6. Topic!StationDispatches
    BY <1>1, <1>5 DEF Topic!StationDispatches
  <1>7. Topic!AnswerFindsTheMobile
    <2> DEFINE f == actionCallbacks[handler]
    <2>1. SUFFICES ASSUME Topic!Full(topic), handler # 0
            PROVE  /\ (Len(f) = 7 /\ f[3] = "mobile") => Topic!Sender(topic) = topic[4]
                   /\ (Len(f) >= 2 /\ f[2] = "bin") => Topic!TakesBin(topic)
      BY DEF Topic!AnswerFindsTheMobile
    <2>2. PICK k \in 1 .. n : Topic!Matches(topic, actionCallbacks[k])
      BY <1>4
    <2>3. handler = k
      BY <1>5, <2>1, <2>2
    <2>4. f \in Filters /\ TopicFits(topic, f)
      BY <1>1, <1>2, <2>2, <2>3, TopicMatchesFits
    <2> DEFINE s == Topic!splitString(topic)
    <2> HIDE DEF f
    <2>5. /\ Len(f) \in Nat \ {0} /\ f[1] # "+" /\ Len(topic) = Len(f)
          /\ Len(f) = 7 /\ f[3] = "mobile" => f[1] = Topic!NoLevel
          /\ Len(f) >= 2 /\ f[2] = "bin" => Len(f) = 7 /\ f[1] # Topic!NoLevel
          /\ \A i \in 1 .. Len(f) : f[i] = "+" \/ f[i] = topic[i]
      BY <2>4, TopicFilters DEF TopicFits
    <2>6. topic # <<>> /\ topic[1] = f[1]
      <3>1. 1 \in 1 .. Len(f)
        BY <2>5
      <3>2. topic[1] = f[1]
        BY <2>5, <3>1
      <3>3. QED
        BY <1>3, <3>2 DEF Topic!Idle
    <2>7. /\ topic[1] = Topic!NoLevel =>
               Len(s) = Len(topic) - 1 /\ \A j \in 1 .. Len(topic) - 1 : s[j] = topic[j + 1]
          /\ topic[1] # Topic!NoLevel => Len(s) = Len(topic)
      <3>1. /\ Len(s) = Len(topic) - (IF topic[1] = Topic!NoLevel THEN 1 ELSE 0)
            /\ \A j \in 1 .. Len(topic) - (IF topic[1] = Topic!NoLevel THEN 1 ELSE 0) :
                 s[j] = topic[j + (IF topic[1] = Topic!NoLevel THEN 1 ELSE 0)]
        BY <1>1, <2>1, <2>6, TopicOfFullLevels
      <3> HIDE DEF s
      <3>2. Len(topic) \in Nat
        BY <2>5
      <3>3. QED
        BY <3>1, <3>2
    <2> HIDE DEF s
    <2>8. (Len(f) = 7 /\ f[3] = "mobile") => Topic!Sender(topic) = topic[4]
      <3>1. SUFFICES ASSUME Len(f) = 7, f[3] = "mobile" PROVE s[3] = topic[4]
        BY DEF Topic!Sender, s
      <3>2. topic[1] = Topic!NoLevel /\ Len(topic) = 7
        BY <2>5, <2>6, <3>1
      <3>3. 3 \in 1 .. Len(topic) - 1 /\ 3 + 1 = 4
        <4>1. 3 \in 1 .. 7 - 1 /\ 3 + 1 = 4
          OBVIOUS
        <4>2. QED
          BY <3>2, <4>1
      <3>4. QED
        BY <2>7, <3>2, <3>3
    <2>9. (Len(f) >= 2 /\ f[2] = "bin") => Topic!TakesBin(topic)
      <3>1. SUFFICES ASSUME Len(f) >= 2, f[2] = "bin" PROVE Len(s) = 7
        BY DEF Topic!TakesBin, s
      <3>2. QED
        BY <2>5, <2>6, <2>7, <3>1
    <2>10. QED
      BY <2>8, <2>9 DEF f
  <1>8. QED
    BY <1>6, <1>7

\* For any topics without "#" of which none hides in another: what is dispatched
\* was subscribed to, it met no exception, and its callback is the first that
\* fits (Mqtt.cpp:325-352, 390-421).
THEOREM TopicInvariance == PartsSpec => [](part = "topic" => Topic!IInv)
  <1>1. PartsInit => (part = "topic" => Topic!IInv)
    BY TopicInitial DEF PartsInit
  <1>2. (part = "topic" => Topic!IInv) /\ [PartsNext]_partsVars
          => (part = "topic" => Topic!IInv)'
    <2>1. SUFFICES ASSUME part = "topic" => Topic!IInv, [PartsNext]_partsVars, part' = "topic"
                   PROVE  Topic!IInv'
      OBVIOUS
    <2>2. part = "topic" /\ Topic!IInv
      <3>1. part' = part
        BY <2>1 DEF PartsNext, partsVars
      <3>2. QED
        BY <2>1, <3>1
    <2>3. CASE UNCHANGED topicVars
      BY <2>2, <2>3, TopicStutter
    <2>4. CASE Topic!Next
      BY <2>2, <2>4, TopicStep
    <2>5. QED
      BY <2>1, <2>2, <2>3, <2>4 DEF PartsNext, partsVars
  <1>3. QED
    BY <1>1, <1>2, PTL DEF PartsSpec

\* No message crashes the process, each goes to the callback whose subscription
\* brought it, whatever was registered first, and an answer to the mobile that
\* asked (Mqtt.cpp:396-421, CloudProtocol.cpp:237).
THEOREM TopicsFindTheirCallbacksAlways == PartsSpec => []TopicsFindTheirCallbacks
  <1>1. (part = "topic" => Topic!IInv) => TopicsFindTheirCallbacks
    BY TopicHolds DEF TopicsFindTheirCallbacks
  <1>2. QED
    BY <1>1, TopicInvariance, PTL
=============================================================================
