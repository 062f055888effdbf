---------------------------- MODULE JpegProofs ----------------------------
(***************************************************************************)
(* Proofs about the JPEG decoder, for every file that is a sequence of     *)
(* well-formed segments with one frame and one scan:                       *)
(*   DecoderTypes         every variable keeps its type, whatever the data *)
(*                        of the scan;                                     *)
(*   PictureAlwaysExact   a picture that is decoded to its end is written  *)
(*                        pixel by pixel where it belongs.                 *)
(*                                                                         *)
(* TypeOK is kept by way of Typed, which also says what the tables, the    *)
(* buffer and the phases are.  The picture is followed by Laid: which calls*)
(* of ConvertYUV2RGB have been made when so many blocks are decoded.  At   *)
(* the end these calls tile the picture, each offset in one of them.       *)
(***************************************************************************)
EXTENDS JpegDecoder, SequenceFacts

-----------------------------------------------------------------------------
(* Numbers, recursion, and what FlattenSeq, Min and Max give.              *)

\* The provers know the power of a numeral only, so each n is looked at.
LEMMA PowersOf ==
  ASSUME NEW n \in 0 .. 16
  PROVE  2^n \in Nat \ {0} /\ (n # 16 => 2^(n + 1) = 2 * 2^n)
<1>1. CASE n = 0
  <2>1. n + 1 = 1
    BY <1>1
  <2> QED BY <1>1, <2>1
<1>2. CASE n = 1
  <2>1. n + 1 = 2
    BY <1>2
  <2> QED BY <1>2, <2>1
<1>3. CASE n = 2
  <2>1. n + 1 = 3
    BY <1>3
  <2> QED BY <1>3, <2>1
<1>4. CASE n = 3
  <2>1. n + 1 = 4
    BY <1>4
  <2> QED BY <1>4, <2>1
<1>5. CASE n = 4
  <2>1. n + 1 = 5
    BY <1>5
  <2> QED BY <1>5, <2>1
<1>6. CASE n = 5
  <2>1. n + 1 = 6
    BY <1>6
  <2> QED BY <1>6, <2>1
<1>7. CASE n = 6
  <2>1. n + 1 = 7
    BY <1>7
  <2> QED BY <1>7, <2>1
<1>8. CASE n = 7
  <2>1. n + 1 = 8
    BY <1>8
  <2> QED BY <1>8, <2>1
<1>9. CASE n = 8
  <2>1. n + 1 = 9
    BY <1>9
  <2> QED BY <1>9, <2>1
<1>10. CASE n = 9
  <2>1. n + 1 = 10
    BY <1>10
  <2> QED BY <1>10, <2>1
<1>11. CASE n = 10
  <2>1. n + 1 = 11
    BY <1>11
  <2> QED BY <1>11, <2>1
<1>12. CASE n = 11
  <2>1. n + 1 = 12
    BY <1>12
  <2> QED BY <1>12, <2>1
<1>13. CASE n = 12
  <2>1. n + 1 = 13
    BY <1>13
  <2> QED BY <1>13, <2>1
<1>14. CASE n = 13
  <2>1. n + 1 = 14
    BY <1>14
  <2> QED BY <1>14, <2>1
<1>15. CASE n = 14
  <2>1. n + 1 = 15
    BY <1>15
  <2> QED BY <1>15, <2>1
<1>16. CASE n = 15
  <2>1. n + 1 = 16
    BY <1>16
  <2> QED BY <1>16, <2>1
<1>17. CASE n = 16
  BY <1>17
<1> QED BY <1>1, <1>2, <1>3, <1>4, <1>5, <1>6, <1>7, <1>8, <1>9, <1>10, <1>11, <1>12, <1>13, <1>14, <1>15, <1>16, <1>17

\* What holds of 0 and is handed on holds up to N.
LEMMA UpTo ==
  ASSUME NEW N \in Nat, NEW P, 0 \in P,
         \A i \in 0 .. N - 1 : i \in P => i + 1 \in P
  PROVE  \A i \in 0 .. N : i \in P
<1> DEFINE Out == {i \in 0 .. N : i \notin P}
<1> SUFFICES Out = {}
  OBVIOUS
<1> SUFFICES ASSUME Out # {} PROVE FALSE
  OBVIOUS
<1>1. PICK m \in Out : \A k \in Out : m <= k
  <2>1. Out \subseteq Nat
    OBVIOUS
  <2> HIDE DEF Out
  <2> QED BY <2>1, SmallestOf
<1>2. m \in 0 .. N /\ m \notin P /\ m # 0
  BY <1>1
<1>3. m - 1 \notin Out
  BY <1>1, <1>2
<1>4. m - 1 \in 0 .. N - 1 /\ m - 1 \in P
  BY <1>2, <1>3
<1> QED BY <1>2, <1>4

\* A function on 0..N is given by its first value and its steps.
Runs(g, N, S, base, step) ==
  /\ g \in [0 .. N -> S] /\ g[0] = base
  /\ \A i \in 1 .. N : g[i] = step[i][g[i - 1]]

LEMMA Recursion ==
  ASSUME NEW N \in Nat, NEW S, NEW base \in S,
         NEW step \in [1 .. N -> [S -> S]]
  PROVE  \E g : Runs(g, N, S, base, step)
<1> DEFINE Good(n, g) == /\ g \in [0 .. n -> S] /\ g[0] = base
                         /\ \A i \in 1 .. n : g[i] = step[i][g[i - 1]]
           P == {n \in 0 .. N : \E g : Good(n, g)}
<1>1. 0 \in P
  <2>1. Good(0, [i \in 0 .. 0 |-> base])
    OBVIOUS
  <2> HIDE DEF Good
  <2> QED BY <2>1
<1>2. \A n \in 0 .. N - 1 : n \in P => n + 1 \in P
  <2> SUFFICES ASSUME NEW n \in 0 .. N - 1, n \in P PROVE n + 1 \in P
    OBVIOUS
  <2>1. PICK g : Good(n, g)
    OBVIOUS
  <2> DEFINE h == [i \in 0 .. n + 1 |->
                      IF i <= n THEN g[i] ELSE step[n + 1][g[n]]]
  <2>2. h \in [0 .. n + 1 -> S]
    BY <2>1
  <2>3. h[0] = base
    BY <2>1
  <2>4. \A i \in 1 .. n + 1 : h[i] = step[i][h[i - 1]]
    BY <2>1
  <2> HIDE DEF h
  <2>5. Good(n + 1, h)
    BY <2>2, <2>3, <2>4
  <2>6. n + 1 \in 0 .. N
    OBVIOUS
  <2> QED BY <2>5, <2>6
<1>3. \A n \in 0 .. N : n \in P
  <2> HIDE DEF P
  <2> QED BY <1>1, <1>2, UpTo
<1> QED BY <1>3 DEF Runs

-----------------------------------------------------------------------------
(* FlattenSeq, of sequences out of a set that is closed under \o.  The     *)
(* proofs need a few laws of \o only.                                      *)
Cat(a, b) == a \o b

Closed(T) ==
  /\ <<>> \in T
  /\ \A a, b \in T : Cat(a, b) \in T
  /\ \A a \in T : Cat(<<>>, a) = a /\ Cat(a, <<>>) = a
  /\ \A a, b, c \in T : Cat(Cat(a, b), c) = Cat(a, Cat(b, c))
  /\ \A a \in T : Len(a) \in Nat
  /\ \A a, b \in T :
        /\ Len(Cat(a, b)) = Len(a) + Len(b)
        /\ \A i \in 1 .. Len(a) + Len(b) :
              Cat(a, b)[i] = IF i <= Len(a) THEN a[i] ELSE b[i - Len(a)]

LEMMA SeqClosed == \A A : Closed(Seq(A))
<1> TAKE A
<1>1. /\ <<>> \in Seq(A)
      /\ \A a, b \in Seq(A) : a \o b \in Seq(A)
      /\ \A a \in Seq(A) : <<>> \o a = a /\ a \o <<>> = a
      /\ \A a, b, c \in Seq(A) : (a \o b) \o c = a \o (b \o c)
  BY ConcatProperties, ConcatEmptySeq, ConcatAssociative
<1>2. \A a \in Seq(A) : Len(a) \in Nat
  BY LenProperties
<1>3. \A a, b \in Seq(A) :
        /\ Len(a \o b) = Len(a) + Len(b)
        /\ \A i \in 1 .. Len(a) + Len(b) :
              (a \o b)[i] = IF i <= Len(a) THEN a[i] ELSE b[i - Len(a)]
  BY ConcatProperties
<1> QED BY <1>1, <1>2, <1>3, Zenon DEF Closed, Cat

\* FlattenSeq puts one part after the other,
Stages(g, s, N, T) ==
  /\ g \in [0 .. N -> T] /\ g[0] = <<>>
  /\ \A i \in 1 .. N : g[i] = Cat(g[i - 1], s[i])

LEMMA FlatStages ==
  ASSUME NEW T, Closed(T), NEW s \in Seq(T)
  PROVE  \E g : Stages(g, s, Len(s), T) /\ FlattenSeq(s) = g[Len(s)]
<1> DEFINE N == Len(s)
           step == [i \in 1 .. N |-> [t \in T |-> Cat(t, s[i])]]
<1>1. N \in Nat /\ \A i \in 1 .. N : s[i] \in T
  BY LenProperties, ElementOfSeq
<1>2. step \in [1 .. N -> [T -> T]]
  BY <1>1 DEF Closed
<1>3. <<>> \in T
  BY DEF Closed
<1>4. PICK g \in [0 .. N -> T] :
            g[0] = <<>> /\ \A i \in 1 .. N : g[i] = step[i][g[i - 1]]
  <2> DEFINE empty == <<>>
  <2>1. N \in Nat /\ empty \in T /\ step \in [1 .. N -> [T -> T]]
    BY <1>1, <1>2, <1>3
  <2> HIDE DEF N, step, empty
  <2>2. \E g : Runs(g, N, T, empty, step)
    BY <2>1, Recursion
  <2> QED BY <2>2 DEF empty, Runs
<1>5. \A i \in 1 .. N : g[i] = Cat(g[i - 1], s[i])
  <2> TAKE i \in 1 .. N
  <2>1. g[i - 1] \in T
    BY <1>1, <1>4
  <2> QED BY <2>1, <1>4
<1>6. CASE N = 0
  <2>1. FlattenSeq(s) = s /\ s = <<>>
    BY <1>6, EmptySeq DEF FlattenSeq
  <2>2. Stages(g, s, N, T)
    BY <1>4, <1>5 DEF Stages
  <2> QED BY <2>1, <2>2, <1>4, <1>6
<1>7. CASE N # 0
  <2> DEFINE Eq(f) == f = [i \in 1 .. N |-> IF i = 1 THEN s[i] ELSE Cat(f[i - 1], s[i])]
             f == CHOOSE f : Eq(f)
             g1 == [i \in 1 .. N |-> g[i]]
  <2>1. Eq(g1)
    <3>1. g1[1] = s[1]
      <4>1. 1 \in 1 .. N /\ g[1] = Cat(<<>>, s[1])
        BY <1>1, <1>4, <1>5, <1>7
      <4>2. Cat(<<>>, s[1]) = s[1]
        BY <1>1, <4>1 DEF Closed
      <4> QED BY <4>1, <4>2
    <3>2. \A i \in 1 .. N : i # 1 => g1[i] = Cat(g1[i - 1], s[i])
      BY <1>1, <1>5
    <3> HIDE DEF N, step
    <3>3. g1 = [i \in 1 .. N |-> g1[i]]
      OBVIOUS
    <3>4. [i \in 1 .. N |-> g1[i]]
          = [i \in 1 .. N |-> IF i = 1 THEN s[i] ELSE Cat(g1[i - 1], s[i])]
      <4> HIDE DEF g1
      <4> QED BY <3>1, <3>2
    <3> QED BY <3>3, <3>4, Zenon
  <2>2. Eq(f)
    BY <2>1
  <2>3. FlattenSeq(s) = f[N]
    BY <1>1, <1>7 DEF FlattenSeq, Cat
  <2> HIDE DEF f, N, step
  <2>4. \A i \in 1 .. N : f[i] = g[i]
    <3> DEFINE P == {i \in 0 .. N : i # 0 => f[i] = g[i]}
    <3>1. 0 \in P
      BY <1>1
    <3>2. \A i \in 0 .. N - 1 : i \in P => i + 1 \in P
      <4> TAKE i \in 0 .. N - 1
      <4> DEFINE k == i + 1
      <4>1. k \in 1 .. N /\ k - 1 = i
        BY <1>1
      <4> HIDE DEF k
      <4>2. f[k] = IF k = 1 THEN s[k] ELSE Cat(f[k - 1], s[k])
        BY <2>2, <4>1
      <4>3. g[k] = IF k = 1 THEN s[k] ELSE Cat(g1[k - 1], s[k])
        BY <2>1, <4>1
      <4>4. k # 1 /\ f[k - 1] = g[k - 1] => g1[k - 1] = f[k - 1]
        BY <1>1, <4>1
      <4>5. i \in P => f[k] = g[k]
        BY <4>1, <4>2, <4>3, <4>4, <1>1
      <4> QED BY <4>1, <4>5 DEF k
    <3> HIDE DEF P
    <3>4. \A i \in 0 .. N : i \in P
      BY <3>1, <3>2, <1>1, UpTo
    <3> USE DEF P
    <3> QED BY <3>4
  <2>5. f[N] = g[N]
    BY <2>4, <1>1, <1>7
  <2>6. Stages(g, s, N, T)
    BY <1>4, <1>5 DEF N, Stages
  <2> QED BY <2>3, <2>5, <2>6 DEF N
<1> QED BY <1>6, <1>7

\* so that the whole is in the set of the parts.
LEMMA FlatTyped ==
  ASSUME NEW T, Closed(T), NEW s \in Seq(T)
  PROVE  FlattenSeq(s) \in T
<1>1. PICK g : Stages(g, s, Len(s), T) /\ FlattenSeq(s) = g[Len(s)]
  BY FlatStages
<1>2. Len(s) \in 0 .. Len(s)
  BY LenProperties
<1> QED BY <1>1, <1>2, Zenon DEF Stages

-----------------------------------------------------------------------------
(* The smallest and the largest element of a set.                          *)
LEMMA MinOf ==
  ASSUME NEW S, S \subseteq Nat, S # {}
  PROVE  Min(S) \in S /\ \A k \in S : Min(S) <= k
BY SmallestOf DEF Min

LEMMA MaxOf ==
  ASSUME NEW N \in Nat, NEW S, S \subseteq 1 .. N, S # {}
  PROVE  Max(S) \in S /\ \A k \in S : Max(S) >= k
<1> DEFINE D == {n \in Nat : \E k \in S : n = N - k}
<1>1. D \subseteq Nat
  OBVIOUS
<1>2. D # {}
  <2>1. PICK k : k \in S
    OBVIOUS
  <2>2. N - k \in Nat
    BY <2>1
  <2> QED BY <2>1, <2>2
<1>3. PICK d \in D : \A e \in D : d <= e
  <2> HIDE DEF D
  <2> QED BY <1>1, <1>2, SmallestOf
<1>4. PICK m \in S : d = N - m
  OBVIOUS
<1>5. \A k \in S : m >= k
  <2> TAKE k \in S
  <2>1. N - k \in D /\ k \in 1 .. N /\ m \in 1 .. N
    OBVIOUS
  <2>2. d <= N - k
    BY <1>3, <2>1
  <2> QED BY <1>4, <2>1, <2>2
<1> QED BY <1>5 DEF Max

-----------------------------------------------------------------------------
(* Huffman tables and the numbers in a scan.                               *)
LEMMA HalfIs == Half = 2^15 /\ Half \in Nat \ {0}
BY PowersOf DEF Half

LEMMA PowersBelow ==
  ASSUME NEW n \in 0 .. 15
  PROVE  2^n \in Nat /\ 2^n <= Half
<1> DEFINE P == {i \in 0 .. 15 : 2^(15 - i) <= Half}
<1>1. 0 \in P
  BY HalfIs
<1>2. \A i \in 0 .. 15 - 1 : i \in P => i + 1 \in P
  <2> TAKE i \in 0 .. 15 - 1
  <2> DEFINE b == 15 - (i + 1)
  <2>1. b \in 0 .. 16 /\ b # 16 /\ b + 1 = 15 - i /\ i + 1 \in 0 .. 15
    OBVIOUS
  <2>2. 2^b \in Nat /\ 2^(15 - i) = 2 * 2^b
    <3> HIDE DEF b
    <3>1. 2^b \in Nat /\ 2^(b + 1) = 2 * 2^b
      BY <2>1, PowersOf
    <3> QED BY <2>1, <3>1
  <2>3. 2 * 2^b <= Half => 2^b <= Half
    <3> DEFINE q == 2^b
    <3>1. q \in Nat
      BY <2>2
    <3> HIDE DEF q, b
    <3>2. 2 * q <= Half => q <= Half
      BY <3>1, HalfIs
    <3> QED BY <3>2 DEF q
  <2> HIDE DEF b
  <2>4. i \in P => 2^b <= Half
    BY <2>2, <2>3
  <2> QED BY <2>1, <2>4 DEF b
<1>3. \A i \in 0 .. 15 : i \in P
  <2> HIDE DEF P
  <2> QED BY <1>1, <1>2, UpTo
<1> DEFINE i == 15 - n
<1>4. i \in 0 .. 15 /\ 15 - i = n
  OBVIOUS
<1> HIDE DEF i
<1>5. 2^n <= Half
  BY <1>3, <1>4
<1>6. 2^n \in Nat
  <2>1. n \in 0 .. 16
    OBVIOUS
  <2> QED BY <2>1, PowersOf
<1> QED BY <1>5, <1>6

IsTable(table) ==
  /\ DOMAIN table = 1 .. Len(table)
  /\ Len(table) \in Nat
  /\ \A i \in 1 .. Len(table) :
        table[i].len \in 1 .. 16 /\ table[i].value \in 0 .. 255

LEMMA BuildTyped ==
  ASSUME NEW symbols \in Encoder!Codes
  PROVE  IsTable(BuildTable(symbols))
<1> DEFINE first == FirstCodes(symbols)
           entry(len, j) == [code |-> first[len] + j - 1, len |-> len,
                             value |-> symbols[len][j]]
           S == UNION {{entry(len, j) : j \in 1 .. Len(symbols[len])} :
                          len \in 1 .. 16}
           part(len) == [j \in 1 .. Len(symbols[len]) |-> entry(len, j)]
           s == [len \in 1 .. 16 |-> part(len)]
           T == Seq(S)
<1>1. \A len \in 1 .. 16 :
         Len(symbols[len]) \in Nat
         /\ \A j \in 1 .. Len(symbols[len]) : symbols[len][j] \in 0 .. 255
  <2> TAKE len \in 1 .. 16
  <2> DEFINE t == symbols[len]
  <2>1. t \in Seq(0 .. 255)
    BY DEF Encoder!Codes
  <2> HIDE DEF t
  <2>2. Len(t) \in Nat /\ \A j \in 1 .. Len(t) : t[j] \in 0 .. 255
    BY <2>1, LenProperties, ElementOfSeq
  <2> QED BY <2>2 DEF t
<1>2. \A e \in S : e.len \in 1 .. 16 /\ e.value \in 0 .. 255
  <2> TAKE e \in S
  <2> HIDE DEF entry
  <2>1. PICK len \in 1 .. 16 : e \in {entry(len, j) : j \in 1 .. Len(symbols[len])}
    BY Zenon
  <2>2. PICK j \in 1 .. Len(symbols[len]) : e = entry(len, j)
    BY <2>1, Zenon
  <2>3. e.len = len /\ e.value = symbols[len][j]
    BY <2>2, Zenon DEF entry
  <2> QED BY <2>3, <1>1
<1>3. \A len \in 1 .. 16 : part(len) \in T
  <2> TAKE len \in 1 .. 16
  <2>1. \A j \in 1 .. Len(symbols[len]) : entry(len, j) \in S
    <3> TAKE j \in 1 .. Len(symbols[len])
    <3> DEFINE E(k) == {entry(k, i) : i \in 1 .. Len(symbols[k])}
    <3>1. entry(len, j) \in E(len)
      OBVIOUS
    <3>2. S = UNION {E(k) : k \in 1 .. 16}
      OBVIOUS
    <3> HIDE DEF entry, S, E
    <3> QED BY <3>1, <3>2, Zenon
  <2> HIDE DEF entry, S
  <2> QED BY <2>1, <1>1, IsASeq
<1>4. s \in Seq(T)
  <2> HIDE DEF part, T
  <2>1. s \in Seq(T)
    BY <1>3, IsASeq
  <2> QED BY <2>1
<1>5. FlattenSeq(s) \in T
  <2> HIDE DEF s, S
  <2>1. Closed(T)
    BY SeqClosed
  <2> HIDE DEF T
  <2> QED BY <2>1, <1>4, FlatTyped
<1>6. BuildTable(symbols) = FlattenSeq(s)
  BY DEF BuildTable
<1> DEFINE table == BuildTable(symbols)
<1>7. table \in Seq(S)
  BY <1>5, <1>6
<1> HIDE DEF table, S, s, T, part, entry, first
<1>8. DOMAIN table = 1 .. Len(table) /\ Len(table) \in Nat
  BY <1>7, LenProperties
<1>9. \A i \in 1 .. Len(table) : table[i] \in S
  BY <1>7, ElementOfSeq
<1> QED BY <1>2, <1>8, <1>9 DEF IsTable, table

Found == [width : 0 .. 16, value : 0 .. 255]

LEMMA LookupTyped ==
  ASSUME NEW table, IsTable(table), NEW word
  PROVE  Lookup(table, word) \in Found
<1> DEFINE hits == Matching(table, word)
<1>1. CASE hits = {}
  BY <1>1 DEF Lookup, Found
<1>2. CASE hits # {}
  <2>1. hits \subseteq 1 .. Len(table) /\ Len(table) \in Nat
    BY DEF Matching, IsTable
  <2>2. Min(hits) \in 1 .. Len(table)
    <3> HIDE DEF hits
    <3>1. hits \subseteq Nat
      BY <2>1
    <3> QED BY <1>2, <2>1, <3>1, MinOf
  <2> HIDE DEF hits
  <2>3. table[Min(hits)].len \in 1 .. 16 /\ table[Min(hits)].value \in 0 .. 255
    BY <2>2 DEF IsTable
  <2>4. [width |-> table[Min(hits)].len, value |-> table[Min(hits)].value] \in Found
    BY <2>3 DEF Found
  <2>5. Lookup(table, word)
        = [width |-> table[Min(hits)].len, value |-> table[Min(hits)].value]
    BY <1>2 DEF Lookup, hits
  <2> QED BY <2>4, <2>5
<1> QED BY <1>1, <1>2

LEMMA Int16Ints == Int16s \subseteq Int
BY HalfIs DEF Int16s

LEMMA Int16Typed ==
  ASSUME NEW n \in Int
  PROVE  Int16(n) \in Int16s
<1> DEFINE m == (n + Half) % (2 * Half)
<1>1. m \in 0 .. 2 * Half - 1
  <2>1. n + Half \in Int /\ 2 * Half \in Nat \ {0}
    BY HalfIs
  <2> QED BY <2>1, DivMod
<1> HIDE DEF m
<1>2. m - Half \in -Half .. Half - 1
  BY <1>1, HalfIs
<1> QED BY <1>2 DEF Int16, Int16s, m

LEMMA NumberTyped ==
  ASSUME NEW code \in Nat, NEW bits \in 0 .. 15
  PROVE  DecodeNumber(code, bits) \in Int16s
<1>1. CASE bits # 0 /\ code < 2^(bits - 1)
  <2>1. bits \in 1 .. 15 /\ 2^bits \in Nat /\ 2^bits <= Half
    <3>1. bits \in 1 .. 15
      BY <1>1
    <3> QED BY <3>1, PowersBelow
  <2>2. 2^(bits - 1) \in Nat /\ 2^bits = 2 * 2^(bits - 1)
    <3> DEFINE b == bits - 1
    <3>1. b \in 0 .. 16 /\ b # 16 /\ b + 1 = bits
      BY <2>1
    <3> HIDE DEF b
    <3>2. 2^b \in Nat /\ 2^(b + 1) = 2 * 2^b
      BY <3>1, PowersOf
    <3> QED BY <3>1, <3>2 DEF b
  <2>3. DecodeNumber(code, bits) = code - 2^bits + 1
    BY <1>1 DEF DecodeNumber
  <2> DEFINE p == 2^bits  q == 2^(bits - 1)
  <2>4. p \in Nat /\ q \in Nat /\ p = 2 * q /\ p <= Half /\ code < q
        /\ DecodeNumber(code, bits) = code - p + 1
    BY <2>1, <2>2, <2>3, <1>1
  <2> HIDE DEF p, q
  <2> QED BY <2>4, HalfIs DEF Int16s
<1>2. CASE ~(bits # 0 /\ code < 2^(bits - 1))
  BY <1>2, Int16Typed DEF DecodeNumber
<1> QED BY <1>1, <1>2

-----------------------------------------------------------------------------
(* Everything has a value of its type.  TypeOK does not say enough of the  *)
(* tables, of the buffer and of the phases to be kept by every step; Typed *)
(* does.                                                                   *)
Bytes == Seq(0 .. 255)
Buffers == [mem : Bytes, wr : Int, last : 0 .. 255, rd : Nat]
Sample == [at : 0 .. 63, value : Int16s]
InScan == phase \in {"push", "mcu", "block"}

FileTyped ==
  /\ \E f \in Files : file = f.segments /\ picture = f.picture
  /\ pos \in 1 .. Len(file) + 1 /\ phase \in Phases
  /\ InScan => /\ pos \in 1 .. Len(file) /\ Segment.kind = "SOS"
               /\ frame.mode # "unsupported"

FrameTyped == frame.mode \in Modes /\ frame.w \in Nat /\ frame.h \in Nat

TablesTyped ==
  /\ dqt \in [0 .. 3 -> [0 .. 63 -> 0 .. 255]]
  /\ DOMAIN dht = 0 .. 3 /\ \A t \in 0 .. 3 : IsTable(dht[t])

BufferTyped ==
  /\ input \in Nat /\ buf \in Buffers
  /\ buf.wr \in {Len(buf.mem), Len(buf.mem) - 1}
  /\ phase = "push" => buf.wr = Len(buf.mem)

BlockTyped ==
  /\ dc \in [1 .. 3 -> Int16s]
  /\ coeff \in 0 .. 80 /\ samples \in Seq(Sample)
  /\ phase = "block" => unit \in 1 .. Len(Units)
  /\ phase # "block" => unit = 1 /\ coeff = 0 /\ samples = <<>>

PlaceTyped == blockNum \in Nat /\ loop \in Nat

Typed ==
  FileTyped /\ FrameTyped /\ TablesTyped /\ BufferTyped /\ BlockTyped /\ PlaceTyped

LEMMA UnitsAre ==
  /\ frame.mode = "mono" => Len(Units) = 1 /\ \A u \in 1 .. 1 : Units[u] \in 1 .. 3
  /\ frame.mode = "444" => Len(Units) = 3 /\ \A u \in 1 .. 3 : Units[u] \in 1 .. 3
  /\ frame.mode = "420" => Len(Units) = 6 /\ \A u \in 1 .. 6 : Units[u] \in 1 .. 3
<1>1. frame.mode = "mono" => Units = <<1>>
  BY DEF Units
<1>2. frame.mode = "444" => Units = <<1, 2, 3>>
  BY DEF Units
<1>3. frame.mode = "420" => Units = <<1, 1, 1, 1, 2, 3>>
  BY DEF Units
<1> QED BY <1>1, <1>2, <1>3

LEMMA TypedTypeOK ==
  ASSUME Typed
  PROVE  TypeOK
<1>1. unit \in 1 .. 6
  <2>1. CASE phase = "block"
    <3>1. frame.mode \in {"mono", "444", "420"}
      BY <2>1 DEF Typed, FileTyped, FrameTyped, InScan, Modes
    <3>2. unit \in 1 .. Len(Units)
      BY <2>1 DEF Typed, BlockTyped
    <3>3. Len(Units) = 1 \/ Len(Units) = 3 \/ Len(Units) = 6
      BY <3>1, UnitsAre
    <3> DEFINE N == Len(Units)
    <3>4. unit \in 1 .. N /\ (N = 1 \/ N = 3 \/ N = 6)
      BY <3>2, <3>3
    <3> HIDE DEF N
    <3> QED BY <3>4
  <2>2. CASE phase # "block"
    BY <2>2 DEF Typed, BlockTyped
  <2> QED BY <2>1, <2>2
<1>2. pos \in 1 .. Len(file) + 1 /\ phase \in Phases
  BY DEF Typed, FileTyped
<1>3. frame.mode \in Modes /\ frame.w \in Nat /\ frame.h \in Nat
  BY DEF Typed, FrameTyped
<1>4. dqt \in [0 .. 3 -> [0 .. 63 -> 0 .. 255]] /\ DOMAIN dht = 0 .. 3
  BY DEF Typed, TablesTyped
<1>5. /\ buf.wr \in {Len(buf.mem), Len(buf.mem) - 1} /\ buf.rd \in Nat
      /\ buf.mem \in Seq(0 .. 255) /\ buf.last \in 0 .. 255
  BY DEF Typed, BufferTyped, Buffers, Bytes
<1>6. dc \in [1 .. 3 -> Int16s] /\ coeff \in 0 .. 80 /\ samples \in Seq(Sample)
  BY DEF Typed, BlockTyped
<1>7. blockNum \in Nat /\ loop \in Nat
  BY DEF Typed, PlaceTyped
<1> QED BY <1>1, <1>2, <1>3, <1>4, <1>5, <1>6, <1>7, Zenon DEF TypeOK, Sample

\* The segments of a file.
LEMMA SegmentFacts ==
  ASSUME FileTyped, pos <= Len(file)
  PROVE  /\ pos \in 1 .. Len(file)
         /\ Segment.kind = "SOF0" => Segment.w \in Nat \ {0} /\ Segment.h \in Nat \ {0}
         /\ Segment.kind = "DQT" => Segment.tables \in Seq(Encoder!QTables) \ {<<>>}
         /\ Segment.kind = "DHT" => Segment.tables \in Seq(Encoder!HTables)
         /\ Segment.kind = "SOS" => /\ Segment.data \in Seq(0 .. 255)
                                    /\ Segment.next \in 1 .. 255
<1> DEFINE S == Encoder!Segments
<1>1. file \in Seq(S)
  BY FilesAssumption DEF FileTyped, Encoder!IsFile
<1>2. Len(file) \in Nat
  <2> HIDE DEF S
  <2> QED BY <1>1, LenProperties
<1>3. pos \in 1 .. Len(file)
  BY <1>2 DEF FileTyped
<1>4. Segment \in S
  <2> HIDE DEF S
  <2> QED BY <1>1, <1>3, ElementOfSeq DEF Segment
<1> QED BY <1>3, <1>4 DEF Encoder!Segments

LEMMA FileLength ==
  ASSUME FileTyped
  PROVE  Len(file) \in Nat
<1> DEFINE S == Encoder!Segments
<1>1. file \in Seq(S)
  BY FilesAssumption DEF FileTyped, Encoder!IsFile
<1> HIDE DEF S
<1> QED BY <1>1, LenProperties

LEMMA StreamTyped ==
  ASSUME FileTyped, pos <= Len(file), Segment.kind = "SOS"
  PROVE  Stream \in Seq(0 .. 255)
<1>1. Segment.data \in Seq(0 .. 255) /\ Segment.next \in 0 .. 255
  BY SegmentFacts
<1> DEFINE tail == IF pos < Len(file) THEN <<255, Segment.next>> ELSE <<>>
<1>2. tail \in Seq(0 .. 255)
  <2> DEFINE next == Segment.next
  <2>1. next \in 0 .. 255 /\ 255 \in 0 .. 255
    BY <1>1
  <2> HIDE DEF next
  <2>2. <<255, next>> \in Seq(0 .. 255) /\ <<>> \in Seq(0 .. 255)
    BY <2>1
  <2> QED BY <2>2 DEF next
<1> HIDE DEF tail
<1>3. Segment.data \o tail \in Seq(0 .. 255)
  BY <1>1, <1>2, ConcatProperties
<1> QED BY <1>3 DEF Stream, tail

\* What is read from the buffer.
LEMMA DivNat ==
  ASSUME NEW a \in Nat, NEW b \in Nat \ {0}
  PROVE  a \div b \in Nat
OBVIOUS

LEMMA InputTyped ==
  ASSUME BufferTyped, NEW skip \in Nat
  PROVE  Input(skip) \in Nat
<1> DEFINE at == buf.rd + skip
           n == at \div 8
           three == (Byte(n) * 256 + Byte(n + 1)) * 256 + Byte(n + 2)
           p == 2^(8 - (at % 8))
<1>1. at \in Nat /\ n \in Nat
  BY DEF BufferTyped, Buffers
<1>2. \A k \in Nat : Byte(k) \in Nat
  <2> TAKE k \in Nat
  <2> DEFINE m == buf.mem
  <2>1. m \in Seq(0 .. 255)
    BY DEF BufferTyped, Buffers, Bytes
  <2> HIDE DEF m
  <2>2. Len(m) \in Nat
    BY <2>1, LenProperties
  <2>3. CASE k < Len(m)
    <3>1. k + 1 \in 1 .. Len(m)
      BY <2>2, <2>3
    <3> DEFINE j == k + 1
    <3> HIDE DEF j
    <3>2. m[j] \in 0 .. 255
      BY <2>1, <3>1, ElementOfSeq DEF j
    <3>3. Byte(k) = m[j]
      BY <2>3 DEF Byte, m, j
    <3> QED BY <3>2, <3>3
  <2>4. CASE ~(k < Len(m))
    BY <2>4 DEF Byte, m
  <2> QED BY <2>3, <2>4
<1>3. three \in Nat
  <2> HIDE DEF n
  <2>1. Byte(n) \in Nat /\ Byte(n + 1) \in Nat /\ Byte(n + 2) \in Nat
    BY <1>1, <1>2
  <2> QED BY <2>1
<1>4. p \in Nat \ {0}
  <2> HIDE DEF at
  <2>1. 8 - (at % 8) \in 0 .. 16
    BY <1>1
  <2> QED BY <2>1, PowersOf
<1> HIDE DEF at, n, three, p
<1>5. three \div p \in Int
  BY <1>3, <1>4, DivNat
<1>6. (three \div p) % (2 * Half) \in 0 .. 2 * Half - 1
  <2> DEFINE d == three \div p
  <2>1. d \in Int /\ 2 * Half \in Nat \ {0}
    BY <1>5, HalfIs
  <2> HIDE DEF d
  <2> QED BY <2>1, DivMod DEF d
<1>7. (three \div p) % (2 * Half) \in Nat
  BY <1>6, HalfIs
<1> QED BY <1>7 DEF Input, at, n, three, p

LEMMA ReadTyped ==
  ASSUME BufferTyped, NEW entry \in Found
  PROVE  Number(entry) \in Int16s /\ entry.width \in Nat /\ entry.value % 16 \in Nat
         /\ entry.value \div 16 \in 0 .. 15
<1> DEFINE bits == entry.value % 16
           p == 2^(16 - bits)
           code == Input(entry.width) \div p
<1>1. entry.width \in Nat /\ entry.value \in 0 .. 255
  BY DEF Found
<1>2. bits \in 0 .. 15 /\ entry.value \div 16 \in 0 .. 15 /\ 16 - bits \in 0 .. 16
  BY <1>1
<1>3. p \in Nat \ {0}
  <2> HIDE DEF bits
  <2> QED BY <1>2, PowersOf
<1>4. Input(entry.width) \in Nat
  BY <1>1, InputTyped
<1>5. code \in Nat
  <2> HIDE DEF p
  <2> QED BY <1>3, <1>4, DivNat
<1>6. DecodeNumber(code, bits) \in Int16s
  <2> HIDE DEF code, bits
  <2> QED BY <1>2, <1>5, NumberTyped
<1>7. Number(entry) = DecodeNumber(code, bits)
  BY DEF Number
<1> QED BY <1>1, <1>2, <1>6, <1>7

LEMMA InitTyped ==
  ASSUME Init
  PROVE  Typed
<1>1. FileTyped
  <2>1. PICK f \in Files : file = f.segments /\ picture = f.picture
    BY DEF Init
  <2>2. file \in Seq(Encoder!Segments)
    BY <2>1, FilesAssumption DEF Encoder!IsFile
  <2>3. Len(file) \in Nat
    <3> DEFINE S == Encoder!Segments
    <3>1. file \in Seq(S)
      BY <2>2
    <3> HIDE DEF S
    <3> QED BY <3>1, LenProperties
  <2>4. pos = 1 /\ phase = "segments"
    BY DEF Init
  <2>5. pos \in 1 .. Len(file) + 1 /\ phase \in Phases /\ ~InScan
    BY <2>3, <2>4 DEF Phases, InScan
  <2> QED BY <2>1, <2>5 DEF FileTyped
<1>2. FrameTyped
  BY DEF Init, FrameTyped, Modes
<1>3. TablesTyped
  <2>1. dqt \in [0 .. 3 -> [0 .. 63 -> 0 .. 255]]
    BY DEF Init
  <2>2. dht = [t \in 0 .. 3 |-> <<>>]
    BY DEF Init
  <2>3. IsTable(<<>>)
    BY DEF IsTable
  <2> HIDE DEF IsTable
  <2>4. DOMAIN dht = 0 .. 3 /\ \A t \in 0 .. 3 : IsTable(dht[t])
    BY <2>2, <2>3
  <2> QED BY <2>1, <2>4 DEF TablesTyped
<1>4. BufferTyped
  <2>1. buf = [mem |-> <<>>, wr |-> 0, last |-> 0, rd |-> 0] /\ phase = "segments"
    BY DEF Init, EmptyBuffer
  <2>2. buf \in Buffers /\ Len(buf.mem) = 0 /\ buf.wr = 0
    BY <2>1, EmptySeq DEF Buffers, Bytes
  <2>3. input = 0
    BY DEF Init
  <2> QED BY <2>1, <2>2, <2>3 DEF BufferTyped
<1>5. BlockTyped
  <2>1. dc = [c \in 1 .. 3 |-> 0] /\ 0 \in Int16s
    BY HalfIs DEF Init, Int16s
  <2>2. dc \in [1 .. 3 -> Int16s]
    BY <2>1
  <2>3. phase = "segments" /\ unit = 1 /\ coeff = 0 /\ samples = <<>>
    BY DEF Init
  <2>4. samples \in Seq(Sample)
    BY <2>3, EmptySeq
  <2> QED BY <2>2, <2>3, <2>4 DEF BlockTyped
<1>6. PlaceTyped
  BY DEF Init, PlaceTyped
<1> QED BY <1>1, <1>2, <1>3, <1>4, <1>5, <1>6 DEF Typed

\* What a step leaves alone keeps its type.
LEMMA TablesKept ==
  ASSUME TablesTyped, UNCHANGED <<dqt, dht>>
  PROVE  TablesTyped'
BY DEF TablesTyped

LEMMA BufferKept ==
  ASSUME BufferTyped, UNCHANGED <<input, buf>>, phase' # "push"
  PROVE  BufferTyped'
BY DEF BufferTyped

LEMMA BlockKept ==
  ASSUME BlockTyped, UNCHANGED <<dc, unit, coeff, samples>>,
         phase # "block", phase' # "block"
  PROVE  BlockTyped'
BY DEF BlockTyped

LEMMA PlaceKept ==
  ASSUME PlaceTyped, UNCHANGED <<blockNum, loop>>
  PROVE  PlaceTyped'
BY DEF PlaceTyped

\* A segment that is read, not scanned.
LEMMA SegmentRead ==
  ASSUME FileTyped, phase = "segments", pos <= Len(file),
         NextSegment, UNCHANGED <<file, picture, phase>>
  PROVE  FileTyped'
<1>1. Len(file) \in Nat
  BY FileLength
<1>2. pos' \in 1 .. Len(file) + 1
  BY <1>1 DEF FileTyped, NextSegment
<1>3. ~InScan'
  BY DEF InScan
<1> QED BY <1>2, <1>3 DEF FileTyped

LEMMA ModeTyped ==
  ASSUME NEW comps
  PROVE  Mode(comps) \in Modes
BY DEF Mode, Modes

LEMMA TypedSof0 ==
  ASSUME Typed, Sof0
  PROVE  Typed'
<1>1. phase = "segments" /\ pos <= Len(file) /\ Segment.kind = "SOF0"
      /\ NextSegment /\ UNCHANGED <<file, picture, phase, dqt, dht, decoding>>
  BY DEF Sof0, At
<1>2. FileTyped'
  BY <1>1, SegmentRead DEF Typed
<1>3. FrameTyped'
  <2>1. Segment.w \in Nat /\ Segment.h \in Nat
    BY <1>1, SegmentFacts DEF Typed
  <2>2. frame'.mode = Mode(Segment.comps) /\ frame'.w = Segment.w
        /\ frame'.h = Segment.h
    BY DEF Sof0
  <2> QED BY <2>1, <2>2, ModeTyped DEF FrameTyped
<1>4. TablesTyped' /\ PlaceTyped'
  BY <1>1, TablesKept, PlaceKept DEF Typed, decoding
<1>5. BufferTyped'
  BY <1>1, BufferKept DEF Typed, decoding
<1>6. BlockTyped'
  BY <1>1, BlockKept DEF Typed, decoding
<1> QED BY <1>2, <1>3, <1>4, <1>5, <1>6 DEF Typed

LEMMA TypedDqt ==
  ASSUME Typed, Dqt
  PROVE  Typed'
<1>1. phase = "segments" /\ pos <= Len(file) /\ Segment.kind = "DQT"
      /\ NextSegment /\ UNCHANGED <<file, picture, phase, frame, dht, decoding>>
  BY DEF Dqt, At
<1>2. FileTyped'
  BY <1>1, SegmentRead DEF Typed
<1>3. FrameTyped'
  BY <1>1 DEF Typed, FrameTyped
<1>4. TablesTyped'
  <2> DEFINE tables == Segment.tables
             t == Head(tables)
             Q == Encoder!QTables
  <2>1. tables \in Seq(Q) /\ tables # <<>>
    BY <1>1, SegmentFacts DEF Typed
  <2>2. t \in Q
    <3> HIDE DEF tables, Q
    <3> QED BY <2>1, HeadTailProperties
  <2>3. t.id % 4 \in 0 .. 3 /\ t.factors \in [0 .. 63 -> 0 .. 255]
    <3> HIDE DEF t
    <3>1. t.id \in 0 .. 3
      BY <2>2, Zenon DEF Encoder!QTables
    <3>2. t.factors \in [0 .. 63 -> 0 .. 255]
      BY <2>2, Zenon DEF Encoder!QTables
    <3>3. \A d \in 0 .. 3 : d % 4 \in 0 .. 3
      OBVIOUS
    <3> QED BY <3>1, <3>2, <3>3, Zenon
  <2>4. dqt' = [dqt EXCEPT ![t.id % 4] = t.factors]
    BY DEF Dqt
  <2> HIDE DEF t
  <2>5. dqt' \in [0 .. 3 -> [0 .. 63 -> 0 .. 255]]
    BY <2>3, <2>4 DEF Typed, TablesTyped
  <2> QED BY <1>1, <2>5 DEF Typed, TablesTyped
<1>5. BufferTyped' /\ PlaceTyped'
  BY <1>1, BufferKept, PlaceKept DEF Typed, decoding
<1>6. BlockTyped'
  BY <1>1, BlockKept DEF Typed, decoding
<1> QED BY <1>2, <1>3, <1>4, <1>5, <1>6 DEF Typed

LEMMA TypedDht ==
  ASSUME Typed, Dht
  PROVE  Typed'
<1>1. phase = "segments" /\ pos <= Len(file) /\ Segment.kind = "DHT"
      /\ NextSegment /\ UNCHANGED <<file, picture, phase, frame, dqt, decoding>>
  BY DEF Dht, At
<1>2. FileTyped'
  BY <1>1, SegmentRead DEF Typed
<1>3. FrameTyped'
  BY <1>1 DEF Typed, FrameTyped
<1>4. TablesTyped'
  <2> DEFINE tables == Segment.tables
             given(t) == {n \in 1 .. Len(tables) : tables[n].id = t}
             H == Encoder!HTables
             new(t) == BuildTable(tables[Max(given(t))].symbols)
  <2>1. tables \in Seq(H)
    BY <1>1, SegmentFacts DEF Typed
  <2>2. Len(tables) \in Nat /\ \A n \in 1 .. Len(tables) : tables[n] \in H
    <3> HIDE DEF tables, H
    <3> QED BY <2>1, LenProperties, ElementOfSeq
  <2>3. ASSUME NEW t \in 0 .. 3, given(t) # {}
        PROVE  IsTable(new(t))
    <3> DEFINE m == Max(given(t))
    <3>1. m \in 1 .. Len(tables)
      <4> DEFINE G == given(t)
      <4>1. G \subseteq 1 .. Len(tables) /\ G # {}
        BY <2>3
      <4> HIDE DEF G
      <4>2. Max(G) \in 1 .. Len(tables)
        BY <4>1, <2>2, MaxOf
      <4> QED BY <4>2 DEF G
    <3> HIDE DEF m
    <3>2. tables[m] \in H
      BY <3>1, <2>2
    <3>3. tables[m].symbols \in Encoder!Codes
      BY <3>2 DEF Encoder!HTables
    <3>4. IsTable(BuildTable(tables[m].symbols))
      BY <3>3, BuildTyped
    <3> QED BY <3>4 DEF m
  <2>4. dht' = [t \in 0 .. 3 |-> IF given(t) = {} THEN dht[t] ELSE new(t)]
    BY DEF Dht
  <2> HIDE DEF given, new, tables
  <2>5. DOMAIN dht' = 0 .. 3 /\ \A t \in 0 .. 3 : IsTable(dht'[t])
    BY <2>3, <2>4 DEF Typed, TablesTyped
  <2> QED BY <1>1, <2>5 DEF Typed, TablesTyped
<1>5. BufferTyped' /\ PlaceTyped'
  BY <1>1, BufferKept, PlaceKept DEF Typed, decoding
<1>6. BlockTyped'
  BY <1>1, BlockKept DEF Typed, decoding
<1> QED BY <1>2, <1>3, <1>4, <1>5, <1>6 DEF Typed

LEMMA TypedSkip ==
  ASSUME Typed, Skip
  PROVE  Typed'
<1>1. phase = "segments" /\ pos <= Len(file)
      /\ NextSegment /\ UNCHANGED <<file, picture, phase, frame, dqt, dht, decoding>>
  BY DEF Skip, At
<1>2. FileTyped'
  BY <1>1, SegmentRead DEF Typed
<1>3. FrameTyped'
  BY <1>1 DEF Typed, FrameTyped
<1>4. TablesTyped' /\ PlaceTyped'
  BY <1>1, TablesKept, PlaceKept DEF Typed, decoding
<1>5. BufferTyped'
  BY <1>1, BufferKept DEF Typed, decoding
<1>6. BlockTyped'
  BY <1>1, BlockKept DEF Typed, decoding
<1> QED BY <1>2, <1>3, <1>4, <1>5, <1>6 DEF Typed

LEMMA TypedEnd ==
  ASSUME Typed, End
  PROVE  Typed'
<1>1. phase = "segments" /\ phase' = "done"
      /\ UNCHANGED <<file, picture, pos, frame, dqt, dht, decoding>>
  BY DEF End
<1>2. FileTyped'
  BY <1>1 DEF Typed, FileTyped, InScan, Phases
<1>3. FrameTyped'
  BY <1>1 DEF Typed, FrameTyped
<1>4. TablesTyped' /\ PlaceTyped'
  BY <1>1, TablesKept, PlaceKept DEF Typed, decoding
<1>5. BufferTyped'
  BY <1>1, BufferKept DEF Typed, decoding
<1>6. BlockTyped'
  BY <1>1, BlockKept DEF Typed, decoding
<1> QED BY <1>2, <1>3, <1>4, <1>5, <1>6 DEF Typed

LEMMA TypedSos ==
  ASSUME Typed, Sos
  PROVE  Typed'
<1>1. /\ phase = "segments" /\ pos <= Len(file) /\ Segment.kind = "SOS"
      /\ frame.mode # "unsupported" /\ phase' = "push"
      /\ UNCHANGED <<file, picture, pos, frame, dqt, dht, dc, unit, coeff, samples,
                     decoded, placed, blockNum, loop>>
  BY DEF Sos, At, Unsupported
<1>2. FileTyped'
  <2>1. pos \in 1 .. Len(file)
    BY <1>1, SegmentFacts DEF Typed
  <2> QED BY <1>1, <2>1 DEF Typed, FileTyped, Segment, Phases
<1>3. FrameTyped'
  BY <1>1 DEF Typed, FrameTyped
<1>4. TablesTyped' /\ PlaceTyped'
  BY <1>1, TablesKept, PlaceKept DEF Typed
<1>5. BufferTyped'
  <2>1. buf' = [mem |-> <<>>, wr |-> 0, last |-> 0, rd |-> 0]
    BY DEF Sos, EmptyBuffer
  <2>2. buf' \in Buffers /\ Len(buf'.mem) = 0 /\ buf'.wr = 0
    BY <2>1, EmptySeq DEF Buffers, Bytes
  <2>3. input' = 0
    BY DEF Sos
  <2> QED BY <2>2, <2>3 DEF BufferTyped
<1>6. BlockTyped'
  BY <1>1, BlockKept DEF Typed
<1> QED BY <1>2, <1>3, <1>4, <1>5, <1>6 DEF Typed

\* The scan goes on: the segment stays.
LEMMA StillScanning ==
  ASSUME FileTyped, InScan, UNCHANGED <<file, picture, pos, frame>>,
         phase' \in Phases
  PROVE  FileTyped'
BY DEF FileTyped, Segment

LEMMA BytePushed ==
  ASSUME buf \in Buffers, buf.wr = Len(buf.mem), NEW b \in 0 .. 255
  PROVE  Pushed(b) \in Buffers /\ Pushed(b).wr = Len(Pushed(b).mem)
<1>1. CASE buf.last = 255 /\ b = 0
  <2>1. Pushed(b) = [buf EXCEPT !.last = b]
    BY <1>1 DEF Pushed
  <2> QED BY <2>1 DEF Buffers
<1>2. CASE ~(buf.last = 255 /\ b = 0)
  <2> DEFINE mem == Append(buf.mem, b)
             p == Pushed(b)
  <2>1. p = [buf EXCEPT !.mem = mem, !.wr = @ + 1, !.last = b]
    BY <1>2 DEF Pushed
  <2>2. buf.mem \in Seq(0 .. 255)
    BY DEF Buffers, Bytes
  <2>3. mem \in Seq(0 .. 255) /\ Len(mem) = Len(buf.mem) + 1 /\ Len(buf.mem) \in Nat
    BY <2>2, AppendProperties, LenProperties
  <2> HIDE DEF mem, p
  <2>4. p.mem = mem /\ p.wr = buf.wr + 1 /\ p.last = b /\ p.rd = buf.rd
        /\ p = [mem |-> p.mem, wr |-> p.wr, last |-> p.last, rd |-> p.rd]
    BY <2>1 DEF Buffers
  <2>5. p.mem \in Bytes /\ p.wr \in Int /\ p.last \in 0 .. 255 /\ p.rd \in Nat
    BY <2>3, <2>4 DEF Buffers, Bytes
  <2>6. p \in Buffers
    BY <2>4, <2>5, Zenon DEF Buffers
  <2> QED BY <2>3, <2>4, <2>6 DEF p
<1> QED BY <1>1, <1>2

LEMMA TypedPush ==
  ASSUME Typed, Push
  PROVE  Typed'
<1>1. /\ phase = "push" /\ input < Len(Stream) /\ input' = input + 1
      /\ buf' = Pushed(Stream[input + 1])
      /\ UNCHANGED <<file, picture, pos, phase, frame, dqt, dht, dc, unit, coeff,
                     samples, decoded, placed, blockNum, loop>>
  BY DEF Push
<1>2. FileTyped'
  BY <1>1, StillScanning DEF Typed, FileTyped, InScan
<1>3. FrameTyped'
  BY <1>1 DEF Typed, FrameTyped
<1>4. TablesTyped' /\ PlaceTyped'
  BY <1>1, TablesKept, PlaceKept DEF Typed
<1>5. BufferTyped'
  <2> DEFINE b == Stream[input + 1]
  <2>1. b \in 0 .. 255
    <3>1. Stream \in Seq(0 .. 255)
      BY <1>1, StreamTyped DEF Typed, FileTyped, InScan
    <3>2. input + 1 \in 1 .. Len(Stream)
      <4>1. input \in Nat /\ Len(Stream) \in Nat
        BY <3>1, LenProperties DEF Typed, BufferTyped
      <4> QED BY <1>1, <4>1
    <3> QED BY <3>1, <3>2, ElementOfSeq
  <2>2. buf \in Buffers /\ buf.wr = Len(buf.mem)
    BY <1>1 DEF Typed, BufferTyped
  <2> HIDE DEF b
  <2>3. buf' \in Buffers /\ buf'.wr = Len(buf'.mem)
    BY <1>1, <2>1, <2>2, BytePushed DEF b
  <2>4. input' \in Nat
    BY <1>1 DEF Typed, BufferTyped
  <2> QED BY <2>3, <2>4 DEF BufferTyped
<1>6. BlockTyped'
  BY <1>1, BlockKept DEF Typed
<1> QED BY <1>2, <1>3, <1>4, <1>5, <1>6 DEF Typed

LEMMA BufferMoved ==
  ASSUME buf \in Buffers, NEW n \in Nat
  PROVE  /\ [buf EXCEPT !.wr = @ - 1] \in Buffers
         /\ [buf EXCEPT !.wr = @ - 1].mem = buf.mem
         /\ [buf EXCEPT !.wr = @ - 1].wr = buf.wr - 1
         /\ [buf EXCEPT !.rd = @ + n] \in Buffers
         /\ [buf EXCEPT !.rd = @ + n].mem = buf.mem
         /\ [buf EXCEPT !.rd = @ + n].wr = buf.wr
<1>1. buf.wr - 1 \in Int /\ buf.rd + n \in Nat
  BY DEF Buffers
<1> DEFINE w == buf.wr - 1  r == buf.rd + n
<1>2. w \in Int /\ r \in Nat
  BY <1>1
<1> HIDE DEF w, r
<1>3. [buf EXCEPT !.wr = w] \in Buffers /\ [buf EXCEPT !.rd = r] \in Buffers
  BY <1>2 DEF Buffers
<1>4. /\ [buf EXCEPT !.wr = w].mem = buf.mem /\ [buf EXCEPT !.wr = w].wr = w
      /\ [buf EXCEPT !.rd = r].mem = buf.mem /\ [buf EXCEPT !.rd = r].wr = buf.wr
  BY DEF Buffers
<1> QED BY <1>3, <1>4 DEF w, r

LEMMA TypedStartImage ==
  ASSUME Typed, StartImage
  PROVE  Typed'
<1>1. /\ phase = "push" /\ phase' = "mcu"
      /\ dc' = [c \in 1 .. 3 |-> 0] /\ blockNum' = 0 /\ loop' = 0
      /\ UNCHANGED <<file, picture, pos, frame, dqt, dht, input, unit, coeff,
                     samples, decoded, placed>>
  BY DEF StartImage
<1>2. FileTyped'
  BY <1>1, StillScanning DEF Typed, InScan, Phases
<1>3. FrameTyped'
  BY <1>1 DEF Typed, FrameTyped
<1>4. TablesTyped' /\ PlaceTyped'
  BY <1>1, TablesKept DEF Typed, PlaceTyped
<1>5. BufferTyped'
  <2>1. buf \in Buffers /\ buf.wr = Len(buf.mem) /\ input \in Nat
    BY <1>1 DEF Typed, BufferTyped
  <2>2. CASE buf' = buf
    BY <1>1, <2>1, <2>2 DEF BufferTyped
  <2>3. CASE buf' = [buf EXCEPT !.wr = @ - 1]
    <3>3. buf' \in Buffers /\ buf'.mem = buf.mem /\ buf'.wr = Len(buf.mem) - 1
      BY <2>1, <2>3, BufferMoved
    <3> QED BY <1>1, <2>1, <3>3 DEF BufferTyped
  <2> QED BY <2>2, <2>3 DEF StartImage
<1>6. BlockTyped'
  <2>1. 0 \in Int16s
    BY HalfIs DEF Int16s
  <2>2. dc' \in [1 .. 3 -> Int16s]
    BY <1>1, <2>1
  <2> QED BY <1>1, <2>2 DEF Typed, BlockTyped
<1> QED BY <1>2, <1>3, <1>4, <1>5, <1>6 DEF Typed

LEMMA SomeUnits ==
  ASSUME FrameTyped, frame.mode # "unsupported"
  PROVE  /\ Len(Units) \in Nat /\ 1 \in 1 .. Len(Units)
         /\ \A u \in 1 .. Len(Units) : Units[u] \in 1 .. 3
<1>1. frame.mode = "mono" \/ frame.mode = "444" \/ frame.mode = "420"
  BY DEF FrameTyped, Modes
<1> QED BY <1>1, UnitsAre

LEMMA TypedStartMcu ==
  ASSUME Typed, StartMcu
  PROVE  Typed'
<1>1. /\ phase = "mcu" /\ phase' = "block"
      /\ UNCHANGED <<file, picture, pos, frame, dqt, dht, decoding>>
  BY DEF StartMcu
<1>2. FileTyped'
  BY <1>1, StillScanning DEF Typed, InScan, Phases
<1>3. FrameTyped'
  BY <1>1 DEF Typed, FrameTyped
<1>4. TablesTyped' /\ PlaceTyped'
  BY <1>1, TablesKept, PlaceKept DEF Typed, decoding
<1>5. BufferTyped'
  BY <1>1, BufferKept DEF Typed, decoding
<1>6. BlockTyped'
  <2>1. frame.mode # "unsupported"
    BY <1>1 DEF Typed, FileTyped, InScan
  <2>2. 1 \in 1 .. Len(Units)
    BY <2>1, SomeUnits DEF Typed
  <2>3. Units' = Units
    BY <1>1 DEF Units
  <2>4. unit = 1 /\ UNCHANGED <<dc, unit, coeff, samples>>
    BY <1>1 DEF Typed, BlockTyped, decoding
  <2> QED BY <1>1, <2>2, <2>3, <2>4 DEF Typed, BlockTyped
<1> QED BY <1>2, <1>3, <1>4, <1>5, <1>6 DEF Typed

LEMMA TypedFinishImage ==
  ASSUME Typed, FinishImage
  PROVE  Typed'
<1>1. /\ phase = "mcu" /\ phase' = "segments" /\ NextSegment
      /\ UNCHANGED <<file, picture, frame, dqt, dht, decoding>>
  BY DEF FinishImage
<1>2. FileTyped'
  <2>1. Len(file) \in Nat /\ pos \in 1 .. Len(file)
    BY <1>1, FileLength DEF Typed, FileTyped, InScan
  <2>2. pos' \in 1 .. Len(file) + 1 /\ ~InScan'
    BY <1>1, <2>1 DEF NextSegment, InScan
  <2> QED BY <1>1, <2>2 DEF Typed, FileTyped, Phases
<1>3. FrameTyped'
  BY <1>1 DEF Typed, FrameTyped
<1>4. TablesTyped' /\ PlaceTyped'
  BY <1>1, TablesKept, PlaceKept DEF Typed, decoding
<1>5. BufferTyped'
  BY <1>1, BufferKept DEF Typed, decoding
<1>6. BlockTyped'
  BY <1>1, BlockKept DEF Typed, decoding
<1> QED BY <1>2, <1>3, <1>4, <1>5, <1>6 DEF Typed

\* Inside a block.
LEMMA Advanced ==
  ASSUME BufferTyped, NEW bits \in Nat, Advance(bits), UNCHANGED <<input, phase>>
  PROVE  BufferTyped'
<1>1. buf' = [buf EXCEPT !.rd = @ + bits]
  BY DEF Advance
<1>2. buf \in Buffers
  BY DEF BufferTyped
<1>3. buf' \in Buffers /\ buf'.mem = buf.mem /\ buf'.wr = buf.wr
  BY <1>1, <1>2, BufferMoved
<1> QED BY <1>3 DEF BufferTyped

LEMMA InsideBlock ==
  ASSUME Typed, phase = "block", UNCHANGED block,
         NEW bits \in Nat, Advance(bits),
         dc' \in [1 .. 3 -> Int16s], coeff' \in 0 .. 80, samples' \in Seq(Sample)
  PROVE  Typed'
<1>1. UNCHANGED <<file, picture, pos, phase, frame, dqt, dht, input, unit, blockNum, loop>>
  BY DEF block
<1>2. FileTyped'
  BY <1>1, StillScanning DEF Typed, FileTyped, InScan
<1>3. FrameTyped'
  BY <1>1 DEF Typed, FrameTyped
<1>4. TablesTyped' /\ PlaceTyped'
  BY <1>1, TablesKept, PlaceKept DEF Typed
<1>5. BufferTyped'
  BY <1>1, Advanced DEF Typed
<1>6. BlockTyped'
  <2>1. Units' = Units
    BY <1>1 DEF Units
  <2> QED BY <1>1, <2>1 DEF Typed, BlockTyped
<1> QED BY <1>2, <1>3, <1>4, <1>5, <1>6 DEF Typed

LEMMA CompTyped ==
  ASSUME Typed, phase = "block"
  PROVE  Comp \in 1 .. 3
<1>1. frame.mode # "unsupported" /\ unit \in 1 .. Len(Units)
  BY DEF Typed, FileTyped, BlockTyped, InScan
<1> QED BY <1>1, SomeUnits DEF Typed, Comp

LEMMA EntryTyped ==
  ASSUME Typed, phase = "block"
  PROVE  Lookup(DcTable, Input(0)) \in Found /\ AcEntry \in Found
<1>1. \A t \in 0 .. 3 : IsTable(dht[t])
  BY DEF Typed, TablesTyped
<1>2. IsTable(dht[0]) /\ IsTable(dht[1]) /\ IsTable(dht[2]) /\ IsTable(dht[3])
  BY <1>1
<1>3. (DcTable = dht[0] \/ DcTable = dht[2]) /\ (AcTable = dht[1] \/ AcTable = dht[3])
  BY Zenon DEF DcTable, AcTable
<1>4. IsTable(DcTable) /\ IsTable(AcTable)
  BY <1>2, <1>3, Zenon
<1> QED BY <1>4, LookupTyped DEF AcEntry

LEMMA TypedDc ==
  ASSUME Typed, Dc
  PROVE  Typed'
<1> DEFINE entry == Lookup(DcTable, Input(0))
           value == Int16(Number(entry) + dc[Comp])
<1>1. /\ phase = "block" /\ UNCHANGED block
      /\ coeff' = 1
      /\ Advance(entry.width + (entry.value % 16))
      /\ dc' = [dc EXCEPT ![Comp] = value]
      /\ samples' = <<[at |-> 0, value |-> value]>>
  BY DEF Dc
<1>2. entry \in Found
  BY <1>1, EntryTyped
<1>3. Comp \in 1 .. 3
  BY <1>1, CompTyped
<1>4. dc \in [1 .. 3 -> Int16s]
  BY DEF Typed, BlockTyped
<1> HIDE DEF entry
<1>5. Number(entry) \in Int16s /\ entry.width \in Nat /\ entry.value % 16 \in Nat
  BY <1>2, ReadTyped DEF Typed
<1>6. Number(entry) + dc[Comp] \in Int
  <2>1. dc[Comp] \in Int /\ Number(entry) \in Int
    BY <1>3, <1>4, <1>5, Int16Ints
  <2> QED BY <2>1
<1>7. value \in Int16s
  BY <1>6, Int16Typed
<1> HIDE DEF value
<1>8. dc' \in [1 .. 3 -> Int16s]
  BY <1>1, <1>3, <1>4, <1>7
<1>9. samples' \in Seq(Sample)
  <2> DEFINE s == [at |-> 0, value |-> value]
  <2>1. s \in Sample
    BY <1>7 DEF Sample
  <2> HIDE DEF s
  <2>2. <<s>> \in Seq(Sample)
    BY <2>1
  <2> QED BY <1>1, <2>2 DEF s
<1>10. entry.width + (entry.value % 16) \in Nat /\ coeff' \in 0 .. 80
  BY <1>1, <1>5
<1> QED BY <1>1, <1>8, <1>9, <1>10, InsideBlock

LEMMA TypedEndOfBlock ==
  ASSUME Typed, EndOfBlock
  PROVE  Typed'
<1>1. phase = "block" /\ Advance(AcEntry.width) /\ coeff' = 64
      /\ UNCHANGED <<block, dc, samples>>
  BY DEF EndOfBlock, InBlock
<1>2. AcEntry.width \in Nat
  BY <1>1, EntryTyped, ReadTyped DEF Typed
<1>3. dc' \in [1 .. 3 -> Int16s] /\ coeff' \in 0 .. 80 /\ samples' \in Seq(Sample)
  BY <1>1 DEF Typed, BlockTyped
<1> QED BY <1>1, <1>2, <1>3, InsideBlock

LEMMA TypedSixteenZeros ==
  ASSUME Typed, SixteenZeros
  PROVE  Typed'
<1>1. phase = "block" /\ coeff \in 1 .. 63 /\ Advance(AcEntry.width)
      /\ coeff' = coeff + 16 /\ UNCHANGED <<block, dc, samples>>
  BY DEF SixteenZeros, InBlock
<1>2. AcEntry.width \in Nat
  BY <1>1, EntryTyped, ReadTyped DEF Typed
<1>3. dc' \in [1 .. 3 -> Int16s] /\ coeff' \in 0 .. 80 /\ samples' \in Seq(Sample)
  BY <1>1 DEF Typed, BlockTyped
<1> QED BY <1>1, <1>2, <1>3, InsideBlock

LEMMA TypedAc ==
  ASSUME Typed, Ac
  PROVE  Typed'
<1> DEFINE entry == AcEntry
           at == coeff + entry.value \div 16
           s == [at |-> at, value |-> Number(entry)]
<1>1. /\ phase = "block" /\ coeff \in 1 .. 63 /\ UNCHANGED <<block, dc>>
      /\ Advance(entry.width + (entry.value % 16))
      /\ samples' = IF at < 64 THEN Append(samples, s) ELSE samples
      /\ coeff' = at + 1
  BY DEF Ac, InBlock
<1>2. entry \in Found
  BY <1>1, EntryTyped
<1> HIDE DEF entry
<1>3. Number(entry) \in Int16s /\ entry.width \in Nat /\ entry.value % 16 \in Nat
      /\ entry.value \div 16 \in 0 .. 15
  BY <1>2, ReadTyped DEF Typed
<1>4. at \in 1 .. 78 /\ coeff' \in 0 .. 80
      /\ entry.width + (entry.value % 16) \in Nat
  <2> DEFINE q == entry.value \div 16
  <2>1. at = coeff + q /\ q \in 0 .. 15 /\ coeff \in 1 .. 63
    BY <1>1, <1>3
  <2>2. coeff' = at + 1
    BY <1>1
  <2> HIDE DEF q, at
  <2>3. at \in 1 .. 78 /\ coeff' \in 0 .. 80
    BY <2>1, <2>2
  <2> QED BY <2>3, <1>3
<1> HIDE DEF at
<1>5. samples \in Seq(Sample)
  BY DEF Typed, BlockTyped
<1>6. samples' \in Seq(Sample)
  <2>1. CASE at < 64
    <3>1. s \in Sample
      BY <1>3, <1>4, <2>1 DEF Sample
    <3> HIDE DEF s
    <3> QED BY <1>1, <1>5, <2>1, <3>1, AppendProperties
  <2>2. CASE ~(at < 64)
    BY <1>1, <1>5, <2>2
  <2> QED BY <2>1, <2>2
<1>7. dc' \in [1 .. 3 -> Int16s]
  BY <1>1 DEF Typed, BlockTyped
<1> QED BY <1>1, <1>4, <1>6, <1>7, InsideBlock

LEMMA WideTyped ==
  ASSUME FrameTyped
  PROVE  Blocks(frame.w) \in Nat
BY DEF FrameTyped, Blocks

LEMMA TypedFinishBlock ==
  ASSUME Typed, FinishBlock
  PROVE  Typed'
<1>1. /\ phase = "block" /\ coeff' = 0 /\ samples' = <<>>
      /\ UNCHANGED <<file, picture, pos, frame, dqt, dht, input, buf, dc>>
  BY DEF FinishBlock
<1>2. \/ unit < Len(Units) /\ unit' = unit + 1 /\ UNCHANGED <<phase, placed, blockNum, loop>>
      \/ unit = Len(Units) /\ Move /\ unit' = 1 /\ phase' = "mcu"
  BY DEF FinishBlock
<1>3. phase' \in Phases /\ phase' # "push"
  BY <1>1, <1>2 DEF Phases
<1>4. FileTyped'
  BY <1>1, <1>3, StillScanning DEF Typed, FileTyped, InScan
<1>5. FrameTyped'
  BY <1>1 DEF Typed, FrameTyped
<1>6. TablesTyped'
  BY <1>1, TablesKept DEF Typed
<1>7. BufferTyped'
  BY <1>1, <1>3, BufferKept DEF Typed
<1>8. BlockTyped'
  <2>1. Units' = Units
    BY <1>1 DEF Units
  <2>2. samples' \in Seq(Sample)
    BY <1>1, EmptySeq
  <2>3. unit \in 1 .. Len(Units) /\ Len(Units) \in Nat
    <3>1. frame.mode # "unsupported"
      BY <1>1 DEF Typed, FileTyped, InScan
    <3> QED BY <1>1, <3>1, SomeUnits DEF Typed, BlockTyped
  <2>4. phase' = "block" => unit' \in 1 .. Len(Units)
    BY <1>2, <2>3
  <2>5. phase' # "block" => unit' = 1
    BY <1>1, <1>2
  <2>6. dc' \in [1 .. 3 -> Int16s] /\ coeff' \in 0 .. 80
    BY <1>1 DEF Typed, BlockTyped
  <2> QED BY <1>1, <2>1, <2>2, <2>4, <2>5, <2>6 DEF BlockTyped
<1>9. PlaceTyped'
  <2>1. blockNum \in Nat /\ loop \in Nat /\ Blocks(frame.w) \in Nat
    BY WideTyped DEF Typed, PlaceTyped
  <2>2. CASE Move
    BY <2>1, <2>2 DEF PlaceTyped, Move
  <2> QED BY <1>2, <2>1, <2>2 DEF PlaceTyped
<1> QED BY <1>4, <1>5, <1>6, <1>7, <1>8, <1>9 DEF Typed

LEMMA TypedStutter ==
  ASSUME Typed, UNCHANGED vars
  PROVE  Typed'
<1>1. UNCHANGED <<file, picture, pos, phase, frame, dqt, dht, input, buf, dc, unit,
                  coeff, samples, decoded, placed, blockNum, loop>>
  BY DEF vars
<1>2. FileTyped' /\ FrameTyped' /\ TablesTyped' /\ BufferTyped' /\ PlaceTyped'
  BY <1>1 DEF Typed, FileTyped, FrameTyped, TablesTyped, BufferTyped, PlaceTyped,
              InScan, Segment
<1>3. BlockTyped'
  <2>1. Units' = Units
    BY <1>1 DEF Units
  <2> QED BY <1>1, <2>1 DEF Typed, BlockTyped
<1> QED BY <1>2, <1>3 DEF Typed

LEMMA AlwaysTyped == Spec => []Typed
<1>1. Typed /\ [Next]_vars => Typed'
  <2> SUFFICES ASSUME Typed, [Next]_vars PROVE Typed'
    OBVIOUS
  <2> QED BY TypedSof0, TypedDqt, TypedDht, TypedSkip, TypedSos, TypedEnd,
             TypedPush, TypedStartImage, TypedStartMcu, TypedFinishImage,
             TypedDc, TypedEndOfBlock, TypedSixteenZeros, TypedAc,
             TypedFinishBlock, TypedStutter DEF Next
<1> QED BY <1>1, InitTyped, PTL DEF Spec

\* Everything the decoder keeps has a value of its type: the places of the
\* coefficients stay inside a block, the sums of DC differences inside sixteen
\* bits, whatever the file holds.
(* Every variable of the decoder keeps its type: a position never leaves   *)
(* its block, a DC coefficient its 16 bits and a table number its range,   *)
(* whatever the bits of the scan are (jpeg_mcu_block::decode, lookup).     *)
THEOREM DecoderTypes == Spec => []TypeOK
<1>1. Typed => TypeOK
  BY TypedTypeOK
<1> QED BY <1>1, AlwaysTyped, PTL

-----------------------------------------------------------------------------
(* Where the blocks go.  The frame is that of the file's one SOF0 segment, *)
(* the blocks come from its one scan, and the calls of ConvertYUV2RGB are  *)
(* known by their number.                                                  *)
Sequence(s) == \E S : s \in Seq(S)

FrameOf(s) ==
  /\ file[s].kind = "SOF0" /\ frame.mode = Mode(file[s].comps)
  /\ frame.w = file[s].w /\ frame.h = file[s].h

Framed ==
  frame.mode # "unsupported" =>
    /\ \E s \in 1 .. pos - 1 : s <= Len(file) /\ FrameOf(s)
    /\ frame.w # 0

ScannedAt(s, p) ==
  /\ s < p /\ FrameOf(s) /\ file[p].kind = "SOS"
  /\ p < pos \/ (p = pos /\ phase \in {"mcu", "block"})

Scanned ==
  Len(decoded) # 0 => /\ frame.mode # "unsupported"
                      /\ \E s, p \in 1 .. Len(file) : ScannedAt(s, p)

PlacedNone == Len(decoded) = 0 /\ Len(placed) = 0 /\ blockNum = 0 /\ loop = 0

PlacedMono ==
  /\ Len(decoded) = Len(placed) /\ blockNum = Len(placed)
  /\ \A k \in 1 .. Len(placed) : placed[k] = Call(k - 1, k, 0, 0)

Placed444 ==
  /\ Len(decoded) = 3 * Len(placed) + unit - 1 /\ blockNum = Len(placed)
  /\ \A k \in 1 .. Len(placed) : placed[k] = Call(k - 1, 3 * k - 2, 3 * k - 1, 0)

(* In 4:2:0: "half" MCUs are side by side.                                 *)
Site(half, m, q) ==
  2 * (m % half) + (q % 2) + 2 * half * (2 * (m \div half) + q \div 2)

Placed420(half, m) ==
  /\ Len(placed) = 4 * m /\ Len(decoded) = 6 * m + unit - 1
  /\ loop = m % half /\ blockNum = 2 * Site(half, m, 0)
  /\ \A j \in 0 .. m - 1 : \A q \in 0 .. 3 :
        placed[4 * j + q + 1] = Call(Site(half, j, q), 6 * j + q + 1, 6 * j + 5, q)

PlacedWell ==
  /\ frame.mode = "unsupported" => PlacedNone
  /\ frame.mode = "mono" => PlacedMono
  /\ frame.mode = "444" => Placed444
  /\ frame.mode = "420" =>
        \A half \in Nat : Blocks(frame.w) = 2 * half =>
            \E m \in Nat : Placed420(half, m)

Laid ==
  /\ Framed /\ Scanned
  /\ phase = "push" => Len(decoded) = 0
  /\ Sequence(decoded) /\ Sequence(placed)
  /\ PlacedWell

LEMMA SequenceLength ==
  ASSUME NEW s, Sequence(s)
  PROVE  Len(s) \in Nat /\ DOMAIN s = 1 .. Len(s)
<1>1. PICK S : s \in Seq(S)
  BY DEF Sequence
<1> QED BY <1>1, LenProperties

LEMMA SequenceAppend ==
  ASSUME NEW s, Sequence(s), NEW e
  PROVE  Sequence(Append(s, e)) /\ Len(Append(s, e)) = Len(s) + 1
<1>1. PICK S : s \in Seq(S)
  BY DEF Sequence
<1> DEFINE T == S \cup {e}
<1>2. Len(s) \in Nat /\ s = [i \in 1 .. Len(s) |-> s[i]]
  BY <1>1, LenProperties
<1>3. \A i \in 1 .. Len(s) : s[i] \in T
  BY <1>1, ElementOfSeq
<1>4. e \in T
  OBVIOUS
<1> HIDE DEF T
<1>5. [i \in 1 .. Len(s) |-> s[i]] \in Seq(T)
  BY <1>2, <1>3, IsASeq
<1>6. s \in Seq(T)
  BY <1>2, <1>5
<1>7. Append(s, e) \in Seq(T) /\ Len(Append(s, e)) = Len(s) + 1
  BY <1>4, <1>6, AppendProperties
<1> QED BY <1>7 DEF Sequence

IsJoined(u, s, t) ==
  /\ Sequence(u) /\ Len(u) = Len(s) + Len(t)
  /\ \A i \in 1 .. Len(s) : u[i] = s[i]
  /\ \A i \in 1 .. Len(t) : u[Len(s) + i] = t[i]

LEMMA SequenceConcat ==
  ASSUME NEW s, Sequence(s), NEW t, Sequence(t)
  PROVE  IsJoined(s \o t, s, t)
<1>1. PICK S : s \in Seq(S)
  BY DEF Sequence
<1>2. PICK U : t \in Seq(U)
  BY DEF Sequence
<1> DEFINE T == S \cup U
<1>3. s \in Seq(T)
  <2>1. Len(s) \in Nat /\ s = [i \in 1 .. Len(s) |-> s[i]]
    BY <1>1, LenProperties
  <2>2. \A i \in 1 .. Len(s) : s[i] \in T
    BY <1>1, ElementOfSeq
  <2> HIDE DEF T
  <2>3. [i \in 1 .. Len(s) |-> s[i]] \in Seq(T)
    BY <2>1, <2>2, IsASeq
  <2> QED BY <2>1, <2>3
<1>4. t \in Seq(T)
  <2>1. Len(t) \in Nat /\ t = [i \in 1 .. Len(t) |-> t[i]]
    BY <1>2, LenProperties
  <2>2. \A i \in 1 .. Len(t) : t[i] \in T
    BY <1>2, ElementOfSeq
  <2> HIDE DEF T
  <2>3. [i \in 1 .. Len(t) |-> t[i]] \in Seq(T)
    BY <2>1, <2>2, IsASeq
  <2> QED BY <2>1, <2>3
<1> HIDE DEF T
<1>5. Len(s) \in Nat /\ Len(t) \in Nat
  BY <1>3, <1>4, LenProperties
<1>6. s \o t \in Seq(T) /\ Len(s \o t) = Len(s) + Len(t)
      /\ \A i \in 1 .. Len(s) + Len(t) :
            (s \o t)[i] = IF i <= Len(s) THEN s[i] ELSE t[i - Len(s)]
  BY <1>3, <1>4, ConcatProperties
<1>7. \A i \in 1 .. Len(s) : (s \o t)[i] = s[i]
  BY <1>5, <1>6
<1>8. \A i \in 1 .. Len(t) : (s \o t)[Len(s) + i] = t[i]
  <2> TAKE i \in 1 .. Len(t)
  <2> DEFINE k == Len(s) + i
  <2>1. k \in 1 .. Len(s) + Len(t) /\ ~(k <= Len(s)) /\ k - Len(s) = i
    BY <1>5
  <2> HIDE DEF k
  <2>2. (s \o t)[k] = t[i]
    BY <1>6, <2>1
  <2> QED BY <2>2 DEF k
<1> QED BY <1>6, <1>7, <1>8 DEF Sequence, IsJoined

-----------------------------------------------------------------------------
LEMMA InitLaid ==
  ASSUME Init
  PROVE  Laid
<1>1. frame.mode = "unsupported" /\ phase = "segments"
      /\ decoded = <<>> /\ placed = <<>> /\ blockNum = 0 /\ loop = 0
  BY DEF Init
<1>2. Len(decoded) = 0 /\ Len(placed) = 0
  BY <1>1
<1>3. \A S : <<>> \in Seq(S)
  BY EmptySeq
<1>4. Sequence(decoded) /\ Sequence(placed)
  BY <1>1, <1>3 DEF Sequence
<1>5. PlacedWell
  BY <1>1, <1>2 DEF PlacedWell, PlacedNone
<1>6. Framed /\ Scanned
  BY <1>1, <1>2 DEF Framed, Scanned
<1> QED BY <1>1, <1>4, <1>5, <1>6 DEF Laid

LEMMA PlacedKept ==
  ASSUME PlacedWell, UNCHANGED <<frame, unit, decoded, placed, blockNum, loop>>
  PROVE  PlacedWell'
BY DEF PlacedWell, PlacedNone, PlacedMono, Placed444, Placed420

LEMMA FramedOn ==
  ASSUME Typed, Framed, UNCHANGED <<file, frame>>, pos' = pos \/ NextSegment
  PROVE  Framed'
<1>1. pos \in Int
  BY FileLength DEF Typed, FileTyped
<1>2. pos' >= pos /\ pos' \in Int
  BY <1>1 DEF NextSegment
<1> SUFFICES ASSUME frame.mode # "unsupported"
             PROVE  /\ \E s \in 1 .. pos' - 1 : s <= Len(file') /\ FrameOf(s)'
                    /\ frame'.w # 0
  BY DEF Framed
<1>3. PICK s \in 1 .. pos - 1 : s <= Len(file) /\ FrameOf(s)
  BY DEF Framed
<1>4. s \in 1 .. pos' - 1 /\ FrameOf(s)'
  BY <1>1, <1>2, <1>3 DEF FrameOf
<1> QED BY <1>3, <1>4 DEF Framed

LEMMA ScannedOn ==
  ASSUME Typed, Scanned, UNCHANGED <<file, frame, decoded>>,
         \/ NextSegment
         \/ pos' = pos /\ (phase \in {"mcu", "block"} => phase' \in {"mcu", "block"})
  PROVE  Scanned'
<1> SUFFICES ASSUME Len(decoded) # 0
             PROVE  /\ frame'.mode # "unsupported"
                    /\ \E s, p \in 1 .. Len(file') : ScannedAt(s, p)'
  BY DEF Scanned
<1>1. pos \in Int /\ Len(file) \in Nat
  BY FileLength DEF Typed, FileTyped
<1>2. PICK s, p \in 1 .. Len(file) : ScannedAt(s, p)
  BY DEF Scanned
<1>3. FrameOf(s)'
  BY <1>2 DEF ScannedAt, FrameOf
<1>4. p < pos' \/ (p = pos' /\ phase' \in {"mcu", "block"})
  BY <1>1, <1>2 DEF ScannedAt, NextSegment
<1>5. ScannedAt(s, p)'
  BY <1>2, <1>3, <1>4 DEF ScannedAt
<1> QED BY <1>5 DEF Scanned

\* Steps that leave the picture alone.
LEMMA LaidOn ==
  ASSUME Typed, Laid, UNCHANGED <<file, frame, unit, decoded, placed, blockNum, loop>>,
         phase' = "push" => phase = "push",
         \/ NextSegment
         \/ pos' = pos /\ (phase \in {"mcu", "block"} => phase' \in {"mcu", "block"})
  PROVE  Laid'
<1>1. Framed' /\ Scanned' /\ PlacedWell'
  BY FramedOn, ScannedOn, PlacedKept DEF Laid
<1>2. Sequence(decoded)' /\ Sequence(placed)'
  BY DEF Laid, Sequence
<1>3. phase' = "push" => Len(decoded') = 0
  BY DEF Laid
<1> QED BY <1>1, <1>2, <1>3 DEF Laid

\* There is one frame and one scan.
LEMMA OnlyOne ==
  ASSUME FileTyped, NEW s \in 1 .. Len(file), NEW p \in 1 .. Len(file),
         file[s].kind = file[p].kind, file[s].kind \in {"SOF0", "SOS"}
  PROVE  s = p
BY FilesAssumption DEF FileTyped, Encoder!IsFile

LEMMA HalfPositive ==
  ASSUME NEW w \in Nat, w # 0, NEW half \in Nat, Blocks(w) = 2 * half
  PROVE  half # 0
BY DEF Blocks

LEMMA SiteZero ==
  ASSUME NEW half \in Nat \ {0}
  PROVE  Site(half, 0, 0) = 0 /\ 0 % half = 0
<1>1. 0 % half = 0 /\ 0 \div half = 0
  <2>1. half * 0 + 0 = 0 /\ 0 \in 0 .. half - 1
    OBVIOUS
  <2> QED BY <2>1, DivUnique
<1>2. Site(half, 0, 0) = 2 * 0 + (0 % 2) + 2 * half * (2 * 0 + 0 \div 2)
  BY <1>1 DEF Site
<1> QED BY <1>1, <1>2

\* Nothing placed is well placed, whatever the frame.
LEMMA EmptyPlaced ==
  ASSUME PlacedNone, unit = 1, frame.mode # "unsupported" => frame.w \in Nat \ {0}
  PROVE  PlacedWell
<1>1. PlacedMono /\ Placed444
  BY DEF PlacedNone, PlacedMono, Placed444
<1>2. ASSUME frame.mode = "420", NEW half \in Nat, Blocks(frame.w) = 2 * half
      PROVE  Placed420(half, 0)
  <2>1. half \in Nat \ {0}
    BY <1>2, HalfPositive
  <2> QED BY <2>1, SiteZero DEF PlacedNone, Placed420
<1> QED BY <1>1, <1>2 DEF PlacedWell

LEMMA LaidSof0 ==
  ASSUME Typed, Laid, Sof0
  PROVE  Laid'
<1>1. /\ phase = "segments" /\ phase' = phase /\ pos <= Len(file)
      /\ Segment.kind = "SOF0" /\ NextSegment
      /\ UNCHANGED <<file, unit, decoded, placed, blockNum, loop>>
  BY DEF Sof0, At, decoding
<1>2. /\ frame'.mode = Mode(Segment.comps) /\ frame'.w = Segment.w
      /\ frame'.h = Segment.h
  BY DEF Sof0
<1>3. pos \in 1 .. Len(file) /\ Segment.w \in Nat \ {0} /\ Len(file) \in Nat
  BY <1>1, SegmentFacts, FileLength DEF Typed
<1>4. frame.mode = "unsupported"
  <2> SUFFICES ASSUME frame.mode # "unsupported" PROVE FALSE
    OBVIOUS
  <2>1. PICK s \in 1 .. pos - 1 : s <= Len(file) /\ FrameOf(s)
    BY DEF Laid, Framed
  <2>2. s \in 1 .. Len(file) /\ s # pos
    BY <1>3, <2>1
  <2>3. file[s].kind = "SOF0" /\ file[pos].kind = "SOF0"
    BY <1>1, <2>1 DEF FrameOf, Segment
  <2> QED BY <1>3, <2>2, <2>3, OnlyOne DEF Typed
<1>5. PlacedNone
  BY <1>4 DEF Laid, PlacedWell
<1>6. PlacedNone' /\ unit' = 1
  BY <1>1, <1>5 DEF PlacedNone, Typed, BlockTyped
<1>7. PlacedWell'
  <2>1. frame'.w \in Nat \ {0}
    BY <1>2, <1>3
  <2>2. (PlacedNone /\ unit = 1 /\ (frame.mode # "unsupported" => frame.w \in Nat \ {0})
         => PlacedWell)'
    BY EmptyPlaced, PTL
  <2> QED BY <1>6, <2>1, <2>2
<1>8. Framed'
  <2>3. file'[pos].kind = "SOF0" /\ frame'.mode = Mode(file'[pos].comps)
        /\ frame'.w = file'[pos].w /\ frame'.h = file'[pos].h
    BY <1>1, <1>2 DEF Segment
  <2>4. pos \in 1 .. pos' - 1 /\ pos <= Len(file')
    BY <1>1, <1>3 DEF NextSegment
  <2> QED BY <1>2, <1>3, <2>3, <2>4 DEF Framed, FrameOf
<1>9. Scanned'
  BY <1>6 DEF Scanned, PlacedNone
<1>10. Sequence(decoded)' /\ Sequence(placed)'
  BY <1>1 DEF Laid, Sequence
<1>11. phase' = "push" => Len(decoded') = 0
  BY <1>1
<1> QED BY <1>7, <1>8, <1>9, <1>10, <1>11 DEF Laid

LEMMA LaidSos ==
  ASSUME Typed, Laid, Sos
  PROVE  Laid'
<1>1. /\ phase = "segments" /\ pos <= Len(file) /\ Segment.kind = "SOS"
      /\ phase' = "push"
      /\ UNCHANGED <<file, pos, frame, unit, decoded, placed, blockNum, loop>>
  BY DEF Sos, At
<1>2. pos \in 1 .. Len(file)
  BY <1>1, SegmentFacts DEF Typed
<1>3. Len(decoded) = 0
  <2> SUFFICES ASSUME Len(decoded) # 0 PROVE FALSE
    OBVIOUS
  <2>1. PICK s, p \in 1 .. Len(file) : ScannedAt(s, p)
    BY DEF Laid, Scanned
  <2>2. p < pos /\ file[p].kind = "SOS" /\ file[pos].kind = "SOS"
    BY <1>1, <2>1 DEF ScannedAt, Segment
  <2>3. p # pos
    BY <1>2, <2>2
  <2> QED BY <1>2, <2>2, <2>3, OnlyOne DEF Typed
<1>4. PlacedWell' /\ Framed'
  BY <1>1, PlacedKept, FramedOn DEF Laid
<1>5. Scanned'
  BY <1>1, <1>3 DEF Scanned
<1>6. Sequence(decoded)' /\ Sequence(placed)'
  BY <1>1 DEF Laid, Sequence
<1> QED BY <1>1, <1>3, <1>4, <1>5, <1>6 DEF Laid

LEMMA LaidStartImage ==
  ASSUME Typed, Laid, StartImage
  PROVE  Laid'
<1>1. /\ phase = "push" /\ phase' = "mcu" /\ blockNum' = 0 /\ loop' = 0
      /\ UNCHANGED <<file, pos, frame, unit, decoded, placed>>
  BY DEF StartImage
<1>2. Len(decoded) = 0 /\ unit = 1
  BY <1>1 DEF Laid, Typed, BlockTyped
<1>3. frame.mode # "unsupported" /\ frame.w \in Nat \ {0}
  BY <1>1 DEF Laid, Framed, Typed, FileTyped, FrameTyped, InScan
<1>4. Len(placed) \in Nat
  BY SequenceLength DEF Laid
<1>5. PlacedWell'
  <2>1. frame.mode = "mono" => PlacedMono'
    BY <1>1, <1>2, <1>4 DEF Laid, PlacedWell, PlacedMono
  <2>2. frame.mode = "444" => Placed444'
    BY <1>1, <1>2, <1>4 DEF Laid, PlacedWell, Placed444
  <2>3. ASSUME frame.mode = "420", NEW half \in Nat, Blocks(frame.w) = 2 * half
        PROVE  Placed420(half, 0)'
    <3>1. half \in Nat \ {0}
      BY <1>3, <2>3, HalfPositive
    <3>2. PICK m \in Nat : Placed420(half, m)
      BY <2>3 DEF Laid, PlacedWell
    <3>3. m = 0
      <4>1. Len(decoded) = 6 * m + unit - 1
        BY <3>2 DEF Placed420
      <4> QED BY <1>2, <4>1
    <3>4. Len(placed) = 0
      BY <3>2, <3>3 DEF Placed420
    <3> QED BY <1>1, <1>2, <3>1, <3>4, SiteZero DEF Placed420
  <2> QED BY <1>1, <1>3, <2>1, <2>2, <2>3 DEF PlacedWell
<1>6. Framed'
  BY <1>1, FramedOn DEF Laid
<1>7. Scanned'
  BY <1>1, <1>2 DEF Scanned
<1>8. Sequence(decoded)' /\ Sequence(placed)'
  BY <1>1 DEF Laid, Sequence
<1> QED BY <1>1, <1>5, <1>6, <1>7, <1>8 DEF Laid

\* One step on, in rows of "half".
LEMMA NextInRow ==
  ASSUME NEW half \in Nat \ {0}, NEW m \in Nat
  PROVE  /\ m % half \in 0 .. half - 1 /\ m \div half \in Nat
         /\ (m % half) + 1 = half =>
              (m + 1) % half = 0 /\ (m + 1) \div half = m \div half + 1
         /\ (m % half) + 1 # half =>
              (m + 1) % half = (m % half) + 1 /\ (m + 1) \div half = m \div half
<1> DEFINE r == m % half  d == m \div half
<1>1. m = half * d + r /\ r \in 0 .. half - 1 /\ d \in Nat
  <2>1. m \in Int
    OBVIOUS
  <2>2. m = half * d + r /\ r \in 0 .. half - 1
    BY <2>1, DivMod
  <2>3. d \in Nat
    BY DivNat
  <2> QED BY <2>2, <2>3
<1> HIDE DEF r, d
<1>2. CASE r + 1 = half
  <2>1. m + 1 = half * (d + 1) + 0 /\ d + 1 \in Int /\ 0 \in 0 .. half - 1
    BY <1>1, <1>2
  <2>2. (m + 1) % half = 0 /\ (m + 1) \div half = d + 1
    BY <2>1, DivUnique
  <2> QED BY <1>1, <1>2, <2>2 DEF r, d
<1>3. CASE r + 1 # half
  <2>1. m + 1 = half * d + (r + 1) /\ r + 1 \in 0 .. half - 1 /\ d \in Int
    BY <1>1, <1>3
  <2>2. (m + 1) % half = r + 1 /\ (m + 1) \div half = d
    BY <2>1, DivUnique
  <2> QED BY <1>1, <1>3, <2>2 DEF r, d
<1> QED BY <1>2, <1>3

\* The four places of an MCU, and the first of the next.
LEMMA Sites ==
  ASSUME NEW half \in Nat \ {0}, NEW m \in Nat
  PROVE  /\ Site(half, m, 0) \in Nat
         /\ Site(half, m, 1) = Site(half, m, 0) + 1
         /\ Site(half, m, 2) = Site(half, m, 0) + 2 * half
         /\ Site(half, m, 3) = Site(half, m, 0) + 2 * half + 1
         /\ (m % half) + 1 = half =>
              Site(half, m + 1, 0) = Site(half, m, 0) + 2 + 2 * half
         /\ (m % half) + 1 # half => Site(half, m + 1, 0) = Site(half, m, 0) + 2
<1> DEFINE r == m % half  d == m \div half
           r1 == (m + 1) % half  d1 == (m + 1) \div half
<1>1. /\ r \in 0 .. half - 1 /\ d \in Nat
      /\ r + 1 = half => r1 = 0 /\ d1 = d + 1
      /\ r + 1 # half => r1 = r + 1 /\ d1 = d
  BY NextInRow
<1>2. /\ Site(half, m, 0) = 2 * r + 2 * half * (2 * d)
      /\ Site(half, m, 1) = 2 * r + 1 + 2 * half * (2 * d)
      /\ Site(half, m, 2) = 2 * r + 2 * half * (2 * d + 1)
      /\ Site(half, m, 3) = 2 * r + 1 + 2 * half * (2 * d + 1)
      /\ Site(half, m + 1, 0) = 2 * r1 + 2 * half * (2 * d1)
  <2>1. /\ 0 % 2 = 0 /\ 1 % 2 = 1 /\ 2 % 2 = 0 /\ 3 % 2 = 1
        /\ 0 \div 2 = 0 /\ 1 \div 2 = 0 /\ 2 \div 2 = 1 /\ 3 \div 2 = 1
    OBVIOUS
  <2>2. r \in Int /\ d \in Int /\ r1 \in Int /\ d1 \in Int
    BY <1>1
  <2>3. \A q : Site(half, m, q) = 2 * r + (q % 2) + 2 * half * (2 * d + q \div 2)
    BY DEF Site
  <2>4. Site(half, m + 1, 0) = 2 * r1 + (0 % 2) + 2 * half * (2 * d1 + 0 \div 2)
    BY DEF Site
  <2> HIDE DEF r, d, r1, d1
  <2> QED BY <2>1, <2>2, <2>3, <2>4
<1> HIDE DEF r, d, r1, d1
<1> DEFINE t == half * d
<1>3. t \in Nat
  BY <1>1
<1>4. /\ 2 * half * (2 * d) = 4 * t /\ 2 * half * (2 * d + 1) = 4 * t + 2 * half
      /\ r + 1 = half => 2 * half * (2 * d1) = 4 * t + 4 * half
      /\ r + 1 # half => 2 * half * (2 * d1) = 4 * t
  BY <1>1
<1> HIDE DEF t
<1>5. /\ Site(half, m, 0) \in Nat
      /\ Site(half, m, 1) = Site(half, m, 0) + 1
      /\ Site(half, m, 2) = Site(half, m, 0) + 2 * half
      /\ Site(half, m, 3) = Site(half, m, 0) + 2 * half + 1
      /\ r + 1 = half => Site(half, m + 1, 0) = Site(half, m, 0) + 2 + 2 * half
      /\ r + 1 # half => Site(half, m + 1, 0) = Site(half, m, 0) + 2
  BY <1>1, <1>2, <1>3, <1>4
<1> QED BY <1>5 DEF r

\* The calls of one MCU.
LEMMA OneCall ==
  ASSUME NEW c
  PROVE  Sequence(<<c>>) /\ Len(<<c>>) = 1 /\ <<c>>[1] = c
<1>1. <<c>> \in Seq({c})
  OBVIOUS
<1> QED BY <1>1 DEF Sequence

LEMMA FourCalls ==
  ASSUME NEW a, NEW b, NEW c, NEW d
  PROVE  /\ Sequence(<<a, b, c, d>>) /\ Len(<<a, b, c, d>>) = 4
         /\ <<a, b, c, d>>[1] = a /\ <<a, b, c, d>>[2] = b
         /\ <<a, b, c, d>>[3] = c /\ <<a, b, c, d>>[4] = d
<1>1. <<a, b, c, d>> \in Seq({a, b, c, d})
  OBVIOUS
<1> QED BY <1>1 DEF Sequence

LEMMA CallsAre ==
  ASSUME frame.mode \in {"mono", "444", "420"}
  PROVE  /\ Sequence(Calls)
         /\ frame.mode = "mono" =>
              Calls = <<Call(blockNum, Len(decoded) + 1, 0, 0)>>
         /\ frame.mode = "444" =>
              Calls = <<Call(blockNum, Len(decoded) + 1 - 2, Len(decoded) + 1 - 1, 0)>>
<1>1. frame.mode = "mono" => Calls = <<Call(blockNum, Len(decoded) + 1, 0, 0)>>
  BY DEF Calls
<1>2. frame.mode = "444" =>
        Calls = <<Call(blockNum, Len(decoded) + 1 - 2, Len(decoded) + 1 - 1, 0)>>
  BY DEF Calls
<1>3. CASE frame.mode = "420"
  <2>1. PICK a, b, c, d : Calls = <<a, b, c, d>>
    BY <1>3 DEF Calls
  <2> QED BY <1>1, <1>2, <2>1, FourCalls
<1> QED BY <1>1, <1>2, <1>3, OneCall

\* A block inside an MCU,
LEMMA PlacedNextUnit ==
  ASSUME Typed, Laid, phase = "block", unit < Len(Units),
         unit' = unit + 1, Len(decoded') = Len(decoded) + 1,
         UNCHANGED <<frame, placed, blockNum, loop>>
  PROVE  PlacedWell'
<1>1. frame.mode # "unsupported"
  BY DEF Typed, FileTyped, InScan
<1>2. unit \in 1 .. Len(Units) /\ Len(decoded) \in Nat /\ unit \in Int
  BY SequenceLength, SomeUnits, <1>1 DEF Laid, Typed, BlockTyped
<1>3. frame.mode # "mono"
  <2> SUFFICES ASSUME frame.mode = "mono" PROVE FALSE
    OBVIOUS
  <2> DEFINE N == Len(Units)
  <2>1. N = 1 /\ unit \in 1 .. N /\ unit < N
    BY <1>2, UnitsAre
  <2> HIDE DEF N
  <2> QED BY <2>1
<1>4. frame.mode = "444" => Placed444'
  <2>1. Len(placed) \in Nat
    BY SequenceLength DEF Laid
  <2> QED BY <1>2, <2>1 DEF Laid, PlacedWell, Placed444
<1>5. ASSUME frame.mode = "420", NEW half \in Nat, NEW m \in Nat, Placed420(half, m)
      PROVE  Placed420(half, m)'
  <2>1. Len(decoded') = 6 * m + unit' - 1
    BY <1>2, <1>5 DEF Placed420
  <2> QED BY <1>5, <2>1 DEF Placed420
<1>6. frame.mode = "420" =>
        \A half \in Nat : Blocks(frame.w) = 2 * half => \E m \in Nat : Placed420(half, m)'
  BY <1>5 DEF Laid, PlacedWell
<1> QED BY <1>1, <1>3, <1>4, <1>6 DEF PlacedWell

\* and the last of an MCU, whose blocks are placed.
EndsMcu ==
  /\ Typed /\ Laid /\ phase = "block" /\ unit = Len(Units) /\ Move
  /\ unit' = 1 /\ Len(decoded') = Len(decoded) + 1
  /\ placed' = placed \o Calls /\ UNCHANGED frame

LEMMA PlacedMcuMono ==
  ASSUME EndsMcu, frame.mode = "mono"
  PROVE  PlacedMono'
<1> DEFINE k == Len(placed)
           c == Call(blockNum, Len(decoded) + 1, 0, 0)
<1>1. k \in Nat /\ Len(decoded) = k /\ blockNum = k
      /\ \A i \in 1 .. k : placed[i] = Call(i - 1, i, 0, 0)
  BY SequenceLength DEF EndsMcu, Laid, PlacedWell, PlacedMono
<1>2. placed' = placed \o <<c>>
  BY CallsAre DEF EndsMcu
<1> HIDE DEF c
<1>3. /\ Len(placed') = k + 1 /\ \A i \in 1 .. k : placed'[i] = placed[i]
      /\ placed'[k + 1] = c
  <2>1. Sequence(placed)
    BY DEF EndsMcu, Laid
  <2>2. IsJoined(placed', placed, <<c>>)
    BY <1>2, <2>1, OneCall, SequenceConcat
  <2> QED BY <2>2, OneCall DEF IsJoined
<1>4. blockNum' = blockNum + 1 /\ Len(decoded') = Len(decoded) + 1
  BY DEF EndsMcu, Move
<1> HIDE DEF k
<1>5. \A i \in 1 .. k + 1 : placed'[i] = Call(i - 1, i, 0, 0)
  <2> TAKE i \in 1 .. k + 1
  <2>1. CASE i \in 1 .. k
    BY <1>1, <1>3, <2>1
  <2>2. CASE i = k + 1
    <3>1. blockNum = i - 1 /\ Len(decoded) + 1 = i
      BY <1>1, <2>2
    <3> QED BY <1>3, <2>2, <3>1 DEF c
  <2>3. i \in 1 .. k \/ i = k + 1
    BY <1>1
  <2> QED BY <2>1, <2>2, <2>3
<1>6. Len(placed') = k + 1
  BY <1>3
<1> QED BY <1>1, <1>3, <1>4, <1>5 DEF PlacedMono

LEMMA PlacedMcu444 ==
  ASSUME EndsMcu, frame.mode = "444"
  PROVE  Placed444'
<1> DEFINE k == Len(placed)
           c == Call(blockNum, Len(decoded) + 1 - 2, Len(decoded) + 1 - 1, 0)
<1>1. k \in Nat /\ Len(decoded) = 3 * k + unit - 1 /\ blockNum = k
      /\ \A i \in 1 .. k : placed[i] = Call(i - 1, 3 * i - 2, 3 * i - 1, 0)
  BY SequenceLength DEF EndsMcu, Laid, PlacedWell, Placed444
<1>2. placed' = placed \o <<c>>
  BY CallsAre DEF EndsMcu
<1> HIDE DEF c
<1>3. /\ Len(placed') = k + 1 /\ \A i \in 1 .. k : placed'[i] = placed[i]
      /\ placed'[k + 1] = c
  <2>1. Sequence(placed)
    BY DEF EndsMcu, Laid
  <2>2. IsJoined(placed', placed, <<c>>)
    BY <1>2, <2>1, OneCall, SequenceConcat
  <2> QED BY <2>2, OneCall DEF IsJoined
<1>4. blockNum' = blockNum + 1 /\ unit = 3 /\ unit' = 1
      /\ Len(decoded') = Len(decoded) + 1
  BY UnitsAre DEF EndsMcu, Move
<1> HIDE DEF k
<1>5. \A i \in 1 .. k + 1 : placed'[i] = Call(i - 1, 3 * i - 2, 3 * i - 1, 0)
  <2> TAKE i \in 1 .. k + 1
  <2>1. CASE i \in 1 .. k
    BY <1>1, <1>3, <2>1
  <2>2. CASE i = k + 1
    <3>1. /\ blockNum = i - 1 /\ Len(decoded) + 1 - 2 = 3 * i - 2
          /\ Len(decoded) + 1 - 1 = 3 * i - 1
      BY <1>1, <1>4, <2>2
    <3> QED BY <1>3, <2>2, <3>1 DEF c
  <2>3. i \in 1 .. k \/ i = k + 1
    BY <1>1
  <2> QED BY <2>1, <2>2, <2>3
<1>6. Len(placed') = k + 1
  BY <1>3
<1> QED BY <1>1, <1>3, <1>4, <1>5 DEF Placed444

LEMMA PlacedMcu420 ==
  ASSUME EndsMcu, frame.mode = "420",
         NEW half \in Nat \ {0}, Blocks(frame.w) = 2 * half,
         NEW m \in Nat, Placed420(half, m)
  PROVE  Placed420(half, m + 1)'
<1> DEFINE n == Len(decoded) + 1
           num == blockNum \div 2
           wide == Blocks(frame.w)
           a == Call(num, n - 5, n - 1, 0)
           b == Call(num + 1, n - 4, n - 1, 1)
           c == Call(num + wide, n - 3, n - 1, 2)
           d == Call(num + wide + 1, n - 2, n - 1, 3)
           site == Site(half, m, 0)
<1>1. unit = 6 /\ unit' = 1 /\ Len(decoded') = Len(decoded) + 1
  BY UnitsAre DEF EndsMcu
<1>2. /\ Len(placed) = 4 * m /\ Len(decoded) = 6 * m + 5
      /\ loop = m % half /\ blockNum = 2 * site
  BY <1>1 DEF Placed420
<1>3. /\ site \in Nat
      /\ Site(half, m, 1) = site + 1
      /\ Site(half, m, 2) = site + 2 * half
      /\ Site(half, m, 3) = site + 2 * half + 1
      /\ (m % half) + 1 = half => Site(half, m + 1, 0) = site + 2 + 2 * half
      /\ (m % half) + 1 # half => Site(half, m + 1, 0) = site + 2
  BY Sites
<1>4. Calls = <<a, b, c, d>>
  BY DEF Calls
<1> HIDE DEF site
<1>5. num = site /\ n = 6 * m + 6
  BY <1>2, <1>3
<1>6. /\ a = Call(Site(half, m, 0), 6 * m + 0 + 1, 6 * m + 5, 0)
      /\ b = Call(Site(half, m, 1), 6 * m + 1 + 1, 6 * m + 5, 1)
      /\ c = Call(Site(half, m, 2), 6 * m + 2 + 1, 6 * m + 5, 2)
      /\ d = Call(Site(half, m, 3), 6 * m + 3 + 1, 6 * m + 5, 3)
  <2>1. /\ n - 5 = 6 * m + 0 + 1 /\ n - 4 = 6 * m + 1 + 1 /\ n - 3 = 6 * m + 2 + 1
        /\ n - 2 = 6 * m + 3 + 1 /\ n - 1 = 6 * m + 5
    BY <1>5
  <2>2. /\ num = Site(half, m, 0) /\ num + 1 = Site(half, m, 1)
        /\ num + wide = Site(half, m, 2) /\ num + wide + 1 = Site(half, m, 3)
    BY <1>3, <1>5 DEF site
  <2> HIDE DEF n, num, wide
  <2> QED BY <2>1, <2>2
<1> HIDE DEF a, b, c, d, n, num, wide
<1>7. /\ Len(placed') = 4 * m + 4
      /\ \A i \in 1 .. 4 * m : placed'[i] = placed[i]
      /\ placed'[4 * m + 1] = a /\ placed'[4 * m + 2] = b
      /\ placed'[4 * m + 3] = c /\ placed'[4 * m + 4] = d
  <2> DEFINE t == <<a, b, c, d>>
  <2>1. Sequence(t) /\ Len(t) = 4 /\ t[1] = a /\ t[2] = b /\ t[3] = c /\ t[4] = d
    BY FourCalls
  <2>2. placed' = placed \o t
    BY <1>4 DEF EndsMcu
  <2> HIDE DEF t
  <2>3. /\ Len(placed') = Len(placed) + Len(t)
        /\ \A i \in 1 .. Len(placed) : placed'[i] = placed[i]
        /\ \A i \in 1 .. Len(t) : placed'[Len(placed) + i] = t[i]
    <3>1. Sequence(placed)
      BY DEF EndsMcu, Laid
    <3>2. IsJoined(placed', placed, t)
      BY <2>1, <2>2, <3>1, SequenceConcat
    <3> QED BY <3>2 DEF IsJoined
  <2>4. \A i \in 1 .. 4 : placed'[4 * m + i] = t[i]
    BY <2>1, <2>3, <1>2
  <2> QED BY <2>1, <2>3, <2>4, <1>2
<1>8. \A j \in 0 .. m : \A q \in 0 .. 3 :
        placed'[4 * j + q + 1] = Call(Site(half, j, q), 6 * j + q + 1, 6 * j + 5, q)
  <2> TAKE j \in 0 .. m
  <2> TAKE q \in 0 .. 3
  <2>1. CASE j # m
    <3>1. j \in 0 .. m - 1 /\ 4 * j + q + 1 \in 1 .. 4 * m
      BY <2>1
    <3>2. placed'[4 * j + q + 1] = placed[4 * j + q + 1]
      BY <1>7, <3>1
    <3> QED BY <3>1, <3>2 DEF Placed420
  <2>2. CASE j = m
    <3>1. CASE q = 0
      BY <1>6, <1>7, <2>2, <3>1
    <3>2. CASE q = 1
      <4>1. 4 * j + q + 1 = 4 * m + 2
        BY <2>2, <3>2
      <4> QED BY <1>6, <1>7, <2>2, <3>2, <4>1
    <3>3. CASE q = 2
      <4>1. 4 * j + q + 1 = 4 * m + 3
        BY <2>2, <3>3
      <4> QED BY <1>6, <1>7, <2>2, <3>3, <4>1
    <3>4. CASE q = 3
      <4>1. 4 * j + q + 1 = 4 * m + 4
        BY <2>2, <3>4
      <4> QED BY <1>6, <1>7, <2>2, <3>4, <4>1
    <3> QED BY <3>1, <3>2, <3>3, <3>4
  <2> QED BY <2>1, <2>2
<1>9. loop' = (m + 1) % half /\ blockNum' = 2 * Site(half, m + 1, 0)
  <2>1. wide = 2 * half /\ wide \div 2 = half
    BY DEF wide
  <2>2. CASE loop + 1 = half
    <3>1. loop' = 0 /\ blockNum' = blockNum + 4 + 2 * wide
      BY <2>1, <2>2 DEF EndsMcu, Move, wide
    <3>2. (m + 1) % half = 0 /\ Site(half, m + 1, 0) = site + 2 + 2 * half
      BY <1>2, <1>3, <2>2, NextInRow
    <3> QED BY <1>2, <1>3, <2>1, <3>1, <3>2
  <2>3. CASE loop + 1 # half
    <3>1. loop' = loop + 1 /\ blockNum' = blockNum + 4
      BY <2>1, <2>3 DEF EndsMcu, Move, wide
    <3>2. (m + 1) % half = loop + 1 /\ Site(half, m + 1, 0) = site + 2
      BY <1>2, <1>3, <2>3, NextInRow
    <3> QED BY <1>2, <1>3, <3>1, <3>2
  <2> QED BY <2>2, <2>3
<1>10. /\ Len(placed') = 4 * (m + 1) /\ Len(decoded') = 6 * (m + 1) + unit' - 1
       /\ \A j \in 0 .. (m + 1) - 1 : j \in 0 .. m
  <2>1. Len(placed') = 4 * (m + 1)
    BY <1>7
  <2>2. Len(decoded') = 6 * (m + 1) + unit' - 1
    BY <1>1, <1>2
  <2> QED BY <2>1, <2>2
<1> QED BY <1>8, <1>9, <1>10 DEF Placed420

LEMMA FinishedInScan ==
  ASSUME Typed, Laid, phase = "block", phase' \in {"mcu", "block"},
         UNCHANGED <<file, pos, frame>>
  PROVE  Scanned'
<1>1. frame.mode # "unsupported" /\ pos \in 1 .. Len(file) /\ file[pos].kind = "SOS"
  BY DEF Typed, FileTyped, InScan, Segment
<1>2. PICK s \in 1 .. pos - 1 : s <= Len(file) /\ FrameOf(s)
  BY <1>1 DEF Laid, Framed
<1>3. Len(file) \in Nat
  BY FileLength DEF Typed
<1>4. s \in 1 .. Len(file) /\ s < pos
  BY <1>1, <1>2, <1>3
<1>5. FrameOf(s)'
  BY <1>2 DEF FrameOf
<1>6. PICK p \in 1 .. Len(file) : p = pos
  BY <1>1
<1>7. ScannedAt(s, p)'
  BY <1>1, <1>4, <1>5, <1>6 DEF ScannedAt
<1> QED BY <1>1, <1>4, <1>6, <1>7 DEF Scanned

LEMMA LaidFinishBlock ==
  ASSUME Typed, Laid, FinishBlock
  PROVE  Laid'
<1> DEFINE new == ProcessSamples(dqt[frame.factors[Comp]], samples)
<1>1. /\ phase = "block" /\ decoded' = Append(decoded, new)
      /\ UNCHANGED <<file, pos, frame>>
  BY DEF FinishBlock
<1> HIDE DEF new
<1>2. \/ /\ unit < Len(Units) /\ unit' = unit + 1
         /\ UNCHANGED <<phase, placed, blockNum, loop>>
      \/ /\ unit = Len(Units) /\ placed' = placed \o Calls /\ Move
         /\ unit' = 1 /\ phase' = "mcu"
  BY DEF FinishBlock
<1>3. Sequence(decoded) /\ Sequence(placed)
  BY DEF Laid
<1>4. Sequence(decoded)' /\ Len(decoded') = Len(decoded) + 1
  BY <1>1, <1>3, SequenceAppend
<1>5. frame.mode \in {"mono", "444", "420"} /\ frame.w \in Nat \ {0}
  BY <1>1 DEF Typed, FileTyped, FrameTyped, InScan, Modes, Laid, Framed
<1>6. phase' \in {"mcu", "block"}
  BY <1>1, <1>2
<1>7. Framed' /\ Scanned'
  BY <1>1, <1>6, FramedOn, FinishedInScan DEF Laid
<1>8. CASE unit < Len(Units) /\ unit' = unit + 1
           /\ UNCHANGED <<phase, placed, blockNum, loop>>
  <2>1. PlacedWell'
    BY <1>1, <1>4, <1>8, PlacedNextUnit
  <2>2. Sequence(placed)'
    BY <1>3, <1>8
  <2> QED BY <1>4, <1>6, <1>7, <2>1, <2>2 DEF Laid
<1>9. CASE unit = Len(Units) /\ placed' = placed \o Calls /\ Move
           /\ unit' = 1 /\ phase' = "mcu"
  <2>1. EndsMcu
    BY <1>1, <1>4, <1>9 DEF EndsMcu
  <2>2. frame.mode = "mono" => PlacedMono'
    BY <2>1, PlacedMcuMono
  <2>3. frame.mode = "444" => Placed444'
    BY <2>1, PlacedMcu444
  <2>4. ASSUME frame.mode = "420", NEW half \in Nat, Blocks(frame.w) = 2 * half
        PROVE  \E m \in Nat : Placed420(half, m)'
    <3>1. half \in Nat \ {0}
      BY <1>5, <2>4, HalfPositive
    <3>2. PICK m \in Nat : Placed420(half, m)
      BY <2>4 DEF Laid, PlacedWell
    <3>3. Placed420(half, m + 1)'
      BY <2>1, <2>4, <3>1, <3>2, PlacedMcu420
    <3> QED BY <3>3
  <2>5. PlacedWell'
    BY <1>1, <1>5, <2>2, <2>3, <2>4 DEF PlacedWell
  <2>6. Sequence(placed')
    <3>1. IsJoined(placed', placed, Calls)
      BY <1>3, <1>5, <1>9, CallsAre, SequenceConcat
    <3> QED BY <3>1 DEF IsJoined
  <2> QED BY <1>4, <1>6, <1>7, <2>5, <2>6 DEF Laid
<1> QED BY <1>2, <1>8, <1>9

LEMMA LaidElsewhere ==
  ASSUME Typed, Laid,
         \/ Dqt \/ Dht \/ Skip \/ End \/ Push \/ StartMcu \/ FinishImage
         \/ Dc \/ EndOfBlock \/ SixteenZeros \/ Ac \/ UNCHANGED vars
  PROVE  Laid'
<1>1. CASE Dqt \/ Dht \/ Skip
  BY <1>1, LaidOn DEF Dqt, Dht, Skip, At, decoding
<1>2. CASE End
  BY <1>2, LaidOn DEF End, At, decoding
<1>3. CASE Push
  BY <1>3, LaidOn DEF Push
<1>4. CASE StartMcu
  BY <1>4, LaidOn DEF StartMcu, decoding
<1>5. CASE FinishImage
  BY <1>5, LaidOn DEF FinishImage, decoding
<1>6. CASE Dc \/ EndOfBlock \/ SixteenZeros \/ Ac
  BY <1>6, LaidOn DEF Dc, EndOfBlock, SixteenZeros, Ac, block
<1>7. CASE UNCHANGED vars
  BY <1>7, LaidOn DEF vars
<1> QED BY <1>1, <1>2, <1>3, <1>4, <1>5, <1>6, <1>7

\* Typed and Laid hold in every state.
LEMMA AlwaysLaid == Spec => [](Typed /\ Laid)
<1>1. Typed /\ Laid /\ [Next]_vars => Laid'
  <2> SUFFICES ASSUME Typed, Laid, [Next]_vars PROVE Laid'
    OBVIOUS
  <2> QED BY LaidSof0, LaidSos, LaidStartImage, LaidFinishBlock, LaidElsewhere DEF Next
<1> QED BY <1>1, InitLaid, AlwaysTyped, PTL DEF Spec

-----------------------------------------------------------------------------
(* Places, row by row.                                                     *)
InBox(A, B, a, b) ==
  /\ a * B + b \in 0 .. A * B - 1
  /\ (a * B + b) % B = b /\ (a * B + b) \div B = a

LEMMA RowByRow ==
  ASSUME NEW A \in Nat, NEW B \in Nat \ {0}, NEW a \in 0 .. A - 1, NEW b \in 0 .. B - 1
  PROVE  InBox(A, B, a, b)
<1>1. (B * a + b) % B = b /\ (B * a + b) \div B = a
  BY DivUnique
<1>2. B * a + b = a * B + b
  OBVIOUS
<1>3. a * B + b \in 0 .. A * B - 1
  <2> DEFINE c == A - 1 - a
  <2>1. c \in Nat /\ A = a + 1 + c
    OBVIOUS
  <2> HIDE DEF c
  <2>2. c * B \in Nat /\ a * B \in Nat
    BY <2>1
  <2>3. A * B = a * B + B + c * B
    BY <2>1
  <2> QED BY <2>2, <2>3
<1> QED BY <1>1, <1>2, <1>3 DEF InBox

LEMMA FromRows ==
  ASSUME NEW A \in Nat, NEW B \in Nat \ {0}, NEW o \in 0 .. A * B - 1
  PROVE  /\ o \div B \in 0 .. A - 1 /\ o % B \in 0 .. B - 1
         /\ o = (o \div B) * B + (o % B)
<1> DEFINE q == o \div B  r == o % B
<1>1. o \in Nat
  OBVIOUS
<1>2. o = B * q + r /\ r \in 0 .. B - 1 /\ q \in Nat
  <2>1. o \in Int
    BY <1>1
  <2> QED BY <1>1, <2>1, DivMod, DivNat
<1> HIDE DEF q, r
<1>3. q < A
  <2> SUFFICES ASSUME q >= A PROVE FALSE
    BY <1>2
  <2> DEFINE c == q - A
  <2>1. c \in Nat /\ q = A + c
    BY <1>2
  <2> HIDE DEF c
  <2>2. B * q = A * B + B * c /\ B * c \in Nat /\ A * B \in Nat
    BY <2>1
  <2> QED BY <1>2, <2>2
<1>4. q \in 0 .. A - 1 /\ o = q * B + r
  BY <1>2, <1>3
<1> QED BY <1>2, <1>4 DEF q, r

\* The block an offset of the picture is in, and its place there.
Cell(w, o) == ((o \div w) \div 8) * Blocks(w) + ((o % w) \div 8)
In(w, o) == ((o \div w) % 8) * 8 + ((o % w) % 8)

IsAt(w, h, o, x, y) ==
  /\ o \in 0 .. w * h - 1 /\ x \in 0 .. w - 1 /\ y \in 0 .. h - 1
  /\ o % w = x /\ o \div w = y /\ o = y * w + x

LEMMA OffsetAt ==
  ASSUME NEW w \in Nat \ {0}, NEW h \in Nat, NEW x \in 0 .. w - 1, NEW y \in 0 .. h - 1
  PROVE  IsAt(w, h, y * w + x, x, y)
<1>1. InBox(h, w, y, x)
  BY RowByRow
<1>2. w * h = h * w
  OBVIOUS
<1> QED BY <1>1, <1>2 DEF InBox, IsAt

LEMMA AtOffset ==
  ASSUME NEW w \in Nat \ {0}, NEW h \in Nat, NEW o \in 0 .. w * h - 1
  PROVE  IsAt(w, h, o, o % w, o \div w)
<1>1. w * h = h * w
  OBVIOUS
<1>2. o \in 0 .. h * w - 1
  BY <1>1
<1> QED BY <1>2, FromRows DEF IsAt

LEMMA Eighths ==
  ASSUME NEW w \in Nat \ {0}, NEW x \in 0 .. w - 1
  PROVE  /\ x \div 8 \in 0 .. Blocks(w) - 1 /\ x % 8 \in 0 .. 7
         /\ x = 8 * (x \div 8) + (x % 8) /\ Blocks(w) \in Nat \ {0}
BY DEF Blocks

\* ConvertYUV2RGB writes the offsets of its block, as far as they are in the
\* picture.
Fits(mode, w, h, num) ==
  mode = "mono" => w % 8 = 0 /\ h % 8 = 0 /\ num < (h \div 8) * Blocks(w)

IsStroke(w, h, num, st) ==
  /\ st.offset \in 0 .. w * h - 1
  /\ Cell(w, st.offset) = num /\ st.pixel = In(w, st.offset)

LEMMA StrokesInside ==
  ASSUME NEW mode, NEW w \in Nat \ {0}, NEW h \in Nat, NEW num \in Nat,
         Fits(mode, w, h, num), NEW st \in Written(mode, w, h, num)
  PROVE  IsStroke(w, h, num, st)
<1> DEFINE W == Blocks(w)
           c == num % W  r == num \div W
<1>1. W \in Nat \ {0}
  BY DEF Blocks
<1>2. PICK i \in 0 .. 63 :
        /\ mode = "mono" \/ (c * 8 + (i % 8) < w /\ r * 8 + i \div 8 < h)
        /\ st = [offset |-> (r * 8 + i \div 8) * w + (c * 8 + (i % 8)), pixel |-> i]
  BY DEF Written
<1>3. num = W * r + c /\ c \in 0 .. W - 1 /\ r \in Nat
  <2> HIDE DEF W
  <2>1. num \in Int
    OBVIOUS
  <2> QED BY <1>1, <2>1, DivMod, DivNat
<1> DEFINE x == c * 8 + (i % 8)
           y == r * 8 + i \div 8
<1>4. i % 8 \in 0 .. 7 /\ i \div 8 \in 0 .. 7 /\ i = (i \div 8) * 8 + (i % 8)
  OBVIOUS
<1>5. x < w /\ y < h
  <2>1. CASE mode = "mono"
    <3>1. w = 8 * W /\ h = 8 * (h \div 8) /\ num < (h \div 8) * W
      BY <2>1 DEF Fits, Blocks
    <3> DEFINE H == h \div 8
    <3>2. H \in Nat
      OBVIOUS
    <3> HIDE DEF W, H, c, r
    <3>3. r < H
      <4> SUFFICES ASSUME r >= H PROVE FALSE
        BY <1>3, <3>2
      <4> DEFINE d == r - H
      <4>1. d \in Nat /\ r = H + d
        BY <1>3, <3>2
      <4> HIDE DEF d
      <4>2. W * r = H * W + W * d /\ W * d \in Nat /\ H * W \in Nat
        BY <1>1, <3>2, <4>1
      <4> QED BY <1>3, <3>1, <4>2 DEF H
    <3>4. h = 8 * H
      BY <3>1 DEF H
    <3> DEFINE u == i % 8  v == i \div 8
    <3>5. u \in 0 .. 7 /\ v \in 0 .. 7
      BY <1>4
    <3> HIDE DEF u, v
    <3>6. c * 8 + u < w /\ r * 8 + v < h
      BY <1>1, <1>3, <3>1, <3>2, <3>3, <3>4, <3>5
    <3> QED BY <3>6 DEF u, v
  <2>2. CASE mode # "mono"
    BY <1>2, <2>2
  <2> QED BY <2>1, <2>2
<1>6. /\ x \in 0 .. w - 1 /\ y \in 0 .. h - 1
      /\ x \div 8 = c /\ x % 8 = i % 8 /\ y \div 8 = r /\ y % 8 = i \div 8
  <2> HIDE DEF c, r
  <2> QED BY <1>3, <1>4, <1>5
<1> DEFINE o == y * w + x
<1>7. st.offset = o /\ st.pixel = i
  BY <1>2
<1> HIDE DEF x, y
<1>8. IsAt(w, h, o, x, y)
  BY <1>6, OffsetAt
<1> HIDE DEF o, c, r, W
<1>9. Cell(w, o) = r * W + c /\ In(w, o) = (i \div 8) * 8 + (i % 8)
  BY <1>6, <1>8 DEF Cell, In, IsAt, W
<1>10. Cell(w, o) = num /\ In(w, o) = i
  BY <1>1, <1>3, <1>4, <1>9
<1> QED BY <1>7, <1>8, <1>10 DEF IsStroke, IsAt

LEMMA StrokesAll ==
  ASSUME NEW mode, NEW w \in Nat \ {0}, NEW h \in Nat, NEW o \in 0 .. w * h - 1
  PROVE  [offset |-> o, pixel |-> In(w, o)] \in Written(mode, w, h, Cell(w, o))
<1> DEFINE x == o % w  y == o \div w  W == Blocks(w)
           num == Cell(w, o)  i == In(w, o)
           a == y \div 8  b == x \div 8
<1>1. IsAt(w, h, o, x, y)
  BY AtOffset
<1>2. x \in 0 .. w - 1 /\ y \in 0 .. h - 1 /\ o = y * w + x
  BY <1>1 DEF IsAt
<1> HIDE DEF x, y
<1>3. /\ b \in 0 .. W - 1 /\ x % 8 \in 0 .. 7 /\ x = 8 * b + (x % 8)
      /\ W \in Nat \ {0}
  BY <1>2, Eighths
<1>4. a \in Nat /\ y % 8 \in 0 .. 7 /\ y = 8 * a + (y % 8)
  BY <1>2
<1>5. num = a * W + b /\ i = (y % 8) * 8 + (x % 8)
  BY DEF Cell, In, x, y
<1> HIDE DEF a, b, W, num, i
<1>6. num % W = b /\ num \div W = a
  <2>0. W \in Nat \ {0} /\ a \in Int /\ b \in 0 .. W - 1
    BY <1>3, <1>4
  <2>1. (W * a + b) % W = b /\ (W * a + b) \div W = a
    BY <2>0, DivUnique
  <2>2. num = W * a + b
    BY <1>3, <1>4, <1>5
  <2> QED BY <2>1, <2>2
<1> DEFINE u == x % 8  v == y % 8
<1>7. i \in 0 .. 63 /\ i % 8 = u /\ i \div 8 = v
  <2>1. u \in 0 .. 7 /\ v \in 0 .. 7 /\ i = v * 8 + u
    BY <1>3, <1>4, <1>5
  <2> HIDE DEF u, v
  <2> QED BY <2>1
<1>8. (num % W) * 8 + (i % 8) = x /\ (num \div W) * 8 + i \div 8 = y
  <2>1. u \in 0 .. 7 /\ v \in 0 .. 7 /\ a \in Nat /\ b \in 0 .. W - 1 /\ W \in Nat \ {0}
    BY <1>3, <1>4, Zenon
  <2>3. x = 8 * b + u /\ y = 8 * a + v
    BY <1>3, <1>4, Zenon
  <2> HIDE DEF u, v
  <2>2. b * 8 + u = x /\ a * 8 + v = y
    BY <2>1, <2>3
  <2> QED BY <1>6, <1>7, <2>2
<1>9. [offset |-> ((num \div W) * 8 + i \div 8) * w + ((num % W) * 8 + (i % 8)), pixel |-> i]
         \in Written(mode, w, h, num)
  <2> DEFINE X(j) == (num % W) * 8 + (j % 8)
             Y(j) == (num \div W) * 8 + j \div 8
  <2>1. X(i) < w /\ Y(i) < h
    BY <1>2, <1>8
  <2> HIDE DEF X, Y
  <2>2. i \in {j \in 0 .. 63 : mode = "mono" \/ (X(j) < w /\ Y(j) < h)}
    BY <1>7, <2>1
  <2>3. [offset |-> Y(i) * w + X(i), pixel |-> i]
          \in {[offset |-> Y(j) * w + X(j), pixel |-> j] :
                 j \in {j \in 0 .. 63 : mode = "mono" \/ (X(j) < w /\ Y(j) < h)}}
    BY <2>2
  <2> QED BY <2>3, Zenon DEF Written, W, X, Y
<1> QED BY <1>2, <1>8, <1>9 DEF num, i

-----------------------------------------------------------------------------
(* What is painted, when each offset belongs to the block of one call.     *)
PixelCount == frame.w * frame.h

Tiled(K) ==
  /\ K \in [0 .. PixelCount - 1 -> 1 .. Len(placed)]
  /\ \A o \in 0 .. PixelCount - 1 : placed[K[o]].num = Cell(frame.w, o)
  /\ \A k \in 1 .. Len(placed) :
        /\ placed[k].num \in Nat
        /\ Fits(frame.mode, frame.w, frame.h, placed[k].num)
        /\ \A o \in 0 .. PixelCount - 1 : Cell(frame.w, o) = placed[k].num => k = K[o]

LEMMA StrokesOnce ==
  ASSUME NEW K, Tiled(K), frame.w \in Nat \ {0}, frame.h \in Nat,
         NEW k \in 1 .. Len(placed), NEW s \in Strokes(k)
  PROVE  /\ s.offset \in 0 .. PixelCount - 1 /\ K[s.offset] = k
         /\ s.pixel = In(frame.w, s.offset)
<1> DEFINE num == placed[k].num
<1>1. num \in Nat /\ Fits(frame.mode, frame.w, frame.h, num)
  BY DEF Tiled
<1>2. s \in Written(frame.mode, frame.w, frame.h, num)
  BY DEF Strokes
<1>3. IsStroke(frame.w, frame.h, num, s)
  <2> HIDE DEF num
  <2> QED BY <1>1, <1>2, StrokesInside
<1> QED BY <1>3 DEF IsStroke, Tiled, PixelCount

LEMMA Painting ==
  ASSUME NEW K, Tiled(K), frame.w \in Nat \ {0}, frame.h \in Nat, Len(placed) \in Nat
  PROVE  Painted = [o \in 0 .. PixelCount - 1 |-> Source(placed[K[o]], In(frame.w, o))]
<1> DEFINE N == PixelCount
           P == 1 .. Len(placed)
           offsets == [k \in P |-> Offsets(k)]
           covering(o) == {k \in P : o \in offsets[k]}
           final(o) == Max(covering(o))
           stroke(o) == CHOOSE s \in Strokes(final(o)) : s.offset = o
           written == UNION {offsets[k] : k \in P}
<1>1. Painted = [o \in written |-> Source(placed[final(o)], stroke(o).pixel)]
  BY Zenon DEF Painted
<1>2. \A k \in P : \A s \in Strokes(k) :
         s.offset \in 0 .. N - 1 /\ K[s.offset] = k /\ s.pixel = In(frame.w, s.offset)
  BY StrokesOnce
<1>3. \A o \in 0 .. N - 1 :
         K[o] \in P /\ [offset |-> o, pixel |-> In(frame.w, o)] \in Strokes(K[o])
  <2> TAKE o \in 0 .. N - 1
  <2>1. K[o] \in P /\ placed[K[o]].num = Cell(frame.w, o)
    BY DEF Tiled
  <2>2. o \in 0 .. frame.w * frame.h - 1
    BY DEF PixelCount
  <2>3. [offset |-> o, pixel |-> In(frame.w, o)]
          \in Written(frame.mode, frame.w, frame.h, Cell(frame.w, o))
    BY <2>2, StrokesAll
  <2> QED BY <2>1, <2>3 DEF Strokes
<1>4. \A k \in P : \A o \in offsets[k] : o \in 0 .. N - 1 /\ K[o] = k
  BY <1>2 DEF Offsets
<1>5. \A o \in 0 .. N - 1 : K[o] \in P /\ o \in offsets[K[o]]
  <2> TAKE o \in 0 .. N - 1
  <2>1. PICK s \in Strokes(K[o]) : s.offset = o
    BY <1>3
  <2>2. o \in Offsets(K[o])
    BY <2>1 DEF Offsets
  <2> QED BY <1>3, <2>2
<1> HIDE DEF N, P, offsets
<1>6. written = 0 .. N - 1
  BY <1>4, <1>5
<1>7. \A o \in 0 .. N - 1 : final(o) = K[o]
  <2> TAKE o \in 0 .. N - 1
  <2>1. covering(o) = {K[o]}
    BY <1>4, <1>5
  <2>2. Max({K[o]}) = K[o]
    <3>1. K[o] \in Nat
      BY <1>5 DEF P
    <3> QED BY <3>1 DEF Max
  <2> QED BY <2>1, <2>2
<1> HIDE DEF covering, final, written
<1>8. \A o \in 0 .. N - 1 : stroke(o).pixel = In(frame.w, o)
  <2> TAKE o \in 0 .. N - 1
  <2>1. final(o) = K[o] /\ K[o] \in P
    BY <1>5, <1>7
  <2>2. \E s \in Strokes(K[o]) : s.offset = o
    BY <1>3
  <2>3. stroke(o) \in Strokes(K[o]) /\ stroke(o).offset = o
    BY <2>1, <2>2
  <2> HIDE DEF stroke
  <2> QED BY <1>2, <2>1, <2>3
<1> HIDE DEF stroke
<1>9. \A o \in written :
        Source(placed[final(o)], stroke(o).pixel) = Source(placed[K[o]], In(frame.w, o))
  BY <1>6, <1>7, <1>8
<1>10. Painted = [o \in 0 .. N - 1 |-> Source(placed[K[o]], In(frame.w, o))]
  BY <1>1, <1>6, <1>9
<1> QED BY <1>10 DEF N

-----------------------------------------------------------------------------
(* The number of calls, and the call for each offset.                      *)

\* The blocks of the picture, row by row.
LEMMA CellInside ==
  ASSUME NEW w \in Nat \ {0}, NEW h \in Nat, NEW o \in 0 .. w * h - 1
  PROVE  /\ (o \div w) \div 8 \in 0 .. Blocks(h) - 1 /\ (o % w) \div 8 \in 0 .. Blocks(w) - 1
         /\ Cell(w, o) \in 0 .. Blocks(h) * Blocks(w) - 1
<1> DEFINE x == o % w  y == o \div w
           a == y \div 8  b == x \div 8
<1>1. x \in 0 .. w - 1 /\ y \in 0 .. h - 1
  BY AtOffset DEF IsAt
<1> HIDE DEF x, y
<1>2. h \in Nat \ {0}
  BY <1>1
<1>3. a \in 0 .. Blocks(h) - 1 /\ Blocks(h) \in Nat
  BY <1>1, <1>2, Eighths
<1>4. b \in 0 .. Blocks(w) - 1 /\ Blocks(w) \in Nat \ {0}
  BY <1>1, Eighths
<1>5. Cell(w, o) = a * Blocks(w) + b
  BY DEF Cell, x, y
<1> HIDE DEF a, b
<1>6. InBox(Blocks(h), Blocks(w), a, b)
  BY <1>3, <1>4, RowByRow
<1> QED BY <1>3, <1>4, <1>5, <1>6 DEF InBox, a, b, x, y

LEMMA WholeBlocks ==
  ASSUME NEW h \in Nat, h % 8 = 0
  PROVE  h \div 8 = Blocks(h)
BY DEF Blocks

\* The call of an offset, one block at a time.
LEMMA TiledByBlock ==
  ASSUME Len(placed) = Blocks(frame.h) * Blocks(frame.w),
         frame.w \in Nat \ {0}, frame.h \in Nat,
         frame.mode = "mono" => frame.w % 8 = 0 /\ frame.h % 8 = 0,
         \A k \in 1 .. Len(placed) : placed[k].num = k - 1
  PROVE  Tiled([o \in 0 .. PixelCount - 1 |-> Cell(frame.w, o) + 1])
<1> DEFINE w == frame.w  h == frame.h  P == Len(placed)
           K == [o \in 0 .. PixelCount - 1 |-> Cell(w, o) + 1]
<1>1. P \in Nat
  BY DEF Blocks
<1>2. \A o \in 0 .. PixelCount - 1 : Cell(w, o) \in 0 .. P - 1
  BY CellInside DEF PixelCount
<1> DEFINE C(o) == Cell(w, o)
<1>3. \A o \in 0 .. PixelCount - 1 : C(o) \in 0 .. P - 1 /\ K[o] = C(o) + 1
  BY <1>2
<1>4. \A k \in 1 .. P : placed[k].num = k - 1
  OBVIOUS
<1>5. \A k \in 1 .. P : Fits(frame.mode, w, h, k - 1)
  <2> TAKE k \in 1 .. P
  <2> SUFFICES ASSUME frame.mode = "mono"
               PROVE  w % 8 = 0 /\ h % 8 = 0 /\ k - 1 < (h \div 8) * Blocks(w)
    BY DEF Fits
  <2>1. h \div 8 = Blocks(h)
    BY WholeBlocks
  <2>2. P = (h \div 8) * Blocks(w)
    BY <2>1
  <2> QED BY <1>1, <2>2
<1>6. K \in [0 .. PixelCount - 1 -> 1 .. P]
  <2> HIDE DEF P
  <2> QED BY <1>1, <1>2
<1> HIDE DEF K, C, P
<1>7. \A o \in 0 .. PixelCount - 1 : placed[K[o]].num = C(o)
  <2> TAKE o \in 0 .. PixelCount - 1
  <2>1. C(o) + 1 \in 1 .. P /\ C(o) \in Int
    BY <1>1, <1>3
  <2>2. placed[C(o) + 1].num = (C(o) + 1) - 1
    BY <1>4, <2>1
  <2> QED BY <1>3, <2>1, <2>2
<1>8. \A k \in 1 .. P : \A o \in 0 .. PixelCount - 1 : C(o) = placed[k].num => k = K[o]
  BY <1>1, <1>3, <1>4
<1>9. \A k \in 1 .. P : placed[k].num \in Nat /\ Fits(frame.mode, w, h, placed[k].num)
  <2> TAKE k \in 1 .. P
  <2>1. k - 1 \in Nat
    BY <1>1
  <2> QED BY <1>4, <1>5, <2>1
<1>10. Tiled(K)
  BY <1>6, <1>7, <1>8, <1>9 DEF Tiled, C, P
<1> QED BY <1>10 DEF K

LEMMA SiteOf ==
  ASSUME NEW half \in Nat \ {0}, NEW j \in Nat, NEW q \in 0 .. 3
  PROVE  /\ Site(half, j, q) \in Nat
         /\ Site(half, j, q) % (2 * half) = 2 * (j % half) + (q % 2)
         /\ Site(half, j, q) \div (2 * half) = 2 * (j \div half) + q \div 2
         /\ j = half * (j \div half) + (j % half)
         /\ j % half \in 0 .. half - 1 /\ j \div half \in Nat
<1> DEFINE r == j % half  d == j \div half
<1>1. j = half * d + r /\ r \in 0 .. half - 1 /\ d \in Nat
  <2>1. j \in Int
    OBVIOUS
  <2> QED BY <2>1, DivMod, DivNat
<1> HIDE DEF r, d
<1> DEFINE B == 2 * half  b == 2 * r + (q % 2)  a == 2 * d + q \div 2
<1>2. B \in Nat \ {0} /\ b \in 0 .. B - 1 /\ a \in Nat
  BY <1>1
<1>3. Site(half, j, q) = b + B * a
  BY DEF Site, r, d
<1> HIDE DEF B, b, a
<1>4. (B * a + b) % B = b /\ (B * a + b) \div B = a
  BY <1>2, DivUnique
<1>5. b + B * a = B * a + b /\ B * a \in Nat
  BY <1>2
<1>6. Site(half, j, q) \in Nat
  BY <1>2, <1>3, <1>5
<1> QED BY <1>1, <1>3, <1>4, <1>5, <1>6 DEF B, b, a, r, d

\* In 4:2:0, the MCU of the block in row R and column C, and its quarter.
McuOf(half, R, C) == half * (R \div 2) + C \div 2
QuarterOf(R, C) == 2 * (R % 2) + (C % 2)

IsSite(half, R, C, j, q) ==
  j \in Nat /\ q \in 0 .. 3 /\ Site(half, j, q) = R * (2 * half) + C

LEMMA SiteFound ==
  ASSUME NEW half \in Nat \ {0}, NEW R \in Nat, NEW C \in 0 .. 2 * half - 1
  PROVE  IsSite(half, R, C, McuOf(half, R, C), QuarterOf(R, C))
<1> DEFINE j == McuOf(half, R, C)  q == QuarterOf(R, C)
           d == R \div 2  r == C \div 2  u == R % 2  v == C % 2
<1>1. /\ R = 2 * d + u /\ C = 2 * r + v /\ u \in 0 .. 1 /\ v \in 0 .. 1
      /\ d \in Nat /\ r \in 0 .. half - 1
  OBVIOUS
<1>2. j = half * d + r /\ q = 2 * u + v
  BY DEF McuOf, QuarterOf
<1> HIDE DEF j, q, d, r, u, v
<1>3. j % half = r /\ j \div half = d
  BY <1>1, <1>2, DivUnique
<1>4. half * d \in Nat
  BY <1>1
<1>5. j \in Nat /\ q \in 0 .. 3
  BY <1>1, <1>2, <1>4
<1>6. q % 2 = v /\ q \div 2 = u
  BY <1>1, <1>2
<1>7. Site(half, j, q) = 2 * r + v + 2 * half * (2 * d + u)
  BY <1>3, <1>6 DEF Site
<1>8. Site(half, j, q) = C + 2 * half * R
  BY <1>1, <1>7
<1>9. C + 2 * half * R = R * (2 * half) + C
  OBVIOUS
<1> QED BY <1>5, <1>8, <1>9 DEF IsSite, j, q

LEMMA SiteOnce ==
  ASSUME NEW half \in Nat \ {0}, NEW R \in Nat, NEW C \in 0 .. 2 * half - 1,
         NEW j, NEW q, IsSite(half, R, C, j, q)
  PROVE  j = McuOf(half, R, C) /\ q = QuarterOf(R, C)
<1> DEFINE d == j \div half  r == j % half  B == 2 * half
<1>1. j \in Nat /\ q \in 0 .. 3 /\ Site(half, j, q) = R * B + C
  BY DEF IsSite
<1>2. /\ Site(half, j, q) % B = 2 * r + (q % 2)
      /\ Site(half, j, q) \div B = 2 * d + q \div 2
      /\ j = half * d + r /\ r \in 0 .. half - 1 /\ d \in Nat
  BY <1>1, SiteOf
<1>3. B \in Nat \ {0} /\ C \in 0 .. B - 1
  OBVIOUS
<1> HIDE DEF B, d, r
<1>4. (B * R + C) % B = C /\ (B * R + C) \div B = R
  <2>1. \A b \in Nat \ {0} : \A a \in Int : \A c \in 0 .. b - 1 :
           (b * a + c) % b = c /\ (b * a + c) \div b = a
    BY DivUnique
  <2>2. R \in Int
    OBVIOUS
  <2> QED BY <1>3, <2>1, <2>2, Zenon
<1>5. B * R + C = R * B + C
  BY <1>3
<1>6. C = 2 * r + (q % 2) /\ R = 2 * d + q \div 2
  BY <1>1, <1>2, <1>4, <1>5
<1> DEFINE u == q \div 2  v == q % 2
<1>7. u \in 0 .. 1 /\ v \in 0 .. 1 /\ q = 2 * u + v
  BY <1>1
<1>8. C = 2 * r + v /\ R = 2 * d + u
  BY <1>6
<1> HIDE DEF u, v
<1>9. C \div 2 = r /\ C % 2 = v /\ R \div 2 = d /\ R % 2 = u
  BY <1>2, <1>7, <1>8
<1> QED BY <1>2, <1>7, <1>9 DEF McuOf, QuarterOf

\* The place of call k.
LEMMA FourEach ==
  ASSUME NEW m \in Nat, NEW k \in 1 .. 4 * m
  PROVE  \E j \in 0 .. m - 1 : \E q \in 0 .. 3 : k = 4 * j + q + 1
<1> DEFINE j == (k - 1) \div 4  q == (k - 1) % 4
<1>1. j \in 0 .. m - 1 /\ q \in 0 .. 3 /\ k = 4 * j + q + 1
  OBVIOUS
<1> QED BY <1>1

RowOf(o) == (o \div frame.w) \div 8
ColumnOf(o) == (o % frame.w) \div 8

CallOf(half, o) ==
  4 * McuOf(half, RowOf(o), ColumnOf(o)) + QuarterOf(RowOf(o), ColumnOf(o)) + 1

LEMMA TiledByMcu ==
  ASSUME frame.w \in Nat \ {0}, frame.h \in Nat, frame.mode = "420",
         NEW half \in Nat \ {0}, NEW m,
         Blocks(frame.w) = 2 * half, m = half * ((frame.h + 15) \div 16),
         Placed420(half, m)
  PROVE  Tiled([o \in 0 .. PixelCount - 1 |-> CallOf(half, o)])
<1> DEFINE w == frame.w  h == frame.h
           H == (h + 15) \div 16
           K == [o \in 0 .. PixelCount - 1 |-> CallOf(half, o)]
           J(o) == McuOf(half, RowOf(o), ColumnOf(o))
           Q(o) == QuarterOf(RowOf(o), ColumnOf(o))
<1>1. w \in Nat \ {0} /\ h \in Nat /\ H \in Nat
  OBVIOUS
<1>2. m \in Nat
  BY <1>1
<1>3. \A o \in 0 .. PixelCount - 1 :
         RowOf(o) \in 0 .. Blocks(h) - 1 /\ ColumnOf(o) \in 0 .. 2 * half - 1
  BY <1>1, CellInside DEF PixelCount, RowOf, ColumnOf
<1>4. \A o \in 0 .. PixelCount - 1 : IsSite(half, RowOf(o), ColumnOf(o), J(o), Q(o))
  <2> TAKE o \in 0 .. PixelCount - 1
  <2>1. RowOf(o) \in Nat /\ ColumnOf(o) \in 0 .. 2 * half - 1
    BY <1>3 DEF Blocks
  <2> HIDE DEF J, Q
  <2> QED BY <2>1, SiteFound DEF J, Q
<1>5. \A o \in 0 .. PixelCount - 1 : J(o) \in 0 .. m - 1
  <2> TAKE o \in 0 .. PixelCount - 1
  <2> DEFINE R == RowOf(o)  C == ColumnOf(o)  a == R \div 2  b == C \div 2
  <2>1. R \in 0 .. Blocks(h) - 1 /\ C \in 0 .. 2 * half - 1
    BY <1>3
  <2>2. a \in 0 .. H - 1
    <3> HIDE DEF R
    <3> QED BY <1>1, <2>1 DEF Blocks
  <2>3. b \in 0 .. half - 1
    <3> HIDE DEF C
    <3> QED BY <2>1
  <2>4. J(o) = half * a + b
    BY DEF McuOf
  <2> HIDE DEF a, b, H, R, C
  <2>5. InBox(H, half, a, b)
    BY <1>1, <2>2, <2>3, RowByRow
  <2>6. a * half + b = half * a + b /\ H * half = half * H
    BY <1>1, <2>2, <2>3
  <2> QED BY <2>4, <2>5, <2>6 DEF InBox, H
<1> HIDE DEF J, Q
<1>6. \A o \in 0 .. PixelCount - 1 : K[o] = 4 * J(o) + Q(o) + 1
  BY DEF CallOf, J, Q
<1>7. \A o \in 0 .. PixelCount - 1 : K[o] \in 1 .. 4 * m
  <2> TAKE o \in 0 .. PixelCount - 1
  <2>1. J(o) \in 0 .. m - 1 /\ Q(o) \in 0 .. 3
    BY <1>4, <1>5 DEF IsSite
  <2> QED BY <1>2, <1>6, <2>1
<1>8. Len(placed) = 4 * m
  BY DEF Placed420
<1>9. \A j \in 0 .. m - 1 : \A q \in 0 .. 3 : placed[4 * j + q + 1].num = Site(half, j, q)
  <2> TAKE j \in 0 .. m - 1
  <2> TAKE q \in 0 .. 3
  <2>1. placed[4 * j + q + 1] = Call(Site(half, j, q), 6 * j + q + 1, 6 * j + 5, q)
    BY Zenon DEF Placed420
  <2> QED BY <2>1 DEF Call
<1>10. \A o \in 0 .. PixelCount - 1 : Cell(w, o) = RowOf(o) * (2 * half) + ColumnOf(o)
  BY DEF Cell, RowOf, ColumnOf
<1>14. K \in [0 .. PixelCount - 1 -> 1 .. Len(placed)]
  BY <1>7, <1>8, Zenon
<1> HIDE DEF K
<1>11. \A o \in 0 .. PixelCount - 1 : placed[K[o]].num = Cell(w, o)
  <2> TAKE o \in 0 .. PixelCount - 1
  <2>1. J(o) \in 0 .. m - 1 /\ Q(o) \in 0 .. 3
        /\ Site(half, J(o), Q(o)) = RowOf(o) * (2 * half) + ColumnOf(o)
    BY <1>4, <1>5 DEF IsSite
  <2>2. placed[4 * J(o) + Q(o) + 1].num = Site(half, J(o), Q(o))
    BY <1>9, <2>1
  <2> QED BY <1>6, <1>10, <2>1, <2>2
<1>12. \A k \in 1 .. Len(placed) :
         /\ placed[k].num \in Nat
         /\ \A o \in 0 .. PixelCount - 1 : Cell(w, o) = placed[k].num => k = K[o]
  <2> TAKE k \in 1 .. Len(placed)
  <2>1. PICK j \in 0 .. m - 1 : \E q \in 0 .. 3 : k = 4 * j + q + 1
    <3>1. k \in 1 .. 4 * m
      BY <1>8
    <3> QED BY <1>2, <3>1, FourEach
  <2>2. PICK q \in 0 .. 3 : k = 4 * j + q + 1
    BY <2>1
  <2>3. placed[k].num = Site(half, j, q) /\ j \in Nat
    <3>1. placed[4 * j + q + 1].num = Site(half, j, q)
      BY <1>9
    <3>2. j \in Nat
      BY <1>2
    <3> QED BY <2>2, <3>1, <3>2
  <2>4. Site(half, j, q) \in Nat
    BY <2>3, SiteOf
  <2>5. ASSUME NEW o \in 0 .. PixelCount - 1, Cell(w, o) = placed[k].num
        PROVE  k = K[o]
    <3>1. IsSite(half, RowOf(o), ColumnOf(o), j, q)
      BY <1>10, <2>3, <2>5 DEF IsSite
    <3>2. RowOf(o) \in Nat /\ ColumnOf(o) \in 0 .. 2 * half - 1
      BY <1>3 DEF Blocks
    <3>3. j = J(o) /\ q = Q(o)
      BY <3>1, <3>2, SiteOnce DEF J, Q
    <3> QED BY <1>6, <2>2, <3>3
  <2> QED BY <2>3, <2>4, <2>5
<1>13. \A k \in 1 .. Len(placed) : Fits(frame.mode, w, h, placed[k].num)
  BY DEF Fits
<1>15. Tiled(K)
  BY <1>11, <1>12, <1>13, <1>14, Zenon DEF Tiled
<1> QED BY <1>15 DEF K

-----------------------------------------------------------------------------
(* The samples of a pixel, in each mode.                                   *)
LEMMA PixelMono ==
  ASSUME NEW w \in Nat \ {0}, NEW o \in Nat, frame.mode = "mono"
  PROVE  Source(Call(Cell(w, o), Cell(w, o) + 1, 0, 0), In(w, o))
         = Encoder!Pixel("mono", w, o % w, o \div w)
BY DEF Source, Call, Cell, In, Encoder!Pixel, Blocks

LEMMA Pixel444 ==
  ASSUME NEW w \in Nat \ {0}, NEW o \in Nat, frame.mode = "444", Cell(w, o) \in Nat
  PROVE  Source(Call(Cell(w, o), 3 * (Cell(w, o) + 1) - 2, 3 * (Cell(w, o) + 1) - 1, 0),
                In(w, o))
         = Encoder!Pixel("444", w, o % w, o \div w)
<1> DEFINE c == Cell(w, o)  i == In(w, o)
<1>1. Encoder!Pixel("444", w, o % w, o \div w)
      = [luma |-> 3 * c + 1, i |-> i, chroma |-> 3 * c + 2, j |-> i]
  BY Zenon DEF Encoder!Pixel, Cell, In, Blocks
<1> HIDE DEF c, i
<1>2. Source(Call(c, 3 * (c + 1) - 2, 3 * (c + 1) - 1, 0), i)
      = [luma |-> 3 * (c + 1) - 2, i |-> i, chroma |-> 3 * (c + 1) - 1, j |-> i]
  BY DEF Source, Call
<1>3. 3 * (c + 1) - 2 = 3 * c + 1 /\ 3 * (c + 1) - 1 = 3 * c + 2
  BY DEF c
<1> QED BY <1>1, <1>2, <1>3 DEF c, i

\* Sixteen rows or columns of pixels.
LEMMA Sixteen ==
  ASSUME NEW y \in Nat
  PROVE  /\ (y \div 8) \div 2 = y \div 16
         /\ (y \div 8) % 2 = (y % 16) \div 8
         /\ (y % 16) \div 2 = 4 * ((y % 16) \div 8) + (y % 8) \div 2
         /\ (y % 16) \div 8 \in 0 .. 1 /\ y % 8 \in 0 .. 7
OBVIOUS

LEMMA Chroma ==
  ASSUME NEW x \in Nat, NEW y \in Nat
  PROVE  ChromaIndex(QuarterOf(y \div 8, x \div 8), (y % 8) * 8 + (x % 8))
         = ((y % 16) \div 2) * 8 + (x % 16) \div 2
<1> DEFINE u == (y % 16) \div 8  v == (x % 16) \div 8  a == y % 8  b == x % 8
           q == QuarterOf(y \div 8, x \div 8)
<1>1. /\ u \in 0 .. 1 /\ v \in 0 .. 1 /\ a \in 0 .. 7 /\ b \in 0 .. 7
      /\ (y % 16) \div 2 = 4 * u + a \div 2
      /\ (x % 16) \div 2 = 4 * v + b \div 2
      /\ q = 2 * u + v
  BY Sixteen DEF QuarterOf
<1> HIDE DEF u, v, a, b, q
<1>2. q \div 2 = u /\ q % 2 = v
  BY <1>1
<1>3. (a * 8 + b) \div 16 = a \div 2 /\ (a * 8 + b) % 8 = b
  BY <1>1
<1>4. ChromaIndex(q, a * 8 + b) = v * 4 + u * 32 + (a \div 2) * 8 + b \div 2
  BY <1>2, <1>3 DEF ChromaIndex
<1>5. v * 4 + u * 32 + (a \div 2) * 8 + b \div 2
      = ((y % 16) \div 2) * 8 + (x % 16) \div 2
  <2> DEFINE s == a \div 2  t == b \div 2
  <2>1. s \in Int /\ t \in Int
    BY <1>1
  <2>2. (y % 16) \div 2 = 4 * u + s /\ (x % 16) \div 2 = 4 * v + t
    BY <1>1
  <2> HIDE DEF s, t
  <2>3. v * 4 + u * 32 + s * 8 + t = (4 * u + s) * 8 + (4 * v + t)
    BY <1>1, <2>1
  <2> QED BY <2>2, <2>3 DEF s, t
<1> QED BY <1>4, <1>5 DEF a, b, q

LEMMA Pixel420 ==
  ASSUME NEW w \in Nat \ {0}, NEW half \in Nat, Blocks(w) = 2 * half,
         NEW x \in 0 .. w - 1, NEW y \in Nat, frame.mode = "420",
         NEW j, NEW q, NEW num,
         j = McuOf(half, y \div 8, x \div 8), q = QuarterOf(y \div 8, x \div 8)
  PROVE  Source(Call(num, 6 * j + q + 1, 6 * j + 5, q), (y % 8) * 8 + (x % 8))
         = Encoder!Pixel("420", w, x, y)
<1> DEFINE i == (y % 8) * 8 + (x % 8)
<1>1. (w + 15) \div 16 = half
  BY DEF Blocks
<1>2. /\ (y \div 8) \div 2 = y \div 16 /\ (x \div 8) \div 2 = x \div 16
      /\ (y \div 8) % 2 = (y % 16) \div 8 /\ (x \div 8) % 2 = (x % 16) \div 8
  BY Sixteen
<1>3. j = (y \div 16) * ((w + 15) \div 16) + x \div 16
  <2> DEFINE a == y \div 16  b == x \div 16
  <2>1. j = half * a + b
    BY <1>2 DEF McuOf
  <2>2. a \in Nat /\ b \in Nat
    OBVIOUS
  <2> HIDE DEF a, b
  <2>3. j = a * half + b
    BY <2>1, <2>2
  <2> QED BY <1>1, <2>3 DEF a, b
<1>4. q = 2 * ((y % 16) \div 8) + (x % 16) \div 8
  BY <1>2 DEF QuarterOf
<1>5. ChromaIndex(q, i) = ((y % 16) \div 2) * 8 + (x % 16) \div 2
  BY Chroma
<1>6. Encoder!Pixel("420", w, x, y)
      = [luma |-> 6 * j + q + 1, i |-> i, chroma |-> 6 * j + 5,
         j |-> ((y % 16) \div 2) * 8 + (x % 16) \div 2]
  BY <1>3, <1>4, Zenon DEF Encoder!Pixel
<1> HIDE DEF i
<1>7. Source(Call(num, 6 * j + q + 1, 6 * j + 5, q), i)
      = [luma |-> 6 * j + q + 1, i |-> i, chroma |-> 6 * j + 5, j |-> ChromaIndex(q, i)]
  BY DEF Source, Call
<1> QED BY <1>5, <1>6, <1>7 DEF i

-----------------------------------------------------------------------------
(* The picture at the end.                                                 *)
Shown == [o \in 0 .. PixelCount - 1 |->
             Encoder!Pixel(frame.mode, frame.w, o % frame.w, o \div frame.w)]

LEMMA ShownMono ==
  ASSUME frame.mode = "mono", frame.w \in Nat \ {0}, frame.h \in Nat,
         frame.w % 8 = 0, frame.h % 8 = 0, PlacedMono,
         Len(placed) = Blocks(frame.h) * Blocks(frame.w)
  PROVE  Painted = Shown
<1> DEFINE K == [o \in 0 .. PixelCount - 1 |-> Cell(frame.w, o) + 1]
<1>1. \A k \in 1 .. Len(placed) : placed[k] = Call(k - 1, k, 0, 0)
  BY DEF PlacedMono
<1>2. \A k \in 1 .. Len(placed) : placed[k].num = k - 1
  BY <1>1 DEF Call
<1>3. Tiled(K)
  BY <1>2, TiledByBlock
<1>4. Len(placed) \in Nat
  BY DEF Blocks
<1>5. \A o \in 0 .. PixelCount - 1 :
         o \in Nat /\ K[o] \in 1 .. Len(placed) /\ K[o] = Cell(frame.w, o) + 1
         /\ Cell(frame.w, o) \in Int
  <2>1. \A o \in 0 .. PixelCount - 1 : Cell(frame.w, o) \in Int /\ o \in Nat
    <3> TAKE o \in 0 .. PixelCount - 1
    <3>1. Cell(frame.w, o) \in 0 .. Blocks(frame.h) * Blocks(frame.w) - 1
      BY CellInside DEF PixelCount
    <3> QED BY <3>1
  <2> QED BY <1>3, <2>1 DEF Tiled
<1> HIDE DEF K
<1>6. \A o \in 0 .. PixelCount - 1 :
         Source(placed[K[o]], In(frame.w, o))
         = Encoder!Pixel(frame.mode, frame.w, o % frame.w, o \div frame.w)
  <2> TAKE o \in 0 .. PixelCount - 1
  <2> DEFINE c == Cell(frame.w, o)
  <2>1. placed[K[o]] = Call(K[o] - 1, K[o], 0, 0) /\ K[o] = c + 1 /\ c \in Int
    BY <1>1, <1>5
  <2> HIDE DEF c
  <2>2. K[o] - 1 = c
    BY <2>1
  <2>3. placed[K[o]] = Call(c, c + 1, 0, 0)
    BY <2>1, <2>2
  <2> QED BY <1>5, <2>3, PixelMono DEF c
<1>7. Painted = [o \in 0 .. PixelCount - 1 |-> Source(placed[K[o]], In(frame.w, o))]
  BY <1>3, <1>4, Painting
<1> QED BY <1>6, <1>7 DEF Shown

LEMMA Shown444 ==
  ASSUME frame.mode = "444", frame.w \in Nat \ {0}, frame.h \in Nat, Placed444,
         Len(placed) = Blocks(frame.h) * Blocks(frame.w)
  PROVE  Painted = Shown
<1> DEFINE K == [o \in 0 .. PixelCount - 1 |-> Cell(frame.w, o) + 1]
<1>1. \A k \in 1 .. Len(placed) : placed[k] = Call(k - 1, 3 * k - 2, 3 * k - 1, 0)
  BY DEF Placed444
<1>2. \A k \in 1 .. Len(placed) : placed[k].num = k - 1
  BY <1>1 DEF Call
<1>3. Tiled(K)
  BY <1>2, TiledByBlock
<1>4. Len(placed) \in Nat
  BY DEF Blocks
<1>5. \A o \in 0 .. PixelCount - 1 :
         o \in Nat /\ K[o] \in 1 .. Len(placed) /\ K[o] = Cell(frame.w, o) + 1
         /\ Cell(frame.w, o) \in Nat
  <2>1. \A o \in 0 .. PixelCount - 1 : Cell(frame.w, o) \in Nat /\ o \in Nat
    <3> TAKE o \in 0 .. PixelCount - 1
    <3>1. Cell(frame.w, o) \in 0 .. Blocks(frame.h) * Blocks(frame.w) - 1
      BY CellInside DEF PixelCount
    <3> QED BY <3>1
  <2> QED BY <1>3, <2>1 DEF Tiled
<1> HIDE DEF K
<1>6. \A o \in 0 .. PixelCount - 1 :
         Source(placed[K[o]], In(frame.w, o))
         = Encoder!Pixel(frame.mode, frame.w, o % frame.w, o \div frame.w)
  <2> TAKE o \in 0 .. PixelCount - 1
  <2> DEFINE c == Cell(frame.w, o)
  <2>1. placed[K[o]] = Call(K[o] - 1, 3 * K[o] - 2, 3 * K[o] - 1, 0)
        /\ K[o] = c + 1 /\ c \in Nat
    BY <1>1, <1>5
  <2> HIDE DEF c
  <2>2. K[o] - 1 = c
    BY <2>1
  <2>3. placed[K[o]] = Call(c, 3 * (c + 1) - 2, 3 * (c + 1) - 1, 0)
    BY <2>1, <2>2
  <2> QED BY <1>5, <2>1, <2>3, Pixel444 DEF c
<1>7. Painted = [o \in 0 .. PixelCount - 1 |-> Source(placed[K[o]], In(frame.w, o))]
  BY <1>3, <1>4, Painting
<1> QED BY <1>6, <1>7 DEF Shown

LEMMA Shown420 ==
  ASSUME frame.mode = "420", frame.w \in Nat \ {0}, frame.h \in Nat,
         NEW half \in Nat \ {0}, Blocks(frame.w) = 2 * half,
         Placed420(half, half * ((frame.h + 15) \div 16))
  PROVE  Painted = Shown
<1> DEFINE m == half * ((frame.h + 15) \div 16)
           K == [o \in 0 .. PixelCount - 1 |-> CallOf(half, o)]
<1>1. m \in Nat /\ Len(placed) = 4 * m
  <2> DEFINE H == (frame.h + 15) \div 16
  <2>1. H \in Nat
    OBVIOUS
  <2>2. Len(placed) = 4 * (half * H)
    BY Zenon DEF Placed420
  <2> HIDE DEF H
  <2>3. half * H \in Nat
    BY <2>1
  <2> QED BY <2>2, <2>3 DEF H
<1>2. Len(placed) \in Nat
  BY <1>1
<1>3. Tiled(K)
  <2>1. Placed420(half, m)
    OBVIOUS
  <2> QED BY <2>1, TiledByMcu, Zenon
<1>4. \A j \in 0 .. m - 1 : \A q \in 0 .. 3 :
         placed[4 * j + q + 1] = Call(Site(half, j, q), 6 * j + q + 1, 6 * j + 5, q)
  BY Zenon DEF Placed420
<1> HIDE DEF m
<1>5. \A o \in 0 .. PixelCount - 1 :
         Source(placed[K[o]], In(frame.w, o))
         = Encoder!Pixel(frame.mode, frame.w, o % frame.w, o \div frame.w)
  <2> TAKE o \in 0 .. PixelCount - 1
  <2> DEFINE x == o % frame.w  y == o \div frame.w
             j == McuOf(half, y \div 8, x \div 8)  q == QuarterOf(y \div 8, x \div 8)
  <2>1. x \in 0 .. frame.w - 1 /\ y \in Nat
    <3>1. IsAt(frame.w, frame.h, o, x, y)
      BY AtOffset DEF PixelCount
    <3> QED BY <3>1 DEF IsAt
  <2>2. K[o] = 4 * j + q + 1 /\ In(frame.w, o) = (y % 8) * 8 + (x % 8)
    BY DEF CallOf, RowOf, ColumnOf, In
  <2>3. K[o] \in 1 .. 4 * m
    BY <1>1, <1>3 DEF Tiled
  <2> HIDE DEF x, y
  <2>4. j \in Nat /\ q \in 0 .. 3
    <3> DEFINE R == y \div 8  C == x \div 8
    <3>1. R \in Nat /\ C \in 0 .. 2 * half - 1
      <4>1. C \in 0 .. Blocks(frame.w) - 1
        BY <2>1, Eighths
      <4> QED BY <2>1, <4>1
    <3> HIDE DEF R, C
    <3>2. IsSite(half, R, C, McuOf(half, R, C), QuarterOf(R, C))
      BY <3>1, SiteFound
    <3> QED BY <3>2 DEF IsSite, R, C
  <2> HIDE DEF j, q, K
  <2>5. j \in 0 .. m - 1
    BY <1>1, <2>2, <2>3, <2>4
  <2>6. placed[K[o]] = Call(Site(half, j, q), 6 * j + q + 1, 6 * j + 5, q)
    BY <1>4, <2>2, <2>4, <2>5
  <2>7. Source(Call(Site(half, j, q), 6 * j + q + 1, 6 * j + 5, q), (y % 8) * 8 + (x % 8))
        = Encoder!Pixel("420", frame.w, x, y)
    BY <2>1, Pixel420 DEF j, q
  <2> QED BY <2>2, <2>6, <2>7 DEF x, y
<1> HIDE DEF K
<1>6. Painted = [o \in 0 .. PixelCount - 1 |-> Source(placed[K[o]], In(frame.w, o))]
  BY <1>2, <1>3, Painting
<1> QED BY <1>5, <1>6 DEF Shown

LEMMA AtTheEnd ==
  ASSUME Typed, Laid, phase = "done", Len(decoded) = Len(picture.units)
  PROVE  /\ unit = 1 /\ frame.mode \in {"mono", "444", "420"}
         /\ frame.w \in Nat \ {0} /\ frame.h \in Nat
         /\ Len(decoded) = Len(Encoder!Order(frame.mode))
                           * Encoder!Mcus(frame.mode, frame.w, frame.h)
<1>1. PICK f \in Files : file = f.segments /\ picture = f.picture
  BY DEF Typed, FileTyped
<1>2. Len(decoded) # 0
  <2>1. Len(f.picture.units) \in Nat \ {0}
    BY FilesAssumption
  <2> QED BY <1>1, <2>1
<1>3. frame.mode # "unsupported" /\ \E s, p \in 1 .. Len(file) : ScannedAt(s, p)
  BY <1>2 DEF Laid, Scanned
<1>4. PICK s, p \in 1 .. Len(file) : ScannedAt(s, p)
  BY <1>3
<1>5. /\ s < p /\ file[s].kind = "SOF0" /\ file[p].kind = "SOS"
      /\ frame.mode = Mode(file[s].comps) /\ frame.w = file[s].w /\ frame.h = file[s].h
  BY <1>4 DEF ScannedAt, FrameOf
<1>6. Encoder!IsPicture(picture.units, frame.mode, frame.w, frame.h)
  <2>1. Encoder!IsPicture(f.picture.units, Mode(f.segments[s].comps),
                          f.segments[s].w, f.segments[s].h)
    BY <1>1, <1>3, <1>4, <1>5, FilesAssumption
  <2> QED BY <1>1, <1>5, <2>1
<1>7. Len(picture.units) = Len(Encoder!Order(frame.mode))
                           * Encoder!Mcus(frame.mode, frame.w, frame.h)
  BY <1>6 DEF Encoder!IsPicture
<1>8. unit = 1 /\ frame.mode \in {"mono", "444", "420"}
      /\ frame.w \in Nat \ {0} /\ frame.h \in Nat
  BY <1>3 DEF Typed, BlockTyped, FrameTyped, Modes, Laid, Framed
<1> QED BY <1>7, <1>8

LEMMA HalfOf ==
  ASSUME NEW w \in Nat \ {0}, Blocks(w) % 2 = 0
  PROVE  /\ Blocks(w) \div 2 \in Nat \ {0} /\ Blocks(w) = 2 * (Blocks(w) \div 2)
         /\ (w + 15) \div 16 = Blocks(w) \div 2
BY DEF Blocks

LEMMA ExactAtTheEnd ==
  ASSUME Typed, Laid
  PROVE  PictureExact
<1> SUFFICES ASSUME phase = "done", Len(decoded) = Len(picture.units), PlaceableSize
             PROVE  Painted = Shown
  BY Zenon DEF PictureExact, Shown, PixelCount
<1> DEFINE w == frame.w  h == frame.h
           mcus == Encoder!Mcus(frame.mode, w, h)
<1>1. /\ unit = 1 /\ frame.mode \in {"mono", "444", "420"}
      /\ w \in Nat \ {0} /\ h \in Nat
      /\ Len(decoded) = Len(Encoder!Order(frame.mode)) * mcus
  BY AtTheEnd
<1>2. Len(placed) \in Nat
  BY SequenceLength DEF Laid
<1>3. CASE frame.mode = "mono"
  <2>1. Encoder!Order(frame.mode) = <<1>>
    BY <1>3 DEF Encoder!Order
  <2>2. mcus = Blocks(w) * Blocks(h)
    BY <1>3 DEF Encoder!Mcus, Blocks
  <2>3. PlacedMono /\ w % 8 = 0 /\ h % 8 = 0
    BY <1>3 DEF Laid, PlacedWell, PlaceableSize
  <2>4. Blocks(w) \in Nat /\ Blocks(h) \in Nat
    BY <1>1 DEF Blocks
  <2> DEFINE a == Blocks(w)  b == Blocks(h)
  <2>5. Len(placed) = 1 * (a * b)
    BY <1>1, <2>1, <2>2, <2>3 DEF PlacedMono
  <2> HIDE DEF a, b
  <2>6. Len(placed) = b * a
    BY <2>4, <2>5 DEF a, b
  <2> QED BY <1>1, <1>3, <2>3, <2>6, ShownMono DEF a, b
<1>4. CASE frame.mode = "444"
  <2>1. Encoder!Order(frame.mode) = <<1, 2, 3>>
    BY <1>4 DEF Encoder!Order
  <2>2. mcus = Blocks(w) * Blocks(h)
    BY <1>4 DEF Encoder!Mcus, Blocks
  <2>3. Placed444
    BY <1>4 DEF Laid, PlacedWell
  <2>4. Blocks(w) \in Nat /\ Blocks(h) \in Nat
    BY <1>1 DEF Blocks
  <2> DEFINE c == Blocks(w) * Blocks(h)
  <2>5. c \in Nat /\ c = Blocks(h) * Blocks(w)
    BY <2>4
  <2> HIDE DEF c
  <2>6. 3 * Len(placed) + unit - 1 = 3 * c
    BY <1>1, <2>1, <2>2, <2>3 DEF Placed444, c
  <2>7. Len(placed) = c
    BY <1>1, <1>2, <2>5, <2>6
  <2> QED BY <1>1, <1>4, <2>3, <2>5, <2>7, Shown444
<1>5. CASE frame.mode = "420"
  <2> DEFINE half == Blocks(w) \div 2  H == (h + 15) \div 16
  <2>1. Encoder!Order(frame.mode) = <<1, 1, 1, 1, 2, 3>>
    BY <1>5 DEF Encoder!Order
  <2>2. Blocks(w) % 2 = 0
    BY <1>5 DEF PlaceableSize
  <2>3. half \in Nat \ {0} /\ Blocks(w) = 2 * half /\ (w + 15) \div 16 = half
    BY <1>1, <2>2, HalfOf
  <2>4. H \in Nat
    BY <1>1
  <2>5. mcus = half * H
    BY <1>5, <2>3 DEF Encoder!Mcus
  <2> HIDE DEF half
  <2>6. PICK m \in Nat : Placed420(half, m)
    BY <1>5, <2>3 DEF Laid, PlacedWell
  <2> DEFINE c == half * H
  <2>7. c \in Nat
    BY <2>3, <2>4
  <2> HIDE DEF c
  <2>8. 6 * m + unit - 1 = 6 * c
    BY <1>1, <2>1, <2>5, <2>6 DEF Placed420, c
  <2>9. m = c
    BY <1>1, <2>7, <2>8
  <2> QED BY <1>1, <1>5, <2>3, <2>6, <2>9, Shown420 DEF c
<1> QED BY <1>1, <1>3, <1>4, <1>5

(* A picture decoded to its end has every pixel written, and nothing else, *)
(* from the luma and the chroma sample that belong to it, in each mode and *)
(* for every size within PlaceableSize (DecodeImage, ConvertYUV2RGB).      *)
THEOREM PictureAlwaysExact == Spec => []PictureExact
BY AlwaysLaid, ExactAtTheEnd, PTL
=============================================================================
