---------------------------- MODULE JpegEncoder ----------------------------
(***************************************************************************)
(* What a baseline JPEG file is, written from the side of an encoder: the  *)
(* file is the environment of the decoder in main.cpp, not part of this    *)
(* repository.                                                             *)
(*                                                                         *)
(* An image is its frame and its blocks in the order of the scan, each     *)
(* with the component it belongs to (1 is Y, 2 and 3 the chroma), its DC   *)
(* coefficient and the AC coefficients that are not zero, by their         *)
(* position in the scan.                                                   *)
(***************************************************************************)
EXTENDS Integers, Sequences, FiniteSetsExt, SequencesExt

EOB == 0
ZRL == 240

(* Canonical Huffman codes: a code is the sum of the shares of the code    *)
(* space that the codes before it take.                                    *)
Listed(symbols) ==
    FlattenSeq([len \in 1 .. 16 |->
        [j \in 1 .. Len(symbols[len]) |->
            [len |-> len, value |-> symbols[len][j]]]])

CodeOf(symbols, value) ==
    LET list == Listed(symbols)
        k == CHOOSE i \in DOMAIN list : list[i].value = value
        below == MapThenSumSet(LAMBDA i : 2 ^ (16 - list[i].len), 1 .. k - 1)
    IN [len |-> list[k].len, code |-> below \div 2 ^ (16 - list[k].len)]

Bits(n, len) == [i \in 1 .. len |-> (n \div 2 ^ (len - i)) % 2]

(* A number takes as many bits as its magnitude; negative ones are stored  *)
(* less one, so that they begin with 0.                                    *)
Size(v) == Min({s \in 0 .. 15 : v \in 1 - 2 ^ s .. 2 ^ s - 1})
NumberBits(v) == Bits(IF v >= 0 THEN v ELSE v + 2 ^ Size(v) - 1, Size(v))

Word(symbols, value) ==
    LET c == CodeOf(symbols, value) IN Bits(c.code, c.len)

(* The words of a block: a code with the number that follows it.           *)
DcWord(symbols, diff) == Word(symbols, Size(diff)) \o NumberBits(diff)

AcWords(symbols, ac) ==
    LET at(i) == IF i = 0 THEN 0 ELSE ac[i].at
        run(i) == at(i) - at(i - 1) - 1
        coded(i) == [z \in 1 .. run(i) \div 16 |-> Word(symbols, ZRL)]
                    \o <<Word(symbols, 16 * (run(i) % 16) + Size(ac[i].value))
                         \o NumberBits(ac[i].value)>>
    IN FlattenSeq([i \in 1 .. Len(ac) |-> coded(i)])
       \o (IF at(Len(ac)) = 63 THEN <<>> ELSE <<Word(symbols, EOB)>>)

(* The DC coefficient is coded as the difference to the last block of the  *)
(* same component.                                                         *)
Predicted(units, n) ==
    LET before == {m \in 1 .. n - 1 : units[m].comp = units[n].comp}
    IN IF before = {} THEN 0 ELSE units[Max(before)].dc

(* Tables 0 (DC) and 1 (AC) are for Y, 2 and 3 for the chroma.             *)
UnitWords(tables, units, n) ==
    LET base == IF units[n].comp = 1 THEN 0 ELSE 2
    IN <<DcWord(tables[base], units[n].dc - Predicted(units, n))>>
       \o AcWords(tables[base + 1], units[n].ac)

Words(tables, units) ==
    [n \in 1 .. Len(units) |-> UnitWords(tables, units, n)]

(* The scan as bytes, filled up with ones, and for each block the bit at   *)
(* which its last word starts.                                             *)
Encoded(words) ==
    LET length(n) == Len(FlattenSeq(words[n]))
        ends[n \in 0 .. Len(words)] ==
            IF n = 0 THEN 0 ELSE ends[n - 1] + length(n)
        bits == FlattenSeq(FlattenSeq(words))
        filled == bits \o [i \in 1 .. (-Len(bits)) % 8 |-> 1]
    IN [bytes |-> [i \in 1 .. Len(filled) \div 8 |->
                      MapThenSumSet(LAMBDA j : filled[8 * i - j] * 2 ^ j, 0 .. 7)],
        lastWord |-> [n \in DOMAIN words |->
                         ends[n] - Len(words[n][Len(words[n])])]]

(* A byte of ones in the data is followed by a zero.                       *)
Stuffed(bytes) ==
    FlattenSeq([i \in DOMAIN bytes |->
        IF bytes[i] = 255 THEN <<255, 0>> ELSE <<bytes[i]>>])

-----------------------------------------------------------------------------
(* What the picture is.  Position n of a block in the order of the scan:   *)
(* diagonals, alternately upwards and downwards.                           *)
Before(m, n) ==
    LET sum(k) == (k % 8) + (k \div 8)
    IN \/ sum(m) < sum(n)
       \/ /\ sum(m) = sum(n)
          /\ IF sum(n) % 2 = 0 THEN m % 8 < n % 8 ELSE m \div 8 < n \div 8

Rank == [n \in 0 .. 63 |-> Cardinality({m \in 0 .. 63 : Before(m, n)})]

(* The coefficients of a block, by rows and columns.                       *)
Coefficients(factors, unit) ==
    LET level(at) == IF at = 0 THEN unit.dc
                     ELSE MapThenSumSet(LAMBDA i : unit.ac[i].value,
                              {i \in DOMAIN unit.ac : unit.ac[i].at = at})
    IN [n \in 0 .. 63 |-> factors[Rank[n]] * level(Rank[n])]

(* Where pixel (x, y) is found: its luma block, its place there, its first *)
(* chroma block and the place there.                                       *)
Pixel(mode, w, x, y) ==
    CASE mode = "mono" ->
           [luma |-> (y \div 8) * ((w + 7) \div 8) + x \div 8 + 1,
            i |-> (y % 8) * 8 + (x % 8), chroma |-> 0, j |-> 0]
      [] mode = "444" ->
           LET mcu == (y \div 8) * ((w + 7) \div 8) + x \div 8
               i == (y % 8) * 8 + (x % 8)
           IN [luma |-> 3 * mcu + 1, i |-> i, chroma |-> 3 * mcu + 2, j |-> i]
      [] mode = "420" ->
           LET mcu == (y \div 16) * ((w + 15) \div 16) + x \div 16
               quarter == 2 * ((y % 16) \div 8) + (x % 16) \div 8
           IN [luma |-> 6 * mcu + quarter + 1, i |-> (y % 8) * 8 + (x % 8),
               chroma |-> 6 * mcu + 5,
               j |-> ((y % 16) \div 2) * 8 + (x % 16) \div 2]
-----------------------------------------------------------------------------
(* A file is a sequence of segments, with one frame and one scan.          *)
Codes == [1 .. 16 -> Seq(0 .. 255)]
QTables == [id : 0 .. 3, factors : [0 .. 63 -> 0 .. 255]]
HTables == [id : 0 .. 3, symbols : Codes]
Components == [id : Nat, h : 1 .. 4, v : 1 .. 4, factors : 0 .. 3]

Segments ==
    [kind : {"SOF0"}, w : Nat \ {0}, h : Nat \ {0}, comps : Seq(Components)]
    \cup [kind : {"DQT"}, tables : Seq(QTables) \ {<<>>}]
    \cup [kind : {"DHT"}, tables : Seq(HTables)]
    \cup [kind : {"SOS"}, data : Seq(0 .. 255), next : 1 .. 255]
    \cup [kind : {"APP", "COM", "DRI", "SOF2", "EOI"}]

IsFile(segments) ==
    /\ segments \in Seq(Segments)
    /\ \A p, q \in 1 .. Len(segments) :
           (segments[p].kind = segments[q].kind /\ segments[p].kind \in {"SOF0", "SOS"})
           => p = q

(* The blocks of a picture, MCU by MCU; those of a component in the order  *)
(* of the MCU.                                                             *)
Order(mode) == CASE mode = "mono" -> <<1>>
                 [] mode = "444" -> <<1, 2, 3>>
                 [] mode = "420" -> <<1, 1, 1, 1, 2, 3>>

Mcus(mode, w, h) ==
    IF mode = "420" THEN ((w + 15) \div 16) * ((h + 15) \div 16)
    ELSE ((w + 7) \div 8) * ((h + 7) \div 8)

IsPicture(units, mode, w, h) ==
    LET order == Order(mode)
    IN /\ Len(units) = Len(order) * Mcus(mode, w, h)
       /\ \A n \in 1 .. Len(units) :
              units[n].comp = order[((n - 1) % Len(order)) + 1]
=============================================================================
