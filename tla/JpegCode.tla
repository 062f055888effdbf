------------------------------ MODULE JpegCode ------------------------------
(***************************************************************************)
(* The pure part of the JPEG decoder's C model: Huffman tables and their   *)
(* lookup (jpeg_dht.h), the numbers of an entropy-coded block              *)
(* (jpeg_mcu_block.h), dequantisation and zigzag order (jpeg_dqt.h), and   *)
(* where a block's pixels go (main.cpp).                                   *)
(***************************************************************************)
EXTENDS Integers, Sequences, FiniteSetsExt, SequencesExt

(* Numbers of sixteen bits.                                                *)
Half == 2 ^ 15
Int16s == -Half .. Half - 1
Int16(n) == ((n + Half) % (2 * Half)) - Half

-----------------------------------------------------------------------------
(* A Huffman table as a file gives it: the symbols by the length of their  *)
(* codes, 1 to 16.  As the decoder keeps it: a list of entries in the      *)
(* order of the codes.                                                     *)

(* Mutant: the code is not extended when it grows longer.                  *)
FirstCodesUnshifted(symbols) ==
    LET first[len \in 1 .. 16] ==
            IF len = 1 THEN 0
            ELSE (first[len - 1] + Len(symbols[len - 1])) % (2 * Half)
    IN first

FirstCodes(symbols) ==
    LET first[len \in 1 .. 16] ==
            IF len = 1 THEN 0
            ELSE 2 * (first[len - 1] + Len(symbols[len - 1])) % (2 * Half)
    IN first

BuildTable(symbols) ==
    LET first == FirstCodes(symbols)
    IN FlattenSeq([len \in 1 .. 16 |->
           [j \in 1 .. Len(symbols[len]) |->
               [code |-> first[len] + j - 1, len |-> len,
                value |-> symbols[len][j]]]])

(* The first entry that the top bits of a 16-bit word match; without one   *)
(* the width is 0, and so is the value the caller has preset.              *)
Matching(table, word) ==
    {i \in DOMAIN table : word \div 2 ^ (16 - table[i].len) = table[i].code}

(* Mutant: the first entry is passed over.                                 *)
LookupLate(table, word) ==
    LET hits == Matching(table, word) \ {1}
    IN IF hits = {} THEN [width |-> 0, value |-> 0]
       ELSE [width |-> table[Min(hits)].len, value |-> table[Min(hits)].value]

Lookup(table, word) ==
    LET hits == Matching(table, word)
    IN IF hits = {} THEN [width |-> 0, value |-> 0]
       ELSE [width |-> table[Min(hits)].len, value |-> table[Min(hits)].value]

(* A number of so many bits: those with a leading 0 are negative.          *)
DecodeNumber(code, bits) ==
    IF bits # 0 /\ code < 2 ^ (bits - 1) THEN code - 2 ^ bits + 1
    ELSE Int16(code)

-----------------------------------------------------------------------------
(* m_zigzag_table: the place in a block of each coefficient of a scan.     *)
Zigzag == <<
     0,  1,  8, 16,  9,  2,  3, 10, 17, 24, 32, 25, 18, 11,  4,  5,
    12, 19, 26, 33, 40, 48, 41, 34, 27, 20, 13,  6,  7, 14, 21, 28,
    35, 42, 49, 56, 57, 50, 43, 36, 29, 22, 15, 23, 30, 37, 44, 51,
    58, 59, 52, 45, 38, 31, 39, 46, 53, 60, 61, 54, 47, 55, 62, 63>>

(* process_samples: the samples of a block, each with its position in the  *)
(* scan, times the factors of a quantisation table, in their places.       *)
ProcessSamples(factors, samples) ==
    FoldLeft(LAMBDA block, s :
                 [block EXCEPT ![Zigzag[s.at + 1]] = s.value * factors[s.at]],
             [n \in 0 .. 63 |-> 0], samples)

-----------------------------------------------------------------------------
(* Widths in blocks, rounded up.                                           *)
Blocks(pixels) == (pixels + 7) \div 8

(* Mutant: the rows of chroma samples are not doubled.                     *)
ChromaIndexTall(quarter, i) ==
    (quarter % 2) * 4 + (quarter \div 2) * 32 + (i \div 8) * 8 + (i % 8) \div 2

(* DecodeImage, 4:2:0: the chroma sample for pixel i of luma block         *)
(* "quarter" (0..3) of an MCU.                                             *)
ChromaIndex(quarter, i) ==
    (quarter % 2) * 4 + (quarter \div 2) * 32 + (i \div 16) * 8 + (i % 8) \div 2

(* ConvertYUV2RGB: the offsets in the picture that block number "num"      *)
(* writes, each with the pixel it takes.  Only colour pictures are clipped *)
(* to their size.                                                          *)
Written(mode, w, h, num) ==
    LET x(i) == (num % Blocks(w)) * 8 + (i % 8)
        y(i) == (num \div Blocks(w)) * 8 + i \div 8
    IN {[offset |-> y(i) * w + x(i), pixel |-> i] :
           i \in {j \in 0 .. 63 : mode = "mono" \/ (x(j) < w /\ y(j) < h)}}
=============================================================================
