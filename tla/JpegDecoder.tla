---------------------------- MODULE JpegDecoder ----------------------------
(***************************************************************************)
(* The JPEG decoder's C model: main reads a file segment by segment, copies*)
(* the entropy-coded data of a scan into a bit buffer, and DecodeImage     *)
(* decodes it coefficient by coefficient and writes the blocks into the    *)
(* picture.  A segment is a record here; bytes, bits and codes are those   *)
(* of the file.                                                            *)
(***************************************************************************)
EXTENDS JpegCode, JpegIdct, TLC

CONSTANTS
    Files,          \* files with the pictures they were made from
    MaxBlocks       \* bound: more blocks than one that can be decoded to its end has

ASSUME MaxBlocksAssumption == MaxBlocks \in Nat

Encoder == INSTANCE JpegEncoder

VARIABLES
    file,           \* the segments
    picture,        \* history: what the file was made from, and whether it is sound
    pos,            \* the next segment
    phase,          \* what main is doing
    frame,          \* m_mode, m_width, m_height, m_dqt_table
    dqt, dht,       \* the quantisation and the Huffman tables
    input,          \* bytes of the scan that have been pushed
    buf,            \* jpeg_bit_buffer: m_buffer, m_wr_offset, m_last, m_rd_offset
    dc,             \* DecodeImage: the last DC coefficient of each component
    unit,           \* the block of the MCU that is decoded
    coeff, samples, \* jpeg_mcu_block: the loop variable and what it has found
    decoded,        \* history: every block, dequantised
    placed,         \* history: the calls of ConvertYUV2RGB
    blockNum, loop  \* DecodeImage: where the next MCU goes

vars == <<file, picture, pos, phase, frame, dqt, dht, input, buf, dc, unit,
          coeff, samples, decoded, placed, blockNum, loop>>

Phases == {"segments", "push", "mcu", "block", "done"}
Modes == {"mono", "444", "420", "unsupported"}

EmptyBuffer == [mem |-> <<>>, wr |-> 0, last |-> 0, rd |-> 0]

(* Everything has a value of its type: positions stay inside a block, the  *)
(* DC coefficients inside 16 bits.                                         *)
TypeOK ==
    /\ pos \in 1 .. Len(file) + 1
    /\ phase \in Phases
    /\ frame.mode \in Modes /\ frame.w \in Nat /\ frame.h \in Nat
    /\ dqt \in [0 .. 3 -> [0 .. 63 -> 0 .. 255]]
    /\ DOMAIN dht = 0 .. 3
    /\ buf.wr \in {Len(buf.mem), Len(buf.mem) - 1} /\ buf.rd \in Nat
    /\ buf.mem \in Seq(0 .. 255) /\ buf.last \in 0 .. 255
    /\ dc \in [1 .. 3 -> Int16s]
    /\ unit \in 1 .. 6 /\ coeff \in 0 .. 80
    /\ samples \in Seq([at : 0 .. 63, value : Int16s])
    /\ blockNum \in Nat /\ loop \in Nat

Init ==
    /\ \E f \in Files : file = f.segments /\ picture = f.picture
    /\ pos = 1 /\ phase = "segments"
    /\ frame = [mode |-> "unsupported", w |-> 0, h |-> 0, factors |-> <<>>]
    /\ dqt = [t \in 0 .. 3 |-> [at \in 0 .. 63 |-> 0]]
    /\ dht = [t \in 0 .. 3 |-> <<>>]
    /\ input = 0 /\ buf = EmptyBuffer
    /\ dc = [c \in 1 .. 3 |-> 0]
    /\ unit = 1 /\ coeff = 0 /\ samples = <<>>
    /\ decoded = <<>> /\ placed = <<>>
    /\ blockNum = 0 /\ loop = 0

-----------------------------------------------------------------------------
(* main: the segments.                                                     *)

Segment == file[pos]
At(kind) == phase = "segments" /\ pos <= Len(file) /\ Segment.kind = kind
NextSegment == pos' = pos + 1

decoding == <<input, buf, dc, unit, coeff, samples, decoded, placed, blockNum,
              loop>>

(* The mode follows from the number, the ids and the sampling factors of   *)
(* the components.                                                         *)
Mode(comps) ==
    LET colour == Len(comps) = 3 /\ \A c \in 1 .. 3 : comps[c].id = c
        chroma == \A c \in 2 .. 3 : comps[c].h = 1 /\ comps[c].v = 1
        luma(n) == comps[1].h = n /\ comps[1].v = n
    IN CASE Len(comps) = 1 -> "mono"
         [] colour /\ chroma /\ luma(1) -> "444"
         [] colour /\ chroma /\ luma(2) -> "420"
         [] OTHER -> "unsupported"

(* What the files are: segment s has the frame, segment p the scan of the  *)
(* picture.                                                                *)
ASSUME FilesAssumption ==
    \A f \in Files :
        /\ Encoder!IsFile(f.segments)
        /\ Len(f.picture.units) \in Nat \ {0}
        /\ \A s, p \in 1 .. Len(f.segments) :
               LET sof == f.segments[s]
               IN ( /\ s < p /\ sof.kind = "SOF0" /\ f.segments[p].kind = "SOS"
                    /\ Mode(sof.comps) # "unsupported" ) =>
                  Encoder!IsPicture(f.picture.units, Mode(sof.comps), sof.w, sof.h)

Sof0 ==
    /\ At("SOF0")
    /\ frame' = [mode |-> Mode(Segment.comps), w |-> Segment.w, h |-> Segment.h,
                 factors |-> [c \in DOMAIN Segment.comps |->
                                 Segment.comps[c].factors]]
    /\ NextSegment
    /\ UNCHANGED <<file, picture, phase, dqt, dht, decoding>>

(* jpeg_dqt::process takes the first table of the segment only.            *)
Dqt ==
    /\ At("DQT")
    /\ LET t == Head(Segment.tables)
       IN dqt' = [dqt EXCEPT ![t.id % 4] = t.factors]
    /\ NextSegment
    /\ UNCHANGED <<file, picture, phase, frame, dht, decoding>>

(* jpeg_dht::process takes them all, the last of those with one number.    *)
Dht ==
    /\ At("DHT")
    /\ LET given(t) == {n \in 1 .. Len(Segment.tables) : Segment.tables[n].id = t}
       IN dht' = [t \in 0 .. 3 |->
                     IF given(t) = {} THEN dht[t]
                     ELSE BuildTable(Segment.tables[Max(given(t))].symbols)]
    /\ NextSegment
    /\ UNCHANGED <<file, picture, phase, frame, dqt, decoding>>

(* Application data, comments and restart intervals are passed over.       *)
Skip ==
    /\ At("APP") \/ At("COM") \/ At("DRI")
    /\ NextSegment
    /\ UNCHANGED <<file, picture, phase, frame, dqt, dht, decoding>>

Unsupported == At("SOF2") \/ (At("SOS") /\ frame.mode = "unsupported")

End ==
    /\ phase = "segments"
    /\ At("EOI") \/ Unsupported \/ pos > Len(file)
    /\ phase' = "done"
    /\ UNCHANGED <<file, picture, pos, frame, dqt, dht, decoding>>

Sos ==
    /\ At("SOS") /\ ~Unsupported
    /\ phase' = "push"
    /\ input' = 0 /\ buf' = EmptyBuffer
    /\ UNCHANGED <<file, picture, pos, frame, dqt, dht, dc, unit, coeff, samples,
                   decoded, placed, blockNum, loop>>

(* What follows the header of the scan: its data, and the marker of the    *)
(* next segment unless the file ends there.                                *)
Stream == Segment.data \o (IF pos < Len(file) THEN <<255, Segment.next>> ELSE <<>>)

(* jpeg_bit_buffer::push: a zero after an 0xFF is passed over; anything    *)
(* else after it is a marker, and the 0xFF is taken back.                  *)
IsMarker(b) == buf.last = 255 /\ b # 0

Pushed(b) ==
    IF buf.last = 255 /\ b = 0 THEN [buf EXCEPT !.last = b]
    ELSE [buf EXCEPT !.mem = Append(@, b), !.wr = @ + 1, !.last = b]

Push ==
    /\ phase = "push" /\ input < Len(Stream)
    /\ ~IsMarker(Stream[input + 1])
    /\ buf' = Pushed(Stream[input + 1])
    /\ input' = input + 1
    /\ UNCHANGED <<file, picture, pos, phase, frame, dqt, dht, dc, unit, coeff,
                   samples, decoded, placed, blockNum, loop>>

(* The end of the data, and the start of DecodeImage.                      *)
StartImage ==
    /\ phase = "push"
    /\ \/ /\ input < Len(Stream) /\ IsMarker(Stream[input + 1])
          /\ buf' = [buf EXCEPT !.wr = @ - 1]
       \/ input = Len(Stream) /\ UNCHANGED buf
    /\ phase' = "mcu"
    /\ dc' = [c \in 1 .. 3 |-> 0]
    /\ blockNum' = 0 /\ loop' = 0
    /\ UNCHANGED <<file, picture, pos, frame, dqt, dht, input, unit, coeff,
                   samples, decoded, placed>>

-----------------------------------------------------------------------------
(* jpeg_bit_buffer: reading.  The offset is rounded up, so the end is      *)
(* reached with the first bit of the last byte read.                       *)
Eof == (buf.rd + 7) \div 8 >= buf.wr

Byte(n) == IF n < Len(buf.mem) THEN buf.mem[n + 1] ELSE 0

(* read_word: sixteen of its bits, from bit "skip" on.                     *)
Input(skip) ==
    LET at == buf.rd + skip
        n == at \div 8
        three == (Byte(n) * 256 + Byte(n + 1)) * 256 + Byte(n + 2)
    IN IF Eof THEN 0 ELSE (three \div 2 ^ (8 - (at % 8))) % (2 * Half)

-----------------------------------------------------------------------------
(* DecodeImage, and jpeg_mcu_block::decode for each block of an MCU.       *)

Units == CASE frame.mode = "mono" -> <<1>>
           [] frame.mode = "444" -> <<1, 2, 3>>
           [] frame.mode = "420" -> <<1, 1, 1, 1, 2, 3>>
           [] OTHER -> <<>>

Comp == Units[unit]
DcTable == IF Comp = 1 THEN dht[0] ELSE dht[2]
AcTable == IF Comp = 1 THEN dht[1] ELSE dht[3]

Number(entry) ==
    LET bits == entry.value % 16
    IN DecodeNumber(Input(entry.width) \div 2 ^ (16 - bits), bits)

StartMcu ==
    /\ phase = "mcu" /\ ~Eof /\ Len(decoded) < MaxBlocks
    /\ phase' = "block"
    /\ UNCHANGED <<file, picture, pos, frame, dqt, dht, decoding>>

FinishImage ==
    /\ phase = "mcu" /\ Eof
    /\ phase' = "segments"
    /\ NextSegment
    /\ UNCHANGED <<file, picture, frame, dqt, dht, decoding>>

block == <<file, picture, pos, phase, frame, dqt, dht, input, unit, decoded,
           placed, blockNum, loop>>

Advance(bits) == buf' = [buf EXCEPT !.rd = @ + bits]

(* The first coefficient is coded as a difference.                         *)
Dc ==
    /\ phase = "block" /\ coeff = 0
    /\ LET entry == Lookup(DcTable, Input(0))
           value == Int16(Number(entry) + dc[Comp])
       IN /\ Advance(entry.width + (entry.value % 16))
          /\ dc' = [dc EXCEPT ![Comp] = value]
          /\ samples' = <<[at |-> 0, value |-> value]>>
    /\ coeff' = 1
    /\ UNCHANGED block

AcEntry == Lookup(AcTable, Input(0))
InBlock == phase = "block" /\ coeff \in 1 .. 63

EndOfBlock ==
    /\ InBlock /\ AcEntry.value = Encoder!EOB
    /\ Advance(AcEntry.width)
    /\ coeff' = 64
    /\ UNCHANGED <<block, dc, samples>>

SixteenZeros ==
    /\ InBlock /\ AcEntry.value = Encoder!ZRL
    /\ Advance(AcEntry.width)
    /\ coeff' = coeff + 16
    /\ UNCHANGED <<block, dc, samples>>

(* Mutant: a coefficient past the end of the block is kept.                *)
AcUnchecked ==
    /\ InBlock /\ AcEntry.value \notin {Encoder!EOB, Encoder!ZRL}
    /\ LET at == coeff + AcEntry.value \div 16
       IN /\ samples' = Append(samples, [at |-> at, value |-> Number(AcEntry)])
          /\ coeff' = at + 1
    /\ Advance(AcEntry.width + (AcEntry.value % 16))
    /\ UNCHANGED <<block, dc>>

(* A run of zeros and a number; one past the end of the block is dropped.  *)
Ac ==
    /\ InBlock /\ AcEntry.value \notin {Encoder!EOB, Encoder!ZRL}
    /\ LET at == coeff + AcEntry.value \div 16
       IN /\ samples' = IF at < 64
                        THEN Append(samples, [at |-> at, value |-> Number(AcEntry)])
                        ELSE samples
          /\ coeff' = at + 1
    /\ Advance(AcEntry.width + (AcEntry.value % 16))
    /\ UNCHANGED <<block, dc>>

(* The blocks of an MCU that ConvertYUV2RGB is called for, once they all   *)
(* are there: each with its number, its luma block, its first chroma block *)
(* and, in 4:2:0, the quarter of the chroma samples that it takes.         *)
Call(num, luma, chroma, quarter) ==
    [num |-> num, luma |-> luma, chroma |-> chroma, quarter |-> quarter]

Calls ==
    LET n == Len(decoded) + 1
        num == blockNum \div 2
        wide == Blocks(frame.w)
    IN CASE frame.mode = "mono" -> <<Call(blockNum, n, 0, 0)>>
         [] frame.mode = "444" -> <<Call(blockNum, n - 2, n - 1, 0)>>
         [] frame.mode = "420" ->
              <<Call(num, n - 5, n - 1, 0), Call(num + 1, n - 4, n - 1, 1),
                Call(num + wide, n - 3, n - 1, 2),
                Call(num + wide + 1, n - 2, n - 1, 3)>>

(* In 4:2:0 a row of MCUs covers two rows of blocks.                       *)
Move ==
    IF frame.mode # "420" THEN blockNum' = blockNum + 1 /\ UNCHANGED loop
    ELSE LET wide == Blocks(frame.w)
         IN IF loop + 1 = wide \div 2
            THEN loop' = 0 /\ blockNum' = blockNum + 4 + 2 * wide
            ELSE loop' = loop + 1 /\ blockNum' = blockNum + 4

FinishBlock ==
    /\ phase = "block" /\ coeff >= 64
    /\ decoded' = Append(decoded,
                         ProcessSamples(dqt[frame.factors[Comp]], samples))
    /\ coeff' = 0 /\ samples' = <<>>
    /\ \/ /\ unit < Len(Units)
          /\ unit' = unit + 1
          /\ UNCHANGED <<phase, placed, blockNum, loop>>
       \/ /\ unit = Len(Units)
          /\ placed' = placed \o Calls
          /\ Move
          /\ unit' = 1 /\ phase' = "mcu"
    /\ UNCHANGED <<file, picture, pos, frame, dqt, dht, input, buf, dc>>

Next == \/ Sof0 \/ Dqt \/ Dht \/ Skip \/ Sos \/ End
        \/ Push \/ StartImage \/ StartMcu \/ FinishImage
        \/ Dc \/ EndOfBlock \/ SixteenZeros \/ Ac \/ FinishBlock

Spec == Init /\ [][Next]_vars

(* The program runs to its end.                                            *)
FairSpec == Spec /\ WF_vars(Next)

-----------------------------------------------------------------------------
(* The blocks of the picture, dequantised.                                 *)
Truth(n) == Encoder!Coefficients(picture.factors[picture.units[n].comp],
                                 picture.units[n])

(* The bit buffer takes a read at this place for one beyond its end.       *)
Cut(n) == picture.lastWord[n] > 8 * (Len(picture.bytes) - 1)

(* The file is as an encoder wrote it, and keeps to what the decoder takes: *)
(* a table of its own for each quantisation segment.                       *)
Supported ==
    /\ picture.sound
    /\ \A s \in 1 .. Len(file) : file[s].kind = "DQT" => Len(file[s].tables) = 1

(* Each block comes out with the coefficients it was coded from, in their  *)
(* places and multiplied by their factors, whatever the codes, the filling *)
(* zeros and the order of the tables, unless one of its code words starts  *)
(* inside the last byte of the data (jpeg_bit_buffer, jpeg_mcu_block,      *)
(* jpeg_dht, jpeg_dqt).                                                    *)
PrefixExact ==
    Supported =>
        \A n \in DOMAIN decoded \cap DOMAIN picture.units :
            Cut(n) \/ decoded[n] = Truth(n)

(* The decoder's inverse transform of the block it has just finished is,   *)
(* within one, what the transform by its definition gives (jpeg_idct).     *)
IdctClose ==
    (coeff = 0 /\ decoded # <<>> /\ (phase = "mcu" \/ unit > 1)) =>
        LET samplesOut == Idct(Last(decoded))
        IN \A n \in 0 .. 63 :
               samplesOut[n] - RefSample(Last(decoded), n) \in -1 .. 1

(* The sizes for which DecodeImage and ConvertYUV2RGB find the places:     *)
(* 4:2:0 with an even number of block columns, monochrome with whole       *)
(* blocks.                                                                 *)
PlaceableSize ==
    /\ frame.mode = "420" => Blocks(frame.w) % 2 = 0
    /\ frame.mode = "mono" => frame.w % 8 = 0 /\ frame.h % 8 = 0

Source(call, i) ==
    [luma |-> call.luma, i |-> i, chroma |-> call.chroma,
     j |-> CASE frame.mode = "mono" -> 0
             [] frame.mode = "444" -> i
             [] OTHER -> ChromaIndex(call.quarter, i)]

(* The picture as it is written to the file, offset by offset: what the    *)
(* last call that wrote there has left.                                    *)
Strokes(k) == Written(frame.mode, frame.w, frame.h, placed[k].num)
Offsets(k) == {s.offset : s \in Strokes(k)}

Painted ==
    LET offsets == [k \in 1 .. Len(placed) |-> Offsets(k)]
        final(o) == Max({k \in 1 .. Len(placed) : o \in offsets[k]})
        stroke(o) == CHOOSE s \in Strokes(final(o)) : s.offset = o
    IN [o \in UNION {offsets[k] : k \in 1 .. Len(placed)} |->
           Source(placed[final(o)], stroke(o).pixel)]

(* When the file is decoded every pixel of the picture has been written,   *)
(* and nothing else, with the luma and the chroma sample that belong to    *)
(* it (DecodeImage, ConvertYUV2RGB).                                       *)
PictureExact ==
    (phase = "done" /\ Len(decoded) = Len(picture.units) /\ PlaceableSize) =>
        LET w == frame.w
        IN Painted = [o \in 0 .. w * frame.h - 1 |->
                         Encoder!Pixel(frame.mode, w, o % w, o \div w)]

(* An MCU is about to be decoded from bits that begin no code of any of    *)
(* its tables.                                                             *)
Stuck ==
    /\ phase = "mcu" /\ ~Eof
    /\ \A t \in IF frame.mode = "mono" THEN 0 .. 1 ELSE 0 .. 3 :
           Matching(dht[t], Input(0)) = {}

(* A file as an encoder wrote it is decoded to its end: each MCU takes     *)
(* bits from the buffer, and past its end the last one is completed with   *)
(* zeros.  So is one with damaged data or missing tables, unless it comes  *)
(* to bits that begin no code: from them an MCU is decoded without taking  *)
(* any, and DecodeImage, which ends only at the end of the buffer, is      *)
(* given the same bits for the next one, for ever (main.cpp, lookup).      *)
Terminates == <>(phase = "done" \/ (Stuck /\ ~picture.sound))

(* The C model "can decode baseline JPEG images": every block of a         *)
(* supported file comes out as it was coded.                               *)
EveryBlockDecoded ==
    (phase = "done" /\ frame.mode # "unsupported" /\ Supported) =>
        decoded = [n \in DOMAIN picture.units |-> Truth(n)]
=============================================================================
