------------------------------- MODULE MCJpeg -------------------------------
(***************************************************************************)
(* Files for the JPEG decoder: images of each mode, coded with two sets of *)
(* Huffman tables and laid out as different encoders do, and some of them  *)
(* damaged.                                                                *)
(***************************************************************************)
EXTENDS JpegDecoder

Symbols(byLength) ==
    [len \in 1 .. 16 |-> IF len \in DOMAIN byLength THEN byLength[len] ELSE <<>>]

(* The DC tables of the standard; AC tables with short, long and 16-bit    *)
(* codes, in which a word of zeros is a coefficient.                       *)
LumaDc == Symbols(2 :> <<0>> @@ 3 :> <<1, 2, 3, 4, 5>> @@ 4 :> <<6>>
                  @@ 5 :> <<7>> @@ 6 :> <<8>> @@ 7 :> <<9>>)
LumaAc == Symbols(2 :> <<1>> @@ 3 :> <<17, 0>> @@ 9 :> <<240, 8>> @@ 16 :> <<227>>)
ChromaDc == Symbols(2 :> <<0, 1, 2>> @@ 3 :> <<3>> @@ 7 :> <<7>> @@ 8 :> <<8>>)
ChromaAc == Symbols(2 :> <<17, 0>> @@ 4 :> <<1, 8>> @@ 8 :> <<240, 227>>)
Standard == (0 :> LumaDc @@ 1 :> LumaAc @@ 2 :> ChromaDc @@ 3 :> ChromaAc)

(* Tables made for one image, as an optimising encoder makes them.         *)
OptimisedDc == Symbols(1 :> <<2>> @@ 3 :> <<0, 3>> @@ 5 :> <<9>> @@ 7 :> <<8>>)
OptimisedAc == Symbols(1 :> <<0>> @@ 4 :> <<1, 17>> @@ 10 :> <<227, 240, 8>>)
Optimised == (0 :> OptimisedDc @@ 1 :> OptimisedAc
              @@ 2 :> OptimisedDc @@ 3 :> OptimisedAc)

LumaFactors == [at \in 0 .. 63 |-> 2 + at]
ChromaFactors == [at \in 0 .. 63 |-> 1 + ((3 * at) % 64)]
OtherFactors == [at \in 0 .. 63 |-> 7]
Factors == (1 :> LumaFactors @@ 2 :> ChromaFactors @@ 3 :> ChromaFactors)

-----------------------------------------------------------------------------
At1(at, value) == [at |-> at, value |-> value]

(* Blocks without an AC coefficient, with a first and a later one, with a  *)
(* run over sixteen, and with one in the last place, so without EOB.       *)
AcLists == {<<>>, <<At1(1, 1)>>, <<At1(2, -1)>>, <<At1(18, 1)>>,
            <<At1(1, 255), At1(3, -1)>>, <<At1(63, -5)>>}
FewAcLists == {<<>>, <<At1(2, -1)>>, <<At1(63, -5)>>}
DcValues == {0, 3, -3, 255, -200}

Block(comp, dcValue, ac) == [comp |-> comp, dc |-> dcValue, ac |-> ac]

(* A picture whose blocks can be told apart, for their places.             *)
Numbered(mcus, comps) ==
    [n \in 1 .. mcus * Len(comps) |->
        Block(comps[((n - 1) % Len(comps)) + 1], IF n % 2 = 0 THEN 3 ELSE -3,
              <<At1(2, 1)>>)]

Image(mode, w, h, units) == [mode |-> mode, w |-> w, h |-> h, units |-> units]

Mono(dcs, acs) ==
    {Image("mono", 8, 8, <<Block(1, d, a)>>) : d \in dcs, a \in acs}

TwoBlocks ==
    {Image("mono", 16, 8, <<Block(1, d1, <<At1(1, 1)>>), Block(1, d2, a)>>) :
        d1 \in DcValues, d2 \in DcValues, a \in FewAcLists}

Colour444 ==
    {Image("444", 8, 8,
           <<Block(1, d1, <<At1(18, 1)>>), Block(2, d2, <<>>), Block(3, d3, a)>>) :
        d1 \in {-200, 3}, d2 \in {0, -3}, d3 \in {3, 255}, a \in AcLists}

Colour420 ==
    {Image("420", 16, 16,
           <<Block(1, d1, <<>>), Block(1, d2, a), Block(1, 0, <<At1(1, 1)>>),
             Block(1, -3, <<At1(63, -5)>>), Block(2, 3, a), Block(3, -3, a)>>) :
        d1 \in {3, -200}, d2 \in {-3, 255}, a \in AcLists}

Placed == {
    Image("mono", 16, 16, Numbered(4, <<1>>)),
    Image("444", 12, 12, Numbered(4, <<1, 2, 3>>)),
    Image("420", 16, 32, Numbered(2, <<1, 1, 1, 1, 2, 3>>)),
    Image("420", 30, 20, Numbered(4, <<1, 1, 1, 1, 2, 3>>))}

-----------------------------------------------------------------------------
(* Segments.                                                               *)
Other(kind) == [kind |-> kind]

Comps(mode) ==
    LET component(id, h, v, q) == [id |-> id, h |-> h, v |-> v, factors |-> q]
        luma == CASE mode = "420" -> component(1, 2, 2, 1)
                  [] mode = "422" -> component(1, 2, 1, 1)
                  [] OTHER -> component(1, 1, 1, 1)
    IN IF mode = "mono" THEN <<luma>>
       ELSE <<luma, component(2, 1, 1, 3), component(3, 1, 1, 3)>>

SofOf(image) ==
    [kind |-> "SOF0", w |-> image.w, h |-> image.h, comps |-> Comps(image.mode)]

DqtOf(tables) == [kind |-> "DQT", tables |-> tables]
Quantised == <<[id |-> 1, factors |-> LumaFactors],
               [id |-> 3, factors |-> ChromaFactors]>>
Wrong == <<[id |-> 1, factors |-> OtherFactors],
           [id |-> 3, factors |-> OtherFactors]>>
DqtEach(tables) == [t \in DOMAIN tables |-> DqtOf(<<tables[t]>>)]

DhtOf(ids, tables) ==
    [kind |-> "DHT",
     tables |-> [n \in DOMAIN ids |-> [id |-> ids[n], symbols |-> tables[ids[n]]]]]
DhtEach(tables) == [n \in 1 .. 4 |-> DhtOf(<<n - 1>>, tables)]

(* One segment a table; all Huffman tables in one, with segments to pass   *)
(* over; tables that are replaced, and no marker after the data; both      *)
(* quantisation tables in one segment.                                     *)
Plain(image, tables, scan) ==
    DqtEach(Quantised) \o <<SofOf(image)>> \o DhtEach(tables)
    \o <<scan, Other("EOI")>>
Packed(image, tables, scan) ==
    <<Other("APP"), Other("COM"), SofOf(image)>> \o DqtEach(Quantised)
    \o <<DhtOf(<<3, 1, 0, 2>>, tables), Other("DRI"), scan, Other("EOI")>>
Replaced(image, tables, scan) ==
    DqtEach(Wrong) \o DhtEach(Optimised) \o DqtEach(Quantised) \o <<SofOf(image)>>
    \o <<DhtOf(<<0, 1, 2, 3>>, tables), scan>>
TwoInOne(image, tables, scan) ==
    <<SofOf(image), DqtOf(Quantised)>> \o DhtEach(tables) \o <<scan, Other("EOI")>>
Progressive(image, tables, scan) ==
    <<Other("SOF2")>> \o Plain(image, tables, scan)

(* Without Huffman tables; without those for chroma.                       *)
NoTables(image, tables, scan) ==
    DqtEach(Quantised) \o <<SofOf(image), scan, Other("EOI")>>
LumaTables(image, tables, scan) ==
    DqtEach(Quantised) \o <<SofOf(image), DhtOf(<<0, 1>>, tables), scan, Other("EOI")>>

Layout(name, image, tables, scan) ==
    CASE name = "plain" -> Plain(image, tables, scan)
      [] name = "packed" -> Packed(image, tables, scan)
      [] name = "replaced" -> Replaced(image, tables, scan)
      [] name = "twoInOne" -> TwoInOne(image, tables, scan)
      [] name = "progressive" -> Progressive(image, tables, scan)
      [] name = "noTables" -> NoTables(image, tables, scan)
      [] name = "lumaTables" -> LumaTables(image, tables, scan)

(* What became of the data of the scan before the file was written: bits   *)
(* stuck at one from some byte on, or inverted, or the last byte lost.     *)
Harmed(harm, bytes) ==
    CASE harm = "none" -> bytes
      [] harm = "ones" -> [n \in DOMAIN bytes |-> 255]
      [] harm = "tail" -> [n \in DOMAIN bytes |->
                              IF n <= Len(bytes) \div 2 THEN bytes[n] ELSE 255]
      [] harm = "inverted" -> [n \in DOMAIN bytes |-> 255 - bytes[n]]
      [] harm = "short" -> Front(bytes)
Harms == {"ones", "tail", "inverted", "short"}

Jobs(layout, images, tables) ==
    {[layout |-> layout, image |-> image, tables |-> tables, harm |-> "none"] :
        image \in images}

(* Colour pictures only: more blocks than the picture has are clipped.     *)
DamagedJobs ==
    LET images == {image \in Colour444 \cup Colour420 :
                      image.units[1].dc = 3 /\ image.units[2].dc = -3
                      /\ image.units[3].dc # 255}
                  \cup {image \in Placed : image.mode # "mono"}
    IN {[j EXCEPT !.harm = harm] : j \in Jobs("plain", images, Standard),
                                   harm \in Harms}
       \cup Jobs("noTables", images, Standard)
       \cup Jobs("lumaTables", images, Standard)

AllJobs ==
    Jobs("plain", Mono(DcValues, AcLists) \cup TwoBlocks \cup Colour444
                  \cup Colour420 \cup Placed, Standard)
    \cup Jobs("packed", Mono({3}, AcLists) \cup Colour420, Standard)
    \cup Jobs("replaced", Mono({-200}, AcLists) \cup Colour444, Standard)
    \cup Jobs("plain", Mono(DcValues, AcLists), Optimised)
    \cup Jobs("twoInOne", Mono({3}, {<<>>}), Standard)
    \cup Jobs("progressive", Mono({3}, {<<>>}), Standard)
    \cup Jobs("plain", {Image("422", 8, 8, <<Block(1, 3, <<>>)>>)}, Standard)
    \cup DamagedJobs

(* Their blocks as code words, these as bytes, and the files.              *)
Worded == {[job |-> j, words |-> Encoder!Words(j.tables, j.image.units)] :
              j \in AllJobs}
Coded == {[job |-> w.job, code |-> Encoder!Encoded(w.words)] : w \in Worded}

FileOf(job, code) ==
    LET bytes == Harmed(job.harm, code.bytes)
        scan == [kind |-> "SOS", data |-> Encoder!Stuffed(bytes), next |-> 217]
        sound == job.harm = "none" /\ job.layout \notin {"noTables", "lumaTables"}
    IN [segments |-> Layout(job.layout, job.image, job.tables, scan),
        picture |-> [units |-> job.image.units, factors |-> Factors,
                     bytes |-> bytes, lastWord |-> code.lastWord, sound |-> sound]]

AllFiles == {FileOf(c.job, c.code) : c \in Coded}
=============================================================================
