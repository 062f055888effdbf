------------------------------ MODULE JpegIdct ------------------------------
(***************************************************************************)
(* The inverse DCT of jpeg_idct.h: a factored transform of eight values in *)
(* integer arithmetic, applied to the rows of a block and then to the      *)
(* columns.  A block is a function from 0..63, row by row.                 *)
(***************************************************************************)
EXTENDS Integers, Functions

(* Mutant: two digits are exchanged.                                       *)
C1Exchanged == 4071

\* cos(k * pi / 16) * 4096
C1 == 4017
C2 == 3784
C3 == 3406
C4 == 2896
C5 == 2276
C6 == 1567
C7 == 799

(* A division of C rounds towards zero, a right shift (\div) down.         *)
Truncated(n, d) == IF n >= 0 THEN n \div d ELSE -((-n) \div d)
OverSqrt2(n) == Truncated(n * 181, 256)

(* One pass over eight values, the results shifted right.                  *)
Butterfly(d, shift) ==
    LET s0 == (d[0] + d[4]) * C4        s1 == (d[0] - d[4]) * C4
        s3 == d[2] * C2 + d[6] * C6     s2 == d[2] * C6 - d[6] * C2
        s7 == d[1] * C1 + d[7] * C7     s4 == d[1] * C7 - d[7] * C1
        s6 == d[5] * C5 + d[3] * C3     s5 == d[5] * C3 - d[3] * C5
        t0 == s0 + s3    t3 == s0 - s3
        t1 == s1 + s2    t2 == s1 - s2
        t4 == s4 + s5    t5 == s4 - s5
        t7 == s7 + s6    t6 == s7 - s6
        r6 == OverSqrt2(t5 + t6)
        r5 == OverSqrt2(t6 - t5)
        sums == <<t0 + t7, t1 + r6, t2 + r5, t3 + t4,
                  t3 - t4, t2 - r5, t1 - r6, t0 - t7>>
    IN [i \in 0 .. 7 |-> sums[i + 1] \div 2 ^ shift]

Idct(block) ==
    LET rows == [r \in 0 .. 7 |->
                    Butterfly([i \in 0 .. 7 |-> block[8 * r + i]], 11)]
        cols == [c \in 0 .. 7 |->
                    Butterfly([i \in 0 .. 7 |-> rows[i][c]], 15)]
    IN [n \in 0 .. 63 |-> cols[n % 8][n \div 8]]

-----------------------------------------------------------------------------
(* The transform by its definition, on the coefficients that are not zero: *)
(* a double sum of cosines, here with ten fractional bits each.            *)
Cosines == <<1024, 1004, 946, 851, 724, 569, 392, 200, 0>>

Cosine(k) ==      \* cos(k * pi / 16)
    LET m == k % 32
    IN CASE m <= 8 -> Cosines[m + 1]
         [] m \in 9 .. 16 -> -Cosines[17 - m]
         [] m \in 17 .. 24 -> -Cosines[m - 15]
         [] OTHER -> Cosines[33 - m]

Basis(u, x) == IF u = 0 THEN 724 ELSE Cosine((2 * x + 1) * u)

RefSample(block, at) ==
    LET used == {n \in 0 .. 63 : block[n] # 0}
        term == [n \in 0 .. 63 |->
                    block[n] * Basis(n % 8, at % 8) * Basis(n \div 8, at \div 8)]
    IN SumFunctionOnSet(term, used) \div 2 ^ 22
=============================================================================
