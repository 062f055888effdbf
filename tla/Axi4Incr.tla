------------------------------ MODULE Axi4Incr ------------------------------
(***************************************************************************)
(* The address of the next beat of a burst, as the unburstify stage of     *)
(* Axi4SharedSdramCtrl computes it, and as the AXI rules define it.        *)
(***************************************************************************)
EXTENDS Integers

CONSTANT PageSize  \* 2^12 in the code: the carry chain is 12 bits wide

\* The window of a wrapping burst, at most 64 bytes, lies within a page.
ASSUME PageAssumption == PageSize \in Nat \ {0} /\ PageSize % 64 = 0

FIXED == 0
INCR  == 1
WRAP  == 2
Bursts == {FIXED, INCR, WRAP}

(***************************************************************************)
(* The circuit.  Only size[1:0] is looked at, and 3 adds nothing.          *)
(***************************************************************************)
validSize(size) == size % 4
\* Mutant: the increment of four-byte beats is left out.
sizeValueShort(size) == IF validSize(size) >= 2 THEN 0 ELSE 2 ^ validSize(size)

sizeValue(size) == IF validSize(size) = 3 THEN 0 ELSE 2 ^ validSize(size)

\* The address within the page, with the bits below the beat size cleared.
align(size)       == IF validSize(size) = 0 THEN 1 ELSE IF validSize(size) = 1 THEN 2 ELSE 4
base(addr, size)  == (addr % PageSize) - (addr % align(size))
baseIncr(addr, size) == (base(addr, size) + sizeValue(size)) % PageSize

\* Mutant: len[3] is not looked at.
lenCaseShort(len) == IF (len \div 4) % 2 = 1 THEN 2
                     ELSE IF (len \div 2) % 2 = 1 THEN 1 ELSE 0

\* The highest of len[3:1] that is set.
lenCase(len) == IF (len \div 8) % 2 = 1 THEN 3
                ELSE IF (len \div 4) % 2 = 1 THEN 2
                ELSE IF (len \div 2) % 2 = 1 THEN 1 ELSE 0

\* The bits that a wrapping burst lets change: 2^(wrapCase + 1), at most 64.
wrapCase(size, len)   == (validSize(size) + lenCase(len)) % 8
wrapWindow(size, len) == 2 ^ (IF wrapCase(size, len) < 5 THEN wrapCase(size, len) + 1 ELSE 6)

NextAddr(addr, size, len, burst) ==
  LET page   == addr - (addr % PageSize)
      window == wrapWindow(size, len)
      low    == base(addr, size)
      next   == baseIncr(addr, size)
  IN  IF burst = FIXED THEN addr
      ELSE IF burst = WRAP THEN page + (low - (low % window)) + (next % window)
      ELSE page + next

\* The addresses of the beats after this one, as buffer_transaction_addr is
\* stepped through them.
Walk(addr, size, len, burst, beats) ==
  LET f[n \in 0..beats] == IF n = 0 THEN addr ELSE NextAddr(f[n - 1], size, len, burst)
  IN  f

(***************************************************************************)
(* The reference: the address of beat n (counted from 0) of a burst.       *)
(***************************************************************************)
BeatBytes(size) == 2 ^ size

BeatAddr(start, size, len, burst, n) ==
  LET bytes   == BeatBytes(size)
      aligned == (start \div bytes) * bytes
      total   == bytes * (len + 1)
      lower   == (start \div total) * total
  IN  IF burst = FIXED \/ n = 0 THEN start
      ELSE IF burst = INCR THEN aligned + n * bytes
      ELSE lower + (((aligned - lower) + n * bytes) % total)

\* What AXI allows a master to ask for: a wrapping burst has 2, 4, 8 or 16
\* beats and an aligned start; no burst crosses a page; beats are at most as
\* wide as the 32-bit bus.
LegalBurst(start, size, len, burst) ==
  /\ size \in 0..2
  /\ burst = WRAP => len \in {1, 3, 7, 15} /\ start % BeatBytes(size) = 0
  /\ burst = FIXED => len < 16
  /\ burst = INCR =>
       start \div PageSize
         = ((start \div BeatBytes(size)) * BeatBytes(size) + (len + 1) * BeatBytes(size) - 1)
             \div PageSize
=============================================================================
