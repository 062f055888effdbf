------------------------- MODULE BridgeMemoryProofs -------------------------
(***************************************************************************)
(* The bridge is a memory that serves AXI bursts one by one: it implements *)
(* AxiMemory, for any page size, words, values, ids and legal requests.    *)
(*                                                                         *)
(* First the addresses: stepping a burst beat by beat through the carry    *)
(* chain of the circuit visits what the rule of AXI lists.  Then the       *)
(* refinement: what is left of a burst in the bridge is the end of that    *)
(* list.  A beat may stay on offer after the controller has taken it, when *)
(* its response has no room, and is then written again in every cycle;     *)
(* the second write is harmless because the offer has not changed.         *)
(***************************************************************************)
EXTENDS BridgeProofs

(***************************************************************************)
(* The addresses of a burst.                                               *)
(***************************************************************************)
\* A page is a number of 64-byte blocks, and so is what lies before it.
LEMMA PageBlocks ==
  /\ PageSize \in Nat \ {0}
  /\ \E m \in Int : PageSize = 64 * m
  /\ \A a \in Int : \E k \in Int : a - (a % PageSize) = 64 * k
<1>1. PageSize \in Nat \ {0} /\ PageSize % 64 = 0
  BY PageAssumption
<1>2. PageSize = 64 * (PageSize \div 64) /\ PageSize \div 64 \in Int
  BY <1>1
<1> DEFINE m == PageSize \div 64
<1>3. ASSUME NEW a \in Int
      PROVE  \E k \in Int : a - (a % PageSize) = 64 * k
  <2> DEFINE q == a \div PageSize
  <2>1. a = PageSize * q + (a % PageSize) /\ q \in Int /\ a % PageSize \in Int
    BY <1>1, DivMod
  <2> HIDE DEF q, m
  <2>2. a - (a % PageSize) = (64 * m) * q
    BY <1>1, <1>2, <2>1 DEF m
  <2>3. m \in Int
    BY <1>2 DEF m
  <2>4. (64 * m) * q = 64 * (m * q) /\ m * q \in Int
    BY <2>1, <2>3
  <2>5. QED
    BY <2>2, <2>4
<1>4. QED
  BY <1>1, <1>2, <1>3

\* A sum that leaves a page by less than a page.
LEMMA ModOnce ==
  ASSUME NEW x \in Int, 0 <= x, x < 2 * PageSize
  PROVE  x % PageSize = IF x < PageSize THEN x ELSE x - PageSize
<1>1. PageSize \in Nat \ {0}
  BY PageAssumption
<1>2. CASE x < PageSize
  <2>1. x \in 0..(PageSize - 1) /\ PageSize * 0 + x = x
    BY <1>1, <1>2
  <2>2. QED
    BY <1>1, <1>2, <2>1, DivUnique
<1>3. CASE x >= PageSize
  <2>1. x - PageSize \in 0..(PageSize - 1) /\ PageSize * 1 + (x - PageSize) = x
    BY <1>1, <1>3
  <2>2. x % PageSize = x - PageSize
    BY <1>1, <2>1, DivUnique
  <2>3. QED
    BY <1>1, <1>3, <2>2
<1>4. QED
  BY <1>1, <1>2, <1>3

\* What lies between two numbers of a page is of that page.
LEMMA SamePage ==
  ASSUME NEW a \in Int, NEW b \in Int, NEW c \in Int, a <= b, b <= c,
         a \div PageSize = c \div PageSize
  PROVE  b - (b % PageSize) = c - (c % PageSize)
<1>1. PageSize \in Nat \ {0}
  BY PageAssumption
<1> DEFINE q == a \div PageSize
           p == PageSize * q
<1>2. /\ a = p + (a % PageSize) /\ a % PageSize \in 0..(PageSize - 1)
      /\ c = p + (c % PageSize) /\ c % PageSize \in 0..(PageSize - 1)
      /\ q \in Int
  BY <1>1, DivMod
<1>3. p \in Int
  BY <1>1, <1>2
<1>4. b - p \in 0..(PageSize - 1)
  <2> HIDE DEF p, q
  <2>1. QED
    BY <1>1, <1>2, <1>3
<1>5. (p + (b - p)) % PageSize = b - p
  BY <1>1, <1>2, <1>4, DivUnique
<1>6. p + (b - p) = b
  <2> HIDE DEF p
  <2>1. QED
    BY <1>3
<1> HIDE DEF p
<1>7. b % PageSize = b - p
  BY <1>5, <1>6
<1>8. QED
  BY <1>1, <1>2, <1>3, <1>7

\* The bus is four bytes wide: the circuit steps by the size of a beat.
LEMMA BeatSizes ==
  ASSUME NEW size \in 0..2
  PROVE  /\ BeatBytes(size) \in {1, 2, 4}
         /\ validSize(size) = size /\ sizeValue(size) = BeatBytes(size)
         /\ align(size) = BeatBytes(size)
<1>1. 2 ^ 0 = 1 /\ 2 ^ 1 = 2 /\ 2 ^ 2 = 4
  OBVIOUS
<1>2. validSize(size) = size
  BY DEF validSize
<1>3. /\ BeatBytes(size) = 2 ^ size
      /\ sizeValue(size) = IF size = 3 THEN 0 ELSE 2 ^ size
      /\ align(size) = IF size = 0 THEN 1 ELSE IF size = 1 THEN 2 ELSE 4
  BY <1>2 DEF BeatBytes, sizeValue, align
<1>4. CASE size = 0
  BY <1>1, <1>2, <1>3, <1>4
<1>5. CASE size = 1
  BY <1>1, <1>2, <1>3, <1>5
<1>6. CASE size = 2
  BY <1>1, <1>2, <1>3, <1>6
<1>7. QED
  BY <1>4, <1>5, <1>6

\* The circuit goes from one beat of an incrementing burst to the next.
LEMMA IncrNext ==
  ASSUME NEW start \in Int, NEW size \in 0..2, NEW len \in Nat,
         LegalBurst(start, size, len, INCR), NEW n \in 0..(len - 1)
  PROVE  NextAddr(BeatAddr(start, size, len, INCR, n), size, len, INCR)
           = BeatAddr(start, size, len, INCR, n + 1)
<1> DEFINE bytes   == BeatBytes(size)
           aligned == (start \div bytes) * bytes
           addr    == BeatAddr(start, size, len, INCR, n)
           end     == aligned + (len + 1) * bytes - 1
           page    == addr - (addr % PageSize)
<1>1. /\ bytes \in {1, 2, 4} /\ sizeValue(size) = bytes /\ align(size) = bytes
      /\ PageSize \in Nat \ {0}
  BY BeatSizes, PageBlocks
<1>2. /\ addr = IF n = 0 THEN start ELSE aligned + n * bytes
      /\ BeatAddr(start, size, len, INCR, n + 1) = aligned + (n + 1) * bytes
  BY DEF BeatAddr, INCR, FIXED
<1>3. start \div PageSize = end \div PageSize
  BY DEF LegalBurst, INCR, WRAP, FIXED
<1>4. PICK block \in Int : page = 64 * block
  <2>1. addr \in Int
    BY <1>1, <1>2
  <2>2. QED
    BY <2>1, PageBlocks
<1>5. addr \in Int /\ aligned \in Int /\ end \in Int /\ n \in Int /\ len \in Int /\ n < len /\ 0 <= n
  BY <1>1, <1>2
<1>6. /\ addr - (addr % bytes) = aligned + n * bytes
      /\ start <= addr /\ addr <= end
      /\ aligned + (n + 1) * bytes <= end
  BY <1>1, <1>2, <1>5
<1> HIDE DEF bytes, aligned, addr, end
<1>7. page = end - (end % PageSize) /\ end % PageSize \in 0..(PageSize - 1)
      /\ addr % PageSize \in 0..(PageSize - 1)
  <2>1. addr - (addr % PageSize) = end - (end % PageSize)
    BY <1>3, <1>5, <1>6, SamePage
  <2>2. end % PageSize \in 0..(PageSize - 1) /\ addr % PageSize \in 0..(PageSize - 1)
    BY <1>1, <1>5, DivMod
  <2>3. QED
    BY <2>1, <2>2
<1> DEFINE low == base(addr, size)
<1>8. low = (addr % PageSize) - (addr % bytes)
  BY <1>1 DEF base
<1> HIDE DEF page, low
<1>9. page \in Int /\ page + low = aligned + n * bytes /\ low \in Int
  <2>1. page = addr - (addr % PageSize)
    BY DEF page
  <2>2. addr % bytes \in Int
    BY <1>1, <1>5
  <2>3. addr % PageSize \in Int
    BY <1>1, <1>5, DivMod
  <2>4. n * bytes \in Int
    BY <1>1, <1>5
  <2>5. QED
    BY <1>5, <1>6, <1>8, <2>1, <2>2, <2>3, <2>4
<1>10. 0 <= low
  BY <1>1, <1>4, <1>5, <1>7, <1>9, <1>6, <1>8 DEF page
<1>11. low + bytes < PageSize
  <2>1. (n + 1) * bytes = n * bytes + bytes /\ n * bytes \in Int
    BY <1>1, <1>5
  <2>2. page + (low + bytes) <= end
    BY <1>1, <1>5, <1>6, <1>9, <2>1
  <2>3. QED
    BY <1>1, <1>5, <1>7, <1>9, <2>2
<1>12. baseIncr(addr, size) = low + bytes
  <2>1. baseIncr(addr, size) = (low + bytes) % PageSize
    BY <1>1 DEF baseIncr, low
  <2>2. low + bytes < 2 * PageSize /\ 0 <= low + bytes /\ low + bytes \in Int
    BY <1>1, <1>9, <1>10, <1>11
  <2>3. QED
    BY <1>11, <2>1, <2>2, ModOnce
<1>13. NextAddr(addr, size, len, INCR) = page + (low + bytes)
  BY <1>12 DEF NextAddr, page, INCR, WRAP, FIXED
<1>14. page + (low + bytes) = aligned + (n + 1) * bytes
  BY <1>1, <1>5, <1>9
<1>15. QED
  BY <1>2, <1>13, <1>14 DEF addr, aligned, bytes

\* Remainders by the width of a window.
Windows == {2, 4, 8, 16, 32, 64}

\* An offset within a window, and the window an address lies in.
LEMMA WindowMod ==
  ASSUME NEW w \in Windows, NEW a \in Int
  PROVE  /\ a \in 0..(w - 1) => a % w = a
         /\ a % w \in 0..(w - 1) /\ (a \div w) * w = a - (a % w)
<1>1. CASE w = 2
  BY <1>1
<1>2. CASE w = 4
  BY <1>2
<1>3. CASE w = 8
  BY <1>3
<1>4. CASE w = 16
  BY <1>4
<1>5. CASE w = 32
  BY <1>5
<1>6. CASE w = 64
  BY <1>6
<1>7. QED
  BY <1>1, <1>2, <1>3, <1>4, <1>5, <1>6 DEF Windows

\* The steps of a wrapping burst: s is its start, "done" what was added to it,
\* low and next are offsets within the page at 64 * k, and a page has m blocks.
StepsBy(bytes, w, s, done, k, m, low, next) ==
  /\ w \in Windows /\ s \in Int /\ done \in Int /\ bytes \in Int
  /\ k \in Int /\ m \in Int /\ low \in Int /\ next \in Int
  /\ 64 * k + low = (s - (s % w)) + (((s % w) + done) % w)
  /\ next = low + bytes \/ next = low + bytes - 64 * m

\* Whole blocks of 64 bytes do not change an offset within a window.
LEMMA WindowStep ==
  ASSUME NEW w, NEW s, NEW done, NEW bytes, NEW k, NEW m, NEW low, NEW next,
         StepsBy(bytes, w, s, done, k, m, low, next)
  PROVE  64 * k + (low - (low % w)) + (next % w)
           = (s - (s % w)) + (((s % w) + done + bytes) % w)
<1> USE DEF StepsBy
<1>1. CASE w = 2
  BY <1>1
<1>2. CASE w = 4
  BY <1>2
<1>3. CASE w = 8
  BY <1>3
<1>4. CASE w = 16
  BY <1>4
<1>5. CASE w = 32
  BY <1>5
<1>6. CASE w = 64
  BY <1>6
<1>7. QED
  BY <1>1, <1>2, <1>3, <1>4, <1>5, <1>6 DEF Windows

\* The circuit lets those bits change that AXI lets change.
LEMMA WrapWindows ==
  ASSUME NEW size \in 0..2, NEW len \in {1, 3, 7, 15}
  PROVE  /\ wrapWindow(size, len) = BeatBytes(size) * (len + 1)
         /\ wrapWindow(size, len) \in Windows
<1>1. 2 ^ 0 = 1 /\ 2 ^ 1 = 2 /\ 2 ^ 2 = 4 /\ 2 ^ 3 = 8 /\ 2 ^ 4 = 16 /\ 2 ^ 5 = 32 /\ 2 ^ 6 = 64
  OBVIOUS
<1>2. BeatBytes(size) = IF size = 0 THEN 1 ELSE IF size = 1 THEN 2 ELSE 4
  BY BeatSizes DEF align
<1>3. lenCase(len) = IF len = 1 THEN 0 ELSE IF len = 3 THEN 1 ELSE IF len = 7 THEN 2 ELSE 3
  BY DEF lenCase
<1>4. wrapCase(size, len) = size + lenCase(len)
  BY <1>3, BeatSizes DEF wrapCase
<1>5. wrapWindow(size, len) = 2 ^ (size + lenCase(len) + 1)
  <2>1. (IF wrapCase(size, len) < 5 THEN wrapCase(size, len) + 1 ELSE 6) = size + lenCase(len) + 1
    BY <1>3, <1>4
  <2>2. QED
    BY <2>1 DEF wrapWindow
<1>6. CASE size = 0
  BY <1>1, <1>2, <1>3, <1>5, <1>6 DEF Windows
<1>7. CASE size = 1
  BY <1>1, <1>2, <1>3, <1>5, <1>7 DEF Windows
<1>8. CASE size = 2
  BY <1>1, <1>2, <1>3, <1>5, <1>8 DEF Windows
<1>9. QED
  BY <1>6, <1>7, <1>8

\* Where the beats of a wrapping burst are, from the first one on.
LEMMA WrapBeats ==
  ASSUME NEW start \in Int, NEW size \in 0..2, NEW len \in {1, 3, 7, 15},
         start % BeatBytes(size) = 0, NEW n \in Nat
  PROVE  BeatAddr(start, size, len, WRAP, n)
           = LET w == wrapWindow(size, len)
             IN  (start - (start % w)) + (((start % w) + n * BeatBytes(size)) % w)
<1> DEFINE bytes == BeatBytes(size)
           w     == wrapWindow(size, len)
<1>1. w \in Windows /\ w = bytes * (len + 1) /\ bytes \in {1, 2, 4}
  BY WrapWindows, BeatSizes
<1>2. (start \div bytes) * bytes = start
  BY <1>1
<1> HIDE DEF bytes, w
<1>3. (start \div w) * w = start - (start % w) /\ start % w \in 0..(w - 1)
  BY <1>1, WindowMod
<1>4. n = 0 => ((start % w) + n * bytes) % w = start % w
  <2>1. (start % w) % w = start % w
    <3> DEFINE a == start % w
    <3>1. a \in 0..(w - 1) /\ a \in Int
      BY <1>1, <1>3 DEF Windows
    <3> HIDE DEF a
    <3>2. a % w = a
      BY <1>1, <3>1, WindowMod
    <3>3. QED
      BY <3>2 DEF a
  <2>2. n = 0 => (start % w) + n * bytes = start % w
    BY <1>1, <1>3
  <2>3. QED
    BY <2>1, <2>2
<1>5. w \in Int /\ start % w \in Int
  BY <1>1, <1>3 DEF Windows
<1>6. n # 0 => BeatAddr(start, size, len, WRAP, n)
                 = (start - (start % w)) + (((start - (start - (start % w))) + n * bytes) % w)
  BY <1>1, <1>2, <1>3 DEF BeatAddr, WRAP, INCR, FIXED, bytes
<1>7. start - (start - (start % w)) = start % w
  BY <1>5
<1>8. n = 0 => BeatAddr(start, size, len, WRAP, n) = start
  BY DEF BeatAddr
<1>9. QED
  BY <1>4, <1>5, <1>6, <1>7, <1>8 DEF bytes, w

\* Every beat of it starts at a multiple of its size.
LEMMA WrapAligned ==
  ASSUME NEW start \in Int, NEW size \in 0..2, NEW len \in {1, 3, 7, 15},
         start % BeatBytes(size) = 0, NEW n \in Nat
  PROVE  /\ BeatAddr(start, size, len, WRAP, n) \in Int
         /\ BeatAddr(start, size, len, WRAP, n) % BeatBytes(size) = 0
<1> DEFINE bytes == BeatBytes(size)
           w     == wrapWindow(size, len)
           a     == start % w
           b     == a + n * bytes
           addr  == BeatAddr(start, size, len, WRAP, n)
           j     == n - (b \div w) * (len + 1)
<1>1. w \in Windows /\ w = bytes * (len + 1) /\ bytes \in {1, 2, 4}
  BY WrapWindows, BeatSizes
<1>2. addr = (start - a) + (b % w)
  BY WrapBeats
<1> HIDE DEF bytes, w, addr
<1>3. a \in Int /\ n * bytes \in Int /\ b \in Int
  <2>1. a \in 0..(w - 1) /\ w \in Int
    BY <1>1, WindowMod DEF Windows
  <2> HIDE DEF a
  <2>2. QED
    BY <1>1, <2>1
<1>4. (b \div w) * w = b - (b % w) /\ b % w \in 0..(w - 1)
  <2> HIDE DEF b
  <2>1. QED
    BY <1>1, <1>3, WindowMod
<1>5. b \div w \in Int /\ b % w \in Int
  <2> HIDE DEF b
  <2>1. QED
    BY <1>1, <1>3 DEF Windows
<1> DEFINE q == b \div w
           r == b % w
<1>6. addr = (start - a) + r /\ b = a + n * bytes /\ q * w = b - r /\ q \in Int /\ r \in Int
  BY <1>2, <1>4, <1>5
<1>7. j = n - q * (len + 1)
  OBVIOUS
<1> HIDE DEF q, r, a, b, j
<1>8. q * w = (q * (len + 1)) * bytes /\ q * (len + 1) \in Int
  BY <1>1, <1>6
<1>9. addr = start + j * bytes /\ j \in Int
  BY <1>1, <1>3, <1>6, <1>7, <1>8
<1>10. addr \in Int /\ addr % bytes = 0
  <2>1. start % bytes = 0
    BY DEF bytes
  <2>2. QED
    BY <1>1, <1>9, <2>1
<1>11. QED
  BY <1>10 DEF addr, bytes

\* The circuit goes from one beat of a wrapping burst to the next.
LEMMA WrapNext ==
  ASSUME NEW start \in Int, NEW size \in 0..2, NEW len \in {1, 3, 7, 15},
         start % BeatBytes(size) = 0, NEW n \in Nat
  PROVE  NextAddr(BeatAddr(start, size, len, WRAP, n), size, len, WRAP)
           = BeatAddr(start, size, len, WRAP, n + 1)
<1> DEFINE bytes == BeatBytes(size)
           w     == wrapWindow(size, len)
           addr  == BeatAddr(start, size, len, WRAP, n)
           low   == base(addr, size)
           next  == baseIncr(addr, size)
<1>1. /\ w \in Windows /\ bytes \in {1, 2, 4}
      /\ sizeValue(size) = bytes /\ align(size) = bytes
      /\ PageSize \in Nat \ {0}
  BY WrapWindows, BeatSizes, PageBlocks
<1>2. /\ addr = (start - (start % w)) + (((start % w) + n * bytes) % w)
      /\ BeatAddr(start, size, len, WRAP, n + 1)
           = (start - (start % w)) + (((start % w) + (n + 1) * bytes) % w)
  BY WrapBeats
<1>3. addr \in Int /\ addr % bytes = 0
  BY WrapAligned
<1>4. NextAddr(addr, size, len, WRAP)
        = (addr - (addr % PageSize)) + (low - (low % w)) + (next % w)
  BY DEF NextAddr, WRAP, FIXED
<1>5. low = (addr % PageSize) - (addr % bytes) /\ next = (low + bytes) % PageSize
  BY <1>1 DEF base, baseIncr
<1> HIDE DEF bytes, w, addr, low, next
<1>6. addr % PageSize \in 0..(PageSize - 1)
  BY <1>1, <1>3, DivMod
<1>7. low = addr % PageSize /\ low \in 0..(PageSize - 1)
  BY <1>1, <1>3, <1>5, <1>6
<1>8. PICK k \in Int : addr - (addr % PageSize) = 64 * k
  BY <1>3, PageBlocks
<1>9. PICK m \in Int : PageSize = 64 * m
  BY PageBlocks
<1>10. next = low + bytes \/ next = low + bytes - 64 * m
  <2>1. low + bytes \in Int /\ 0 <= low + bytes /\ low + bytes < 2 * PageSize
    BY <1>1, <1>7, <1>9
  <2> DEFINE x == low + bytes
  <2> HIDE DEF x
  <2>2. x % PageSize = x \/ x % PageSize = x - PageSize
    BY <1>1, <2>1, ModOnce DEF x
  <2>3. next = x % PageSize
    BY <1>5, Zenon DEF x
  <2>4. next = x \/ next = x - 64 * m
    BY <1>9, <2>2, <2>3, Zenon
  <2>5. QED
    BY <1>1, <1>7, <2>4 DEF x
<1>11. /\ n * bytes \in Int /\ low \in Int /\ next \in Int /\ bytes \in Int
       /\ 64 * k + low = (start - (start % w)) + (((start % w) + n * bytes) % w)
  <2>1. n * bytes \in Int /\ low \in Int /\ bytes \in Int
    BY <1>1, <1>7
  <2>2. 64 * k + low = addr
    BY <1>3, <1>7, <1>8
  <2>3. QED
    BY <1>2, <1>10, <2>1, <2>2
<1>12. 64 * k + (low - (low % w)) + (next % w)
         = (start - (start % w)) + (((start % w) + n * bytes + bytes) % w)
  <2>1. StepsBy(bytes, w, start, n * bytes, k, m, low, next)
    BY <1>1, <1>10, <1>11 DEF StepsBy
  <2>2. QED
    BY <2>1, WindowStep
<1>13. (start % w) + (n + 1) * bytes = (start % w) + n * bytes + bytes
  <2>1. start % w \in Int
    BY <1>1 DEF Windows
  <2>2. QED
    BY <1>1, <2>1
<1>14. QED
  BY <1>2, <1>4, <1>8, <1>12, <1>13 DEF addr, bytes, w

\* Stepped from one beat of a legal burst, the circuit goes where AXI says the
\* next beat goes (unburstify_result_transaction_addr).
LEMMA NextBeat ==
  ASSUME NEW start \in Int, NEW size \in Nat, NEW len \in Nat, NEW burst \in Bursts,
         LegalBurst(start, size, len, burst), NEW n \in 0..(len - 1)
  PROVE  NextAddr(BeatAddr(start, size, len, burst, n), size, len, burst)
           = BeatAddr(start, size, len, burst, n + 1)
<1>1. size \in 0..2
  BY DEF LegalBurst
<1>2. CASE burst = INCR
  BY <1>1, <1>2, IncrNext
<1>3. CASE burst = WRAP
  <2>1. len \in {1, 3, 7, 15} /\ start % BeatBytes(size) = 0 /\ n \in Nat
    BY <1>3 DEF LegalBurst
  <2>2. QED
    BY <1>1, <1>3, <2>1, WrapNext
<1>4. CASE burst = FIXED
  BY <1>4 DEF NextAddr, BeatAddr
<1>5. QED
  BY <1>2, <1>3, <1>4 DEF Bursts

\* What makes a function the walk of a burst.
IsWalk(f, addr, size, len, burst, beats) ==
  f = [n \in 0..beats |-> IF n = 0 THEN addr ELSE NextAddr(f[n - 1], size, len, burst)]

\* Stepped through the rest of a legal burst from beat j, the circuit visits the
\* addresses that AXI gives to the beats after it.
LEMMA WalkExact ==
  ASSUME NEW start \in Int, NEW size \in Nat, NEW len \in Nat, NEW burst \in Bursts,
         LegalBurst(start, size, len, burst),
         NEW j \in Nat, NEW beats \in Nat, j + beats <= len
  PROVE  Walk(BeatAddr(start, size, len, burst, j), size, len, burst, beats)
           = [n \in 0..beats |-> BeatAddr(start, size, len, burst, j + n)]
<1> DEFINE addr == BeatAddr(start, size, len, burst, j)
           f    == Walk(addr, size, len, burst, beats)
           g    == [n \in 0..beats |-> BeatAddr(start, size, len, burst, j + n)]
<1>1. f = CHOOSE h : IsWalk(h, addr, size, len, burst, beats)
  BY DEF Walk, IsWalk
<1>2. ASSUME NEW n \in 0..beats, n # 0
      PROVE  g[n] = NextAddr(g[n - 1], size, len, burst)
  <2>1. n - 1 \in 0..beats /\ j + (n - 1) \in 0..(len - 1) /\ (j + (n - 1)) + 1 = j + n
    BY <1>2
  <2>2. g[n] = BeatAddr(start, size, len, burst, j + n)
        /\ g[n - 1] = BeatAddr(start, size, len, burst, j + (n - 1))
    BY <2>1
  <2>3. QED
    BY <2>1, <2>2, NextBeat
<1>3. 0 \in 0..beats /\ g[0] = addr
  BY j + 0 = j
<1>4. IsWalk(g, addr, size, len, burst, beats)
  <2> DEFINE h == [n \in 0..beats |-> IF n = 0 THEN addr ELSE NextAddr(g[n - 1], size, len, burst)]
  <2>1. \A n \in 0..beats : g[n] = h[n]
    BY <1>2, <1>3
  <2>2. g = h
    BY <2>1
  <2>3. QED
    BY <2>2 DEF IsWalk
<1>5. IsWalk(f, addr, size, len, burst, beats)
  BY <1>1, <1>4
<1> HIDE DEF f, addr
<1>6. /\ DOMAIN f = 0..beats /\ f[0] = addr
      /\ \A n \in 0..beats : n # 0 => f[n] = NextAddr(f[n - 1], size, len, burst)
      /\ f = [n \in 0..beats |-> f[n]]
  BY <1>3, <1>5 DEF IsWalk
<1>7. \A n \in 0..beats : f[n] = g[n]
  <2> DEFINE Off == {n \in 0..beats : f[n] # g[n]}
  <2> SUFFICES ASSUME Off # {}
               PROVE  FALSE
    OBVIOUS
  <2>1. PICK m \in Off : \A k \in Off : m <= k
    <3>1. Off \subseteq Nat
      OBVIOUS
    <3>2. QED
      BY <3>1, SmallestOf
  <2>2. m \in 0..beats /\ m # 0 /\ f[m] # g[m]
    BY <1>3, <1>6, <2>1
  <2>3. m - 1 \in 0..beats /\ m - 1 \notin Off
    BY <2>1, <2>2
  <2>4. f[m - 1] = g[m - 1]
    BY <2>3
  <2>5. QED
    BY <1>2, <1>6, <2>2, <2>4
<1>8. f = g
  BY <1>6, <1>7
<1>9. QED
  BY <1>8 DEF f, addr

(***************************************************************************)
(* The burst under way.                                                    *)
(***************************************************************************)
\* The addresses of k beats of a burst, from beat j on.
BeatsOf(start, r, j, k) ==
  [n \in 1..k |-> BeatAddr(start, r.size, r.len, r.burst, (j + n) - 1)]

\* b is what is left of a legal burst that began at start.
BurstAt(b, start) ==
  /\ LegalBurst(start, b.size, b.len, b.burst)
  /\ b.beat <= b.len
  /\ b.addr = BeatAddr(start, b.size, b.len, b.burst, b.len - b.beat)

IsBurst(b) == b # None => \E start \in Int : BurstAt(b, start)

\* The first of several beats and the ones after it.
LEMMA BeatsSplit ==
  ASSUME NEW start, NEW r, NEW j \in Nat, NEW k \in Nat \ {0}
  PROVE  LET left == BeatsOf(start, r, j, k)
         IN  /\ Head(left) = BeatAddr(start, r.size, r.len, r.burst, j) /\ Len(left) = k
             /\ Tail(left) = BeatsOf(start, r, j + 1, k - 1)
<1> DEFINE left  == BeatsOf(start, r, j, k)
           rest  == BeatsOf(start, r, j + 1, k - 1)
           At(i) == BeatAddr(start, r.size, r.len, r.burst, i)
           S     == {At(i) : i \in Nat}
<1>1. left = [n \in 1..k |-> At((j + n) - 1)] /\ rest = [n \in 1..(k - 1) |-> At(((j + 1) + n) - 1)]
  BY DEF BeatsOf
<1>2. \A i \in Nat : At(i) \in S
  OBVIOUS
<1> HIDE DEF left, rest, At, S
<1>3. left \in [1..k -> S] /\ rest \in [1..(k - 1) -> S]
  BY <1>1, <1>2
<1>4. left \in Seq(S) /\ rest \in Seq(S)
  BY <1>3, SeqDef
<1>5. Len(left) = k /\ Len(rest) = k - 1
  BY <1>3, <1>4, LenProperties
<1>6. left # << >>
  BY <1>4, <1>5, EmptySeq
<1>7. /\ Head(left) = left[1] /\ Tail(left) \in Seq(S) /\ Len(Tail(left)) = k - 1
      /\ \A n \in 1..(k - 1) : Tail(left)[n] = left[n + 1]
  BY <1>4, <1>5, <1>6, HeadTailProperties
<1>8. left[1] = At(j)
  <2>1. 1 \in 1..k /\ (j + 1) - 1 = j
    OBVIOUS
  <2>2. QED
    BY <1>1, <2>1
<1>9. \A n \in 1..(k - 1) : Tail(left)[n] = rest[n]
  <2> SUFFICES ASSUME NEW n \in 1..(k - 1)
               PROVE  Tail(left)[n] = rest[n]
    OBVIOUS
  <2>1. n + 1 \in 1..k /\ (j + (n + 1)) - 1 = ((j + 1) + n) - 1
    OBVIOUS
  <2>2. QED
    BY <1>1, <1>7, <2>1
<1>10. Tail(left) = rest
  BY <1>4, <1>5, <1>7, <1>9, SeqEqual
<1>11. QED
  BY <1>5, <1>7, <1>8, <1>10 DEF At, left, rest

\* The address of a beat is a number.
LEMMA BeatAddrType ==
  ASSUME NEW start \in Int, NEW size \in 0..2, NEW len \in Nat, NEW burst, NEW n \in Nat
  PROVE  BeatAddr(start, size, len, burst, n) \in Int
<1> DEFINE bytes   == BeatBytes(size)
           total   == bytes * (len + 1)
           aligned == (start \div bytes) * bytes
           lower   == (start \div total) * total
           offset  == (aligned - lower) + n * bytes
<1>1. bytes \in {1, 2, 4}
  BY BeatSizes
<1>2. BeatAddr(start, size, len, burst, n)
        = IF burst = FIXED \/ n = 0 THEN start
          ELSE IF burst = INCR THEN aligned + n * bytes ELSE lower + (offset % total)
  BY DEF BeatAddr
<1> HIDE DEF bytes
<1>3. aligned \in Int /\ n * bytes \in Int /\ total \in Nat \ {0}
  BY <1>1
<1> HIDE DEF total, aligned
<1>4. lower \in Int
  <2>1. start \div total \in Int
    BY <1>3, DivMod
  <2>2. QED
    BY <1>3, <2>1
<1> HIDE DEF lower
<1>5. offset \in Int
  BY <1>3, <1>4
<1> HIDE DEF offset
<1>6. offset % total \in Int
  BY <1>3, <1>5, DivMod
<1>7. QED
  BY <1>2, <1>3, <1>4, <1>6

\* The beats of a legal burst have addresses.
LEMMA BeatsTypes ==
  ASSUME NEW start \in Int, NEW r, r.size \in Nat, r.len \in Nat, r.burst \in Bursts,
         LegalBurst(start, r.size, r.len, r.burst),
         NEW j \in Nat, NEW k \in Nat, j + k <= r.len + 1
  PROVE  BeatsOf(start, r, j, k) \in Seq(Int)
<1> DEFINE At(i) == BeatAddr(start, r.size, r.len, r.burst, i)
<1>1. \A i \in Nat : At(i) \in Int
  <2>1. r.size \in 0..2
    BY DEF LegalBurst
  <2>2. QED
    BY <2>1, BeatAddrType
<1>2. \A n \in 1..k : (j + n) - 1 \in Nat
  OBVIOUS
<1> HIDE DEF At
<1>3. [n \in 1..k |-> At((j + n) - 1)] \in [1..k -> Int]
  BY <1>1, <1>2
<1>4. BeatsOf(start, r, j, k) \in [1..k -> Int]
  BY <1>3 DEF BeatsOf, At
<1>5. QED
  BY <1>4, SeqDef

\* What is left of a burst are the beats from here to its end.
LEMMA ProgressForm ==
  ASSUME NEW b \in Buffers, NEW start \in Int, BurstAt(b, start)
  PROVE  /\ BeatsOf(start, b, (b.len - b.beat) + 1, b.beat) \in Seq(Int)
         /\ Progress(b) = [write |-> b.write, id |-> b.id,
                           left |-> BeatsOf(start, b, (b.len - b.beat) + 1, b.beat)]
         /\ NextAddr(b.addr, b.size, b.len, b.burst)
              = BeatAddr(start, b.size, b.len, b.burst, (b.len - b.beat) + 1)
<1> DEFINE j == b.len - b.beat
           k == b.beat
           At(i) == BeatAddr(start, b.size, b.len, b.burst, i)
<1>1. /\ b.len \in Nat /\ b.size \in Nat /\ b.burst \in Bursts /\ k \in Nat /\ k > 0
      /\ LegalBurst(start, b.size, b.len, b.burst) /\ k <= b.len
      /\ b.addr = At(j)
  BY DEF Buffers, BurstAt
<1>2. j \in Nat /\ j + k <= b.len /\ j \in 0..(b.len - 1)
  BY <1>1
<1> HIDE DEF j, k
<1>3. AddrAfter(b) = [n \in 0..k |-> At(j + n)]
  BY <1>1, <1>2, WalkExact DEF AddrAfter, k
<1>4. b # None
  BY BridgeAssumption
<1>5. [n \in 1..k |-> AddrAfter(b)[n]] = BeatsOf(start, b, j + 1, k)
  <2> SUFFICES ASSUME NEW n \in 1..k
               PROVE  AddrAfter(b)[n] = At(((j + 1) + n) - 1)
    BY DEF BeatsOf
  <2>1. n \in 0..k /\ ((j + 1) + n) - 1 = j + n
    BY <1>1, <1>2
  <2>2. QED
    BY <1>3, <2>1
<1>6. Progress(b) = [write |-> b.write, id |-> b.id, left |-> BeatsOf(start, b, j + 1, k)]
  BY <1>4, <1>5 DEF Progress, k
<1>7. NextAddr(b.addr, b.size, b.len, b.burst) = At(j + 1)
  BY <1>1, <1>2, NextBeat
<1>8. BeatsOf(start, b, j + 1, k) \in Seq(Int)
  <2>1. j + 1 \in Nat /\ (j + 1) + k <= b.len + 1
    BY <1>1, <1>2
  <2>2. QED
    BY <1>1, <2>1, BeatsTypes
<1>9. QED
  BY <1>6, <1>7, <1>8 DEF j, k

\* The burst on offer, as the abstract memory sees it: the beat on offer is the
\* first of those left, and what remains in the buffer are the others.
Shows(left, done) ==
  /\ Head(left) = result.addr /\ (Len(left) = 1 <=> result.last)
  /\ Progress(done) = IF Len(left) = 1 THEN None
                      ELSE [write |-> result.write, id |-> result.id, left |-> Tail(left)]

\* A burst that begins.
LEMMA FirstBeat ==
  ASSUME BridgeTypes, resultValid, buffer = None
  PROVE  /\ arw \in Requests /\ (IF arwWrite THEN arw \in WriteReqs ELSE arw \in ReadReqs)
         /\ result.write = arwWrite /\ result.id = arw.id
         /\ IsBurst(BufferAfterBeat)
         /\ Shows(BeatsOf(arw.addr, arw, 0, arw.len + 1), BufferAfterBeat)
<1> DEFINE left == BeatsOf(arw.addr, arw, 0, arw.len + 1)
           b    == [write |-> arwWrite, id |-> arw.id, addr |-> arw.addr, len |-> arw.len,
                    size |-> arw.size, burst |-> arw.burst, beat |-> arw.len]
<1>1. arw \in Requests /\ (IF arwWrite THEN arw \in WriteReqs ELSE arw \in ReadReqs)
  <2>1. arwValid
    BY DEF resultValid
  <2>2. awQueue # << >> => Head(awQueue) \in WriteReqs
    BY HeadTailProperties DEF BridgeTypes
  <2>3. QED
    BY <2>1, <2>2, ArwTypes DEF BridgeTypes
<1>2. LegalBurst(arw.addr, arw.size, arw.len, arw.burst)
  BY <1>1, LegalRequests
<1>3. /\ arw.addr \in Int /\ arw.len \in Nat /\ arw.id \in Ids /\ arw.size \in Nat
      /\ arw.burst \in Bursts /\ arwWrite \in BOOLEAN
  BY <1>1, ArwTypes DEF Requests
<1>4. /\ result.write = arwWrite /\ result.id = arw.id /\ result.addr = arw.addr
      /\ result.last <=> arw.len = 0
  BY ResultLast DEF result
<1>5. /\ Head(left) = BeatAddr(arw.addr, arw.size, arw.len, arw.burst, 0)
      /\ Len(left) = arw.len + 1
      /\ Tail(left) = BeatsOf(arw.addr, arw, 0 + 1, (arw.len + 1) - 1)
  <2>1. arw.len + 1 \in Nat \ {0} /\ 0 \in Nat
    BY <1>3
  <2>2. QED
    BY <2>1, BeatsSplit
<1>6. BeatAddr(arw.addr, arw.size, arw.len, arw.burst, 0) = arw.addr
  BY DEF BeatAddr
<1>7. CASE arw.len = 0
  <2>1. BufferAfterBeat = None
    BY <1>7 DEF BufferAfterBeat
  <2>2. QED
    BY <1>1, <1>4, <1>5, <1>6, <1>7, <2>1 DEF Shows, Progress, IsBurst
<1>8. CASE arw.len # 0
  <2>1. BufferAfterBeat = b
    BY <1>8 DEF BufferAfterBeat
  <2>2. b \in Buffers
    BY <1>3, <1>8 DEF Buffers
  <2>3. BurstAt(b, arw.addr)
    BY <1>2, <1>3, <1>6 DEF BurstAt
  <2>4. Progress(b) = [write |-> b.write, id |-> b.id,
                       left |-> BeatsOf(arw.addr, b, (b.len - b.beat) + 1, b.beat)]
    BY <1>3, <2>2, <2>3, ProgressForm
  <2>5. BeatsOf(arw.addr, b, (b.len - b.beat) + 1, b.beat) = Tail(left)
    <3>1. b.len - b.beat = 0 /\ b.beat = (arw.len + 1) - 1
      BY <1>3
    <3>2. QED
      BY <1>5, <3>1 DEF BeatsOf
  <2>6. Progress(b) = [write |-> result.write, id |-> result.id, left |-> Tail(left)]
    BY <1>4, <2>4, <2>5
  <2>7. Len(left) # 1
    <3> HIDE DEF left
    <3>1. QED
      BY <1>3, <1>5, <1>8
  <2>8. IsBurst(BufferAfterBeat)
    BY <1>3, <2>1, <2>3 DEF IsBurst
  <2>9. Shows(left, BufferAfterBeat)
    BY <1>4, <1>5, <1>6, <1>8, <2>1, <2>6, <2>7 DEF Shows
  <2>10. QED
    BY <1>1, <1>4, <2>8, <2>9
<1>9. QED
  BY <1>7, <1>8

\* A burst that goes on.
LEMMA NextBeatShown ==
  ASSUME BridgeTypes, IsBurst(buffer), buffer # None
  PROVE  /\ result.write = buffer.write /\ result.id = buffer.id
         /\ IsBurst(BufferAfterBeat)
         /\ \E left \in Seq(Int) :
              /\ Progress(buffer) = [write |-> buffer.write, id |-> buffer.id, left |-> left]
              /\ Shows(left, BufferAfterBeat)
<1>1. PICK start \in Int : BurstAt(buffer, start)
  BY DEF IsBurst
<1> DEFINE j    == (buffer.len - buffer.beat) + 1
           left == BeatsOf(start, buffer, j, buffer.beat)
           b    == [buffer EXCEPT !.beat = @ - 1, !.addr = result.addr]
<1>2. /\ buffer \in Buffers /\ buffer.beat \in Nat \ {0} /\ buffer.len \in Nat
      /\ buffer.beat <= buffer.len /\ j \in Nat
  <2>1. buffer \in Buffers /\ buffer.beat \in Nat \ {0} /\ buffer.len \in Nat
    BY DEF BridgeTypes, Buffers
  <2>2. QED
    BY <1>1, <2>1 DEF BurstAt
<1>3. /\ left \in Seq(Int)
      /\ Progress(buffer) = [write |-> buffer.write, id |-> buffer.id, left |-> left]
      /\ NextAddr(buffer.addr, buffer.size, buffer.len, buffer.burst)
           = BeatAddr(start, buffer.size, buffer.len, buffer.burst, j)
  BY <1>1, <1>2, ProgressForm
<1>4. /\ result.write = buffer.write /\ result.id = buffer.id
      /\ result.addr = BeatAddr(start, buffer.size, buffer.len, buffer.burst, j)
      /\ result.last <=> buffer.beat = 1
  BY <1>3, ResultLast DEF result
<1>5. /\ Head(left) = BeatAddr(start, buffer.size, buffer.len, buffer.burst, j)
      /\ Len(left) = buffer.beat
      /\ Tail(left) = BeatsOf(start, buffer, j + 1, buffer.beat - 1)
  <2>1. j \in Nat /\ buffer.beat \in Nat \ {0}
    BY <1>2
  <2> HIDE DEF j
  <2>2. QED
    BY <2>1, BeatsSplit, Zenon
<1>6. CASE buffer.beat = 1
  <2>1. BufferAfterBeat = None
    BY <1>6 DEF BufferAfterBeat
  <2>2. Shows(left, BufferAfterBeat)
    BY <1>4, <1>5, <1>6, <2>1 DEF Shows, Progress
  <2>3. QED
    BY <1>3, <1>4, <2>1, <2>2 DEF IsBurst
<1>7. CASE buffer.beat # 1
  <2>1. BufferAfterBeat = b
    BY <1>7 DEF BufferAfterBeat
  <2>2. /\ b \in Buffers /\ b.write = buffer.write /\ b.id = buffer.id /\ b.size = buffer.size
        /\ b.len = buffer.len /\ b.burst = buffer.burst /\ b.beat = buffer.beat - 1
        /\ b.addr = result.addr
    <3>1. result.addr \in Int
      BY BufferTypes DEF resultValid
    <3>2. buffer.beat - 1 \in Nat \ {0}
      BY <1>2, <1>7
    <3>3. QED
      BY <1>2, <3>1, <3>2 DEF Buffers
  <2> HIDE DEF b
  <2>3. b.len - b.beat = j /\ b.beat <= b.len /\ (b.len - b.beat) + 1 = j + 1
    BY <1>2, <2>2
  <2>4. BurstAt(b, start)
    BY <1>1, <1>4, <2>2, <2>3 DEF BurstAt
  <2>5. Progress(b) = [write |-> b.write, id |-> b.id, left |-> BeatsOf(start, b, j + 1, b.beat)]
    BY <2>2, <2>3, <2>4, ProgressForm
  <2>6. BeatsOf(start, b, j + 1, b.beat) = Tail(left)
    BY <1>5, <2>2 DEF BeatsOf
  <2>7. Shows(left, BufferAfterBeat)
    BY <1>2, <1>4, <1>5, <1>7, <2>1, <2>2, <2>5, <2>6 DEF Shows
  <2>8. IsBurst(BufferAfterBeat)
    BY <2>1, <2>4 DEF IsBurst
  <2>9. QED
    BY <1>3, <1>4, <2>7, <2>8
<1>8. QED
  BY <1>6, <1>7

(***************************************************************************)
(* The bridge is a memory that serves bursts one by one.                   *)
(***************************************************************************)
\* A memory after a write.
Put(m, a, v) == IF v = None THEN m ELSE [m EXCEPT ![a] = v]

\* Writing a word twice is writing it once.
LEMMA PutTwice ==
  ASSUME NEW m, NEW a, NEW v
  PROVE  Put(Put(m, a, v), a, v) = Put(m, a, v)
<1>1. CASE v = None
  BY <1>1 DEF Put
<1>2. CASE v # None
  <2> DEFINE n == [m EXCEPT ![a] = v]
  <2>1. Put(m, a, v) = n /\ Put(n, a, v) = [n EXCEPT ![a] = v]
    BY <1>2 DEF Put
  <2>2. [n EXCEPT ![a] = v] = n
    OBVIOUS
  <2>3. QED
    BY <2>1, <2>2
<1>3. QED
  BY <1>1, <1>2

\* A beat that was stored and not taken is a write that is still on offer, and
\* the memory holds it: to write it again changes nothing.
StoredInv ==
  stored => /\ cmdValid /\ result.write
            /\ mem = Put(mem, result.addr \div 4, Head(wQueue).data)

MemoryInv == DataInv /\ IsBurst(buffer) /\ StoredInv

\* The word on offer is one the master sent.
LEMMA DataOffered ==
  ASSUME DataInv, resultValid, result.write
  PROVE  wQueue # << >> /\ wQueue \in Seq(WBeats) /\ Head(wQueue).data \in Values
<1>1. BridgeTypes /\ wQueue \in Seq(WBeats) /\ Owes(wQueue, AllDebts)
  BY DEF DataInv
<1>2. PICK d \in Debts, rest \in Seq(Debts) :
        AllDebts = Joined(<<d>>, rest) /\ d.id = result.id /\ (result.last <=> d.beats = 1)
  BY <1>1, FirstDebt
<1>3. wQueue # << >>
  BY <1>1, <1>2, OwesSent
<1>4. Head(wQueue) \in WBeats
  BY <1>1, <1>3, HeadTailProperties
<1>5. QED
  BY <1>1, <1>3, <1>4 DEF WBeats

\* The master does not withdraw what it offers.
LEMMA MasterKeeps ==
  ASSUME DataInv, NEW ready \in BOOLEAN, NEW bReady \in BOOLEAN, NEW rest,
         Cycle(ready, bReady, rest)
  PROVE  LET taken == cmdValid /\ ready
         IN  /\ ~(arwTaken(taken, bReady) /\ ~arwWrite) /\ ar # None => ar' = ar
             /\ ~(arwTaken(taken, bReady) /\ arwWrite) /\ awValid =>
                  awValid' /\ Head(awQueue') = Head(awQueue)
             /\ ~(beatTaken(taken, bReady) /\ result.write) /\ wQueue # << >> =>
                  Head(wQueue') = Head(wQueue) /\ (wValid => wValid')
<1> DEFINE taken   == cmdValid /\ ready
           arTaken == arwTaken(taken, bReady) /\ ~arwWrite
           awTaken == arwTaken(taken, bReady) /\ arwWrite
           gone    == beatTaken(taken, bReady) /\ result.write
<1>1. /\ IssueRead(arTaken, rest)
      /\ IssueWrite(awTaken, gone, bReady /\ writeRsp # None)
  BY DEF Cycle
<1> HIDE DEF taken, arTaken, awTaken, gone
<1>2. ~arTaken /\ ar # None => ar' = ar
  BY <1>1 DEF IssueRead
<1>3. BridgeTypes /\ wQueue \in Seq(WBeats)
  BY DEF DataInv
<1>4. ~awTaken /\ awValid => awValid' /\ Head(awQueue') = Head(awQueue)
  <2> SUFFICES ASSUME ~awTaken, awValid
               PROVE  awValid' /\ Head(awQueue') = Head(awQueue)
    OBVIOUS
  <2>1. awQueue \in Seq(WriteReqs) /\ awQueue # << >>
    BY <1>3 DEF BridgeTypes
  <2>2. awQueue' = awQueue \/ \E req \in WriteReqs : awQueue' = Append(awQueue, req)
    BY <1>1 DEF IssueWrite, Drop
  <2>3. awValid'
    BY <1>1 DEF IssueWrite, Offer
  <2>4. ASSUME NEW req \in WriteReqs
        PROVE  Head(Append(awQueue, req)) = Head(awQueue)
    BY <2>1, AppendProperties, EmptySeq, LenProperties
  <2>5. QED
    BY <2>2, <2>3, <2>4
<1>5. ~gone /\ wQueue # << >> => Head(wQueue') = Head(wQueue) /\ (wValid => wValid')
  <2> SUFFICES ASSUME ~gone, wQueue # << >>
               PROVE  Head(wQueue') = Head(wQueue) /\ (wValid => wValid')
    OBVIOUS
  <2>1. \/ wQueue' = wQueue
        \/ \E req \in WriteReqs : \E data \in [1..(req.len + 1) -> Values] :
             wQueue' = wQueue \o WriteBeats(req, data)
    BY <1>1 DEF IssueWrite, Drop
  <2>2. wValid => wValid'
    BY <1>1 DEF IssueWrite, Offer
  <2>3. ASSUME NEW req \in WriteReqs, NEW data \in [1..(req.len + 1) -> Values]
        PROVE  Head(wQueue \o WriteBeats(req, data)) = Head(wQueue)
    <3>1. WriteBeats(req, data) \in Seq(WBeats)
      BY WriteBeatsTypes
    <3>2. QED
      BY <1>3, <3>1, TailOfConcat
  <2>4. QED
    BY <2>1, <2>2, <2>3
<1>6. QED
  BY <1>2, <1>4, <1>5 DEF taken, arTaken, awTaken, gone

\* A beat that is offered and not taken is offered again: the arbiter keeps its
\* choice, the buffer its burst and the master its request.
LEMMA OfferStays ==
  ASSUME DataInv, NEW ready \in BOOLEAN, NEW bReady \in BOOLEAN, NEW rest,
         Cycle(ready, bReady, rest), cmdValid, ~beatTaken(cmdValid /\ ready, bReady)
  PROVE  /\ cmdValid' /\ result' = result /\ BufferAfterBeat' = BufferAfterBeat
         /\ result.write => Head(wQueue') = Head(wQueue)
<1> DEFINE taken == cmdValid /\ ready
<1>1. BridgeTypes /\ resultValid
  BY DEF DataInv, cmdValid
<1>2. buffer' = buffer /\ ~arwTaken(taken, bReady)
  BY DEF Cycle, Unburstify, arwTaken
<1>3. result.write => Head(wQueue') = Head(wQueue) /\ (wValid => wValid')
  BY <1>1, DataOffered, MasterKeeps
<1>4. resultValid' /\ result' = result /\ BufferAfterBeat' = BufferAfterBeat
  <2>1. CASE buffer # None
    <3>1. resultValid' /\ result' = result
      BY <1>2, <2>1 DEF resultValid, result
    <3>2. QED
      BY <1>2, <2>1, <3>1 DEF BufferAfterBeat
  <2>2. CASE buffer = None
    <3>1. arwValid /\ Arbiter!OutputValid(valids)
      BY <1>1, <2>2 DEF resultValid, arwValid
    <3>2. maskLocked' = Arbiter!maskRouted(valids) /\ locked'
      BY <1>2, <3>1 DEF Cycle, Arbiter!ArbiterClock
    <3>3. /\ arwWrite <=> Arbiter!maskRouted(valids) = 1
          /\ arwWrite' <=> maskLocked' = 1
          /\ (arwValid)' <=> valids'[maskLocked']
      BY <3>2 DEF arwWrite, arwValid, Arbiter!OutputValid, Arbiter!maskRouted
    <3>4. arwWrite' = arwWrite
      BY <3>2, <3>3 DEF arwWrite
    <3>5. /\ arwWrite => awQueue # << >> /\ awValid /\ arw = Head(awQueue)
          /\ ~arwWrite => ar # None /\ arw = ar
      BY <1>1, <3>1, ArwTypes
    <3>6. /\ ar # None => ar' = ar
          /\ awValid => awValid' /\ Head(awQueue') = Head(awQueue)
      BY <1>2, MasterKeeps
    <3>7. arw' = arw
      BY <3>4, <3>5, <3>6 DEF arw
    <3>8. arwValid'
      <4>1. Arbiter!maskRouted(valids) \in {0, 1}
        BY <1>1, ArwTypes
      <4>2. valids'[0] = (ar' # None) /\ valids'[1] = awValid'
        BY DEF valids, arValid
      <4>3. QED
        BY <3>2, <3>3, <3>5, <3>6, <4>1, <4>2
    <3>9. result' = result
      BY <1>2, <2>2, <3>4, <3>7 DEF result
    <3>10. BufferAfterBeat' = BufferAfterBeat
      BY <1>2, <2>2, <3>4, <3>7 DEF BufferAfterBeat
    <3>11. QED
      BY <3>8, <3>9, <3>10 DEF resultValid
  <2>3. QED
    BY <2>1, <2>2
<1>5. cmdValid'
  BY <1>3, <1>4 DEF cmdValid
<1>6. QED
  BY <1>3, <1>4, <1>5

\* What a cycle does to the memory and to the reads in flight.
LEMMA PortStep ==
  ASSUME NEW ready \in BOOLEAN, NEW bReady \in BOOLEAN, NEW rest, Cycle(ready, bReady, rest)
  PROVE  LET taken == cmdValid /\ ready
             word  == result.addr \div 4
         IN  /\ taken /\ result.write => /\ mem' = Put(mem, word, Head(wQueue).data)
                                         /\ outstanding' = rest
             /\ ~taken => mem' = mem /\ outstanding' = rest
BY DEF Cycle, PortCommand, Port!Write, Port!NoCommand, Put

\* A cycle keeps the invariant.
LEMMA MemoryCycle ==
  ASSUME MemoryInv, DataInv', NEW ready \in BOOLEAN, NEW bReady \in BOOLEAN, NEW rest,
         Cycle(ready, bReady, rest)
  PROVE  MemoryInv'
<1> DEFINE taken == cmdValid /\ ready
           gone  == beatTaken(taken, bReady)
           word  == result.addr \div 4
           data  == Head(wQueue).data
<1>1. DataInv /\ BridgeTypes /\ IsBurst(buffer) /\ StoredInv
  BY DEF MemoryInv, DataInv
<1>2. IsBurst(buffer)'
  <2>1. buffer' = IF gone THEN BufferAfterBeat ELSE buffer
    BY DEF Cycle, Unburstify
  <2>2. gone => resultValid
    BY DEF beatTaken, cmdValid
  <2>3. gone => IsBurst(BufferAfterBeat)
    BY <1>1, <2>2, FirstBeat, NextBeatShown
  <2>4. IsBurst(buffer')
    BY <1>1, <2>1, <2>3
  <2>5. QED
    BY <2>4 DEF IsBurst, BurstAt
<1>3. StoredInv'
  <2> SUFFICES ASSUME stored'
               PROVE  cmdValid' /\ result'.write
                      /\ mem' = Put(mem', result'.addr \div 4, Head(wQueue').data)
    BY DEF StoredInv, Put
  <2>1. (taken \/ stored) /\ ~gone
    BY DEF Cycle
  <2>2. cmdValid /\ result.write
    BY <1>1, <2>1 DEF StoredInv, beatTaken
  <2>3. cmdValid' /\ result' = result /\ Head(wQueue') = Head(wQueue)
    BY <1>1, <2>1, <2>2, OfferStays
  <2>4. mem' = Put(mem, word, data)
    <3>1. taken => mem' = Put(mem, word, data)
      BY <2>2, PortStep
    <3>2. ~taken => mem' = mem
      BY PortStep
    <3>3. stored => mem = Put(mem, word, data)
      BY <1>1 DEF StoredInv
    <3>4. QED
      BY <2>1, <3>1, <3>2, <3>3
  <2>5. mem' = Put(mem', word, data)
    BY <2>4, PutTwice
  <2>6. QED
    BY <2>2, <2>3, <2>5
<1>4. QED
  BY <1>2, <1>3 DEF MemoryInv

\* The burst as the abstract memory sees it.
Current == Progress(IF stored THEN BufferAfterBeat ELSE buffer)

\* From one cycle to the next it loses the beat that is stored, and no other.
LEMMA CurrentStep ==
  ASSUME MemoryInv, NEW ready \in BOOLEAN, NEW bReady \in BOOLEAN, NEW rest,
         Cycle(ready, bReady, rest)
  PROVE  Current' = IF stored \/ (cmdValid /\ ready) THEN Progress(BufferAfterBeat)
                    ELSE Progress(buffer)
<1> DEFINE taken == cmdValid /\ ready
           gone  == beatTaken(taken, bReady)
<1>1. /\ buffer' = IF gone THEN BufferAfterBeat ELSE buffer
      /\ stored' <=> (taken \/ stored) /\ ~gone
  BY DEF Cycle, Unburstify
<1>2. /\ stored' => Current' = Progress(BufferAfterBeat')
      /\ ~stored' => Current' = Progress(buffer')
  BY DEF Current, Progress, AddrAfter
<1>3. gone => taken
  BY DEF beatTaken
<1>4. CASE gone
  BY <1>1, <1>2, <1>3, <1>4
<1>5. CASE ~gone /\ (taken \/ stored)
  <2>1. cmdValid /\ DataInv
    BY <1>5 DEF MemoryInv, StoredInv
  <2>2. BufferAfterBeat' = BufferAfterBeat
    BY <1>5, <2>1, OfferStays
  <2>3. QED
    BY <1>1, <1>2, <1>5, <2>2
<1>6. CASE ~gone /\ ~taken /\ ~stored
  BY <1>1, <1>2, <1>6
<1>7. QED
  BY <1>4, <1>5, <1>6

\* A cycle in which nothing new is stored is one in which the memory waits.
LEMMA NothingStored ==
  ASSUME MemoryInv, NEW ready \in BOOLEAN, NEW bReady \in BOOLEAN, NEW rest,
         Cycle(ready, bReady, rest), stored \/ ~(cmdValid /\ ready)
  PROVE  Abstract!Wait(rest)
<1> DEFINE taken == cmdValid /\ ready
<1>1. Current' = Current
  BY CurrentStep DEF Current
<1>2. mem' = mem /\ outstanding' = rest
  <2>1. CASE taken
    <3>1. StoredInv /\ stored
      BY <2>1 DEF MemoryInv
    <3>2. QED
      BY <2>1, <3>1, PortStep DEF StoredInv
  <2>2. CASE ~taken
    BY <2>2, PortStep
  <2>3. QED
    BY <2>1, <2>2
<1>3. QED
  BY <1>1, <1>2 DEF Abstract!Wait, Abstract!Memory!NoCommand, Current

\* A beat that is stored is one that the memory serves.
LEMMA BeatServed ==
  ASSUME MemoryInv, NEW ready \in BOOLEAN, NEW bReady \in BOOLEAN, NEW rest,
         Cycle(ready, bReady, rest), ~stored, cmdValid /\ ready,
         NEW left, Shows(left, BufferAfterBeat)
  PROVE  Abstract!Serve(result.write, result.id, left, rest)
<1>1. Current' = Progress(BufferAfterBeat)
  BY CurrentStep
<1>2. Current' = IF Len(left) = 1 THEN None
                 ELSE [write |-> result.write, id |-> result.id, left |-> Tail(left)]
  BY <1>1 DEF Shows
<1> DEFINE word == Head(left) \div 4
           last == Len(left) = 1
<1>3. word = result.addr \div 4 /\ (last <=> result.last) /\ last \in BOOLEAN
  BY DEF Shows
<1>4. last = result.last
  BY <1>3, ResultLast
<1>5. CASE result.write
  <2>1. Port!Write(result.addr \div 4, Head(wQueue).data, rest)
    BY <1>5 DEF Cycle, PortCommand
  <2>2. Abstract!Memory!Write(word, Head(wQueue).data, rest)
    BY <1>3, <2>1 DEF Port!Write, Abstract!Memory!Write
  <2>3. Head(wQueue).data \in Values
    BY <1>5, DataOffered DEF MemoryInv, cmdValid
  <2>4. QED
    BY <1>2, <1>5, <2>2, <2>3 DEF Abstract!Serve, Current
<1>6. CASE ~result.write
  <2>1. Port!Read(result.addr \div 4, [id |-> result.id, last |-> result.last], rest)
    BY <1>6 DEF Cycle, PortCommand
  <2>2. Abstract!Memory!Read(word, [id |-> result.id, last |-> last], rest)
    BY <1>3, <1>4, <2>1 DEF Port!Read, Abstract!Memory!Read
  <2>3. QED
    BY <1>2, <1>6, <2>2 DEF Abstract!Serve, Current
<1>7. QED
  BY <1>5, <1>6

\* Where the abstract memory looks for the beats of a request.
LEMMA TargetsForm ==
  ASSUME NEW req \in Requests
  PROVE  Abstract!Targets(req) = BeatsOf(req.addr, req, 0, req.len + 1)
<1>1. \A n \in 1..(req.len + 1) :
        Abstract!BeatAddr(req.addr, req.size, req.len, req.burst, n - 1)
          = BeatAddr(req.addr, req.size, req.len, req.burst, (0 + n) - 1)
  <2> TAKE n \in 1..(req.len + 1)
  <2>1. (0 + n) - 1 = n - 1
    BY DEF Requests
  <2>2. QED
    BY <2>1 DEF Abstract!BeatAddr, BeatAddr, Abstract!BeatBytes, BeatBytes,
                Abstract!FIXED, FIXED, Abstract!INCR, INCR
<1>2. QED
  BY <1>1 DEF Abstract!Targets, BeatsOf

\* Every cycle is a step of the abstract memory.
LEMMA CycleRefines ==
  ASSUME MemoryInv, NEW ready \in BOOLEAN, NEW bReady \in BOOLEAN,
         NEW rest \in Port!Returned(outstanding), Cycle(ready, bReady, rest)
  PROVE  Abstract!AxiNext
<1>1. rest \in Abstract!Memory!Returned(outstanding)
  BY DEF Port!Returned, Abstract!Memory!Returned
<1>2. CASE stored \/ ~(cmdValid /\ ready)
  BY <1>1, <1>2, NothingStored DEF Abstract!AxiNext
<1>3. CASE ~stored /\ cmdValid /\ ready
  <2>1. BridgeTypes /\ IsBurst(buffer) /\ resultValid
    BY <1>3 DEF MemoryInv, DataInv, cmdValid
  <2>2. Current = Progress(buffer)
    BY <1>3 DEF Current
  <2>3. CASE buffer = None
    <3>1. Current = None
      BY <2>2, <2>3 DEF Progress
    <3>2. /\ arw \in Requests /\ (IF arwWrite THEN arw \in WriteReqs ELSE arw \in ReadReqs)
          /\ result.write = arwWrite /\ result.id = arw.id
          /\ Shows(BeatsOf(arw.addr, arw, 0, arw.len + 1), BufferAfterBeat)
      BY <2>1, <2>3, FirstBeat
    <3>3. Abstract!Serve(arwWrite, arw.id, Abstract!Targets(arw), rest)
      BY <1>3, <3>2, BeatServed, TargetsForm
    <3>4. Abstract!Begin(arwWrite, arw, rest)
      BY <3>1, <3>3 DEF Abstract!Begin, Current
    <3>5. arwWrite \in BOOLEAN
      BY <2>1, ArwTypes
    <3>6. QED
      BY <1>1, <3>2, <3>4, <3>5 DEF Abstract!AxiNext
  <2>4. CASE buffer # None
    <3>1. PICK left \in Seq(Int) :
            /\ Progress(buffer) = [write |-> buffer.write, id |-> buffer.id, left |-> left]
            /\ Shows(left, BufferAfterBeat)
      BY <2>1, <2>4, NextBeatShown
    <3>2. result.write = buffer.write /\ result.id = buffer.id
      BY <2>1, <2>4, NextBeatShown
    <3>3. Abstract!Serve(buffer.write, buffer.id, left, rest)
      BY <1>3, <3>1, <3>2, BeatServed
    <3>4. Current # None
      <4>1. buffer \in Buffers
        BY <2>1, <2>4 DEF BridgeTypes
      <4>2. Current \in Unserved
        BY <2>2, <3>1, <4>1 DEF Unserved, Buffers
      <4>3. QED
        BY <4>2, BridgeAssumption
    <3>5. Abstract!Continue(rest)
      BY <2>2, <3>1, <3>3, <3>4 DEF Abstract!Continue, Current
    <3>6. QED
      BY <1>1, <3>5 DEF Abstract!AxiNext
  <2>5. QED
    BY <2>3, <2>4
<1>4. QED
  BY <1>2, <1>3

\* At reset the memory has stored nothing.
LEMMA MemoryStart ==
  Init => MemoryInv /\ Abstract!AxiInit
<1> SUFFICES ASSUME Init
             PROVE  MemoryInv /\ Abstract!AxiInit
  OBVIOUS
<1>1. buffer = None /\ stored = FALSE /\ Port!PortInit
  BY DEF Init
<1>2. MemoryInv
  BY <1>1, DataInit DEF MemoryInv, IsBurst, StoredInv
<1>3. Abstract!Memory!PortInit
  BY <1>1 DEF Port!PortInit, Abstract!Memory!PortInit
<1>4. Abstract!AxiInit
  BY <1>1, <1>3 DEF Abstract!AxiInit, Progress
<1>5. QED
  BY <1>2, <1>4

\* A step keeps the invariant.
LEMMA MemoryStep ==
  MemoryInv /\ [Next]_vars => MemoryInv'
<1> SUFFICES ASSUME MemoryInv, [Next]_vars
             PROVE  MemoryInv'
  OBVIOUS
<1>1. DataInv'
  BY DataStep DEF MemoryInv
<1>2. CASE Next
  <2>1. PICK ready \in ReadyFor(cmdValid), bReady \in ReadyFor(writeRsp # None),
             rest \in Port!Returned(outstanding) : Cycle(ready, bReady, rest)
    BY <1>2 DEF Next
  <2>2. ready \in BOOLEAN /\ bReady \in BOOLEAN
    BY DEF ReadyFor
  <2>3. QED
    BY <1>1, <2>1, <2>2, MemoryCycle
<1>3. CASE UNCHANGED vars
  <2>1. UNCHANGED <<locked, maskLocked, buffer, writeRsp, ar, awQueue, awValid, wQueue, wValid,
                    mem, stored>>
    BY <1>3 DEF vars, bridgeVars, masterVars
  <2>2. IsBurst(buffer)'
    BY <2>1 DEF MemoryInv, IsBurst, BurstAt
  <2>3. arwWrite' = arwWrite /\ arw' = arw /\ arwValid' = arwValid
    BY <2>1 DEF arwWrite, arw, arwValid, valids, arValid, Arbiter!OutputValid,
                Arbiter!maskRouted, Arbiter!maskProposal
  <2>4. result' = result /\ resultValid' = resultValid
    BY <2>1, <2>3 DEF result, resultValid
  <2>5. StoredInv'
    BY <2>1, <2>4 DEF MemoryInv, StoredInv, cmdValid, Put
  <2>6. QED
    BY <1>1, <2>2, <2>5 DEF MemoryInv
<1>4. QED
  BY <1>2, <1>3

\* AxiSdramCtrl above its controller is a memory that serves bursts one by one,
\* at the addresses AXI gives to their beats: every cycle performs one beat, once,
\* or none.  In particular the write that is stored again in each cycle in which
\* bridge_writeRsp_m2sPipe has no room does not show.
THEOREM BridgeIsMemory == Spec => ImplementsAxiMemory
<1>1. MemoryInv /\ [Next]_vars => [Abstract!AxiNext]_(Abstract!axiVars)
  <2> SUFFICES ASSUME MemoryInv, [Next]_vars
               PROVE  [Abstract!AxiNext]_(Abstract!axiVars)
    OBVIOUS
  <2>1. CASE Next
    <3>1. PICK ready \in ReadyFor(cmdValid), bReady \in ReadyFor(writeRsp # None),
               rest \in Port!Returned(outstanding) : Cycle(ready, bReady, rest)
      BY <2>1 DEF Next
    <3>2. ready \in BOOLEAN /\ bReady \in BOOLEAN
      BY DEF ReadyFor
    <3>3. QED
      BY <3>1, <3>2, CycleRefines
  <2>2. CASE UNCHANGED vars
    <3>1. UNCHANGED <<locked, maskLocked, buffer, ar, awQueue, awValid, mem, outstanding, stored>>
      BY <2>2 DEF vars, bridgeVars, masterVars
    <3>2. arwWrite' = arwWrite /\ arw' = arw
      BY <3>1 DEF arwWrite, arw, valids, arValid, Arbiter!maskRouted, Arbiter!maskProposal
    <3>3. result' = result
      BY <3>1, <3>2 DEF result
    <3>4. BufferAfterBeat' = BufferAfterBeat
      BY <3>1, <3>2, <3>3 DEF BufferAfterBeat
    <3>5. Current' = Current
      BY <3>1, <3>4 DEF Current, Progress, AddrAfter
    <3>6. QED
      BY <3>1, <3>5 DEF Abstract!axiVars, Current
  <2>3. QED
    BY <2>1, <2>2
<1>2. QED
  BY <1>1, MemoryStart, MemoryStep, PTL DEF Spec, ImplementsAxiMemory, Abstract!AxiSpec

\* The circuit that steps an address goes where AXI says, for every legal burst:
\* any start, any size of a beat the bus can carry, any length, any kind.
THEOREM BeatsAlwaysWhereAxiSays == Spec => []BeatWhereAxiSays
<1>1. BeatWhereAxiSays
  <2> SUFFICES ASSUME NEW start \in Starts, NEW size \in 0..2, NEW len \in Lens,
                      NEW burst \in Bursts, LegalBurst(start, size, len, burst)
               PROVE  Walk(start, size, len, burst, len)
                        = [n \in 0..len |-> BeatAddr(start, size, len, burst, n)]
    BY DEF BeatWhereAxiSays
  <2>1. start \in Int /\ len \in Nat /\ size \in Nat /\ 0 + len <= len
    BY BridgeAssumption
  <2>2. BeatAddr(start, size, len, burst, 0) = start
    BY DEF BeatAddr
  <2>3. Walk(start, size, len, burst, len)
          = [n \in 0..len |-> BeatAddr(start, size, len, burst, 0 + n)]
    BY <2>1, <2>2, WalkExact
  <2>4. \A n \in 0..len : 0 + n = n
    BY <2>1
  <2>5. QED
    BY <2>3, <2>4
<1>2. QED
  BY <1>1, PTL
=============================================================================
