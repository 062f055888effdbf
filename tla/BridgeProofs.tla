---------------------------- MODULE BridgeProofs ----------------------------
(***************************************************************************)
(* The bridge between AXI and the SDRAM controller keeps its books, for    *)
(* any page size, any set of requests and ids, any number of reads in      *)
(* flight and of writes waiting: no read beat is lost, added or out of     *)
(* order, the last flag is where the burst ends, and every write burst has *)
(* exactly one response to come.                                           *)
(***************************************************************************)
EXTENDS AxiSdramBridge, SequenceFacts, FiniteSetTheorems, FunctionTheorems

(***************************************************************************)
(* Types.                                                                  *)
(***************************************************************************)
\* The bridge, the arbiter and the requests of the master have values of their
\* types; a valid has something to show.
BridgeTypes ==
  /\ locked \in BOOLEAN /\ maskLocked \in {0, 1}
  /\ buffer \in Buffers \cup {None}
  /\ writeRsp \in Ids \cup {None}
  /\ ar \in ReadReqs \cup {None}
  /\ awQueue \in Seq(WriteReqs) /\ awValid \in BOOLEAN /\ (awValid => awQueue # << >>)

\* The circuit that steps an address yields a number.
LEMMA NextAddrType ==
  ASSUME NEW addr \in Int, NEW size \in Nat, NEW len \in Nat, NEW burst \in Bursts
  PROVE  NextAddr(addr, size, len, burst) \in Int
<1>1. PageSize \in Nat /\ PageSize > 0
  BY PageAssumption
<1>2. validSize(size) \in 0..3 /\ lenCase(len) \in 0..3
  BY DEF validSize, lenCase
<1>3. sizeValue(size) \in Int
  BY <1>2 DEF sizeValue
<1>4. align(size) \in {1, 2, 4}
  BY DEF align
<1>5. wrapCase(size, len) \in 0..6
  BY <1>2 DEF wrapCase
<1>6. wrapWindow(size, len) \in {2, 4, 8, 16, 32, 64}
  <2>1. 2 ^ 1 = 2 /\ 2 ^ 2 = 4 /\ 2 ^ 3 = 8 /\ 2 ^ 4 = 16 /\ 2 ^ 5 = 32 /\ 2 ^ 6 = 64
    OBVIOUS
  <2>2. (IF wrapCase(size, len) < 5 THEN wrapCase(size, len) + 1 ELSE 6) \in {1, 2, 3, 4, 5, 6}
    BY <1>5
  <2>3. QED
    BY <2>1, <2>2 DEF wrapWindow
<1>7. base(addr, size) \in Int
  BY <1>1, <1>4 DEF base
<1>8. baseIncr(addr, size) \in Int
  BY <1>1, <1>3, <1>7 DEF baseIncr
<1>9. QED
  BY <1>1, <1>6, <1>7, <1>8 DEF NextAddr

\* What the arbiter lets through is a request of the master's.
LEMMA ArwTypes ==
  ASSUME BridgeTypes
  PROVE  /\ Arbiter!maskRouted(valids) \in {0, 1} /\ arwWrite \in BOOLEAN
         /\ arwValid => /\ arw \in Requests
                        /\ arwWrite => awQueue # << >> /\ awValid /\ arw = Head(awQueue)
                        /\ ~arwWrite => ar # None /\ arw = ar
<1>1. Arbiter!maskRouted(valids) \in {0, 1}
  BY DEF BridgeTypes, Arbiter!maskRouted, Arbiter!maskProposal
<1>2. arwValid => valids[Arbiter!maskRouted(valids)]
  BY DEF arwValid, Arbiter!OutputValid
<1>3. (valids[0] <=> arValid) /\ (valids[1] <=> awValid)
  <2>1. /\ 0 \in {0, 1} /\ 1 \in {0, 1} /\ 1 # 0
    OBVIOUS
  <2>2. valids[0] = (IF 0 = 0 THEN arValid ELSE awValid)
    BY <2>1, Zenon DEF valids
  <2>3. valids[1] = (IF 1 = 0 THEN arValid ELSE awValid)
    BY <2>1, Zenon DEF valids
  <2>4. QED
    BY <2>1, <2>2, <2>3, Zenon
<1>4. CASE Arbiter!maskRouted(valids) = 1
  <2>1. arwWrite /\ arw = Head(awQueue) /\ (arwValid => awValid)
    BY <1>2, <1>3, <1>4 DEF arwWrite, arw
  <2>2. awValid => awQueue # << >> /\ Head(awQueue) \in WriteReqs
    BY HeadTailProperties DEF BridgeTypes
  <2>3. QED
    BY <1>1, <2>1, <2>2, BridgeAssumption DEF arwWrite
<1>5. CASE Arbiter!maskRouted(valids) = 0
  <2>1. ~arwWrite /\ arw = ar /\ (arwValid => ar # None)
    BY <1>2, <1>3, <1>5 DEF arwWrite, arw, arValid
  <2>2. ar # None => ar \in ReadReqs
    BY DEF BridgeTypes
  <2>3. QED
    BY <1>1, <2>1, <2>2, BridgeAssumption DEF arwWrite
<1>6. QED
  BY <1>1, <1>4, <1>5

\* The beat on offer, and what is left when it has been taken.
LEMMA BufferTypes ==
  ASSUME BridgeTypes, resultValid
  PROVE  /\ result.write \in BOOLEAN /\ result.id \in Ids /\ result.addr \in Int
         /\ BufferAfterBeat \in Buffers \cup {None}
<1>1. CASE buffer = None
  <2>1. arw \in Requests /\ arwWrite \in BOOLEAN
    BY <1>1, ArwTypes DEF resultValid
  <2>2. /\ result.write = arwWrite /\ result.id = arw.id /\ result.addr = arw.addr
    BY <1>1 DEF result
  <2>3. BufferAfterBeat \in Buffers \cup {None}
    BY <1>1, <2>1 DEF BufferAfterBeat, Buffers, Requests
  <2>4. QED
    BY <2>1, <2>2, <2>3 DEF Requests
<1>2. CASE buffer # None
  <2>1. buffer \in Buffers
    BY <1>2 DEF BridgeTypes
  <2>2. /\ result.write = buffer.write /\ result.id = buffer.id
        /\ result.addr = NextAddr(buffer.addr, buffer.size, buffer.len, buffer.burst)
    BY <1>2 DEF result
  <2>3. result.addr \in Int
    BY <2>1, <2>2, NextAddrType DEF Buffers
  <2>4. BufferAfterBeat \in Buffers \cup {None}
    <3>1. BufferAfterBeat = IF buffer.beat = 1 THEN None
                            ELSE [buffer EXCEPT !.beat = @ - 1, !.addr = result.addr]
      BY <1>2 DEF BufferAfterBeat
    <3>2. buffer.beat # 1 => buffer.beat - 1 \in Nat \ {0}
      BY <2>1 DEF Buffers
    <3>3. buffer.beat # 1 => [buffer EXCEPT !.beat = @ - 1, !.addr = result.addr] \in Buffers
      BY <2>1, <2>3, <3>2 DEF Buffers
    <3>4. QED
      BY <3>1, <3>3
  <2>5. QED
    BY <2>1, <2>2, <2>3, <2>4 DEF Buffers
<1>3. QED
  BY <1>1, <1>2

\* At reset the types hold.
LEMMA TypesInit ==
  Init => BridgeTypes
<1> SUFFICES ASSUME Init
             PROVE  BridgeTypes
  OBVIOUS
<1>1. << >> \in Seq(WriteReqs)
  BY EmptySeq
<1>2. QED
  BY <1>1 DEF Init, Arbiter!ArbiterInit, BridgeTypes

\* A transaction that is taken was on offer.
LEMMA TakenOffered ==
  ASSUME BridgeTypes, NEW ready \in BOOLEAN, NEW bReady \in BOOLEAN,
         arwTaken(cmdValid /\ ready, bReady)
  PROVE  /\ buffer = None /\ arwValid /\ resultValid
         /\ arwWrite => awQueue # << >> /\ awValid
         /\ ~arwWrite => ar # None
BY ArwTypes DEF arwTaken, beatTaken, cmdValid, resultValid

\* A cycle keeps them.
LEMMA TypesCycle ==
  ASSUME BridgeTypes, NEW ready \in BOOLEAN, NEW bReady \in BOOLEAN, NEW rest,
         Cycle(ready, bReady, rest)
  PROVE  BridgeTypes'
<1> DEFINE taken   == cmdValid /\ ready
           awTaken == arwTaken(taken, bReady) /\ arwWrite
           aws     == Drop(awTaken, awQueue)
<1>1. taken => resultValid
  BY DEF cmdValid
<1>2. buffer' \in Buffers \cup {None}
  <2>1. buffer' = IF beatTaken(taken, bReady) THEN BufferAfterBeat ELSE buffer
    BY DEF Cycle, Unburstify
  <2>2. beatTaken(taken, bReady) => resultValid
    BY <1>1 DEF beatTaken
  <2>3. QED
    BY <2>1, <2>2, BufferTypes DEF BridgeTypes
<1>3. writeRsp' \in Ids \cup {None}
  <2>1. beatTaken(taken, bReady) => result.id \in Ids
    BY <1>1, BufferTypes DEF beatTaken
  <2>2. QED
    BY <2>1 DEF Cycle, WriteResponse, BridgeTypes
<1>4. locked' \in BOOLEAN /\ maskLocked' \in {0, 1}
  <2>1. Arbiter!ArbiterClock(valids, arwTaken(taken, bReady))
    BY DEF Cycle
  <2>2. QED
    BY <2>1, ArwTypes DEF Arbiter!ArbiterClock, Arbiter!arbiterVars, BridgeTypes
<1>5. ar' \in ReadReqs \cup {None}
  BY DEF Cycle, IssueRead, BridgeTypes
<1>6. aws \in Seq(WriteReqs)
  <2>1. awTaken => awQueue # << >>
    BY TakenOffered
  <2>2. QED
    BY <2>1, HeadTailProperties DEF Drop, BridgeTypes
<1>7. /\ awQueue' \in Seq(WriteReqs)
      /\ awValid' \in Offer(awValid, awTaken, awQueue')
      /\ awQueue' = aws \/ awQueue' # << >>
  <2>1. /\ awQueue' = aws \/ \E req \in WriteReqs : awQueue' = Append(aws, req)
        /\ awValid' \in Offer(awValid, awTaken, awQueue')
    BY DEF Cycle, IssueWrite
  <2> HIDE DEF aws
  <2>2. QED
    BY <1>6, <2>1, AppendProperties
<1>8. awValid' \in BOOLEAN /\ (awValid' => awQueue' # << >>)
  <2>1. CASE awValid /\ ~awTaken
    <3>1. aws = awQueue /\ awQueue # << >>
      BY <2>1 DEF Drop, BridgeTypes
    <3>2. QED
      BY <1>7, <2>1, <3>1 DEF Offer
  <2>2. CASE ~(awValid /\ ~awTaken)
    <3>1. awValid' \in IF awQueue' = << >> THEN {FALSE} ELSE BOOLEAN
      BY <1>7, <2>2 DEF Offer
    <3>2. QED
      BY <3>1
  <2>3. QED
    BY <2>1, <2>2
<1>9. QED
  BY <1>2, <1>3, <1>4, <1>5, <1>7, <1>8 DEF BridgeTypes

(***************************************************************************)
(* Beats of a burst, counted down to the last.                             *)
(***************************************************************************)
Countdown(id, k) == [n \in 1..k |-> [id |-> id, last |-> n = k]]

\* A burst of k beats is a sequence of k beats of which the last one is marked.
LEMMA CountdownTypes ==
  ASSUME NEW id \in Ids, NEW k \in Nat
  PROVE  /\ Countdown(id, k) \in Seq(Contexts) /\ Len(Countdown(id, k)) = k
         /\ \A n \in 1..k : Countdown(id, k)[n].id = id /\ (Countdown(id, k)[n].last <=> n = k)
<1>1. Countdown(id, k) \in [1..k -> Contexts]
  BY DEF Countdown, Contexts
<1>2. Countdown(id, k) \in Seq(Contexts)
  BY <1>1, SeqDef
<1>3. Len(Countdown(id, k)) = k
  <2>1. DOMAIN Countdown(id, k) = 1..k
    BY DEF Countdown
  <2>2. QED
    BY <1>2, <2>1, LenProperties
<1>4. ASSUME NEW n \in 1..k
      PROVE  Countdown(id, k)[n].id = id /\ (Countdown(id, k)[n].last <=> n = k)
  <2> DEFINE v == n = k
  <2>1. Countdown(id, k)[n] = [id |-> id, last |-> v]
    BY DEF Countdown
  <2> HIDE DEF v
  <2>2. Countdown(id, k)[n].id = id /\ Countdown(id, k)[n].last = v
    BY <2>1
  <2>3. QED
    BY <2>2 DEF v
<1>5. QED
  BY <1>2, <1>3, <1>4

\* Two beats are the same if they tell the same.
LEMMA ContextsEqual ==
  ASSUME NEW c \in Contexts, NEW d \in Contexts, c.id = d.id, c.last <=> d.last
  PROVE  c = d
BY DEF Contexts

\* The first of several beats is not the last; a single one is.
LEMMA CountdownSplit ==
  ASSUME NEW id \in Ids, NEW k \in Nat \ {0}, NEW c \in Contexts,
         c.id = id, c.last <=> k = 1
  PROVE  Countdown(id, k) = Joined(<<c>>, IF k = 1 THEN << >> ELSE Countdown(id, k - 1))
<1> DEFINE rest  == IF k = 1 THEN << >> ELSE Countdown(id, k - 1)
           whole == Countdown(id, k)
           two   == <<c>> \o rest
<1>1. /\ rest \in Seq(Contexts) /\ Len(rest) = k - 1
      /\ \A n \in 1..(k - 1) : rest[n].id = id /\ (rest[n].last <=> n = k - 1)
  <2>1. CASE k = 1
    BY <2>1
  <2>2. CASE k # 1
    <3>1. k - 1 \in Nat
      OBVIOUS
    <3>2. QED
      BY <2>2, <3>1, CountdownTypes
  <2>3. QED
    BY <2>1, <2>2
<1>2. /\ whole \in Seq(Contexts) /\ Len(whole) = k
      /\ \A n \in 1..k : whole[n].id = id /\ (whole[n].last <=> n = k)
  BY CountdownTypes
<1>3. <<c>> \in Seq(Contexts) /\ Len(<<c>>) = 1 /\ <<c>>[1] = c
  OBVIOUS
<1> HIDE DEF rest, whole
<1>4. /\ two \in Seq(Contexts) /\ Len(two) = k
      /\ \A n \in 1..k : two[n] = IF n <= 1 THEN <<c>>[n] ELSE rest[n - 1]
  <2>1. /\ two \in Seq(Contexts) /\ Len(two) = 1 + (k - 1)
        /\ \A n \in 1..(1 + (k - 1)) : two[n] = IF n <= 1 THEN <<c>>[n] ELSE rest[n - 1]
    BY <1>1, <1>3, ConcatProperties
  <2>2. QED
    BY <2>1
<1> HIDE DEF two
<1>5. ASSUME NEW n \in 1..k
      PROVE  two[n] = whole[n]
  <2>1. two[n] \in Contexts /\ whole[n] \in Contexts
    BY <1>2, <1>4, ElementOfSeq
  <2>2. two[n].id = whole[n].id /\ (two[n].last <=> whole[n].last)
    <3>1. CASE n = 1
      BY <1>2, <1>3, <1>4, <3>1
    <3>2. CASE n # 1
      <4>1. n - 1 \in 1..(k - 1) /\ two[n] = rest[n - 1] /\ (n - 1 = k - 1 <=> n = k)
        BY <1>4, <3>2
      <4>2. QED
        BY <1>1, <1>2, <4>1
    <3>3. QED
      BY <3>1, <3>2
  <2>3. QED
    BY <2>1, <2>2, ContextsEqual
<1>6. two = whole
  BY <1>2, <1>4, <1>5, SeqEqual
<1>7. QED
  BY <1>6 DEF Joined, two, whole, rest

\* Whether the beat on offer is the last of its burst.
LEMMA ResultLast ==
  /\ buffer # None => (result.last <=> buffer.beat = 1) /\ result.last \in BOOLEAN
  /\ buffer = None => (result.last <=> arw.len = 0) /\ result.last \in BOOLEAN
<1>1. ASSUME buffer # None
      PROVE  (result.last <=> buffer.beat = 1) /\ result.last \in BOOLEAN
  <2> DEFINE v == buffer.beat = 1
  <2>1. v \in BOOLEAN
    OBVIOUS
  <2>2. result = [write |-> buffer.write, id |-> buffer.id, last |-> v,
                  addr |-> NextAddr(buffer.addr, buffer.size, buffer.len, buffer.burst)]
    BY <1>1 DEF result
  <2> HIDE DEF v
  <2>3. result.last = v
    BY <2>2
  <2>4. QED
    BY <2>1, <2>3 DEF v
<1>2. ASSUME buffer = None
      PROVE  (result.last <=> arw.len = 0) /\ result.last \in BOOLEAN
  <2> DEFINE v == arw.len = 0
  <2>1. v \in BOOLEAN
    OBVIOUS
  <2>2. result = [write |-> arwWrite, id |-> arw.id, last |-> v, addr |-> arw.addr]
    BY <1>2 DEF result
  <2> HIDE DEF v
  <2>3. result.last = v
    BY <2>2
  <2>4. QED
    BY <2>1, <2>3 DEF v
<1>3. QED
  BY <1>1, <1>2

(***************************************************************************)
(* Reads.                                                                  *)
(***************************************************************************)
\* The beats of the request on offer.
OfferedBeats(req) == IF req = None THEN << >> ELSE ReadBeats(req)

\* The beats of a request are those of a countdown from its length.
LEMMA OfferedTypes ==
  ASSUME NEW req \in Requests \cup {None}
  PROVE  /\ OfferedBeats(req) \in Seq(Contexts)
         /\ req # None => OfferedBeats(req) = Countdown(req.id, req.len + 1)
<1>1. req # None => /\ OfferedBeats(req) = Countdown(req.id, req.len + 1)
                    /\ req.id \in Ids /\ req.len + 1 \in Nat
  BY DEF OfferedBeats, ReadBeats, Countdown, Requests
<1>2. QED
  BY <1>1, CountdownTypes, EmptySeq DEF OfferedBeats

\* The buffer counts its beats down.
LEMMA BeatsLeftTypes ==
  ASSUME BridgeTypes
  PROVE  /\ BeatsLeft \in Seq(Contexts)
         /\ buffer # None /\ ~buffer.write => BeatsLeft = Countdown(buffer.id, buffer.beat)
         /\ buffer = None \/ buffer.write => BeatsLeft = << >>
<1>1. buffer # None /\ ~buffer.write => /\ BeatsLeft = Countdown(buffer.id, buffer.beat)
                                        /\ buffer.id \in Ids /\ buffer.beat \in Nat
  BY DEF BeatsLeft, Countdown, BridgeTypes, Buffers
<1>2. buffer = None \/ buffer.write => BeatsLeft = << >>
  BY DEF BeatsLeft
<1>3. BeatsLeft \in Seq(Contexts)
  <2>1. CASE buffer = None \/ buffer.write
    <3>1. << >> \in Seq(Contexts)
      BY EmptySeq
    <3>2. QED
      BY <1>2, <2>1, <3>1
  <2>2. CASE ~(buffer = None \/ buffer.write)
    <3>1. BeatsLeft = Countdown(buffer.id, buffer.beat) /\ buffer.id \in Ids /\ buffer.beat \in Nat
      BY <1>1, <2>2
    <3>2. QED
      BY <3>1, CountdownTypes
  <2>3. QED
    BY <2>1, <2>2
<1>4. QED
  BY <1>1, <1>2, <1>3

\* The same after a step.
LEMMA BeatsLeftNext ==
  ASSUME BridgeTypes'
  PROVE  BeatsLeft' \in Seq(Contexts)
<1>1. buffer' # None /\ ~buffer'.write
        => /\ BeatsLeft' = Countdown(buffer'.id, buffer'.beat)
           /\ buffer'.id \in Ids /\ buffer'.beat \in Nat
  BY DEF BeatsLeft, Countdown, BridgeTypes, Buffers
<1>2. buffer' = None \/ buffer'.write => BeatsLeft' = << >>
  BY DEF BeatsLeft
<1>3. CASE buffer' = None \/ buffer'.write
  <2>1. << >> \in Seq(Contexts)
    BY EmptySeq
  <2>2. QED
    BY <1>2, <1>3, <2>1
<1>4. CASE ~(buffer' = None \/ buffer'.write)
  <2>1. /\ BeatsLeft' = Countdown(buffer'.id, buffer'.beat)
        /\ buffer'.id \in Ids /\ buffer'.beat \in Nat
    BY <1>1, <1>4
  <2>2. QED
    BY <2>1, CountdownTypes
<1>5. QED
  BY <1>3, <1>4

\* A read beat that the controller takes is the next of the burst under way, or
\* the first of the one that was let through.
LEMMA BeatCut ==
  ASSUME BridgeTypes, BridgeTypes', NEW ready \in BOOLEAN, NEW bReady \in BOOLEAN,
         Unburstify(cmdValid /\ ready, bReady),
         NEW beat, NEW left,
         beat = IF cmdValid /\ ready /\ ~result.write
                THEN <<[id |-> result.id, last |-> result.last]>> ELSE << >>,
         left = IF arwTaken(cmdValid /\ ready, bReady) /\ ~arwWrite
                THEN << >> ELSE OfferedBeats(ar)
  PROVE  /\ beat \in Seq(Contexts) /\ left \in Seq(Contexts)
         /\ Joined(beat, Joined(BeatsLeft', left)) = Joined(BeatsLeft, OfferedBeats(ar))
<1> DEFINE taken == cmdValid /\ ready
           c     == [id |-> result.id, last |-> result.last]
<1>1. ar \in Requests \cup {None}
  BY BridgeAssumption DEF BridgeTypes
<1>2. /\ OfferedBeats(ar) \in Seq(Contexts) /\ left \in Seq(Contexts)
      /\ BeatsLeft \in Seq(Contexts) /\ BeatsLeft' \in Seq(Contexts)
  <2>1. OfferedBeats(ar) \in Seq(Contexts)
    BY <1>1, OfferedTypes
  <2>2. BeatsLeft \in Seq(Contexts)
    BY BeatsLeftTypes
  <2>3. BeatsLeft' \in Seq(Contexts)
    BY BeatsLeftNext
  <2>4. QED
    BY <2>1, <2>2, <2>3, EmptySeq
<1>3. BeatsLeft' = IF buffer' = None \/ buffer'.write THEN << >>
                   ELSE Countdown(buffer'.id, buffer'.beat)
  BY DEF BeatsLeft, Countdown
<1>4. taken => resultValid /\ result.id \in Ids /\ result.last \in BOOLEAN
  BY BufferTypes, ResultLast DEF cmdValid
<1>5. taken => c \in Contexts /\ c.id = result.id /\ (c.last <=> result.last)
  BY <1>4 DEF Contexts
<1>6. buffer' = IF beatTaken(taken, bReady) THEN BufferAfterBeat ELSE buffer
  BY DEF Unburstify
<1>7. CASE taken /\ ~result.write /\ buffer # None
  <2>1. beatTaken(taken, bReady) /\ ~arwTaken(taken, bReady)
    BY <1>7 DEF beatTaken, arwTaken
  <2>2. beat = <<c>> /\ left = OfferedBeats(ar)
    BY <1>7, <2>1
  <2>3. buffer \in Buffers /\ ~buffer.write /\ c.id = buffer.id /\ (c.last <=> buffer.beat = 1)
    BY <1>5, <1>7, ResultLast DEF BridgeTypes, result
  <2>4. BeatsLeft = Joined(<<c>>, IF buffer.beat = 1 THEN << >>
                                  ELSE Countdown(buffer.id, buffer.beat - 1))
    BY <1>5, <1>7, <2>3, BeatsLeftTypes, CountdownSplit DEF Buffers
  <2>5. BeatsLeft' = IF buffer.beat = 1 THEN << >> ELSE Countdown(buffer.id, buffer.beat - 1)
    <3>1. buffer' = IF buffer.beat = 1 THEN None
                    ELSE [buffer EXCEPT !.beat = @ - 1, !.addr = result.addr]
      BY <1>6, <1>7, <2>1 DEF BufferAfterBeat
    <3>2. CASE buffer.beat = 1
      BY <1>3, <3>1, <3>2
    <3>3. CASE buffer.beat # 1
      <4>1. buffer' # None
        <5>1. result.addr \in Int
          BY <1>4, <1>7, BufferTypes
        <5>2. buffer.beat - 1 \in Nat \ {0}
          BY <2>3, <3>3 DEF Buffers
        <5>3. [buffer EXCEPT !.beat = @ - 1, !.addr = result.addr] \in Buffers
          BY <2>3, <5>1, <5>2 DEF Buffers
        <5>4. QED
          BY <3>1, <3>3, <5>3, BridgeAssumption
      <4>2. buffer'.id = buffer.id /\ buffer'.beat = buffer.beat - 1 /\ ~buffer'.write
        BY <2>3, <3>1, <3>3 DEF Buffers
      <4>3. QED
        BY <1>3, <3>3, <4>1, <4>2
    <3>4. QED
      BY <3>2, <3>3
  <2>6. <<c>> \in Seq(Contexts)
    BY <1>5, <1>7
  <2>7. BeatsLeft = Joined(<<c>>, BeatsLeft')
    BY <2>4, <2>5
  <2> DEFINE first == <<c>>
             offer == OfferedBeats(ar)
  <2>8. beat = first /\ left = offer /\ BeatsLeft = Joined(first, BeatsLeft') /\ first \in Seq(Contexts)
    BY <2>2, <2>6, <2>7
  <2>9. offer \in Seq(Contexts) /\ BeatsLeft' \in Seq(Contexts)
    BY <1>2
  <2> HIDE DEF first, offer, c
  <2>10. Joined(Joined(first, BeatsLeft'), offer) = Joined(first, Joined(BeatsLeft', offer))
    BY <2>8, <2>9, JoinedAssociative
  <2>11. Joined(beat, Joined(BeatsLeft', left)) = Joined(BeatsLeft, offer)
    BY <2>8, <2>10
  <2>12. QED
    BY <1>2, <2>8, <2>11 DEF offer
<1>8. CASE taken /\ ~result.write /\ buffer = None
  <2>1. beatTaken(taken, bReady) /\ arwTaken(taken, bReady)
    BY <1>8 DEF beatTaken, arwTaken
  <2>2. ~arwWrite /\ arwValid /\ ar # None /\ arw = ar
    BY <1>4, <1>8, ArwTypes DEF resultValid, result
  <2>3. beat = <<c>> /\ left = << >> /\ BeatsLeft = << >>
    BY <1>8, <2>1, <2>2, BeatsLeftTypes
  <2>4. ar \in Requests /\ c.id = ar.id /\ (c.last <=> ar.len + 1 = 1)
    BY <1>1, <1>5, <1>8, <2>2, ResultLast DEF result, Requests
  <2>5. OfferedBeats(ar) = Joined(<<c>>, IF ar.len + 1 = 1 THEN << >>
                                         ELSE Countdown(ar.id, (ar.len + 1) - 1))
    <3>1. ar.len + 1 \in Nat \ {0} /\ ar.id \in Ids /\ ar # None
      BY <2>2, <2>4 DEF Requests
    <3>2. c \in Contexts
      BY <1>5, <1>8
    <3>3. OfferedBeats(ar) = Countdown(ar.id, ar.len + 1)
      BY <1>1, <3>1, OfferedTypes
    <3> DEFINE k == ar.len + 1
    <3>4. k \in Nat \ {0} /\ c \in Contexts /\ c.id = ar.id /\ (c.last <=> k = 1)
      BY <2>4, <3>1, <3>2
    <3> HIDE DEF c, k
    <3>5. Countdown(ar.id, k) = Joined(<<c>>, IF k = 1 THEN << >> ELSE Countdown(ar.id, k - 1))
      BY <3>1, <3>4, CountdownSplit
    <3>6. QED
      BY <3>3, <3>5 DEF k
  <2>6. BeatsLeft' = IF ar.len + 1 = 1 THEN << >> ELSE Countdown(ar.id, (ar.len + 1) - 1)
    <3>1. buffer' = IF ar.len = 0 THEN None
                    ELSE [write |-> arwWrite, id |-> ar.id, addr |-> ar.addr, len |-> ar.len,
                          size |-> ar.size, burst |-> ar.burst, beat |-> ar.len]
      BY <1>6, <1>8, <2>1, <2>2 DEF BufferAfterBeat
    <3>2. CASE ar.len = 0
      BY <1>3, <3>1, <3>2
    <3>3. CASE ar.len # 0
      <4>1. buffer' # None
        <5>1. buffer' \in Buffers
          BY <2>4, <3>1, <3>3, ArwTypes DEF Buffers, Requests
        <5>2. QED
          BY <5>1, BridgeAssumption
      <4>2. buffer'.id = ar.id /\ buffer'.beat = ar.len /\ ~buffer'.write
        BY <2>2, <3>1, <3>3
      <4>3. (ar.len + 1) - 1 = ar.len /\ ar.len + 1 # 1
        BY <2>4, <3>3 DEF Requests
      <4>4. QED
        BY <1>3, <4>1, <4>2, <4>3
    <3>4. QED
      BY <3>2, <3>3
  <2>7. <<c>> \in Seq(Contexts)
    BY <1>5, <1>8
  <2> HIDE DEF c
  <2>8. QED
    BY <1>2, <2>3, <2>5, <2>6, <2>7, JoinedEmpty
<1>9. CASE ~(taken /\ ~result.write)
  <2>1. beat = << >>
    BY <1>9
  <2>2. left = OfferedBeats(ar) /\ BeatsLeft' = BeatsLeft
    <3>1. CASE ~beatTaken(taken, bReady)
      <4>1. buffer' = buffer /\ ~arwTaken(taken, bReady)
        BY <1>6, <3>1 DEF arwTaken
      <4>2. QED
        BY <4>1 DEF BeatsLeft
    <3>2. CASE beatTaken(taken, bReady)
      <4>1. taken /\ result.write /\ resultValid
        BY <1>4, <1>9, <3>2 DEF beatTaken
      <4>2. CASE buffer # None
        <5>1. buffer.write /\ buffer \in Buffers /\ ~arwTaken(taken, bReady)
          BY <4>1, <4>2 DEF result, BridgeTypes, arwTaken
        <5>2. buffer' = IF buffer.beat = 1 THEN None
                        ELSE [buffer EXCEPT !.beat = @ - 1, !.addr = result.addr]
          BY <1>6, <3>2, <4>2 DEF BufferAfterBeat
        <5>3. buffer' = None \/ buffer'.write
          BY <5>1, <5>2 DEF Buffers
        <5>4. QED
          BY <1>3, <5>1, <5>3, BeatsLeftTypes
      <4>3. CASE buffer = None
        <5>1. arwWrite
          BY <4>1, <4>3 DEF result
        <5>2. buffer' = None \/ buffer'.write
          BY <1>6, <3>2, <4>3, <5>1 DEF BufferAfterBeat
        <5>3. QED
          BY <1>3, <4>3, <5>1, <5>2, BeatsLeftTypes
      <4>4. QED
        BY <4>2, <4>3
    <3>3. QED
      BY <3>1, <3>2
  <2>3. QED
    BY <1>2, <2>1, <2>2, EmptySeq, JoinedSeq, JoinedEmpty
<1>10. QED
  BY <1>7, <1>8, <1>9

\* The reads that the controller holds are a sequence and tell beats.
HeldReads(reads) ==
  reads \in Seq({reads[n] : n \in DOMAIN reads}) /\ BeatContexts(reads) \in Seq(Contexts)

\* Beats and reads are in the same places.
LEMMA HeldLength ==
  ASSUME NEW reads, HeldReads(reads)
  PROVE  /\ Len(reads) \in Nat /\ DOMAIN reads = 1..Len(reads)
         /\ Len(BeatContexts(reads)) = Len(reads)
         /\ \A n \in 1..Len(reads) : BeatContexts(reads)[n] = reads[n].ctx
<1>1. Len(reads) \in Nat /\ DOMAIN reads = 1..Len(reads)
  BY LenProperties DEF HeldReads
<1>2. DOMAIN BeatContexts(reads) = DOMAIN reads
      /\ \A n \in DOMAIN reads : BeatContexts(reads)[n] = reads[n].ctx
  BY DEF BeatContexts
<1>3. Len(BeatContexts(reads)) \in Nat /\ DOMAIN BeatContexts(reads) = 1..Len(BeatContexts(reads))
  BY LenProperties DEF HeldReads
<1>4. QED
  BY <1>1, <1>2, <1>3

\* A sequence whose elements tell beats.
LEMMA HeldIf ==
  ASSUME NEW S, NEW reads \in Seq(S), NEW beats \in Seq(Contexts), Len(beats) = Len(reads),
         \A n \in 1..Len(reads) : reads[n].ctx = beats[n]
  PROVE  HeldReads(reads) /\ BeatContexts(reads) = beats
<1>1. Len(reads) \in Nat /\ DOMAIN reads = 1..Len(reads) /\ DOMAIN beats = 1..Len(beats)
      /\ reads \in [1..Len(reads) -> S] /\ beats \in [1..Len(beats) -> Contexts]
  BY LenProperties
<1>2. reads \in [1..Len(reads) -> {reads[n] : n \in DOMAIN reads}]
  BY <1>1
<1>3. reads \in Seq({reads[n] : n \in DOMAIN reads})
  BY <1>1, <1>2, SeqDef
<1>4. BeatContexts(reads) = [n \in 1..Len(reads) |-> beats[n]]
  BY <1>1 DEF BeatContexts
<1>5. beats = [n \in 1..Len(reads) |-> beats[n]]
  BY <1>1
<1>6. QED
  BY <1>3, <1>4, <1>5 DEF HeldReads

\* A read that is returned was the oldest.
LEMMA ReadReturned ==
  ASSUME NEW reads, HeldReads(reads), reads # << >>
  PROVE  /\ HeldReads(Tail(reads)) /\ Len(Tail(reads)) < Len(reads)
         /\ BeatContexts(Tail(reads)) = Tail(BeatContexts(reads)) /\ BeatContexts(reads) # << >>
<1> DEFINE S     == {reads[n] : n \in DOMAIN reads}
           rest  == Tail(reads)
           all   == BeatContexts(reads)
           beats == Tail(all)
<1>1. /\ reads \in Seq(S) /\ all \in Seq(Contexts)
      /\ Len(reads) \in Nat /\ Len(all) = Len(reads)
      /\ \A n \in 1..Len(reads) : all[n] = reads[n].ctx
  BY HeldLength DEF HeldReads
<1> HIDE DEF S, all
<1>2. all # << >> /\ Len(reads) > 0
  BY <1>1, EmptySeq
<1>3. rest \in Seq(S) /\ Len(rest) = Len(reads) - 1 /\ \A n \in 1..Len(rest) : rest[n] = reads[n + 1]
  BY <1>1, HeadTailProperties
<1>4. beats \in Seq(Contexts) /\ Len(beats) = Len(all) - 1
      /\ \A n \in 1..Len(beats) : beats[n] = all[n + 1]
  BY <1>1, <1>2, HeadTailProperties
<1> HIDE DEF rest, beats
<1>5. \A n \in 1..Len(rest) : rest[n].ctx = beats[n]
  BY <1>1, <1>3, <1>4
<1>6. HeldReads(rest) /\ BeatContexts(rest) = beats
  BY <1>1, <1>3, <1>4, <1>5, HeldIf
<1>7. Len(rest) < Len(reads)
  BY <1>1, <1>3
<1>8. QED
  BY <1>2, <1>6, <1>7 DEF rest, beats, all

\* A read that is accepted is the newest.
LEMMA ReadAccepted ==
  ASSUME NEW reads, HeldReads(reads), NEW read, read.ctx \in Contexts
  PROVE  /\ HeldReads(Append(reads, read))
         /\ BeatContexts(Append(reads, read)) = Joined(BeatContexts(reads), <<read.ctx>>)
<1> DEFINE S     == {reads[n] : n \in DOMAIN reads} \cup {read}
           more  == Append(reads, read)
           old   == BeatContexts(reads)
           beats == Append(old, read.ctx)
<1>1. reads \in Seq(S)
  BY SeqMonotonic DEF HeldReads
<1>2. /\ old \in Seq(Contexts) /\ Len(reads) \in Nat /\ Len(old) = Len(reads)
      /\ \A n \in 1..Len(reads) : old[n] = reads[n].ctx
  BY HeldLength DEF HeldReads
<1>3. read \in S
  OBVIOUS
<1> HIDE DEF S, old
<1>4. /\ more \in Seq(S) /\ Len(more) = Len(reads) + 1 /\ more[Len(reads) + 1] = read
      /\ \A n \in 1..Len(reads) : more[n] = reads[n]
  BY <1>1, <1>3, AppendProperties
<1>5. /\ beats \in Seq(Contexts) /\ Len(beats) = Len(old) + 1 /\ beats[Len(old) + 1] = read.ctx
      /\ \A n \in 1..Len(old) : beats[n] = old[n]
  BY <1>2, AppendProperties
<1>6. beats = Joined(old, <<read.ctx>>)
  BY <1>2, AppendIsConcat DEF Joined
<1> HIDE DEF more, beats
<1>7. \A n \in 1..Len(more) : more[n].ctx = beats[n]
  BY <1>2, <1>4, <1>5
<1>8. HeldReads(more) /\ BeatContexts(more) = beats
  BY <1>2, <1>4, <1>5, <1>7, HeldIf
<1>9. QED
  BY <1>6, <1>8 DEF more, old

\* A cycle takes a beat from the queue of what is to come to the queue of what
\* is on its way, and lets new beats join at the end.
LEMMA Regroup ==
  ASSUME NEW S, NEW onWay \in Seq(S), NEW beat \in Seq(S), NEW burst \in Seq(S),
         NEW offer \in Seq(S), NEW new \in Seq(S)
  PROVE  Joined(Joined(onWay, Joined(beat, Joined(burst, offer))), new)
           = Joined(Joined(onWay, beat), Joined(burst, Joined(offer, new)))
<1> DEFINE ahead == Joined(burst, offer)
           moved == Joined(beat, ahead)
           held  == Joined(onWay, beat)
<1>1. ahead \in Seq(S) /\ moved \in Seq(S) /\ held \in Seq(S)
  BY JoinedSeq
<1>2. Joined(ahead, new) = Joined(burst, Joined(offer, new))
  BY JoinedAssociative
<1> HIDE DEF ahead
<1>3. Joined(onWay, Joined(beat, ahead)) = Joined(held, ahead)
  BY <1>1, JoinedAssociative DEF held
<1> HIDE DEF held
<1>4. Joined(Joined(held, ahead), new) = Joined(held, Joined(ahead, new))
  BY <1>1, JoinedAssociative
<1>5. Joined(Joined(onWay, Joined(beat, ahead)), new)
        = Joined(held, Joined(burst, Joined(offer, new)))
  BY <1>2, <1>3, <1>4
<1>6. QED
  BY <1>5 DEF ahead, held

\* The books of the reads, in terms of the sequences above.
ReadsInv ==
  /\ BridgeTypes
  /\ HeldReads(outstanding)
  /\ expectR = Joined(BeatContexts(outstanding), Joined(BeatsLeft, OfferedBeats(ar)))

\* At reset no read is waited for.
LEMMA ReadsInit ==
  Init => ReadsInv
<1> SUFFICES ASSUME Init
             PROVE  ReadsInv
  OBVIOUS
<1>1. BridgeTypes
  BY TypesInit
<1>2. outstanding = << >> /\ expectR = << >> /\ BeatsLeft = << >> /\ OfferedBeats(ar) = << >>
  BY DEF Init, Port!PortInit, BeatsLeft, OfferedBeats
<1>3. << >> \in Seq(Contexts) /\ outstanding \in Seq({}) /\ Len(<< >>) = 0
  BY <1>2, EmptySeq
<1>4. HeldReads(outstanding) /\ BeatContexts(outstanding) = << >>
  <2>1. \A n \in 1..Len(outstanding) : outstanding[n].ctx = << >>[n]
    BY <1>2, <1>3
  <2>2. QED
    BY <1>2, <1>3, <2>1, HeldIf
<1>5. Joined(<< >>, Joined(<< >>, << >>)) = << >>
  BY <1>3, JoinedEmpty
<1>6. QED
  BY <1>1, <1>2, <1>4, <1>5 DEF ReadsInv

\* What the controller holds after a cycle: the reads that were not returned,
\* and the beat it took.
LEMMA PortReads ==
  ASSUME ReadsInv, NEW ready \in BOOLEAN, NEW bReady \in BOOLEAN,
         NEW rest \in Port!Returned(outstanding), NEW beat,
         PortCommand(cmdValid /\ ready, rest),
         beat = IF cmdValid /\ ready /\ ~result.write
                THEN <<[id |-> result.id, last |-> result.last]>> ELSE << >>
  PROVE  /\ HeldReads(rest) /\ HeldReads(outstanding')
         /\ BeatContexts(outstanding') = Joined(BeatContexts(rest), beat)
         /\ rest = outstanding
            \/ /\ Len(rest) < Len(outstanding) /\ BeatContexts(outstanding) # << >>
               /\ BeatContexts(rest) = Tail(BeatContexts(outstanding))
<1>1. rest = outstanding \/ (outstanding # << >> /\ rest = Tail(outstanding))
  BY DEF Port!Returned
<1>2. /\ HeldReads(rest)
      /\ rest = outstanding
         \/ /\ Len(rest) < Len(outstanding) /\ BeatContexts(outstanding) # << >>
            /\ BeatContexts(rest) = Tail(BeatContexts(outstanding))
  BY <1>1, ReadReturned DEF ReadsInv
<1>3. CASE cmdValid /\ ready /\ ~result.write
  <2> DEFINE c    == [id |-> result.id, last |-> result.last]
             read == [ctx |-> c, data |-> mem[result.addr \div 4]]
  <2>1. outstanding' = Append(rest, read)
    BY <1>3 DEF PortCommand, Port!Read
  <2>2. c \in Contexts
    BY <1>3, BufferTypes, ResultLast DEF cmdValid, ReadsInv, Contexts
  <2>3. beat = <<c>>
    BY <1>3
  <2>4. read.ctx = c
    OBVIOUS
  <2> HIDE DEF c, read
  <2>5. HeldReads(outstanding') /\ BeatContexts(outstanding') = Joined(BeatContexts(rest), <<c>>)
    BY <1>2, <2>1, <2>2, <2>4, ReadAccepted
  <2>6. QED
    BY <1>2, <2>3, <2>5
<1>4. CASE ~(cmdValid /\ ready /\ ~result.write)
  <2>1. outstanding' = rest /\ beat = << >>
    BY <1>4 DEF PortCommand, Port!NoCommand, Port!Write
  <2>2. Joined(BeatContexts(rest), << >>) = BeatContexts(rest)
    BY <1>2, JoinedEmpty DEF HeldReads
  <2>3. HeldReads(outstanding') /\ BeatContexts(outstanding') = BeatContexts(rest)
    BY <1>2, <2>1
  <2>4. QED
    BY <1>2, <2>1, <2>2, <2>3
<1>5. QED
  BY <1>3, <1>4

\* What the master adds to its books is what it offers.
LEMMA MasterReads ==
  ASSUME BridgeTypes, NEW arTaken \in BOOLEAN, NEW waiting \in Seq(Contexts),
         NEW req \in ReadReqs \cup {None},
         IF ar = None \/ arTaken
         THEN /\ ar' = req
              /\ expectR' = IF req = None THEN waiting ELSE waiting \o ReadBeats(req)
         ELSE req = None /\ ar' = ar /\ expectR' = waiting,
         NEW left, left = IF arTaken THEN << >> ELSE OfferedBeats(ar)
  PROVE  \E new \in Seq(Contexts) :
            expectR' = Joined(waiting, new) /\ Joined(left, new) = OfferedBeats(ar')
<1>2. << >> \in Seq(Contexts)
  BY EmptySeq
<1>3. Joined(waiting, << >>) = waiting
  BY JoinedEmpty
<1>4. CASE ar = None \/ arTaken
  <2>1. req \in Requests \cup {None}
    BY BridgeAssumption
  <2>2. OfferedBeats(req) \in Seq(Contexts)
    BY <2>1, OfferedTypes
  <2>3. left = << >> /\ ar' = req
    BY <1>4 DEF OfferedBeats
  <2>4. Joined(left, OfferedBeats(req)) = OfferedBeats(ar')
    BY <2>2, <2>3, JoinedEmpty
  <2>5. expectR' = Joined(waiting, OfferedBeats(req))
    <3>1. CASE req = None
      BY <1>3, <1>4, <3>1 DEF OfferedBeats
    <3>2. CASE req # None
      BY <1>4, <3>2 DEF OfferedBeats, Joined
    <3>3. QED
      BY <3>1, <3>2
  <2>6. QED
    BY <2>2, <2>4, <2>5
<1>5. CASE ~(ar = None \/ arTaken)
  <2>1. left = OfferedBeats(ar) /\ ar' = ar /\ expectR' = waiting
    BY <1>5
  <2>2. left \in Seq(Contexts)
    BY <2>1, BridgeAssumption, OfferedTypes DEF BridgeTypes
  <2>3. Joined(left, << >>) = OfferedBeats(ar')
    BY <2>1, <2>2, JoinedEmpty
  <2>4. QED
    BY <1>2, <1>3, <2>1, <2>3
<1>6. QED
  BY <1>4, <1>5

\* A cycle keeps the books of the reads: what is returned was the oldest, what is
\* taken moves on, what is asked for joins at the end.
LEMMA ReadsCycle ==
  ASSUME ReadsInv, NEW ready \in BOOLEAN, NEW bReady \in BOOLEAN,
         NEW rest \in Port!Returned(outstanding), Cycle(ready, bReady, rest)
  PROVE  ReadsInv'
<1> DEFINE taken   == cmdValid /\ ready
           arTaken == arwTaken(taken, bReady) /\ ~arwWrite
           beat    == IF taken /\ ~result.write
                      THEN <<[id |-> result.id, last |-> result.last]>> ELSE << >>
           left    == IF arTaken THEN << >> ELSE OfferedBeats(ar)
           onWay   == BeatContexts(rest)
           ahead   == Joined(BeatsLeft, OfferedBeats(ar))
           waiting == IF Len(rest) < Len(outstanding) THEN Tail(expectR) ELSE expectR
<1>1. /\ Unburstify(taken, bReady) /\ PortCommand(taken, rest) /\ IssueRead(arTaken, rest)
  BY DEF Cycle
<1>2. BridgeTypes /\ BridgeTypes'
  BY TypesCycle DEF ReadsInv
<1>3. /\ beat \in Seq(Contexts) /\ left \in Seq(Contexts)
      /\ Joined(beat, Joined(BeatsLeft', left)) = ahead
  BY <1>1, <1>2, BeatCut
<1>4. /\ HeldReads(rest) /\ HeldReads(outstanding')
      /\ BeatContexts(outstanding') = Joined(onWay, beat)
      /\ rest = outstanding
         \/ /\ Len(rest) < Len(outstanding) /\ BeatContexts(outstanding) # << >>
            /\ onWay = Tail(BeatContexts(outstanding))
  BY <1>1, PortReads
<1>5. onWay \in Seq(Contexts) /\ BeatContexts(outstanding) \in Seq(Contexts)
  BY <1>4 DEF HeldReads, ReadsInv
<1>6. ahead \in Seq(Contexts) /\ BeatsLeft' \in Seq(Contexts)
  <2>1. BeatsLeft \in Seq(Contexts) /\ OfferedBeats(ar) \in Seq(Contexts)
    BY <1>2, BeatsLeftTypes, OfferedTypes, BridgeAssumption DEF BridgeTypes
  <2>2. BeatsLeft' \in Seq(Contexts)
    BY <1>2, BeatsLeftNext
  <2>3. QED
    BY <2>1, <2>2, JoinedSeq
<1>7. waiting = Joined(onWay, ahead)
  <2>1. expectR = Joined(BeatContexts(outstanding), ahead)
    BY DEF ReadsInv
  <2> HIDE DEF ahead
  <2>2. CASE Len(rest) < Len(outstanding)
    <3>1. /\ BeatContexts(outstanding) # << >> /\ onWay = Tail(BeatContexts(outstanding))
      <4>1. rest # outstanding
        <5>1. Len(outstanding) \in Nat
          BY HeldLength DEF ReadsInv
        <5>2. QED
          BY <2>2, <5>1
      <4>2. QED
        BY <1>4, <4>1
    <3>2. Tail(expectR) = Joined(Tail(BeatContexts(outstanding)), ahead)
      BY <1>5, <1>6, <2>1, <3>1, JoinedTail
    <3>3. QED
      BY <2>2, <3>1, <3>2
  <2>3. CASE ~(Len(rest) < Len(outstanding))
    BY <1>4, <2>1, <2>3
  <2>4. QED
    BY <2>2, <2>3
<1>8. waiting \in Seq(Contexts)
  BY <1>5, <1>6, <1>7, JoinedSeq
<1>9. arTaken \in BOOLEAN /\ (arTaken => ar # None)
  BY <1>2, TakenOffered
<1>10. PICK new \in Seq(Contexts) :
         expectR' = Joined(waiting, new) /\ Joined(left, new) = OfferedBeats(ar')
  <2>1. PICK req \in ReadReqs \cup {None} :
          IF ar = None \/ arTaken
          THEN /\ ar' = req
               /\ expectR' = IF req = None THEN waiting ELSE waiting \o ReadBeats(req)
          ELSE req = None /\ ar' = ar /\ expectR' = waiting
    BY <1>1 DEF IssueRead
  <2>2. left = IF arTaken THEN << >> ELSE OfferedBeats(ar)
    OBVIOUS
  <2> HIDE DEF arTaken, waiting, left
  <2>3. QED
    BY <1>2, <1>8, <1>9, <2>1, <2>2, MasterReads
<1> HIDE DEF taken, arTaken, beat, left, onWay, waiting
<1>11. Joined(Joined(onWay, Joined(beat, Joined(BeatsLeft', left))), new)
         = Joined(Joined(onWay, beat), Joined(BeatsLeft', Joined(left, new)))
  BY <1>3, <1>5, <1>6, Regroup
<1> HIDE DEF ahead
<1>12. expectR' = Joined(BeatContexts(outstanding'), Joined(BeatsLeft', OfferedBeats(ar')))
  BY <1>3, <1>4, <1>7, <1>10, <1>11
<1>13. QED
  BY <1>2, <1>4, <1>12 DEF ReadsInv, HeldReads, BeatContexts, OfferedBeats, ReadBeats

\* So does a step.
LEMMA ReadsStep ==
  ReadsInv /\ [Next]_vars => ReadsInv'
<1> SUFFICES ASSUME ReadsInv, [Next]_vars
             PROVE  ReadsInv'
  OBVIOUS
<1>1. CASE Next
  <2>1. PICK ready \in ReadyFor(cmdValid), bReady \in ReadyFor(writeRsp # None),
             rest \in Port!Returned(outstanding) : Cycle(ready, bReady, rest)
    BY <1>1 DEF Next
  <2>2. ready \in BOOLEAN /\ bReady \in BOOLEAN
    BY DEF ReadyFor
  <2>3. QED
    BY <2>1, <2>2, ReadsCycle
<1>2. CASE UNCHANGED vars
  BY <1>2 DEF vars, bridgeVars, masterVars, ReadsInv, BridgeTypes, HeldReads, BeatContexts,
              BeatsLeft, OfferedBeats, ReadBeats
<1>3. QED
  BY <1>1, <1>2

\* The invariant, in the words of the runs.
LEMMA ReadsInvAccounts ==
  ReadsInv => ReadsAccounted
<1> SUFFICES ASSUME ReadsInv
             PROVE  ReadsAccounted
  OBVIOUS
<1> DEFINE onWay == BeatContexts(outstanding)
           offer == OfferedBeats(ar)
<1>1. onWay \in Seq(Contexts) /\ BeatsLeft \in Seq(Contexts) /\ offer \in Seq(Contexts)
  BY BeatsLeftTypes, OfferedTypes, BridgeAssumption DEF ReadsInv, HeldReads, BridgeTypes
<1>2. expectR = Joined(onWay, Joined(BeatsLeft, offer))
  BY DEF ReadsInv
<1> HIDE DEF onWay, offer
<1>3. expectR = Joined(Joined(onWay, BeatsLeft), offer)
  BY <1>1, <1>2, JoinedAssociative
<1>4. QED
  BY <1>3 DEF ReadsAccounted, Joined, onWay, offer, OfferedBeats

\* The read beats the master waits for are those the bridge and the controller
\* have still to return, in the order of its requests, each burst with its last
\* beat marked: nothing is lost, doubled or reordered by the arbiter, the
\* unburstification and the context FIFO of the controller.
THEOREM ReadsStayAccounted == Spec => []ReadsAccounted
<1>1. Init => ReadsInv
  BY ReadsInit
<1>2. ReadsInv /\ [Next]_vars => ReadsInv'
  BY ReadsStep
<1>3. ReadsInv => ReadsAccounted
  BY ReadsInvAccounts
<1>4. QED
  BY <1>1, <1>2, <1>3, PTL DEF Spec

(***************************************************************************)
(* Writes.                                                                 *)
(***************************************************************************)
\* The places of the requests of one id in the queue of the master.
PlacesOf(i, queue) == {n \in DOMAIN queue : queue[n].id = i}

\* How many requests of one id wait in the queue.
WaitingOf(i, queue) == Cardinality(PlacesOf(i, queue))

\* They can be counted.
LEMMA PlacesFinite ==
  ASSUME NEW S, NEW queue \in Seq(S), NEW i
  PROVE  /\ IsFiniteSet(PlacesOf(i, queue)) /\ WaitingOf(i, queue) \in Nat
         /\ PlacesOf(i, queue) = {n \in 1..Len(queue) : queue[n].id = i}
<1>1. Len(queue) \in Nat /\ DOMAIN queue = 1..Len(queue)
  BY LenProperties
<1>2. IsFiniteSet(1..Len(queue))
  BY <1>1, FS_Interval
<1>3. PlacesOf(i, queue) \in SUBSET (1..Len(queue))
  BY <1>1 DEF PlacesOf
<1>4. IsFiniteSet(PlacesOf(i, queue))
  BY <1>2, <1>3, FS_Subset
<1>5. QED
  BY <1>1, <1>4, FS_CardinalityType DEF PlacesOf, WaitingOf

\* A request that joins the queue is counted.
LEMMA WaitingJoins ==
  ASSUME NEW S, NEW queue \in Seq(S), NEW req \in S, NEW i
  PROVE  WaitingOf(i, Append(queue, req)) = WaitingOf(i, queue) + (IF req.id = i THEN 1 ELSE 0)
<1> DEFINE more == Append(queue, req)
           k    == Len(queue) + 1
<1>1. /\ more \in Seq(S) /\ Len(queue) \in Nat /\ Len(more) = k /\ more[k] = req
      /\ \A n \in 1..Len(queue) : more[n] = queue[n]
  BY AppendProperties, LenProperties
<1> HIDE DEF more
<1>2. /\ PlacesOf(i, queue) = {n \in 1..Len(queue) : queue[n].id = i}
      /\ PlacesOf(i, more) = {n \in 1..Len(more) : more[n].id = i}
      /\ IsFiniteSet(PlacesOf(i, queue)) /\ WaitingOf(i, queue) \in Nat
  BY <1>1, PlacesFinite
<1>3. k \notin PlacesOf(i, queue)
  BY <1>1, <1>2
<1>4. CASE req.id = i
  <2>1. PlacesOf(i, more) = PlacesOf(i, queue) \cup {k}
    BY <1>1, <1>2, <1>4
  <2>2. Cardinality(PlacesOf(i, more)) = Cardinality(PlacesOf(i, queue)) + 1
    BY <1>2, <1>3, <2>1, FS_AddElement, Zenon
  <2>3. WaitingOf(i, more) = WaitingOf(i, queue) + 1
    BY <2>2, Zenon DEF WaitingOf
  <2>4. QED
    BY <1>4, <2>3 DEF more
<1>5. CASE req.id # i
  <2>1. PlacesOf(i, more) = PlacesOf(i, queue)
    BY <1>1, <1>2, <1>5
  <2>2. WaitingOf(i, more) = WaitingOf(i, queue)
    BY <2>1, Zenon DEF WaitingOf
  <2>3. QED
    BY <1>2, <1>5, <2>2 DEF more
<1>6. QED
  BY <1>4, <1>5

\* A request that leaves the queue is no longer counted.
LEMMA WaitingLeaves ==
  ASSUME NEW S, NEW queue \in Seq(S), queue # << >>, NEW i
  PROVE  WaitingOf(i, queue) = WaitingOf(i, Tail(queue)) + (IF Head(queue).id = i THEN 1 ELSE 0)
<1> DEFINE rest  == Tail(queue)
           later == PlacesOf(i, queue) \ {1}
           shift == [n \in PlacesOf(i, rest) |-> n + 1]
<1>1. /\ rest \in Seq(S) /\ Len(queue) \in Nat /\ Len(queue) >= 1 /\ Len(rest) = Len(queue) - 1
      /\ \A n \in 1..Len(rest) : rest[n] = queue[n + 1]
      /\ Head(queue) = queue[1]
  BY HeadTailProperties, LenProperties, EmptySeq
<1> HIDE DEF rest
<1>2. /\ PlacesOf(i, queue) = {n \in 1..Len(queue) : queue[n].id = i}
      /\ PlacesOf(i, rest) = {n \in 1..Len(rest) : rest[n].id = i}
      /\ IsFiniteSet(PlacesOf(i, rest)) /\ IsFiniteSet(PlacesOf(i, queue))
      /\ WaitingOf(i, queue) \in Nat
  BY <1>1, PlacesFinite
<1>3. shift \in [PlacesOf(i, rest) -> later]
  BY <1>1, <1>2
<1>4. \A m, n \in PlacesOf(i, rest) : shift[m] = shift[n] => m = n
  BY <1>1, <1>2
<1>5. \A m \in later : \E n \in PlacesOf(i, rest) : shift[n] = m
  <2> SUFFICES ASSUME NEW m \in later
               PROVE  \E n \in PlacesOf(i, rest) : shift[n] = m
    OBVIOUS
  <2>1. m - 1 \in 1..Len(rest) /\ rest[m - 1] = queue[m] /\ (m - 1) + 1 = m
    BY <1>1, <1>2
  <2>2. m - 1 \in PlacesOf(i, rest)
    BY <1>2, <2>1
  <2>3. QED
    BY <2>1, <2>2
<1> HIDE DEF shift
<1>6. Cardinality(later) = WaitingOf(i, rest)
  <2>1. shift \in Bijection(PlacesOf(i, rest), later)
    BY <1>3, <1>4, <1>5, Fun_IsBij
  <2>2. ExistsBijection(PlacesOf(i, rest), later)
    BY <2>1, Fun_ExistsBij
  <2>3. QED
    BY <1>2, <2>2, FS_Bijection DEF WaitingOf
<1>7. Cardinality(later) = IF 1 \in PlacesOf(i, queue) THEN WaitingOf(i, queue) - 1
                           ELSE WaitingOf(i, queue)
  BY <1>2, FS_RemoveElement DEF WaitingOf
<1>8. 1 \in PlacesOf(i, queue) <=> Head(queue).id = i
  BY <1>1, <1>2
<1>9. QED
  BY <1>2, <1>6, <1>7, <1>8 DEF rest

\* The responses a burst under way and the response register still owe.
UnderWay(i) == IF buffer # None /\ buffer.write /\ buffer.id = i THEN 1 ELSE 0
Answered(i) == IF writeRsp = i THEN 1 ELSE 0

\* A cycle moves a debt from the queue to the burst under way, from there to the
\* response register and from there to the master.
LEMMA DebtMoves ==
  ASSUME BridgeTypes, NEW taken \in BOOLEAN, NEW bReady \in BOOLEAN, NEW i \in Ids,
         taken => resultValid,
         buffer' = IF beatTaken(taken, bReady) THEN BufferAfterBeat ELSE buffer,
         writeRsp' = IF ~rspRoom(bReady) THEN writeRsp
                     ELSE IF beatTaken(taken, bReady) /\ result.write /\ result.last
                          THEN result.id ELSE None
  PROVE  UnderWay(i)' + Answered(i)'
           = UnderWay(i) + Answered(i)
             + (IF arwTaken(taken, bReady) /\ arwWrite /\ arw.id = i THEN 1 ELSE 0)
             - (IF bReady /\ writeRsp = i THEN 1 ELSE 0)
<1> DEFINE gone    == beatTaken(taken, bReady)
           awTaken == arwTaken(taken, bReady) /\ arwWrite
<1>1. i # None /\ (gone => taken /\ resultValid)
  BY BridgeAssumption DEF beatTaken
<1>2. /\ UnderWay(i)' = IF buffer' # None /\ buffer'.write /\ buffer'.id = i THEN 1 ELSE 0
      /\ Answered(i)' = IF writeRsp' = i THEN 1 ELSE 0
  BY DEF UnderWay, Answered
<1>3. CASE ~gone
  <2>1. buffer' = buffer /\ ~awTaken
    BY <1>3 DEF arwTaken
  <2>2. writeRsp' = IF writeRsp = None \/ bReady THEN None ELSE writeRsp
    BY <1>3 DEF rspRoom
  <2>3. Answered(i)' = Answered(i) - (IF bReady /\ writeRsp = i THEN 1 ELSE 0)
    BY <1>1, <1>2, <2>2 DEF Answered
  <2>4. UnderWay(i)' = UnderWay(i)
    BY <1>2, <2>1 DEF UnderWay
  <2>5. QED
    BY <2>1, <2>3, <2>4 DEF UnderWay, Answered
<1>4. CASE gone /\ ~result.write
  <2>1. UnderWay(i)' = 0 /\ UnderWay(i) = 0 /\ ~awTaken
    <3>1. CASE buffer = None
      <4>1. ~arwWrite
        BY <1>4, <3>1 DEF result
      <4>2. buffer' = None \/ ~buffer'.write
        BY <1>4, <3>1, <4>1 DEF BufferAfterBeat
      <4>3. QED
        BY <1>2, <3>1, <4>1, <4>2 DEF UnderWay
    <3>2. CASE buffer # None
      <4>1. ~buffer.write /\ buffer \in Buffers
        BY <1>4, <3>2 DEF result, BridgeTypes
      <4>2. buffer' = None \/ ~buffer'.write
        BY <1>4, <3>2, <4>1 DEF BufferAfterBeat, Buffers
      <4>3. QED
        BY <1>2, <3>2, <4>1, <4>2 DEF UnderWay, arwTaken
    <3>3. QED
      BY <3>1, <3>2
  <2>2. writeRsp' = IF writeRsp = None \/ bReady THEN None ELSE writeRsp
    BY <1>4 DEF rspRoom
  <2>3. Answered(i)' = Answered(i) - (IF bReady /\ writeRsp = i THEN 1 ELSE 0)
    BY <1>1, <1>2, <2>2 DEF Answered
  <2>4. QED
    BY <2>1, <2>3 DEF Answered
<1>5. CASE gone /\ result.write
  <2>1. (writeRsp = None \/ bReady) /\ writeRsp' = IF result.last THEN result.id ELSE None
    BY <1>5 DEF beatTaken, rspRoom
  <2>2. Answered(i) = IF bReady /\ writeRsp = i THEN 1 ELSE 0
    BY <1>1, <2>1 DEF Answered
  <2>3. Answered(i)' = IF result.last /\ result.id = i THEN 1 ELSE 0
    BY <1>1, <1>2, <2>1
  <2>4. CASE buffer = None
    <3>1. arwWrite /\ awTaken /\ UnderWay(i) = 0 /\ result.id = arw.id
      BY <1>5, <2>4 DEF result, arwTaken, UnderWay
    <3>2. result.last <=> arw.len = 0
      BY <2>4, ResultLast
    <3>3. UnderWay(i)' = IF arw.len # 0 /\ arw.id = i THEN 1 ELSE 0
      <4>1. CASE arw.len = 0
        BY <1>2, <1>5, <2>4, <4>1 DEF BufferAfterBeat
      <4>2. CASE arw.len # 0
        <5>1. buffer' = BufferAfterBeat /\ buffer'.write /\ buffer'.id = arw.id
          BY <1>5, <2>4, <3>1, <4>2 DEF BufferAfterBeat
        <5>2. arw \in Requests
          BY <1>1, <1>5, <2>4, ArwTypes DEF resultValid
        <5>3. buffer' \in Buffers
          BY <1>5, <2>4, <3>1, <4>2, <5>2 DEF BufferAfterBeat, Buffers, Requests
        <5>4. QED
          BY <1>2, <4>2, <5>1, <5>3, BridgeAssumption
      <4>3. QED
        BY <4>1, <4>2
    <3>4. QED
      BY <2>2, <2>3, <3>1, <3>2, <3>3 DEF Answered
  <2>5. CASE buffer # None
    <3>1. /\ buffer.write /\ buffer \in Buffers /\ ~awTaken /\ result.id = buffer.id
          /\ UnderWay(i) = IF buffer.id = i THEN 1 ELSE 0
      BY <1>5, <2>5 DEF result, arwTaken, UnderWay, BridgeTypes
    <3>2. result.last <=> buffer.beat = 1
      BY <2>5, ResultLast
    <3>3. UnderWay(i)' = IF buffer.beat # 1 /\ buffer.id = i THEN 1 ELSE 0
      <4>1. CASE buffer.beat = 1
        BY <1>2, <1>5, <2>5, <4>1 DEF BufferAfterBeat
      <4>2. CASE buffer.beat # 1
        <5>1. buffer' = [buffer EXCEPT !.beat = @ - 1, !.addr = result.addr]
          BY <1>5, <2>5, <4>2 DEF BufferAfterBeat
        <5>2. result.addr \in Int /\ buffer.beat - 1 \in Nat \ {0}
          BY <1>1, <1>5, <3>1, <4>2, BufferTypes DEF Buffers
        <5>3. buffer' \in Buffers /\ buffer'.write /\ buffer'.id = buffer.id
          BY <3>1, <5>1, <5>2 DEF Buffers
        <5>4. QED
          BY <1>2, <4>2, <5>3, BridgeAssumption
      <4>3. QED
        BY <4>1, <4>2
    <3>4. QED
      BY <2>2, <2>3, <3>1, <3>2, <3>3 DEF Answered
  <2>6. QED
    BY <2>4, <2>5
<1>6. QED
  BY <1>3, <1>4, <1>5

\* The books of the writes.
WritesInv ==
  /\ BridgeTypes
  /\ expectB \in [Ids -> Int]
  /\ \A i \in Ids : expectB[i] = WaitingOf(i, awQueue) + UnderWay(i) + Answered(i)

\* At reset no write is waited for.
LEMMA WritesInit ==
  Init => WritesInv
<1> SUFFICES ASSUME Init
             PROVE  WritesInv
  OBVIOUS
<1>1. BridgeTypes
  BY TypesInit
<1>2. expectB = [i \in Ids |-> 0] /\ awQueue = << >> /\ buffer = None /\ writeRsp = None
  BY DEF Init
<1>3. ASSUME NEW i \in Ids
      PROVE  WaitingOf(i, awQueue) = 0
  <2>1. PlacesOf(i, awQueue) = {}
    BY <1>2 DEF PlacesOf
  <2>2. QED
    BY <2>1, FS_EmptySet DEF WaitingOf
<1>4. \A i \in Ids : UnderWay(i) = 0 /\ Answered(i) = 0
  BY <1>2, BridgeAssumption DEF UnderWay, Answered
<1>5. QED
  BY <1>1, <1>2, <1>3, <1>4 DEF WritesInv

\* A cycle keeps the books of the writes.
LEMMA WritesCycle ==
  ASSUME WritesInv, NEW ready \in BOOLEAN, NEW bReady \in BOOLEAN, NEW rest,
         Cycle(ready, bReady, rest)
  PROVE  WritesInv'
<1> DEFINE taken    == cmdValid /\ ready
           awTaken  == arwTaken(taken, bReady) /\ arwWrite
           aws      == Drop(awTaken, awQueue)
           gone     == beatTaken(taken, bReady) /\ result.write
           answered == [i \in Ids |-> IF (bReady /\ writeRsp # None) /\ writeRsp = i
                                      THEN expectB[i] - 1 ELSE expectB[i]]
<1>1. BridgeTypes /\ BridgeTypes' /\ expectB \in [Ids -> Int]
  BY TypesCycle DEF WritesInv
<1>2. taken \in BOOLEAN /\ (taken => resultValid)
  BY DEF cmdValid
<1>3. /\ buffer' = IF beatTaken(taken, bReady) THEN BufferAfterBeat ELSE buffer
      /\ writeRsp' = IF ~rspRoom(bReady) THEN writeRsp
                     ELSE IF beatTaken(taken, bReady) /\ result.write /\ result.last
                          THEN result.id ELSE None
  BY DEF Cycle, Unburstify, WriteResponse
<1>4. awTaken => awQueue # << >> /\ arw = Head(awQueue)
  BY <1>1, ArwTypes, TakenOffered
<1>5. aws \in Seq(WriteReqs)
  BY <1>1, <1>4, HeadTailProperties DEF Drop, BridgeTypes
<1>6. answered \in [Ids -> Int]
  BY <1>1
<1>7. \/ awQueue' = aws /\ expectB' = answered
      \/ \E req \in WriteReqs :
           awQueue' = Append(aws, req) /\ expectB' = [answered EXCEPT ![req.id] = @ + 1]
  BY DEF Cycle, IssueWrite
<1>8. ASSUME NEW i \in Ids
      PROVE  /\ WaitingOf(i, aws) \in Nat
             /\ WaitingOf(i, awQueue) = WaitingOf(i, aws)
                                        + (IF awTaken /\ arw.id = i THEN 1 ELSE 0)
  <2>1. WaitingOf(i, aws) \in Nat
    BY <1>5, PlacesFinite
  <2>2. CASE awTaken
    <3>1. aws = Tail(awQueue) /\ awQueue \in Seq(WriteReqs)
      BY <1>1, <2>2 DEF Drop, BridgeTypes
    <3>2. WaitingOf(i, awQueue)
            = WaitingOf(i, Tail(awQueue)) + (IF Head(awQueue).id = i THEN 1 ELSE 0)
      BY <1>4, <2>2, <3>1, WaitingLeaves
    <3> HIDE DEF aws
    <3>3. QED
      BY <1>4, <2>1, <2>2, <3>1, <3>2
  <2>3. CASE ~awTaken
    <3>1. aws = awQueue
      BY <2>3 DEF Drop
    <3> HIDE DEF aws
    <3>2. QED
      BY <2>1, <2>3, <3>1
  <2>4. QED
    BY <2>2, <2>3
<1>9. ASSUME NEW i \in Ids
      PROVE  UnderWay(i)' + Answered(i)'
               = UnderWay(i) + Answered(i) + (IF awTaken /\ arw.id = i THEN 1 ELSE 0)
                 - (IF bReady /\ writeRsp = i THEN 1 ELSE 0)
  BY <1>1, <1>2, <1>3, DebtMoves
<1>10. \A i \in Ids : UnderWay(i) \in Int /\ Answered(i) \in Int
                      /\ UnderWay(i)' \in Int /\ Answered(i)' \in Int
  BY DEF UnderWay, Answered
<1>11. \A i \in Ids : answered[i] = expectB[i] - (IF bReady /\ writeRsp = i THEN 1 ELSE 0)
  BY <1>1, BridgeAssumption
<1>12. \A i \in Ids : expectB[i] = WaitingOf(i, awQueue) + UnderWay(i) + Answered(i)
  BY DEF WritesInv
<1> HIDE DEF taken, awTaken, aws, answered, gone
<1>13. \A i \in Ids : answered[i] = WaitingOf(i, aws) + UnderWay(i)' + Answered(i)'
  BY <1>1, <1>8, <1>9, <1>10, <1>11, <1>12
<1>14. CASE awQueue' = aws /\ expectB' = answered
  <2>1. \A i \in Ids : WaitingOf(i, awQueue)' = WaitingOf(i, aws)
    BY <1>14 DEF WaitingOf, PlacesOf
  <2>2. \A i \in Ids : expectB'[i] = WaitingOf(i, awQueue)' + UnderWay(i)' + Answered(i)'
    BY <1>13, <1>14, <2>1
  <2>3. QED
    BY <1>1, <1>6, <1>14, <2>2 DEF WritesInv
<1>15. ASSUME NEW req \in WriteReqs,
              awQueue' = Append(aws, req), expectB' = [answered EXCEPT ![req.id] = @ + 1]
       PROVE  WritesInv'
  <2>1. req.id \in Ids
    BY BridgeAssumption DEF Requests
  <2>2. ASSUME NEW i \in Ids
        PROVE  WaitingOf(i, awQueue)' = WaitingOf(i, aws) + (IF req.id = i THEN 1 ELSE 0)
    <3>1. WaitingOf(i, awQueue)' = WaitingOf(i, Append(aws, req))
      BY <1>15 DEF WaitingOf, PlacesOf
    <3>2. QED
      BY <1>5, <3>1, WaitingJoins
  <2>3. \A i \in Ids : expectB'[i] = answered[i] + (IF req.id = i THEN 1 ELSE 0)
    BY <1>6, <1>15, <2>1
  <2>4. \A i \in Ids : expectB'[i] = WaitingOf(i, awQueue)' + UnderWay(i)' + Answered(i)'
    BY <1>8, <1>10, <1>13, <2>2, <2>3
  <2>5. expectB' \in [Ids -> Int]
    BY <1>6, <1>15, <2>1
  <2>6. QED
    BY <1>1, <2>4, <2>5 DEF WritesInv
<1>16. QED
  BY <1>7, <1>14, <1>15

\* So does a step.
LEMMA WritesStep ==
  WritesInv /\ [Next]_vars => WritesInv'
<1> SUFFICES ASSUME WritesInv, [Next]_vars
             PROVE  WritesInv'
  OBVIOUS
<1>1. CASE Next
  <2>1. PICK ready \in ReadyFor(cmdValid), bReady \in ReadyFor(writeRsp # None),
             rest \in Port!Returned(outstanding) : Cycle(ready, bReady, rest)
    BY <1>1 DEF Next
  <2>2. ready \in BOOLEAN /\ bReady \in BOOLEAN
    BY DEF ReadyFor
  <2>3. QED
    BY <2>1, <2>2, WritesCycle
<1>2. CASE UNCHANGED vars
  BY <1>2 DEF vars, bridgeVars, masterVars, WritesInv, BridgeTypes, WaitingOf, PlacesOf,
              UnderWay, Answered
<1>3. QED
  BY <1>1, <1>2

\* Every write burst of the master has exactly one response to come: it waits,
\* is under way or its response is in bridge_writeRsp_m2sPipe.  No response is
\* lost when the register is full, none is given twice.
THEOREM WritesStayAccounted == Spec => []WritesAccounted
<1>1. Init => WritesInv
  BY WritesInit
<1>2. WritesInv /\ [Next]_vars => WritesInv'
  BY WritesStep
<1>3. WritesInv => WritesAccounted
  BY DEF WritesInv, WritesAccounted, WaitingOf, PlacesOf, UnderWay, Answered
<1>4. QED
  BY <1>1, <1>2, <1>3, PTL DEF Spec

(***************************************************************************)
(* Write data.  A debt is a burst that still has W beats to be joined with *)
(* addresses: "debts" are the bursts that a queue of W beats consists of,  *)
(* and from[k] is the number of beats before those of burst k.             *)
(***************************************************************************)
WBeats == [data : Values, last : BOOLEAN, id : Ids]
Debts  == [id : Ids, beats : Nat \ {0}]

Blocks(from, queue, debts) ==
  /\ Len(debts) = 0 => Len(queue) = 0
  /\ Len(debts) > 0 => /\ from[1] = 0
                       /\ from[Len(debts)] + debts[Len(debts)].beats = Len(queue)
  /\ \A k, l \in 1..Len(debts) : k < l => from[k] + debts[k].beats <= from[l]
  /\ \A k \in 1..(Len(debts) - 1) : from[k + 1] = from[k] + debts[k].beats
  /\ \A k \in 1..Len(debts) : 0 <= from[k] /\ from[k] + debts[k].beats <= Len(queue)
  /\ \A k \in 1..Len(debts) : \A j \in 1..debts[k].beats :
       /\ queue[from[k] + j].id = debts[k].id
       /\ queue[from[k] + j].last <=> j = debts[k].beats

Owes(queue, debts) == \E from \in [1..Len(debts) -> Int] : Blocks(from, queue, debts)

\* The first beat is of the first burst.
LEMMA OwesHead ==
  ASSUME NEW queue \in Seq(WBeats), NEW debts \in Seq(Debts), Owes(queue, debts), debts # << >>
  PROVE  /\ queue # << >> /\ Head(queue).id = Head(debts).id
         /\ Head(queue).last <=> Head(debts).beats = 1
<1>1. PICK from \in [1..Len(debts) -> Int] : Blocks(from, queue, debts)
  BY DEF Owes
<1>2. /\ Len(debts) \in Nat /\ Len(debts) > 0 /\ 1 \in 1..Len(debts)
      /\ Head(debts) = debts[1] /\ debts[1] \in Debts /\ Len(queue) \in Nat
  BY EmptySeq, LenProperties, ElementOfSeq
<1>3. debts[1].beats \in Nat /\ debts[1].beats >= 1 /\ 1 \in 1..debts[1].beats
  BY <1>2 DEF Debts
<1>4. from[1] = 0 /\ debts[1].beats <= Len(queue) /\ from[1] + 1 = 1
  <2>1. from[1] = 0 /\ from[1] + debts[1].beats <= Len(queue)
    BY <1>1, <1>2 DEF Blocks
  <2>2. QED
    BY <1>3, <2>1
<1>5. queue # << >> /\ Head(queue) = queue[1]
  BY <1>2, <1>3, <1>4, EmptySeq
<1>6. queue[1].id = debts[1].id /\ (queue[1].last <=> 1 = debts[1].beats)
  BY <1>1, <1>2, <1>3, <1>4 DEF Blocks
<1>7. QED
  BY <1>2, <1>5, <1>6

\* The last beat of a burst settles its debt.
LEMMA OwesSettled ==
  ASSUME NEW queue \in Seq(WBeats), NEW debts \in Seq(Debts), Owes(queue, debts), debts # << >>,
         Head(debts).beats = 1
  PROVE  Owes(Tail(queue), Tail(debts))
<1>1. PICK from \in [1..Len(debts) -> Int] : Blocks(from, queue, debts)
  BY DEF Owes
<1> DEFINE rest == Tail(queue)
           due  == Tail(debts)
           then == [k \in 1..Len(due) |-> from[k + 1] - 1]
<1>2. queue # << >> /\ Len(queue) \in Nat /\ Len(debts) \in Nat /\ Len(debts) > 0
  BY OwesHead, LenProperties, EmptySeq
<1>3. /\ due \in Seq(Debts) /\ Len(due) = Len(debts) - 1
      /\ \A k \in 1..Len(due) : due[k] = debts[k + 1]
      /\ debts[1].beats = 1
  BY HeadTailProperties
<1>4. /\ rest \in Seq(WBeats) /\ Len(rest) = Len(queue) - 1
      /\ \A n \in 1..Len(rest) : rest[n] = queue[n + 1]
  BY <1>2, HeadTailProperties
<1>5. \A k \in 1..Len(debts) : from[k] \in Int /\ debts[k].beats \in Nat /\ debts[k].beats > 0
  <2>1. \A k \in 1..Len(debts) : debts[k] \in Debts
    BY ElementOfSeq
  <2>2. \A k \in 1..Len(debts) : from[k] \in Int
    OBVIOUS
  <2>3. QED
    BY <2>1, <2>2 DEF Debts
<1>6. \A k \in 1..Len(due) : /\ then[k] = from[k + 1] - 1 /\ k + 1 \in 1..Len(debts)
                             /\ due[k].beats = debts[k + 1].beats
  BY <1>2, <1>3
<1>7. then \in [1..Len(due) -> Int]
  BY <1>5, <1>6
<1> HIDE DEF rest, due, then
<1>8. from[1] = 0 /\ \A k \in 2..Len(debts) : from[k] >= 1
  <2>1. from[1] = 0 /\ 1 \in 1..Len(debts)
    BY <1>1, <1>2 DEF Blocks
  <2>2. \A k \in 2..Len(debts) : from[1] + debts[1].beats <= from[k]
    BY <1>1, <1>2, <2>1 DEF Blocks
  <2>3. QED
    BY <1>3, <1>5, <2>1, <2>2
<1>9. Len(due) = 0 => Len(rest) = 0
  <2>1. from[Len(debts)] + debts[Len(debts)].beats = Len(queue)
    BY <1>1, <1>2 DEF Blocks
  <2>2. Len(due) = 0 => Len(debts) = 1
    BY <1>2, <1>3
  <2>3. Len(due) = 0 => Len(queue) = 0 + 1
    BY <1>3, <1>8, <2>1, <2>2
  <2>4. QED
    BY <1>4, <2>3
<1>10. Len(due) > 0 => then[1] = 0 /\ then[Len(due)] + due[Len(due)].beats = Len(rest)
  <2> SUFFICES ASSUME Len(due) > 0
               PROVE  then[1] = 0 /\ then[Len(due)] + due[Len(due)].beats = Len(rest)
    OBVIOUS
  <2>1. from[1 + 1] = from[1] + debts[1].beats
    BY <1>1, <1>2, <1>3 DEF Blocks
  <2>2. then[1] = 0
    BY <1>2, <1>3, <1>6, <1>8, <2>1
  <2>3. from[Len(debts)] + debts[Len(debts)].beats = Len(queue)
    BY <1>1, <1>2 DEF Blocks
  <2>4. /\ Len(due) \in 1..Len(due) /\ Len(due) + 1 = Len(debts) /\ Len(debts) \in 1..Len(debts)
    BY <1>2, <1>3
  <2>5. /\ then[Len(due)] = from[Len(debts)] - 1 /\ due[Len(due)].beats = debts[Len(debts)].beats
        /\ from[Len(debts)] \in Int /\ debts[Len(debts)].beats \in Int
    BY <1>5, <1>6, <2>4, SMTT(30)
  <2>6. QED
    BY <1>2, <1>4, <2>2, <2>3, <2>5, SMTT(30)
<1>11. ASSUME NEW k \in 1..Len(due), NEW l \in 1..Len(due), k < l
       PROVE  then[k] + due[k].beats <= then[l]
  <2>1. k + 1 \in 1..Len(debts) /\ l + 1 \in 1..Len(debts) /\ k + 1 < l + 1
    BY <1>6, <1>11
  <2>2. from[k + 1] + debts[k + 1].beats <= from[l + 1]
    BY <1>1, <2>1 DEF Blocks
  <2>3. /\ then[k] = from[k + 1] - 1 /\ then[l] = from[l + 1] - 1
        /\ due[k].beats = debts[k + 1].beats
    BY <1>6
  <2>4. from[k + 1] \in Int /\ from[l + 1] \in Int /\ debts[k + 1].beats \in Int
    BY <1>5, <2>1
  <2>5. QED
    BY <2>2, <2>3, <2>4, SMTT(30)
<1>12. \A k \in 1..(Len(due) - 1) : then[k + 1] = then[k] + due[k].beats
  <2> SUFFICES ASSUME NEW k \in 1..(Len(due) - 1)
               PROVE  then[k + 1] = then[k] + due[k].beats
    OBVIOUS
  <2>1. k \in 1..Len(due) /\ k + 1 \in 1..Len(due) /\ k + 1 \in 1..(Len(debts) - 1)
    BY <1>2, <1>3
  <2>2. from[(k + 1) + 1] = from[k + 1] + debts[k + 1].beats
    BY <1>1, <2>1 DEF Blocks
  <2>3. /\ then[k] = from[k + 1] - 1 /\ then[k + 1] = from[(k + 1) + 1] - 1
        /\ due[k].beats = debts[k + 1].beats
    BY <1>6, <2>1
  <2>4. from[k + 1] \in Int /\ debts[k + 1].beats \in Int
    BY <1>5, <1>6, <2>1
  <2>5. QED
    BY <2>2, <2>3, <2>4
<1>13. ASSUME NEW k \in 1..Len(due)
       PROVE  0 <= then[k] /\ then[k] + due[k].beats <= Len(rest)
  <2>1. /\ k + 1 \in 2..Len(debts) /\ k + 1 \in 1..Len(debts)
        /\ then[k] = from[k + 1] - 1 /\ due[k].beats = debts[k + 1].beats
    BY <1>6
  <2>2. from[k + 1] >= 1 /\ from[k + 1] + debts[k + 1].beats <= Len(queue)
    BY <1>1, <1>8, <2>1 DEF Blocks
  <2>3. from[k + 1] \in Int /\ debts[k + 1].beats \in Int
    BY <1>5, <2>1
  <2>4. QED
    BY <1>2, <1>4, <2>1, <2>2, <2>3, SMTT(30)
<1>14. ASSUME NEW k \in 1..Len(due), NEW j \in 1..due[k].beats
       PROVE  /\ rest[then[k] + j].id = due[k].id
              /\ rest[then[k] + j].last <=> j = due[k].beats
  <2>1. /\ k + 1 \in 1..Len(debts) /\ j \in 1..debts[k + 1].beats /\ due[k] = debts[k + 1]
    BY <1>3, <1>6
  <2>2. /\ queue[from[k + 1] + j].id = debts[k + 1].id
        /\ queue[from[k + 1] + j].last <=> j = debts[k + 1].beats
    BY <1>1, <2>1 DEF Blocks
  <2>3. then[k] + j \in 1..Len(rest) /\ (then[k] + j) + 1 = from[k + 1] + j
    <3>1. j \in Int /\ j >= 1 /\ j <= due[k].beats /\ due[k].beats \in Nat
      <4>1. due[k].beats \in Nat
        BY <1>5, <2>1
      <4>2. QED
        BY <4>1
    <3>2. 0 <= then[k] /\ then[k] + due[k].beats <= Len(rest) /\ then[k] = from[k + 1] - 1
      BY <1>6, <1>13
    <3>3. from[k + 1] \in Int /\ Len(rest) \in Int
      BY <1>2, <1>4, <1>5, <1>6
    <3> DEFINE a == then[k]
               b == due[k].beats
               c == from[k + 1]
    <3>4. /\ a \in Int /\ b \in Int /\ c \in Int /\ a = c - 1
          /\ 0 <= a /\ a + b <= Len(rest) /\ j \in Int /\ 1 <= j /\ j <= b
      BY <3>1, <3>2, <3>3
    <3> HIDE DEF a, b, c
    <3>5. a + j \in 1..Len(rest) /\ (a + j) + 1 = c + j
      BY <3>3, <3>4
    <3>6. QED
      BY <3>5 DEF a, c
  <2>4. rest[then[k] + j] = queue[from[k + 1] + j]
    BY <1>4, <2>3
  <2>5. QED
    BY <2>1, <2>2, <2>4
<1>15. Blocks(then, rest, due)
  BY <1>9, <1>10, <1>11, <1>12, <1>13, <1>14 DEF Blocks
<1>16. QED
  BY <1>7, <1>15 DEF Owes, rest, due

\* Another beat makes the debt smaller.
LEMMA OwesLess ==
  ASSUME NEW queue \in Seq(WBeats), NEW debts \in Seq(Debts), Owes(queue, debts), debts # << >>,
         NEW due \in Seq(Debts), Len(due) = Len(debts), due[1].id = debts[1].id,
         due[1].beats = debts[1].beats - 1, \A k \in 2..Len(debts) : due[k] = debts[k]
  PROVE  Owes(Tail(queue), due)
<1>1. PICK from \in [1..Len(debts) -> Int] : Blocks(from, queue, debts)
  BY DEF Owes
<1> DEFINE rest == Tail(queue)
           then == [k \in 1..Len(due) |-> IF k = 1 THEN 0 ELSE from[k] - 1]
<1>2. queue # << >> /\ Len(queue) \in Nat /\ Len(debts) \in Nat /\ Len(debts) > 0
  BY OwesHead, LenProperties, EmptySeq
<1>3. /\ rest \in Seq(WBeats) /\ Len(rest) = Len(queue) - 1
      /\ \A n \in 1..Len(rest) : rest[n] = queue[n + 1]
  BY <1>2, HeadTailProperties
<1>4. \A k \in 1..Len(debts) : from[k] \in Int /\ debts[k].beats \in Nat /\ debts[k].beats > 0
  <2>1. \A k \in 1..Len(debts) : debts[k] \in Debts
    BY ElementOfSeq
  <2>2. \A k \in 1..Len(debts) : from[k] \in Int
    OBVIOUS
  <2>3. QED
    BY <2>1, <2>2 DEF Debts
<1>5. \A k \in 1..Len(debts) : then[k] = IF k = 1 THEN 0 ELSE from[k] - 1
  OBVIOUS
<1>6. then \in [1..Len(due) -> Int]
  BY <1>4
<1> HIDE DEF rest, then
<1>7. from[1] = 0 /\ \A k \in 2..Len(debts) : from[k] >= debts[1].beats
  <2>1. from[1] = 0 /\ 1 \in 1..Len(debts)
    BY <1>1, <1>2 DEF Blocks
  <2>2. \A k \in 2..Len(debts) : from[1] + debts[1].beats <= from[k]
    BY <1>1, <1>2, <2>1 DEF Blocks
  <2>3. QED
    BY <1>4, <2>1, <2>2
\* Where the beats of a burst end: one place earlier.
<1>8. ASSUME NEW k \in 1..Len(debts)
      PROVE  then[k] + due[k].beats = (from[k] + debts[k].beats) - 1 /\ 0 <= then[k]
  <2>1. CASE k = 1
    BY <1>4, <1>5, <1>7, <2>1
  <2>2. CASE k # 1
    <3>1. k \in 2..Len(debts) /\ 1 \in 1..Len(debts)
      BY <1>2, <2>2
    <3>2. then[k] = from[k] - 1 /\ due[k] = debts[k] /\ from[k] >= debts[1].beats
      BY <1>5, <1>7, <2>2, <3>1
    <3>3. /\ from[k] \in Int /\ debts[k].beats \in Int
          /\ debts[1].beats \in Int /\ debts[1].beats > 0
      BY <1>4, <3>1
    <3> DEFINE a == from[k]
               b == debts[k].beats
               c == debts[1].beats
    <3>4. /\ then[k] = a - 1 /\ due[k].beats = b /\ a >= c
          /\ a \in Int /\ b \in Int /\ c \in Int /\ c > 0
      BY <3>2, <3>3
    <3> HIDE DEF a, b, c
    <3>5. then[k] + due[k].beats = (a + b) - 1 /\ 0 <= then[k]
      BY <3>4
    <3>6. QED
      BY <3>5 DEF a, b
  <2>3. QED
    BY <2>1, <2>2
<1>9. Len(due) > 0 => then[1] = 0 /\ then[Len(due)] + due[Len(due)].beats = Len(rest)
  <2>1. from[Len(debts)] + debts[Len(debts)].beats = Len(queue)
    BY <1>1, <1>2 DEF Blocks
  <2>2. Len(debts) \in 1..Len(debts) /\ 1 \in 1..Len(debts)
    BY <1>2
  <2>3. then[Len(debts)] + due[Len(debts)].beats = (from[Len(debts)] + debts[Len(debts)].beats) - 1
    BY <1>8, <2>2
  <2>4. QED
    BY <1>3, <1>5, <2>1, <2>2, <2>3
<1>10. ASSUME NEW k \in 1..Len(due), NEW l \in 1..Len(due), k < l
       PROVE  then[k] + due[k].beats <= then[l]
  <2>1. from[k] + debts[k].beats <= from[l]
    BY <1>1, <1>10 DEF Blocks
  <2>2. then[l] = from[l] - 1 /\ then[k] + due[k].beats = (from[k] + debts[k].beats) - 1
    BY <1>5, <1>8, <1>10
  <2>3. from[k] \in Int /\ from[l] \in Int /\ debts[k].beats \in Int
    BY <1>4
  <2>4. QED
    BY <2>1, <2>2, <2>3
<1>11. ASSUME NEW k \in 1..(Len(due) - 1)
       PROVE  then[k + 1] = then[k] + due[k].beats
  <2>1. k \in 1..Len(debts) /\ k + 1 \in 1..Len(debts) /\ k + 1 # 1
    BY <1>2
  <2>2. from[k + 1] = from[k] + debts[k].beats
    BY <1>1 DEF Blocks
  <2>3. then[k + 1] = from[k + 1] - 1 /\ then[k] + due[k].beats = (from[k] + debts[k].beats) - 1
    BY <1>5, <1>8, <2>1
  <2>4. QED
    BY <2>2, <2>3
<1>12. ASSUME NEW k \in 1..Len(due)
       PROVE  0 <= then[k] /\ then[k] + due[k].beats <= Len(rest)
  <2>1. from[k] + debts[k].beats <= Len(queue) /\ from[k] \in Int /\ debts[k].beats \in Int
    BY <1>1, <1>4 DEF Blocks
  <2>2. then[k] + due[k].beats = (from[k] + debts[k].beats) - 1 /\ 0 <= then[k]
    BY <1>8
  <2>3. QED
    BY <1>2, <1>3, <2>1, <2>2
<1>13. ASSUME NEW k \in 1..Len(due), NEW j \in 1..due[k].beats
       PROVE  /\ rest[then[k] + j].id = due[k].id
              /\ rest[then[k] + j].last <=> j = due[k].beats
  <2>1. due[k].beats \in Nat
    <3>1. due[k] \in Debts
      BY ElementOfSeq
    <3>2. QED
      BY <3>1 DEF Debts
  <2>2. then[k] + j \in 1..Len(rest)
    <3> DEFINE a == then[k]
               b == due[k].beats
    <3>1. a \in Int /\ b \in Int /\ 0 <= a /\ a + b <= Len(rest) /\ j \in Int /\ 1 <= j /\ j <= b
      BY <1>6, <1>12, <2>1
    <3>2. Len(rest) \in Int
      BY <1>2, <1>3
    <3> HIDE DEF a, b
    <3>3. a + j \in 1..Len(rest)
      BY <3>1, <3>2
    <3>4. QED
      BY <3>3 DEF a
  <2>3. rest[then[k] + j] = queue[(then[k] + j) + 1]
    BY <1>3, <2>2
  <2>4. CASE k = 1
    <3>1. (then[k] + j) + 1 = from[1] + (j + 1) /\ j + 1 \in 1..debts[1].beats
          /\ (j + 1 = debts[1].beats <=> j = due[k].beats) /\ 1 \in 1..Len(debts)
      <4>1. 1 \in 1..Len(debts) /\ debts[1].beats \in Nat
        BY <1>2, <1>4
      <4>2. QED
        BY <1>5, <1>7, <2>1, <2>4, <4>1
    <3>2. /\ queue[from[1] + (j + 1)].id = debts[1].id
          /\ queue[from[1] + (j + 1)].last <=> j + 1 = debts[1].beats
      BY <1>1, <3>1 DEF Blocks
    <3>3. QED
      BY <2>3, <2>4, <3>1, <3>2
  <2>5. CASE k # 1
    <3>1. due[k] = debts[k] /\ k \in 1..Len(debts)
      BY <2>5
    <3>2. (then[k] + j) + 1 = from[k] + j
      <4>1. then[k] = from[k] - 1 /\ from[k] \in Int
        BY <1>4, <1>5, <2>5, <3>1
      <4>2. QED
        BY <2>1, <4>1
    <3>3. /\ queue[from[k] + j].id = debts[k].id
          /\ queue[from[k] + j].last <=> j = debts[k].beats
      BY <1>1, <3>1 DEF Blocks
    <3>4. QED
      BY <2>3, <3>1, <3>2, <3>3
  <2>6. QED
    BY <2>4, <2>5
<1>14. Blocks(then, rest, due)
  BY <1>2, <1>9, <1>10, <1>11, <1>12, <1>13 DEF Blocks
<1>15. QED
  BY <1>6, <1>14 DEF Owes, rest

\* The beats of a burst that the master queues are owed.
LEMMA OwesIssued ==
  ASSUME NEW queue \in Seq(WBeats), NEW debts \in Seq(Debts), Owes(queue, debts),
         NEW beats \in Seq(WBeats), NEW debt \in Debts, Len(beats) = debt.beats,
         \A j \in 1..debt.beats : beats[j].id = debt.id /\ (beats[j].last <=> j = debt.beats)
  PROVE  queue \o beats \in Seq(WBeats) /\ Owes(queue \o beats, Append(debts, debt))
<1>1. PICK from \in [1..Len(debts) -> Int] : Blocks(from, queue, debts)
  BY DEF Owes
<1> DEFINE all  == queue \o beats
           due  == Append(debts, debt)
           then == [k \in 1..Len(due) |-> IF k = Len(due) THEN Len(queue) ELSE from[k]]
<1>2. /\ Len(queue) \in Nat /\ Len(debts) \in Nat /\ debt.beats \in Nat /\ debt.beats > 0
  BY LenProperties DEF Debts
<1>3. /\ all \in Seq(WBeats) /\ Len(all) = Len(queue) + debt.beats
      /\ \A n \in 1..(Len(queue) + debt.beats) :
           all[n] = IF n <= Len(queue) THEN queue[n] ELSE beats[n - Len(queue)]
  <2>1. /\ all \in Seq(WBeats) /\ Len(all) = Len(queue) + Len(beats)
        /\ \A i \in 1..(Len(queue) + Len(beats)) :
             all[i] = IF i <= Len(queue) THEN queue[i] ELSE beats[i - Len(queue)]
    <3>1. Follows(all, queue, beats, WBeats)
      BY ConcatFollows DEF Joined
    <3> HIDE DEF all
    <3>2. QED
      BY <3>1 DEF Follows
  <2> HIDE DEF all
  <2>2. QED
    BY <2>1
<1>4. /\ due \in Seq(Debts) /\ Len(due) = Len(debts) + 1 /\ due[Len(due)] = debt
      /\ \A k \in 1..Len(debts) : due[k] = debts[k]
  BY AppendProperties
<1> HIDE DEF all, due
<1>5. \A k \in 1..Len(debts) : from[k] \in Int /\ debts[k].beats \in Nat /\ debts[k].beats > 0
  <2>1. \A k \in 1..Len(debts) : debts[k] \in Debts
    BY ElementOfSeq
  <2>2. \A k \in 1..Len(debts) : from[k] \in Int
    OBVIOUS
  <2>3. QED
    BY <2>1, <2>2 DEF Debts
<1>6. \A k \in 1..Len(due) : then[k] = IF k = Len(due) THEN Len(queue) ELSE from[k]
  OBVIOUS
<1>7. then \in [1..Len(due) -> Int]
  BY <1>2, <1>4, <1>5
<1> HIDE DEF then
<1>8. \A k \in 1..Len(due) : k = Len(due) \/ k \in 1..Len(debts)
  BY <1>2, <1>4
<1>9. then[1] = 0 /\ then[Len(due)] + due[Len(due)].beats = Len(all)
  <2>1. Len(due) \in 1..Len(due) /\ 1 \in 1..Len(due)
    BY <1>2, <1>4
  <2>2. CASE Len(debts) = 0
    <3>1. Len(queue) = 0
      BY <1>1, <2>2 DEF Blocks
    <3>2. QED
      BY <1>3, <1>4, <1>6, <2>1, <2>2, <3>1
  <2>3. CASE Len(debts) # 0
    <3>1. from[1] = 0 /\ 1 # Len(due)
      BY <1>1, <1>2, <1>4, <2>3 DEF Blocks
    <3>2. QED
      BY <1>3, <1>4, <1>6, <2>1, <3>1
  <2>4. QED
    BY <2>2, <2>3
<1>10. ASSUME NEW k \in 1..Len(debts)
       PROVE  /\ then[k] = from[k] /\ due[k] = debts[k] /\ 0 <= from[k]
              /\ from[k] + debts[k].beats <= Len(queue)
  BY <1>1, <1>2, <1>4, <1>6 DEF Blocks
<1>11. ASSUME NEW k \in 1..Len(due), NEW l \in 1..Len(due), k < l
       PROVE  then[k] + due[k].beats <= then[l]
  <2>1. k \in 1..Len(debts)
    BY <1>2, <1>4, <1>11
  <2>2. CASE l = Len(due)
    BY <1>6, <1>10, <2>1, <2>2
  <2>3. CASE l # Len(due)
    <3>1. l \in 1..Len(debts)
      BY <1>8, <2>3
    <3>2. from[k] + debts[k].beats <= from[l]
      BY <1>1, <1>11, <2>1, <3>1 DEF Blocks
    <3>3. QED
      BY <1>10, <2>1, <3>1, <3>2
  <2>4. QED
    BY <2>2, <2>3
<1>12. ASSUME NEW k \in 1..(Len(due) - 1)
       PROVE  then[k + 1] = then[k] + due[k].beats
  <2>1. k \in 1..Len(debts)
    BY <1>2, <1>4
  <2>2. CASE k = Len(debts)
    <3>1. from[k] + debts[k].beats = Len(queue) /\ k + 1 = Len(due) /\ k + 1 \in 1..Len(due)
      BY <1>1, <1>2, <1>4, <2>1, <2>2 DEF Blocks
    <3>2. QED
      BY <1>6, <1>10, <2>1, <3>1
  <2>3. CASE k # Len(debts)
    <3>1. k \in 1..(Len(debts) - 1) /\ k + 1 \in 1..Len(debts)
      BY <1>2, <2>1, <2>3
    <3>2. from[k + 1] = from[k] + debts[k].beats
      BY <1>1, <3>1 DEF Blocks
    <3>3. QED
      BY <1>10, <2>1, <3>1, <3>2
  <2>4. QED
    BY <2>2, <2>3
<1>13. ASSUME NEW k \in 1..Len(due)
       PROVE  0 <= then[k] /\ then[k] + due[k].beats <= Len(all)
  <2>1. CASE k = Len(due)
    BY <1>2, <1>3, <1>4, <1>6, <2>1, SMTT(30)
  <2>2. CASE k # Len(due)
    <3>1. k \in 1..Len(debts) /\ from[k] \in Int /\ debts[k].beats \in Int
      BY <1>5, <1>8, <2>2
    <3>2. QED
      BY <1>2, <1>3, <1>10, <3>1, SMTT(30)
  <2>3. QED
    BY <2>1, <2>2
<1>14. ASSUME NEW k \in 1..Len(due), NEW j \in 1..due[k].beats
       PROVE  /\ all[then[k] + j].id = due[k].id
              /\ all[then[k] + j].last <=> j = due[k].beats
  <2>1. CASE k = Len(due)
    <3>1. then[k] = Len(queue) /\ due[k] = debt /\ j \in 1..debt.beats
      BY <1>4, <1>6, <2>1
    <3>2. /\ Len(queue) + j \in 1..(Len(queue) + debt.beats) /\ ~(Len(queue) + j <= Len(queue))
          /\ (Len(queue) + j) - Len(queue) = j
      BY <1>2, <3>1
    <3>3. all[then[k] + j] = beats[j]
      BY <1>3, <3>1, <3>2
    <3>4. QED
      BY <3>1, <3>3
  <2>2. CASE k # Len(due)
    <3>1. k \in 1..Len(debts) /\ from[k] \in Int /\ debts[k].beats \in Nat
      BY <1>5, <1>8, <2>2
    <3>2. /\ then[k] = from[k] /\ due[k] = debts[k] /\ 0 <= from[k]
          /\ from[k] + debts[k].beats <= Len(queue)
      BY <1>10, <3>1
    <3>3. j \in 1..debts[k].beats
      BY <3>2
    <3>4. from[k] + j \in 1..(Len(queue) + debt.beats) /\ from[k] + j <= Len(queue)
      <4> DEFINE a == from[k]
                 b == debts[k].beats
                 q == Len(queue)
      <4>1. a \in Int /\ b \in Int /\ q \in Nat /\ j \in Int /\ 1 <= j /\ j <= b /\ 0 <= a /\ a + b <= q
        BY <1>2, <3>1, <3>2, <3>3
      <4> HIDE DEF a, b, q
      <4>2. a + j \in 1..(q + debt.beats) /\ a + j <= q
        BY <1>2, <4>1, SMTT(30)
      <4>3. QED
        BY <4>2 DEF a, q
    <3>5. all[then[k] + j] = queue[from[k] + j]
      BY <1>3, <3>2, <3>4
    <3>6. /\ queue[from[k] + j].id = debts[k].id
          /\ queue[from[k] + j].last <=> j = debts[k].beats
      BY <1>1, <3>1, <3>3 DEF Blocks
    <3>7. QED
      BY <3>2, <3>5, <3>6
  <2>3. QED
    BY <2>1, <2>2
<1>15. Blocks(then, all, due)
  <2>1. Len(due) > 0
    BY <1>2, <1>4
  <2>2. QED
    BY <2>1, <1>9, <1>11, <1>12, <1>13, <1>14 DEF Blocks
<1>16. QED
  BY <1>3, <1>7, <1>15 DEF Owes, all, due

\* A sequence of which the first element is known.
Begins(all, d, rest, S) ==
  /\ all \in Seq(S) /\ Len(all) = Len(rest) + 1 /\ all[1] = d /\ Head(all) = d
  /\ all # << >> /\ Tail(all) = rest
  /\ \A k \in 2..(Len(rest) + 1) : all[k] = rest[k - 1]

\* That is what joining an element to the front gives.
LEMMA JoinedFirst ==
  ASSUME NEW S, NEW d \in S, NEW rest \in Seq(S)
  PROVE  Begins(Joined(<<d>>, rest), d, rest, S)
<1> DEFINE first == <<d>>
           all   == first \o rest
<1>1. first \in Seq(S) /\ first # << >> /\ Len(first) = 1 /\ first[1] = d /\ Tail(first) = << >>
  OBVIOUS
<1>2. Len(rest) \in Nat
  BY LenProperties
<1> HIDE DEF first
<1>3. /\ all \in Seq(S) /\ Len(all) = Len(first) + Len(rest)
      /\ \A k \in 1..(Len(first) + Len(rest)) :
           all[k] = IF k <= Len(first) THEN first[k] ELSE rest[k - Len(first)]
  <2> HIDE DEF all
  <2>1. all = first \o rest
    BY DEF all
  <2>2. QED
    BY <1>1, <2>1, ConcatProperties, Zenon
<1>4. all = Joined(first, rest)
  BY DEF Joined
<1>5. all # << >> /\ Tail(all) = Joined(Tail(first), rest) /\ Head(all) = Head(first)
  BY <1>1, <1>4, JoinedTail
<1>6. Tail(all) = rest
  BY <1>1, <1>5, JoinedEmpty
<1>7. Head(first) = d
  BY <1>1
<1> HIDE DEF all
<1>8. /\ all \in Seq(S) /\ Len(all) = Len(rest) + 1 /\ all[1] = d
      /\ \A k \in 2..(Len(rest) + 1) : all[k] = rest[k - 1]
  <2>1. Len(all) = Len(rest) + 1
    BY <1>1, <1>2, <1>3
  <2>2. all[1] = d
    BY <1>1, <1>2, <1>3
  <2>3. \A k \in 2..(Len(rest) + 1) : all[k] = rest[k - 1]
    BY <1>1, <1>2, <1>3
  <2>4. QED
    BY <1>3, <2>1, <2>2, <2>3
<1>9. Begins(all, d, rest, S)
  BY <1>5, <1>6, <1>7, <1>8 DEF Begins
<1>10. QED
  BY <1>4, <1>9 DEF first

\* The first beat, and what is owed once it is gone.
LEMMA OwesSent ==
  ASSUME NEW queue \in Seq(WBeats), NEW d \in Debts, NEW rest \in Seq(Debts),
         Owes(queue, Joined(<<d>>, rest))
  PROVE  /\ queue # << >> /\ Head(queue).id = d.id /\ (Head(queue).last <=> d.beats = 1)
         /\ d.beats = 1 => Owes(Tail(queue), rest)
         /\ \A e \in Debts : e.id = d.id /\ e.beats = d.beats - 1
                               => Owes(Tail(queue), Joined(<<e>>, rest))
<1> DEFINE debts == Joined(<<d>>, rest)
<1>1. /\ debts \in Seq(Debts) /\ Len(debts) = Len(rest) + 1 /\ debts[1] = d /\ Head(debts) = d
      /\ debts # << >> /\ Tail(debts) = rest
      /\ \A k \in 2..(Len(rest) + 1) : debts[k] = rest[k - 1]
  <2>1. Begins(debts, d, rest, Debts)
    BY JoinedFirst
  <2> HIDE DEF debts
  <2>2. QED
    BY <2>1 DEF Begins
<1>2. Owes(queue, debts)
  OBVIOUS
<1> HIDE DEF debts
<1>3. queue # << >> /\ Head(queue).id = d.id /\ (Head(queue).last <=> d.beats = 1)
  BY <1>1, <1>2, OwesHead
<1>4. d.beats = 1 => Owes(Tail(queue), rest)
  BY <1>1, <1>2, OwesSettled
<1>5. ASSUME NEW e \in Debts, e.id = d.id, e.beats = d.beats - 1
      PROVE  Owes(Tail(queue), Joined(<<e>>, rest))
  <2> DEFINE due == Joined(<<e>>, rest)
  <2>1. /\ due \in Seq(Debts) /\ Len(due) = Len(rest) + 1 /\ due[1] = e
        /\ \A k \in 2..(Len(rest) + 1) : due[k] = rest[k - 1]
    <3>1. Begins(due, e, rest, Debts)
      BY JoinedFirst
    <3> HIDE DEF due
    <3>2. QED
      BY <3>1 DEF Begins
  <2> HIDE DEF due
  <2>2. \A k \in 2..Len(debts) : due[k] = debts[k]
    BY <1>1, <2>1
  <2>3. Owes(Tail(queue), due)
    BY <1>1, <1>2, <1>5, <2>1, <2>2, OwesLess
  <2>4. QED
    BY <2>3 DEF due
<1>6. QED
  BY <1>3, <1>4, <1>5

\* The bursts whose address the bridge has not taken.
DebtOf(req)         == [id |-> req.id, beats |-> req.len + 1]
WaitingDebts(queue) == [k \in DOMAIN queue |-> DebtOf(queue[k])]

\* One debt for each request.
LEMMA WaitingDebtsTypes ==
  ASSUME NEW queue \in Seq(WriteReqs)
  PROVE  /\ WaitingDebts(queue) \in Seq(Debts) /\ Len(WaitingDebts(queue)) = Len(queue)
         /\ \A k \in 1..Len(queue) : WaitingDebts(queue)[k] = DebtOf(queue[k])
         /\ \A req \in WriteReqs : DebtOf(req) \in Debts
<1>1. \A req \in WriteReqs : DebtOf(req) \in Debts
  BY BridgeAssumption DEF DebtOf, Debts, Requests
<1>2. Len(queue) \in Nat /\ DOMAIN queue = 1..Len(queue)
      /\ \A k \in 1..Len(queue) : queue[k] \in WriteReqs
  BY LenProperties, ElementOfSeq
<1>3. WaitingDebts(queue) \in [1..Len(queue) -> Debts]
  BY <1>1, <1>2 DEF WaitingDebts
<1>4. WaitingDebts(queue) \in Seq(Debts)
  BY <1>2, <1>3, SeqDef
<1>5. Len(WaitingDebts(queue)) = Len(queue)
  BY <1>2, <1>3, <1>4, LenProperties
<1>6. QED
  BY <1>1, <1>2, <1>4, <1>5 DEF WaitingDebts

\* A request is taken: the others wait as before.
LEMMA WaitingDebtsTail ==
  ASSUME NEW queue \in Seq(WriteReqs), queue # << >>
  PROVE  WaitingDebts(queue) = Joined(<<DebtOf(Head(queue))>>, WaitingDebts(Tail(queue)))
<1> DEFINE all  == WaitingDebts(queue)
           rest == WaitingDebts(Tail(queue))
<1>1. /\ Tail(queue) \in Seq(WriteReqs) /\ Len(Tail(queue)) = Len(queue) - 1
      /\ \A k \in 1..Len(Tail(queue)) : Tail(queue)[k] = queue[k + 1]
      /\ Len(queue) \in Nat /\ Len(queue) > 0 /\ Head(queue) = queue[1]
  BY HeadTailProperties, LenProperties, EmptySeq
<1>2. /\ all \in Seq(Debts) /\ Len(all) = Len(queue)
      /\ \A k \in 1..Len(queue) : all[k] = DebtOf(queue[k])
  BY WaitingDebtsTypes
<1>3. /\ rest \in Seq(Debts) /\ Len(rest) = Len(Tail(queue))
      /\ \A k \in 1..Len(Tail(queue)) : rest[k] = DebtOf(Tail(queue)[k])
  BY <1>1, WaitingDebtsTypes
<1> HIDE DEF all, rest
<1>4. all # << >> /\ Head(all) = DebtOf(Head(queue))
  BY <1>1, <1>2, EmptySeq
<1>5. /\ Tail(all) \in Seq(Debts) /\ Len(Tail(all)) = Len(all) - 1
      /\ \A k \in 1..Len(Tail(all)) : Tail(all)[k] = all[k + 1]
  BY <1>2, <1>4, HeadTailProperties
<1>6. Tail(all) = rest
  <2>1. Len(Tail(all)) = Len(rest)
    BY <1>1, <1>2, <1>3, <1>5
  <2>2. ASSUME NEW k \in 1..Len(rest)
        PROVE  Tail(all)[k] = rest[k]
    <3>1. k \in 1..Len(Tail(queue)) /\ k + 1 \in 1..Len(queue)
      BY <1>1, <1>3
    <3>2. Tail(all)[k] = all[k + 1] /\ all[k + 1] = DebtOf(queue[k + 1])
      BY <1>2, <1>5, <2>1, <3>1
    <3>3. rest[k] = DebtOf(Tail(queue)[k]) /\ Tail(queue)[k] = queue[k + 1]
      BY <1>1, <1>3, <3>1
    <3>4. QED
      BY <3>2, <3>3
  <2>3. QED
    BY <1>3, <1>5, <2>1, <2>2, SeqEqual
<1>7. Joined(<<Head(all)>>, Tail(all)) = all
  BY <1>2, <1>4, HeadAndTail
<1>8. QED
  BY <1>4, <1>6, <1>7 DEF all, rest

\* A request joins those that wait.
LEMMA WaitingDebtsAppend ==
  ASSUME NEW queue \in Seq(WriteReqs), NEW req \in WriteReqs
  PROVE  WaitingDebts(Append(queue, req)) = Append(WaitingDebts(queue), DebtOf(req))
<1> DEFINE more == Append(queue, req)
           old  == WaitingDebts(queue)
           all  == WaitingDebts(more)
           new  == Append(old, DebtOf(req))
<1>1. /\ more \in Seq(WriteReqs) /\ Len(more) = Len(queue) + 1 /\ more[Len(queue) + 1] = req
      /\ \A k \in 1..Len(queue) : more[k] = queue[k]
      /\ Len(queue) \in Nat
  BY AppendProperties, LenProperties
<1>2. /\ old \in Seq(Debts) /\ Len(old) = Len(queue) /\ DebtOf(req) \in Debts
      /\ \A k \in 1..Len(queue) : old[k] = DebtOf(queue[k])
  BY WaitingDebtsTypes
<1> HIDE DEF more, old
<1>3. /\ all \in Seq(Debts) /\ Len(all) = Len(more)
      /\ \A k \in 1..Len(more) : all[k] = DebtOf(more[k])
  BY <1>1, WaitingDebtsTypes
<1>4. /\ new \in Seq(Debts) /\ Len(new) = Len(old) + 1 /\ new[Len(old) + 1] = DebtOf(req)
      /\ \A k \in 1..Len(old) : new[k] = old[k]
  BY <1>2, AppendProperties
<1> HIDE DEF all, new
<1>5. ASSUME NEW k \in 1..Len(all)
      PROVE  all[k] = new[k]
  <2>1. CASE k = Len(queue) + 1
    BY <1>1, <1>2, <1>3, <1>4, <2>1
  <2>2. CASE k # Len(queue) + 1
    <3>1. k \in 1..Len(queue) /\ k \in 1..Len(more)
      BY <1>1, <1>3, <2>2
    <3>2. QED
      BY <1>1, <1>2, <1>3, <1>4, <3>1
  <2>3. QED
    BY <2>1, <2>2
<1>6. all = new
  BY <1>1, <1>2, <1>3, <1>4, <1>5, SeqEqual
<1>7. QED
  BY <1>6 DEF all, new, more, old

\* The burst under way, and all bursts that still need data.
BurstDebt == IF buffer = None \/ ~buffer.write THEN << >>
             ELSE <<[id |-> buffer.id, beats |-> buffer.beat]>>
AllDebts  == Joined(BurstDebt, WaitingDebts(awQueue))

DataInv == BridgeTypes /\ wQueue \in Seq(WBeats) /\ Owes(wQueue, AllDebts)

\* They are sequences of debts.
LEMMA BurstDebtTypes ==
  ASSUME BridgeTypes
  PROVE  /\ BurstDebt \in Seq(Debts) /\ AllDebts \in Seq(Debts)
         /\ WaitingDebts(awQueue) \in Seq(Debts)
         /\ buffer = None => AllDebts = WaitingDebts(awQueue)
<1>1. BurstDebt \in Seq(Debts)
  <2>1. CASE buffer = None \/ ~buffer.write
    <3>1. << >> \in Seq(Debts)
      BY EmptySeq
    <3>2. QED
      BY <2>1, <3>1 DEF BurstDebt
  <2>2. CASE ~(buffer = None \/ ~buffer.write)
    <3>1. [id |-> buffer.id, beats |-> buffer.beat] \in Debts
      BY <2>2 DEF BridgeTypes, Buffers, Debts
    <3>2. QED
      BY <2>2, <3>1 DEF BurstDebt
  <2>3. QED
    BY <2>1, <2>2
<1>2. WaitingDebts(awQueue) \in Seq(Debts)
  BY WaitingDebtsTypes DEF BridgeTypes
<1>3. buffer = None => BurstDebt = << >>
  BY DEF BurstDebt
<1>4. QED
  BY <1>1, <1>2, <1>3, JoinedSeq, JoinedEmpty DEF AllDebts

\* A write beat on offer belongs to the first debt.
LEMMA FirstDebt ==
  ASSUME BridgeTypes, resultValid, result.write
  PROVE  \E d \in Debts, rest \in Seq(Debts) :
           /\ AllDebts = Joined(<<d>>, rest) /\ d.id = result.id /\ (result.last <=> d.beats = 1)
           /\ buffer # None => /\ d = [id |-> buffer.id, beats |-> buffer.beat]
                               /\ rest = WaitingDebts(awQueue)
           /\ buffer = None => /\ arwWrite /\ d = DebtOf(arw)
                               /\ rest = WaitingDebts(Tail(awQueue))
<1>1. WaitingDebts(awQueue) \in Seq(Debts) /\ awQueue \in Seq(WriteReqs)
  BY BurstDebtTypes DEF BridgeTypes
<1>2. CASE buffer # None
  <2> DEFINE d == [id |-> buffer.id, beats |-> buffer.beat]
  <2>1. buffer.write /\ buffer \in Buffers
    BY <1>2 DEF result, BridgeTypes
  <2>2. d \in Debts /\ BurstDebt = <<d>>
    BY <1>2, <2>1 DEF Debts, Buffers, BurstDebt
  <2>3. d.id = result.id /\ (result.last <=> d.beats = 1)
    BY <1>2, ResultLast DEF result
  <2>4. d = [id |-> buffer.id, beats |-> buffer.beat]
    OBVIOUS
  <2> HIDE DEF d
  <2>5. AllDebts = Joined(<<d>>, WaitingDebts(awQueue))
    BY <2>2 DEF AllDebts
  <2>6. QED
    BY <1>1, <1>2, <2>2, <2>3, <2>4, <2>5
<1>3. CASE buffer = None
  <2> DEFINE d == DebtOf(arw)
  <2>1. arwWrite /\ arwValid
    BY <1>3 DEF result, resultValid
  <2>2. awQueue # << >> /\ arw = Head(awQueue) /\ arw \in Requests
    BY <2>1, ArwTypes
  <2>3. Tail(awQueue) \in Seq(WriteReqs) /\ arw \in WriteReqs
    BY <1>1, <2>2, HeadTailProperties
  <2>4. WaitingDebts(Tail(awQueue)) \in Seq(Debts) /\ d \in Debts
    BY <2>3, WaitingDebtsTypes
  <2>5. AllDebts = Joined(<<d>>, WaitingDebts(Tail(awQueue)))
    BY <1>1, <1>3, <2>2, WaitingDebtsTail, BurstDebtTypes
  <2>6. d.id = result.id /\ (result.last <=> d.beats = 1)
    <3>1. d.id = arw.id /\ d.beats = arw.len + 1
      BY DEF DebtOf
    <3>2. result.id = arw.id /\ (result.last <=> arw.len = 0)
      BY <1>3, ResultLast DEF result
    <3>3. QED
      BY <2>2, <3>1, <3>2 DEF Requests
  <2> HIDE DEF d
  <2>7. QED
    BY <1>3, <2>1, <2>4, <2>5, <2>6 DEF d
<1>4. QED
  BY <1>2, <1>3

\* A cycle joins at most one beat with its address.
LEMMA DebtsPaid ==
  ASSUME DataInv, NEW taken \in BOOLEAN, NEW bReady \in BOOLEAN, taken => resultValid,
         buffer' = IF beatTaken(taken, bReady) THEN BufferAfterBeat ELSE buffer
  PROVE  LET awTaken == arwTaken(taken, bReady) /\ arwWrite
             gone    == beatTaken(taken, bReady) /\ result.write
         IN  Owes(IF gone THEN Tail(wQueue) ELSE wQueue,
                  Joined(BurstDebt', WaitingDebts(IF awTaken THEN Tail(awQueue) ELSE awQueue)))
             /\ (gone => wQueue # << >>)
<1> DEFINE awTaken == arwTaken(taken, bReady) /\ arwWrite
           gone    == beatTaken(taken, bReady) /\ result.write
           debts   == Joined(BurstDebt', WaitingDebts(IF awTaken THEN Tail(awQueue) ELSE awQueue))
<1>1. BridgeTypes /\ wQueue \in Seq(WBeats) /\ Owes(wQueue, AllDebts)
  BY DEF DataInv
<1>2. BurstDebt' = IF buffer' = None \/ ~buffer'.write THEN << >>
                   ELSE <<[id |-> buffer'.id, beats |-> buffer'.beat]>>
  BY DEF BurstDebt
<1>3. CASE ~gone
  <2>1. CASE ~beatTaken(taken, bReady)
    <3>1. buffer' = buffer /\ ~awTaken
      BY <2>1 DEF arwTaken
    <3>2. debts = AllDebts
      BY <1>2, <3>1 DEF AllDebts, BurstDebt
    <3>3. QED
      BY <1>1, <1>3, <3>2
  <2>2. CASE beatTaken(taken, bReady)
    <3>1. resultValid /\ ~result.write /\ buffer' = BufferAfterBeat
      BY <1>3, <2>2 DEF beatTaken
    <3>2. ~awTaken /\ BurstDebt = << >> /\ BurstDebt' = << >>
      <4>1. CASE buffer = None
        <5>1. ~arwWrite
          BY <3>1, <4>1 DEF result
        <5>2. buffer' = None \/ ~buffer'.write
          BY <3>1, <4>1, <5>1 DEF BufferAfterBeat
        <5>3. QED
          BY <1>2, <4>1, <5>1, <5>2 DEF BurstDebt
      <4>2. CASE buffer # None
        <5>1. ~buffer.write /\ buffer \in Buffers
          BY <1>1, <3>1, <4>2 DEF result, BridgeTypes
        <5>2. buffer' = None \/ ~buffer'.write
          BY <3>1, <4>2, <5>1 DEF BufferAfterBeat, Buffers
        <5>3. QED
          BY <1>2, <4>2, <5>1, <5>2 DEF BurstDebt, arwTaken
      <4>3. QED
        BY <4>1, <4>2
    <3>3. debts = AllDebts
      BY <3>2 DEF AllDebts
    <3>4. QED
      BY <1>1, <1>3, <3>3
  <2>3. QED
    BY <2>1, <2>2
<1>4. CASE gone
  <2>1. resultValid /\ result.write /\ buffer' = BufferAfterBeat /\ beatTaken(taken, bReady)
    BY <1>4 DEF beatTaken
  <2>2. PICK d \in Debts, rest \in Seq(Debts) :
          /\ AllDebts = Joined(<<d>>, rest) /\ d.id = result.id /\ (result.last <=> d.beats = 1)
          /\ buffer # None => /\ d = [id |-> buffer.id, beats |-> buffer.beat]
                              /\ rest = WaitingDebts(awQueue)
          /\ buffer = None => /\ arwWrite /\ d = DebtOf(arw)
                              /\ rest = WaitingDebts(Tail(awQueue))
    BY <1>1, <2>1, FirstDebt
  <2>3. rest = WaitingDebts(IF awTaken THEN Tail(awQueue) ELSE awQueue)
    BY <2>1, <2>2 DEF arwTaken
  <2>4. /\ wQueue # << >>
        /\ d.beats = 1 => Owes(Tail(wQueue), rest)
        /\ \A e \in Debts : e.id = d.id /\ e.beats = d.beats - 1
                              => Owes(Tail(wQueue), Joined(<<e>>, rest))
    BY <1>1, <2>2, OwesSent
  <2>5. IF d.beats = 1 THEN BurstDebt' = << >>
        ELSE \E e \in Debts : e.id = d.id /\ e.beats = d.beats - 1 /\ BurstDebt' = <<e>>
    <3>1. CASE buffer = None
      <4>1. arw \in Requests /\ arwWrite /\ d.id = arw.id /\ d.beats = arw.len + 1
        BY <1>1, <2>1, <2>2, <3>1, ArwTypes DEF resultValid, DebtOf
      <4>2. CASE arw.len = 0
        BY <1>2, <2>1, <3>1, <4>1, <4>2 DEF BufferAfterBeat
      <4>3. CASE arw.len # 0
        <5> DEFINE e == [id |-> arw.id, beats |-> arw.len]
        <5>1. /\ buffer' \in Buffers /\ buffer'.write
              /\ buffer'.id = arw.id /\ buffer'.beat = arw.len
          BY <2>1, <3>1, <4>1, <4>3 DEF BufferAfterBeat, Buffers, Requests
        <5>2. BurstDebt' = <<e>>
          BY <1>2, <5>1, BridgeAssumption
        <5>3. e \in Debts /\ e.id = d.id /\ e.beats = d.beats - 1 /\ d.beats # 1
          BY <4>1, <4>3 DEF Debts, Requests
        <5> HIDE DEF e
        <5>4. QED
          BY <5>2, <5>3
      <4>4. QED
        BY <4>2, <4>3
    <3>2. CASE buffer # None
      <4>1. buffer \in Buffers /\ buffer.write /\ d.id = buffer.id /\ d.beats = buffer.beat
        BY <1>1, <2>1, <2>2, <3>2 DEF BridgeTypes, result
      <4>2. CASE buffer.beat = 1
        BY <1>2, <2>1, <3>2, <4>1, <4>2 DEF BufferAfterBeat
      <4>3. CASE buffer.beat # 1
        <5> DEFINE e == [id |-> buffer.id, beats |-> buffer.beat - 1]
        <5>1. result.addr \in Int /\ buffer.beat - 1 \in Nat \ {0}
          BY <1>1, <2>1, <4>1, <4>3, BufferTypes DEF Buffers
        <5>2. /\ buffer' \in Buffers /\ buffer'.write
              /\ buffer'.id = buffer.id /\ buffer'.beat = buffer.beat - 1
          <6>1. buffer' = [buffer EXCEPT !.beat = @ - 1, !.addr = result.addr]
            BY <2>1, <3>2, <4>3 DEF BufferAfterBeat
          <6>2. QED
            BY <4>1, <5>1, <6>1 DEF Buffers
        <5>3. BurstDebt' = <<e>>
          BY <1>2, <5>2, BridgeAssumption
        <5>4. e \in Debts /\ e.id = d.id /\ e.beats = d.beats - 1 /\ d.beats # 1
          BY <4>1, <4>3, <5>1 DEF Debts, Buffers
        <5> HIDE DEF e
        <5>5. QED
          BY <5>3, <5>4
      <4>4. QED
        BY <4>2, <4>3
    <3>3. QED
      BY <3>1, <3>2
  <2>6. debts = Joined(BurstDebt', rest)
    BY <2>3
  <2> HIDE DEF debts
  <2>7. Owes(Tail(wQueue), debts)
    <3>1. CASE d.beats = 1
      <4>1. debts = rest
        BY <2>5, <2>6, <3>1, JoinedEmpty
      <4>2. QED
        BY <2>4, <3>1, <4>1
    <3>2. CASE d.beats # 1
      BY <2>4, <2>5, <2>6, <3>2
    <3>3. QED
      BY <3>1, <3>2
  <2>8. QED
    BY <1>4, <2>4, <2>7 DEF debts
<1>5. QED
  BY <1>3, <1>4

\* At reset there are no data and nothing is owed.
LEMMA DataInit ==
  Init => DataInv
<1> SUFFICES ASSUME Init
             PROVE  DataInv
  OBVIOUS
<1>1. BridgeTypes /\ wQueue = << >> /\ awQueue = << >> /\ buffer = None
  BY TypesInit DEF Init
<1>2. wQueue \in Seq(WBeats)
  BY <1>1, EmptySeq
<1>3. AllDebts \in Seq(Debts) /\ AllDebts = WaitingDebts(awQueue)
  BY <1>1, BurstDebtTypes
<1>4. Len(AllDebts) = 0 /\ Len(wQueue) = 0
  <2>1. Len(WaitingDebts(awQueue)) = Len(awQueue)
    BY <1>1, WaitingDebtsTypes DEF BridgeTypes
  <2>2. QED
    BY <1>1, <1>3, <2>1
<1>5. Owes(wQueue, AllDebts)
  <2> DEFINE from == [k \in 1..Len(AllDebts) |-> 0]
  <2>1. from \in [1..Len(AllDebts) -> Int]
    OBVIOUS
  <2>2. 1..Len(AllDebts) = {} /\ 1..(Len(AllDebts) - 1) = {}
    BY <1>4
  <2> HIDE DEF from
  <2>3. Blocks(from, wQueue, AllDebts)
    BY <1>4, <2>2 DEF Blocks
  <2>4. QED
    BY <2>1, <2>3 DEF Owes
<1>6. QED
  BY <1>1, <1>2, <1>5 DEF DataInv

\* The beats the master queues for a request.
LEMMA WriteBeatsTypes ==
  ASSUME NEW req \in WriteReqs, NEW data \in [1..(req.len + 1) -> Values]
  PROVE  /\ WriteBeats(req, data) \in Seq(WBeats)
         /\ Len(WriteBeats(req, data)) = DebtOf(req).beats
         /\ \A j \in 1..DebtOf(req).beats :
              /\ WriteBeats(req, data)[j].id = DebtOf(req).id
              /\ WriteBeats(req, data)[j].last <=> j = DebtOf(req).beats
<1>1. req.id \in Ids /\ req.len + 1 \in Nat /\ DebtOf(req).id = req.id
      /\ DebtOf(req).beats = req.len + 1
  BY BridgeAssumption DEF Requests, DebtOf
<1>2. WriteBeats(req, data) \in [1..(req.len + 1) -> WBeats]
  BY <1>1 DEF WriteBeats, WBeats
<1>3. WriteBeats(req, data) \in Seq(WBeats)
  BY <1>1, <1>2, SeqDef
<1>4. Len(WriteBeats(req, data)) = req.len + 1
  BY <1>1, <1>2, <1>3, LenProperties
<1>5. ASSUME NEW j \in 1..(req.len + 1)
      PROVE  /\ WriteBeats(req, data)[j].id = req.id
             /\ WriteBeats(req, data)[j].last <=> j = req.len + 1
  <2> DEFINE v == j = req.len + 1
  <2>1. WriteBeats(req, data)[j] = [data |-> data[j], last |-> v, id |-> req.id]
    BY DEF WriteBeats
  <2> HIDE DEF v
  <2>2. WriteBeats(req, data)[j].id = req.id /\ WriteBeats(req, data)[j].last = v
    BY <2>1
  <2>3. QED
    BY <2>2 DEF v
<1>6. QED
  BY <1>1, <1>3, <1>4, <1>5

\* A debt joins the last.
LEMMA JoinedLast ==
  ASSUME NEW S, NEW s \in Seq(S), NEW t \in Seq(S), NEW d \in S
  PROVE  Joined(s, Append(t, d)) = Append(Joined(s, t), d)
<1> DEFINE last == <<d>>
           all  == Joined(s, t)
<1>1. last \in Seq(S) /\ all \in Seq(S)
  BY JoinedSeq
<1>2. Append(t, d) = Joined(t, last) /\ Append(all, d) = Joined(all, last)
  BY <1>1, AppendIsConcat DEF Joined
<1> HIDE DEF last
<1>3. Joined(Joined(s, t), last) = Joined(s, Joined(t, last))
  BY <1>1, JoinedAssociative
<1>4. QED
  BY <1>2, <1>3

\* A cycle keeps the data in step with the debts.
LEMMA DataCycle ==
  ASSUME DataInv, NEW ready \in BOOLEAN, NEW bReady \in BOOLEAN, NEW rest,
         Cycle(ready, bReady, rest)
  PROVE  DataInv'
<1> DEFINE taken   == cmdValid /\ ready
           awTaken == arwTaken(taken, bReady) /\ arwWrite
           gone    == beatTaken(taken, bReady) /\ result.write
           aws     == Drop(awTaken, awQueue)
           ws      == Drop(gone, wQueue)
           debts   == Joined(BurstDebt', WaitingDebts(aws))
<1>1. BridgeTypes /\ BridgeTypes' /\ wQueue \in Seq(WBeats)
  BY TypesCycle DEF DataInv
<1>2. taken \in BOOLEAN /\ (taken => resultValid)
  BY DEF cmdValid
<1>3. buffer' = IF beatTaken(taken, bReady) THEN BufferAfterBeat ELSE buffer
  BY DEF Cycle, Unburstify
<1>4. Owes(ws, debts) /\ (gone => wQueue # << >>)
  BY <1>2, <1>3, DebtsPaid DEF Drop
<1>5. ws \in Seq(WBeats)
  BY <1>1, <1>4, HeadTailProperties DEF Drop
<1>6. aws \in Seq(WriteReqs)
  <2>1. awTaken => awQueue # << >>
    BY <1>1, TakenOffered
  <2>2. QED
    BY <1>1, <2>1, HeadTailProperties DEF Drop, BridgeTypes
<1>7. \/ awQueue' = aws /\ wQueue' = ws
      \/ \E req \in WriteReqs : \E data \in [1..(req.len + 1) -> Values] :
           awQueue' = Append(aws, req) /\ wQueue' = ws \o WriteBeats(req, data)
  BY DEF Cycle, IssueWrite
<1>8. AllDebts' = Joined(BurstDebt', WaitingDebts(awQueue'))
  BY DEF AllDebts, WaitingDebts
<1>9. BurstDebt' \in Seq(Debts)
  <2>1. BurstDebt' = IF buffer' = None \/ ~buffer'.write THEN << >>
                     ELSE <<[id |-> buffer'.id, beats |-> buffer'.beat]>>
    BY DEF BurstDebt
  <2>2. CASE buffer' = None \/ ~buffer'.write
    <3>1. << >> \in Seq(Debts)
      BY EmptySeq
    <3>2. QED
      BY <2>1, <2>2, <3>1
  <2>3. CASE ~(buffer' = None \/ ~buffer'.write)
    <3>1. [id |-> buffer'.id, beats |-> buffer'.beat] \in Debts
      BY <1>1, <2>3 DEF BridgeTypes, Buffers, Debts
    <3>2. QED
      BY <2>1, <2>3, <3>1
  <2>4. QED
    BY <2>2, <2>3
<1>10. WaitingDebts(aws) \in Seq(Debts)
  BY <1>6, WaitingDebtsTypes
<1>11. debts \in Seq(Debts)
  BY <1>9, <1>10, JoinedSeq
<1> HIDE DEF taken, awTaken, gone, aws, ws
<1>12. CASE awQueue' = aws /\ wQueue' = ws
  <2>1. Owes(wQueue, AllDebts)'
    BY <1>4, <1>8, <1>12 DEF Owes, Blocks
  <2>2. QED
    BY <1>1, <1>5, <1>12, <2>1 DEF DataInv
<1>13. ASSUME NEW req \in WriteReqs, NEW data \in [1..(req.len + 1) -> Values],
              awQueue' = Append(aws, req), wQueue' = ws \o WriteBeats(req, data)
       PROVE  DataInv'
  <2> DEFINE d     == DebtOf(req)
             beats == WriteBeats(req, data)
  <2>1. /\ beats \in Seq(WBeats) /\ Len(beats) = d.beats
        /\ \A j \in 1..d.beats : beats[j].id = d.id /\ (beats[j].last <=> j = d.beats)
    BY WriteBeatsTypes
  <2>2. d \in Debts
    BY <1>6, WaitingDebtsTypes
  <2>3. WaitingDebts(awQueue') = Append(WaitingDebts(aws), d)
    BY <1>6, <1>13, WaitingDebtsAppend
  <2> HIDE DEF d, beats
  <2>4. AllDebts' = Append(debts, d)
    BY <1>8, <1>9, <1>10, <2>2, <2>3, JoinedLast
  <2> HIDE DEF debts
  <2>5. ws \o beats \in Seq(WBeats) /\ Owes(ws \o beats, Append(debts, d))
    BY <1>4, <1>5, <1>11, <2>1, <2>2, OwesIssued
  <2>6. wQueue' = ws \o beats
    BY <1>13 DEF beats
  <2>7. Owes(wQueue', AllDebts')
    BY <2>4, <2>5, <2>6
  <2>8. Owes(wQueue, AllDebts)'
    BY <2>7 DEF Owes, Blocks
  <2>9. QED
    BY <1>1, <2>5, <2>6, <2>8 DEF DataInv
<1>14. QED
  BY <1>7, <1>12, <1>13

\* So does a step.
LEMMA DataStep ==
  DataInv /\ [Next]_vars => DataInv'
<1> SUFFICES ASSUME DataInv, [Next]_vars
             PROVE  DataInv'
  OBVIOUS
<1>1. CASE Next
  <2>1. PICK ready \in ReadyFor(cmdValid), bReady \in ReadyFor(writeRsp # None),
             rest \in Port!Returned(outstanding) : Cycle(ready, bReady, rest)
    BY <1>1 DEF Next
  <2>2. ready \in BOOLEAN /\ bReady \in BOOLEAN
    BY DEF ReadyFor
  <2>3. QED
    BY <2>1, <2>2, DataCycle
<1>2. CASE UNCHANGED vars
  <2>1. UNCHANGED <<locked, maskLocked, buffer, writeRsp, ar, awQueue, awValid, wQueue>>
    BY <1>2 DEF vars, bridgeVars, masterVars
  <2>2. BridgeTypes'
    BY <2>1 DEF DataInv, BridgeTypes
  <2>3. AllDebts' = AllDebts
    BY <2>1 DEF AllDebts, BurstDebt, WaitingDebts
  <2>4. Owes(wQueue, AllDebts)'
    BY <2>1, <2>3 DEF DataInv, Owes, Blocks
  <2>5. QED
    BY <2>1, <2>2, <2>4 DEF DataInv
<1>3. QED
  BY <1>1, <1>2

\* A write beat goes to the controller with the data the master sent for it,
\* although the bridge joins address and data beat by beat and never looks at
\* WLAST: right burst, last beat with last data.
THEOREM DataAlwaysBelong == Spec => []DataBelongs
<1>1. Init => DataInv
  BY DataInit
<1>2. DataInv /\ [Next]_vars => DataInv'
  BY DataStep
<1>3. DataInv => DataBelongs
  <2> SUFFICES ASSUME DataInv, cmdValid, result.write
               PROVE  Head(wQueue).id = result.id /\ Head(wQueue).last = result.last
    BY DEF DataBelongs
  <2>1. BridgeTypes /\ resultValid /\ wQueue \in Seq(WBeats) /\ Owes(wQueue, AllDebts)
    BY DEF DataInv, cmdValid
  <2>2. PICK d \in Debts, rest \in Seq(Debts) :
          AllDebts = Joined(<<d>>, rest) /\ d.id = result.id /\ (result.last <=> d.beats = 1)
    BY <2>1, FirstDebt
  <2>3. wQueue # << >> /\ Head(wQueue).id = d.id /\ (Head(wQueue).last <=> d.beats = 1)
    BY <2>1, <2>2, OwesSent
  <2>4. Head(wQueue).last \in BOOLEAN /\ result.last \in BOOLEAN
    <3>1. Head(wQueue) \in WBeats
      BY <2>1, <2>3, HeadTailProperties
    <3>2. QED
      BY <3>1, ResultLast DEF WBeats
  <2>5. QED
    BY <2>2, <2>3, <2>4
<1>4. QED
  BY <1>1, <1>2, <1>3, PTL DEF Spec
=============================================================================
