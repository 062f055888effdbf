---------------------------- MODULE DemuxProofs -----------------------------
(***************************************************************************)
(* The promises of the demultiplexer, for any number of ports, any look-up *)
(* bits and any number of requests under way.  Two hold for slaves that    *)
(* keep the id of a request and for slaves that do not: a W beat goes      *)
(* where its own AW goes, and a request that was shown to a slave stays as *)
(* it is.  The others are for slaves that all keep the id: the answers to  *)
(* one id come in the order of its requests, the counters are exact and do *)
(* not wrap, and a response that the master was shown stays until the      *)
(* master takes it.                                                        *)
(***************************************************************************)
EXTENDS DemuxSystem, SequenceFacts, FiniteSetTheorems

(***************************************************************************)
(* Beats and the ports they are for.  "owed" lists the ports of the bursts *)
(* that a queue of W beats consists of, the first of which may have begun: *)
(* burst[n] is the burst that beat n belongs to.                           *)
(***************************************************************************)
WBeat == [port : Ports, last : BOOLEAN]

Numbering(burst, queue, owed) ==
  /\ \A n \in 1..Len(queue) : queue[n].port = owed[burst[n]]
  /\ \A n \in 1..(Len(queue) - 1) :
       burst[n + 1] = burst[n] + (IF queue[n].last THEN 1 ELSE 0)
  /\ \A m, n \in 1..Len(queue) :
       m < n => burst[m] <= burst[n] /\ (queue[m].last => burst[m] < burst[n])
  /\ queue # << >> => /\ burst[1] = 1
                      /\ burst[Len(queue)] = Len(owed) /\ queue[Len(queue)].last
  /\ queue = << >> => owed = << >>

Routed(queue, owed) ==
  \E burst \in [1..Len(queue) -> 1..Len(owed)] : Numbering(burst, queue, owed)

\* The first beat is for the first port.
LEMMA RoutedHead ==
  ASSUME NEW queue \in Seq(WBeat), NEW owed \in Seq(Ports), Routed(queue, owed),
         queue # << >>
  PROVE  owed # << >> /\ Head(queue).port = Head(owed)
<1>1. PICK burst \in [1..Len(queue) -> 1..Len(owed)] : Numbering(burst, queue, owed)
  BY DEF Routed
<1>2. Len(queue) \in Nat /\ 1 \in 1..Len(queue) /\ Head(queue) = queue[1]
  BY EmptySeq, LenProperties
<1>3. queue[1].port = owed[burst[1]] /\ burst[1] = 1 /\ burst[1] \in 1..Len(owed)
  BY <1>1, <1>2 DEF Numbering
<1>4. owed # << >> /\ Head(owed) = owed[1]
  BY <1>3, EmptySeq, LenProperties
<1>5. QED
  BY <1>2, <1>3, <1>4

\* A beat is sent; the last one takes its port with it.
LEMMA RoutedSend ==
  ASSUME NEW queue \in Seq(WBeat), NEW owed \in Seq(Ports), Routed(queue, owed),
         queue # << >>
  PROVE  Routed(Tail(queue), IF Head(queue).last THEN Tail(owed) ELSE owed)
<1>1. PICK burst \in [1..Len(queue) -> 1..Len(owed)] : Numbering(burst, queue, owed)
  BY DEF Routed
<1> DEFINE left  == IF Head(queue).last THEN Tail(owed) ELSE owed
           d     == IF queue[1].last THEN 1 ELSE 0
           later == [n \in 1..Len(Tail(queue)) |-> burst[n + 1] - d]
<1>2. /\ Len(queue) \in Nat /\ Len(queue) >= 1 /\ Head(queue) = queue[1]
      /\ Tail(queue) \in Seq(WBeat) /\ Len(Tail(queue)) = Len(queue) - 1
      /\ \A n \in 1..Len(Tail(queue)) : Tail(queue)[n] = queue[n + 1]
  BY EmptySeq, LenProperties, HeadTailProperties
<1>3. owed # << >> /\ Len(owed) \in Nat
  BY RoutedHead, LenProperties
<1>4. /\ left \in Seq(Ports) /\ Len(left) = Len(owed) - d
      /\ \A i \in 1..Len(left) : left[i] = owed[i + d]
  <2>1. CASE queue[1].last
    BY <1>2, <1>3, <2>1, HeadTailProperties
  <2>2. CASE ~queue[1].last
    BY <1>2, <1>3, <2>2, ElementOfSeq
  <2>3. QED
    BY <2>1, <2>2
<1>5. \A n \in 1..Len(queue) : burst[n] \in 1..Len(owed)
  OBVIOUS
<1>6. \A n \in 2..Len(queue) : burst[n] - d \in 1..Len(left)
  <2>1. \A n \in 2..Len(queue) : burst[n] >= 1 + d /\ burst[n] <= Len(owed)
    BY <1>1, <1>2, <1>5 DEF Numbering
  <2>2. QED
    BY <1>3, <1>4, <1>5, <2>1
<1>7. later \in [1..Len(Tail(queue)) -> 1..Len(left)]
  BY <1>2, <1>6
<1>8. Numbering(later, Tail(queue), left)
  <2>1. \A n \in 1..Len(Tail(queue)) : Tail(queue)[n].port = left[later[n]]
    BY <1>1, <1>2, <1>3, <1>4, <1>5, <1>6 DEF Numbering
  <2>2. ASSUME NEW n \in 1..(Len(Tail(queue)) - 1)
        PROVE  later[n + 1] = later[n] + (IF Tail(queue)[n].last THEN 1 ELSE 0)
    <3>1. /\ n + 1 \in 1..(Len(queue) - 1) /\ (n + 1) + 1 \in 1..Len(queue)
          /\ n \in 1..Len(Tail(queue)) /\ n + 1 \in 1..Len(Tail(queue)) /\ d \in Int
      BY <1>2
    <3>2. later[n] = burst[n + 1] - d /\ later[n + 1] = burst[(n + 1) + 1] - d
      BY <3>1
    <3>3. burst[(n + 1) + 1] = burst[n + 1] + (IF queue[n + 1].last THEN 1 ELSE 0)
      BY <1>1, <3>1 DEF Numbering
    <3>4. Tail(queue)[n] = queue[n + 1] /\ burst[n + 1] \in Int
      BY <1>2, <1>5, <3>1
    <3> HIDE DEF later, d
    <3>5. QED
      BY <3>1, <3>2, <3>3, <3>4
  <2>3. \A m, n \in 1..Len(Tail(queue)) :
          m < n => /\ later[m] <= later[n]
                   /\ Tail(queue)[m].last => later[m] < later[n]
    BY <1>1, <1>2, <1>3, <1>5 DEF Numbering
  <2>4. Tail(queue) # << >> =>
          /\ later[1] = 1
          /\ later[Len(Tail(queue))] = Len(left)
          /\ Tail(queue)[Len(Tail(queue))].last
    <3>1. SUFFICES ASSUME Len(Tail(queue)) >= 1
                   PROVE  /\ later[1] = 1
                          /\ later[Len(Tail(queue))] = Len(left)
                          /\ Tail(queue)[Len(Tail(queue))].last
      BY <1>2, EmptySeq, LenProperties
    <3>2. burst[2] = 1 + d
      BY <1>1, <1>2, <3>1 DEF Numbering
    <3>3. QED
      BY <1>1, <1>2, <1>3, <1>4, <1>5, <3>1, <3>2 DEF Numbering
  <2>5. Tail(queue) = << >> => left = << >>
    <3>1. ASSUME Tail(queue) = << >>
          PROVE  Len(left) = 0
      BY <1>1, <1>2, <1>3, <1>4, <3>1 DEF Numbering
    <3>2. QED
      BY <1>4, <3>1, EmptySeq
  <2>6. QED
    BY <2>1, <2>2, <2>3, <2>4, <2>5 DEF Numbering
<1>9. QED
  BY <1>7, <1>8 DEF Routed

\* The beats of a request, as the master queues them.
LEMMA RoutedIssue ==
  ASSUME NEW queue \in Seq(WBeat), NEW owed \in Seq(Ports), Routed(queue, owed),
         NEW req \in Requests
  PROVE  /\ queue \o Beats(req) \in Seq(WBeat)
         /\ Routed(queue \o Beats(req), owed \o <<req.port>>)
<1>1. PICK burst \in [1..Len(queue) -> 1..Len(owed)] : Numbering(burst, queue, owed)
  BY DEF Routed
<1>2. req.port \in Ports /\ req.beats \in Nat /\ req.beats >= 1
  BY RequestsAssumption
<1> DEFINE all  == queue \o Beats(req)
           more == owed \o <<req.port>>
           upto == [n \in 1..Len(all) |->
                      IF n <= Len(queue) THEN burst[n] ELSE Len(owed) + 1]
<1>3. /\ Beats(req) \in Seq(WBeat) /\ Len(Beats(req)) = req.beats
      /\ \A n \in 1..req.beats :
           Beats(req)[n].port = req.port /\ (Beats(req)[n].last <=> n = req.beats)
  <2>1. Beats(req) = [n \in 1..req.beats |-> [port |-> req.port, last |-> n = req.beats]]
    BY DEF Beats
  <2>2. Beats(req) \in [1..req.beats -> WBeat]
    BY <1>2, <2>1 DEF WBeat
  <2>3. Beats(req) \in Seq(WBeat)
    BY <1>2, <2>2, SeqDef
  <2>4. DOMAIN Beats(req) = 1..req.beats
    BY <2>1
  <2>5. Len(Beats(req)) = req.beats
    BY <1>2, <2>3, <2>4, LenProperties
  <2>6. ASSUME NEW n \in 1..req.beats
        PROVE  Beats(req)[n].port = req.port /\ (Beats(req)[n].last <=> n = req.beats)
    <3>1. Beats(req)[n] = [port |-> req.port, last |-> n = req.beats]
      BY <2>1
    <3>2. Beats(req)[n].port = req.port
      BY <3>1
    <3>3. Beats(req)[n].last = (n = req.beats)
      <4> DEFINE v == n = req.beats
      <4>1. Beats(req)[n] = [port |-> req.port, last |-> v]
        BY <3>1
      <4> HIDE DEF v
      <4>2. Beats(req)[n].last = v
        BY <4>1
      <4>3. QED
        BY <4>2 DEF v
    <3>4. QED
      BY <3>2, <3>3, Zenon
  <2>7. QED
    BY <2>3, <2>5, <2>6
<1>4. /\ Len(queue) \in Nat /\ Len(owed) \in Nat
      /\ all \in Seq(WBeat) /\ Len(all) = Len(queue) + req.beats
      /\ \A n \in 1..Len(queue) : all[n] = queue[n]
      /\ \A n \in 1..Len(all) : n > Len(queue) =>
           all[n].port = req.port /\ (all[n].last <=> n = Len(all))
  <2>1. Beats(req) \in Seq(WBeat)
    BY <1>3
  <2>2. /\ all \in Seq(WBeat) /\ Len(all) = Len(queue) + Len(Beats(req))
        /\ \A i \in 1..(Len(queue) + Len(Beats(req))) :
             all[i] = IF i <= Len(queue) THEN queue[i] ELSE Beats(req)[i - Len(queue)]
    <3> HIDE DEF all
    <3>1. all = queue \o Beats(req)
      BY DEF all
    <3>2. QED
      BY <2>1, <3>1, ConcatProperties, Zenon
  <2>3. Len(queue) \in Nat /\ Len(owed) \in Nat /\ Len(all) = Len(queue) + req.beats
    BY <1>3, <2>2, LenProperties
  <2> HIDE DEF all
  <2>4. ASSUME NEW n \in 1..Len(queue)
        PROVE  all[n] = queue[n]
    <3>1. n <= Len(queue) /\ n \in 1..(Len(queue) + Len(Beats(req)))
      BY <1>2, <1>3, <2>3
    <3>2. QED
      BY <2>2, <3>1
  <2>5. ASSUME NEW n \in 1..Len(all), n > Len(queue)
        PROVE  all[n].port = req.port /\ (all[n].last <=> n = Len(all))
    <3>1. /\ n - Len(queue) \in 1..req.beats
          /\ (n - Len(queue) = req.beats) <=> (n = Len(all))
      BY <1>2, <2>3, <2>5, SMTT(30)
    <3>2. all[n] = Beats(req)[n - Len(queue)]
      BY <1>2, <1>3, <2>2, <2>3, <2>5
    <3>3. /\ Beats(req)[n - Len(queue)].port = req.port
          /\ Beats(req)[n - Len(queue)].last <=> n - Len(queue) = req.beats
      BY <1>3, <3>1
    <3>4. QED
      BY <3>1, <3>2, <3>3
  <2>6. QED
    BY <2>2, <2>3, <2>4, <2>5
<1>5. /\ more \in Seq(Ports) /\ Len(more) = Len(owed) + 1
      /\ \A i \in 1..Len(owed) : more[i] = owed[i]
      /\ more[Len(owed) + 1] = req.port
  <2>1. <<req.port>> \in Seq(Ports) /\ Len(<<req.port>>) = 1 /\ <<req.port>>[1] = req.port
    BY <1>2
  <2>2. /\ more \in Seq(Ports) /\ Len(more) = Len(owed) + Len(<<req.port>>)
        /\ \A i \in 1..(Len(owed) + Len(<<req.port>>)) :
             more[i] = IF i <= Len(owed) THEN owed[i] ELSE <<req.port>>[i - Len(owed)]
    BY <2>1, ConcatProperties
  <2>3. QED
    BY <1>4, <2>1, <2>2
<1>6. \A n \in 1..Len(queue) : burst[n] \in 1..Len(owed)
  OBVIOUS
<1>7. upto \in [1..Len(all) -> 1..Len(more)]
  BY <1>4, <1>5, <1>6
<1>8. \A n \in 1..Len(all) :
        upto[n] = IF n <= Len(queue) THEN burst[n] ELSE Len(owed) + 1
  OBVIOUS
<1> HIDE DEF all, more, upto
<1>9. Numbering(upto, all, more)
  <2>1. ASSUME NEW n \in 1..Len(all)
        PROVE  all[n].port = more[upto[n]]
    <3>1. CASE n <= Len(queue)
      <4>1. n \in 1..Len(queue)
        BY <1>4, <3>1
      <4>2. queue[n].port = owed[burst[n]]
        BY <1>1, <4>1 DEF Numbering
      <4>3. QED
        BY <1>4, <1>5, <1>6, <1>8, <3>1, <4>1, <4>2
    <3>2. CASE n > Len(queue)
      BY <1>4, <1>5, <1>8, <3>2
    <3>3. QED
      BY <1>4, <3>1, <3>2
  <2>2. queue = << >> => Len(queue) = 0 /\ Len(owed) = 0
    BY <1>1, EmptySeq DEF Numbering
  <2>3. queue # << >> => Len(queue) >= 1
    BY <1>4, EmptySeq
  <2>4. ASSUME NEW n \in 1..(Len(all) - 1)
        PROVE  upto[n + 1] = upto[n] + (IF all[n].last THEN 1 ELSE 0)
    <3>1. n \in 1..Len(all) /\ n + 1 \in 1..Len(all) /\ n # Len(all)
      BY <1>2, <1>4
    <3>2. CASE n < Len(queue)
      <4>1. n \in 1..(Len(queue) - 1) /\ n <= Len(queue) /\ n + 1 <= Len(queue)
        BY <1>4, <3>2
      <4>2. burst[n + 1] = burst[n] + (IF queue[n].last THEN 1 ELSE 0)
        BY <1>1, <4>1 DEF Numbering
      <4>3. QED
        BY <1>4, <1>8, <3>1, <4>1, <4>2
    <3>3. CASE n = Len(queue)
      <4>1. queue[n].last /\ burst[n] = Len(owed)
        BY <1>1, <2>3, <3>3, EmptySeq DEF Numbering
      <4>2. n \in 1..Len(queue) /\ n + 1 > Len(queue)
        BY <1>4, <3>1, <3>3
      <4>3. upto[n] = Len(owed) /\ upto[n + 1] = Len(owed) + 1
        BY <1>4, <1>8, <3>1, <4>1, <4>2
      <4>4. all[n].last
        BY <1>4, <4>1, <4>2
      <4>5. QED
        BY <4>3, <4>4
    <3>4. CASE n > Len(queue)
      <4>1. ~all[n].last
        BY <1>4, <3>1, <3>4
      <4>2. QED
        BY <1>4, <1>8, <3>1, <3>4, <4>1
    <3>5. QED
      BY <1>4, <3>2, <3>3, <3>4
  <2>5. ASSUME NEW m \in 1..Len(all), NEW n \in 1..Len(all), m < n
        PROVE  upto[m] <= upto[n] /\ (all[m].last => upto[m] < upto[n])
    <3>1. CASE n <= Len(queue)
      <4>1. m \in 1..Len(queue) /\ n \in 1..Len(queue)
        BY <1>4, <2>5, <3>1
      <4>2. burst[m] <= burst[n] /\ (queue[m].last => burst[m] < burst[n])
        BY <1>1, <2>5, <4>1 DEF Numbering
      <4>3. QED
        BY <1>4, <1>8, <4>1, <4>2
    <3>2. CASE m <= Len(queue) /\ n > Len(queue)
      <4>1. m \in 1..Len(queue) /\ burst[m] \in 1..Len(owed)
        BY <1>4, <1>6, <3>2
      <4>2. upto[m] = burst[m] /\ upto[n] = Len(owed) + 1
        BY <1>4, <1>8, <3>2
      <4>3. QED
        BY <1>4, <4>1, <4>2
    <3>3. CASE m > Len(queue)
      <4>1. ~all[m].last
        BY <1>4, <2>5, <3>3
      <4>2. upto[m] = Len(owed) + 1 /\ upto[n] = Len(owed) + 1
        BY <1>4, <1>8, <2>5, <3>3
      <4>3. QED
        BY <1>4, <4>1, <4>2
    <3>4. QED
      BY <1>4, <3>1, <3>2, <3>3
  <2>6. upto[1] = 1
    <3>1. 1 \in 1..Len(all)
      BY <1>2, <1>4
    <3>2. queue # << >> => burst[1] = 1
      BY <1>1 DEF Numbering
    <3>3. QED
      BY <1>4, <1>8, <2>2, <2>3, <3>1, <3>2
  <2>7. upto[Len(all)] = Len(more) /\ all[Len(all)].last
    <3>1. Len(all) \in 1..Len(all) /\ Len(all) > Len(queue) /\ ~(Len(all) <= Len(queue))
      BY <1>2, <1>4
    <3>2. upto[Len(all)] = Len(owed) + 1
      BY <1>8, <3>1, Zenon
    <3>3. all[Len(all)].last
      BY <1>4, <3>1, Zenon
    <3>4. QED
      BY <1>5, <3>2, <3>3
  <2>8. all # << >>
    BY <1>2, <1>4, EmptySeq
  <2>9. QED
    BY <2>1, <2>4, <2>5, <2>6, <2>7, <2>8 DEF Numbering
<1>10. QED
  BY <1>4, <1>7, <1>9 DEF Routed, all, more

(***************************************************************************)
(* The ports of the writes that pass through the stages.                   *)
(***************************************************************************)
\* The ports of three stages, the FIFO, the spill register and the master, after
\* some have moved on from each to the next and the first may have left.
Stages(fifo, rest, offer, fill, offer2, new, pushed, left) ==
  /\ fifo \in Seq(Ports) /\ rest \in Seq(Ports) /\ offer \in Seq(Ports)
  /\ fill \in Seq(Ports) /\ offer2 \in Seq(Ports) /\ new \in Seq(Ports)
  /\ pushed \in Seq(Ports) /\ left \in Seq(Ports)
  /\ Joined(pushed, left) = Joined(fifo, rest)
  /\ Joined(fill, offer2) = Joined(offer, new)

\* What has moved on is still there, in the same order.
LEMMA StagesMove ==
  ASSUME NEW fifo, NEW rest, NEW offer, NEW fill, NEW offer2, NEW new,
         NEW pushed, NEW left, Stages(fifo, rest, offer, fill, offer2, new, pushed, left)
  PROVE  /\ Joined(pushed, Joined(Joined(left, fill), offer2))
              = Joined(Joined(fifo, Joined(rest, offer)), new)
         /\ pushed # << >> => Joined(Tail(pushed), Joined(Joined(left, fill), offer2))
                                = Joined(Tail(Joined(fifo, Joined(rest, offer))), new)
<1> USE JoinedSeq DEF Stages
<1>1. Joined(Joined(left, fill), offer2) = Joined(Joined(left, offer), new)
  <2>1. Joined(Joined(left, fill), offer2) = Joined(left, Joined(fill, offer2))
    BY JoinedAssociative
  <2>2. Joined(left, Joined(offer, new)) = Joined(Joined(left, offer), new)
    BY JoinedAssociative
  <2>3. QED
    BY <2>1, <2>2
<1>2. Joined(pushed, Joined(left, offer)) = Joined(fifo, Joined(rest, offer))
  <2>1. Joined(Joined(pushed, left), offer) = Joined(pushed, Joined(left, offer))
    BY JoinedAssociative
  <2>2. Joined(Joined(fifo, rest), offer) = Joined(fifo, Joined(rest, offer))
    BY JoinedAssociative
  <2>3. QED
    BY <2>1, <2>2
<1>3. Joined(left, offer) \in Seq(Ports)
  OBVIOUS
<1>4. Joined(Joined(pushed, Joined(left, offer)), new)
        = Joined(pushed, Joined(Joined(left, offer), new))
  BY <1>3, JoinedAssociative
<1>5. ASSUME pushed # << >>
      PROVE  Joined(Tail(pushed), Joined(Joined(left, fill), offer2))
               = Joined(Tail(Joined(fifo, Joined(rest, offer))), new)
  <2> DEFINE after == Tail(pushed)
  <2>1. after \in Seq(Ports)
    BY <1>5, HeadTailProperties
  <2>2. Tail(Joined(pushed, Joined(left, offer))) = Joined(after, Joined(left, offer))
    BY <1>3, <1>5, JoinedTail
  <2> HIDE DEF after
  <2>3. Joined(Joined(after, Joined(left, offer)), new)
          = Joined(after, Joined(Joined(left, offer), new))
    BY <1>3, <2>1, JoinedAssociative
  <2>4. Joined(after, Joined(Joined(left, fill), offer2))
          = Joined(Tail(Joined(fifo, Joined(rest, offer))), new)
    BY <1>1, <1>2, <2>2, <2>3
  <2>5. QED
    BY <2>4 DEF after
<1>6. QED
  BY <1>1, <1>2, <1>4, <1>5

(***************************************************************************)
(* The spill register: its requests, oldest first, and how a cycle moves   *)
(* them.                                                                   *)
(***************************************************************************)
HeldPorts(b, full, a) ==
  IF b # None THEN IF full THEN <<b.port, a.port>> ELSE <<b.port>>
  ELSE IF full THEN <<a.port>> ELSE << >>

OfferedPort(req) == IF req = None THEN << >> ELSE <<req.port>>

\* Its ports are a sequence, which starts with the port it shows.
LEMMA HeldIsSeq ==
  ASSUME NEW a \in Requests, NEW full \in BOOLEAN, NEW b \in Requests \cup {None}
  PROVE  /\ HeldPorts(b, full, a) \in Seq(Ports)
         /\ OfferedPort(b) \in Seq(Ports)
         /\ full \/ b # None => /\ HeldPorts(b, full, a) # << >>
                                /\ Head(HeldPorts(b, full, a)) = (IF b # None THEN b ELSE a).port
<1>1. a.port \in Ports /\ (b # None => b.port \in Ports)
  BY RequestsAssumption
<1>2. \A p, q \in Ports : /\ <<p, q>> \in Seq(Ports) /\ <<p>> \in Seq(Ports)
                          /\ << >> \in Seq(Ports) /\ Head(<<p, q>>) = p /\ Head(<<p>>) = p
                          /\ <<p, q>> # << >> /\ <<p>> # << >>
  OBVIOUS
<1>3. OfferedPort(b) \in Seq(Ports)
  BY <1>1, <1>2 DEF OfferedPort
<1>4. CASE b # None /\ full
  BY <1>1, <1>2, <1>3, <1>4 DEF HeldPorts
<1>5. CASE b # None /\ ~full
  BY <1>1, <1>2, <1>3, <1>5 DEF HeldPorts
<1>6. CASE b = None
  BY <1>1, <1>2, <1>3, <1>6 DEF HeldPorts
<1>7. QED
  BY <1>4, <1>5, <1>6

Clocked(a, full, b, input, done, a2, full2, b2) ==
  LET fill  == input # None /\ (~full \/ b = None)
      drain == full /\ b = None
  IN  /\ a \in Requests /\ full \in BOOLEAN /\ b \in Requests \cup {None}
      /\ input \in Requests \cup {None} /\ done \in BOOLEAN
      /\ done => full \/ b # None
      /\ a2 = IF fill THEN input ELSE a
      /\ full2 \in BOOLEAN /\ (full2 <=> fill \/ (full /\ ~drain))
      /\ b2 = IF drain /\ ~done THEN a ELSE IF b # None /\ done THEN None ELSE b

Moved(a, full, b, input, done, a2, full2, b2) ==
  /\ a2 \in Requests /\ b2 \in Requests \cup {None}
  /\ HeldPorts(b2, full2, a2)
       = Joined(IF done THEN Tail(HeldPorts(b, full, a)) ELSE HeldPorts(b, full, a),
                IF input # None /\ (~full \/ b = None) THEN <<input.port>> ELSE << >>)
  /\ (full \/ b # None) /\ ~done => /\ full2 \/ b2 # None
                                    /\ (IF b2 # None THEN b2 ELSE a2)
                                         = (IF b # None THEN b ELSE a)

\* A clock of the spill register takes what it accepts and gives what it shows.
LEMMA SpillMoves ==
  ASSUME NEW a, NEW full, NEW b, NEW input, NEW done, NEW a2, NEW full2, NEW b2,
         Clocked(a, full, b, input, done, a2, full2, b2)
  PROVE  Moved(a, full, b, input, done, a2, full2, b2)
<1>1. None \notin Requests
  BY RequestsAssumption
<1>2. \A p, q : /\ Tail(<<p, q>>) = <<q>> /\ Tail(<<p>>) = << >>
                /\ Joined(<<p>>, <<q>>) = <<p, q>>
                /\ Joined(<<p>>, << >>) = <<p>> /\ Joined(<< >>, <<q>>) = <<q>>
                /\ Joined(<<p, q>>, << >>) = <<p, q>> /\ Joined(<< >>, << >>) = << >>
  <2>1. ASSUME NEW p, NEW q
        PROVE  Joined(<<p>>, <<q>>) = <<p, q>>
    <3> DEFINE S    == {p, q}
               both == <<p>> \o <<q>>
    <3>1. /\ <<p>> \in Seq(S) /\ <<q>> \in Seq(S) /\ <<p, q>> \in Seq(S)
          /\ Len(<<p>>) = 1 /\ Len(<<q>>) = 1 /\ Len(<<p, q>>) = 2
      OBVIOUS
    <3>2. /\ both \in Seq(S) /\ Len(both) = 2
          /\ \A i \in 1..2 : both[i] = IF i <= 1 THEN <<p>>[i] ELSE <<q>>[i - 1]
      BY <3>1, ConcatProperties
    <3> HIDE DEF S, both
    <3>3. \A i \in 1..2 : both[i] = <<p, q>>[i]
      BY <3>2
    <3>4. both = <<p, q>>
      BY <3>1, <3>2, <3>3, SeqEqual
    <3>5. QED
      BY <3>4 DEF Joined, both
  <2>2. \A p, q : Tail(<<p, q>>) = <<q>> /\ Tail(<<p>>) = << >>
    OBVIOUS
  <2>3. \A p, q : Joined(<<p>>, << >>) = <<p>> /\ Joined(<<p, q>>, << >>) = <<p, q>>
    BY DEF Joined
  <2>4. \A q : Joined(<< >>, <<q>>) = <<q>> /\ Joined(<< >>, << >>) = << >>
    BY DEF Joined
  <2>5. QED
    BY <2>1, <2>2, <2>3, <2>4
<1> DEFINE fill == input # None /\ (~full \/ b = None)
<1>3. /\ a \in Requests /\ full \in BOOLEAN /\ b \in Requests \cup {None}
      /\ input \in Requests \cup {None} /\ done \in BOOLEAN /\ full2 \in BOOLEAN
  BY DEF Clocked
<1>4. CASE b # None
  <2>1. /\ a2 = (IF fill THEN input ELSE a) /\ (fill <=> input # None /\ ~full)
        /\ full2 <=> full \/ fill
        /\ b2 = IF done THEN None ELSE b
    BY <1>4 DEF Clocked
  <2>2. QED
    BY <1>1, <1>2, <1>3, <1>4, <2>1 DEF HeldPorts, Moved
<1>5. CASE b = None /\ full
  <2>1. /\ a2 = (IF fill THEN input ELSE a) /\ (fill <=> input # None)
        /\ full2 <=> fill
        /\ b2 = IF done THEN None ELSE a
    BY <1>5 DEF Clocked
  <2>2. QED
    BY <1>1, <1>2, <1>3, <1>5, <2>1 DEF HeldPorts, Moved
<1>6. CASE b = None /\ ~full
  <2>1. /\ a2 = (IF fill THEN input ELSE a) /\ (fill <=> input # None)
        /\ full2 <=> fill
        /\ b2 = None /\ ~done
    BY <1>6 DEF Clocked
  <2>2. QED
    BY <1>1, <1>2, <1>3, <1>6, <2>1 DEF HeldPorts, Moved
<1>7. QED
  BY <1>3, <1>4, <1>5, <1>6

(***************************************************************************)
(* The W beats.                                                            *)
(***************************************************************************)
\* The write path and the part of the master that belongs to it have values of
\* their types; a valid has something to show.
WriteTypes ==
  /\ aw_a \in Requests /\ aw_aFull \in BOOLEAN /\ aw_b \in Requests \cup {None}
  /\ aw \in WriteReqs \cup {None}
  /\ lock_aw_valid \in BOOLEAN /\ (lock_aw_valid => AwSpill!Valid)
  /\ w_fifo \in Seq(Ports)
  /\ wQueue \in Seq(WBeat) /\ wValid \in BOOLEAN /\ (wValid => wQueue # << >>)

AwHeld == HeldPorts(aw_b, aw_aFull, aw_a)

\* Those whose port is not in the FIFO yet: a request that waits with its valid
\* locked has been pushed.
AwUndecided == IF lock_aw_valid THEN Tail(AwHeld) ELSE AwHeld

\* The ports of all writes that still have W beats to come, oldest first.
Owed == Joined(w_fifo, Joined(AwUndecided, OfferedPort(aw)))

RoutingInv == WriteTypes /\ Routed(wQueue, Owed)

\* The lists of ports are sequences, and the AW shown is the first of those held.
LEMMA AwHeldTypes ==
  ASSUME WriteTypes
  PROVE  /\ AwHeld \in Seq(Ports) /\ AwUndecided \in Seq(Ports) /\ OfferedPort(aw) \in Seq(Ports)
         /\ Owed \in Seq(Ports)
         /\ AwSpill!Valid => AwHeld # << >> /\ Head(AwHeld) = slv_aw.port
<1>1. AwHeld \in Seq(Ports) /\ (AwSpill!Valid => AwHeld # << >> /\ Head(AwHeld) = slv_aw.port)
  BY HeldIsSeq DEF WriteTypes, AwHeld, slv_aw, AwSpill!Valid, AwSpill!Data
<1>2. OfferedPort(aw) \in Seq(Ports)
  <2>1. aw \in Requests \cup {None}
    BY RequestsAssumption DEF WriteTypes
  <2>2. Requests # {}
    BY RequestsAssumption
  <2>3. QED
    BY <2>1, <2>2, HeldIsSeq
<1>3. AwUndecided \in Seq(Ports)
  BY <1>1, HeadTailProperties DEF WriteTypes, AwUndecided
<1>4. w_fifo \in Seq(Ports)
  BY DEF WriteTypes
<1>5. QED
  BY <1>1, <1>2, <1>3, <1>4, JoinedSeq DEF Owed

\* What the master issues in a cycle: a request and its beats, or nothing.
Issued(old, accepted, new, rest, queue, req) ==
  \/ /\ req = None /\ queue = rest
     /\ new = IF old # None /\ ~accepted THEN old ELSE None
  \/ /\ req \in WriteReqs /\ queue = rest \o Beats(req)
     /\ new = req /\ (old = None \/ accepted)

\* How a cycle changes the write path.
LEMMA WriteStep ==
  ASSUME WriteTypes, NEW awReady \in BOOLEAN, NEW taken \in BOOLEAN, NEW last,
         NEW req, NEW rest, NEW queue,
         taken => ~w_fifo_empty,
         AwSpill!Clock(aw, aw_done(awReady)),
         lock_aw_valid' = (aw_valid /\ ~awReady),
         WFifoClock(taken, last),
         Issued(aw, AwSpill!Ready, aw', rest, queue, req)
  PROVE  /\ aw_a' \in Requests /\ aw_aFull' \in BOOLEAN /\ aw_b' \in Requests \cup {None}
         /\ aw' \in WriteReqs \cup {None}
         /\ lock_aw_valid' \in BOOLEAN /\ (lock_aw_valid' => AwSpill!Valid')
         /\ (lock_aw_valid' => slv_aw' = slv_aw)
         /\ w_fifo' \in Seq(Ports)
         /\ Owed' = Joined(IF taken /\ last THEN Tail(Owed) ELSE Owed, OfferedPort(req))
<1> DEFINE fill   == aw # None /\ AwSpill!Ready
           drain  == aw_aFull /\ aw_b = None
           done   == aw_done(awReady)
           filled == IF fill THEN <<aw.port>> ELSE << >>
           push   == aw_push
           left   == IF push THEN Tail(AwUndecided) ELSE AwUndecided
           pushed == IF push THEN Append(w_fifo, slv_aw.port) ELSE w_fifo
<1>1. aw_valid => AwSpill!Valid
  BY DEF WriteTypes, aw_valid, aw_push
<1>2. aw \in Requests \cup {None} /\ None \notin Requests /\ WriteReqs \subseteq Requests
  BY RequestsAssumption DEF WriteTypes
<1>3. /\ aw_a' \in Requests /\ aw_aFull' \in BOOLEAN /\ aw_b' \in Requests \cup {None}
      /\ AwHeld' = Joined(IF done THEN Tail(AwHeld) ELSE AwHeld, filled)
      /\ AwSpill!Valid /\ ~done => AwSpill!Valid' /\ slv_aw' = slv_aw
  <2>1. /\ aw_a' = IF fill THEN aw ELSE aw_a
        /\ aw_aFull' \in BOOLEAN /\ (aw_aFull' <=> fill \/ (aw_aFull /\ ~drain))
        /\ aw_b' = IF drain /\ ~done THEN aw_a ELSE IF aw_b # None /\ done THEN None ELSE aw_b
    BY DEF AwSpill!Clock
  <2>2. done \in BOOLEAN /\ (done => aw_aFull \/ aw_b # None)
    BY <1>1 DEF aw_done, aw_valid, AwSpill!Valid
  <2>3. Clocked(aw_a, aw_aFull, aw_b, aw, done, aw_a', aw_aFull', aw_b')
    <3>1. fill <=> aw # None /\ (~aw_aFull \/ aw_b = None)
      BY DEF AwSpill!Ready
    <3> HIDE DEF fill, done
    <3>2. QED
      BY <1>2, <2>1, <2>2, <3>1 DEF Clocked, WriteTypes
  <2> HIDE DEF done
  <2>4. Moved(aw_a, aw_aFull, aw_b, aw, done, aw_a', aw_aFull', aw_b')
    BY <2>3, SpillMoves
  <2>5. filled = IF aw # None /\ (~aw_aFull \/ aw_b = None) THEN <<aw.port>> ELSE << >>
    BY DEF AwSpill!Ready
  <2> HIDE DEF filled
  <2>6. /\ AwHeld' = Joined(IF done THEN Tail(AwHeld) ELSE AwHeld, filled)
        /\ aw_aFull' \in BOOLEAN
    BY <2>1, <2>4, <2>5 DEF AwHeld, Moved
  <2>7. AwSpill!Valid /\ ~done => AwSpill!Valid' /\ slv_aw' = slv_aw
    BY <2>4 DEF slv_aw, AwSpill!Valid, AwSpill!Data, Moved
  <2>8. aw_a' \in Requests /\ aw_b' \in Requests \cup {None}
    BY <2>4 DEF Moved
  <2>9. QED
    BY <2>6, <2>7, <2>8
<1>4. /\ AwHeld \in Seq(Ports) /\ AwUndecided \in Seq(Ports) /\ OfferedPort(aw) \in Seq(Ports)
      /\ AwSpill!Valid => AwHeld # << >> /\ Head(AwHeld) = slv_aw.port
  BY AwHeldTypes
<1>5. aw' \in WriteReqs \cup {None} /\ req \in Requests \cup {None}
  BY <1>2 DEF Issued, WriteTypes
<1>6. /\ lock_aw_valid' \in BOOLEAN
      /\ lock_aw_valid' => AwSpill!Valid' /\ slv_aw' = slv_aw
  <2>1. lock_aw_valid' => aw_valid /\ ~done
    BY DEF aw_done
  <2>2. QED
    BY <1>1, <1>3, <2>1 DEF aw_valid
<1>7. /\ filled \in Seq(Ports) /\ OfferedPort(aw') \in Seq(Ports)
      /\ OfferedPort(req) \in Seq(Ports) /\ w_fifo \in Seq(Ports)
      /\ left \in Seq(Ports) /\ pushed \in Seq(Ports)
      /\ Joined(pushed, left) = Joined(w_fifo, AwUndecided)
      /\ push => AwHeld # << >> /\ AwUndecided = AwHeld /\ pushed # << >>
  <2>1. filled \in Seq(Ports)
    <3>1. aw # None => aw.port \in Ports
      BY <1>2, RequestsAssumption
    <3>2. QED
      BY <3>1
  <2>2. OfferedPort(aw') \in Seq(Ports) /\ OfferedPort(req) \in Seq(Ports)
    <3>1. aw' \in Requests \cup {None} /\ Requests # {}
      BY <1>2, <1>5, RequestsAssumption
    <3>2. QED
      BY <1>5, <3>1, HeldIsSeq
  <2>3. w_fifo \in Seq(Ports)
    BY DEF WriteTypes
  <2>4. push => AwHeld # << >> /\ AwUndecided = AwHeld /\ slv_aw.port = Head(AwUndecided)
    BY <1>4 DEF aw_push, AwUndecided
  <2>5. CASE push
    BY <1>4, <2>1, <2>2, <2>3, <2>4, <2>5, PushMoves, HeadTailProperties
  <2>6. CASE ~push
    BY <1>4, <2>1, <2>2, <2>3, <2>6
  <2>7. QED
    BY <2>5, <2>6
<1>8. AwUndecided' = Joined(left, filled)
  <2>1. CASE lock_aw_valid
    <3>1. ~push /\ aw_valid /\ (done <=> awReady) /\ (lock_aw_valid' <=> ~awReady)
      BY <2>1 DEF aw_push, aw_valid, aw_done
    <3>2. AwHeld # << >> /\ AwUndecided = Tail(AwHeld) /\ left = Tail(AwHeld)
      BY <1>1, <1>4, <2>1, <3>1 DEF AwUndecided
    <3>3. CASE awReady
      BY <1>3, <3>1, <3>2, <3>3 DEF AwUndecided
    <3>4. CASE ~awReady
      <4>1. AwUndecided' = Tail(Joined(AwHeld, filled))
        BY <1>3, <3>1, <3>4 DEF AwUndecided
      <4>2. Tail(Joined(AwHeld, filled)) = Joined(Tail(AwHeld), filled)
        BY <1>4, <1>7, <3>2, JoinedTail, ZenonT(60)
      <4>3. QED
        BY <3>2, <4>1, <4>2
    <3>5. QED
      BY <3>3, <3>4
  <2>2. CASE push
    <3>1. aw_valid /\ (done <=> awReady) /\ (lock_aw_valid' <=> ~awReady)
      BY <2>2 DEF aw_valid, aw_done
    <3>2. AwHeld # << >> /\ left = Tail(AwHeld)
      BY <1>7, <2>2
    <3>3. CASE awReady
      BY <1>3, <3>1, <3>2, <3>3 DEF AwUndecided
    <3>4. CASE ~awReady
      <4>1. AwUndecided' = Tail(Joined(AwHeld, filled))
        BY <1>3, <3>1, <3>4 DEF AwUndecided
      <4>2. Tail(Joined(AwHeld, filled)) = Joined(Tail(AwHeld), filled)
        BY <1>4, <1>7, <3>2, JoinedTail, ZenonT(60)
      <4>3. QED
        BY <3>2, <4>1, <4>2
    <3>5. QED
      BY <3>3, <3>4
  <2>3. CASE ~lock_aw_valid /\ ~push
    <3>1. ~aw_valid /\ ~done /\ ~lock_aw_valid'
      BY <2>3 DEF aw_valid, aw_done
    <3>2. AwUndecided = AwHeld /\ left = AwHeld
      BY <2>3 DEF AwUndecided
    <3>3. QED
      BY <1>3, <3>1, <3>2 DEF AwUndecided
  <2>4. QED
    BY <2>1, <2>2, <2>3
<1>9. Joined(filled, OfferedPort(aw')) = Joined(OfferedPort(aw), OfferedPort(req))
  <2>1. CASE aw # None /\ ~AwSpill!Ready
    <3>1. req = None /\ aw' = aw
      BY <1>2, <2>1 DEF Issued
    <3>2. filled = << >> /\ OfferedPort(req) = << >>
      BY <2>1, <3>1 DEF OfferedPort
    <3>3. QED
      BY <1>4, <3>1, <3>2, JoinedEmpty
  <2>2. CASE aw = None \/ AwSpill!Ready
    <3>1. aw' = req
      BY <1>2, <2>2 DEF Issued
    <3>2. filled = OfferedPort(aw)
      BY <2>2 DEF OfferedPort
    <3>3. QED
      BY <3>1, <3>2
  <2>3. QED
    BY <2>1, <2>2
<1>10. /\ taken /\ last => pushed # << >>
       /\ w_fifo' = IF taken /\ last THEN Tail(pushed) ELSE pushed
  <2>1. taken => w_fifo # << >> \/ push
    BY DEF w_fifo_empty
  <2>2. taken => pushed # << >>
    BY <1>7, <2>1
  <2>3. QED
    BY <2>2 DEF WFifoClock, w_fifo_pop
<1> HIDE DEF fill, drain, done, filled, push, left, pushed
<1>11. w_fifo' \in Seq(Ports)
  BY <1>7, <1>10, HeadTailProperties
<1>12. Owed' = Joined(IF taken /\ last THEN Tail(Owed) ELSE Owed, OfferedPort(req))
  <2>1. Owed' = Joined(w_fifo', Joined(Joined(left, filled), OfferedPort(aw')))
    BY <1>8 DEF Owed
  <2>2. Stages(w_fifo, AwUndecided, OfferedPort(aw), filled, OfferedPort(aw'),
               OfferedPort(req), pushed, left)
    BY <1>4, <1>7, <1>9 DEF Stages
  <2>3. /\ Joined(pushed, Joined(Joined(left, filled), OfferedPort(aw')))
             = Joined(Owed, OfferedPort(req))
        /\ pushed # << >> => Joined(Tail(pushed), Joined(Joined(left, filled), OfferedPort(aw')))
                               = Joined(Tail(Owed), OfferedPort(req))
    BY <2>2, StagesMove DEF Owed
  <2>4. QED
    BY <1>10, <2>1, <2>3
<1>13. QED
  BY <1>3, <1>5, <1>6, <1>11, <1>12

\* At reset there are no beats and no ports.
LEMMA RoutingInit ==
  Init => RoutingInv
<1> SUFFICES ASSUME Init
             PROVE  RoutingInv
  OBVIOUS
<1>1. WriteTypes
  <2>1. (CHOOSE zero \in Requests : TRUE) \in Requests
    BY RequestsAssumption
  <2>2. aw_a \in Requests /\ aw_aFull = FALSE /\ aw_b = None
    BY <2>1 DEF Init, DemuxInit, AwSpill!Init
  <2>3. aw = None /\ lock_aw_valid = FALSE /\ w_fifo = << >> /\ wQueue = << >> /\ wValid = FALSE
    BY DEF Init, DemuxInit
  <2>4. << >> \in Seq(Ports) /\ << >> \in Seq(WBeat)
    BY EmptySeq
  <2>5. QED
    BY <2>2, <2>3, <2>4 DEF WriteTypes
<1>2. wQueue = << >> /\ Owed = << >>
  BY JoinedEmpty DEF Init, DemuxInit, AwSpill!Init, Owed, AwUndecided, AwHeld, HeldPorts,
     OfferedPort, Joined
<1>3. Routed(<< >>, << >>)
  <2>1. [n \in 1..0 |-> 0] \in [1..Len(<< >>) -> 1..Len(<< >>)]
    OBVIOUS
  <2>2. Numbering([n \in 1..0 |-> 0], << >>, << >>)
    BY DEF Numbering
  <2>3. QED
    BY <2>1, <2>2 DEF Routed
<1>4. QED
  BY <1>1, <1>2, <1>3 DEF RoutingInv

\* A cycle keeps the invariant, and a locked request in its place.
LEMMA RoutingCycle ==
  ASSUME RoutingInv, Next
  PROVE  RoutingInv' /\ (lock_aw_valid' => slv_aw' = slv_aw)
<1>1. PICK arReady \in ReadyFor(ar_valid), rReady \in ReadyFor(rValid),
           awReady \in ReadyFor(aw_valid), wReady \in ReadyFor(wValid /\ ~w_fifo_empty),
           bReady \in ReadyFor(bValid) : Cycle(arReady, rReady, awReady, wReady, bReady, FALSE)
  BY DEF Next
<1> DEFINE taken == wTaken(wReady)
           data  == IF taken THEN Tail(wQueue) ELSE wQueue
           owed  == IF taken /\ wLast THEN Tail(Owed) ELSE Owed
<1>2. awReady \in BOOLEAN /\ wReady \in BOOLEAN
  BY DEF ReadyFor
<1>3. taken \in BOOLEAN /\ (taken => ~w_fifo_empty /\ wQueue # << >>)
  BY <1>2 DEF wTaken, RoutingInv, WriteTypes, w_fifo_empty
<1>4. /\ AwSpill!Clock(aw, aw_done(awReady))
      /\ lock_aw_valid' = (aw_valid /\ ~awReady)
      /\ WFifoClock(taken, wLast)
  BY <1>1 DEF Cycle, DemuxClock
<1>5. PICK req \in WriteReqs \cup {None} :
        Issued(aw, AwSpill!Ready, aw', data, wQueue', req)
  <2>1. IF aw # None /\ ~AwSpill!Ready THEN aw' = aw /\ wQueue' = data
        ELSE \/ aw' = None /\ wQueue' = data
             \/ \E req \in WriteReqs : aw' = req /\ wQueue' = data \o Beats(req)
    BY <1>1 DEF Cycle, IssueWrite
  <2> HIDE DEF data
  <2>2. QED
    BY <2>1 DEF Issued
<1>6. wValid' \in Rises(wValid, taken, wQueue' # << >>, FALSE)
  BY <1>1 DEF Cycle, IssueWrite
<1>7. /\ WriteTypes /\ Routed(wQueue, Owed) /\ wQueue \in Seq(WBeat) /\ Owed \in Seq(Ports)
  BY AwHeldTypes DEF RoutingInv, WriteTypes
<1> HIDE DEF taken
<1>8. /\ aw_a' \in Requests /\ aw_aFull' \in BOOLEAN /\ aw_b' \in Requests \cup {None}
      /\ aw' \in WriteReqs \cup {None}
      /\ lock_aw_valid' \in BOOLEAN /\ (lock_aw_valid' => AwSpill!Valid')
      /\ (lock_aw_valid' => slv_aw' = slv_aw)
      /\ w_fifo' \in Seq(Ports)
      /\ Owed' = Joined(owed, OfferedPort(req))
  <2> HIDE DEF data
  <2>1. QED
    BY <1>2, <1>3, <1>4, <1>5, <1>7, WriteStep
<1>9. data \in Seq(WBeat) /\ owed \in Seq(Ports) /\ Routed(data, owed)
  <2>1. CASE taken
    <3>1. owed = IF Head(wQueue).last THEN Tail(Owed) ELSE Owed
      BY <2>1 DEF wLast
    <3>2. Routed(Tail(wQueue), owed)
      BY <1>3, <1>7, <2>1, <3>1, RoutedSend
    <3>3. Owed # << >>
      BY <1>3, <1>7, <2>1, RoutedHead
    <3>4. QED
      BY <1>3, <1>7, <2>1, <3>2, <3>3, HeadTailProperties
  <2>2. CASE ~taken
    BY <1>7, <2>2
  <2>3. QED
    BY <1>3, <2>1, <2>2
<1> HIDE DEF data, owed
<1>10. wQueue' \in Seq(WBeat) /\ Routed(wQueue', Owed')
  <2>1. CASE req = None
    <3>1. wQueue' = data
      <4>1. None \notin WriteReqs
        BY RequestsAssumption
      <4>2. QED
        BY <1>5, <2>1, <4>1 DEF Issued
    <3>2. Owed' = owed
      BY <1>8, <1>9, <2>1, JoinedEmpty DEF OfferedPort
    <3>3. QED
      BY <1>9, <3>1, <3>2
  <2>2. CASE req # None
    <3>1. req \in Requests /\ wQueue' = data \o Beats(req)
      BY <1>5, <2>2, RequestsAssumption DEF Issued
    <3>2. Owed' = owed \o <<req.port>>
      BY <1>8, <2>2 DEF OfferedPort, Joined
    <3>3. QED
      BY <1>9, <3>1, <3>2, RoutedIssue
  <2>3. QED
    BY <2>1, <2>2
<1>11. wValid' \in BOOLEAN /\ (wValid' => wQueue' # << >>)
  <2>1. CASE wValid /\ ~taken
    <3>1. wQueue # << >> /\ data = wQueue
      BY <2>1 DEF RoutingInv, WriteTypes, data
    <3>2. Owed # << >> /\ owed = Owed
      BY <1>7, <2>1, <3>1, RoutedHead DEF owed
    <3>3. Owed' # << >>
      <4>1. OfferedPort(req) \in Seq(Ports)
        <5>1. req \in Requests \cup {None} /\ Requests # {}
          BY RequestsAssumption
        <5>2. QED
          BY <5>1, HeldIsSeq
      <4>2. QED
        BY <1>7, <1>8, <3>2, <4>1, JoinedTail
    <3>4. wQueue' # << >>
      BY <1>10, <3>3 DEF Routed, Numbering
    <3>5. QED
      BY <1>6, <2>1, <3>4 DEF Rises
  <2>2. CASE ~(wValid /\ ~taken)
    <3>1. wValid' \in IF wQueue' # << >> THEN BOOLEAN ELSE {FALSE}
      BY <1>6, <2>2 DEF Rises
    <3>2. QED
      BY <3>1
  <2>3. QED
    BY <2>1, <2>2
<1>12. QED
  BY <1>8, <1>10, <1>11 DEF RoutingInv, WriteTypes

\* A step keeps the beats in step with the ports.
LEMMA RoutingStep ==
  RoutingInv /\ [Next]_vars => RoutingInv'
<1> SUFFICES ASSUME RoutingInv, [Next]_vars
             PROVE  RoutingInv'
  OBVIOUS
<1>1. CASE Next
  BY <1>1, RoutingCycle
<1>2. CASE UNCHANGED vars
  BY <1>2 DEF vars, demuxVars, masterVars, RoutingInv, WriteTypes, Owed, AwUndecided, AwHeld,
     AwSpill!Valid
<1>3. QED
  BY <1>1, <1>2

\* Then the beat on offer goes where its own AW goes.
LEMMA RoutingFollows ==
  RoutingInv => DataFollowAddress
<1> SUFFICES ASSUME RoutingInv, wValid, ~w_fifo_empty
             PROVE  w_select = Head(wQueue).port
  BY DEF DataFollowAddress
<1>1. Owed \in Seq(Ports) /\ Head(wQueue).port = Head(Owed)
  BY AwHeldTypes, RoutedHead DEF RoutingInv, WriteTypes
<1>2. /\ w_fifo \in Seq(Ports)
      /\ AwUndecided \in Seq(Ports) /\ OfferedPort(aw) \in Seq(Ports)
      /\ Joined(AwUndecided, OfferedPort(aw)) \in Seq(Ports)
  BY AwHeldTypes, JoinedSeq DEF RoutingInv, WriteTypes
<1>3. CASE w_fifo # << >>
  <2>1. Head(Owed) = Head(w_fifo)
    BY <1>2, <1>3, JoinedTail DEF Owed
  <2>2. QED
    BY <1>1, <1>3, <2>1 DEF w_select
<1>4. CASE w_fifo = << >>
  <2>1. aw_push /\ AwSpill!Valid /\ ~lock_aw_valid
    BY <1>4 DEF w_fifo_empty, aw_push
  <2>2. AwUndecided # << >> /\ Head(AwUndecided) = slv_aw.port
    BY <2>1, AwHeldTypes DEF RoutingInv, AwUndecided
  <2>3. Owed = Joined(AwUndecided, OfferedPort(aw))
    BY <1>2, <1>4, JoinedEmpty DEF Owed
  <2>4. Head(Owed) = slv_aw.port
    BY <1>2, <2>2, <2>3, JoinedTail
  <2>5. QED
    BY <1>1, <1>4, <2>4 DEF w_select
<1>5. QED
  BY <1>3, <1>4

\* Every W beat goes to the port of the write it belongs to, whether its AW has
\* been shown to the slave, waits in the spill register or passes it in the same
\* cycle (i_w_fifo, w_select).
THEOREM DataAlwaysFollow == Spec => []DataFollowAddress
<1>1. Init => RoutingInv
  BY RoutingInit
<1>2. RoutingInv /\ [Next]_vars => RoutingInv'
  BY RoutingStep
<1>3. RoutingInv => DataFollowAddress
  BY RoutingFollows
<1>4. QED
  BY <1>1, <1>2, <1>3, PTL DEF Spec

(***************************************************************************)
(* Requests stay.                                                          *)
(***************************************************************************)
ReadTypes ==
  /\ ar_a \in Requests /\ ar_aFull \in BOOLEAN /\ ar_b \in Requests \cup {None}
  /\ ar \in ReadReqs \cup {None}
  /\ lock_ar_valid \in BOOLEAN /\ (lock_ar_valid => ArSpill!Valid)

\* At reset the read path is empty.
LEMMA ReadInit ==
  Init => ReadTypes
<1>1. (CHOOSE zero \in Requests : TRUE) \in Requests
  BY RequestsAssumption
<1>2. QED
  BY <1>1 DEF Init, DemuxInit, ArSpill!Init, ReadTypes, ArSpill!Valid

\* A cycle keeps the read path, and a locked AR as it is.
LEMMA ReadCycle ==
  ASSUME ReadTypes, Next
  PROVE  ReadTypes' /\ (lock_ar_valid' => slv_ar' = slv_ar)
<1>1. PICK arReady \in ReadyFor(ar_valid), rReady \in ReadyFor(rValid),
           awReady \in ReadyFor(aw_valid), wReady \in ReadyFor(wValid /\ ~w_fifo_empty),
           bReady \in ReadyFor(bValid) : Cycle(arReady, rReady, awReady, wReady, bReady, FALSE)
  BY DEF Next
<1>2. arReady \in BOOLEAN
  BY DEF ReadyFor
<1>3. /\ ArSpill!Clock(ar, ar_done(arReady))
      /\ lock_ar_valid' = (ar_valid /\ ~arReady)
  BY <1>1 DEF Cycle, DemuxClock
<1>4. ar' \in ReadReqs \cup {None}
  BY <1>1 DEF Cycle, IssueRead, ReadTypes
<1>5. ar_valid => ArSpill!Valid
  BY DEF ReadTypes, ar_valid
<1> DEFINE done == ar_done(arReady)
<1>6. Clocked(ar_a, ar_aFull, ar_b, ar, done, ar_a', ar_aFull', ar_b')
  <2>1. done \in BOOLEAN /\ (done => ar_aFull \/ ar_b # None)
    BY <1>2, <1>5 DEF ar_done, ar_valid, ArSpill!Valid
  <2>2. ar \in Requests \cup {None}
    BY RequestsAssumption DEF ReadTypes
  <2> DEFINE fill  == ar # None /\ (~ar_aFull \/ ar_b = None)
             drain == ar_aFull /\ ar_b = None
  <2>3. /\ ar_a' = IF fill THEN ar ELSE ar_a
        /\ ar_aFull' \in BOOLEAN /\ (ar_aFull' <=> fill \/ (ar_aFull /\ ~drain))
        /\ ar_b' = IF drain /\ ~done THEN ar_a ELSE IF ar_b # None /\ done THEN None ELSE ar_b
    BY <1>3 DEF ArSpill!Clock, ArSpill!Ready
  <2> HIDE DEF done
  <2>4. QED
    BY <2>1, <2>2, <2>3 DEF Clocked, ReadTypes
<1> HIDE DEF done
<1>7. Moved(ar_a, ar_aFull, ar_b, ar, done, ar_a', ar_aFull', ar_b')
  BY <1>6, SpillMoves
<1>8. ar_aFull' \in BOOLEAN
  BY <1>6 DEF Clocked
<1>9. lock_ar_valid' => ArSpill!Valid /\ ~done
  BY <1>3, <1>5 DEF done, ar_done
<1>10. lock_ar_valid' => ArSpill!Valid' /\ slv_ar' = slv_ar
  BY <1>7, <1>9 DEF slv_ar, ArSpill!Valid, ArSpill!Data, Moved
<1>11. lock_ar_valid' \in BOOLEAN
  BY <1>2, <1>3 DEF ar_valid
<1>12. QED
  BY <1>4, <1>7, <1>8, <1>10, <1>11 DEF ReadTypes, Moved

\* So does a step.
LEMMA ReadStep ==
  ReadTypes /\ [Next]_vars => ReadTypes'
<1> SUFFICES ASSUME ReadTypes, [Next]_vars
             PROVE  ReadTypes'
  OBVIOUS
<1>1. CASE Next
  BY <1>1, ReadCycle
<1>2. CASE UNCHANGED vars
  BY <1>2 DEF vars, demuxVars, masterVars, ReadTypes, ArSpill!Valid
<1>3. QED
  BY <1>1, <1>2

\* The assertions aw_valid_stable, aw_stable, ar_valid_stable and ar_stable hold:
\* a request shown to a slave that is not ready is shown again, unchanged, even
\* if the counters and the FIFO would no longer let it pass (lock_aw_valid,
\* lock_ar_valid, spill_register).
THEOREM RequestsStay == Spec => RequestsStable
<1>1. Init => RoutingInv /\ ReadTypes
  BY RoutingInit, ReadInit
<1>2. RoutingInv /\ ReadTypes /\ [Next]_vars => RoutingInv' /\ ReadTypes'
  BY RoutingStep, ReadStep
<1>3. RoutingInv /\ ReadTypes /\ [Next]_vars
        => [ /\ lock_aw_valid' => aw_valid' /\ slv_aw' = slv_aw
             /\ lock_ar_valid' => ar_valid' /\ slv_ar' = slv_ar ]_vars
  <2> SUFFICES ASSUME RoutingInv, ReadTypes, Next
               PROVE  /\ lock_aw_valid' => aw_valid' /\ slv_aw' = slv_aw
                      /\ lock_ar_valid' => ar_valid' /\ slv_ar' = slv_ar
    OBVIOUS
  <2>1. lock_aw_valid' => aw_valid' /\ slv_aw' = slv_aw
    BY RoutingCycle DEF aw_valid
  <2>2. lock_ar_valid' => ar_valid' /\ slv_ar' = slv_ar
    BY ReadCycle DEF ar_valid
  <2>3. QED
    BY <2>1, <2>2
<1>4. QED
  BY <1>1, <1>2, <1>3, PTL DEF Spec, RequestsStable

(***************************************************************************)
(* The books of one direction.  "queues" holds the ids of the requests     *)
(* each slave has taken and not answered, "select" the port the counters   *)
(* remember for each value of the id bits looked at, "expect" the ports    *)
(* the master waits for and "waiting" those whose request is still on its  *)
(* way, both per id and in order.                                          *)
(***************************************************************************)
Looks == 0..(LookIds - 1)
Class(c) == {i \in Ids : i % LookIds = c}

\* How many of the ids of a queue belong to a set.
Times(ids, T) == Cardinality({k \in DOMAIN ids : ids[k] \in T})

Copies(n, p) == [k \in 1..n |-> p]

\* Requests with the same id bits are all with the slave that is remembered,
Together(queues, select) ==
  \A p \in Ports : \A k \in DOMAIN queues[p] : select[queues[p][k] % LookIds] = p

\* so the master waits for that slave first, and then for what is on its way.
Due(queues, select, waiting, i) ==
  Joined(Copies(Times(queues[select[i % LookIds]], {i}), select[i % LookIds]), waiting[i])

Ledger(queues, select, expect, waiting) ==
  /\ queues \in [Ports -> Seq(Ids)] /\ select \in [Looks -> Ports]
  /\ expect \in [Ids -> Seq(Ports)] /\ waiting \in [Ids -> Seq(Ports)]
  /\ Together(queues, select)
  /\ \A i \in Ids : expect[i] = Due(queues, select, waiting, i)

\* A queue without its first element, and with one more.
Shorter(f, i)   == [f EXCEPT ![i] = Tail(@)]
Longer(f, i, x) == [f EXCEPT ![i] = Append(@, x)]

\* The requests with some id bits that have not been answered.
Open(queues, select, c) == Times(queues[select[c]], Class(c))

\* The places of a set of ids in a queue.
At(ids, T) == {k \in DOMAIN ids : ids[k] \in T}

\* There are finitely many of them, and Times counts them.
LEMMA AtFinite ==
  ASSUME NEW ids \in Seq(Ids), NEW T
  PROVE  /\ IsFiniteSet(At(ids, T)) /\ Times(ids, T) = Cardinality(At(ids, T))
         /\ Times(ids, T) \in Nat
         /\ Times(ids, T) = 0 <=> \A k \in 1..Len(ids) : ids[k] \notin T
<1>1. DOMAIN ids = 1..Len(ids) /\ Len(ids) \in Nat
  OBVIOUS
<1>2. At(ids, T) \in SUBSET (1..Len(ids)) /\ IsFiniteSet(1..Len(ids))
  BY <1>1, FS_Interval DEF At
<1>3. IsFiniteSet(At(ids, T))
  BY <1>2, FS_Subset
<1>4. Times(ids, T) = Cardinality(At(ids, T))
  BY DEF Times, At
<1>5. Cardinality(At(ids, T)) \in Nat
  BY <1>3, FS_CardinalityType
<1>6. Cardinality(At(ids, T)) = 0 <=> At(ids, T) = {}
  BY <1>3, FS_EmptySet
<1> QED BY <1>1, <1>3, <1>4, <1>5, <1>6 DEF At

\* One more at the end counts once more, if it is in the set.
LEMMA TimesAppend ==
  ASSUME NEW ids \in Seq(Ids), NEW i \in Ids, NEW T
  PROVE  Times(Append(ids, i), T) = Times(ids, T) + (IF i \in T THEN 1 ELSE 0)
<1> DEFINE longer == Append(ids, i)
<1>1. /\ longer \in Seq(Ids) /\ Len(ids) \in Nat /\ Len(longer) = Len(ids) + 1
      /\ longer[Len(ids) + 1] = i /\ \A k \in 1..Len(ids) : longer[k] = ids[k]
      /\ DOMAIN longer = 1..(Len(ids) + 1) /\ DOMAIN ids = 1..Len(ids)
  BY AppendProperties, LenProperties
<1> HIDE DEF longer
<1>2. At(longer, T) = IF i \in T THEN At(ids, T) \cup {Len(ids) + 1} ELSE At(ids, T)
  BY <1>1 DEF At
<1>3. Len(ids) + 1 \notin At(ids, T)
  BY <1>1 DEF At
<1>4. IsFiniteSet(At(ids, T))
  BY AtFinite
<1>5. Cardinality(At(longer, T)) = Cardinality(At(ids, T)) + (IF i \in T THEN 1 ELSE 0)
  <2>1. \A A, x : IsFiniteSet(A) /\ x \notin A => Cardinality(A \cup {x}) = Cardinality(A) + 1
    BY FS_AddElement
  <2>2. Cardinality(At(ids, T)) \in Nat
    BY <1>4, FS_CardinalityType
  <2> QED BY <1>2, <1>3, <1>4, <2>1, <2>2
<1> QED BY <1>1, <1>5, AtFinite DEF longer

\* One less at the front counts once less, if it was in the set.
LEMMA TimesTail ==
  ASSUME NEW ids \in Seq(Ids), ids # << >>, NEW T
  PROVE  Times(Tail(ids), T) = Times(ids, T) - (IF Head(ids) \in T THEN 1 ELSE 0)
<1> DEFINE rest == Tail(ids)
           moved == [k \in At(rest, T) |-> k + 1]
           others == At(ids, T) \ {1}
<1>1. /\ rest \in Seq(Ids) /\ Len(ids) \in Nat /\ Len(rest) = Len(ids) - 1 /\ Len(ids) >= 1
      /\ \A k \in 1..Len(rest) : rest[k] = ids[k + 1]
      /\ DOMAIN rest = 1..Len(rest) /\ DOMAIN ids = 1..Len(ids) /\ Head(ids) = ids[1]
  BY HeadTailProperties, LenProperties, EmptySeq
<1> HIDE DEF rest
<1>2. moved \in Bijection(At(rest, T), others)
  <2>1. \A k \in At(rest, T) : k \in Nat /\ k + 1 \in others
    BY <1>1 DEF At
  <2>2. \A k \in others : k - 1 \in At(rest, T) /\ (k - 1) + 1 = k
    BY <1>1 DEF At
  <2>3. \A k \in At(rest, T) : moved[k] = k + 1
    OBVIOUS
  <2>4. moved \in [At(rest, T) -> others]
    BY <2>1
  <2>5. moved \in Injection(At(rest, T), others)
    <3>1. \A a, b \in At(rest, T) : moved[a] = moved[b] => a = b
      BY <2>1, <2>3
    <3> QED BY <2>4, <3>1 DEF Injection, IsInjective
  <2>6. moved \in Surjection(At(rest, T), others)
    BY <2>2, <2>3, <2>4 DEF Surjection
  <2> QED BY <2>5, <2>6 DEF Bijection
<1>3. IsFiniteSet(At(rest, T)) /\ IsFiniteSet(At(ids, T))
  BY <1>1, AtFinite
<1>4. Cardinality(others) = Cardinality(At(rest, T))
  BY <1>2, <1>3, FS_Bijection DEF ExistsBijection
<1>5. Cardinality(others) = Cardinality(At(ids, T)) - (IF Head(ids) \in T THEN 1 ELSE 0)
  <2>1. 1 \in At(ids, T) <=> Head(ids) \in T
    BY <1>1 DEF At
  <2>2. Cardinality(At(ids, T)) \in Nat
    BY <1>3, FS_CardinalityType
  <2>3. \A A, x : IsFiniteSet(A) =>
          Cardinality(A \ {x}) = IF x \in A THEN Cardinality(A) - 1 ELSE Cardinality(A)
    BY FS_RemoveElement
  <2>4. Cardinality(others) = IF 1 \in At(ids, T) THEN Cardinality(At(ids, T)) - 1
                              ELSE Cardinality(At(ids, T))
    BY <1>3, <2>3
  <2> QED BY <2>1, <2>2, <2>4
<1> QED BY <1>1, <1>4, <1>5, AtFinite DEF rest

\* Copies of a port: the first, the rest, and one more.
LEMMA CopiesOf ==
  ASSUME NEW n \in Nat, NEW p \in Ports
  PROVE  /\ Copies(n, p) \in Seq(Ports)
         /\ n = 0 => Copies(n, p) = << >>
         /\ n > 0 => /\ Copies(n, p) # << >> /\ Head(Copies(n, p)) = p
                     /\ Tail(Copies(n, p)) = Copies(n - 1, p)
         /\ Joined(Copies(n, p), <<p>>) = Copies(n + 1, p)
<1>1. \A m \in Nat : /\ Copies(m, p) \in Seq(Ports) /\ Len(Copies(m, p)) = m
                     /\ \A k \in 1..m : Copies(m, p)[k] = p
  BY DEF Copies
<1>2. n = 0 => Copies(n, p) = << >>
  BY <1>1, EmptySeq
<1>3. ASSUME n > 0
      PROVE  /\ Copies(n, p) # << >> /\ Head(Copies(n, p)) = p
             /\ Tail(Copies(n, p)) = Copies(n - 1, p)
  <2> DEFINE all  == Copies(n, p)
             less == Copies(n - 1, p)
  <2>1. n - 1 \in Nat
    BY <1>3
  <2>2. /\ all \in Seq(Ports) /\ Len(all) = n /\ \A k \in 1..n : all[k] = p
        /\ less \in Seq(Ports) /\ Len(less) = n - 1 /\ \A k \in 1..(n - 1) : less[k] = p
    BY <1>1, <2>1
  <2> HIDE DEF all, less
  <2>3. all # << >>
    BY <1>3, <2>2, EmptySeq
  <2>4. /\ Tail(all) \in Seq(Ports) /\ Len(Tail(all)) = n - 1
        /\ \A k \in 1..(n - 1) : Tail(all)[k] = all[k + 1]
        /\ Head(all) = all[1]
    BY <2>2, <2>3, HeadTailProperties
  <2>5. \A k \in 1..(n - 1) : Tail(all)[k] = less[k]
    BY <2>1, <2>2, <2>4
  <2>6. Tail(all) = less
    BY <2>2, <2>4, <2>5, SeqEqual
  <2> QED BY <1>3, <2>2, <2>3, <2>4, <2>6 DEF all, less
<1>4. Joined(Copies(n, p), <<p>>) = Copies(n + 1, p)
  <2> DEFINE some == Copies(n, p)
             more == Copies(n + 1, p)
             both == Joined(some, <<p>>)
  <2>1. n + 1 \in Nat
    OBVIOUS
  <2>2. /\ some \in Seq(Ports) /\ Len(some) = n /\ \A k \in 1..n : some[k] = p
        /\ more \in Seq(Ports) /\ Len(more) = n + 1 /\ \A k \in 1..(n + 1) : more[k] = p
    BY <1>1, <2>1
  <2>3. <<p>> \in Seq(Ports) /\ Len(<<p>>) = 1 /\ <<p>>[1] = p
    OBVIOUS
  <2>4. Follows(both, some, <<p>>, Ports)
    <3> HIDE DEF some
    <3> QED BY <2>2, <2>3, ConcatFollows
  <2> HIDE DEF some, more, both
  <2>5. both \in Seq(Ports) /\ Len(both) = n + 1
    BY <2>2, <2>3, <2>4 DEF Follows
  <2>6. \A k \in 1..(n + 1) : both[k] = p
    <3> TAKE k \in 1..(n + 1)
    <3>1. both[k] = IF k <= n THEN some[k] ELSE <<p>>[k - n]
      BY <2>2, <2>3, <2>4 DEF Follows
    <3>2. k <= n \/ k - n = 1
      OBVIOUS
    <3> QED BY <2>2, <2>3, <3>1, <3>2
  <2>7. both = more
    BY <2>2, <2>5, <2>6, SeqEqual
  <2> QED BY <2>7 DEF some, more, both
<1> QED BY <1>1, <1>2, <1>3, <1>4

\* Where the requests with some id bits are.
LEMMA OpenCounts ==
  ASSUME NEW queues, NEW select, NEW expect, NEW waiting,
         Ledger(queues, select, expect, waiting), NEW c \in Looks
  PROVE  /\ Open(queues, select, c) \in Nat
         /\ Open(queues, select, c) = 0 =>
              \A p \in Ports : Times(queues[p], Class(c)) = 0
         /\ \A i \in Ids : \A p \in Ports :
              Times(queues[p], {i}) \in Nat
              /\ (i % LookIds = c /\ (Open(queues, select, c) = 0 \/ p # select[c])
                   => Times(queues[p], {i}) = 0)
<1>1. /\ queues \in [Ports -> Seq(Ids)] /\ select \in [Looks -> Ports]
      /\ Together(queues, select)
  BY DEF Ledger
<1>2. \A p \in Ports : queues[p] \in Seq(Ids)
  BY <1>1
<1>3. \A p \in Ports : \A T : /\ Times(queues[p], T) \in Nat
                              /\ Times(queues[p], T) = 0
                                   <=> \A k \in 1..Len(queues[p]) : queues[p][k] \notin T
  BY <1>2, AtFinite
<1>4. \A p \in Ports : DOMAIN queues[p] = 1..Len(queues[p])
  BY <1>2, LenProperties
<1>5. select[c] \in Ports
  BY <1>1
<1>6. \A p \in Ports : p # select[c] => \A k \in 1..Len(queues[p]) : queues[p][k] \notin Class(c)
  BY <1>1, <1>4 DEF Together, Class
<1>7. Open(queues, select, c) \in Nat
  BY <1>3, <1>5 DEF Open
<1>8. \A p \in Ports :
        p # select[c] \/ Open(queues, select, c) = 0 => Times(queues[p], Class(c)) = 0
  BY <1>3, <1>6 DEF Open
<1>9. \A i \in Ids : \A p \in Ports :
        i % LookIds = c /\ Times(queues[p], Class(c)) = 0 => Times(queues[p], {i}) = 0
  <2> SUFFICES ASSUME NEW i \in Ids, NEW p \in Ports, i % LookIds = c,
                      Times(queues[p], Class(c)) = 0
               PROVE  Times(queues[p], {i}) = 0
    OBVIOUS
  <2>1. i \in Class(c)
    BY DEF Class
  <2>2. \A k \in 1..Len(queues[p]) : queues[p][k] \notin {i}
    BY <1>3, <2>1
  <2> QED BY <1>3, <2>2
<1> QED BY <1>3, <1>7, <1>8, <1>9

\* The slave remembered may be another only if the one before owes nothing.
LEMMA SelectMoves ==
  ASSUME NEW queues, NEW select, NEW expect, NEW waiting,
         Ledger(queues, select, expect, waiting),
         NEW c0 \in Looks, NEW s0 \in Ports,
         Open(queues, select, c0) # 0 => select[c0] = s0
  PROVE  /\ Ledger(queues, [select EXCEPT ![c0] = s0], expect, waiting)
         /\ \A c \in Looks :
              Open(queues, [select EXCEPT ![c0] = s0], c) = Open(queues, select, c)
<1> DEFINE select2 == [select EXCEPT ![c0] = s0]
<1>1. /\ queues \in [Ports -> Seq(Ids)] /\ select \in [Looks -> Ports]
      /\ expect \in [Ids -> Seq(Ports)] /\ waiting \in [Ids -> Seq(Ports)]
      /\ Together(queues, select)
      /\ \A i \in Ids : expect[i] = Due(queues, select, waiting, i)
  BY DEF Ledger
<1>2. CASE Open(queues, select, c0) # 0
  <2>1. select2 = select
    BY <1>1, <1>2
  <2> QED BY <2>1
<1>3. CASE Open(queues, select, c0) = 0
  <2>1. \A p \in Ports : Times(queues[p], Class(c0)) = 0
    BY <1>3, OpenCounts
  <2>2. /\ select2 \in [Looks -> Ports] /\ select2[c0] = s0
        /\ \A c \in Looks : c # c0 => select2[c] = select[c]
    BY <1>1
  <2> HIDE DEF select2
  <2>3. \A c \in Looks : Open(queues, select2, c) = Open(queues, select, c)
    BY <1>1, <2>1, <2>2 DEF Open
  <2>4. \A p \in Ports : \A k \in DOMAIN queues[p] :
          queues[p][k] \in Ids /\ queues[p][k] \notin Class(c0)
    <3> TAKE p \in Ports
    <3>1. queues[p] \in Seq(Ids)
      BY <1>1
    <3> QED BY <2>1, <3>1, AtFinite, LenProperties, ElementOfSeq
  <2>5. \A i \in Ids : i % LookIds \in Looks
    BY RequestsAssumption, SizesAssumption DEF Looks
  <2>6. Together(queues, select2)
    BY <1>1, <2>2, <2>4, <2>5 DEF Together, Class
  <2>7. ASSUME NEW i \in Ids
        PROVE  Due(queues, select2, waiting, i) = Due(queues, select, waiting, i)
    <3>1. CASE i % LookIds # c0
      BY <2>2, <2>5, <3>1 DEF Due
    <3>2. CASE i % LookIds = c0
      <4>1. \A p \in Ports : Times(queues[p], {i}) = 0
        BY <1>3, <3>2, OpenCounts
      <4>2. \A p \in Ports : Copies(0, p) = << >>
        BY CopiesOf
      <4> QED BY <1>1, <2>2, <3>2, <4>1, <4>2 DEF Due
    <3> QED BY <3>1, <3>2
  <2>8. Ledger(queues, select2, expect, waiting)
    BY <1>1, <2>2, <2>6, <2>7 DEF Ledger
  <2> QED BY <2>3, <2>8 DEF select2
<1> QED BY <1>2, <1>3


\* An answer to the oldest request of a slave is the one the master waits for.
LEMMA AnswerMoves ==
  ASSUME NEW queues, NEW select, NEW expect, NEW waiting,
         Ledger(queues, select, expect, waiting),
         NEW q \in Ports, queues[q] # << >>, NEW j, j = Head(queues[q])
  PROVE  /\ j \in Ids /\ expect[j] # << >> /\ Head(expect[j]) = q
         /\ Open(queues, select, j % LookIds) > 0
         /\ Ledger(Shorter(queues, q), select,
                   Shorter(expect, j), waiting)
         /\ \A c \in Looks : Open(Shorter(queues, q), select, c)
                               = Open(queues, select, c) - (IF j % LookIds = c THEN 1 ELSE 0)
<1> USE DEF Shorter
<1> DEFINE queues2 == Shorter(queues, q)
           expect2 == Shorter(expect, j)
           n(i)    == Times(queues[select[i % LookIds]], {i})
           n2(i)   == Times(queues2[select[i % LookIds]], {i})
<1>1. /\ queues \in [Ports -> Seq(Ids)] /\ select \in [Looks -> Ports]
      /\ expect \in [Ids -> Seq(Ports)] /\ waiting \in [Ids -> Seq(Ports)]
      /\ Together(queues, select)
      /\ \A i \in Ids : expect[i] = Due(queues, select, waiting, i)
  BY DEF Ledger
<1>2. queues[q] \in Seq(Ids)
  BY <1>1
<1>3. /\ j \in Ids /\ j = queues[q][1] /\ 1 \in DOMAIN queues[q]
      /\ Tail(queues[q]) \in Seq(Ids) /\ Len(Tail(queues[q])) = Len(queues[q]) - 1
      /\ Len(queues[q]) \in Nat /\ Len(queues[q]) > 0
      /\ \A k \in 1..Len(Tail(queues[q])) : Tail(queues[q])[k] = queues[q][k + 1]
  BY <1>2, HeadTailProperties, LenProperties, EmptySeq
<1>4. \A i \in Ids : i % LookIds \in Looks
  BY RequestsAssumption, SizesAssumption DEF Looks
<1>5. select[j % LookIds] = q
  BY <1>1, <1>3 DEF Together
<1>6. /\ queues2 \in [Ports -> Seq(Ids)] /\ queues2[q] = Tail(queues[q])
      /\ \A p \in Ports : p # q => queues2[p] = queues[p]
  BY <1>1, <1>3
<1>7. expect2 \in [Ids -> Seq(Ports)] /\ \A i \in Ids : i # j => expect2[i] = expect[i]
  <2>1. expect[j] \in Seq(Ports)
    BY <1>1, <1>3
  <2>2. n(j) \in Nat /\ n(j) > 0
    <3>1. ~\A k \in 1..Len(queues[q]) : queues[q][k] \notin {j}
      BY <1>3
    <3> QED BY <1>2, <1>5, <3>1, AtFinite
  <2>3. Copies(n(j), q) # << >> /\ Copies(n(j), q) \in Seq(Ports) /\ waiting[j] \in Seq(Ports)
    <3> HIDE DEF n
    <3> QED BY <1>1, <1>3, <2>2, CopiesOf
  <2>4. expect[j] = Joined(Copies(n(j), q), waiting[j])
    BY <1>1, <1>3, <1>5 DEF Due
  <2>5. expect[j] # << >>
    <3> HIDE DEF n
    <3> QED BY <2>3, <2>4, JoinedTail
  <2>6. Tail(expect[j]) \in Seq(Ports)
    BY <2>1, <2>5, HeadTailProperties
  <2> QED BY <1>1, <2>6
<1> HIDE DEF queues2, expect2
<1>8. \A T : Times(queues2[q], T) = Times(queues[q], T) - (IF j \in T THEN 1 ELSE 0)
  BY <1>2, <1>3, <1>6, TimesTail
<1>9. Times(queues[q], {j}) \in Nat /\ Times(queues[q], {j}) > 0
  <2>1. ~\A k \in 1..Len(queues[q]) : queues[q][k] \notin {j}
    BY <1>3
  <2> QED BY <1>2, <2>1, AtFinite
<1>10. Open(queues, select, j % LookIds) > 0
  <2>1. j \in Class(j % LookIds)
    BY <1>3 DEF Class
  <2>2. ~\A k \in 1..Len(queues[q]) : queues[q][k] \notin Class(j % LookIds)
    BY <1>3, <2>1
  <2>3. Times(queues[q], Class(j % LookIds)) > 0
    BY <1>2, <2>2, AtFinite
  <2> QED BY <1>5, <2>3 DEF Open
<1>11. \A c \in Looks : Open(queues2, select, c)
                          = Open(queues, select, c) - (IF j % LookIds = c THEN 1 ELSE 0)
  <2> TAKE c \in Looks
  <2>1. select[c] \in Ports /\ Open(queues, select, c) \in Nat
    BY <1>1, OpenCounts
  <2>2. j \in Class(c) <=> j % LookIds = c
    BY <1>3 DEF Class
  <2>3. CASE select[c] = q
    BY <1>8, <2>2, <2>3 DEF Open
  <2>4. CASE select[c] # q
    BY <1>5, <1>6, <2>1, <2>4 DEF Open
  <2> QED BY <2>3, <2>4
<1>12. Together(queues2, select)
  <2> SUFFICES ASSUME NEW p \in Ports, NEW k \in DOMAIN queues2[p]
               PROVE  select[queues2[p][k] % LookIds] = p
    BY DEF Together
  <2>1. CASE p = q
    <3>1. k \in 1..Len(Tail(queues[q]))
      BY <1>3, <1>6, <2>1, LenProperties
    <3>2. k + 1 \in DOMAIN queues[q]
      BY <1>2, <1>3, <3>1, LenProperties
    <3>3. queues2[p][k] = queues[q][k + 1]
      BY <1>3, <1>6, <2>1, <3>1
    <3>4. select[queues[q][k + 1] % LookIds] = q
      BY <1>1, <3>2 DEF Together
    <3> QED BY <2>1, <3>3, <3>4
  <2>2. CASE p # q
    BY <1>1, <1>6, <2>2 DEF Together
  <2> QED BY <2>1, <2>2
<1>13. /\ expect[j] # << >> /\ Head(expect[j]) = q
       /\ expect2[j] = Due(queues2, select, waiting, j)
  <2> DEFINE m == Times(queues[q], {j})
  <2>1. expect[j] = Joined(Copies(m, q), waiting[j]) /\ waiting[j] \in Seq(Ports)
    BY <1>1, <1>3, <1>5 DEF Due
  <2>2. Times(queues2[q], {j}) = m - 1
    BY <1>8
  <2>3. m \in Nat /\ m > 0
    BY <1>9
  <2> HIDE DEF m
  <2>4. /\ Copies(m, q) \in Seq(Ports) /\ Copies(m, q) # << >>
        /\ Head(Copies(m, q)) = q /\ Tail(Copies(m, q)) = Copies(m - 1, q)
    BY <2>3, CopiesOf
  <2>5. /\ Tail(expect[j]) = Joined(Copies(m - 1, q), waiting[j])
        /\ Head(expect[j]) = q /\ expect[j] # << >>
    <3>1. ASSUME NEW copies \in Seq(Ports), NEW rest \in Seq(Ports), copies # << >>
          PROVE  /\ Tail(Joined(copies, rest)) = Joined(Tail(copies), rest)
                 /\ Head(Joined(copies, rest)) = Head(copies) /\ Joined(copies, rest) # << >>
      BY <3>1, JoinedTail
    <3> DEFINE copies == Copies(m, q)
               rest   == waiting[j]
    <3>2. copies \in Seq(Ports) /\ rest \in Seq(Ports) /\ copies # << >>
      BY <2>1, <2>4
    <3>3. Tail(copies) = Copies(m - 1, q) /\ Head(copies) = q /\ expect[j] = Joined(copies, rest)
      BY <2>1, <2>4
    <3> HIDE DEF copies
    <3>4. Tail(Joined(copies, rest)) = Joined(Tail(copies), rest)
      BY <3>1, <3>2
    <3>5. Head(Joined(copies, rest)) = Head(copies) /\ Joined(copies, rest) # << >>
      BY <3>1, <3>2
    <3> HIDE DEF rest
    <3> QED BY <3>3, <3>4, <3>5 DEF rest
  <2>6. expect2[j] = Tail(expect[j])
    BY <1>1, <1>3 DEF expect2
  <2> QED BY <1>5, <2>2, <2>5, <2>6 DEF Due
<1>14. ASSUME NEW i \in Ids, i # j
       PROVE  expect2[i] = Due(queues2, select, waiting, i)
  <2>1. select[i % LookIds] \in Ports
    BY <1>1, <1>4
  <2>2. Times(queues2[select[i % LookIds]], {i}) = Times(queues[select[i % LookIds]], {i})
    <3>1. CASE select[i % LookIds] = q
      <4>1. queues[q] \in Seq(Ids) /\ Times(queues[q], {i}) \in Nat
        BY <1>2, AtFinite
      <4>2. Times(queues2[q], {i}) = Times(queues[q], {i}) - (IF j \in {i} THEN 1 ELSE 0)
        BY <1>8
      <4> QED BY <1>14, <3>1, <4>1, <4>2
    <3>2. CASE select[i % LookIds] # q
      BY <1>6, <2>1, <3>2
    <3> QED BY <3>1, <3>2
  <2>3. Due(queues2, select, waiting, i) = Due(queues, select, waiting, i)
    BY <2>2 DEF Due
  <2> QED BY <1>1, <1>7, <1>14, <2>3
<1>15. Ledger(queues2, select, expect2, waiting)
  BY <1>1, <1>6, <1>7, <1>12, <1>13, <1>14 DEF Ledger
<1> QED BY <1>3, <1>10, <1>11, <1>13, <1>15 DEF queues2, expect2


\* A request that a slave takes is the first with its id on its way.
LEMMA TakenMoves ==
  ASSUME NEW queues, NEW select, NEW expect, NEW waiting,
         Ledger(queues, select, expect, waiting),
         NEW j \in Ids, NEW q \in Ports, select[j % LookIds] = q,
         waiting[j] # << >>, Head(waiting[j]) = q
  PROVE  /\ Ledger(Longer(queues, q, j), select, expect,
                   Shorter(waiting, j))
         /\ \A c \in Looks : Open(Longer(queues, q, j), select, c)
                               = Open(queues, select, c) + (IF j % LookIds = c THEN 1 ELSE 0)
<1> USE DEF Shorter, Longer
<1> DEFINE queues2  == Longer(queues, q, j)
           waiting2 == Shorter(waiting, j)
<1>1. /\ queues \in [Ports -> Seq(Ids)] /\ select \in [Looks -> Ports]
      /\ expect \in [Ids -> Seq(Ports)] /\ waiting \in [Ids -> Seq(Ports)]
      /\ Together(queues, select)
      /\ \A i \in Ids : expect[i] = Due(queues, select, waiting, i)
  BY DEF Ledger
<1>2. queues[q] \in Seq(Ids) /\ waiting[j] \in Seq(Ports)
  BY <1>1
<1>3. /\ Append(queues[q], j) \in Seq(Ids) /\ Len(queues[q]) \in Nat
      /\ DOMAIN queues[q] = 1..Len(queues[q])
      /\ DOMAIN Append(queues[q], j) = 1..(Len(queues[q]) + 1)
      /\ \A k \in 1..Len(queues[q]) : Append(queues[q], j)[k] = queues[q][k]
      /\ Append(queues[q], j)[Len(queues[q]) + 1] = j
  BY <1>2, AppendProperties, LenProperties
<1>4. Tail(waiting[j]) \in Seq(Ports)
  BY <1>2, HeadTailProperties
<1>5. /\ queues2 \in [Ports -> Seq(Ids)] /\ queues2[q] = Append(queues[q], j)
      /\ \A p \in Ports : p # q => queues2[p] = queues[p]
      /\ waiting2 \in [Ids -> Seq(Ports)] /\ waiting2[j] = Tail(waiting[j])
      /\ \A i \in Ids : i # j => waiting2[i] = waiting[i]
  BY <1>1, <1>3, <1>4
<1> HIDE DEF queues2, waiting2
<1>6. \A T : Times(queues2[q], T) = Times(queues[q], T) + (IF j \in T THEN 1 ELSE 0)
  BY <1>2, <1>5, TimesAppend
<1>7. \A c \in Looks : Open(queues2, select, c)
                         = Open(queues, select, c) + (IF j % LookIds = c THEN 1 ELSE 0)
  <2> TAKE c \in Looks
  <2>1. select[c] \in Ports /\ Open(queues, select, c) \in Nat
    BY <1>1, OpenCounts
  <2>2. j \in Class(c) <=> j % LookIds = c
    BY DEF Class
  <2>3. CASE select[c] = q
    BY <1>6, <2>2, <2>3 DEF Open
  <2>4. CASE select[c] # q
    BY <1>5, <2>1, <2>4 DEF Open
  <2> QED BY <2>3, <2>4
<1>8. Together(queues2, select)
  <2> SUFFICES ASSUME NEW p \in Ports, NEW k \in DOMAIN queues2[p]
               PROVE  select[queues2[p][k] % LookIds] = p
    BY DEF Together
  <2>1. CASE p = q /\ k = Len(queues[q]) + 1
    BY <1>3, <1>5, <2>1
  <2>2. CASE p = q /\ k # Len(queues[q]) + 1
    <3>1. k \in DOMAIN Append(queues[q], j) /\ queues2[p][k] = Append(queues[q], j)[k]
      BY <1>5, <2>2
    <3>2. k \in DOMAIN queues[q] /\ queues2[p][k] = queues[q][k]
      BY <1>3, <2>2, <3>1
    <3>3. select[queues[q][k] % LookIds] = q
      BY <1>1, <3>2 DEF Together
    <3> QED BY <2>2, <3>2, <3>3
  <2>3. CASE p # q
    BY <1>1, <1>5, <2>3 DEF Together
  <2> QED BY <2>1, <2>2, <2>3
<1>9. expect[j] = Due(queues2, select, waiting2, j)
  <2> DEFINE m      == Times(queues[q], {j})
             copies == Copies(m, q)
             first  == <<q>>
             rest   == Tail(waiting[j])
  <2>1. m \in Nat
    BY <1>2, AtFinite
  <2>2. expect[j] = Joined(copies, waiting[j])
    BY <1>1 DEF Due
  <2>3. waiting[j] = Joined(first, rest)
    BY <1>2, HeadAndTail
  <2>4. Times(queues2[q], {j}) = m + 1
    BY <1>6
  <2>5. Due(queues2, select, waiting2, j) = Joined(Copies(m + 1, q), rest)
    BY <1>5, <2>4 DEF Due
  <2> HIDE DEF m
  <2>6. /\ copies \in Seq(Ports) /\ Joined(copies, first) = Copies(m + 1, q)
        /\ first \in Seq(Ports) /\ rest \in Seq(Ports)
    <3>1. first \in Seq(Ports) /\ rest \in Seq(Ports)
      BY <1>4
    <3>2. copies \in Seq(Ports) /\ Joined(copies, first) = Copies(m + 1, q)
      BY <2>1, CopiesOf
    <3> HIDE DEF copies, first, rest
    <3> QED BY <3>1, <3>2
  <2> HIDE DEF copies, first, rest
  <2>7. Joined(Joined(copies, first), rest) = Joined(copies, Joined(first, rest))
    BY <2>6, JoinedAssociative
  <2> QED BY <2>2, <2>3, <2>5, <2>6, <2>7
<1>10. ASSUME NEW i \in Ids, i # j
       PROVE  expect[i] = Due(queues2, select, waiting2, i)
  <2>1. select[i % LookIds] \in Ports
    <3>1. i % LookIds \in Looks
      BY RequestsAssumption, SizesAssumption DEF Looks
    <3> QED BY <1>1, <3>1
  <2>2. Times(queues2[select[i % LookIds]], {i}) = Times(queues[select[i % LookIds]], {i})
    <3>1. CASE select[i % LookIds] = q
      <4>1. queues[q] \in Seq(Ids) /\ Times(queues[q], {i}) \in Nat
        BY <1>2, AtFinite
      <4>2. Times(queues2[q], {i}) = Times(queues[q], {i}) + (IF j \in {i} THEN 1 ELSE 0)
        BY <1>6
      <4> QED BY <1>10, <3>1, <4>1, <4>2
    <3>2. CASE select[i % LookIds] # q
      BY <1>5, <2>1, <3>2
    <3> QED BY <3>1, <3>2
  <2>3. Due(queues2, select, waiting2, i) = Due(queues, select, waiting, i)
    BY <1>5, <1>10, <2>2 DEF Due
  <2> QED BY <1>1, <2>3
<1>11. Ledger(queues2, select, expect, waiting2)
  BY <1>1, <1>5, <1>8, <1>9, <1>10 DEF Ledger
<1> QED BY <1>7, <1>11 DEF queues2, waiting2

\* A new request is the last that its id waits for.
LEMMA IssueMoves ==
  ASSUME NEW queues, NEW select, NEW expect, NEW waiting,
         Ledger(queues, select, expect, waiting), NEW j \in Ids, NEW q \in Ports
  PROVE  Ledger(queues, select, Longer(expect, j, q),
                [waiting EXCEPT ![j] = Joined(@, <<q>>)])
<1> USE DEF Longer
<1> DEFINE expect2  == Longer(expect, j, q)
           waiting2 == [waiting EXCEPT ![j] = Joined(@, <<q>>)]
<1>1. /\ queues \in [Ports -> Seq(Ids)] /\ select \in [Looks -> Ports]
      /\ expect \in [Ids -> Seq(Ports)] /\ waiting \in [Ids -> Seq(Ports)]
      /\ Together(queues, select)
      /\ \A i \in Ids : expect[i] = Due(queues, select, waiting, i)
  BY DEF Ledger
<1>2. expect[j] \in Seq(Ports) /\ waiting[j] \in Seq(Ports) /\ <<q>> \in Seq(Ports)
  BY <1>1
<1>3. /\ Append(expect[j], q) = Joined(expect[j], <<q>>)
      /\ Joined(expect[j], <<q>>) \in Seq(Ports) /\ Joined(waiting[j], <<q>>) \in Seq(Ports)
  BY <1>2, AppendIsConcat, JoinedSeq DEF Joined
<1>4. /\ expect2 \in [Ids -> Seq(Ports)] /\ waiting2 \in [Ids -> Seq(Ports)]
      /\ expect2[j] = Joined(expect[j], <<q>>) /\ waiting2[j] = Joined(waiting[j], <<q>>)
      /\ \A i \in Ids : i # j => expect2[i] = expect[i] /\ waiting2[i] = waiting[i]
  BY <1>1, <1>3
<1> HIDE DEF expect2, waiting2
<1>5. expect2[j] = Due(queues, select, waiting2, j)
  <2> DEFINE m      == Times(queues[select[j % LookIds]], {j})
             copies == Copies(m, select[j % LookIds])
             last   == <<q>>
             before == waiting[j]
  <2>1. m \in Nat /\ select[j % LookIds] \in Ports
    <3>1. select[j % LookIds] \in Ports
      BY <1>1, RequestsAssumption, SizesAssumption DEF Looks
    <3>2. queues[select[j % LookIds]] \in Seq(Ids)
      BY <1>1, <3>1
    <3> QED BY <3>1, <3>2, AtFinite
  <2>2. expect[j] = Joined(copies, before)
    BY <1>1 DEF Due
  <2>3. Due(queues, select, waiting2, j) = Joined(copies, Joined(before, last))
    BY <1>4 DEF Due
  <2> HIDE DEF m
  <2>4. copies \in Seq(Ports) /\ before \in Seq(Ports) /\ last \in Seq(Ports)
    BY <1>2, <2>1, CopiesOf
  <2> HIDE DEF copies, before, last
  <2>5. Joined(Joined(copies, before), last) = Joined(copies, Joined(before, last))
    BY <2>4, JoinedAssociative
  <2> QED BY <1>4, <2>2, <2>3, <2>5 DEF before, last
<1>6. \A i \in Ids : i # j => Due(queues, select, waiting2, i) = Due(queues, select, waiting, i)
  BY <1>4 DEF Due
<1> QED BY <1>1, <1>4, <1>5, <1>6 DEF Ledger, expect2, waiting2

\* The requests on their way: in the spill register, or still offered.
OfId(req, i) == IF req # None /\ req.id = i THEN <<req.port>> ELSE << >>
Line(first, second, third) ==
  [i \in Ids |-> Joined(OfId(first, i), Joined(OfId(second, i), OfId(third, i)))]

Waiting(b, full, a, offer) == Line(b, IF full THEN a ELSE None, offer)

\* A request counts for its own id only.
LEMMA OfIdTypes ==
  ASSUME NEW req \in Requests \cup {None}, NEW i \in Ids
  PROVE  /\ OfId(req, i) \in Seq(Ports) /\ OfId(None, i) = << >> /\ << >> \in Seq(Ports)
         /\ req # None => req.id \in Ids /\ req.port \in Ports
         /\ req # None /\ req.id # i => OfId(req, i) = << >>
         /\ req # None /\ req.id = i => OfId(req, i) = <<req.port>> /\ <<req.port>> \in Seq(Ports)
<1>1. req # None => req.id \in Ids /\ req.port \in Ports
  BY RequestsAssumption
<1> QED BY <1>1 DEF OfId

\* What is waiting is a sequence for each id; empty places do not count.
LEMMA LineTypes ==
  ASSUME NEW x \in Requests \cup {None}, NEW y \in Requests \cup {None},
         NEW z \in Requests \cup {None}
  PROVE  /\ Line(x, y, z) \in [Ids -> Seq(Ports)]
         /\ Line(x, None, z) = Line(None, x, z)
         /\ Line(x, y, None) = Line(x, None, y) /\ Line(x, y, None) = Line(None, x, y)
<1>1. \A i \in Ids : /\ OfId(x, i) \in Seq(Ports) /\ OfId(y, i) \in Seq(Ports)
                     /\ OfId(z, i) \in Seq(Ports) /\ OfId(None, i) = << >>
                     /\ << >> \in Seq(Ports)
  BY OfIdTypes
<1>2. \A s, t \in Seq(Ports) : Joined(s, t) \in Seq(Ports)
  BY JoinedSeq
<1>3. \A s \in Seq(Ports) : Joined(<< >>, s) = s /\ Joined(s, << >>) = s
  BY JoinedEmpty
<1>4. \A i \in Ids : /\ Joined(OfId(y, i), OfId(z, i)) \in Seq(Ports)
                     /\ Joined(OfId(x, i), Joined(OfId(y, i), OfId(z, i))) \in Seq(Ports)
  BY <1>1, <1>2
<1>5. Line(x, y, z) \in [Ids -> Seq(Ports)]
  BY <1>4 DEF Line
<1>6. ASSUME NEW i \in Ids
      PROVE  /\ Line(x, None, z)[i] = Joined(OfId(x, i), OfId(z, i))
             /\ Line(None, x, z)[i] = Joined(OfId(x, i), OfId(z, i))
             /\ Line(x, y, None)[i] = Joined(OfId(x, i), OfId(y, i))
             /\ Line(x, None, y)[i] = Joined(OfId(x, i), OfId(y, i))
             /\ Line(None, x, y)[i] = Joined(OfId(x, i), OfId(y, i))
  <2>1. /\ Line(x, None, z)[i] = Joined(OfId(x, i), Joined(OfId(None, i), OfId(z, i)))
        /\ Line(None, x, z)[i] = Joined(OfId(None, i), Joined(OfId(x, i), OfId(z, i)))
        /\ Line(x, y, None)[i] = Joined(OfId(x, i), Joined(OfId(y, i), OfId(None, i)))
        /\ Line(x, None, y)[i] = Joined(OfId(x, i), Joined(OfId(None, i), OfId(y, i)))
        /\ Line(None, x, y)[i] = Joined(OfId(None, i), Joined(OfId(x, i), OfId(y, i)))
    BY DEF Line
  <2>2. /\ Joined(OfId(x, i), OfId(z, i)) \in Seq(Ports)
        /\ Joined(OfId(x, i), OfId(y, i)) \in Seq(Ports)
    BY <1>1, <1>2
  <2> QED BY <1>1, <1>3, <2>1, <2>2
<1>7. \A u, v, w : Line(u, v, w) = [i \in Ids |-> Line(u, v, w)[i]]
  BY DEF Line
<1>8. Line(x, None, z) = Line(None, x, z)
  BY <1>6, <1>7
<1>9. Line(x, y, None) = Line(x, None, y) /\ Line(x, y, None) = Line(None, x, y)
  BY <1>6, <1>7
<1> QED BY <1>5, <1>8, <1>9

\* The first request leaves.
LEMMA LineFirst ==
  ASSUME NEW x \in Requests, NEW y \in Requests \cup {None}, NEW z \in Requests \cup {None}
  PROVE  /\ x.id \in Ids /\ x.port \in Ports
         /\ Line(x, y, z)[x.id] # << >> /\ Head(Line(x, y, z)[x.id]) = x.port
         /\ Line(None, y, z) = [Line(x, y, z) EXCEPT ![x.id] = Tail(@)]
<1>0. None \notin Requests /\ x.id \in Ids /\ x.port \in Ports
  BY RequestsAssumption
<1> DEFINE rest(i) == Joined(OfId(y, i), OfId(z, i))
<1>1. \A i \in Ids : rest(i) \in Seq(Ports)
  BY OfIdTypes, JoinedSeq
<1>2. \A i \in Ids : /\ Line(x, y, z)[i] = Joined(OfId(x, i), rest(i))
                     /\ Line(None, y, z)[i] = Joined(OfId(None, i), rest(i))
  BY DEF Line
<1> HIDE DEF rest
<1>3. \A i \in Ids : Line(None, y, z)[i] = rest(i)
  <2>1. \A i \in Ids : OfId(None, i) = << >>
    BY OfIdTypes
  <2> QED BY <1>1, <1>2, <2>1, JoinedEmpty
<1>4. \A i \in Ids : i # x.id => Line(x, y, z)[i] = rest(i)
  <2>1. \A i \in Ids : i # x.id => OfId(x, i) = << >>
    BY <1>0, OfIdTypes
  <2> QED BY <1>1, <1>2, <2>1, JoinedEmpty
<1>5. /\ Line(x, y, z)[x.id] # << >> /\ Head(Line(x, y, z)[x.id]) = x.port
      /\ Tail(Line(x, y, z)[x.id]) = rest(x.id)
  <2> DEFINE one == <<x.port>>
             r   == rest(x.id)
  <2>1. one \in Seq(Ports) /\ one # << >> /\ Head(one) = x.port /\ Tail(one) = << >>
    BY <1>0
  <2>2. r \in Seq(Ports) /\ Line(x, y, z)[x.id] = Joined(one, r)
    <3>1. OfId(x, x.id) = <<x.port>>
      BY <1>0 DEF OfId
    <3> QED BY <1>0, <1>1, <1>2, <3>1
  <2> HIDE DEF one, r
  <2>3. /\ Tail(Joined(one, r)) = Joined(Tail(one), r)
        /\ Head(Joined(one, r)) = Head(one) /\ Joined(one, r) # << >>
    BY <2>1, <2>2, JoinedTail
  <2>4. Joined(<< >>, r) = r
    BY <2>2, JoinedEmpty
  <2> QED BY <2>1, <2>2, <2>3, <2>4 DEF r
<1>6. Line(None, y, z) = [Line(x, y, z) EXCEPT ![x.id] = Tail(@)]
  <2>1. \A u, v, w : Line(u, v, w) = [i \in Ids |-> Line(u, v, w)[i]]
    BY DEF Line
  <2>2. \A i \in Ids : Line(None, y, z)[i]
                         = IF i = x.id THEN Tail(Line(x, y, z)[x.id]) ELSE Line(x, y, z)[i]
    BY <1>3, <1>4, <1>5
  <2> QED BY <1>0, <2>1, <2>2
<1> QED BY <1>0, <1>5, <1>6

\* A request joins at the end.
LEMMA LineLast ==
  ASSUME NEW x \in Requests \cup {None}, NEW y \in Requests \cup {None}, NEW r \in Requests
  PROVE  Line(x, y, r) = [Line(x, y, None) EXCEPT ![r.id] = Joined(@, <<r.port>>)]
<1>0. None \notin Requests /\ r.id \in Ids /\ r.port \in Ports
  BY RequestsAssumption
<1>1. \A i \in Ids : /\ OfId(x, i) \in Seq(Ports) /\ OfId(y, i) \in Seq(Ports)
                     /\ OfId(r, i) \in Seq(Ports) /\ OfId(None, i) = << >>
                     /\ << >> \in Seq(Ports)
  BY OfIdTypes
<1>2. \A i \in Ids :
        /\ Line(x, y, r)[i] = Joined(OfId(x, i), Joined(OfId(y, i), OfId(r, i)))
        /\ Line(x, y, None)[i] = Joined(OfId(x, i), Joined(OfId(y, i), OfId(None, i)))
  BY DEF Line
<1>3. \A i \in Ids : Line(x, y, None)[i] = Joined(OfId(x, i), OfId(y, i))
  BY <1>1, <1>2, JoinedEmpty
<1>4. \A i \in Ids : Line(x, y, r)[i] = Joined(Line(x, y, None)[i], OfId(r, i))
  BY <1>1, <1>2, <1>3, JoinedAssociative
<1>5. \A i \in Ids : i # r.id => Line(x, y, r)[i] = Line(x, y, None)[i]
  <2>1. \A i \in Ids : i # r.id => OfId(r, i) = << >>
    BY <1>0, OfIdTypes
  <2>2. \A i \in Ids : Line(x, y, None)[i] \in Seq(Ports)
    BY <1>1, <1>3, JoinedSeq
  <2> QED BY <1>4, <2>1, <2>2, JoinedEmpty
<1>6. OfId(r, r.id) = <<r.port>>
  BY <1>0 DEF OfId
<1>7. \A u, v, w : Line(u, v, w) = [i \in Ids |-> Line(u, v, w)[i]]
  BY DEF Line
<1>8. \A i \in Ids : Line(x, y, r)[i] = IF i = r.id THEN Joined(Line(x, y, None)[i], <<r.port>>)
                                        ELSE Line(x, y, None)[i]
  BY <1>0, <1>4, <1>5, <1>6
<1> QED BY <1>0, <1>7, <1>8

\* A clock of a spill register, seen from the requests that wait.
LEMMA WaitingMoves ==
  ASSUME NEW a, NEW full, NEW b, NEW input, NEW done, NEW a2, NEW full2, NEW b2,
         Clocked(a, full, b, input, done, a2, full2, b2)
  PROVE  LET shown   == IF b # None THEN b ELSE a
             before  == Waiting(b, full, a, input)
             removed == IF done THEN [before EXCEPT ![shown.id] = Tail(@)] ELSE before
         IN  /\ done => /\ shown \in Requests /\ shown.id \in Ids /\ shown.port \in Ports
                        /\ before[shown.id] # << >> /\ Head(before[shown.id]) = shown.port
             /\ full /\ b # None => Waiting(b2, full2, a2, input) = removed
             /\ ~full \/ b = None => Waiting(b2, full2, a2, None) = removed
<1> DEFINE shown   == IF b # None THEN b ELSE a
           before  == Waiting(b, full, a, input)
           removed == IF done THEN [before EXCEPT ![shown.id] = Tail(@)] ELSE before
           slot    == IF full THEN a ELSE None
           slot2   == IF full2 THEN a2 ELSE None
<1>1. /\ a \in Requests /\ full \in BOOLEAN /\ b \in Requests \cup {None}
      /\ input \in Requests \cup {None} /\ done \in BOOLEAN
      /\ done => full \/ b # None
      /\ None \notin Requests /\ None \in Requests \cup {None}
      /\ slot \in Requests \cup {None}
  BY RequestsAssumption DEF Clocked
<1>2. before = Line(b, slot, input)
  BY DEF Waiting
<1>3. CASE b # None
  <2>1. b2 = (IF done THEN None ELSE b) /\ shown = b /\ b \in Requests
    BY <1>1, <1>3 DEF Clocked
  <2>2. removed = Line(IF done THEN None ELSE b, slot, input)
    <3>1. Line(None, slot, input) = [Line(b, slot, input) EXCEPT ![b.id] = Tail(@)]
      <4> HIDE DEF slot
      <4> QED BY <1>1, <2>1, LineFirst
    <3> QED BY <1>2, <2>1, <3>1
  <2>3. full => slot2 = slot
    BY <1>3 DEF Clocked
  <2>4. ~full => slot2 = input /\ slot = None
    BY <1>3 DEF Clocked
  <2>5. done => /\ shown.id \in Ids /\ shown.port \in Ports
                /\ before[shown.id] # << >> /\ Head(before[shown.id]) = shown.port
    BY <1>1, <1>2, <2>1, LineFirst
  <2>6. ASSUME ~full
        PROVE  Waiting(b2, full2, a2, None) = removed
    <3>1. b2 \in Requests \cup {None}
      BY <1>1, <2>1
    <3>2. Line(b2, input, None) = Line(b2, None, input)
      BY <1>1, <3>1, LineTypes
    <3> QED BY <2>1, <2>2, <2>4, <2>6, <3>2 DEF Waiting
  <2>7. full => Waiting(b2, full2, a2, input) = removed
    BY <2>1, <2>2, <2>3 DEF Waiting
  <2> QED BY <1>3, <2>1, <2>5, <2>6, <2>7
<1>4. CASE b = None
  <2>1. slot2 = input /\ shown = a
    BY <1>4 DEF Clocked
  <2>2. before = Line(slot, None, input)
    BY <1>1, <1>2, <1>4, LineTypes
  <2>3. CASE full
    <3>1. slot = a /\ b2 = (IF done THEN None ELSE a)
      BY <1>4, <2>3 DEF Clocked
    <3>2. removed = Line(IF done THEN None ELSE a, None, input)
      BY <1>1, <2>1, <2>2, <3>1, LineFirst
    <3>3. done => /\ shown.id \in Ids /\ shown.port \in Ports
                  /\ before[shown.id] # << >> /\ Head(before[shown.id]) = shown.port
      BY <1>1, <2>1, <2>2, <3>1, LineFirst
    <3>4. b2 \in Requests \cup {None}
      BY <1>1, <3>1
    <3>5. Line(b2, input, None) = Line(b2, None, input)
      BY <1>1, <3>4, LineTypes
    <3> QED BY <1>1, <1>4, <2>1, <3>1, <3>2, <3>3, <3>5 DEF Waiting
  <2>4. CASE ~full
    <3>1. slot = None /\ ~done /\ b2 = None
      BY <1>1, <1>4, <2>4 DEF Clocked
    <3>2. Line(None, input, None) = Line(None, None, input)
      BY <1>1, LineTypes
    <3> QED BY <1>4, <2>1, <2>2, <3>1, <3>2 DEF Waiting
  <2> QED BY <1>1, <2>3, <2>4
<1> QED BY <1>1, <1>3, <1>4

\* A cycle of one direction, but for the master's new request: the counters
\* remember s0 for c0 (push), slave q is done with its oldest request (pop), slave
\* tp takes the request that waits first with id t (take).
Remembered(select, push, c0, s0) == IF push THEN [select EXCEPT ![c0] = s0] ELSE select
Left(queues, pop, q) == [p \in Ports |-> IF pop /\ q = p THEN Tail(queues[p]) ELSE queues[p]]
Joining(queues, take, tp, t) ==
  [p \in Ports |-> IF take /\ tp = p THEN Append(queues[p], t) ELSE queues[p]]
Settled(expect, pop, i0) ==
  [i \in Ids |-> IF pop /\ i0 = i /\ expect[i] # << >> THEN Tail(expect[i]) ELSE expect[i]]
Removed(waiting, take, t) == IF take THEN Shorter(waiting, t) ELSE waiting

BooksCycle(queues, select, expect, waiting, push, pop, take, c0, s0, q, t, tp, j) ==
  /\ Ledger(queues, select, expect, waiting)
  /\ push \in BOOLEAN /\ pop \in BOOLEAN /\ take \in BOOLEAN
  /\ push => /\ c0 \in Looks /\ s0 \in Ports
             /\ Open(queues, select, c0) # 0 => select[c0] = s0
  /\ pop => q \in Ports /\ queues[q] # << >> /\ j = Head(queues[q])
  /\ take => /\ t \in Ids /\ tp \in Ports
             /\ Remembered(select, push, c0, s0)[t % LookIds] = tp
             /\ waiting[t] # << >> /\ Head(waiting[t]) = tp

BooksAfter(queues, select, expect, waiting, push, pop, take, c0, s0, q, t, tp, j) ==
  /\ Ledger(Joining(Left(queues, pop, q), take, tp, t), Remembered(select, push, c0, s0),
            Settled(expect, pop, j), Removed(waiting, take, t))
  /\ \A c \in Looks :
       Open(Joining(Left(queues, pop, q), take, tp, t), Remembered(select, push, c0, s0), c)
         = Open(queues, select, c) - (IF pop /\ j % LookIds = c THEN 1 ELSE 0)
                                   + (IF take /\ t % LookIds = c THEN 1 ELSE 0)
  /\ pop => /\ j \in Ids /\ expect[j] # << >> /\ Head(expect[j]) = q
            /\ Open(queues, select, j % LookIds) > 0

\* Such a cycle keeps the books.
LEMMA BooksMove ==
  ASSUME NEW queues, NEW select, NEW expect, NEW waiting, NEW push, NEW pop, NEW take,
         NEW c0, NEW s0, NEW q, NEW t, NEW tp, NEW j,
         BooksCycle(queues, select, expect, waiting, push, pop, take, c0, s0, q, t, tp, j)
  PROVE  BooksAfter(queues, select, expect, waiting, push, pop, take, c0, s0, q, t, tp, j)
<1> USE DEF BooksCycle
<1> DEFINE select2 == Remembered(select, push, c0, s0)
           left    == Left(queues, pop, q)
           both    == Joining(left, take, tp, t)
           settled == Settled(expect, pop, j)
           removed == Removed(waiting, take, t)
           less(c) == IF pop /\ j % LookIds = c THEN 1 ELSE 0
           more(c) == IF take /\ t % LookIds = c THEN 1 ELSE 0
<1>1. /\ Ledger(queues, select2, expect, waiting)
      /\ \A c \in Looks : Open(queues, select2, c) = Open(queues, select, c)
  BY SelectMoves DEF Remembered
<1> HIDE DEF select2
<1>2. /\ queues \in [Ports -> Seq(Ids)] /\ expect \in [Ids -> Seq(Ports)]
  BY DEF Ledger
<1>3. /\ Ledger(left, select2, settled, waiting)
      /\ \A c \in Looks : Open(left, select2, c) = Open(queues, select2, c) - less(c)
      /\ pop => /\ j \in Ids /\ expect[j] # << >> /\ Head(expect[j]) = q
                /\ Open(queues, select2, j % LookIds) > 0
  <2>1. CASE pop
    <3>1. /\ j \in Ids /\ expect[j] # << >> /\ Head(expect[j]) = q
          /\ Open(queues, select2, j % LookIds) > 0
          /\ Ledger(Shorter(queues, q), select2, Shorter(expect, j), waiting)
          /\ \A c \in Looks : Open(Shorter(queues, q), select2, c)
                               = Open(queues, select2, c) - (IF j % LookIds = c THEN 1 ELSE 0)
      <4>1. q \in Ports /\ queues[q] # << >> /\ j = Head(queues[q])
        BY <2>1
      <4>2. Ledger(queues, select2, expect, waiting)
        BY <1>1
      <4> QED BY <4>1, <4>2, AnswerMoves
    <3>2. left = Shorter(queues, q)
      BY <1>2, <2>1 DEF Left, Shorter
    <3>3. settled = Shorter(expect, j)
      BY <1>2, <2>1, <3>1 DEF Settled, Shorter
    <3> QED BY <2>1, <3>1, <3>2, <3>3
  <2>2. CASE ~pop
    <3>1. left = queues /\ settled = expect
      BY <1>2, <2>2 DEF Left, Settled
    <3>2. \A c \in Looks : Open(queues, select2, c) \in Nat
      BY <1>1, OpenCounts
    <3> QED BY <1>1, <2>2, <3>1, <3>2
  <2> QED BY <2>1, <2>2
<1> HIDE DEF left, settled
<1>4. /\ Ledger(both, select2, settled, removed)
      /\ \A c \in Looks : Open(both, select2, c) = Open(left, select2, c) + more(c)
  <2>1. left \in [Ports -> Seq(Ids)] /\ waiting \in [Ids -> Seq(Ports)]
    BY <1>3 DEF Ledger
  <2>2. CASE take
    <3>1. both = Longer(left, tp, t) /\ removed = Shorter(waiting, t)
      BY <2>1, <2>2 DEF Joining, Removed, Longer, Shorter
    <3>2. select2[t % LookIds] = tp
      BY <2>2 DEF select2
    <3> HIDE DEF both, removed
    <3>3. /\ Ledger(Longer(left, tp, t), select2, settled,
                    Shorter(waiting, t))
          /\ \A c \in Looks : Open(Longer(left, tp, t), select2, c)
                               = Open(left, select2, c) + (IF t % LookIds = c THEN 1 ELSE 0)
      <4>1. t \in Ids /\ tp \in Ports /\ waiting[t] # << >> /\ Head(waiting[t]) = tp
        BY <2>2
      <4>2. Ledger(left, select2, settled, waiting)
        BY <1>3
      <4> QED BY <3>2, <4>1, <4>2, TakenMoves
    <3> QED BY <2>2, <3>1, <3>3
  <2>3. CASE ~take
    <3>1. both = left /\ removed = waiting
      BY <2>1, <2>3 DEF Joining, Removed
    <3>2. \A c \in Looks : Open(left, select2, c) \in Nat
      BY <1>3, OpenCounts
    <3> QED BY <1>3, <2>3, <3>1, <3>2
  <2> QED BY <2>2, <2>3
<1>5. j % LookIds \in Looks \/ ~pop
  BY <1>3, RequestsAssumption, SizesAssumption DEF Looks
<1>6. \A c \in Looks : Open(both, select2, c) = Open(queues, select, c) - less(c) + more(c)
  BY <1>1, <1>3, <1>4
<1> QED BY <1>1, <1>3, <1>4, <1>5, <1>6 DEF select2, left, settled, BooksAfter

\* The ids of the reads that a slave has taken.
ReadRecords == [id : Ids, beats : Nat \ {0}]
IdsOf(s) == [k \in DOMAIN s |-> s[k].id]

\* A read joins the list with its id, a read that is over leaves it, and a beat
\* that is not the last changes no id.
LEMMA IdsOfMoves ==
  ASSUME NEW s \in Seq(ReadRecords)
  PROVE  /\ IdsOf(s) \in Seq(Ids)
         /\ \A r \in ReadRecords : /\ Append(s, r) \in Seq(ReadRecords)
                                   /\ IdsOf(Append(s, r)) = Append(IdsOf(s), r.id)
                                   /\ s # << >> => Head(Append(s, r)) = Head(s)
                                   /\ Append(s, r) # << >>
         /\ s # << >> => /\ IdsOf(s) # << >> /\ Head(IdsOf(s)) = Head(s).id
                         /\ Head(s) \in ReadRecords
                         /\ Tail(s) \in Seq(ReadRecords) /\ IdsOf(Tail(s)) = Tail(IdsOf(s))
         /\ s # << >> /\ Head(s).beats # 1 =>
              /\ [s EXCEPT ![1].beats = @ - 1] \in Seq(ReadRecords)
              /\ [s EXCEPT ![1].beats = @ - 1] # << >>
              /\ IdsOf([s EXCEPT ![1].beats = @ - 1]) = IdsOf(s)
<1>1. Len(s) \in Nat /\ DOMAIN s = 1..Len(s) /\ \A k \in 1..Len(s) : s[k] \in ReadRecords
  BY LenProperties, ElementOfSeq
<1>2. \A u \in Seq(ReadRecords) : /\ IdsOf(u) \in Seq(Ids) /\ Len(IdsOf(u)) = Len(u)
                                  /\ \A k \in 1..Len(u) : IdsOf(u)[k] = u[k].id
  <2> TAKE u \in Seq(ReadRecords)
  <2>1. Len(u) \in Nat /\ DOMAIN u = 1..Len(u) /\ \A k \in 1..Len(u) : u[k] \in ReadRecords
    BY LenProperties, ElementOfSeq
  <2>2. IdsOf(u) = [k \in 1..Len(u) |-> u[k].id]
    BY <2>1 DEF IdsOf
  <2>3. \A k \in 1..Len(u) : u[k].id \in Ids
    BY <2>1 DEF ReadRecords
  <2>4. IdsOf(u) \in [1..Len(u) -> Ids]
    BY <2>2, <2>3
  <2> QED BY <2>1, <2>2, <2>4
<1>3. ASSUME NEW r \in ReadRecords
      PROVE  /\ Append(s, r) \in Seq(ReadRecords)
             /\ IdsOf(Append(s, r)) = Append(IdsOf(s), r.id)
             /\ s # << >> => Head(Append(s, r)) = Head(s)
             /\ Append(s, r) # << >>
  <2> DEFINE longer == Append(s, r)
             ids    == Append(IdsOf(s), r.id)
  <2>1. /\ longer \in Seq(ReadRecords) /\ Len(longer) = Len(s) + 1
        /\ longer[Len(s) + 1] = r /\ \A k \in 1..Len(s) : longer[k] = s[k]
    BY <1>1, AppendProperties
  <2>2. r.id \in Ids
    BY DEF ReadRecords
  <2>3. /\ ids \in Seq(Ids) /\ Len(ids) = Len(s) + 1
        /\ ids[Len(s) + 1] = r.id /\ \A k \in 1..Len(s) : ids[k] = s[k].id
    <3>1. /\ IdsOf(s) \in Seq(Ids) /\ Len(IdsOf(s)) = Len(s)
          /\ \A k \in 1..Len(s) : IdsOf(s)[k] = s[k].id
      BY <1>2
    <3> QED BY <1>1, <2>2, <3>1, AppendProperties
  <2> HIDE DEF longer, ids
  <2>4. /\ IdsOf(longer) \in Seq(Ids) /\ Len(IdsOf(longer)) = Len(s) + 1
        /\ \A k \in 1..(Len(s) + 1) : IdsOf(longer)[k] = longer[k].id
    BY <1>2, <2>1
  <2>5. \A k \in 1..(Len(s) + 1) : IdsOf(longer)[k] = ids[k]
    <3> TAKE k \in 1..(Len(s) + 1)
    <3>1. k \in 1..Len(s) \/ k = Len(s) + 1
      BY <1>1
    <3> QED BY <1>1, <2>1, <2>3, <2>4, <3>1
  <2>6. IdsOf(longer) = ids
    BY <2>3, <2>4, <2>5, SeqEqual
  <2>7. longer # << >> /\ Head(longer) = longer[1]
    BY <1>1, <2>1, EmptySeq
  <2>8. s # << >> => Head(s) = s[1] /\ longer[1] = s[1]
    BY <1>1, <2>1, EmptySeq
  <2> QED BY <2>1, <2>6, <2>7, <2>8 DEF longer, ids
<1>4. ASSUME s # << >>
      PROVE  /\ IdsOf(s) # << >> /\ Head(IdsOf(s)) = Head(s).id
             /\ Head(s) \in ReadRecords
             /\ Tail(s) \in Seq(ReadRecords) /\ IdsOf(Tail(s)) = Tail(IdsOf(s))
  <2> DEFINE ids  == IdsOf(s)
             rest == Tail(s)
  <2>1. ids \in Seq(Ids) /\ Len(ids) = Len(s) /\ \A k \in 1..Len(s) : ids[k] = s[k].id
    BY <1>2
  <2>2. /\ rest \in Seq(ReadRecords) /\ Len(rest) = Len(s) - 1 /\ Head(s) = s[1]
        /\ \A k \in 1..Len(rest) : rest[k] = s[k + 1]
        /\ Len(s) >= 1
    BY <1>1, <1>4, HeadTailProperties, EmptySeq
  <2> HIDE DEF ids, rest
  <2>3. ids # << >>
    BY <2>1, <2>2, EmptySeq
  <2>4. /\ Tail(ids) \in Seq(Ids) /\ Len(Tail(ids)) = Len(s) - 1 /\ Head(ids) = ids[1]
        /\ \A k \in 1..Len(Tail(ids)) : Tail(ids)[k] = ids[k + 1]
    BY <2>1, <2>3, HeadTailProperties
  <2>5. /\ IdsOf(rest) \in Seq(Ids) /\ Len(IdsOf(rest)) = Len(s) - 1
        /\ \A k \in 1..Len(rest) : IdsOf(rest)[k] = rest[k].id
    BY <1>2, <2>2
  <2>6. \A k \in 1..(Len(s) - 1) : IdsOf(rest)[k] = Tail(ids)[k]
    <3> TAKE k \in 1..(Len(s) - 1)
    <3>1. k + 1 \in 1..Len(s)
      BY <1>1
    <3> QED BY <2>1, <2>2, <2>4, <2>5, <3>1
  <2>7. IdsOf(rest) = Tail(ids)
    BY <2>4, <2>5, <2>6, SeqEqual
  <2>8. 1 \in 1..Len(s)
    BY <1>1, <2>2
  <2> QED BY <1>1, <2>1, <2>2, <2>3, <2>4, <2>7, <2>8 DEF ids, rest
<1>5. ASSUME s # << >>, Head(s).beats # 1
      PROVE  /\ [s EXCEPT ![1].beats = @ - 1] \in Seq(ReadRecords)
             /\ [s EXCEPT ![1].beats = @ - 1] # << >>
             /\ IdsOf([s EXCEPT ![1].beats = @ - 1]) = IdsOf(s)
  <2> DEFINE less == [s EXCEPT ![1].beats = @ - 1]
             one  == [s[1] EXCEPT !.beats = @ - 1]
  <2>1. Head(s) = s[1] /\ 1 \in 1..Len(s) /\ s[1] \in ReadRecords
    BY <1>1, <1>5, EmptySeq
  <2>2. one \in ReadRecords /\ one.id = s[1].id
    BY <1>5, <2>1 DEF ReadRecords
  <2>3. less = [s EXCEPT ![1] = one]
    OBVIOUS
  <2> HIDE DEF one
  <2>4. s \in [1..Len(s) -> ReadRecords]
    BY <1>1
  <2>5. /\ less \in [1..Len(s) -> ReadRecords]
        /\ \A k \in 1..Len(s) : less[k] = IF k = 1 THEN one ELSE s[k]
    BY <2>1, <2>2, <2>3, <2>4
  <2> HIDE DEF less
  <2>6. less \in Seq(ReadRecords) /\ Len(less) = Len(s)
    BY <1>1, <2>5
  <2>7. less # << >>
    BY <1>1, <2>1, <2>6, EmptySeq
  <2>8. \A k \in 1..Len(s) : less[k].id = s[k].id
    BY <2>2, <2>5
  <2>9. DOMAIN less = DOMAIN s
    BY <1>1, <2>5
  <2>10. IdsOf(less) = IdsOf(s)
    BY <1>1, <2>8, <2>9 DEF IdsOf
  <2> QED BY <2>6, <2>7, <2>10 DEF less
<1> QED BY <1>2, <1>3, <1>4, <1>5

\* The k-th bit of a number, and which of two inputs the tree lets pass when
\* both ask: the operators bit and preferred of RrArbTree.
Bit(n, k) == (n \div 2^k) % 2
Passes(i, j, rr) ==
  \E k \in 0..(NumLevels - 1) :
    /\ Bit(i, k) # Bit(j, k) /\ Bit(i, k) = Bit(rr, k)
    /\ \A m \in (k + 1)..(NumLevels - 1) : Bit(i, m) = Bit(j, m)

\* Halving a quotient is dividing by the double.
LEMMA Halved ==
  ASSUME NEW n \in Nat, NEW p \in Nat \ {0}
  PROVE  n \div (2 * p) = (n \div p) \div 2
<1> DEFINE q == n \div p
           h == q \div 2
<1>1. q \in Nat /\ p * q <= n /\ n < p * q + p
  OBVIOUS
<1>2. h \in Nat /\ 2 * h <= q /\ q <= 2 * h + 1
  BY <1>1
<1> HIDE DEF q, h
<1>3. p * (2 * h) <= p * q /\ p * q <= p * (2 * h + 1)
  BY <1>1, <1>2
<1>4. (2 * p) * h <= n /\ n < (2 * p) * h + 2 * p
  BY <1>1, <1>2, <1>3
<1>5. n \div (2 * p) = h
  BY <1>2, <1>4
<1> QED BY <1>5 DEF q, h

\* A bit is 0 or 1, and a number is its quotient and its bit.
LEMMA Bits ==
  ASSUME NEW n \in Nat, NEW k \in 0..NumLevels
  PROVE  /\ n \div 2^k \in Nat /\ Bit(n, k) \in {0, 1}
         /\ n \div 2^k = 2 * (n \div 2^(k + 1)) + Bit(n, k)
         /\ n \div 2^(k + 1) = (n \div 2^k) \div 2
<1>1. 2^k \in Nat \ {0} /\ 2^(k + 1) = 2 * 2^k
  BY PowersAssumption
<1>2. \A p \in Nat \ {0} : n \div p \in Nat
  OBVIOUS
<1>3. n \div 2^k \in Nat /\ n \div 2^(k + 1) = (n \div 2^k) \div 2
  BY <1>1, <1>2, Halved
<1>4. \A q \in Nat : q % 2 \in {0, 1} /\ q = 2 * (q \div 2) + (q % 2)
  OBVIOUS
<1> QED BY <1>3, <1>4 DEF Bit

\* Two inputs part at some level, above which they go the same way.
LEMMA TwoPart ==
  ASSUME NEW i \in Ports, NEW j \in Ports, i # j
  PROVE  \E k \in 0..(NumLevels - 1) :
           /\ Bit(i, k) # Bit(j, k)
           /\ \A m \in (k + 1)..(NumLevels - 1) : Bit(i, m) = Bit(j, m)
<1> DEFINE Same == {k \in 0..NumLevels : i \div 2^k = j \div 2^k}
<1>1. i \in Nat /\ j \in Nat /\ i < 2^NumLevels /\ j < 2^NumLevels /\ 2^NumLevels \in Nat \ {0}
      /\ NumLevels \in Nat
  BY SizesAssumption, PowersAssumption DEF Ports
<1>2. NumLevels \in Same
  <2>1. \A n, p \in Nat : n < p => n \div p = 0
    OBVIOUS
  <2> QED BY <1>1, <2>1
<1>3. 0 \notin Same
  <2>1. 2^0 = 1
    OBVIOUS
  <2>2. \A n \in Nat : n \div 1 = n
    OBVIOUS
  <2> QED BY <1>1, <2>1, <2>2
<1>4. PICK s \in Same : \A k \in Same : s <= k
  <2>1. Same \subseteq Nat /\ Same # {}
    BY <1>1, <1>2
  <2> HIDE DEF Same
  <2> QED BY <2>1, SmallestOf
<1>5. PICK k \in 0..(NumLevels - 1) : k + 1 = s /\ k \notin Same
  <2>1. s \in 0..NumLevels /\ s # 0
    BY <1>3, <1>4
  <2>2. s - 1 \in 0..(NumLevels - 1) /\ (s - 1) + 1 = s /\ ~(s <= s - 1)
    BY <1>1, <2>1
  <2>3. s - 1 \notin Same
    <3> HIDE DEF Same
    <3> QED BY <1>4, <2>2
  <2> HIDE DEF Same
  <2> QED BY <2>2, <2>3
<1>6. Bit(i, k) # Bit(j, k)
  <2>1. k \in 0..NumLevels /\ i \div 2^(k + 1) = j \div 2^(k + 1)
    BY <1>1, <1>4, <1>5
  <2>2. /\ i \div 2^k = 2 * (i \div 2^(k + 1)) + Bit(i, k)
        /\ j \div 2^k = 2 * (j \div 2^(k + 1)) + Bit(j, k)
    BY <1>1, <2>1, Bits
  <2> QED BY <1>5, <2>1, <2>2
<1>7. \A n \in s..NumLevels : n \in Same
  <2> DEFINE Apart == {n \in s..NumLevels : n \notin Same}
  <2>1. SUFFICES ASSUME Apart # {} PROVE FALSE
    OBVIOUS
  <2>2. Apart \subseteq Nat
    BY <1>1, <1>4
  <2>3. PICK n \in Apart : \A m \in Apart : n <= m
    <3> HIDE DEF Apart
    <3> QED BY <2>1, <2>2, SmallestOf
  <2>4. n \in s..NumLevels /\ n \notin Same /\ n # s /\ n \in Nat
    BY <1>1, <1>4, <2>3
  <2>5. n - 1 \in s..NumLevels /\ n - 1 \in Same /\ n - 1 \in 0..NumLevels
    BY <1>1, <1>4, <2>3, <2>4
  <2>6. PICK m \in 0..NumLevels : m = n - 1 /\ m \in Same /\ n = m + 1
    BY <2>4, <2>5
  <2>7. /\ i \div 2^(m + 1) = (i \div 2^m) \div 2
        /\ j \div 2^(m + 1) = (j \div 2^m) \div 2
    BY <1>1, Bits
  <2>8. i \div 2^n = j \div 2^n
    BY <2>6, <2>7
  <2>9. n \in 0..NumLevels
    BY <1>1, <1>4, <2>4
  <2> QED BY <2>4, <2>8, <2>9
<1>8. \A m \in (k + 1)..(NumLevels - 1) : Bit(i, m) = Bit(j, m)
  <2> SUFFICES ASSUME NEW m \in (k + 1)..(NumLevels - 1)
               PROVE  Bit(i, m) = Bit(j, m)
    OBVIOUS
  <2>1. m \in s..NumLevels
    BY <1>1, <1>5
  <2>2. i \div 2^m = j \div 2^m
    BY <1>7, <2>1
  <2> QED BY <2>2 DEF Bit
<1> QED BY <1>5, <1>6, <1>8

\* Of the inputs that ask, one passes all others: the tree goes down from the
\* highest level and keeps the side that goes with rr, if anybody asks there.
LEMMA OnePasses ==
  ASSUME NEW S, S \subseteq Ports, S # {}, NEW rr \in Nat
  PROVE  \E i \in S : \A j \in S \ {i} : Passes(i, j, rr)
<1> DEFINE Alike(T, k) ==
             \A i, j \in T : \A m \in k..(NumLevels - 1) : Bit(i, m) = Bit(j, m)
           Remain(T, k) ==
             /\ T \subseteq S /\ T # {} /\ Alike(T, k)
             /\ \A i \in T, j \in S \ T : Passes(i, j, rr)
           Levels == {k \in 0..NumLevels : \E T \in SUBSET S : Remain(T, k)}
<1>1. NumLevels \in Nat /\ S \subseteq Nat
  BY SizesAssumption DEF Ports
<1>2. NumLevels \in Levels
  <2>1. Remain(S, NumLevels)
    BY <1>1
  <2> HIDE DEF Remain
  <2> QED BY <1>1, <2>1
<1>3. PICK k \in Levels : \A m \in Levels : k <= m
  <2>1. Levels \subseteq Nat /\ Levels # {}
    BY <1>1, <1>2
  <2> HIDE DEF Levels
  <2> QED BY <2>1, SmallestOf
<1>4. PICK T \in SUBSET S : Remain(T, k)
  BY <1>3
<1>5. k = 0
  <2> SUFFICES ASSUME k # 0 PROVE FALSE
    OBVIOUS
  <2> DEFINE m == k - 1
  <2>1. m \in 0..(NumLevels - 1) /\ m \notin Levels /\ m + 1 = k /\ m \in 0..NumLevels
    BY <1>1, <1>3
  <2>2. \A i \in T : Bit(i, m) \in {0, 1}
    BY <1>1, <2>1, Bits
  <2>3. Bit(rr, m) \in {0, 1}
    BY <2>1, Bits
  <2> DEFINE With == {i \in T : Bit(i, m) = Bit(rr, m)}
  <2>4. CASE With # {}
    <3>1. Alike(With, m)
      BY <1>1, <1>4, <2>1
    <3>2. \A i \in With, j \in S \ With : Passes(i, j, rr)
      <4> TAKE i \in With, j \in S \ With
      <4>1. CASE j \in T
        BY <1>1, <1>4, <2>1, <4>1 DEF Passes
      <4>2. CASE j \notin T
        BY <1>4, <4>2
      <4> QED BY <4>1, <4>2
    <3>3. Remain(With, m)
      BY <1>4, <2>4, <3>1, <3>2
    <3> QED
      <4> HIDE DEF Remain
      <4>1. With \in SUBSET S
        OBVIOUS
      <4> QED BY <2>1, <3>3, <4>1
  <2>5. CASE With = {}
    <3>1. \A i, j \in T : Bit(i, m) = Bit(j, m)
      BY <2>2, <2>3, <2>5
    <3>2. Alike(T, m)
      BY <1>1, <1>4, <2>1, <3>1
    <3>3. Remain(T, m)
      BY <1>4, <3>2
    <3> QED
      <4> HIDE DEF Remain
      <4> QED BY <2>1, <3>3
  <2> QED BY <2>4, <2>5
<1>6. PICK i \in T : TRUE
  BY <1>4
<1>7. \A j \in T : j = i
  <2> SUFFICES ASSUME NEW j \in T, j # i PROVE FALSE
    OBVIOUS
  <2>1. i \in Ports /\ j \in Ports
    OBVIOUS
  <2>2. PICK m \in 0..(NumLevels - 1) : Bit(i, m) # Bit(j, m)
    BY <2>1, TwoPart
  <2> QED BY <1>4, <1>5, <2>2
<1> QED BY <1>4, <1>6, <1>7

\* The input that the tree lets pass, and the next to have priority.
Chosen(S, rr) == CHOOSE i \in S : \A j \in S \ {i} : Passes(i, j, rr)
Following(S, rr) ==
  LET above == {i \in S : i > rr}
      from  == IF above = {} THEN S ELSE above
  IN  CHOOSE i \in from : \A j \in from : i <= j

\* Both are among those that ask.
LEMMA ChosenAsks ==
  ASSUME NEW S, S \subseteq Ports, S # {}, NEW rr \in Ports
  PROVE  Chosen(S, rr) \in S /\ Following(S, rr) \in S
<1>1. rr \in Nat /\ S \subseteq Nat
  BY SizesAssumption DEF Ports
<1>2. \E i \in S : \A j \in S \ {i} : Passes(i, j, rr)
  BY <1>1, OnePasses
<1>3. Chosen(S, rr) \in S
  BY <1>2 DEF Chosen
<1> DEFINE above == {i \in S : i > rr}
           from  == IF above = {} THEN S ELSE above
<1>4. from \subseteq S /\ from # {}
  OBVIOUS
<1>5. \E i \in from : \A j \in from : i <= j
  <2> HIDE DEF from
  <2> QED BY <1>1, <1>4, SmallestOf
<1>6. Following(S, rr) \in from
  <2> HIDE DEF above
  <2> QED BY <1>5 DEF Following, above
<1> QED BY <1>3, <1>4, <1>6

\* They are what the arbiters of the two response channels compute.
LEMMA ArbitersChoose ==
  /\ \A req : RMux!idx(req) = Chosen(RMux!seen(req), r_rr)
  /\ \A req : RMux!nextRr(req) = Following(RMux!seen(req), r_rr)
  /\ \A req : BMux!idx(req) = Chosen(BMux!seen(req), b_rr)
  /\ \A req : BMux!nextRr(req) = Following(BMux!seen(req), b_rr)
<1>1. \A i, j : RMux!preferred(i, j) <=> Passes(i, j, r_rr)
  BY DEF RMux!preferred, RMux!bit, Passes, Bit
<1>2. \A i, j : BMux!preferred(i, j) <=> Passes(i, j, b_rr)
  BY DEF BMux!preferred, BMux!bit, Passes, Bit
<1> QED BY <1>1, <1>2, Zenon DEF RMux!idx, BMux!idx, RMux!nextRr, BMux!nextRr, Chosen, Following

(***************************************************************************)
(* Responses.  An arbiter that keeps a decision keeps one for slaves that  *)
(* still offer.                                                            *)
(***************************************************************************)
ResponseTypes ==
  /\ reads \in [Ports -> Seq(ReadRecords)] /\ writes \in [Ports -> Seq(Ids)]
  /\ rOffered \in [Ports -> BOOLEAN] /\ bOffered \in [Ports -> BOOLEAN]
  /\ \A p \in Ports : /\ rOffered[p] => reads[p] # << >>
                      /\ bOffered[p] => writes[p] # << >>
  /\ r_rr \in Ports /\ r_held \subseteq {p \in Ports : rOffered[p]}
  /\ b_rr \in Ports /\ b_held \subseteq {p \in Ports : bOffered[p]}

\* The slaves that the arbiters choose from.
ROffering == {p \in Ports : rOffered[p]}
BOffering == {p \in Ports : bOffered[p]}
RSeen == IF r_held # {} THEN r_held ELSE ROffering
BSeen == IF b_held # {} THEN b_held ELSE BOffering
RFrom == Chosen(RSeen, r_rr)
BFrom == Chosen(BSeen, b_rr)

\* What the master is shown is the oldest answer of one of the slaves that offer.
LEMMA ResponsesShown ==
  ASSUME WireIdPorts = {}, ResponseTypes
  PROVE  /\ Offering(rChan) = ROffering /\ Offering(bChan) = BOffering
         /\ RMux!seen(Offering(rChan)) = RSeen /\ BMux!seen(Offering(bChan)) = BSeen
         /\ RSeen \subseteq ROffering /\ BSeen \subseteq BOffering
         /\ rValid <=> RSeen # {}
         /\ bValid <=> BSeen # {}
         /\ rValid => /\ RFrom \in RSeen /\ RFrom \in Ports /\ rOffered[RFrom]
                      /\ reads[RFrom] # << >>
                      /\ rOut = [id |-> Head(reads[RFrom]).id,
                                 last |-> Head(reads[RFrom]).beats = 1, port |-> RFrom]
         /\ bValid => /\ BFrom \in BSeen /\ BFrom \in Ports /\ bOffered[BFrom]
                      /\ writes[BFrom] # << >>
                      /\ bOut = [id |-> Head(writes[BFrom]), port |-> BFrom]
<1>1. \A p \in Ports : rOffered[p] =>
        /\ Head(reads[p]).id \in Ids
        /\ rChan[p] = [id |-> Head(reads[p]).id, last |-> Head(reads[p]).beats = 1, port |-> p]
  <2> SUFFICES ASSUME NEW p \in Ports, rOffered[p]
               PROVE  /\ Head(reads[p]).id \in Ids
                      /\ rChan[p] = [id |-> Head(reads[p]).id,
                                     last |-> Head(reads[p]).beats = 1, port |-> p]
    OBVIOUS
  <2>1. reads[p] \in Seq(ReadRecords) /\ reads[p] # << >>
    BY DEF ResponseTypes
  <2>2. Head(reads[p]) \in ReadRecords
    BY <2>1, HeadTailProperties
  <2>3. Head(reads[p]).id \in Ids
    BY <2>2 DEF ReadRecords
  <2> QED BY <2>3 DEF rChan, rId
<1>2. \A p \in Ports : bOffered[p] =>
        /\ Head(writes[p]) \in Ids
        /\ bChan[p] = [id |-> Head(writes[p]), port |-> p]
  <2> SUFFICES ASSUME NEW p \in Ports, bOffered[p]
               PROVE  Head(writes[p]) \in Ids /\ bChan[p] = [id |-> Head(writes[p]), port |-> p]
    OBVIOUS
  <2>1. writes[p] \in Seq(Ids) /\ writes[p] # << >>
    BY DEF ResponseTypes
  <2>2. Head(writes[p]) \in Ids
    BY <2>1, HeadTailProperties
  <2> QED BY <2>2 DEF bChan, bId
<1>3. \A p \in Ports : rChan[p] # None <=> rOffered[p]
  <2> SUFFICES ASSUME NEW p \in Ports PROVE rChan[p] # None <=> rOffered[p]
    OBVIOUS
  <2>1. CASE rOffered[p]
    <3>1. rChan[p] \in [id : Ids, last : BOOLEAN, port : Ports]
      <4>1. \A i \in Ids, l \in BOOLEAN :
              [id |-> i, last |-> l, port |-> p] \in [id : Ids, last : BOOLEAN, port : Ports]
        OBVIOUS
      <4>2. Head(reads[p]).id \in Ids /\ (Head(reads[p]).beats = 1) \in BOOLEAN
        BY <1>1, <2>1
      <4> QED BY <1>1, <2>1, <4>1, <4>2, Zenon
    <3> QED BY <2>1, <3>1, NoneAssumption
  <2>2. CASE ~rOffered[p]
    BY <2>2 DEF rChan
  <2> QED BY <2>1, <2>2
<1>4. \A p \in Ports : bChan[p] # None <=> bOffered[p]
  <2> SUFFICES ASSUME NEW p \in Ports PROVE bChan[p] # None <=> bOffered[p]
    OBVIOUS
  <2>1. CASE bOffered[p]
    <3>1. bChan[p] \in [id : Ids, port : Ports]
      <4>1. \A i \in Ids : [id |-> i, port |-> p] \in [id : Ids, port : Ports]
        OBVIOUS
      <4> QED BY <1>2, <2>1, <4>1, Zenon
    <3> QED BY <2>1, <3>1, NoneAssumption
  <2>2. CASE ~bOffered[p]
    BY <2>2 DEF bChan
  <2> QED BY <2>1, <2>2
<1>5. Offering(rChan) = ROffering /\ Offering(bChan) = BOffering
  BY <1>3, <1>4 DEF Offering, ROffering, BOffering
<1>6. RMux!seen(Offering(rChan)) = RSeen /\ BMux!seen(Offering(bChan)) = BSeen
  BY <1>5 DEF RMux!seen, BMux!seen, RSeen, BSeen
<1>7. RSeen \subseteq ROffering /\ BSeen \subseteq BOffering
  BY DEF ResponseTypes, RSeen, BSeen, ROffering, BOffering
<1>8. (rValid <=> RSeen # {}) /\ (bValid <=> BSeen # {})
  BY <1>6 DEF rValid, bValid, RMux!valid, BMux!valid
<1>9. /\ RMux!idx(Offering(rChan)) = RFrom /\ BMux!idx(Offering(bChan)) = BFrom
  BY <1>6, ArbitersChoose DEF RFrom, BFrom
<1>10. rOut = rChan[RFrom] /\ bOut = bChan[BFrom]
  BY <1>9 DEF rOut, bOut, slv_r, slv_b
<1>11. RSeen \subseteq Ports /\ BSeen \subseteq Ports /\ r_rr \in Ports /\ b_rr \in Ports
  BY <1>7 DEF ROffering, BOffering, ResponseTypes
<1>12. rValid => RFrom \in RSeen
  BY <1>8, <1>11, ChosenAsks DEF RFrom
<1>13. bValid => BFrom \in BSeen
  BY <1>8, <1>11, ChosenAsks DEF BFrom
<1>14. rValid => /\ RFrom \in Ports /\ rOffered[RFrom] /\ reads[RFrom] # << >>
                 /\ rOut = [id |-> Head(reads[RFrom]).id,
                            last |-> Head(reads[RFrom]).beats = 1, port |-> RFrom]
  <2>1. rValid => RFrom \in Ports /\ rOffered[RFrom]
    BY <1>7, <1>12 DEF ROffering
  <2> QED BY <1>1, <1>10, <2>1 DEF ResponseTypes
<1>15. bValid => /\ BFrom \in Ports /\ bOffered[BFrom] /\ writes[BFrom] # << >>
                 /\ bOut = [id |-> Head(writes[BFrom]), port |-> BFrom]
  <2>1. bValid => BFrom \in Ports /\ bOffered[BFrom]
    BY <1>7, <1>13 DEF BOffering
  <2> QED BY <1>2, <1>10, <2>1 DEF ResponseTypes
<1> QED BY <1>5, <1>6, <1>7, <1>8, <1>12, <1>13, <1>14, <1>15

(***************************************************************************)
(* Counters.                                                               *)
(***************************************************************************)
\* The next counts: push with the id bits c0, pop with the id bits c1.
Counted(counter, modulus, push, c0, pop, c1) ==
  [i \in Looks |-> IF (push /\ c0 = i) /\ ~(pop /\ c1 = i) THEN (counter[i] + 1) % (2 * modulus)
                   ELSE IF (pop /\ c1 = i) /\ ~(push /\ c0 = i)
                        THEN (counter[i] - 1) % (2 * modulus)
                   ELSE counter[i]]

\* A counter that is not full counts up, one that is not empty counts down.
LEMMA CountsMove ==
  ASSUME NEW modulus \in Nat \ {0}, NEW counter \in [Looks -> Nat],
         \A c \in Looks : counter[c] < modulus,
         NEW push \in BOOLEAN, NEW pop \in BOOLEAN, NEW c0, NEW c1,
         push => \A c \in Looks : counter[c] # modulus - 1,
         pop => c1 \in Looks /\ counter[c1] > 0
  PROVE  /\ Counted(counter, modulus, push, c0, pop, c1) \in [Looks -> Nat]
         /\ \A c \in Looks :
              /\ Counted(counter, modulus, push, c0, pop, c1)[c] < modulus
              /\ Counted(counter, modulus, push, c0, pop, c1)[c]
                   = counter[c] - (IF pop /\ c1 = c THEN 1 ELSE 0)
                                + (IF push /\ c0 = c THEN 1 ELSE 0)
<1>1. \A n \in Nat : n < 2 * modulus => n % (2 * modulus) = n
  OBVIOUS
<1>2. ASSUME NEW c \in Looks
      PROVE  /\ Counted(counter, modulus, push, c0, pop, c1)[c] \in Nat
             /\ Counted(counter, modulus, push, c0, pop, c1)[c] < modulus
             /\ Counted(counter, modulus, push, c0, pop, c1)[c]
                   = counter[c] - (IF pop /\ c1 = c THEN 1 ELSE 0)
                                + (IF push /\ c0 = c THEN 1 ELSE 0)
  <2> DEFINE n    == counter[c]
             up   == push /\ c0 = c
             down == pop /\ c1 = c
  <2>1. Counted(counter, modulus, push, c0, pop, c1)[c]
          = IF up /\ ~down THEN (n + 1) % (2 * modulus)
            ELSE IF down /\ ~up THEN (n - 1) % (2 * modulus) ELSE n
    BY DEF Counted
  <2>2. n \in Nat /\ n < modulus /\ (up => n # modulus - 1) /\ (down => n > 0)
    OBVIOUS
  <2>3. (up \in BOOLEAN) /\ (down \in BOOLEAN)
    OBVIOUS
  <2> HIDE DEF n
  <2>4. CASE up /\ ~down
    <3>1. n + 1 \in Nat /\ n + 1 < 2 * modulus /\ n + 1 < modulus
      BY <2>2, <2>4
    <3>2. (n + 1) % (2 * modulus) = n + 1
      BY <1>1, <3>1
    <3> QED BY <2>1, <2>2, <2>4, <3>1, <3>2 DEF n
  <2>5. CASE down /\ ~up
    <3>1. n - 1 \in Nat /\ n - 1 < 2 * modulus /\ n - 1 < modulus
      BY <2>2, <2>5
    <3>2. (n - 1) % (2 * modulus) = n - 1
      BY <1>1, <3>1
    <3> QED BY <2>1, <2>2, <2>5, <3>1, <3>2 DEF n
  <2>6. CASE (up /\ down) \/ (~up /\ ~down)
    BY <2>1, <2>2, <2>6 DEF n
  <2> QED BY <2>3, <2>4, <2>5, <2>6
<1>3. Counted(counter, modulus, push, c0, pop, c1) \in [Looks -> Nat]
  <2>1. Counted(counter, modulus, push, c0, pop, c1)
          = [i \in Looks |-> Counted(counter, modulus, push, c0, pop, c1)[i]]
    BY DEF Counted
  <2> QED BY <1>2, <2>1
<1> QED BY <1>2, <1>3

\* A counter shows its overflow bit from here on.
Modulus == 2^IdCounterWidth

\* What the guards read off the counters.
LEMMA CountersRead ==
  /\ ar_counter \in [Looks -> Nat] /\ (\A c \in Looks : ar_counter[c] < Modulus) =>
       /\ ArIds!full <=> \E c \in Looks : ar_counter[c] = Modulus - 1
       /\ \A id \in Ids : ArIds!occupied(id) <=> ar_counter[id % LookIds] # 0
  /\ aw_counter \in [Looks -> Nat] /\ (\A c \in Looks : aw_counter[c] < Modulus) =>
       /\ AwIds!full <=> \E c \in Looks : aw_counter[c] = Modulus - 1
       /\ \A id \in Ids : AwIds!occupied(id) <=> aw_counter[id % LookIds] # 0
<1>1. Modulus \in Nat \ {0, 1} /\ ArIds!Modulus = Modulus /\ AwIds!Modulus = Modulus
  BY PowersAssumption DEF Modulus, ArIds!Modulus, AwIds!Modulus
<1>2. \A n \in Nat : n < Modulus => n % Modulus = n
  BY <1>1
<1>3. \A id \in Ids : id % LookIds \in Looks
  BY RequestsAssumption, SizesAssumption DEF Looks
<1>4. ASSUME ar_counter \in [Looks -> Nat], \A c \in Looks : ar_counter[c] < Modulus
      PROVE  /\ ArIds!full <=> \E c \in Looks : ar_counter[c] = Modulus - 1
             /\ \A id \in Ids : ArIds!occupied(id) <=> ar_counter[id % LookIds] # 0
  <2>1. \A c \in Looks : ArIds!in_flight(c) = ar_counter[c] /\ ~ArIds!overflow(c)
    BY <1>1, <1>2, <1>4 DEF ArIds!in_flight, ArIds!overflow
  <2> QED BY <1>1, <1>3, <2>1 DEF ArIds!full, ArIds!cnt_full, ArIds!occupied, ArIds!look, Looks
<1>5. ASSUME aw_counter \in [Looks -> Nat], \A c \in Looks : aw_counter[c] < Modulus
      PROVE  /\ AwIds!full <=> \E c \in Looks : aw_counter[c] = Modulus - 1
             /\ \A id \in Ids : AwIds!occupied(id) <=> aw_counter[id % LookIds] # 0
  <2>1. \A c \in Looks : AwIds!in_flight(c) = aw_counter[c] /\ ~AwIds!overflow(c)
    BY <1>1, <1>2, <1>5 DEF AwIds!in_flight, AwIds!overflow
  <2> QED BY <1>1, <1>3, <2>1 DEF AwIds!full, AwIds!cnt_full, AwIds!occupied, AwIds!look, Looks
<1> QED BY <1>4, <1>5

(***************************************************************************)
(* The books of the reads: what the counters and the select registers say  *)
(* of what the slaves have to answer.  A valid that waits for its ready    *)
(* keeps the conditions it was decided on.                                 *)
(***************************************************************************)
ReadQueues == [p \in Ports |-> IdsOf(reads[p])]

ReadBooks ==
  /\ Ledger(ReadQueues, ar_mst_select, expectR, Waiting(ar_b, ar_aFull, ar_a, ar))
  /\ ar_counter \in [Looks -> Nat]
  /\ \A c \in Looks : /\ ar_counter[c] = Open(ReadQueues, ar_mst_select, c)
                      /\ ar_counter[c] < Modulus
  /\ lock_ar_valid => ar_select_ok /\ ~ArIds!full

\* What the slaves have to answer after a cycle.
LEMMA ReadsMove ==
  ASSUME WireIdPorts = {}, ResponseTypes, NEW rReady \in BOOLEAN, NEW arReady \in BOOLEAN,
         ar_done(arReady) => slv_ar \in Requests,
         reads' = [p \in Ports |->
                    ReadsAfter(p, arReady, IF rValid /\ rReady THEN rOut.port ELSE None)]
  PROVE  /\ reads' \in [Ports -> Seq(ReadRecords)]
         /\ ReadQueues' = Joining(Left(ReadQueues, rValid /\ rReady /\ rOut.last, RFrom),
                                  ar_done(arReady), slv_ar.port, slv_ar.id)
         /\ \A p \in Ports : reads[p] # << >> /\ ~(rValid /\ rReady /\ RFrom = p) =>
              reads'[p] # << >> /\ Head(reads'[p]) = Head(reads[p])
<1> DEFINE from == IF rValid /\ rReady THEN rOut.port ELSE None
           pop  == rValid /\ rReady /\ rOut.last
           take == ar_done(arReady)
           new  == [id |-> slv_ar.id, beats |-> slv_ar.beats]
           rest(p) == IF from # p THEN reads[p]
                      ELSE IF Head(reads[p]).beats = 1 THEN Tail(reads[p])
                      ELSE [reads[p] EXCEPT ![1].beats = @ - 1]
<1>1. \A p \in Ports : from = p <=> rValid /\ rReady /\ RFrom = p
  BY NoneAssumption, ResponsesShown
<1>2. rValid => /\ RFrom \in Ports /\ reads[RFrom] # << >>
                /\ (rOut.last <=> Head(reads[RFrom]).beats = 1)
  <2>1. rValid => RFrom \in Ports /\ reads[RFrom] # << >>
    BY ResponsesShown
  <2>2. rValid => rOut = [id |-> Head(reads[RFrom]).id,
                          last |-> Head(reads[RFrom]).beats = 1, port |-> RFrom]
    BY ResponsesShown
  <2>3. rValid => rOut.last = (Head(reads[RFrom]).beats = 1)
    <3> DEFINE id   == Head(reads[RFrom]).id
               over == Head(reads[RFrom]).beats = 1
    <3>1. rValid => rOut = [id |-> id, last |-> over, port |-> RFrom]
      BY <2>2
    <3> HIDE DEF id, over
    <3>2. rValid => rOut.last = over
      BY <3>1
    <3> QED BY <3>2 DEF over
  <2> QED BY <2>1, <2>3, Zenon
<1>3. take => new \in ReadRecords /\ new.id = slv_ar.id
  BY RequestsAssumption DEF ReadRecords
<1> HIDE DEF new, take, from
<1>4. ASSUME NEW p \in Ports
      PROVE  /\ rest(p) \in Seq(ReadRecords)
             /\ IdsOf(rest(p)) = IF pop /\ RFrom = p THEN Tail(IdsOf(reads[p])) ELSE IdsOf(reads[p])
             /\ from # p => rest(p) = reads[p]
  <2>1. reads[p] \in Seq(ReadRecords)
    BY DEF ResponseTypes
  <2>2. CASE from # p
    BY <1>1, <2>1, <2>2
  <2>3. CASE from = p /\ Head(reads[p]).beats = 1
    <3>1. pop /\ RFrom = p /\ reads[p] # << >> /\ rest(p) = Tail(reads[p])
      BY <1>1, <1>2, <2>3
    <3>2. Tail(reads[p]) \in Seq(ReadRecords) /\ IdsOf(Tail(reads[p])) = Tail(IdsOf(reads[p]))
      BY <2>1, <3>1, IdsOfMoves
    <3> QED BY <2>3, <3>1, <3>2
  <2>4. CASE from = p /\ Head(reads[p]).beats # 1
    <3>1. ~pop /\ reads[p] # << >> /\ rest(p) = [reads[p] EXCEPT ![1].beats = @ - 1]
      BY <1>1, <1>2, <2>4
    <3>2. /\ [reads[p] EXCEPT ![1].beats = @ - 1] \in Seq(ReadRecords)
          /\ IdsOf([reads[p] EXCEPT ![1].beats = @ - 1]) = IdsOf(reads[p])
      BY <2>1, <2>4, <3>1, IdsOfMoves
    <3> QED BY <2>4, <3>1, <3>2
  <2> QED BY <2>2, <2>3, <2>4
<1>5. \A p \in Ports : reads'[p] = IF take /\ slv_ar.port = p THEN Append(rest(p), new) ELSE rest(p)
  BY DEF ReadsAfter, take, new, from
<1> HIDE DEF rest, pop
<1>6. ASSUME NEW p \in Ports
      PROVE  /\ reads'[p] \in Seq(ReadRecords)
             /\ IdsOf(reads'[p]) = IF take /\ slv_ar.port = p THEN Append(IdsOf(rest(p)), slv_ar.id)
                                   ELSE IdsOf(rest(p))
             /\ rest(p) # << >> => reads'[p] # << >> /\ Head(reads'[p]) = Head(rest(p))
  <2>1. CASE take /\ slv_ar.port = p
    <3>1. reads'[p] = Append(rest(p), new)
      BY <1>5, <2>1
    <3>2. rest(p) \in Seq(ReadRecords) /\ new \in ReadRecords
      BY <1>3, <1>4, <2>1
    <3>3. /\ Append(rest(p), new) \in Seq(ReadRecords)
          /\ IdsOf(Append(rest(p), new)) = Append(IdsOf(rest(p)), new.id)
          /\ rest(p) # << >> => Head(Append(rest(p), new)) = Head(rest(p))
          /\ Append(rest(p), new) # << >>
      BY <3>2, IdsOfMoves
    <3> QED BY <1>3, <2>1, <3>1, <3>3
  <2>2. CASE ~(take /\ slv_ar.port = p)
    BY <1>4, <1>5, <2>2
  <2> QED BY <2>1, <2>2
<1>7. reads' = [p \in Ports |-> reads'[p]]
  OBVIOUS
<1>8. reads' \in [Ports -> Seq(ReadRecords)]
  BY <1>6, <1>7
<1>9. ReadQueues' = Joining(Left(ReadQueues, pop, RFrom), take, slv_ar.port, slv_ar.id)
  <2>1. \A p \in Ports : Left(ReadQueues, pop, RFrom)[p] = IdsOf(rest(p))
    BY <1>4 DEF Left, ReadQueues
  <2>2. \A p \in Ports : Joining(Left(ReadQueues, pop, RFrom), take, slv_ar.port, slv_ar.id)[p]
                           = IdsOf(reads'[p])
    BY <1>6, <2>1 DEF Joining
  <2>3. ReadQueues' = [p \in Ports |-> IdsOf(reads'[p])]
    BY DEF ReadQueues, IdsOf
  <2> QED BY <2>2, <2>3 DEF Joining
<1>10. \A p \in Ports : reads[p] # << >> /\ ~(rValid /\ rReady /\ RFrom = p) =>
              reads'[p] # << >> /\ Head(reads'[p]) = Head(reads[p])
  BY <1>1, <1>4, <1>6
<1> QED BY <1>8, <1>9, <1>10 DEF pop, take

\* The id counters of the reads in a cycle.
LEMMA ReadCounters ==
  ASSUME NEW arReady, NEW rReady, NEW pop,
         ar_counter \in [Looks -> Nat], ar_mst_select \in [Looks -> Ports],
         ArIds!Clock(ar_done(arReady), slv_ar.id, slv_ar.port, pop, rOut.id)
  PROVE  /\ ar_counter' = Counted(ar_counter, Modulus, ar_done(arReady), slv_ar.id % LookIds,
                                  pop, rOut.id % LookIds)
         /\ ar_done(arReady) /\ slv_ar.id % LookIds \in Looks =>
              ar_mst_select' = Remembered(ar_mst_select, ar_done(arReady),
                                          slv_ar.id % LookIds, slv_ar.port)
         /\ ~ar_done(arReady) => ar_mst_select' = ar_mst_select
<1> DEFINE done == ar_done(arReady)
<1>1. DOMAIN ar_counter = Looks /\ DOMAIN ar_mst_select = Looks
  OBVIOUS
<1>2. ar_counter' = Counted(ar_counter, Modulus, done, slv_ar.id % LookIds, pop, rOut.id % LookIds)
  <2> HIDE DEF done
  <2> QED BY <1>1, Zenon DEF done, ArIds!Clock, ArIds!NextCount, ArIds!look, ArIds!Modulus,
         Modulus, Counted
<1>3. ar_mst_select' = [i \in Looks |-> IF done /\ slv_ar.id % LookIds = i THEN slv_ar.port
                                        ELSE ar_mst_select[i]]
  BY <1>1 DEF ArIds!Clock, ArIds!look
<1> HIDE DEF done
<1>4. ~done => ar_mst_select' = ar_mst_select
  BY <1>3
<1>5. done /\ slv_ar.id % LookIds \in Looks =>
        ar_mst_select' = Remembered(ar_mst_select, done, slv_ar.id % LookIds, slv_ar.port)
  BY <1>3 DEF Remembered
<1> QED BY <1>2, <1>4, <1>5 DEF done

\* The spill register of AR in a cycle.
LEMMA ArClocked ==
  ASSUME ReadTypes, NEW arReady \in BOOLEAN, ArSpill!Clock(ar, ar_done(arReady))
  PROVE  Clocked(ar_a, ar_aFull, ar_b, ar, ar_done(arReady), ar_a', ar_aFull', ar_b')
<1> DEFINE done == ar_done(arReady)
<1>1. ar_valid \in BOOLEAN /\ (ar_valid => ArSpill!Valid)
  BY DEF ReadTypes, ar_valid
<1>2. done \in BOOLEAN /\ (done => ar_aFull \/ ar_b # None)
  BY <1>1 DEF ar_done, ArSpill!Valid
<1>3. ar \in Requests \cup {None}
  BY RequestsAssumption DEF ReadTypes
<1> DEFINE fill  == ar # None /\ (~ar_aFull \/ ar_b = None)
           drain == ar_aFull /\ ar_b = None
<1>4. /\ ar_a' = IF fill THEN ar ELSE ar_a
      /\ ar_aFull' \in BOOLEAN /\ (ar_aFull' <=> fill \/ (ar_aFull /\ ~drain))
      /\ ar_b' = IF drain /\ ~done THEN ar_a ELSE IF ar_b # None /\ done THEN None ELSE ar_b
  BY DEF ArSpill!Clock, ArSpill!Ready
<1> HIDE DEF done
<1> QED BY <1>2, <1>3, <1>4 DEF Clocked, ReadTypes, done

\* The id bits looked at.
LEMMA LooksOfIds == \A i \in Ids : i % LookIds \in Looks
  BY RequestsAssumption, SizesAssumption DEF Looks

\* A cycle keeps the books of the reads.
LEMMA ReadBooksKept ==
  ASSUME WireIdPorts = {}, ReadTypes, ResponseTypes, ReadBooks,
         NEW arReady \in BOOLEAN, NEW rReady \in BOOLEAN,
         ArSpill!Clock(ar, ar_done(arReady)),
         lock_ar_valid' = (ar_valid /\ ~arReady),
         ArIds!Clock(ar_done(arReady), slv_ar.id, slv_ar.port, r_pop(rChan, rReady), rOut.id),
         reads' = [p \in Ports |->
                    ReadsAfter(p, arReady, IF rValid /\ rReady THEN rOut.port ELSE None)],
         IssueRead(rReady)
  PROVE  ReadBooks'
<1> DEFINE done    == ar_done(arReady)
           pop     == r_pop(rChan, rReady)
           look    == slv_ar.id % LookIds
           before  == Waiting(ar_b, ar_aFull, ar_a, ar)
           removed == Removed(before, done, slv_ar.id)
           select2 == Remembered(ar_mst_select, done, look, slv_ar.port)
           queues2 == Joining(Left(ReadQueues, pop, RFrom), done, slv_ar.port, slv_ar.id)
           settled == Settled(expectR, pop, rOut.id)
<1>1. Clocked(ar_a, ar_aFull, ar_b, ar, done, ar_a', ar_aFull', ar_b')
  BY ArClocked
<1>2. /\ done \in BOOLEAN /\ ar_a \in Requests /\ ar_aFull \in BOOLEAN
      /\ ar_b \in Requests \cup {None} /\ ar \in Requests \cup {None}
      /\ ar_a' \in Requests /\ ar_b' \in Requests \cup {None} /\ ar_aFull' \in BOOLEAN
  <2>1. Moved(ar_a, ar_aFull, ar_b, ar, done, ar_a', ar_aFull', ar_b')
    BY <1>1, SpillMoves
  <2> HIDE DEF done
  <2> QED BY <1>1, <2>1 DEF Clocked, Moved
<1>3. slv_ar = (IF ar_b # None THEN ar_b ELSE ar_a) /\ slv_ar \in Requests
      /\ slv_ar.id \in Ids /\ slv_ar.port \in Ports /\ look \in Looks
  <2>1. slv_ar = (IF ar_b # None THEN ar_b ELSE ar_a)
    BY DEF slv_ar, ArSpill!Data
  <2>2. slv_ar \in Requests
    BY <1>2, <2>1
  <2>3. slv_ar.id \in Ids /\ slv_ar.port \in Ports
    BY <2>2, RequestsAssumption
  <2>4. look \in Looks
    BY <2>3, LooksOfIds
  <2> QED BY <2>1, <2>2, <2>3, <2>4
<1>4. /\ done => before[slv_ar.id] # << >> /\ Head(before[slv_ar.id]) = slv_ar.port
      /\ ar_aFull /\ ar_b # None => Waiting(ar_b', ar_aFull', ar_a', ar) = removed
      /\ ~ar_aFull \/ ar_b = None => Waiting(ar_b', ar_aFull', ar_a', None) = removed
  <2>1. removed = IF done THEN [before EXCEPT ![slv_ar.id] = Tail(@)] ELSE before
    BY DEF Removed, Shorter
  <2> HIDE DEF done, before, removed
  <2>2. LET shown   == IF ar_b # None THEN ar_b ELSE ar_a
            before2 == Waiting(ar_b, ar_aFull, ar_a, ar)
            remove2 == IF done THEN [before2 EXCEPT ![shown.id] = Tail(@)] ELSE before2
        IN  /\ done => /\ shown \in Requests /\ shown.id \in Ids /\ shown.port \in Ports
                       /\ before2[shown.id] # << >> /\ Head(before2[shown.id]) = shown.port
            /\ ar_aFull /\ ar_b # None => Waiting(ar_b', ar_aFull', ar_a', ar) = remove2
            /\ ~ar_aFull \/ ar_b = None => Waiting(ar_b', ar_aFull', ar_a', None) = remove2
    BY <1>1, WaitingMoves
  <2> QED BY <1>3, <2>1, <2>2 DEF before
<1>5. /\ rValid => RFrom \in Ports /\ reads[RFrom] # << >> /\ rOut.id = Head(reads[RFrom]).id
      /\ pop <=> rValid /\ rReady /\ rOut.last
  <2>1. rValid => RFrom \in Ports /\ reads[RFrom] # << >> /\ rOut.id = Head(reads[RFrom]).id
    BY ResponsesShown
  <2> QED BY <2>1 DEF r_pop, slv_r_done, rValid, rOut
<1>6. pop \in BOOLEAN
  BY Zenon DEF r_pop
<1>7. pop => /\ RFrom \in Ports /\ ReadQueues[RFrom] # << >>
             /\ rOut.id = Head(ReadQueues[RFrom])
  <2>1. ASSUME rValid
        PROVE  /\ IdsOf(reads[RFrom]) # << >> /\ rOut.id = Head(IdsOf(reads[RFrom]))
    <3>1. reads[RFrom] \in Seq(ReadRecords) /\ reads[RFrom] # << >>
      BY <1>5, <2>1 DEF ResponseTypes
    <3> QED BY <1>5, <2>1, <3>1, IdsOfMoves
  <2> QED BY <1>5, <2>1 DEF ReadQueues
<1>8. /\ Ledger(ReadQueues, ar_mst_select, expectR, before)
      /\ ar_counter \in [Looks -> Nat] /\ ar_mst_select \in [Looks -> Ports]
      /\ expectR \in [Ids -> Seq(Ports)]
      /\ \A c \in Looks : /\ ar_counter[c] = Open(ReadQueues, ar_mst_select, c)
                          /\ ar_counter[c] < Modulus
  BY DEF ReadBooks, Ledger
<1>9. ar_valid => ar_select_ok /\ ~ArIds!full
  BY DEF ReadBooks, ar_valid
<1>10. /\ ar_select_ok <=> (ar_counter[look] # 0 => slv_ar.port = ar_mst_select[look])
       /\ ArIds!full <=> \E c \in Looks : ar_counter[c] = Modulus - 1
  BY <1>3, <1>8, CountersRead DEF ar_select_ok, ArIds!mst_select_of, ArIds!look
<1>11. done => /\ ar_valid /\ \A c \in Looks : ar_counter[c] # Modulus - 1
               /\ Open(ReadQueues, ar_mst_select, look) # 0 => ar_mst_select[look] = slv_ar.port
  BY <1>3, <1>8, <1>9, <1>10 DEF ar_done
<1>12. select2[look] = slv_ar.port \/ ~done
  BY <1>3, <1>8 DEF Remembered
<1>13. ReadQueues' = queues2
  <2>1. ReadQueues' = Joining(Left(ReadQueues, rValid /\ rReady /\ rOut.last, RFrom),
                              ar_done(arReady), slv_ar.port, slv_ar.id)
    BY <1>3, ReadsMove
  <2>2. (rValid /\ rReady /\ rOut.last) <=> pop
    BY <1>5
  <2> HIDE DEF pop
  <2> QED BY <2>1, <2>2 DEF Left
<1>14. ar_mst_select' = select2
  BY <1>3, <1>8, ReadCounters DEF Remembered
<1>15. ar_counter' = Counted(ar_counter, Modulus, done, look, pop, rOut.id % LookIds)
  BY <1>8, ReadCounters
<1> HIDE DEF done, pop, look, before
<1>16. /\ Ledger(queues2, select2, settled, removed)
       /\ \A c \in Looks :
            Open(queues2, select2, c)
              = Open(ReadQueues, ar_mst_select, c) - (IF pop /\ rOut.id % LookIds = c THEN 1 ELSE 0)
                                        + (IF done /\ slv_ar.id % LookIds = c THEN 1 ELSE 0)
       /\ pop => rOut.id \in Ids /\ Open(ReadQueues, ar_mst_select, rOut.id % LookIds) > 0
  <2>1. done => /\ look \in Looks /\ slv_ar.port \in Ports
                /\ Open(ReadQueues, ar_mst_select, look) # 0 => ar_mst_select[look] = slv_ar.port
    BY <1>3, <1>11
  <2>2. done => /\ slv_ar.id \in Ids /\ slv_ar.port \in Ports
                /\ select2[slv_ar.id % LookIds] = slv_ar.port
                /\ before[slv_ar.id] # << >> /\ Head(before[slv_ar.id]) = slv_ar.port
    BY <1>3, <1>4, <1>12 DEF look
  <2>3. pop => /\ RFrom \in Ports /\ ReadQueues[RFrom] # << >>
               /\ rOut.id = Head(ReadQueues[RFrom])
    BY <1>7
  <2>4. Ledger(ReadQueues, ar_mst_select, expectR, before) /\ done \in BOOLEAN /\ pop \in BOOLEAN
    BY <1>2, <1>6, <1>8
  <2>5. BooksCycle(ReadQueues, ar_mst_select, expectR, before, done, pop, done, look, slv_ar.port,
                   RFrom, slv_ar.id, slv_ar.port, rOut.id)
    BY <2>1, <2>2, <2>3, <2>4 DEF BooksCycle
  <2>6. BooksAfter(ReadQueues, ar_mst_select, expectR, before, done, pop, done, look, slv_ar.port,
                   RFrom, slv_ar.id, slv_ar.port, rOut.id)
    BY <2>5, BooksMove
  <2> QED BY <2>6 DEF BooksAfter
<1>17. /\ ar_counter' \in [Looks -> Nat]
       /\ \A c \in Looks : /\ ar_counter'[c] < Modulus
                           /\ ar_counter'[c] = Open(queues2, select2, c)
       /\ ~done => \A c \in Looks : ar_counter'[c] <= ar_counter[c]
  <2>1. pop => rOut.id % LookIds \in Looks /\ ar_counter[rOut.id % LookIds] > 0
    <3>1. pop => rOut.id % LookIds \in Looks
      BY <1>16, LooksOfIds
    <3> QED BY <1>8, <1>16, <3>1
  <2>2. Modulus \in Nat \ {0}
    BY PowersAssumption DEF Modulus
  <2> DEFINE counted == Counted(ar_counter, Modulus, done, look, pop, rOut.id % LookIds)
  <2>3. /\ counted \in [Looks -> Nat]
        /\ \A c \in Looks :
              /\ counted[c] < Modulus
              /\ counted[c] = ar_counter[c] - (IF pop /\ rOut.id % LookIds = c THEN 1 ELSE 0)
                                            + (IF done /\ look = c THEN 1 ELSE 0)
    <3>1. done => \A c \in Looks : ar_counter[c] # Modulus - 1
      BY <1>11
    <3>2. /\ ar_counter \in [Looks -> Nat] /\ done \in BOOLEAN /\ pop \in BOOLEAN
          /\ \A c \in Looks : ar_counter[c] < Modulus
      BY <1>2, <1>6, <1>8
    <3> QED BY <2>1, <2>2, <3>1, <3>2, CountsMove
  <2> HIDE DEF counted
  <2>4. ar_counter' = counted
    BY <1>15 DEF counted
  <2>5. \A c \in Looks : counted[c] = Open(queues2, select2, c)
    BY <1>8, <1>16, <2>3 DEF look
  <2>6. ~done => \A c \in Looks : counted[c] <= ar_counter[c]
    <3> SUFFICES ASSUME ~done, NEW c \in Looks PROVE counted[c] <= ar_counter[c]
      OBVIOUS
    <3>1. counted[c] = ar_counter[c] - (IF pop /\ rOut.id % LookIds = c THEN 1 ELSE 0)
                                     + (IF done /\ look = c THEN 1 ELSE 0)
      BY <2>3
    <3>2. ar_counter[c] \in Nat
      BY <1>8
    <3> QED BY <3>1, <3>2
  <2> QED BY <2>3, <2>4, <2>5, <2>6
<1>18. Ledger(queues2, select2, expectR', Waiting(ar_b', ar_aFull', ar_a', ar'))
  <2>1. Answered(expectR, r_pop(rChan, rReady), rOut.id) = settled
    BY DEF Answered, Settled, pop
  <2>2. ArSpill!Ready <=> ~ar_aFull \/ ar_b = None
    BY DEF ArSpill!Ready
  <2>3. CASE ar # None /\ ~ArSpill!Ready
    <3>1. ar' = ar /\ expectR' = settled
      BY <2>1, <2>3 DEF IssueRead
    <3>2. Waiting(ar_b', ar_aFull', ar_a', ar') = removed
      BY <1>2, <1>4, <2>2, <2>3, <3>1
    <3> QED BY <1>16, <3>1, <3>2
  <2>4. CASE ~(ar # None /\ ~ArSpill!Ready)
    <3>1. Waiting(ar_b', ar_aFull', ar_a', None) = removed
      BY <1>2, <1>4, <2>2, <2>4
    <3>2. CASE ar' = None /\ expectR' = settled
      BY <1>16, <3>1, <3>2
    <3>3. CASE \E req \in ReadReqs :
                 ar' = req /\ expectR' = [settled EXCEPT ![req.id] = Append(@, req.port)]
      <4>1. PICK req \in ReadReqs :
                 ar' = req /\ expectR' = [settled EXCEPT ![req.id] = Append(@, req.port)]
        BY <3>3
      <4>2. req \in Requests /\ req.id \in Ids /\ req.port \in Ports
        BY RequestsAssumption
      <4>3. Waiting(ar_b', ar_aFull', ar_a', req)
              = [removed EXCEPT ![req.id] = Joined(@, <<req.port>>)]
        <5> DEFINE slot == IF ar_aFull' THEN ar_a' ELSE None
        <5>1. slot \in Requests \cup {None}
          BY <1>2
        <5>2. /\ Waiting(ar_b', ar_aFull', ar_a', req) = Line(ar_b', slot, req)
              /\ removed = Line(ar_b', slot, None)
          BY <3>1 DEF Waiting
        <5> HIDE DEF slot, removed
        <5>3. Line(ar_b', slot, req)
                = [Line(ar_b', slot, None) EXCEPT ![req.id] = Joined(@, <<req.port>>)]
          BY <1>2, <4>2, <5>1, LineLast
        <5> QED BY <5>2, <5>3
      <4>4. Ledger(queues2, select2, Longer(settled, req.id, req.port),
                   [removed EXCEPT ![req.id] = Joined(@, <<req.port>>)])
        <5> HIDE DEF queues2, select2, settled, removed
        <5> QED BY <1>16, <4>2, IssueMoves
      <4>5. expectR' = Longer(settled, req.id, req.port)
        BY <4>1 DEF Longer
      <4> HIDE DEF queues2, select2, settled, removed
      <4> QED BY <4>1, <4>3, <4>4, <4>5
    <3> QED BY <2>1, <2>4, <3>2, <3>3 DEF IssueRead
  <2> QED BY <2>3, <2>4
<1>19. ASSUME lock_ar_valid'
       PROVE  (ar_select_ok /\ ~ArIds!full)'
  <2>1. ar_valid /\ ~done
    BY <1>19 DEF done, ar_done
  <2>2. slv_ar' = slv_ar
    <3>1. Moved(ar_a, ar_aFull, ar_b, ar, done, ar_a', ar_aFull', ar_b')
      BY <1>1, SpillMoves
    <3>2. ar_aFull \/ ar_b # None
      BY <2>1 DEF ReadTypes, ar_valid, ArSpill!Valid
    <3> QED BY <2>1, <3>1, <3>2 DEF Moved, slv_ar, ArSpill!Data
  <2>3. ar_mst_select' = ar_mst_select
    BY <1>14, <2>1 DEF Remembered
  <2>4. (/\ ar_counter \in [Looks -> Nat] /\ (\A c \in Looks : ar_counter[c] < Modulus)
         => /\ ArIds!full <=> \E c \in Looks : ar_counter[c] = Modulus - 1
            /\ \A id \in Ids : ArIds!occupied(id) <=> ar_counter[id % LookIds] # 0)'
    BY CountersRead, PTL
  <2>5. /\ ArIds!full' <=> \E c \in Looks : ar_counter'[c] = Modulus - 1
        /\ \A id \in Ids : ArIds!occupied(id)' <=> ar_counter'[id % LookIds] # 0
    BY <1>17, <2>4
  <2>6. \A c \in Looks : ar_counter'[c] \in Nat /\ ar_counter[c] \in Nat
                         /\ ar_counter'[c] <= ar_counter[c] /\ ar_counter[c] < Modulus
                         /\ ar_counter[c] # Modulus - 1
    BY <1>8, <1>9, <1>10, <1>17, <2>1
  <2>7. ~ArIds!full'
    <3>1. Modulus \in Nat
      BY PowersAssumption DEF Modulus
    <3> QED BY <2>5, <2>6, <3>1
  <2>8. ar_select_ok'
    <3>1. ArIds!occupied(slv_ar.id)' => ar_counter[look] # 0
      BY <1>3, <2>2, <2>5, <2>6 DEF look
    <3>2. ar_counter[look] # 0 => slv_ar.port = ar_mst_select[look]
      BY <1>9, <1>10, <2>1
    <3> QED BY <2>2, <2>3, <3>1, <3>2 DEF ar_select_ok, ArIds!mst_select_of, ArIds!look, look
  <2> QED BY <2>7, <2>8
<1> HIDE DEF queues2, select2, settled, removed
<1>20. Ledger(ReadQueues', ar_mst_select', expectR', Waiting(ar_b', ar_aFull', ar_a', ar'))
  BY <1>13, <1>14, <1>18 DEF queues2, select2
<1> QED
  <2>1. \A c \in Looks : ar_counter'[c] = Open(ReadQueues', ar_mst_select', c)
    BY <1>13, <1>14, <1>17
  <2>2. (\A c \in Looks : ar_counter[c] = Open(ReadQueues, ar_mst_select, c))'
    BY <2>1 DEF Open, Times
  <2>3. Ledger(ReadQueues, ar_mst_select, expectR, Waiting(ar_b, ar_aFull, ar_a, ar))'
    BY <1>20 DEF Ledger, Together, Due, Waiting, Line, OfId, Copies, Times
  <2> QED BY <1>17, <1>19, <2>2, <2>3 DEF ReadBooks, Modulus

(***************************************************************************)
(* The books of the writes.                                                *)
(***************************************************************************)
\* A write counts from its valid, but joins the slave's queue when it is taken.
Pending(c) == IF lock_aw_valid /\ slv_aw.id % LookIds = c THEN 1 ELSE 0

WriteBooks ==
  /\ Ledger(writes, aw_mst_select, expectB, Waiting(aw_b, aw_aFull, aw_a, aw))
  /\ aw_counter \in [Looks -> Nat]
  /\ \A c \in Looks : /\ aw_counter[c] = Open(writes, aw_mst_select, c) + Pending(c)
                      /\ aw_counter[c] < Modulus
  /\ lock_aw_valid => aw_mst_select[slv_aw.id % LookIds] = slv_aw.port

\* What the slaves have to answer after a cycle.
LEMMA WritesMove ==
  ASSUME WireIdPorts = {}, ResponseTypes, NEW bReady \in BOOLEAN, NEW awReady \in BOOLEAN,
         aw_done(awReady) => slv_aw \in Requests,
         writes' = [p \in Ports |->
                     WritesAfter(p, awReady, IF bValid /\ bReady THEN bOut.port ELSE None)]
  PROVE  /\ writes' \in [Ports -> Seq(Ids)]
         /\ writes' = Joining(Left(writes, bValid /\ bReady, BFrom),
                              aw_done(awReady), slv_aw.port, slv_aw.id)
         /\ \A p \in Ports : writes[p] # << >> /\ ~(bValid /\ bReady /\ BFrom = p) =>
              writes'[p] # << >> /\ Head(writes'[p]) = Head(writes[p])
<1> DEFINE from == IF bValid /\ bReady THEN bOut.port ELSE None
           pop  == bValid /\ bReady
           take == aw_done(awReady)
           rest(p) == IF from = p THEN Tail(writes[p]) ELSE writes[p]
<1>1. \A p \in Ports : from = p <=> pop /\ BFrom = p
  BY NoneAssumption, ResponsesShown
<1>2. bValid => BFrom \in Ports /\ writes[BFrom] # << >>
  BY ResponsesShown
<1>3. take => slv_aw.id \in Ids
  BY RequestsAssumption
<1>4. \A p \in Ports :
        writes'[p] = IF take /\ slv_aw.port = p THEN Append(rest(p), slv_aw.id) ELSE rest(p)
  BY DEF WritesAfter
<1> HIDE DEF take, from, pop
<1>5. \A p \in Ports : rest(p) = Left(writes, pop, BFrom)[p]
  BY <1>1 DEF Left
<1>6. writes' = Joining(Left(writes, pop, BFrom), take, slv_aw.port, slv_aw.id)
  <2> HIDE DEF rest
  <2>1. \A p \in Ports :
          writes'[p] = Joining(Left(writes, pop, BFrom), take, slv_aw.port, slv_aw.id)[p]
    BY <1>4, <1>5 DEF Joining
  <2>2. writes' = [p \in Ports |-> writes'[p]]
    OBVIOUS
  <2> QED BY <2>1, <2>2 DEF Joining
<1>7. ASSUME NEW p \in Ports
      PROVE  /\ writes'[p] \in Seq(Ids)
             /\ writes[p] # << >> /\ ~(pop /\ BFrom = p) =>
                  writes'[p] # << >> /\ Head(writes'[p]) = Head(writes[p])
  <2>1. writes[p] \in Seq(Ids)
    BY DEF ResponseTypes
  <2>2. rest(p) \in Seq(Ids) /\ (~(pop /\ BFrom = p) => rest(p) = writes[p])
    <3>1. from = p => Tail(writes[p]) \in Seq(Ids)
      BY <1>1, <1>2, <2>1, HeadTailProperties DEF pop
    <3> QED BY <1>1, <2>1, <3>1
  <2> DEFINE r == rest(p)
             longer == Append(r, slv_aw.id)
  <2> HIDE DEF r
  <2>3. CASE take /\ slv_aw.port = p
    <3>1. r \in Seq(Ids) /\ slv_aw.id \in Ids
      BY <1>3, <2>2, <2>3 DEF r
    <3>2. /\ longer \in Seq(Ids) /\ Len(longer) = Len(r) + 1 /\ Len(r) \in Nat
          /\ \A k \in 1..Len(r) : longer[k] = r[k]
      BY <3>1, AppendProperties, LenProperties
    <3> HIDE DEF longer
    <3>3. longer # << >> /\ Head(longer) = longer[1]
      BY <3>2, EmptySeq
    <3>4. r # << >> => Head(longer) = Head(r)
      BY <3>1, <3>2, <3>3, EmptySeq
    <3>5. writes'[p] = longer
      BY <1>4, <2>3 DEF longer, r
    <3> QED BY <2>2, <3>2, <3>3, <3>4, <3>5 DEF r
  <2>4. CASE ~(take /\ slv_aw.port = p)
    BY <1>4, <2>2, <2>4
  <2> QED BY <2>3, <2>4
<1>8. writes' \in [Ports -> Seq(Ids)]
  <2>1. writes' = [p \in Ports |-> writes'[p]]
    OBVIOUS
  <2> QED BY <1>7, <2>1
<1>9. \A p \in Ports : writes[p] # << >> /\ ~(pop /\ BFrom = p) =>
                  writes'[p] # << >> /\ Head(writes'[p]) = Head(writes[p])
  BY <1>7
<1> QED BY <1>6, <1>8, <1>9 DEF pop, take

\* The id counters of the writes in a cycle.
LEMMA WriteCounters ==
  ASSUME NEW pop,
         aw_counter \in [Looks -> Nat], aw_mst_select \in [Looks -> Ports],
         AwIds!Clock(aw_push, slv_aw.id, slv_aw.port, pop, bOut.id)
  PROVE  /\ aw_counter' = Counted(aw_counter, Modulus, aw_push, slv_aw.id % LookIds,
                                  pop, bOut.id % LookIds)
         /\ aw_push /\ slv_aw.id % LookIds \in Looks =>
              aw_mst_select' = Remembered(aw_mst_select, aw_push, slv_aw.id % LookIds, slv_aw.port)
         /\ ~aw_push => aw_mst_select' = aw_mst_select
<1> DEFINE push == aw_push
<1>1. DOMAIN aw_counter = Looks /\ DOMAIN aw_mst_select = Looks
  OBVIOUS
<1>2. aw_counter' = Counted(aw_counter, Modulus, push, slv_aw.id % LookIds, pop, bOut.id % LookIds)
  <2> HIDE DEF push
  <2> QED BY <1>1, Zenon DEF push, AwIds!Clock, AwIds!NextCount, AwIds!look, AwIds!Modulus,
         Modulus, Counted
<1>3. aw_mst_select' = [i \in Looks |-> IF push /\ slv_aw.id % LookIds = i THEN slv_aw.port
                                        ELSE aw_mst_select[i]]
  BY <1>1 DEF AwIds!Clock, AwIds!look
<1> HIDE DEF push
<1>4. ~push => aw_mst_select' = aw_mst_select
  BY <1>3
<1>5. push /\ slv_aw.id % LookIds \in Looks =>
        aw_mst_select' = Remembered(aw_mst_select, push, slv_aw.id % LookIds, slv_aw.port)
  BY <1>3 DEF Remembered
<1> QED BY <1>2, <1>4, <1>5 DEF push

\* The spill register of AW in a cycle.
LEMMA AwClocked ==
  ASSUME WriteTypes, NEW awReady \in BOOLEAN, AwSpill!Clock(aw, aw_done(awReady))
  PROVE  Clocked(aw_a, aw_aFull, aw_b, aw, aw_done(awReady), aw_a', aw_aFull', aw_b')
<1> DEFINE done == aw_done(awReady)
<1>1. aw_valid \in BOOLEAN /\ (aw_valid => AwSpill!Valid)
  BY DEF WriteTypes, aw_valid, aw_push
<1>2. done \in BOOLEAN /\ (done => aw_aFull \/ aw_b # None)
  BY <1>1 DEF aw_done, AwSpill!Valid
<1>3. aw \in Requests \cup {None}
  BY RequestsAssumption DEF WriteTypes
<1> DEFINE fill  == aw # None /\ (~aw_aFull \/ aw_b = None)
           drain == aw_aFull /\ aw_b = None
<1>4. /\ aw_a' = IF fill THEN aw ELSE aw_a
      /\ aw_aFull' \in BOOLEAN /\ (aw_aFull' <=> fill \/ (aw_aFull /\ ~drain))
      /\ aw_b' = IF drain /\ ~done THEN aw_a ELSE IF aw_b # None /\ done THEN None ELSE aw_b
  BY DEF AwSpill!Clock, AwSpill!Ready
<1> HIDE DEF done
<1> QED BY <1>2, <1>3, <1>4 DEF Clocked, WriteTypes, done

\* A cycle keeps the books of the writes.
LEMMA WriteBooksKept ==
  ASSUME WireIdPorts = {}, WriteTypes, ResponseTypes, WriteBooks,
         NEW awReady \in BOOLEAN, NEW bReady \in BOOLEAN, NEW wReady, NEW brisk,
         AwSpill!Clock(aw, aw_done(awReady)),
         lock_aw_valid' = (aw_valid /\ ~awReady),
         AwIds!Clock(aw_push, slv_aw.id, slv_aw.port, slv_b_done(bChan, bReady), bOut.id),
         writes' = [p \in Ports |->
                     WritesAfter(p, awReady, IF bValid /\ bReady THEN bOut.port ELSE None)],
         IssueWrite(wReady, bReady, brisk)
  PROVE  WriteBooks'
<1> DEFINE done    == aw_done(awReady)
           push    == aw_push
           pop     == slv_b_done(bChan, bReady)
           look    == slv_aw.id % LookIds
           before  == Waiting(aw_b, aw_aFull, aw_a, aw)
           removed == Removed(before, done, slv_aw.id)
           select2 == Remembered(aw_mst_select, push, look, slv_aw.port)
           queues2 == Joining(Left(writes, pop, BFrom), done, slv_aw.port, slv_aw.id)
           settled == Settled(expectB, pop, bOut.id)
<1>1. Clocked(aw_a, aw_aFull, aw_b, aw, done, aw_a', aw_aFull', aw_b')
  BY AwClocked
<1>2. /\ done \in BOOLEAN /\ aw_a \in Requests /\ aw_aFull \in BOOLEAN
      /\ aw_b \in Requests \cup {None} /\ aw \in Requests \cup {None}
      /\ aw_a' \in Requests /\ aw_b' \in Requests \cup {None} /\ aw_aFull' \in BOOLEAN
  <2>1. Moved(aw_a, aw_aFull, aw_b, aw, done, aw_a', aw_aFull', aw_b')
    BY <1>1, SpillMoves
  <2> HIDE DEF done
  <2> QED BY <1>1, <2>1 DEF Clocked, Moved
<1>3. slv_aw = (IF aw_b # None THEN aw_b ELSE aw_a) /\ slv_aw \in Requests
      /\ slv_aw.id \in Ids /\ slv_aw.port \in Ports /\ look \in Looks
  <2>1. slv_aw = (IF aw_b # None THEN aw_b ELSE aw_a)
    BY DEF slv_aw, AwSpill!Data
  <2>2. slv_aw \in Requests
    BY <1>2, <2>1
  <2>3. slv_aw.id \in Ids /\ slv_aw.port \in Ports
    BY <2>2, RequestsAssumption
  <2>4. look \in Looks
    BY <2>3, LooksOfIds
  <2> QED BY <2>1, <2>2, <2>3, <2>4
<1>4. /\ done => before[slv_aw.id] # << >> /\ Head(before[slv_aw.id]) = slv_aw.port
      /\ aw_aFull /\ aw_b # None => Waiting(aw_b', aw_aFull', aw_a', aw) = removed
      /\ ~aw_aFull \/ aw_b = None => Waiting(aw_b', aw_aFull', aw_a', None) = removed
  <2>1. removed = IF done THEN [before EXCEPT ![slv_aw.id] = Tail(@)] ELSE before
    BY DEF Removed, Shorter
  <2> HIDE DEF done, before, removed
  <2>2. LET shown   == IF aw_b # None THEN aw_b ELSE aw_a
            before2 == Waiting(aw_b, aw_aFull, aw_a, aw)
            remove2 == IF done THEN [before2 EXCEPT ![shown.id] = Tail(@)] ELSE before2
        IN  /\ done => /\ shown \in Requests /\ shown.id \in Ids /\ shown.port \in Ports
                       /\ before2[shown.id] # << >> /\ Head(before2[shown.id]) = shown.port
            /\ aw_aFull /\ aw_b # None => Waiting(aw_b', aw_aFull', aw_a', aw) = remove2
            /\ ~aw_aFull \/ aw_b = None => Waiting(aw_b', aw_aFull', aw_a', None) = remove2
    BY <1>1, WaitingMoves
  <2> QED BY <1>3, <2>1, <2>2 DEF before
<1>5. /\ bValid => BFrom \in Ports /\ writes[BFrom] # << >> /\ bOut.id = Head(writes[BFrom])
      /\ pop <=> bValid /\ bReady
  <2>1. bValid => BFrom \in Ports /\ writes[BFrom] # << >> /\ bOut.id = Head(writes[BFrom])
    BY ResponsesShown
  <2> QED BY <2>1 DEF slv_b_done, bValid, bOut
<1>6. pop \in BOOLEAN /\ push \in BOOLEAN
  <2>1. pop \in BOOLEAN
    BY Zenon DEF slv_b_done
  <2>2. push \in BOOLEAN
    BY Zenon DEF aw_push
  <2> QED BY <2>1, <2>2
<1>7. pop => /\ BFrom \in Ports /\ writes[BFrom] # << >>
             /\ bOut.id = Head(writes[BFrom])
  BY <1>5
<1>8. /\ Ledger(writes, aw_mst_select, expectB, before)
      /\ aw_counter \in [Looks -> Nat] /\ aw_mst_select \in [Looks -> Ports]
      /\ expectB \in [Ids -> Seq(Ports)]
      /\ \A c \in Looks : /\ aw_counter[c] = Open(writes, aw_mst_select, c) + Pending(c)
                          /\ aw_counter[c] < Modulus
                          /\ Open(writes, aw_mst_select, c) \in Nat
      /\ lock_aw_valid => aw_mst_select[look] = slv_aw.port
  <2>1. Ledger(writes, aw_mst_select, expectB, before)
    BY DEF WriteBooks
  <2>2. \A c \in Looks : Open(writes, aw_mst_select, c) \in Nat
    <3> HIDE DEF before
    <3> QED BY <2>1, OpenCounts
  <2> QED BY <2>1, <2>2 DEF WriteBooks, Ledger
<1>9. push => aw_select_ok /\ ~AwIds!full /\ ~lock_aw_valid
  BY DEF aw_push
<1>10. /\ aw_select_ok <=> (aw_counter[look] # 0 => slv_aw.port = aw_mst_select[look])
       /\ AwIds!full <=> \E c \in Looks : aw_counter[c] = Modulus - 1
  BY <1>3, <1>8, CountersRead DEF aw_select_ok, AwIds!mst_select_of, AwIds!look
<1>11. push => /\ \A c \in Looks : aw_counter[c] # Modulus - 1
               /\ Open(writes, aw_mst_select, look) # 0 => aw_mst_select[look] = slv_aw.port
  BY <1>3, <1>8, <1>9, <1>10 DEF Pending
<1>12. done \/ lock_aw_valid' => select2[look] = slv_aw.port
  <2>1. done \/ lock_aw_valid' => aw_valid
    BY DEF aw_done
  <2> QED BY <1>3, <1>8, <2>1 DEF Remembered, aw_valid
<1>13. writes' = queues2 /\ (pop <=> (bValid /\ bReady))
  <2>1. writes' = Joining(Left(writes, bValid /\ bReady, BFrom),
                          aw_done(awReady), slv_aw.port, slv_aw.id)
    BY <1>3, WritesMove
  <2>2. (bValid /\ bReady) <=> pop
    BY <1>5
  <2> HIDE DEF pop
  <2> QED BY <2>1, <2>2 DEF Left
<1>14. aw_mst_select' = select2
  BY <1>3, <1>8, WriteCounters DEF Remembered
<1>15. aw_counter' = Counted(aw_counter, Modulus, push, look, pop, bOut.id % LookIds)
  BY <1>8, WriteCounters
<1>16. lock_aw_valid \in BOOLEAN
  BY DEF WriteTypes
<1>17. /\ lock_aw_valid => /\ ~push /\ (done <=> awReady) /\ (lock_aw_valid' <=> ~awReady)
       /\ ~lock_aw_valid /\ push => (done <=> awReady) /\ (lock_aw_valid' <=> ~awReady)
       /\ ~lock_aw_valid /\ ~push => ~done /\ ~lock_aw_valid'
       /\ lock_aw_valid' => ~done
  BY <1>16 DEF aw_done, aw_valid, aw_push
<1>18. lock_aw_valid' => slv_aw' = slv_aw
  <2>1. lock_aw_valid' => ~done /\ aw_valid
    BY <1>17
  <2>2. Moved(aw_a, aw_aFull, aw_b, aw, done, aw_a', aw_aFull', aw_b')
    BY <1>1, SpillMoves
  <2>3. aw_valid => aw_aFull \/ aw_b # None
    BY DEF WriteTypes, aw_valid, aw_push, AwSpill!Valid
  <2> HIDE DEF done
  <2> QED BY <2>1, <2>2, <2>3 DEF Moved, slv_aw, AwSpill!Data
<1> HIDE DEF done, push, pop, look, before
<1>19. /\ Ledger(queues2, select2, settled, removed)
       /\ \A c \in Looks :
            Open(queues2, select2, c)
              = Open(writes, aw_mst_select, c) - (IF pop /\ bOut.id % LookIds = c THEN 1 ELSE 0)
                                        + (IF done /\ slv_aw.id % LookIds = c THEN 1 ELSE 0)
       /\ pop => bOut.id \in Ids /\ Open(writes, aw_mst_select, bOut.id % LookIds) > 0
  <2>1. push => /\ look \in Looks /\ slv_aw.port \in Ports
                /\ Open(writes, aw_mst_select, look) # 0 => aw_mst_select[look] = slv_aw.port
    BY <1>3, <1>11
  <2>2. done => /\ slv_aw.id \in Ids /\ slv_aw.port \in Ports
                /\ select2[slv_aw.id % LookIds] = slv_aw.port
                /\ before[slv_aw.id] # << >> /\ Head(before[slv_aw.id]) = slv_aw.port
    BY <1>3, <1>4, <1>12 DEF look
  <2>3. pop => /\ BFrom \in Ports /\ writes[BFrom] # << >>
               /\ bOut.id = Head(writes[BFrom])
    BY <1>7
  <2>4. /\ Ledger(writes, aw_mst_select, expectB, before)
        /\ done \in BOOLEAN /\ push \in BOOLEAN /\ pop \in BOOLEAN
    BY <1>2, <1>6, <1>8
  <2>5. BooksCycle(writes, aw_mst_select, expectB, before, push, pop, done, look, slv_aw.port,
                   BFrom, slv_aw.id, slv_aw.port, bOut.id)
    BY <2>1, <2>2, <2>3, <2>4 DEF BooksCycle
  <2>6. BooksAfter(writes, aw_mst_select, expectB, before, push, pop, done, look, slv_aw.port,
                   BFrom, slv_aw.id, slv_aw.port, bOut.id)
    BY <2>5, BooksMove
  <2> QED BY <2>6 DEF BooksAfter
<1>20. /\ aw_counter' \in [Looks -> Nat]
       /\ \A c \in Looks : /\ aw_counter'[c] < Modulus
                           /\ aw_counter'[c] = Open(queues2, select2, c)
                                + (IF lock_aw_valid' /\ look = c THEN 1 ELSE 0)
  <2>1. pop => bOut.id % LookIds \in Looks /\ aw_counter[bOut.id % LookIds] > 0
    <3>1. pop => bOut.id % LookIds \in Looks
      BY <1>19, LooksOfIds
    <3> QED BY <1>8, <1>19, <3>1 DEF Pending
  <2>2. Modulus \in Nat \ {0}
    BY PowersAssumption DEF Modulus
  <2> DEFINE counted == Counted(aw_counter, Modulus, push, look, pop, bOut.id % LookIds)
  <2>3. /\ counted \in [Looks -> Nat]
        /\ \A c \in Looks :
              /\ counted[c] < Modulus
              /\ counted[c] = aw_counter[c] - (IF pop /\ bOut.id % LookIds = c THEN 1 ELSE 0)
                                            + (IF push /\ look = c THEN 1 ELSE 0)
    <3>1. push => \A c \in Looks : aw_counter[c] # Modulus - 1
      BY <1>11
    <3>2. /\ aw_counter \in [Looks -> Nat] /\ push \in BOOLEAN /\ pop \in BOOLEAN
          /\ \A c \in Looks : aw_counter[c] < Modulus
      BY <1>6, <1>8
    <3> QED BY <2>1, <2>2, <3>1, <3>2, CountsMove
  <2> HIDE DEF counted
  <2>4. aw_counter' = counted
    BY <1>15 DEF counted
  <2>5. ASSUME NEW c \in Looks
        PROVE  counted[c] = Open(queues2, select2, c)
                              + (IF lock_aw_valid' /\ look = c THEN 1 ELSE 0)
    <3> HIDE DEF queues2, select2
    <3>1. counted[c] = Open(writes, aw_mst_select, c) + (IF lock_aw_valid /\ look = c THEN 1 ELSE 0)
                        - (IF pop /\ bOut.id % LookIds = c THEN 1 ELSE 0)
                        + (IF push /\ look = c THEN 1 ELSE 0)
      BY <1>8, <2>3 DEF Pending, look
    <3>2. Open(queues2, select2, c) = Open(writes, aw_mst_select, c)
                        - (IF pop /\ bOut.id % LookIds = c THEN 1 ELSE 0)
                        + (IF done /\ look = c THEN 1 ELSE 0)
      BY <1>19 DEF look, queues2, select2
    <3>3. (IF lock_aw_valid /\ look = c THEN 1 ELSE 0) + (IF push /\ look = c THEN 1 ELSE 0)
            = (IF done /\ look = c THEN 1 ELSE 0) + (IF lock_aw_valid' /\ look = c THEN 1 ELSE 0)
      BY <1>2, <1>6, <1>16, <1>17
    <3>4. Open(writes, aw_mst_select, c) \in Nat
      BY <1>8
    <3> QED BY <3>1, <3>2, <3>3, <3>4
  <2> QED BY <2>3, <2>4, <2>5
<1>21. Ledger(queues2, select2, expectB', Waiting(aw_b', aw_aFull', aw_a', aw'))
  <2>1. Answered(expectB, slv_b_done(bChan, bReady), bOut.id) = settled
    BY DEF Answered, Settled, pop
  <2>2. AwSpill!Ready <=> ~aw_aFull \/ aw_b = None
    BY DEF AwSpill!Ready
  <2>3. CASE aw # None /\ ~AwSpill!Ready
    <3>1. aw' = aw /\ expectB' = settled
      BY <2>1, <2>3 DEF IssueWrite
    <3>2. Waiting(aw_b', aw_aFull', aw_a', aw') = removed
      BY <1>2, <1>4, <2>2, <2>3, <3>1
    <3> QED BY <1>19, <3>1, <3>2
  <2>4. CASE ~(aw # None /\ ~AwSpill!Ready)
    <3>1. Waiting(aw_b', aw_aFull', aw_a', None) = removed
      BY <1>2, <1>4, <2>2, <2>4
    <3>2. CASE aw' = None /\ expectB' = settled
      BY <1>19, <3>1, <3>2
    <3>3. CASE \E req \in WriteReqs :
                 aw' = req /\ expectB' = [settled EXCEPT ![req.id] = Append(@, req.port)]
      <4>1. PICK req \in WriteReqs :
                 aw' = req /\ expectB' = [settled EXCEPT ![req.id] = Append(@, req.port)]
        BY <3>3
      <4>2. req \in Requests /\ req.id \in Ids /\ req.port \in Ports
        BY RequestsAssumption
      <4>3. Waiting(aw_b', aw_aFull', aw_a', req)
              = [removed EXCEPT ![req.id] = Joined(@, <<req.port>>)]
        <5> DEFINE slot == IF aw_aFull' THEN aw_a' ELSE None
        <5>1. slot \in Requests \cup {None}
          BY <1>2
        <5>2. /\ Waiting(aw_b', aw_aFull', aw_a', req) = Line(aw_b', slot, req)
              /\ removed = Line(aw_b', slot, None)
          BY <3>1 DEF Waiting
        <5> HIDE DEF slot, removed
        <5>3. Line(aw_b', slot, req)
                = [Line(aw_b', slot, None) EXCEPT ![req.id] = Joined(@, <<req.port>>)]
          BY <1>2, <4>2, <5>1, LineLast
        <5> QED BY <5>2, <5>3
      <4>4. Ledger(queues2, select2, Longer(settled, req.id, req.port),
                   [removed EXCEPT ![req.id] = Joined(@, <<req.port>>)])
        <5> HIDE DEF queues2, select2, settled, removed
        <5> QED BY <1>19, <4>2, IssueMoves
      <4>5. expectB' = Longer(settled, req.id, req.port)
        BY <4>1 DEF Longer
      <4> HIDE DEF queues2, select2, settled, removed
      <4> QED BY <4>1, <4>3, <4>4, <4>5
    <3> QED BY <2>1, <2>4, <3>2, <3>3 DEF IssueWrite
  <2> QED BY <2>3, <2>4
<1> HIDE DEF queues2, select2, settled, removed
<1>22. Ledger(writes', aw_mst_select', expectB', Waiting(aw_b', aw_aFull', aw_a', aw'))
  BY <1>13, <1>14, <1>21
<1>23. lock_aw_valid' => aw_mst_select'[slv_aw'.id % LookIds] = slv_aw'.port
  BY <1>12, <1>14, <1>18 DEF look
<1> QED
  <2>1. \A c \in Looks : aw_counter'[c] = Open(writes', aw_mst_select', c)
                           + (IF lock_aw_valid' /\ slv_aw'.id % LookIds = c THEN 1 ELSE 0)
    BY <1>13, <1>14, <1>18, <1>20 DEF look
  <2>2. (\A c \in Looks : aw_counter[c] = Open(writes, aw_mst_select, c) + Pending(c))'
    BY <2>1 DEF Open, Times, Pending
  <2>3. Ledger(writes, aw_mst_select, expectB, Waiting(aw_b, aw_aFull, aw_a, aw))'
    BY <1>22 DEF Ledger, Together, Due, Waiting, Line, OfId, Copies, Times
  <2> QED BY <1>20, <1>23, <2>2, <2>3 DEF WriteBooks, Modulus

\* A read beat that an arbiter keeps is shown again, and what is offered is there.
LEMMA ReadResponsesKept ==
  ASSUME WireIdPorts = {}, ReadTypes, ResponseTypes,
         NEW arReady \in BOOLEAN, NEW rReady \in BOOLEAN,
         reads' = [p \in Ports |->
                    ReadsAfter(p, arReady, IF rValid /\ rReady THEN rOut.port ELSE None)],
         rOffered' \in {f \in [Ports -> BOOLEAN] :
           \A p \in Ports : f[p] \in Rises(rOffered[p],
             (IF rValid /\ rReady THEN rOut.port ELSE None) = p, reads'[p] # << >>, FALSE)},
         RMux!Clock(Offering(rChan), rReady)
  PROVE  /\ reads' \in [Ports -> Seq(ReadRecords)] /\ rOffered' \in [Ports -> BOOLEAN]
         /\ \A p \in Ports : rOffered'[p] => reads'[p] # << >>
         /\ r_rr' \in Ports /\ r_held' \subseteq {p \in Ports : rOffered'[p]}
         /\ r_held' # {} => /\ rValid /\ r_held' = RSeen /\ r_rr' = r_rr
                            /\ Head(reads'[RFrom]) = Head(reads[RFrom])
<1> DEFINE from == IF rValid /\ rReady THEN rOut.port ELSE None
<1>1. /\ RMux!seen(Offering(rChan)) = RSeen /\ RSeen \subseteq ROffering
      /\ rValid <=> RSeen # {}
      /\ rValid => RFrom \in RSeen /\ RFrom \in Ports /\ rOffered[RFrom] /\ rOut.port = RFrom
  BY ResponsesShown
<1>2. \A p \in Ports : from = p <=> rValid /\ rReady /\ RFrom = p
  BY <1>1, NoneAssumption
<1>3. slv_ar \in Requests
  BY RequestsAssumption DEF ReadTypes, slv_ar, ArSpill!Data
<1>4. /\ reads' \in [Ports -> Seq(ReadRecords)]
      /\ \A p \in Ports : reads[p] # << >> /\ ~(rValid /\ rReady /\ RFrom = p) =>
           reads'[p] # << >> /\ Head(reads'[p]) = Head(reads[p])
  BY <1>3, ReadsMove
<1> HIDE DEF from
<1>5. /\ rOffered' \in [Ports -> BOOLEAN]
      /\ \A p \in Ports : rOffered'[p] \in Rises(rOffered[p], from = p, reads'[p] # << >>, FALSE)
  BY DEF from
<1>6. \A p \in Ports : rOffered[p] => reads[p] # << >>
  BY DEF ResponseTypes
<1>7. ASSUME NEW p \in Ports, rOffered'[p]
      PROVE  reads'[p] # << >>
  <2>1. CASE rOffered[p] /\ from # p
    BY <1>2, <1>4, <1>6, <2>1
  <2>2. CASE ~(rOffered[p] /\ from # p)
    BY <1>5, <1>7, <2>2 DEF Rises
  <2> QED BY <2>1, <2>2
<1>8. \A p \in Ports : rOffered[p] /\ from # p => rOffered'[p]
  BY <1>5 DEF Rises
<1>9. /\ r_rr' = IF rReady /\ rValid THEN Following(RSeen, r_rr) ELSE r_rr
      /\ r_held' = IF rValid /\ ~rReady THEN RSeen ELSE {}
  <2>1. /\ r_rr' = IF rReady /\ RMux!valid(Offering(rChan))
                   THEN RMux!nextRr(Offering(rChan)) ELSE r_rr
        /\ r_held' = IF RMux!valid(Offering(rChan)) /\ ~rReady
                     THEN RMux!seen(Offering(rChan)) ELSE {}
    BY DEF RMux!Clock
  <2>2. RMux!nextRr(Offering(rChan)) = Following(RSeen, r_rr)
    BY <1>1, ArbitersChoose
  <2> QED BY <1>1, <2>1, <2>2 DEF rValid
<1>10. r_rr' \in Ports
  <2>1. RSeen \subseteq Ports /\ r_rr \in Ports
    BY <1>1 DEF ROffering, ResponseTypes
  <2>2. rValid => Following(RSeen, r_rr) \in RSeen
    BY <1>1, <2>1, ChosenAsks
  <2> QED BY <1>9, <2>1, <2>2
<1>11. r_held' \subseteq {p \in Ports : rOffered'[p]}
  <2>1. r_held' # {} => r_held' = RSeen /\ ~rReady
    BY <1>9
  <2>2. \A p \in RSeen : p \in Ports /\ rOffered[p]
    BY <1>1 DEF ROffering
  <2> QED BY <1>2, <1>8, <2>1, <2>2
<1>12. r_held' # {} => /\ rValid /\ r_held' = RSeen /\ r_rr' = r_rr
                       /\ Head(reads'[RFrom]) = Head(reads[RFrom])
  BY <1>1, <1>4, <1>6, <1>9
<1> QED BY <1>4, <1>5, <1>7, <1>10, <1>11, <1>12

\* So is a write response.
LEMMA WriteResponsesKept ==
  ASSUME WireIdPorts = {}, WriteTypes, ResponseTypes,
         NEW awReady \in BOOLEAN, NEW bReady \in BOOLEAN,
         writes' = [p \in Ports |->
                     WritesAfter(p, awReady, IF bValid /\ bReady THEN bOut.port ELSE None)],
         bOffered' \in {f \in [Ports -> BOOLEAN] :
           \A p \in Ports : f[p] \in Rises(bOffered[p],
             (IF bValid /\ bReady THEN bOut.port ELSE None) = p,
             writes'[p] # << >> /\ wBursts'[p] > 0, FALSE)},
         BMux!Clock(Offering(bChan), bReady)
  PROVE  /\ writes' \in [Ports -> Seq(Ids)] /\ bOffered' \in [Ports -> BOOLEAN]
         /\ \A p \in Ports : bOffered'[p] => writes'[p] # << >>
         /\ b_rr' \in Ports /\ b_held' \subseteq {p \in Ports : bOffered'[p]}
         /\ b_held' # {} => /\ bValid /\ b_held' = BSeen /\ b_rr' = b_rr
                            /\ Head(writes'[BFrom]) = Head(writes[BFrom])
<1> DEFINE from == IF bValid /\ bReady THEN bOut.port ELSE None
<1>1. /\ BMux!seen(Offering(bChan)) = BSeen /\ BSeen \subseteq BOffering
      /\ bValid <=> BSeen # {}
      /\ bValid => BFrom \in BSeen /\ BFrom \in Ports /\ bOffered[BFrom] /\ bOut.port = BFrom
  BY ResponsesShown
<1>2. \A p \in Ports : from = p <=> bValid /\ bReady /\ BFrom = p
  BY <1>1, NoneAssumption
<1>3. slv_aw \in Requests
  BY RequestsAssumption DEF WriteTypes, slv_aw, AwSpill!Data
<1>4. /\ writes' \in [Ports -> Seq(Ids)]
      /\ \A p \in Ports : writes[p] # << >> /\ ~(bValid /\ bReady /\ BFrom = p) =>
           writes'[p] # << >> /\ Head(writes'[p]) = Head(writes[p])
  BY <1>3, WritesMove
<1> HIDE DEF from
<1>5. /\ bOffered' \in [Ports -> BOOLEAN]
      /\ \A p \in Ports : bOffered'[p] \in Rises(bOffered[p], from = p,
                                                 writes'[p] # << >> /\ wBursts'[p] > 0, FALSE)
  BY DEF from
<1>6. \A p \in Ports : bOffered[p] => writes[p] # << >>
  BY DEF ResponseTypes
<1>7. ASSUME NEW p \in Ports, bOffered'[p]
      PROVE  writes'[p] # << >>
  <2>1. CASE bOffered[p] /\ from # p
    BY <1>2, <1>4, <1>6, <2>1
  <2>2. CASE ~(bOffered[p] /\ from # p)
    BY <1>5, <1>7, <2>2 DEF Rises
  <2> QED BY <2>1, <2>2
<1>8. \A p \in Ports : bOffered[p] /\ from # p => bOffered'[p]
  BY <1>5 DEF Rises
<1>9. /\ b_rr' = IF bReady /\ bValid THEN Following(BSeen, b_rr) ELSE b_rr
      /\ b_held' = IF bValid /\ ~bReady THEN BSeen ELSE {}
  <2>1. /\ b_rr' = IF bReady /\ BMux!valid(Offering(bChan))
                   THEN BMux!nextRr(Offering(bChan)) ELSE b_rr
        /\ b_held' = IF BMux!valid(Offering(bChan)) /\ ~bReady
                     THEN BMux!seen(Offering(bChan)) ELSE {}
    BY DEF BMux!Clock
  <2>2. BMux!nextRr(Offering(bChan)) = Following(BSeen, b_rr)
    BY <1>1, ArbitersChoose
  <2> QED BY <1>1, <2>1, <2>2 DEF bValid
<1>10. b_rr' \in Ports
  <2>1. BSeen \subseteq Ports /\ b_rr \in Ports
    BY <1>1 DEF BOffering, ResponseTypes
  <2>2. bValid => Following(BSeen, b_rr) \in BSeen
    BY <1>1, <2>1, ChosenAsks
  <2> QED BY <1>9, <2>1, <2>2
<1>11. b_held' \subseteq {p \in Ports : bOffered'[p]}
  <2>1. b_held' # {} => b_held' = BSeen /\ ~bReady
    BY <1>9
  <2>2. \A p \in BSeen : p \in Ports /\ bOffered[p]
    BY <1>1 DEF BOffering
  <2> QED BY <1>2, <1>8, <2>1, <2>2
<1>12. b_held' # {} => /\ bValid /\ b_held' = BSeen /\ b_rr' = b_rr
                       /\ Head(writes'[BFrom]) = Head(writes[BFrom])
  BY <1>1, <1>4, <1>6, <1>9
<1> QED BY <1>4, <1>5, <1>7, <1>10, <1>11, <1>12

(***************************************************************************)
(* The inductive invariant.                                                *)
(***************************************************************************)
DemuxInv == RoutingInv /\ ReadTypes /\ ResponseTypes /\ ReadBooks /\ WriteBooks

\* What an arbiter that waits has shown, and will show.
StillShown ==
  /\ r_held' # {} => /\ rValid /\ r_held' = RSeen /\ r_rr' = r_rr
                     /\ Head(reads'[RFrom]) = Head(reads[RFrom])
  /\ b_held' # {} => /\ bValid /\ b_held' = BSeen /\ b_rr' = b_rr
                     /\ Head(writes'[BFrom]) = Head(writes[BFrom])

\* A cycle keeps the invariant.
LEMMA DemuxCycle ==
  ASSUME WireIdPorts = {}, DemuxInv, Next
  PROVE  ResponseTypes' /\ ReadBooks' /\ WriteBooks' /\ StillShown
<1>1. PICK arReady \in ReadyFor(ar_valid), rReady \in ReadyFor(rValid),
           awReady \in ReadyFor(aw_valid), wReady \in ReadyFor(wValid /\ ~w_fifo_empty),
           bReady \in ReadyFor(bValid) : Cycle(arReady, rReady, awReady, wReady, bReady, FALSE)
  BY DEF Next
<1>2. /\ arReady \in BOOLEAN /\ rReady \in BOOLEAN /\ awReady \in BOOLEAN /\ bReady \in BOOLEAN
  BY DEF ReadyFor
<1>3. /\ ArSpill!Clock(ar, ar_done(arReady))
      /\ lock_ar_valid' = (ar_valid /\ ~arReady)
      /\ ArIds!Clock(ar_done(arReady), slv_ar.id, slv_ar.port, r_pop(rChan, rReady), rOut.id)
      /\ IssueRead(rReady)
  BY <1>1 DEF Cycle, DemuxClock, rOut
<1>4. /\ AwSpill!Clock(aw, aw_done(awReady))
      /\ lock_aw_valid' = (aw_valid /\ ~awReady)
      /\ AwIds!Clock(aw_push, slv_aw.id, slv_aw.port, slv_b_done(bChan, bReady), bOut.id)
      /\ IssueWrite(wReady, bReady, FALSE)
  BY <1>1 DEF Cycle, DemuxClock, bOut
<1>5. reads' = [p \in Ports |->
                  ReadsAfter(p, arReady, IF rValid /\ rReady THEN rOut.port ELSE None)]
  BY <1>1 DEF Cycle, Slaves
<1>6. writes' = [p \in Ports |->
                   WritesAfter(p, awReady, IF bValid /\ bReady THEN bOut.port ELSE None)]
  BY <1>1 DEF Cycle, Slaves
<1>7. ReadBooks'
  <2>1. ReadTypes /\ ResponseTypes /\ ReadBooks
    BY DEF DemuxInv
  <2> QED BY <1>2, <1>3, <1>5, <2>1, ReadBooksKept
<1>8. WriteBooks'
  <2>1. WriteTypes /\ ResponseTypes /\ WriteBooks
    BY DEF DemuxInv, RoutingInv
  <2> QED BY <1>2, <1>4, <1>6, <2>1, WriteBooksKept
<1>9. /\ reads' \in [Ports -> Seq(ReadRecords)] /\ rOffered' \in [Ports -> BOOLEAN]
      /\ \A p \in Ports : rOffered'[p] => reads'[p] # << >>
      /\ r_rr' \in Ports /\ r_held' \subseteq {p \in Ports : rOffered'[p]}
      /\ r_held' # {} => /\ rValid /\ r_held' = RSeen /\ r_rr' = r_rr
                         /\ Head(reads'[RFrom]) = Head(reads[RFrom])
  <2>1. ReadTypes /\ ResponseTypes
    BY DEF DemuxInv
  <2>2. rOffered' \in {f \in [Ports -> BOOLEAN] :
          \A p \in Ports : f[p] \in Rises(rOffered[p],
            (IF rValid /\ rReady THEN rOut.port ELSE None) = p, reads'[p] # << >>, FALSE)}
    BY <1>1 DEF Cycle, Slaves
  <2>3. RMux!Clock(Offering(rChan), rReady)
    BY <1>1 DEF Cycle, DemuxClock
  <2> QED BY <1>2, <1>5, <2>1, <2>2, <2>3, ReadResponsesKept
<1>10. /\ writes' \in [Ports -> Seq(Ids)] /\ bOffered' \in [Ports -> BOOLEAN]
       /\ \A p \in Ports : bOffered'[p] => writes'[p] # << >>
       /\ b_rr' \in Ports /\ b_held' \subseteq {p \in Ports : bOffered'[p]}
       /\ b_held' # {} => /\ bValid /\ b_held' = BSeen /\ b_rr' = b_rr
                          /\ Head(writes'[BFrom]) = Head(writes[BFrom])
  <2>1. WriteTypes /\ ResponseTypes
    BY DEF DemuxInv, RoutingInv
  <2>2. bOffered' \in {f \in [Ports -> BOOLEAN] :
          \A p \in Ports : f[p] \in Rises(bOffered[p],
            (IF bValid /\ bReady THEN bOut.port ELSE None) = p,
            writes'[p] # << >> /\ wBursts'[p] > 0, FALSE)}
    BY <1>1 DEF Cycle, Slaves
  <2>3. BMux!Clock(Offering(bChan), bReady)
    BY <1>1 DEF Cycle, DemuxClock
  <2> QED BY <1>2, <1>6, <2>1, <2>2, <2>3, WriteResponsesKept
<1>11. ResponseTypes'
  BY <1>9, <1>10 DEF ResponseTypes
<1>12. StillShown
  BY <1>9, <1>10 DEF StillShown
<1> QED BY <1>7, <1>8, <1>11, <1>12

\* At reset nothing is under way.
LEMMA BooksInit ==
  ASSUME NEW queues, queues = [p \in Ports |-> << >>],
         NEW select, select = [c \in Looks |-> 0], NEW a
  PROVE  /\ Ledger(queues, select, [i \in Ids |-> << >>], Waiting(None, FALSE, a, None))
         /\ \A c \in Looks : Open(queues, select, c) = 0
<1> DEFINE waiting == Waiting(None, FALSE, a, None)
<1>1. 0 \in Ports /\ None \notin Requests
  BY SizesAssumption, RequestsAssumption DEF Ports
<1>2. /\ << >> \in Seq(Ids) /\ << >> \in Seq(Ports) /\ DOMAIN << >> = 1..0
      /\ \A T : Times(<< >>, T) = 0
  <2> DEFINE none == << >>
  <2>1. none \in Seq(Ids) /\ none \in Seq(Ports) /\ Len(none) = 0 /\ DOMAIN none = 1..0
    OBVIOUS
  <2> HIDE DEF none
  <2>2. ASSUME NEW T PROVE Times(none, T) = 0
    <3>1. \A k \in 1..Len(none) : none[k] \notin T
      BY <2>1
    <3> QED BY <2>1, <3>1, AtFinite
  <2> QED BY <2>1, <2>2 DEF none
<1>3. waiting = [i \in Ids |-> << >>]
  <2>1. waiting = [i \in Ids |-> Joined(OfId(None, i), Joined(OfId(None, i), OfId(None, i)))]
    BY DEF Waiting, Line
  <2>2. \A i \in Ids : OfId(None, i) = << >>
    BY DEF OfId
  <2>3. Joined(<< >>, Joined(<< >>, << >>)) = << >>
    BY <1>2, JoinedEmpty
  <2> HIDE DEF waiting
  <2> QED BY <2>1, <2>2, <2>3
<1> HIDE DEF waiting
<1>4. \A i \in Ids : i % LookIds \in Looks
  BY LooksOfIds
<1>5. \A c \in Looks : queues[select[c]] = << >>
  BY <1>1
<1>6. \A i \in Ids : Due(queues, select, waiting, i) = << >>
  <2>1. Copies(0, 0) = << >> /\ Joined(<< >>, << >>) = << >>
    BY <1>1, <1>2, CopiesOf, JoinedEmpty
  <2> QED BY <1>2, <1>3, <1>4, <1>5, <2>1 DEF Due
<1>7. Together(queues, select)
  BY <1>2 DEF Together
<1>8. /\ queues \in [Ports -> Seq(Ids)] /\ select \in [Looks -> Ports]
      /\ [i \in Ids |-> << >>] \in [Ids -> Seq(Ports)] /\ waiting \in [Ids -> Seq(Ports)]
  BY <1>1, <1>2, <1>3
<1>9. Ledger(queues, select, [i \in Ids |-> << >>], waiting)
  BY <1>6, <1>7, <1>8 DEF Ledger
<1>10. \A c \in Looks : Open(queues, select, c) = 0
  BY <1>2, <1>5 DEF Open
<1> QED BY <1>9, <1>10 DEF waiting

\* So the invariant holds.
LEMMA DemuxInvInit ==
  Init => DemuxInv
<1> SUFFICES ASSUME Init PROVE DemuxInv
  OBVIOUS
<1>1. RoutingInv /\ ReadTypes
  BY RoutingInit, ReadInit
<1>2. /\ reads = [p \in Ports |-> << >>] /\ writes = [p \in Ports |-> << >>]
      /\ rOffered = [p \in Ports |-> FALSE] /\ bOffered = [p \in Ports |-> FALSE]
      /\ expectR = [i \in Ids |-> << >>] /\ expectB = [i \in Ids |-> << >>]
      /\ ar = None /\ aw = None /\ ar_b = None /\ aw_b = None
      /\ ar_aFull = FALSE /\ aw_aFull = FALSE /\ ~lock_ar_valid /\ ~lock_aw_valid
      /\ r_rr = 0 /\ b_rr = 0 /\ r_held = {} /\ b_held = {}
      /\ ar_counter = [c \in Looks |-> 0] /\ aw_counter = [c \in Looks |-> 0]
      /\ ar_mst_select = [c \in Looks |-> 0] /\ aw_mst_select = [c \in Looks |-> 0]
  BY DEF Init, DemuxInit, ArSpill!Init, AwSpill!Init, ArIds!Init, AwIds!Init, RMux!Init,
     BMux!Init, Looks
<1>3. 0 \in Ports /\ Modulus \in Nat /\ 0 < Modulus
  BY SizesAssumption, PowersAssumption DEF Ports, Modulus
<1>4. ResponseTypes
  <2>1. << >> \in Seq(Ids) /\ << >> \in Seq(ReadRecords)
    OBVIOUS
  <2> QED BY <1>2, <1>3, <2>1 DEF ResponseTypes
<1>5. ReadQueues = [p \in Ports |-> << >>]
  <2>1. IdsOf(<< >>) = << >>
    <3>1. << >> \in Seq(ReadRecords) /\ DOMAIN << >> = 1..0
      OBVIOUS
    <3>2. IdsOf(<< >>) \in Seq(Ids)
      BY <3>1, IdsOfMoves
    <3>3. DOMAIN IdsOf(<< >>) = 1..0
      BY <3>1 DEF IdsOf
    <3>4. Len(IdsOf(<< >>)) = 0
      BY <3>2, <3>3, LenProperties
    <3> QED BY <3>2, <3>4, EmptySeq
  <2> QED BY <1>2, <2>1 DEF ReadQueues
<1>6. ReadBooks
  <2>1. /\ Ledger(ReadQueues, ar_mst_select, expectR, Waiting(ar_b, ar_aFull, ar_a, ar))
        /\ \A c \in Looks : Open(ReadQueues, ar_mst_select, c) = 0
    BY <1>2, <1>5, BooksInit
  <2> QED BY <1>2, <1>3, <2>1 DEF ReadBooks
<1>7. WriteBooks
  <2>1. /\ Ledger(writes, aw_mst_select, expectB, Waiting(aw_b, aw_aFull, aw_a, aw))
        /\ \A c \in Looks : Open(writes, aw_mst_select, c) = 0
    BY <1>2, BooksInit
  <2> QED BY <1>2, <1>3, <2>1 DEF WriteBooks, Pending
<1> QED BY <1>1, <1>4, <1>6, <1>7 DEF DemuxInv

\* A step keeps it.
LEMMA DemuxInvStep ==
  ASSUME WireIdPorts = {}
  PROVE  DemuxInv /\ [Next]_vars => DemuxInv'
<1> SUFFICES ASSUME DemuxInv, [Next]_vars PROVE DemuxInv'
  OBVIOUS
<1>1. RoutingInv' /\ ReadTypes'
  BY RoutingStep, ReadStep DEF DemuxInv
<1>2. CASE Next
  BY <1>1, <1>2, DemuxCycle DEF DemuxInv
<1>3. CASE UNCHANGED vars
  <2>1. UNCHANGED <<aw_a, aw_aFull, aw_b, ar_a, ar_aFull, ar_b, lock_aw_valid, lock_ar_valid,
                    aw_counter, aw_mst_select, ar_counter, ar_mst_select, b_rr, b_held,
                    r_rr, r_held,
                    ar, aw, expectR, expectB, reads, rOffered, writes, bOffered>>
    BY <1>3 DEF vars, demuxVars, masterVars, slaveVars
  <2>2. ResponseTypes'
    BY <2>1 DEF DemuxInv, ResponseTypes
  <2>3. ReadBooks'
    <3>1. ReadQueues' = ReadQueues
      BY <2>1 DEF ReadQueues, IdsOf
    <3>2. /\ Ledger(ReadQueues, ar_mst_select, expectR, Waiting(ar_b, ar_aFull, ar_a, ar))
          /\ ar_counter \in [Looks -> Nat]
          /\ \A c \in Looks : /\ ar_counter[c] = Open(ReadQueues, ar_mst_select, c)
                              /\ ar_counter[c] < Modulus
          /\ lock_ar_valid => ar_select_ok /\ ~ArIds!full
      BY DEF DemuxInv, ReadBooks
    <3>3. Ledger(ReadQueues, ar_mst_select, expectR, Waiting(ar_b, ar_aFull, ar_a, ar))'
      <4>1. Ledger(ReadQueues', ar_mst_select', expectR', Waiting(ar_b', ar_aFull', ar_a', ar'))
        BY <2>1, <3>1, <3>2
      <4> QED BY <4>1 DEF Ledger, Together, Due, Waiting, Line, OfId, Copies, Times
    <3>4. (\A c \in Looks : /\ ar_counter[c] = Open(ReadQueues, ar_mst_select, c)
                            /\ ar_counter[c] < Modulus)'
      BY <2>1, <3>1, <3>2 DEF Open, Times
    <3>5. slv_ar' = slv_ar
      BY <2>1 DEF slv_ar, ArSpill!Data
    <3>6. ar_select_ok' = ar_select_ok /\ ArIds!full' = ArIds!full
      BY <2>1, <3>5 DEF ar_select_ok, ArIds!occupied, ArIds!in_flight,
         ArIds!mst_select_of, ArIds!full, ArIds!cnt_full, ArIds!overflow
    <3> QED BY <2>1, <3>2, <3>3, <3>4, <3>6 DEF ReadBooks
  <2>4. WriteBooks'
    <3>1. /\ Ledger(writes, aw_mst_select, expectB, Waiting(aw_b, aw_aFull, aw_a, aw))
          /\ aw_counter \in [Looks -> Nat]
          /\ \A c \in Looks : /\ aw_counter[c] = Open(writes, aw_mst_select, c) + Pending(c)
                              /\ aw_counter[c] < Modulus
          /\ lock_aw_valid => aw_mst_select[slv_aw.id % LookIds] = slv_aw.port
      BY DEF DemuxInv, WriteBooks
    <3>2. Ledger(writes, aw_mst_select, expectB, Waiting(aw_b, aw_aFull, aw_a, aw))'
      <4>1. Ledger(writes', aw_mst_select', expectB', Waiting(aw_b', aw_aFull', aw_a', aw'))
        BY <2>1, <3>1
      <4> QED BY <4>1 DEF Ledger, Together, Due, Waiting, Line, OfId, Copies, Times
    <3>3. slv_aw' = slv_aw
      BY <2>1 DEF slv_aw, AwSpill!Data
    <3>4. (\A c \in Looks : /\ aw_counter[c] = Open(writes, aw_mst_select, c) + Pending(c)
                            /\ aw_counter[c] < Modulus)'
      BY <2>1, <3>1, <3>3 DEF Open, Times, Pending
    <3> QED BY <2>1, <3>1, <3>2, <3>3, <3>4 DEF WriteBooks
  <2> QED BY <1>1, <2>2, <2>3, <2>4 DEF DemuxInv
<1> QED BY <1>2, <1>3

\* As the requests with some id bits are all with one slave, counting the places
\* of all queues is counting those of one.
LEMMA PlacesCount ==
  ASSUME NEW queues, NEW select, NEW expect, NEW waiting,
         Ledger(queues, select, expect, waiting), NEW c \in Looks
  PROVE  Cardinality({e \in Places(queues) : queues[e[1]][e[2]] % LookIds = c})
           = Open(queues, select, c)
<1> DEFINE all   == {e \in Places(queues) : queues[e[1]][e[2]] % LookIds = c}
           p     == select[c]
           there == At(queues[p], Class(c))
           place == [k \in there |-> <<p, k>>]
<1>1. /\ queues \in [Ports -> Seq(Ids)] /\ select \in [Looks -> Ports] /\ p \in Ports
      /\ Together(queues, select) /\ queues[p] \in Seq(Ids)
  BY DEF Ledger
<1>2. IsFiniteSet(there) /\ Open(queues, select, c) = Cardinality(there)
  BY <1>1, AtFinite DEF Open
<1>3. \A e : e \in all <=> \E q \in Ports : \E k \in DOMAIN queues[q] :
                             e = <<q, k>> /\ queues[q][k] % LookIds = c
  BY DEF Places
<1>4. \A q \in Ports : \A k \in DOMAIN queues[q] : queues[q][k] \in Ids
  BY <1>1, LenProperties, ElementOfSeq
<1>5. \A q \in Ports : \A k \in DOMAIN queues[q] :
        queues[q][k] % LookIds = c <=> q = p /\ k \in there
  BY <1>1, <1>4 DEF Together, At, Class
<1> HIDE DEF all
<1>6. \A e : e \in all <=> \E k \in there : e = <<p, k>>
  BY <1>1, <1>3, <1>5 DEF At
<1> HIDE DEF there
<1>7. place \in Bijection(there, all)
  <2>1. \A k \in there : place[k] = <<p, k>> /\ place[k] \in all
    BY <1>6
  <2>2. place \in [there -> all]
    BY <2>1
  <2>3. \A k, m \in there : place[k] = place[m] => k = m
    BY <2>1
  <2>4. \A e \in all : \E k \in there : place[k] = e
    BY <1>6, <2>1
  <2> HIDE DEF place
  <2> QED BY <2>2, <2>3, <2>4 DEF Bijection, Injection, IsInjective, Surjection
<1>8. Cardinality(all) = Cardinality(there)
  BY <1>2, <1>7, FS_Bijection DEF ExistsBijection
<1> QED BY <1>2, <1>8 DEF all

\* The counters count what they are for.
LEMMA BooksCount ==
  DemuxInv => CountersExact
<1> SUFFICES ASSUME DemuxInv, NEW c \in Looks
             PROVE  ar_counter[c] = ReadsAt(c) /\ aw_counter[c] = WritesAt(c)
  BY DEF CountersExact, Looks
<1>1. ar_counter[c] = ReadsAt(c)
  <2>1. /\ Ledger(ReadQueues, ar_mst_select, expectR, Waiting(ar_b, ar_aFull, ar_a, ar))
        /\ ar_counter[c] = Open(ReadQueues, ar_mst_select, c)
    BY DEF DemuxInv, ReadBooks
  <2>2. Cardinality({e \in Places(ReadQueues) : ReadQueues[e[1]][e[2]] % LookIds = c})
          = Open(ReadQueues, ar_mst_select, c)
    BY <2>1, PlacesCount
  <2>3. \A p \in Ports : /\ DOMAIN ReadQueues[p] = DOMAIN reads[p]
                         /\ \A k \in DOMAIN reads[p] : ReadQueues[p][k] = reads[p][k].id
    BY DEF ReadQueues, IdsOf
  <2>4. Places(ReadQueues) = Places(reads)
    BY <2>3 DEF Places
  <2>5. \A e \in Places(reads) : ReadQueues[e[1]][e[2]] = reads[e[1]][e[2]].id
    BY <2>3 DEF Places
  <2>6. {e \in Places(ReadQueues) : ReadQueues[e[1]][e[2]] % LookIds = c}
          = {e \in Places(reads) : reads[e[1]][e[2]].id % LookIds = c}
    BY <2>4, <2>5
  <2> QED BY <2>1, <2>2, <2>6 DEF ReadsAt, ArIds!look
<1>2. aw_counter[c] = WritesAt(c)
  <2>1. /\ Ledger(writes, aw_mst_select, expectB, Waiting(aw_b, aw_aFull, aw_a, aw))
        /\ aw_counter[c] = Open(writes, aw_mst_select, c) + Pending(c)
    BY DEF DemuxInv, WriteBooks
  <2>2. Cardinality({e \in Places(writes) : writes[e[1]][e[2]] % LookIds = c})
          = Open(writes, aw_mst_select, c)
    BY <2>1, PlacesCount
  <2> QED BY <2>1, <2>2 DEF WritesAt, AwIds!look, Pending
<1> QED BY <1>1, <1>2

\* What the master is shown is what it waits for.
LEMMA BooksOrder ==
  ASSUME WireIdPorts = {}, DemuxInv
  PROVE  ResponsesInOrder
<1>1. ResponseTypes /\ ReadBooks /\ WriteBooks
  BY DEF DemuxInv
<1>2. InOrder(rValid, rOut, expectR)
  <2> SUFFICES ASSUME rValid
               PROVE  expectR[rOut.id] # << >> /\ Head(expectR[rOut.id]) = rOut.port
    BY DEF InOrder
  <2>1. /\ RFrom \in Ports /\ reads[RFrom] # << >> /\ reads[RFrom] \in Seq(ReadRecords)
        /\ rOut.id = Head(reads[RFrom]).id /\ rOut.port = RFrom
    BY <1>1, ResponsesShown DEF ResponseTypes
  <2>2. ReadQueues[RFrom] # << >> /\ rOut.id = Head(ReadQueues[RFrom])
    BY <2>1, IdsOfMoves DEF ReadQueues
  <2>3. Ledger(ReadQueues, ar_mst_select, expectR, Waiting(ar_b, ar_aFull, ar_a, ar))
    BY <1>1 DEF ReadBooks
  <2> QED BY <2>1, <2>2, <2>3, AnswerMoves
<1>3. InOrder(bValid, bOut, expectB)
  <2> SUFFICES ASSUME bValid
               PROVE  expectB[bOut.id] # << >> /\ Head(expectB[bOut.id]) = bOut.port
    BY DEF InOrder
  <2>1. /\ BFrom \in Ports /\ writes[BFrom] # << >>
        /\ bOut.id = Head(writes[BFrom]) /\ bOut.port = BFrom
    BY <1>1, ResponsesShown
  <2>2. Ledger(writes, aw_mst_select, expectB, Waiting(aw_b, aw_aFull, aw_a, aw))
    BY <1>1 DEF WriteBooks
  <2> QED BY <2>1, <2>2, AnswerMoves
<1> QED BY <1>2, <1>3 DEF ResponsesInOrder

\* The master is shown one response for a given choice.
LEMMA ShownFrom ==
  WireIdPorts = {} /\ ResponseTypes =>
    /\ RSeen # {} => /\ rValid
                     /\ rOut = [id |-> Head(reads[RFrom]).id,
                                last |-> Head(reads[RFrom]).beats = 1, port |-> RFrom]
    /\ BSeen # {} => bValid /\ bOut = [id |-> Head(writes[BFrom]), port |-> BFrom]
  BY ResponsesShown

\* What an arbiter keeps is what it goes on to show.
LEMMA KeptIsShown ==
  ASSUME WireIdPorts = {}, DemuxInv, Next
  PROVE  /\ r_held' # {} => rValid' /\ rOut' = rOut
         /\ b_held' # {} => bValid' /\ bOut' = bOut
<1>1. ResponseTypes /\ ResponseTypes' /\ StillShown
  BY DemuxCycle DEF DemuxInv
<1>2. (WireIdPorts = {})'
  OBVIOUS
<1>3. (WireIdPorts = {} /\ ResponseTypes =>
        /\ RSeen # {} => /\ rValid
                         /\ rOut = [id |-> Head(reads[RFrom]).id,
                                    last |-> Head(reads[RFrom]).beats = 1, port |-> RFrom]
        /\ BSeen # {} => bValid /\ bOut = [id |-> Head(writes[BFrom]), port |-> BFrom])'
  BY ShownFrom, PTL
<1>4. ASSUME r_held' # {}
      PROVE  rValid' /\ rOut' = rOut
  <2>1. /\ rValid /\ r_held' = RSeen /\ r_rr' = r_rr /\ RSeen # {}
        /\ Head(reads'[RFrom]) = Head(reads[RFrom])
    BY <1>1, <1>4, ResponsesShown DEF StillShown
  <2>2. RSeen' = RSeen
    BY <1>4, <2>1 DEF RSeen
  <2>3. RFrom' = RFrom
    BY <2>1, <2>2 DEF RFrom, Chosen, Passes, Bit
  <2>4. Head(reads[RFrom])' = Head(reads[RFrom])
    BY <2>1, <2>3
  <2>5. rOut = [id |-> Head(reads[RFrom]).id,
                last |-> Head(reads[RFrom]).beats = 1, port |-> RFrom]
    BY <1>1, <2>1, ShownFrom
  <2>6. rValid' /\ rOut' = [id |-> Head(reads[RFrom]).id,
                            last |-> Head(reads[RFrom]).beats = 1, port |-> RFrom]'
    BY <1>1, <1>2, <1>3, <2>1, <2>2
  <2> QED BY <2>3, <2>4, <2>5, <2>6
<1>5. ASSUME b_held' # {}
      PROVE  bValid' /\ bOut' = bOut
  <2>1. /\ bValid /\ b_held' = BSeen /\ b_rr' = b_rr /\ BSeen # {}
        /\ Head(writes'[BFrom]) = Head(writes[BFrom])
    BY <1>1, <1>5, ResponsesShown DEF StillShown
  <2>2. BSeen' = BSeen
    BY <1>5, <2>1 DEF BSeen
  <2>3. BFrom' = BFrom
    BY <2>1, <2>2 DEF BFrom, Chosen, Passes, Bit
  <2>4. Head(writes[BFrom])' = Head(writes[BFrom])
    BY <2>1, <2>3
  <2>5. bOut = [id |-> Head(writes[BFrom]), port |-> BFrom]
    BY <1>1, <2>1, ShownFrom
  <2>6. bValid' /\ bOut' = [id |-> Head(writes[BFrom]), port |-> BFrom]'
    BY <1>1, <1>2, <1>3, <2>1, <2>2
  <2> QED BY <2>3, <2>4, <2>5, <2>6
<1> QED BY <1>4, <1>5

(***************************************************************************)
(* The theorems.  WireIdPorts = {}: every slave answers with the id that   *)
(* came with the request.  VGA and USB do not, and the runs show that the  *)
(* counters go wrong with them.                                            *)
(***************************************************************************)
\* The invariant is one of the specification.
LEMMA DemuxInvHolds ==
  ASSUME WireIdPorts = {}
  PROVE  Spec => []DemuxInv
<1>1. Init => DemuxInv
  BY DemuxInvInit
<1>2. DemuxInv /\ [Next]_vars => DemuxInv'
  BY DemuxInvStep
<1>3. QED
  BY <1>1, <1>2, PTL DEF Spec

\* A counter of axi_demux_id_counters tells exactly how many transactions with
\* its id bits the slaves have still to answer: it neither wraps nor drifts, with
\* a handshake and an answer in one cycle, or a valid that waits for its ready.
THEOREM CountersAlwaysExact ==
  ASSUME WireIdPorts = {}
  PROVE  Spec => []CountersExact
<1>1. DemuxInv => CountersExact
  BY BooksCount
<1>2. QED
  BY <1>1, DemuxInvHolds, PTL

\* The assertion cnt_underflow of axi_demux_id_counters holds: no counter ever
\* shows its overflow bit.  What breaks it in soc_top are the slaves that answer
\* with another id, and nothing else.
THEOREM NeverUnderflows ==
  ASSUME WireIdPorts = {}
  PROVE  Spec => []NoUnderflow
<1>1. DemuxInv => NoUnderflow
  <2> SUFFICES ASSUME DemuxInv, NEW c \in Looks
               PROVE  ~ArIds!overflow(c) /\ ~AwIds!overflow(c)
    BY DEF NoUnderflow, Looks
  <2>1. /\ ar_counter[c] \in Nat /\ ar_counter[c] < Modulus
        /\ aw_counter[c] \in Nat /\ aw_counter[c] < Modulus
    BY DEF DemuxInv, ReadBooks, WriteBooks
  <2>2. Modulus \in Nat /\ ArIds!Modulus = Modulus /\ AwIds!Modulus = Modulus
    BY PowersAssumption DEF Modulus, ArIds!Modulus, AwIds!Modulus
  <2>3. QED
    BY <2>1, <2>2 DEF ArIds!overflow, AwIds!overflow
<1>2. QED
  BY <1>1, DemuxInvHolds, PTL

\* The answers to one id come in the order of its requests, whichever slaves they
\* went to: aw_select_ok, ar_select_ok and the counters keep requests with the
\* same id bits from being with two slaves at once.
THEOREM ResponsesAlwaysInOrder ==
  ASSUME WireIdPorts = {}
  PROVE  Spec => []ResponsesInOrder
<1>1. DemuxInv => ResponsesInOrder
  BY BooksOrder
<1>2. QED
  BY <1>1, DemuxInvHolds, PTL

\* The property lock of rr_arb_tree (in a comment there): the response that the
\* master was shown stays, unchanged, whoever else starts to answer.
THEOREM ShownResponsesStay ==
  ASSUME WireIdPorts = {}
  PROVE  Spec => ResponsesStable
<1>1. DemuxInv /\ [Next]_vars
        => [ /\ r_held' # {} => rValid' /\ rOut' = rOut
             /\ b_held' # {} => bValid' /\ bOut' = bOut ]_vars
  BY KeptIsShown
<1>2. QED
  BY <1>1, DemuxInvHolds, PTL DEF Spec, ResponsesStable
=============================================================================
