--------------------------- MODULE SequenceFacts ----------------------------
(***************************************************************************)
(* Facts about numbers and about the concatenation of sequences that       *)
(* several proofs share: demultiplexer, bridge and controller are chains   *)
(* of queues.                                                              *)
(***************************************************************************)
EXTENDS Sequences, Integers, SequenceTheorems, WellFoundedInduction, TLAPS

\* Division leaves a remainder,
LEMMA DivMod ==
  ASSUME NEW a \in Int, NEW b \in Nat \ {0}
  PROVE  a = b * (a \div b) + (a % b) /\ a % b \in 0..(b - 1) /\ a \div b \in Int
OBVIOUS

\* and only one.
LEMMA DivUnique ==
  ASSUME NEW b \in Nat \ {0}, NEW q \in Int, NEW r \in 0..(b - 1)
  PROVE  (b * q + r) % b = r /\ (b * q + r) \div b = q
OBVIOUS

\* A set of natural numbers has a smallest element.
LEMMA SmallestOf ==
  ASSUME NEW S, S \subseteq Nat, S # {}
  PROVE  \E m \in S : \A k \in S : m <= k
<1> DEFINE less == {pair \in Nat \X Nat : pair[1] < pair[2]}
<1>1. IsWellFoundedOn(less, Nat)
  BY NatLessThanWellFounded DEF OpToRel
<1>2. PICK m \in S : \A k \in S : ~(<<k, m>> \in less)
  <2> HIDE DEF less
  <2> QED BY <1>1, WFMin
<1>3. \A k \in S : ~(k < m)
  <2> TAKE k \in S
  <2>1. <<k, m>> \in Nat \X Nat
    BY <1>2
  <2>2. ~(<<k, m>>[1] < <<k, m>>[2])
    BY <1>2, <2>1
  <2> QED BY <2>2
<1> QED BY <1>2, <1>3

\* The rest of a concatenation is the rest of its first part, and the second.
LEMMA TailOfConcat ==
  ASSUME NEW S, NEW s \in Seq(S), NEW t \in Seq(S), s # << >>
  PROVE  Tail(s \o t) = Tail(s) \o t /\ Head(s \o t) = Head(s) /\ s \o t # << >>
<1> DEFINE u == s \o t
           v == Tail(s) \o t
<1>1. /\ Len(s) \in Nat /\ Len(s) >= 1 /\ Len(t) \in Nat
      /\ Tail(s) \in Seq(S) /\ Len(Tail(s)) = Len(s) - 1
      /\ \A i \in 1..Len(Tail(s)) : Tail(s)[i] = s[i + 1]
  BY EmptySeq, LenProperties, HeadTailProperties
<1>2. /\ u \in Seq(S) /\ Len(u) = Len(s) + Len(t)
      /\ \A i \in 1..(Len(s) + Len(t)) : u[i] = IF i <= Len(s) THEN s[i] ELSE t[i - Len(s)]
  BY ConcatProperties
<1>3. /\ v \in Seq(S) /\ Len(v) = Len(Tail(s)) + Len(t)
      /\ \A i \in 1..(Len(Tail(s)) + Len(t)) :
           v[i] = IF i <= Len(Tail(s)) THEN Tail(s)[i] ELSE t[i - Len(Tail(s))]
  BY <1>1, ConcatProperties
<1> HIDE DEF u, v
<1>4. u # << >>
  BY <1>1, <1>2, EmptySeq
<1>5. /\ Tail(u) \in Seq(S) /\ Len(Tail(u)) = Len(u) - 1
      /\ \A i \in 1..Len(Tail(u)) : Tail(u)[i] = u[i + 1]
  BY <1>2, <1>4, HeadTailProperties
<1>6. ASSUME NEW i \in 1..Len(Tail(u))
      PROVE  Tail(u)[i] = v[i]
  <2>1. i + 1 \in 1..(Len(s) + Len(t)) /\ i \in 1..(Len(Tail(s)) + Len(t))
    BY <1>1, <1>2, <1>5
  <2>2. CASE i <= Len(Tail(s))
    BY <1>1, <1>2, <1>3, <1>5, <2>1, <2>2
  <2>3. CASE i > Len(Tail(s))
    <3>1. (i + 1) - Len(s) = i - Len(Tail(s))
      BY <1>1, <2>1
    <3>2. u[i + 1] = t[(i + 1) - Len(s)] /\ v[i] = t[i - Len(Tail(s))]
      BY <1>1, <1>2, <1>3, <2>1, <2>3
    <3>3. QED
      BY <1>5, <3>1, <3>2
  <2>4. QED
    BY <1>1, <2>1, <2>2, <2>3
<1>7. Tail(u) = v
  BY <1>1, <1>2, <1>3, <1>5, <1>6, SeqEqual
<1>8. Head(u) = Head(s)
  BY <1>1, <1>2, <1>4
<1>9. QED
  BY <1>4, <1>7, <1>8 DEF u, v

\* Concatenation under a name of its own, which the provers do not expand.
Joined(s, t) == s \o t

\* The elements of a concatenation.
Follows(all, s, t, S) ==
  /\ all \in Seq(S) /\ Len(all) = Len(s) + Len(t)
  /\ \A i \in 1..(Len(s) + Len(t)) : all[i] = IF i <= Len(s) THEN s[i] ELSE t[i - Len(s)]

\* They are those of the first, then those of the second.
LEMMA ConcatFollows ==
  \A S : \A s, t \in Seq(S) : Follows(Joined(s, t), s, t, S)
BY ConcatProperties DEF Joined, Follows

\* Joining yields a sequence.
LEMMA JoinedSeq ==
  \A S : \A s, t \in Seq(S) : Joined(s, t) \in Seq(S)
BY ConcatProperties DEF Joined

\* Three sequences may be joined in either order.
LEMMA JoinedAssociative ==
  \A S : \A s, t, u \in Seq(S) : Joined(Joined(s, t), u) = Joined(s, Joined(t, u))
BY ConcatAssociative DEF Joined

\* TailOfConcat, for Joined.
LEMMA JoinedTail ==
  \A S : \A s, t \in Seq(S) :
    s # << >> => /\ Tail(Joined(s, t)) = Joined(Tail(s), t)
                 /\ Head(Joined(s, t)) = Head(s) /\ Joined(s, t) # << >>
BY TailOfConcat DEF Joined

\* The length of a sequence, under a name that the provers do not expand either.
Size(s) == Len(s)

\* The length of a concatenation.
LEMMA JoinedSize ==
  \A S : \A s, t \in Seq(S) :
    /\ Joined(s, t) \in Seq(S)
    /\ Size(s) \in Nat /\ Size(t) \in Nat /\ Size(Joined(s, t)) = Size(s) + Size(t)
BY ConcatProperties, LenProperties DEF Joined, Size

\* Nothing joined to a sequence leaves it as it is.
LEMMA JoinedEmpty ==
  \A S : \A s \in Seq(S) : Joined(<< >>, s) = s /\ Joined(s, << >>) = s
BY ConcatEmptySeq DEF Joined

\* A sequence is its head and its tail.
LEMMA HeadAndTail ==
  \A S : \A s \in Seq(S) : s # << >> => Joined(<<Head(s)>>, Tail(s)) = s
<1>1. SUFFICES ASSUME NEW S, NEW s \in Seq(S), s # << >>
               PROVE  <<Head(s)>> \o Tail(s) = s
  BY DEF Joined
<1>2. SubSeq(s, 1, Len(s)) = <<s[1]>> \o SubSeq(s, 2, Len(s))
  <2>1. 1 \in 1..Len(s) /\ Len(s) \in 1..Len(s)
    BY <1>1, EmptySeq, LenProperties
  <2>2. QED
    BY <2>1, SubSeqRecursiveFirst
<1>3. QED
  BY <1>1, <1>2, SubSeqFull, TailIsSubSeq

\* One element moves from a sequence to the end of the one before it.
LEMMA PushMoves ==
  ASSUME NEW S, NEW fifo \in Seq(S), NEW rest \in Seq(S), rest # << >>
  PROVE  /\ Joined(Append(fifo, Head(rest)), Tail(rest)) = Joined(fifo, rest)
         /\ Append(fifo, Head(rest)) \in Seq(S) /\ Append(fifo, Head(rest)) # << >>
<1> DEFINE first == <<Head(rest)>>
           after == Tail(rest)
           all   == Append(fifo, Head(rest))
<1>1. Head(rest) \in S /\ after \in Seq(S) /\ first \in Seq(S)
  BY HeadTailProperties
<1>2. all = Joined(fifo, first)
  BY <1>1, AppendIsConcat DEF Joined
<1>3. Joined(first, after) = rest
  BY HeadAndTail
<1>4. all \in Seq(S) /\ all # << >>
  BY <1>1, AppendProperties
<1> HIDE DEF first, after, all
<1>5. Joined(Joined(fifo, first), after) = Joined(fifo, Joined(first, after))
  BY <1>1, JoinedAssociative
<1>6. Joined(all, after) = Joined(fifo, rest)
  BY <1>2, <1>3, <1>5
<1>7. QED
  BY <1>4, <1>6 DEF all, after
=============================================================================
