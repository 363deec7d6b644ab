--------------------------- MODULE SequenceLemmas ---------------------------
(***************************************************************************)
(* Facts about sequences that the proofs about queues keep needing: what a *)
(* queue holds, in order and as a set, when an element is put at its end   *)
(* or taken from its front.                                                *)
(***************************************************************************)
EXTENDS Integers, Sequences, FiniteSets, Counting, TLAPS

\* The time limits of a leaf that names no prover of its own.
USE SMTT(30), ZenonT(30)

(***************************************************************************)
(* What the operators of Sequences do. The prover's own theory of          *)
(* sequences has these facts; stated here they can be cited.               *)
(***************************************************************************)
LEMMA ElementOfSeq == ASSUME NEW S, NEW q \in Seq(S), NEW n \in 1 .. Len(q) PROVE q[n] \in S
OBVIOUS

LEMMA EmptySeq ==
  ASSUME NEW S
  PROVE  <<>> \in Seq(S) /\ Len(<<>>) = 0 /\ \A q \in Seq(S) : q # <<>> => Len(q) \in Nat \ {0}
OBVIOUS

LEMMA LenProperties ==
  ASSUME NEW S, NEW q \in Seq(S)
  PROVE  Len(q) \in Nat /\ q \in [1 .. Len(q) -> S] /\ DOMAIN q = 1 .. Len(q)
OBVIOUS

LEMMA SeqEqual ==
  ASSUME NEW S, NEW p \in Seq(S), NEW q \in Seq(S), Len(p) = Len(q), \A n \in 1 .. Len(p) : p[n] = q[n]
  PROVE  p = q
OBVIOUS

LEMMA ConcatProperties ==
  ASSUME NEW S, NEW p \in Seq(S), NEW q \in Seq(S)
  PROVE  /\ p \o q \in Seq(S) /\ Len(p \o q) = Len(p) + Len(q)
         /\ \A n \in 1 .. Len(p) + Len(q) : (p \o q)[n] = IF n <= Len(p) THEN p[n] ELSE q[n - Len(p)]
OBVIOUS

LEMMA ConcatEmptySeq == ASSUME NEW S, NEW q \in Seq(S) PROVE q \o <<>> = q /\ <<>> \o q = q
OBVIOUS

LEMMA ConcatAssociative ==
  ASSUME NEW S, NEW p \in Seq(S), NEW q \in Seq(S), NEW r \in Seq(S)
  PROVE  (p \o q) \o r = p \o (q \o r)
OBVIOUS

LEMMA HeadTailProperties ==
  ASSUME NEW S, NEW q \in Seq(S), q # <<>>
  PROVE  /\ Head(q) \in S /\ Tail(q) \in Seq(S) /\ Len(Tail(q)) = Len(q) - 1
         /\ \A n \in 1 .. Len(Tail(q)) : Tail(q)[n] = q[n + 1]
OBVIOUS

LEMMA AppendProperties ==
  ASSUME NEW S, NEW q \in Seq(S), NEW e \in S
  PROVE  /\ Append(q, e) \in Seq(S) /\ Append(q, e) # <<>> /\ Len(Append(q, e)) = Len(q) + 1
         /\ \A n \in 1 .. Len(q) : Append(q, e)[n] = q[n]
         /\ Append(q, e)[Len(q) + 1] = e
OBVIOUS

LEMMA AppendIsConcat == ASSUME NEW S, NEW q \in Seq(S), NEW e \in S PROVE Append(q, e) = q \o <<e>>
OBVIOUS

(* The front of a queue that is not empty, and the queue without it. *)
LEMMA HeadThenTail ==
  ASSUME NEW S, NEW q \in Seq(S), q # <<>>
  PROVE  /\ Head(q) \in S /\ Tail(q) \in Seq(S) /\ Len(Tail(q)) = Len(q) - 1
         /\ Head(q) = q[1] /\ Len(q) \in Nat \ {0}
         /\ <<Head(q)>> \o Tail(q) = q
<1>1. /\ Head(q) \in S /\ Tail(q) \in Seq(S) /\ Len(Tail(q)) = Len(q) - 1
      /\ \A i \in 1 .. Len(Tail(q)) : Tail(q)[i] = q[i + 1]
      /\ Len(q) \in Nat \ {0}
  BY HeadTailProperties, EmptySeq
<1>2. <<Head(q)>> \in Seq(S) /\ Len(<<Head(q)>>) = 1
  BY <1>1
<1>3. /\ <<Head(q)>> \o Tail(q) \in Seq(S)
      /\ Len(<<Head(q)>> \o Tail(q)) = 1 + Len(Tail(q))
      /\ \A i \in 1 .. (1 + Len(Tail(q))) : (<<Head(q)>> \o Tail(q))[i] =
            IF i <= 1 THEN <<Head(q)>>[i] ELSE Tail(q)[i - 1]
  BY <1>1, <1>2, ConcatProperties
<1>4. \A i \in 1 .. Len(q) : (<<Head(q)>> \o Tail(q))[i] = q[i]
  BY <1>1, <1>3
<1>5. <<Head(q)>> \o Tail(q) = q
  BY <1>1, <1>3, <1>4, SeqEqual
<1> QED
  BY <1>1, <1>5

(* Appending is concatenating a sequence of one element. *)
LEMMA AppendEnd ==
  ASSUME NEW S, NEW f \in Seq(S), NEW e \in S
  PROVE  /\ Append(f, e) \in Seq(S) /\ Len(Append(f, e)) = Len(f) + 1
         /\ Append(f, e) # <<>>
         /\ \A i \in 1 .. Len(f) : Append(f, e)[i] = f[i]
         /\ Append(f, e)[Len(f) + 1] = e
         /\ Append(f, e) = f \o <<e>>
<1>1. /\ Append(f, e) \in Seq(S) /\ Append(f, e) # <<>> /\ Len(Append(f, e)) = Len(f) + 1
      /\ \A i \in 1 .. Len(f) : Append(f, e)[i] = f[i]
      /\ Append(f, e)[Len(f) + 1] = e
  BY AppendProperties
<1>2. Append(f, e) = f \o <<e>>
  BY AppendIsConcat
<1> QED
  BY <1>1, <1>2

(* An element put at the end of the second part is at the end of the whole. *)
LEMMA PutLast ==
  ASSUME NEW S, NEW f \in Seq(S), NEW q \in Seq(S), NEW e \in S
  PROVE  f \o Append(q, e) = Append(f \o q, e)
<1>1. f \o q \in Seq(S) /\ <<e>> \in Seq(S)
  BY ConcatProperties
<1>2. Append(q, e) = q \o <<e>> /\ Append(f \o q, e) = (f \o q) \o <<e>>
  BY <1>1, AppendIsConcat
<1> QED
  BY <1>1, <1>2, ConcatAssociative

(* An element that moves from the front of the second part to the end of the *)
(* first leaves the whole as it is.                                          *)
LEMMA MoveHead ==
  ASSUME NEW S, NEW f \in Seq(S), NEW q \in Seq(S), q # <<>>
  PROVE  Append(f, Head(q)) \o Tail(q) = f \o q
<1>1. Head(q) \in S /\ Tail(q) \in Seq(S) /\ <<Head(q)>> \o Tail(q) = q
  BY HeadThenTail
<1>2. Append(f, Head(q)) = f \o <<Head(q)>> /\ <<Head(q)>> \in Seq(S)
  BY <1>1, AppendIsConcat
<1> QED
  BY <1>1, <1>2, ConcatAssociative

(* What a queue holds: one element more, ... *)
LEMMA ElementsAppend ==
  ASSUME NEW S, NEW q \in Seq(S), NEW e \in S
  PROVE  {Append(q, e)[n] : n \in 1 .. Len(Append(q, e))} = {q[n] : n \in 1 .. Len(q)} \cup {e}
<1>1. /\ Len(Append(q, e)) = Len(q) + 1 /\ Len(q) \in Nat
      /\ \A i \in 1 .. Len(q) : Append(q, e)[i] = q[i]
      /\ Append(q, e)[Len(q) + 1] = e
  BY AppendEnd, LenProperties
<1>2. 1 .. (Len(q) + 1) = (1 .. Len(q)) \cup {Len(q) + 1}
  BY <1>1
<1> QED
  BY <1>1, <1>2

(* ... or one at its front and the rest. *)
LEMMA ElementsTail ==
  ASSUME NEW S, NEW q \in Seq(S), q # <<>>
  PROVE  {q[n] : n \in 1 .. Len(q)} = {Tail(q)[n] : n \in 1 .. Len(Tail(q))} \cup {Head(q)}
<1>1. /\ Len(Tail(q)) = Len(q) - 1 /\ Len(q) \in Nat \ {0}
      /\ \A i \in 1 .. Len(Tail(q)) : Tail(q)[i] = q[i + 1]
      /\ Head(q) = q[1]
  BY HeadThenTail, HeadTailProperties
<1>2. ASSUME NEW n \in 1 .. Len(q)
      PROVE  q[n] \in {Tail(q)[i] : i \in 1 .. Len(Tail(q))} \cup {Head(q)}
  <2>1. CASE n = 1
    BY <1>1, <2>1
  <2>2. CASE n # 1
    <3>1. n - 1 \in 1 .. Len(Tail(q)) /\ Tail(q)[n - 1] = q[n]
      BY <1>1, <2>2
    <3> QED
      BY <3>1
  <2> QED
    BY <2>1, <2>2
<1>3. ASSUME NEW i \in 1 .. Len(Tail(q)) PROVE Tail(q)[i] \in {q[n] : n \in 1 .. Len(q)}
  <2>1. i + 1 \in 1 .. Len(q) /\ Tail(q)[i] = q[i + 1]
    BY <1>1
  <2> QED
    BY <2>1
<1>4. Head(q) \in {q[n] : n \in 1 .. Len(q)}
  BY <1>1
<1> QED
  BY <1>2, <1>3, <1>4

(* Nothing in front of a queue, and a queue of one element. *)
LEMMA EmptyFront ==
  ASSUME NEW S, NEW q \in Seq(S)
  PROVE  <<>> \o q = q
BY ConcatEmptySeq

LEMMA OnlyOne ==
  ASSUME NEW S, NEW c \in Seq(S), c # <<>>, Len(c) <= 1
  PROVE  /\ Head(c) \in S /\ c = <<Head(c)>>
         /\ {c[n] : n \in 1 .. Len(c)} = {Head(c)}
<1>1. Head(c) \in S /\ Head(c) = c[1] /\ Len(c) = 1
  <2>1. Head(c) \in S /\ Head(c) = c[1] /\ Len(c) \in Nat \ {0}
    BY HeadThenTail
  <2> QED
    BY <2>1
<1>2. <<Head(c)>> \in Seq(S) /\ Len(<<Head(c)>>) = 1 /\ <<Head(c)>>[1] = Head(c)
  BY <1>1
<1>3. c = <<Head(c)>>
  BY <1>1, <1>2, SeqEqual
<1> QED
  BY <1>1, <1>3

(* A queue in three parts: done, in hand, waiting.  Taking the next into an   *)
(* empty hand, and finishing what is in hand, leave the whole as it is.       *)
LEMMA TakeInHand ==
  ASSUME NEW S, NEW e \in Seq(S), NEW q \in Seq(S), q # <<>>
  PROVE  e \o (<<Head(q)>> \o Tail(q)) = e \o (<<>> \o q)
BY HeadThenTail, EmptyFront

LEMMA FinishInHand ==
  ASSUME NEW S, NEW e \in Seq(S), NEW c \in Seq(S), c # <<>>, Len(c) <= 1, NEW q \in Seq(S)
  PROVE  Append(e, Head(c)) \o (<<>> \o q) = e \o (c \o q)
<1>1. Head(c) \in S /\ c = <<Head(c)>>
  BY OnlyOne
<1>2. Append(e, Head(c)) = e \o c
  BY <1>1, AppendIsConcat
<1>3. <<>> \o q = q
  BY EmptyFront
<1>4. (e \o c) \o q = e \o (c \o q)
  BY ConcatAssociative
<1> QED
  BY <1>2, <1>3, <1>4, Zenon

(* The next of a queue in three parts with an empty hand. *)
LEMMA NextInLine ==
  ASSUME NEW S, NEW e \in Seq(S), NEW q \in Seq(S), q # <<>>
  PROVE  /\ Len(e) < Len(e \o (<<>> \o q))
         /\ (e \o (<<>> \o q))[Len(e) + 1] = Head(q)
<1>1. <<>> \o q = q
  BY EmptyFront
<1>2. Len(q) \in Nat \ {0} /\ Head(q) = q[1] /\ Len(e) \in Nat
  BY HeadThenTail, LenProperties
<1>3. /\ Len(e \o q) = Len(e) + Len(q)
      /\ \A i \in 1 .. Len(e) + Len(q) : (e \o q)[i] = IF i <= Len(e) THEN e[i] ELSE q[i - Len(e)]
  BY ConcatProperties
<1>4. (e \o q)[Len(e) + 1] = q[1]
  BY <1>2, <1>3
<1> QED
  BY <1>1, <1>2, <1>3, <1>4

(***************************************************************************)
(* The places of a family of queues                                        *)
(***************************************************************************)
Slots(W, q) == UNION {{w} \X (1 .. Len(q[w])) : w \in W}

(* Worker w's queue gains t at its end, or loses its head: q becomes r. *)
PushedTo(S, W, q, r, w, t) ==
  /\ w \in W /\ t \in S /\ q \in [W -> Seq(S)] /\ r \in [W -> Seq(S)]
  /\ r[w] = Append(q[w], t) /\ \A v \in W \ {w} : r[v] = q[v]

PoppedFrom(S, W, q, r, w) ==
  /\ w \in W /\ q \in [W -> Seq(S)] /\ r \in [W -> Seq(S)]
  /\ q[w] # <<>> /\ r[w] = Tail(q[w]) /\ \A v \in W \ {w} : r[v] = q[v]

(* A push adds one place. *)
LEMMA SlotsAppend ==
  ASSUME CountFacts,
         NEW S, NEW W, NEW q, NEW r, NEW w, NEW t, PushedTo(S, W, q, r, w, t), IsFiniteSet(Slots(W, q))
  PROVE  IsFiniteSet(Slots(W, r)) /\ Cardinality(Slots(W, r)) = Cardinality(Slots(W, q)) + 1
<1> USE DEF PushedTo
<1> DEFINE p == <<w, Len(q[w]) + 1>>
<1>1. q[w] \in Seq(S) /\ Len(q[w]) \in Nat /\ Len(r[w]) = Len(q[w]) + 1
  OBVIOUS
<1>2. ASSUME NEW x PROVE x \in Slots(W, q) <=> \E v \in W : \E n \in 1 .. Len(q[v]) : x = <<v, n>>
  BY DEF Slots
<1>3. ASSUME NEW x PROVE x \in Slots(W, r) <=> \E v \in W : \E n \in 1 .. Len(r[v]) : x = <<v, n>>
  BY DEF Slots
<1>4. p \notin Slots(W, q)
  BY <1>1, <1>2
<1>5. ASSUME NEW x \in Slots(W, r) PROVE x \in Slots(W, q) \cup {p}
  <2>1. PICK v \in W, n \in Nat : x = <<v, n>> /\ n \in 1 .. Len(r[v])
    BY <1>3, <1>5
  <2>2. CASE v = w /\ n = Len(q[w]) + 1
    BY <2>1, <2>2
  <2>3. CASE ~(v = w /\ n = Len(q[w]) + 1)
    <3>1. n \in 1 .. Len(q[v])
      BY <1>1, <2>1, <2>3
    <3> QED
      BY <1>2, <2>1, <3>1
  <2> QED
    BY <2>2, <2>3
<1>6. ASSUME NEW x \in Slots(W, q) \cup {p} PROVE x \in Slots(W, r)
  <2>1. CASE x = p
    BY <1>1, <1>3, <2>1
  <2>2. CASE x # p
    <3>1. PICK v \in W, n \in Nat : x = <<v, n>> /\ n \in 1 .. Len(q[v])
      BY <1>2, <1>6, <2>2
    <3>2. n \in 1 .. Len(r[v])
      BY <1>1, <3>1
    <3> QED
      BY <1>3, <3>1, <3>2
  <2> QED
    BY <2>1, <2>2
<1>7. Slots(W, r) = Slots(W, q) \cup {p}
  BY <1>5, <1>6
<1> HIDE DEF p
<1> QED
  BY <1>4, <1>7 DEF CountFacts, CountsAdd

(* A pop takes one away. *)
LEMMA SlotsTail ==
  ASSUME CountFacts, NEW S, NEW W, NEW q, NEW r, NEW w, PoppedFrom(S, W, q, r, w), IsFiniteSet(Slots(W, q))
  PROVE  /\ IsFiniteSet(Slots(W, r)) /\ Cardinality(Slots(W, r)) = Cardinality(Slots(W, q)) - 1
         /\ Cardinality(Slots(W, r)) \in Nat
<1> USE DEF PoppedFrom
<1> DEFINE p == <<w, Len(q[w])>>
<1>1. q[w] \in Seq(S) /\ Len(q[w]) \in Nat \ {0} /\ Len(r[w]) = Len(q[w]) - 1
  OBVIOUS
<1>a. ASSUME NEW n \in Nat PROVE n \in 1 .. Len(r[w]) <=> n \in 1 .. Len(q[w]) /\ n # Len(q[w])
  <2>1. ASSUME NEW k \in Nat \ {0} PROVE n \in 1 .. (k - 1) <=> n \in 1 .. k /\ n # k
    OBVIOUS
  <2> QED
    BY <1>1, <2>1, Zenon
<1>2. ASSUME NEW x PROVE x \in Slots(W, q) <=> \E v \in W : \E n \in 1 .. Len(q[v]) : x = <<v, n>>
  BY DEF Slots
<1>3. ASSUME NEW x PROVE x \in Slots(W, r) <=> \E v \in W : \E n \in 1 .. Len(r[v]) : x = <<v, n>>
  BY DEF Slots
<1>4. p \in Slots(W, q)
  BY <1>1, <1>2
<1>5. ASSUME NEW x \in Slots(W, r) PROVE x \in Slots(W, q) \ {p}
  <2>1. PICK v \in W, n \in Nat : x = <<v, n>> /\ n \in 1 .. Len(r[v])
    BY <1>3, <1>5
  <2>2. n \in 1 .. Len(q[v]) /\ ~(v = w /\ n = Len(q[w]))
    <3>1. CASE v = w
      BY <1>a, <2>1, <3>1, Zenon
    <3>2. CASE v # w
      BY <2>1, <3>2
    <3> QED
      BY <3>1, <3>2
  <2> QED
    BY <1>2, <2>1, <2>2
<1>6. ASSUME NEW x \in Slots(W, q) \ {p} PROVE x \in Slots(W, r)
  <2>1. PICK v \in W, n \in Nat : x = <<v, n>> /\ n \in 1 .. Len(q[v])
    BY <1>2, <1>6
  <2>2. n \in 1 .. Len(r[v])
    <3>1. CASE v = w
      <4>1. n # Len(q[w])
        BY <1>6, <2>1, <3>1
      <4> QED
        BY <1>a, <2>1, <3>1, <4>1
    <3>2. CASE v # w
      BY <2>1, <3>2
    <3> QED
      BY <3>1, <3>2
  <2> QED
    BY <1>3, <2>1, <2>2
<1>7. Slots(W, r) = Slots(W, q) \ {p}
  BY <1>5, <1>6
<1> HIDE DEF p
<1>8. IsFiniteSet(Slots(W, r)) /\ Cardinality(Slots(W, r)) = Cardinality(Slots(W, q)) - 1
  BY <1>4, <1>7 DEF CountFacts, CountsRemove
<1> QED
  BY <1>8 DEF CountFacts, CountsType

(* Empty queues have no places. *)
LEMMA SlotsEmpty ==
  ASSUME CountFacts, NEW W, NEW q, \A w \in W : q[w] = <<>>
  PROVE  IsFiniteSet(Slots(W, q)) /\ Cardinality(Slots(W, q)) = 0
<1>1. Slots(W, q) = {}
  <2>1. \A w \in W : 1 .. Len(q[w]) = {}
    OBVIOUS
  <2> QED
    BY <2>1 DEF Slots
<1> QED
  BY <1>1 DEF CountFacts, CountsFew

(***************************************************************************)
(* What a queue holds and in which order                                   *)
(***************************************************************************)
Holds(q) == {q[n] : n \in 1 .. Len(q)}
NoRepeat(q) == \A i, j \in 1 .. Len(q) : q[i] = q[j] => i = j
Precedes(q, x, y) == \E i, j \in 1 .. Len(q) : i < j /\ q[i] = x /\ q[j] = y
Begins(p, q) == Len(p) <= Len(q) /\ \A n \in 1 .. Len(p) : p[n] = q[n]

LEMMA HoldsFew ==
  ASSUME NEW t
  PROVE  Holds(<<>>) = {} /\ Holds(<<t>>) = {t} /\ NoRepeat(<<>>) /\ NoRepeat(<<t>>)
BY DEF Holds, NoRepeat

LEMMA HoldsType ==
  ASSUME NEW S, NEW q \in Seq(S)
  PROVE  Holds(q) \subseteq S /\ (Holds(q) = {} <=> q = <<>>)
<1>1. Len(q) \in Nat /\ (q = <<>> <=> Len(q) = 0) /\ \A n \in 1 .. Len(q) : q[n] \in S
  BY EmptySeq, ElementOfSeq, LenProperties
<1>2. Holds(q) \subseteq S
  BY <1>1 DEF Holds
<1>3. ASSUME q # <<>> PROVE q[1] \in Holds(q)
  BY <1>1, <1>3 DEF Holds
<1>4. ASSUME q = <<>> PROVE Holds(q) = {}
  BY <1>4 DEF Holds
<1> QED
  BY <1>2, <1>3, <1>4

LEMMA HoldsAppend ==
  ASSUME NEW S, NEW q \in Seq(S), NEW e \in S
  PROVE  Holds(Append(q, e)) = Holds(q) \cup {e}
BY ElementsAppend DEF Holds

LEMMA HoldsConcat ==
  ASSUME NEW S, NEW p \in Seq(S), NEW q \in Seq(S)
  PROVE  Holds(p \o q) = Holds(p) \cup Holds(q)
<1>1. /\ Len(p \o q) = Len(p) + Len(q) /\ Len(p) \in Nat /\ Len(q) \in Nat
      /\ \A i \in 1 .. Len(p) + Len(q) : (p \o q)[i] = IF i <= Len(p) THEN p[i] ELSE q[i - Len(p)]
  BY ConcatProperties, LenProperties
<1>2. ASSUME NEW i \in 1 .. Len(p) + Len(q) PROVE (p \o q)[i] \in Holds(p) \cup Holds(q)
  <2>1. CASE i <= Len(p)
    BY <1>1, <2>1 DEF Holds
  <2>2. CASE ~(i <= Len(p))
    <3>1. i - Len(p) \in 1 .. Len(q) /\ (p \o q)[i] = q[i - Len(p)]
      BY <1>1, <2>2
    <3> QED
      BY <3>1 DEF Holds
  <2> QED
    BY <2>1, <2>2
<1>3. ASSUME NEW i \in 1 .. Len(p) PROVE p[i] \in Holds(p \o q)
  <2>1. i \in 1 .. Len(p) + Len(q) /\ (p \o q)[i] = p[i]
    BY <1>1
  <2> QED
    BY <1>1, <2>1 DEF Holds
<1>4. ASSUME NEW i \in 1 .. Len(q) PROVE q[i] \in Holds(p \o q)
  <2>1. Len(p) + i \in 1 .. Len(p) + Len(q) /\ (p \o q)[Len(p) + i] = q[i]
    BY <1>1
  <2> QED
    BY <1>1, <2>1 DEF Holds
<1>5. Holds(p \o q) \subseteq Holds(p) \cup Holds(q)
  BY <1>1, <1>2 DEF Holds
<1>6. Holds(p) \subseteq Holds(p \o q)
  BY <1>3 DEF Holds
<1>7. Holds(q) \subseteq Holds(p \o q)
  BY <1>4 DEF Holds
<1> QED
  BY <1>5, <1>6, <1>7

(* A new element at the end: last of all. *)
LEMMA PutNew ==
  ASSUME NEW S, NEW q \in Seq(S), NEW e \in S, e \notin Holds(q)
  PROVE  /\ Holds(Append(q, e)) = Holds(q) \cup {e}
         /\ NoRepeat(q) => NoRepeat(Append(q, e))
         /\ \A x, y : Precedes(q, x, y) => Precedes(Append(q, e), x, y)
         /\ \A x \in Holds(q) : Precedes(Append(q, e), x, e)
         /\ \A x, y : Precedes(Append(q, e), x, y) => Precedes(q, x, y) \/ (x \in Holds(q) /\ y = e)
<1> DEFINE r == Append(q, e)
<1>1. /\ Len(r) = Len(q) + 1 /\ Len(q) \in Nat /\ \A i \in 1 .. Len(q) : r[i] = q[i]
      /\ r[Len(q) + 1] = e
  BY AppendEnd, LenProperties
<1>2. Holds(r) = Holds(q) \cup {e}
  BY ElementsAppend DEF Holds
<1>3. \A i \in 1 .. Len(q) : q[i] # e
  BY DEF Holds
<1> HIDE DEF r
<1>4. \A i \in 1 .. Len(r) : i = Len(q) + 1 \/ i \in 1 .. Len(q)
  BY <1>1
<1>5. \A i \in 1 .. Len(q) : i \in 1 .. Len(r) /\ i < Len(q) + 1 /\ Len(q) + 1 \in 1 .. Len(r)
  BY <1>1
<1>6. NoRepeat(q) => NoRepeat(r)
  BY <1>1, <1>3, <1>4 DEF NoRepeat
<1>7. \A x, y : Precedes(q, x, y) => Precedes(r, x, y)
  BY <1>1, <1>5 DEF Precedes
<1>8. \A x \in Holds(q) : Precedes(r, x, e)
  BY <1>1, <1>5 DEF Precedes, Holds
<1>9. ASSUME NEW x, NEW y, Precedes(r, x, y) PROVE Precedes(q, x, y) \/ (x \in Holds(q) /\ y = e)
  <2>1. PICK i \in 1 .. Len(r), j \in 1 .. Len(r) : i < j /\ r[i] = x /\ r[j] = y
    BY <1>9 DEF Precedes
  <2>2. i \in 1 .. Len(q)
    BY <1>1, <2>1
  <2>3. CASE j = Len(q) + 1
    BY <1>1, <2>1, <2>2, <2>3 DEF Holds
  <2>4. CASE j \in 1 .. Len(q)
    BY <1>1, <2>1, <2>2, <2>4 DEF Precedes
  <2> QED
    BY <1>4, <2>3, <2>4
<1> QED
  BY <1>2, <1>6, <1>7, <1>8, <1>9 DEF r

(* The head of a queue without repetitions is taken. *)
LEMMA TakeHead ==
  ASSUME NEW S, NEW q \in Seq(S), q # <<>>, NoRepeat(q)
  PROVE  /\ Head(q) \in Holds(q) /\ Head(q) \in S /\ Tail(q) \in Seq(S)
         /\ Holds(Tail(q)) = Holds(q) \ {Head(q)} /\ NoRepeat(Tail(q))
         /\ \A x, y : Precedes(Tail(q), x, y) => Precedes(q, x, y)
         /\ \A y \in Holds(Tail(q)) : Precedes(q, Head(q), y)
<1> DEFINE h == Head(q) r == Tail(q)
<1>1. /\ Len(r) = Len(q) - 1 /\ Len(q) \in Nat \ {0} /\ \A i \in 1 .. Len(r) : r[i] = q[i + 1]
      /\ h = q[1] /\ h \in S /\ r \in Seq(S)
  BY HeadThenTail, HeadTailProperties
<1>2. Holds(q) = Holds(r) \cup {h}
  BY ElementsTail DEF Holds
<1> HIDE DEF h, r
<1>3. \A i \in 1 .. Len(r) : i + 1 \in 1 .. Len(q) /\ i + 1 # 1 /\ 1 \in 1 .. Len(q) /\ 1 < i + 1
  BY <1>1
<1>4. h \notin Holds(r)
  BY <1>1, <1>3 DEF Holds, NoRepeat
<1>5. NoRepeat(r)
  <2> SUFFICES ASSUME NEW i \in 1 .. Len(r), NEW j \in 1 .. Len(r), r[i] = r[j] PROVE i = j
    BY DEF NoRepeat
  <2>1. q[i + 1] = q[j + 1]
    BY <1>1
  <2>2. i + 1 = j + 1
    BY <1>3, <2>1 DEF NoRepeat
  <2> QED
    BY <1>1, <2>2
<1>6. ASSUME NEW x, NEW y, Precedes(r, x, y) PROVE Precedes(q, x, y)
  <2>1. PICK i \in 1 .. Len(r), j \in 1 .. Len(r) : i < j /\ r[i] = x /\ r[j] = y
    BY <1>6 DEF Precedes
  <2>2. i + 1 < j + 1 /\ q[i + 1] = x /\ q[j + 1] = y
    BY <1>1, <2>1
  <2> QED
    BY <1>3, <2>2 DEF Precedes
<1>7. ASSUME NEW y \in Holds(r) PROVE Precedes(q, h, y)
  <2>1. PICK i \in 1 .. Len(r) : r[i] = y
    BY DEF Holds
  <2> QED
    BY <1>1, <1>3, <2>1 DEF Precedes
<1> QED
  BY <1>1, <1>2, <1>4, <1>5, <1>6, <1>7 DEF h, r

(* A queue without repetitions counts an element once. *)
LEMMA CountOnce ==
  ASSUME CountFacts, NEW S, NEW q \in Seq(S), NoRepeat(q), NEW t
  PROVE  Cardinality({n \in 1 .. Len(q) : q[n] = t}) = IF t \in Holds(q) THEN 1 ELSE 0
<1>1. CASE t \in Holds(q)
  <2>1. PICK n \in 1 .. Len(q) : q[n] = t
    BY <1>1 DEF Holds
  <2>2. {i \in 1 .. Len(q) : q[i] = t} = {n}
    BY <2>1 DEF NoRepeat
  <2> QED
    BY <1>1, <2>2, Zenon DEF CountFacts, CountsFew
<1>2. CASE t \notin Holds(q)
  <2>1. {i \in 1 .. Len(q) : q[i] = t} = {}
    BY <1>2 DEF Holds
  <2> QED
    BY <1>2, <2>1, Zenon DEF CountFacts, CountsFew
<1> QED
  BY <1>1, <1>2

(* A queue that begins another still does when the other grows, ... *)
LEMMA BeginsLonger ==
  ASSUME NEW S, NEW p \in Seq(S), NEW q \in Seq(S), NEW e \in S, Begins(p, q)
  PROVE  Begins(p, Append(q, e))
<1>1. /\ Len(Append(q, e)) = Len(q) + 1 /\ Len(q) \in Nat /\ Len(p) \in Nat
      /\ \A i \in 1 .. Len(q) : Append(q, e)[i] = q[i]
  BY AppendEnd, LenProperties
<1> QED
  BY <1>1 DEF Begins

(* ... and so does the first of its parts. *)
LEMMA BeginsPart ==
  ASSUME NEW S, NEW p \in Seq(S), NEW r \in Seq(S), NEW q \in Seq(S), Begins(p \o r, q)
  PROVE  Begins(p, q)
<1>1. /\ Len(p \o r) = Len(p) + Len(r) /\ Len(p) \in Nat /\ Len(r) \in Nat /\ Len(q) \in Nat
      /\ \A i \in 1 .. Len(p) + Len(r) : (p \o r)[i] = IF i <= Len(p) THEN p[i] ELSE r[i - Len(p)]
  BY ConcatProperties, LenProperties
<1>2. Len(p) <= Len(q)
  BY <1>1 DEF Begins
<1>3. ASSUME NEW n \in 1 .. Len(p) PROVE p[n] = q[n]
  <2>1. n \in 1 .. Len(p \o r) /\ (p \o r)[n] = p[n]
    BY <1>1
  <2> QED
    BY <2>1 DEF Begins
<1> QED
  BY <1>2, <1>3 DEF Begins

(* It can take the element that precedes all others it does not hold. *)
LEMMA BeginsNext ==
  ASSUME NEW S, NEW p \in Seq(S), NEW q \in Seq(S), Begins(p, q), NoRepeat(q),
         NEW h \in Holds(q), h \notin Holds(p),
         \A y \in Holds(q) : y \notin Holds(p) => y = h \/ Precedes(q, h, y)
  PROVE  Begins(Append(p, h), q)
<1>1. /\ Len(p) \in Nat /\ Len(q) \in Nat /\ h \in S
      /\ \A i \in 1 .. Len(q) : q[i] \in S
  BY LenProperties, HoldsType, ElementOfSeq
<1>2. /\ Len(Append(p, h)) = Len(p) + 1 /\ \A i \in 1 .. Len(p) : Append(p, h)[i] = p[i]
      /\ Append(p, h)[Len(p) + 1] = h
  BY <1>1, AppendEnd
<1>3. PICK m \in 1 .. Len(q) : q[m] = h
  BY DEF Holds
<1>4. m > Len(p)
  BY <1>1, <1>3 DEF Holds, Begins
<1>5. Len(p) + 1 \in 1 .. Len(q)
  BY <1>1, <1>4
<1> DEFINE y == q[Len(p) + 1]
<1>6. y \in Holds(q)
  BY <1>5 DEF Holds
<1>7. y \notin Holds(p)
  <2> SUFFICES ASSUME NEW n \in 1 .. Len(p), p[n] = y PROVE FALSE
    BY DEF Holds
  <2>1. n \in 1 .. Len(q) /\ q[n] = q[Len(p) + 1]
    BY <1>1, <1>5 DEF Begins
  <2>2. n = Len(p) + 1
    BY <1>5, <2>1 DEF NoRepeat
  <2> QED
    BY <1>1, <2>2
<1>8. y = h
  <2> SUFFICES ASSUME Precedes(q, h, y) PROVE FALSE
    BY <1>6, <1>7
  <2>1. PICK i \in 1 .. Len(q), j \in 1 .. Len(q) : i < j /\ q[i] = h /\ q[j] = y
    BY DEF Precedes
  <2>2. i = m /\ j = Len(p) + 1
    BY <1>3, <1>5, <2>1 DEF NoRepeat
  <2> QED
    BY <1>1, <1>4, <2>1, <2>2
<1>9. \A n \in 1 .. Len(p) + 1 : Append(p, h)[n] = q[n]
  <2> SUFFICES ASSUME NEW n \in 1 .. Len(p) + 1 PROVE Append(p, h)[n] = q[n]
    OBVIOUS
  <2>1. CASE n = Len(p) + 1
    BY <1>2, <1>8, <2>1
  <2>2. CASE n # Len(p) + 1
    <3>1. n \in 1 .. Len(p)
      BY <1>1, <2>2
    <3> QED
      BY <1>2, <3>1 DEF Begins
  <2> QED
    BY <2>1, <2>2
<1> QED
  BY <1>1, <1>2, <1>5, <1>9 DEF Begins
=============================================================================
