------------------------------ MODULE SeqLemmas ------------------------------
(***************************************************************************)
(* Lemmas about the operators of the community modules on sequences that   *)
(* the models are built from: the lists of the window manager, the cells   *)
(* of the bar, the events on their way and what a user types.              *)
(***************************************************************************)
EXTENDS SequencesExt, SequenceTheorems, WellFoundedInduction, TLAPS

\* The members of a list are values of its type (the intrusive lists of the
\* WView, WColumn and WFrame objects).
LEMMA MembersInType ==
  ASSUME NEW S, NEW s \in Seq(S)
  PROVE  /\ ToSet(s) \subseteq S
         /\ s # <<>> => Head(s) \in ToSet(s)
         /\ s = <<>> <=> ToSet(s) = {}
BY LenProperties, ElementOfSeq, EmptySeq DEF ToSet

\* A concatenation, given a name.
LEMMA ConcatAs ==
  ASSUME NEW S, NEW a \in Seq(S), NEW b \in Seq(S), NEW t, t = a \o b
  PROVE  /\ t \in Seq(S)
         /\ Len(t) = Len(a) + Len(b)
         /\ \A j \in 1..(Len(a) + Len(b)) :
              t[j] = IF j <= Len(a) THEN a[j] ELSE b[j - Len(a)]
BY ConcatProperties

\* A slice of a list, given a name.
LEMMA SliceAs ==
  ASSUME NEW S, NEW s \in Seq(S), NEW m \in 1..(Len(s) + 1), NEW n \in 0..Len(s), m <= n + 1,
         NEW t, t = SubSeq(s, m, n)
  PROVE  /\ t \in Seq(S)
         /\ Len(t) = n + 1 - m
         /\ \A j \in 1..(n + 1 - m) : t[j] = s[m + j - 1]
<1>0. Len(s) \in Nat /\ \A j \in 1..Len(s) : s[j] \in S
  BY LenProperties, ElementOfSeq
<1>1. m \in Int /\ n \in Int /\ \A j \in m..n : s[j] \in S
  BY <1>0
<1>2. /\ t \in Seq(S)
      /\ Len(t) = IF m <= n THEN n - m + 1 ELSE 0
      /\ \A j \in 1..(n - m + 1) : t[j] = s[m + j - 1]
  BY <1>1, SubSeqProperties
<1>3. QED BY <1>0, <1>2

\* RemoveAt as a function of the index.
LEMMA RemoveAtProperties ==
  ASSUME NEW S, NEW s \in Seq(S), NEW i \in 1..Len(s), NEW t, t = RemoveAt(s, i)
  PROVE  /\ t \in Seq(S)
         /\ Len(t) = Len(s) - 1
         /\ \A j \in 1..(Len(s) - 1) : t[j] = IF j < i THEN s[j] ELSE s[j + 1]
<1> DEFINE a == SubSeq(s, 1, i - 1)
           b == SubSeq(s, i + 1, Len(s))
<1>0. Len(s) \in Nat
  BY LenProperties
<1>3. t = a \o b
  BY DEF RemoveAt
<1> HIDE DEF a, b
<1>1. a \in Seq(S) /\ Len(a) = i - 1 /\ \A j \in 1..(i - 1) : a[j] = s[j]
  BY <1>0, SliceAs DEF a
<1>2. b \in Seq(S) /\ Len(b) = Len(s) - i /\ \A j \in 1..(Len(s) - i) : b[j] = s[i + j]
  <2>1. /\ b \in Seq(S)
        /\ Len(b) = Len(s) + 1 - (i + 1)
        /\ \A j \in 1..(Len(s) + 1 - (i + 1)) : b[j] = s[(i + 1) + j - 1]
    BY <1>0, SliceAs DEF b
  <2>2. QED BY <1>0, <2>1
<1>4. a \in Seq(S) /\ b \in Seq(S)
  BY <1>1, <1>2
<1>5. /\ t \in Seq(S)
      /\ Len(t) = Len(a) + Len(b)
      /\ \A j \in 1..(Len(a) + Len(b)) : t[j] = IF j <= Len(a) THEN a[j] ELSE b[j - Len(a)]
  BY <1>3, <1>4, ConcatAs
<1>6. \A j \in 1..(Len(s) - 1) : t[j] = IF j < i THEN a[j] ELSE b[j - (i - 1)]
  <2>1. Len(a) = i - 1 /\ Len(a) + Len(b) = Len(s) - 1
    BY <1>0, <1>1, <1>2
  <2>2. \A j \in 1..(Len(s) - 1) : t[j] = IF j <= i - 1 THEN a[j] ELSE b[j - (i - 1)]
    BY <1>5, <2>1
  <2>3. \A j \in 1..(Len(s) - 1) : j <= i - 1 <=> j < i
    BY <1>0
  <2>4. QED BY <2>2, <2>3
<1>7. \A j \in 1..(Len(s) - 1) : j < i => a[j] = s[j]
  BY <1>0, <1>1
<1>8. ASSUME NEW j \in 1..(Len(s) - 1), j >= i
      PROVE  b[j - (i - 1)] = s[j + 1]
  <2>1. j - (i - 1) \in 1..(Len(s) - i) /\ i + (j - (i - 1)) = j + 1
    BY <1>0, <1>8
  <2>2. QED BY <2>1, <1>2
<1>9. Len(t) = Len(s) - 1
  BY <1>0, <1>1, <1>2, <1>5
<1>10. QED BY <1>0, <1>5, <1>6, <1>7, <1>8, <1>9

\* Removing one element of a list without repetition leaves the others.
LEMMA RemoveAtLeavesOthers ==
  ASSUME NEW S, NEW s \in Seq(S), IsInjective(s), NEW i \in 1..Len(s), NEW e, s[i] = e,
         NEW t, t = RemoveAt(s, i)
  PROVE  /\ t \in Seq(S)
         /\ Len(t) = Len(s) - 1
         /\ ToSet(t) = ToSet(s) \ {e}
         /\ IsInjective(t)
<1>0. i \in 1..Len(s) /\ s[i] = e
  OBVIOUS
<1>1. /\ t \in Seq(S)
      /\ Len(t) = Len(s) - 1
      /\ \A j \in 1..(Len(s) - 1) : t[j] = IF j < i THEN s[j] ELSE s[j + 1]
  BY ZenonT(60), RemoveAtProperties
<1>2. Len(s) \in Nat /\ DOMAIN s = 1..Len(s) /\ DOMAIN t = 1..(Len(s) - 1)
  BY <1>1, LenProperties
<1>3. \A j, k \in 1..Len(s) : s[j] = s[k] => j = k
  BY <1>2 DEF IsInjective
<1>4. ToSet(t) = ToSet(s) \ {e}
  <2>1. ToSet(t) \subseteq ToSet(s) \ {e}
    BY <1>0, <1>1, <1>2, <1>3 DEF ToSet
  <2>2. ASSUME NEW x \in ToSet(s) \ {e} PROVE x \in ToSet(t)
    <3>1. PICK j \in 1..Len(s) : s[j] = x
      BY <1>2 DEF ToSet
    <3>2. CASE j < i
      <4>1. j \in DOMAIN t /\ t[j] = x BY <3>1, <3>2, <1>0, <1>1, <1>2
      <4>2. QED BY <4>1 DEF ToSet
    <3>3. CASE j > i
      <4>1. j - 1 \in DOMAIN t /\ t[j - 1] = x BY <3>1, <3>3, <1>0, <1>1, <1>2
      <4>2. QED BY <4>1 DEF ToSet
    <3>4. QED BY <3>1, <3>2, <3>3, <1>0
  <2>3. QED BY <2>1, <2>2
<1>5. IsInjective(t)
  BY SMTT(30), <1>0, <1>1, <1>2, <1>3 DEF IsInjective
<1>6. QED BY <1>1, <1>4, <1>5

\* InsertAt as a function of the index.
LEMMA InsertAtPlaces ==
  ASSUME NEW S, NEW s \in Seq(S), NEW e \in S, NEW i \in 1..(Len(s) + 1)
  PROVE  /\ InsertAt(s, i, e) \in Seq(S)
         /\ Len(InsertAt(s, i, e)) = Len(s) + 1
         /\ \A j \in 1..(Len(s) + 1) :
              InsertAt(s, i, e)[j] = IF j < i THEN s[j] ELSE IF j = i THEN e ELSE s[j - 1]
<1> DEFINE a == SubSeq(s, 1, i - 1)
           b == SubSeq(s, i, Len(s))
           c == a \o <<e>>
           t == InsertAt(s, i, e)
<1>0. Len(s) \in Nat
  BY LenProperties
<1>3. t = c \o b
  BY DEF InsertAt
<1> HIDE DEF a, b, c, t
<1>1. a \in Seq(S) /\ Len(a) = i - 1 /\ \A j \in 1..(i - 1) : a[j] = s[j]
  BY <1>0, SliceAs DEF a
<1>2. b \in Seq(S) /\ Len(b) = Len(s) - i + 1
      /\ \A j \in 1..(Len(s) - i + 1) : b[j] = s[i + j - 1]
  BY <1>0, SliceAs DEF b
<1>4. <<e>> \in Seq(S) /\ Len(<<e>>) = 1 /\ <<e>>[1] = e
  OBVIOUS
<1>5. /\ c \in Seq(S)
      /\ Len(c) = i
      /\ \A j \in 1..i : c[j] = IF j < i THEN s[j] ELSE e
  <2>1. /\ c \in Seq(S)
        /\ Len(c) = Len(a) + Len(<<e>>)
        /\ \A j \in 1..(Len(a) + Len(<<e>>)) :
             c[j] = IF j <= Len(a) THEN a[j] ELSE <<e>>[j - Len(a)]
    BY <1>1, <1>4, ConcatAs DEF c
  <2>2. QED BY <1>0, <1>1, <1>4, <2>1
<1>6. /\ t \in Seq(S)
      /\ Len(t) = Len(s) + 1
      /\ \A j \in 1..(Len(s) + 1) :
           t[j] = IF j < i THEN s[j] ELSE IF j = i THEN e ELSE s[j - 1]
  <2>1. /\ t \in Seq(S)
        /\ Len(t) = Len(c) + Len(b)
        /\ \A j \in 1..(Len(c) + Len(b)) : t[j] = IF j <= Len(c) THEN c[j] ELSE b[j - Len(c)]
    BY <1>2, <1>3, <1>5, ConcatAs
  <2>2. Len(t) = Len(s) + 1
    BY <1>0, <1>2, <1>5, <2>1
  <2>3. \A j \in 1..(Len(s) + 1) : j <= i => t[j] = c[j]
    BY <1>0, <1>2, <1>5, <2>1
  <2>4. ASSUME NEW j \in 1..(Len(s) + 1), j > i PROVE t[j] = s[j - 1]
    <3>1. t[j] = b[j - i]
      BY <1>0, <1>2, <1>5, <2>1, <2>4
    <3>2. j - i \in 1..(Len(s) - i + 1) /\ i + (j - i) - 1 = j - 1
      BY <1>0, <2>4
    <3>3. QED BY <1>2, <3>1, <3>2
  <2>5. QED BY <1>0, <1>5, <2>1, <2>2, <2>3, <2>4
<1>7. QED BY <1>6 DEF t

\* Inserting a new element anywhere in a list without repetition adds it.
LEMMA InsertAtProperties ==
  ASSUME NEW S, NEW s \in Seq(S), IsInjective(s), NEW e \in S, e \notin ToSet(s),
         NEW i \in 1..(Len(s) + 1)
  PROVE  /\ InsertAt(s, i, e) \in Seq(S)
         /\ Len(InsertAt(s, i, e)) = Len(s) + 1
         /\ ToSet(InsertAt(s, i, e)) = ToSet(s) \cup {e}
         /\ IsInjective(InsertAt(s, i, e))
<1> DEFINE t == InsertAt(s, i, e)
<1>0. Len(s) \in Nat
  BY LenProperties
<1>6. /\ t \in Seq(S)
      /\ Len(t) = Len(s) + 1
      /\ \A j \in 1..(Len(s) + 1) :
           t[j] = IF j < i THEN s[j] ELSE IF j = i THEN e ELSE s[j - 1]
  BY InsertAtPlaces
<1> HIDE DEF t
<1>7. DOMAIN s = 1..Len(s) /\ DOMAIN t = 1..(Len(s) + 1)
  BY <1>6, LenProperties
<1>8. ToSet(t) = ToSet(s) \cup {e}
  <2>1. ASSUME NEW j \in 1..(Len(s) + 1) PROVE t[j] \in ToSet(s) \cup {e}
    <3>1. CASE j < i BY <3>1, <1>0, <1>6, <1>7 DEF ToSet
    <3>2. CASE j = i BY <3>2, <1>6
    <3>3. CASE j > i
      <4>1. t[j] = s[j - 1] /\ j - 1 \in 1..Len(s) BY <3>3, <1>0, <1>6
      <4>2. QED BY <4>1, <1>7 DEF ToSet
    <3>4. QED BY <3>1, <3>2, <3>3, <1>0
  <2>2. e \in ToSet(t)
    BY <1>0, <1>6, <1>7 DEF ToSet
  <2>3. ASSUME NEW x \in ToSet(s) PROVE x \in ToSet(t)
    <3>1. PICK j \in 1..Len(s) : s[j] = x
      BY <1>7 DEF ToSet
    <3>2. CASE j < i
      <4>1. j \in DOMAIN t /\ t[j] = x BY <3>1, <3>2, <1>0, <1>6, <1>7
      <4>2. QED BY <4>1 DEF ToSet
    <3>3. CASE j >= i
      <4>1. j + 1 \in 1..(Len(s) + 1) /\ j + 1 > i BY <3>3, <1>0
      <4>2. j + 1 \in DOMAIN t /\ t[j + 1] = x BY <4>1, <3>1, <3>3, <1>0, <1>6, <1>7
      <4>3. QED BY <4>2 DEF ToSet
    <3>4. QED BY <3>1, <3>2, <3>3, <1>0
  <2>4. QED BY <2>1, <2>2, <2>3, <1>7 DEF ToSet
<1>9. IsInjective(t)
  <2>1. \A j, k \in 1..Len(s) : s[j] = s[k] => j = k
    BY <1>7 DEF IsInjective
  <2>2. \A j \in 1..Len(s) : s[j] # e
    BY <1>7 DEF ToSet
  <2>3. QED BY <1>0, <1>6, <1>7, <2>1, <2>2 DEF IsInjective
<1>10. QED BY <1>6, <1>8, <1>9 DEF t

\* A set of numbers that is not empty has a least one.
LEMMA LeastNumber ==
  ASSUME NEW T \in SUBSET Nat, T # {}
  PROVE  \E m \in T : \A n \in T : m <= n
<1> DEFINE R == OpToRel(<, Nat)
<1>1. IsWellFoundedOn(R, Nat)
  BY NatLessThanWellFounded
<1>2. \A x, y \in Nat : y < x => <<y, x>> \in R
  BY DEF OpToRel
<1> HIDE DEF R
<1>3. PICK x \in T : \A y \in T : ~ (<<y, x>> \in R)
  BY <1>1, WFMin
<1>4. ASSUME NEW y \in T PROVE x <= y
  <2>1. x \in Nat /\ y \in Nat
    OBVIOUS
  <2>2. ~ (y < x)
    BY <1>2, <1>3, <2>1
  <2>3. QED BY <2>1, <2>2
<1>5. QED BY <1>4

\* What holds at first, and after each turn if before it, holds after n turns.
LEMMA AfterTurns ==
  ASSUME NEW n \in Nat, NEW T, 0 \in T, \A i \in 1..n : i - 1 \in T => i \in T
  PROVE  n \in T
<1> DEFINE Bad == {i \in 0..n : i \notin T}
<1>1. ASSUME Bad # {} PROVE FALSE
  <2>1. Bad \in SUBSET Nat
    OBVIOUS
  <2>2. PICK k \in Bad : \A i \in Bad : k <= i
    BY <1>1, <2>1, LeastNumber
  <2>3. k \in 1..n /\ k - 1 \in 0..n /\ k - 1 \notin Bad
    BY <2>2
  <2>4. QED BY <2>2, <2>3
<1>2. QED BY <1>1
=============================================================================
