---------------------------- MODULE SessionProofs ---------------------------
(***************************************************************************)
(* What module Session promises, proved for all clients, views, columns    *)
(* and spellings of names.                                                 *)
(*                                                                         *)
(* A handler is a sequence of operations on the tree, each told to the     *)
(* hooks.  A session is Sound when its tree is well formed (LayoutProofs), *)
(* the bar follows it (TrayProofs), and the view to go back to is another  *)
(* one than that on the screen.  Tell keeps it so if the operation makes   *)
(* or deletes one view at most (Follows), and each operation does.  The    *)
(* inductive invariant SessionInv adds which windows have frames, that a   *)
(* window manager that runs has nothing empty, and that what was saved is  *)
(* what some sound session would save, though perhaps not all of it the    *)
(* same one.                                                               *)
(*                                                                         *)
(* The loops of the code are recursive functions.  That there is such a    *)
(* function is shown for each, and what it has made after each turn by the *)
(* least turn after which it had not.                                      *)
(***************************************************************************)
EXTENDS Session, LayoutProofs, TrayProofs, FiniteSetTheorems

-----------------------------------------------------------------------------
(* Lists of the elements of a set.                                         *)

\* A list of numbers that grow: the keys of a std::map.
Grows(s) == s \in Seq(Nat) /\ \A i, j \in 1..Len(s) : i < j => s[i] < s[j]

\* Two such lists of the same numbers agree at every place they both have.
LEMMA GrowingAgree ==
  ASSUME NEW s, NEW t, Grows(s), Grows(t), ToSet(s) \subseteq ToSet(t), ToSet(t) \subseteq ToSet(s),
         NEW i \in 1..Len(s), i <= Len(t)
  PROVE  s[i] = t[i]
<1> DEFINE Bad == {k \in Nat : k \in 1..Len(s) /\ k \in 1..Len(t) /\ s[k] # t[k]}
<1>0. /\ Len(s) \in Nat /\ Len(t) \in Nat /\ DOMAIN s = 1..Len(s) /\ DOMAIN t = 1..Len(t)
      /\ \A k \in 1..Len(s) : s[k] \in Nat
      /\ \A k \in 1..Len(t) : t[k] \in Nat
  BY LenProperties, ElementOfSeq DEF Grows
<1>1. ASSUME Bad # {} PROVE FALSE
  <2>1. PICK k \in Bad : \A j \in Bad : k <= j
    BY <1>1, LeastNumber
  <2>2. k \in 1..Len(s) /\ k \in 1..Len(t) /\ s[k] # t[k]
    BY <2>1
  <2>3. \A j \in 1..(k - 1) : s[j] = t[j]
    BY <1>0, <2>1, <2>2
  <2>4. PICK j \in 1..Len(t) : t[j] = s[k]
    BY <1>0, <2>2 DEF ToSet
  <2>5. PICK l \in 1..Len(s) : s[l] = t[k]
    BY <1>0, <2>2 DEF ToSet
  <2>6. j > k
    <3>1. j # k
      BY <2>2, <2>4
    <3>2. ~ j < k
      <4>1. ASSUME j < k PROVE FALSE
        <5>1. j \in 1..(k - 1)
          BY <4>1, <1>0, <2>2
        <5>2. s[j] = s[k] /\ j \in 1..Len(s)
          BY <5>1, <2>2, <2>3, <2>4, <1>0
        <5>3. QED BY <5>2, <4>1, <2>2, <1>0 DEF Grows
      <4>2. QED BY <4>1
    <3>3. QED BY <3>1, <3>2, <1>0, <2>2
  <2>7. l > k
    <3>1. l # k
      BY <2>2, <2>5
    <3>2. ~ l < k
      <4>1. ASSUME l < k PROVE FALSE
        <5>1. l \in 1..(k - 1)
          BY <4>1, <1>0, <2>2
        <5>2. t[l] = t[k] /\ l \in 1..Len(t)
          BY <5>1, <2>2, <2>3, <2>5, <1>0
        <5>3. QED BY <5>2, <4>1, <2>2, <1>0 DEF Grows
      <4>2. QED BY <4>1
    <3>3. QED BY <3>1, <3>2, <1>0, <2>2
  <2>8. t[k] < s[k]
    BY <2>2, <2>4, <2>6 DEF Grows
  <2>9. s[k] < t[k]
    BY <2>2, <2>5, <2>7 DEF Grows
  <2>10. QED BY <2>2, <2>8, <2>9, <1>0
<1>2. QED BY <1>0, <1>1

\* A list that grows has no element twice, so it counts the set of its elements.
LEMMA GrowingCounts ==
  ASSUME NEW s, Grows(s)
  PROVE  /\ IsInjective(s)
         /\ IsFiniteSet(ToSet(s)) /\ Cardinality(ToSet(s)) = Len(s)
         /\ s \in [1..Len(s) -> ToSet(s)]
<1>0. Len(s) \in Nat /\ DOMAIN s = 1..Len(s) /\ \A k \in 1..Len(s) : s[k] \in Nat
  BY LenProperties, ElementOfSeq DEF Grows
<1>1. \A i, j \in 1..Len(s) : i # j => s[i] # s[j]
  BY <1>0 DEF Grows
<1>2. IsInjective(s)
  BY <1>0, <1>1 DEF IsInjective
<1>3. s \in [1..Len(s) -> ToSet(s)]
  BY <1>0 DEF ToSet, Grows
<1>4. s \in Bijection(1..Len(s), ToSet(s))
  BY <1>0, <1>1, <1>3 DEF Bijection, Injection, Surjection, ToSet, IsInjective
<1>5. ExistsBijection(1..Len(s), ToSet(s))
  BY <1>4 DEF ExistsBijection
<1>6. QED BY <1>0, <1>2, <1>3, <1>5, FS_NatBijection, FS_CountingElements

\* What a list without repetition lists is a finite set.
LEMMA EnumeratedIsFinite ==
  ASSUME NEW T, NEW s \in Seq(T), NEW S, Enumerates(s, S)
  PROVE  IsFiniteSet(S)
<1>1. Len(s) \in Nat /\ DOMAIN s = 1..Len(s) /\ IsInjective(s) /\ ToSet(s) = S
  BY LenProperties DEF Enumerates
<1>2. s \in [1..Len(s) -> S]
  BY <1>1 DEF ToSet
<1>3. s \in Bijection(1..Len(s), S)
  BY <1>1, <1>2 DEF Bijection, Injection, Surjection, ToSet, IsInjective
<1>4. ExistsBijection(1..Len(s), S)
  BY <1>3 DEF ExistsBijection
<1>5. QED BY <1>1, <1>4, FS_NatBijection

\* Every finite set of numbers can be listed so that they grow.
LEMMA GrowingExists ==
  ASSUME NEW S \in SUBSET Nat, IsFiniteSet(S)
  PROVE  \E s : Grows(s) /\ ToSet(s) = S
<1> DEFINE Bad == {n \in Nat : \E R \in SUBSET Nat : /\ IsFiniteSet(R) /\ Cardinality(R) = n
                                                   /\ ~ \E s : Grows(s) /\ ToSet(s) = R}
<1>1. ASSUME Bad # {} PROVE FALSE
  <2>1. PICK n \in Bad : \A k \in Bad : n <= k
    BY <1>1, LeastNumber
  <2>2. PICK R \in SUBSET Nat : /\ IsFiniteSet(R) /\ Cardinality(R) = n
                                /\ ~ \E s : Grows(s) /\ ToSet(s) = R
    BY <2>1
  <2>3. R # {}
    <3>1. Grows(<<>>) /\ ToSet(<<>>) = {}
      BY DEF Grows, ToSet
    <3>2. QED BY <2>2, <3>1
  <2>4. PICK m \in R : \A k \in R : m <= k
    BY <2>3, LeastNumber
  <2>5. IsFiniteSet(R \ {m}) /\ Cardinality(R \ {m}) = n - 1
    BY <2>2, FS_RemoveElement
  <2>6. n # 0
    BY <2>2, <2>3, FS_EmptySet
  <2>7. n - 1 \in Nat /\ n - 1 \notin Bad
    BY <2>1, <2>6
  <2>8. PICK r : Grows(r) /\ ToSet(r) = R \ {m}
    BY <2>5, <2>7
  <2>9. PICK t : t = <<m>> \o r
    OBVIOUS
  <2>10. m \in Nat /\ <<m>> \in Seq(Nat) /\ Len(<<m>>) = 1 /\ <<m>>[1] = m
         /\ r \in Seq(Nat) /\ Len(r) \in Nat /\ DOMAIN r = 1..Len(r)
    BY <2>8, LenProperties DEF Grows
  <2>11. /\ t \in Seq(Nat)
         /\ Len(t) = Len(<<m>>) + Len(r)
         /\ \A j \in 1..(Len(<<m>>) + Len(r)) : t[j] = IF j <= Len(<<m>>) THEN <<m>>[j] ELSE r[j - Len(<<m>>)]
    BY <2>9, <2>10, ConcatAs
  <2>12. /\ Len(t) = Len(r) + 1 /\ t[1] = m /\ DOMAIN t = 1..(Len(r) + 1)
         /\ \A j \in 1..Len(r) : t[j + 1] = r[j]
    <3>1. Len(t) = Len(r) + 1 /\ DOMAIN t = 1..(Len(r) + 1)
      BY <2>10, <2>11, LenProperties
    <3>2. ASSUME NEW j \in 1..(Len(r) + 1) PROVE t[j] = IF j = 1 THEN m ELSE r[j - 1]
      BY <2>10, <2>11
    <3>3. \A j \in 1..Len(r) : j + 1 \in 1..(Len(r) + 1) /\ j + 1 # 1 /\ (j + 1) - 1 = j
      BY <2>10
    <3>4. 1 \in 1..(Len(r) + 1)
      BY <2>10
    <3>5. QED BY <3>1, <3>2, <3>3, <3>4
  <2>13. \A j \in 1..Len(r) : r[j] \in R /\ r[j] # m /\ r[j] \in Nat
    BY <2>8, <2>10 DEF ToSet
  <2>14. \A j \in 1..Len(r) : m < r[j]
    BY <2>4, <2>10, <2>13
  <2>15. \A j \in 2..(Len(r) + 1) : j - 1 \in 1..Len(r) /\ t[j] = r[j - 1]
    BY <2>10, <2>12
  <2>16. \A i, j \in 1..Len(t) : i < j => t[i] < t[j]
    <3>1. ASSUME NEW i \in 1..Len(t), NEW j \in 1..Len(t), i < j PROVE t[i] < t[j]
      <4>1. j \in 2..(Len(r) + 1)
        BY <3>1, <2>10, <2>12
      <4>2. CASE i = 1
        BY <4>1, <4>2, <2>12, <2>14, <2>15
      <4>3. CASE i # 1
        <5>1. i \in 2..(Len(r) + 1) /\ i - 1 < j - 1
          BY <3>1, <4>3, <2>10, <2>12
        <5>2. QED BY <4>1, <5>1, <2>8, <2>15 DEF Grows
      <4>4. QED BY <4>2, <4>3
    <3>2. QED BY <3>1
  <2>17. ToSet(t) = R
    <3>1. ASSUME NEW j \in 1..(Len(r) + 1) PROVE t[j] \in R
      <4>1. CASE j = 1
        BY <4>1, <2>12
      <4>2. CASE j # 1
        <5>1. j \in 2..(Len(r) + 1)
          BY <4>2, <2>10
        <5>2. QED BY <5>1, <2>13, <2>15
      <4>3. QED BY <4>1, <4>2
    <3>2. ASSUME NEW x \in R PROVE \E j \in 1..(Len(r) + 1) : t[j] = x
      <4>1. CASE x = m
        <5>1. 1 \in 1..(Len(r) + 1)
          BY <2>10
        <5>2. QED BY <4>1, <5>1, <2>12
      <4>2. CASE x # m
        <5>1. PICK j \in 1..Len(r) : r[j] = x
          BY <4>2, <2>8, <2>10 DEF ToSet
        <5>2. j + 1 \in 1..(Len(r) + 1)
          BY <2>10
        <5>3. QED BY <5>1, <5>2, <2>12
      <4>3. QED BY <4>1, <4>2
    <3>3. QED BY ZenonT(60), <2>12, <3>1, <3>2 DEF ToSet
  <2>18. QED BY <2>2, <2>11, <2>16, <2>17 DEF Grows
<1>2. Cardinality(S) \in Nat /\ Cardinality(S) \notin Bad
  BY <1>1, FS_CardinalityType
<1>3. QED BY <1>2

\* The order of a std::map is the only one in which its keys grow.
LEMMA InOrderIs ==
  ASSUME NEW s, Grows(s)
  PROVE  InOrder(ToSet(s)) = s
<1> DEFINE S == ToSet(s)
           n == Cardinality(S)
           t == InOrder(S)
<1>0. Len(s) \in Nat /\ DOMAIN s = 1..Len(s) /\ \A k \in 1..Len(s) : s[k] \in Nat
  BY LenProperties, ElementOfSeq DEF Grows
<1>1. n = Len(s) /\ IsFiniteSet(S) /\ s \in [1..n -> S]
  BY GrowingCounts
<1>2. S \subseteq Nat
  BY <1>0 DEF ToSet
<1>3. /\ t \in [1..n -> S]
      /\ \A i, j \in 1..n : i < j => t[i] < t[j]
  <2>1. \E x \in [1..n -> S] : \A i, j \in 1..n : i < j => x[i] < x[j]
    BY <1>1 DEF Grows
  <2>2. t = CHOOSE x \in [1..n -> S] : \A i, j \in 1..n : i < j => x[i] < x[j]
    BY DEF InOrder
  <2> HIDE DEF t, n, S
  <2>3. QED BY <2>1, <2>2
<1> HIDE DEF t
<1>4. Grows(t) /\ Len(t) = Len(s) /\ DOMAIN t = 1..Len(s)
  <2>1. t \in [1..Len(s) -> Nat]
    BY <1>1, <1>2, <1>3
  <2>2. t \in Seq(Nat) /\ Len(t) = Len(s)
    BY <1>0, <2>1, IsASeq, LenProperties
  <2>3. QED BY <1>1, <1>3, <2>1, <2>2 DEF Grows
<1>5. ToSet(t) \subseteq S
  BY <1>1, <1>3, <1>4 DEF ToSet
<1>6. S \subseteq ToSet(t)
  <2>1. IsFiniteSet(ToSet(t)) /\ Cardinality(ToSet(t)) = n
    BY <1>1, <1>4, GrowingCounts
  <2>2. ToSet(t) = S
    BY <1>1, <1>5, <2>1, FS_Subset
  <2>3. QED BY <2>2
<1>7. \A i \in 1..Len(s) : s[i] = t[i]
  BY <1>0, <1>4, <1>5, <1>6, GrowingAgree
<1>8. t = s
  BY <1>0, <1>1, <1>3, <1>4, <1>7
<1>9. QED BY <1>8 DEF t

\* The list that SetToSeq chooses for a finite set.
LEMMA SetToSeqEnumerates ==
  ASSUME NEW T, NEW S \in SUBSET T, IsFiniteSet(S)
  PROVE  SetToSeq(S) \in Seq(T) /\ Enumerates(SetToSeq(S), S)
<1> DEFINE n == Cardinality(S)
           s == SetToSeq(S)
<1>1. n \in Nat /\ Bijection(1..n, S) # {}
  BY FS_CardinalityType DEF ExistsBijection
<1>2. s \in [1..n -> S] /\ IsInjective(s)
  <2>1. \E f \in [1..n -> S] : IsInjective(f)
    BY <1>1 DEF Bijection, Injection
  <2>2. s = CHOOSE f \in [1..n -> S] : IsInjective(f)
    BY DEF SetToSeq
  <2> HIDE DEF s, n
  <2>3. QED BY <2>1, <2>2
<1> HIDE DEF s
<1>3. s \in Injection(1..n, S)
  BY <1>2 DEF Injection
<1>4. IsFiniteSet(1..n) /\ Cardinality(1..n) = n
  <2>1. IsFiniteSet(1..n) /\ Cardinality(1..n) = IF 1 <= n THEN n - 1 + 1 ELSE 0
    BY <1>1, FS_Interval
  <2>2. QED BY <1>1, <2>1
<1>5. s \in Surjection(1..n, S)
  <2>1. Cardinality(1..n) = Cardinality(S)
    BY <1>4
  <2> HIDE DEF n
  <2>2. Cardinality(1..n) = Cardinality(S) <=> s \in Surjection(1..n, S)
    BY <1>3, FS_Injection
  <2>3. QED BY <2>1, <2>2
<1>6. s \in Seq(S) /\ DOMAIN s = 1..n
  BY <1>1, <1>2, IsASeq
<1>7. ToSet(s) = S
  BY <1>2, <1>5, <1>6 DEF ToSet, Surjection
<1>8. s \in Seq(T)
  BY <1>1, <1>2, IsASeq
<1>9. QED BY <1>2, <1>7, <1>8 DEF Enumerates, s

-----------------------------------------------------------------------------
(* The cells of the views.                                                 *)

ViewCell(v, chosen) == TextCell(v, v, IF v \in chosen THEN "selected" ELSE "normal")

ViewCells(names, chosen) == [i \in DOMAIN names |-> ViewCell(names[i], chosen)]

\* The bar has a cell for each view of V, in order, and those of `chosen' are set apart.
HoldsViews(b, V, chosen) ==
  /\ DOMAIN b.cells = Sides
  /\ \E names : Grows(names) /\ ToSet(names) = V /\ b.cells["left"] = ViewCells(names, chosen)

\* The list of the cells is as long as that of the names, and they are found by name.
LEMMA CellsByName ==
  ASSUME NEW b, NEW names, NEW chosen, Grows(names), b.cells["left"] = ViewCells(names, chosen)
  PROVE  /\ Len(names) \in Nat /\ DOMAIN names = 1..Len(names)
         /\ \A i \in 1..Len(names) : names[i] \in Nat /\ names[i] \in ToSet(names)
         /\ b.cells["left"] \in Seq({ViewCell(v, chosen) : v \in Nat})
         /\ Len(b.cells["left"]) = Len(names) /\ DOMAIN b.cells["left"] = 1..Len(names)
         /\ \A i \in 1..Len(names) : b.cells["left"][i] = ViewCell(names[i], chosen)
         /\ Ids(b, "left") = names
         /\ \A v \in ToSet(names) : /\ Place(b, "left", v) \in 1..Len(names)
                                    /\ names[Place(b, "left", v)] = v
<1>1. /\ Len(names) \in Nat /\ DOMAIN names = 1..Len(names)
      /\ \A i \in 1..Len(names) : names[i] \in Nat /\ names[i] \in ToSet(names)
  BY LenProperties, ElementOfSeq DEF Grows, ToSet
<1>2. b.cells["left"] = [i \in 1..Len(names) |-> ViewCell(names[i], chosen)]
  BY <1>1 DEF ViewCells
<1>3. b.cells["left"] \in Seq({ViewCell(v, chosen) : v \in Nat})
  BY <1>1, <1>2, IsASeq
<1>4. Len(b.cells["left"]) = Len(names) /\ DOMAIN b.cells["left"] = 1..Len(names)
  BY <1>1, <1>2, <1>3, LenProperties
<1>5. \A i \in 1..Len(names) : b.cells["left"][i] = ViewCell(names[i], chosen)
  BY <1>2
<1>6. \A i \in 1..Len(names) : b.cells["left"][i].id = names[i]
  <2>1. \A v : ViewCell(v, chosen).id = v
    BY DEF ViewCell, TextCell
  <2>2. QED BY <1>5, <2>1
<1>7. Ids(b, "left") = names
  <2>1. Ids(b, "left") = [i \in 1..Len(names) |-> names[i]]
    BY <1>4, <1>6 DEF Ids
  <2>2. names = [i \in 1..Len(names) |-> names[i]]
    BY <1>1, LenProperties DEF Grows
  <2>3. QED BY <2>1, <2>2
<1>8. ASSUME NEW v \in ToSet(names)
      PROVE  Place(b, "left", v) \in 1..Len(names) /\ names[Place(b, "left", v)] = v
  <2>1. \E i \in DOMAIN b.cells["left"] : b.cells["left"][i].id = v
    BY <1>1, <1>4, <1>6 DEF ToSet
  <2>2. Place(b, "left", v) \in DOMAIN b.cells["left"]
        /\ b.cells["left"][Place(b, "left", v)].id = v
    BY <2>1 DEF Place
  <2>3. QED BY <1>4, <1>6, <2>2
<1>9. QED BY <1>1, <1>3, <1>4, <1>5, <1>7, <1>8

\* A list of cells that is one cell for each name.
LEMMA CellsAre ==
  ASSUME NEW names, Grows(names), NEW chosen, NEW S, NEW cells \in Seq(S),
         Len(cells) = Len(names),
         \A i \in 1..Len(names) : cells[i] = ViewCell(names[i], chosen)
  PROVE  cells = ViewCells(names, chosen)
<1>1. DOMAIN names = 1..Len(names) /\ DOMAIN cells = 1..Len(names)
  BY LenProperties DEF Grows
<1>2. cells = [i \in 1..Len(names) |-> cells[i]]
  BY <1>1, LenProperties
<1>3. cells = [i \in 1..Len(names) |-> ViewCell(names[i], chosen)]
  BY <1>2
<1>4. QED BY <1>1, <1>3 DEF ViewCells

\* A new number where it belongs in a list that grows.
LEMMA GrowsByOne ==
  ASSUME NEW names, Grows(names), NEW v \in Nat, NEW i \in 1..(Len(names) + 1),
         \A j \in 1..Len(names) : IF j < i THEN names[j] < v ELSE v < names[j],
         NEW t, t = InsertAt(names, i, v)
  PROVE  Grows(t) /\ ToSet(t) = ToSet(names) \cup {v}
<1>0. Len(names) \in Nat /\ names \in Seq(Nat) /\ \A j \in 1..Len(names) : names[j] \in Nat
      /\ DOMAIN names = 1..Len(names)
  BY LenProperties, ElementOfSeq DEF Grows
<1>1. /\ t \in Seq(Nat)
      /\ Len(t) = Len(names) + 1
      /\ \A j \in 1..(Len(names) + 1) :
           t[j] = IF j < i THEN names[j] ELSE IF j = i THEN v ELSE names[j - 1]
  <2>1. /\ InsertAt(names, i, v) \in Seq(Nat)
        /\ Len(InsertAt(names, i, v)) = Len(names) + 1
        /\ \A j \in 1..(Len(names) + 1) :
             InsertAt(names, i, v)[j] =
               IF j < i THEN names[j] ELSE IF j = i THEN v ELSE names[j - 1]
    <3>1. PICK N : N = Nat
      OBVIOUS
    <3>2. names \in Seq(N) /\ v \in N
      BY <1>0, <3>1
    <3>3. /\ InsertAt(names, i, v) \in Seq(N)
          /\ Len(InsertAt(names, i, v)) = Len(names) + 1
          /\ \A j \in 1..(Len(names) + 1) :
               InsertAt(names, i, v)[j] =
                 IF j < i THEN names[j] ELSE IF j = i THEN v ELSE names[j - 1]
      BY SMTT(30), <3>2, InsertAtPlaces
    <3>4. QED BY <3>1, <3>3
  <2>2. QED BY <2>1
<1>2. ASSUME NEW j \in 1..Len(t), NEW k \in 1..Len(t), j < k PROVE t[j] < t[k]
  <2>1. j \in 1..(Len(names) + 1) /\ k \in 1..(Len(names) + 1)
    BY <1>1
  <2>2. CASE k < i
    <3>1. t[j] = names[j] /\ t[k] = names[k] /\ j \in 1..Len(names) /\ k \in 1..Len(names)
      BY SMTT(60), <1>0, <1>1, <1>2, <2>1, <2>2
    <3>2. QED BY <3>1, <1>2 DEF Grows
  <2>3. CASE k = i
    <3>1. t[j] = names[j] /\ t[k] = v /\ j \in 1..Len(names)
      BY <1>0, <1>1, <1>2, <2>1, <2>3
    <3>2. QED BY <3>1, <2>3, <1>2
  <2>4. CASE k > i
    <3>1. t[k] = names[k - 1] /\ k - 1 \in 1..Len(names)
      BY <1>0, <1>1, <2>1, <2>4
    <3>2. CASE j < i
      <4>1. t[j] = names[j] /\ j \in 1..Len(names) /\ j < k - 1
        BY <1>0, <1>1, <2>1, <2>4, <3>2
      <4>2. QED BY <3>1, <4>1 DEF Grows
    <3>3. CASE j = i
      <4>1. t[j] = v /\ ~ (k - 1 < i)
        BY <1>0, <1>1, <2>1, <2>4, <3>3
      <4>2. QED BY <3>1, <4>1
    <3>4. CASE j > i
      <4>1. t[j] = names[j - 1] /\ j - 1 \in 1..Len(names) /\ j - 1 < k - 1
        BY <1>0, <1>1, <1>2, <2>1, <3>4
      <4>2. QED BY <3>1, <4>1 DEF Grows
    <3>5. QED BY <3>2, <3>3, <3>4, <2>1
  <2>5. QED BY <2>2, <2>3, <2>4, <2>1
<1>3. v \notin ToSet(names)
  BY <1>0 DEF ToSet
<1>4. IsInjective(names)
  BY GrowingCounts
<1>5. /\ InsertAt(names, i, v) \in Seq(Nat)
      /\ Len(InsertAt(names, i, v)) = Len(names) + 1
      /\ ToSet(InsertAt(names, i, v)) = ToSet(names) \cup {v}
      /\ IsInjective(InsertAt(names, i, v))
  BY <1>0, <1>3, <1>4, InsertAtProperties
<1>6. QED BY <1>1, <1>2, <1>5 DEF Grows

\* A list that grows without one of its numbers.
LEMMA GrowsWithoutOne ==
  ASSUME NEW names, Grows(names), NEW i \in 1..Len(names), NEW t, t = RemoveAt(names, i)
  PROVE  Grows(t) /\ ToSet(t) = ToSet(names) \ {names[i]}
<1>0. Len(names) \in Nat /\ names \in Seq(Nat) /\ \A j \in 1..Len(names) : names[j] \in Nat
  BY LenProperties, ElementOfSeq DEF Grows
<1>1. /\ t \in Seq(Nat)
      /\ Len(t) = Len(names) - 1
      /\ \A j \in 1..(Len(names) - 1) : t[j] = IF j < i THEN names[j] ELSE names[j + 1]
  <2>1. PICK N : N = Nat
    OBVIOUS
  <2>2. names \in Seq(N)
    BY <1>0, <2>1
  <2>3. /\ t \in Seq(N)
        /\ Len(t) = Len(names) - 1
        /\ \A j \in 1..(Len(names) - 1) : t[j] = IF j < i THEN names[j] ELSE names[j + 1]
    BY ZenonT(60), <2>2, RemoveAtProperties
  <2>4. QED BY <2>1, <2>3
<1>2. IsInjective(names)
  BY GrowingCounts
<1>3. PICK e : e = names[i]
  OBVIOUS
<1>4. /\ t \in Seq(Nat)
      /\ Len(t) = Len(names) - 1
      /\ ToSet(t) = ToSet(names) \ {e}
      /\ IsInjective(t)
  <2>1. PICK N : N = Nat
    OBVIOUS
  <2>2. names \in Seq(N)
    BY <1>0, <2>1
  <2>3. /\ t \in Seq(N)
        /\ Len(t) = Len(names) - 1
        /\ ToSet(t) = ToSet(names) \ {e}
        /\ IsInjective(t)
    BY <2>2, <1>2, <1>3, RemoveAtLeavesOthers
  <2>4. QED BY <2>1, <2>3
<1>5. ASSUME NEW j \in 1..Len(t), NEW k \in 1..Len(t), j < k PROVE t[j] < t[k]
  <2>1. j \in 1..Len(names) /\ k \in 1..Len(names) /\ j + 1 \in 1..Len(names) /\ k + 1 \in 1..Len(names)
    BY SMTT(60), <1>0, <1>1
  <2>2. j \in 1..(Len(names) - 1) /\ k \in 1..(Len(names) - 1)
    BY <1>1
  <2>3. CASE k < i
    BY <2>1, <2>2, <2>3, <1>1, <1>5 DEF Grows
  <2>4. CASE ~ k < i /\ j < i
    <3>1. t[j] = names[j] /\ t[k] = names[k + 1] /\ j < k + 1
      BY <2>1, <2>2, <2>4, <1>1, <1>5
    <3>2. QED BY <2>1, <3>1 DEF Grows
  <2>5. CASE ~ j < i
    <3>1. t[j] = names[j + 1] /\ t[k] = names[k + 1] /\ j + 1 < k + 1
      BY <2>1, <2>2, <2>5, <1>1, <1>5
    <3>2. QED BY <2>1, <3>1 DEF Grows
  <2>6. QED BY <2>3, <2>4, <2>5, <1>5, <2>1
<1>6. QED BY <1>1, <1>3, <1>4, <1>5 DEF Grows

\* One list of cells replaced by another.
LEMMA LeftCells ==
  ASSUME NEW b, IsBar(b), DOMAIN b.cells = Sides, NEW x, NEW c, NEW v, NEW left,
         \/ c = ScheduleBarDraw(WithSide(b, "left", x), v)
         \/ c = ScheduleBarDraw(WithSideAndIcons(b, "left", x, left), v)
  PROVE  /\ IsBar(c) /\ SameWindow(b, c)
         /\ DOMAIN c.cells = Sides /\ c.cells["left"] = x
<1>1. ASSUME NEW a, IsBar(a), SameWindow(b, a), a.cells = CellsWith(b.cells, "left", x),
             c = ScheduleBarDraw(a, v)
      PROVE  /\ IsBar(c) /\ SameWindow(b, c)
             /\ DOMAIN c.cells = Sides /\ c.cells["left"] = x
  <2>1. IsBar(c) /\ SameWindow(a, c) /\ SameCells(a, c)
    BY <1>1, ScheduledDraw
  <2>2. c.cells = CellsWith(b.cells, "left", x)
    BY <1>1, <2>1 DEF SameCells
  <2>3. DOMAIN c.cells = Sides /\ c.cells["left"] = x
    BY <2>2 DEF CellsWith, Sides
  <2>4. QED BY <1>1, <2>1, <2>3 DEF SameWindow
<1>2. CASE c = ScheduleBarDraw(WithSide(b, "left", x), v)
  <2>1. /\ IsBar(WithSide(b, "left", x)) /\ SameWindow(b, WithSide(b, "left", x))
        /\ WithSide(b, "left", x).cells = CellsWith(b.cells, "left", x)
    BY AssignCells
  <2>2. QED BY <1>1, <1>2, <2>1
<1>3. CASE c = ScheduleBarDraw(WithSideAndIcons(b, "left", x, left), v)
  <2>1. LET a == WithSideAndIcons(b, "left", x, left)
        IN /\ IsBar(a) /\ SameWindow(b, a)
           /\ a.cells = CellsWith(b.cells, "left", x) /\ a.icons = left
    BY AssignCellsAndIcons
  <2>2. QED BY <1>1, <1>3, <2>1
<1>4. QED BY <1>2, <1>3

\* BarViewApplet::create_view puts the cell of a new view in its place.
LEMMA CreateViewCellEffect ==
  ASSUME NEW b, IsBar(b), NEW V, NEW chosen, HoldsViews(b, V, chosen),
         NEW v \in Nat, v \notin V, v \notin chosen, NEW visible_now,
         NEW c, c = CreateViewCell(b, v, visible_now)
  PROVE  /\ HoldsViews(c, V \cup {v}, chosen)
         /\ IsBar(c) /\ SameWindow(b, c)
         /\ Faithful(b, visible_now) => Faithful(c, visible_now)
<1>1. PICK names : Grows(names) /\ ToSet(names) = V /\ b.cells["left"] = ViewCells(names, chosen)
  BY DEF HoldsViews
<1>2. /\ Len(names) \in Nat /\ DOMAIN names = 1..Len(names)
      /\ \A i \in 1..Len(names) : names[i] \in Nat /\ names[i] \in ToSet(names)
      /\ b.cells["left"] \in Seq({ViewCell(u, chosen) : u \in Nat})
      /\ Len(b.cells["left"]) = Len(names) /\ DOMAIN b.cells["left"] = 1..Len(names)
      /\ \A i \in 1..Len(names) : b.cells["left"][i] = ViewCell(names[i], chosen)
      /\ Ids(b, "left") = names
      /\ \A u \in ToSet(names) : /\ Place(b, "left", u) \in 1..Len(names)
                                 /\ names[Place(b, "left", u)] = u
  BY <1>1, CellsByName
<1> DEFINE cell == TextCell(v, v, "normal")
           above == {u \in V : u > v}
<1>3. cell = ViewCell(v, chosen)
  BY DEF ViewCell
<1>4. \A j \in 1..Len(names) : names[j] # v
  BY <1>1, <1>2
<1>5. \E i \in 1..(Len(names) + 1) :
        /\ c = ScheduleBarDraw(WithSide(b, "left", InsertAt(b.cells["left"], i, cell)), visible_now)
        /\ \A j \in 1..Len(names) : IF j < i THEN names[j] < v ELSE v < names[j]
  <2>1. CASE above = {}
    <3>1. c = InsertEnd(b, "left", cell, visible_now)
      BY <1>1, <1>2, <2>1 DEF CreateViewCell
    <3>2. c = ScheduleBarDraw(WithSide(b, "left", InsertAt(b.cells["left"], Len(names) + 1, cell)),
                              visible_now)
      BY <3>1, <1>2 DEF InsertEnd, InsertCellAt, WithSide
    <3>3. \A j \in 1..Len(names) : names[j] < v
      <4>1. ASSUME NEW j \in 1..Len(names) PROVE names[j] < v
        <5>1. names[j] \notin above /\ names[j] \in V /\ names[j] \in Nat
          BY <2>1, <1>1, <1>2
        <5>2. ~ names[j] > v
          BY <5>1
        <5>3. QED BY <5>1, <5>2, <1>4
      <4>2. QED BY <4>1
    <3>4. Len(names) + 1 \in 1..(Len(names) + 1) /\ \A j \in 1..Len(names) : j < Len(names) + 1
      BY <1>2
    <3>5. QED BY <3>2, <3>3, <3>4
  <2>2. CASE above # {}
    <3>1. above \in SUBSET Nat
      BY <1>1, <1>2 DEF ToSet
    <3>2. \E m \in above : \A n \in above : m <= n
      BY <2>2, <3>1, LeastNumber
    <3>3. PICK m : m = Min(above)
      OBVIOUS
    <3>4. m \in above /\ \A n \in above : m <= n
      <4> HIDE DEF above
      <4> QED BY <3>2, <3>3 DEF Min
    <3>5. PICK i : i = Place(b, "left", m)
      OBVIOUS
    <3>6. i \in 1..Len(names) /\ names[i] = m /\ m \in Nat /\ m > v
      BY <1>1, <1>2, <3>1, <3>4, <3>5
    <3>7. c = InsertBefore(b, "left", m, cell, visible_now)
      BY <1>1, <1>2, <2>2, <3>3 DEF CreateViewCell
    <3>8. c = ScheduleBarDraw(WithSide(b, "left", InsertAt(b.cells["left"], i, cell)), visible_now)
      BY <3>5, <3>7 DEF InsertBefore, InsertCellAt, WithSide
    <3>9. ASSUME NEW j \in 1..Len(names) PROVE IF j < i THEN names[j] < v ELSE v < names[j]
      <4>1. names[j] \in Nat /\ names[j] \in V /\ names[j] # v
        BY <1>1, <1>2, <1>4
      <4>2. CASE j < i
        <5>1. names[j] < m
          BY <1>1, <3>6, <4>2 DEF Grows
        <5>2. names[j] \notin above
          BY <3>4, <3>6, <4>1, <5>1
        <5>3. QED BY <4>1, <4>2, <5>2
      <4>3. CASE j = i
        BY <3>6, <4>3
      <4>4. CASE j > i
        <5>1. m < names[j]
          BY <1>1, <3>6, <4>4 DEF Grows
        <5>2. QED BY <4>1, <4>4, <5>1, <3>6
      <4>5. QED BY <4>2, <4>3, <4>4, <3>6
    <3>10. i \in 1..(Len(names) + 1)
      BY <1>2, <3>6
    <3>11. QED BY <3>8, <3>9, <3>10
  <2>3. QED BY <2>1, <2>2
<1>6. PICK i \in 1..(Len(names) + 1) :
        /\ c = ScheduleBarDraw(WithSide(b, "left", InsertAt(b.cells["left"], i, cell)), visible_now)
        /\ \A j \in 1..Len(names) : IF j < i THEN names[j] < v ELSE v < names[j]
  BY <1>5
<1> HIDE DEF above, cell
<1>7. PICK t : t = InsertAt(names, i, v)
  OBVIOUS
<1>8. Grows(t) /\ ToSet(t) = V \cup {v}
  BY <1>1, <1>6, <1>7, GrowsByOne
<1>9. PICK x : x = InsertAt(b.cells["left"], i, cell)
  OBVIOUS
<1>10. x = ViewCells(t, chosen)
  <2>1. PICK C, cells : C = {ViewCell(u, chosen) : u \in Nat} /\ cells = b.cells["left"]
    OBVIOUS
  <2>2. cells \in Seq(C) /\ cell \in C /\ Len(cells) = Len(names)
    BY <1>2, <1>3, <2>1
  <2>3. /\ InsertAt(cells, i, cell) \in Seq(C)
        /\ Len(InsertAt(cells, i, cell)) = Len(cells) + 1
        /\ \A j \in 1..(Len(cells) + 1) :
             InsertAt(cells, i, cell)[j] =
               IF j < i THEN cells[j] ELSE IF j = i THEN cell ELSE cells[j - 1]
    <3>1. i \in 1..(Len(cells) + 1)
      BY <2>2
    <3>2. QED BY SMTT(30), <2>2, <3>1, InsertAtPlaces
  <2>4. PICK N : N = Nat
    OBVIOUS
  <2>5. /\ InsertAt(names, i, v) \in Seq(N)
        /\ Len(InsertAt(names, i, v)) = Len(names) + 1
        /\ \A j \in 1..(Len(names) + 1) :
             InsertAt(names, i, v)[j] =
               IF j < i THEN names[j] ELSE IF j = i THEN v ELSE names[j - 1]
    <3>1. names \in Seq(N) /\ v \in N
      BY <1>1, <2>4 DEF Grows
    <3>2. QED BY SMTT(30), <3>1, InsertAtPlaces
  <2>6. x \in Seq(C) /\ Len(x) = Len(t)
    BY <1>7, <1>9, <2>1, <2>2, <2>3, <2>5
  <2>7. ASSUME NEW j \in 1..Len(t) PROVE x[j] = ViewCell(t[j], chosen)
    <3>1. j \in 1..(Len(names) + 1)
      BY <1>7, <2>5
    <3>2. /\ x[j] = IF j < i THEN cells[j] ELSE IF j = i THEN cell ELSE cells[j - 1]
          /\ t[j] = IF j < i THEN names[j] ELSE IF j = i THEN v ELSE names[j - 1]
      BY <3>1, <1>7, <1>9, <2>1, <2>2, <2>3, <2>5
    <3>3. CASE j < i
      <4>1. j \in 1..Len(names)
        BY <3>1, <3>3, <1>2
      <4>2. QED BY <3>2, <3>3, <4>1, <1>2, <2>1
    <3>4. CASE j = i
      BY <3>2, <3>4, <1>3
    <3>5. CASE j > i
      <4>1. j - 1 \in 1..Len(names) /\ ~ (j < i) /\ ~ (j = i)
        BY <3>1, <3>5, <1>2
      <4>2. x[j] = cells[j - 1] /\ t[j] = names[j - 1]
        BY <3>2, <4>1
      <4>3. cells[j - 1] = ViewCell(names[j - 1], chosen)
        BY <4>1, <1>2, <2>1
      <4>4. QED BY <4>2, <4>3
    <3>6. QED BY <3>1, <3>3, <3>4, <3>5
  <2>8. QED BY <1>8, <2>6, <2>7, CellsAre
<1>11. /\ IsBar(c) /\ SameWindow(b, c)
       /\ DOMAIN c.cells = Sides /\ c.cells["left"] = x
  BY <1>6, <1>9, LeftCells DEF HoldsViews
<1>12. HoldsViews(c, V \cup {v}, chosen)
  BY <1>8, <1>10, <1>11 DEF HoldsViews
<1>13. ASSUME Faithful(b, visible_now) PROVE Faithful(c, visible_now)
  <2>1. /\ IsBar(WithSide(b, "left", x)) /\ SameWindow(b, WithSide(b, "left", x))
        /\ WithSide(b, "left", x).cells = CellsWith(b.cells, "left", x)
        /\ WithSide(b, "left", x).icons = b.icons
    BY AssignCells
  <2>2. QED BY <1>6, <1>9, <1>13, <2>1, DrawnLater
<1>14. QED BY <1>11, <1>12, <1>13

\* BarViewApplet::select_view sets the cell of a view apart, or no longer.
LEMMA SetStyleEffect ==
  ASSUME NEW b, IsBar(b), NEW V, NEW chosen, HoldsViews(b, V, chosen), NEW v \in V, v # None,
         NEW new, chosen \ {v} \subseteq new, new \subseteq chosen \cup {v}, NEW visible_now,
         NEW c, c = SetStyle(b, v, IF v \in new THEN "selected" ELSE "normal", visible_now)
  PROVE  HoldsViews(c, V, new) /\ IsBar(c) /\ SameWindow(b, c)
<1>1. PICK names : Grows(names) /\ ToSet(names) = V /\ b.cells["left"] = ViewCells(names, chosen)
  BY DEF HoldsViews
<1>2. /\ Len(names) \in Nat /\ DOMAIN names = 1..Len(names)
      /\ \A i \in 1..Len(names) : names[i] \in Nat /\ names[i] \in ToSet(names)
      /\ b.cells["left"] \in Seq({ViewCell(u, chosen) : u \in Nat})
      /\ Len(b.cells["left"]) = Len(names) /\ DOMAIN b.cells["left"] = 1..Len(names)
      /\ \A i \in 1..Len(names) : b.cells["left"][i] = ViewCell(names[i], chosen)
      /\ Ids(b, "left") = names
      /\ \A u \in ToSet(names) : /\ Place(b, "left", u) \in 1..Len(names)
                                 /\ names[Place(b, "left", u)] = u
  BY <1>1, CellsByName
<1>3. PICK i : i = Place(b, "left", v)
  OBVIOUS
<1>4. i \in 1..Len(names) /\ names[i] = v
  BY <1>1, <1>2, <1>3
<1>5. \A j \in 1..Len(names) : j # i => names[j] # v
  BY <1>4, <1>1, <1>2, GrowingCounts DEF IsInjective
<1>6. PICK x : x = [b.cells["left"] EXCEPT ![i] = ViewCell(v, new)]
  OBVIOUS
<1>7. c = ScheduleBarDraw(WithSide(b, "left", x), visible_now)
  <2>1. c = ScheduleBarDraw([b EXCEPT !.cells["left"][i] = ViewCell(v, new)], visible_now)
    BY <1>3 DEF SetStyle, SetCell, ViewCell
  <2>2. [b EXCEPT !.cells["left"][i] = ViewCell(v, new)] = WithSide(b, "left", x)
    BY <1>6 DEF WithSide
  <2>3. QED BY <2>1, <2>2
<1>8. /\ IsBar(c) /\ SameWindow(b, c)
      /\ DOMAIN c.cells = Sides /\ c.cells["left"] = x
  BY <1>7, LeftCells DEF HoldsViews
<1>9. x = ViewCells(names, new)
  <2>1. x = [j \in 1..Len(names) |-> IF j = i THEN ViewCell(v, new) ELSE b.cells["left"][j]]
    BY <1>2, <1>4, <1>6
  <2>2. ASSUME NEW j \in 1..Len(names)
        PROVE  (IF j = i THEN ViewCell(v, new) ELSE b.cells["left"][j]) = ViewCell(names[j], new)
    <3>1. CASE j = i
      BY <3>1, <1>4
    <3>2. CASE j # i
      <4>1. names[j] \in new <=> names[j] \in chosen
        BY <3>2, <1>5
      <4>2. QED BY <3>2, <4>1, <1>2 DEF ViewCell
    <3>3. QED BY <3>1, <3>2
  <2>3. x = [j \in 1..Len(names) |-> ViewCell(names[j], new)]
    BY <2>1, <2>2
  <2>4. QED BY <2>3, <1>2 DEF ViewCells
<1>10. QED BY <1>1, <1>8, <1>9 DEF HoldsViews

\* The destructor of a view takes its cell with it.
LEMMA ForgetCellEffect ==
  ASSUME NEW b, IsBar(b), NEW V, NEW chosen, HoldsViews(b, V, chosen), NEW v \in V,
         NEW visible_now, NEW c, c = RemoveCell(b, "left", v, visible_now)
  PROVE  HoldsViews(c, V \ {v}, chosen)
<1>1. PICK names : Grows(names) /\ ToSet(names) = V /\ b.cells["left"] = ViewCells(names, chosen)
  BY DEF HoldsViews
<1>2. /\ Len(names) \in Nat /\ DOMAIN names = 1..Len(names)
      /\ \A i \in 1..Len(names) : names[i] \in Nat /\ names[i] \in ToSet(names)
      /\ b.cells["left"] \in Seq({ViewCell(u, chosen) : u \in Nat})
      /\ Len(b.cells["left"]) = Len(names) /\ DOMAIN b.cells["left"] = 1..Len(names)
      /\ \A i \in 1..Len(names) : b.cells["left"][i] = ViewCell(names[i], chosen)
      /\ Ids(b, "left") = names
      /\ \A u \in ToSet(names) : /\ Place(b, "left", u) \in 1..Len(names)
                                 /\ names[Place(b, "left", u)] = u
  BY <1>1, CellsByName
<1>3. PICK i : i = Place(b, "left", v)
  OBVIOUS
<1>4. i \in 1..Len(names) /\ names[i] = v
  BY <1>1, <1>2, <1>3
<1>5. PICK t : t = RemoveAt(names, i)
  OBVIOUS
<1>6. Grows(t) /\ ToSet(t) = V \ {v}
  BY <1>1, <1>4, <1>5, GrowsWithoutOne
<1>7. PICK x : x = RemoveAt(b.cells["left"], i)
  OBVIOUS
<1>8. PICK left : c = ScheduleBarDraw(WithSideAndIcons(b, "left", x, left), visible_now)
  BY <1>3, <1>7 DEF RemoveCell, WithSideAndIcons
<1>9. /\ IsBar(c) /\ SameWindow(b, c)
      /\ DOMAIN c.cells = Sides /\ c.cells["left"] = x
  BY <1>8, LeftCells DEF HoldsViews
<1>10. x = ViewCells(t, chosen)
  <2>1. PICK C, cells : C = {ViewCell(u, chosen) : u \in Nat} /\ cells = b.cells["left"]
    OBVIOUS
  <2>2. cells \in Seq(C) /\ Len(cells) = Len(names) /\ i \in 1..Len(cells)
    BY <1>2, <1>4, <2>1
  <2>3. /\ x \in Seq(C)
        /\ Len(x) = Len(cells) - 1
        /\ \A j \in 1..(Len(cells) - 1) : x[j] = IF j < i THEN cells[j] ELSE cells[j + 1]
    <3>1. x = RemoveAt(cells, i)
      BY <1>7, <2>1
    <3>2. QED BY <2>2, <3>1, RemoveAtProperties
  <2>4. PICK N : N = Nat
    OBVIOUS
  <2>5. names \in Seq(N)
    BY <1>1, <2>4 DEF Grows
  <2>6. /\ t \in Seq(N)
        /\ Len(t) = Len(names) - 1
        /\ \A j \in 1..(Len(names) - 1) : t[j] = IF j < i THEN names[j] ELSE names[j + 1]
    BY ZenonT(60), <1>4, <1>5, <2>5, RemoveAtProperties
  <2>7. ASSUME NEW j \in 1..Len(t) PROVE x[j] = ViewCell(t[j], chosen)
    <3>1. j \in 1..Len(names) /\ j + 1 \in 1..Len(names)
      BY <1>2, <2>6
    <3>2. /\ x[j] = IF j < i THEN cells[j] ELSE cells[j + 1]
          /\ t[j] = IF j < i THEN names[j] ELSE names[j + 1]
      BY <2>2, <2>3, <2>6
    <3>3. cells[j] = ViewCell(names[j], chosen) /\ cells[j + 1] = ViewCell(names[j + 1], chosen)
      BY <3>1, <1>2, <2>1
    <3>4. QED BY <3>2, <3>3
  <2>8. Len(x) = Len(t)
    BY <2>2, <2>3, <2>6
  <2>9. QED BY <1>6, <2>3, <2>7, <2>8, CellsAre
<1>11. QED BY <1>6, <1>9, <1>10 DEF HoldsViews

-----------------------------------------------------------------------------
(* What the hooks make of one operation on the tree.                       *)

Chosen(w) == {w.selected_view} \ {None}

BarFollows(b, w) == Faithful(b, BarVisible(w)) /\ HoldsViews(b, w.views, Chosen(w))

\* The view to go back to is not the selected one.
Remembers(previous, w) ==
  /\ previous \in OrNone(Views)
  /\ previous # None => w.selected_view # None /\ previous # w.selected_view

\* Only what there is has decorations, and a bar.
Tidy(w) == w.decorated \subseteq LiveFrames(w) /\ w.bar_visible \subseteq w.views

IsSession(s) == s = [tree |-> s.tree, bar |-> s.bar, previous |-> s.previous]

Consistent(s) ==
  /\ IsSession(s)
  /\ WellFormed(s.tree)
  /\ Remembers(s.previous, s.tree)
  /\ BarFollows(s.bar, s.tree)

Sound(s) == Consistent(s) /\ Tidy(s.tree)

\* One operation makes at most one view and deletes at most one, and the bar is
\* shown or hidden with a selection only.
Changes(t, w) ==
  /\ WellFormed(w)
  /\ \E v : w.views \subseteq t.views \cup {v}
  /\ \E v : t.views \subseteq w.views \cup {v}
  /\ w.selected_view = t.selected_view => BarVisible(w) = BarVisible(t)
  /\ w.selected_view = None => t.selected_view = None

Follows(t, w) == Changes(t, w) /\ Tidy(w)

\* schedule_update_server sees to everything (WBar::schedule_update_server).
LEMMA ScheduledUpdate ==
  ASSUME NEW b, IsBar(b), b.bounds = b.screen, NEW c, c = ScheduleUpdateServer(b)
  PROVE  SameCells(b, c) /\ \A v : Faithful(c, v)
<1>1. IsBar(c) /\ c.update_server /\ c.bounds = c.screen /\ SameCells(b, c)
  BY DEF IsBar, BarFields, ScheduleUpdateServer, SameCells
<1>2. QED BY <1>1 DEF Faithful, InPlace, BarIsUpToDate

\* The views there are, and the selected one.
LEMMA ViewsOfTree ==
  ASSUME NEW w, WellFormed(w)
  PROVE  /\ w.views \subseteq Views /\ w.views \subseteq Nat /\ None \notin w.views
         /\ w.selected_view \in OrNone(w.views)
         /\ Chosen(w) \subseteq w.views
<1>1. w \in Graph /\ Selection(w)
  BY DEF WellFormed, WellLinked
<1>2. w.views \subseteq Views
  BY <1>1 DEF Graph
<1>3. w.selected_view \in OrNone(w.views)
  BY <1>1 DEF Selection
<1>4. QED BY <1>2, <1>3, ViewsAreNumbers, NoneIsNeither DEF Chosen, OrNone

\* What is around the tree follows it through one operation.
LEMMA TellKeepsBar ==
  ASSUME NEW s, Consistent(s), NEW w, Changes(s.tree, w)
  PROVE  BarFollows(Tell(s, w).bar, w)
<1> DEFINE t == s.tree
           b1 == CreateCells(s.bar, t, w)
           b2 == SelectCells(b1, t, w)
           b3 == ForgetCells(b2, t, w)
           V == t.views \cup w.views
<1>1. Tell(s, w).bar = b3
  BY DEF Tell
<1>2. /\ WellFormed(t) /\ WellFormed(w)
      /\ Faithful(s.bar, BarVisible(t)) /\ HoldsViews(s.bar, t.views, Chosen(t))
      /\ IsBar(s.bar)
  BY DEF Consistent, Changes, BarFollows, Faithful
<1>3. /\ t.views \subseteq Views /\ t.views \subseteq Nat /\ None \notin t.views
      /\ t.selected_view \in OrNone(t.views)
      /\ Chosen(t) \subseteq t.views
  BY <1>2, ViewsOfTree
<1>4. /\ w.views \subseteq Views /\ w.views \subseteq Nat /\ None \notin w.views
      /\ w.selected_view \in OrNone(w.views)
      /\ Chosen(w) \subseteq w.views
  BY <1>2, ViewsOfTree
<1> HIDE DEF t
<1>5. HoldsViews(b1, V, Chosen(t)) /\ Faithful(b1, BarVisible(t))
  <2>1. CASE w.views \subseteq t.views
    <3>1. b1 = s.bar /\ V = t.views
      BY <2>1 DEF CreateCells
    <3>2. QED BY <1>2, <3>1
  <2>2. CASE ~ (w.views \subseteq t.views)
    <3>1. PICK v : w.views \subseteq t.views \cup {v}
      BY DEF Changes, t
    <3>2. w.views \ t.views = {v}
      BY <2>2, <3>1
    <3>3. OnlyElement(w.views \ t.views) = v
      BY <3>2 DEF OnlyElement
    <3>4. b1 = CreateViewCell(s.bar, v, BarVisible(t))
      BY <2>2, <3>3 DEF CreateCells
    <3>5. v \in Nat /\ v \notin t.views /\ v \notin Chosen(t) /\ V = t.views \cup {v}
      BY <1>3, <1>4, <3>2
    <3> HIDE DEF b1, V
    <3>6. /\ HoldsViews(b1, t.views \cup {v}, Chosen(t))
          /\ IsBar(b1) /\ SameWindow(s.bar, b1)
          /\ Faithful(s.bar, BarVisible(t)) => Faithful(b1, BarVisible(t))
      BY <1>2, <3>4, <3>5, CreateViewCellEffect
    <3>7. QED BY <1>2, <3>5, <3>6
  <2>3. QED BY <2>1, <2>2
<1> HIDE DEF b1
<1>6. HoldsViews(b2, V, Chosen(w)) /\ Faithful(b2, BarVisible(w))
  <2>1. CASE w.selected_view = t.selected_view
    <3>1. b2 = b1
      BY <2>1 DEF SelectCells
    <3>2. BarVisible(w) = BarVisible(t) /\ Chosen(w) = Chosen(t)
      BY <2>1 DEF Changes, t, Chosen
    <3>3. QED BY <1>5, <3>1, <3>2
  <2>2. CASE w.selected_view # t.selected_view
    <3> DEFINE new == w.selected_view
               old == t.selected_view
               c == SetStyle(b1, new, "selected", BarVisible(w))
               d == SetStyle(c, old, "normal", BarVisible(w))
    <3>1. new # None /\ new \in w.views /\ old \in OrNone(t.views) /\ new # old
      <4>1. new # None
        BY <2>2 DEF Changes, t
      <4>2. QED BY <1>3, <1>4, <2>2, <4>1 DEF OrNone
    <3>2. b2 = ScheduleUpdateServer(d)
      BY <2>2 DEF SelectCells, SelectViewCell
    <3>3. IsBar(b1) /\ b1.bounds = b1.screen
      BY <1>5 DEF Faithful, InPlace
    <3>4. HoldsViews(c, V, Chosen(t) \cup {new}) /\ IsBar(c) /\ SameWindow(b1, c)
      <4>1. PICK n : n = Chosen(t) \cup {new}
        OBVIOUS
      <4>2. c = SetStyle(b1, new, IF new \in n THEN "selected" ELSE "normal", BarVisible(w))
        BY <4>1
      <4>3. Chosen(t) \ {new} \subseteq n /\ n \subseteq Chosen(t) \cup {new}
        BY <4>1
      <4>4. new \in V
        BY <3>1
      <4> HIDE DEF c, new, V
      <4>5. HoldsViews(c, V, n) /\ IsBar(c) /\ SameWindow(b1, c)
        BY <1>5, <3>1, <3>3, <4>2, <4>3, <4>4, SetStyleEffect
      <4>6. QED BY <4>1, <4>5
    <3> HIDE DEF c
    <3>5. HoldsViews(d, V, {new}) /\ IsBar(d) /\ SameWindow(b1, d)
      <4>1. CASE old = None
        <5>1. d = c
          BY <4>1 DEF SetStyle
        <5>2. Chosen(t) \cup {new} = {new}
          BY <4>1 DEF Chosen
        <5>3. QED BY <3>4, <5>1, <5>2
      <4>2. CASE old # None
        <5>1. PICK m, n : m = Chosen(t) \cup {new} /\ n = {new}
          OBVIOUS
        <5>2. m = {old, new}
          BY <4>2, <5>1 DEF Chosen
        <5>3. d = SetStyle(c, old, IF old \in n THEN "selected" ELSE "normal", BarVisible(w))
          BY <3>1, <5>1
        <5>4. m \ {old} \subseteq n /\ n \subseteq m \cup {old}
          BY <5>1, <5>2
        <5>5. old \in V
          BY <3>1, <4>2 DEF OrNone
        <5>6. HoldsViews(c, V, m) /\ IsBar(c)
          BY <3>4, <5>1
        <5> HIDE DEF d, old, new, V
        <5>7. HoldsViews(d, V, n) /\ IsBar(d) /\ SameWindow(c, d)
          BY <4>2, <5>3, <5>4, <5>5, <5>6, SetStyleEffect
        <5>8. QED BY <3>4, <5>1, <5>7 DEF SameWindow
      <4>3. QED BY <4>1, <4>2
    <3> HIDE DEF d
    <3>6. d.bounds = d.screen
      BY <3>3, <3>5 DEF SameWindow
    <3>7. SameCells(d, b2) /\ Faithful(b2, BarVisible(w))
      BY <3>2, <3>5, <3>6, ScheduledUpdate
    <3>8. Chosen(w) = {new}
      BY <3>1 DEF Chosen
    <3>9. QED BY <3>5, <3>7, <3>8 DEF HoldsViews, SameCells
  <2>3. QED BY <2>1, <2>2
<1> HIDE DEF b2
<1>7. HoldsViews(b3, w.views, Chosen(w)) /\ Faithful(b3, BarVisible(w))
  <2>1. CASE t.views \subseteq w.views
    <3>1. b3 = b2 /\ V = w.views
      BY <2>1 DEF ForgetCells
    <3>2. QED BY <1>6, <3>1
  <2>2. CASE ~ (t.views \subseteq w.views)
    <3>1. PICK v : t.views \subseteq w.views \cup {v}
      BY DEF Changes, t
    <3>2. t.views \ w.views = {v}
      BY <2>2, <3>1
    <3>3. OnlyElement(t.views \ w.views) = v
      BY <3>2 DEF OnlyElement
    <3>4. b3 = RemoveCell(b2, "left", v, BarVisible(w))
      BY <2>2, <3>3 DEF ForgetCells
    <3>5. v \in V /\ V \ {v} = w.views
      BY <3>2
    <3>6. IsBar(b2)
      BY <1>6 DEF Faithful
    <3> HIDE DEF b3, V
    <3>7. HoldsViews(b3, V \ {v}, Chosen(w))
      BY <1>6, <3>4, <3>5, <3>6, ForgetCellEffect
    <3>8. Faithful(b3, BarVisible(w))
      BY <1>6, <3>4, Removing
    <3>9. QED BY <3>5, <3>7, <3>8
  <2>3. QED BY <2>1, <2>2
<1>8. QED BY <1>1, <1>7 DEF BarFollows

\* One operation, with its hooks.
LEMMA TellKeepsConsistent ==
  ASSUME NEW s, Consistent(s), NEW w, Changes(s.tree, w)
  PROVE  /\ Consistent(Tell(s, w))
         /\ Tell(s, w).tree = w
         /\ Tell(s, w).previous =
              IF w.selected_view # s.tree.selected_view /\ s.tree.selected_view # None
              THEN s.tree.selected_view ELSE s.previous
<1> DEFINE u == Tell(s, w)
<1>1. /\ IsSession(u) /\ u.tree = w
      /\ u.previous = IF w.selected_view = s.tree.selected_view THEN s.previous
                      ELSE Remember(s.previous, w.selected_view, s.tree.selected_view)
  BY DEF Tell, IsSession
<1>2. BarFollows(u.bar, w)
  BY TellKeepsBar
<1> HIDE DEF u
<1>3. u.previous = IF w.selected_view # s.tree.selected_view /\ s.tree.selected_view # None
                   THEN s.tree.selected_view ELSE s.previous
  BY <1>1 DEF Remember
<1>4. /\ IsSession(s) /\ WellFormed(s.tree) /\ Remembers(s.previous, s.tree)
      /\ WellFormed(w)
      /\ w.selected_view = None => s.tree.selected_view = None
  BY DEF Consistent, Changes
<1>5. s.tree.selected_view \in OrNone(Views)
  <2>1. PICK t : t = s.tree
    OBVIOUS
  <2>2. WellFormed(t)
    BY <1>4, <2>1
  <2>3. t.views \subseteq Views /\ t.selected_view \in OrNone(t.views)
    BY <2>2, ViewsOfTree
  <2>4. QED BY <2>1, <2>3 DEF OrNone
<1>6. Remembers(u.previous, w)
  <2>1. s.previous \in OrNone(Views)
    BY <1>4 DEF Remembers
  <2>2. s.previous # None => s.tree.selected_view # None /\ s.previous # s.tree.selected_view
    BY <1>4 DEF Remembers
  <2>3. CASE w.selected_view # s.tree.selected_view /\ s.tree.selected_view # None
    <3>1. u.previous = s.tree.selected_view
      BY <1>3, <2>3
    <3>2. QED BY <3>1, <2>3, <1>4, <1>5 DEF Remembers
  <2>4. CASE w.selected_view = s.tree.selected_view
    <3>1. u.previous = s.previous
      BY <1>3, <2>4
    <3>2. QED BY <3>1, <2>4, <2>1, <2>2 DEF Remembers
  <2>5. CASE s.tree.selected_view = None
    <3>1. u.previous = None
      BY <1>3, <2>5, <2>2
    <3>2. QED BY <3>1 DEF Remembers, OrNone
  <2>6. QED BY <2>3, <2>4, <2>5
<1>7. QED BY <1>1, <1>2, <1>3, <1>4, <1>6 DEF Consistent, u

\* It is tidy if the tree is.
LEMMA TellKeeps ==
  ASSUME NEW s, Sound(s), NEW w, Follows(s.tree, w)
  PROVE  /\ Sound(Tell(s, w))
         /\ Tell(s, w).tree = w
         /\ Tell(s, w).previous =
              IF w.selected_view # s.tree.selected_view /\ s.tree.selected_view # None
              THEN s.tree.selected_view ELSE s.previous
<1>1. Consistent(s) /\ Changes(s.tree, w) /\ Tidy(w)
  BY DEF Sound, Follows
<1>2. /\ Consistent(Tell(s, w))
      /\ Tell(s, w).tree = w
      /\ Tell(s, w).previous =
           IF w.selected_view # s.tree.selected_view /\ s.tree.selected_view # None
           THEN s.tree.selected_view ELSE s.previous
  BY <1>1, TellKeepsConsistent
<1>3. QED BY <1>1, <1>2 DEF Sound

\* An operation that leaves the views, the selected one and the bar alone.
LEMMA FollowsSame ==
  ASSUME NEW t, NEW w, WellFormed(w), Tidy(w), SameViews(t, w), w.bar_visible = t.bar_visible
  PROVE  Follows(t, w)
<1>1. w.views = t.views /\ w.selected_view = t.selected_view
  BY DEF SameViews
<1>2. BarVisible(w) = BarVisible(t)
  BY <1>1 DEF BarVisible
<1>3. w.views \subseteq t.views \cup {None} /\ t.views \subseteq w.views \cup {None}
  BY <1>1
<1>4. QED BY <1>1, <1>2, <1>3 DEF Follows, Changes

\* One that deletes a view which is not on the screen.
LEMMA FollowsDeletion ==
  ASSUME NEW t, NEW w, WellFormed(w), Tidy(w), NEW v, w.views = t.views \/ w.views = t.views \ {v},
         w.selected_view = t.selected_view, w.bar_visible = t.bar_visible \ (t.views \ w.views)
  PROVE  Follows(t, w)
<1>1. w.views \subseteq t.views \cup {v} /\ t.views \subseteq w.views \cup {v}
  OBVIOUS
<1>2. w.selected_view \in w.views \cup {None}
  BY ViewsOfTree DEF OrNone
<1>3. BarVisible(w) = BarVisible(t)
  BY <1>2 DEF BarVisible
<1>4. QED BY <1>1, <1>3 DEF Follows, Changes

\* A view that is made.
LEMMA FollowsNewView ==
  ASSUME NEW t, WellFormed(t), Tidy(t), NEW v \in Views \ t.views, NEW w, w = NewView(t, v)
  PROVE  Follows(t, w)
<1>1. /\ WellFormed(w)
      /\ w.views = t.views \cup {v} /\ w.selected_view = t.selected_view
  BY NewViewWellFormed
<1>2. w.bar_visible = t.bar_visible \cup {v} /\ w.decorated = t.decorated /\ w.column_of = t.column_of
  <2>1. t \in Graph
    BY DEF WellFormed, WellLinked
  <2>2. QED BY <2>1 DEF NewView, Graph
<1>3. t.selected_view # v
  BY ViewsOfTree, NoneIsNeither DEF OrNone
<1>4. BarVisible(w) = BarVisible(t)
  BY <1>1, <1>2, <1>3 DEF BarVisible
<1>5. Tidy(w)
  BY <1>1, <1>2 DEF Tidy, LiveFrames
<1>6. QED BY <1>1, <1>4, <1>5 DEF Follows, Changes

\* What get_or_create_view does with a view that is there.
LEMMA FollowsGetOrCreateView ==
  ASSUME NEW t, WellFormed(t), Tidy(t), NEW v \in Views, NEW w, w = GetOrCreateView(t, v)
  PROVE  Follows(t, w)
<1>1. CASE v \in t.views
  BY <1>1, FollowsSame DEF GetOrCreateView, SameViews
<1>2. CASE v \notin t.views
  BY <1>2, FollowsNewView DEF GetOrCreateView
<1>3. QED BY <1>1, <1>2

\* The selection of a view.
LEMMA FollowsSelectView ==
  ASSUME NEW t, WellFormed(t), Tidy(t), NEW v \in t.views, NEW w, w = SelectView(t, v)
  PROVE  Follows(t, w)
<1>1. /\ WellFormed(w) /\ w.selected_view = v
      /\ v \in w.views /\ w.views \subseteq t.views
  BY SelectViewWellFormed
<1>2. /\ KeepsLook(t, w)
      /\ w.views = IF /\ t.selected_view \notin {None, v}
                      /\ t.columns[t.selected_view] = <<>>
                   THEN t.views \ {t.selected_view} ELSE t.views
  BY SelectViewLook
<1>3. v # None
  BY ViewsOfTree
<1>4. \E z : t.views \subseteq w.views \cup {z}
  BY <1>2
<1>5. \E z : w.views \subseteq t.views \cup {z}
  BY <1>1
<1>6. CASE t.selected_view = v
  <2>1. w = t
    BY <1>6 DEF SelectView
  <2>2. QED BY <2>1, FollowsSame DEF SameViews
<1>7. CASE t.selected_view # v
  <2>1. LiveFrames(w) = LiveFrames(t)
    BY SelectViewWellFormed DEF SameLinks, LiveFrames
  <2>2. Tidy(w)
    BY <1>1, <1>2, <2>1 DEF Tidy, KeepsLook
  <2>3. QED BY <1>1, <1>3, <1>4, <1>5, <1>7, <2>2 DEF Follows, Changes
<1>8. QED BY <1>6, <1>7

\* A window with a frame.
Owners(w) == {c \in Clients : FramesOf(w, c) # {}}

Filled(w) == NoneEmptyBut(w, {}, {})

\* What is true of a session is true of its parts.
LEMMA SoundParts ==
  ASSUME NEW s, Sound(s)
  PROVE  /\ IsSession(s) /\ WellFormed(s.tree) /\ Tidy(s.tree) /\ s.tree \in Graph
         /\ s.tree.views \subseteq Views /\ s.tree.views \subseteq Nat
         /\ None \notin s.tree.views
         /\ s.tree.selected_view \in OrNone(s.tree.views)
<1>1. PICK t : t = s.tree
  OBVIOUS
<1>2. IsSession(s) /\ WellFormed(t) /\ Tidy(t)
  BY <1>1 DEF Sound, Consistent
<1>3. /\ t.views \subseteq Views /\ t.views \subseteq Nat
      /\ None \notin t.views
      /\ t.selected_view \in OrNone(t.views)
  BY <1>2, ViewsOfTree
<1>4. QED BY <1>1, <1>2, <1>3 DEF WellFormed, WellLinked

\* The clients that have frames, and the free columns, are read off the links.
LEMMA SameOwners ==
  ASSUME NEW w, NEW u, u.column_of = w.column_of
  PROVE  /\ LiveFrames(u) = LiveFrames(w) /\ Owners(u) = Owners(w)
         /\ \A c : FramesOf(u, c) = FramesOf(w, c)
         /\ \A col : FramesIn(u, col) = FramesIn(w, col)
BY DEF LiveFrames, Owners, FramesOf, FramesIn

\* A frame is in a view that there is.
LEMMA FramesHaveViews ==
  ASSUME NEW w, WellFormed(w), NEW f \in LiveFrames(w)
  PROVE  /\ ViewOf(f) \in w.views /\ ViewOf(f) \in Views /\ ClientOf(f) \in Clients
         /\ f \in Frames /\ f = <<ClientOf(f), ViewOf(f)>>
         /\ w.column_of[f] \in ColumnsOf(w, ViewOf(f))
         /\ ClientOf(f) \in Owners(w) /\ f \in FramesOf(w, ClientOf(f))
<1>1. f \in Frames /\ w.column_of[f] # None /\ w \in Graph /\ Tree(w)
  BY DEF LiveFrames, WellFormed, WellLinked
<1>2. w.column_of[f] \in Columns
  BY <1>1 DEF Graph, OrNone
<1>3. w.view_of[w.column_of[f]] = ViewOf(f)
  BY <1>1 DEF Tree
<1>4. ViewOf(f) \in Views /\ ClientOf(f) \in Clients /\ f = <<ClientOf(f), ViewOf(f)>>
  BY <1>1, FrameParts
<1>5. w.column_of[f] \in ColumnsOf(w, ViewOf(f))
  BY <1>2, <1>3 DEF ColumnsOf
<1>6. ViewOf(f) \in w.views
  BY <1>1, <1>4, <1>5 DEF Tree
<1>7. f \in FramesOf(w, ClientOf(f))
  BY DEF FramesOf
<1>8. QED BY <1>1, <1>4, <1>5, <1>6, <1>7 DEF Owners

-----------------------------------------------------------------------------
(* One operation with its hooks.                                           *)

\* WM::select_view.
LEMMA ViewSelected ==
  ASSUME NEW s, Sound(s), NEW v \in s.tree.views, NEW u, u = SelectViewAndTell(s, v)
  PROVE  /\ Sound(u)
         /\ SameLinks(s.tree, u.tree)
         /\ u.tree.selected_view = v /\ v \in u.tree.views /\ u.tree.views \subseteq s.tree.views
         /\ u.tree.bar_visible = s.tree.bar_visible \ (s.tree.views \ u.tree.views)
         /\ u.previous = IF v # s.tree.selected_view /\ s.tree.selected_view # None
                         THEN s.tree.selected_view ELSE s.previous
         /\ Owners(u.tree) = Owners(s.tree) /\ FreeColumns(u.tree) = FreeColumns(s.tree)
         /\ NoneEmptyBut(s.tree, {}, {v}) => Filled(u.tree)
<1>1. PICK t, w : t = s.tree /\ w = SelectView(t, v)
  OBVIOUS
<1>2. WellFormed(t) /\ Tidy(t) /\ v \in t.views
  BY <1>1, SoundParts
<1>3. /\ WellFormed(w) /\ SameLinks(t, w)
      /\ w.selected_view = v /\ v \in w.views /\ w.views \subseteq t.views
  BY <1>1, <1>2, SelectViewWellFormed
<1>4. KeepsLook(t, w)
  BY <1>1, <1>2, SelectViewLook
<1>5. Follows(s.tree, w)
  BY <1>1, <1>2, FollowsSelectView
<1>6. u = Tell(s, w)
  BY <1>1 DEF SelectViewAndTell
<1>7. /\ Sound(u) /\ u.tree = w
      /\ u.previous = IF w.selected_view # s.tree.selected_view /\ s.tree.selected_view # None
                      THEN s.tree.selected_view ELSE s.previous
  BY <1>5, <1>6, TellKeeps
<1>8. w.column_of = t.column_of /\ w.view_of = t.view_of
  BY <1>3 DEF SameLinks
<1>9. Owners(w) = Owners(t) /\ FreeColumns(w) = FreeColumns(t)
  BY <1>8, SameOwners DEF FreeColumns
<1>10. NoneEmptyBut(t, {}, {v}) => Filled(w)
  BY <1>1, <1>2, SelectViewNoneEmpty DEF Filled
<1>11. w.bar_visible = t.bar_visible \ (t.views \ w.views)
  BY <1>4 DEF KeepsLook
<1>12. QED BY <1>1, <1>3, <1>7, <1>9, <1>10, <1>11

\* ~WFrame.
LEMMA FrameDeleted ==
  ASSUME NEW s, Sound(s), NEW f \in LiveFrames(s.tree), NEW u, u = DeleteFrameAndTell(s, f)
  PROVE  /\ Sound(u)
         /\ u.tree.selected_view = s.tree.selected_view /\ u.previous = s.previous
         /\ u.tree.views = s.tree.views \/ u.tree.views = s.tree.views \ {ViewOf(f)}
         /\ LiveFrames(u.tree) = LiveFrames(s.tree) \ {f}
         /\ FreeColumns(s.tree) \subseteq FreeColumns(u.tree)
         /\ Filled(s.tree) => Filled(u.tree)
<1>1. PICK t, w : t = s.tree /\ w = DeleteFrame(t, f)
  OBVIOUS
<1>2. WellFormed(t) /\ f \in LiveFrames(t) /\ t \in Graph /\ Tidy(t)
  BY <1>1, SoundParts
<1>3. /\ WellFormed(w) /\ w.selected_view = t.selected_view
      /\ w.column_of = [t.column_of EXCEPT ![f] = None]
  BY <1>1, <1>2, DeleteFrameWellFormed
<1>4. /\ w.decorated = t.decorated \ {f}
      /\ w.bar_visible = t.bar_visible \ (t.views \ w.views)
      /\ w.views = t.views \/ w.views = t.views \ {ViewOf(f)}
      /\ \A c \in Columns : c # t.column_of[f] => w.view_of[c] = t.view_of[c]
  BY <1>1, <1>2, DeleteFrameLook
<1>5. LiveFrames(w) = LiveFrames(t) \ {f}
  <2>1. f \in Frames /\ DOMAIN t.column_of = Frames
    BY <1>2 DEF Graph, LiveFrames
  <2>2. QED BY <1>3, <2>1 DEF LiveFrames
<1>6. Follows(t, w)
  <2>1. Tidy(w)
    BY <1>2, <1>4, <1>5 DEF Tidy
  <2>2. QED BY <1>3, <1>4, <2>1, FollowsDeletion
<1>7. /\ Sound(u) /\ u.tree = w
      /\ u.previous = IF w.selected_view # s.tree.selected_view /\ s.tree.selected_view # None
                      THEN s.tree.selected_view ELSE s.previous
  BY <1>1, <1>6, TellKeeps DEF DeleteFrameAndTell
<1>8. FreeColumns(t) \subseteq FreeColumns(w)
  <2>1. t.view_of[t.column_of[f]] = ViewOf(f) /\ ViewOf(f) # None
    BY <1>2, FramesHaveViews, NoneIsNeither DEF ColumnsOf
  <2>2. QED BY <1>4, <2>1 DEF FreeColumns
<1>9. Filled(t) => Filled(w)
  BY <1>1, <1>2, DeleteFrameNoneEmpty DEF Filled
<1>10. QED BY <1>1, <1>3, <1>4, <1>5, <1>7, <1>8, <1>9

\* An operation that only moves the selection within the views.
LEMMA Moved ==
  ASSUME NEW s, Sound(s), NEW w, WellFormed(w), SameViews(s.tree, w),
         SameLook(s.tree, w), w.view_of = s.tree.view_of,
         w.column_of = s.tree.column_of, NEW u, u = Tell(s, w)
  PROVE  /\ Sound(u) /\ u.tree = w /\ u.previous = s.previous
         /\ LiveFrames(u.tree) = LiveFrames(s.tree)
         /\ Owners(u.tree) = Owners(s.tree) /\ FreeColumns(u.tree) = FreeColumns(s.tree)
         /\ \A V : NoneEmptyBut(s.tree, {}, V) => NoneEmptyBut(u.tree, {}, V)
<1>1. Follows(s.tree, w)
  <2>1. LiveFrames(w) = LiveFrames(s.tree)
    BY SameOwners
  <2>2. Tidy(w)
    BY <2>1, SoundParts DEF Tidy, SameLook, SameViews
  <2>3. QED BY <2>2, FollowsSame DEF SameLook
<1>2. /\ Sound(u) /\ u.tree = w
      /\ u.previous = IF w.selected_view # s.tree.selected_view /\ s.tree.selected_view # None
                      THEN s.tree.selected_view ELSE s.previous
  BY <1>1, TellKeeps
<1>3. u.previous = s.previous
  BY <1>2 DEF SameViews
<1>4. LiveFrames(w) = LiveFrames(s.tree) /\ Owners(w) = Owners(s.tree)
  BY SameOwners
<1>5. FreeColumns(w) = FreeColumns(s.tree)
  BY DEF FreeColumns
<1>6. ASSUME NEW V, NoneEmptyBut(s.tree, {}, V) PROVE NoneEmptyBut(w, {}, V)
  BY <1>6, SameNoneEmpty
<1>7. QED BY <1>2, <1>3, <1>4, <1>5, <1>6

\* WView::select_frame, after which the view is selected.
LEMMA FrameShown ==
  ASSUME NEW s, Sound(s), NEW f \in LiveFrames(s.tree), NEW u, u = ShowFullscreen(s, f)
  PROVE  /\ Sound(u)
         /\ u.tree.selected_view = ViewOf(f)
         /\ LiveFrames(u.tree) = LiveFrames(s.tree)
         /\ Owners(u.tree) = Owners(s.tree) /\ FreeColumns(u.tree) = FreeColumns(s.tree)
         /\ Filled(s.tree) => Filled(u.tree)
<1>1. PICK t, w, m : t = s.tree /\ w = SelectFrame(t, f) /\ m = Tell(s, w)
  OBVIOUS
<1>2. WellFormed(t) /\ f \in LiveFrames(t)
  BY <1>1, SoundParts
<1>3. WellFormed(w) /\ SameLinks(t, w) /\ SameViews(t, w) /\ SameLook(t, w)
  BY <1>1, <1>2, SelectFrameWellFormed, SelectFrameLook
<1>4. /\ w.bar_visible = t.bar_visible /\ w.view_of = t.view_of /\ w.column_of = t.column_of
      /\ w.views = t.views
  BY <1>3 DEF SameLinks, SameViews, SameLook
<1>5. /\ Sound(m) /\ m.tree = w
      /\ LiveFrames(m.tree) = LiveFrames(s.tree)
      /\ Owners(m.tree) = Owners(s.tree) /\ FreeColumns(m.tree) = FreeColumns(s.tree)
      /\ \A V : NoneEmptyBut(s.tree, {}, V) => NoneEmptyBut(m.tree, {}, V)
  BY <1>1, <1>3, <1>4, Moved
<1>6. ViewOf(f) \in m.tree.views
  BY <1>2, <1>4, <1>5, FramesHaveViews
<1>7. u = SelectViewAndTell(m, ViewOf(f))
  BY <1>1 DEF ShowFullscreen
<1>8. /\ Sound(u)
      /\ SameLinks(m.tree, u.tree)
      /\ u.tree.selected_view = ViewOf(f)
      /\ Owners(u.tree) = Owners(m.tree) /\ FreeColumns(u.tree) = FreeColumns(m.tree)
      /\ NoneEmptyBut(m.tree, {}, {ViewOf(f)}) => Filled(u.tree)
  BY <1>5, <1>6, <1>7, ViewSelected
<1>9. LiveFrames(u.tree) = LiveFrames(m.tree)
  BY <1>8, SameOwners DEF SameLinks
<1>10. Filled(s.tree) => Filled(u.tree)
  <2>1. Filled(s.tree) => NoneEmptyBut(s.tree, {}, {ViewOf(f)})
    BY MoreMayBeEmpty DEF Filled
  <2>2. QED BY <2>1, <1>5, <1>8
<1>11. QED BY <1>5, <1>8, <1>9, <1>10

\* get_or_create_view.
LEMMA ViewMade ==
  ASSUME NEW s, Sound(s), NEW v \in Views, NEW u, u = Tell(s, GetOrCreateView(s.tree, v))
  PROVE  /\ Sound(u) /\ u.tree = GetOrCreateView(s.tree, v)
         /\ SameLinks(s.tree, u.tree)
         /\ u.tree.views = s.tree.views \cup {v}
         /\ u.tree.selected_view = s.tree.selected_view /\ u.previous = s.previous
         /\ Owners(u.tree) = Owners(s.tree) /\ FreeColumns(u.tree) = FreeColumns(s.tree)
         /\ LiveFrames(u.tree) = LiveFrames(s.tree)
         /\ Filled(s.tree) => NoneEmptyBut(u.tree, {}, {v})
<1>1. PICK t, w : t = s.tree /\ w = GetOrCreateView(t, v)
  OBVIOUS
<1>2. WellFormed(t) /\ Tidy(t)
  BY <1>1, SoundParts
<1>3. /\ WellFormed(w) /\ SameLinks(t, w)
      /\ w.views = t.views \cup {v} /\ w.selected_view = t.selected_view
  BY <1>1, <1>2, GetOrCreateViewWellFormed
<1>4. Follows(t, w)
  BY <1>1, <1>2, FollowsGetOrCreateView
<1>5. /\ Sound(u) /\ u.tree = w
      /\ u.previous = IF w.selected_view # s.tree.selected_view /\ s.tree.selected_view # None
                      THEN s.tree.selected_view ELSE s.previous
  BY <1>1, <1>4, TellKeeps
<1>6. w.column_of = t.column_of /\ w.view_of = t.view_of
  BY <1>3 DEF SameLinks
<1>7. LiveFrames(w) = LiveFrames(t) /\ Owners(w) = Owners(t) /\ FreeColumns(w) = FreeColumns(t)
  BY <1>6, SameOwners DEF FreeColumns
<1>8. Filled(t) => NoneEmptyBut(w, {}, {v})
  BY <1>1, <1>2, GetOrCreateViewNoneEmpty DEF Filled
<1>9. QED BY <1>1, <1>3, <1>5, <1>7, <1>8

\* WM::switch_to_view.
LEMMA ViewSwitchedTo ==
  ASSUME NEW s, Sound(s), NEW v \in Views, NEW u, u = SwitchTo(s, v)
  PROVE  /\ Sound(u)
         /\ SameLinks(s.tree, u.tree)
         /\ u.tree.selected_view = v
         /\ u.previous = IF v # s.tree.selected_view /\ s.tree.selected_view # None
                         THEN s.tree.selected_view ELSE s.previous
         /\ Owners(u.tree) = Owners(s.tree) /\ FreeColumns(u.tree) = FreeColumns(s.tree)
         /\ Filled(s.tree) => Filled(u.tree)
<1>1. PICK m : m = Tell(s, GetOrCreateView(s.tree, v))
  OBVIOUS
<1>2. /\ Sound(m)
      /\ SameLinks(s.tree, m.tree)
      /\ m.tree.views = s.tree.views \cup {v}
      /\ m.tree.selected_view = s.tree.selected_view /\ m.previous = s.previous
      /\ Owners(m.tree) = Owners(s.tree) /\ FreeColumns(m.tree) = FreeColumns(s.tree)
      /\ Filled(s.tree) => NoneEmptyBut(m.tree, {}, {v})
  BY <1>1, ViewMade
<1>3. v \in m.tree.views /\ u = SelectViewAndTell(m, v)
  BY <1>1, <1>2 DEF SwitchTo
<1>4. /\ Sound(u)
      /\ SameLinks(m.tree, u.tree)
      /\ u.tree.selected_view = v /\ v \in u.tree.views /\ u.tree.views \subseteq m.tree.views
      /\ u.tree.bar_visible = m.tree.bar_visible \ (m.tree.views \ u.tree.views)
      /\ u.previous = IF v # m.tree.selected_view /\ m.tree.selected_view # None
                      THEN m.tree.selected_view ELSE m.previous
      /\ Owners(u.tree) = Owners(m.tree) /\ FreeColumns(u.tree) = FreeColumns(m.tree)
      /\ NoneEmptyBut(m.tree, {}, {v}) => Filled(u.tree)
  BY <1>2, <1>3, ViewSelected
<1>5. SameLinks(s.tree, u.tree)
  BY <1>2, <1>4 DEF SameLinks
<1>6. QED BY <1>2, <1>4, <1>5

\* What set_bar_visible makes of the tree.
ShownOrNot(w, v, value) ==
  [w EXCEPT !.bar_visible = IF value THEN @ \cup {v} ELSE @ \ {v}]

\* What set_bar_visible does.
ShowsOrHides(s, u, v, value) ==
  /\ Sound(u)
  /\ Repaints(s.tree, u.tree)
  /\ u.tree = ShownOrNot(s.tree, v, value) /\ u.previous = s.previous
  /\ SameLinks(s.tree, u.tree) /\ SameViews(s.tree, u.tree)
  /\ LiveFrames(u.tree) = LiveFrames(s.tree)
  /\ Owners(u.tree) = Owners(s.tree) /\ FreeColumns(u.tree) = FreeColumns(s.tree)
  /\ \A C, V : NoneEmptyBut(s.tree, C, V) => NoneEmptyBut(u.tree, C, V)

\* WView::set_bar_visible: the bar is told if it is about the view on the screen.
LEMMA BarShownOrHidden ==
  ASSUME NEW s, Sound(s), NEW v \in s.tree.views, NEW value, NEW u, u = SetBarVisible(s, v, value)
  PROVE  ShowsOrHides(s, u, v, value)
<1>1. PICK t, b, p : t = s.tree /\ b = s.bar /\ p = s.previous
  OBVIOUS
<1>2. s = [tree |-> t, bar |-> b, previous |-> p]
  BY <1>1 DEF Sound, Consistent, IsSession
<1>3. /\ WellFormed(t) /\ Remembers(p, t) /\ BarFollows(b, t) /\ t \in Graph
      /\ Tidy(t) /\ v \in Views
  BY <1>1, SoundParts DEF Sound, Consistent
<1> DEFINE changed == value # (v \in t.bar_visible)
           w == ShownOrNot(t, v, value)
           c == IF changed /\ v = t.selected_view THEN ScheduleUpdateServer(b) ELSE b
<1>4. u = [tree |-> w, bar |-> c, previous |-> p]
  BY <1>2 DEF SetBarVisible, ShownOrNot
<1>5. /\ Repaints(t, w) /\ w.marked = t.marked /\ w.decorated = t.decorated
      /\ w.bar_visible = IF value THEN t.bar_visible \cup {v} ELSE t.bar_visible \ {v}
  BY <1>3 DEF Repaints, ShownOrNot, Graph, SameViews
<1>6. WellFormed(w)
  BY <1>3, <1>5, RepaintsWellFormed
<1>7. /\ SameViews(t, w) /\ w.columns = t.columns /\ w.view_of = t.view_of
      /\ w.frames = t.frames /\ w.column_of = t.column_of /\ w.activity = t.activity
      /\ w.view_activity = t.view_activity /\ w.column_activity = t.column_activity
  BY <1>5 DEF Repaints
<1>8. SameLinks(t, w)
  BY <1>5, <1>7 DEF SameLinks
<1> HIDE DEF w
<1>9. Remembers(p, w) /\ Chosen(w) = Chosen(t) /\ w.views = t.views
  BY <1>3, <1>7 DEF Remembers, SameViews, Chosen
<1>10. BarFollows(c, w)
  <2>1. Faithful(b, BarVisible(t)) /\ HoldsViews(b, t.views, Chosen(t)) /\ IsBar(b)
        /\ b.bounds = b.screen
    BY <1>3 DEF BarFollows, Faithful, InPlace
  <2>2. CASE changed /\ v = t.selected_view
    <3>1. c = ScheduleUpdateServer(b)
      BY <2>2
    <3>2. SameCells(b, c) /\ Faithful(c, BarVisible(w))
      BY <2>1, <3>1, ScheduledUpdate
    <3>3. HoldsViews(c, w.views, Chosen(w))
      BY <1>9, <2>1, <3>2 DEF HoldsViews, SameCells
    <3>4. QED BY <3>2, <3>3 DEF BarFollows
  <2>3. CASE ~ (changed /\ v = t.selected_view)
    <3>1. c = b
      BY <2>3
    <3>2. BarVisible(w) = BarVisible(t)
      <4>1. w.selected_view = t.selected_view
        BY <1>7 DEF SameViews
      <4>2. CASE v = t.selected_view
        <5>1. value = (v \in t.bar_visible)
          BY <2>3, <4>2
        <5>2. v \in w.bar_visible <=> v \in t.bar_visible
          BY <1>5, <5>1
        <5>3. QED BY <4>1, <4>2, <5>2 DEF BarVisible
      <4>3. CASE v # t.selected_view
        <5>1. t.selected_view \in w.bar_visible <=> t.selected_view \in t.bar_visible
          BY <1>5, <4>3
        <5>2. QED BY <4>1, <5>1 DEF BarVisible
      <4>4. QED BY <4>2, <4>3
    <3>3. QED BY <1>9, <2>1, <3>1, <3>2 DEF BarFollows
  <2>4. QED BY <2>2, <2>3
<1> HIDE DEF c
<1>11. LiveFrames(w) = LiveFrames(t) /\ Owners(w) = Owners(t) /\ FreeColumns(w) = FreeColumns(t)
  BY <1>7, SameOwners DEF FreeColumns
<1>12. Sound(u)
  <2>1. Tidy(w)
    BY <1>1, <1>3, <1>5, <1>9, <1>11 DEF Tidy
  <2>2. QED BY <1>4, <1>6, <1>9, <1>10, <2>1 DEF Sound, Consistent, IsSession
<1>13. ASSUME NEW C, NEW V, NoneEmptyBut(t, C, V) PROVE NoneEmptyBut(w, C, V)
  BY <1>7, <1>13, SameNoneEmpty
<1>14. u.tree = w /\ w = ShownOrNot(s.tree, v, value) /\ u.previous = s.previous
  BY <1>1, <1>4 DEF w
<1>15. QED BY <1>1, <1>5, <1>7, <1>8, <1>11, <1>12, <1>13, <1>14 DEF ShowsOrHides

-----------------------------------------------------------------------------
(* Fullscreen views.                                                       *)

\* The first name that is free, of a fullscreen view made from the one on the screen.
FreeName(w) == FullscreenNames[w.selected_view][Min(FreeNames(w))]

\* It is one that the selected view is the original of.
LEMMA FreeNameIsFree ==
  ASSUME NEW w, WellFormed(w), FreeNames(w) # {}
  PROVE  /\ w.selected_view \in w.views /\ w.selected_view \in Views
         /\ FreeName(w) \in Views \ w.views
         /\ Original[FreeName(w)] = w.selected_view
<1>1. PICK v, names, free : /\ v = w.selected_view /\ names = FullscreenNames[v]
                            /\ free = FreeNames(w)
  OBVIOUS
<1>2. v # None /\ free = {i \in DOMAIN names : names[i] \notin w.views}
  BY <1>1 DEF FreeNames
<1>3. v \in w.views /\ v \in Views
  BY <1>1, <1>2, ViewsOfTree DEF OrNone
<1>4. names \in Seq(Views) /\ \A u \in ToSet(names) : Original[u] = v
  BY <1>1, <1>3, FullscreenNamesAssumption
<1>5. free \in SUBSET Nat /\ DOMAIN names = 1..Len(names)
  BY <1>2, <1>4
<1>6. \E m \in free : \A n \in free : m <= n
  BY <1>1, <1>5, LeastNumber
<1>7. PICK m : m = Min(free)
  OBVIOUS
<1>8. m \in free
  BY <1>6, <1>7 DEF Min
<1>9. names[m] \in Views /\ names[m] \notin w.views /\ names[m] \in ToSet(names)
  BY <1>2, <1>4, <1>5, <1>8 DEF ToSet
<1>10. FreeName(w) = names[m]
  BY <1>1, <1>7 DEF FreeName
<1>11. QED BY <1>1, <1>3, <1>4, <1>9, <1>10

\* A column from the pool, if one is left.
LEMMA AnyColumnIsFree ==
  ASSUME NEW w, FreeColumns(w) # {}
  PROVE  AnyColumn(w) \in FreeColumns(w)
BY DEF AnyColumn

\* A frame without decorations.
Undecorated(w, f) == [NewFrame(w, f) EXCEPT !.decorated = @ \ {f}]

\* It is made and nothing else changes.
LEMMA UndecoratedEffect ==
  ASSUME NEW w \in Graph, NEW f \in Frames, NEW u, u = Undecorated(w, f)
  PROVE  /\ Repaints(w, u) /\ u.bar_visible = w.bar_visible
         /\ u.decorated = w.decorated \ {f}
<1>1. PICK n : n = NewFrame(w, f)
  OBVIOUS
<1>2. Repaints(w, n) /\ n.bar_visible = w.bar_visible /\ n.decorated = w.decorated \cup {f}
  BY <1>1, NewFrameEffect, NewFrameLook
<1>3. n \in Graph
  BY <1>2 DEF Repaints
<1>4. u = [n EXCEPT !.decorated = @ \ {f}]
  BY <1>1 DEF Undecorated
<1>5. Repaints(n, u) /\ u.bar_visible = n.bar_visible /\ u.decorated = n.decorated \ {f}
  BY ZenonT(60), <1>3, <1>4 DEF Repaints, Graph, SameViews
<1>6. Repaints(w, u)
  BY <1>2, <1>5 DEF Repaints, SameViews
<1>7. QED BY <1>2, <1>5, <1>6

\* The new view for a fullscreen frame, before it is shown.
FullscreenColumn(w, f, col) ==
  AddFrameAfterSelected(CreateColumn(Undecorated(w, f), ViewOf(f), 1, col), f, col)

\* A column with that frame is put into the new view.
LEMMA FullscreenColumnEffect ==
  ASSUME NEW w, WellFormed(w), NEW f \in Frames \ LiveFrames(w), ViewOf(f) \in w.views,
         ColumnsOf(w, ViewOf(f)) = {}, NEW col \in FreeColumns(w),
         NEW u, u = FullscreenColumn(w, f, col)
  PROVE  /\ WellFormed(u) /\ SameViews(w, u) /\ u.bar_visible = w.bar_visible
         /\ u.decorated = w.decorated \ {f}
         /\ u.column_of = [w.column_of EXCEPT ![f] = col]
         /\ \A c \in Columns : u.view_of[c] = IF c = col THEN ViewOf(f) ELSE w.view_of[c]
         /\ NoneEmptyBut(w, {}, {ViewOf(f)}) => NoneEmptyBut(u, {}, {})
<1>1. PICK v, n, i, x : /\ v = ViewOf(f) /\ n = Undecorated(w, f)
                        /\ i = 1 /\ x = CreateColumn(n, v, i, col)
  OBVIOUS
<1>2. w \in Graph /\ f \in Frames /\ v \in Views
  BY <1>1, FrameParts DEF WellFormed, WellLinked
<1>3. /\ Repaints(w, n) /\ n.bar_visible = w.bar_visible
      /\ n.decorated = w.decorated \ {f}
  BY <1>1, <1>2, UndecoratedEffect
<1>4. WellFormed(n)
  BY <1>3, RepaintsWellFormed
<1>5. n.column_of = w.column_of /\ n.view_of = w.view_of /\ SameViews(w, n) /\ n.columns = w.columns
  BY <1>3 DEF Repaints
<1>6. v \in n.views /\ col \in FreeColumns(n) /\ i \in 1..(Len(n.columns[v]) + 1)
  <2>1. n.columns[v] \in Seq(Columns)
    BY <1>2, <1>4 DEF WellFormed, WellLinked, Graph
  <2>2. Len(n.columns[v]) \in Nat
    BY <2>1
  <2>3. QED BY <1>1, <1>5, <2>2 DEF SameViews, FreeColumns
<1>7a. ColumnCreated(n, v, col, x)
  BY <1>1, <1>4, <1>6, CreatedColumn
<1>7. /\ WellFormed(x)
      /\ SameViews(n, x) /\ SameFrames(n, x)
      /\ \A c \in Columns : x.view_of[c] = IF c = col THEN v ELSE n.view_of[c]
  BY <1>7a DEF ColumnCreated
<1>8. SameLook(n, x)
  BY <1>1, <1>4, <1>6, CreateColumnLook
<1>9. /\ x.column_of = w.column_of /\ LiveFrames(x) = LiveFrames(w)
      /\ SameViews(w, x) /\ x.bar_visible = w.bar_visible
      /\ x.decorated = w.decorated \ {f}
  BY <1>3, <1>5, <1>7, <1>8 DEF SameFrames, LiveFrames, SameViews, SameLook
<1>10. f \in Frames \ LiveFrames(x) /\ col \in Columns /\ x.view_of[col] = ViewOf(f)
  BY <1>1, <1>7, <1>9 DEF FreeColumns
<1>11. u = AddFrameAfterSelected(x, f, col)
  BY <1>1 DEF FullscreenColumn
<1>12. /\ WellFormed(u)
       /\ SameViews(x, u)
       /\ u.columns = x.columns /\ u.view_of = x.view_of
       /\ u.column_of = [x.column_of EXCEPT ![f] = col]
       /\ u.marked = x.marked
  BY <1>7, <1>10, <1>11, AddFrameAfterSelectedWellFormed
<1>13. SameLook(x, u)
  BY <1>7, <1>10, <1>11, AddFrameAfterSelectedLook
<1>14. ASSUME NoneEmptyBut(w, {}, {v}) PROVE NoneEmptyBut(u, {}, {})
  <2>1. NoneEmptyBut(n, {}, {v})
    BY <1>5, <1>14, SameNoneEmpty
  <2>2. NoneEmptyBut(x, {col}, {})
    BY <1>1, <1>4, <1>6, <2>1, CreateColumnNoneEmpty
  <2>3. QED
    <3>1. PICK C, V : C = {col} /\ V = {}
      OBVIOUS
    <3>2. NoneEmptyBut(x, C, V) /\ C \subseteq {col}
      BY <2>2, <3>1
    <3>3. NoneEmptyBut(u, {}, V)
      BY <1>7, <1>10, <1>12, <3>2, FrameFillsColumn
    <3>4. QED BY <3>1, <3>3
<1>15. /\ SameViews(w, u) /\ u.bar_visible = w.bar_visible
       /\ u.decorated = w.decorated \ {f}
       /\ u.column_of = [w.column_of EXCEPT ![f] = col]
  BY <1>9, <1>12, <1>13 DEF SameViews, SameLook
<1>16. ASSUME NEW c \in Columns PROVE u.view_of[c] = IF c = col THEN ViewOf(f) ELSE w.view_of[c]
  BY <1>1, <1>5, <1>7, <1>12
<1>17. QED BY <1>1, <1>12, <1>14, <1>15, <1>16

\* Owners are the clients of frames.
LEMMA OwnersAre ==
  ASSUME NEW w
  PROVE  Owners(w) = {ClientOf(f) : f \in LiveFrames(w)}
<1>1. \A f \in LiveFrames(w) : ClientOf(f) \in Clients
  BY FrameParts DEF LiveFrames
<1>2. QED BY <1>1 DEF Owners, FramesOf

\* The steps of enable_fullscreen before the new view is shown.
Entered(t, w, f, v, col, n) ==
  /\ WellFormed(w) /\ Tidy(w)
  /\ SameLinks(t, w) /\ w.views = t.views \cup {v} /\ w.selected_view = t.selected_view
  /\ w.bar_visible = t.bar_visible /\ w.decorated = t.decorated
  /\ w.selected_column = t.selected_column /\ w.selected_frame = t.selected_frame
  /\ Filled(t) => NoneEmptyBut(w, {}, {v})
  /\ f \in Frames \ LiveFrames(w) /\ ViewOf(f) = v /\ ColumnsOf(w, v) = {}
  /\ col \in FreeColumns(w)
  /\ Sound(n) /\ n.tree = FullscreenColumn(w, f, col) /\ v \in n.tree.views

\* A view, which is not to show the bar, and a column in it for the frame.
LEMMA FullscreenEntered ==
  ASSUME NEW s, Sound(s), NEW c \in Clients, FreeNames(s.tree) # {}, FreeColumns(s.tree) # {},
         NEW u, u = CreateFullscreen(s, c)
  PROVE  \E w, col, n : /\ Entered(s.tree, w, <<c, FreeName(s.tree)>>, FreeName(s.tree), col, n)
                       /\ u = SelectViewAndTell(n, FreeName(s.tree))
<1>1. PICK t, v, f, a, m : /\ t = s.tree /\ v = FreeName(t) /\ f = <<c, v>>
                           /\ a = Tell(s, GetOrCreateView(t, v))
                           /\ m = SetBarVisible(a, v, FALSE)
  OBVIOUS
<1>2. WellFormed(t) /\ Tidy(t)
  BY <1>1, SoundParts
<1>3. v \in Views \ t.views /\ FreeColumns(t) # {}
  BY <1>1, <1>2, FreeNameIsFree
<1>4. /\ Sound(a)
      /\ SameLinks(t, a.tree)
      /\ a.tree.views = t.views \cup {v}
      /\ FreeColumns(a.tree) = FreeColumns(t)
      /\ LiveFrames(a.tree) = LiveFrames(t)
      /\ a.tree = GetOrCreateView(t, v) /\ a.tree.selected_view = t.selected_view
      /\ Filled(t) => NoneEmptyBut(a.tree, {}, {v})
  <2>1. v \in Views
    BY <1>3
  <2>2. /\ Sound(a) /\ a.tree = GetOrCreateView(s.tree, v)
        /\ SameLinks(s.tree, a.tree)
        /\ a.tree.views = s.tree.views \cup {v}
        /\ a.tree.selected_view = s.tree.selected_view /\ a.previous = s.previous
        /\ Owners(a.tree) = Owners(s.tree) /\ FreeColumns(a.tree) = FreeColumns(s.tree)
        /\ LiveFrames(a.tree) = LiveFrames(s.tree)
        /\ Filled(s.tree) => NoneEmptyBut(a.tree, {}, {v})
    BY <1>1, <2>1, ViewMade
  <2>3. QED BY <1>1, <2>2
<1>5. /\ Sound(m)
      /\ SameLinks(a.tree, m.tree) /\ SameViews(a.tree, m.tree)
      /\ LiveFrames(m.tree) = LiveFrames(a.tree)
      /\ FreeColumns(m.tree) = FreeColumns(a.tree)
      /\ Repaints(a.tree, m.tree) /\ m.tree = ShownOrNot(a.tree, v, FALSE)
      /\ \A C, V : NoneEmptyBut(a.tree, C, V) => NoneEmptyBut(m.tree, C, V)
  <2>1. PICK value : value = FALSE
    OBVIOUS
  <2>2. v \in a.tree.views /\ m = SetBarVisible(a, v, value) /\ Sound(a)
    BY <1>1, <1>4, <2>1
  <2>3. ShowsOrHides(a, m, v, value)
    BY <2>2, BarShownOrHidden
  <2>4. QED BY <2>1, <2>3 DEF ShowsOrHides
<1>6. PICK w, col, y, n : /\ w = m.tree /\ col = AnyColumn(Undecorated(w, f))
                          /\ y = FullscreenColumn(w, f, col) /\ n = Tell(m, y)
  OBVIOUS
<1>7. f \in Frames /\ ViewOf(f) = v /\ ClientOf(f) = c
  BY <1>1, <1>3, PairIsFrame
<1>8. /\ WellFormed(w) /\ Tidy(w) /\ w \in Graph
      /\ w.views = t.views \cup {v} /\ LiveFrames(w) = LiveFrames(t) /\ w.view_of = t.view_of
      /\ FreeColumns(w) = FreeColumns(t)
      /\ Filled(t) => NoneEmptyBut(w, {}, {v})
  BY <1>4, <1>5, <1>6, SoundParts DEF SameViews, SameLinks
<1>9. f \in Frames \ LiveFrames(w)
  BY <1>2, <1>3, <1>7, <1>8, FramesHaveViews
<1>10. col \in FreeColumns(w)
  <2>1. FreeColumns(Undecorated(w, f)) = FreeColumns(w)
    BY <1>7, <1>8, UndecoratedEffect DEF Repaints, FreeColumns
  <2>2. QED BY <1>3, <1>6, <1>8, <2>1, AnyColumnIsFree
<1>11. ColumnsOf(w, v) = {}
  <2>1. ColumnsOf(t, v) = {}
    BY <1>2, <1>3 DEF WellFormed, WellLinked, Tree
  <2>2. QED BY <1>8, <2>1 DEF ColumnsOf
<1>12. /\ WellFormed(y) /\ SameViews(w, y) /\ y.bar_visible = w.bar_visible
       /\ y.decorated = w.decorated \ {f}
       /\ y.column_of = [w.column_of EXCEPT ![f] = col]
       /\ \A x \in Columns : y.view_of[x] = IF x = col THEN ViewOf(f) ELSE w.view_of[x]
       /\ NoneEmptyBut(w, {}, {ViewOf(f)}) => NoneEmptyBut(y, {}, {})
  BY <1>6, <1>7, <1>8, <1>9, <1>10, <1>11, FullscreenColumnEffect
<1>13. LiveFrames(y) = LiveFrames(w) \cup {f}
  <2>1. DOMAIN w.column_of = Frames /\ col # None
    BY <1>8, <1>10, NoneIsNeither DEF Graph, FreeColumns
  <2>2. QED BY <1>7, <1>12, <2>1 DEF LiveFrames
<1>14. Follows(w, y)
  <2>1. Tidy(y)
    BY <1>8, <1>12, <1>13 DEF Tidy, SameViews
  <2>2. QED BY <1>12, <2>1, FollowsSame
<1>15. Sound(n) /\ n.tree = y
  BY <1>5, <1>6, <1>14, TellKeeps
<1>16. v \in n.tree.views
  BY <1>8, <1>12, <1>15 DEF SameViews
<1>17. u = SelectViewAndTell(n, v)
  <2>1. NewView(t, v) = GetOrCreateView(t, v)
    BY <1>3 DEF GetOrCreateView
  <2>2. v = FullscreenNames[s.tree.selected_view][Min(FreeNames(s.tree))]
    BY <1>1 DEF FreeName
  <2>3. m = SetBarVisible(Tell(s, NewView(s.tree, v)), v, FALSE)
    BY <1>1, <2>1
  <2>4. u = LET z == Undecorated(m.tree, f)
            IN SelectViewAndTell(
                 Tell(m, AddFrameAfterSelected(CreateColumn(z, v, 1, AnyColumn(z)), f, AnyColumn(z))), v)
    BY <1>1, <2>2, <2>3 DEF CreateFullscreen, Undecorated
  <2>5. n = LET z == Undecorated(m.tree, f)
            IN Tell(m, AddFrameAfterSelected(CreateColumn(z, v, 1, AnyColumn(z)), f, AnyColumn(z)))
    BY <1>6, <1>7 DEF FullscreenColumn
  <2>6. QED BY <2>4, <2>5
<1>18. /\ SameLinks(t, w) /\ w.selected_view = t.selected_view
       /\ w.selected_column = t.selected_column /\ w.selected_frame = t.selected_frame
       /\ w.bar_visible = t.bar_visible /\ w.decorated = t.decorated
  <2>1. PICK g : g = a.tree
    OBVIOUS
  <2>2. g = NewView(t, v) /\ t \in Graph
    BY <1>2, <1>3, <1>4, <2>1 DEF GetOrCreateView, WellFormed, WellLinked
  <2>3. /\ g.selected_column = t.selected_column /\ g.selected_frame = t.selected_frame
        /\ g.decorated = t.decorated /\ g.bar_visible = t.bar_visible \cup {v} /\ g \in Graph
    <3>1. WellFormed(g)
      BY <1>4, <2>1, SoundParts
    <3>2. QED BY <2>2, <3>1 DEF NewView, Graph, WellFormed, WellLinked
  <2>4. w = ShownOrNot(g, v, FALSE) /\ Repaints(g, w) /\ SameLinks(g, w) /\ SameViews(g, w)
    BY <1>5, <1>6, <2>1
  <2>5. w.decorated = g.decorated /\ w.bar_visible = g.bar_visible \ {v}
    BY <2>3, <2>4 DEF ShownOrNot, Graph
  <2>6. v \notin t.bar_visible
    BY <1>2, <1>3 DEF Tidy
  <2>7. w.bar_visible = t.bar_visible
    BY <2>3, <2>5, <2>6
  <2>8. SameLinks(t, g) /\ g.selected_view = t.selected_view
    BY <1>4, <2>1
  <2>9. QED BY <2>3, <2>4, <2>5, <2>7, <2>8 DEF Repaints, SameLinks, SameViews
<1>19. Entered(t, w, f, v, col, n)
  BY <1>6, <1>7, <1>8, <1>9, <1>10, <1>11, <1>15, <1>16, <1>18 DEF Entered
<1>20. QED BY <1>1, <1>17, <1>19

\* enable_fullscreen of a frame that has no fullscreen view: one is made and shown.
LEMMA FullscreenCreated ==
  ASSUME NEW s, Sound(s), NEW c \in Clients, FreeNames(s.tree) # {}, FreeColumns(s.tree) # {},
         NEW u, u = CreateFullscreen(s, c)
  PROVE  /\ Sound(u)
         /\ u.tree.selected_view = FreeName(s.tree)
         /\ LiveFrames(u.tree) = LiveFrames(s.tree) \cup {<<c, FreeName(s.tree)>>}
         /\ Owners(u.tree) = Owners(s.tree) \cup {c}
         /\ Filled(s.tree) => Filled(u.tree)
<1>1. PICK t, v, f : t = s.tree /\ v = FreeName(t) /\ f = <<c, v>>
  OBVIOUS
<1>2. PICK w, col, n : Entered(t, w, f, v, col, n) /\ u = SelectViewAndTell(n, v)
  BY <1>1, FullscreenEntered
<1>3. PICK y : y = n.tree
  OBVIOUS
<1>4. /\ WellFormed(w) /\ v \in w.views /\ LiveFrames(w) = LiveFrames(t)
      /\ Filled(t) => NoneEmptyBut(w, {}, {v})
      /\ f \in Frames \ LiveFrames(w) /\ ViewOf(f) = v /\ ColumnsOf(w, v) = {}
      /\ col \in FreeColumns(w) /\ y = FullscreenColumn(w, f, col)
      /\ Sound(n) /\ v \in n.tree.views
  BY <1>2, <1>3 DEF Entered, SameLinks, LiveFrames
<1>5. /\ WellFormed(y) /\ SameViews(w, y) /\ y.bar_visible = w.bar_visible
      /\ y.decorated = w.decorated \ {f}
      /\ y.column_of = [w.column_of EXCEPT ![f] = col]
      /\ \A x \in Columns : y.view_of[x] = IF x = col THEN ViewOf(f) ELSE w.view_of[x]
      /\ NoneEmptyBut(w, {}, {ViewOf(f)}) => NoneEmptyBut(y, {}, {})
  BY <1>4, FullscreenColumnEffect
<1>6. LiveFrames(y) = LiveFrames(w) \cup {f}
  <2>1. DOMAIN w.column_of = Frames /\ col # None
    BY <1>4, NoneIsNeither DEF WellFormed, WellLinked, Graph, FreeColumns
  <2>2. QED BY <1>4, <1>5, <2>1 DEF LiveFrames
<1>7. Sound(n) /\ v \in n.tree.views /\ u = SelectViewAndTell(n, v)
  BY <1>2, <1>4
<1>8. /\ Sound(u)
      /\ SameLinks(n.tree, u.tree)
      /\ u.tree.selected_view = v /\ v \in u.tree.views /\ u.tree.views \subseteq n.tree.views
      /\ u.tree.bar_visible = n.tree.bar_visible \ (n.tree.views \ u.tree.views)
      /\ u.previous = IF v # n.tree.selected_view /\ n.tree.selected_view # None
                      THEN n.tree.selected_view ELSE n.previous
      /\ Owners(u.tree) = Owners(n.tree) /\ FreeColumns(u.tree) = FreeColumns(n.tree)
      /\ NoneEmptyBut(n.tree, {}, {v}) => Filled(u.tree)
  BY <1>7, ViewSelected
<1>9. LiveFrames(u.tree) = LiveFrames(t) \cup {f}
  BY <1>3, <1>4, <1>6, <1>8, SameOwners DEF SameLinks
<1>10. Owners(u.tree) = Owners(t) \cup {c}
  <2>1. ClientOf(f) = c
    BY <1>1 DEF ClientOf
  <2>2. QED BY <1>9, <2>1, OwnersAre
<1>11. Filled(t) => Filled(u.tree)
  <2>1. Filled(t) => NoneEmptyBut(y, {}, {})
    BY <1>4, <1>5
  <2>2. Filled(t) => NoneEmptyBut(y, {}, {v})
    BY <2>1, MoreMayBeEmpty
  <2>3. Filled(t) => NoneEmptyBut(n.tree, {}, {v})
    BY <1>3, <2>2
  <2>4. NoneEmptyBut(n.tree, {}, {v}) => Filled(u.tree)
    BY <1>8
  <2>5. QED BY <2>3, <2>4
<1>12. QED BY <1>1, <1>8, <1>9, <1>10, <1>11

\* is_fullscreen_frame finds a frame of the same client in another view.
LEMMA OriginalFrameIsOther ==
  ASSUME NEW w, WellFormed(w), NEW f \in LiveFrames(w), OriginalFrame(w, f) # None
  PROVE  /\ OriginalFrame(w, f) \in LiveFrames(w) \ {f}
         /\ OriginalFrame(w, f) = <<ClientOf(f), Original[ViewOf(f)]>>
         /\ ClientOf(OriginalFrame(w, f)) = ClientOf(f)
         /\ ViewOf(OriginalFrame(w, f)) = Original[ViewOf(f)]
         /\ Original[ViewOf(f)] \in w.views /\ Original[ViewOf(f)] # ViewOf(f)
<1>1. PICK c, v, o, g : c = ClientOf(f) /\ v = ViewOf(f) /\ o = Original[v] /\ g = <<c, o>>
  OBVIOUS
<1>2. v \in Views /\ c \in Clients
  BY <1>1, FramesHaveViews
<1>3. OriginalFrame(w, f) = g /\ HasFrame(w, c, o)
  BY <1>1 DEF OriginalFrame
<1>4. o # None /\ w.column_of[g] # None
  BY <1>1, <1>3 DEF HasFrame
<1>5. o \in Views /\ o # v
  BY <1>1, <1>2, <1>4, OriginalAssumption DEF OrNone
<1>6. g \in Frames /\ ClientOf(g) = c /\ ViewOf(g) = o
  BY <1>1, <1>2, <1>5, PairIsFrame
<1>7. g \in LiveFrames(w) /\ g # f
  BY <1>1, <1>4, <1>5, <1>6 DEF LiveFrames
<1>8. o \in w.views
  BY <1>6, <1>7, FramesHaveViews
<1>9. QED BY <1>1, <1>3, <1>5, <1>6, <1>7, <1>8

\* enable_fullscreen.
LEMMA FullscreenEnabled ==
  ASSUME NEW s, Sound(s), NEW c \in Clients, FreeColumns(s.tree) # {},
         NEW u \in EnableFullscreen(s, c)
  PROVE  /\ Sound(u)
         /\ Owners(u.tree) = Owners(s.tree) \cup {c}
         /\ Filled(s.tree) => Filled(u.tree)
<1>1. CASE FullscreenFrames(s.tree, c) # {}
  <2>1. PICK f \in FullscreenFrames(s.tree, c) : u = ShowFullscreen(s, f)
    BY <1>1 DEF EnableFullscreen
  <2>2. f \in LiveFrames(s.tree) /\ ClientOf(f) = c
    BY DEF FullscreenFrames, FramesOf
  <2>3. /\ Sound(u)
        /\ u.tree.selected_view = ViewOf(f)
        /\ LiveFrames(u.tree) = LiveFrames(s.tree)
        /\ Owners(u.tree) = Owners(s.tree) /\ FreeColumns(u.tree) = FreeColumns(s.tree)
        /\ Filled(s.tree) => Filled(u.tree)
    BY <2>1, <2>2, FrameShown
  <2>4. c \in Owners(s.tree)
    BY <2>2, OwnersAre
  <2>5. QED BY <2>3, <2>4
<1>2. CASE FullscreenFrames(s.tree, c) = {}
  <2>1. FreeNames(s.tree) # {} /\ u = CreateFullscreen(s, c)
    BY <1>2 DEF EnableFullscreen
  <2>2. /\ Sound(u)
        /\ u.tree.selected_view = FreeName(s.tree)
        /\ LiveFrames(u.tree) = LiveFrames(s.tree) \cup {<<c, FreeName(s.tree)>>}
        /\ Owners(u.tree) = Owners(s.tree) \cup {c}
        /\ Filled(s.tree) => Filled(u.tree)
    BY <2>1, FullscreenCreated
  <2>3. QED BY <2>2
<1>3. QED BY <1>1, <1>2

\* disable_fullscreen.
LEMMA FullscreenDisabled ==
  ASSUME NEW s, Sound(s), NEW f \in LiveFrames(s.tree), NEW u, u = DisableFullscreen(s, f)
  PROVE  /\ Sound(u)
         /\ Owners(u.tree) = Owners(s.tree)
         /\ FreeColumns(s.tree) \subseteq FreeColumns(u.tree)
         /\ Filled(s.tree) => Filled(u.tree)
         /\ OriginalFrame(s.tree, f) # None =>
              u.tree.selected_view = Original[ViewOf(f)]
<1>1. PICK g, d : g = OriginalFrame(s.tree, f) /\ d = DeleteFrameAndTell(s, f)
  OBVIOUS
<1>2. CASE g = None
  BY <1>1, <1>2 DEF DisableFullscreen
<1>3. CASE g # None
  <2>1. /\ g \in LiveFrames(s.tree) \ {f}
        /\ ClientOf(g) = ClientOf(f) /\ ViewOf(g) = Original[ViewOf(f)]
    BY <1>1, <1>3, SoundParts, OriginalFrameIsOther
  <2>2. /\ Sound(d)
        /\ LiveFrames(d.tree) = LiveFrames(s.tree) \ {f}
        /\ FreeColumns(s.tree) \subseteq FreeColumns(d.tree)
        /\ Filled(s.tree) => Filled(d.tree)
    BY <1>1, FrameDeleted
  <2>3. u = ShowFullscreen(d, g)
    BY <1>1, <1>3 DEF DisableFullscreen
  <2>4. g \in LiveFrames(d.tree)
    BY <2>1, <2>2
  <2>5. /\ Sound(u)
        /\ u.tree.selected_view = ViewOf(g)
        /\ LiveFrames(u.tree) = LiveFrames(d.tree)
        /\ Owners(u.tree) = Owners(d.tree) /\ FreeColumns(u.tree) = FreeColumns(d.tree)
        /\ Filled(d.tree) => Filled(u.tree)
    BY <2>2, <2>3, <2>4, FrameShown
  <2>6. Owners(d.tree) = Owners(s.tree)
    BY <2>1, <2>2, OwnersAre
  <2>7. QED BY <1>1, <2>1, <2>2, <2>5, <2>6
<1>4. QED BY <1>2, <1>3

\* check_fullscreen_on_place_client.
LEMMA SelectedLeft ==
  ASSUME NEW s, Sound(s), NEW u, u = LeaveSelected(s)
  PROVE  /\ Sound(u)
         /\ Owners(u.tree) = Owners(s.tree)
         /\ FreeColumns(s.tree) \subseteq FreeColumns(u.tree)
         /\ Filled(s.tree) => Filled(u.tree)
<1>1. CASE SelectedFrame(s.tree) = None
  BY <1>1 DEF LeaveSelected
<1>2. CASE SelectedFrame(s.tree) # None
  <2>1. PICK f : f = SelectedFrame(s.tree)
    OBVIOUS
  <2>2. f \in LiveFrames(s.tree)
    BY <1>2, <2>1, SoundParts, CurrentFrameIsLive
  <2>3. u = DisableFullscreen(s, f)
    BY <1>2, <2>1 DEF LeaveSelected
  <2>4. /\ Sound(u)
        /\ Owners(u.tree) = Owners(s.tree)
        /\ FreeColumns(s.tree) \subseteq FreeColumns(u.tree)
        /\ Filled(s.tree) => Filled(u.tree)
        /\ OriginalFrame(s.tree, f) # None =>
             u.tree.selected_view = Original[ViewOf(f)]
    BY <2>2, <2>3, FullscreenDisabled
  <2>5. QED BY <2>4
<1>3. QED BY <1>1, <1>2

\* WM::place_client.
LEMMA ClientPlaced ==
  ASSUME NEW s, Sound(s), NEW c \in Clients, c \notin Owners(s.tree), FreeColumns(s.tree) # {},
         NEW u, u = Placed(s, c)
  PROVE  /\ Sound(u)
         /\ Owners(u.tree) = Owners(s.tree) \cup {c}
         /\ \E col : FreeColumns(s.tree) \ {col} \subseteq FreeColumns(u.tree)
         /\ Filled(s.tree) => Filled(u.tree)
<1>1. PICK t, col, m, w : /\ t = s.tree /\ col = AnyColumn(t) /\ m = Misc
                          /\ w = PlaceClient(t, c, m, col)
  OBVIOUS
<1>2. WellFormed(t) /\ Tidy(t) /\ m \in Views
  BY <1>1, SoundParts, ViewsAreNumbers
<1>3. FramesOf(t, c) = {} /\ col \in FreeColumns(t)
  BY <1>1, AnyColumnIsFree DEF Owners
<1>4. /\ WellFormed(w)
      /\ w.selected_view # None
      /\ LiveFrames(w) = LiveFrames(t) \cup {<<c, w.selected_view>>}
      /\ w.marked = t.marked \ {<<c, w.selected_view>>}
      /\ w.selected_view = IF t.selected_view = None THEN m ELSE t.selected_view
      /\ NoneEmptyBut(t, {}, {}) => NoneEmptyBut(w, {}, {})
  BY <1>1, <1>2, <1>3, PlaceClientWellFormed
<1>5. /\ t.selected_view # None => w.views = t.views /\ w.bar_visible = t.bar_visible
      /\ t.selected_view = None =>
           w.views = t.views \cup {m} /\ w.bar_visible = t.bar_visible \cup {m}
      /\ w.decorated = t.decorated \cup {<<c, w.selected_view>>}
      /\ \A x \in Columns \ {col} : w.view_of[x] = t.view_of[x]
  BY <1>1, <1>2, <1>3, PlaceClientLook
<1>6. Follows(t, w)
  <2>1. Tidy(w)
    BY <1>2, <1>4, <1>5 DEF Tidy
  <2>2. CASE t.selected_view # None
    BY <1>4, <1>5, <2>1, <2>2, FollowsSame DEF SameViews
  <2>3. CASE t.selected_view = None
    <3>1. w.views \subseteq t.views \cup {m} /\ t.views \subseteq w.views \cup {m}
      BY <1>5, <2>3
    <3>2. QED BY <1>4, <2>1, <2>3, <3>1 DEF Follows, Changes
  <2>4. QED BY <2>2, <2>3
<1>7. Sound(u) /\ u.tree = w
  <2>1. u = Tell(s, w)
    BY <1>1 DEF Placed
  <2>2. QED BY <1>1, <1>6, <2>1, TellKeeps
<1>8. Owners(w) = Owners(t) \cup {c}
  <2>1. ClientOf(<<c, w.selected_view>>) = c
    BY DEF ClientOf
  <2>2. QED BY <1>4, <2>1, OwnersAre
<1>9. FreeColumns(t) \ {col} \subseteq FreeColumns(w)
  BY <1>5 DEF FreeColumns
<1>10. QED BY <1>1, <1>4, <1>7, <1>8, <1>9 DEF Filled

\* Two columns at least are free.
TwoFree(w) == \A col : FreeColumns(w) \ {col} # {}

\* The bound on the columns.
LEMMA RoomyIsTwo ==
  ASSUME NEW w, WellFormed(w), Roomy(w)
  PROVE  TwoFree(w) /\ FreeColumns(w) # {}
<1>1. IsFiniteSet(FreeColumns(w))
  <2>1. FreeColumns(w) \subseteq Columns
    BY DEF FreeColumns
  <2>2. QED BY <2>1, PoolIsFinite, FS_Subset
<1>2. ASSUME NEW col, FreeColumns(w) \ {col} = {} PROVE FALSE
  <2>1. FreeColumns(w) \subseteq {col}
    BY <1>2
  <2>2. IsFiniteSet({col}) /\ Cardinality({col}) = 1
    BY FS_Singleton
  <2>3. Cardinality(FreeColumns(w)) <= 1
    BY <2>1, <2>2, FS_Subset
  <2>4. Cardinality(FreeColumns(w)) \in Nat
    BY <1>1, FS_CardinalityType
  <2>5. QED BY <2>3, <2>4 DEF Roomy
<1>3. QED BY <1>2 DEF TwoFree

\* WM::place_client between its two hooks.
LEMMA ClientPlacedWithHooks ==
  ASSUME NEW s, Sound(s), NEW c \in Clients, c \notin Owners(s.tree), TwoFree(s.tree),
         NEW wanted, NEW u \in PlaceWithHooks(s, c, wanted)
  PROVE  /\ Sound(u)
         /\ Owners(u.tree) = Owners(s.tree) \cup {c}
         /\ Filled(s.tree) => Filled(u.tree)
<1>1. PICK l, p : l = LeaveSelected(s) /\ p = Placed(l, c)
  OBVIOUS
<1>2. /\ Sound(l)
      /\ Owners(l.tree) = Owners(s.tree)
      /\ FreeColumns(s.tree) \subseteq FreeColumns(l.tree)
      /\ Filled(s.tree) => Filled(l.tree)
  BY <1>1, SelectedLeft
<1>3. FreeColumns(l.tree) # {} /\ c \notin Owners(l.tree)
  BY <1>2 DEF TwoFree
<1>4. /\ Sound(p)
      /\ Owners(p.tree) = Owners(l.tree) \cup {c}
      /\ \E col : FreeColumns(l.tree) \ {col} \subseteq FreeColumns(p.tree)
      /\ Filled(l.tree) => Filled(p.tree)
  BY <1>1, <1>2, <1>3, ClientPlaced
<1>5. FreeColumns(p.tree) # {}
  BY <1>2, <1>4 DEF TwoFree
<1>6. u \in EnableIf(wanted, p, c)
  BY <1>1 DEF PlaceWithHooks
<1>7. CASE ~ wanted
  <2>1. u = p
    BY <1>6, <1>7 DEF EnableIf
  <2>2. QED BY <1>2, <1>4, <2>1
<1>8. CASE wanted
  <2>1. u \in EnableFullscreen(p, c)
    BY <1>6, <1>8 DEF EnableIf
  <2>2. /\ Sound(u)
        /\ Owners(u.tree) = Owners(p.tree) \cup {c}
        /\ Filled(p.tree) => Filled(u.tree)
    BY <1>4, <1>5, <2>1, FullscreenEnabled
  <2>3. QED BY <1>2, <1>4, <2>2
<1>9. QED BY <1>7, <1>8

\* The frame of a client that is on the screen.
LEMMA FrameOnScreenIsLive ==
  ASSUME NEW w, WellFormed(w), NEW c \in Clients, FrameOnScreen(w, c) # None
  PROVE  /\ FrameOnScreen(w, c) \in LiveFrames(w)
         /\ FrameOnScreen(w, c) = <<c, w.selected_view>>
         /\ ClientOf(FrameOnScreen(w, c)) = c /\ ViewOf(FrameOnScreen(w, c)) = w.selected_view
         /\ w.selected_view \in w.views /\ w.selected_view \in Views
<1>1. HasFrame(w, c, w.selected_view) /\ FrameOnScreen(w, c) = <<c, w.selected_view>>
  BY DEF FrameOnScreen
<1>2. w.selected_view \in w.views /\ w.selected_view \in Views
  BY <1>1, ViewsOfTree DEF HasFrame, OrNone
<1>3. <<c, w.selected_view>> \in Frames
  BY <1>2, PairIsFrame
<1>4. QED BY <1>1, <1>2, <1>3, PairIsFrame DEF LiveFrames, HasFrame

\* check_fullscreen_on_unmanage_client.
LEMMA FullscreenLeft ==
  ASSUME NEW s, Sound(s), NEW c \in Clients, NEW u, u = LeaveFullscreen(s, c)
  PROVE  /\ Sound(u)
         /\ LiveFrames(u.tree) = LiveFrames(s.tree)
         /\ Owners(u.tree) = Owners(s.tree)
         /\ FreeColumns(s.tree) \subseteq FreeColumns(u.tree)
         /\ Filled(s.tree) => Filled(u.tree)
<1>1. PICK t, f, v : t = s.tree /\ f = FrameOnScreen(t, c) /\ v = ViewOf(f)
  OBVIOUS
<1>2. CASE u = s
  BY <1>2
<1>3. CASE u # s
  <2>1. f # None /\ OriginalFrame(t, f) # None /\ u = SelectViewAndTell(s, Original[v])
    BY <1>1, <1>3 DEF LeaveFullscreen
  <2>2. WellFormed(t)
    BY <1>1, SoundParts
  <2>3. f \in LiveFrames(t)
    BY <1>1, <2>1, <2>2, FrameOnScreenIsLive
  <2>4. Original[v] \in t.views
    BY <1>1, <2>1, <2>2, <2>3, OriginalFrameIsOther
  <2>5. PICK o : o \in s.tree.views /\ u = SelectViewAndTell(s, o)
    BY <1>1, <2>1, <2>4
  <2>6. /\ Sound(u)
        /\ SameLinks(s.tree, u.tree)
        /\ u.tree.selected_view = o /\ o \in u.tree.views /\ u.tree.views \subseteq s.tree.views
        /\ u.tree.bar_visible = s.tree.bar_visible \ (s.tree.views \ u.tree.views)
        /\ u.previous = IF o # s.tree.selected_view /\ s.tree.selected_view # None
                        THEN s.tree.selected_view ELSE s.previous
        /\ Owners(u.tree) = Owners(s.tree) /\ FreeColumns(u.tree) = FreeColumns(s.tree)
        /\ NoneEmptyBut(s.tree, {}, {o}) => Filled(u.tree)
    BY <2>5, ViewSelected
  <2>7. LiveFrames(u.tree) = LiveFrames(s.tree)
    BY <2>6, SameOwners DEF SameLinks
  <2>8. QED BY <2>6, <2>7, MoreMayBeEmpty DEF Filled
<1>4. QED BY <1>2, <1>3

-----------------------------------------------------------------------------
(* Loops.  What a loop has made after each turn is a recursive function of *)
(* the turn, which has to be shown to exist.                               *)

\* The loop of ~WClient over the frames of the client.
DeletesInTurn(after, s, list, n) ==
  after = [i \in 0..n |-> IF i = 0 THEN s ELSE DeleteFrameAndTell(after[i - 1], list[i])]

\* There is such a function.
LEMMA DeletesRecursion ==
  ASSUME NEW s, NEW list, NEW n \in Nat
  PROVE  \E f : DeletesInTurn(f, s, list, n)
<1> DEFINE T == {k \in Nat : \E f : DeletesInTurn(f, s, list, k)}
<1>1. 0 \in T
  <2>1. PICK g : g = [i \in 0..0 |-> s]
    OBVIOUS
  <2>2. DeletesInTurn(g, s, list, 0)
    BY <2>1 DEF DeletesInTurn
  <2>3. QED BY <2>2
<1>2. ASSUME NEW k \in 1..n, k - 1 \in T PROVE k \in T
  <2>1. PICK f : DeletesInTurn(f, s, list, k - 1)
    BY <1>2
  <2>2. PICK g : g = [i \in 0..k |-> IF i = 0 THEN s ELSE DeleteFrameAndTell(f[i - 1], list[i])]
    OBVIOUS
  <2>3. ASSUME NEW i \in 0..k, i # 0 PROVE g[i - 1] = f[i - 1]
    BY <2>1, <2>2, <2>3 DEF DeletesInTurn
  <2>4. DeletesInTurn(g, s, list, k)
    BY <2>2, <2>3 DEF DeletesInTurn
  <2>5. QED BY <2>4
<1> HIDE DEF T
<1>3. n \in T
  BY <1>1, <1>2, AfterTurns
<1>4. QED BY <1>3 DEF T

\* A client that goes takes all its frames with it.
LEMMA FramesDeleted ==
  ASSUME NEW s, Sound(s), NEW c \in Clients, NEW u, u = DeleteFrames(s, c)
  PROVE  /\ Sound(u)
         /\ u.tree.selected_view = s.tree.selected_view /\ u.previous = s.previous
         /\ LiveFrames(u.tree) = LiveFrames(s.tree) \ FramesOf(s.tree, c)
         /\ Owners(u.tree) = Owners(s.tree) \ {c}
         /\ FreeColumns(s.tree) \subseteq FreeColumns(u.tree)
         /\ Filled(s.tree) => Filled(u.tree)
<1>1. PICK t, S, list, n : t = s.tree /\ S = FramesOf(t, c) /\ list = SetToSeq(S) /\ n = Len(list)
  OBVIOUS
<1>2. S \subseteq LiveFrames(t) /\ S \in SUBSET Frames /\ IsFiniteSet(S)
  <2>1. WellFormed(t)
    BY <1>1, SoundParts
  <2>2. t.activity \in Seq(Frames) /\ Enumerates(t.activity, LiveFrames(t))
    BY <2>1 DEF WellFormed, WellLinked, Graph, Histories
  <2>3. IsFiniteSet(LiveFrames(t))
    BY <2>2, EnumeratedIsFinite
  <2>4. S \subseteq LiveFrames(t) /\ LiveFrames(t) \subseteq Frames
    BY <1>1 DEF FramesOf, LiveFrames
  <2>5. QED BY <2>3, <2>4, FS_Subset
<1>3. list \in Seq(Frames) /\ Enumerates(list, S)
  BY <1>1, <1>2, SetToSeqEnumerates
<1>4. n \in Nat /\ DOMAIN list = 1..n
  BY <1>1, <1>3
<1>5. \A i \in 1..n : list[i] \in S /\ \A j \in 1..n : j # i => list[j] # list[i]
  BY <1>3, <1>4 DEF Enumerates, IsInjective, ToSet
<1>6. PICK after : DeletesInTurn(after, s, list, n) /\ u = after[n]
  <2>1. \E f : DeletesInTurn(f, s, list, n)
    BY <1>4, DeletesRecursion
  <2>2. u = (CHOOSE f : DeletesInTurn(f, s, list, n))[n]
    BY <1>1, Zenon DEF DeleteFrames, Loop, DeletesInTurn
  <2>3. DeletesInTurn(CHOOSE f : DeletesInTurn(f, s, list, n), s, list, n)
    BY <2>1, Zenon
  <2>4. QED BY <2>2, <2>3
<1>7. after[0] = s /\ \A i \in 1..n : after[i] = DeleteFrameAndTell(after[i - 1], list[i])
  BY <1>4, <1>6 DEF DeletesInTurn
<1> DEFINE Gone(i) == {list[j] : j \in 1..i}
           Holds(i) == /\ Sound(after[i])
                       /\ after[i].tree.selected_view = t.selected_view
                       /\ after[i].previous = s.previous
                       /\ LiveFrames(after[i].tree) = LiveFrames(t) \ Gone(i)
                       /\ FreeColumns(t) \subseteq FreeColumns(after[i].tree)
                       /\ Filled(t) => Filled(after[i].tree)
           T == {i \in 0..n : Holds(i)}
<1>8. 0 \in T
  <2>1. Gone(0) = {}
    OBVIOUS
  <2>2. Holds(0)
    BY <1>1, <1>7, <2>1
  <2>3. QED BY <1>4, <2>2
<1>9. ASSUME NEW i \in 1..n, i - 1 \in T PROVE i \in T
  <2>1. PICK a, b, f : a = after[i - 1] /\ b = after[i] /\ f = list[i]
    OBVIOUS
  <2>2. Holds(i - 1) /\ i \in 0..n
    BY <1>9
  <2>3. b = DeleteFrameAndTell(a, f) /\ f \in S
    BY <1>5, <1>7, <2>1
  <2>4. Gone(i) = Gone(i - 1) \cup {f} /\ f \notin Gone(i - 1)
    <3>1. \A j \in 1..(i - 1) : j \in 1..n /\ j # i
      BY <1>4
    <3>2. 1..i = (1..(i - 1)) \cup {i}
      BY <1>4
    <3>3. QED BY <1>5, <2>1, <3>1, <3>2
  <2> HIDE DEF Gone
  <2>5. Sound(a) /\ f \in LiveFrames(a.tree)
    BY <1>2, <2>1, <2>2, <2>3, <2>4
  <2>6. /\ Sound(b)
        /\ b.tree.selected_view = a.tree.selected_view /\ b.previous = a.previous
        /\ b.tree.views = a.tree.views \/ b.tree.views = a.tree.views \ {ViewOf(f)}
        /\ LiveFrames(b.tree) = LiveFrames(a.tree) \ {f}
        /\ FreeColumns(a.tree) \subseteq FreeColumns(b.tree)
        /\ Filled(a.tree) => Filled(b.tree)
    BY <2>3, <2>5, FrameDeleted
  <2>7. Holds(i)
    BY <2>1, <2>2, <2>4, <2>6
  <2>8. QED BY <2>2, <2>7
<1>10. Holds(n)
  <2> HIDE DEF T, Holds
  <2>1. n \in T
    BY <1>4, <1>8, <1>9, AfterTurns
  <2>2. QED BY <2>1 DEF T
<1>11. Gone(n) = S
  BY <1>3, <1>4 DEF Enumerates, ToSet
<1>12. LiveFrames(u.tree) = LiveFrames(t) \ S
  BY <1>6, <1>10, <1>11
<1>13. Owners(u.tree) = Owners(t) \ {c}
  BY <1>1, <1>12, OwnersAre DEF FramesOf
<1>14. QED BY <1>1, <1>6, <1>10, <1>12, <1>13

\* unmanage_client.
LEMMA ClientUnmanaged ==
  ASSUME NEW s, Sound(s), NEW c \in Clients, NEW u, u = Unmanaged(s, c)
  PROVE  /\ Sound(u)
         /\ Owners(u.tree) = Owners(s.tree) \ {c}
         /\ Filled(s.tree) => Filled(u.tree)
<1>1. PICK l : l = LeaveFullscreen(s, c)
  OBVIOUS
<1>2. /\ Sound(l)
      /\ LiveFrames(l.tree) = LiveFrames(s.tree)
      /\ Owners(l.tree) = Owners(s.tree)
      /\ FreeColumns(s.tree) \subseteq FreeColumns(l.tree)
      /\ Filled(s.tree) => Filled(l.tree)
  BY <1>1, FullscreenLeft
<1>3. u = DeleteFrames(l, c)
  BY <1>1 DEF Unmanaged
<1>4. /\ Sound(u)
      /\ u.tree.selected_view = l.tree.selected_view /\ u.previous = l.previous
      /\ LiveFrames(u.tree) = LiveFrames(l.tree) \ FramesOf(l.tree, c)
      /\ Owners(u.tree) = Owners(l.tree) \ {c}
      /\ FreeColumns(l.tree) \subseteq FreeColumns(u.tree)
      /\ Filled(l.tree) => Filled(u.tree)
  BY <1>2, <1>3, FramesDeleted
<1>5. QED BY <1>2, <1>4

-----------------------------------------------------------------------------
(* What the user and the clients ask for.                                  *)

\* No window gets its first frame or loses its last one, and nothing becomes empty.
Keeps(s, u) ==
  /\ Sound(u)
  /\ Owners(u.tree) = Owners(s.tree)
  /\ Filled(s.tree) => Filled(u.tree)

\* A place in a circle of names, and the one a step further.
LEMMA NextPlace ==
  ASSUME NEW n \in Nat, NEW i \in 1..n, NEW step \in Nat
  PROVE  ((i - 1 + step) % n) + 1 \in 1..n
<1>1. (i - 1 + step) % n \in 0..(n - 1)
  OBVIOUS
<1>2. QED BY <1>1

\* BarViewApplet::select_next and select_prev find a view.
LEMMA BesideIsView ==
  ASSUME NEW s, Sound(s), s.tree.selected_view # None, s = session,
         NEW step \in {1, Len(Ids(session.bar, "left")) - 1}
  PROVE  Beside(step) \in s.tree.views
<1>1. PICK b, V, chosen, v : /\ b = s.bar /\ V = s.tree.views /\ chosen = Chosen(s.tree)
                             /\ v = s.tree.selected_view
  OBVIOUS
<1>2. HoldsViews(b, V, chosen)
  BY <1>1 DEF Sound, Consistent, BarFollows
<1>3. PICK names : Grows(names) /\ ToSet(names) = V /\ b.cells["left"] = ViewCells(names, chosen)
  BY <1>2 DEF HoldsViews
<1>4. /\ Len(names) \in Nat /\ DOMAIN names = 1..Len(names)
      /\ \A i \in 1..Len(names) : names[i] \in Nat /\ names[i] \in ToSet(names)
      /\ b.cells["left"] \in Seq({ViewCell(u, chosen) : u \in Nat})
      /\ Len(b.cells["left"]) = Len(names) /\ DOMAIN b.cells["left"] = 1..Len(names)
      /\ \A i \in 1..Len(names) : b.cells["left"][i] = ViewCell(names[i], chosen)
      /\ Ids(b, "left") = names
      /\ \A u \in ToSet(names) : /\ Place(b, "left", u) \in 1..Len(names)
                                 /\ names[Place(b, "left", u)] = u
  BY <1>3, CellsByName
<1>5. v \in V
  BY <1>1, SoundParts DEF OrNone
<1>6. PICK i : i = Place(b, "left", v) /\ i \in 1..Len(names)
  BY <1>3, <1>4, <1>5
<1>7. step \in Nat
  <2>1. Len(names) \in Nat \ {0}
    BY <1>4, <1>6
  <2>2. step \in {1, Len(names) - 1}
    BY <1>1, <1>4
  <2>3. QED BY <2>1, <2>2
<1>8. PICK k : k = ((i - 1 + step) % Len(names)) + 1 /\ k \in 1..Len(names)
  BY <1>4, <1>6, <1>7, NextPlace
<1>9. Beside(step) = names[k]
  BY <1>1, <1>4, <1>6, <1>8 DEF Beside
<1>10. QED BY <1>1, <1>3, <1>4, <1>8, <1>9

\* Another view is shown.
LEMMA SelectingKeeps ==
  ASSUME NEW s, Sound(s), NEW v, NEW u,
         \/ v \in Views /\ u = SwitchTo(s, v)
         \/ v \in s.tree.views /\ u = SelectViewAndTell(s, v)
  PROVE  Keeps(s, u)
<1>1. CASE v \in Views /\ u = SwitchTo(s, v)
  <2>0. PICK x : x = v /\ x \in Views /\ u = SwitchTo(s, x)
    BY <1>1
  <2>1. /\ Sound(u)
        /\ SameLinks(s.tree, u.tree)
        /\ u.tree.selected_view = v
        /\ u.previous = IF v # s.tree.selected_view /\ s.tree.selected_view # None
                        THEN s.tree.selected_view ELSE s.previous
        /\ Owners(u.tree) = Owners(s.tree) /\ FreeColumns(u.tree) = FreeColumns(s.tree)
        /\ Filled(s.tree) => Filled(u.tree)
    BY <2>0, ViewSwitchedTo
  <2>2. QED BY <2>1 DEF Keeps
<1>2. CASE v \in s.tree.views /\ u = SelectViewAndTell(s, v)
  <2>0. PICK x : x = v /\ x \in s.tree.views /\ u = SelectViewAndTell(s, x)
    BY <1>2
  <2>1. /\ Sound(u)
        /\ SameLinks(s.tree, u.tree)
        /\ u.tree.selected_view = v /\ v \in u.tree.views /\ u.tree.views \subseteq s.tree.views
        /\ u.tree.bar_visible = s.tree.bar_visible \ (s.tree.views \ u.tree.views)
        /\ u.previous = IF v # s.tree.selected_view /\ s.tree.selected_view # None
                        THEN s.tree.selected_view ELSE s.previous
        /\ Owners(u.tree) = Owners(s.tree) /\ FreeColumns(u.tree) = FreeColumns(s.tree)
        /\ NoneEmptyBut(s.tree, {}, {v}) => Filled(u.tree)
    BY <2>0, ViewSelected
  <2>2. QED BY <2>1, MoreMayBeEmpty DEF Keeps, Filled
<1>3. QED BY <1>1, <1>2

\* The bar of the view on the screen is shown or hidden.
LEMMA BarTogglingKeeps ==
  ASSUME NEW s, Sound(s), NEW v \in s.tree.views, NEW value, NEW u, u = SetBarVisible(s, v, value)
  PROVE  Keeps(s, u)
<1>1. ShowsOrHides(s, u, v, value)
  BY BarShownOrHidden
<1>2. QED BY <1>1 DEF ShowsOrHides, Keeps, Filled

\* A frame is made fullscreen or no longer.
LEMMA FullscreenTogglingKeeps ==
  ASSUME NEW s, Sound(s), NEW f \in LiveFrames(s.tree), FreeColumns(s.tree) # {}, NEW u,
         \/ u \in EnableFullscreen(s, ClientOf(f))
         \/ u = DisableFullscreen(s, f)
         \/ u \in ToggleFullscreenOf(s, f)
         \/ u = s
  PROVE  Keeps(s, u)
<1>1. ClientOf(f) \in Clients /\ ClientOf(f) \in Owners(s.tree)
  BY SoundParts, FramesHaveViews
<1>2. CASE u \in EnableFullscreen(s, ClientOf(f))
  <2>1. /\ Sound(u)
        /\ Owners(u.tree) = Owners(s.tree) \cup {ClientOf(f)}
        /\ Filled(s.tree) => Filled(u.tree)
    BY <1>1, <1>2, FullscreenEnabled
  <2>2. QED BY <1>1, <2>1 DEF Keeps
<1>3. CASE u = DisableFullscreen(s, f)
  <2>1. /\ Sound(u)
        /\ Owners(u.tree) = Owners(s.tree)
        /\ FreeColumns(s.tree) \subseteq FreeColumns(u.tree)
        /\ Filled(s.tree) => Filled(u.tree)
        /\ OriginalFrame(s.tree, f) # None =>
             u.tree.selected_view = Original[ViewOf(f)]
    BY <1>3, FullscreenDisabled
  <2>2. QED BY <2>1 DEF Keeps
<1>4. CASE u \in ToggleFullscreenOf(s, f)
  <2>1. u \in EnableFullscreen(s, ClientOf(f)) \/ u = DisableFullscreen(s, f)
    BY <1>4 DEF ToggleFullscreenOf
  <2>2. QED BY <1>2, <1>3, <2>1
<1>5. CASE u = s
  BY <1>5 DEF Keeps
<1>6. QED BY <1>2, <1>3, <1>4, <1>5

\* A frame of the client is closed, but it has others.
LEMMA RemovingKeeps ==
  ASSUME NEW s, Sound(s), NEW f \in LiveFrames(s.tree), FramesOf(s.tree, ClientOf(f)) # {f},
         NEW u, u = DeleteFrameAndTell(s, f)
  PROVE  Keeps(s, u)
<1>1. /\ Sound(u)
      /\ u.tree.selected_view = s.tree.selected_view /\ u.previous = s.previous
      /\ u.tree.views = s.tree.views \/ u.tree.views = s.tree.views \ {ViewOf(f)}
      /\ LiveFrames(u.tree) = LiveFrames(s.tree) \ {f}
      /\ FreeColumns(s.tree) \subseteq FreeColumns(u.tree)
      /\ Filled(s.tree) => Filled(u.tree)
  BY FrameDeleted
<1>2. f \in FramesOf(s.tree, ClientOf(f))
  BY DEF FramesOf
<1>3. PICK g \in FramesOf(s.tree, ClientOf(f)) : g # f
  BY <1>2
<1>4. g \in LiveFrames(s.tree) /\ ClientOf(g) = ClientOf(f)
  BY DEF FramesOf
<1>5. Owners(u.tree) = Owners(s.tree)
  BY <1>1, <1>3, <1>4, OwnersAre
<1>6. QED BY <1>1, <1>5 DEF Keeps

\* The pointer enters a window.
LEMMA EnteringKeeps ==
  ASSUME NEW s, Sound(s), NEW f \in LiveFrames(s.tree), NEW u, u = Tell(s, SelectFrame(s.tree, f))
  PROVE  Keeps(s, u)
<1>1. PICK t, w : t = s.tree /\ w = SelectFrame(t, f)
  OBVIOUS
<1>2. WellFormed(t) /\ f \in LiveFrames(t)
  BY <1>1, SoundParts
<1>3. WellFormed(w) /\ SameLinks(t, w) /\ SameViews(t, w) /\ SameLook(t, w)
  BY <1>1, <1>2, SelectFrameWellFormed, SelectFrameLook
<1>4. w.view_of = t.view_of /\ w.column_of = t.column_of
  BY <1>3 DEF SameLinks
<1>5. /\ Sound(u) /\ u.tree = w /\ u.previous = s.previous
      /\ LiveFrames(u.tree) = LiveFrames(s.tree)
      /\ Owners(u.tree) = Owners(s.tree) /\ FreeColumns(u.tree) = FreeColumns(s.tree)
      /\ \A V : NoneEmptyBut(s.tree, {}, V) => NoneEmptyBut(u.tree, {}, V)
  BY <1>1, <1>3, <1>4, Moved
<1>6. QED BY <1>5 DEF Keeps, Filled

\* The timer that was armed is not.
Disarmed(w) == [w EXCEPT !.timer = FALSE]

\* The activity timer runs.
LEMMA TimerKeeps ==
  ASSUME NEW s, Sound(s), NEW u, u = Tell(s, HandleFrameActivity(Disarmed(s.tree)))
  PROVE  Keeps(s, u)
<1>1. PICK t, d, w : t = s.tree /\ d = Disarmed(t) /\ w = HandleFrameActivity(d)
  OBVIOUS
<1>2. WellFormed(t) /\ t \in Graph
  BY <1>1, SoundParts
<1>3. Schedules(t, d) /\ SameLook(t, d)
  BY <1>1, <1>2 DEF Disarmed, Schedules, SameLinks, SameViews, SameLook, Graph
<1>4. WellFormed(d)
  BY <1>2, <1>3, SchedulesWellFormed
<1>5. /\ WellFormed(w)
      /\ SameViews(d, w) /\ SameFrames(d, w)
      /\ w.columns = d.columns /\ w.view_of = d.view_of
  BY <1>1, <1>4, HandleFrameActivityWellFormed
<1>6. SameLook(d, w)
  BY <1>1, <1>4, HandleFrameActivityLook
<1>7. /\ SameViews(t, w) /\ SameLook(t, w) /\ w.view_of = t.view_of
      /\ w.column_of = t.column_of
  BY <1>3, <1>5, <1>6 DEF Schedules, SameLinks, SameViews, SameLook, SameFrames
<1>8. /\ Sound(u) /\ u.tree = w /\ u.previous = s.previous
      /\ LiveFrames(u.tree) = LiveFrames(s.tree)
      /\ Owners(u.tree) = Owners(s.tree) /\ FreeColumns(u.tree) = FreeColumns(s.tree)
      /\ \A V : NoneEmptyBut(s.tree, {}, V) => NoneEmptyBut(u.tree, {}, V)
  BY <1>1, <1>5, <1>7, Moved
<1>9. QED BY <1>8 DEF Keeps, Filled

\* A client without a frame in that view is about to get one.
LEMMA NewFrameIsNew ==
  ASSUME NEW w, WellFormed(w), NEW f \in LiveFrames(w), NEW v \in Views,
         ~ HasFrame(w, ClientOf(f), v), NEW g, g = <<ClientOf(f), v>>
  PROVE  /\ g \in Frames \ LiveFrames(w) /\ ViewOf(g) = v /\ ClientOf(g) = ClientOf(f)
         /\ v # ViewOf(f)
<1>1. ClientOf(f) \in Clients /\ f = <<ClientOf(f), ViewOf(f)>>
  BY FramesHaveViews
<1>2. g \in Frames /\ ViewOf(g) = v /\ ClientOf(g) = ClientOf(f)
  BY <1>1, PairIsFrame
<1>3. v # None
  BY NoneIsNeither
<1>4. g \notin LiveFrames(w)
  BY <1>3 DEF HasFrame, LiveFrames
<1>5. QED BY <1>1, <1>2, <1>4

\* A frame that is in the smallest column, or a new one, of its view then.
Enters(t, w, g, y) ==
  /\ Follows(t, y)
  /\ LiveFrames(y) = LiveFrames(w) \cup {g}
  /\ NoneEmptyBut(w, {}, {ViewOf(g)}) => Filled(y)

\* place_frame_in_smallest_column.
LEMMA PlacedInView ==
  ASSUME NEW w, WellFormed(w), NEW g \in Frames \ LiveFrames(w), ViewOf(g) \in w.views,
         FreeColumns(w) # {}, NEW t, SameViews(t, w), t.bar_visible = w.bar_visible,
         w.bar_visible \subseteq w.views,
         w.decorated \subseteq LiveFrames(w) \cup {g},
         NEW y, y = PlaceInSmallestColumn(w, g, AnyColumn(w))
  PROVE  Enters(t, w, g, y)
<1>1. PICK col : col = AnyColumn(w) /\ col \in FreeColumns(w)
  BY AnyColumnIsFree
<1>2. /\ WellFormed(y)
      /\ SameViews(w, y)
      /\ LiveFrames(y) = LiveFrames(w) \cup {g}
      /\ y.marked = w.marked
      /\ NoneEmptyBut(w, {}, {ViewOf(g)}) => NoneEmptyBut(y, {}, {})
  BY <1>1, PlaceInSmallestColumnWellFormed
<1>3. /\ SameLook(w, y)
      /\ \A c \in Columns \ {col} : y.view_of[c] = w.view_of[c]
  BY <1>1, PlaceInSmallestColumnLook
<1>4. SameViews(t, y) /\ y.bar_visible = t.bar_visible
  BY <1>2, <1>3 DEF SameViews, SameLook
<1>5. Tidy(y)
  BY <1>2, <1>3 DEF Tidy, SameLook, SameViews
<1>6. QED BY <1>2, <1>4, <1>5, FollowsSame DEF Enters, Filled

\* A copy of a frame in another view, which may have been made for it.
LEMMA CopyingKeeps ==
  ASSUME NEW s, Sound(s), NEW f \in LiveFrames(s.tree), FreeColumns(s.tree) # {},
         NEW v \in Views, ~ HasFrame(s.tree, ClientOf(f), v),
         NEW g, g = <<ClientOf(f), v>>,
         NEW made, made = Tell(s, GetOrCreateView(s.tree, v)),
         NEW w, w = NewFrame(made.tree, g),
         NEW u, u = Tell(made, PlaceInSmallestColumn(w, g, AnyColumn(w)))
  PROVE  Keeps(s, u)
<1>1. WellFormed(s.tree)
  BY SoundParts
<1>2. /\ g \in Frames \ LiveFrames(s.tree) /\ ViewOf(g) = v /\ ClientOf(g) = ClientOf(f)
      /\ v # ViewOf(f)
  BY <1>1, NewFrameIsNew
<1>3. /\ Sound(made) /\ made.tree = GetOrCreateView(s.tree, v)
      /\ SameLinks(s.tree, made.tree)
      /\ made.tree.views = s.tree.views \cup {v}
      /\ made.tree.selected_view = s.tree.selected_view /\ made.previous = s.previous
      /\ Owners(made.tree) = Owners(s.tree) /\ FreeColumns(made.tree) = FreeColumns(s.tree)
      /\ LiveFrames(made.tree) = LiveFrames(s.tree)
      /\ Filled(s.tree) => NoneEmptyBut(made.tree, {}, {v})
  BY ViewMade
<1>4. PICK t : t = made.tree
  OBVIOUS
<1>5. WellFormed(t) /\ Tidy(t) /\ t \in Graph
  BY <1>3, <1>4, SoundParts
<1>6. g \in Frames /\ w = NewFrame(t, g)
  BY <1>2, <1>4
<1>7. /\ Repaints(t, w)
      /\ w.bar_visible = t.bar_visible /\ w.decorated = t.decorated \cup {g}
  BY <1>5, <1>6, NewFrameEffect, NewFrameLook
<1>8. WellFormed(w)
  BY <1>5, <1>7, RepaintsWellFormed
<1>9. SameViews(t, w) /\ w.view_of = t.view_of /\ w.column_of = t.column_of
  BY <1>7 DEF Repaints
<1>10. /\ LiveFrames(w) = LiveFrames(t) /\ FreeColumns(w) = FreeColumns(t)
       /\ w.views = t.views
  BY <1>9 DEF LiveFrames, FreeColumns, SameViews
<1>11. PICK y : y = PlaceInSmallestColumn(w, g, AnyColumn(w))
  OBVIOUS
<1>12. /\ Follows(t, y)
       /\ LiveFrames(y) = LiveFrames(w) \cup {g}
       /\ NoneEmptyBut(w, {}, {ViewOf(g)}) => Filled(y)
  <2>1. g \in Frames \ LiveFrames(w) /\ ViewOf(g) \in w.views
    BY <1>2, <1>3, <1>4, <1>10
  <2>2. FreeColumns(w) # {} /\ w.bar_visible \subseteq w.views
    BY <1>3, <1>4, <1>5, <1>7, <1>10 DEF Tidy
  <2>3. t.bar_visible = w.bar_visible /\ w.decorated \subseteq LiveFrames(w) \cup {g}
    BY <1>5, <1>7, <1>10 DEF Tidy
  <2>4. Enters(t, w, g, y)
    BY <1>8, <1>9, <1>11, <2>1, <2>2, <2>3, PlacedInView
  <2>5. QED BY <2>4 DEF Enters
<1>13. /\ Sound(Tell(made, y))
       /\ Tell(made, y).tree = y
       /\ Tell(made, y).previous =
            IF y.selected_view # made.tree.selected_view /\ made.tree.selected_view # None
            THEN made.tree.selected_view ELSE made.previous
  BY <1>3, <1>4, <1>12, TellKeeps
<1>14. u = Tell(made, y)
  BY <1>11
<1>15. Filled(s.tree) => Filled(u.tree)
  <2>1. ASSUME Filled(s.tree) PROVE NoneEmptyBut(w, {}, {ViewOf(g)})
    <3>1. NoneEmptyBut(t, {}, {v})
      BY <1>3, <1>4, <2>1
    <3>2. QED BY <1>2, <1>9, <3>1, SameNoneEmpty
  <2>2. QED BY <1>12, <1>13, <1>14, <2>1
<1>16. LiveFrames(u.tree) = LiveFrames(s.tree) \cup {g}
  BY <1>3, <1>4, <1>10, <1>12, <1>13, <1>14
<1>17. Owners(u.tree) = Owners(s.tree)
  BY <1>2, <1>16, OwnersAre
<1>18. QED BY <1>13, <1>14, <1>15, <1>17 DEF Keeps

\* A frame is taken from its view to another one.
LEMMA MovingKeeps ==
  ASSUME NEW s, Sound(s), NEW f \in LiveFrames(s.tree), FreeColumns(s.tree) # {},
         ViewOf(f) = s.tree.selected_view,
         NEW v \in Views, ~ HasFrame(s.tree, ClientOf(f), v),
         NEW g, g = <<ClientOf(f), v>>,
         NEW made, made = Tell(s, GetOrCreateView(s.tree, v)),
         NEW taken, taken = Tell(made, RemoveFrame(made.tree, f)),
         NEW w, w = CarryFrame(taken.tree, f, g),
         NEW u, u = Tell(taken, PlaceInSmallestColumn(w, g, AnyColumn(w)))
  PROVE  Keeps(s, u)
<1>1. WellFormed(s.tree)
  BY SoundParts
<1>2. /\ g \in Frames \ LiveFrames(s.tree) /\ ViewOf(g) = v /\ ClientOf(g) = ClientOf(f)
      /\ v # ViewOf(f)
  BY <1>1, NewFrameIsNew
<1>3. /\ Sound(made) /\ made.tree = GetOrCreateView(s.tree, v)
      /\ SameLinks(s.tree, made.tree)
      /\ made.tree.views = s.tree.views \cup {v}
      /\ made.tree.selected_view = s.tree.selected_view /\ made.previous = s.previous
      /\ Owners(made.tree) = Owners(s.tree) /\ FreeColumns(made.tree) = FreeColumns(s.tree)
      /\ LiveFrames(made.tree) = LiveFrames(s.tree)
      /\ Filled(s.tree) => NoneEmptyBut(made.tree, {}, {v})
  BY ViewMade
<1>4. PICK t, x : t = made.tree /\ x = RemoveFrame(t, f)
  OBVIOUS
<1>5. WellFormed(t) /\ Tidy(t) /\ t \in Graph /\ f \in LiveFrames(t)
  BY <1>3, <1>4, SoundParts
<1>6. f \in Frames /\ g \in Frames /\ f # g
  BY <1>2, <1>5 DEF LiveFrames
<1>7. /\ WellFormed(x)
      /\ x.selected_view = t.selected_view
      /\ x.views = t.views \/ x.views = t.views \ {ViewOf(f)}
      /\ \A c \in Columns : c # t.column_of[f] => x.view_of[c] = t.view_of[c]
      /\ x.column_of = [t.column_of EXCEPT ![f] = None]
      /\ x.marked = t.marked
      /\ x.view_of[t.column_of[f]] # None => FramesIn(x, t.column_of[f]) # {}
      /\ ViewOf(f) \in x.views => ColumnsOf(x, ViewOf(f)) # {} \/ ViewOf(f) = x.selected_view
  <2>1. WellFormed(t) /\ f \in LiveFrames(t) /\ x = RemoveFrame(t, f)
    BY <1>4, <1>5
  <2>2. QED BY <2>1, RemoveFrameWellFormed, SMTT(60)
<1>8. KeepsLook(t, x)
  BY <1>4, <1>5, RemoveFrameLook
<1>9. SameViews(t, x) /\ x.bar_visible = t.bar_visible /\ x.decorated = t.decorated
  <2>1. x.selected_view = ViewOf(f)
    BY <1>3, <1>4, <1>7
  <2>2. x.selected_view \in OrNone(x.views) /\ ViewOf(f) # None
    BY <1>5, <1>6, <1>7, NoneIsNeither, FrameParts DEF WellFormed, Selection
  <2>3. ViewOf(f) \in x.views
    BY <2>1, <2>2 DEF OrNone
  <2>4. x.views = t.views
    BY <1>7, <2>3
  <2>5. QED BY <1>7, <1>8, <2>4 DEF SameViews, KeepsLook
<1>10. Changes(t, x)
  <2>1. x.views \subseteq t.views \cup {v} /\ t.views \subseteq x.views \cup {v}
    BY <1>9 DEF SameViews
  <2>2. BarVisible(x) = BarVisible(t) /\ x.selected_view = t.selected_view
    BY <1>9 DEF BarVisible, SameViews
  <2>3. QED BY <1>7, <2>1, <2>2 DEF Changes
<1>11. Consistent(taken) /\ taken.tree = x
  <2>1. Consistent(made)
    BY <1>3 DEF Sound
  <2>2. taken = Tell(made, x)
    BY <1>4
  <2>3. /\ Consistent(Tell(made, x))
        /\ Tell(made, x).tree = x
        /\ Tell(made, x).previous =
             IF x.selected_view # made.tree.selected_view /\ made.tree.selected_view # None
             THEN made.tree.selected_view ELSE made.previous
    BY <1>4, <1>10, <2>1, TellKeepsConsistent
  <2>4. QED BY <2>2, <2>3
<1>12. x \in Graph
  BY <1>7 DEF WellFormed, WellLinked
<1>13. w = CarryFrame(x, f, g)
  BY <1>11
<1>14. Repaints(x, w) /\ w.bar_visible = x.bar_visible
  BY <1>6, <1>12, <1>13, CarryFrameEffect, NewFrameLook
<1>15. w.decorated = Rename(x.decorated, f, g)
  BY <1>12, <1>13 DEF CarryFrame, Graph
<1>16. WellFormed(w)
  BY <1>7, <1>14, RepaintsWellFormed
<1>17. SameViews(x, w) /\ w.view_of = x.view_of /\ w.column_of = x.column_of
  BY <1>14 DEF Repaints
<1>18. /\ LiveFrames(w) = LiveFrames(x) /\ FreeColumns(w) = FreeColumns(x)
       /\ w.views = x.views
  BY <1>17 DEF LiveFrames, FreeColumns, SameViews
<1>19. LiveFrames(x) = LiveFrames(t) \ {f}
  <2>1. t.column_of \in [Frames -> OrNone(Columns)]
    BY <1>5 DEF Graph
  <2>2. QED BY <1>7, <2>1 DEF LiveFrames
<1>20. FreeColumns(x) # {}
  <2>1. PICK col \in Columns : t.view_of[col] = None
    BY <1>3, <1>4 DEF FreeColumns
  <2>2. t.view_of[t.column_of[f]] # None
    <3>1. t.view_of[t.column_of[f]] = ViewOf(f)
      BY <1>5 DEF WellFormed, WellLinked, Tree
    <3>2. QED BY <1>6, <3>1, NoneIsNeither, FrameParts
  <2>3. x.view_of[col] = None
    BY <1>7, <2>1, <2>2
  <2>4. QED BY <2>1, <2>3 DEF FreeColumns
<1>21. PICK y : y = PlaceInSmallestColumn(w, g, AnyColumn(w))
  OBVIOUS
<1>22. /\ Follows(x, y)
       /\ LiveFrames(y) = LiveFrames(w) \cup {g}
       /\ NoneEmptyBut(w, {}, {ViewOf(g)}) => Filled(y)
  <2>1. g \in Frames \ LiveFrames(w) /\ ViewOf(g) \in w.views
    BY <1>2, <1>3, <1>4, <1>6, <1>9, <1>18, <1>19 DEF SameViews
  <2>2. FreeColumns(w) # {}
    BY <1>18, <1>20
  <2>3. w.bar_visible \subseteq w.views
    BY <1>5, <1>9, <1>14, <1>18 DEF Tidy, SameViews
  <2>4. w.decorated \subseteq LiveFrames(w) \cup {g}
    BY <1>5, <1>9, <1>15, <1>18, <1>19 DEF Tidy, Rename
  <2>5. x.bar_visible = w.bar_visible
    BY <1>14
  <2>6. Enters(x, w, g, y)
    BY <1>16, <1>17, <1>21, <2>1, <2>2, <2>3, <2>4, <2>5, PlacedInView
  <2>7. QED BY <2>6 DEF Enters
<1>23. Changes(x, y) /\ Tidy(y)
  BY <1>22 DEF Follows
<1>24. /\ Consistent(Tell(taken, y))
       /\ Tell(taken, y).tree = y
       /\ Tell(taken, y).previous =
            IF y.selected_view # taken.tree.selected_view /\ taken.tree.selected_view # None
            THEN taken.tree.selected_view ELSE taken.previous
  BY <1>11, <1>23, TellKeepsConsistent
<1>25. u = Tell(taken, y)
  BY <1>21
<1>26. Sound(u) /\ u.tree = y
  BY <1>23, <1>24, <1>25 DEF Sound
<1>27. Filled(s.tree) => Filled(u.tree)
  <2>1. ASSUME Filled(s.tree) PROVE NoneEmptyBut(w, {}, {ViewOf(g)})
    <3>1. PICK C, V : C = {} /\ V = {v}
      OBVIOUS
    <3>2. NoneEmptyBut(t, C, V)
      BY <1>3, <1>4, <2>1, <3>1
    <3>3. NoneEmptyBut(x, C, V)
      BY <1>4, <1>5, <3>2, RemoveFrameNoneEmpty
    <3>4. NoneEmptyBut(w, C, V)
      BY <1>17, <3>3, SameNoneEmpty
    <3>5. QED BY <1>2, <3>1, <3>4
  <2>2. QED BY <1>22, <1>26, <2>1
<1>28. LiveFrames(u.tree) = (LiveFrames(s.tree) \ {f}) \cup {g}
  BY <1>3, <1>4, <1>18, <1>19, <1>22, <1>26
<1>29. Owners(u.tree) = Owners(s.tree)
  BY <1>2, <1>28, OwnersAre
<1>30. QED BY <1>26, <1>27, <1>29 DEF Keeps

-----------------------------------------------------------------------------
(* The end of a handler, the flush of the bar, and the start.              *)

\* What is scheduled for the tree is no part of what is kept.
LEMMA SettledSchedules ==
  ASSUME NEW w \in Graph, NEW x, x = Settle(w)
  PROVE  Schedules(w, x) /\ SameLook(w, x) /\ x.todo_views = {}
<1>1. PICK todo : todo = [c \in Clients |-> {}]
  OBVIOUS
<1>2. todo \in [Clients -> SUBSET Tasks]
  BY <1>1
<1>3. x = [w EXCEPT !.todo_views = {}, !.todo_columns = {}, !.todo_root = FALSE,
                    !.todo_clients = todo]
  BY <1>1 DEF Settle
<1>4. x \in Graph
  BY ZenonT(60), <1>2, <1>3 DEF Graph
<1>5. QED BY <1>3, <1>4 DEF Schedules, SameLinks, SameViews, SameLook, Graph

\* So a session is as sound at the end of a handler as before it.
LEMMA SettledKeeps ==
  ASSUME NEW s, Sound(s), NEW u, u = [s EXCEPT !.tree = Settle(@)]
  PROVE  /\ Keeps(s, u)
         /\ u.tree = Settle(s.tree) /\ u.bar = s.bar /\ u.previous = s.previous
         /\ Schedules(s.tree, u.tree) /\ SameLook(s.tree, u.tree)
         /\ LiveFrames(u.tree) = LiveFrames(s.tree)
         /\ FreeColumns(u.tree) = FreeColumns(s.tree)
<1>1. PICK t, b, p, x : t = s.tree /\ b = s.bar /\ p = s.previous /\ x = Settle(t)
  OBVIOUS
<1>2. s = [tree |-> t, bar |-> b, previous |-> p]
  BY <1>1 DEF Sound, Consistent, IsSession
<1>3. u = [tree |-> x, bar |-> b, previous |-> p]
  BY <1>1, <1>2
<1>4. u.tree = x /\ u.bar = b /\ u.previous = p /\ IsSession(u)
  <2>1. PICK y : y = [tree |-> x, bar |-> b, previous |-> p]
    OBVIOUS
  <2>2. y.tree = x /\ y.bar = b /\ y.previous = p /\ IsSession(y)
    BY <2>1 DEF IsSession
  <2>3. u = y
    BY <1>3, <2>1
  <2>4. QED BY <2>2, <2>3
<1>5. /\ WellFormed(t) /\ Tidy(t) /\ Remembers(p, t) /\ BarFollows(b, t) /\ t \in Graph
  BY <1>1, SoundParts DEF Sound, Consistent
<1>6. Schedules(t, x) /\ SameLook(t, x)
  BY <1>1, <1>5, SettledSchedules
<1>7. WellFormed(x)
  BY <1>5, <1>6, SchedulesWellFormed
<1>8. /\ x.views = t.views /\ x.selected_view = t.selected_view
      /\ x.column_of = t.column_of /\ x.view_of = t.view_of
      /\ x.decorated = t.decorated /\ x.bar_visible = t.bar_visible
  BY <1>6 DEF Schedules, SameLinks, SameViews, SameLook
<1>9. /\ LiveFrames(x) = LiveFrames(t) /\ Owners(x) = Owners(t)
      /\ FreeColumns(x) = FreeColumns(t)
  BY <1>8, SameOwners DEF FreeColumns
<1>10. Tidy(x)
  BY <1>5, <1>8, <1>9 DEF Tidy
<1>11. Remembers(p, x)
  BY <1>5, <1>8 DEF Remembers
<1>12. BarVisible(x) = BarVisible(t) /\ Chosen(x) = Chosen(t)
  BY <1>8 DEF BarVisible, Chosen
<1>13. BarFollows(b, x)
  BY <1>5, <1>8, <1>12 DEF BarFollows
<1>14. Sound(u)
  BY <1>4, <1>7, <1>10, <1>11, <1>13 DEF Sound, Consistent
<1>15. Filled(t) => Filled(x)
  BY <1>8, SameNoneEmpty DEF Filled, SameViews
<1>16. QED BY <1>1, <1>4, <1>6, <1>9, <1>14, <1>15 DEF Keeps

\* The flush of the bar has no part in the cells (WBar::flush).
LEMMA FlushedKeeps ==
  ASSUME NEW s, Sound(s), s.bar.update_server \/ s.bar.draw,
         NEW u, u = [s EXCEPT !.bar = FlushBar(@, BarVisible(s.tree))]
  PROVE  Keeps(s, u) /\ u.tree = s.tree /\ u.previous = s.previous
<1>1. PICK t, b, p, v : t = s.tree /\ b = s.bar /\ p = s.previous /\ v = BarVisible(t)
  OBVIOUS
<1>2. s = [tree |-> t, bar |-> b, previous |-> p]
  BY <1>1 DEF Sound, Consistent, IsSession
<1>3. PICK c : c = FlushBar(b, v)
  OBVIOUS
<1>4. u = [tree |-> t, bar |-> c, previous |-> p]
  BY <1>1, <1>2, <1>3
<1>5. u.tree = t /\ u.bar = c /\ u.previous = p /\ IsSession(u)
  <2>1. PICK y : y = [tree |-> t, bar |-> c, previous |-> p]
    OBVIOUS
  <2>2. y.tree = t /\ y.bar = c /\ y.previous = p /\ IsSession(y)
    BY <2>1 DEF IsSession
  <2>3. u = y
    BY <1>4, <2>1
  <2>4. QED BY <2>2, <2>3
<1>6. /\ WellFormed(t) /\ Tidy(t) /\ Remembers(p, t)
      /\ Faithful(b, v) /\ HoldsViews(b, t.views, Chosen(t))
  BY <1>1 DEF Sound, Consistent, BarFollows
<1>7. b.update_server \/ b.draw
  BY <1>1
<1>8. Faithful(c, v)
  BY <1>3, <1>6, <1>7, Flushing
<1>9. c.cells = b.cells
  <2> DEFINE m == IF b.update_server THEN UpdateServer(b, v) ELSE b
             d == Draw(m)
             e == Cleared(d)
  <2>1. c = e
    BY <1>3, <1>7, Zenon DEF FlushBar, Cleared
  <2>2. IsBar(b) /\ b.bounds = b.screen
    BY <1>6 DEF Faithful, InPlace
  <2>3. IsBar(m) /\ m.cells = b.cells
    <3>1. CASE b.update_server
      BY <2>2, <3>1, Updating, Zenon DEF SameCells
    <3>2. CASE ~ b.update_server
      BY <2>2, <3>2, Zenon
    <3>3. QED BY <3>1, <3>2
  <2> HIDE DEF m
  <2>4. IsBar(d) /\ d.cells = m.cells
    BY <2>3, DrawingNow, Zenon
  <2> HIDE DEF d
  <2>5. e.cells = d.cells
    BY <2>4, Clearing, Zenon
  <2> HIDE DEF e
  <2>6. QED BY <2>1, <2>3, <2>4, <2>5
<1>10. HoldsViews(c, t.views, Chosen(t))
  BY <1>6, <1>9 DEF HoldsViews
<1>11. Sound(u)
  BY <1>1, <1>5, <1>6, <1>8, <1>10 DEF Sound, Consistent, BarFollows
<1>12. QED BY <1>1, <1>5, <1>11 DEF Keeps

\* A window manager starts with nothing.
LEMMA NewSessionSound ==
  /\ Sound(NewSession) /\ Filled(NewSession.tree)
  /\ Owners(NewSession.tree) = {} /\ NewSession.previous = None
  /\ NewSession.tree = EmptyGraph
<1>1. PICK t, b : t = EmptyGraph /\ b = NewBar(None)
  OBVIOUS
<1>2. NewSession = [tree |-> t, bar |-> b, previous |-> None]
  BY <1>1 DEF NewSession
<1>3. PICK s : s = NewSession
  OBVIOUS
<1>4. s.tree = t /\ s.bar = b /\ s.previous = None /\ IsSession(s)
  BY <1>2, <1>3 DEF IsSession
<1>5. WellFormed(t)
  BY <1>1, EmptyGraphWellFormed
<1>6. /\ t.views = {} /\ t.selected_view = None
      /\ t.column_of = [f \in Frames |-> None] /\ t.view_of = [col \in Columns |-> None]
      /\ t.decorated = {} /\ t.bar_visible = {}
  BY <1>1 DEF EmptyGraph
<1>7. LiveFrames(t) = {} /\ Owners(t) = {}
  BY <1>6 DEF LiveFrames, Owners, FramesOf
<1>8. Tidy(t)
  BY <1>6 DEF Tidy
<1>9. Remembers(s.previous, t)
  BY <1>4 DEF Remembers, OrNone
<1>10. Faithful(b, BarVisible(t))
  <2>1. IsBar(b)
    BY <1>1, Zenon DEF NewBar, IsBar, BarFields
  <2>2. b.update_server /\ b.bounds = b.screen
    BY <1>1 DEF NewBar
  <2>3. QED BY <2>1, <2>2 DEF Faithful, InPlace, BarIsUpToDate
<1>11. HoldsViews(b, t.views, Chosen(t))
  <2>1. DOMAIN b.cells = Sides /\ b.cells["left"] = <<>>
    BY <1>1 DEF NewBar, Sides
  <2>2. PICK names : names = <<>>
    OBVIOUS
  <2>3. Grows(names) /\ ToSet(names) = {}
    BY <2>2 DEF Grows, ToSet
  <2>4. ViewCells(names, Chosen(t)) = <<>>
    BY <2>2 DEF ViewCells
  <2>5. QED BY <1>6, <2>1, <2>3, <2>4 DEF HoldsViews
<1>12. Filled(t)
  BY <1>6 DEF Filled, NoneEmptyBut
<1>13. Sound(s)
  BY <1>4, <1>5, <1>8, <1>9, <1>10, <1>11 DEF Sound, Consistent, BarFollows
<1>14. QED BY <1>1, <1>3, <1>4, <1>7, <1>12, <1>13

-----------------------------------------------------------------------------
(* What was saved is made again: views and columns (PersistentWMInfo).     *)

\* Which of the columns of a view is selected.
Flags(w, v) == [i \in DOMAIN w.columns[v] |-> w.columns[v][i] = w.selected_column[v]]

\* One more column at the end of a view, selected if it should be or is the first.
AddsColumn(s, u, v, selected) ==
  /\ Sound(u)
  /\ SameViews(s.tree, u.tree) /\ u.previous = s.previous
  /\ u.tree.bar_visible = s.tree.bar_visible
  /\ u.tree.column_of = s.tree.column_of
  /\ \E col \in FreeColumns(s.tree) :
       /\ u.tree.columns = [s.tree.columns EXCEPT ![v] =
                              InsertAt(s.tree.columns[v], Len(s.tree.columns[v]) + 1, col)]
       /\ u.tree.selected_column =
            [s.tree.selected_column EXCEPT ![v] =
               IF selected \/ s.tree.selected_column[v] = None THEN col
               ELSE s.tree.selected_column[v]]

\* A column is made and, if it was, selected.
LEMMA ColumnRecreated ==
  ASSUME NEW s, Sound(s), NEW v \in s.tree.views, FreeColumns(s.tree) # {}, NEW selected,
         NEW u, u = RecreateColumn(s, v, selected)
  PROVE  AddsColumn(s, u, v, selected)
<1>1. PICK t, col, i : t = s.tree /\ col = AnyColumn(t) /\ i = Len(t.columns[v]) + 1
  OBVIOUS
<1>2. PICK w, x : /\ w = CreateColumn(t, v, i, col)
                  /\ x = IF selected THEN SelectColumn(w, v, col) ELSE w
  OBVIOUS
<1>3. u = Tell(s, x)
  BY <1>1, <1>2 DEF RecreateColumn
<1>4. WellFormed(t) /\ Tidy(t) /\ t \in Graph /\ v \in t.views /\ v \in Views
  BY <1>1, SoundParts
<1>5. col \in FreeColumns(t) /\ col \in Columns
  BY <1>1, AnyColumnIsFree DEF FreeColumns
<1>6. /\ t.columns[v] \in Seq(Columns) /\ i \in 1..(Len(t.columns[v]) + 1)
      /\ t.selected_column \in [Views -> OrNone(Columns)]
  BY <1>1, <1>4 DEF Graph
<1>7. /\ WellFormed(w)
      /\ SameViews(t, w) /\ SameFrames(t, w)
      /\ \A c \in Columns : w.view_of[c] = IF c = col THEN v ELSE t.view_of[c]
  BY <1>2, <1>4, <1>5, <1>6, CreateColumnWellFormed
<1>8. SameLook(t, w)
  BY <1>2, <1>4, <1>5, <1>6, CreateColumnLook
<1>9. /\ w.columns = [t.columns EXCEPT ![v] = InsertAt(t.columns[v], i, col)]
      /\ w.view_of = [t.view_of EXCEPT ![col] = v]
      /\ w.frames = t.frames /\ w.column_of = t.column_of
      /\ w.column_activity = t.column_activity
      /\ w.selected_column = IF t.selected_column[v] = None
                             THEN [t.selected_column EXCEPT ![v] = col]
                             ELSE t.selected_column
      /\ w.selected_frame = t.selected_frame
  <2>1. InsertsColumn(t, w, v, i, col)
    BY <1>2, <1>4, <1>5, <1>6, CreateColumnLists
  <2>2. QED BY <2>1 DEF InsertsColumn
<1>10. /\ WellFormed(x) /\ SameViews(t, x) /\ SameLook(t, x)
       /\ x.columns = w.columns /\ x.column_of = t.column_of
       /\ x.selected_column = [t.selected_column EXCEPT ![v] =
                                 IF selected \/ t.selected_column[v] = None THEN col
                                 ELSE t.selected_column[v]]
  <2>1. CASE ~ selected
    <3>1. x = w
      BY <1>2, <2>1
    <3>2. w.selected_column = [t.selected_column EXCEPT ![v] =
                                 IF selected \/ t.selected_column[v] = None THEN col
                                 ELSE t.selected_column[v]]
      <4>1. CASE t.selected_column[v] = None
        BY <1>9, <4>1
      <4>2. CASE t.selected_column[v] # None
        BY <1>4, <1>6, <1>9, <2>1, <4>2
      <4>3. QED BY <4>1, <4>2
    <3>3. QED BY <1>7, <1>8, <1>9, <3>1, <3>2
  <2>2. CASE selected
    <3>1. x = SelectColumn(w, v, col)
      BY <1>2, <2>2
    <3>2. col \in ColumnsOf(w, v)
      BY <1>5, <1>7 DEF ColumnsOf
    <3>3. WellFormed(x) /\ SameLinks(w, x) /\ SameViews(w, x)
      BY <1>4, <1>7, <3>1, <3>2, SelectOwnColumnWellFormed
    <3>4. WellLinked(w) /\ NothingDangles(w) /\ col \in OrNone(ColumnsOf(w, v))
      BY <1>7, <3>2, SelectionDoesNotDangle DEF WellFormed, OrNone
    <3>5. SameLook(w, x)
      BY <1>4, <3>1, <3>4, SelectColumnLook
    <3>6. x.selected_column = [w.selected_column EXCEPT ![v] = col]
      BY <1>4, <3>1, <3>4, SelectColumnEffect, SMTT(30)
    <3>7. x.selected_column = [t.selected_column EXCEPT ![v] = col]
      BY <1>4, <1>6, <1>9, <3>6
    <3>8. SameViews(t, x) /\ SameLook(t, x)
      BY <1>7, <1>8, <3>3, <3>5 DEF SameViews, SameLook
    <3>9. QED BY <1>9, <2>2, <3>3, <3>7, <3>8 DEF SameLinks
  <2>3. QED BY <2>1, <2>2
<1>11. Tidy(x)
  BY <1>4, <1>10 DEF Tidy, SameViews, SameLook, LiveFrames
<1>12. x.bar_visible = t.bar_visible
  BY <1>10 DEF SameLook
<1>13. Follows(t, x)
  BY <1>10, <1>11, <1>12, FollowsSame
<1>14. /\ Sound(Tell(s, x))
       /\ Tell(s, x).tree = x
       /\ Tell(s, x).previous =
            IF x.selected_view # s.tree.selected_view /\ s.tree.selected_view # None
            THEN s.tree.selected_view ELSE s.previous
  BY <1>1, <1>13, TellKeeps
<1>15. Sound(u) /\ u.tree = x /\ u.previous = s.previous
  BY <1>1, <1>3, <1>10, <1>14 DEF SameViews
<1>16. x.columns = [t.columns EXCEPT ![v] = InsertAt(t.columns[v], Len(t.columns[v]) + 1, col)]
  BY <1>1, <1>9, <1>10
<1>17. QED BY <1>1, <1>5, <1>10, <1>12, <1>15, <1>16 DEF AddsColumn

\* The columns of another graph, each at its place.
Fits(w, t) == \A v \in Views : Len(w.columns[v]) <= Len(t.columns[v])

\* A column is left while there are fewer of them than another graph has.
LEMMA SomeColumnIsFree ==
  ASSUME NEW w, WellFormed(w), NEW t, WellFormed(t), Fits(w, t),
         NEW v \in Views, Len(w.columns[v]) < Len(t.columns[v])
  PROVE  FreeColumns(w) # {}
<1>1. /\ \A y \in Views : w.columns[y] \in Seq(Columns) /\ Enumerates(w.columns[y], ColumnsOf(w, y))
      /\ \A y \in Views : t.columns[y] \in Seq(Columns) /\ Enumerates(t.columns[y], ColumnsOf(t, y))
      /\ w.view_of \in [Columns -> OrNone(Views)]
  BY DEF WellFormed, WellLinked, Graph, Tree
<1>2. SUFFICES ASSUME FreeColumns(w) = {} PROVE FALSE
  OBVIOUS
<1> DEFINE P(col) == Position(w.columns[w.view_of[col]], col)
           h == [col \in Columns |-> t.columns[w.view_of[col]][P(col)]]
           spare == t.columns[v][Len(w.columns[v]) + 1]
<1>3. ASSUME NEW col \in Columns
      PROVE  /\ w.view_of[col] \in Views
             /\ P(col) \in 1..Len(w.columns[w.view_of[col]])
             /\ P(col) \in 1..Len(t.columns[w.view_of[col]])
             /\ w.columns[w.view_of[col]][P(col)] = col
             /\ h[col] \in ColumnsOf(t, w.view_of[col])
  <2>1. w.view_of[col] \in Views
    BY <1>1, <1>2 DEF FreeColumns, OrNone
  <2>2. PICK y : y = w.view_of[col]
    OBVIOUS
  <2>3. col \in ColumnsOf(w, y) /\ y \in Views
    BY <2>1, <2>2 DEF ColumnsOf
  <2>4. P(col) \in 1..Len(w.columns[y]) /\ w.columns[y][P(col)] = col /\ Len(w.columns[y]) \in Nat
    BY <1>1, <2>2, <2>3, EnumerationProperties
  <2>5. Len(t.columns[y]) \in Nat /\ \A i \in 1..Len(t.columns[y]) : t.columns[y][i] \in ColumnsOf(t, y)
    BY <1>1, <2>3, EnumerationProperties
  <2>6. Len(w.columns[y]) <= Len(t.columns[y])
    BY <2>3 DEF Fits
  <2>7. P(col) \in 1..Len(t.columns[y])
    BY <2>4, <2>5, <2>6
  <2>8. t.columns[y][P(col)] \in ColumnsOf(t, y)
    BY <2>5, <2>7
  <2>9. h[col] = t.columns[y][P(col)]
    BY <2>2
  <2>10. QED BY <2>1, <2>2, <2>4, <2>7, <2>8, <2>9
<1>4. Len(w.columns[v]) \in Nat /\ Len(t.columns[v]) \in Nat
      /\ Len(w.columns[v]) + 1 \in 1..Len(t.columns[v])
  <2>1. Len(w.columns[v]) \in Nat /\ Len(t.columns[v]) \in Nat
    BY <1>1
  <2>2. QED BY <2>1
<1>5. spare \in ColumnsOf(t, v)
  <2>1. \A i \in 1..Len(t.columns[v]) : t.columns[v][i] \in ColumnsOf(t, v)
    BY <1>1, EnumerationProperties
  <2>2. QED BY <1>4, <2>1
<1>6. \A y \in Views : ColumnsOf(t, y) \subseteq Columns
  BY DEF ColumnsOf
<1>7. h \in [Columns -> Columns]
  BY <1>3, <1>6
<1>8. ASSUME NEW a \in Columns, NEW b \in Columns, h[a] = h[b] PROVE a = b
  <2>1. PICK y : y = w.view_of[a] /\ y \in Views
    BY <1>3
  <2>2. w.view_of[b] = y
    <3>1. h[a] \in ColumnsOf(t, w.view_of[a]) /\ h[a] \in ColumnsOf(t, w.view_of[b])
      BY <1>3, <1>8
    <3>2. QED BY <2>1, <3>1 DEF ColumnsOf
  <2>3. h[a] = t.columns[y][P(a)] /\ h[b] = t.columns[y][P(b)]
    BY <2>1, <2>2
  <2>4. P(a) \in 1..Len(t.columns[y]) /\ P(b) \in 1..Len(t.columns[y])
        /\ w.columns[y][P(a)] = a /\ w.columns[y][P(b)] = b
    BY <1>3, <2>1, <2>2
  <2>5. PICK i, j : i = P(a) /\ j = P(b)
    OBVIOUS
  <2>6. t.columns[y][i] = t.columns[y][j] /\ i \in 1..Len(t.columns[y]) /\ j \in 1..Len(t.columns[y])
    BY <1>8, <2>3, <2>4, <2>5
  <2>7. i = j
    BY <1>1, <2>1, <2>6, EnumerationIsInjective
  <2>8. QED BY <2>4, <2>5, <2>7
<1>9. \A a \in Columns : h[a] # spare
  <2>1. SUFFICES ASSUME NEW a \in Columns, h[a] = spare PROVE FALSE
    OBVIOUS
  <2>2. w.view_of[a] = v
    BY <1>3, <1>5, <2>1 DEF ColumnsOf
  <2>3. PICK i, j : i = P(a) /\ j = Len(w.columns[v]) + 1
    OBVIOUS
  <2>4. i \in 1..Len(w.columns[v]) /\ i \in 1..Len(t.columns[v]) /\ h[a] = t.columns[v][i]
    BY <1>3, <2>2, <2>3
  <2>5. t.columns[v][i] = t.columns[v][j] /\ j \in 1..Len(t.columns[v]) /\ i # j
    BY SMTT(60), <1>4, <2>1, <2>3, <2>4
  <2>6. QED BY <1>1, <2>4, <2>5, EnumerationIsInjective
<1> HIDE DEF h, spare
<1>10. spare \in Columns
  BY <1>5, <1>6
<1>11. h \in Injection(Columns, Columns)
  BY <1>7, <1>8 DEF Injection, IsInjective
<1>12. h \in Surjection(Columns, Columns)
  BY <1>11, PoolIsFinite, FS_Injection
<1>13. QED BY <1>9, <1>10, <1>12 DEF Surjection

\* A view as it was saved, before its columns.
MakesView(root, s, u, v) ==
  /\ Sound(u)
  /\ u.tree.views = s.tree.views \cup {v}
  /\ u.tree.selected_view = IF v = root.selected THEN v ELSE s.tree.selected_view
  /\ u.previous = s.previous
  /\ u.tree.bar_visible = s.tree.bar_visible \cup ({v} \cap root.bar_visible)
  /\ u.tree.columns = s.tree.columns /\ u.tree.selected_column = s.tree.selected_column
  /\ u.tree.column_of = s.tree.column_of

\* A view is made, its bar shown or hidden, and the view shown if it was.
LEMMA ViewRecreatedEmpty ==
  ASSUME NEW root, NEW s, Sound(s), NEW v \in Views \ s.tree.views,
         v = root.selected => s.tree.selected_view = None,
         NEW u, u = RecreatedView(root, s, v)
  PROVE  MakesView(root, s, u, v)
<1>1. PICK t, a, shown : /\ t = s.tree /\ a = Tell(s, NewView(t, v))
                         /\ shown = (v \in root.bar_visible)
  OBVIOUS
<1>2. WellFormed(t) /\ Tidy(t) /\ t \in Graph
  BY <1>1, SoundParts
<1>3. a = Tell(s, GetOrCreateView(s.tree, v)) /\ GetOrCreateView(s.tree, v) = NewView(t, v)
  BY <1>1 DEF GetOrCreateView
<1>4. /\ Sound(a) /\ a.tree = GetOrCreateView(s.tree, v)
      /\ SameLinks(s.tree, a.tree)
      /\ a.tree.views = s.tree.views \cup {v}
      /\ a.tree.selected_view = s.tree.selected_view /\ a.previous = s.previous
      /\ Owners(a.tree) = Owners(s.tree) /\ FreeColumns(a.tree) = FreeColumns(s.tree)
      /\ LiveFrames(a.tree) = LiveFrames(s.tree)
      /\ Filled(s.tree) => NoneEmptyBut(a.tree, {}, {v})
  BY <1>3, ViewMade
<1>5. PICK w : w = a.tree
  OBVIOUS
<1>6. w = NewView(t, v)
  BY <1>3, <1>4, <1>5
<1>7. w.bar_visible = t.bar_visible \cup {v} /\ w.selected_column = t.selected_column
  BY <1>2, <1>6 DEF NewView, Graph
<1>8. v \in w.views /\ v \notin t.bar_visible
  BY <1>1, <1>2, <1>4, <1>5 DEF Tidy
<1>9. PICK m : m = SetBarVisible(a, v, shown)
  OBVIOUS
<1>10. /\ Sound(m) /\ m.tree = ShownOrNot(w, v, shown) /\ m.previous = s.previous
  <2>1. v \in a.tree.views
    BY <1>5, <1>8
  <2>2. ShowsOrHides(a, m, v, shown)
    BY <1>4, <1>9, <2>1, BarShownOrHidden
  <2>3. QED BY <1>4, <1>5, <2>2 DEF ShowsOrHides
<1>11. PICK x : x = m.tree
  OBVIOUS
<1>12. /\ x.views = w.views /\ x.selected_view = w.selected_view
       /\ x.columns = w.columns /\ x.selected_column = w.selected_column
       /\ x.column_of = w.column_of
       /\ x.bar_visible = IF shown THEN w.bar_visible \cup {v} ELSE w.bar_visible \ {v}
  <2>1. w \in Graph
    BY <1>4, <1>5, SoundParts
  <2>2. QED BY <1>10, <1>11, <2>1 DEF ShownOrNot, Graph
<1>13. /\ x.views = t.views \cup {v} /\ x.selected_view = t.selected_view
       /\ x.columns = t.columns /\ x.selected_column = t.selected_column
       /\ x.column_of = t.column_of
       /\ x.bar_visible = t.bar_visible \cup ({v} \cap root.bar_visible)
  BY ZenonT(60), <1>1, <1>4, <1>5, <1>7, <1>8, <1>12 DEF SameLinks
<1>14. u = IF v = root.selected THEN SelectViewAndTell(m, v) ELSE m
  BY <1>1, <1>9, Zenon DEF RecreatedView
<1>15. CASE v # root.selected
  BY <1>1, <1>10, <1>11, <1>13, <1>14, <1>15 DEF MakesView
<1>16. CASE v = root.selected
  <2>1. u = SelectViewAndTell(m, v) /\ v \in m.tree.views
    BY <1>11, <1>13, <1>14, <1>16
  <2>2. /\ Sound(u)
        /\ SameLinks(m.tree, u.tree)
        /\ u.tree.selected_view = v /\ v \in u.tree.views /\ u.tree.views \subseteq m.tree.views
        /\ u.tree.bar_visible = m.tree.bar_visible \ (m.tree.views \ u.tree.views)
        /\ u.previous = IF v # m.tree.selected_view /\ m.tree.selected_view # None
                        THEN m.tree.selected_view ELSE m.previous
        /\ Owners(u.tree) = Owners(m.tree) /\ FreeColumns(u.tree) = FreeColumns(m.tree)
        /\ NoneEmptyBut(m.tree, {}, {v}) => Filled(u.tree)
    BY <1>10, <2>1, ViewSelected
  <2>3. WellFormed(x) /\ v \in x.views /\ x.selected_view = None
    BY <1>1, <1>10, <1>11, <1>13, <1>16, SoundParts
  <2>4. u.tree = SelectView(x, v)
    BY <1>11, <2>1 DEF SelectViewAndTell, Tell
  <2>5. u.tree.views = x.views
    BY <2>3, <2>4, SelectViewLook
  <2>6. u.tree.selected_column = x.selected_column
    BY <2>3, <2>4, SelectViewSelections
  <2>7. u.tree.bar_visible = x.bar_visible /\ u.previous = s.previous
    BY <1>10, <1>11, <2>2, <2>3, <2>5
  <2>8. u.tree.columns = x.columns /\ u.tree.column_of = x.column_of
    BY <1>11, <2>2 DEF SameLinks
  <2>9. QED BY <1>1, <1>13, <1>16, <2>2, <2>5, <2>6, <2>7, <2>8 DEF MakesView
<1>17. QED BY <1>15, <1>16

\* The loop over the columns of a saved view.
ColumnsInTurn(after, s, v, list, n) ==
  after = [i \in 0..n |-> IF i = 0 THEN s ELSE RecreateColumn(after[i - 1], v, list[i])]

\* There is such a function.
LEMMA ColumnsRecursion ==
  ASSUME NEW s, NEW v, NEW list, NEW n \in Nat
  PROVE  \E f : ColumnsInTurn(f, s, v, list, n)
<1> DEFINE T == {k \in Nat : \E f : ColumnsInTurn(f, s, v, list, k)}
<1>1. 0 \in T
  <2>1. PICK g : g = [i \in 0..0 |-> s]
    OBVIOUS
  <2>2. ColumnsInTurn(g, s, v, list, 0)
    BY <2>1 DEF ColumnsInTurn
  <2>3. QED BY <2>2
<1>2. ASSUME NEW k \in 1..n, k - 1 \in T PROVE k \in T
  <2>1. PICK f : ColumnsInTurn(f, s, v, list, k - 1)
    BY <1>2
  <2>2. PICK g : g = [i \in 0..k |-> IF i = 0 THEN s ELSE RecreateColumn(f[i - 1], v, list[i])]
    OBVIOUS
  <2>3. ASSUME NEW i \in 0..k, i # 0 PROVE g[i - 1] = f[i - 1]
    BY <2>1, <2>2, <2>3 DEF ColumnsInTurn
  <2>4. ColumnsInTurn(g, s, v, list, k)
    BY <2>2, <2>3 DEF ColumnsInTurn
  <2>5. QED BY <2>4
<1> HIDE DEF T
<1>3. n \in T
  BY <1>1, <1>2, AfterTurns
<1>4. QED BY <1>3 DEF T

\* The loop over the saved views.
ViewsInTurn(after, s, root, list, n) ==
  after = [i \in 0..n |-> IF i = 0 THEN s ELSE RecreateView(root, after[i - 1], list[i])]

\* There is such a function.
LEMMA ViewsRecursion ==
  ASSUME NEW s, NEW root, NEW list, NEW n \in Nat
  PROVE  \E f : ViewsInTurn(f, s, root, list, n)
<1> DEFINE T == {k \in Nat : \E f : ViewsInTurn(f, s, root, list, k)}
<1>1. 0 \in T
  <2>1. PICK g : g = [i \in 0..0 |-> s]
    OBVIOUS
  <2>2. ViewsInTurn(g, s, root, list, 0)
    BY <2>1 DEF ViewsInTurn
  <2>3. QED BY <2>2
<1>2. ASSUME NEW k \in 1..n, k - 1 \in T PROVE k \in T
  <2>1. PICK f : ViewsInTurn(f, s, root, list, k - 1)
    BY <1>2
  <2>2. PICK g : g = [i \in 0..k |-> IF i = 0 THEN s ELSE RecreateView(root, f[i - 1], list[i])]
    OBVIOUS
  <2>3. ASSUME NEW i \in 0..k, i # 0 PROVE g[i - 1] = f[i - 1]
    BY <2>1, <2>2, <2>3 DEF ViewsInTurn
  <2>4. ViewsInTurn(g, s, root, list, k)
    BY <2>2, <2>3 DEF ViewsInTurn
  <2>5. QED BY <2>4
<1> HIDE DEF T
<1>3. n \in T
  BY <1>1, <1>2, AfterTurns
<1>4. QED BY <1>3 DEF T

\* A view as it is in `t', with as many columns.
RestoresView(t, s, u, v) ==
  /\ Sound(u)
  /\ u.tree.views = s.tree.views \cup {v}
  /\ u.tree.selected_view = IF v = t.selected_view THEN v ELSE s.tree.selected_view
  /\ u.previous = s.previous
  /\ u.tree.bar_visible = s.tree.bar_visible \cup ({v} \cap t.bar_visible)
  /\ u.tree.column_of = s.tree.column_of
  /\ Len(u.tree.columns[v]) = Len(t.columns[v])
  /\ Flags(u.tree, v) = Flags(t, v)
  /\ \A y \in Views \ {v} : /\ u.tree.columns[y] = s.tree.columns[y]
                            /\ u.tree.selected_column[y] = s.tree.selected_column[y]

\* One column of a view is flagged, if it has any.
LEMMA FlagsOfView ==
  ASSUME NEW t, WellFormed(t), NEW v \in Views, NEW n, n = Len(t.columns[v]),
         NEW list, list = Flags(t, v)
  PROVE  /\ n \in Nat /\ list \in Seq(BOOLEAN) /\ Len(list) = n /\ DOMAIN list = 1..n
         /\ n # 0 => \E i \in 1..n : list[i]
         /\ \A i, j \in 1..n : list[i] /\ list[j] => i = j
<1>1. /\ t.columns[v] \in Seq(Columns) /\ Enumerates(t.columns[v], ColumnsOf(t, v))
      /\ Selects(t.selected_column[v], ColumnsOf(t, v))
  BY DEF WellFormed, WellLinked, Graph, Tree, Selection
<1>2. n \in Nat /\ DOMAIN t.columns[v] = 1..n
  BY <1>1
<1>3. list = [i \in 1..n |-> t.columns[v][i] = t.selected_column[v]]
  BY <1>2 DEF Flags
<1>4. list \in Seq(BOOLEAN) /\ Len(list) = n /\ DOMAIN list = 1..n
  BY <1>2, <1>3
<1>5. ASSUME n # 0 PROVE \E i \in 1..n : list[i]
  <2>1. t.columns[v] # <<>>
    BY <1>1, <1>2, <1>5
  <2>2. t.selected_column[v] \in ColumnsOf(t, v)
    BY <1>1, <2>1, EnumerationProperties DEF Selects
  <2>3. PICK i : i = Position(t.columns[v], t.selected_column[v])
    OBVIOUS
  <2>4. i \in 1..n /\ t.columns[v][i] = t.selected_column[v]
    BY <1>1, <2>2, <2>3, EnumerationProperties
  <2>5. QED BY <1>3, <2>4
<1>6. ASSUME NEW i \in 1..n, NEW j \in 1..n, list[i], list[j] PROVE i = j
  <2>1. t.columns[v][i] = t.columns[v][j]
    BY <1>3, <1>6
  <2>2. QED BY <1>1, <2>1, EnumerationIsInjective
<1>7. QED BY <1>2, <1>4, <1>5, <1>6

\* PersistentWMInfo of a view, with its columns.
LEMMA ViewRecreated ==
  ASSUME NEW t, WellFormed(t), NEW s, Sound(s), NEW v \in t.views \ s.tree.views,
         Fits(s.tree, t), v = t.selected_view => s.tree.selected_view = None,
         NEW u, u = RecreateView(RootInfo(t), s, v)
  PROVE  RestoresView(t, s, u, v)
<1>1. PICK root, list, n, m : /\ root = RootInfo(t) /\ list = Flags(t, v) /\ n = Len(t.columns[v])
                              /\ m = RecreatedView(root, s, v)
  OBVIOUS
<1>2. v \in Views /\ v \notin s.tree.views
  BY DEF WellFormed, WellLinked, Graph
<1>3. /\ n \in Nat /\ list \in Seq(BOOLEAN) /\ Len(list) = n /\ DOMAIN list = 1..n
      /\ n # 0 => \E i \in 1..n : list[i]
      /\ \A i, j \in 1..n : list[i] /\ list[j] => i = j
  BY <1>1, <1>2, FlagsOfView
<1>4. root.selected = t.selected_view /\ root.bar_visible = t.bar_visible /\ root.columns[v] = list
  BY <1>1 DEF RootInfo, Flags
<1>5. MakesView(root, s, m, v)
  BY <1>1, <1>2, <1>4, ViewRecreatedEmpty
<1>6. PICK after : ColumnsInTurn(after, m, v, list, n) /\ u = after[n]
  <2>1. \E f : ColumnsInTurn(f, m, v, list, n)
    BY <1>3, ColumnsRecursion
  <2>2. u = (CHOOSE f : ColumnsInTurn(f, m, v, list, n))[n]
    <3>1. u = RecreateView(root, s, v)
      BY <1>1
    <3>2. u = Loop(LAMBDA x, selected : RecreateColumn(x, v, selected), m, list)
      BY <1>1, <1>4, <3>1, Zenon DEF RecreateView
    <3>3. QED BY <1>3, <3>2, Zenon DEF Loop, ColumnsInTurn
  <2>3. ColumnsInTurn(CHOOSE f : ColumnsInTurn(f, m, v, list, n), m, v, list, n)
    BY <2>1, Zenon
  <2>4. QED BY <2>2, <2>3
<1>7. after[0] = m /\ \A i \in 1..n : after[i] = RecreateColumn(after[i - 1], v, list[i])
  BY <1>3, <1>6 DEF ColumnsInTurn
<1>8. WellFormed(s.tree) /\ s.tree.columns[v] = <<>> /\ s.tree.selected_column[v] = None
      /\ s.tree.selected_column \in [Views -> OrNone(Columns)]
      /\ s.tree.columns \in [Views -> Seq(Columns)]
  <2>1. WellFormed(s.tree)
    BY SoundParts
  <2>2. ColumnsOf(s.tree, v) = {}
    BY <1>2, <2>1 DEF WellFormed, WellLinked, Tree
  <2>3. s.tree.columns[v] = <<>>
    BY <1>2, <2>1, <2>2, NoColumns DEF WellFormed
  <2>4. s.tree.selected_column[v] = None
    BY <1>2, <2>1, <2>2 DEF WellFormed, Selection, Selects
  <2>5. QED BY <2>1, <2>3, <2>4 DEF WellFormed, WellLinked, Graph
<1> DEFINE Others(x) == \A y \in Views \ {v} : /\ x.columns[y] = s.tree.columns[y]
                                               /\ x.selected_column[y] = s.tree.selected_column[y]
           Chosen1(x, i) == \A j \in 1..i : list[j] => x.selected_column[v] = x.columns[v][j]
           Holds(i) == /\ Sound(after[i])
                       /\ SameViews(m.tree, after[i].tree) /\ after[i].previous = m.previous
                       /\ after[i].tree.bar_visible = m.tree.bar_visible
                       /\ after[i].tree.column_of = m.tree.column_of
                       /\ Others(after[i].tree)
                       /\ Len(after[i].tree.columns[v]) = i
                       /\ Chosen1(after[i].tree, i)
           T == {i \in 0..n : Holds(i)}
<1>9. 0 \in T
  <2>1. m.tree.columns = s.tree.columns /\ m.tree.selected_column = s.tree.selected_column /\ Sound(m)
    BY <1>5 DEF MakesView
  <2>2. Others(m.tree) /\ Len(m.tree.columns[v]) = 0
    BY <1>8, <2>1
  <2>3. Chosen1(m.tree, 0)
    OBVIOUS
  <2>4. SameViews(m.tree, m.tree)
    BY DEF SameViews
  <2> HIDE DEF Others, Chosen1
  <2>5. Holds(0)
    BY <1>7, <2>1, <2>2, <2>3, <2>4
  <2>6. QED BY <1>3, <2>5
<1>10. ASSUME NEW i \in 1..n, i - 1 \in T PROVE i \in T
  <2>1. PICK a, b, x, y, sel : /\ a = after[i - 1] /\ b = after[i] /\ x = a.tree /\ y = b.tree
                               /\ sel = list[i]
    OBVIOUS
  <2>2. Holds(i - 1) /\ i \in 0..n /\ i \in Nat
    <3>1. Holds(i - 1)
      <4> HIDE DEF Holds
      <4>1. QED BY <1>10
    <3>2. QED BY SMTT(60), <1>3, <1>10, <3>1
  <2>3. b = RecreateColumn(a, v, sel)
    BY <1>7, <2>1
  <2>4. /\ Sound(a) /\ SameViews(m.tree, x) /\ a.previous = m.previous
        /\ x.bar_visible = m.tree.bar_visible /\ x.column_of = m.tree.column_of
        /\ Others(x) /\ Len(x.columns[v]) = i - 1 /\ Chosen1(x, i - 1)
    BY <2>1, <2>2
  <2> HIDE DEF Holds, T
  <2>5. WellFormed(x) /\ x \in Graph /\ v \in x.views
    <3>1. v \in m.tree.views
      BY <1>5 DEF MakesView
    <3>2. QED BY <2>1, <2>4, <3>1, SoundParts DEF SameViews
  <2>6. x.columns \in [Views -> Seq(Columns)] /\ x.selected_column \in [Views -> OrNone(Columns)]
    BY <2>5 DEF Graph
  <2>7. FreeColumns(x) # {}
    <3>1. Len(x.columns[v]) < Len(t.columns[v])
      BY <1>1, <1>3, <2>4
    <3>2. Fits(x, t)
      <4>1. ASSUME NEW z \in Views PROVE Len(x.columns[z]) <= Len(t.columns[z])
        <5>1. CASE z = v
          BY <1>1, <1>3, <2>4, <5>1
        <5>2. CASE z # v
          BY <2>4, <5>2 DEF Fits
        <5>3. QED BY <5>1, <5>2
      <4>2. QED BY <4>1 DEF Fits
    <3>3. QED BY <1>2, <2>5, <3>1, <3>2, SomeColumnIsFree
  <2>8. AddsColumn(a, b, v, sel)
    BY <2>1, <2>3, <2>4, <2>5, <2>7, ColumnRecreated
  <2>9. PICK col \in FreeColumns(x) :
          /\ y.columns = [x.columns EXCEPT ![v] = InsertAt(x.columns[v], Len(x.columns[v]) + 1, col)]
          /\ y.selected_column =
               [x.selected_column EXCEPT ![v] =
                  IF sel \/ x.selected_column[v] = None THEN col ELSE x.selected_column[v]]
    BY <2>1, <2>8 DEF AddsColumn
  <2>10. /\ Sound(b) /\ SameViews(x, y) /\ b.previous = a.previous
         /\ y.bar_visible = x.bar_visible /\ y.column_of = x.column_of
    BY <2>1, <2>8 DEF AddsColumn
  <2>11. PICK old, new : /\ old = x.columns[v] /\ new = InsertAt(old, i, col)
    OBVIOUS
  <2>12. old \in Seq(Columns) /\ Len(old) = i - 1 /\ col \in Columns
    BY <1>2, <2>4, <2>6, <2>9, <2>11 DEF FreeColumns
  <2>13. y.columns[v] = new
         /\ y.selected_column[v] = IF sel \/ x.selected_column[v] = None THEN col
                                   ELSE x.selected_column[v]
    <3>1. Len(x.columns[v]) + 1 = i
      BY <2>2, <2>4
    <3>2. QED BY <1>2, <2>6, <2>9, <2>11, <3>1
  <2>14. Others(y)
    BY <2>4, <2>6, <2>9
  <2>15. /\ Len(new) = i /\ new[i] = col
         /\ \A j \in 1..(i - 1) : new[j] = old[j]
    <3>1. i \in 1..(Len(old) + 1) /\ Len(old) + 1 = i
      BY <2>2, <2>12
    <3>2. /\ InsertAt(old, i, col) \in Seq(Columns) /\ Len(InsertAt(old, i, col)) = Len(old) + 1
          /\ \A j \in 1..(Len(old) + 1) :
               InsertAt(old, i, col)[j] = IF j < i THEN old[j] ELSE IF j = i THEN col ELSE old[j - 1]
      BY <2>12, <3>1, InsertAtPlaces, SMTT(30)
    <3>3. QED BY <2>11, <2>12, <3>1, <3>2, SMTT(30)
  <2>16. Chosen1(y, i)
    <3>1. SUFFICES ASSUME NEW j \in 1..i, list[j] PROVE y.selected_column[v] = y.columns[v][j]
      OBVIOUS
    <3>2. CASE j = i
      BY <2>1, <2>13, <2>15, <3>1, <3>2
    <3>3. CASE j # i
      <4>1. j \in 1..(i - 1) /\ j \in 1..n
        BY <1>3, <3>3
      <4>2. x.selected_column[v] = old[j]
        BY <2>4, <2>11, <3>1, <4>1
      <4>3. ~ sel
        BY <1>3, <2>1, <3>1, <3>3, <4>1
      <4>4. old[j] \in Columns
        BY <2>12, <4>1
      <4>5. old[j] # None
        BY <4>4, NoneIsNeither
      <4>6. QED BY <2>13, <2>15, <4>1, <4>2, <4>3, <4>5
    <3>4. QED BY <3>2, <3>3
  <2>17. SameViews(m.tree, y)
    BY <2>4, <2>10 DEF SameViews
  <2>18. Holds(i)
    <3> HIDE DEF Others, Chosen1
    <3>1. /\ Len(y.columns[v]) = i /\ b.previous = m.previous
          /\ y.bar_visible = m.tree.bar_visible /\ y.column_of = m.tree.column_of
      BY <2>4, <2>10, <2>13, <2>15
    <3>2. QED BY <2>1, <2>10, <2>14, <2>16, <2>17, <3>1 DEF Holds
  <2>19. QED BY <2>2, <2>18 DEF T
<1>11. Holds(n)
  <2> HIDE DEF T, Holds
  <2>1. n \in T
    BY <1>3, <1>9, <1>10, AfterTurns
  <2>2. QED BY <2>1 DEF T
<1>12. PICK x : x = u.tree
  OBVIOUS
<1>13. /\ Sound(u) /\ SameViews(m.tree, x) /\ u.previous = m.previous
       /\ x.bar_visible = m.tree.bar_visible /\ x.column_of = m.tree.column_of
       /\ Others(x) /\ Len(x.columns[v]) = n /\ Chosen1(x, n)
  BY <1>6, <1>11, <1>12
<1> HIDE DEF Holds, T
<1>14. WellFormed(x)
  BY <1>12, <1>13, SoundParts
<1>15. Flags(x, v) = list
  <2>1. PICK now : now = Flags(x, v)
    OBVIOUS
  <2>2. /\ now \in Seq(BOOLEAN) /\ Len(now) = n /\ DOMAIN now = 1..n
        /\ \A i, j \in 1..n : now[i] /\ now[j] => i = j
    BY <1>2, <1>13, <1>14, <2>1, FlagsOfView
  <2>3. DOMAIN x.columns[v] = 1..n
    <3>1. x.columns[v] \in Seq(Columns)
      BY <1>2, <1>14 DEF WellFormed, WellLinked, Graph
    <3>2. QED BY <1>13, <3>1
  <2>4. \A i \in 1..n : now[i] = (x.columns[v][i] = x.selected_column[v])
    BY <2>1, <2>3 DEF Flags
  <2>5. \A i \in 1..n : list[i] => now[i]
    BY <1>13, <2>4
  <2>6. ASSUME NEW i \in 1..n PROVE now[i] = list[i]
    <3>1. PICK k \in 1..n : list[k]
      BY <1>3
    <3>2. now[k]
      BY <2>5, <3>1
    <3>3. now[i] \in BOOLEAN /\ list[i] \in BOOLEAN
      BY <1>3, <2>2
    <3>4. now[i] => i = k
      BY <2>2, <3>2
    <3>5. QED BY <2>5, <3>1, <3>3, <3>4
  <2>7. now = list
    BY <1>3, <2>2, <2>6
  <2>8. QED BY <2>1, <2>7
<1>16. QED BY <1>1, <1>4, <1>5, <1>12, <1>13, <1>15 DEF RestoresView, MakesView, SameViews

\* The views of V are as they are in `t', but without frames, and there are no others.
Restored(t, V, w) ==
  /\ w.views = V
  /\ w.selected_view = IF t.selected_view \in V THEN t.selected_view ELSE None
  /\ w.bar_visible = V \cap t.bar_visible
  /\ w.column_of = EmptyGraph.column_of
  /\ Fits(w, t)
  /\ \A v \in V : Len(w.columns[v]) = Len(t.columns[v]) /\ Flags(w, v) = Flags(t, v)

\* With one view more there are as many more of them.
LEMMA RestoredByOne ==
  ASSUME NEW t, WellFormed(t), NEW s, NEW V \in SUBSET t.views, Restored(t, V, s.tree),
         NEW v \in t.views \ V, NEW u, RestoresView(t, s, u, v)
  PROVE  Restored(t, V \cup {v}, u.tree)
<1>1. PICK x, y : x = s.tree /\ y = u.tree
  OBVIOUS
<1>2. v \in Views /\ t.views \subseteq Views
  BY DEF WellFormed, WellLinked, Graph
<1>3. /\ x.views = V
      /\ x.selected_view = IF t.selected_view \in V THEN t.selected_view ELSE None
      /\ x.bar_visible = V \cap t.bar_visible
      /\ x.column_of = EmptyGraph.column_of
      /\ Fits(x, t)
      /\ \A z \in V : Len(x.columns[z]) = Len(t.columns[z]) /\ Flags(x, z) = Flags(t, z)
  BY <1>1 DEF Restored
<1>4. /\ y.views = x.views \cup {v}
      /\ y.selected_view = IF v = t.selected_view THEN v ELSE x.selected_view
      /\ y.bar_visible = x.bar_visible \cup ({v} \cap t.bar_visible)
      /\ y.column_of = x.column_of
      /\ Len(y.columns[v]) = Len(t.columns[v])
      /\ Flags(y, v) = Flags(t, v)
      /\ \A z \in Views \ {v} : /\ y.columns[z] = x.columns[z]
                                /\ y.selected_column[z] = x.selected_column[z]
  BY <1>1 DEF RestoresView
<1>5. Fits(y, t)
  <2>1. ASSUME NEW z \in Views PROVE Len(y.columns[z]) <= Len(t.columns[z])
    <3>1. CASE z = v
      <4>1. t.columns[v] \in Seq(Columns)
        BY <1>2 DEF WellFormed, WellLinked, Graph
      <4>2. QED BY <1>4, <3>1, <4>1
    <3>2. CASE z # v
      BY <1>3, <1>4, <3>2 DEF Fits
    <3>3. QED BY <3>1, <3>2
  <2>2. QED BY <2>1 DEF Fits
<1>6. ASSUME NEW z \in V \cup {v}
      PROVE  Len(y.columns[z]) = Len(t.columns[z]) /\ Flags(y, z) = Flags(t, z)
  <2>1. CASE z = v
    BY <1>4, <2>1
  <2>2. CASE z # v
    <3>1. z \in V /\ z \in Views
      BY <1>2, <2>2
    <3>2. y.columns[z] = x.columns[z] /\ y.selected_column[z] = x.selected_column[z]
      BY <1>4, <2>2, <3>1
    <3>3. Flags(y, z) = Flags(x, z)
      BY <3>2 DEF Flags
    <3>4. QED BY <1>3, <3>1, <3>2, <3>3
  <2>3. QED BY <2>1, <2>2
<1>7. /\ y.views = V \cup {v}
      /\ y.selected_view = IF t.selected_view \in V \cup {v} THEN t.selected_view ELSE None
      /\ y.bar_visible = (V \cup {v}) \cap t.bar_visible
      /\ y.column_of = EmptyGraph.column_of
  BY <1>3, <1>4
<1>8. QED BY <1>1, <1>5, <1>6, <1>7 DEF Restored

\* What EmptyGraph says of the views that are not there.
LEMMA NothingRestored ==
  ASSUME NEW t, WellFormed(t)
  PROVE  Restored(t, {}, EmptyGraph)
<1>1. PICK w : w = EmptyGraph
  OBVIOUS
<1>2. w.views = {} /\ w.selected_view = None /\ w.bar_visible = {}
      /\ \A v \in Views : w.columns[v] = <<>>
  BY <1>1 DEF EmptyGraph
<1>3. Fits(w, t)
  <2>1. ASSUME NEW v \in Views PROVE Len(w.columns[v]) <= Len(t.columns[v])
    <3>1. t.columns[v] \in Seq(Columns)
      BY DEF WellFormed, WellLinked, Graph
    <3>2. QED BY <1>2, <3>1
  <2>2. QED BY <2>1 DEF Fits
<1>4. QED BY <1>1, <1>2, <1>3 DEF Restored

\* All the views that were saved are made again.
LEMMA ViewsRecreated ==
  ASSUME NEW o, Sound(o), NEW t, t = o.tree, NEW root, root = RootInfo(t), root # None,
         NEW u, u = RecreatedViews(root)
  PROVE  Sound(u) /\ Restored(t, t.views, u.tree) /\ u.previous = None
<1>1. WellFormed(t)
  BY SoundParts
<1>2. root.views = t.views
  BY DEF RootInfo
<1>3. PICK names : Grows(names) /\ ToSet(names) = t.views
  BY DEF Sound, Consistent, BarFollows, HoldsViews
<1>4. InOrder(root.views) = names
  BY <1>2, <1>3, InOrderIs
<1>5. PICK n : n = Len(names)
  OBVIOUS
<1>6. n \in Nat /\ DOMAIN names = 1..n /\ IsInjective(names)
  BY <1>3, <1>5, GrowingCounts DEF Grows
<1>7. PICK after : ViewsInTurn(after, NewSession, root, names, n) /\ u = after[n]
  <2>1. \E f : ViewsInTurn(f, NewSession, root, names, n)
    BY <1>6, ViewsRecursion
  <2>2. u = (CHOOSE f : ViewsInTurn(f, NewSession, root, names, n))[n]
    <3>1. u = RecreatedViews(root)
      OBVIOUS
    <3>2. u = Loop(LAMBDA s, v : RecreateView(root, s, v), NewSession, names)
      BY <1>2, <1>4, <3>1, Zenon DEF RecreatedViews
    <3>3. QED BY <1>5, <3>2, Zenon DEF Loop, ViewsInTurn
  <2>3. ViewsInTurn(CHOOSE f : ViewsInTurn(f, NewSession, root, names, n),
                    NewSession, root, names, n)
    BY <2>1, Zenon
  <2>4. QED BY <2>2, <2>3
<1>8. after[0] = NewSession /\ \A i \in 1..n : after[i] = RecreateView(root, after[i - 1], names[i])
  BY <1>6, <1>7 DEF ViewsInTurn
<1> DEFINE First(i) == {names[j] : j \in 1..i}
           Holds(i) == /\ Sound(after[i]) /\ after[i].previous = None
                       /\ Restored(t, First(i), after[i].tree)
           T == {i \in 0..n : Holds(i)}
<1>9. 0 \in T
  <2>1. Sound(NewSession) /\ NewSession.previous = None /\ NewSession.tree = EmptyGraph
    BY NewSessionSound
  <2>2. First(0) = {}
    OBVIOUS
  <2>3. Restored(t, First(0), NewSession.tree)
    BY <1>1, <2>1, <2>2, NothingRestored
  <2> HIDE DEF First
  <2>4. Holds(0)
    BY <1>8, <2>1, <2>3
  <2>5. QED BY <1>6, <2>4
<1>10. ASSUME NEW i \in 1..n, i - 1 \in T PROVE i \in T
  <2>1. PICK a, b, v, V : /\ a = after[i - 1] /\ b = after[i] /\ v = names[i] /\ V = First(i - 1)
    OBVIOUS
  <2>2. Holds(i - 1)
    <3> HIDE DEF Holds
    <3>1. QED BY <1>10
  <2>3. /\ Sound(a) /\ a.previous = None /\ Restored(t, V, a.tree)
    BY <2>1, <2>2
  <2>4. i \in 0..n /\ i \in Nat
    BY <1>6
  <2>5. V \subseteq t.views /\ v \in t.views \ V /\ First(i) = V \cup {v}
    <3>1. \A j \in 1..n : names[j] \in t.views
      BY <1>3, <1>6 DEF ToSet
    <3>2. \A j \in 1..(i - 1) : j \in 1..n /\ j # i
      BY <1>6
    <3>3. \A j \in 1..(i - 1) : names[j] # names[i]
      BY <1>6, <3>2 DEF IsInjective
    <3>4. 1..i = (1..(i - 1)) \cup {i}
      BY <2>4
    <3>5. QED BY <2>1, <3>1, <3>2, <3>3, <3>4
  <2> HIDE DEF First, T
  <2>6. /\ a.tree.views = V /\ Fits(a.tree, t)
        /\ v = t.selected_view => a.tree.selected_view = None
    BY <2>3, <2>5 DEF Restored
  <2>7. b = RecreateView(RootInfo(t), a, v)
    BY <1>8, <2>1
  <2>8. RestoresView(t, a, b, v)
    <3>1. /\ WellFormed(t) /\ Sound(a) /\ v \in t.views \ a.tree.views /\ Fits(a.tree, t)
          /\ v = t.selected_view => a.tree.selected_view = None
          /\ b = RecreateView(RootInfo(t), a, v)
      BY <1>1, <2>3, <2>5, <2>6, <2>7
    <3>2. QED BY <3>1, ViewRecreated
  <2>9. Restored(t, V \cup {v}, b.tree)
    BY <1>1, <2>3, <2>5, <2>8, RestoredByOne
  <2>10. Sound(b) /\ b.previous = None
    BY <2>3, <2>8 DEF RestoresView
  <2>11. Holds(i)
    BY <2>1, <2>5, <2>9, <2>10
  <2> HIDE DEF Holds
  <2>12. QED BY <2>4, <2>11 DEF T
<1>11. Holds(n) /\ First(n) = t.views
  <2>1. n \in T
    <3> HIDE DEF T, Holds
    <3>1. QED BY <1>6, <1>9, <1>10, AfterTurns
  <2>2. Holds(n)
    <3> HIDE DEF Holds
    <3>1. QED BY <2>1
  <2>3. First(n) = t.views
    BY <1>3, <1>6 DEF ToSet
  <2>4. QED BY <2>2, <2>3
<1>12. QED BY <1>7, <1>11

-----------------------------------------------------------------------------
(* What was saved is made again: frames (PersistentClientInfo).            *)

\* A saved frame as it is made, before it enters its column.
SavedFrame(w, f, entry) ==
  [NewFrame(w, f) EXCEPT !.shaded = IF entry.shaded THEN @ \cup {f} ELSE @,
                         !.decorated = IF entry.decorated THEN @ ELSE @ \ {f}]

\* With or without, as it was saved.
WithOrWithout(S, f, wanted) == IF wanted THEN S \cup {f} ELSE S \ {f}

\* It is made and nothing else changes.
LEMMA SavedFrameEffect ==
  ASSUME NEW w \in Graph, NEW f \in Frames, NEW entry, NEW u, u = SavedFrame(w, f, entry)
  PROVE  /\ Repaints(w, u) /\ u.bar_visible = w.bar_visible
         /\ u.shaded = WithOrWithout(w.shaded, f, entry.shaded)
         /\ u.decorated = WithOrWithout(w.decorated, f, entry.decorated)
<1>1. PICK n, a, b : n = NewFrame(w, f) /\ a = entry.shaded /\ b = entry.decorated
  OBVIOUS
<1>2. /\ Repaints(w, n) /\ n.bar_visible = w.bar_visible
      /\ n.decorated = w.decorated \cup {f} /\ n.shaded = w.shaded \ {f}
  BY <1>1, NewFrameEffect, NewFrameLook
<1>3. n \in Graph
  BY <1>2 DEF Repaints
<1>4. PICK sh, de : /\ sh = IF a THEN n.shaded \cup {f} ELSE n.shaded
                    /\ de = IF b THEN n.decorated ELSE n.decorated \ {f}
  OBVIOUS
<1>5. u = [n EXCEPT !.shaded = sh, !.decorated = de]
  BY <1>1, <1>4 DEF SavedFrame
<1>6. sh \in SUBSET Frames /\ de \in SUBSET Frames
  BY <1>3, <1>4 DEF Graph
<1>7. Repaints(n, u) /\ u.bar_visible = n.bar_visible /\ u.shaded = sh /\ u.decorated = de
  BY ZenonT(60), <1>3, <1>5, <1>6 DEF Repaints, Graph, SameViews
<1>8. Repaints(w, u)
  BY <1>2, <1>7 DEF Repaints, SameViews
<1>9. /\ sh = WithOrWithout(w.shaded, f, a)
      /\ de = WithOrWithout(w.decorated, f, b)
  BY <1>2, <1>4 DEF WithOrWithout
<1>10. QED BY <1>1, <1>2, <1>7, <1>8, <1>9

\* It enters its column and is selected there, if it was.
EnterColumn(w, f, col, entry) ==
  LET n == SavedFrame(w, f, entry)
      x == AddFrame(n, f, col, Len(n.frames[col]) + 1)
  IN IF entry.selected THEN SelectFrameInColumn(x, col, f) ELSE x

\* A frame is in its column, looks as it was saved, and is selected there if it was
\* or is the first.
EntersColumn(t, x, f, col, entry) ==
  /\ WellFormed(x) /\ SameViews(t, x) /\ x.bar_visible = t.bar_visible
  /\ x.columns = t.columns /\ x.view_of = t.view_of
  /\ x.column_of = [t.column_of EXCEPT ![f] = col]
  /\ x.selected_column = t.selected_column
  /\ x.selected_frame =
       [t.selected_frame EXCEPT ![col] =
          IF entry.selected \/ t.selected_frame[col] = None THEN f ELSE t.selected_frame[col]]
  /\ x.shaded = WithOrWithout(t.shaded, f, entry.shaded)
  /\ x.decorated = WithOrWithout(t.decorated, f, entry.decorated)

\* In a column without frames add_frame selects the new one.
LEMMA ColumnEntered ==
  ASSUME NEW t, WellFormed(t), NEW f \in Frames \ LiveFrames(t),
         NEW col \in Columns, t.view_of[col] = ViewOf(f), NEW entry,
         NEW x, x = EnterColumn(t, f, col, entry)
  PROVE  EntersColumn(t, x, f, col, entry)
<1>1. PICK n, i, w, wanted :
        /\ n = SavedFrame(t, f, entry) /\ i = Len(n.frames[col]) + 1
        /\ w = AddFrame(n, f, col, i)
        /\ wanted = entry.selected
  OBVIOUS
<1>2. x = IF wanted THEN SelectFrameInColumn(w, col, f) ELSE w
  BY <1>1 DEF EnterColumn
<1>3. t \in Graph /\ f \in Frames
  BY DEF WellFormed, WellLinked
<1>6. /\ Repaints(t, n) /\ n.bar_visible = t.bar_visible
      /\ n.shaded = WithOrWithout(t.shaded, f, entry.shaded)
      /\ n.decorated = WithOrWithout(t.decorated, f, entry.decorated)
  BY <1>1, <1>3, SavedFrameEffect
<1>7. WellFormed(n)
  BY <1>6, RepaintsWellFormed
<1>8. /\ n \in Graph /\ SameViews(t, n) /\ n.columns = t.columns /\ n.view_of = t.view_of
      /\ n.frames = t.frames /\ n.column_of = t.column_of
      /\ n.selected_column = t.selected_column /\ n.selected_frame = t.selected_frame
  BY <1>6 DEF Repaints
<1>9. f \in Frames \ LiveFrames(n) /\ n.view_of[col] = ViewOf(f)
  BY <1>8 DEF LiveFrames
<1>10. i \in 1..(Len(n.frames[col]) + 1)
  <2>1. n.frames[col] \in Seq(Frames)
    BY <1>8 DEF Graph
  <2>2. Len(n.frames[col]) \in Nat
    BY <2>1
  <2>3. QED BY <1>1, <2>2
<1>11. /\ WellFormed(w)
       /\ SameViews(n, w)
       /\ w.columns = n.columns /\ w.view_of = n.view_of
       /\ w.column_of = [n.column_of EXCEPT ![f] = col]
       /\ w.marked = n.marked
  BY <1>1, <1>7, <1>9, <1>10, AddFrameWellFormed
<1>12. SameLook(n, w)
  BY <1>1, <1>7, <1>9, <1>10, AddFrameLook
<1>13. /\ w.selected_column = n.selected_column
       /\ w.selected_frame = IF n.selected_frame[col] = None
                             THEN [n.selected_frame EXCEPT ![col] = f] ELSE n.selected_frame
  <2>1. InsertsFrame(n, w, f, col, i)
    BY <1>1, <1>7, <1>9, <1>10, AddFrameLists
  <2>2. QED BY <2>1 DEF InsertsFrame
<1>14. t.selected_frame \in [Columns -> OrNone(Frames)] /\ t.column_of \in [Frames -> OrNone(Columns)]
  BY <1>3 DEF Graph
<1>15. /\ WellFormed(x) /\ SameViews(w, x) /\ SameLook(w, x)
       /\ x.columns = w.columns /\ x.view_of = w.view_of /\ x.column_of = w.column_of
       /\ x.selected_column = w.selected_column
       /\ x.selected_frame = [t.selected_frame EXCEPT ![col] =
                                IF wanted \/ t.selected_frame[col] = None THEN f
                                ELSE t.selected_frame[col]]
  <2>1. CASE ~ wanted
    <3>1. x = w
      BY <1>2, <2>1
    <3>2. w.selected_frame = [t.selected_frame EXCEPT ![col] =
                                IF wanted \/ t.selected_frame[col] = None THEN f
                                ELSE t.selected_frame[col]]
      <4>1. CASE t.selected_frame[col] = None
        BY <1>8, <1>13, <4>1
      <4>2. CASE t.selected_frame[col] # None
        BY <1>8, <1>13, <1>14, <2>1, <4>2
      <4>3. QED BY <4>1, <4>2
    <3>3. QED BY <1>11, <3>1, <3>2 DEF SameViews, SameLook
  <2>2. CASE wanted
    <3>1. x = SelectFrameInColumn(w, col, f)
      BY <1>2, <2>2
    <3>2. f \in FramesIn(w, col) /\ f \in OrNone(Frames)
      BY <1>3, <1>8, <1>11, <1>14 DEF FramesIn, OrNone
    <3>3. WellFormed(x) /\ SameLinks(w, x) /\ SameViews(w, x)
      BY <1>11, <3>1, <3>2, SelectOwnFrameWellFormed
    <3>4. WellLinked(w) /\ NothingDangles(w)
      BY <1>11, SelectionDoesNotDangle DEF WellFormed
    <3>5. /\ x \in Graph
          /\ SameLinks(w, x) /\ SameViews(w, x)
          /\ x.selected_column = w.selected_column
          /\ x.selected_frame = [w.selected_frame EXCEPT ![col] = f]
      BY <3>1, <3>2, <3>4, SelectFrameInColumnEffect
    <3>6. SameLook(w, x)
      BY <3>1, <3>2, <3>4, SelectFrameInColumnLook
    <3>7. [w.selected_frame EXCEPT ![col] = f] = [t.selected_frame EXCEPT ![col] = f]
      <4>1. CASE t.selected_frame[col] = None
        BY <1>8, <1>13, <1>14, <4>1
      <4>2. CASE t.selected_frame[col] # None
        BY <1>8, <1>13, <4>2
      <4>3. QED BY <4>1, <4>2
    <3>8. x.selected_frame = [t.selected_frame EXCEPT ![col] =
                                IF wanted \/ t.selected_frame[col] = None THEN f
                                ELSE t.selected_frame[col]]
      BY <2>2, <3>5, <3>7
    <3>9. QED BY <3>3, <3>5, <3>6, <3>8 DEF SameLinks
  <2>3. QED BY <2>1, <2>2
<1>16. /\ SameViews(t, x) /\ x.bar_visible = t.bar_visible
       /\ x.columns = t.columns /\ x.view_of = t.view_of
       /\ x.column_of = [t.column_of EXCEPT ![f] = col]
       /\ x.selected_column = t.selected_column
       /\ x.shaded = WithOrWithout(t.shaded, f, entry.shaded)
       /\ x.decorated = WithOrWithout(t.decorated, f, entry.decorated)
  BY <1>6, <1>8, <1>11, <1>12, <1>13, <1>15 DEF SameViews, SameLook
<1>17. QED BY <1>1, <1>15, <1>16 DEF EntersColumn

\* Where a frame in that view is to go.
SavedColumn(t, info, v) == t.columns[v][info[v].column]

\* The views of V have the columns that `info' says.
HasPlaces(t, info, V) == \A v \in V : info[v].column \in 1..Len(t.columns[v])

\* The column of a frame is a column of its view.
LEMMA SavedColumnIsThere ==
  ASSUME NEW t, WellFormed(t), NEW info, NEW v \in t.views,
         HasPlaces(t, info, {v})
  PROVE  SavedColumn(t, info, v) \in Columns /\ t.view_of[SavedColumn(t, info, v)] = v
<1>1. PICK list, j : list = t.columns[v] /\ j = info[v].column
  OBVIOUS
<1>2. v \in Views
  BY DEF WellFormed, WellLinked, Graph
<1>3. list \in Seq(Columns) /\ Enumerates(list, ColumnsOf(t, v))
  BY <1>1, <1>2 DEF WellFormed, WellLinked, Graph, Tree
<1>4. SavedColumn(t, info, v) = list[j] /\ j \in 1..Len(list)
  BY <1>1 DEF SavedColumn, HasPlaces
<1>5. list[j] \in ColumnsOf(t, v)
  BY <1>3, <1>4, EnumerationProperties
<1>6. QED BY <1>4, <1>5 DEF ColumnsOf

\* place_existing_client puts one of the client's frames where it was.
LEMMA SavedFramePlaced ==
  ASSUME NEW s, Sound(s), NEW c \in Clients, NEW info, NEW v \in s.tree.views,
         NEW f, f = <<c, v>>, f \notin LiveFrames(s.tree),
         NEW entry, entry = info[v], NEW col, col = SavedColumn(s.tree, info, v),
         HasPlaces(s.tree, info, {v}),
         NEW u, u = PlaceSavedFrame(c, info, s, v)
  PROVE  /\ Sound(u) /\ u.previous = s.previous
         /\ EntersColumn(s.tree, u.tree, f, col, entry)
<1>1. PICK t, x : t = s.tree /\ x = EnterColumn(t, f, col, entry)
  OBVIOUS
<1>2. u = Tell(s, x)
  <2>1. PlaceSavedFrame(c, info, s, v) =
          Tell(s, EnterColumn(s.tree, <<c, v>>, SavedColumn(s.tree, info, v), info[v]))
    BY Zenon DEF PlaceSavedFrame, EnterColumn, SavedFrame, SavedColumn
  <2>2. QED BY <1>1, <2>1
<1>3. WellFormed(t) /\ Tidy(t) /\ t \in Graph /\ v \in t.views /\ v \in Views
  BY <1>1, SoundParts
<1>4. f \in Frames /\ ViewOf(f) = v /\ f # None
  BY <1>3, PairIsFrame, NoneIsNeither
<1>5. col \in Columns /\ t.view_of[col] = v
  BY <1>1, <1>3, SavedColumnIsThere
<1>6. EntersColumn(t, x, f, col, entry)
  <2>1. /\ WellFormed(t) /\ f \in Frames \ LiveFrames(t) /\ col \in Columns
        /\ t.view_of[col] = ViewOf(f) /\ x = EnterColumn(t, f, col, entry)
    BY <1>1, <1>3, <1>4, <1>5
  <2>2. QED BY <2>1, ColumnEntered
<1>7. /\ WellFormed(x) /\ SameViews(t, x) /\ x.bar_visible = t.bar_visible
      /\ x.column_of = [t.column_of EXCEPT ![f] = col]
      /\ x.decorated = WithOrWithout(t.decorated, f, entry.decorated)
  BY <1>6 DEF EntersColumn
<1>8. Tidy(x)
  <2>1. f \in LiveFrames(x) /\ LiveFrames(t) \subseteq LiveFrames(x)
    <3>1. col # None /\ t.column_of \in [Frames -> OrNone(Columns)]
      BY <1>3, <1>5, NoneIsNeither DEF Graph
    <3>2. QED BY <1>4, <1>7, <3>1 DEF LiveFrames
  <2>2. x.decorated \subseteq t.decorated \cup {f}
    BY <1>7 DEF WithOrWithout
  <2>3. QED BY <1>3, <1>7, <2>1, <2>2 DEF Tidy, SameViews
<1>9. Follows(t, x)
  BY <1>7, <1>8, FollowsSame
<1>10. /\ Sound(u) /\ u.tree = x
       /\ u.previous = IF x.selected_view # t.selected_view /\ t.selected_view # None
                       THEN t.selected_view ELSE s.previous
  <2>1. Follows(s.tree, x)
    BY <1>1, <1>9
  <2>2. /\ Sound(Tell(s, x)) /\ Tell(s, x).tree = x
        /\ Tell(s, x).previous =
             IF x.selected_view # s.tree.selected_view /\ s.tree.selected_view # None
             THEN s.tree.selected_view ELSE s.previous
    BY <2>1, TellKeeps
  <2>3. QED BY <1>1, <1>2, <2>2
<1>11. u.previous = s.previous
  BY <1>7, <1>10 DEF SameViews
<1>12. QED BY <1>1, <1>6, <1>10, <1>11

\* The loop over the frames of a client that were saved.
SavedInTurn(after, s, c, info, list, n) ==
  after = [i \in 0..n |-> IF i = 0 THEN s ELSE PlaceSavedFrame(c, info, after[i - 1], list[i])]

\* There is such a function.
LEMMA SavedRecursion ==
  ASSUME NEW s, NEW c, NEW info, NEW list, NEW n \in Nat
  PROVE  \E f : SavedInTurn(f, s, c, info, list, n)
<1> DEFINE T == {k \in Nat : \E f : SavedInTurn(f, s, c, info, list, k)}
<1>1. 0 \in T
  <2>1. PICK g : g = [i \in 0..0 |-> s]
    OBVIOUS
  <2>2. SavedInTurn(g, s, c, info, list, 0)
    BY <2>1 DEF SavedInTurn
  <2>3. QED BY <2>2
<1>2. ASSUME NEW k \in 1..n, k - 1 \in T PROVE k \in T
  <2>1. PICK f : SavedInTurn(f, s, c, info, list, k - 1)
    BY <1>2
  <2>2. PICK g : g = [i \in 0..k |-> IF i = 0 THEN s ELSE PlaceSavedFrame(c, info, f[i - 1], list[i])]
    OBVIOUS
  <2>3. ASSUME NEW i \in 0..k, i # 0 PROVE g[i - 1] = f[i - 1]
    BY <2>1, <2>2, <2>3 DEF SavedInTurn
  <2>4. SavedInTurn(g, s, c, info, list, k)
    BY <2>2, <2>3 DEF SavedInTurn
  <2>5. QED BY <2>4
<1> HIDE DEF T
<1>3. n \in T
  BY <1>1, <1>2, AfterTurns
<1>4. QED BY <1>3 DEF T

\* The saved frames of a client in the views of V, and no others, are in their columns.
TakesFrames(t, w, c, info, V) ==
  /\ SameViews(t, w) /\ w.bar_visible = t.bar_visible
  /\ w.columns = t.columns /\ w.view_of = t.view_of
  /\ w.selected_column = t.selected_column
  /\ \A d \in Clients, y \in Views :
       LET f == <<d, y>>
           taken == d = c /\ y \in V
       IN /\ w.column_of[f] = IF taken THEN SavedColumn(t, info, y) ELSE t.column_of[f]
          /\ f \in w.shaded <=> IF taken THEN info[y].shaded ELSE f \in t.shaded
          /\ f \in w.decorated <=> IF taken THEN info[y].decorated ELSE f \in t.decorated
  /\ \A col \in Columns :
       (\A y \in V : SavedColumn(t, info, y) # col) => w.selected_frame[col] = t.selected_frame[col]
  /\ \A y \in V :
       LET col == SavedColumn(t, info, y)
       IN w.selected_frame[col] =
            IF info[y].selected \/ t.selected_frame[col] = None THEN <<c, y>>
            ELSE t.selected_frame[col]

\* None of them is, at first.
LEMMA NoFrameTaken ==
  ASSUME NEW t, NEW c, NEW info
  PROVE  TakesFrames(t, t, c, info, {})
BY DEF TakesFrames, SameViews

\* One more frame, in another view.
LEMMA TakesOneMore ==
  ASSUME NEW t, t \in Graph, NEW c \in Clients, NEW info, NEW V \in SUBSET Views,
         NEW v \in Views \ V,
         \A y \in V \cup {v} : /\ SavedColumn(t, info, y) \in Columns
                               /\ t.view_of[SavedColumn(t, info, y)] = y,
         NEW a \in Graph, TakesFrames(t, a, c, info, V),
         NEW b, EntersColumn(a, b, <<c, v>>, SavedColumn(t, info, v), info[v])
  PROVE  TakesFrames(t, b, c, info, V \cup {v})
<1>1. PICK f, col, sh, de : /\ f = <<c, v>> /\ col = SavedColumn(t, info, v)
                            /\ sh = info[v].shaded /\ de = info[v].decorated
  OBVIOUS
<1>2. f \in Frames /\ col \in Columns
  BY <1>1, PairIsFrame
<1>3. /\ SameViews(a, b) /\ b.bar_visible = a.bar_visible
      /\ b.columns = a.columns /\ b.view_of = a.view_of
      /\ b.selected_column = a.selected_column
      /\ b.column_of = [a.column_of EXCEPT ![f] = col]
      /\ b.selected_frame =
           [a.selected_frame EXCEPT ![col] =
              IF info[v].selected \/ a.selected_frame[col] = None THEN f ELSE a.selected_frame[col]]
      /\ b.shaded = WithOrWithout(a.shaded, f, sh)
      /\ b.decorated = WithOrWithout(a.decorated, f, de)
  BY <1>1 DEF EntersColumn
<1>4. /\ SameViews(t, a) /\ a.bar_visible = t.bar_visible
      /\ a.columns = t.columns /\ a.view_of = t.view_of
      /\ a.selected_column = t.selected_column
  BY DEF TakesFrames
<1>5. /\ a.column_of \in [Frames -> OrNone(Columns)]
      /\ a.selected_frame \in [Columns -> OrNone(Frames)]
  BY DEF Graph
<1>6. \A y \in V : SavedColumn(t, info, y) # col
  BY <1>1
<1>7. ASSUME NEW d \in Clients, NEW y \in Views, NEW g, g = <<d, y>>,
             NEW taken, taken = (d = c /\ y \in V \cup {v})
      PROVE  /\ b.column_of[g] = IF taken THEN SavedColumn(t, info, y) ELSE t.column_of[g]
             /\ g \in b.shaded <=> IF taken THEN info[y].shaded ELSE g \in t.shaded
             /\ g \in b.decorated <=> IF taken THEN info[y].decorated ELSE g \in t.decorated
  <2>1. g \in Frames /\ (g = f <=> d = c /\ y = v)
    BY <1>1, <1>7, PairIsFrame
  <2>2. PICK before : before = (d = c /\ y \in V)
    OBVIOUS
  <2>3. /\ a.column_of[g] = IF before THEN SavedColumn(t, info, y) ELSE t.column_of[g]
        /\ g \in a.shaded <=> IF before THEN info[y].shaded ELSE g \in t.shaded
        /\ g \in a.decorated <=> IF before THEN info[y].decorated ELSE g \in t.decorated
    BY <1>7, <2>2 DEF TakesFrames
  <2>4. CASE g = f
    <3>1. taken /\ y = v
      BY <1>7, <2>1, <2>4
    <3>2. b.column_of[g] = col
      BY <1>2, <1>3, <1>5, <2>4
    <3>3. (g \in b.shaded <=> sh) /\ (g \in b.decorated <=> de)
      BY <1>3, <2>4 DEF WithOrWithout
    <3>4. QED BY <1>1, <3>1, <3>2, <3>3
  <2>5. CASE g # f
    <3>1. taken <=> before
      BY <1>7, <2>1, <2>2, <2>5
    <3>2. b.column_of[g] = a.column_of[g]
      BY <1>3, <1>5, <2>1, <2>5
    <3>3. (g \in b.shaded <=> g \in a.shaded) /\ (g \in b.decorated <=> g \in a.decorated)
      BY <1>3, <2>5 DEF WithOrWithout
    <3>4. QED BY <2>3, <3>1, <3>2, <3>3
  <2>6. QED BY <2>4, <2>5
<1>8. ASSUME NEW x \in Columns, \A y \in V \cup {v} : SavedColumn(t, info, y) # x
      PROVE  b.selected_frame[x] = t.selected_frame[x]
  <2>1. x # col /\ \A y \in V : SavedColumn(t, info, y) # x
    BY <1>1, <1>8
  <2>2. b.selected_frame[x] = a.selected_frame[x]
    BY <1>3, <1>5, <2>1
  <2>3. QED BY <1>8, <2>1, <2>2 DEF TakesFrames
<1>9. ASSUME NEW y \in V \cup {v}, NEW x, x = SavedColumn(t, info, y)
      PROVE  b.selected_frame[x] =
               IF info[y].selected \/ t.selected_frame[x] = None THEN <<c, y>>
               ELSE t.selected_frame[x]
  <2>1. CASE y = v
    <3>1. x = col
      BY <1>1, <1>9, <2>1
    <3>2. a.selected_frame[col] = t.selected_frame[col]
      BY <1>2, <1>6 DEF TakesFrames
    <3>3. b.selected_frame[col] =
            IF info[v].selected \/ a.selected_frame[col] = None THEN f ELSE a.selected_frame[col]
      BY <1>2, <1>3, <1>5
    <3>4. QED BY <1>1, <2>1, <3>1, <3>2, <3>3
  <2>2. CASE y \in V
    <3>1. x # col /\ x \in Columns
      BY <1>6, <1>9, <2>2
    <3>2. b.selected_frame[x] = a.selected_frame[x]
      BY <1>3, <1>5, <3>1
    <3>3. QED BY <1>9, <2>2, <3>2 DEF TakesFrames
  <2>3. QED BY <2>1, <2>2
<1>10. SameViews(t, b) /\ b.bar_visible = t.bar_visible
       /\ b.columns = t.columns /\ b.view_of = t.view_of
       /\ b.selected_column = t.selected_column
  BY <1>3, <1>4 DEF SameViews
<1>11. \A d \in Clients, y \in Views :
         LET g == <<d, y>>
             taken == d = c /\ y \in V \cup {v}
         IN /\ b.column_of[g] = IF taken THEN SavedColumn(t, info, y) ELSE t.column_of[g]
            /\ g \in b.shaded <=> IF taken THEN info[y].shaded ELSE g \in t.shaded
            /\ g \in b.decorated <=> IF taken THEN info[y].decorated ELSE g \in t.decorated
  <2>1. ASSUME NEW d \in Clients, NEW y \in Views
        PROVE  LET g == <<d, y>>
                   taken == d = c /\ y \in V \cup {v}
               IN /\ b.column_of[g] = IF taken THEN SavedColumn(t, info, y) ELSE t.column_of[g]
                  /\ g \in b.shaded <=> IF taken THEN info[y].shaded ELSE g \in t.shaded
                  /\ g \in b.decorated <=> IF taken THEN info[y].decorated ELSE g \in t.decorated
    <3>1. PICK g, taken : g = <<d, y>> /\ taken = (d = c /\ y \in V \cup {v})
      OBVIOUS
    <3>2. /\ b.column_of[g] = IF taken THEN SavedColumn(t, info, y) ELSE t.column_of[g]
          /\ g \in b.shaded <=> IF taken THEN info[y].shaded ELSE g \in t.shaded
          /\ g \in b.decorated <=> IF taken THEN info[y].decorated ELSE g \in t.decorated
      BY <1>7, <3>1
    <3>3. QED BY <3>1, <3>2
  <2>2. QED BY <2>1, Zenon
<1>12. \A y \in V \cup {v} :
         LET x == SavedColumn(t, info, y)
         IN b.selected_frame[x] =
              IF info[y].selected \/ t.selected_frame[x] = None THEN <<c, y>>
              ELSE t.selected_frame[x]
  BY <1>9, Zenon
<1>13. QED BY <1>8, <1>10, <1>11, <1>12, Zenon DEF TakesFrames

\* place_existing_client, of the frames in the views of V.
LEMMA SavedFramesPlaced ==
  ASSUME NEW s, Sound(s), NEW c \in Clients, c \notin Owners(s.tree), NEW info,
         NEW V \in SUBSET s.tree.views,
         HasPlaces(s.tree, info, V),
         NEW u, u = PlaceSavedFrames(s, c, info, V)
  PROVE  /\ Sound(u) /\ u.previous = s.previous
         /\ TakesFrames(s.tree, u.tree, c, info, V)
<1>1. PICK t : t = s.tree
  OBVIOUS
<1>2. WellFormed(t) /\ t \in Graph /\ V \subseteq t.views /\ V \subseteq Views /\ V \subseteq Nat
  BY <1>1, SoundParts
<1>3. PICK names : Grows(names) /\ ToSet(names) = V
  <2>1. PICK all : Grows(all) /\ ToSet(all) = t.views
    BY <1>1 DEF Sound, Consistent, BarFollows, HoldsViews
  <2>2. IsFiniteSet(t.views)
    BY <2>1, GrowingCounts
  <2>3. IsFiniteSet(V)
    BY <1>2, <2>2, FS_Subset
  <2>4. QED BY <1>2, <2>3, GrowingExists
<1>4. InOrder(V) = names
  BY <1>3, InOrderIs
<1>5. PICK n : n = Len(names)
  OBVIOUS
<1>6. n \in Nat /\ DOMAIN names = 1..n /\ IsInjective(names)
  BY <1>3, <1>5, GrowingCounts DEF Grows
<1>7. PICK after : SavedInTurn(after, s, c, info, names, n) /\ u = after[n]
  <2>1. \E f : SavedInTurn(f, s, c, info, names, n)
    BY <1>6, SavedRecursion
  <2>2. u = (CHOOSE f : SavedInTurn(f, s, c, info, names, n))[n]
    <3>1. u = Loop(LAMBDA x, v : PlaceSavedFrame(c, info, x, v), s, names)
      BY <1>4, Zenon DEF PlaceSavedFrames
    <3>2. QED BY <1>5, <3>1, Zenon DEF Loop, SavedInTurn
  <2>3. SavedInTurn(CHOOSE f : SavedInTurn(f, s, c, info, names, n), s, c, info, names, n)
    BY <2>1, Zenon
  <2>4. QED BY <2>2, <2>3
<1>8. after[0] = s
      /\ \A i \in 1..n : after[i] = PlaceSavedFrame(c, info, after[i - 1], names[i])
  BY <1>6, <1>7 DEF SavedInTurn
<1>9. \A y \in V : /\ SavedColumn(t, info, y) \in Columns
                   /\ t.view_of[SavedColumn(t, info, y)] = y
  <2>1. ASSUME NEW y \in V PROVE y \in t.views /\ HasPlaces(t, info, {y})
    BY <1>1, <1>2 DEF HasPlaces
  <2>2. QED BY <1>2, <2>1, SavedColumnIsThere
<1>10. \A y \in Views : <<c, y>> \notin LiveFrames(t)
  <2>1. ASSUME NEW y \in Views, <<c, y>> \in LiveFrames(t) PROVE FALSE
    <3>1. ClientOf(<<c, y>>) = c
      BY PairIsFrame
    <3>2. <<c, y>> \in FramesOf(t, c)
      BY <2>1, <3>1 DEF FramesOf
    <3>3. QED BY <1>1, <3>2 DEF Owners
  <2>2. QED BY <2>1
<1> DEFINE First(i) == {names[j] : j \in 1..i}
           Holds(i) == /\ Sound(after[i]) /\ after[i].previous = s.previous
                       /\ TakesFrames(t, after[i].tree, c, info, First(i))
           T == {i \in 0..n : Holds(i)}
<1>11. 0 \in T
  <2>1. First(0) = {}
    OBVIOUS
  <2>2. TakesFrames(t, t, c, info, First(0))
    BY <2>1, NoFrameTaken
  <2> HIDE DEF First
  <2>3. Holds(0)
    BY <1>1, <1>8, <2>2
  <2>4. QED BY <1>6, <2>3
<1>12. ASSUME NEW i \in 1..n, i - 1 \in T PROVE i \in T
  <2>1. PICK a, b, v, F : /\ a = after[i - 1] /\ b = after[i] /\ v = names[i] /\ F = First(i - 1)
    OBVIOUS
  <2>2. Holds(i - 1)
    <3> HIDE DEF Holds
    <3>1. QED BY <1>12
  <2>3. Sound(a) /\ a.previous = s.previous /\ TakesFrames(t, a.tree, c, info, F)
    BY <2>1, <2>2
  <2>4. i \in 0..n /\ i \in Nat
    BY <1>6
  <2>5. F \subseteq V /\ v \in V \ F /\ First(i) = F \cup {v}
    <3>1. \A j \in 1..n : names[j] \in V
      BY <1>3, <1>6 DEF ToSet
    <3>2. \A j \in 1..(i - 1) : j \in 1..n /\ j # i
      BY <1>6
    <3>3. \A j \in 1..(i - 1) : names[j] # names[i]
      BY <1>6, <3>2 DEF IsInjective
    <3>4. 1..i = (1..(i - 1)) \cup {i}
      BY <2>4
    <3>5. QED BY <2>1, <3>1, <3>2, <3>3, <3>4
  <2> HIDE DEF First, T
  <2>6. PICK w, f, entry, col : w = a.tree /\ f = <<c, v>> /\ entry = info[v]
                                /\ col = SavedColumn(t, info, v)
    OBVIOUS
  <2>7. w.views = t.views /\ w.columns = t.columns /\ w.column_of[f] = t.column_of[f]
        /\ w \in Graph /\ v \in w.views /\ v \in Views
    <3>1. w.views = t.views /\ w.columns = t.columns
      BY <2>3, <2>6 DEF TakesFrames, SameViews
    <3>2. w.column_of[f] = t.column_of[f]
      BY <1>2, <2>3, <2>5, <2>6 DEF TakesFrames
    <3>3. QED BY <1>2, <2>3, <2>5, <2>6, <3>1, <3>2, SoundParts
  <2>8. f \notin LiveFrames(w)
    BY <1>10, <2>6, <2>7 DEF LiveFrames
  <2>9. HasPlaces(w, info, {v}) /\ col = SavedColumn(w, info, v)
    BY <1>1, <2>5, <2>6, <2>7 DEF SavedColumn, HasPlaces
  <2>10. b = PlaceSavedFrame(c, info, a, v)
    BY <1>8, <2>1
  <2>11. Sound(b) /\ b.previous = a.previous /\ EntersColumn(w, b.tree, f, col, entry)
    <3>1. /\ Sound(a) /\ v \in a.tree.views /\ f = <<c, v>> /\ f \notin LiveFrames(a.tree)
          /\ entry = info[v] /\ col = SavedColumn(a.tree, info, v)
          /\ HasPlaces(a.tree, info, {v})
      BY <2>3, <2>6, <2>7, <2>8, <2>9
    <3>2. /\ Sound(b) /\ b.previous = a.previous
          /\ EntersColumn(a.tree, b.tree, f, col, entry)
      BY <2>10, <3>1, SavedFramePlaced
    <3>3. QED BY <2>6, <3>2
  <2>12. TakesFrames(t, b.tree, c, info, F \cup {v})
    <3>1. /\ F \in SUBSET Views /\ v \in Views \ F /\ TakesFrames(t, w, c, info, F)
          /\ EntersColumn(w, b.tree, <<c, v>>, SavedColumn(t, info, v), info[v])
          /\ \A y \in F \cup {v} : /\ SavedColumn(t, info, y) \in Columns
                                   /\ t.view_of[SavedColumn(t, info, y)] = y
      BY <1>2, <1>9, <2>3, <2>5, <2>6, <2>7, <2>11
    <3>2. QED BY <1>2, <2>7, <3>1, TakesOneMore
  <2>13. Holds(i)
    BY <2>1, <2>3, <2>5, <2>11, <2>12
  <2> HIDE DEF Holds
  <2>14. QED BY <2>4, <2>13 DEF T
<1>13. Holds(n) /\ First(n) = V
  <2>1. n \in T
    <3> HIDE DEF T, Holds
    <3>1. QED BY <1>6, <1>11, <1>12, AfterTurns
  <2>2. Holds(n)
    <3> HIDE DEF Holds
    <3>1. QED BY <2>1
  <2>3. First(n) = V
    BY <1>3, <1>6 DEF ToSet
  <2>4. QED BY <2>2, <2>3
<1>14. QED BY <1>1, <1>7, <1>13

\* So the client has the frames that were saved in views of V.
LEMMA TakenFramesAre ==
  ASSUME NEW t, NEW w, NEW c \in Clients, NEW info, NEW V \in SUBSET Views,
         TakesFrames(t, w, c, info, V), c \notin Owners(t),
         \A y \in V : SavedColumn(t, info, y) \in Columns
  PROVE  /\ FramesOf(w, c) = {<<c, y>> : y \in V}
         /\ \A d \in Clients \ {c} : FramesOf(w, d) = FramesOf(t, d)
         /\ Owners(w) = IF V = {} THEN Owners(t) ELSE Owners(t) \cup {c}
<1>1. ASSUME NEW d \in Clients, NEW y \in Views
      PROVE  /\ <<d, y>> \in Frames
             /\ ClientOf(<<d, y>>) = d
             /\ <<d, y>> \in LiveFrames(w) <=> (<<d, y>> \in LiveFrames(t) \/ (d = c /\ y \in V))
  <2>1. <<d, y>> \in Frames /\ ClientOf(<<d, y>>) = d
    BY PairIsFrame
  <2>2. w.column_of[<<d, y>>] = IF d = c /\ y \in V THEN SavedColumn(t, info, y)
                                ELSE t.column_of[<<d, y>>]
    BY DEF TakesFrames
  <2>3. d = c /\ y \in V => SavedColumn(t, info, y) # None
    BY NoneIsNeither
  <2>4. QED BY <2>1, <2>2, <2>3 DEF LiveFrames
<1>2. \A f \in Frames : \E d \in Clients, y \in Views : f = <<d, y>>
  BY DEF Frames
<1>3. \A y \in Views : <<c, y>> \notin LiveFrames(t)
  <2>1. ASSUME NEW y \in Views, <<c, y>> \in LiveFrames(t) PROVE FALSE
    <3>1. <<c, y>> \in FramesOf(t, c)
      BY <1>1, <2>1 DEF FramesOf
    <3>2. QED BY <3>1 DEF Owners
  <2>2. QED BY <2>1
<1>4. FramesOf(w, c) = {<<c, y>> : y \in V}
  <2>1. ASSUME NEW f \in FramesOf(w, c) PROVE f \in {<<c, y>> : y \in V}
    <3>1. f \in LiveFrames(w) /\ ClientOf(f) = c /\ f \in Frames
      BY DEF FramesOf, LiveFrames
    <3>2. PICK d \in Clients, y \in Views : f = <<d, y>>
      BY <1>2, <3>1
    <3>3. QED BY <1>1, <1>3, <3>1, <3>2
  <2>2. ASSUME NEW y \in V PROVE <<c, y>> \in FramesOf(w, c)
    BY <1>1 DEF FramesOf
  <2>3. QED BY <2>1, <2>2
<1>5. ASSUME NEW d \in Clients \ {c} PROVE FramesOf(w, d) = FramesOf(t, d)
  <2>1. ASSUME NEW f \in Frames, ClientOf(f) = d PROVE f \in LiveFrames(w) <=> f \in LiveFrames(t)
    <3>1. PICK e \in Clients, y \in Views : f = <<e, y>>
      BY <1>2
    <3>2. QED BY <1>1, <2>1, <3>1
  <2>2. QED BY <2>1 DEF FramesOf, LiveFrames
<1>6. Owners(w) = IF V = {} THEN Owners(t) ELSE Owners(t) \cup {c}
  BY ZenonT(60), <1>4, <1>5 DEF Owners
<1>7. QED BY <1>4, <1>5, <1>6

-----------------------------------------------------------------------------
(* The end of loading: what got no frame is deleted.                       *)

\* A column that is empty is gone, and its view if this was the last one.
SweepsColumn(s, u, v, col) ==
  /\ Sound(u) /\ u.previous = s.previous
  /\ u.tree.selected_view = s.tree.selected_view
  /\ u.tree.column_of = s.tree.column_of
  /\ u.tree.views = s.tree.views \/ u.tree.views = s.tree.views \ {v}
  /\ \A c \in Columns \ {col} : u.tree.view_of[c] = s.tree.view_of[c]
  /\ u.tree.view_of[col] \in {None, v}
  /\ u.tree.view_of[col] # None => FramesIn(s.tree, col) # {}
  /\ FramesIn(s.tree, col) # {} => u = s

\* The list of a column is empty when no frame is in it.
LEMMA NoFrames ==
  ASSUME NEW w, WellFormed(w), NEW col \in Columns
  PROVE  w.frames[col] = <<>> <=> FramesIn(w, col) = {}
<1>1. w.frames[col] \in Seq(Frames) /\ Enumerates(w.frames[col], FramesIn(w, col))
  BY DEF WellFormed, WellLinked, Graph, Tree
<1>2. QED BY <1>1, EnumerationProperties

\* It is looked at, and deleted if it is empty.
LEMMA ColumnSwept ==
  ASSUME NEW s, Sound(s), NEW v \in Views, NEW col \in Columns, s.tree.view_of[col] = v,
         NEW u, u = SweepColumn(s, col)
  PROVE  SweepsColumn(s, u, v, col)
<1>1. PICK t : t = s.tree
  OBVIOUS
<1>2. WellFormed(t) /\ Tidy(t) /\ v # None /\ t.view_of[col] = v
  BY <1>1, SoundParts, NoneIsNeither
<1>3. CASE t.frames[col] # <<>>
  <2>1. u = s
    BY <1>1, <1>3 DEF SweepColumn
  <2>2. FramesIn(t, col) # {}
    BY <1>2, <1>3, NoFrames
  <2>3. QED BY <1>1, <1>2, <2>1, <2>2 DEF SweepsColumn
<1>4. CASE t.frames[col] = <<>>
  <2>1. PICK x : x = DeleteColumn(t, col)
    OBVIOUS
  <2>2. u = Tell(s, x)
    BY <1>1, <1>4, <2>1 DEF SweepColumn
  <2>3. FramesIn(t, col) = {}
    BY <1>2, <1>4, NoFrames
  <2>4. /\ WellFormed(x)
        /\ SameFrames(t, x)
        /\ x.selected_view = t.selected_view
        /\ x.views = t.views \/ x.views = t.views \ {t.view_of[col]}
        /\ x.view_of = [t.view_of EXCEPT ![col] = None]
        /\ t.view_of[col] \in x.views =>
             ColumnsOf(x, t.view_of[col]) # {} \/ t.view_of[col] = x.selected_view
    BY <1>2, <2>1, <2>3, DeleteColumnWellFormed
  <2>5. KeepsLook(t, x)
    BY <1>2, <2>1, <2>3, DeleteColumnLook
  <2>6. x.column_of = t.column_of /\ LiveFrames(x) = LiveFrames(t)
    BY <2>4 DEF SameFrames, LiveFrames
  <2>7. t.view_of \in [Columns -> OrNone(Views)]
    BY <1>2 DEF WellFormed, WellLinked, Graph
  <2>8. x.view_of[col] = None /\ \A c \in Columns \ {col} : x.view_of[c] = t.view_of[c]
    BY <2>4, <2>7
  <2>9. Tidy(x)
    BY <1>2, <2>4, <2>5, <2>6 DEF Tidy, KeepsLook
  <2>10. Follows(t, x)
    <3>1. x.bar_visible = t.bar_visible \ (t.views \ x.views)
      BY <2>5 DEF KeepsLook
    <3>2. x.views = t.views \/ x.views = t.views \ {v}
      BY <1>2, <2>4
    <3>3. QED BY <2>4, <2>9, <3>1, <3>2, FollowsDeletion
  <2>11. /\ Sound(u) /\ u.tree = x
         /\ u.previous = IF x.selected_view # t.selected_view /\ t.selected_view # None
                         THEN t.selected_view ELSE s.previous
    BY <1>1, <2>2, <2>10, TellKeeps
  <2>12. QED BY <1>1, <1>2, <2>3, <2>4, <2>6, <2>8, <2>11 DEF SweepsColumn
<1>5. QED BY <1>3, <1>4

\* The loop over the columns of a view.
ColumnsSweptInTurn(after, s, list, n) ==
  after = [i \in 0..n |-> IF i = 0 THEN s ELSE SweepColumn(after[i - 1], list[i])]

\* There is such a function.
LEMMA SweptColumnsRecursion ==
  ASSUME NEW s, NEW list, NEW n \in Nat
  PROVE  \E f : ColumnsSweptInTurn(f, s, list, n)
<1> DEFINE T == {k \in Nat : \E f : ColumnsSweptInTurn(f, s, list, k)}
<1>1. 0 \in T
  <2>1. PICK g : g = [i \in 0..0 |-> s]
    OBVIOUS
  <2>2. ColumnsSweptInTurn(g, s, list, 0)
    BY <2>1 DEF ColumnsSweptInTurn
  <2>3. QED BY <2>2
<1>2. ASSUME NEW k \in 1..n, k - 1 \in T PROVE k \in T
  <2>1. PICK f : ColumnsSweptInTurn(f, s, list, k - 1)
    BY <1>2
  <2>2. PICK g : g = [i \in 0..k |-> IF i = 0 THEN s ELSE SweepColumn(f[i - 1], list[i])]
    OBVIOUS
  <2>3. ASSUME NEW i \in 0..k, i # 0 PROVE g[i - 1] = f[i - 1]
    BY <2>1, <2>2, <2>3 DEF ColumnsSweptInTurn
  <2>4. ColumnsSweptInTurn(g, s, list, k)
    BY <2>2, <2>3 DEF ColumnsSweptInTurn
  <2>5. QED BY <2>4
<1> HIDE DEF T
<1>3. n \in T
  BY <1>1, <1>2, AfterTurns
<1>4. QED BY <1>3 DEF T

\* The columns of a view that are empty are gone, and the view if it is then.
SweepsView(s, u, v) ==
  /\ Sound(u) /\ u.previous = s.previous
  /\ u.tree.selected_view = s.tree.selected_view
  /\ u.tree.column_of = s.tree.column_of
  /\ u.tree.views = s.tree.views \/ u.tree.views = s.tree.views \ {v}
  /\ \A c \in Columns : s.tree.view_of[c] # v => u.tree.view_of[c] = s.tree.view_of[c]
  /\ \A c \in Columns :
       s.tree.view_of[c] = v =>
         /\ u.tree.view_of[c] \in {None, v}
         /\ u.tree.view_of[c] # None => FramesIn(s.tree, c) # {}
  /\ v \in u.tree.views => ColumnsOf(u.tree, v) # {} \/ v = u.tree.selected_view
  /\ (/\ \A c \in ColumnsOf(s.tree, v) : FramesIn(s.tree, c) # {}
      /\ ColumnsOf(s.tree, v) # {} \/ v = s.tree.selected_view) => u = s

\* The loop over its columns.
ColumnsSwept(s, v) == Loop(SweepColumn, s, s.tree.columns[v])

LoopsOverColumns(s, u, v) ==
  /\ Sound(u) /\ u.previous = s.previous
  /\ u.tree.selected_view = s.tree.selected_view
  /\ u.tree.column_of = s.tree.column_of
  /\ u.tree.views = s.tree.views \/ u.tree.views = s.tree.views \ {v}
  /\ \A c \in Columns : s.tree.view_of[c] # v => u.tree.view_of[c] = s.tree.view_of[c]
  /\ \A c \in Columns :
       s.tree.view_of[c] = v =>
         /\ u.tree.view_of[c] \in {None, v}
         /\ u.tree.view_of[c] # None => FramesIn(s.tree, c) # {}
  /\ (\A c \in ColumnsOf(s.tree, v) : FramesIn(s.tree, c) # {}) => u = s

\* Each of them is looked at once.
LEMMA ColumnsAreSwept ==
  ASSUME NEW s, Sound(s), NEW v \in Views, NEW u, u = ColumnsSwept(s, v)
  PROVE  LoopsOverColumns(s, u, v)
<1>1. PICK t, list, n : t = s.tree /\ list = t.columns[v] /\ n = Len(list)
  OBVIOUS
<1>2. WellFormed(t) /\ v # None
  BY <1>1, SoundParts, NoneIsNeither
<1>3. list \in Seq(Columns) /\ Enumerates(list, ColumnsOf(t, v))
  BY <1>1, <1>2 DEF WellFormed, WellLinked, Graph, Tree
<1>4. n \in Nat /\ DOMAIN list = 1..n
  BY <1>1, <1>3
<1>5. /\ \A i \in 1..n : list[i] \in Columns /\ t.view_of[list[i]] = v
      /\ \A i, j \in 1..n : i # j => list[i] # list[j]
      /\ \A c \in Columns : t.view_of[c] = v => \E i \in 1..n : c = list[i]
  BY <1>3, <1>4 DEF Enumerates, IsInjective, ToSet, ColumnsOf
<1>6. PICK after : ColumnsSweptInTurn(after, s, list, n) /\ u = after[n]
  <2>1. \E f : ColumnsSweptInTurn(f, s, list, n)
    BY <1>4, SweptColumnsRecursion
  <2>2. u = (CHOOSE f : ColumnsSweptInTurn(f, s, list, n))[n]
    BY <1>1, Zenon DEF ColumnsSwept, Loop, ColumnsSweptInTurn
  <2>3. ColumnsSweptInTurn(CHOOSE f : ColumnsSweptInTurn(f, s, list, n), s, list, n)
    BY <2>1, Zenon
  <2>4. QED BY <2>2, <2>3
<1>7. after[0] = s /\ \A i \in 1..n : after[i] = SweepColumn(after[i - 1], list[i])
  BY <1>4, <1>6 DEF ColumnsSweptInTurn
<1> DEFINE Looked(w, i) == \A j \in 1..i : /\ w.view_of[list[j]] \in {None, v}
                                           /\ w.view_of[list[j]] # None => FramesIn(t, list[j]) # {}
           ToLookAt(w, i) == \A j \in (i + 1)..n : w.view_of[list[j]] = v
           Others(w) == \A c \in Columns : t.view_of[c] # v => w.view_of[c] = t.view_of[c]
           Full == \A c \in ColumnsOf(t, v) : FramesIn(t, c) # {}
           Holds(i) == /\ Sound(after[i]) /\ after[i].previous = s.previous
                       /\ after[i].tree.selected_view = t.selected_view
                       /\ after[i].tree.column_of = t.column_of
                       /\ after[i].tree.views = t.views \/ after[i].tree.views = t.views \ {v}
                       /\ Others(after[i].tree)
                       /\ Looked(after[i].tree, i) /\ ToLookAt(after[i].tree, i)
                       /\ Full => after[i] = s
           T == {i \in 0..n : Holds(i)}
<1>8. 0 \in T
  <2>1. Others(t) /\ Looked(t, 0)
    OBVIOUS
  <2>2. ToLookAt(t, 0)
    BY <1>4, <1>5
  <2> HIDE DEF Others, Looked, ToLookAt, Full
  <2>3. Holds(0)
    BY <1>1, <1>7, <2>1, <2>2
  <2>4. QED BY <1>4, <2>3
<1>9. ASSUME NEW i \in 1..n, i - 1 \in T PROVE i \in T
  <2>1. PICK a, b, x, y, col : /\ a = after[i - 1] /\ b = after[i] /\ x = a.tree /\ y = b.tree
                               /\ col = list[i]
    OBVIOUS
  <2>2. Holds(i - 1)
    <3> HIDE DEF Holds
    <3>1. QED BY <1>9
  <2>3. /\ Sound(a) /\ a.previous = s.previous
        /\ x.selected_view = t.selected_view /\ x.column_of = t.column_of
        /\ x.views = t.views \/ x.views = t.views \ {v}
        /\ Others(x) /\ Looked(x, i - 1) /\ ToLookAt(x, i - 1)
        /\ Full => a = s
    BY <2>1, <2>2
  <2> HIDE DEF Holds, T
  <2>4. i \in 0..n /\ i \in Nat /\ i \in (i - 1 + 1)..n
    BY <1>4
  <2>5. b = SweepColumn(a, col) /\ col \in Columns /\ x.view_of[col] = v
    BY <1>5, <1>7, <2>1, <2>3, <2>4
  <2>6. SweepsColumn(a, b, v, col)
    BY <2>1, <2>3, <2>5, ColumnSwept
  <2>7. /\ Sound(b) /\ b.previous = a.previous
        /\ y.selected_view = x.selected_view /\ y.column_of = x.column_of
        /\ y.views = x.views \/ y.views = x.views \ {v}
        /\ \A c \in Columns \ {col} : y.view_of[c] = x.view_of[c]
        /\ y.view_of[col] \in {None, v}
        /\ y.view_of[col] # None => FramesIn(x, col) # {}
        /\ FramesIn(x, col) # {} => b = a
    BY <2>1, <2>6 DEF SweepsColumn
  <2>8. FramesIn(x, col) = FramesIn(t, col)
    BY <2>3 DEF FramesIn
  <2>9. Others(y)
    BY <1>5, <2>1, <2>3, <2>7
  <2>10. Looked(y, i)
    <3>1. ASSUME NEW j \in 1..i
          PROVE  /\ y.view_of[list[j]] \in {None, v}
                 /\ y.view_of[list[j]] # None => FramesIn(t, list[j]) # {}
      <4>1. CASE j = i
        BY <2>1, <2>7, <2>8, <4>1
      <4>2. CASE j # i
        <5>1. j \in 1..(i - 1) /\ j \in 1..n
          BY <1>4, <2>4, <4>2
        <5>2. list[j] # col /\ list[j] \in Columns
          BY <1>5, <2>1, <4>2, <5>1
        <5>3. QED BY <2>3, <2>7, <5>1, <5>2
      <4>3. QED BY <4>1, <4>2
    <3>2. QED BY <3>1
  <2>11. ToLookAt(y, i)
    <3>1. ASSUME NEW j \in (i + 1)..n PROVE y.view_of[list[j]] = v
      <4>1. j \in (i - 1 + 1)..n /\ j \in 1..n /\ j # i
        BY <2>4
      <4>2. list[j] # col /\ list[j] \in Columns
        BY <1>5, <2>1, <4>1
      <4>3. QED BY <2>3, <2>7, <4>1, <4>2
    <3>2. QED BY <3>1
  <2>12. Full => b = s
    <3>1. col \in ColumnsOf(t, v)
      BY <1>5, <2>1, <2>5 DEF ColumnsOf
    <3>2. QED BY <2>3, <2>7, <2>8, <3>1
  <2> HIDE DEF Others, Looked, ToLookAt, Full
  <2>13. Holds(i)
    BY <2>1, <2>3, <2>7, <2>9, <2>10, <2>11, <2>12 DEF Holds
  <2>14. QED BY <2>4, <2>13 DEF T
<1>10. Holds(n)
  <2>1. n \in T
    <3> HIDE DEF T, Holds
    <3>1. QED BY <1>4, <1>8, <1>9, AfterTurns
  <2> HIDE DEF Holds
  <2>2. QED BY <2>1
<1>11. \A c \in Columns :
         t.view_of[c] = v =>
           /\ u.tree.view_of[c] \in {None, v}
           /\ u.tree.view_of[c] # None => FramesIn(t, c) # {}
  BY <1>5, <1>6, <1>10
<1>12. /\ Sound(u) /\ u.previous = s.previous
       /\ u.tree.selected_view = t.selected_view /\ u.tree.column_of = t.column_of
       /\ u.tree.views = t.views \/ u.tree.views = t.views \ {v}
       /\ Others(u.tree)
       /\ Full => u = s
  BY <1>6, <1>10
<1>13. QED BY <1>1, <1>11, <1>12 DEF LoopsOverColumns

\* The columns of a view that got no frame are deleted, and then the view.
LEMMA ViewSwept ==
  ASSUME NEW s, Sound(s), NEW v \in Views, NEW u, u = SweepView(s, v)
  PROVE  SweepsView(s, u, v)
<1>1. PICK t, a, w : t = s.tree /\ a = ColumnsSwept(s, v) /\ w = a.tree
  OBVIOUS
<1>2. LoopsOverColumns(s, a, v)
  BY <1>1, ColumnsAreSwept
<1>3. /\ Sound(a) /\ a.previous = s.previous
      /\ w.selected_view = t.selected_view /\ w.column_of = t.column_of
      /\ w.views = t.views \/ w.views = t.views \ {v}
      /\ \A c \in Columns : t.view_of[c] # v => w.view_of[c] = t.view_of[c]
      /\ \A c \in Columns :
           t.view_of[c] = v => /\ w.view_of[c] \in {None, v}
                               /\ w.view_of[c] # None => FramesIn(t, c) # {}
      /\ (\A c \in ColumnsOf(t, v) : FramesIn(t, c) # {}) => a = s
  BY <1>1, <1>2 DEF LoopsOverColumns
<1>4. WellFormed(w) /\ WellLinked(w) /\ Tidy(w) /\ WellFormed(t)
  BY <1>1, <1>3, SoundParts DEF WellFormed
<1>5. w.columns[v] = <<>> <=> ColumnsOf(w, v) = {}
  BY <1>4, NoColumns
<1>6. u = IF v \in w.views /\ w.columns[v] = <<>> /\ v # w.selected_view
          THEN Tell(a, DeleteView(w, v)) ELSE a
  <2>1. SweepView(s, v) =
          IF /\ v \in ColumnsSwept(s, v).tree.views
             /\ ColumnsSwept(s, v).tree.columns[v] = <<>>
             /\ v # ColumnsSwept(s, v).tree.selected_view
          THEN Tell(ColumnsSwept(s, v), DeleteView(ColumnsSwept(s, v).tree, v))
          ELSE ColumnsSwept(s, v)
    BY Zenon DEF SweepView, ColumnsSwept
  <2>2. QED BY <1>1, <2>1
<1>7. CASE v \in w.views /\ w.columns[v] = <<>> /\ v # w.selected_view
  <2>1. PICK x : x = DeleteView(w, v)
    OBVIOUS
  <2>2. u = Tell(a, x) /\ ColumnsOf(w, v) = {}
    BY <1>5, <1>6, <1>7, <2>1
  <2>3. /\ WellFormed(x) /\ SameLinks(w, x)
        /\ x.views = w.views \ {v} /\ x.selected_view = w.selected_view
    BY <1>4, <1>7, <2>1, <2>2, DeleteViewWellFormed
  <2>4. KeepsLook(w, x)
    BY <1>4, <1>7, <2>1, DeleteViewLook DEF WellLinked
  <2>5. x.column_of = w.column_of /\ x.view_of = w.view_of /\ LiveFrames(x) = LiveFrames(w)
    BY <2>3 DEF SameLinks, LiveFrames
  <2>6. Tidy(x)
    BY <1>4, <2>3, <2>4, <2>5 DEF Tidy, KeepsLook
  <2>7. Follows(w, x)
    <3>1. x.bar_visible = w.bar_visible \ (w.views \ x.views)
      BY <2>4 DEF KeepsLook
    <3>2. QED BY <2>3, <2>6, <3>1, FollowsDeletion
  <2>8. /\ Sound(u) /\ u.tree = x
        /\ u.previous = IF x.selected_view # w.selected_view /\ w.selected_view # None
                        THEN w.selected_view ELSE a.previous
    BY <1>1, <1>3, <2>2, <2>7, TellKeeps
  <2>9. u.tree.views = t.views \/ u.tree.views = t.views \ {v}
    BY <1>3, <2>3, <2>8
  <2>10. ~ (/\ \A c \in ColumnsOf(t, v) : FramesIn(t, c) # {}
            /\ ColumnsOf(t, v) # {} \/ v = t.selected_view)
    BY <1>1, <1>3, <1>7, <2>2
  <2>11. v \notin u.tree.views
    BY <2>3, <2>8
  <2>12. QED BY <1>1, <1>3, <2>3, <2>5, <2>8, <2>9, <2>10, <2>11 DEF SweepsView
<1>8. CASE ~ (v \in w.views /\ w.columns[v] = <<>> /\ v # w.selected_view)
  <2>1. u = a
    BY <1>6, <1>8
  <2>2. v \in w.views => ColumnsOf(w, v) # {} \/ v = w.selected_view
    BY <1>5, <1>8
  <2>3. QED BY <1>1, <1>3, <2>1, <2>2 DEF SweepsView
<1>9. QED BY <1>7, <1>8

\* The loop over the views.
ViewsSweptInTurn(after, s, list, n) ==
  after = [i \in 0..n |-> IF i = 0 THEN s ELSE SweepView(after[i - 1], list[i])]

\* There is such a function.
LEMMA SweptViewsRecursion ==
  ASSUME NEW s, NEW list, NEW n \in Nat
  PROVE  \E f : ViewsSweptInTurn(f, s, list, n)
<1> DEFINE T == {k \in Nat : \E f : ViewsSweptInTurn(f, s, list, k)}
<1>1. 0 \in T
  <2>1. PICK g : g = [i \in 0..0 |-> s]
    OBVIOUS
  <2>2. ViewsSweptInTurn(g, s, list, 0)
    BY <2>1 DEF ViewsSweptInTurn
  <2>3. QED BY <2>2
<1>2. ASSUME NEW k \in 1..n, k - 1 \in T PROVE k \in T
  <2>1. PICK f : ViewsSweptInTurn(f, s, list, k - 1)
    BY <1>2
  <2>2. PICK g : g = [i \in 0..k |-> IF i = 0 THEN s ELSE SweepView(f[i - 1], list[i])]
    OBVIOUS
  <2>3. ASSUME NEW i \in 0..k, i # 0 PROVE g[i - 1] = f[i - 1]
    BY <2>1, <2>2, <2>3 DEF ViewsSweptInTurn
  <2>4. ViewsSweptInTurn(g, s, list, k)
    BY <2>2, <2>3 DEF ViewsSweptInTurn
  <2>5. QED BY <2>4
<1> HIDE DEF T
<1>3. n \in T
  BY <1>1, <1>2, AfterTurns
<1>4. QED BY <1>3 DEF T

\* Nothing that is empty is left, and a tree without anything empty is left alone.
LEMMA AllSwept ==
  ASSUME NEW s, Sound(s), NEW u, u = Swept(s)
  PROVE  /\ Sound(u) /\ u.previous = s.previous
         /\ Filled(u.tree)
         /\ Owners(u.tree) = Owners(s.tree)
         /\ Filled(s.tree) => u = s
<1>1. PICK t : t = s.tree
  OBVIOUS
<1>2. WellFormed(t) /\ t.views \subseteq Views /\ None \notin t.views
  BY <1>1, SoundParts
<1>3. PICK names : Grows(names) /\ ToSet(names) = t.views
  BY <1>1 DEF Sound, Consistent, BarFollows, HoldsViews
<1>4. InOrder(t.views) = names
  BY <1>3, InOrderIs
<1>5. PICK n : n = Len(names)
  OBVIOUS
<1>6. n \in Nat /\ DOMAIN names = 1..n /\ IsInjective(names)
  BY <1>3, <1>5, GrowingCounts DEF Grows
<1>7. PICK after : ViewsSweptInTurn(after, s, names, n) /\ u = after[n]
  <2>1. \E f : ViewsSweptInTurn(f, s, names, n)
    BY <1>6, SweptViewsRecursion
  <2>2. u = (CHOOSE f : ViewsSweptInTurn(f, s, names, n))[n]
    <3>1. u = Loop(SweepView, s, names)
      BY <1>1, <1>4, Zenon DEF Swept
    <3>2. QED BY <1>5, <3>1, Zenon DEF Loop, ViewsSweptInTurn
  <2>3. ViewsSweptInTurn(CHOOSE f : ViewsSweptInTurn(f, s, names, n), s, names, n)
    BY <2>1, Zenon
  <2>4. QED BY <2>2, <2>3
<1>8. after[0] = s /\ \A i \in 1..n : after[i] = SweepView(after[i - 1], names[i])
  BY <1>6, <1>7 DEF ViewsSweptInTurn
<1>9. \A i, j \in 1..n : i # j => names[i] # names[j]
  BY <1>6 DEF IsInjective
<1>10. \A i \in 1..n : names[i] \in t.views
  BY <1>3, <1>6 DEF ToSet
<1> DEFINE First(i) == {names[j] : j \in 1..i}
           FullColumns(w, V) ==
             \A c \in Columns : w.view_of[c] \in V => FramesIn(t, c) # {}
           FullViews(w, V) ==
             \A y \in w.views \cap V : ColumnsOf(w, y) # {} \/ y = w.selected_view
           Holds(i) == /\ Sound(after[i]) /\ after[i].previous = s.previous
                       /\ after[i].tree.column_of = t.column_of
                       /\ after[i].tree.selected_view = t.selected_view
                       /\ after[i].tree.views \subseteq t.views
                       /\ FullColumns(after[i].tree, First(i))
                       /\ FullViews(after[i].tree, First(i))
                       /\ Filled(t) => after[i] = s
           T == {i \in 0..n : Holds(i)}
<1>11. 0 \in T
  <2>1. FullColumns(t, First(0)) /\ FullViews(t, First(0))
    OBVIOUS
  <2> HIDE DEF First, FullColumns, FullViews
  <2>2. Holds(0)
    BY <1>1, <1>8, <2>1
  <2>3. QED BY <1>6, <2>2
<1>12. ASSUME NEW i \in 1..n, i - 1 \in T PROVE i \in T
  <2>1. PICK a, b, x, y, v, F : /\ a = after[i - 1] /\ b = after[i] /\ x = a.tree /\ y = b.tree
                                /\ v = names[i] /\ F = First(i - 1)
    OBVIOUS
  <2>2. Holds(i - 1)
    <3> HIDE DEF Holds
    <3>1. QED BY <1>12
  <2>3. /\ Sound(a) /\ a.previous = s.previous /\ x.column_of = t.column_of
        /\ x.selected_view = t.selected_view /\ x.views \subseteq t.views
        /\ FullColumns(x, F) /\ FullViews(x, F)
        /\ Filled(t) => a = s
    BY <2>1, <2>2
  <2> HIDE DEF Holds, T
  <2>4. i \in 0..n /\ i \in Nat
    BY <1>6
  <2>5. v \in t.views \ F /\ v \in Views /\ First(i) = F \cup {v}
    <3>1. \A j \in 1..(i - 1) : j \in 1..n /\ j # i
      BY <1>6
    <3>2. 1..i = (1..(i - 1)) \cup {i}
      BY <2>4
    <3>3. QED BY <1>2, <1>9, <1>10, <2>1, <3>1, <3>2
  <2> HIDE DEF First
  <2>6. SweepsView(a, b, v)
    BY <1>8, <2>1, <2>3, <2>5, ViewSwept
  <2>7. /\ Sound(b) /\ b.previous = a.previous
        /\ y.selected_view = x.selected_view /\ y.column_of = x.column_of
        /\ y.views = x.views \/ y.views = x.views \ {v}
        /\ \A c \in Columns : x.view_of[c] # v => y.view_of[c] = x.view_of[c]
        /\ \A c \in Columns :
             x.view_of[c] = v => /\ y.view_of[c] \in {None, v}
                                 /\ y.view_of[c] # None => FramesIn(x, c) # {}
        /\ v \in y.views => ColumnsOf(y, v) # {} \/ v = y.selected_view
        /\ (/\ \A c \in ColumnsOf(x, v) : FramesIn(x, c) # {}
            /\ ColumnsOf(x, v) # {} \/ v = x.selected_view) => b = a
    BY <2>1, <2>6 DEF SweepsView
  <2>8. \A c : FramesIn(x, c) = FramesIn(t, c)
    BY <2>3 DEF FramesIn
  <2>9. None \notin F /\ v # None
    BY <1>2, <1>10, <2>1, <2>5, <1>6 DEF First
  <2>10. FullColumns(y, F \cup {v})
    <3>1. ASSUME NEW c \in Columns, y.view_of[c] \in F \cup {v} PROVE FramesIn(t, c) # {}
      <4>1. CASE x.view_of[c] = v
        BY <2>7, <2>8, <2>9, <3>1, <4>1
      <4>2. CASE x.view_of[c] # v
        BY <2>3, <2>7, <3>1, <4>2
      <4>3. QED BY <4>1, <4>2
    <3>2. QED BY <3>1
  <2>11. FullViews(y, F \cup {v})
    <3>1. ASSUME NEW z \in y.views \cap (F \cup {v})
          PROVE  ColumnsOf(y, z) # {} \/ z = y.selected_view
      <4>1. CASE z = v
        BY <2>7, <4>1
      <4>2. CASE z # v
        <5>1. z \in x.views \cap F
          BY <2>7, <4>2
        <5>2. ColumnsOf(x, z) # {} \/ z = x.selected_view
          BY <2>3, <5>1
        <5>3. ASSUME NEW c \in ColumnsOf(x, z) PROVE c \in ColumnsOf(y, z)
          BY <2>7, <4>2 DEF ColumnsOf
        <5>4. QED BY <2>7, <5>2, <5>3
      <4>3. QED BY <4>1, <4>2
    <3>2. QED BY <3>1
  <2>12. ASSUME Filled(t) PROVE b = s
    <3>1. a = s /\ x = t
      BY <1>1, <2>1, <2>3, <2>12
    <3>2. \A c \in ColumnsOf(t, v) : FramesIn(t, c) # {}
      BY <2>5, <2>9, <2>12 DEF Filled, NoneEmptyBut, ColumnsOf
    <3>3. ColumnsOf(t, v) # {} \/ v = t.selected_view
      BY <2>5, <2>12 DEF Filled, NoneEmptyBut
    <3>4. QED BY <2>7, <3>1, <3>2, <3>3
  <2> HIDE DEF FullColumns, FullViews
  <2>13. Holds(i)
    <3>1. /\ y.column_of = t.column_of /\ y.selected_view = t.selected_view
          /\ y.views \subseteq t.views /\ b.previous = s.previous
      BY <2>3, <2>7
    <3>2. QED BY <2>1, <2>5, <2>7, <2>10, <2>11, <2>12, <3>1 DEF Holds
  <2>14. QED BY <2>4, <2>13 DEF T
<1>13. Holds(n) /\ First(n) = t.views
  <2>1. n \in T
    <3> HIDE DEF T, Holds
    <3>1. QED BY <1>6, <1>11, <1>12, AfterTurns
  <2>2. Holds(n)
    <3> HIDE DEF Holds
    <3>1. QED BY <2>1
  <2>3. First(n) = t.views
    BY <1>3, <1>6 DEF ToSet
  <2> HIDE DEF Holds, First
  <2>4. QED BY <2>2, <2>3
<1>14. PICK w : w = u.tree
  OBVIOUS
<1>15. /\ Sound(u) /\ u.previous = s.previous /\ w.column_of = t.column_of
       /\ w.selected_view = t.selected_view /\ w.views \subseteq t.views
       /\ FullColumns(w, t.views) /\ FullViews(w, t.views)
       /\ Filled(t) => u = s
  <2> HIDE DEF First, FullColumns, FullViews
  <2>1. QED BY <1>7, <1>13, <1>14
<1>16. Filled(w)
  <2>1. WellFormed(w)
    BY <1>14, <1>15, SoundParts
  <2>2. ASSUME NEW c \in Columns, w.view_of[c] # None PROVE FramesIn(w, c) # {}
    <3>1. w.view_of[c] \in w.views
      BY <2>1, <2>2 DEF WellFormed, WellLinked, Graph, Tree, ColumnsOf, OrNone
    <3>2. FramesIn(t, c) # {}
      BY <1>15, <3>1
    <3>3. QED BY <1>15, <3>2 DEF FramesIn
  <2>3. \A y \in w.views : ColumnsOf(w, y) # {} \/ y = w.selected_view
    BY <1>15
  <2>4. QED BY <2>2, <2>3 DEF Filled, NoneEmptyBut
<1>17. Owners(w) = Owners(t)
  BY <1>15, SameOwners
<1>18. QED BY <1>1, <1>14, <1>15, <1>16, <1>17

-----------------------------------------------------------------------------
(* A window that was there before.                                         *)

\* What a property says of the frames of a client can be looked up.
SavedEntries(info) ==
  DOMAIN info \subseteq Views /\ \A v \in DOMAIN info : info[v].column \in Nat \ {0}

\* The views and columns that are known are there.
LEMMA KnownPlaces ==
  ASSUME NEW t, WellFormed(t), NEW info, SavedEntries(info), NEW V \in SUBSET Known(t, info)
  PROVE  HasPlaces(t, info, V) /\ V \subseteq t.views /\ V \subseteq DOMAIN info /\ V \subseteq Views
<1>1. V \subseteq t.views /\ V \subseteq DOMAIN info /\ t.views \subseteq Views
  BY DEF Known, WellFormed, WellLinked, Graph
<1>2. ASSUME NEW v \in V PROVE info[v].column \in 1..Len(t.columns[v])
  <2>1. PICK k, n : k = info[v].column /\ n = Len(t.columns[v])
    OBVIOUS
  <2>2. k \in Nat \ {0}
    BY <1>1, <2>1 DEF SavedEntries
  <2>3. k <= n
    BY <2>1 DEF Known
  <2>4. n \in Nat
    <3>1. t.columns[v] \in Seq(Columns)
      BY <1>1 DEF WellFormed, WellLinked, Graph
    <3>2. QED BY <2>1, <3>1
  <2>5. k \in 1..n
    BY <2>2, <2>3, <2>4
  <2>6. QED BY <2>1, <2>5
<1>3. QED BY <1>1, <1>2 DEF HasPlaces

\* A client may have got frames, in columns that were there.
GivesFrames(s, u, c) ==
  /\ Sound(u) /\ u.tree.view_of = s.tree.view_of
  /\ Owners(u.tree) = IF FramesOf(u.tree, c) = {} THEN Owners(s.tree)
                      ELSE Owners(s.tree) \cup {c}

\* place_existing_client: the frames it finds a place for are made.
LEMMA ExistingPlaced ==
  ASSUME NEW s, Sound(s), NEW c \in Clients, c \notin Owners(s.tree), NEW info, SavedEntries(info),
         NEW u, u \in PlaceExisting(s, c, info)
  PROVE  GivesFrames(s, u, c)
<1>1. PICK t, w : t = s.tree /\ w = u.tree
  OBVIOUS
<1>2. PICK V \in SUBSET Known(t, info) : u = PlaceSavedFrames(s, c, info, V)
  <2>1. PICK placed : placed = IF Known(t, info) = DOMAIN info THEN {Known(t, info)}
                               ELSE SUBSET Known(t, info)
    OBVIOUS
  <2>2. PlaceExisting(s, c, info) = {PlaceSavedFrames(s, c, info, views) : views \in placed}
    BY <1>1, <2>1 DEF PlaceExisting
  <2>3. PICK V \in placed : u = PlaceSavedFrames(s, c, info, V)
    BY <2>2
  <2>4. V \in SUBSET Known(t, info)
    BY <2>1, <2>3
  <2>5. QED BY <2>3, <2>4
<1>3. WellFormed(t) /\ t \in Graph
  BY <1>1, SoundParts
<1>4. HasPlaces(t, info, V) /\ V \subseteq t.views /\ V \subseteq Views
  BY <1>3, KnownPlaces
<1>5. Sound(u) /\ TakesFrames(t, w, c, info, V)
  <2>1. V \in SUBSET s.tree.views /\ HasPlaces(s.tree, info, V)
    BY <1>1, <1>4
  <2>2. /\ Sound(u) /\ u.previous = s.previous
        /\ TakesFrames(s.tree, u.tree, c, info, V)
    BY <1>2, <2>1, SavedFramesPlaced
  <2>3. QED BY <1>1, <2>2
<1>6. \A y \in V : SavedColumn(t, info, y) \in Columns
  <2>1. ASSUME NEW y \in V PROVE SavedColumn(t, info, y) \in Columns
    <3>1. y \in t.views /\ HasPlaces(t, info, {y})
      BY <1>4 DEF HasPlaces
    <3>2. QED BY <1>3, <3>1, SavedColumnIsThere
  <2>2. QED BY <2>1
<1>7. c \notin Owners(t)
  BY <1>1
<1>8. /\ FramesOf(w, c) = {<<c, y>> : y \in V}
      /\ \A d \in Clients \ {c} : FramesOf(w, d) = FramesOf(t, d)
      /\ Owners(w) = IF V = {} THEN Owners(t) ELSE Owners(t) \cup {c}
  BY <1>4, <1>5, <1>6, <1>7, TakenFramesAre
<1>9. w.view_of = t.view_of
  BY <1>5 DEF TakesFrames
<1>10. FramesOf(w, c) = {} <=> V = {}
  BY <1>8
<1>11. QED BY <1>1, <1>5, <1>8, <1>9, <1>10 DEF GivesFrames

\* WM::manage_client of such a window gives it a frame, whatever was saved of it.
LEMMA ExistingManaged ==
  ASSUME NEW s, Sound(s), NEW c \in Clients, c \notin Owners(s.tree), Roomy(s.tree),
         server.client[c] = None \/ SavedEntries(server.client[c]),
         NEW u \in ManagedExisting(s, c)
  PROVE  Sound(u) /\ Owners(u.tree) = Owners(s.tree) \cup {c}
<1>1. PICK info : info = server.client[c]
  OBVIOUS
<1>2. PICK x : /\ x \in IF info = None THEN {s} ELSE PlaceExisting(s, c, info)
               /\ u \in OrFreshly(x, c)
  BY <1>1 DEF ManagedExisting
<1>3. /\ Sound(x) /\ x.tree.view_of = s.tree.view_of
      /\ Owners(x.tree) = IF FramesOf(x.tree, c) = {} THEN Owners(s.tree)
                          ELSE Owners(s.tree) \cup {c}
  <2>1. CASE info = None
    <3>1. x = s
      BY <1>2, <2>1
    <3>2. FramesOf(s.tree, c) = {}
      BY DEF Owners
    <3>3. QED BY <3>1, <3>2
  <2>2. CASE info # None
    <3>1. x \in PlaceExisting(s, c, info) /\ SavedEntries(info)
      BY <1>1, <1>2, <2>2
    <3>2. GivesFrames(s, x, c)
      BY <3>1, ExistingPlaced
    <3>3. QED BY <3>2 DEF GivesFrames
  <2>3. QED BY <2>1, <2>2
<1>4. CASE FramesOf(x.tree, c) # {}
  BY <1>2, <1>3, <1>4 DEF OrFreshly
<1>5. CASE FramesOf(x.tree, c) = {}
  <2>1. PICK wanted \in BOOLEAN : u \in PlaceWithHooks(x, c, wanted)
    BY <1>2, <1>5 DEF OrFreshly, FreshlyPlaced
  <2>2. WellFormed(s.tree) /\ TwoFree(s.tree)
    BY SoundParts, RoomyIsTwo
  <2>3. TwoFree(x.tree)
    BY <1>3, <2>2 DEF TwoFree, FreeColumns
  <2>4. c \notin Owners(x.tree) /\ Owners(x.tree) = Owners(s.tree)
    BY <1>3, <1>5
  <2>5. Sound(u) /\ Owners(u.tree) = Owners(x.tree) \cup {c}
    BY <1>3, <2>1, <2>3, <2>4, ClientPlacedWithHooks
  <2>6. QED BY <2>4, <2>5
<1>6. QED BY <1>4, <1>5

-----------------------------------------------------------------------------
(* The invariant.                                                          *)

\* What a window manager has saved, the parts of it perhaps at different times.
PropertiesOK(p) ==
  /\ p = [root |-> p.root, client |-> p.client]
  /\ p.client = [c \in Clients |-> p.client[c]]
  /\ p.root = None \/ \E o : Sound(o) /\ p.root = RootInfo(o.tree)
  /\ \A c \in Clients : p.client[c] = None \/ SavedEntries(p.client[c])

\* Which windows have frames.
Framed ==
  /\ windows \subseteq Clients /\ pending \subseteq windows
  /\ phase \in {"down", "loading", "running"}
  /\ phase # "loading" => pending = {}
  /\ phase # "down" => Owners(session.tree) = windows \ pending
  /\ phase = "running" => Filled(session.tree)

SessionInv == Sound(session) /\ Framed /\ PropertiesOK(server)

\* A client's frames are saved with the columns they are in.
LEMMA SavedEntriesAre ==
  ASSUME NEW w, WellFormed(w), NEW c \in Clients, NEW info, info = ClientInfo(w, c)
  PROVE  SavedEntries(info)
<1>1. DOMAIN info = {ViewOf(f) : f \in FramesOf(w, c)}
  BY DEF ClientInfo
<1>2. ASSUME NEW v \in DOMAIN info PROVE v \in Views /\ info[v].column \in Nat \ {0}
  <2>1. PICK f \in FramesOf(w, c) : v = ViewOf(f)
    BY <1>1, <1>2
  <2>2. f \in LiveFrames(w) /\ ClientOf(f) = c
    BY DEF FramesOf
  <2>3. v \in Views /\ f = <<c, v>> /\ w.column_of[f] \in ColumnsOf(w, v)
    BY <2>1, <2>2, FramesHaveViews
  <2>4. PICK list, col : list = w.columns[v] /\ col = w.column_of[f]
    OBVIOUS
  <2>5. list \in Seq(Columns) /\ Enumerates(list, ColumnsOf(w, v))
    BY <2>3, <2>4 DEF WellFormed, WellLinked, Graph, Tree
  <2>6. Position(list, col) \in 1..Len(list) /\ Len(list) \in Nat
    BY <2>3, <2>4, <2>5, EnumerationProperties
  <2>7. info[v].column = Position(w.columns[v], w.column_of[<<c, v>>])
    BY <1>1, <1>2 DEF ClientInfo
  <2>8. info[v].column = Position(list, col)
    BY <2>3, <2>4, <2>7
  <2>9. info[v].column \in Nat \ {0}
    BY <2>6, <2>8
  <2>10. QED BY <2>3, <2>9
<1>3. QED BY <1>2 DEF SavedEntries

\* Saving replaces one property of the root window, and some of the clients'.
LEMMA SavingKeepsProperties ==
  ASSUME NEW s, Sound(s), PropertiesOK(server), NEW W,
         NEW p, p = SavedProperties(s.tree, W)
  PROVE  /\ PropertiesOK(p)
         /\ p.root = RootInfo(s.tree)
         /\ \A c \in Clients : p.client[c] = IF c \in W THEN ClientInfo(s.tree, c) ELSE server.client[c]
<1>1. p = [root |-> RootInfo(s.tree),
           client |-> [c \in Clients |-> IF c \in W THEN ClientInfo(s.tree, c)
                                         ELSE server.client[c]]]
  BY DEF SavedProperties
<1>2. PICK client : client = [c \in Clients |-> IF c \in W THEN ClientInfo(s.tree, c)
                                                ELSE server.client[c]]
  OBVIOUS
<1>3. p.root = RootInfo(s.tree) /\ p.client = client /\ p = [root |-> p.root, client |-> p.client]
  BY <1>1, <1>2
<1>4. WellFormed(s.tree)
  BY SoundParts
<1>5. ASSUME NEW c \in Clients PROVE client[c] = None \/ SavedEntries(client[c])
  <2>1. CASE c \in W
    <3>1. client[c] = ClientInfo(s.tree, c)
      BY <1>2, <2>1
    <3>2. QED BY <1>4, <3>1, SavedEntriesAre
  <2>2. CASE c \notin W
    <3>1. client[c] = server.client[c]
      BY <1>2, <2>2
    <3>2. QED BY <3>1 DEF PropertiesOK
  <2>3. QED BY <2>1, <2>2
<1>6. client = [c \in Clients |-> client[c]]
  BY <1>2
<1>7. PropertiesOK(p)
  BY <1>3, <1>5, <1>6 DEF PropertiesOK
<1>8. QED BY <1>2, <1>3, <1>7

\* Some of the windows, with their properties.
Fewer(client, p) ==
  /\ client = [c \in Clients |-> client[c]]
  /\ \A c \in Clients : client[c] \in {None, p.client[c]}

Forgets(p, q, client) == PropertiesOK(q) /\ q.root = p.root /\ q.client = client

\* Properties go with their windows.
LEMMA ForgettingKeepsProperties ==
  ASSUME NEW p, PropertiesOK(p), NEW client, Fewer(client, p),
         NEW q, q = [p EXCEPT !.client = client]
  PROVE  Forgets(p, q, client)
<1>1. q = [root |-> p.root, client |-> client]
  BY DEF PropertiesOK
<1>2. client = [c \in Clients |-> client[c]] /\ \A c \in Clients : client[c] \in {None, p.client[c]}
  BY DEF Fewer
<1>3. q.root = p.root /\ q.client = client /\ q = [root |-> q.root, client |-> q.client]
  BY <1>1
<1>4. ASSUME NEW c \in Clients PROVE client[c] = None \/ SavedEntries(client[c])
  BY <1>2 DEF PropertiesOK
<1>5. p.root = None \/ \E o : Sound(o) /\ p.root = RootInfo(o.tree)
  BY DEF PropertiesOK
<1>6. QED BY <1>2, <1>3, <1>4, <1>5 DEF PropertiesOK, Forgets

\* The properties of one client are deleted and no others.
ForgetsOne(p, q, c) ==
  /\ PropertiesOK(q)
  /\ q.root = p.root /\ q.client[c] = None
  /\ \A d \in Clients \ {c} : q.client[d] = p.client[d]

\* That is what loading its state does.
LEMMA ForgettingOne ==
  ASSUME NEW p, PropertiesOK(p), NEW c \in Clients, NEW q, q = [p EXCEPT !.client[c] = None]
  PROVE  ForgetsOne(p, q, c)
<1>1. PICK old : old = p.client
  OBVIOUS
<1>2. PICK client : client = [old EXCEPT ![c] = None]
  OBVIOUS
<1>3. old = [d \in Clients |-> old[d]]
  BY <1>1 DEF PropertiesOK
<1>4. /\ client = [d \in Clients |-> IF d = c THEN None ELSE old[d]]
  BY <1>2, <1>3
<1>5. q = [p EXCEPT !.client = client]
  BY <1>1, <1>2
<1>6. client = [d \in Clients |-> client[d]]
  BY <1>4
<1>7. Fewer(client, p)
  BY <1>1, <1>4, <1>6 DEF Fewer
<1>8. Forgets(p, q, client)
  BY <1>5, <1>7, ForgettingKeepsProperties
<1>9. QED BY <1>1, <1>4, <1>8 DEF Forgets, ForgetsOne

\* The start.
LEMMA InitSession == SessionInit => SessionInv
<1>1. SUFFICES ASSUME SessionInit PROVE SessionInv
  OBVIOUS
<1>2. Sound(session)
  BY <1>1, NewSessionSound DEF SessionInit
<1>3. Framed
  BY <1>1 DEF SessionInit, Framed
<1>4. PropertiesOK(server)
  <2>1. server = [root |-> None, client |-> [c \in Clients |-> None]]
    BY <1>1 DEF SessionInit, Unsaved
  <2>2. QED BY <2>1 DEF PropertiesOK
<1>5. QED BY <1>2, <1>3, <1>4 DEF SessionInv

\* A handler that gives no window its first frame and takes none its last.
LEMMA HandlerKeepsInv ==
  ASSUME SessionInv, phase = "running", NEW s, Keeps(session, s), Handler(s)
  PROVE  SessionInv'
<1>1. /\ session' = [s EXCEPT !.tree = Settle(@)]
      /\ windows' = windows /\ server' = server /\ phase' = phase /\ pending' = pending
  BY DEF Handler, Becomes
<1>2. /\ Sound(s) /\ Owners(s.tree) = Owners(session.tree)
      /\ Filled(session.tree) => Filled(s.tree)
  BY DEF Keeps
<1>3. Keeps(s, session')
  BY <1>1, <1>2, SettledKeeps
<1>4. /\ Sound(session') /\ Owners(session'.tree) = Owners(session.tree)
      /\ Filled(session.tree) => Filled(session'.tree)
  BY <1>2, <1>3 DEF Keeps
<1>5. Framed'
  BY <1>1, <1>4 DEF SessionInv, Framed
<1>6. QED BY <1>1, <1>4, <1>5 DEF SessionInv

\* In a session whose state is what it should be, of a window manager that runs.
Running ==
  /\ SessionInv /\ phase = "running"
  /\ TwoFree(session.tree) /\ FreeColumns(session.tree) # {}

\* What the invariant says of a session.
LEMMA RunningParts ==
  ASSUME Running
  PROVE  /\ SessionInv /\ phase = "running" /\ Sound(session) /\ WellFormed(session.tree)
         /\ TwoFree(session.tree) /\ FreeColumns(session.tree) # {}
         /\ session.tree.selected_view \in OrNone(session.tree.views)
         /\ session.previous \in OrNone(Views)
         /\ session.tree.views \subseteq Views
<1>1. Sound(session)
  BY DEF Running, SessionInv
<1>2. session.previous \in OrNone(Views)
  BY <1>1 DEF Sound, Consistent, Remembers
<1>3. QED BY <1>1, <1>2, SoundParts DEF Running

\* The user selects another view.
LEMMA SelectingViewKeepsInv ==
  ASSUME Running, \/ SelectBesideView \/ SwitchToPrevious
                  \/ \E v \in Views : SelectsView(v)
  PROVE  SessionInv'
<1>1. SessionInv /\ phase = "running" /\ Sound(session) /\ session.previous \in OrNone(Views)
  BY RunningParts
<1>2. CASE SelectBesideView
  <2>1. PICK step \in {1, Len(Ids(session.bar, "left")) - 1} :
          Handler(SelectViewAndTell(session, Beside(step)))
    BY <1>2 DEF SelectBesideView
  <2>2. session.tree.selected_view # None
    BY <1>2 DEF SelectBesideView
  <2>3. PICK v : v = Beside(step)
    OBVIOUS
  <2>4. v \in session.tree.views
    BY <1>1, <2>2, <2>3, BesideIsView
  <2>5. PICK u : u = SelectViewAndTell(session, v)
    OBVIOUS
  <2>6. Keeps(session, u)
    BY <1>1, <2>4, <2>5, SelectingKeeps
  <2>7. Handler(u)
    BY <2>1, <2>3, <2>5
  <2>8. QED BY <1>1, <2>6, <2>7, HandlerKeepsInv
<1>3. ASSUME NEW v \in Views, Handler(SwitchTo(session, v)) PROVE SessionInv'
  <2>1. PICK u : u = SwitchTo(session, v)
    OBVIOUS
  <2>2. Keeps(session, u)
    BY <1>1, <2>1, SelectingKeeps
  <2>3. Handler(u)
    BY <1>3, <2>1
  <2>4. QED BY <1>1, <2>2, <2>3, HandlerKeepsInv
<1>4. CASE SwitchToPrevious
  <2>1. session.previous \in Views /\ Handler(SwitchTo(session, session.previous))
    BY <1>1, <1>4 DEF SwitchToPrevious, OrNone
  <2>2. QED BY <1>3, <2>1
<1>5. CASE \E v \in Views : SelectsView(v)
  BY <1>3, <1>5 DEF SelectsView
<1>6. QED BY <1>2, <1>4, <1>5

\* The user shows or hides the bar.
LEMMA ToggleBarKeepsInv ==
  ASSUME Running, ToggleBar
  PROVE  SessionInv'
<1>1. /\ SessionInv /\ phase = "running" /\ Sound(session)
      /\ session.tree.selected_view \in OrNone(session.tree.views)
  BY RunningParts
<1>2. PICK v : v = session.tree.selected_view
  OBVIOUS
<1>3. PICK value : value = (v \notin session.tree.bar_visible)
  OBVIOUS
<1>4. PICK u : u = SetBarVisible(session, v, value)
  OBVIOUS
<1>5. v # None /\ Handler(u)
  BY <1>2, <1>3, <1>4 DEF ToggleBar
<1>6. v \in session.tree.views
  BY <1>1, <1>2, <1>5 DEF OrNone
<1>7. Keeps(session, u)
  BY <1>1, <1>4, <1>6, BarTogglingKeeps
<1>8. QED BY <1>1, <1>5, <1>7, HandlerKeepsInv

\* A frame is made fullscreen or no longer, by the user or its client.
LEMMA FullscreenKeepsInv ==
  ASSUME Running,
         ToggleFullscreen \/ \E c \in Clients : \E action \in {"add", "remove", "toggle"} :
                               RequestFullscreen(c, action)
  PROVE  SessionInv'
<1>1. /\ SessionInv /\ phase = "running" /\ Sound(session) /\ WellFormed(session.tree)
      /\ FreeColumns(session.tree) # {}
  BY RunningParts
<1>2. ASSUME NEW f \in LiveFrames(session.tree), NEW u, Handler(u),
             \/ u \in EnableFullscreen(session, ClientOf(f))
             \/ u = DisableFullscreen(session, f)
             \/ u \in ToggleFullscreenOf(session, f)
             \/ u = session
      PROVE  SessionInv'
  <2>1. Keeps(session, u)
    BY <1>1, <1>2, FullscreenTogglingKeeps
  <2>2. QED BY <1>1, <1>2, <2>1, HandlerKeepsInv
<1>3. CASE ToggleFullscreen
  <2>1. PICK f : f = SelectedFrame(session.tree)
    OBVIOUS
  <2>2. f # None /\ \E u \in ToggleFullscreenOf(session, f) : Handler(u)
    BY <1>3, <2>1 DEF ToggleFullscreen
  <2>3. f \in LiveFrames(session.tree)
    BY <1>1, <2>1, <2>2, CurrentFrameIsLive
  <2>4. QED BY <1>2, <2>2, <2>3
<1>4. ASSUME NEW c \in Clients, NEW action \in {"add", "remove", "toggle"},
             RequestFullscreen(c, action)
      PROVE  SessionInv'
  <2>1. PICK f : f = FrameOnScreen(session.tree, c)
    OBVIOUS
  <2>2. /\ f # None
        /\ \E s \in CASE action = "add" /\ OriginalFrame(session.tree, f) = None
                           -> EnableFullscreen(session, c)
                      [] action = "add" /\ OriginalFrame(session.tree, f) # None -> {session}
                      [] action = "remove" -> {DisableFullscreen(session, f)}
                      [] action = "toggle" -> ToggleFullscreenOf(session, f) : Handler(s)
    BY <1>4, <2>1 DEF RequestFullscreen
  <2>3. f \in LiveFrames(session.tree) /\ ClientOf(f) = c
    BY <1>1, <2>1, <2>2, FrameOnScreenIsLive
  <2>4. CASE action = "add" /\ OriginalFrame(session.tree, f) = None
    BY <1>2, <2>2, <2>3, <2>4
  <2>5. CASE action = "add" /\ OriginalFrame(session.tree, f) # None
    BY <1>2, <2>2, <2>3, <2>5
  <2>6. CASE action = "remove"
    BY <1>2, <2>2, <2>3, <2>6
  <2>7. CASE action = "toggle"
    BY <1>2, <2>2, <2>3, <2>7
  <2>8. QED BY <2>4, <2>5, <2>6, <2>7
<1>5. QED BY <1>3, <1>4

\* A frame is copied or moved to another view, or closed.
LEMMA FrameCommandsKeepInv ==
  ASSUME Running, RemoveCurrent \/ \E v \in Views : CopyToView(v) \/ MoveToView(v)
  PROVE  SessionInv'
<1>1. /\ SessionInv /\ phase = "running" /\ Sound(session) /\ WellFormed(session.tree)
      /\ FreeColumns(session.tree) # {}
  BY RunningParts
<1>2. PICK f : f = SelectedFrame(session.tree)
  OBVIOUS
<1>3. f # None
  BY <1>2 DEF RemoveCurrent, CopyToView, MoveToView
<1>4. f \in LiveFrames(session.tree) /\ ViewOf(f) = session.tree.selected_view
  BY <1>1, <1>2, <1>3, CurrentFrameIsLive
<1>5. CASE RemoveCurrent
  <2>1. PICK u : u = DeleteFrameAndTell(session, f)
    OBVIOUS
  <2>2. FramesOf(session.tree, ClientOf(f)) # {f} /\ Handler(u)
    BY <1>2, <1>5, <2>1 DEF RemoveCurrent
  <2>3. Keeps(session, u)
    BY <1>1, <1>4, <2>1, <2>2, RemovingKeeps
  <2>4. QED BY <1>1, <2>2, <2>3, HandlerKeepsInv
<1>6. ASSUME NEW v \in Views, CopyToView(v) PROVE SessionInv'
  <2>1. PICK g : g = <<ClientOf(f), v>>
    OBVIOUS
  <2>2. PICK made : made = Tell(session, GetOrCreateView(session.tree, v))
    OBVIOUS
  <2>3. PICK w : w = NewFrame(made.tree, g)
    OBVIOUS
  <2>4. PICK u : u = Tell(made, PlaceInSmallestColumn(w, g, AnyColumn(w)))
    OBVIOUS
  <2>5. ~ HasFrame(session.tree, ClientOf(f), v) /\ Handler(u)
    BY <1>2, <1>6, <2>1, <2>2, <2>3, <2>4 DEF CopyToView
  <2>6. Keeps(session, u)
    BY <1>1, <1>4, <2>1, <2>2, <2>3, <2>4, <2>5, CopyingKeeps
  <2>7. QED BY <1>1, <2>5, <2>6, HandlerKeepsInv
<1>7. ASSUME NEW v \in Views, MoveToView(v) PROVE SessionInv'
  <2>1. PICK g : g = <<ClientOf(f), v>>
    OBVIOUS
  <2>2. PICK made : made = Tell(session, GetOrCreateView(session.tree, v))
    OBVIOUS
  <2>3. PICK taken : taken = Tell(made, RemoveFrame(made.tree, f))
    OBVIOUS
  <2>4. PICK w : w = CarryFrame(taken.tree, f, g)
    OBVIOUS
  <2>5. PICK u : u = Tell(taken, PlaceInSmallestColumn(w, g, AnyColumn(w)))
    OBVIOUS
  <2>6. ~ HasFrame(session.tree, ClientOf(f), v) /\ Handler(u)
    BY <1>2, <1>7, <2>1, <2>2, <2>3, <2>4, <2>5 DEF MoveToView
  <2>7. Keeps(session, u)
    BY <1>1, <1>4, <2>1, <2>2, <2>3, <2>4, <2>5, <2>6, MovingKeeps
  <2>8. QED BY <1>1, <2>6, <2>7, HandlerKeepsInv
<1>8. QED BY <1>5, <1>6, <1>7

\* The pointer enters a window, or the activity timer runs.
LEMMA FocusKeepsInv ==
  ASSUME Running, TimerRuns \/ \E c \in Clients : EnterWindow(c)
  PROVE  SessionInv'
<1>1. SessionInv /\ phase = "running" /\ Sound(session) /\ WellFormed(session.tree)
  BY RunningParts
<1>2. ASSUME NEW c \in Clients, EnterWindow(c) PROVE SessionInv'
  <2>1. PICK f : f = FrameOnScreen(session.tree, c)
    OBVIOUS
  <2>2. PICK u : u = Tell(session, SelectFrame(session.tree, f))
    OBVIOUS
  <2>3. f # None /\ Handler(u)
    BY <1>2, <2>1, <2>2 DEF EnterWindow
  <2>4. f \in LiveFrames(session.tree)
    BY <1>1, <2>1, <2>3, FrameOnScreenIsLive
  <2>5. Keeps(session, u)
    BY <1>1, <2>2, <2>4, EnteringKeeps
  <2>6. QED BY <1>1, <2>3, <2>5, HandlerKeepsInv
<1>3. CASE TimerRuns
  <2>1. PICK u : u = Tell(session, HandleFrameActivity(Disarmed(session.tree)))
    OBVIOUS
  <2>2. Handler(u)
    BY <1>3, <2>1 DEF TimerRuns, Disarmed
  <2>3. Keeps(session, u)
    BY <1>1, <2>1, TimerKeeps
  <2>4. QED BY <1>1, <2>2, <2>3, HandlerKeepsInv
<1>4. QED BY <1>2, <1>3

\* A window that was not managed is, or one that was no longer is.
LEMMA ManagingKeepsInv ==
  ASSUME Running, NEW c \in Clients,
         MapRequest(c) \/ \E destroyed \in BOOLEAN : Withdraw(c, destroyed)
  PROVE  SessionInv'
<1>1. /\ SessionInv /\ phase = "running" /\ Sound(session)
      /\ Framed /\ PropertiesOK(server) /\ TwoFree(session.tree)
  BY RunningParts DEF SessionInv
<1>2. /\ windows \subseteq Clients /\ pending = {}
      /\ Owners(session.tree) = windows /\ Filled(session.tree)
  BY <1>1 DEF Framed
<1>3. ASSUME NEW u, Sound(u), Filled(u.tree), session' = [u EXCEPT !.tree = Settle(@)]
      PROVE  Sound(session') /\ Filled(session'.tree) /\ Owners(session'.tree) = Owners(u.tree)
  <2>1. Keeps(u, session')
    BY <1>3, SettledKeeps
  <2>2. QED BY <1>3, <2>1 DEF Keeps
<1>4. CASE MapRequest(c)
  <2>1. PICK wants \in BOOLEAN : \E s \in PlaceWithHooks(session, c, wants) : Becomes(s)
    BY <1>4 DEF MapRequest
  <2>2. PICK u \in PlaceWithHooks(session, c, wants) : session' = [u EXCEPT !.tree = Settle(@)]
    BY <2>1 DEF Becomes
  <2>3. /\ c \notin windows /\ windows' = windows \cup {c}
        /\ server' = server /\ phase' = phase /\ pending' = pending
    BY <1>4 DEF MapRequest
  <2>4. c \notin Owners(session.tree)
    BY <1>2, <2>3
  <2>5. Sound(u) /\ Owners(u.tree) = Owners(session.tree) \cup {c} /\ Filled(u.tree)
    <3>1. /\ Sound(u) /\ Owners(u.tree) = Owners(session.tree) \cup {c}
          /\ Filled(session.tree) => Filled(u.tree)
      BY <1>1, <2>4, ClientPlacedWithHooks
    <3>2. QED BY <1>2, <3>1
  <2>6. Sound(session') /\ Filled(session'.tree) /\ Owners(session'.tree) = windows'
    BY <1>2, <1>3, <2>2, <2>3, <2>5
  <2>7. Framed'
    BY <1>1, <1>2, <2>3, <2>6 DEF Framed
  <2>8. QED BY <1>1, <2>3, <2>6, <2>7 DEF SessionInv
<1>5. ASSUME NEW destroyed \in BOOLEAN, Withdraw(c, destroyed) PROVE SessionInv'
  <2>1. PICK u : u = Unmanaged(session, c)
    OBVIOUS
  <2>2. /\ session' = [u EXCEPT !.tree = Settle(@)]
        /\ windows' = windows \ {c} /\ phase' = phase /\ pending' = pending
        /\ server' = server \/ server' = [server EXCEPT !.client[c] = None]
    BY <1>5, <2>1 DEF Withdraw, Becomes
  <2>3. Sound(u) /\ Owners(u.tree) = Owners(session.tree) \ {c} /\ Filled(u.tree)
    <3>1. /\ Sound(u) /\ Owners(u.tree) = Owners(session.tree) \ {c}
          /\ Filled(session.tree) => Filled(u.tree)
      BY <1>1, <2>1, ClientUnmanaged
    <3>2. QED BY <1>2, <3>1
  <2>4. Sound(session') /\ Filled(session'.tree) /\ Owners(session'.tree) = windows'
    BY <1>2, <1>3, <2>2, <2>3
  <2>5. PropertiesOK(server')
    <3>1. CASE server' = server
      BY <1>1, <3>1
    <3>2. CASE server' = [server EXCEPT !.client[c] = None]
      BY <1>1, <3>2, ForgettingOne DEF ForgetsOne
    <3>3. QED BY <2>2, <3>1, <3>2
  <2>6. Framed'
    BY <1>1, <1>2, <2>2, <2>4 DEF Framed
  <2>7. QED BY <2>4, <2>5, <2>6 DEF SessionInv
<1>6. QED BY <1>4, <1>5

\* The bar is brought up to date.
LEMMA FlushKeepsInv ==
  ASSUME SessionInv, FlushViews
  PROVE  SessionInv'
<1>1. PICK u : u = [session EXCEPT !.bar = FlushBar(@, BarVisible(session.tree))]
  OBVIOUS
<1>2. /\ session' = u
      /\ session.bar.update_server \/ session.bar.draw
      /\ windows' = windows /\ server' = server /\ phase' = phase /\ pending' = pending
  BY <1>1 DEF FlushViews
<1>3. Sound(session) /\ Framed /\ PropertiesOK(server)
  BY DEF SessionInv
<1>4. Keeps(session, u) /\ u.tree = session.tree
  BY <1>1, <1>2, <1>3, FlushedKeeps
<1>5. Sound(session') /\ session'.tree = session.tree
  BY <1>2, <1>4 DEF Keeps
<1>6. Framed'
  BY <1>2, <1>3, <1>5 DEF Framed
<1>7. QED BY <1>2, <1>3, <1>5, <1>6 DEF SessionInv

\* The next window manager finds the properties of the windows that are left.
LEMMA EndsKeepsInv ==
  ASSUME NEW p, PropertiesOK(p), Ends(p)
  PROVE  SessionInv' /\ Forgets(p, server', server'.client)
<1>1. PICK client : client = [c \in Clients |-> IF c \in windows' THEN p.client[c] ELSE None]
  OBVIOUS
<1>2. Fewer(client, p)
  BY <1>1 DEF Fewer
<1>3. server' = [p EXCEPT !.client = client]
  BY <1>1 DEF Ends
<1>4. Forgets(p, server', client)
  BY <1>2, <1>3, ForgettingKeepsProperties
<1>5. /\ windows' \subseteq Clients /\ session' = NewSession
      /\ phase' = "down" /\ pending' = {}
  BY DEF Ends
<1>6. Sound(session')
  BY <1>5, NewSessionSound
<1>7. Framed'
  BY <1>5 DEF Framed
<1>8. QED BY <1>4, <1>6, <1>7 DEF SessionInv, Forgets

\* The state is saved, with or without what comes after.
LEMMA PersistenceKeepsInv ==
  ASSUME SessionInv, Persistence
  PROVE  SessionInv'
<1>1. Sound(session) /\ Framed /\ PropertiesOK(server)
  BY DEF SessionInv
<1>2. ASSUME NEW W PROVE PropertiesOK(SavedProperties(session.tree, W))
  BY <1>1, SavingKeepsProperties
<1>3. CASE Save
  <2>1. /\ server' = SavedProperties(session.tree, windows) /\ session' = session
        /\ windows' = windows /\ phase' = phase /\ pending' = pending
    BY <1>3 DEF Save
  <2>2. PropertiesOK(server')
    BY <1>2, <2>1
  <2>3. Framed'
    BY <1>1, <2>1 DEF Framed
  <2>4. QED BY <1>1, <2>1, <2>2, <2>3 DEF SessionInv
<1>4. CASE Crash
  <2>1. Ends(server)
    BY <1>4 DEF Crash
  <2>2. QED BY <1>1, <2>1, EndsKeepsInv
<1>5. CASE CrashWhileSaving
  <2>1. PICK W : Ends(SavedProperties(session.tree, W))
    BY <1>5 DEF CrashWhileSaving
  <2>2. QED BY <1>2, <2>1, EndsKeepsInv
<1>6. CASE Exit
  <2>1. Ends(SavedProperties(session.tree, windows))
    BY <1>6 DEF Exit
  <2>2. QED BY <1>2, <2>1, EndsKeepsInv
<1>7. QED BY <1>3, <1>4, <1>5, <1>6 DEF Persistence

\* Without frames no window has any.
LEMMA NoOwners ==
  ASSUME NEW w, w.column_of = EmptyGraph.column_of
  PROVE  LiveFrames(w) = {} /\ Owners(w) = {}
<1>1. \A f \in Frames : EmptyGraph.column_of[f] = None
  BY DEF EmptyGraph
<1>2. LiveFrames(w) = {}
  BY <1>1 DEF LiveFrames
<1>3. QED BY <1>2, OwnersAre

\* What the next window manager makes of the property of the root window.
StartsWith(u, root) ==
  /\ Sound(u) /\ u.previous = None /\ Owners(u.tree) = {} /\ LiveFrames(u.tree) = {}
  /\ root # None => \E o : /\ Sound(o) /\ root = RootInfo(o.tree)
                           /\ Restored(o.tree, o.tree.views, u.tree)

\* The views and columns that were saved.
LEMMA StartRecreates ==
  ASSUME NEW p, PropertiesOK(p), NEW u, u = RecreatedViews(p.root)
  PROVE  StartsWith(u, p.root)
<1>1. CASE p.root = None
  <2>1. u = NewSession
    BY <1>1 DEF RecreatedViews
  <2>2. Sound(u) /\ u.previous = None /\ u.tree = EmptyGraph
    BY <2>1, NewSessionSound
  <2>3. LiveFrames(u.tree) = {} /\ Owners(u.tree) = {}
    BY <2>2, NoOwners
  <2>4. QED BY <1>1, <2>2, <2>3 DEF StartsWith
<1>2. CASE p.root # None
  <2>1. PICK o : Sound(o) /\ p.root = RootInfo(o.tree)
    BY <1>2 DEF PropertiesOK
  <2>2. PICK t, root : t = o.tree /\ root = RootInfo(t)
    OBVIOUS
  <2>3. root # None /\ u = RecreatedViews(root) /\ root = p.root
    BY <1>2, <2>1, <2>2
  <2>4. Sound(u) /\ Restored(t, t.views, u.tree) /\ u.previous = None
    BY <2>1, <2>2, <2>3, ViewsRecreated
  <2>5. u.tree.column_of = EmptyGraph.column_of
    BY <2>4 DEF Restored
  <2>6. LiveFrames(u.tree) = {} /\ Owners(u.tree) = {}
    BY <2>5, NoOwners
  <2>7. QED BY <2>1, <2>2, <2>4, <2>6 DEF StartsWith
<1>3. QED BY <1>1, <1>2

\* The windows that are there are managed, one after the other, and what is
\* empty then is deleted.
LEMMA LoadingKeepsInv ==
  ASSUME SessionInv, Loading
  PROVE  SessionInv'
<1>1. Sound(session) /\ Framed /\ PropertiesOK(server)
  BY DEF SessionInv
<1>2. ASSUME NEW u, Sound(u), session' = [u EXCEPT !.tree = Settle(@)]
      PROVE  /\ Sound(session') /\ Owners(session'.tree) = Owners(u.tree)
             /\ Filled(u.tree) => Filled(session'.tree)
  <2>1. Keeps(u, session')
    BY <1>2, SettledKeeps
  <2>2. QED BY <1>2, <2>1 DEF Keeps
<1>3. CASE StartLoading
  <2>1. PICK u : u = RecreatedViews(server.root)
    OBVIOUS
  <2>2. /\ phase = "down" /\ session' = [u EXCEPT !.tree = Settle(@)]
        /\ phase' = "loading" /\ pending' = windows /\ windows' = windows /\ server' = server
    BY <1>3, <2>1 DEF StartLoading, Becomes
  <2>3. StartsWith(u, server.root)
    BY <1>1, <2>1, StartRecreates
  <2>4. Sound(u) /\ Owners(u.tree) = {}
    BY <2>3 DEF StartsWith
  <2>5. Sound(session') /\ Owners(session'.tree) = {}
    BY <1>2, <2>2, <2>4
  <2>6. Framed'
    BY <1>1, <2>2, <2>5 DEF Framed
  <2>7. QED BY <1>1, <2>2, <2>5, <2>6 DEF SessionInv
<1>4. ASSUME NEW c \in Clients, ManageExisting(c) PROVE SessionInv'
  <2>1. PICK u \in ManagedExisting(session, c) : session' = [u EXCEPT !.tree = Settle(@)]
    BY <1>4 DEF ManageExisting, Becomes
  <2>2. /\ phase = "loading" /\ c \in pending /\ Roomy(session.tree)
        /\ pending' = pending \ {c} /\ server' = [server EXCEPT !.client[c] = None]
        /\ windows' = windows /\ phase' = phase
    BY <1>4 DEF ManageExisting
  <2>3. /\ Owners(session.tree) = windows \ pending /\ pending \subseteq windows
        /\ windows \subseteq Clients
    BY <1>1, <2>2 DEF Framed
  <2>4. c \notin Owners(session.tree)
    BY <2>2, <2>3
  <2>5. server.client[c] = None \/ SavedEntries(server.client[c])
    BY <1>1 DEF PropertiesOK
  <2>6. Sound(u) /\ Owners(u.tree) = Owners(session.tree) \cup {c}
    BY <1>1, <2>2, <2>4, <2>5, ExistingManaged
  <2>7. Sound(session') /\ Owners(session'.tree) = Owners(session.tree) \cup {c}
    BY <1>2, <2>1, <2>6
  <2>8. PropertiesOK(server')
    BY <1>1, <2>2, ForgettingOne DEF ForgetsOne
  <2>9. Framed'
    <3>1. Owners(session'.tree) = windows' \ pending'
      BY <2>2, <2>3, <2>7
    <3>2. QED BY <2>2, <2>3, <3>1 DEF Framed
  <2>10. QED BY <2>7, <2>8, <2>9 DEF SessionInv
<1>5. CASE FinishLoading
  <2>1. PICK u : u = Swept(session)
    OBVIOUS
  <2>2. /\ phase = "loading" /\ pending = {} /\ session' = [u EXCEPT !.tree = Settle(@)]
        /\ server' = SavedProperties(u.tree, windows)
        /\ phase' = "running" /\ windows' = windows /\ pending' = pending
    BY <1>5, <2>1 DEF FinishLoading, Becomes
  <2>3. Sound(u) /\ Filled(u.tree) /\ Owners(u.tree) = Owners(session.tree)
    <3>1. /\ Sound(u) /\ u.previous = session.previous
          /\ Filled(u.tree)
          /\ Owners(u.tree) = Owners(session.tree)
          /\ Filled(session.tree) => u = session
      BY <1>1, <2>1, AllSwept
    <3>2. QED BY <3>1
  <2>4. Sound(session') /\ Filled(session'.tree) /\ Owners(session'.tree) = Owners(session.tree)
    BY <1>2, <2>2, <2>3
  <2>5. PropertiesOK(server')
    BY <1>1, <2>2, <2>3, SavingKeepsProperties
  <2>6. Framed'
    BY <1>1, <2>2, <2>4 DEF Framed
  <2>7. QED BY <2>4, <2>5, <2>6 DEF SessionInv
<1>6. CASE AbortLoading
  <2>1. Ends(server)
    BY <1>6 DEF AbortLoading
  <2>2. QED BY <1>1, <2>1, EndsKeepsInv
<1>7. QED BY <1>3, <1>4, <1>5, <1>6 DEF Loading

\* Every step of a window manager, or between two of them.
LEMMA NextKeepsInv == SessionInv /\ [SessionNext]_sessionVars => SessionInv'
<1>1. SUFFICES ASSUME SessionInv, [SessionNext]_sessionVars PROVE SessionInv'
  OBVIOUS
<1>2. CASE Handling /\ (Commands \/ ClientEvents \/ TimerRuns)
  <2>1. Running
    <3>1. phase = "running" /\ Roomy(session.tree) /\ WellFormed(session.tree)
      BY <1>1, <1>2, SoundParts DEF Handling, SessionInv
    <3>2. TwoFree(session.tree) /\ FreeColumns(session.tree) # {}
      BY <3>1, RoomyIsTwo
    <3>3. QED BY <1>1, <3>1, <3>2 DEF Running
  <2>2. CASE Commands
    BY <2>1, <2>2, SelectingViewKeepsInv, ToggleBarKeepsInv, FullscreenKeepsInv, FrameCommandsKeepInv
       DEF Commands
  <2>3. CASE ClientEvents
    BY <2>1, <2>3, ManagingKeepsInv, FocusKeepsInv, FullscreenKeepsInv DEF ClientEvents
  <2>4. CASE TimerRuns
    BY <2>1, <2>4, FocusKeepsInv
  <2>5. QED BY <1>2, <2>2, <2>3, <2>4
<1>3. CASE FlushViews
  BY <1>1, <1>3, FlushKeepsInv
<1>4. CASE Persistence
  BY <1>1, <1>4, PersistenceKeepsInv
<1>5. CASE Loading
  BY <1>1, <1>5, LoadingKeepsInv
<1>6. CASE UNCHANGED sessionVars
  BY <1>1, <1>6 DEF sessionVars, SessionInv, Framed
<1>7. QED BY <1>1, <1>2, <1>3, <1>4, <1>5, <1>6 DEF SessionNext

\* The invariant holds in every state.
LEMMA SessionInvariant == SessionSpec => []SessionInv
<1>1. SessionInit => SessionInv
  BY InitSession
<1>2. SessionInv /\ [SessionNext]_sessionVars => SessionInv'
  BY NextKeepsInv
<1>3. QED BY <1>1, <1>2, PTL DEF SessionSpec

-----------------------------------------------------------------------------
(* What it means.                                                          *)

\* Nothing is empty, as the lists say it.
LEMMA FilledLists ==
  ASSUME NEW w, WellFormed(w), Filled(w)
  PROVE  /\ \A v \in w.views : w.columns[v] = <<>> => v = w.selected_view
         /\ \A col \in Columns : w.view_of[col] # None => w.frames[col] # <<>>
<1>1. w.views \subseteq Views
  BY ViewsOfTree
<1>2. ASSUME NEW v \in w.views, w.columns[v] = <<>> PROVE v = w.selected_view
  <2>1. PICK list : list = w.columns[v]
    OBVIOUS
  <2>2. Enumerates(list, ColumnsOf(w, v))
    BY <1>1, <2>1 DEF WellFormed, WellLinked, Tree
  <2>3. ColumnsOf(w, v) = {}
    BY <1>2, <2>1, <2>2 DEF Enumerates, ToSet
  <2>4. QED BY <2>3 DEF Filled, NoneEmptyBut
<1>3. ASSUME NEW col \in Columns, w.view_of[col] # None PROVE w.frames[col] # <<>>
  <2>1. FramesIn(w, col) # {}
    BY <1>3 DEF Filled, NoneEmptyBut
  <2>2. QED BY <2>1, NoFrames
<1>4. QED BY <1>2, <1>3

\* The properties have the types that they are read with.
LEMMA InvariantTypes == SessionInv => SessionTypeOK
<1>1. SUFFICES ASSUME SessionInv PROVE SessionTypeOK
  OBVIOUS
<1>2. Sound(session) /\ Framed /\ PropertiesOK(server)
  BY <1>1 DEF SessionInv
<1>3. session = [tree |-> session.tree, bar |-> session.bar, previous |-> session.previous]
  BY <1>2 DEF Sound, Consistent, IsSession
<1>4. DOMAIN session = {"tree", "bar", "previous"}
  BY <1>3
<1>5. session.previous \in OrNone(Views)
  BY <1>2 DEF Sound, Consistent, Remembers
<1>6. \A c \in Clients : server.client[c] # None => DOMAIN server.client[c] \subseteq Views
  BY <1>2 DEF PropertiesOK, SavedEntries
<1>7. QED BY <1>2, <1>4, <1>5, <1>6 DEF SessionTypeOK, Framed

(***************************************************************************)
(* The tree stays consistent in memory, and while the window manager runs  *)
(* nothing in it is empty and exactly the managed windows have frames:     *)
(* through fullscreen views (wm/extra/fullscreen.cpp), and after a start   *)
(* with whatever was saved, half saved or stale (wm/persistence.cpp).      *)
(***************************************************************************)
THEOREM SessionStaysConsistent == SessionSpec => []SessionIsConsistent
<1>1. SessionInv => SessionIsConsistent
  <2>1. SUFFICES ASSUME SessionInv PROVE SessionIsConsistent
    OBVIOUS
  <2>2. PICK w : w = session.tree
    OBVIOUS
  <2>3. WellFormed(w) /\ Framed
    BY <2>1, <2>2, SoundParts DEF SessionInv
  <2>4. Tree(w) /\ Histories(w) /\ Selection(w)
    BY <2>3 DEF WellFormed, WellLinked
  <2>5. ASSUME phase = "running"
        PROVE  /\ \A v \in w.views : w.columns[v] = <<>> => v = w.selected_view
               /\ \A col \in Columns : w.view_of[col] # None => w.frames[col] # <<>>
               /\ \A c \in Clients : c \in windows <=> FramesOf(w, c) # {}
    <3>1. Filled(w) /\ Owners(w) = windows /\ windows \subseteq Clients
      BY <2>2, <2>3, <2>5 DEF Framed
    <3>2. \A c \in Clients : c \in windows <=> FramesOf(w, c) # {}
      BY <3>1 DEF Owners
    <3>3. QED BY <2>3, <3>1, <3>2, FilledLists
  <2>6. QED BY <2>1, <2>2, <2>4, <2>5, InvariantTypes DEF SessionIsConsistent
<1>2. QED BY <1>1, SessionInvariant, PTL

(***************************************************************************)
(* The cells of the bar are those of the views, in their order, with the   *)
(* selected one set apart, and its window shows them unless a flush is     *)
(* scheduled (wm/extra/bar_view_applet.cpp).                               *)
(***************************************************************************)
THEOREM BarAlwaysShowsViews == SessionSpec => []BarShowsViews
<1>1. SessionInv => BarShowsViews
  <2>1. SUFFICES ASSUME SessionInv PROVE BarShowsViews
    OBVIOUS
  <2>2. PICK w, b : w = session.tree /\ b = session.bar
    OBVIOUS
  <2>3. WellFormed(w) /\ Faithful(b, BarVisible(w)) /\ HoldsViews(b, w.views, Chosen(w))
    BY <2>1, <2>2 DEF SessionInv, Sound, Consistent, BarFollows
  <2>4. PICK names : Grows(names) /\ ToSet(names) = w.views
                     /\ b.cells["left"] = ViewCells(names, Chosen(w))
    BY <2>3 DEF HoldsViews
  <2>5. InOrder(w.views) = names
    BY <2>4, InOrderIs
  <2>6. ViewCells(names, Chosen(w)) =
          [i \in DOMAIN names |->
             TextCell(names[i], names[i],
                      IF names[i] = w.selected_view THEN "selected" ELSE "normal")]
    <3>1. ASSUME NEW i \in DOMAIN names
          PROVE  names[i] \in Chosen(w) <=> names[i] = w.selected_view
      <4>1. names[i] \in w.views
        BY <2>4, <3>1 DEF ToSet
      <4>2. names[i] # None
        BY <2>3, <4>1, ViewsOfTree
      <4>3. QED BY <4>2 DEF Chosen
    <3>2. QED BY <3>1 DEF ViewCells, ViewCell
  <2>7. BarIsUpToDate(b, BarVisible(w))
    BY <2>3 DEF Faithful
  <2>8. QED BY <2>2, <2>4, <2>5, <2>6, <2>7 DEF BarShowsViews
<1>2. QED BY <1>1, SessionInvariant, PTL

(***************************************************************************)
(* PreviousViewInfo (wm/extra/previous_view.hpp): the view to go back to   *)
(* is never the one on the screen, and going back twice ends where it      *)
(* began, whether or not one of the two is deleted on the way.             *)
(***************************************************************************)
THEOREM BackAndForthAgain == SessionSpec => []BackAndForth
<1>1. SessionInv => BackAndForth
  <2>1. SUFFICES ASSUME SessionInv, session.previous # None
                 PROVE  LET there == SwitchTo(session, session.previous)
                            back == SwitchTo(there, there.previous)
                        IN /\ there.tree.selected_view # session.tree.selected_view
                           /\ back.tree.selected_view = session.tree.selected_view
                           /\ back.previous = session.previous
    BY DEF BackAndForth
  <2>2. PICK here, there, v : /\ here = session.tree.selected_view
                              /\ v = session.previous /\ there = SwitchTo(session, v)
    OBVIOUS
  <2>3. Sound(session)
    BY <2>1 DEF SessionInv
  <2>4. v \in Views /\ here # None /\ v # here /\ v # None
    BY <2>1, <2>2, <2>3 DEF Sound, Consistent, Remembers, OrNone
  <2>5. here \in Views
    BY <2>2, <2>3, <2>4, SoundParts DEF OrNone
  <2>6. Sound(there) /\ there.tree.selected_view = v /\ there.previous = here
    <3>1. /\ Sound(there)
          /\ SameLinks(session.tree, there.tree)
          /\ there.tree.selected_view = v
          /\ there.previous = IF v # session.tree.selected_view /\ session.tree.selected_view # None
                              THEN session.tree.selected_view ELSE session.previous
          /\ Owners(there.tree) = Owners(session.tree)
          /\ FreeColumns(there.tree) = FreeColumns(session.tree)
          /\ Filled(session.tree) => Filled(there.tree)
      BY <2>2, <2>3, <2>4, ViewSwitchedTo
    <3>2. QED BY <2>2, <2>4, <3>1
  <2>7. PICK back : back = SwitchTo(there, here)
    OBVIOUS
  <2>8. back.tree.selected_view = here /\ back.previous = v
    <3>1. /\ Sound(back)
          /\ SameLinks(there.tree, back.tree)
          /\ back.tree.selected_view = here
          /\ back.previous = IF here # there.tree.selected_view /\ there.tree.selected_view # None
                             THEN there.tree.selected_view ELSE there.previous
          /\ Owners(back.tree) = Owners(there.tree)
          /\ FreeColumns(back.tree) = FreeColumns(there.tree)
          /\ Filled(there.tree) => Filled(back.tree)
      BY <2>5, <2>6, <2>7, ViewSwitchedTo
    <3>2. QED BY <2>4, <2>6, <3>1
  <2>9. QED BY <2>2, <2>4, <2>6, <2>7, <2>8
<1>2. QED BY <1>1, SessionInvariant, PTL

\* A list without repetition of one element.
LEMMA OneElement ==
  ASSUME NEW T, NEW s \in Seq(T), NEW e, Enumerates(s, {e})
  PROVE  Len(s) = 1
<1>1. Len(s) \in Nat /\ \A i \in 1..Len(s) : s[i] = e
  BY DEF Enumerates, ToSet
<1>2. Len(s) # 0
  BY DEF Enumerates, ToSet
<1>3. \A i, j \in 1..Len(s) : s[i] = s[j] => i = j
  BY DEF Enumerates, IsInjective
<1>4. PICK n : n = Len(s)
  OBVIOUS
<1>5. n \in Nat /\ n # 0
  BY <1>1, <1>2, <1>4
<1>6. CASE n = 1
  BY <1>4, <1>6
<1>7. CASE n # 1
  <2>1. 1 \in 1..n /\ 2 \in 1..n
    BY <1>5, <1>7
  <2>2. s[1] = s[2]
    BY <1>1, <1>4, <2>1
  <2>3. QED BY <1>3, <1>4, <2>1, <2>2
<1>8. QED BY <1>6, <1>7

\* A view with one frame has one column, and nothing else is in that.
LEMMA AloneInView ==
  ASSUME NEW w, WellFormed(w), Filled(w), NEW f \in LiveFrames(w), NEW v, v = ViewOf(f),
         FramesOfView(w, v) = {f}
  PROVE  Len(w.frames[w.column_of[f]]) = 1 /\ Len(w.columns[v]) = 1
<1>1. PICK col : col = w.column_of[f]
  OBVIOUS
<1>2. v \in Views /\ f \in Frames /\ col \in ColumnsOf(w, v) /\ col \in Columns
  BY <1>1, FramesHaveViews DEF ColumnsOf
<1>3. ASSUME NEW c \in ColumnsOf(w, v) PROVE FramesIn(w, c) \subseteq {f}
  <2>1. SUFFICES ASSUME NEW g \in FramesIn(w, c) PROVE g = f
    OBVIOUS
  <2>2. g \in LiveFrames(w) /\ w.column_of[g] = c
    BY <1>3, <2>1, NoneIsNoObject DEF FramesIn, LiveFrames, ColumnsOf
  <2>3. w.column_of[g] \in ColumnsOf(w, ViewOf(g))
    BY <2>2, FramesHaveViews
  <2>4. ViewOf(g) = v
    BY <1>3, <2>2, <2>3 DEF ColumnsOf
  <2>5. QED BY <2>2, <2>4 DEF FramesOfView
<1>4. FramesIn(w, col) = {f}
  BY <1>1, <1>2, <1>3 DEF FramesIn
<1>5. ColumnsOf(w, v) = {col}
  <2>1. SUFFICES ASSUME NEW c \in ColumnsOf(w, v) PROVE c = col
    BY <1>2
  <2>2. c \in Columns /\ w.view_of[c] # None
    BY <1>2, <2>1, NoneIsNoObject DEF ColumnsOf
  <2>3. FramesIn(w, c) # {}
    BY <2>2 DEF Filled, NoneEmptyBut
  <2>4. f \in FramesIn(w, c)
    BY <1>3, <2>1, <2>3
  <2>5. QED BY <1>1, <2>4 DEF FramesIn
<1>6. PICK list, frames : list = w.columns[v] /\ frames = w.frames[col]
  OBVIOUS
<1>7. /\ list \in Seq(Columns) /\ Enumerates(list, {col})
      /\ frames \in Seq(Frames) /\ Enumerates(frames, {f})
  <2>1. list \in Seq(Columns) /\ frames \in Seq(Frames)
    BY <1>2, <1>6 DEF WellFormed, WellLinked, Graph
  <2>2. Enumerates(list, ColumnsOf(w, v)) /\ Enumerates(frames, FramesIn(w, col))
    BY <1>2, <1>6 DEF WellFormed, WellLinked, Tree
  <2>3. QED BY <1>4, <1>5, <2>1, <2>2
<1>8. Len(list) = 1 /\ Len(frames) = 1
  BY <1>7, OneElement
<1>9. QED BY <1>1, <1>6, <1>8

\* A client is unmanaged whose fullscreen view is on the screen.
LEMMA UnmanagedReturns ==
  ASSUME NEW s, Sound(s), Filled(s.tree), NEW c \in Clients,
         NEW f, f = FrameOnScreen(s.tree, c), f # None, OriginalFrame(s.tree, f) # None,
         FramesOfView(s.tree, ViewOf(f)) = {f},
         NEW u, u = Unmanaged(s, c)
  PROVE  /\ Sound(u)
         /\ u.tree.selected_view = Original[ViewOf(f)]
         /\ ViewOf(f) \notin u.tree.views
<1>1. PICK t, v, o : t = s.tree /\ v = ViewOf(f) /\ o = Original[v]
  OBVIOUS
<1>2. WellFormed(t) /\ Filled(t)
  BY <1>1, SoundParts
<1>3. f \in LiveFrames(t) /\ ClientOf(f) = c
  BY <1>1, <1>2, FrameOnScreenIsLive
<1>4. o \in t.views /\ o # v
  BY <1>1, <1>2, <1>3, OriginalFrameIsOther
<1>5. v \in Views
  BY <1>1, <1>2, <1>3, FramesHaveViews
<1>6. Len(t.frames[t.column_of[f]]) = 1 /\ Len(t.columns[v]) = 1
  BY <1>1, <1>2, <1>3, AloneInView
<1>7. PICK x : x = LeaveFullscreen(s, c)
  OBVIOUS
<1>8. x = SelectViewAndTell(s, o)
  BY <1>1, <1>6, <1>7 DEF LeaveFullscreen
<1>9. /\ Sound(x)
      /\ LiveFrames(x.tree) = LiveFrames(s.tree)
      /\ Owners(x.tree) = Owners(s.tree)
      /\ FreeColumns(s.tree) \subseteq FreeColumns(x.tree)
      /\ Filled(s.tree) => Filled(x.tree)
  BY <1>7, FullscreenLeft
<1>10. x.tree.selected_view = o
  <2>1. o \in s.tree.views
    BY <1>1, <1>4
  <2>2. /\ Sound(x)
        /\ SameLinks(s.tree, x.tree)
        /\ x.tree.selected_view = o /\ o \in x.tree.views /\ x.tree.views \subseteq s.tree.views
        /\ x.tree.bar_visible = s.tree.bar_visible \ (s.tree.views \ x.tree.views)
        /\ x.previous = IF o # s.tree.selected_view /\ s.tree.selected_view # None
                        THEN s.tree.selected_view ELSE s.previous
        /\ Owners(x.tree) = Owners(s.tree) /\ FreeColumns(x.tree) = FreeColumns(s.tree)
        /\ NoneEmptyBut(s.tree, {}, {o}) => Filled(x.tree)
    BY SMTT(60), <1>8, <2>1, ViewSelected
  <2>3. QED BY <2>2
<1>11. u = DeleteFrames(x, c)
  BY <1>7 DEF Unmanaged
<1>12. /\ Sound(u)
       /\ u.tree.selected_view = x.tree.selected_view /\ u.previous = x.previous
       /\ LiveFrames(u.tree) = LiveFrames(x.tree) \ FramesOf(x.tree, c)
       /\ Owners(u.tree) = Owners(x.tree) \ {c}
       /\ FreeColumns(x.tree) \subseteq FreeColumns(u.tree)
       /\ Filled(x.tree) => Filled(u.tree)
  BY <1>9, <1>11, FramesDeleted
<1>13. PICK w : w = u.tree
  OBVIOUS
<1>14. WellFormed(w) /\ Filled(w) /\ LiveFrames(w) \subseteq LiveFrames(t) \ {f}
  BY <1>1, <1>2, <1>3, <1>9, <1>12, <1>13, SoundParts DEF FramesOf
<1>15. ASSUME v \in w.views PROVE FALSE
  <2>1. ColumnsOf(w, v) # {}
    BY <1>4, <1>10, <1>12, <1>13, <1>14, <1>15 DEF Filled, NoneEmptyBut
  <2>2. PICK col \in Columns : w.view_of[col] = v
    BY <2>1 DEF ColumnsOf
  <2>3. FramesIn(w, col) # {}
    BY <1>5, <1>14, <2>2, NoneIsNoObject DEF Filled, NoneEmptyBut
  <2>4. PICK g \in Frames : w.column_of[g] = col
    BY <2>3 DEF FramesIn
  <2>5. g \in LiveFrames(w)
    BY <2>2, <2>4, NoneIsNoObject DEF LiveFrames
  <2>6. ViewOf(g) = v
    BY <1>14, <2>2, <2>4, <2>5 DEF WellFormed, WellLinked, Tree
  <2>7. g \in FramesOfView(t, v) /\ g # f
    BY <1>14, <2>5, <2>6 DEF FramesOfView
  <2>8. QED BY <1>1, <2>7
<1>16. QED BY <1>1, <1>10, <1>12, <1>13, <1>15

(***************************************************************************)
(* check_fullscreen_on_unmanage_client: when a client goes whose           *)
(* fullscreen view is on the screen, the view that it was made from is on  *)
(* the screen then, and the fullscreen view is gone.                       *)
(***************************************************************************)
THEOREM ClosingFullscreenReturns == SessionSpec => ClosingReturns
<1>1. SessionInv /\ [SessionNext]_sessionVars
      => [\A c \in Clients :
            LET w == session.tree
                f == FrameOnScreen(w, c)
            IN /\ phase = "running" /\ phase' = "running"
               /\ c \in windows /\ c \notin windows'
               /\ f # None /\ OriginalFrame(w, f) # None
               /\ FramesOfView(w, ViewOf(f)) = {f}
               => /\ session'.tree.selected_view = Original[ViewOf(f)]
                  /\ ViewOf(f) \notin session'.tree.views]_sessionVars
  <2>1. SUFFICES ASSUME SessionInv, SessionNext, NEW c \in Clients, NEW f,
                        f = FrameOnScreen(session.tree, c),
                        phase = "running", phase' = "running", c \in windows, c \notin windows',
                        f # None, OriginalFrame(session.tree, f) # None,
                        FramesOfView(session.tree, ViewOf(f)) = {f}
                 PROVE  /\ session'.tree.selected_view = Original[ViewOf(f)]
                        /\ ViewOf(f) \notin session'.tree.views
    OBVIOUS
  <2>2. Sound(session) /\ Filled(session.tree)
    BY <2>1 DEF SessionInv, Framed
  <2>3. PICK d \in Clients : \E destroyed \in BOOLEAN : Withdraw(d, destroyed)
    <3>1. CASE Commands
      BY <2>1, <3>1 DEF Commands, SelectBesideView, SwitchToPrevious, ToggleBar, ToggleFullscreen,
                        RemoveCurrent, SelectsView, CopyToView, MoveToView, Handler
    <3>2. CASE ClientEvents
      BY <2>1, <3>2 DEF ClientEvents, MapRequest, EnterWindow, RequestFullscreen, Handler
    <3>3. CASE TimerRuns \/ FlushViews
      BY <2>1, <3>3 DEF TimerRuns, FlushViews, Handler
    <3>4. CASE Persistence
      BY <2>1, <3>4 DEF Persistence, Save, Crash, CrashWhileSaving, Exit, Ends
    <3>5. CASE Loading
      BY <2>1, <3>5 DEF Loading, StartLoading, ManageExisting, FinishLoading, AbortLoading, Ends
    <3>6. QED BY <2>1, <3>1, <3>2, <3>3, <3>4, <3>5 DEF SessionNext
  <2>4. d = c
    BY <2>1, <2>3 DEF Withdraw
  <2>5. PICK u : u = Unmanaged(session, c)
    OBVIOUS
  <2>6. session' = [u EXCEPT !.tree = Settle(@)]
    BY <2>3, <2>4, <2>5 DEF Withdraw, Becomes
  <2>7. /\ Sound(u)
        /\ u.tree.selected_view = Original[ViewOf(f)]
        /\ ViewOf(f) \notin u.tree.views
    BY <2>1, <2>2, <2>5, UnmanagedReturns
  <2>8. session'.tree = Settle(u.tree) /\ Schedules(u.tree, session'.tree)
    <3>1. /\ Keeps(u, session')
          /\ session'.tree = Settle(u.tree) /\ session'.bar = u.bar /\ session'.previous = u.previous
          /\ Schedules(u.tree, session'.tree) /\ SameLook(u.tree, session'.tree)
          /\ LiveFrames(session'.tree) = LiveFrames(u.tree)
          /\ FreeColumns(session'.tree) = FreeColumns(u.tree)
      BY <2>6, <2>7, SettledKeeps
    <3>2. QED BY <3>1
  <2>9. QED BY <2>7, <2>8 DEF Schedules, SameViews
<1>2. QED BY <1>1, SessionInvariant, PTL DEF SessionSpec, ClosingReturns

-----------------------------------------------------------------------------
(* What a restart keeps.                                                   *)

\* Which column of its view a frame is in.
PlaceOf(w, c, v) == Position(w.columns[v], w.column_of[<<c, v>>])

\* It is one of the columns of the view, found by its number.
LEMMA PlaceOfFrame ==
  ASSUME NEW w, WellFormed(w), NEW c, NEW v, <<c, v>> \in LiveFrames(w)
  PROVE  /\ c \in Clients /\ v \in Views /\ v \in w.views
         /\ c \in Owners(w)
         /\ PlaceOf(w, c, v) \in 1..Len(w.columns[v])
         /\ w.columns[v][PlaceOf(w, c, v)] = w.column_of[<<c, v>>]
<1>1. PICK f : f = <<c, v>>
  OBVIOUS
<1>2. f \in LiveFrames(w)
  BY <1>1
<1>3. /\ ViewOf(f) \in w.views /\ ViewOf(f) \in Views /\ ClientOf(f) \in Clients
      /\ f \in Frames /\ f = <<ClientOf(f), ViewOf(f)>>
      /\ w.column_of[f] \in ColumnsOf(w, ViewOf(f))
      /\ ClientOf(f) \in Owners(w) /\ f \in FramesOf(w, ClientOf(f))
  BY <1>2, FramesHaveViews
<1>4. ClientOf(f) = c /\ ViewOf(f) = v
  BY <1>1 DEF ClientOf, ViewOf
<1>5. PICK list, col : list = w.columns[v] /\ col = w.column_of[f]
  OBVIOUS
<1>6. list \in Seq(Columns) /\ Enumerates(list, ColumnsOf(w, v)) /\ col \in ColumnsOf(w, v)
  BY <1>3, <1>4, <1>5 DEF WellFormed, WellLinked, Graph, Tree
<1>7. Position(list, col) \in 1..Len(list) /\ list[Position(list, col)] = col
  BY <1>6, EnumerationProperties
<1>8. PlaceOf(w, c, v) = Position(list, col)
  BY <1>1, <1>5 DEF PlaceOf
<1>9. QED BY <1>1, <1>3, <1>4, <1>5, <1>7, <1>8

\* A column has one number in its view.
LEMMA NumberOfColumn ==
  ASSUME NEW w, WellFormed(w), NEW v \in Views, NEW list, list = w.columns[v],
         NEW i \in 1..Len(list), NEW col, col = list[i]
  PROVE  /\ col \in Columns /\ w.view_of[col] = v /\ v \in w.views
         /\ Position(list, col) = i
<1>1. list \in Seq(Columns) /\ Enumerates(list, ColumnsOf(w, v))
  BY DEF WellFormed, WellLinked, Graph, Tree
<1>2. col \in ColumnsOf(w, v)
  BY <1>1, EnumerationProperties
<1>3. PICK j : j = Position(list, col)
  OBVIOUS
<1>4. j \in 1..Len(list) /\ list[j] = col
  BY <1>1, <1>2, <1>3, EnumerationProperties
<1>5. j = i
  BY <1>1, <1>4, EnumerationIsInjective
<1>6. v \in w.views
  BY <1>2 DEF WellFormed, WellLinked, Tree
<1>7. QED BY <1>2, <1>3, <1>5, <1>6 DEF ColumnsOf

\* A frame that was saved is in the column with its number, looks the same, and is the
\* selected one there if it was.
ResumesFrame(w, t, c, v) ==
  LET f == <<c, v>>
  IN /\ f \in LiveFrames(w) <=> f \in LiveFrames(t)
     /\ f \in LiveFrames(t) =>
          /\ PlaceOf(w, c, v) = PlaceOf(t, c, v)
          /\ f \in w.shaded <=> f \in t.shaded
          /\ f \in w.decorated <=> f \in t.decorated
          /\ t.selected_frame[t.column_of[f]] = f => w.selected_frame[w.column_of[f]] = f

\* The views and columns of `t' are there, with the frames of the clients in S.
Resumes(w, t, S) ==
  /\ SameViews(t, w) /\ w.bar_visible = t.bar_visible
  /\ \A v \in t.views : Len(w.columns[v]) = Len(t.columns[v]) /\ Flags(w, v) = Flags(t, v)
  /\ \A c \in S, v \in Views : ResumesFrame(w, t, c, v)

\* The views and columns alone.
LEMMA RestoredResumes ==
  ASSUME NEW t, WellFormed(t), Tidy(t), NEW w, Restored(t, t.views, w)
  PROVE  Resumes(w, t, {})
<1>1. t.selected_view \in OrNone(t.views)
  BY ViewsOfTree
<1>2. w.views = t.views /\ w.selected_view = t.selected_view
  BY <1>1 DEF Restored, OrNone
<1>3. w.bar_visible = t.bar_visible
  BY DEF Restored, Tidy
<1>4. QED BY <1>2, <1>3 DEF Restored, Resumes, SameViews

\* What is in the property of a client.
Describes(info, t, c) ==
  /\ DOMAIN info = {y \in Views : <<c, y>> \in LiveFrames(t)}
  /\ \A y \in DOMAIN info :
       LET f == <<c, y>>
       IN /\ info[y].column = PlaceOf(t, c, y)
          /\ info[y].selected <=> t.selected_frame[t.column_of[f]] = f
          /\ info[y].shaded <=> f \in t.shaded
          /\ info[y].decorated <=> f \in t.decorated

\* It is what was saved (PersistentFrameInfo).
LEMMA SavedDescribes ==
  ASSUME NEW t, WellFormed(t), NEW c \in Clients, NEW info, info = ClientInfo(t, c)
  PROVE  Describes(info, t, c)
<1>1. PICK D : D = {ViewOf(f) : f \in FramesOf(t, c)}
  OBVIOUS
<1>2. D = {y \in Views : <<c, y>> \in LiveFrames(t)}
  <2>1. ASSUME NEW y \in D PROVE y \in Views /\ <<c, y>> \in LiveFrames(t)
    <3>1. PICK f \in FramesOf(t, c) : y = ViewOf(f)
      BY <1>1, <2>1
    <3>2. f \in LiveFrames(t) /\ ClientOf(f) = c
      BY DEF FramesOf
    <3>3. QED BY <3>1, <3>2, FramesHaveViews
  <2>2. ASSUME NEW y \in Views, <<c, y>> \in LiveFrames(t) PROVE y \in D
    <3>1. ClientOf(<<c, y>>) = c /\ ViewOf(<<c, y>>) = y
      BY DEF ClientOf, ViewOf
    <3>2. <<c, y>> \in FramesOf(t, c)
      BY <2>2, <3>1 DEF FramesOf
    <3>3. QED BY <1>1, <3>1, <3>2
  <2>3. QED BY <2>1, <2>2
<1>3. info = [v \in D |->
                LET f == <<c, v>>
                    col == t.column_of[f]
                IN [ column    |-> Position(t.columns[v], col),
                     selected  |-> t.selected_frame[col] = f,
                     shaded    |-> f \in t.shaded,
                     decorated |-> f \in t.decorated ]]
  BY <1>1 DEF ClientInfo
<1>4. DOMAIN info = D
  BY <1>3
<1>5. ASSUME NEW y \in D
      PROVE  /\ info[y].column = PlaceOf(t, c, y)
             /\ info[y].selected <=> t.selected_frame[t.column_of[<<c, y>>]] = <<c, y>>
             /\ info[y].shaded <=> <<c, y>> \in t.shaded
             /\ info[y].decorated <=> <<c, y>> \in t.decorated
  <2>1. PICK f, col : f = <<c, y>> /\ col = t.column_of[f]
    OBVIOUS
  <2>2. info[y] = [ column    |-> Position(t.columns[y], col),
                    selected  |-> t.selected_frame[col] = f,
                    shaded    |-> f \in t.shaded,
                    decorated |-> f \in t.decorated ]
    BY <1>3, <1>5, <2>1, Zenon
  <2>3. PICK place, a, b, d : /\ place = Position(t.columns[y], col)
                              /\ a = (t.selected_frame[col] = f)
                              /\ b = (f \in t.shaded) /\ d = (f \in t.decorated)
    OBVIOUS
  <2>4. info[y] = [column |-> place, selected |-> a, shaded |-> b, decorated |-> d]
    BY <2>2, <2>3, Zenon
  <2>5. info[y].column = place /\ info[y].selected = a /\ info[y].shaded = b /\ info[y].decorated = d
    BY <2>4
  <2>6. info[y].column = PlaceOf(t, c, y)
    BY <2>1, <2>3, <2>5 DEF PlaceOf
  <2>7. QED BY <2>1, <2>3, <2>5, <2>6, Zenon
<1>6. QED BY <1>2, <1>4, <1>5 DEF Describes

\* So all of the client's frames have a place.
LEMMA DescribedIsKnown ==
  ASSUME NEW t, WellFormed(t), NEW w, WellFormed(w), NEW S, Resumes(w, t, S),
         NEW c, NEW info, Describes(info, t, c)
  PROVE  Known(w, info) = DOMAIN info /\ HasPlaces(w, info, DOMAIN info) /\ DOMAIN info \subseteq w.views
<1>1. ASSUME NEW y \in DOMAIN info
      PROVE  y \in w.views /\ info[y].column \in 1..Len(w.columns[y])
  <2>1. <<c, y>> \in LiveFrames(t) /\ info[y].column = PlaceOf(t, c, y)
    BY <1>1 DEF Describes
  <2>2. y \in t.views /\ PlaceOf(t, c, y) \in 1..Len(t.columns[y])
    BY <2>1, PlaceOfFrame
  <2>3. w.views = t.views /\ Len(w.columns[y]) = Len(t.columns[y])
    BY <2>2 DEF Resumes, SameViews
  <2>4. QED BY <2>1, <2>2, <2>3
<1>2. ASSUME NEW y \in DOMAIN info PROVE info[y].column <= Len(w.columns[y])
  <2>1. PICK n, i : n = Len(w.columns[y]) /\ i = info[y].column
    OBVIOUS
  <2>2. i \in 1..n
    BY <1>1, <1>2, <2>1
  <2>3. y \in Views
    BY <1>2 DEF Describes
  <2>4. w.columns[y] \in Seq(Columns)
    BY <2>3 DEF WellFormed, WellLinked, Graph
  <2>5. n \in Nat
    BY <2>1, <2>4, LenProperties
  <2>6. i <= n
    BY <2>2, <2>5
  <2>7. QED BY <2>1, <2>6
<1>3. QED BY <1>1, <1>2 DEF Known, HasPlaces

\* Another client whose frames are where they were.
LEMMA ResumesOneMore ==
  ASSUME NEW t, WellFormed(t), NEW w, WellFormed(w), NEW S, S = Owners(w), Resumes(w, t, S),
         NEW c \in Clients \ S, NEW info, Describes(info, t, c),
         NEW u, WellFormed(u), TakesFrames(w, u, c, info, DOMAIN info)
  PROVE  Resumes(u, t, S \cup {c})
<1>1. PICK V : V = DOMAIN info
  OBVIOUS
<1>2. /\ V \subseteq w.views /\ HasPlaces(w, info, V) /\ V \subseteq Views
      /\ TakesFrames(w, u, c, info, V)
  BY <1>1, DescribedIsKnown DEF Describes
<1>3. /\ SameViews(w, u) /\ u.bar_visible = w.bar_visible
      /\ u.columns = w.columns /\ u.view_of = w.view_of /\ u.selected_column = w.selected_column
  BY <1>2 DEF TakesFrames
<1>4. SameViews(t, u) /\ u.bar_visible = t.bar_visible
  BY <1>3 DEF Resumes, SameViews
<1>5. \A v \in t.views : Len(u.columns[v]) = Len(t.columns[v]) /\ Flags(u, v) = Flags(t, v)
  <2>1. \A v : u.columns[v] = w.columns[v] /\ Flags(u, v) = Flags(w, v)
    BY <1>3 DEF Flags
  <2>2. QED BY <2>1 DEF Resumes
<1>6. ASSUME NEW y \in V
      PROVE  /\ SavedColumn(w, info, y) \in Columns /\ w.view_of[SavedColumn(w, info, y)] = y
             /\ Position(w.columns[y], SavedColumn(w, info, y)) = info[y].column
             /\ <<c, y>> \in LiveFrames(t) /\ info[y].column = PlaceOf(t, c, y)
  <2>1. PICK list, i : list = w.columns[y] /\ i = info[y].column
    OBVIOUS
  <2>2. i \in 1..Len(list) /\ y \in Views /\ SavedColumn(w, info, y) = list[i]
    BY <1>2, <1>6, <2>1 DEF HasPlaces, SavedColumn
  <2>3. /\ list[i] \in Columns /\ w.view_of[list[i]] = y /\ y \in w.views
        /\ Position(list, list[i]) = i
    BY <2>1, <2>2, NumberOfColumn
  <2>4. <<c, y>> \in LiveFrames(t) /\ info[y].column = PlaceOf(t, c, y)
    BY <1>1, <1>6 DEF Describes
  <2>5. QED BY <2>1, <2>2, <2>3, <2>4
<1>7. ASSUME NEW d \in Clients, NEW y \in Views
      PROVE  /\ <<d, y>> \in Frames
             /\ u.column_of[<<d, y>>] =
                  IF d = c /\ y \in V THEN SavedColumn(w, info, y) ELSE w.column_of[<<d, y>>]
             /\ <<d, y>> \in u.shaded <=>
                  IF d = c /\ y \in V THEN info[y].shaded ELSE <<d, y>> \in w.shaded
             /\ <<d, y>> \in u.decorated <=>
                  IF d = c /\ y \in V THEN info[y].decorated ELSE <<d, y>> \in w.decorated
  BY <1>2, PairIsFrame DEF TakesFrames
<1>8. ASSUME NEW d \in S, NEW v \in Views PROVE ResumesFrame(u, t, d, v)
  <2>1. PICK f : f = <<d, v>>
    OBVIOUS
  <2>2. ResumesFrame(w, t, d, v) /\ d \in Clients /\ d # c
    BY <1>8 DEF Resumes, Owners
  <2>3. /\ f \in Frames /\ u.column_of[f] = w.column_of[f]
        /\ f \in u.shaded <=> f \in w.shaded
        /\ f \in u.decorated <=> f \in w.decorated
    BY <1>7, <2>1, <2>2
  <2>4. f \in LiveFrames(u) <=> f \in LiveFrames(w)
    BY <2>3 DEF LiveFrames
  <2>5. PlaceOf(u, d, v) = PlaceOf(w, d, v)
    BY <1>3, <2>1, <2>3 DEF PlaceOf
  <2>6. ASSUME f \in LiveFrames(t), t.selected_frame[t.column_of[f]] = f
        PROVE  u.selected_frame[u.column_of[f]] = f
    <3>1. PICK col : col = w.column_of[f]
      OBVIOUS
    <3>2. f \in LiveFrames(w) /\ w.selected_frame[col] = f /\ PlaceOf(w, d, v) = PlaceOf(t, d, v)
      BY <2>1, <2>2, <2>6, <3>1 DEF ResumesFrame
    <3>3. col \in Columns /\ w.view_of[col] = v
      BY <2>1, <3>1, <3>2, FramesHaveViews DEF ColumnsOf, ViewOf
    <3>4. f # None
      BY <2>3, NoneIsNoObject DEF Frames
    <3>5. CASE \A y \in V : SavedColumn(w, info, y) # col
      BY <1>2, <2>3, <3>1, <3>2, <3>3, <3>5 DEF TakesFrames
    <3>6. CASE \E y \in V : SavedColumn(w, info, y) = col
      <4>1. PICK y \in V : SavedColumn(w, info, y) = col
        BY <3>6
      <4>2. y = v /\ Position(w.columns[v], col) = PlaceOf(t, c, v) /\ <<c, v>> \in LiveFrames(t)
            /\ info[v] = info[y]
        BY <1>6, <3>3, <4>1
      <4>3. PlaceOf(t, d, v) = PlaceOf(t, c, v)
        BY <2>1, <3>1, <3>2, <4>2 DEF PlaceOf
      <4>4. t.column_of[<<c, v>>] = t.column_of[f]
        BY <2>1, <2>6, <4>2, <4>3, PlaceOfFrame
      <4>5. f # <<c, v>>
        BY <2>1, <2>2
      <4>6. ~ info[y].selected
        BY <1>1, <2>6, <4>1, <4>2, <4>4, <4>5 DEF Describes
      <4>7. u.selected_frame[col] = IF info[y].selected \/ w.selected_frame[col] = None THEN <<c, y>>
                                    ELSE w.selected_frame[col]
        BY <1>2, <4>1 DEF TakesFrames
      <4>8. QED BY <2>3, <3>1, <3>2, <3>4, <4>6, <4>7
    <3>7. QED BY <3>5, <3>6
  <2>7. QED BY <2>1, <2>2, <2>3, <2>4, <2>5, <2>6 DEF ResumesFrame
<1>9. ASSUME NEW v \in Views PROVE ResumesFrame(u, t, c, v)
  <2>1. PICK f : f = <<c, v>>
    OBVIOUS
  <2>2. CASE v \in V
    <3>1. PICK col : col = SavedColumn(w, info, v)
      OBVIOUS
    <3>2. /\ col \in Columns /\ Position(w.columns[v], col) = info[v].column
          /\ f \in LiveFrames(t) /\ info[v].column = PlaceOf(t, c, v)
      BY <1>6, <2>1, <2>2, <3>1
    <3>3. /\ f \in Frames /\ u.column_of[f] = col
          /\ f \in u.shaded <=> info[v].shaded
          /\ f \in u.decorated <=> info[v].decorated
      BY <1>7, <2>1, <2>2, <3>1
    <3>4. f \in LiveFrames(u)
      BY <3>2, <3>3, NoneIsNoObject DEF LiveFrames
    <3>5. PlaceOf(u, c, v) = PlaceOf(t, c, v)
      BY <1>3, <2>1, <3>2, <3>3 DEF PlaceOf
    <3>6. /\ info[v].selected <=> t.selected_frame[t.column_of[f]] = f
          /\ info[v].shaded <=> f \in t.shaded
          /\ info[v].decorated <=> f \in t.decorated
      BY <1>1, <2>1, <2>2 DEF Describes
    <3>7. info[v].selected => u.selected_frame[col] = f
      BY <1>2, <2>1, <2>2, <3>1 DEF TakesFrames
    <3>8. QED BY <2>1, <3>2, <3>3, <3>4, <3>5, <3>6, <3>7 DEF ResumesFrame
  <2>3. CASE v \notin V
    <3>1. f \notin LiveFrames(t)
      BY <1>1, <2>1, <2>3 DEF Describes
    <3>2. f \in Frames /\ u.column_of[f] = w.column_of[f]
      BY <1>7, <2>1, <2>3
    <3>3. f \notin LiveFrames(w)
      BY <2>1, PlaceOfFrame
    <3>4. f \notin LiveFrames(u)
      BY <3>2, <3>3 DEF LiveFrames
    <3>5. QED BY <2>1, <3>1, <3>4 DEF ResumesFrame
  <2>4. QED BY <2>2, <2>3
<1>10. QED BY <1>4, <1>5, <1>8, <1>9 DEF Resumes

\* When all of them are back nothing is empty.
LEMMA ResumedIsFilled ==
  ASSUME NEW t, WellFormed(t), Filled(t), NEW w, WellFormed(w), Resumes(w, t, Owners(t))
  PROVE  Filled(w)
<1>1. w.views = t.views /\ w.selected_view = t.selected_view /\ w.views \subseteq Views
  BY ViewsOfTree DEF Resumes, SameViews
<1>2. ASSUME NEW col \in Columns, w.view_of[col] # None PROVE FramesIn(w, col) # {}
  <2>1. PICK v, list : v = w.view_of[col] /\ list = w.columns[v]
    OBVIOUS
  <2>2. v \in Views /\ col \in ColumnsOf(w, v)
    BY <1>2, <2>1 DEF WellFormed, WellLinked, Graph, ColumnsOf, OrNone
  <2>3. list \in Seq(Columns) /\ Enumerates(list, ColumnsOf(w, v))
    BY <2>1, <2>2 DEF WellFormed, WellLinked, Graph, Tree
  <2>4. PICK i : i = Position(list, col)
    OBVIOUS
  <2>5. i \in 1..Len(list) /\ list[i] = col
    BY <2>2, <2>3, <2>4, EnumerationProperties
  <2>6. v \in w.views
    BY <2>2 DEF WellFormed, WellLinked, Tree
  <2>7. PICK there, that : there = t.columns[v] /\ that = there[i]
    OBVIOUS
  <2>8. i \in 1..Len(there)
    BY <1>1, <2>1, <2>5, <2>6, <2>7 DEF Resumes
  <2>9. that \in Columns /\ t.view_of[that] = v /\ Position(there, that) = i
    BY <2>2, <2>7, <2>8, NumberOfColumn
  <2>10. PICK f \in Frames : t.column_of[f] = that
    BY <2>2, <2>9, NoneIsNoObject DEF Filled, NoneEmptyBut, FramesIn
  <2>11. f \in LiveFrames(t)
    BY <2>9, <2>10, NoneIsNoObject DEF LiveFrames
  <2>12. PICK d : d = ClientOf(f)
    OBVIOUS
  <2>13. ViewOf(f) = v
    BY <2>9, <2>10, <2>11 DEF WellFormed, WellLinked, Tree
  <2>14. f = <<d, v>> /\ d \in Owners(t)
    BY <2>11, <2>12, <2>13, FramesHaveViews
  <2>15. PlaceOf(t, d, v) = i
    BY <2>7, <2>9, <2>10, <2>14 DEF PlaceOf
  <2>16. ResumesFrame(w, t, d, v)
    BY <2>2, <2>14 DEF Resumes
  <2>17. f \in LiveFrames(w) /\ PlaceOf(w, d, v) = i
    BY <2>11, <2>14, <2>15, <2>16 DEF ResumesFrame
  <2>18. w.column_of[f] = w.columns[v][PlaceOf(w, d, v)]
    BY <2>14, <2>17, PlaceOfFrame
  <2>19. w.column_of[f] = col
    BY <2>1, <2>5, <2>17, <2>18
  <2>20. QED BY <2>10, <2>19 DEF FramesIn
<1>3. ASSUME NEW v \in w.views, ColumnsOf(w, v) = {} PROVE v = w.selected_view
  <2>1. PICK here, there : here = w.columns[v] /\ there = t.columns[v]
    OBVIOUS
  <2>2. /\ here \in Seq(Columns) /\ Enumerates(here, ColumnsOf(w, v))
        /\ there \in Seq(Columns) /\ Enumerates(there, ColumnsOf(t, v))
    BY <1>1, <2>1 DEF WellFormed, WellLinked, Graph, Tree
  <2>3. here = <<>>
    BY <1>3, <2>2, EnumerationProperties
  <2>4. Len(here) = Len(there)
    BY <1>1, <2>1 DEF Resumes
  <2>5. there = <<>>
    BY <2>2, <2>3, <2>4, EmptySeq, LenProperties
  <2>6. ColumnsOf(t, v) = {}
    BY <2>2, <2>5, EnumerationProperties
  <2>7. QED BY <1>1, <2>6 DEF Filled, NoneEmptyBut
<1>4. QED BY <1>2, <1>3 DEF Filled, NoneEmptyBut

\* And what would be saved of the root window is the same.
LEMMA ResumedRoot ==
  ASSUME NEW t, NEW w, NEW S, Resumes(w, t, S)
  PROVE  RootInfo(w) = RootInfo(t)
<1>1. /\ w.views = t.views /\ w.selected_view = t.selected_view /\ w.bar_visible = t.bar_visible
      /\ \A v \in t.views : Flags(w, v) = Flags(t, v)
  BY DEF Resumes, SameViews
<1>2. PICK here, there : here = [v \in w.views |-> Flags(w, v)] /\ there = [v \in t.views |-> Flags(t, v)]
  OBVIOUS
<1>3. here = there
  BY <1>1, <1>2
<1>4. RootInfo(w) = [views |-> w.views, selected |-> w.selected_view,
                     bar_visible |-> w.bar_visible, columns |-> here]
  BY <1>2, Zenon DEF RootInfo, Flags
<1>5. RootInfo(t) = [views |-> t.views, selected |-> t.selected_view,
                     bar_visible |-> t.bar_visible, columns |-> there]
  BY <1>2, Zenon DEF RootInfo, Flags
<1>6. QED BY <1>1, <1>3, <1>4, <1>5

\* What is saved of one frame.
Entry(w, c, v) ==
  LET f == <<c, v>>
      col == w.column_of[f]
  IN [ column    |-> Position(w.columns[v], col),
       selected  |-> w.selected_frame[col] = f,
       shaded    |-> f \in w.shaded,
       decorated |-> f \in w.decorated ]

\* A frame of a column that was the selected one is so again, and so no other is.
LEMMA ResumedEntry ==
  ASSUME NEW t, WellFormed(t), NEW w, WellFormed(w), Resumes(w, t, Owners(t)),
         NEW c \in Clients, NEW v \in Views, <<c, v>> \in LiveFrames(t)
  PROVE  Entry(w, c, v) = Entry(t, c, v)
<1>1. PICK f, here, there : f = <<c, v>> /\ here = w.column_of[f] /\ there = t.column_of[f]
  OBVIOUS
<1>2. c \in Owners(t)
  BY PlaceOfFrame
<1>3. ResumesFrame(w, t, c, v)
  BY <1>2 DEF Resumes
<1>4. /\ f \in LiveFrames(w) /\ f \in LiveFrames(t) /\ PlaceOf(w, c, v) = PlaceOf(t, c, v)
      /\ f \in w.shaded <=> f \in t.shaded
      /\ f \in w.decorated <=> f \in t.decorated
      /\ t.selected_frame[there] = f => w.selected_frame[here] = f
  BY <1>1, <1>3 DEF ResumesFrame
<1>5. ASSUME w.selected_frame[here] = f PROVE t.selected_frame[there] = f
  <2>1. PICK g, d : g = t.selected_frame[there] /\ d = ClientOf(g)
    OBVIOUS
  <2>2. f \in Frames /\ there \in Columns /\ t.view_of[there] = v
    BY <1>1, <1>4, FramesHaveViews DEF ColumnsOf, ViewOf
  <2>3. g \in FramesIn(t, there)
    BY <1>1, <2>1, <2>2 DEF WellFormed, Selection, Selects, FramesIn
  <2>4. g \in LiveFrames(t) /\ t.column_of[g] = there
    BY <2>2, <2>3, NoneIsNoObject DEF FramesIn, LiveFrames
  <2>5. ViewOf(g) = v
    BY <2>2, <2>4 DEF WellFormed, WellLinked, Tree
  <2>6. g = <<d, v>> /\ d \in Owners(t)
    BY <2>1, <2>4, <2>5, FramesHaveViews
  <2>7. ResumesFrame(w, t, d, v)
    BY <2>6 DEF Resumes
  <2>8. /\ g \in LiveFrames(w) /\ PlaceOf(w, d, v) = PlaceOf(t, d, v)
        /\ w.selected_frame[w.column_of[g]] = g
    BY <2>1, <2>4, <2>6, <2>7 DEF ResumesFrame
  <2>9. PlaceOf(t, d, v) = PlaceOf(t, c, v)
    BY <1>1, <2>4, <2>6 DEF PlaceOf
  <2>10. w.column_of[g] = w.columns[v][PlaceOf(w, d, v)]
    BY <2>6, <2>8, PlaceOfFrame
  <2>11. w.column_of[f] = w.columns[v][PlaceOf(w, c, v)]
    BY <1>1, <1>4, PlaceOfFrame
  <2>12. w.column_of[g] = here
    BY <1>1, <1>4, <2>8, <2>9, <2>10, <2>11
  <2>13. QED BY <1>5, <2>1, <2>8, <2>12
<1>6. /\ (w.selected_frame[here] = f) = (t.selected_frame[there] = f)
      /\ (f \in w.shaded) = (f \in t.shaded)
      /\ (f \in w.decorated) = (f \in t.decorated)
  BY <1>4, <1>5
<1>7. Entry(w, c, v) = [ column    |-> PlaceOf(w, c, v),
                         selected  |-> w.selected_frame[here] = f,
                         shaded    |-> f \in w.shaded,
                         decorated |-> f \in w.decorated ]
  BY <1>1, Zenon DEF Entry, PlaceOf
<1>8. Entry(t, c, v) = [ column    |-> PlaceOf(t, c, v),
                         selected  |-> t.selected_frame[there] = f,
                         shaded    |-> f \in t.shaded,
                         decorated |-> f \in t.decorated ]
  BY <1>1, Zenon DEF Entry, PlaceOf
<1>9. QED BY <1>4, <1>6, <1>7, <1>8, Zenon

\* What would be saved of each client is the same.
LEMMA ResumedClient ==
  ASSUME NEW t, WellFormed(t), NEW w, WellFormed(w), Resumes(w, t, Owners(t)),
         NEW c \in Owners(t)
  PROVE  ClientInfo(w, c) = ClientInfo(t, c)
<1>1. c \in Clients
  BY DEF Owners
<1>2. PICK here, there : /\ here = {ViewOf(f) : f \in FramesOf(w, c)}
                         /\ there = {ViewOf(f) : f \in FramesOf(t, c)}
  OBVIOUS
<1>3. ASSUME NEW x, WellFormed(x)
      PROVE  {ViewOf(f) : f \in FramesOf(x, c)} = {y \in Views : <<c, y>> \in LiveFrames(x)}
  <2>1. Describes(ClientInfo(x, c), x, c)
    BY <1>1, <1>3, SavedDescribes
  <2>2. DOMAIN ClientInfo(x, c) = {ViewOf(f) : f \in FramesOf(x, c)}
    BY DEF ClientInfo
  <2>3. QED BY <2>1, <2>2 DEF Describes
<1>4. /\ here = {y \in Views : <<c, y>> \in LiveFrames(w)}
      /\ there = {y \in Views : <<c, y>> \in LiveFrames(t)}
  BY <1>2, <1>3
<1>5. \A y \in Views : <<c, y>> \in LiveFrames(w) <=> <<c, y>> \in LiveFrames(t)
  BY DEF Resumes, ResumesFrame
<1>6. here = there
  BY <1>4, <1>5
<1>7. ASSUME NEW y \in there PROVE Entry(w, c, y) = Entry(t, c, y)
  BY <1>1, <1>4, <1>7, ResumedEntry
<1>8. ClientInfo(w, c) = [y \in here |-> Entry(w, c, y)]
  BY <1>2, Zenon DEF ClientInfo, Entry
<1>9. ClientInfo(t, c) = [y \in there |-> Entry(t, c, y)]
  BY <1>2, Zenon DEF ClientInfo, Entry
<1>10. QED BY <1>6, <1>7, <1>8, <1>9

\* What was saved completely, of the windows in S, is there, but for the clients'
\* properties that were deleted.
KeepsSave(o, S, p) ==
  /\ Sound(o) /\ Filled(o.tree) /\ Owners(o.tree) = S
  /\ p.root = RootInfo(o.tree)
  /\ \A c \in S : p.client[c] \in {None, ClientInfo(o.tree, c)}

\* What is expected is such a save of the windows W.
Expects(o, W, e) ==
  /\ Sound(o) /\ Filled(o.tree) /\ Owners(o.tree) = W /\ W \subseteq Clients
  /\ e = [root |-> RootInfo(o.tree), client |-> e.client]
  /\ e.client = [c \in Clients |-> e.client[c]]
  /\ \A c \in W : e.client[c] # None /\ e.client[c] = ClientInfo(o.tree, c)

\* The properties `p' of the windows W and of those that still are to be managed are
\* there, and the frames of the others are back in the tree `w'.
Recalls(o, W, todo, p, e, w) ==
  /\ Expects(o, W, e)
  /\ \A c \in todo : p.client[c] = e.client[c]
  /\ \A c \in Clients \ W : p.client[c] = e.client[c]
  /\ Resumes(w, o.tree, W \ todo)

RestartInv ==
  /\ saved # None => \E o : KeepsSave(o, saved, server)
  /\ phase = "loading" /\ expected # None =>
       \E o : Recalls(o, windows, pending, server, expected, session.tree)

\* Properties that go with their windows.
LEMMA LessIsKept ==
  ASSUME NEW o, NEW S, NEW p, KeepsSave(o, S, p), NEW q, q.root = p.root,
         \A c \in Clients : q.client[c] \in {None, p.client[c]}
  PROVE  KeepsSave(o, S, q)
<1>1. S \subseteq Clients
  BY DEF KeepsSave, Owners
<1>2. ASSUME NEW c \in S PROVE q.client[c] \in {None, ClientInfo(o.tree, c)}
  BY <1>1, <1>2 DEF KeepsSave
<1>3. QED BY <1>2 DEF KeepsSave

\* The property of the root window and those of the clients in W are of the tree `w'.
SavesAll(p, w, W) ==
  /\ PropertiesOK(p)
  /\ p.root = RootInfo(w)
  /\ \A c \in Clients : c \in W => p.client[c] = ClientInfo(w, c)
  /\ \A c \in Clients : c \notin W => p.client[c] = server.client[c]

\* That is what saving does.
LEMMA SavingSaves ==
  ASSUME NEW s, Sound(s), PropertiesOK(server), NEW W,
         NEW p, p = SavedProperties(s.tree, W)
  PROVE  SavesAll(p, s.tree, W)
<1>1. /\ PropertiesOK(p)
      /\ p.root = RootInfo(s.tree)
      /\ \A c \in Clients : p.client[c] = IF c \in W THEN ClientInfo(s.tree, c) ELSE server.client[c]
  BY SMTT(60), SavingKeepsProperties
<1>2. QED BY <1>1 DEF SavesAll

\* Or all of them are saved again.
LEMMA AllIsSaved ==
  ASSUME PropertiesOK(server), NEW s, Sound(s), Filled(s.tree), NEW S, S = Owners(s.tree),
         NEW p, p = SavedProperties(s.tree, S),
         NEW q, q.root = p.root, \A c \in Clients : q.client[c] \in {None, p.client[c]}
  PROVE  KeepsSave(s, S, q)
<1>1. SavesAll(p, s.tree, S)
  BY SavingSaves
<1>2. S \subseteq Clients
  BY DEF Owners
<1>3. ASSUME NEW c \in S PROVE q.client[c] \in {None, ClientInfo(s.tree, c)}
  <2>1. c \in Clients
    BY <1>2, <1>3
  <2>2. p.client[c] = ClientInfo(s.tree, c)
    BY <1>1, <1>3, <2>1 DEF SavesAll
  <2>3. QED BY <2>1, <2>2
<1>4. QED BY <1>1, <1>3 DEF KeepsSave, SavesAll

\* The end of a window manager leaves what it has saved, of the windows that stay.
LEMMA EndsLeaves ==
  ASSUME NEW p, PropertiesOK(p), Ends(p)
  PROVE  /\ server'.root = p.root
         /\ \A c \in Clients : server'.client[c] \in {None, p.client[c]}
         /\ phase' = "down"
<1>1. PICK client : client = [c \in Clients |-> IF c \in windows' THEN p.client[c] ELSE None]
  OBVIOUS
<1>2. Fewer(client, p)
  BY <1>1 DEF Fewer
<1>3. server' = [p EXCEPT !.client = client]
  BY <1>1 DEF Ends
<1>4. Forgets(p, server', client)
  BY <1>2, <1>3, ForgettingKeepsProperties
<1>5. phase' = "down"
  BY DEF Ends
<1>6. QED BY <1>2, <1>4, <1>5 DEF Forgets, Fewer

\* A step that neither loads nor ends.
Stays ==
  /\ saved' = saved
  /\ server'.root = server.root
  /\ \A c \in Clients : server'.client[c] \in {None, server.client[c]}

\* What was saved completely stays, or is replaced as a whole.
LEMMA SaveIsKept ==
  ASSUME SessionInv, RestartInv, [SessionNext]_sessionVars
  PROVE  saved' # None => \E o : KeepsSave(o, saved', server')
<1>1. Sound(session) /\ Framed /\ PropertiesOK(server)
  BY DEF SessionInv
<1>2. ASSUME Stays PROVE saved' # None => \E o : KeepsSave(o, saved', server')
  <2>1. SUFFICES ASSUME saved # None PROVE \E o : KeepsSave(o, saved, server')
    BY <1>2 DEF Stays
  <2>2. PICK o : KeepsSave(o, saved, server)
    BY <2>1 DEF RestartInv
  <2>3. KeepsSave(o, saved, server')
    BY <1>2, <2>2, LessIsKept DEF Stays
  <2>4. QED BY <2>3
<1>3. ASSUME server' = server, saved' = saved PROVE Stays
  BY <1>3 DEF Stays
<1>4. ASSUME NEW c \in Clients, server' = [server EXCEPT !.client[c] = None], saved' = saved
      PROVE  Stays
  <2>1. ForgetsOne(server, server', c)
    BY <1>1, <1>4, ForgettingOne
  <2>2. QED BY <1>4, <2>1 DEF Stays, ForgetsOne
<1>5. ASSUME Ends(server), saved' = saved PROVE Stays
  BY <1>1, <1>5, EndsLeaves DEF Stays
<1>6. ASSUME NEW s, Sound(s), Filled(s.tree), Owners(s.tree) = windows, saved' = windows,
             NEW p, p = SavedProperties(s.tree, windows),
             server' = p \/ Ends(p)
      PROVE  \E o : KeepsSave(o, saved', server')
  <2>1. PropertiesOK(p)
    BY <1>1, <1>6, SavingSaves DEF SavesAll
  <2>2. PICK q : q = server'
    OBVIOUS
  <2>3. q.root = p.root /\ \A c \in Clients : q.client[c] \in {None, p.client[c]}
    BY <1>6, <2>1, <2>2, EndsLeaves
  <2>4. KeepsSave(s, windows, q)
    BY <1>1, <1>6, <2>3, AllIsSaved
  <2>5. QED BY <1>6, <2>2, <2>4
<1>7. CASE Handling /\ (Commands \/ ClientEvents \/ TimerRuns)
  <2>1. CASE Commands
    BY <1>2, <1>3, <2>1 DEF Commands, SelectBesideView, SwitchToPrevious, ToggleBar, ToggleFullscreen,
                            RemoveCurrent, SelectsView, CopyToView, MoveToView, Handler
  <2>2. CASE ClientEvents
    <3>1. PICK c \in Clients :
            \/ MapRequest(c) \/ EnterWindow(c)
            \/ \E destroyed \in BOOLEAN : Withdraw(c, destroyed)
            \/ \E action \in {"add", "remove", "toggle"} : RequestFullscreen(c, action)
      BY <2>2 DEF ClientEvents
    <3>2. \/ server' = server /\ saved' = saved
          \/ server' = [server EXCEPT !.client[c] = None] /\ saved' = saved
      BY <3>1 DEF MapRequest, EnterWindow, RequestFullscreen, Handler, Withdraw
    <3>3. Stays
      BY <1>3, <1>4, <3>2
    <3>4. QED BY <1>2, <3>3
  <2>3. CASE TimerRuns
    BY <1>2, <1>3, <2>3 DEF TimerRuns, Handler
  <2>4. QED BY <1>7, <2>1, <2>2, <2>3
<1>8. CASE FlushViews
  BY <1>2, <1>3, <1>8 DEF FlushViews
<1>9. CASE Persistence
  <2>1. PICK s, p : s = session /\ p = SavedProperties(s.tree, windows)
    OBVIOUS
  <2>2. CASE Save \/ Exit
    <3>1. /\ phase = "running" /\ saved' = windows
          /\ server' = p \/ Ends(p)
      BY <2>1, <2>2 DEF Save, Exit
    <3>2. Sound(s) /\ Filled(s.tree) /\ Owners(s.tree) = windows
      BY <1>1, <2>1, <3>1 DEF Framed
    <3>3. QED BY <1>6, <2>1, <3>1, <3>2
  <2>3. CASE Crash
    BY <1>2, <1>5, <2>3 DEF Crash
  <2>4. CASE CrashWhileSaving
    BY <2>4 DEF CrashWhileSaving
  <2>5. QED BY <1>9, <2>2, <2>3, <2>4 DEF Persistence
<1>10. CASE Loading
  <2>1. CASE StartLoading
    BY <1>2, <1>3, <2>1 DEF StartLoading
  <2>2. ASSUME NEW c \in Clients, ManageExisting(c)
        PROVE  saved' # None => \E o : KeepsSave(o, saved', server')
    <3>1. server' = [server EXCEPT !.client[c] = None] /\ saved' = saved
      BY <2>2 DEF ManageExisting
    <3>2. QED BY <1>2, <1>4, <3>1
  <2>3. CASE FinishLoading
    <3>1. PICK s, p : s = Swept(session) /\ p = SavedProperties(s.tree, windows)
      OBVIOUS
    <3>2. phase = "loading" /\ pending = {} /\ server' = p /\ saved' = windows
      BY <2>3, <3>1 DEF FinishLoading
    <3>3. /\ Sound(s) /\ s.previous = session.previous
          /\ Filled(s.tree)
          /\ Owners(s.tree) = Owners(session.tree)
          /\ Filled(session.tree) => s = session
      BY <1>1, <3>1, AllSwept
    <3>4. Owners(s.tree) = windows
      BY <1>1, <3>2, <3>3 DEF Framed
    <3>5. QED BY <1>6, <3>1, <3>2, <3>3, <3>4
  <2>4. CASE AbortLoading
    BY <1>2, <1>5, <2>4 DEF AbortLoading
  <2>5. QED BY <1>10, <2>1, <2>2, <2>3, <2>4 DEF Loading
<1>11. CASE UNCHANGED sessionVars
  BY <1>2, <1>3, <1>11 DEF sessionVars
<1>12. QED BY <1>7, <1>8, <1>9, <1>10, <1>11 DEF SessionNext

\* The end of a handler does not touch any of this.
LEMMA SettledResumes ==
  ASSUME NEW u, Sound(u), NEW t, NEW S, Resumes(u.tree, t, S),
         NEW s, s = [u EXCEPT !.tree = Settle(@)]
  PROVE  Resumes(s.tree, t, S)
<1>1. PICK w, x : w = u.tree /\ x = s.tree
  OBVIOUS
<1>2. Schedules(w, x) /\ SameLook(w, x)
  <2>1. /\ Keeps(u, s)
        /\ s.tree = Settle(u.tree) /\ s.bar = u.bar /\ s.previous = u.previous
        /\ Schedules(u.tree, s.tree) /\ SameLook(u.tree, s.tree)
        /\ LiveFrames(s.tree) = LiveFrames(u.tree)
        /\ FreeColumns(s.tree) = FreeColumns(u.tree)
    BY SettledKeeps
  <2>2. QED BY <1>1, <2>1
<1>3. /\ SameViews(w, x) /\ x.bar_visible = w.bar_visible
      /\ x.columns = w.columns /\ x.column_of = w.column_of
      /\ x.selected_column = w.selected_column /\ x.selected_frame = w.selected_frame
      /\ x.shaded = w.shaded /\ x.decorated = w.decorated
  BY <1>2 DEF Schedules, SameLinks, SameLook
<1>4. LiveFrames(x) = LiveFrames(w)
  BY <1>3, SameOwners
<1>5. ASSUME NEW c \in S, NEW v \in Views PROVE ResumesFrame(x, t, c, v)
  <2>1. ResumesFrame(w, t, c, v)
    BY <1>1 DEF Resumes
  <2>2. PlaceOf(x, c, v) = PlaceOf(w, c, v)
    BY <1>3 DEF PlaceOf
  <2>3. QED BY <1>3, <1>4, <2>1, <2>2 DEF ResumesFrame
<1>6. \A v : x.columns[v] = w.columns[v] /\ Flags(x, v) = Flags(w, v)
  BY <1>3 DEF Flags
<1>7. SameViews(t, x) /\ x.bar_visible = t.bar_visible
  BY <1>1, <1>3 DEF Resumes, SameViews
<1>8. \A v \in t.views : Len(x.columns[v]) = Len(t.columns[v]) /\ Flags(x, v) = Flags(t, v)
  BY <1>1, <1>6 DEF Resumes
<1>9. QED BY <1>1, <1>5, <1>7, <1>8 DEF Resumes

\* What is found of a complete save, of the windows that are there, is taken up.
LEMMA StartRecalls ==
  ASSUME SessionInv, RestartInv, StartLoading, Whole
  PROVE  \E o : Recalls(o, windows', pending', server', expected', session'.tree)
<1>1. Framed /\ PropertiesOK(server)
  BY DEF SessionInv
<1>2. /\ saved # None /\ saved = windows /\ server.root # None
      /\ \A c \in windows : server.client[c] # None
  BY DEF Whole
<1>3. PICK o : KeepsSave(o, windows, server)
  BY <1>2 DEF RestartInv
<1>4. PICK t, root, u : t = o.tree /\ root = server.root /\ u = RecreatedViews(root)
  OBVIOUS
<1>5. Sound(o) /\ Filled(t) /\ Owners(t) = windows /\ root = RootInfo(t) /\ root # None
  BY <1>2, <1>3, <1>4 DEF KeepsSave
<1>6. Sound(u) /\ Restored(t, t.views, u.tree) /\ u.previous = None
  BY <1>4, <1>5, ViewsRecreated
<1>7. WellFormed(t) /\ Tidy(t)
  BY <1>4, <1>5, SoundParts
<1>8. Resumes(u.tree, t, {})
  BY <1>6, <1>7, RestoredResumes
<1>9. /\ session' = [u EXCEPT !.tree = Settle(@)]
      /\ windows' = windows /\ server' = server /\ pending' = windows /\ expected' = server
  BY <1>4 DEF StartLoading, Becomes
<1>10. Resumes(session'.tree, t, {})
  BY <1>6, <1>8, <1>9, SettledResumes
<1>11. Expects(o, windows, server)
  <2>1. windows \subseteq Clients
    BY <1>1 DEF Framed
  <2>2. \A c \in windows : server.client[c] # None /\ server.client[c] = ClientInfo(o.tree, c)
    BY <1>2, <1>3 DEF KeepsSave
  <2>3. server = [root |-> RootInfo(o.tree), client |-> server.client]
    BY <1>1, <1>4, <1>5 DEF PropertiesOK
  <2>4. server.client = [c \in Clients |-> server.client[c]]
    BY <1>1 DEF PropertiesOK
  <2>5. QED BY <1>4, <1>5, <2>1, <2>2, <2>3, <2>4 DEF Expects
<1>12. Recalls(o, windows', pending', server', expected', session'.tree)
  <2>1. windows \ windows = {}
    OBVIOUS
  <2>2. QED BY <1>4, <1>9, <1>10, <1>11, <2>1 DEF Recalls
<1>13. QED BY <1>12

\* If any frames were saved the client has some.
LEMMA TakesSome ==
  ASSUME NEW t, NEW w, NEW c \in Clients, c \notin Owners(t), NEW info,
         NEW V \in SUBSET Views, V # {}, TakesFrames(t, w, c, info, V),
         \A y \in V : SavedColumn(t, info, y) \in Columns
  PROVE  FramesOf(w, c) # {}
<1>1. /\ FramesOf(w, c) = {<<c, y>> : y \in V}
      /\ \A d \in Clients \ {c} : FramesOf(w, d) = FramesOf(t, d)
      /\ Owners(w) = IF V = {} THEN Owners(t) ELSE Owners(t) \cup {c}
  BY TakenFramesAre
<1>2. PICK y : y \in V
  OBVIOUS
<1>3. <<c, y>> \in FramesOf(w, c)
  BY <1>1, <1>2
<1>4. QED BY <1>3

\* The only frames a window can get then are those it had.
LEMMA OnlyAsSaved ==
  ASSUME NEW s, Sound(s), NEW c \in Clients, c \notin Owners(s.tree),
         NEW info, info = server.client[c], info # None,
         NEW V, V = DOMAIN info, V \subseteq Views, V # {}, V \subseteq s.tree.views,
         Known(s.tree, info) = V, HasPlaces(s.tree, info, V),
         NEW u \in ManagedExisting(s, c)
  PROVE  Sound(u) /\ TakesFrames(s.tree, u.tree, c, info, V)
<1>1. PICK x : x = PlaceSavedFrames(s, c, info, V)
  OBVIOUS
<1>2. PlaceExisting(s, c, info) = {x}
  <2>1. PICK placed : placed = {V}
    OBVIOUS
  <2>2. PlaceExisting(s, c, info) = {PlaceSavedFrames(s, c, info, views) : views \in placed}
    BY <2>1 DEF PlaceExisting
  <2>3. QED BY <1>1, <2>1, <2>2
<1>3. Sound(x) /\ TakesFrames(s.tree, x.tree, c, info, V)
  <2>1. V \in SUBSET s.tree.views
    OBVIOUS
  <2>2. /\ Sound(x) /\ x.previous = s.previous
        /\ TakesFrames(s.tree, x.tree, c, info, V)
    BY <1>1, <2>1, SavedFramesPlaced
  <2>3. QED BY <2>2
<1>4. \A y \in V : SavedColumn(s.tree, info, y) \in Columns
  <2>1. WellFormed(s.tree)
    BY SoundParts
  <2>2. ASSUME NEW y \in V PROVE SavedColumn(s.tree, info, y) \in Columns
    <3>1. y \in s.tree.views /\ HasPlaces(s.tree, info, {y})
      BY DEF HasPlaces
    <3>2. QED BY <2>1, <3>1, SavedColumnIsThere
  <2>3. QED BY <2>2
<1>5. FramesOf(x.tree, c) # {}
  <2>1. V \in SUBSET Views
    OBVIOUS
  <2>2. QED BY <1>3, <1>4, <2>1, TakesSome
<1>6. OrFreshly(x, c) = {x}
  BY <1>5 DEF OrFreshly
<1>7. PICK from : from = IF info = None THEN {s} ELSE PlaceExisting(s, c, info)
  OBVIOUS
<1>8. from = {x}
  BY <1>2, <1>7
<1>9. ManagedExisting(s, c) = UNION {OrFreshly(t, c) : t \in from}
  BY <1>7 DEF ManagedExisting
<1>10. u = x
  BY <1>6, <1>8, <1>9
<1>11. QED BY <1>3, <1>10

\* A window that had frames in what is taken up has them again.
LEMMA ManagingRecalls ==
  ASSUME SessionInv, NEW o, Recalls(o, windows, pending, server, expected, session.tree),
         NEW c \in Clients, ManageExisting(c)
  PROVE  Recalls(o, windows', pending', server', expected', session'.tree)
<1>1. Sound(session) /\ Framed /\ PropertiesOK(server)
  BY DEF SessionInv
<1>2. /\ phase = "loading" /\ c \in pending /\ pending' = pending \ {c}
      /\ server' = [server EXCEPT !.client[c] = None]
      /\ windows' = windows /\ expected' = expected
  BY DEF ManageExisting
<1>3. PICK u \in ManagedExisting(session, c) : session' = [u EXCEPT !.tree = Settle(@)]
  BY DEF ManageExisting, Becomes
<1>4. PICK t, w, info, V, S : /\ t = o.tree /\ w = session.tree /\ info = server.client[c]
                              /\ V = DOMAIN info /\ S = windows \ pending
  OBVIOUS
<1>5. /\ Expects(o, windows, expected) /\ Resumes(w, t, S)
      /\ \A d \in pending : server.client[d] = expected.client[d]
      /\ \A d \in Clients \ windows : server.client[d] = expected.client[d]
  BY <1>4 DEF Recalls
<1>6. /\ windows \subseteq Clients /\ pending \subseteq windows /\ c \in windows
      /\ Owners(w) = S /\ c \notin S
  BY <1>1, <1>2, <1>4 DEF Framed
<1>7. /\ Sound(o) /\ Owners(t) = windows
      /\ info # None /\ info = ClientInfo(t, c)
  BY <1>2, <1>4, <1>5, <1>6 DEF Expects
<1>8. WellFormed(t) /\ WellFormed(w)
  BY <1>1, <1>4, <1>7, SoundParts
<1>9. Describes(info, t, c)
  BY <1>7, <1>8, SavedDescribes
<1>10. Known(w, info) = V /\ HasPlaces(w, info, V) /\ V \subseteq w.views
  <2>1. Known(w, info) = DOMAIN info /\ HasPlaces(w, info, DOMAIN info) /\ DOMAIN info \subseteq w.views
    BY <1>5, <1>8, <1>9, DescribedIsKnown
  <2>2. QED BY <1>4, <2>1
<1>11. V \subseteq Views /\ V # {}
  <2>1. PICK f : f \in FramesOf(t, c)
    BY <1>6, <1>7 DEF Owners
  <2>2. f \in LiveFrames(t) /\ ClientOf(f) = c
    BY <2>1 DEF FramesOf
  <2>3. ViewOf(f) \in Views /\ <<c, ViewOf(f)>> \in LiveFrames(t)
    BY <1>8, <2>2, FramesHaveViews
  <2>4. QED BY <1>4, <1>9, <2>3 DEF Describes
<1>12. Sound(u) /\ TakesFrames(w, u.tree, c, info, V)
  BY <1>1, <1>3, <1>4, <1>6, <1>7, <1>10, <1>11, OnlyAsSaved
<1>13. Resumes(u.tree, t, S \cup {c})
  <2>1. WellFormed(u.tree)
    BY <1>12, SoundParts
  <2>2. c \in Clients \ S
    BY <1>6
  <2>3. QED BY <1>4, <1>5, <1>6, <1>8, <1>9, <1>12, <2>1, <2>2, ResumesOneMore
<1>14. Resumes(session'.tree, t, S \cup {c})
  BY <1>3, <1>12, <1>13, SettledResumes
<1>15. windows' \ pending' = S \cup {c}
  BY <1>2, <1>4, <1>6
<1>16. ForgetsOne(server, server', c)
  BY <1>1, <1>2, ForgettingOne
<1>17. /\ \A d \in pending' : server'.client[d] = expected'.client[d]
       /\ \A d \in Clients \ windows' : server'.client[d] = expected'.client[d]
  BY <1>2, <1>5, <1>6, <1>16 DEF ForgetsOne
<1>18. QED BY <1>2, <1>4, <1>5, <1>14, <1>15, <1>17 DEF Recalls

\* A window manager that runs goes on running, and only its start can make one load.
LEMMA PhaseChanges ==
  ASSUME [SessionNext]_sessionVars
  PROVE  \/ phase' = phase /\ phase # "loading"
         \/ phase' = "down"
         \/ StartLoading
         \/ \E c \in Clients : ManageExisting(c)
         \/ FinishLoading
         \/ UNCHANGED sessionVars
<1>1. CASE Handling /\ (Commands \/ ClientEvents \/ TimerRuns)
  <2>1. phase = "running"
    BY <1>1 DEF Handling
  <2>2. CASE Commands
    BY <2>1, <2>2 DEF Commands, SelectBesideView, SwitchToPrevious, ToggleBar, ToggleFullscreen,
                      RemoveCurrent, SelectsView, CopyToView, MoveToView, Handler
  <2>3. CASE ClientEvents
    BY <2>1, <2>3 DEF ClientEvents, MapRequest, EnterWindow, RequestFullscreen, Handler, Withdraw
  <2>4. CASE TimerRuns
    BY <2>1, <2>4 DEF TimerRuns, Handler
  <2>5. QED BY <1>1, <2>2, <2>3, <2>4
<1>2. CASE FlushViews
  BY <1>2 DEF FlushViews
<1>3. CASE Persistence
  BY <1>3 DEF Persistence, Save, Crash, CrashWhileSaving, Exit, Ends
<1>4. CASE Loading
  BY <1>4 DEF Loading, AbortLoading, Ends
<1>5. QED BY <1>1, <1>2, <1>3, <1>4 DEF SessionNext

\* While it loads, what it takes up is what was saved.
LEMMA NextKeepsRestartInv == SessionInv /\ RestartInv /\ [SessionNext]_sessionVars => RestartInv'
<1>1. SUFFICES ASSUME SessionInv, RestartInv, [SessionNext]_sessionVars
               PROVE  RestartInv'
  OBVIOUS
<1>2. saved' # None => \E o : KeepsSave(o, saved', server')
  BY <1>1, SaveIsKept
<1>3. ASSUME phase' = "loading", expected' # None
      PROVE  \E o : Recalls(o, windows', pending', server', expected', session'.tree)
  <2>1. \/ StartLoading
        \/ \E c \in Clients : ManageExisting(c)
        \/ UNCHANGED sessionVars
    BY <1>1, <1>3, PhaseChanges DEF FinishLoading
  <2>2. CASE StartLoading
    <3>1. Whole
      BY <1>3, <2>2 DEF StartLoading
    <3>2. QED BY <1>1, <2>2, <3>1, StartRecalls
  <2>3. ASSUME NEW c \in Clients, ManageExisting(c)
        PROVE  \E o : Recalls(o, windows', pending', server', expected', session'.tree)
    <3>1. phase = "loading" /\ expected # None
      BY <1>3, <2>3 DEF ManageExisting
    <3>2. PICK o : Recalls(o, windows, pending, server, expected, session.tree)
      BY <1>1, <3>1 DEF RestartInv
    <3>3. Recalls(o, windows', pending', server', expected', session'.tree)
      BY <1>1, <2>3, <3>2, ManagingRecalls
    <3>4. QED BY <3>3
  <2>4. CASE UNCHANGED sessionVars
    <3>1. PICK o : Recalls(o, windows, pending, server, expected, session.tree)
      BY <1>1, <1>3, <2>4 DEF RestartInv, sessionVars
    <3>2. /\ windows' = windows /\ pending' = pending /\ server' = server
          /\ expected' = expected /\ session' = session
      BY <2>4 DEF sessionVars
    <3>3. QED BY <3>1, <3>2
  <2>5. QED BY <2>1, <2>2, <2>3, <2>4
<1>4. QED BY <1>2, <1>3 DEF RestartInv

\* When all the windows are back nothing is swept, and the same is saved again.
LEMMA SavesWhatWasExpected ==
  ASSUME SessionInv, RestartInv, phase = "loading", expected # None, FinishLoading
  PROVE  server' = expected
<1>1. Sound(session) /\ Framed /\ PropertiesOK(server)
  BY DEF SessionInv
<1>2. PICK o : Recalls(o, windows, pending, server, expected, session.tree)
  BY DEF RestartInv
<1>3. PICK t, w : t = o.tree /\ w = session.tree
  OBVIOUS
<1>4. pending = {} /\ windows \ pending = windows
  BY DEF FinishLoading
<1>5. /\ Expects(o, windows, expected) /\ Resumes(w, t, windows)
      /\ \A c \in Clients \ windows : server.client[c] = expected.client[c]
  BY <1>2, <1>3, <1>4 DEF Recalls
<1>6. /\ Sound(o) /\ Filled(t) /\ Owners(t) = windows /\ windows \subseteq Clients
      /\ expected = [root |-> RootInfo(t), client |-> expected.client]
      /\ expected.client = [c \in Clients |-> expected.client[c]]
      /\ \A c \in windows : expected.client[c] = ClientInfo(t, c)
  BY <1>3, <1>5 DEF Expects
<1>7. WellFormed(t) /\ WellFormed(w) /\ Resumes(w, t, Owners(t))
  BY <1>1, <1>3, <1>5, <1>6, SoundParts
<1>8. Filled(w)
  BY <1>6, <1>7, ResumedIsFilled
<1>9. PICK s : s = Swept(session)
  OBVIOUS
<1>10. s = session
  <2>1. /\ Sound(s) /\ s.previous = session.previous
        /\ Filled(s.tree)
        /\ Owners(s.tree) = Owners(session.tree)
        /\ Filled(session.tree) => s = session
    BY <1>1, <1>9, AllSwept
  <2>2. QED BY <1>3, <1>8, <2>1
<1>11. PICK p : p = server'
  OBVIOUS
<1>12. p = SavedProperties(session.tree, windows)
  BY <1>9, <1>10, <1>11 DEF FinishLoading
<1>13. SavesAll(p, w, windows)
  BY <1>1, <1>3, <1>12, SavingSaves
<1>14. RootInfo(w) = RootInfo(t)
  BY <1>7, ResumedRoot
<1>15. ASSUME NEW c \in Clients PROVE p.client[c] = expected.client[c]
  <2>1. CASE c \in windows
    <3>1. ClientInfo(w, c) = ClientInfo(t, c)
      BY <1>6, <1>7, <2>1, ResumedClient
    <3>2. p.client[c] = ClientInfo(w, c)
      BY <1>13, <2>1 DEF SavesAll
    <3>3. QED BY <1>6, <2>1, <3>1, <3>2
  <2>2. CASE c \notin windows
    BY <1>5, <1>13, <2>2 DEF SavesAll
  <2>3. QED BY <2>1, <2>2
<1>16. p = [root |-> p.root, client |-> p.client] /\ p.client = [c \in Clients |-> p.client[c]]
  BY <1>13 DEF SavesAll, PropertiesOK
<1>17. PICK here, there : here = p.client /\ there = expected.client
  OBVIOUS
<1>18. here = there
  <2>1. here = [c \in Clients |-> here[c]] /\ there = [c \in Clients |-> there[c]]
    BY <1>6, <1>16, <1>17
  <2>2. \A c \in Clients : here[c] = there[c]
    BY <1>15, <1>17
  <2>3. QED BY <2>1, <2>2
<1>19. p.root = RootInfo(t)
  BY <1>13, <1>14 DEF SavesAll
<1>20. QED BY <1>6, <1>11, <1>16, <1>17, <1>18, <1>19

(***************************************************************************)
(* A window manager that finds a complete save, and the windows it was     *)
(* made of, makes of it what there was: it would save the same again.      *)
(***************************************************************************)
THEOREM RestartRecalls == SessionSpec => RestartKeepsSession
<1>1. SessionInit => RestartInv
  BY DEF SessionInit, RestartInv
<1>2. SessionSpec => []RestartInv
  BY <1>1, SessionInvariant, NextKeepsRestartInv, PTL DEF SessionSpec
<1>3. SessionInv /\ RestartInv /\ [SessionNext]_sessionVars =>
        [phase = "loading" /\ phase' = "running" /\ expected # None
           => server' = expected]_sessionVars
  <2>1. SUFFICES ASSUME SessionInv, RestartInv, [SessionNext]_sessionVars,
                        phase = "loading", phase' = "running", expected # None
                 PROVE  server' = expected
    OBVIOUS
  <2>2. FinishLoading
    BY <2>1, PhaseChanges DEF StartLoading, ManageExisting, sessionVars
  <2>3. QED BY <2>1, <2>2, SavesWhatWasExpected
<1>4. QED BY <1>2, <1>3, SessionInvariant, PTL DEF SessionSpec, RestartKeepsSession

-----------------------------------------------------------------------------
(* A frame made fullscreen and back.                                       *)

\* Outside a view, a column and a frame nothing is different but selected frames.
Apart(w, u, v, col, f) ==
  /\ \A y \in Views \ {v} : u.columns[y] = w.columns[y] /\ u.selected_column[y] = w.selected_column[y]
  /\ \A c \in Columns \ {col} : u.view_of[c] = w.view_of[c] /\ u.frames[c] = w.frames[c]
  /\ \A g \in Frames \ {f} : u.column_of[g] = w.column_of[g]

\* And those are the same but in the columns of C.
SelectsApart(w, u, C) == \A c \in Columns \ C : u.selected_frame[c] = w.selected_frame[c]

\* A column without a selected frame is selected, after no or another such column.
LEMMA NothingSelected ==
  ASSUME NEW w \in Graph, NEW v \in Views, NEW col \in OrNone(Columns),
         SelectedFrameOfView(w, v) = None, SelectedFrameOfColumn(w, col) = None,
         NEW u, u = SelectColumn(w, v, col)
  PROVE  u.selected_frame = w.selected_frame
<1> DEFINE old == SelectedFrameOfView(w, v)
           new == SelectedFrameOfColumn(w, col)
           a == ScheduleDraw(ScheduleDraw(w, old), new)
           b == [a EXCEPT !.selected_column[v] = col]
           c == HandleSelectedFrameChanged(b, old, new)
<1>1. old = None /\ new = None
  OBVIOUS
<1>2. a = w
  BY <1>1 DEF ScheduleDraw
<1>3. u = IF col = w.selected_column[v] THEN w ELSE IF v # w.selected_view THEN b ELSE c
  BY <1>1 DEF SelectColumn
<1>4. b.selected_frame = w.selected_frame /\ b \in Graph
  <2>1. b = [w EXCEPT !.selected_column[v] = col]
    BY <1>2
  <2>2. [w.selected_column EXCEPT ![v] = col] \in [Views -> OrNone(Columns)]
    BY DEF Graph
  <2>3. QED BY <2>1, <2>2 DEF Graph
<1> HIDE DEF b
<1>5. c = [b EXCEPT !.todo_root = TRUE]
  BY <1>1, Zenon DEF HandleSelectedFrameChanged
<1>6. c.selected_frame = b.selected_frame
  BY <1>4, <1>5 DEF Graph
<1>7. QED BY <1>3, <1>4, <1>6

\* ~WColumn step by step.
LEMMA DeleteColumnSteps ==
  ASSUME NEW w, NEW col, NEW v, v = w.view_of[col], NEW u, u = DeleteColumn(w, col),
         NEW x, x = EraseColumn(LeaveColumn(w, col), v, Position(w.columns[v], col), col)
  PROVE  u = IF x.columns[v] = <<>> /\ v # x.selected_view THEN DeleteView(x, v) ELSE x
<1> DEFINE z == w.view_of[col]
           i == Position(w.columns[z], col)
           n == Neighbour(w.columns[z], col)
           l == IF col = w.selected_column[z] THEN SelectColumn(w, z, n) ELSE w
           y == [l EXCEPT !.columns[z] = RemoveAt(@, i), !.view_of[col] = None,
                          !.todo_columns = @ \ {col}, !.todo_views = @ \cup {z}]
<1>1. u = IF y.columns[z] = <<>> /\ z # y.selected_view THEN DeleteView(y, z) ELSE y
  BY ZenonT(60) DEF DeleteColumn, Neighbour
<1>2. l = LeaveColumn(w, col)
  BY DEF LeaveColumn
<1>3. y = EraseColumn(l, z, i, col)
  BY DEF EraseColumn
<1> HIDE DEF l, y
<1>4. z = v
  OBVIOUS
<1> HIDE DEF z
<1>5. i = Position(w.columns[v], col)
  BY <1>4
<1> HIDE DEF i
<1>6. x = y
  BY <1>2, <1>3, <1>4, <1>5
<1>7. QED BY <1>1, <1>4, <1>6

\* ~WColumn of the only column of the view on the screen.
LEMMA LoneColumnDeleted ==
  ASSUME NEW w, WellFormed(w), NEW v \in Views, v = w.selected_view,
         NEW col \in Columns, w.view_of[col] = v, w.columns[v] = <<col>>, FramesIn(w, col) = {},
         NEW u, u = DeleteColumn(w, col)
  PROVE  /\ \A y \in Views \ {v} : u.columns[y] = w.columns[y] /\ u.selected_column[y] = w.selected_column[y]
         /\ u.frames = w.frames /\ u.selected_frame = w.selected_frame
<1>1. PICK i, l, x : /\ i = Position(w.columns[v], col) /\ l = LeaveColumn(w, col)
                     /\ x = EraseColumn(l, v, i, col)
  OBVIOUS
<1>2. w.view_of[col] # None
  BY NoneIsNeither
<1>3. /\ WellFormed(x)
      /\ l \in Graph /\ SameLinks(w, l) /\ SameViews(w, l)
      /\ x.columns = [w.columns EXCEPT ![w.view_of[col]] =
                        RemoveAt(w.columns[w.view_of[col]],
                                 Position(w.columns[w.view_of[col]], col))]
      /\ x.view_of = [w.view_of EXCEPT ![col] = None]
      /\ SameViews(w, x) /\ SameFrames(w, x)
      /\ x.selected_column = l.selected_column /\ x.selected_frame = l.selected_frame
      /\ x.column_activity = w.column_activity
  <2>1. l = LeaveColumn(w, col)
    BY <1>1
  <2>2. x = EraseColumn(l, w.view_of[col], Position(w.columns[w.view_of[col]], col), col)
    BY <1>1
  <2>3. QED BY <1>2, <2>1, <2>2, ErasedColumn
<1>4. w \in Graph /\ WellLinked(w) /\ NothingDangles(w)
      /\ w.columns[v] \in Seq(Columns) /\ Enumerates(w.columns[v], ColumnsOf(w, v))
      /\ w.columns \in [Views -> Seq(Columns)]
  BY SelectionDoesNotDangle DEF WellFormed, WellLinked, Tree, Graph
<1>5. PICK n : n = Neighbour(w.columns[v], col)
  OBVIOUS
<1>6. n = None
  <2>1. ColumnsOf(w, v) = {col}
    BY <1>4 DEF Enumerates, ToSet
  <2>2. Selects(n, ColumnsOf(w, v) \ {col})
    BY <1>4, <1>5, <2>1, NeighbourProperties
  <2>3. QED BY <2>1, <2>2 DEF Selects
<1>7. /\ l.selected_frame = w.selected_frame
      /\ \A y \in Views \ {v} : l.selected_column[y] = w.selected_column[y]
  <2>1. CASE col = w.selected_column[v]
    <3>1. l = SelectColumn(w, v, n)
      BY <1>1, <1>5, <2>1 DEF LeaveColumn
    <3>2. w.selected_frame[col] = None
      BY DEF WellFormed, Selection, Selects
    <3>3. SelectedFrameOfView(w, v) = None
      BY <2>1, <3>2 DEF SelectedFrameOfView, SelectedFrameOfColumn
    <3>4. SelectedFrameOfColumn(w, n) = None /\ n \in OrNone(Columns) /\ n \in OrNone(ColumnsOf(w, v))
      BY <1>6 DEF SelectedFrameOfColumn, OrNone
    <3>5. l.selected_frame = w.selected_frame
      BY <1>4, <3>1, <3>3, <3>4, NothingSelected
    <3>6. /\ l \in Graph
          /\ SameLinks(w, l) /\ SameViews(w, l)
          /\ l.selected_column = [w.selected_column EXCEPT ![v] = n]
          /\ l.selected_frame \in [Columns -> OrNone(Frames)]
          /\ \A c \in Columns :
               l.selected_frame[c] # w.selected_frame[c] =>
                 /\ w.selected_frame[c] \in FramesIn(w, c)
                 /\ l.selected_frame[c] \in FramesIn(w, c)
      BY <1>4, <3>1, <3>4, SelectColumnEffect
    <3>7. w.selected_column \in [Views -> OrNone(Columns)]
      BY <1>4 DEF Graph
    <3>8. QED BY <3>5, <3>6, <3>7
  <2>2. CASE col # w.selected_column[v]
    BY <1>1, <2>2 DEF LeaveColumn
  <2>3. QED BY <2>1, <2>2
<1>8. u = x
  <2>1. u = IF x.columns[v] = <<>> /\ v # x.selected_view THEN DeleteView(x, v) ELSE x
    BY <1>1, DeleteColumnSteps
  <2>2. QED BY <1>3, <2>1 DEF SameViews
<1>9. QED BY <1>3, <1>4, <1>7, <1>8 DEF SameFrames

\* WFrame::remove step by step.
LEMMA RemoveFrameSteps ==
  ASSUME NEW w, NEW f, NEW col, col = w.column_of[f], NEW u, u = RemoveFrame(w, f),
         NEW l, l = LeaveFrame(w, f), NEW d, d = AskForErased(l, f, col),
         NEW x, x = EraseFrame(d, f, col)
  PROVE  u = IF x.frames[col] = <<>> THEN DeleteColumn(x, col) ELSE x
<1> DEFINE c == w.column_of[f]
           succ == Successor(w.column_activity[c], f)
           k == IF w.selected_frame[c] = f THEN SelectFrameInColumn(w, c, succ) ELSE w
           e == ScheduleColumn(ScheduleTask(k, ClientOf(f), "update_server"), c)
           y == [e EXCEPT !.column_of[f] = None,
                          !.frames[c] = Erase(@, f),
                          !.column_activity[c] = Erase(@, f),
                          !.view_activity[ViewOf(f)] = Erase(@, f),
                          !.activity = Erase(@, f)]
<1>1. u = IF y.frames[c] = <<>> THEN DeleteColumn(y, c) ELSE y
  BY DEF RemoveFrame, Successor
<1>2. k = LeaveFrame(w, f)
  BY DEF LeaveFrame
<1>3. e = AskForErased(k, f, c)
  BY DEF AskForErased
<1>4. y = EraseFrame(e, f, c)
  BY DEF EraseFrame
<1> HIDE DEF succ, k, e, y
<1>5. c = col
  OBVIOUS
<1> HIDE DEF c
<1>6. x = y
  BY <1>2, <1>3, <1>4, <1>5
<1>7. QED BY <1>1, <1>5, <1>6

\* WFrame::remove of the only frame of the view on the screen.
LEMMA LoneFrameRemoved ==
  ASSUME NEW w, WellFormed(w), NEW f \in LiveFrames(w), NEW v, v = ViewOf(f), v = w.selected_view,
         NEW col, col = w.column_of[f], w.columns[v] = <<col>>, w.frames[col] = <<f>>,
         NEW u, u = RemoveFrame(w, f)
  PROVE  Apart(w, u, v, col, f) /\ SelectsApart(w, u, {col})
<1>1. PICK l, d, x : /\ l = LeaveFrame(w, f) /\ d = AskForErased(l, f, w.column_of[f])
                     /\ x = EraseFrame(d, f, w.column_of[f])
  OBVIOUS
<1>2. /\ WellFormed(x)
      /\ l \in Graph /\ SameLinks(w, l) /\ SameViews(w, l)
      /\ Schedules(l, d)
      /\ x.column_of = [w.column_of EXCEPT ![f] = None]
      /\ x.frames = [w.frames EXCEPT ![w.column_of[f]] = Erase(w.frames[w.column_of[f]], f)]
      /\ x.column_activity = [w.column_activity EXCEPT ![w.column_of[f]] =
                                Erase(w.column_activity[w.column_of[f]], f)]
      /\ SameViews(w, x) /\ x.marked = w.marked
      /\ x.columns = w.columns /\ x.view_of = w.view_of
      /\ x.selected_column = w.selected_column /\ x.selected_frame = l.selected_frame
  BY <1>1, ErasedFrame
<1>3. /\ w \in Graph /\ WellLinked(w) /\ NothingDangles(w)
      /\ f \in Frames /\ v \in Views /\ col \in Columns /\ w.view_of[col] = v
      /\ f \in FramesIn(w, col)
      /\ w.frames \in [Columns -> Seq(Frames)] /\ w.column_of \in [Frames -> OrNone(Columns)]
      /\ w.column_activity[col] \in Seq(Frames)
      /\ Enumerates(w.column_activity[col], FramesIn(w, col))
  <2>1. w \in Graph /\ WellLinked(w) /\ NothingDangles(w)
    BY SelectionDoesNotDangle DEF WellFormed, WellLinked
  <2>2. f \in Frames /\ v \in Views /\ col \in ColumnsOf(w, v)
    BY FramesHaveViews
  <2>3. QED BY <2>1, <2>2 DEF WellLinked, Histories, Graph, ColumnsOf, FramesIn
<1>4. \A c \in Columns \ {col} : l.selected_frame[c] = w.selected_frame[c]
  <2>1. PICK next : next = Successor(w.column_activity[col], f)
    OBVIOUS
  <2>2. Selects(next, FramesIn(w, col) \ {f})
    BY <1>3, <2>1, SuccessorProperties
  <2>3. next \in OrNone(Frames)
    BY <2>2 DEF Selects, OrNone, FramesIn
  <2>4. CASE w.selected_frame[col] = f
    <3>1. l = SelectFrameInColumn(w, col, next)
      BY <1>1, <2>1, <2>4 DEF LeaveFrame
    <3>2. /\ l \in Graph
          /\ SameLinks(w, l) /\ SameViews(w, l)
          /\ l.selected_column = w.selected_column
          /\ l.selected_frame = [w.selected_frame EXCEPT ![col] = next]
      BY <1>3, <2>3, <3>1, SelectFrameInColumnEffect
    <3>3. w.selected_frame \in [Columns -> OrNone(Frames)]
      BY <1>3 DEF Graph
    <3>4. QED BY <3>2, <3>3
  <2>5. CASE w.selected_frame[col] # f
    BY <1>1, <2>5 DEF LeaveFrame
  <2>6. QED BY <2>4, <2>5
<1>5. /\ \A c \in Columns \ {col} : x.frames[c] = w.frames[c]
      /\ \A g \in Frames \ {f} : x.column_of[g] = w.column_of[g]
  BY <1>2, <1>3
<1>6. u = IF x.frames[col] = <<>> THEN DeleteColumn(x, col) ELSE x
  BY <1>1, RemoveFrameSteps
<1>7. CASE x.frames[col] # <<>>
  <2>1. u = x
    BY <1>6, <1>7
  <2>2. x.columns = w.columns /\ x.view_of = w.view_of /\ x.selected_column = w.selected_column
        /\ x.selected_frame = l.selected_frame
    BY <1>2
  <2>3. QED BY <1>4, <1>5, <2>1, <2>2 DEF Apart, SelectsApart
<1>8. CASE x.frames[col] = <<>>
  <2>1. u = DeleteColumn(x, col)
    BY <1>6, <1>8
  <2>2. FramesIn(x, col) = {}
    BY <1>2, <1>3, <1>8, NoFrames
  <2>3. v = x.selected_view /\ x.view_of[col] = v /\ x.columns[v] = <<col>>
    BY <1>2, <1>3 DEF SameViews
  <2>4. /\ \A y \in Views \ {v} : u.columns[y] = x.columns[y] /\ u.selected_column[y] = x.selected_column[y]
        /\ u.frames = x.frames /\ u.selected_frame = x.selected_frame
    <3>1. WellFormed(x)
      BY <1>2
    <3>2. v \in Views /\ col \in Columns
      BY <1>3
    <3>3. QED BY <2>1, <2>2, <2>3, <3>1, <3>2, LoneColumnDeleted
  <2>5. /\ WellFormed(u)
        /\ SameFrames(x, u)
        /\ u.selected_view = x.selected_view
        /\ u.views = x.views \/ u.views = x.views \ {x.view_of[col]}
        /\ u.view_of = [x.view_of EXCEPT ![col] = None]
        /\ x.view_of[col] \in u.views =>
             ColumnsOf(u, x.view_of[col]) # {} \/ x.view_of[col] = u.selected_view
    <3>1. x.view_of[col] # None
      BY <1>3, <2>3, NoneIsNeither
    <3>2. WellFormed(x) /\ col \in Columns
      BY <1>2, <1>3
    <3>3. QED BY SMTT(60), <2>1, <2>2, <3>1, <3>2, DeleteColumnWellFormed
  <2>6. \A c \in Columns \ {col} : u.view_of[c] = x.view_of[c]
    <3>1. x.view_of \in [Columns -> OrNone(Views)]
      BY <1>2 DEF WellFormed, WellLinked, Graph
    <3>2. QED BY <2>5, <3>1
  <2>7. QED BY <1>2, <1>4, <1>5, <2>4, <2>5, <2>6 DEF Apart, SelectsApart, SameFrames
<1>9. QED BY <1>7, <1>8

\* A column and a frame alone in a view, and selected.
Alone(u, f, v, col) ==
  /\ u.columns[v] = <<col>> /\ u.selected_column[v] = col /\ u.view_of[col] = v
  /\ u.frames[col] = <<f>> /\ u.selected_frame[col] = f /\ u.column_of[f] = col

\* Inserting into an empty list.
LEMMA InsertIntoNothing ==
  ASSUME NEW e
  PROVE  InsertAt(<<>>, 1, e) = <<e>>
<1>1. SubSeq(<<>>, 1, 1 - 1) = <<>> /\ SubSeq(<<>>, 1, Len(<<>>)) = <<>>
  OBVIOUS
<1>2. InsertAt(<<>>, 1, e) = (<<>> \o <<e>>) \o <<>>
  BY <1>1 DEF InsertAt
<1>3. QED BY <1>2

\* enable_fullscreen puts a column and a frame into a view that has none, and
\* leaves the others alone.
LEMMA FullscreenColumnLists ==
  ASSUME NEW w, WellFormed(w), NEW v, NEW f \in Frames \ LiveFrames(w), ViewOf(f) = v,
         v \in w.views, ColumnsOf(w, v) = {}, NEW col \in FreeColumns(w),
         NEW u, u = FullscreenColumn(w, f, col)
  PROVE  /\ Alone(u, f, v, col) /\ Apart(w, u, v, col, f) /\ SelectsApart(w, u, {col})
<1>1. PICK n, i, x : n = Undecorated(w, f) /\ i = 1 /\ x = CreateColumn(n, v, i, col)
  OBVIOUS
<1>2. /\ w \in Graph /\ f \in Frames /\ v \in Views /\ col \in Columns /\ col # None
      /\ WellLinked(w) /\ FramesIn(w, col) = {}
  BY FrameParts, NoneIsNeither, FreeColumnIsEmpty DEF WellFormed, WellLinked, FreeColumns
<1>3. Repaints(w, n)
  BY <1>1, <1>2, UndecoratedEffect
<1>4. WellFormed(n)
  BY <1>3, RepaintsWellFormed
<1>5. /\ n.columns = w.columns /\ n.view_of = w.view_of /\ n.frames = w.frames
      /\ n.column_of = w.column_of /\ n.views = w.views
      /\ n.selected_column = w.selected_column /\ n.selected_frame = w.selected_frame
  BY <1>3 DEF Repaints, SameViews
<1>6. /\ w.columns[v] = <<>> /\ w.frames[col] = <<>>
      /\ w.selected_column[v] = None /\ w.selected_frame[col] = None
  <2>1. Selects(w.selected_column[v], ColumnsOf(w, v)) /\ Selects(w.selected_frame[col], FramesIn(w, col))
    BY <1>2 DEF WellFormed, Selection
  <2>2. QED BY <1>2, <2>1, NoColumns, NoFrames DEF Selects
<1>7. /\ WellFormed(n) /\ v \in n.views /\ i \in 1..(Len(n.columns[v]) + 1) /\ col \in FreeColumns(n)
      /\ x = CreateColumn(n, v, i, col)
  BY <1>1, <1>4, <1>5, <1>6 DEF FreeColumns
<1>8. InsertsColumn(n, x, v, i, col)
  BY <1>7, CreateColumnLists
<1>9. WellFormed(x) /\ SameFrames(n, x) /\ x.view_of[col] = v
  <2>1. /\ WellFormed(x)
        /\ SameViews(n, x) /\ SameFrames(n, x)
        /\ \A c \in Columns : x.view_of[c] = IF c = col THEN v ELSE n.view_of[c]
    BY <1>7, CreateColumnWellFormed
  <2>2. QED BY <1>2, <2>1
<1>10. /\ x.columns = [w.columns EXCEPT ![v] = <<col>>]
       /\ x.view_of = [w.view_of EXCEPT ![col] = v]
       /\ x.frames = w.frames /\ x.column_of = w.column_of
       /\ x.selected_column = [w.selected_column EXCEPT ![v] = col]
       /\ x.selected_frame = w.selected_frame
  BY <1>1, <1>5, <1>6, <1>8, InsertIntoNothing DEF InsertsColumn
<1>11. u = AddFrame(x, f, col, i)
  <2>1. u = AddFrameAfterSelected(x, f, col)
    BY <1>1 DEF FullscreenColumn
  <2>2. After(x.frames[col], x.selected_frame[col]) = 1
    BY <1>6, <1>10 DEF After
  <2>3. QED BY <1>1, <2>1, <2>2 DEF AddFrameAfterSelected
<1>12. f \in Frames \ LiveFrames(x) /\ x.view_of[col] = ViewOf(f) /\ i \in 1..(Len(x.frames[col]) + 1)
  BY <1>1, <1>6, <1>9, <1>10 DEF LiveFrames
<1>13. InsertsFrame(x, u, f, col, i)
  BY <1>2, <1>9, <1>11, <1>12, AddFrameLists
<1>14. /\ u.columns = x.columns /\ u.view_of = x.view_of
       /\ u.column_of = [w.column_of EXCEPT ![f] = col]
       /\ u.frames = [w.frames EXCEPT ![col] = <<f>>]
       /\ u.selected_column = x.selected_column
       /\ u.selected_frame = [w.selected_frame EXCEPT ![col] = f]
  BY <1>1, <1>6, <1>10, <1>13, InsertIntoNothing DEF InsertsFrame
<1>15. /\ w.columns \in [Views -> Seq(Columns)] /\ w.view_of \in [Columns -> OrNone(Views)]
       /\ w.column_of \in [Frames -> OrNone(Columns)] /\ w.frames \in [Columns -> Seq(Frames)]
       /\ w.selected_column \in [Views -> OrNone(Columns)]
       /\ w.selected_frame \in [Columns -> OrNone(Frames)]
  BY <1>2 DEF Graph
<1>16. Alone(u, f, v, col)
  BY <1>2, <1>10, <1>14, <1>15 DEF Alone
<1>17. Apart(w, u, v, col, f)
  BY <1>10, <1>14, <1>15 DEF Apart
<1>18. SelectsApart(w, u, {col})
  BY <1>14, <1>15 DEF SelectsApart
<1>19. QED BY <1>16, <1>17, <1>18

\* A tree with a fullscreen view on the screen that was made from w.
Opened(w, u, f, v, col, q) ==
  /\ WellFormed(u) /\ u.views = w.views \cup {v} /\ u.selected_view = v
  /\ u.bar_visible = w.bar_visible /\ u.decorated = w.decorated
  /\ Alone(u, f, v, col) /\ Apart(w, u, v, col, f) /\ SelectsApart(w, u, {col, q})

\* A tree with a fullscreen view that is not on the screen yet.
HasEntered(t, y, f, v, col) ==
  /\ WellFormed(y) /\ y.views = t.views \cup {v} /\ y.selected_view = t.selected_view
  /\ y.bar_visible = t.bar_visible /\ y.decorated = t.decorated
  /\ Alone(y, f, v, col) /\ Apart(t, y, v, col, f) /\ SelectsApart(t, y, {col})
  /\ col \in FreeColumns(t)

\* The tree when the frame of enable_fullscreen is in its view, before that is shown.
LEMMA FullscreenReady ==
  ASSUME NEW t, WellFormed(t), Tidy(t), NEW w, NEW f, NEW v \in Views \ t.views, NEW col,
         NEW n, Entered(t, w, f, v, col, n),
         NEW y, y = n.tree
  PROVE  HasEntered(t, y, f, v, col)
<1>1. /\ WellFormed(w) /\ v \in w.views /\ SameLinks(t, w)
      /\ w.views = t.views \cup {v} /\ w.selected_view = t.selected_view
      /\ w.bar_visible = t.bar_visible /\ w.decorated = t.decorated
      /\ w.selected_column = t.selected_column /\ w.selected_frame = t.selected_frame
      /\ f \in Frames \ LiveFrames(w) /\ ViewOf(f) = v /\ ColumnsOf(w, v) = {}
      /\ col \in FreeColumns(w) /\ y = FullscreenColumn(w, f, col)
  BY DEF Entered
<1>2. /\ WellFormed(y) /\ SameViews(w, y) /\ y.bar_visible = w.bar_visible
      /\ y.decorated = w.decorated \ {f}
  <2>1. /\ WellFormed(y) /\ SameViews(w, y) /\ y.bar_visible = w.bar_visible
        /\ y.decorated = w.decorated \ {f}
        /\ y.column_of = [w.column_of EXCEPT ![f] = col]
        /\ \A c \in Columns : y.view_of[c] = IF c = col THEN ViewOf(f) ELSE w.view_of[c]
        /\ NoneEmptyBut(w, {}, {ViewOf(f)}) => NoneEmptyBut(y, {}, {})
    BY <1>1, FullscreenColumnEffect
  <2>2. QED BY <2>1
<1>3. Alone(y, f, v, col) /\ Apart(w, y, v, col, f) /\ SelectsApart(w, y, {col})
  BY <1>1, FullscreenColumnLists
<1>4. Apart(t, y, v, col, f) /\ SelectsApart(t, y, {col})
  BY <1>1, <1>3 DEF Apart, SelectsApart, SameLinks
<1>5. y.decorated = t.decorated
  <2>1. f \notin t.decorated
    BY <1>1 DEF Tidy, LiveFrames, SameLinks
  <2>2. QED BY <1>1, <1>2, <2>1
<1>6. col \in FreeColumns(t)
  BY <1>1 DEF FreeColumns, SameLinks
<1>7. QED BY <1>1, <1>2, <1>3, <1>4, <1>5, <1>6 DEF SameViews, HasEntered

\* The frame that has the focus, its view and its column.
LEMMA SelectedIsWhere ==
  ASSUME NEW w, WellFormed(w), NEW f, f = SelectedFrame(w), f # None,
         NEW v, v = w.selected_view, NEW q, q = w.column_of[f]
  PROVE  /\ v \in w.views /\ v \in Views /\ f \in LiveFrames(w) /\ f \in Frames /\ ViewOf(f) = v
         /\ q \in Columns /\ q \in ColumnsOf(w, v) /\ w.view_of[q] = v /\ w.columns[v] # <<>>
         /\ w.selected_column[v] = q /\ w.selected_frame[q] = f
<1>1. w.selected_view \in OrNone(w.views) /\ w.views \subseteq Views /\ WellLinked(w)
  BY DEF WellFormed, Selection, WellLinked, Graph
<1>2. v \in OrNone(Views) /\ f = SelectedFrameOfView(w, v)
  BY <1>1 DEF SelectedFrame, OrNone
<1>3. /\ v \in Views
      /\ w.selected_column[v] \in ColumnsOf(w, v)
      /\ SelectedFrameOfView(w, v) \in LiveFrames(w)
      /\ SelectedFrameOfView(w, v) \in FramesIn(w, w.selected_column[v])
      /\ ViewOf(SelectedFrameOfView(w, v)) = v
  BY <1>2, SelectedFrameIsLive
<1>4. w.selected_column[v] = q /\ f \in Frames /\ f \in LiveFrames(w) /\ ViewOf(f) = v
  BY <1>2, <1>3 DEF FramesIn
<1>5. q \in ColumnsOf(w, v) /\ q \in Columns /\ w.view_of[q] = v
  BY <1>3, <1>4 DEF ColumnsOf
<1>6. w.selected_frame[q] = f
  BY <1>2, <1>4 DEF SelectedFrameOfView, SelectedFrameOfColumn
<1>7. w.columns[v] # <<>>
  BY <1>1, <1>3, <1>5, NoColumns
<1>8. v \in w.views
  BY <1>1, <1>3, NoneIsNeither DEF OrNone
<1>9. QED BY <1>3, <1>4, <1>5, <1>6, <1>7, <1>8

\* enable_fullscreen adds a view with one column and one frame; the column that
\* loses the focus alone may select another of its frames.
LEMMA FullscreenOpened ==
  ASSUME NEW s, Sound(s), NEW c \in Clients, FreeNames(s.tree) # {}, FreeColumns(s.tree) # {},
         NEW t, t = s.tree, NEW f0, f0 = SelectedFrame(t), f0 # None,
         NEW v, v = FreeName(t), NEW f, f = <<c, v>>, NEW q, q = t.column_of[f0],
         NEW u, u = CreateFullscreen(s, c)
  PROVE  Sound(u) /\ \E col \in FreeColumns(t) : Opened(t, u.tree, f, v, col, q)
<1>1. WellFormed(t) /\ Tidy(t) /\ v \in Views \ t.views
  BY SoundParts, FreeNameIsFree
<1>2. PICK w, col, n : Entered(t, w, f, v, col, n) /\ u = SelectViewAndTell(n, v)
  BY FullscreenEntered
<1>3. PICK v0, y, z : v0 = t.selected_view /\ y = n.tree /\ z = u.tree
  OBVIOUS
<1>4. /\ WellFormed(y) /\ y.views = t.views \cup {v} /\ y.selected_view = t.selected_view
      /\ y.bar_visible = t.bar_visible /\ y.decorated = t.decorated
      /\ Alone(y, f, v, col) /\ Apart(t, y, v, col, f) /\ SelectsApart(t, y, {col})
      /\ col \in FreeColumns(t)
  <2>1. /\ WellFormed(t) /\ Tidy(t) /\ v \in Views \ t.views
        /\ Entered(t, w, f, v, col, n) /\ y = n.tree
    BY <1>1, <1>2, <1>3
  <2>2. HasEntered(t, y, f, v, col)
    BY <2>1, FullscreenReady
  <2>3. QED BY <2>2 DEF HasEntered
<1>5. /\ v0 \in t.views /\ v0 \in Views /\ f0 \in LiveFrames(t) /\ f0 \in Frames /\ ViewOf(f0) = v0
      /\ q \in Columns /\ q \in ColumnsOf(t, v0) /\ t.view_of[q] = v0 /\ t.columns[v0] # <<>>
      /\ t.selected_column[v0] = q /\ t.selected_frame[q] = f0
  BY <1>1, <1>3, SelectedIsWhere
<1>6. col \in Columns /\ q # col /\ v0 # v /\ f0 # f /\ v0 # None /\ q # None
  <2>1. ViewOf(f) = v
    BY <1>1, PairIsFrame
  <2>2. t.view_of[col] = None /\ v0 # None /\ q # None
    BY <1>4, <1>5, NoneIsNeither DEF FreeColumns
  <2>3. QED BY <1>1, <1>4, <1>5, <2>1, <2>2 DEF FreeColumns
<1>7. SelectedFrame(y) = f0 /\ y.column_of[f0] = q /\ y.columns[v0] # <<>>
  <2>1. y.selected_column[v0] = q /\ y.columns[v0] # <<>> /\ y.column_of[f0] = q
    BY <1>4, <1>5, <1>6 DEF Apart
  <2>2. y.selected_frame[q] = f0
    BY <1>4, <1>5, <1>6 DEF SelectsApart
  <2>3. QED BY <1>3, <1>4, <1>6, <2>1, <2>2 DEF SelectedFrame, SelectedFrameOfView, SelectedFrameOfColumn
<1>8. z = SelectView(y, v) /\ v \in y.views
  BY <1>2, <1>3, <1>4 DEF SelectViewAndTell, Tell
<1>9. WellFormed(z) /\ SameLinks(y, z) /\ z.selected_view = v
  BY <1>4, <1>8, SelectViewWellFormed
<1>10. z.views = t.views \cup {v} /\ z.bar_visible = t.bar_visible /\ z.decorated = t.decorated
  <2>1. /\ KeepsLook(y, z)
        /\ z.views = IF /\ y.selected_view \notin {None, v}
                        /\ y.columns[y.selected_view] = <<>>
                     THEN y.views \ {y.selected_view} ELSE y.views
    BY ZenonT(60), <1>4, <1>8, SelectViewLook
  <2>2. z.views = y.views
    BY <1>3, <1>4, <1>7, <2>1
  <2>3. QED BY <1>4, <2>1, <2>2 DEF KeepsLook
<1>11. /\ z.selected_column = y.selected_column
       /\ \A d \in Columns : z.selected_frame[d] # y.selected_frame[d] => d = q
  <2>1. /\ z.selected_column = y.selected_column
        /\ z.selected_frame \in [Columns -> OrNone(Frames)]
        /\ \A d \in Columns :
             z.selected_frame[d] # y.selected_frame[d] =>
               SelectedFrame(y) # None /\ d = y.column_of[SelectedFrame(y)]
    BY <1>4, <1>8, SelectViewSelections
  <2>2. QED BY <1>7, <2>1
<1>12. Alone(z, f, v, col)
  BY <1>4, <1>6, <1>9, <1>11 DEF Alone, SameLinks
<1>13. Apart(t, z, v, col, f)
  BY <1>4, <1>9, <1>11 DEF Apart, SameLinks
<1>14. SelectsApart(t, z, {col, q})
  BY <1>4, <1>11 DEF SelectsApart
<1>15. Opened(t, z, f, v, col, q)
  BY <1>9, <1>10, <1>12, <1>13, <1>14 DEF Opened
<1>16. Sound(u)
  BY FullscreenCreated
<1>17. QED BY <1>3, <1>4, <1>15, <1>16

\* A list of one enumerates one.
LEMMA EnumeratesOne ==
  ASSUME NEW e, NEW S, Enumerates(<<e>>, S)
  PROVE  S = {e}
BY DEF Enumerates, ToSet

\* What ~WFrame leaves of the look and of its column.
LeavesLook(w, u, f, v, col) ==
  /\ u.decorated = w.decorated \ {f}
  /\ u.bar_visible = w.bar_visible \ (w.views \ u.views)
  /\ u.views = w.views \/ u.views = w.views \ {v}
  /\ \A c \in Columns : c # col => u.view_of[c] = w.view_of[c]
  /\ u.view_of[col] # None => FramesIn(u, col) # {}

\* It takes the attributes, and its column and view only if they are empty.
LEMMA DeletedLeavesLook ==
  ASSUME NEW w, WellFormed(w), NEW f \in LiveFrames(w), NEW u, u = DeleteFrame(w, f)
  PROVE  LeavesLook(w, u, f, ViewOf(f), w.column_of[f])
<1>1. /\ u.shaded = w.shaded \ {f} /\ u.decorated = w.decorated \ {f}
      /\ u.bar_visible = w.bar_visible \ (w.views \ u.views)
      /\ u.views = w.views \/ u.views = w.views \ {ViewOf(f)}
      /\ \A c \in Columns : c # w.column_of[f] => u.view_of[c] = w.view_of[c]
      /\ u.view_of[w.column_of[f]] # None => FramesIn(u, w.column_of[f]) # {}
  BY DeleteFrameLook
<1>2. QED BY <1>1 DEF LeavesLook

\* A tree from which the only frame of the view on the screen is gone.
Closes(u, x, f, v, col) ==
  /\ WellFormed(x) /\ x.views = u.views /\ x.selected_view = v
  /\ x.bar_visible = u.bar_visible /\ x.decorated = u.decorated \ {f}
  /\ x.column_of[f] = None /\ x.view_of[col] = None /\ ColumnsOf(x, v) = {}
  /\ Apart(u, x, v, col, f) /\ SelectsApart(u, x, {col})

\* ~WFrame of that frame: its column goes with it, and the view stays for now.
LEMMA LoneFrameDeleted ==
  ASSUME NEW u, WellFormed(u), NEW f \in LiveFrames(u), NEW v, v = ViewOf(f), v = u.selected_view,
         NEW col, col = u.column_of[f], u.columns[v] = <<col>>, u.frames[col] = <<f>>,
         NEW x, x = DeleteFrame(u, f)
  PROVE  Closes(u, x, f, v, col)
<1>1. PICK r : r = RemoveFrame(u, f)
  OBVIOUS
<1>2. Apart(u, r, v, col, f) /\ SelectsApart(u, r, {col})
  BY <1>1, LoneFrameRemoved
<1>3. WellFormed(r)
  BY <1>1, RemoveFrameWellFormed
<1>4. x = [r EXCEPT !.shaded = @ \ {f}, !.decorated = @ \ {f}, !.marked = @ \ {f}]
  BY <1>1 DEF DeleteFrame
<1>5. /\ x.columns = r.columns /\ x.view_of = r.view_of /\ x.frames = r.frames
      /\ x.column_of = r.column_of
      /\ x.selected_column = r.selected_column /\ x.selected_frame = r.selected_frame
  BY <1>3, <1>4 DEF WellFormed, WellLinked, Graph
<1>6. Apart(u, x, v, col, f) /\ SelectsApart(u, x, {col})
  BY <1>2, <1>5 DEF Apart, SelectsApart
<1>7. /\ WellFormed(x)
      /\ x.selected_view = u.selected_view
      /\ x.column_of = [u.column_of EXCEPT ![f] = None]
      /\ x.marked = u.marked \ {f}
  BY DeleteFrameWellFormed
<1>8. /\ x.decorated = u.decorated \ {f}
      /\ x.bar_visible = u.bar_visible \ (u.views \ x.views)
      /\ x.views = u.views \/ x.views = u.views \ {v}
      /\ \A c \in Columns : c # col => x.view_of[c] = u.view_of[c]
      /\ x.view_of[col] # None => FramesIn(x, col) # {}
  <2>1. LeavesLook(u, x, f, v, col)
    BY DeletedLeavesLook
  <2>2. QED BY <2>1 DEF LeavesLook
<1>9. /\ f \in Frames /\ v \in Views /\ v # None /\ col \in Columns
      /\ u.column_of \in [Frames -> OrNone(Columns)]
      /\ FramesIn(u, col) = {f} /\ ColumnsOf(u, v) = {col}
  <2>1. f \in Frames /\ v \in Views /\ col \in ColumnsOf(u, v)
    BY FramesHaveViews
  <2>2. Enumerates(u.columns[v], ColumnsOf(u, v)) /\ Enumerates(u.frames[col], FramesIn(u, col))
    BY <2>1 DEF WellFormed, WellLinked, Tree, ColumnsOf
  <2>3. FramesIn(u, col) = {f} /\ ColumnsOf(u, v) = {col}
    BY <2>2, EnumeratesOne
  <2>4. u.column_of \in [Frames -> OrNone(Columns)]
    BY DEF WellFormed, WellLinked, Graph
  <2>5. QED BY <2>1, <2>3, <2>4, NoneIsNeither DEF ColumnsOf
<1>10. x.views = u.views
  <2>1. v \in x.views
    BY <1>7, <1>9 DEF WellFormed, Selection, OrNone
  <2>2. QED BY <1>8, <2>1
<1>11. x.bar_visible = u.bar_visible
  BY <1>8, <1>10
<1>12. x.column_of[f] = None
  BY <1>7, <1>9
<1>13. x.view_of[col] = None
  <2>1. FramesIn(x, col) = {}
    BY <1>7, <1>9, <1>12, NoneIsNeither DEF FramesIn
  <2>2. QED BY <1>8, <2>1
<1>14. ColumnsOf(x, v) = {}
  BY <1>8, <1>9, <1>13 DEF ColumnsOf
<1>15. QED BY <1>6, <1>7, <1>8, <1>10, <1>11, <1>12, <1>13, <1>14 DEF Closes

\* WFrame::select of a frame of the column that its view has selected.
LEMMA FrameSelectedHere ==
  ASSUME NEW w, WellFormed(w), NEW f \in LiveFrames(w), NEW col, col = w.column_of[f],
         w.selected_column[ViewOf(f)] = col, NEW u, u = SelectFrame(w, f)
  PROVE  /\ WellFormed(u) /\ SameLinks(w, u) /\ SameViews(w, u) /\ SameLook(w, u)
         /\ u.selected_column = w.selected_column
         /\ u.selected_frame = [w.selected_frame EXCEPT ![col] = f]
<1>1. PICK x : x = SelectFrameInColumn(w, col, f)
  OBVIOUS
<1>2. col \in Columns /\ f \in OrNone(Frames) /\ WellLinked(w) /\ NothingDangles(w)
  BY FramesHaveViews, SelectionDoesNotDangle DEF OrNone, ColumnsOf, WellFormed
<1>3. /\ x \in Graph
      /\ SameLinks(w, x) /\ SameViews(w, x)
      /\ x.selected_column = w.selected_column
      /\ x.selected_frame = [w.selected_frame EXCEPT ![col] = f]
  BY <1>1, <1>2, SelectFrameInColumnEffect
<1>4. u = SelectColumn(x, ViewOf(f), col)
  BY <1>1 DEF SelectFrame
<1>5. u = x
  BY <1>3, <1>4 DEF SelectColumn
<1>6. WellFormed(u)
  BY SelectFrameWellFormed
<1>7. SameLook(w, u)
  BY SelectFrameLook
<1>8. QED BY <1>3, <1>5, <1>6, <1>7

\* Two trees that differ at most in an unused view, column and frame are arranged alike.
LEMMA ApartIsSame ==
  ASSUME NEW w, WellFormed(w), NEW z, WellFormed(z), NEW v \in Views, NEW col \in Columns, NEW f,
         ColumnsOf(w, v) = {}, ColumnsOf(z, v) = {}, w.view_of[col] = None, z.view_of[col] = None,
         Apart(w, z, v, col, f)
  PROVE  /\ z.columns = w.columns /\ z.selected_column = w.selected_column
         /\ z.frames = w.frames /\ z.selected_frame[col] = w.selected_frame[col]
<1>1. /\ WellLinked(w) /\ WellLinked(z) /\ col \in FreeColumns(w) /\ col \in FreeColumns(z)
      /\ w \in Graph /\ z \in Graph
  BY DEF WellFormed, WellLinked, FreeColumns
<1>2. FramesIn(w, col) = {} /\ FramesIn(z, col) = {}
  BY <1>1, FreeColumnIsEmpty
<1>3. w.columns[v] = z.columns[v]
  BY <1>1, NoColumns
<1>4. w.frames[col] = z.frames[col]
  BY <1>2, NoFrames
<1>5. w.selected_column[v] = z.selected_column[v] /\ w.selected_frame[col] = z.selected_frame[col]
  <2>1. /\ Selects(w.selected_column[v], ColumnsOf(w, v)) /\ Selects(z.selected_column[v], ColumnsOf(z, v))
        /\ Selects(w.selected_frame[col], FramesIn(w, col)) /\ Selects(z.selected_frame[col], FramesIn(z, col))
    BY DEF WellFormed, Selection
  <2>2. QED BY <1>2, <2>1 DEF Selects
<1>6. /\ \A y \in Views : z.columns[y] = w.columns[y] /\ z.selected_column[y] = w.selected_column[y]
      /\ \A c \in Columns : z.frames[c] = w.frames[c]
  BY <1>3, <1>4, <1>5 DEF Apart
<1>7. /\ w.columns \in [Views -> Seq(Columns)] /\ z.columns \in [Views -> Seq(Columns)]
      /\ w.selected_column \in [Views -> OrNone(Columns)]
      /\ z.selected_column \in [Views -> OrNone(Columns)]
      /\ w.frames \in [Columns -> Seq(Frames)] /\ z.frames \in [Columns -> Seq(Frames)]
  BY <1>1 DEF Graph
<1>8. z.columns = w.columns /\ z.selected_column = w.selected_column /\ z.frames = w.frames
  BY <1>6, <1>7
<1>9. QED BY <1>5, <1>8

\* A tree whose new view is empty again, and that has its old frame selected in
\* the view that is not shown yet.
Closing(w, y, v, col, f, f0) ==
  /\ WellFormed(y) /\ y.views = w.views \cup {v} /\ y.selected_view = v
  /\ y.bar_visible = w.bar_visible /\ y.decorated = w.decorated
  /\ y.view_of[col] = None /\ ColumnsOf(y, v) = {}
  /\ Apart(w, y, v, col, f)
  /\ \A c \in Columns \ {col} : y.selected_frame[c] = w.selected_frame[c]

\* ~WFrame of the fullscreen frame and WFrame::select of the original one.
LEMMA FullscreenClosing ==
  ASSUME NEW w, WellFormed(w), Tidy(w), NEW f0, f0 = SelectedFrame(w), f0 # None,
         NEW q, q = w.column_of[f0], NEW v \in Views \ w.views, NEW f \in Frames \ LiveFrames(w),
         ViewOf(f) = v, NEW col \in FreeColumns(w), NEW u, Opened(w, u, f, v, col, q),
         NEW x, x = DeleteFrame(u, f), NEW y, y = SelectFrame(x, f0)
  PROVE  Closing(w, y, v, col, f, f0)
<1>1. PICK v0 : v0 = w.selected_view
  OBVIOUS
<1>2. /\ v0 \in w.views /\ v0 \in Views /\ f0 \in LiveFrames(w) /\ f0 \in Frames /\ ViewOf(f0) = v0
      /\ q \in Columns /\ q \in ColumnsOf(w, v0) /\ w.view_of[q] = v0 /\ w.columns[v0] # <<>>
      /\ w.selected_column[v0] = q /\ w.selected_frame[q] = f0
  BY <1>1, SelectedIsWhere
<1>3. /\ col \in Columns /\ col # None /\ q # None /\ q # col /\ v0 # v /\ f0 # f
  BY <1>2, NoneIsNeither DEF FreeColumns
<1>4. /\ WellFormed(u) /\ u.views = w.views \cup {v} /\ u.selected_view = v
      /\ u.bar_visible = w.bar_visible /\ u.decorated = w.decorated
      /\ Alone(u, f, v, col) /\ Apart(w, u, v, col, f) /\ SelectsApart(w, u, {col, q})
  BY DEF Opened
<1>5. f \in LiveFrames(u) /\ u.columns[v] = <<col>> /\ u.frames[col] = <<f>> /\ col = u.column_of[f]
  BY <1>3, <1>4 DEF Alone, LiveFrames
<1>6. Closes(u, x, f, v, col)
  BY <1>4, <1>5, LoneFrameDeleted
<1>7. /\ WellFormed(x) /\ x.views = u.views /\ x.selected_view = v
      /\ x.bar_visible = u.bar_visible /\ x.decorated = u.decorated \ {f}
      /\ x.view_of[col] = None /\ ColumnsOf(x, v) = {}
      /\ Apart(u, x, v, col, f) /\ SelectsApart(u, x, {col})
  BY <1>6 DEF Closes
<1>8. Apart(w, x, v, col, f) /\ \A c \in Columns \ {col, q} : x.selected_frame[c] = w.selected_frame[c]
  BY <1>4, <1>7 DEF Apart, SelectsApart
<1>9. q = x.column_of[f0] /\ f0 \in LiveFrames(x) /\ x.selected_column[ViewOf(f0)] = q
  BY <1>2, <1>3, <1>8 DEF Apart, LiveFrames
<1>10. /\ WellFormed(y) /\ SameLinks(x, y) /\ SameViews(x, y) /\ SameLook(x, y)
       /\ y.selected_column = x.selected_column
       /\ y.selected_frame = [x.selected_frame EXCEPT ![q] = f0]
  BY <1>7, <1>9, FrameSelectedHere
<1>11. \A c \in Columns \ {col} : y.selected_frame[c] = w.selected_frame[c]
  <2>1. x.selected_frame \in [Columns -> OrNone(Frames)]
    BY <1>7 DEF WellFormed, WellLinked, Graph
  <2>2. QED BY <1>2, <1>8, <1>10, <2>1
<1>12. Apart(w, y, v, col, f) /\ ColumnsOf(y, v) = {} /\ y.view_of[col] = None
  BY <1>7, <1>8, <1>10 DEF Apart, SameLinks, ColumnsOf
<1>13. x.decorated = w.decorated
  BY <1>4, <1>7 DEF Tidy
<1>14. QED BY <1>4, <1>7, <1>10, <1>11, <1>12, <1>13 DEF Closing, SameViews, SameLook

\* WM::select_view of the view with the original frame deletes the other one, and
\* everything is where it was.
LEMMA FullscreenClosed ==
  ASSUME NEW w, WellFormed(w), Tidy(w), NEW f0, f0 = SelectedFrame(w), f0 # None,
         NEW v \in Views \ w.views, NEW f, NEW col \in FreeColumns(w),
         NEW y, Closing(w, y, v, col, f, f0), NEW z, z = SelectView(y, w.selected_view)
  PROVE  Arrangement(z) = Arrangement(w)
<1>1. PICK v0, q : v0 = w.selected_view /\ q = w.column_of[f0]
  OBVIOUS
<1>2. v0 \in w.views /\ v0 \in Views /\ v0 # v /\ v # None
  <2>1. /\ v0 \in w.views /\ v0 \in Views /\ f0 \in LiveFrames(w) /\ f0 \in Frames /\ ViewOf(f0) = v0
        /\ q \in Columns /\ q \in ColumnsOf(w, v0) /\ w.view_of[q] = v0 /\ w.columns[v0] # <<>>
        /\ w.selected_column[v0] = q /\ w.selected_frame[q] = f0
    BY <1>1, SelectedIsWhere
  <2>2. QED BY <2>1, NoneIsNeither
<1>3. /\ WellFormed(y) /\ y.views = w.views \cup {v} /\ y.selected_view = v
      /\ y.bar_visible = w.bar_visible /\ y.decorated = w.decorated
      /\ y.view_of[col] = None /\ ColumnsOf(y, v) = {}
      /\ Apart(w, y, v, col, f)
      /\ \A c \in Columns \ {col} : y.selected_frame[c] = w.selected_frame[c]
  BY DEF Closing
<1>4. v0 \in y.views /\ z = SelectView(y, v0)
  BY <1>1, <1>2, <1>3
<1>5. WellFormed(z) /\ SameLinks(y, z) /\ z.selected_view = v0
  BY <1>3, <1>4, SelectViewWellFormed
<1>6. y.columns[v] = <<>> /\ SelectedFrame(y) = None
  <2>1. y.columns[v] = <<>>
    BY <1>3, NoColumns DEF WellFormed
  <2>2. y.selected_column[v] = None
    BY <1>3 DEF WellFormed, Selection, Selects
  <2>3. QED BY <1>3, <2>1, <2>2 DEF SelectedFrame, SelectedFrameOfView, SelectedFrameOfColumn
<1>7. z.views = w.views /\ z.bar_visible = w.bar_visible /\ z.decorated = w.decorated
  <2>1. /\ KeepsLook(y, z)
        /\ z.views = IF /\ y.selected_view \notin {None, v0}
                        /\ y.columns[y.selected_view] = <<>>
                     THEN y.views \ {y.selected_view} ELSE y.views
    BY <1>3, <1>4, SelectViewLook
  <2>2. z.views = w.views
    BY <1>2, <1>3, <1>6, <2>1
  <2>3. v \notin w.bar_visible
    BY DEF Tidy
  <2>4. QED BY <1>3, <2>1, <2>2, <2>3 DEF KeepsLook
<1>8. /\ z.selected_column = y.selected_column
      /\ z.selected_frame \in [Columns -> OrNone(Frames)]
      /\ \A c \in Columns : z.selected_frame[c] = y.selected_frame[c]
  <2>1. /\ z.selected_column = y.selected_column
        /\ z.selected_frame \in [Columns -> OrNone(Frames)]
        /\ \A c \in Columns :
             z.selected_frame[c] # y.selected_frame[c] =>
               SelectedFrame(y) # None /\ c = y.column_of[SelectedFrame(y)]
    BY <1>3, <1>4, SelectViewSelections
  <2>2. QED BY <1>6, <2>1
<1>9. /\ Apart(w, z, v, col, f) /\ z.view_of[col] = None /\ ColumnsOf(z, v) = {}
  BY <1>3, <1>5, <1>8 DEF Apart, SameLinks, ColumnsOf
<1>10. ColumnsOf(w, v) = {} /\ w.view_of[col] = None /\ col \in Columns
  BY DEF WellFormed, WellLinked, Tree, FreeColumns
<1>11. /\ z.columns = w.columns /\ z.selected_column = w.selected_column
       /\ z.frames = w.frames /\ z.selected_frame[col] = w.selected_frame[col]
  BY <1>5, <1>9, <1>10, ApartIsSame
<1>12. z.selected_frame = w.selected_frame
  <2>1. w.selected_frame \in [Columns -> OrNone(Frames)]
    BY DEF WellFormed, WellLinked, Graph
  <2>2. \A c \in Columns : z.selected_frame[c] = w.selected_frame[c]
    BY <1>3, <1>8, <1>11
  <2>3. QED BY <1>8, <2>1, <2>2
<1>13. QED BY <1>1, <1>5, <1>7, <1>11, <1>12 DEF Arrangement

(***************************************************************************)
(* toggle_fullscreen twice (wm/extra/fullscreen.cpp): the view that is     *)
(* made goes, and all the rest is as it was, also the frame that the       *)
(* column left behind selects, which losing the focus may have changed.    *)
(***************************************************************************)
THEOREM TogglingTwiceReturns == SessionSpec => []ToggleTwiceIsNothing
<1>1. SessionInv => ToggleTwiceIsNothing
  <2>1. SUFFICES ASSUME SessionInv, Roomy(session.tree),
                        NEW f0, f0 = SelectedFrame(session.tree), f0 # None,
                        FullscreenFrames(session.tree, ClientOf(f0)) = {},
                        NEW s \in EnableFullscreen(session, ClientOf(f0))
                 PROVE  /\ s.tree.selected_view # session.tree.selected_view
                        /\ Arrangement(DisableFullscreen(s, SelectedFrame(s.tree)).tree)
                             = Arrangement(session.tree)
    BY DEF ToggleTwiceIsNothing
  <2>2. PICK t, c, v0 : t = session.tree /\ c = ClientOf(f0) /\ v0 = t.selected_view
    OBVIOUS
  <2>3. PICK v, f, q : v = FreeName(t) /\ f = <<c, v>> /\ q = t.column_of[f0]
    OBVIOUS
  <2>4. Sound(session) /\ WellFormed(t) /\ Tidy(t)
    BY <2>1, <2>2, SoundParts DEF SessionInv
  <2>5. FreeNames(session.tree) # {} /\ s = CreateFullscreen(session, c)
    BY <2>1, <2>2 DEF EnableFullscreen
  <2>6. /\ v0 \in t.views /\ v0 \in Views /\ f0 \in LiveFrames(t) /\ f0 \in Frames /\ ViewOf(f0) = v0
        /\ q \in Columns /\ q \in ColumnsOf(t, v0) /\ t.view_of[q] = v0 /\ t.columns[v0] # <<>>
        /\ t.selected_column[v0] = q /\ t.selected_frame[q] = f0
    BY <2>1, <2>2, <2>3, <2>4, SelectedIsWhere
  <2>7. c \in Clients /\ f0 = <<c, v0>>
    BY <2>2, <2>4, <2>6, FramesHaveViews
  <2>8. FreeColumns(session.tree) # {}
    BY <2>1, <2>2, <2>4, RoomyIsTwo
  <2>9. v \in Views \ t.views /\ Original[v] = v0
    BY <2>2, <2>3, <2>4, <2>5, FreeNameIsFree
  <2>10. f \in Frames /\ ViewOf(f) = v /\ ClientOf(f) = c /\ f \notin LiveFrames(t)
    <3>1. f \in Frames /\ ViewOf(f) = v /\ ClientOf(f) = c
      BY <2>3, <2>7, <2>9, PairIsFrame
    <3>2. QED BY <2>4, <2>9, <3>1, FramesHaveViews
  <2>11. PICK u : u = s.tree
    OBVIOUS
  <2>12. PICK col \in FreeColumns(t) : Opened(t, u, f, v, col, q)
    BY <2>1, <2>2, <2>3, <2>4, <2>5, <2>7, <2>8, <2>11, FullscreenOpened
  <2>13. u.selected_view = v /\ Alone(u, f, v, col) /\ Apart(t, u, v, col, f)
    BY <2>12 DEF Opened
  <2>14. SelectedFrame(u) = f
    <3>1. v # None /\ col # None
      BY <2>9, <2>12, NoneIsNeither DEF FreeColumns
    <3>2. QED BY <2>13, <3>1 DEF Alone, SelectedFrame, SelectedFrameOfView, SelectedFrameOfColumn
  <2>15. OriginalFrame(u, f) = f0 /\ f0 # None
    <3>1. u.column_of[f0] = q /\ q # None /\ v0 # None
      BY <2>3, <2>6, <2>9, <2>10, <2>13, NoneIsNeither DEF Apart
    <3>2. QED BY <2>1, <2>7, <2>9, <2>10, <3>1 DEF OriginalFrame, HasFrame
  <2>16. PICK x, y, z : /\ x = DeleteFrame(u, f) /\ y = SelectFrame(x, f0)
                        /\ z = SelectView(y, v0)
    OBVIOUS
  <2>17. DisableFullscreen(s, f).tree = z
    BY <2>6, <2>11, <2>15, <2>16 DEF DisableFullscreen, ShowFullscreen, DeleteFrameAndTell,
                                  SelectViewAndTell, Tell
  <2>18. Closing(t, y, v, col, f, f0)
    BY <2>1, <2>2, <2>3, <2>4, <2>9, <2>10, <2>12, <2>16, FullscreenClosing
  <2>19. Arrangement(z) = Arrangement(t)
    BY <2>1, <2>2, <2>4, <2>9, <2>12, <2>16, <2>18, FullscreenClosed
  <2>20. QED BY <2>2, <2>6, <2>9, <2>11, <2>13, <2>14, <2>17, <2>19
<1>2. QED BY <1>1, SessionInvariant, PTL
=============================================================================
