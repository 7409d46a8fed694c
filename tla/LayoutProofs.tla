---------------------------- MODULE LayoutProofs ----------------------------
(***************************************************************************)
(* Every operation of module Layout keeps the object graph well formed:    *)
(* the tree consistent, the activity lists complete and the selection      *)
(* total.  For each operation there is a lemma that says, next to that,    *)
(* what the operation changes, as far as its callers rely on it.  First    *)
(* come the lemmas on the intrusive lists: what erasing, inserting and     *)
(* splicing make of a list that holds no element twice.                    *)
(***************************************************************************)
EXTENDS Layout, SeqLemmas, WellFoundedInduction

-----------------------------------------------------------------------------
(* Lists without repetition.                                               *)

\* Position finds an element that is in the list.
LEMMA PositionProperties ==
  ASSUME NEW S, NEW s \in Seq(S), NEW e \in ToSet(s)
  PROVE  /\ Position(s, e) \in 1..Len(s)
         /\ s[Position(s, e)] = e
BY LenProperties DEF ToSet, Position

\* Erasing an element of a list without repetition leaves the others.
LEMMA EraseProperties ==
  ASSUME NEW S, NEW s \in Seq(S), IsInjective(s), NEW e \in ToSet(s)
  PROVE  /\ Erase(s, e) \in Seq(S)
         /\ Len(Erase(s, e)) = Len(s) - 1
         /\ ToSet(Erase(s, e)) = ToSet(s) \ {e}
         /\ IsInjective(Erase(s, e))
<1>1. Position(s, e) \in 1..Len(s) /\ s[Position(s, e)] = e
  BY PositionProperties
<1>2. QED BY <1>1, RemoveAtLeavesOthers DEF Erase

-----------------------------------------------------------------------------
(* Lists that enumerate a set.                                             *)

\* The two ends of a list and its emptiness, in terms of the set it enumerates.
LEMMA EnumerationProperties ==
  ASSUME NEW T, NEW s \in Seq(T), NEW S, Enumerates(s, S)
  PROVE  /\ S \subseteq T
         /\ s = <<>> <=> S = {}
         /\ S # {} => Head(s) \in S
         /\ \A e \in S : Position(s, e) \in 1..Len(s) /\ s[Position(s, e)] = e
         /\ \A i \in 1..Len(s) : s[i] \in S
         /\ Len(s) \in Nat
<1>1. \A e \in S : Position(s, e) \in 1..Len(s) /\ s[Position(s, e)] = e
  BY PositionProperties DEF Enumerates
<1>2. DOMAIN s = 1..Len(s) /\ Len(s) \in Nat
  BY LenProperties
<1>3. \A i \in 1..Len(s) : s[i] \in S
  BY <1>2 DEF Enumerates, ToSet
<1>4. QED BY <1>1, <1>2, <1>3, MembersInType DEF Enumerates

\* Distinct positions hold distinct elements.
LEMMA EnumerationIsInjective ==
  ASSUME NEW T, NEW s \in Seq(T), NEW S, Enumerates(s, S),
         NEW i \in 1..Len(s), NEW j \in 1..Len(s), i # j
  PROVE  s[i] # s[j]
BY LenProperties DEF Enumerates, IsInjective

\* The empty list.
LEMMA EmptyEnumeration == Enumerates(<<>>, {})
BY DEF Enumerates, ToSet, IsInjective

\* Erasing an element.
LEMMA EraseEnumeration ==
  ASSUME NEW T, NEW s \in Seq(T), NEW S, Enumerates(s, S), NEW e \in S
  PROVE  Erase(s, e) \in Seq(T) /\ Enumerates(Erase(s, e), S \ {e})
BY EraseProperties DEF Enumerates

\* Removing the element at an index.
LEMMA RemoveAtEnumeration ==
  ASSUME NEW T, NEW s \in Seq(T), NEW S, Enumerates(s, S), NEW e \in S
  PROVE  /\ RemoveAt(s, Position(s, e)) \in Seq(T)
         /\ Enumerates(RemoveAt(s, Position(s, e)), S \ {e})
BY EraseEnumeration DEF Erase

\* Inserting a new element.
LEMMA InsertEnumeration ==
  ASSUME NEW T, NEW s \in Seq(T), NEW S, Enumerates(s, S), NEW e \in T, e \notin S,
         NEW i \in 1..(Len(s) + 1)
  PROVE  InsertAt(s, i, e) \in Seq(T) /\ Enumerates(InsertAt(s, i, e), S \cup {e})
BY InsertAtProperties DEF Enumerates

\* Pushing a new element to the front.
LEMMA PushEnumeration ==
  ASSUME NEW T, NEW s \in Seq(T), NEW S, Enumerates(s, S), NEW e \in T, e \notin S
  PROVE  <<e>> \o s \in Seq(T) /\ Enumerates(<<e>> \o s, S \cup {e})
<1> DEFINE t == <<e>> \o s
<1>1. <<e>> \in Seq(T) /\ Len(<<e>>) = 1 /\ <<e>>[1] = e
  OBVIOUS
<1>2. t = <<e>> \o s
  OBVIOUS
<1> HIDE DEF t
<1>3. Len(s) \in Nat /\ DOMAIN s = 1..Len(s)
  BY LenProperties
<1>4. /\ t \in Seq(T)
      /\ Len(t) = Len(<<e>>) + Len(s)
      /\ \A j \in 1..(Len(<<e>>) + Len(s)) :
           t[j] = IF j <= Len(<<e>>) THEN <<e>>[j] ELSE s[j - Len(<<e>>)]
  BY <1>1, <1>2, ConcatAs
<1>5. /\ Len(t) = Len(s) + 1
      /\ \A j \in 1..(Len(s) + 1) : t[j] = IF j = 1 THEN e ELSE s[j - 1]
  BY <1>1, <1>3, <1>4
<1>6. DOMAIN t = 1..(Len(s) + 1)
  BY <1>4, <1>5, LenProperties
<1>7. ToSet(t) = ToSet(s) \cup {e}
  <2>1. ASSUME NEW j \in 1..(Len(s) + 1) PROVE t[j] \in ToSet(s) \cup {e}
    <3>1. CASE j = 1 BY <3>1, <1>5
    <3>2. CASE j # 1
      <4>1. j - 1 \in 1..Len(s) /\ t[j] = s[j - 1] BY <3>2, <1>3, <1>5
      <4>2. QED BY <4>1, <1>3 DEF ToSet
    <3>3. QED BY <3>1, <3>2
  <2>2. e \in ToSet(t)
    BY <1>3, <1>5, <1>6 DEF ToSet
  <2>3. ASSUME NEW x \in ToSet(s) PROVE x \in ToSet(t)
    <3>1. PICK j \in 1..Len(s) : s[j] = x
      BY <1>3 DEF ToSet
    <3>2. j + 1 \in 1..(Len(s) + 1) /\ t[j + 1] = x
      BY <3>1, <1>3, <1>5
    <3>3. QED BY <3>2, <1>6 DEF ToSet
  <2>4. QED BY <2>1, <2>2, <2>3, <1>6 DEF ToSet
<1>8. IsInjective(t)
  <2>1. \A j, k \in 1..Len(s) : s[j] = s[k] => j = k
    BY <1>3 DEF IsInjective, Enumerates
  <2>2. \A j \in 1..Len(s) : s[j] # e
    BY <1>3 DEF ToSet, Enumerates
  <2>3. QED BY <1>3, <1>5, <1>6, <2>1, <2>2 DEF IsInjective
<1>9. QED BY <1>4, <1>7, <1>8 DEF t, Enumerates

\* Splicing an element to the front changes the order only.
LEMMA ToFrontEnumeration ==
  ASSUME NEW T, NEW s \in Seq(T), NEW S, Enumerates(s, S), NEW e \in S
  PROVE  ToFront(s, e) \in Seq(T) /\ Enumerates(ToFront(s, e), S)
<1>1. Erase(s, e) \in Seq(T) /\ Enumerates(Erase(s, e), S \ {e})
  BY EraseEnumeration
<1>2. e \in T
  BY EnumerationProperties
<1>3. /\ <<e>> \o Erase(s, e) \in Seq(T)
      /\ Enumerates(<<e>> \o Erase(s, e), (S \ {e}) \cup {e})
  BY <1>1, <1>2, PushEnumeration
<1>4. (S \ {e}) \cup {e} = S
  OBVIOUS
<1>5. QED BY <1>3, <1>4 DEF ToFront

-----------------------------------------------------------------------------
(* Order.                                                                  *)

\* Position finds the one place an element has.
LEMMA PositionIs ==
  ASSUME NEW T, NEW s \in Seq(T), NEW S, Enumerates(s, S), NEW i \in 1..Len(s)
  PROVE  Position(s, s[i]) = i
<1>1. s[i] \in S
  BY EnumerationProperties
<1>2. Position(s, s[i]) \in 1..Len(s) /\ s[Position(s, s[i])] = s[i]
  BY <1>1, EnumerationProperties
<1>3. QED BY <1>2, EnumerationIsInjective

\* Pushing an element to the front leaves the others behind it in their order.
LEMMA PushedPosition ==
  ASSUME NEW T, NEW s \in Seq(T), NEW S, Enumerates(s, S), NEW e \in T, e \notin S
  PROVE  /\ Position(<<e>> \o s, e) = 1
         /\ \A d \in S : Position(<<e>> \o s, d) = Position(s, d) + 1
<1> DEFINE t == <<e>> \o s
<1>1. <<e>> \in Seq(T) /\ Len(<<e>>) = 1 /\ <<e>>[1] = e
  OBVIOUS
<1>2. t = <<e>> \o s /\ t \in Seq(T) /\ Enumerates(t, S \cup {e})
  BY PushEnumeration
<1> HIDE DEF t
<1>3. Len(s) \in Nat
  BY LenProperties
<1>4. /\ Len(t) = Len(<<e>>) + Len(s)
      /\ \A j \in 1..(Len(<<e>>) + Len(s)) :
           t[j] = IF j <= Len(<<e>>) THEN <<e>>[j] ELSE s[j - Len(<<e>>)]
  BY <1>1, <1>2, ConcatAs
<1>5. /\ Len(t) = Len(s) + 1
      /\ \A j \in 1..(Len(s) + 1) : t[j] = IF j = 1 THEN e ELSE s[j - 1]
  BY <1>1, <1>3, <1>4
<1>6. Position(t, e) = 1
  <2>1. 1 \in 1..Len(t) /\ t[1] = e
    BY <1>3, <1>5
  <2>2. QED BY <2>1, <1>2, PositionIs
<1>7. ASSUME NEW d \in S PROVE Position(t, d) = Position(s, d) + 1
  <2>1. Position(s, d) \in 1..Len(s) /\ s[Position(s, d)] = d
    BY EnumerationProperties
  <2>2. Position(s, d) + 1 \in 1..Len(t) /\ t[Position(s, d) + 1] = d
    BY <2>1, <1>3, <1>5
  <2>3. Position(t, t[Position(s, d) + 1]) = Position(s, d) + 1
    BY <2>2, <1>2, PositionIs
  <2>4. QED BY <2>2, <2>3
<1>8. QED BY <1>6, <1>7 DEF t

\* Erasing an element leaves the others in their order.
LEMMA ErasedPosition ==
  ASSUME NEW T, NEW s \in Seq(T), NEW S, Enumerates(s, S), NEW e \in S
  PROVE  \A d \in S \ {e} :
           Position(Erase(s, e), d) = IF Position(s, d) < Position(s, e) THEN Position(s, d)
                                      ELSE Position(s, d) - 1
<1> DEFINE i == Position(s, e)
           t == Erase(s, e)
<1>1. i \in 1..Len(s) /\ s[i] = e /\ Len(s) \in Nat
  BY EnumerationProperties
<1>2. t = RemoveAt(s, i)
  BY DEF Erase
<1>3. t \in Seq(T) /\ Enumerates(t, S \ {e})
  BY EraseEnumeration
<1> HIDE DEF i, t
<1>4. /\ Len(t) = Len(s) - 1
      /\ \A j \in 1..(Len(s) - 1) : t[j] = IF j < i THEN s[j] ELSE s[j + 1]
  BY ZenonT(60), <1>1, <1>2, RemoveAtProperties
<1>5. ASSUME NEW d \in S \ {e}
      PROVE  Position(t, d) = IF Position(s, d) < i THEN Position(s, d) ELSE Position(s, d) - 1
  <2> DEFINE k == Position(s, d)
             j == IF k < i THEN k ELSE k - 1
  <2>1. k \in 1..Len(s) /\ s[k] = d
    BY EnumerationProperties
  <2>2. k # i
    BY <2>1, <1>1
  <2> HIDE DEF k
  <2>3. j \in 1..Len(t) /\ t[j] = d
    BY <2>1, <2>2, <1>1, <1>4
  <2>4. Position(t, t[j]) = j
    <3> HIDE DEF j
    <3> QED BY <2>3, <1>3, PositionIs
  <2>5. QED BY <2>3, <2>4 DEF k
<1>6. QED BY <1>5 DEF i, t

\* So elements that are left come one before the other if they did.
LEMMA ErasedOrder ==
  ASSUME NEW T, NEW s \in Seq(T), NEW S, Enumerates(s, S), NEW e \in S,
         NEW a \in S \ {e}, NEW b \in S \ {e}
  PROVE  Position(Erase(s, e), a) < Position(Erase(s, e), b) <=> Position(s, a) < Position(s, b)
<1> DEFINE p(d) == Position(s, d)
           q(d) == Position(Erase(s, e), d)
<1>1. \A d \in S : p(d) \in 1..Len(s) /\ s[p(d)] = d
  BY EnumerationProperties
<1>2. Len(s) \in Nat
  BY LenProperties
<1>3. p(a) # p(e) /\ p(b) # p(e)
  BY <1>1
<1>4. /\ q(a) = IF p(a) < p(e) THEN p(a) ELSE p(a) - 1
      /\ q(b) = IF p(b) < p(e) THEN p(b) ELSE p(b) - 1
  BY ErasedPosition
<1>5. p(a) \in 1..Len(s) /\ p(b) \in 1..Len(s) /\ p(e) \in 1..Len(s)
  BY <1>1
<1> HIDE DEF p, q
<1>6. q(a) < q(b) <=> p(a) < p(b)
  BY <1>2, <1>3, <1>4, <1>5
<1>7. QED BY <1>6 DEF p, q

\* The empty list is in any order.
LEMMA EmptyInOrder == \A t : InOrderOf(<<>>, t)
BY DEF InOrderOf, ToSet

\* A new element in front of a list, and of a list in its order, is so in both.
LEMMA PushInOrder ==
  ASSUME NEW T, NEW s \in Seq(T), NEW S, Enumerates(s, S),
         NEW t \in Seq(T), NEW U, Enumerates(t, U), S \subseteq U,
         InOrderOf(s, t), NEW e \in T, e \notin U
  PROVE  InOrderOf(s, <<e>> \o t) /\ InOrderOf(<<e>> \o s, <<e>> \o t)
<1> DEFINE p == <<e>> \o s
           q == <<e>> \o t
<1>1. ToSet(s) = S /\ ToSet(p) = S \cup {e}
  BY PushEnumeration DEF Enumerates
<1>2. \A d \in S : Position(s, d) \in 1..Len(s) /\ Len(s) \in Nat
  BY EnumerationProperties
<1>3. \A d \in U : Position(t, d) \in 1..Len(t) /\ Len(t) \in Nat
  BY EnumerationProperties
<1>4. Position(p, e) = 1 /\ \A d \in S : Position(p, d) = Position(s, d) + 1
  BY PushedPosition
<1>5. Position(q, e) = 1 /\ \A d \in U : Position(q, d) = Position(t, d) + 1
  BY PushedPosition
<1>6. \A c, d \in S : Position(s, c) < Position(s, d) => Position(t, c) < Position(t, d)
  BY <1>1 DEF InOrderOf
<1> HIDE DEF p, q
<1>7. \A c, d \in S : Position(s, c) < Position(s, d) => Position(q, c) < Position(q, d)
  BY <1>3, <1>5, <1>6
<1>8. ASSUME NEW c \in S \cup {e}, NEW d \in S \cup {e}, Position(p, c) < Position(p, d)
      PROVE  Position(q, c) < Position(q, d)
  <2>1. d # e
    BY <1>2, <1>4, <1>8
  <2>2. d \in S /\ Position(q, d) > 1
    BY <1>3, <1>5, <2>1
  <2>3. CASE c = e
    BY <1>5, <2>2, <2>3
  <2>4. CASE c # e
    BY <1>2, <1>4, <1>7, <1>8, <2>2, <2>4
  <2>5. QED BY <2>3, <2>4
<1>9. QED BY <1>1, <1>7, <1>8 DEF InOrderOf, p, q

\* An element can be erased from a list, and from one in its order.
LEMMA EraseInOrder ==
  ASSUME NEW T, NEW s \in Seq(T), NEW S, Enumerates(s, S),
         NEW t \in Seq(T), NEW U, Enumerates(t, U), S \subseteq U,
         InOrderOf(s, t), NEW e \in U
  PROVE  /\ e \in S => InOrderOf(Erase(s, e), Erase(t, e))
         /\ e \notin S => InOrderOf(s, Erase(t, e))
<1>1. ToSet(s) = S
  BY DEF Enumerates
<1>2. \A c, d \in S : Position(s, c) < Position(s, d) => Position(t, c) < Position(t, d)
  BY <1>1 DEF InOrderOf
<1>3. \A c, d \in U \ {e} : Position(t, c) < Position(t, d)
                              => Position(Erase(t, e), c) < Position(Erase(t, e), d)
  BY ErasedOrder
<1>4. ASSUME e \in S PROVE InOrderOf(Erase(s, e), Erase(t, e))
  <2>1. ToSet(Erase(s, e)) = S \ {e}
    BY <1>4, EraseEnumeration DEF Enumerates
  <2>2. \A c, d \in S \ {e} : Position(Erase(s, e), c) < Position(Erase(s, e), d)
                                => Position(s, c) < Position(s, d)
    BY <1>4, ErasedOrder
  <2>3. QED BY <1>2, <1>3, <2>1, <2>2 DEF InOrderOf
<1>5. ASSUME e \notin S PROVE InOrderOf(s, Erase(t, e))
  BY <1>1, <1>2, <1>3, <1>5 DEF InOrderOf
<1>6. QED BY <1>4, <1>5

\* An element can be moved to the front of a list, and of one in its order.
LEMMA ToFrontInOrder ==
  ASSUME NEW T, NEW s \in Seq(T), NEW S, Enumerates(s, S),
         NEW t \in Seq(T), NEW U, Enumerates(t, U), S \subseteq U,
         InOrderOf(s, t), NEW e \in U
  PROVE  /\ e \in S => InOrderOf(ToFront(s, e), ToFront(t, e))
         /\ e \notin S => InOrderOf(s, ToFront(t, e))
<1>1. Erase(t, e) \in Seq(T) /\ Enumerates(Erase(t, e), U \ {e})
  BY EraseEnumeration
<1>2. e \in T
  BY EnumerationProperties
<1>3. ASSUME e \in S PROVE InOrderOf(ToFront(s, e), ToFront(t, e))
  <2>1. Erase(s, e) \in Seq(T) /\ Enumerates(Erase(s, e), S \ {e})
    BY <1>3, EraseEnumeration
  <2>2. InOrderOf(Erase(s, e), Erase(t, e))
    BY <1>3, EraseInOrder
  <2>3. S \ {e} \subseteq U \ {e} /\ e \notin U \ {e}
    OBVIOUS
  <2>4. InOrderOf(<<e>> \o Erase(s, e), <<e>> \o Erase(t, e))
    BY <1>1, <1>2, <2>1, <2>2, <2>3, PushInOrder
  <2>5. QED BY <2>4 DEF ToFront
<1>4. ASSUME e \notin S PROVE InOrderOf(s, ToFront(t, e))
  <2>1. InOrderOf(s, Erase(t, e))
    BY <1>4, EraseInOrder
  <2>2. S \subseteq U \ {e} /\ e \notin U \ {e}
    BY <1>4
  <2>3. InOrderOf(s, <<e>> \o Erase(t, e))
    BY <1>1, <1>2, <2>1, <2>2, PushInOrder
  <2>4. QED BY <2>3 DEF ToFront
<1>5. QED BY <1>3, <1>4

-----------------------------------------------------------------------------
(* What is said of the graph.                                              *)

WellLinked(w) == w \in Graph /\ Tree(w) /\ Histories(w)

WellFormed(w) == WellLinked(w) /\ Selection(w)

\* No selection pointer dangles, though one may be null too early.
NothingDangles(w) ==
  /\ \A v \in Views : w.selected_column[v] \in OrNone(ColumnsOf(w, v))
  /\ \A col \in Columns : w.selected_frame[col] \in OrNone(FramesIn(w, col))
  /\ w.selected_view \in OrNone(w.views)

SameLinks(w, u) ==
  /\ u.columns = w.columns /\ u.view_of = w.view_of
  /\ u.frames = w.frames /\ u.column_of = w.column_of
  /\ u.activity = w.activity
  /\ u.view_activity = w.view_activity /\ u.column_activity = w.column_activity
  /\ u.marked = w.marked

SameViews(w, u) == u.views = w.views /\ u.selected_view = w.selected_view

\* No column is without frames but those of `C', and no view without columns but
\* those of `V' and the one on the screen.  Handlers make a column before they put
\* a frame into it, and a view before they show it.
NoneEmptyBut(w, C, V) ==
  /\ \A col \in Columns \ C : w.view_of[col] # None => FramesIn(w, col) # {}
  /\ \A v \in w.views \ V : ColumnsOf(w, v) # {} \/ v = w.selected_view

\* What an operation that only schedules work, or changes how frames look, does.
Schedules(w, u) ==
  /\ u \in Graph
  /\ SameLinks(w, u) /\ SameViews(w, u)
  /\ u.selected_column = w.selected_column
  /\ u.selected_frame = w.selected_frame

-----------------------------------------------------------------------------
(* Identities.                                                             *)

\* A null pointer is no object.
LEMMA NoneIsNeither ==
  /\ None \notin Clients
  /\ None \notin Views
  /\ None \notin Columns
  /\ None \notin Frames
BY NoneIsNoObject DEF Frames

\* A frame is its client and its view.
LEMMA FrameParts ==
  ASSUME NEW f \in Frames
  PROVE  ClientOf(f) \in Clients /\ ViewOf(f) \in Views /\ f = <<ClientOf(f), ViewOf(f)>>
BY DEF Frames, ClientOf, ViewOf

\* A client and a view name a frame.
LEMMA PairIsFrame ==
  ASSUME NEW c \in Clients, NEW v \in Views
  PROVE  <<c, v>> \in Frames /\ ClientOf(<<c, v>>) = c /\ ViewOf(<<c, v>>) = v
BY DEF Frames, ClientOf, ViewOf

-----------------------------------------------------------------------------
(* Scheduling.                                                             *)

\* Scheduling is transitive: handlers schedule one thing after the other.
LEMMA SchedulesTwice ==
  ASSUME NEW w, NEW u, NEW x, Schedules(w, u), Schedules(u, x)
  PROVE  Schedules(w, x)
BY DEF Schedules, SameLinks, SameViews

\* Doing nothing is a way of scheduling.
LEMMA SchedulesNothing == \A w \in Graph : Schedules(w, w)
BY DEF Schedules, SameLinks, SameViews

\* WClient::schedule_task.
LEMMA ScheduleTaskEffect ==
  ASSUME NEW w \in Graph, NEW c \in Clients, NEW task \in Tasks
  PROVE  Schedules(w, ScheduleTask(w, c, task))
<1> DEFINE y == [w.todo_clients EXCEPT ![c] = @ \cup {task}]
           u == [w EXCEPT !.todo_clients = y]
<1>1. y \in [Clients -> SUBSET Tasks]
  BY DEF Graph
<1>2. u = ScheduleTask(w, c, task)
  BY DEF ScheduleTask
<1> HIDE DEF y
<1>3. u \in Graph
  BY <1>1, Zenon DEF Graph
<1>4. SameLinks(w, u) /\ SameViews(w, u) /\ u.selected_column = w.selected_column
      /\ u.selected_frame = w.selected_frame
  BY DEF Graph, SameLinks, SameViews
<1>5. QED BY <1>2, <1>3, <1>4 DEF Schedules

\* A request to draw a frame, if there is one (WFrame::schedule_draw),
LEMMA ScheduleDrawEffect ==
  ASSUME NEW w \in Graph, NEW f \in OrNone(Frames)
  PROVE  Schedules(w, ScheduleDraw(w, f))
BY ScheduleTaskEffect, SchedulesNothing, FrameParts DEF ScheduleDraw, OrNone, Tasks

\* to give a frame's client the input focus (WClient::schedule_set_input_focus),
LEMMA ScheduleInputFocusEffect ==
  ASSUME NEW w \in Graph, NEW f \in Frames
  PROVE  Schedules(w, ScheduleInputFocus(w, f))
BY ScheduleTaskEffect, FrameParts DEF ScheduleInputFocus, Tasks

\* to lay out a column (WColumn::schedule_update_positions),
LEMMA ScheduleColumnEffect ==
  ASSUME NEW w \in Graph, NEW col \in Columns
  PROVE  Schedules(w, ScheduleColumn(w, col))
<1> DEFINE u == ScheduleColumn(w, col)
<1>1. w.todo_columns \cup {col} \in SUBSET Columns
  BY DEF Graph
<1>2. u \in Graph
  BY <1>1, Zenon DEF Graph, ScheduleColumn
<1>3. SameLinks(w, u) /\ SameViews(w, u) /\ u.selected_column = w.selected_column
      /\ u.selected_frame = w.selected_frame
  BY DEF Graph, SameLinks, SameViews, ScheduleColumn
<1>4. QED BY <1>2, <1>3 DEF Schedules

\* a view (WView::schedule_update_positions),
LEMMA ScheduleViewEffect ==
  ASSUME NEW w \in Graph, NEW v \in Views
  PROVE  Schedules(w, ScheduleView(w, v))
<1> DEFINE u == ScheduleView(w, v)
<1>1. w.todo_views \cup {v} \in SUBSET Views
  BY DEF Graph
<1>2. u \in Graph
  BY <1>1, Zenon DEF Graph, ScheduleView
<1>3. SameLinks(w, u) /\ SameViews(w, u) /\ u.selected_column = w.selected_column
      /\ u.selected_frame = w.selected_frame
  BY DEF Graph, SameLinks, SameViews, ScheduleView
<1>4. QED BY <1>2, <1>3 DEF Schedules

\* or to update every client of a view: nothing that is linked changes.
LEMMA ScheduleFramesOfViewEffect ==
  ASSUME NEW w \in Graph, NEW v \in Views
  PROVE  Schedules(w, ScheduleFramesOfView(w, v))
<1> DEFINE y == [c \in Clients |-> IF HasFrame(w, c, v) THEN w.todo_clients[c] \cup {"update_server"}
                                   ELSE w.todo_clients[c]]
           u == [w EXCEPT !.todo_clients = y]
<1>1. y \in [Clients -> SUBSET Tasks]
  BY DEF Graph, Tasks
<1>2. u = ScheduleFramesOfView(w, v)
  BY DEF ScheduleFramesOfView
<1> HIDE DEF y
<1>3. u \in Graph
  BY <1>1, Zenon DEF Graph
<1>4. SameLinks(w, u) /\ SameViews(w, u) /\ u.selected_column = w.selected_column
      /\ u.selected_frame = w.selected_frame
  BY DEF Graph, SameLinks, SameViews
<1>5. QED BY <1>2, <1>3, <1>4 DEF Schedules

-----------------------------------------------------------------------------
(* Links.                                                                  *)

\* Sets that are read off the back pointers depend on nothing else.
LEMMA SameSets ==
  ASSUME NEW w, NEW u, u.view_of = w.view_of, u.column_of = w.column_of
  PROVE  /\ \A v : ColumnsOf(u, v) = ColumnsOf(w, v)
         /\ \A col : FramesIn(u, col) = FramesIn(w, col)
         /\ LiveFrames(u) = LiveFrames(w)
         /\ \A v : FramesOfView(u, v) = FramesOfView(w, v)
         /\ FreeColumns(u) = FreeColumns(w)
         /\ \A c : FramesOf(u, c) = FramesOf(w, c)
BY DEF ColumnsOf, FramesIn, LiveFrames, FramesOfView, FreeColumns, FramesOf

\* Whatever leaves the links alone leaves them consistent, unless it forgets a
\* view that has columns.
LEMMA SameLinksWellLinked ==
  ASSUME NEW w, WellLinked(w), NEW u \in Graph, SameLinks(w, u),
         \A v \in Views \ u.views : ColumnsOf(w, v) = {}
  PROVE  WellLinked(u)
<1>1. /\ \A v : ColumnsOf(u, v) = ColumnsOf(w, v)
      /\ \A col : FramesIn(u, col) = FramesIn(w, col)
      /\ LiveFrames(u) = LiveFrames(w)
      /\ \A v : FramesOfView(u, v) = FramesOfView(w, v)
  BY SameSets DEF SameLinks
<1>2. Tree(u)
  BY <1>1 DEF Tree, SameLinks, WellLinked
<1>3. Histories(u)
  BY <1>1 DEF Histories, SameLinks, WellLinked
<1>4. QED BY <1>2, <1>3 DEF WellLinked

\* Scheduling keeps everything of interest.
LEMMA SchedulesWellFormed ==
  ASSUME NEW w, NEW u, Schedules(w, u)
  PROVE  /\ WellLinked(w) => WellLinked(u)
         /\ WellFormed(w) => WellFormed(u)
         /\ NothingDangles(w) => NothingDangles(u)
<1>1. /\ \A v : ColumnsOf(u, v) = ColumnsOf(w, v)
      /\ \A col : FramesIn(u, col) = FramesIn(w, col)
  BY SameSets DEF Schedules, SameLinks
<1>2. ASSUME WellLinked(w) PROVE WellLinked(u)
  BY <1>2, SameLinksWellLinked DEF Schedules, SameViews, WellLinked, Tree
<1>3. Selection(w) => Selection(u)
  BY <1>1 DEF Selection, Schedules, SameViews
<1>4. NothingDangles(w) => NothingDangles(u)
  BY <1>1 DEF NothingDangles, Schedules, SameViews
<1>5. QED BY <1>2, <1>3, <1>4 DEF WellFormed

\* A total selection does not dangle.
LEMMA SelectionDoesNotDangle ==
  ASSUME NEW w, Selection(w)
  PROVE  NothingDangles(w)
BY DEF Selection, NothingDangles, Selects, OrNone

\* The most recently active frame of a column is one of its frames.
LEMMA MostRecentIsInColumn ==
  ASSUME NEW w, WellLinked(w), NEW col \in Columns, FramesIn(w, col) # {}
  PROVE  Head(w.column_activity[col]) \in FramesIn(w, col)
<1>1. w.column_activity[col] \in Seq(Frames)
  BY DEF WellLinked, Graph
<1>2. Enumerates(w.column_activity[col], FramesIn(w, col))
  BY DEF WellLinked, Histories
<1>3. QED BY <1>1, <1>2, EnumerationProperties

\* The graph of a WM without clients.
LEMMA EmptyGraphWellFormed == WellFormed(EmptyGraph) /\ EmptyGraph.marked = {}
<1> DEFINE w == EmptyGraph
<1>1. w \in Graph
  <2>1. <<>> \in Seq(Frames) /\ <<>> \in Seq(Columns)
    OBVIOUS
  <2>2. QED BY <2>1 DEF EmptyGraph, Graph, OrNone
<1>2. /\ w.marked = {} /\ w.selected_view = None /\ w.activity = <<>>
      /\ \A v \in Views : /\ w.columns[v] = <<>> /\ w.selected_column[v] = None
                          /\ w.view_activity[v] = <<>>
      /\ \A col \in Columns : /\ w.view_of[col] = None /\ w.frames[col] = <<>>
                              /\ w.selected_frame[col] = None
                              /\ w.column_activity[col] = <<>>
      /\ \A f \in Frames : w.column_of[f] = None
  BY DEF EmptyGraph
<1> HIDE DEF w
<1>3. /\ \A v \in Views : ColumnsOf(w, v) = {} /\ FramesOfView(w, v) = {}
      /\ \A col \in Columns : FramesIn(w, col) = {}
      /\ LiveFrames(w) = {}
  BY <1>2, NoneIsNeither DEF ColumnsOf, FramesOfView, FramesIn, LiveFrames
<1>4. Tree(w)
  BY <1>2, <1>3, EmptyEnumeration DEF Tree
<1>5. Histories(w)
  BY <1>2, <1>3, EmptyEnumeration, EmptyInOrder DEF Histories
<1>6. Selection(w)
  BY <1>2, <1>3 DEF Selection, Selects, OrNone
<1>7. QED BY <1>1, <1>2, <1>4, <1>5, <1>6 DEF WellFormed, WellLinked, w

-----------------------------------------------------------------------------
(* Selection.                                                              *)

\* WColumn::select_frame in a column that is not on the screen, or not selected.
LEMMA SelectInBackgroundEffect ==
  ASSUME NEW w \in Graph, NEW col \in Columns, NEW f \in OrNone(Frames),
         NEW u, u = SelectInBackground(w, col, f)
  PROVE  /\ u \in Graph
         /\ SameLinks(w, u) /\ SameViews(w, u)
         /\ u.selected_column = w.selected_column
         /\ u.selected_frame = [w.selected_frame EXCEPT ![col] = f]
<1>0. w.selected_frame \in [Columns -> OrNone(Frames)]
  BY DEF Graph
<1>1. CASE f = w.selected_frame[col]
  <2>1. w.selected_frame = [w.selected_frame EXCEPT ![col] = f]
    BY <1>0, <1>1
  <2>2. u = w
    BY <1>1 DEF SelectInBackground
  <2>3. QED BY <2>1, <2>2 DEF SameLinks, SameViews
<1>2. CASE f # w.selected_frame[col]
  <2> DEFINE x == ScheduleDraw(ScheduleDraw(w, w.selected_frame[col]), f)
  <2>1. Schedules(w, ScheduleDraw(w, w.selected_frame[col]))
    BY <1>0, ScheduleDrawEffect
  <2>2. Schedules(ScheduleDraw(w, w.selected_frame[col]), x)
    BY <2>1, ScheduleDrawEffect DEF Schedules
  <2>3. Schedules(w, x)
    BY <2>1, <2>2, SchedulesTwice
  <2>4. u = [x EXCEPT !.selected_frame[col] = f]
    BY <1>2 DEF SelectInBackground
  <2> HIDE DEF x
  <2>5. x \in Graph /\ [x.selected_frame EXCEPT ![col] = f] \in [Columns -> OrNone(Frames)]
    BY <1>0, <2>3 DEF Schedules
  <2>6. u \in Graph
    BY <2>4, <2>5, Zenon DEF Graph
  <2>7. SameLinks(x, u) /\ SameViews(x, u) /\ u.selected_column = x.selected_column
        /\ u.selected_frame = [x.selected_frame EXCEPT ![col] = f]
    BY <2>4, <2>5 DEF Graph, SameLinks, SameViews
  <2>8. QED BY <2>3, <2>6, <2>7 DEF Schedules, SameLinks, SameViews
<1>3. QED BY <1>1, <1>2

\* WM::handle_selected_frame_changed: at most the column that lost the selection
\* falls back to another of its frames.
LEMMA HandleSelectedFrameChangedEffect ==
  ASSUME NEW w, WellLinked(w), NEW old \in OrNone(LiveFrames(w)), NEW new,
         NEW u, u = HandleSelectedFrameChanged(w, old, new)
  PROVE  /\ u \in Graph
         /\ SameLinks(w, u) /\ SameViews(w, u)
         /\ u.selected_column = w.selected_column
         /\ u.selected_frame \in [Columns -> OrNone(Frames)]
         /\ \A c \in Columns :
              u.selected_frame[c] # w.selected_frame[c] =>
                /\ old # None /\ c = w.column_of[old] /\ w.selected_frame[c] = old
                /\ u.selected_frame[c] \in FramesIn(w, c)
<1> DEFINE a == IF new # None THEN [w EXCEPT !.timer = TRUE] ELSE [w EXCEPT !.todo_root = TRUE]
           col == w.column_of[old]
<1>0. w \in Graph /\ w.selected_frame \in [Columns -> OrNone(Frames)]
  BY DEF WellLinked, Graph
<1>1. a \in Graph
  <2>1. [w EXCEPT !.timer = TRUE] \in Graph
    BY <1>0, Zenon DEF Graph
  <2>2. [w EXCEPT !.todo_root = TRUE] \in Graph
    BY <1>0, Zenon DEF Graph
  <2>3. QED BY <2>1, <2>2
<1>2. SameLinks(w, a) /\ SameViews(w, a) /\ a.selected_column = w.selected_column
      /\ a.selected_frame = w.selected_frame
  <2>1. CASE new # None
    BY <2>1, <1>0 DEF Graph, SameLinks, SameViews
  <2>2. CASE new = None
    BY <2>2, <1>0 DEF Graph, SameLinks, SameViews
  <2>3. QED BY <2>1, <2>2
<1>3. u = IF /\ old # None
             /\ w.selected_frame[col] = old
             /\ Head(w.column_activity[col]) # old
          THEN SelectInBackground(a, col, Head(w.column_activity[col]))
          ELSE a
  BY DEF HandleSelectedFrameChanged
<1> HIDE DEF a
<1>4. CASE /\ old # None
           /\ w.selected_frame[col] = old
           /\ Head(w.column_activity[col]) # old
  <2> DEFINE h == Head(w.column_activity[col])
  <2>1. col \in Columns /\ old \in FramesIn(w, col)
    BY <1>0, <1>4 DEF OrNone, LiveFrames, FramesIn, Graph
  <2>2. h \in FramesIn(w, col)
    BY <2>1, MostRecentIsInColumn
  <2>3. h \in OrNone(Frames)
    BY <2>2 DEF FramesIn, OrNone
  <2>4. u = SelectInBackground(a, col, h)
    BY <1>3, <1>4
  <2> HIDE DEF h, col
  <2>5. /\ u \in Graph
        /\ SameLinks(a, u) /\ SameViews(a, u)
        /\ u.selected_column = a.selected_column
        /\ u.selected_frame = [a.selected_frame EXCEPT ![col] = h]
    BY <1>1, <2>1, <2>3, <2>4, SelectInBackgroundEffect
  <2>6. SameLinks(w, u) /\ SameViews(w, u)
    BY <1>2, <2>5 DEF SameLinks, SameViews
  <2>7. u.selected_frame = [w.selected_frame EXCEPT ![col] = h]
    BY <1>2, <2>5
  <2>8. \A c \in Columns : u.selected_frame[c] # w.selected_frame[c] =>
          c = col /\ u.selected_frame[c] = h
    BY <1>0, <2>7
  <2>9. QED BY <1>0, <1>2, <1>4, <2>1, <2>2, <2>3, <2>5, <2>6, <2>7, <2>8 DEF col
<1>5. CASE ~(/\ old # None
             /\ w.selected_frame[col] = old
             /\ Head(w.column_activity[col]) # old)
  <2>1. u = a
    BY <1>3, <1>5
  <2>2. QED BY <1>0, <1>1, <1>2, <2>1
<1>6. QED BY <1>4, <1>5

\* WColumn::select_frame.
LEMMA SelectFrameInColumnEffect ==
  ASSUME NEW w, WellLinked(w), NothingDangles(w), NEW col \in Columns, NEW f \in OrNone(Frames),
         NEW u, u = SelectFrameInColumn(w, col, f)
  PROVE  /\ u \in Graph
         /\ SameLinks(w, u) /\ SameViews(w, u)
         /\ u.selected_column = w.selected_column
         /\ u.selected_frame = [w.selected_frame EXCEPT ![col] = f]
<1> DEFINE old == w.selected_frame[col]
           m == SelectInBackground(w, col, f)
           t == HandleSelectedFrameChanged(m, old, f)
<1>0. w \in Graph /\ w.selected_frame \in [Columns -> OrNone(Frames)]
  BY DEF WellLinked, Graph
<1>1. /\ m \in Graph
      /\ SameLinks(w, m) /\ SameViews(w, m)
      /\ m.selected_column = w.selected_column
      /\ m.selected_frame = [w.selected_frame EXCEPT ![col] = f]
  BY <1>0, SelectInBackgroundEffect
<1>2. u = IF f = old THEN w
          ELSE IF col # SelectedColumn(w) THEN m
          ELSE IF f = None THEN t ELSE ScheduleInputFocus(t, f)
  BY DEF SelectFrameInColumn
<1>3. CASE f = old
  <2>1. w.selected_frame = [w.selected_frame EXCEPT ![col] = f]
    BY <1>0, <1>3
  <2>2. QED BY <1>0, <1>2, <1>3, <2>1 DEF SameLinks, SameViews
<1>4. CASE f # old
  <2>1. WellLinked(m)
    BY <1>1, SameLinksWellLinked DEF WellLinked, Tree, SameViews
  <2>2. old \in OrNone(FramesIn(w, col))
    BY DEF NothingDangles
  <2>3. old \in OrNone(LiveFrames(m)) /\ (old # None => m.column_of[old] = col)
    BY <1>1, <2>2, NoneIsNeither DEF SameLinks, FramesIn, LiveFrames, OrNone
  <2> HIDE DEF old, m
  <2>4. /\ t \in Graph
        /\ SameLinks(m, t) /\ SameViews(m, t)
        /\ t.selected_column = m.selected_column
        /\ t.selected_frame \in [Columns -> OrNone(Frames)]
        /\ \A c \in Columns :
             t.selected_frame[c] # m.selected_frame[c] =>
               old # None /\ c = m.column_of[old] /\ m.selected_frame[c] = old
    BY <2>1, <2>3, HandleSelectedFrameChangedEffect
  <2> HIDE DEF t
  <2>5. m.selected_frame[col] = f /\ m.selected_frame \in [Columns -> OrNone(Frames)]
    BY <1>0, <1>1
  <2>6. \A c \in Columns : t.selected_frame[c] = m.selected_frame[c]
    BY <1>4, <2>3, <2>4, <2>5
  <2>7. t.selected_frame = m.selected_frame
    BY <2>4, <2>5, <2>6
  <2>8. SameLinks(w, t) /\ SameViews(w, t) /\ t.selected_column = w.selected_column
        /\ t.selected_frame = [w.selected_frame EXCEPT ![col] = f]
    BY <1>1, <2>4, <2>7 DEF SameLinks, SameViews
  <2>9. CASE f # None
    <3>1. f \in Frames
      BY <2>9 DEF OrNone
    <3>2. Schedules(t, ScheduleInputFocus(t, f))
      BY <2>4, <3>1, ScheduleInputFocusEffect
    <3>3. /\ ScheduleInputFocus(t, f) \in Graph
          /\ SameLinks(w, ScheduleInputFocus(t, f)) /\ SameViews(w, ScheduleInputFocus(t, f))
          /\ ScheduleInputFocus(t, f).selected_column = w.selected_column
          /\ ScheduleInputFocus(t, f).selected_frame = [w.selected_frame EXCEPT ![col] = f]
      BY <2>8, <3>2 DEF Schedules, SameLinks, SameViews
    <3>4. QED BY <1>1, <1>2, <1>4, <2>9, <3>3
  <2>10. CASE f = None
    BY <1>1, <1>2, <1>4, <2>4, <2>8, <2>10
  <2>11. QED BY <2>9, <2>10
<1>5. QED BY <1>3, <1>4

\* WView::select_column: next to the new selected column, the one that loses the
\* selection may fall back to another of its frames.
LEMMA SelectColumnEffect ==
  ASSUME NEW w, WellLinked(w), NothingDangles(w), NEW v \in Views,
         NEW col \in OrNone(ColumnsOf(w, v)),
         NEW u, u = SelectColumn(w, v, col)
  PROVE  /\ u \in Graph
         /\ SameLinks(w, u) /\ SameViews(w, u)
         /\ u.selected_column = [w.selected_column EXCEPT ![v] = col]
         /\ u.selected_frame \in [Columns -> OrNone(Frames)]
         /\ \A c \in Columns :
              u.selected_frame[c] # w.selected_frame[c] =>
                /\ w.selected_frame[c] \in FramesIn(w, c)
                /\ u.selected_frame[c] \in FramesIn(w, c)
<1> DEFINE old == SelectedFrameOfView(w, v)
           new == SelectedFrameOfColumn(w, col)
           d == ScheduleDraw(ScheduleDraw(w, old), new)
           m == [d EXCEPT !.selected_column[v] = col]
           t == HandleSelectedFrameChanged(m, old, new)
<1>0. /\ w \in Graph
      /\ w.selected_frame \in [Columns -> OrNone(Frames)]
      /\ w.selected_column \in [Views -> OrNone(Columns)]
  BY DEF WellLinked, Graph
<1>1. u = IF col = w.selected_column[v] THEN w
          ELSE IF v # w.selected_view THEN m
          ELSE IF new = None THEN t ELSE ScheduleInputFocus(t, new)
  BY DEF SelectColumn
<1>2. old \in OrNone(LiveFrames(w)) /\ (old # None => old \in FramesIn(w, w.selected_column[v]))
  <2>1. v # None /\ w.selected_column[v] \in OrNone(ColumnsOf(w, v))
    BY NoneIsNeither DEF NothingDangles
  <2>2. CASE w.selected_column[v] = None
    BY <2>1, <2>2 DEF SelectedFrameOfView, SelectedFrameOfColumn, OrNone
  <2>3. CASE w.selected_column[v] # None
    <3>1. w.selected_column[v] \in Columns
      BY <2>1, <2>3 DEF ColumnsOf, OrNone
    <3>2. old = w.selected_frame[w.selected_column[v]]
      BY <2>1, <2>3 DEF SelectedFrameOfView, SelectedFrameOfColumn
    <3>3. w.selected_frame[w.selected_column[v]] \in OrNone(FramesIn(w, w.selected_column[v]))
      BY <3>1 DEF NothingDangles
    <3>4. FramesIn(w, w.selected_column[v]) \subseteq LiveFrames(w)
      BY <3>1, NoneIsNeither DEF FramesIn, LiveFrames
    <3>5. QED BY <3>2, <3>3, <3>4 DEF OrNone
  <2>4. QED BY <2>2, <2>3
<1>3. new \in OrNone(Frames)
  BY <1>0 DEF SelectedFrameOfColumn, OrNone, ColumnsOf
<1>4. CASE col = w.selected_column[v]
  <2>1. w.selected_column = [w.selected_column EXCEPT ![v] = col]
    BY <1>0, <1>4
  <2>2. QED BY <1>0, <1>1, <1>4, <2>1 DEF SameLinks, SameViews
<1>5. CASE col # w.selected_column[v]
  <2>1. Schedules(w, d)
    <3>1. old \in OrNone(Frames)
      BY <1>2 DEF OrNone, LiveFrames
    <3>2. Schedules(w, ScheduleDraw(w, old))
      BY <1>0, <3>1, ScheduleDrawEffect
    <3>3. Schedules(ScheduleDraw(w, old), d)
      BY <1>3, <3>2, ScheduleDrawEffect DEF Schedules
    <3>4. QED BY <3>2, <3>3, SchedulesTwice
  <2> HIDE DEF d, old, new
  <2>2. /\ d \in Graph
        /\ [d.selected_column EXCEPT ![v] = col] \in [Views -> OrNone(Columns)]
        /\ d.selected_column = w.selected_column
    BY <1>0, <2>1 DEF Schedules, OrNone, ColumnsOf
  <2>3. m \in Graph
    BY <2>2, Zenon DEF Graph
  <2>4. SameLinks(d, m) /\ SameViews(d, m) /\ m.selected_frame = d.selected_frame
        /\ m.selected_column = [d.selected_column EXCEPT ![v] = col]
    BY <2>2 DEF Graph, SameLinks, SameViews
  <2>5. SameLinks(w, m) /\ SameViews(w, m) /\ m.selected_frame = w.selected_frame
        /\ m.selected_column = [w.selected_column EXCEPT ![v] = col]
    BY <2>1, <2>4 DEF Schedules, SameLinks, SameViews
  <2>6. WellLinked(m)
    BY <2>3, <2>5, SameLinksWellLinked DEF WellLinked, Tree, SameViews
  <2>7. old \in OrNone(LiveFrames(m))
    BY <1>2, <2>5 DEF SameLinks, LiveFrames
  <2> HIDE DEF m
  <2>8. /\ t \in Graph
        /\ SameLinks(m, t) /\ SameViews(m, t)
        /\ t.selected_column = m.selected_column
        /\ t.selected_frame \in [Columns -> OrNone(Frames)]
        /\ \A c \in Columns :
             t.selected_frame[c] # m.selected_frame[c] =>
               /\ old # None /\ c = m.column_of[old] /\ m.selected_frame[c] = old
               /\ t.selected_frame[c] \in FramesIn(m, c)
    BY <2>6, <2>7, HandleSelectedFrameChangedEffect
  <2> HIDE DEF t
  <2>9. SameLinks(w, t) /\ SameViews(w, t)
        /\ t.selected_column = [w.selected_column EXCEPT ![v] = col]
    BY <2>5, <2>8 DEF SameLinks, SameViews
  <2>10. \A c \in Columns :
           t.selected_frame[c] # w.selected_frame[c] =>
             /\ w.selected_frame[c] \in FramesIn(w, c)
             /\ t.selected_frame[c] \in FramesIn(w, c)
    <3>1. \A c \in Columns : FramesIn(m, c) = FramesIn(w, c)
      BY <2>5 DEF FramesIn, SameLinks
    <3>2. \A c \in Columns : w.selected_frame[c] \in OrNone(FramesIn(w, c))
      BY DEF NothingDangles
    <3>3. QED BY <2>5, <2>8, <3>1, <3>2 DEF OrNone
  <2>11. CASE v # w.selected_view
    BY <1>0, <1>1, <1>5, <2>3, <2>5, <2>11
  <2>12. CASE v = w.selected_view /\ new = None
    BY <1>1, <1>5, <2>8, <2>9, <2>10, <2>12
  <2>13. CASE v = w.selected_view /\ new # None
    <3> DEFINE x == ScheduleInputFocus(t, new)
    <3>1. new \in Frames
      BY <1>3, <2>13 DEF OrNone
    <3>2. Schedules(t, x)
      BY <2>8, <3>1, ScheduleInputFocusEffect
    <3>3. u = x
      BY <1>1, <1>5, <2>13
    <3> HIDE DEF x
    <3>4. /\ x \in Graph
          /\ SameLinks(w, x) /\ SameViews(w, x)
          /\ x.selected_column = [w.selected_column EXCEPT ![v] = col]
          /\ x.selected_frame = t.selected_frame
      BY <2>9, <3>2 DEF Schedules, SameLinks, SameViews
    <3>5. QED BY <2>8, <2>10, <3>3, <3>4
  <2>14. QED BY <2>11, <2>12, <2>13
<1>6. QED BY <1>4, <1>5

\* Selecting in its column a frame that is there keeps the selection total.
LEMMA SelectOwnFrameWellFormed ==
  ASSUME NEW w, WellFormed(w), NEW col \in Columns, NEW f \in FramesIn(w, col),
         NEW u, u = SelectFrameInColumn(w, col, f)
  PROVE  /\ WellFormed(u)
         /\ SameLinks(w, u) /\ SameViews(w, u)
<1>1. f \in OrNone(Frames)
  BY DEF FramesIn, OrNone
<1>2. WellLinked(w) /\ NothingDangles(w) /\ Selection(w)
  BY SelectionDoesNotDangle DEF WellFormed
<1>3. /\ u \in Graph
      /\ SameLinks(w, u) /\ SameViews(w, u)
      /\ u.selected_column = w.selected_column
      /\ u.selected_frame = [w.selected_frame EXCEPT ![col] = f]
  BY <1>1, <1>2, SelectFrameInColumnEffect
<1>4. WellLinked(u)
  BY <1>2, <1>3, SameLinksWellLinked DEF WellLinked, Tree, SameViews
<1>5. /\ \A v : ColumnsOf(u, v) = ColumnsOf(w, v)
      /\ \A c : FramesIn(u, c) = FramesIn(w, c)
  BY <1>3, SameSets DEF SameLinks
<1>6. \A c \in Columns : u.selected_frame[c] = IF c = col THEN f ELSE w.selected_frame[c]
  BY <1>2, <1>3 DEF WellLinked, Graph
<1>7. Selection(u)
  BY <1>2, <1>3, <1>5, <1>6 DEF Selection, Selects, SameViews
<1>8. QED BY <1>3, <1>4, <1>7 DEF WellFormed

\* Selecting in its view a column that is there keeps the selection total.
LEMMA SelectOwnColumnWellFormed ==
  ASSUME NEW w, WellFormed(w), NEW v \in Views, NEW col \in ColumnsOf(w, v),
         NEW u, u = SelectColumn(w, v, col)
  PROVE  /\ WellFormed(u)
         /\ SameLinks(w, u) /\ SameViews(w, u)
<1>1. col \in OrNone(ColumnsOf(w, v))
  BY DEF OrNone
<1>2. WellLinked(w) /\ NothingDangles(w) /\ Selection(w)
  BY SelectionDoesNotDangle DEF WellFormed
<1>3. /\ u \in Graph
      /\ SameLinks(w, u) /\ SameViews(w, u)
      /\ u.selected_column = [w.selected_column EXCEPT ![v] = col]
      /\ u.selected_frame \in [Columns -> OrNone(Frames)]
      /\ \A c \in Columns :
           u.selected_frame[c] # w.selected_frame[c] =>
             /\ w.selected_frame[c] \in FramesIn(w, c)
             /\ u.selected_frame[c] \in FramesIn(w, c)
  BY <1>1, <1>2, SelectColumnEffect
<1>4. WellLinked(u)
  BY <1>2, <1>3, SameLinksWellLinked DEF WellLinked, Tree, SameViews
<1>5. /\ \A x : ColumnsOf(u, x) = ColumnsOf(w, x)
      /\ \A c : FramesIn(u, c) = FramesIn(w, c)
  BY <1>3, SameSets DEF SameLinks
<1>6. \A x \in Views : u.selected_column[x] = IF x = v THEN col ELSE w.selected_column[x]
  BY <1>2, <1>3 DEF WellLinked, Graph
<1>7. \A x \in Views : Selects(u.selected_column[x], ColumnsOf(u, x))
  BY <1>2, <1>5, <1>6 DEF Selection, Selects
<1>8. \A c \in Columns : Selects(u.selected_frame[c], FramesIn(u, c))
  BY <1>2, <1>3, <1>5 DEF Selection, Selects
<1>9. Selection(u)
  BY <1>2, <1>3, <1>7, <1>8 DEF Selection, SameViews
<1>10. QED BY <1>3, <1>4, <1>9 DEF WellFormed

\* WView::select_frame.
LEMMA SelectFrameWellFormed ==
  ASSUME NEW w, WellFormed(w), NEW f \in LiveFrames(w),
         NEW u, u = SelectFrame(w, f)
  PROVE  /\ WellFormed(u)
         /\ SameLinks(w, u) /\ SameViews(w, u)
<1> DEFINE col == w.column_of[f]
           x == SelectFrameInColumn(w, col, f)
<1>1. w \in Graph /\ Tree(w)
  BY DEF WellFormed, WellLinked
<1>2. f \in Frames /\ col \in Columns /\ f \in FramesIn(w, col) /\ w.view_of[col] = ViewOf(f)
  BY <1>1 DEF LiveFrames, FramesIn, Graph, OrNone, Tree
<1>3. u = SelectColumn(x, ViewOf(f), col)
  BY DEF SelectFrame
<1> HIDE DEF col
<1>4. WellFormed(x) /\ SameLinks(w, x) /\ SameViews(w, x)
  BY <1>2, SelectOwnFrameWellFormed
<1> HIDE DEF x
<1>5. ViewOf(f) \in Views /\ col \in ColumnsOf(x, ViewOf(f))
  BY <1>2, <1>4, FrameParts DEF ColumnsOf, SameLinks
<1>6. WellFormed(u) /\ SameLinks(x, u) /\ SameViews(x, u)
  BY <1>3, <1>4, <1>5, SelectOwnColumnWellFormed
<1>7. QED BY <1>4, <1>6 DEF SameLinks, SameViews

-----------------------------------------------------------------------------
(* Views.                                                                  *)

\* A view starts without columns (WView::WView).
LEMMA NewViewWellFormed ==
  ASSUME NEW w, WellFormed(w), NEW v \in Views, NEW u, u = NewView(w, v)
  PROVE  /\ WellFormed(u)
         /\ SameLinks(w, u)
         /\ u.views = w.views \cup {v} /\ u.selected_view = w.selected_view
         /\ u.selected_column = w.selected_column
         /\ u.selected_frame = w.selected_frame
<1>1. w \in Graph /\ WellLinked(w) /\ Selection(w)
  BY DEF WellFormed, WellLinked
<1>2. w.views \cup {v} \in SUBSET Views /\ w.bar_visible \cup {v} \in SUBSET Views
  BY <1>1 DEF Graph
<1>3. u \in Graph
  BY <1>1, <1>2, Zenon DEF Graph, NewView
<1>4. /\ SameLinks(w, u)
      /\ u.views = w.views \cup {v} /\ u.selected_view = w.selected_view
      /\ u.selected_column = w.selected_column
      /\ u.selected_frame = w.selected_frame
  BY <1>1 DEF Graph, NewView, SameLinks
<1>5. WellLinked(u)
  BY <1>1, <1>3, <1>4, SameLinksWellLinked DEF WellLinked, Tree
<1>6. /\ \A x : ColumnsOf(u, x) = ColumnsOf(w, x)
      /\ \A c : FramesIn(u, c) = FramesIn(w, c)
  BY <1>4, SameSets DEF SameLinks
<1>7. Selection(u)
  BY <1>1, <1>4, <1>6 DEF Selection, OrNone
<1>8. QED BY <1>4, <1>5, <1>7 DEF WellFormed

\* get_or_create_view leaves a graph that has the view, and nothing else new.
LEMMA GetOrCreateViewWellFormed ==
  ASSUME NEW w, WellFormed(w), NEW v \in Views, NEW u, u = GetOrCreateView(w, v)
  PROVE  /\ WellFormed(u)
         /\ SameLinks(w, u)
         /\ u.views = w.views \cup {v} /\ u.selected_view = w.selected_view
<1>1. CASE v \in w.views
  BY <1>1 DEF GetOrCreateView, SameLinks
<1>2. CASE v \notin w.views
  BY <1>2, NewViewWellFormed DEF GetOrCreateView
<1>3. QED BY <1>1, <1>2

\* ~WView of a view without columns.
LEMMA DeleteViewEffect ==
  ASSUME NEW w, WellLinked(w), NEW v \in Views, ColumnsOf(w, v) = {},
         NEW u, u = DeleteView(w, v)
  PROVE  /\ WellLinked(u)
         /\ SameLinks(w, u)
         /\ u.views = w.views \ {v} /\ u.selected_view = w.selected_view
         /\ u.selected_column = w.selected_column
         /\ u.selected_frame = w.selected_frame
<1>1. w \in Graph
  BY DEF WellLinked
<1>2. /\ w.views \ {v} \in SUBSET Views
      /\ w.bar_visible \ {v} \in SUBSET Views
      /\ w.todo_views \ {v} \in SUBSET Views
  BY <1>1 DEF Graph
<1>3. u \in Graph
  BY <1>1, <1>2, Zenon DEF Graph, DeleteView
<1>4. /\ SameLinks(w, u)
      /\ u.views = w.views \ {v} /\ u.selected_view = w.selected_view
      /\ u.selected_column = w.selected_column
      /\ u.selected_frame = w.selected_frame
  BY <1>1 DEF Graph, DeleteView, SameLinks
<1>5. \A x \in Views \ u.views : ColumnsOf(w, x) = {}
  BY <1>4 DEF WellLinked, Tree
<1>6. WellLinked(u)
  BY <1>3, <1>4, <1>5, SameLinksWellLinked
<1>7. QED BY <1>4, <1>6

\* A view without columns that is not on the screen can go (~WView).
LEMMA DeleteViewWellFormed ==
  ASSUME NEW w, WellFormed(w), NEW v \in Views, ColumnsOf(w, v) = {}, v # w.selected_view,
         NEW u, u = DeleteView(w, v)
  PROVE  /\ WellFormed(u)
         /\ SameLinks(w, u)
         /\ u.views = w.views \ {v} /\ u.selected_view = w.selected_view
<1>1. WellLinked(w) /\ Selection(w)
  BY DEF WellFormed
<1>2. /\ WellLinked(u)
      /\ SameLinks(w, u)
      /\ u.views = w.views \ {v} /\ u.selected_view = w.selected_view
      /\ u.selected_column = w.selected_column
      /\ u.selected_frame = w.selected_frame
  BY <1>1, DeleteViewEffect
<1>3. /\ \A x : ColumnsOf(u, x) = ColumnsOf(w, x)
      /\ \A c : FramesIn(u, c) = FramesIn(w, c)
  BY <1>2, SameSets DEF SameLinks
<1>4. Selection(u)
  BY <1>1, <1>2, <1>3 DEF Selection, OrNone
<1>5. QED BY <1>2, <1>4 DEF WellFormed

\* The empty list of columns of a view, as a set.
LEMMA NoColumns ==
  ASSUME NEW w, WellLinked(w), NEW v \in Views
  PROVE  w.columns[v] = <<>> <=> ColumnsOf(w, v) = {}
<1>1. w.columns[v] \in Seq(Columns) /\ Enumerates(w.columns[v], ColumnsOf(w, v))
  BY DEF WellLinked, Graph, Tree
<1>2. QED BY <1>1, EnumerationProperties

\* WM::select_view of an existing view.
LEMMA SelectViewWellFormed ==
  ASSUME NEW w, WellFormed(w), NEW v \in w.views, NEW u, u = SelectView(w, v)
  PROVE  /\ WellFormed(u)
         /\ SameLinks(w, u)
         /\ u.selected_view = v
         /\ v \in u.views /\ u.views \subseteq w.views
         /\ w.selected_view \in u.views =>
              ColumnsOf(u, w.selected_view) # {} \/ w.selected_view = v
<1> DEFINE old == w.selected_view
           h == IF old = None THEN w ELSE ScheduleFramesOfView(w, old)
           m == [h EXCEPT !.selected_view = v]
           from == SelectedFrameOfView(w, old)
           new == SelectedFrameOfView(w, v)
           t == HandleSelectedFrameChanged(m, from, new)
           s == IF old # None /\ t.columns[old] = <<>> THEN DeleteView(t, old) ELSE t
           x == ScheduleFramesOfView(s, v)
<1>0. /\ w \in Graph /\ WellLinked(w) /\ Selection(w) /\ NothingDangles(w)
      /\ v \in Views /\ v # None
      /\ old \in OrNone(w.views) /\ old \in OrNone(Views)
      /\ w.selected_column \in [Views -> OrNone(Columns)]
      /\ w.selected_frame \in [Columns -> OrNone(Frames)]
  BY SelectionDoesNotDangle, NoneIsNeither DEF WellFormed, WellLinked, Graph, Selection, OrNone
<1>1. u = IF v = old THEN w ELSE IF new = None THEN x ELSE ScheduleInputFocus(x, new)
  BY DEF SelectView
<1>2. CASE v = old
  BY <1>1, <1>2 DEF SameLinks
<1>3. CASE v # old
  <2>1. Schedules(w, h)
    BY <1>0, ScheduleFramesOfViewEffect, SchedulesNothing DEF OrNone
  <2>2. ASSUME NEW y \in OrNone(Views)
        PROVE  SelectedFrameOfView(w, y) \in OrNone(LiveFrames(w))
    <3>1. CASE y = None \/ w.selected_column[y] = None
      BY <3>1 DEF SelectedFrameOfView, SelectedFrameOfColumn, OrNone
    <3>2. CASE y # None /\ w.selected_column[y] # None
      <4>1. w.selected_column[y] \in Columns
        BY <1>0, <3>2 DEF OrNone
      <4>2. SelectedFrameOfView(w, y) \in OrNone(FramesIn(w, w.selected_column[y]))
        BY <1>0, <3>2, <4>1 DEF SelectedFrameOfView, SelectedFrameOfColumn, NothingDangles
      <4>3. FramesIn(w, w.selected_column[y]) \subseteq LiveFrames(w)
        BY <4>1, NoneIsNeither DEF FramesIn, LiveFrames
      <4>4. QED BY <4>2, <4>3 DEF OrNone
    <3>3. QED BY <3>1, <3>2
  <2>3. from \in OrNone(LiveFrames(w)) /\ new \in OrNone(Frames)
    BY <1>0, <2>2 DEF OrNone, LiveFrames
  <2> HIDE DEF h, from, new, old
  <2>4. m \in Graph
    <3>1. h \in Graph /\ v \in OrNone(Views)
      BY <1>0, <2>1 DEF Schedules, OrNone
    <3>2. QED BY <3>1, Zenon DEF Graph
  <2>5. SameLinks(h, m) /\ m.views = h.views /\ m.selected_view = v
        /\ m.selected_frame = h.selected_frame
        /\ m.selected_column = h.selected_column
    BY <2>1 DEF Schedules, Graph, SameLinks
  <2>6. SameLinks(w, m) /\ m.views = w.views
        /\ m.selected_frame = w.selected_frame
        /\ m.selected_column = w.selected_column
    BY <2>1, <2>5 DEF Schedules, SameLinks, SameViews
  <2>7. WellLinked(m)
    BY <1>0, <2>4, <2>6, SameLinksWellLinked DEF WellLinked, Tree
  <2>8. from \in OrNone(LiveFrames(m))
    BY <2>3, <2>6 DEF SameLinks, LiveFrames
  <2> HIDE DEF m
  <2>9. /\ t \in Graph
        /\ SameLinks(m, t) /\ SameViews(m, t)
        /\ t.selected_column = m.selected_column
        /\ \A c \in Columns :
             t.selected_frame[c] # m.selected_frame[c] =>
               /\ from # None /\ c = m.column_of[from] /\ m.selected_frame[c] = from
               /\ t.selected_frame[c] \in FramesIn(m, c)
    BY <2>7, <2>8, HandleSelectedFrameChangedEffect
  <2> HIDE DEF t
  <2>10. SameLinks(w, t) /\ t.views = w.views /\ t.selected_view = v
         /\ t.selected_column = w.selected_column
    BY <2>5, <2>6, <2>9 DEF SameLinks, SameViews
  <2>11. WellLinked(t)
    BY <1>0, <2>9, <2>10, SameLinksWellLinked DEF WellLinked, Tree
  <2>12. Selection(t)
    <3>1. /\ \A y : ColumnsOf(t, y) = ColumnsOf(w, y)
          /\ \A c : FramesIn(t, c) = FramesIn(w, c)
          /\ \A c : FramesIn(m, c) = FramesIn(w, c)
      BY <2>6, <2>10, SameSets DEF SameLinks
    <3>2. \A y \in Views : Selects(t.selected_column[y], ColumnsOf(t, y))
      BY <1>0, <2>10, <3>1 DEF Selection
    <3>3. \A c \in Columns : Selects(t.selected_frame[c], FramesIn(t, c))
      BY <1>0, <2>6, <2>9, <3>1 DEF Selection, Selects
    <3>4. t.selected_view \in OrNone(t.views)
      BY <2>10 DEF OrNone
    <3>5. QED BY <3>2, <3>3, <3>4 DEF Selection
  <2>13. WellFormed(s) /\ SameLinks(w, s) /\ s.selected_view = v /\ v \in s.views
         /\ s.views \subseteq w.views
         /\ (old \in s.views => ColumnsOf(w, old) # {})
    <3>1. CASE old # None /\ t.columns[old] = <<>>
      <4>1. old \in Views /\ old # t.selected_view
        BY <1>0, <1>3, <2>10, <3>1 DEF OrNone
      <4>2. ColumnsOf(t, old) = {}
        BY <2>11, <3>1, <4>1, NoColumns
      <4>3. s = DeleteView(t, old)
        BY <3>1
      <4> HIDE DEF s
      <4>4. WellFormed(s) /\ SameLinks(t, s) /\ s.views = t.views \ {old}
            /\ s.selected_view = t.selected_view
        BY <2>11, <2>12, <4>1, <4>2, <4>3, DeleteViewWellFormed DEF WellFormed
      <4>5. QED BY <1>3, <2>10, <4>4 DEF SameLinks
    <3>2. CASE ~(old # None /\ t.columns[old] = <<>>)
      <4>1. s = t
        BY <3>2
      <4> HIDE DEF s
      <4>2. WellFormed(t) /\ ColumnsOf(t, old) = ColumnsOf(w, old)
        BY <2>10, <2>11, <2>12, SameSets DEF WellFormed, SameLinks
      <4>3. old \in Views => ColumnsOf(w, old) # {}
        BY <1>0, <2>11, <3>2, <4>2, NoColumns, NoneIsNeither
      <4>4. w.views \subseteq Views
        BY <1>0 DEF Graph
      <4>5. QED BY <2>10, <4>1, <4>2, <4>3, <4>4
    <3>3. QED BY <3>1, <3>2
  <2> HIDE DEF s
  <2>14. Schedules(s, x)
    BY <1>0, <2>13, ScheduleFramesOfViewEffect DEF WellFormed, WellLinked
  <2>15. WellFormed(x) /\ SameLinks(w, x) /\ x.selected_view = v /\ v \in x.views
         /\ x.views \subseteq w.views
         /\ (old \in x.views => ColumnsOf(w, old) # {})
    BY <2>13, <2>14, SchedulesWellFormed DEF Schedules, SameLinks, SameViews
  <2> HIDE DEF x
  <2>16. CASE new = None
    BY <1>1, <1>3, <2>15, <2>16, SameSets DEF SameLinks, old
  <2>17. CASE new # None
    <3>1. Schedules(x, ScheduleInputFocus(x, new))
      BY <2>3, <2>15, <2>17, ScheduleInputFocusEffect DEF OrNone, WellFormed, WellLinked
    <3>2. u = ScheduleInputFocus(x, new)
      BY <1>1, <1>3, <2>17
    <3>3. Schedules(x, u)
      BY <3>1, <3>2
    <3>4. WellFormed(u) /\ SameLinks(w, u) /\ SameViews(x, u)
      BY <2>15, <3>3, SchedulesWellFormed DEF Schedules, SameLinks, SameViews
    <3>5. QED BY <2>15, <3>4, SameSets DEF SameLinks, SameViews, old
  <2>18. QED BY <2>16, <2>17
<1>4. QED BY <1>2, <1>3

-----------------------------------------------------------------------------
(* Columns.                                                                *)

SameFrames(w, u) ==
  u.frames = w.frames /\ u.column_of = w.column_of /\ u.marked = w.marked

\* A column that is not allocated holds no frames and is selected nowhere.
LEMMA FreeColumnIsEmpty ==
  ASSUME NEW w, WellLinked(w), NEW col \in FreeColumns(w)
  PROVE  col \in Columns /\ FramesIn(w, col) = {} /\ \A v \in Views : col \notin ColumnsOf(w, v)
<1>1. col \in Columns /\ w.view_of[col] = None
  BY DEF FreeColumns
<1>2. ASSUME NEW f \in FramesIn(w, col) PROVE FALSE
  <2>1. f \in LiveFrames(w) /\ w.column_of[f] = col /\ ViewOf(f) \in Views
    BY <1>1, <1>2, NoneIsNeither, FrameParts DEF FramesIn, LiveFrames
  <2>2. w.view_of[col] = ViewOf(f)
    BY <2>1 DEF WellLinked, Tree
  <2>3. QED BY <1>1, <2>1, <2>2, NoneIsNeither
<1>3. QED BY <1>1, <1>2, NoneIsNeither DEF ColumnsOf

\* A selection that is total but for one view is so when a column is selected there.
LEMMA SelectMissingColumn ==
  ASSUME NEW w, WellLinked(w), NothingDangles(w), NEW v \in Views,
         \A y \in Views \ {v} : Selects(w.selected_column[y], ColumnsOf(w, y)),
         \A c \in Columns : Selects(w.selected_frame[c], FramesIn(w, c)),
         NEW col \in ColumnsOf(w, v),
         NEW u, u = SelectColumn(w, v, col)
  PROVE  WellFormed(u) /\ SameLinks(w, u) /\ SameViews(w, u)
<1>1. col \in OrNone(ColumnsOf(w, v))
  BY DEF OrNone
<1>3. /\ u \in Graph
      /\ SameLinks(w, u) /\ SameViews(w, u)
      /\ u.selected_column = [w.selected_column EXCEPT ![v] = col]
      /\ u.selected_frame \in [Columns -> OrNone(Frames)]
      /\ \A c \in Columns :
           u.selected_frame[c] # w.selected_frame[c] =>
             /\ w.selected_frame[c] \in FramesIn(w, c)
             /\ u.selected_frame[c] \in FramesIn(w, c)
  BY <1>1, SelectColumnEffect
<1>4. WellLinked(u)
  BY <1>3, SameLinksWellLinked DEF WellLinked, Tree, SameViews
<1>5. /\ \A x : ColumnsOf(u, x) = ColumnsOf(w, x)
      /\ \A c : FramesIn(u, c) = FramesIn(w, c)
  BY <1>3, SameSets DEF SameLinks
<1>6. \A x \in Views : u.selected_column[x] = IF x = v THEN col ELSE w.selected_column[x]
  BY <1>3 DEF WellLinked, Graph
<1>7. \A x \in Views : Selects(u.selected_column[x], ColumnsOf(u, x))
  BY <1>5, <1>6 DEF Selects
<1>8. \A c \in Columns : Selects(u.selected_frame[c], FramesIn(u, c))
  BY <1>3, <1>5 DEF Selects
<1>9. u.selected_view \in OrNone(u.views)
  BY <1>3 DEF NothingDangles, SameViews
<1>10. QED BY <1>3, <1>4, <1>7, <1>8, <1>9 DEF WellFormed, Selection

\* The new column is listed.
InsertColumn(w, v, i, col) ==
  [w EXCEPT !.columns[v] = InsertAt(@, i, col), !.view_of[col] = v]

\* The world x is w with the column col at place i of the list of view v; nothing
\* else of the tree has changed, and no selection but that of v can dangle.
ColumnInserted(w, v, i, col, x) ==
  /\ WellLinked(x)
  /\ x.columns = [w.columns EXCEPT ![v] = InsertAt(w.columns[v], i, col)]
  /\ x.view_of = [w.view_of EXCEPT ![col] = v]
  /\ SameViews(w, x) /\ SameFrames(w, x)
  /\ x.selected_column = w.selected_column /\ x.selected_frame = w.selected_frame
  /\ ColumnsOf(x, v) = ColumnsOf(w, v) \cup {col}
  /\ \A z \in Views \ {v} : Selects(x.selected_column[z], ColumnsOf(x, z))
  /\ \A c \in Columns : Selects(x.selected_frame[c], FramesIn(x, c))
  /\ x.selected_view \in OrNone(x.views)
  /\ w.selected_column[v] = None => NothingDangles(x)

\* A new column keeps the tree together, before it is selected.
LEMMA InsertedColumn ==
  ASSUME NEW w, WellFormed(w), NEW v \in w.views, NEW i \in 1..(Len(w.columns[v]) + 1),
         NEW col \in FreeColumns(w),
         NEW x, x = InsertColumn(w, v, i, col)
  PROVE  ColumnInserted(w, v, i, col, x)
<1> DEFINE list == InsertAt(w.columns[v], i, col)
<1>0. /\ w \in Graph /\ WellLinked(w) /\ Selection(w) /\ NothingDangles(w)
      /\ v \in Views /\ v # None
      /\ w.columns \in [Views -> Seq(Columns)]
      /\ w.view_of \in [Columns -> OrNone(Views)]
      /\ w.selected_column \in [Views -> OrNone(Columns)]
  BY SelectionDoesNotDangle, NoneIsNeither DEF WellFormed, WellLinked, Graph
<1>1. /\ col \in Columns /\ w.view_of[col] = None /\ FramesIn(w, col) = {}
      /\ col \notin ColumnsOf(w, v)
  BY <1>0, FreeColumnIsEmpty DEF FreeColumns
<1>2. x = [w EXCEPT !.columns[v] = list, !.view_of[col] = v]
  BY DEF InsertColumn
<1>3. list \in Seq(Columns) /\ Enumerates(list, ColumnsOf(w, v) \cup {col})
  BY <1>0, <1>1, InsertEnumeration DEF WellLinked, Tree
<1>3a. list = InsertAt(w.columns[v], i, col)
  OBVIOUS
<1> HIDE DEF list
<1>4. /\ [w.columns EXCEPT ![v] = list] \in [Views -> Seq(Columns)]
      /\ [w.view_of EXCEPT ![col] = v] \in [Columns -> OrNone(Views)]
  BY <1>0, <1>1, <1>3 DEF OrNone
<1>5. x \in Graph
  <2>1. x = [w EXCEPT !.columns = [w.columns EXCEPT ![v] = list],
                      !.view_of = [w.view_of EXCEPT ![col] = v]]
    BY <1>2
  <2>2. QED BY ZenonT(60), <1>0, <1>4, <2>1 DEF Graph
<1>6. /\ x.columns = [w.columns EXCEPT ![v] = list]
      /\ x.view_of = [w.view_of EXCEPT ![col] = v]
      /\ SameViews(w, x) /\ SameFrames(w, x)
      /\ x.selected_column = w.selected_column /\ x.selected_frame = w.selected_frame
      /\ x.activity = w.activity /\ x.view_activity = w.view_activity
      /\ x.column_activity = w.column_activity
  BY <1>0, <1>2 DEF Graph, SameViews, SameFrames
<1>7. /\ ColumnsOf(x, v) = ColumnsOf(w, v) \cup {col}
      /\ \A z \in Views \ {v} : ColumnsOf(x, z) = ColumnsOf(w, z)
  BY <1>0, <1>1, <1>6, NoneIsNeither DEF ColumnsOf
<1>8. /\ \A c : FramesIn(x, c) = FramesIn(w, c)
      /\ LiveFrames(x) = LiveFrames(w)
      /\ \A z : FramesOfView(x, z) = FramesOfView(w, z)
  BY <1>6 DEF FramesIn, LiveFrames, FramesOfView, SameFrames
<1>9. Tree(x)
  <2>1. \A z \in Views : Enumerates(x.columns[z], ColumnsOf(x, z))
    <3>1. Enumerates(x.columns[v], ColumnsOf(x, v))
      BY <1>0, <1>3, <1>6, <1>7
    <3>2. \A z \in Views \ {v} : Enumerates(x.columns[z], ColumnsOf(x, z))
      BY <1>0, <1>6, <1>7 DEF WellLinked, Tree
    <3>3. QED BY <3>1, <3>2
  <2>2. \A z \in Views \ x.views : ColumnsOf(x, z) = {}
    BY <1>0, <1>6, <1>7 DEF WellLinked, Tree, SameViews
  <2>3. \A c \in Columns : Enumerates(x.frames[c], FramesIn(x, c))
    BY <1>0, <1>6, <1>8 DEF WellLinked, Tree, SameFrames
  <2>4. ASSUME NEW f \in LiveFrames(x) PROVE x.view_of[x.column_of[f]] = ViewOf(f)
    <3>1. /\ f \in LiveFrames(w) /\ x.column_of[f] = w.column_of[f]
          /\ w.column_of[f] \in Columns
      BY <1>0, <1>6, <1>8 DEF SameFrames, LiveFrames, Graph, OrNone
    <3>2. w.column_of[f] # col
      BY <1>1, <3>1 DEF FramesIn, LiveFrames
    <3>3. w.view_of[w.column_of[f]] = ViewOf(f)
      BY <1>0, <3>1 DEF WellLinked, Tree
    <3>4. QED BY <1>0, <1>6, <3>1, <3>2, <3>3
  <2>5. QED BY <2>1, <2>2, <2>3, <2>4 DEF Tree
<1>10. Histories(x)
  BY <1>0, <1>6, <1>8 DEF WellLinked, Histories
<1>11. WellLinked(x)
  BY <1>5, <1>9, <1>10 DEF WellLinked
<1>12. /\ \A z \in Views \ {v} : Selects(x.selected_column[z], ColumnsOf(x, z))
       /\ \A c \in Columns : Selects(x.selected_frame[c], FramesIn(x, c))
       /\ x.selected_view \in OrNone(x.views)
  BY <1>0, <1>6, <1>7, <1>8 DEF Selection, SameViews
<1>13. w.selected_column[v] = None => NothingDangles(x)
  BY <1>0, <1>6, <1>7, <1>8, <1>12 DEF NothingDangles, Selects, OrNone
<1>14. QED BY <1>3a, <1>6, <1>7, <1>11, <1>12, <1>13 DEF ColumnInserted

\* The world u is w with the column col in view v.
ColumnCreated(w, v, col, u) ==
  /\ WellFormed(u)
  /\ SameViews(w, u) /\ SameFrames(w, u)
  /\ \A c \in Columns : u.view_of[c] = IF c = col THEN v ELSE w.view_of[c]

\* WView::create_column.
LEMMA CreatedColumn ==
  ASSUME NEW w, WellFormed(w), NEW v \in w.views, NEW i \in 1..(Len(w.columns[v]) + 1),
         NEW col \in FreeColumns(w),
         NEW u, u = CreateColumn(w, v, i, col)
  PROVE  ColumnCreated(w, v, col, u)
<1> DEFINE list == InsertAt(w.columns[v], i, col)
           x == [w EXCEPT !.columns[v] = list, !.view_of[col] = v]
           y == IF w.selected_column[v] = None THEN SelectColumn(x, v, col) ELSE x
<1>0. /\ w \in Graph /\ WellLinked(w) /\ Selection(w) /\ NothingDangles(w)
      /\ v \in Views /\ v # None
      /\ w.columns \in [Views -> Seq(Columns)]
      /\ w.view_of \in [Columns -> OrNone(Views)]
      /\ w.selected_column \in [Views -> OrNone(Columns)]
  BY SelectionDoesNotDangle, NoneIsNeither DEF WellFormed, WellLinked, Graph
<1>1. /\ col \in Columns /\ w.view_of[col] = None /\ FramesIn(w, col) = {}
      /\ col \notin ColumnsOf(w, v)
  BY <1>0, FreeColumnIsEmpty DEF FreeColumns
<1>2. u = ScheduleView(y, v)
  BY DEF CreateColumn
<1>3. x = InsertColumn(w, v, i, col)
  BY DEF InsertColumn
<1> HIDE DEF x, list
<1>6a. ColumnInserted(w, v, i, col, x)
  BY <1>3, InsertedColumn
<1>6. /\ WellLinked(x)
      /\ x.columns = [w.columns EXCEPT ![v] = InsertAt(w.columns[v], i, col)]
      /\ x.view_of = [w.view_of EXCEPT ![col] = v]
      /\ SameViews(w, x) /\ SameFrames(w, x)
      /\ x.selected_column = w.selected_column /\ x.selected_frame = w.selected_frame
      /\ ColumnsOf(x, v) = ColumnsOf(w, v) \cup {col}
      /\ \A z \in Views \ {v} : Selects(x.selected_column[z], ColumnsOf(x, z))
      /\ \A c \in Columns : Selects(x.selected_frame[c], FramesIn(x, c))
      /\ x.selected_view \in OrNone(x.views)
      /\ w.selected_column[v] = None => NothingDangles(x)
  BY <1>6a DEF ColumnInserted
<1>13. WellFormed(y) /\ SameLinks(x, y) /\ SameViews(x, y)
  <2>1. CASE w.selected_column[v] = None
    <3>1. NothingDangles(x)
      BY <1>6, <2>1
    <3>2. col \in ColumnsOf(x, v)
      BY <1>6
    <3>3. y = SelectColumn(x, v, col)
      BY <2>1
    <3> HIDE DEF y
    <3>4. QED BY <1>0, <1>6, <3>1, <3>2, <3>3, SelectMissingColumn
  <2>2. CASE w.selected_column[v] # None
    <3>1. y = x
      BY <2>2
    <3>2. Selects(w.selected_column[v], ColumnsOf(w, v))
      BY <1>0 DEF Selection
    <3>3. Selects(x.selected_column[v], ColumnsOf(x, v))
      BY <1>6, <2>2, <3>2 DEF Selects
    <3>4. Selection(x)
      BY <1>6, <3>3 DEF Selection
    <3>5. QED BY <1>6, <3>1, <3>4 DEF WellFormed, SameLinks, SameViews
  <2>3. QED BY <2>1, <2>2
<1> HIDE DEF y
<1>14. Schedules(y, u)
  BY <1>0, <1>2, <1>13, ScheduleViewEffect DEF WellFormed, WellLinked
<1>15. WellFormed(u)
  BY <1>13, <1>14, SchedulesWellFormed
<1>16. \A c \in Columns : x.view_of[c] = IF c = col THEN v ELSE w.view_of[c]
  BY <1>0, <1>6
<1>17. QED BY <1>6, <1>13, <1>14, <1>15, <1>16 DEF Schedules, SameLinks, SameViews, SameFrames, ColumnCreated

\* The same, said of its parts.
LEMMA CreateColumnWellFormed ==
  ASSUME NEW w, WellFormed(w), NEW v \in w.views, NEW i \in 1..(Len(w.columns[v]) + 1),
         NEW col \in FreeColumns(w),
         NEW u, u = CreateColumn(w, v, i, col)
  PROVE  /\ WellFormed(u)
         /\ SameViews(w, u) /\ SameFrames(w, u)
         /\ \A c \in Columns : u.view_of[c] = IF c = col THEN v ELSE w.view_of[c]
BY CreatedColumn DEF ColumnCreated

\* The column that takes over the selection from one that is deleted.
Neighbour(s, col) ==
  LET i == Position(s, col)
  IN IF i > 1 THEN s[i - 1] ELSE IF Len(s) > 1 THEN s[2] ELSE None

\* The column that takes over the selection is one of the others, if there are any.
LEMMA NeighbourProperties ==
  ASSUME NEW s \in Seq(Columns), NEW S, Enumerates(s, S), NEW col \in S
  PROVE  Selects(Neighbour(s, col), S \ {col})
<1> DEFINE i == Position(s, col)
<1>1. /\ i \in 1..Len(s) /\ s[i] = col
      /\ \A j \in 1..Len(s) : s[j] \in S
      /\ Len(s) \in Nat
  BY EnumerationProperties
<1>2. \A j, k \in 1..Len(s) : j # k => s[j] # s[k]
  BY EnumerationIsInjective
<1>3. S = {s[j] : j \in 1..Len(s)}
  BY LenProperties DEF Enumerates, ToSet
<1>4. Neighbour(s, col) = IF i > 1 THEN s[i - 1] ELSE IF Len(s) > 1 THEN s[2] ELSE None
  BY DEF Neighbour
<1> HIDE DEF i
<1>5. CASE i > 1
  <2>1. i - 1 \in 1..Len(s) /\ i - 1 # i
    BY <1>1, <1>5
  <2>2. s[i - 1] \in S \ {col}
    BY <1>1, <1>2, <2>1
  <2>3. QED BY <1>4, <1>5, <2>2 DEF Selects
<1>6. CASE i = 1 /\ Len(s) > 1
  <2>1. 2 \in 1..Len(s)
    BY <1>1, <1>6
  <2>2. s[2] \in S \ {col}
    BY <1>1, <1>2, <1>6, <2>1
  <2>3. QED BY <1>4, <1>6, <2>2 DEF Selects
<1>7. CASE i = 1 /\ ~(Len(s) > 1)
  <2>1. \A j \in 1..Len(s) : j = i
    BY <1>1, <1>7
  <2>2. S \ {col} = {}
    BY <1>1, <1>3, <2>1
  <2>3. QED BY <1>4, <1>7, <2>2 DEF Selects
<1>8. QED BY <1>1, <1>5, <1>6, <1>7

\* Another column is selected if this one was.
LeaveColumn(w, col) ==
  LET v == w.view_of[col]
  IN IF col = w.selected_column[v] THEN SelectColumn(w, v, Neighbour(w.columns[v], col)) ELSE w

\* The column that `l' has left is no longer listed.
EraseColumn(l, v, i, col) ==
  [l EXCEPT !.columns[v] = RemoveAt(@, i), !.view_of[col] = None,
            !.todo_columns = @ \ {col}, !.todo_views = @ \cup {v}]

\* A column without frames leaves the tree in order, before its view goes.
LEMMA ErasedColumn ==
  ASSUME NEW w, WellFormed(w), NEW col \in Columns, w.view_of[col] # None,
         FramesIn(w, col) = {},
         NEW l, l = LeaveColumn(w, col),
         NEW x, x = EraseColumn(l, w.view_of[col], Position(w.columns[w.view_of[col]], col), col)
  PROVE  /\ WellFormed(x)
         /\ l \in Graph /\ SameLinks(w, l) /\ SameViews(w, l)
         /\ x.columns = [w.columns EXCEPT ![w.view_of[col]] =
                           RemoveAt(w.columns[w.view_of[col]],
                                    Position(w.columns[w.view_of[col]], col))]
         /\ x.view_of = [w.view_of EXCEPT ![col] = None]
         /\ SameViews(w, x) /\ SameFrames(w, x)
         /\ x.selected_column = l.selected_column /\ x.selected_frame = l.selected_frame
         /\ x.column_activity = w.column_activity
<1> DEFINE v == w.view_of[col]
           i == Position(w.columns[v], col)
           n == Neighbour(w.columns[v], col)
           list == RemoveAt(w.columns[v], i)
<1>0. /\ w \in Graph /\ WellLinked(w) /\ Selection(w) /\ NothingDangles(w)
      /\ w.columns \in [Views -> Seq(Columns)]
      /\ w.view_of \in [Columns -> OrNone(Views)]
      /\ v \in Views
      /\ Enumerates(w.columns[v], ColumnsOf(w, v)) /\ col \in ColumnsOf(w, v)
  <2>1. w \in Graph /\ WellLinked(w) /\ Selection(w) /\ NothingDangles(w)
    BY SelectionDoesNotDangle DEF WellFormed, WellLinked
  <2>2. v \in Views /\ w.columns \in [Views -> Seq(Columns)] /\ w.view_of \in [Columns -> OrNone(Views)]
    BY <2>1 DEF Graph, OrNone
  <2>3. QED BY <2>1, <2>2 DEF WellLinked, Tree, ColumnsOf
<1>1. /\ l = IF col = w.selected_column[v] THEN SelectColumn(w, v, n) ELSE w
      /\ x = [l EXCEPT !.columns[v] = RemoveAt(@, i), !.view_of[col] = None,
                       !.todo_columns = @ \ {col}, !.todo_views = @ \cup {v}]
  BY DEF LeaveColumn, EraseColumn
<1>2. Selects(n, ColumnsOf(w, v) \ {col})
  BY <1>0, NeighbourProperties
<1>3. RemoveAt(w.columns[v], i) \in Seq(Columns)
      /\ Enumerates(RemoveAt(w.columns[v], i), ColumnsOf(w, v) \ {col})
  BY <1>0, RemoveAtEnumeration
<1> HIDE DEF n
<1>4. /\ l \in Graph /\ WellLinked(l) /\ SameLinks(w, l) /\ SameViews(w, l)
      /\ \A c \in Columns : Selects(l.selected_frame[c], FramesIn(w, c))
      /\ \A z \in Views \ {v} : l.selected_column[z] = w.selected_column[z]
      /\ Selects(l.selected_column[v], ColumnsOf(w, v) \ {col})
  <2>1. CASE col = w.selected_column[v]
    <3>1. n \in OrNone(ColumnsOf(w, v))
      BY <1>2 DEF Selects, OrNone
    <3>2. l = SelectColumn(w, v, n)
      BY <1>1, <2>1
    <3> HIDE DEF v
    <3>3. /\ l \in Graph
          /\ SameLinks(w, l) /\ SameViews(w, l)
          /\ l.selected_column = [w.selected_column EXCEPT ![v] = n]
          /\ \A c \in Columns :
               l.selected_frame[c] # w.selected_frame[c] =>
                 /\ w.selected_frame[c] \in FramesIn(w, c)
                 /\ l.selected_frame[c] \in FramesIn(w, c)
      BY <1>0, <3>1, <3>2, SelectColumnEffect
    <3>4. WellLinked(l)
      BY <1>0, <3>3, SameLinksWellLinked DEF WellLinked, Tree, SameViews
    <3>5. \A c \in Columns : Selects(l.selected_frame[c], FramesIn(w, c))
      BY <1>0, <3>3 DEF Selection, Selects
    <3>6. w.selected_column \in [Views -> OrNone(Columns)]
      BY <1>0 DEF Graph
    <3>7. QED BY <1>0, <1>2, <3>3, <3>4, <3>5, <3>6
  <2>2. CASE col # w.selected_column[v]
    <3>1. Selects(w.selected_column[v], ColumnsOf(w, v))
      BY <1>0 DEF Selection
    <3>2. Selects(w.selected_column[v], ColumnsOf(w, v) \ {col})
      BY <1>0, <2>2, <3>1 DEF Selects
    <3>3. l = w
      BY <1>1, <2>2
    <3>4. \A c \in Columns : Selects(w.selected_frame[c], FramesIn(w, c))
      BY <1>0 DEF Selection
    <3> HIDE DEF v
    <3>5. QED BY <1>0, <3>2, <3>3, <3>4 DEF SameLinks, SameViews
  <2>3. QED BY <2>1, <2>2
<1>5. x = [l EXCEPT !.columns = [l.columns EXCEPT ![v] = list],
                    !.view_of = [l.view_of EXCEPT ![col] = None],
                    !.todo_columns = l.todo_columns \ {col},
                    !.todo_views = l.todo_views \cup {v}]
  BY <1>1, <1>4 DEF SameLinks, Graph
<1>5a. v = w.view_of[col] /\ i = Position(w.columns[v], col) /\ list = RemoveAt(w.columns[v], i)
  OBVIOUS
<1> HIDE DEF list, i, v
<1>6. /\ [l.columns EXCEPT ![v] = list] \in [Views -> Seq(Columns)]
      /\ [l.view_of EXCEPT ![col] = None] \in [Columns -> OrNone(Views)]
      /\ l.todo_columns \ {col} \in SUBSET Columns
      /\ l.todo_views \cup {v} \in SUBSET Views
  BY <1>0, <1>3, <1>4 DEF Graph, OrNone, list
<1>7. x \in Graph
  <2>1. [l EXCEPT !.columns = [l.columns EXCEPT ![v] = list],
                  !.view_of = [l.view_of EXCEPT ![col] = None],
                  !.todo_columns = l.todo_columns \ {col},
                  !.todo_views = l.todo_views \cup {v}] \in Graph
    BY ZenonT(60), <1>4, <1>6 DEF Graph
  <2>2. QED BY <1>5, <2>1
<1>8. /\ x.columns = [w.columns EXCEPT ![v] = list]
      /\ x.view_of = [w.view_of EXCEPT ![col] = None]
      /\ SameViews(w, x) /\ SameFrames(w, x)
      /\ x.selected_column = l.selected_column /\ x.selected_frame = l.selected_frame
      /\ x.activity = w.activity /\ x.view_activity = w.view_activity
      /\ x.column_activity = w.column_activity
  BY <1>4, <1>5 DEF Graph, SameViews, SameFrames, SameLinks
<1>9. /\ ColumnsOf(x, v) = ColumnsOf(w, v) \ {col}
      /\ \A z \in Views \ {v} : ColumnsOf(x, z) = ColumnsOf(w, z)
  <2>1. w.view_of[col] = v
    BY DEF v
  <2>2. \A c \in Columns : x.view_of[c] = IF c = col THEN None ELSE w.view_of[c]
    BY <1>0, <1>8
  <2>3. QED BY <2>1, <2>2, <1>0, NoneIsNeither DEF ColumnsOf
<1>10. /\ \A c : FramesIn(x, c) = FramesIn(w, c)
       /\ LiveFrames(x) = LiveFrames(w)
       /\ \A z : FramesOfView(x, z) = FramesOfView(w, z)
  BY SMTT(60), <1>8 DEF FramesIn, LiveFrames, FramesOfView, SameFrames
<1>11. Tree(x)
  <2>1. \A z \in Views : Enumerates(x.columns[z], ColumnsOf(x, z))
    <3>1. Enumerates(x.columns[v], ColumnsOf(x, v))
      BY <1>0, <1>3, <1>8, <1>9 DEF list
    <3>2. \A z \in Views \ {v} : Enumerates(x.columns[z], ColumnsOf(x, z))
      BY <1>0, <1>8, <1>9 DEF WellLinked, Tree
    <3>3. QED BY <3>1, <3>2
  <2>2. \A z \in Views \ x.views : ColumnsOf(x, z) = {}
    BY <1>0, <1>8, <1>9 DEF WellLinked, Tree, SameViews
  <2>3. \A c \in Columns : Enumerates(x.frames[c], FramesIn(x, c))
    BY <1>0, <1>8, <1>10 DEF WellLinked, Tree, SameFrames
  <2>4. ASSUME NEW f \in LiveFrames(x) PROVE x.view_of[x.column_of[f]] = ViewOf(f)
    <3>1. /\ f \in LiveFrames(w) /\ x.column_of[f] = w.column_of[f]
          /\ w.column_of[f] \in Columns
      BY SMTT(60), <1>0, <1>8, <1>10 DEF SameFrames, LiveFrames, Graph, OrNone
    <3>2. w.column_of[f] # col
      BY <3>1 DEF FramesIn, LiveFrames
    <3>3. w.view_of[w.column_of[f]] = ViewOf(f)
      BY <1>0, <3>1 DEF WellLinked, Tree
    <3>4. QED BY SMTT(60), <1>0, <1>8, <3>1, <3>2, <3>3
  <2>5. QED BY <2>1, <2>2, <2>3, <2>4 DEF Tree
<1>12. Histories(x)
  BY <1>0, <1>8, <1>10 DEF WellLinked, Histories
<1>13. Selection(x)
  <2>1. \A z \in Views : Selects(x.selected_column[z], ColumnsOf(x, z))
    <3>1. Selects(x.selected_column[v], ColumnsOf(x, v))
      BY <1>4, <1>8, <1>9
    <3>2. \A z \in Views \ {v} : Selects(x.selected_column[z], ColumnsOf(x, z))
      BY <1>0, <1>4, <1>8, <1>9 DEF Selection
    <3>3. QED BY <3>1, <3>2
  <2>2. \A c \in Columns : Selects(x.selected_frame[c], FramesIn(x, c))
    BY <1>4, <1>8, <1>10
  <2>3. x.selected_view \in OrNone(x.views)
    BY <1>0, <1>8 DEF Selection, SameViews
  <2>4. QED BY <2>1, <2>2, <2>3 DEF Selection
<1>14. WellLinked(x) /\ WellFormed(x)
  BY <1>7, <1>11, <1>12, <1>13 DEF WellLinked, WellFormed
<1>15. QED BY <1>4, <1>5a, <1>8, <1>14

\* ~WColumn of a column without frames.
LEMMA DeleteColumnWellFormed ==
  ASSUME NEW w, WellFormed(w), NEW col \in Columns, w.view_of[col] # None,
         FramesIn(w, col) = {},
         NEW u, u = DeleteColumn(w, col)
  PROVE  /\ WellFormed(u)
         /\ SameFrames(w, u)
         /\ u.selected_view = w.selected_view
         /\ u.views = w.views \/ u.views = w.views \ {w.view_of[col]}
         /\ u.view_of = [w.view_of EXCEPT ![col] = None]
         /\ w.view_of[col] \in u.views =>
              ColumnsOf(u, w.view_of[col]) # {} \/ w.view_of[col] = u.selected_view
<1> DEFINE v == w.view_of[col]
           i == Position(w.columns[v], col)
           n == Neighbour(w.columns[v], col)
           l == IF col = w.selected_column[v] THEN SelectColumn(w, v, n) ELSE w
           x == [l EXCEPT !.columns[v] = RemoveAt(@, i), !.view_of[col] = None,
                          !.todo_columns = @ \ {col}, !.todo_views = @ \cup {v}]
<1>0. /\ w \in Graph /\ WellLinked(w) /\ Selection(w) /\ NothingDangles(w)
      /\ w.columns \in [Views -> Seq(Columns)]
      /\ w.view_of \in [Columns -> OrNone(Views)]
      /\ v \in Views
      /\ Enumerates(w.columns[v], ColumnsOf(w, v)) /\ col \in ColumnsOf(w, v)
  <2>1. w \in Graph /\ WellLinked(w) /\ Selection(w) /\ NothingDangles(w)
    BY SelectionDoesNotDangle DEF WellFormed, WellLinked
  <2>2. v \in Views /\ w.columns \in [Views -> Seq(Columns)] /\ w.view_of \in [Columns -> OrNone(Views)]
    BY <2>1 DEF Graph, OrNone
  <2>3. QED BY <2>1, <2>2 DEF WellLinked, Tree, ColumnsOf
<1>1. u = IF x.columns[v] = <<>> /\ v # x.selected_view THEN DeleteView(x, v) ELSE x
  BY ZenonT(60) DEF DeleteColumn, Neighbour
<1>2. l = LeaveColumn(w, col)
  BY DEF LeaveColumn
<1>3. x = EraseColumn(l, v, i, col)
  BY DEF EraseColumn
<1> HIDE DEF l, x
<1>8. /\ WellFormed(x)
      /\ l \in Graph /\ SameLinks(w, l) /\ SameViews(w, l)
      /\ x.columns = [w.columns EXCEPT ![w.view_of[col]] =
                        RemoveAt(w.columns[w.view_of[col]],
                                 Position(w.columns[w.view_of[col]], col))]
      /\ x.view_of = [w.view_of EXCEPT ![col] = None]
      /\ SameViews(w, x) /\ SameFrames(w, x)
      /\ x.selected_column = l.selected_column /\ x.selected_frame = l.selected_frame
      /\ x.column_activity = w.column_activity
  BY <1>2, <1>3, ErasedColumn
<1> HIDE DEF v
<1>14. WellLinked(x)
  BY <1>8 DEF WellFormed
<1>15. CASE x.columns[v] = <<>> /\ v # x.selected_view
  <2>1. ColumnsOf(x, v) = {}
    BY <1>0, <1>14, <1>15, NoColumns
  <2>2. u = DeleteView(x, v)
    BY <1>1, <1>15
  <2>3. WellFormed(u) /\ SameLinks(x, u) /\ u.views = x.views \ {v}
        /\ u.selected_view = x.selected_view
    BY <1>0, <1>8, <1>15, <2>1, <2>2, DeleteViewWellFormed
  <2>4. QED BY <1>8, <2>3 DEF SameLinks, SameViews, SameFrames, v
<1>16. CASE ~(x.columns[v] = <<>> /\ v # x.selected_view)
  <2>1. u = x
    BY <1>1, <1>16
  <2>2. ColumnsOf(x, v) # {} \/ v = x.selected_view
    BY <1>0, <1>14, <1>16, NoColumns
  <2>3. QED BY <1>8, <1>14, <2>1, <2>2 DEF SameViews, SameFrames, v
<1>17. QED BY <1>15, <1>16

-----------------------------------------------------------------------------
(* Frames.                                                                 *)

\* What the activity lists of a view and of a column are to the list of the WM.
LEMMA HistoryParts ==
  ASSUME NEW w, WellLinked(w)
  PROVE  /\ w.activity \in Seq(Frames) /\ Enumerates(w.activity, LiveFrames(w))
         /\ \A z \in Views :
              /\ w.view_activity[z] \in Seq(Frames)
              /\ Enumerates(w.view_activity[z], FramesOfView(w, z))
              /\ FramesOfView(w, z) \subseteq LiveFrames(w)
              /\ InOrderOf(w.view_activity[z], w.activity)
         /\ \A c \in Columns :
              /\ w.column_activity[c] \in Seq(Frames)
              /\ Enumerates(w.column_activity[c], FramesIn(w, c))
              /\ FramesIn(w, c) \subseteq LiveFrames(w)
              /\ InOrderOf(w.column_activity[c], w.activity)
BY NoneIsNeither DEF WellLinked, Graph, Histories, FramesOfView, FramesIn, LiveFrames

\* The new frame is listed.
InsertFrame(w, f, col, i) ==
  [w EXCEPT !.column_of[f] = col,
            !.frames[col] = InsertAt(@, i, f),
            !.column_activity[col] = <<f>> \o @,
            !.view_activity[ViewOf(f)] = <<f>> \o @,
            !.activity = <<f>> \o @]

\* A new frame keeps the tree together, before it is selected.
LEMMA InsertedFrame ==
  ASSUME NEW w, WellFormed(w), NEW f \in Frames \ LiveFrames(w),
         NEW col \in Columns, w.view_of[col] = ViewOf(f),
         NEW i \in 1..(Len(w.frames[col]) + 1),
         NEW x, x = InsertFrame(w, f, col, i)
  PROVE  /\ WellLinked(x)
         /\ x.column_of = [w.column_of EXCEPT ![f] = col]
         /\ x.frames = [w.frames EXCEPT ![col] = InsertAt(w.frames[col], i, f)]
         /\ x.column_activity = [w.column_activity EXCEPT ![col] = <<f>> \o w.column_activity[col]]
         /\ SameViews(w, x) /\ x.marked = w.marked
         /\ x.columns = w.columns /\ x.view_of = w.view_of
         /\ x.selected_column = w.selected_column /\ x.selected_frame = w.selected_frame
         /\ FramesIn(x, col) = FramesIn(w, col) \cup {f}
         /\ \A z \in Views : Selects(x.selected_column[z], ColumnsOf(x, z))
         /\ \A c \in Columns \ {col} : Selects(x.selected_frame[c], FramesIn(x, c))
         /\ x.selected_view \in OrNone(x.views)
         /\ Selects(w.selected_frame[col], FramesIn(w, col))
         /\ w.selected_frame[col] = None => NothingDangles(x)
<1> DEFINE v == ViewOf(f)
           list == InsertAt(w.frames[col], i, f)
           ca == <<f>> \o w.column_activity[col]
           va == <<f>> \o w.view_activity[v]
           a == <<f>> \o w.activity
<1>0. /\ w \in Graph /\ WellLinked(w) /\ Tree(w) /\ Histories(w) /\ Selection(w)
      /\ v \in Views
      /\ w.column_of \in [Frames -> OrNone(Columns)]
      /\ w.frames \in [Columns -> Seq(Frames)]
      /\ w.column_activity \in [Columns -> Seq(Frames)]
      /\ w.view_activity \in [Views -> Seq(Frames)]
      /\ w.activity \in Seq(Frames)
      /\ w.selected_frame \in [Columns -> OrNone(Frames)]
  BY FrameParts DEF WellFormed, WellLinked, Graph
<1>1. f \in Frames /\ w.column_of[f] = None
  BY DEF LiveFrames
<1>2. x = [w EXCEPT !.column_of[f] = col, !.frames[col] = list,
                     !.column_activity[col] = ca, !.view_activity[v] = va,
                     !.activity = a]
  BY <1>0 DEF InsertFrame, Graph
<1>3. list \in Seq(Frames) /\ Enumerates(list, FramesIn(w, col) \cup {f})
  <2>1. f \notin FramesIn(w, col)
    BY <1>1, NoneIsNeither DEF FramesIn
  <2>2. w.frames[col] \in Seq(Frames) /\ Enumerates(w.frames[col], FramesIn(w, col))
    BY <1>0 DEF Tree
  <2>3. QED BY <1>1, <2>1, <2>2, InsertEnumeration
<1>4. ca \in Seq(Frames) /\ Enumerates(ca, FramesIn(w, col) \cup {f})
  <2>1. f \notin FramesIn(w, col)
    BY <1>1, NoneIsNeither DEF FramesIn
  <2>2. w.column_activity[col] \in Seq(Frames)
        /\ Enumerates(w.column_activity[col], FramesIn(w, col))
    BY <1>0 DEF Histories
  <2>3. QED BY <1>1, <2>1, <2>2, PushEnumeration
<1>5. va \in Seq(Frames) /\ Enumerates(va, FramesOfView(w, v) \cup {f})
  <2>1. f \notin FramesOfView(w, v)
    BY <1>1 DEF FramesOfView, LiveFrames
  <2>2. w.view_activity[v] \in Seq(Frames)
        /\ Enumerates(w.view_activity[v], FramesOfView(w, v))
    BY <1>0 DEF Histories
  <2>3. QED BY <1>1, <2>1, <2>2, PushEnumeration
<1>6. a \in Seq(Frames) /\ Enumerates(a, LiveFrames(w) \cup {f})
  <2>1. f \notin LiveFrames(w)
    OBVIOUS
  <2>2. w.activity \in Seq(Frames) /\ Enumerates(w.activity, LiveFrames(w))
    BY <1>0 DEF Histories
  <2>3. QED BY <1>1, <2>1, <2>2, PushEnumeration
<1>6a. /\ InOrderOf(va, a)
       /\ \A z \in Views \ {v} : InOrderOf(w.view_activity[z], a)
       /\ InOrderOf(ca, a)
       /\ \A c \in Columns \ {col} : InOrderOf(w.column_activity[c], a)
  <2>1. f \notin LiveFrames(w)
    OBVIOUS
  <2>2. \A z \in Views : InOrderOf(w.view_activity[z], a)
                         /\ InOrderOf(<<f>> \o w.view_activity[z], a)
    BY <1>0, <1>1, <2>1, HistoryParts, PushInOrder
  <2>3. \A c \in Columns : InOrderOf(w.column_activity[c], a)
                           /\ InOrderOf(<<f>> \o w.column_activity[c], a)
    BY <1>0, <1>1, <2>1, HistoryParts, PushInOrder
  <2>4. QED BY <1>0, <2>2, <2>3
<1>6b. list = InsertAt(w.frames[col], i, f) /\ ca = <<f>> \o w.column_activity[col]
  OBVIOUS
<1> HIDE DEF list, ca, va, a, v
<1>7. /\ [w.column_of EXCEPT ![f] = col] \in [Frames -> OrNone(Columns)]
      /\ [w.frames EXCEPT ![col] = list] \in [Columns -> Seq(Frames)]
      /\ [w.column_activity EXCEPT ![col] = ca] \in [Columns -> Seq(Frames)]
      /\ [w.view_activity EXCEPT ![v] = va] \in [Views -> Seq(Frames)]
  BY <1>0, <1>1, <1>3, <1>4, <1>5 DEF OrNone
<1>8. x \in Graph
  <2>1. [w EXCEPT !.column_of = [w.column_of EXCEPT ![f] = col],
                  !.frames = [w.frames EXCEPT ![col] = list],
                  !.column_activity = [w.column_activity EXCEPT ![col] = ca],
                  !.view_activity = [w.view_activity EXCEPT ![v] = va],
                  !.activity = a] \in Graph
    BY <1>0, <1>6, <1>7, Zenon DEF Graph
  <2>2. QED BY <1>2, <2>1
<1>9. /\ x.column_of = [w.column_of EXCEPT ![f] = col]
      /\ x.frames = [w.frames EXCEPT ![col] = list]
      /\ x.column_activity = [w.column_activity EXCEPT ![col] = ca]
      /\ x.view_activity = [w.view_activity EXCEPT ![v] = va]
      /\ x.activity = a
      /\ SameViews(w, x) /\ x.marked = w.marked
      /\ x.columns = w.columns /\ x.view_of = w.view_of
      /\ x.selected_column = w.selected_column /\ x.selected_frame = w.selected_frame
  BY <1>0, <1>2 DEF Graph, SameViews
<1>10. \A g \in Frames : x.column_of[g] = IF g = f THEN col ELSE w.column_of[g]
  BY <1>0, <1>9
<1>11. /\ FramesIn(x, col) = FramesIn(w, col) \cup {f}
       /\ \A c \in Columns \ {col} : FramesIn(x, c) = FramesIn(w, c)
       /\ LiveFrames(x) = LiveFrames(w) \cup {f}
  BY <1>1, <1>10, NoneIsNeither DEF FramesIn, LiveFrames
<1>12. /\ FramesOfView(x, v) = FramesOfView(w, v) \cup {f}
       /\ \A z \in Views \ {v} : FramesOfView(x, z) = FramesOfView(w, z)
       /\ \A z : ColumnsOf(x, z) = ColumnsOf(w, z)
  BY <1>9, <1>11 DEF FramesOfView, ColumnsOf, v
<1>13. Tree(x)
  <2>1. \A z \in Views : Enumerates(x.columns[z], ColumnsOf(x, z))
    BY <1>0, <1>9, <1>12 DEF Tree
  <2>2. \A z \in Views \ x.views : ColumnsOf(x, z) = {}
    BY <1>0, <1>9, <1>12 DEF Tree, SameViews
  <2>3. \A c \in Columns : Enumerates(x.frames[c], FramesIn(x, c))
    <3>1. Enumerates(x.frames[col], FramesIn(x, col))
      BY <1>0, <1>3, <1>9, <1>11
    <3>2. \A c \in Columns \ {col} : Enumerates(x.frames[c], FramesIn(x, c))
      BY <1>0, <1>9, <1>11 DEF Tree
    <3>3. QED BY <3>1, <3>2
  <2>4. ASSUME NEW g \in LiveFrames(x) PROVE x.view_of[x.column_of[g]] = ViewOf(g)
    <3>1. CASE g = f
      BY <1>1, <1>9, <1>10, <3>1
    <3>2. CASE g # f
      <4>1. g \in LiveFrames(w) /\ g \in Frames
        BY <1>11, <3>2 DEF LiveFrames
      <4>2. w.view_of[w.column_of[g]] = ViewOf(g)
        BY <1>0, <4>1 DEF Tree
      <4>3. QED BY <1>9, <1>10, <3>2, <4>1, <4>2
    <3>3. QED BY <3>1, <3>2
  <2>5. QED BY <2>1, <2>2, <2>3, <2>4 DEF Tree
<1>14. Histories(x)
  <2>1. Enumerates(x.activity, LiveFrames(x))
    BY <1>6, <1>9, <1>11
  <2>2. \A z \in Views : Enumerates(x.view_activity[z], FramesOfView(x, z))
    <3>1. Enumerates(x.view_activity[v], FramesOfView(x, v))
      BY <1>0, <1>5, <1>9, <1>12
    <3>2. \A z \in Views \ {v} : Enumerates(x.view_activity[z], FramesOfView(x, z))
      BY <1>0, <1>9, <1>12 DEF Histories
    <3>3. QED BY <3>1, <3>2
  <2>3. \A c \in Columns : Enumerates(x.column_activity[c], FramesIn(x, c))
    <3>1. Enumerates(x.column_activity[col], FramesIn(x, col))
      BY <1>0, <1>4, <1>9, <1>11
    <3>2. \A c \in Columns \ {col} : Enumerates(x.column_activity[c], FramesIn(x, c))
      BY <1>0, <1>9, <1>11 DEF Histories
    <3>3. QED BY <3>1, <3>2
  <2>4. \A z \in Views : InOrderOf(x.view_activity[z], x.activity)
    BY <1>0, <1>6a, <1>9
  <2>5. \A c \in Columns : InOrderOf(x.column_activity[c], x.activity)
    BY <1>0, <1>6a, <1>9
  <2>6. QED BY <2>1, <2>2, <2>3, <2>4, <2>5 DEF Histories
<1>15. WellLinked(x)
  BY <1>8, <1>13, <1>14 DEF WellLinked
<1>16. /\ \A z \in Views : Selects(x.selected_column[z], ColumnsOf(x, z))
       /\ \A c \in Columns \ {col} : Selects(x.selected_frame[c], FramesIn(x, c))
       /\ x.selected_view \in OrNone(x.views)
       /\ Selects(w.selected_frame[col], FramesIn(w, col))
  BY <1>0, <1>9, <1>11, <1>12 DEF Selection, SameViews
<1>17. w.selected_frame[col] = None => NothingDangles(x)
  BY <1>9, <1>16 DEF NothingDangles, Selects, OrNone
<1>18. QED BY <1>6b, <1>9, <1>11, <1>15, <1>16, <1>17

\* WColumn::add_frame of a frame that its client does not have in that view yet.
LEMMA AddFrameWellFormed ==
  ASSUME NEW w, WellFormed(w), NEW f \in Frames \ LiveFrames(w),
         NEW col \in Columns, w.view_of[col] = ViewOf(f),
         NEW i \in 1..(Len(w.frames[col]) + 1),
         NEW u, u = AddFrame(w, f, col, i)
  PROVE  /\ WellFormed(u)
         /\ SameViews(w, u)
         /\ u.columns = w.columns /\ u.view_of = w.view_of
         /\ u.column_of = [w.column_of EXCEPT ![f] = col]
         /\ u.marked = w.marked
<1> DEFINE v == ViewOf(f)
           list == InsertAt(w.frames[col], i, f)
           ca == <<f>> \o w.column_activity[col]
           va == <<f>> \o w.view_activity[v]
           a == <<f>> \o w.activity
           x == [w EXCEPT !.column_of[f] = col, !.frames[col] = list,
                          !.column_activity[col] = ca, !.view_activity[v] = va,
                          !.activity = a]
           y == IF w.selected_frame[col] = None THEN SelectFrameInColumn(x, col, f) ELSE x
<1>0. /\ w \in Graph /\ WellLinked(w) /\ Tree(w) /\ Histories(w) /\ Selection(w)
      /\ v \in Views
      /\ w.column_of \in [Frames -> OrNone(Columns)]
      /\ w.frames \in [Columns -> Seq(Frames)]
      /\ w.column_activity \in [Columns -> Seq(Frames)]
      /\ w.view_activity \in [Views -> Seq(Frames)]
      /\ w.activity \in Seq(Frames)
      /\ w.selected_frame \in [Columns -> OrNone(Frames)]
  BY FrameParts DEF WellFormed, WellLinked, Graph
<1>1. f \in Frames /\ w.column_of[f] = None
  BY DEF LiveFrames
<1>2. u = ScheduleColumn(y, col)
  BY DEF AddFrame
<1>3. x = InsertFrame(w, f, col, i)
  BY DEF InsertFrame
<1> HIDE DEF list, ca, va, a, v, x
<1>9. /\ WellLinked(x)
      /\ x.column_of = [w.column_of EXCEPT ![f] = col]
      /\ x.frames = [w.frames EXCEPT ![col] = InsertAt(w.frames[col], i, f)]
      /\ x.column_activity = [w.column_activity EXCEPT ![col] = <<f>> \o w.column_activity[col]]
      /\ SameViews(w, x) /\ x.marked = w.marked
      /\ x.columns = w.columns /\ x.view_of = w.view_of
      /\ x.selected_column = w.selected_column /\ x.selected_frame = w.selected_frame
      /\ FramesIn(x, col) = FramesIn(w, col) \cup {f}
      /\ \A z \in Views : Selects(x.selected_column[z], ColumnsOf(x, z))
      /\ \A c \in Columns \ {col} : Selects(x.selected_frame[c], FramesIn(x, c))
      /\ x.selected_view \in OrNone(x.views)
      /\ Selects(w.selected_frame[col], FramesIn(w, col))
      /\ w.selected_frame[col] = None => NothingDangles(x)
  BY <1>3, InsertedFrame
<1>17. WellFormed(y) /\ SameLinks(x, y) /\ SameViews(x, y)
  <2>1. CASE w.selected_frame[col] = None
    <3>1. NothingDangles(x)
      BY <1>9, <2>1
    <3>2. f \in OrNone(Frames)
      BY <1>1 DEF OrNone
    <3>3. y = SelectFrameInColumn(x, col, f)
      BY <2>1
    <3> HIDE DEF y
    <3>4. /\ y \in Graph
          /\ SameLinks(x, y) /\ SameViews(x, y)
          /\ y.selected_column = x.selected_column
          /\ y.selected_frame = [x.selected_frame EXCEPT ![col] = f]
      BY <1>9, <3>1, <3>2, <3>3, SelectFrameInColumnEffect
    <3>5. WellLinked(y)
      BY <1>9, <3>4, SameLinksWellLinked DEF WellLinked, Tree, SameViews
    <3>6. /\ \A z : ColumnsOf(y, z) = ColumnsOf(x, z)
          /\ \A c : FramesIn(y, c) = FramesIn(x, c)
      BY <3>4, SameSets DEF SameLinks
    <3>7. \A c \in Columns : y.selected_frame[c] = IF c = col THEN f ELSE x.selected_frame[c]
      BY <1>0, <1>9, <3>4
    <3>8. Selects(y.selected_frame[col], FramesIn(y, col))
      BY <1>9, <3>6, <3>7 DEF Selects
    <3>9. Selection(y)
      BY <1>9, <3>4, <3>6, <3>7, <3>8 DEF Selection, SameViews
    <3>10. QED BY <3>4, <3>5, <3>9 DEF WellFormed
  <2>2. CASE w.selected_frame[col] # None
    <3>1. y = x
      BY <2>2
    <3>2. Selects(x.selected_frame[col], FramesIn(x, col))
      BY <1>9, <2>2 DEF Selects
    <3>3. Selection(x)
      BY <1>9, <3>2 DEF Selection
    <3>4. QED BY <1>9, <3>1, <3>3 DEF WellFormed, SameLinks, SameViews
  <2>3. QED BY <2>1, <2>2
<1> HIDE DEF y
<1>18. Schedules(y, u)
  BY <1>2, <1>17, ScheduleColumnEffect DEF WellFormed, WellLinked
<1>19. WellFormed(u)
  BY <1>17, <1>18, SchedulesWellFormed
<1>20. QED BY <1>9, <1>17, <1>18, <1>19 DEF Schedules, SameLinks, SameViews

\* The place just after the selected object, or the end, is a place in the list.
LEMMA AfterProperties ==
  ASSUME NEW T, None \notin T, NEW s \in Seq(T), NEW S, Enumerates(s, S), NEW p, Selects(p, S)
  PROVE  After(s, p) \in 1..(Len(s) + 1)
<1>1. Len(s) \in Nat /\ S \subseteq T
  BY EnumerationProperties
<1>2. CASE p = None
  BY <1>1, <1>2 DEF After
<1>3. CASE p # None
  <2>1. p \in S
    BY <1>3 DEF Selects
  <2>2. Position(s, p) \in 1..Len(s)
    BY <2>1, EnumerationProperties
  <2>3. QED BY <1>1, <1>3, <2>2 DEF After
<1>4. QED BY <1>2, <1>3

\* WColumn::add_frame(frame), after the selected frame.
LEMMA AddFrameAfterSelectedWellFormed ==
  ASSUME NEW w, WellFormed(w), NEW f \in Frames \ LiveFrames(w),
         NEW col \in Columns, w.view_of[col] = ViewOf(f),
         NEW u, u = AddFrameAfterSelected(w, f, col)
  PROVE  /\ WellFormed(u)
         /\ SameViews(w, u)
         /\ u.columns = w.columns /\ u.view_of = w.view_of
         /\ u.column_of = [w.column_of EXCEPT ![f] = col]
         /\ u.marked = w.marked
<1> DEFINE i == After(w.frames[col], w.selected_frame[col])
<1>1. /\ w.frames[col] \in Seq(Frames)
      /\ Enumerates(w.frames[col], FramesIn(w, col))
      /\ Selects(w.selected_frame[col], FramesIn(w, col))
  BY DEF WellFormed, WellLinked, Graph, Tree, Selection
<1>2. i \in 1..(Len(w.frames[col]) + 1)
  BY <1>1, AfterProperties, NoneIsNeither
<1>3. u = AddFrame(w, f, col, i)
  BY DEF AddFrameAfterSelected
<1> HIDE DEF i
<1>4. QED BY <1>2, <1>3, AddFrameWellFormed

\* A change to the attributes of frames and nothing else.
Repaints(w, u) ==
  /\ u \in Graph
  /\ SameViews(w, u)
  /\ u.columns = w.columns /\ u.view_of = w.view_of /\ u.frames = w.frames
  /\ u.column_of = w.column_of
  /\ u.activity = w.activity
  /\ u.view_activity = w.view_activity /\ u.column_activity = w.column_activity
  /\ u.selected_column = w.selected_column /\ u.selected_frame = w.selected_frame

\* Attributes of frames are linked to nothing.
LEMMA RepaintsWellFormed ==
  ASSUME NEW w, WellFormed(w), NEW u, Repaints(w, u)
  PROVE  WellFormed(u)
<1>1. Tree(w) /\ Histories(w) /\ Selection(w)
  BY DEF WellFormed, WellLinked
<1>2. /\ \A x : ColumnsOf(u, x) = ColumnsOf(w, x)
      /\ \A c : FramesIn(u, c) = FramesIn(w, c)
      /\ LiveFrames(u) = LiveFrames(w)
      /\ \A x : FramesOfView(u, x) = FramesOfView(w, x)
  BY SameSets DEF Repaints
<1>3. Tree(u)
  BY <1>1, <1>2 DEF Tree, Repaints, SameViews
<1>4. Histories(u)
  BY <1>1, <1>2 DEF Histories, Repaints
<1>5. Selection(u)
  BY <1>1, <1>2 DEF Selection, Repaints, SameViews
<1>6. QED BY <1>3, <1>4, <1>5 DEF WellFormed, WellLinked, Repaints

\* Any new attributes do.
Repaint(w, s, d, m) == [w EXCEPT !.shaded = s, !.decorated = d, !.marked = m]

\* Any sets of shaded, decorated and marked frames will do.
LEMMA NewAttributes ==
  ASSUME NEW w \in Graph, NEW s \in SUBSET Frames, NEW d \in SUBSET Frames,
         NEW m \in SUBSET Frames
  PROVE  Repaints(w, Repaint(w, s, d, m)) /\ Repaint(w, s, d, m).marked = m
<1> DEFINE u == Repaint(w, s, d, m)
<1>1. u \in Graph
  BY Zenon DEF Graph, Repaint
<1>2. /\ SameViews(w, u)
      /\ u.columns = w.columns /\ u.view_of = w.view_of /\ u.frames = w.frames
      /\ u.column_of = w.column_of /\ u.marked = m
      /\ u.activity = w.activity
      /\ u.view_activity = w.view_activity /\ u.column_activity = w.column_activity
      /\ u.selected_column = w.selected_column /\ u.selected_frame = w.selected_frame
  BY DEF Graph, SameViews, Repaint
<1> HIDE DEF u
<1>3. QED BY <1>1, <1>2 DEF Repaints, u

\* A frame made for a client.
LEMMA NewFrameEffect ==
  ASSUME NEW w \in Graph, NEW f \in Frames
  PROVE  Repaints(w, NewFrame(w, f)) /\ NewFrame(w, f).marked = w.marked \ {f}
<1> DEFINE s == w.shaded \ {f}
           d == w.decorated \cup {f}
           m == w.marked \ {f}
<1>1. NewFrame(w, f) = Repaint(w, s, d, m)
  BY DEF NewFrame, Repaint, Graph
<1>2. s \in SUBSET Frames /\ d \in SUBSET Frames /\ m \in SUBSET Frames
  BY DEF Graph
<1>3. m = w.marked \ {f}
  OBVIOUS
<1> HIDE DEF s, d, m
<1>4. QED BY <1>1, <1>2, <1>3, NewAttributes

\* A removed frame on its way to another view.
LEMMA CarryFrameEffect ==
  ASSUME NEW w \in Graph, NEW f \in Frames, NEW g \in Frames
  PROVE  /\ Repaints(w, CarryFrame(w, f, g))
         /\ CarryFrame(w, f, g).marked = Rename(w.marked, f, g)
<1> DEFINE s == Rename(w.shaded, f, g)
           d == Rename(w.decorated, f, g)
           m == Rename(w.marked, f, g)
<1>1. CarryFrame(w, f, g) = Repaint(w, s, d, m)
  BY DEF CarryFrame, Repaint, Graph
<1>2. s \in SUBSET Frames /\ d \in SUBSET Frames /\ m \in SUBSET Frames
  BY DEF Graph, Rename
<1>3. m = Rename(w.marked, f, g)
  OBVIOUS
<1> HIDE DEF s, d, m
<1>4. QED BY <1>1, <1>2, <1>3, NewAttributes

\* The frame that takes over the selection of a column from one that leaves.
Successor(s, f) ==
  IF Len(s) = 1 THEN None ELSE IF s[1] = f THEN s[2] ELSE s[1]

\* The frame that takes over the selection is one of the others of its column, if
\* there are any.
LEMMA SuccessorProperties ==
  ASSUME NEW s \in Seq(Frames), NEW S, Enumerates(s, S), NEW f \in S
  PROVE  Selects(Successor(s, f), S \ {f})
<1>1. /\ \A j \in 1..Len(s) : s[j] \in S
      /\ Len(s) \in Nat
      /\ Position(s, f) \in 1..Len(s) /\ s[Position(s, f)] = f
  BY EnumerationProperties
<1>2. \A j, k \in 1..Len(s) : j # k => s[j] # s[k]
  BY EnumerationIsInjective
<1>3. S = {s[j] : j \in 1..Len(s)}
  BY LenProperties DEF Enumerates, ToSet
<1>4. CASE Len(s) = 1
  <2>1. \A j \in 1..Len(s) : j = Position(s, f)
    BY <1>1, <1>4
  <2>2. S \ {f} = {}
    BY <1>1, <1>3, <2>1
  <2>3. QED BY <1>4, <2>2 DEF Selects, Successor
<1>5. CASE Len(s) # 1
  <2>1. 1 \in 1..Len(s) /\ 2 \in 1..Len(s)
    <3>1. \A n \in Nat : \A p \in 1..n : n # 1 => 1 \in 1..n /\ 2 \in 1..n
      OBVIOUS
    <3>2. QED BY <1>1, <1>5, <3>1
  <2>2. s[1] \in S /\ s[2] \in S /\ s[1] # s[2]
    BY <1>1, <1>2, <2>1
  <2>3. QED BY <1>5, <2>2 DEF Selects, Successor
<1>6. QED BY <1>4, <1>5

\* Another frame is selected in the column if this one was.
LeaveFrame(w, f) ==
  LET col == w.column_of[f]
  IN IF w.selected_frame[col] = f
     THEN SelectFrameInColumn(w, col, Successor(w.column_activity[col], f)) ELSE w

AskForErased(l, f, col) == ScheduleColumn(ScheduleTask(l, ClientOf(f), "update_server"), col)

\* The frame that `l' has left is no longer listed.
EraseFrame(d, f, col) ==
  [d EXCEPT !.column_of[f] = None,
            !.frames[col] = Erase(@, f),
            !.column_activity[col] = Erase(@, f),
            !.view_activity[ViewOf(f)] = Erase(@, f),
            !.activity = Erase(@, f)]

\* A frame leaves the tree in order, before its column goes.
LEMMA ErasedFrame ==
  ASSUME NEW w, WellFormed(w), NEW f \in LiveFrames(w),
         NEW l, l = LeaveFrame(w, f),
         NEW d, d = AskForErased(l, f, w.column_of[f]),
         NEW x, x = EraseFrame(d, f, w.column_of[f])
  PROVE  /\ WellFormed(x)
         /\ l \in Graph /\ SameLinks(w, l) /\ SameViews(w, l)
         /\ Schedules(l, d)
         /\ x.column_of = [w.column_of EXCEPT ![f] = None]
         /\ x.frames = [w.frames EXCEPT ![w.column_of[f]] = Erase(w.frames[w.column_of[f]], f)]
         /\ x.column_activity = [w.column_activity EXCEPT ![w.column_of[f]] =
                                   Erase(w.column_activity[w.column_of[f]], f)]
         /\ SameViews(w, x) /\ x.marked = w.marked
         /\ x.columns = w.columns /\ x.view_of = w.view_of
         /\ x.selected_column = w.selected_column /\ x.selected_frame = l.selected_frame
<1> DEFINE col == w.column_of[f]
           v == ViewOf(f)
           succ == Successor(w.column_activity[col], f)
           k == ScheduleTask(l, ClientOf(f), "update_server")
           list == Erase(w.frames[col], f)
           ca == Erase(w.column_activity[col], f)
           va == Erase(w.view_activity[v], f)
           a == Erase(w.activity, f)
<1>0. /\ w \in Graph /\ WellLinked(w) /\ Tree(w) /\ Histories(w) /\ Selection(w)
      /\ NothingDangles(w)
      /\ f \in Frames /\ v \in Views /\ ClientOf(f) \in Clients
      /\ col \in Columns /\ col # None /\ w.view_of[col] = v
      /\ w.column_of \in [Frames -> OrNone(Columns)]
      /\ w.frames \in [Columns -> Seq(Frames)]
      /\ w.column_activity \in [Columns -> Seq(Frames)]
      /\ w.view_activity \in [Views -> Seq(Frames)]
      /\ w.activity \in Seq(Frames)
      /\ w.selected_frame \in [Columns -> OrNone(Frames)]
  <2>1. w \in Graph /\ WellLinked(w) /\ Tree(w) /\ Histories(w) /\ Selection(w)
        /\ NothingDangles(w)
    BY SelectionDoesNotDangle DEF WellFormed, WellLinked
  <2>2. f \in Frames /\ v \in Views /\ ClientOf(f) \in Clients
    BY FrameParts DEF LiveFrames
  <2>3. col \in Columns /\ col # None
    BY <2>1, <2>2 DEF Graph, LiveFrames, OrNone
  <2>4. w.view_of[col] = v
    BY <2>1 DEF Tree
  <2>5. QED BY <2>1, <2>2, <2>3, <2>4 DEF Graph
<1>1. f \in FramesIn(w, col) /\ f \in FramesOfView(w, v)
  BY <1>0 DEF FramesIn, FramesOfView
<1>2. /\ l = IF w.selected_frame[col] = f THEN SelectFrameInColumn(w, col, succ) ELSE w
      /\ d = ScheduleColumn(k, col)
      /\ x = [d EXCEPT !.column_of[f] = None, !.frames[col] = Erase(@, f),
                       !.column_activity[col] = Erase(@, f),
                       !.view_activity[v] = Erase(@, f),
                       !.activity = Erase(@, f)]
  BY DEF LeaveFrame, AskForErased, EraseFrame
<1>3. list \in Seq(Frames) /\ Enumerates(list, FramesIn(w, col) \ {f})
  BY <1>0, <1>1, EraseEnumeration DEF Tree
<1>4. ca \in Seq(Frames) /\ Enumerates(ca, FramesIn(w, col) \ {f})
  BY <1>0, <1>1, EraseEnumeration DEF Histories
<1>5. va \in Seq(Frames) /\ Enumerates(va, FramesOfView(w, v) \ {f})
  BY <1>0, <1>1, EraseEnumeration DEF Histories
<1>6. a \in Seq(Frames) /\ Enumerates(a, LiveFrames(w) \ {f})
  BY <1>0, EraseEnumeration DEF Histories
<1>7. Selects(succ, FramesIn(w, col) \ {f})
  BY <1>0, <1>1, SuccessorProperties DEF Histories
<1>7a. /\ InOrderOf(va, a)
       /\ \A z \in Views \ {v} : InOrderOf(w.view_activity[z], a)
       /\ InOrderOf(ca, a)
       /\ \A c \in Columns \ {col} : InOrderOf(w.column_activity[c], a)
  <2>1. \A z \in Views : IF f \in FramesOfView(w, z) THEN InOrderOf(Erase(w.view_activity[z], f), a)
                         ELSE InOrderOf(w.view_activity[z], a)
    BY ZenonT(30), <1>0, HistoryParts, EraseInOrder
  <2>2. \A c \in Columns : IF f \in FramesIn(w, c) THEN InOrderOf(Erase(w.column_activity[c], f), a)
                           ELSE InOrderOf(w.column_activity[c], a)
    BY ZenonT(30), <1>0, HistoryParts, EraseInOrder
  <2>3. \A z \in Views \ {v} : f \notin FramesOfView(w, z)
    BY DEF FramesOfView
  <2>4. \A c \in Columns \ {col} : f \notin FramesIn(w, c)
    BY DEF FramesIn
  <2>5. QED BY <1>0, <1>1, <2>1, <2>2, <2>3, <2>4
<1>7b. col = w.column_of[f]
  OBVIOUS
<1> HIDE DEF succ, col, v
<1>8. /\ l \in Graph /\ SameLinks(w, l) /\ SameViews(w, l)
      /\ l.selected_column = w.selected_column
      /\ \A c \in Columns \ {col} : l.selected_frame[c] = w.selected_frame[c]
      /\ Selects(l.selected_frame[col], FramesIn(w, col) \ {f})
  <2>1. CASE w.selected_frame[col] = f
    <3>1. succ \in OrNone(Frames)
      BY <1>7 DEF Selects, OrNone, FramesIn
    <3>2. l = SelectFrameInColumn(w, col, succ)
      BY <1>2, <2>1
    <3>3. /\ l \in Graph
          /\ SameLinks(w, l) /\ SameViews(w, l)
          /\ l.selected_column = w.selected_column
          /\ l.selected_frame = [w.selected_frame EXCEPT ![col] = succ]
      BY <1>0, <3>1, <3>2, SelectFrameInColumnEffect
    <3>4. QED BY <1>0, <1>7, <3>3
  <2>2. CASE w.selected_frame[col] # f
    <3>1. Selects(w.selected_frame[col], FramesIn(w, col))
      BY <1>0 DEF Selection
    <3>2. Selects(w.selected_frame[col], FramesIn(w, col) \ {f})
      BY <1>1, <2>2, <3>1 DEF Selects
    <3>3. l = w
      BY <1>2, <2>2
    <3>4. QED BY <1>0, <3>2, <3>3 DEF SameLinks, SameViews
  <2>3. QED BY <2>1, <2>2
<1>9. Schedules(l, d)
  <2>1. Schedules(l, k)
    BY <1>0, <1>8, ScheduleTaskEffect DEF Tasks
  <2>2. Schedules(k, d)
    BY SMTT(60), <1>0, <1>2, <2>1, ScheduleColumnEffect DEF Schedules
  <2>3. QED BY <2>1, <2>2, SchedulesTwice
<1> HIDE DEF k
<1>10. /\ d \in Graph /\ SameLinks(w, d) /\ SameViews(w, d)
       /\ d.selected_column = w.selected_column /\ d.selected_frame = l.selected_frame
  BY <1>8, <1>9 DEF Schedules, SameLinks, SameViews
<1>11. x = [d EXCEPT !.column_of = [w.column_of EXCEPT ![f] = None],
                     !.frames = [w.frames EXCEPT ![col] = list],
                     !.column_activity = [w.column_activity EXCEPT ![col] = ca],
                     !.view_activity = [w.view_activity EXCEPT ![v] = va],
                     !.activity = a]
  <2>1. /\ d.column_of = w.column_of /\ d.frames = w.frames
        /\ d.column_activity = w.column_activity /\ d.view_activity = w.view_activity
        /\ d.activity = w.activity
    BY <1>10 DEF SameLinks
  <2>2. x = [d EXCEPT !.column_of = [d.column_of EXCEPT ![f] = None],
                      !.frames = [d.frames EXCEPT ![col] = Erase(@, f)],
                      !.column_activity = [d.column_activity EXCEPT ![col] = Erase(@, f)],
                      !.view_activity = [d.view_activity EXCEPT ![v] = Erase(@, f)],
                      !.activity = Erase(d.activity, f)]
    BY <1>2, <1>10 DEF Graph
  <2>3. QED BY <2>1, <2>2
<1>11a. list = Erase(w.frames[col], f) /\ ca = Erase(w.column_activity[col], f)
  OBVIOUS
<1> HIDE DEF list, ca, va, a
<1>12. /\ [w.column_of EXCEPT ![f] = None] \in [Frames -> OrNone(Columns)]
       /\ [w.frames EXCEPT ![col] = list] \in [Columns -> Seq(Frames)]
       /\ [w.column_activity EXCEPT ![col] = ca] \in [Columns -> Seq(Frames)]
       /\ [w.view_activity EXCEPT ![v] = va] \in [Views -> Seq(Frames)]
  BY <1>0, <1>3, <1>4, <1>5 DEF OrNone
<1>13. x \in Graph
  <2>1. [d EXCEPT !.column_of = [w.column_of EXCEPT ![f] = None],
                  !.frames = [w.frames EXCEPT ![col] = list],
                  !.column_activity = [w.column_activity EXCEPT ![col] = ca],
                  !.view_activity = [w.view_activity EXCEPT ![v] = va],
                  !.activity = a] \in Graph
    BY ZenonT(60), <1>6, <1>10, <1>12 DEF Graph
  <2>2. QED BY <1>11, <2>1
<1>14. /\ x.column_of = [w.column_of EXCEPT ![f] = None]
       /\ x.frames = [w.frames EXCEPT ![col] = list]
       /\ x.column_activity = [w.column_activity EXCEPT ![col] = ca]
       /\ x.view_activity = [w.view_activity EXCEPT ![v] = va]
       /\ x.activity = a
       /\ SameViews(d, x) /\ x.marked = d.marked
       /\ x.columns = d.columns /\ x.view_of = d.view_of
       /\ x.selected_column = d.selected_column /\ x.selected_frame = d.selected_frame
  BY <1>10, <1>11 DEF Graph, SameViews
<1>15. /\ SameViews(w, x) /\ x.marked = w.marked
       /\ x.columns = w.columns /\ x.view_of = w.view_of
       /\ x.selected_column = w.selected_column /\ x.selected_frame = l.selected_frame
  BY <1>10, <1>14 DEF SameViews, SameLinks
<1>16. \A g \in Frames : x.column_of[g] = IF g = f THEN None ELSE w.column_of[g]
  BY <1>0, <1>14
<1>17. /\ FramesIn(x, col) = FramesIn(w, col) \ {f}
       /\ \A c \in Columns \ {col} : FramesIn(x, c) = FramesIn(w, c)
       /\ LiveFrames(x) = LiveFrames(w) \ {f}
  <2>1. w.column_of[f] = col
    BY DEF col
  <2>2. QED BY <1>0, <1>16, <2>1, NoneIsNeither DEF FramesIn, LiveFrames
<1>18. /\ FramesOfView(x, v) = FramesOfView(w, v) \ {f}
       /\ \A z \in Views \ {v} : FramesOfView(x, z) = FramesOfView(w, z)
       /\ \A z : ColumnsOf(x, z) = ColumnsOf(w, z)
  BY <1>15, <1>17 DEF FramesOfView, ColumnsOf, v
<1>19. Tree(x)
  <2>1. \A z \in Views : Enumerates(x.columns[z], ColumnsOf(x, z))
    BY <1>0, <1>15, <1>18 DEF Tree
  <2>2. \A z \in Views \ x.views : ColumnsOf(x, z) = {}
    BY <1>0, <1>15, <1>18 DEF Tree, SameViews
  <2>3. \A c \in Columns : Enumerates(x.frames[c], FramesIn(x, c))
    <3>1. Enumerates(x.frames[col], FramesIn(x, col))
      BY <1>0, <1>3, <1>14, <1>17
    <3>2. \A c \in Columns \ {col} : Enumerates(x.frames[c], FramesIn(x, c))
      BY <1>0, <1>14, <1>17 DEF Tree
    <3>3. QED BY <3>1, <3>2
  <2>4. ASSUME NEW g \in LiveFrames(x) PROVE x.view_of[x.column_of[g]] = ViewOf(g)
    <3>1. g \in LiveFrames(w) /\ g \in Frames /\ g # f
      BY <1>17 DEF LiveFrames
    <3>2. w.view_of[w.column_of[g]] = ViewOf(g)
      BY <1>0, <3>1 DEF Tree
    <3>3. QED BY <1>15, <1>16, <3>1, <3>2
  <2>5. QED BY <2>1, <2>2, <2>3, <2>4 DEF Tree
<1>20. Histories(x)
  <2>1. Enumerates(x.activity, LiveFrames(x))
    BY <1>6, <1>14, <1>17
  <2>2. \A z \in Views : Enumerates(x.view_activity[z], FramesOfView(x, z))
    <3>1. Enumerates(x.view_activity[v], FramesOfView(x, v))
      BY <1>0, <1>5, <1>14, <1>18
    <3>2. \A z \in Views \ {v} : Enumerates(x.view_activity[z], FramesOfView(x, z))
      BY <1>0, <1>14, <1>18 DEF Histories
    <3>3. QED BY <3>1, <3>2
  <2>3. \A c \in Columns : Enumerates(x.column_activity[c], FramesIn(x, c))
    <3>1. Enumerates(x.column_activity[col], FramesIn(x, col))
      BY <1>0, <1>4, <1>14, <1>17
    <3>2. \A c \in Columns \ {col} : Enumerates(x.column_activity[c], FramesIn(x, c))
      BY <1>0, <1>14, <1>17 DEF Histories
    <3>3. QED BY <3>1, <3>2
  <2>4. \A z \in Views : InOrderOf(x.view_activity[z], x.activity)
    BY <1>0, <1>7a, <1>14
  <2>5. \A c \in Columns : InOrderOf(x.column_activity[c], x.activity)
    BY <1>0, <1>7a, <1>14
  <2>6. QED BY <2>1, <2>2, <2>3, <2>4, <2>5 DEF Histories
<1>21. Selection(x)
  <2>1. \A z \in Views : Selects(x.selected_column[z], ColumnsOf(x, z))
    BY <1>0, <1>15, <1>18 DEF Selection
  <2>2. \A c \in Columns \ {col} : Selects(x.selected_frame[c], FramesIn(x, c))
    BY <1>0, <1>8, <1>15, <1>17 DEF Selection
  <2>3. Selects(x.selected_frame[col], FramesIn(x, col))
    BY <1>8, <1>15, <1>17
  <2>4. x.selected_view \in OrNone(x.views)
    BY <1>0, <1>15 DEF Selection, SameViews
  <2>5. QED BY <2>1, <2>2, <2>3, <2>4 DEF Selection
<1>22. WellFormed(x)
  BY <1>13, <1>19, <1>20, <1>21 DEF WellFormed, WellLinked
<1>23. QED BY <1>7b, <1>8, <1>9, <1>11a, <1>14, <1>15, <1>22

\* WFrame::remove.
LEMMA RemoveFrameWellFormed ==
  ASSUME NEW w, WellFormed(w), NEW f \in LiveFrames(w), NEW u, u = RemoveFrame(w, f)
  PROVE  /\ WellFormed(u)
         /\ u.selected_view = w.selected_view
         /\ u.views = w.views \/ u.views = w.views \ {ViewOf(f)}
         /\ \A c \in Columns : c # w.column_of[f] => u.view_of[c] = w.view_of[c]
         /\ u.column_of = [w.column_of EXCEPT ![f] = None]
         /\ u.marked = w.marked
         /\ u.view_of[w.column_of[f]] # None => FramesIn(u, w.column_of[f]) # {}
         /\ ViewOf(f) \in u.views => ColumnsOf(u, ViewOf(f)) # {} \/ ViewOf(f) = u.selected_view
<1> DEFINE col == w.column_of[f]
           v == ViewOf(f)
           succ == Successor(w.column_activity[col], f)
           l == IF w.selected_frame[col] = f THEN SelectFrameInColumn(w, col, succ) ELSE w
           d == ScheduleColumn(ScheduleTask(l, ClientOf(f), "update_server"), col)
           x == [d EXCEPT !.column_of[f] = None, !.frames[col] = Erase(@, f),
                          !.column_activity[col] = Erase(@, f),
                          !.view_activity[v] = Erase(@, f),
                          !.activity = Erase(@, f)]
<1>0. /\ w \in Graph /\ WellLinked(w) /\ Tree(w) /\ Histories(w) /\ Selection(w)
      /\ NothingDangles(w)
      /\ f \in Frames /\ v \in Views /\ ClientOf(f) \in Clients
      /\ col \in Columns /\ col # None /\ w.view_of[col] = v
      /\ w.column_of \in [Frames -> OrNone(Columns)]
      /\ w.frames \in [Columns -> Seq(Frames)]
      /\ w.column_activity \in [Columns -> Seq(Frames)]
      /\ w.view_activity \in [Views -> Seq(Frames)]
      /\ w.activity \in Seq(Frames)
      /\ w.selected_frame \in [Columns -> OrNone(Frames)]
  <2>1. w \in Graph /\ WellLinked(w) /\ Tree(w) /\ Histories(w) /\ Selection(w)
        /\ NothingDangles(w)
    BY SelectionDoesNotDangle DEF WellFormed, WellLinked
  <2>2. f \in Frames /\ v \in Views /\ ClientOf(f) \in Clients
    BY FrameParts DEF LiveFrames
  <2>3. col \in Columns /\ col # None
    BY <2>1, <2>2 DEF Graph, LiveFrames, OrNone
  <2>4. w.view_of[col] = v
    BY <2>1 DEF Tree
  <2>5. QED BY <2>1, <2>2, <2>3, <2>4 DEF Graph
<1>1. f \in FramesIn(w, col) /\ f \in FramesOfView(w, v)
  BY <1>0 DEF FramesIn, FramesOfView
<1>2. u = IF x.frames[col] = <<>> THEN DeleteColumn(x, col) ELSE x
  BY DEF RemoveFrame, Successor
<1>3. l = LeaveFrame(w, f) /\ d = AskForErased(l, f, w.column_of[f])
  BY DEF LeaveFrame, AskForErased
<1>4. x = EraseFrame(d, f, w.column_of[f])
  BY DEF EraseFrame
<1> HIDE DEF succ, l, d, x
<1>14. /\ WellFormed(x)
       /\ l \in Graph /\ SameLinks(w, l) /\ SameViews(w, l)
       /\ Schedules(l, d)
       /\ x.column_of = [w.column_of EXCEPT ![f] = None]
       /\ x.frames = [w.frames EXCEPT ![w.column_of[f]] = Erase(w.frames[w.column_of[f]], f)]
       /\ x.column_activity = [w.column_activity EXCEPT ![w.column_of[f]] =
                                 Erase(w.column_activity[w.column_of[f]], f)]
       /\ SameViews(w, x) /\ x.marked = w.marked
       /\ x.columns = w.columns /\ x.view_of = w.view_of
       /\ x.selected_column = w.selected_column /\ x.selected_frame = l.selected_frame
  BY <1>3, <1>4, ErasedFrame
<1>15. WellFormed(x) /\ x \in Graph /\ Tree(x)
  BY <1>14 DEF WellFormed, WellLinked
<1> HIDE DEF col, v
<1>23. CASE x.frames[col] = <<>>
  <2>1. FramesIn(x, col) = {}
    <3>1. x.frames[col] \in Seq(Frames) /\ Enumerates(x.frames[col], FramesIn(x, col))
      BY <1>0, <1>15 DEF Graph, Tree
    <3>2. QED BY ZenonT(60), <1>23, <3>1, EnumerationProperties
  <2>2. x.view_of[col] = v /\ v # None
    BY <1>0, <1>14, NoneIsNeither
  <2>3. u = DeleteColumn(x, col)
    BY <1>2, <1>23
  <2>4. /\ WellFormed(u)
        /\ SameFrames(x, u)
        /\ u.selected_view = x.selected_view
        /\ u.views = x.views \/ u.views = x.views \ {v}
        /\ u.view_of = [x.view_of EXCEPT ![col] = None]
        /\ v \in u.views => ColumnsOf(u, v) # {} \/ v = u.selected_view
    <3>1. x.view_of[col] # None /\ col \in Columns
      BY <1>0, <2>2
    <3>2. /\ WellFormed(u)
          /\ SameFrames(x, u)
          /\ u.selected_view = x.selected_view
          /\ u.views = x.views \/ u.views = x.views \ {x.view_of[col]}
          /\ u.view_of = [x.view_of EXCEPT ![col] = None]
          /\ x.view_of[col] \in u.views =>
               ColumnsOf(u, x.view_of[col]) # {} \/ x.view_of[col] = u.selected_view
      BY <1>15, <2>1, <2>3, <3>1, DeleteColumnWellFormed
    <3>3. QED BY <2>2, <3>2
  <2>5. \A c \in Columns : c # col => u.view_of[c] = w.view_of[c]
    <3>1. w.view_of \in [Columns -> OrNone(Views)]
      BY <1>0 DEF Graph
    <3>2. QED BY <1>14, <2>4, <3>1
  <2>6. u.view_of[col] = None
    <3>1. x.view_of \in [Columns -> OrNone(Views)]
      BY <1>15 DEF Graph
    <3>2. QED BY <1>0, <2>4, <3>1
  <2>7. QED BY <1>14, <2>4, <2>5, <2>6 DEF SameFrames, SameViews, col, v
<1>24. CASE x.frames[col] # <<>>
  <2>1. u = x
    BY <1>2, <1>24
  <2>2. FramesIn(x, col) # {}
    <3>1. x.frames[col] \in Seq(Frames) /\ Enumerates(x.frames[col], FramesIn(x, col))
      BY <1>0, <1>15 DEF Graph, Tree
    <3>2. QED BY <1>24, <3>1, EnumerationProperties
  <2>3. ColumnsOf(x, v) # {}
    BY <1>0, <1>14 DEF ColumnsOf
  <2>4. QED BY <1>14, <2>1, <2>2, <2>3 DEF SameViews, col, v
<1>25. QED BY <1>23, <1>24

\* ~WFrame.
LEMMA DeleteFrameWellFormed ==
  ASSUME NEW w, WellFormed(w), NEW f \in LiveFrames(w), NEW u, u = DeleteFrame(w, f)
  PROVE  /\ WellFormed(u)
         /\ u.selected_view = w.selected_view
         /\ u.column_of = [w.column_of EXCEPT ![f] = None]
         /\ u.marked = w.marked \ {f}
<1> DEFINE r == RemoveFrame(w, f)
<1>1. /\ WellFormed(r)
      /\ r.selected_view = w.selected_view
      /\ r.column_of = [w.column_of EXCEPT ![f] = None]
      /\ r.marked = w.marked
  BY RemoveFrameWellFormed
<1>2. u = [r EXCEPT !.shaded = @ \ {f}, !.decorated = @ \ {f}, !.marked = @ \ {f}]
  BY DEF DeleteFrame
<1> HIDE DEF r
<1>3. r \in Graph
  BY <1>1 DEF WellFormed, WellLinked
<1>4. /\ r.shaded \ {f} \in SUBSET Frames
      /\ r.decorated \ {f} \in SUBSET Frames
      /\ r.marked \ {f} \in SUBSET Frames
  BY <1>3 DEF Graph
<1> DEFINE s == r.shaded \ {f}
           d == r.decorated \ {f}
           m == r.marked \ {f}
<1>5. u = Repaint(r, s, d, m)
  BY <1>2, <1>3 DEF Graph, Repaint
<1>6. s \in SUBSET Frames /\ d \in SUBSET Frames /\ m \in SUBSET Frames
  BY <1>4
<1>7. m = r.marked \ {f}
  OBVIOUS
<1> HIDE DEF s, d, m
<1>8. Repaints(r, u) /\ u.marked = m
  BY <1>3, <1>5, <1>6, NewAttributes
<1>9. QED BY <1>1, <1>7, <1>8, RepaintsWellFormed DEF Repaints, SameViews

-----------------------------------------------------------------------------
(* Whole-WM operations.                                                    *)

\* The selected frame of a view is one of its frames.
LEMMA SelectedFrameIsLive ==
  ASSUME NEW w, WellFormed(w), NEW v \in OrNone(Views), SelectedFrameOfView(w, v) # None
  PROVE  /\ v \in Views
         /\ w.selected_column[v] \in ColumnsOf(w, v)
         /\ SelectedFrameOfView(w, v) \in LiveFrames(w)
         /\ SelectedFrameOfView(w, v) \in FramesIn(w, w.selected_column[v])
         /\ ViewOf(SelectedFrameOfView(w, v)) = v
<1> DEFINE col == w.selected_column[v]
           f == SelectedFrameOfView(w, v)
<1>1. v \in Views /\ v # None /\ col # None /\ f = w.selected_frame[col]
  BY DEF SelectedFrameOfView, SelectedFrameOfColumn, OrNone
<1>2. col \in ColumnsOf(w, v) /\ col \in Columns
  BY <1>1 DEF WellFormed, Selection, Selects, ColumnsOf
<1>3. f \in FramesIn(w, col)
  BY <1>1, <1>2 DEF WellFormed, Selection, Selects
<1>4. f \in LiveFrames(w) /\ w.column_of[f] = col
  BY <1>2, <1>3, NoneIsNeither DEF FramesIn, LiveFrames
<1>5. w.view_of[col] = ViewOf(f)
  BY <1>4 DEF WellFormed, WellLinked, Tree
<1>6. QED BY <1>1, <1>2, <1>3, <1>4, <1>5 DEF ColumnsOf

\* The selected frame of the WM exists, in the selected column of the current view.
LEMMA CurrentFrameIsLive ==
  ASSUME NEW w, WellFormed(w), SelectedFrame(w) # None
  PROVE  /\ SelectedFrame(w) \in LiveFrames(w)
         /\ SelectedFrame(w) \in FramesIn(w, SelectedColumn(w))
         /\ SelectedColumn(w) \in Columns
         /\ ViewOf(SelectedFrame(w)) = w.selected_view
         /\ w.selected_view \in w.views
<1>1. w.selected_view \in OrNone(w.views) /\ w.selected_view \in OrNone(Views)
  BY DEF WellFormed, WellLinked, Graph, Selection, OrNone
<1>2. w.selected_view # None
  BY DEF SelectedFrame, SelectedFrameOfView
<1>3. QED BY <1>1, <1>2, SelectedFrameIsLive DEF SelectedFrame, SelectedColumn, OrNone, ColumnsOf

\* WM::update_frame_activity: the three lists change their order only.
LEMMA HandleFrameActivityWellFormed ==
  ASSUME NEW w, WellFormed(w), NEW u, u = HandleFrameActivity(w)
  PROVE  /\ WellFormed(u)
         /\ SameViews(w, u) /\ SameFrames(w, u)
         /\ u.columns = w.columns /\ u.view_of = w.view_of
<1> DEFINE f == SelectedFrame(w)
           col == w.column_of[f]
           v == ViewOf(f)
           ca == ToFront(w.column_activity[col], f)
           va == ToFront(w.view_activity[v], f)
           a == ToFront(w.activity, f)
           todo == IF Head(w.column_activity[col]) = f THEN w.todo_columns
                   ELSE w.todo_columns \cup {col}
           x == [w EXCEPT !.column_activity[col] = ca, !.view_activity[v] = va,
                          !.activity = a, !.todo_columns = todo]
<1>0. /\ w \in Graph /\ WellLinked(w) /\ Tree(w) /\ Histories(w) /\ Selection(w)
      /\ w.column_activity \in [Columns -> Seq(Frames)]
      /\ w.view_activity \in [Views -> Seq(Frames)]
      /\ w.activity \in Seq(Frames)
  BY DEF WellFormed, WellLinked, Graph
<1>1. CASE f = None
  BY <1>1 DEF HandleFrameActivity, SameViews, SameFrames
<1>2. CASE f # None
  <2>1. /\ f \in LiveFrames(w) /\ f \in Frames /\ v \in Views
        /\ col \in Columns /\ f \in FramesIn(w, col) /\ f \in FramesOfView(w, v)
    <3>1. f \in LiveFrames(w)
      BY <1>2, CurrentFrameIsLive
    <3>2. f \in Frames /\ col \in Columns
      BY <1>0, <3>1 DEF LiveFrames, Graph, OrNone
    <3>3. QED BY <3>1, <3>2, FrameParts DEF FramesIn, FramesOfView
  <2>2. u = [w EXCEPT !.column_activity[col] = ToFront(@, f),
                      !.view_activity[v] = ToFront(@, f),
                      !.activity = ToFront(@, f),
                      !.todo_columns = IF Head(w.column_activity[col]) = f THEN @
                                       ELSE @ \cup {col}]
    BY <1>2 DEF HandleFrameActivity
  <2>3. u = x
    BY <2>2, <1>0, <2>1 DEF Graph
  <2>4. /\ ca \in Seq(Frames) /\ Enumerates(ca, FramesIn(w, col))
        /\ va \in Seq(Frames) /\ Enumerates(va, FramesOfView(w, v))
        /\ a \in Seq(Frames) /\ Enumerates(a, LiveFrames(w))
    BY <1>0, <2>1, ToFrontEnumeration DEF Histories
  <2>4a. /\ InOrderOf(va, a)
         /\ \A z \in Views \ {v} : InOrderOf(w.view_activity[z], a)
         /\ InOrderOf(ca, a)
         /\ \A c \in Columns \ {col} : InOrderOf(w.column_activity[c], a)
    <3>1. \A z \in Views : IF f \in FramesOfView(w, z) THEN InOrderOf(ToFront(w.view_activity[z], f), a)
                           ELSE InOrderOf(w.view_activity[z], a)
      BY <1>0, <2>1, HistoryParts, ToFrontInOrder
    <3>2. \A c \in Columns : IF f \in FramesIn(w, c) THEN InOrderOf(ToFront(w.column_activity[c], f), a)
                             ELSE InOrderOf(w.column_activity[c], a)
      BY <1>0, <2>1, HistoryParts, ToFrontInOrder
    <3>3. \A z \in Views \ {v} : f \notin FramesOfView(w, z)
      BY DEF FramesOfView
    <3>4. \A c \in Columns \ {col} : f \notin FramesIn(w, c)
      BY DEF FramesIn
    <3>5. QED BY <2>1, <3>1, <3>2, <3>3, <3>4
  <2>5. todo \in SUBSET Columns
    BY <1>0, <2>1 DEF Graph
  <2> HIDE DEF f, col, v, ca, va, a, todo
  <2>6. /\ [w.column_activity EXCEPT ![col] = ca] \in [Columns -> Seq(Frames)]
        /\ [w.view_activity EXCEPT ![v] = va] \in [Views -> Seq(Frames)]
    BY <1>0, <2>4
  <2>7. x \in Graph
    BY <1>0, <2>4, <2>5, <2>6, Zenon DEF Graph
  <2>8. /\ x.column_activity = [w.column_activity EXCEPT ![col] = ca]
        /\ x.view_activity = [w.view_activity EXCEPT ![v] = va]
        /\ x.activity = a
        /\ SameViews(w, x) /\ SameFrames(w, x)
        /\ x.columns = w.columns /\ x.view_of = w.view_of
        /\ x.selected_column = w.selected_column /\ x.selected_frame = w.selected_frame
    BY <1>0 DEF Graph, SameViews, SameFrames
  <2> HIDE DEF x
  <2>9. /\ \A z : ColumnsOf(x, z) = ColumnsOf(w, z)
        /\ \A c : FramesIn(x, c) = FramesIn(w, c)
        /\ LiveFrames(x) = LiveFrames(w)
        /\ \A z : FramesOfView(x, z) = FramesOfView(w, z)
    BY <2>8, SameSets DEF SameFrames
  <2>10. Tree(x)
    BY <1>0, <2>8, <2>9 DEF Tree, SameViews, SameFrames
  <2>11. Histories(x)
    <3>1. Enumerates(x.activity, LiveFrames(x))
      BY <2>4, <2>8, <2>9
    <3>2. \A z \in Views : Enumerates(x.view_activity[z], FramesOfView(x, z))
      BY <1>0, <2>4, <2>8, <2>9 DEF Histories
    <3>3. \A c \in Columns : Enumerates(x.column_activity[c], FramesIn(x, c))
      BY <1>0, <2>4, <2>8, <2>9 DEF Histories
    <3>4. \A z \in Views : InOrderOf(x.view_activity[z], x.activity)
      BY <1>0, <2>4a, <2>8
    <3>5. \A c \in Columns : InOrderOf(x.column_activity[c], x.activity)
      BY <1>0, <2>4a, <2>8
    <3>6. QED BY <3>1, <3>2, <3>3, <3>4, <3>5 DEF Histories
  <2>12. Selection(x)
    BY <1>0, <2>8, <2>9 DEF Selection, SameViews
  <2>13. QED BY <2>3, <2>7, <2>8, <2>10, <2>11, <2>12 DEF WellFormed, WellLinked
<1>3. QED BY <1>1, <1>2

\* place_frame_in_smallest_column finds a column of the view.
LEMMA SmallestColumnProperties ==
  ASSUME NEW w, WellLinked(w), NEW v \in Views, w.columns[v] # <<>>
  PROVE  SmallestColumn(w, v) \in ColumnsOf(w, v)
<1> DEFINE s == w.columns[v]
           size(i) == Len(w.frames[s[i]])
           Best(i) == \A j \in DOMAIN s :
                        size(i) < size(j) \/ (size(i) = size(j) /\ i <= j)
<1>1. s \in Seq(Columns) /\ Enumerates(s, ColumnsOf(w, v)) /\ w.frames \in [Columns -> Seq(Frames)]
  BY DEF WellLinked, Graph, Tree
<1>2. /\ DOMAIN s = 1..Len(s) /\ Len(s) \in Nat /\ Len(s) # 0
      /\ \A i \in 1..Len(s) : s[i] \in ColumnsOf(w, v) /\ s[i] \in Columns
  <2>1. DOMAIN s = 1..Len(s) /\ Len(s) \in Nat
    BY <1>1, LenProperties
  <2>2. \A i \in 1..Len(s) : s[i] \in ColumnsOf(w, v)
    BY <1>1, EnumerationProperties
  <2>3. Len(s) # 0
    BY <1>1, EmptySeq
  <2>4. QED BY <2>1, <2>2, <2>3 DEF ColumnsOf
<1>3. \A i \in 1..Len(s) : size(i) \in Nat
  BY <1>1, <1>2, LenProperties
<1>4. SmallestColumn(w, v) = s[CHOOSE i \in DOMAIN s : Best(i)]
  BY DEF SmallestColumn
<1> HIDE DEF s, size
<1>5. PICK m \in {size(i) : i \in 1..Len(s)} : \A n \in {size(i) : i \in 1..Len(s)} : m <= n
  <2>1. {size(i) : i \in 1..Len(s)} \in SUBSET Nat
    BY <1>3
  <2>2. 1 \in 1..Len(s)
    BY <1>2
  <2>3. {size(i) : i \in 1..Len(s)} # {}
    BY <2>2
  <2> DEFINE T == {size(i) : i \in 1..Len(s)}
  <2> HIDE DEF T
  <2>4. T \in SUBSET Nat /\ T # {}
    BY <2>1, <2>3 DEF T
  <2>5. \E k \in T : \A n \in T : k <= n
    BY <2>4, LeastNumber
  <2>6. QED BY <2>5 DEF T
<1>6. PICK i \in {j \in 1..Len(s) : size(j) = m} : \A j \in {k \in 1..Len(s) : size(k) = m} : i <= j
  <2> DEFINE T == {j \in 1..Len(s) : size(j) = m}
  <2>1. T \in SUBSET Nat
    BY <1>2
  <2>2. T # {}
    BY <1>5
  <2> HIDE DEF T
  <2>3. \E k \in T : \A n \in T : k <= n
    BY <2>1, <2>2, LeastNumber
  <2>4. QED BY <2>3 DEF T
<1>7. i \in DOMAIN s
  BY <1>2, <1>6
<1>8. Best(i)
  <2>1. SUFFICES ASSUME NEW j \in 1..Len(s)
                 PROVE  size(i) < size(j) \/ (size(i) = size(j) /\ i <= j)
    BY <1>2
  <2>2. size(i) = m /\ m \in Nat /\ size(j) \in Nat /\ m <= size(j)
    BY <1>3, <1>5, <1>6
  <2>3. size(j) = m => i <= j
    BY <1>6
  <2>4. QED BY <2>2, <2>3
<1> HIDE DEF Best
<1>9. (CHOOSE k \in DOMAIN s : Best(k)) \in DOMAIN s
  BY <1>7, <1>8
<1>10. QED BY <1>2, <1>4, <1>9

-----------------------------------------------------------------------------
(* Nothing is empty.                                                       *)

\* Emptiness is a matter of the back pointers and the views there are.
LEMMA SameNoneEmpty ==
  ASSUME NEW w, NEW u, NEW C, NEW V, NoneEmptyBut(w, C, V),
         u.view_of = w.view_of, u.column_of = w.column_of, SameViews(w, u)
  PROVE  NoneEmptyBut(u, C, V)
BY DEF NoneEmptyBut, ColumnsOf, FramesIn, SameViews

\* With fewer exceptions more is claimed.
LEMMA MoreMayBeEmpty ==
  ASSUME NEW w, NEW C, NEW V, NoneEmptyBut(w, {}, {})
  PROVE  NoneEmptyBut(w, C, V)
BY DEF NoneEmptyBut

\* A view that get_or_create_view has just made may be empty.
LEMMA GetOrCreateViewNoneEmpty ==
  ASSUME NEW w, WellFormed(w), NoneEmptyBut(w, {}, {}), NEW v \in Views,
         NEW u, u = GetOrCreateView(w, v)
  PROVE  NoneEmptyBut(u, {}, {v})
<1>1. SameLinks(w, u) /\ u.views = w.views \cup {v} /\ u.selected_view = w.selected_view
  BY GetOrCreateViewWellFormed
<1>2. u.view_of = w.view_of /\ u.column_of = w.column_of
  BY <1>1 DEF SameLinks
<1>3. QED BY <1>1, <1>2 DEF NoneEmptyBut, ColumnsOf, FramesIn

\* WM::select_view: the view that is left goes when it is empty, and the one that
\* is shown may be.
LEMMA SelectViewNoneEmpty ==
  ASSUME NEW w, WellFormed(w), NEW v \in w.views, NoneEmptyBut(w, {}, {v}),
         NEW u, u = SelectView(w, v)
  PROVE  NoneEmptyBut(u, {}, {})
<1>1. /\ SameLinks(w, u)
      /\ u.selected_view = v /\ u.views \subseteq w.views
      /\ w.selected_view \in u.views =>
           ColumnsOf(u, w.selected_view) # {} \/ w.selected_view = v
  BY SelectViewWellFormed
<1>2. /\ \A c : FramesIn(u, c) = FramesIn(w, c)
      /\ \A y : ColumnsOf(u, y) = ColumnsOf(w, y)
      /\ u.view_of = w.view_of
  BY <1>1, SameSets DEF SameLinks
<1>3. QED BY <1>1, <1>2 DEF NoneEmptyBut

\* WView::create_column: the view has a column then, which has no frame.
LEMMA CreateColumnNoneEmpty ==
  ASSUME NEW w, WellFormed(w), NEW v \in w.views, NEW i \in 1..(Len(w.columns[v]) + 1),
         NEW col \in FreeColumns(w), NoneEmptyBut(w, {}, {v}),
         NEW u, u = CreateColumn(w, v, i, col)
  PROVE  NoneEmptyBut(u, {col}, {})
<1>1. /\ SameViews(w, u) /\ SameFrames(w, u)
      /\ \A c \in Columns : u.view_of[c] = IF c = col THEN v ELSE w.view_of[c]
  BY CreateColumnWellFormed
<1>2. col \in Columns /\ w.view_of[col] = None
  BY DEF FreeColumns
<1>3. v \in Views /\ None \notin Views /\ w.views \subseteq Views
  BY NoneIsNeither DEF WellFormed, WellLinked, Graph
<1>4. /\ ColumnsOf(u, v) # {}
      /\ \A y \in Views : ColumnsOf(w, y) \subseteq ColumnsOf(u, y)
      /\ \A c : FramesIn(u, c) = FramesIn(w, c)
  BY <1>1, <1>2, <1>3 DEF ColumnsOf, FramesIn, SameFrames
<1>5. QED BY <1>1, <1>3, <1>4 DEF NoneEmptyBut, SameViews

\* A frame fills the column it is put into.
LEMMA FrameFillsColumn ==
  ASSUME NEW w, WellFormed(w), NEW C, NEW col \in Columns, NEW V, NoneEmptyBut(w, C, V), C \subseteq {col},
         NEW f \in Frames \ LiveFrames(w),
         NEW u, SameViews(w, u), u.view_of = w.view_of,
         u.column_of = [w.column_of EXCEPT ![f] = col]
  PROVE  NoneEmptyBut(u, {}, V)
<1>1. w.column_of \in [Frames -> OrNone(Columns)] /\ f \in Frames /\ w.column_of[f] = None
  BY DEF WellFormed, WellLinked, Graph, LiveFrames
<1>2. \A g \in Frames : u.column_of[g] = IF g = f THEN col ELSE w.column_of[g]
  BY <1>1
<1>3. /\ \A c \in Columns : FramesIn(w, c) \subseteq FramesIn(u, c)
      /\ FramesIn(u, col) # {}
      /\ \A y : ColumnsOf(u, y) = ColumnsOf(w, y)
  BY <1>1, <1>2, NoneIsNeither DEF FramesIn, ColumnsOf
<1>4. QED BY <1>3 DEF NoneEmptyBut, SameViews

\* WFrame::remove deletes a column that it empties, and a view that this empties
\* unless it is on the screen.
LEMMA RemoveFrameNoneEmpty ==
  ASSUME NEW w, WellFormed(w), NEW f \in LiveFrames(w), NEW C, NEW V, NoneEmptyBut(w, C, V),
         NEW u, u = RemoveFrame(w, f)
  PROVE  NoneEmptyBut(u, C, V)
<1>1. /\ u.selected_view = w.selected_view
      /\ u.views = w.views \/ u.views = w.views \ {ViewOf(f)}
      /\ \A c \in Columns : c # w.column_of[f] => u.view_of[c] = w.view_of[c]
      /\ u.column_of = [w.column_of EXCEPT ![f] = None]
      /\ u.view_of[w.column_of[f]] # None => FramesIn(u, w.column_of[f]) # {}
      /\ ViewOf(f) \in u.views => ColumnsOf(u, ViewOf(f)) # {} \/ ViewOf(f) = u.selected_view
  BY SMTT(60), RemoveFrameWellFormed
<1>2. /\ w.column_of \in [Frames -> OrNone(Columns)] /\ f \in Frames
      /\ w.column_of[f] # None /\ w.view_of[w.column_of[f]] = ViewOf(f)
  BY DEF WellFormed, WellLinked, Graph, Tree, LiveFrames
<1>3. \A g \in Frames : u.column_of[g] = IF g = f THEN None ELSE w.column_of[g]
  BY <1>1, <1>2
<1>4. \A c \in Columns : c # w.column_of[f] => FramesIn(u, c) = FramesIn(w, c)
  BY <1>2, <1>3, NoneIsNeither DEF FramesIn
<1>5. \A y \in Views : y # ViewOf(f) => ColumnsOf(w, y) \subseteq ColumnsOf(u, y)
  BY <1>1, <1>2 DEF ColumnsOf
<1>6. w.views \subseteq Views
  BY DEF WellFormed, WellLinked, Graph
<1>7. \A c \in Columns \ C : u.view_of[c] # None => FramesIn(u, c) # {}
  BY <1>1, <1>4 DEF NoneEmptyBut
<1>8. \A y \in u.views \ V : ColumnsOf(u, y) # {} \/ y = u.selected_view
  BY <1>1, <1>5, <1>6 DEF NoneEmptyBut
<1>9. QED BY <1>7, <1>8 DEF NoneEmptyBut

\* ~WFrame.
LEMMA DeleteFrameNoneEmpty ==
  ASSUME NEW w, WellFormed(w), NEW f \in LiveFrames(w), NEW C, NEW V, NoneEmptyBut(w, C, V),
         NEW u, u = DeleteFrame(w, f)
  PROVE  NoneEmptyBut(u, C, V)
<1> DEFINE r == RemoveFrame(w, f)
<1>1. WellFormed(r) /\ NoneEmptyBut(r, C, V)
  BY RemoveFrameWellFormed, RemoveFrameNoneEmpty
<1>2. u = [r EXCEPT !.shaded = @ \ {f}, !.decorated = @ \ {f}, !.marked = @ \ {f}]
  BY DEF DeleteFrame
<1> HIDE DEF r
<1>3. u.view_of = r.view_of /\ u.column_of = r.column_of /\ SameViews(r, u)
  BY <1>1, <1>2 DEF WellFormed, WellLinked, Graph, SameViews
<1>4. QED BY <1>1, <1>3, SameNoneEmpty

-----------------------------------------------------------------------------
(* Placing a frame.                                                        *)

\* place_frame_in_smallest_column.
LEMMA PlaceInSmallestColumnWellFormed ==
  ASSUME NEW w, WellFormed(w), NEW f \in Frames \ LiveFrames(w), ViewOf(f) \in w.views,
         NEW col \in FreeColumns(w),
         NEW u, u = PlaceInSmallestColumn(w, f, col)
  PROVE  /\ WellFormed(u)
         /\ SameViews(w, u)
         /\ LiveFrames(u) = LiveFrames(w) \cup {f}
         /\ u.marked = w.marked
         /\ NoneEmptyBut(w, {}, {ViewOf(f)}) => NoneEmptyBut(u, {}, {})
<1> DEFINE v == ViewOf(f)
           widen == Len(w.columns[v]) < DesiredColumns
           m == IF widen THEN CreateColumn(w, v, Len(w.columns[v]) + 1, col) ELSE w
           target == IF widen THEN col ELSE SmallestColumn(w, v)
           i == Len(m.frames[target]) + 1
<1>0. /\ w \in Graph /\ WellLinked(w)
      /\ v \in Views /\ w.columns[v] \in Seq(Columns) /\ Len(w.columns[v]) \in Nat
      /\ DesiredColumns \in Nat \ {0}
  BY FrameParts, LenProperties, DesiredColumnsAssumption DEF WellFormed, WellLinked, Graph
<1>1. u = AddFrame(m, f, target, i)
  BY DEF PlaceInSmallestColumn
<1>2. /\ WellFormed(m) /\ SameViews(w, m) /\ SameFrames(w, m)
      /\ target \in Columns /\ m.view_of[target] = v
      /\ NoneEmptyBut(w, {}, {v}) => NoneEmptyBut(m, {target}, {})
  <2>1. CASE widen
    <3> DEFINE n == Len(w.columns[v]) + 1
    <3>1. n \in 1..(Len(w.columns[v]) + 1)
      BY <1>0
    <3>2. m = CreateColumn(w, v, n, col) /\ target = col /\ v \in w.views
      BY <2>1
    <3> HIDE DEF n, m, v, target
    <3>3. /\ WellFormed(m) /\ SameViews(w, m) /\ SameFrames(w, m)
          /\ \A c \in Columns : m.view_of[c] = IF c = col THEN v ELSE w.view_of[c]
      BY <3>1, <3>2, CreateColumnWellFormed
    <3>3a. NoneEmptyBut(w, {}, {v}) => NoneEmptyBut(m, {target}, {})
      BY <3>1, <3>2, CreateColumnNoneEmpty
    <3>4. col \in Columns /\ w.view_of \in [Columns -> OrNone(Views)]
      BY <1>0 DEF FreeColumns, Graph
    <3>5. QED BY <3>2, <3>3, <3>3a, <3>4
  <2>2. CASE ~widen
    <3>1. w.columns[v] # <<>>
      <4>1. Len(w.columns[v]) # 0
        BY <1>0, <2>2
      <4>2. QED BY <4>1
    <3>2. SmallestColumn(w, v) \in ColumnsOf(w, v)
      BY <1>0, <3>1, SmallestColumnProperties
    <3>3. m = w /\ target = SmallestColumn(w, v)
      BY <2>2
    <3> HIDE DEF m, target
    <3>4. NoneEmptyBut(w, {}, {v}) => NoneEmptyBut(w, {target}, {})
      BY <3>2 DEF NoneEmptyBut
    <3>5. QED BY <3>2, <3>3, <3>4 DEF ColumnsOf, SameViews, SameFrames
  <2>3. QED BY <2>1, <2>2
<1> HIDE DEF m, target
<1>3. i \in 1..(Len(m.frames[target]) + 1)
  <2>1. m.frames[target] \in Seq(Frames)
    BY <1>2 DEF WellFormed, WellLinked, Graph
  <2>2. Len(m.frames[target]) \in Nat
    BY <2>1, LenProperties
  <2>3. QED BY <2>2
<1>4. f \in Frames \ LiveFrames(m)
  BY <1>2 DEF SameFrames, LiveFrames
<1> HIDE DEF i
<1>5. /\ WellFormed(u) /\ SameViews(m, u) /\ u.view_of = m.view_of
      /\ u.column_of = [m.column_of EXCEPT ![f] = target]
      /\ u.marked = m.marked
  BY <1>1, <1>2, <1>3, <1>4, AddFrameWellFormed
<1>6. LiveFrames(u) = LiveFrames(w) \cup {f}
  <2>1. u.column_of = [w.column_of EXCEPT ![f] = target]
    BY <1>2, <1>5 DEF SameFrames
  <2>2. w.column_of \in [Frames -> OrNone(Columns)]
    BY <1>0 DEF Graph
  <2>3. QED BY <1>2, <2>1, <2>2, NoneIsNeither DEF LiveFrames
<1>7. NoneEmptyBut(m, {target}, {}) => NoneEmptyBut(u, {}, {})
  BY <1>2, <1>4, <1>5, FrameFillsColumn
<1>8. QED BY <1>2, <1>5, <1>6, <1>7 DEF SameViews, SameFrames

\* WM::place_client of a client without frames.
LEMMA PlaceClientWellFormed ==
  ASSUME NEW w, WellFormed(w), NEW c \in Clients, FramesOf(w, c) = {}, NEW misc \in Views,
         NEW col \in FreeColumns(w),
         NEW u, u = PlaceClient(w, c, misc, col)
  PROVE  /\ WellFormed(u)
         /\ u.selected_view # None
         /\ LiveFrames(u) = LiveFrames(w) \cup {<<c, u.selected_view>>}
         /\ u.marked = w.marked \ {<<c, u.selected_view>>}
         /\ u.selected_view = IF w.selected_view = None THEN misc ELSE w.selected_view
         /\ NoneEmptyBut(w, {}, {}) => NoneEmptyBut(u, {}, {})
<1> DEFINE s == IF w.selected_view = None THEN SelectView(NewView(w, misc), misc) ELSE w
           v == s.selected_view
           f == <<c, v>>
           widen == Len(s.columns[v]) < 2
           target == IF widen THEN col ELSE s.selected_column[v]
           i == After(s.columns[v], s.selected_column[v])
           m == IF widen THEN CreateColumn(s, v, i, col) ELSE s
           n == NewFrame(m, f)
           a == AddFrameAfterSelected(n, f, target)
<1>1. u = SelectFrame(a, f)
  BY DEF PlaceClient
<1>2. /\ WellFormed(s) /\ SameLinks(w, s) /\ s.selected_view # None /\ s.selected_view \in s.views
      /\ s.selected_view = IF w.selected_view = None THEN misc ELSE w.selected_view
      /\ NoneEmptyBut(w, {}, {}) => NoneEmptyBut(s, {}, {})
  <2>1. CASE w.selected_view = None
    <3> DEFINE x == NewView(w, misc)
    <3>1. /\ WellFormed(x) /\ SameLinks(w, x) /\ misc \in x.views
          /\ x.views = w.views \cup {misc} /\ x.selected_view = w.selected_view
      BY NewViewWellFormed
    <3>1a. NoneEmptyBut(w, {}, {}) => NoneEmptyBut(x, {}, {misc})
      <4> HIDE DEF x
      <4> QED BY <3>1, SameSets DEF NoneEmptyBut, SameLinks
    <3>2. s = SelectView(x, misc)
      BY <2>1
    <3> HIDE DEF x, s
    <3>3. WellFormed(s) /\ SameLinks(x, s) /\ s.selected_view = misc /\ misc \in s.views
      BY <3>1, <3>2, SelectViewWellFormed
    <3>4. NoneEmptyBut(w, {}, {}) => NoneEmptyBut(s, {}, {})
      BY <3>1, <3>1a, <3>2, SelectViewNoneEmpty
    <3>5. QED BY <2>1, <3>1, <3>3, <3>4, NoneIsNeither DEF SameLinks
  <2>2. CASE w.selected_view # None
    <3>1. s = w
      BY <2>2
    <3>2. w.selected_view \in w.views
      BY <2>2 DEF WellFormed, Selection, OrNone
    <3> HIDE DEF s
    <3>3. QED BY <2>2, <3>1, <3>2 DEF SameLinks
  <2>3. QED BY <2>1, <2>2
<1> HIDE DEF s
<1>3. /\ s \in Graph /\ WellLinked(s) /\ v \in Views /\ v \in s.views
      /\ s.columns[v] \in Seq(Columns) /\ Len(s.columns[v]) \in Nat
      /\ Enumerates(s.columns[v], ColumnsOf(s, v))
      /\ Selects(s.selected_column[v], ColumnsOf(s, v))
  <2>1. s \in Graph /\ WellLinked(s) /\ Selection(s) /\ Tree(s)
    BY <1>2 DEF WellFormed, WellLinked
  <2>2. v \in Views
    BY <1>2, <2>1 DEF Graph
  <2>3. s.columns[v] \in Seq(Columns)
    BY <2>1, <2>2 DEF Graph
  <2>4. QED BY <1>2, <2>1, <2>2, <2>3, LenProperties DEF Selection, Tree
<1>4. f \in Frames /\ ClientOf(f) = c /\ ViewOf(f) = v /\ f \notin LiveFrames(s)
  <2>1. f \in Frames /\ ClientOf(f) = c /\ ViewOf(f) = v
    BY <1>3, PairIsFrame
  <2>2. LiveFrames(s) = LiveFrames(w)
    BY <1>2 DEF SameLinks, LiveFrames
  <2>3. QED BY <2>1, <2>2 DEF FramesOf
<1>5. /\ WellFormed(m) /\ SameViews(s, m) /\ SameFrames(s, m)
      /\ target \in Columns /\ m.view_of[target] = v
      /\ NoneEmptyBut(s, {}, {}) => NoneEmptyBut(m, {target}, {})
  <2>1. CASE widen
    <3>1. i \in 1..(Len(s.columns[v]) + 1)
      BY <1>3, AfterProperties, NoneIsNeither
    <3>2. m = CreateColumn(s, v, i, col) /\ target = col
      BY <2>1
    <3>3. col \in FreeColumns(s)
      BY <1>2 DEF SameLinks, FreeColumns
    <3> HIDE DEF i, m, v, target
    <3>4. /\ WellFormed(m) /\ SameViews(s, m) /\ SameFrames(s, m)
          /\ \A x \in Columns : m.view_of[x] = IF x = col THEN v ELSE s.view_of[x]
      BY <1>2, <1>3, <3>1, <3>2, <3>3, CreateColumnWellFormed
    <3>5. NoneEmptyBut(s, {}, {}) => NoneEmptyBut(m, {target}, {})
      BY <1>2, <1>3, <3>1, <3>2, <3>3, CreateColumnNoneEmpty, MoreMayBeEmpty
    <3>6. col \in Columns /\ s.view_of \in [Columns -> OrNone(Views)]
      BY <1>3 DEF FreeColumns, Graph
    <3>7. QED BY <3>2, <3>4, <3>5, <3>6
  <2>2. CASE ~widen
    <3>1. s.columns[v] # <<>>
      <4>1. Len(s.columns[v]) # 0
        BY <1>3, <2>2
      <4>2. QED BY <4>1
    <3>2. s.selected_column[v] \in ColumnsOf(s, v)
      BY <1>3, <3>1, EnumerationProperties DEF Selects
    <3>3. m = s /\ target = s.selected_column[v]
      BY <2>2
    <3> HIDE DEF m, target
    <3>4. QED BY <1>2, <3>2, <3>3, MoreMayBeEmpty DEF ColumnsOf, SameViews, SameFrames
  <2>3. QED BY <2>1, <2>2
<1> HIDE DEF m, target
<1>6. WellFormed(n) /\ Repaints(m, n) /\ n.marked = m.marked \ {f}
  <2>1. m \in Graph
    BY <1>5 DEF WellFormed, WellLinked
  <2>2. QED BY <1>4, <1>5, <2>1, NewFrameEffect, RepaintsWellFormed
<1> HIDE DEF n
<1>7. f \in Frames \ LiveFrames(n) /\ n.view_of[target] = ViewOf(f)
  BY <1>4, <1>5, <1>6 DEF Repaints, LiveFrames, SameFrames
<1>8. /\ WellFormed(a) /\ SameViews(n, a) /\ a.view_of = n.view_of
      /\ a.column_of = [n.column_of EXCEPT ![f] = target]
      /\ a.marked = n.marked
  BY <1>5, <1>6, <1>7, AddFrameAfterSelectedWellFormed
<1> HIDE DEF a
<1>9. LiveFrames(a) = LiveFrames(w) \cup {f}
  <2>1. a.column_of = [w.column_of EXCEPT ![f] = target]
    BY <1>2, <1>5, <1>6, <1>8 DEF Repaints, SameFrames, SameLinks
  <2>2. w.column_of \in [Frames -> OrNone(Columns)]
    BY DEF WellFormed, WellLinked, Graph
  <2>3. QED BY <1>4, <1>5, <2>1, <2>2, NoneIsNeither DEF LiveFrames
<1>10. WellFormed(u) /\ SameLinks(a, u) /\ SameViews(a, u)
  <2>1. f \in LiveFrames(a)
    BY <1>9
  <2> HIDE DEF f
  <2>2. QED BY <1>1, <1>8, <2>1, SelectFrameWellFormed
<1>11. u.selected_view = v
  BY <1>5, <1>6, <1>8, <1>10 DEF SameViews, Repaints
<1>12. LiveFrames(u) = LiveFrames(w) \cup {f}
  BY <1>9, <1>10 DEF SameLinks, LiveFrames
<1>13. u.marked = w.marked \ {f}
  BY <1>2, <1>5, <1>6, <1>8, <1>10 DEF SameLinks, SameFrames
<1>14. NoneEmptyBut(w, {}, {}) => NoneEmptyBut(u, {}, {})
  <2>1. NoneEmptyBut(m, {target}, {}) => NoneEmptyBut(n, {target}, {})
    BY <1>6, SameNoneEmpty DEF Repaints
  <2>2. NoneEmptyBut(n, {target}, {}) => NoneEmptyBut(a, {}, {})
    <3> HIDE DEF f
    <3> QED BY <1>5, <1>6, <1>7, <1>8, FrameFillsColumn
  <2>3. NoneEmptyBut(a, {}, {}) => NoneEmptyBut(u, {}, {})
    BY <1>10, SameNoneEmpty DEF SameLinks
  <2>4. QED BY <1>2, <1>5, <2>1, <2>2, <2>3
<1>15. QED BY <1>2, <1>10, <1>11, <1>12, <1>13, <1>14

-----------------------------------------------------------------------------
(* Appearance: shading, decorations and the bar are left to other          *)
(* operations, but a view that goes takes its part with it.                *)

SameLook(w, u) ==
  u.shaded = w.shaded /\ u.decorated = w.decorated /\ u.bar_visible = w.bar_visible

KeepsLook(w, u) ==
  /\ u.shaded = w.shaded /\ u.decorated = w.decorated
  /\ u.bar_visible = w.bar_visible \ (w.views \ u.views)

\* Without a view that goes the two are the same.
LEMMA SameLookKeeps ==
  ASSUME NEW w, NEW u, SameLook(w, u), SameViews(w, u)
  PROVE  KeepsLook(w, u)
BY DEF SameLook, SameViews, KeepsLook

\* One operation after another that deletes no view.
LEMMA SameLookTwice ==
  ASSUME NEW w, NEW u, NEW x, SameLook(w, u), SameLook(u, x)
  PROVE  SameLook(w, x)
BY DEF SameLook

\* Requests change no appearance.
LEMMA SchedulingLook ==
  ASSUME NEW w \in Graph
  PROVE  /\ \A c, task : SameLook(w, ScheduleTask(w, c, task))
         /\ \A f : SameLook(w, ScheduleDraw(w, f))
         /\ \A f : SameLook(w, ScheduleInputFocus(w, f))
         /\ \A col : SameLook(w, ScheduleColumn(w, col))
         /\ \A v : SameLook(w, ScheduleView(w, v))
         /\ \A v : SameLook(w, ScheduleFramesOfView(w, v))
<1>1. ASSUME NEW c, NEW task PROVE SameLook(w, ScheduleTask(w, c, task))
  <2> DEFINE y == [w.todo_clients EXCEPT ![c] = @ \cup {task}]
  <2>1. ScheduleTask(w, c, task) = [w EXCEPT !.todo_clients = y]
    BY DEF ScheduleTask
  <2> HIDE DEF y
  <2>2. QED BY <2>1 DEF Graph, SameLook
<1>2. SameLook(w, w)
  BY DEF SameLook
<1>3. ASSUME NEW v PROVE SameLook(w, ScheduleFramesOfView(w, v))
  <2> DEFINE y == [c \in Clients |-> IF HasFrame(w, c, v)
                                     THEN w.todo_clients[c] \cup {"update_server"}
                                     ELSE w.todo_clients[c]]
  <2>1. ScheduleFramesOfView(w, v) = [w EXCEPT !.todo_clients = y]
    BY DEF ScheduleFramesOfView
  <2> HIDE DEF y
  <2>2. QED BY <2>1 DEF Graph, SameLook
<1>4. \A col : SameLook(w, ScheduleColumn(w, col))
  BY DEF Graph, SameLook, ScheduleColumn
<1>5. \A v : SameLook(w, ScheduleView(w, v))
  BY DEF Graph, SameLook, ScheduleView
<1>6. QED BY <1>1, <1>2, <1>3, <1>4, <1>5, Zenon DEF ScheduleDraw, ScheduleInputFocus

\* The nested select_frame.
LEMMA SelectInBackgroundLook ==
  ASSUME NEW w \in Graph, NEW col \in Columns, NEW f \in OrNone(Frames)
  PROVE  SameLook(w, SelectInBackground(w, col, f))
<1> DEFINE u == SelectInBackground(w, col, f)
<1>1. CASE f = w.selected_frame[col]
  BY <1>1 DEF SelectInBackground, SameLook
<1>2. CASE f # w.selected_frame[col]
  <2> DEFINE y == ScheduleDraw(w, w.selected_frame[col])
             x == ScheduleDraw(y, f)
  <2>1. w.selected_frame[col] \in OrNone(Frames)
    BY DEF Graph
  <2>2. y \in Graph /\ SameLook(w, y)
    BY <2>1, ScheduleDrawEffect, SchedulingLook DEF Schedules
  <2>3. u = [x EXCEPT !.selected_frame[col] = f]
    BY <1>2 DEF SelectInBackground
  <2> HIDE DEF y, u
  <2>4. x \in Graph /\ SameLook(y, x)
    BY <2>2, ScheduleDrawEffect, SchedulingLook DEF Schedules
  <2> HIDE DEF x
  <2>5. SameLook(x, u)
    BY <2>3, <2>4 DEF Graph, SameLook
  <2>6. QED BY <2>2, <2>4, <2>5, SameLookTwice DEF u
<1>3. QED BY <1>1, <1>2

\* handle_selected_frame_changed.
LEMMA HandleSelectedFrameChangedLook ==
  ASSUME NEW w, WellLinked(w), NEW old \in OrNone(LiveFrames(w)), NEW new
  PROVE  SameLook(w, HandleSelectedFrameChanged(w, old, new))
<1> DEFINE a == IF new # None THEN [w EXCEPT !.timer = TRUE] ELSE [w EXCEPT !.todo_root = TRUE]
           col == w.column_of[old]
           h == Head(w.column_activity[col])
<1>1. w \in Graph
  BY DEF WellLinked
<1>2. SameLook(w, a) /\ a \in Graph
  <2>1. [w EXCEPT !.timer = TRUE] \in Graph /\ [w EXCEPT !.todo_root = TRUE] \in Graph
    BY <1>1, Zenon DEF Graph
  <2>2. QED BY <1>1, <2>1 DEF Graph, SameLook
<1>3. CASE old # None /\ w.selected_frame[col] = old /\ h # old
  <2>1. col \in Columns /\ old \in FramesIn(w, col)
    BY <1>1, <1>3 DEF OrNone, LiveFrames, FramesIn, Graph
  <2>2. h \in OrNone(Frames)
    BY <2>1, MostRecentIsInColumn DEF FramesIn, OrNone
  <2>3. HandleSelectedFrameChanged(w, old, new) = SelectInBackground(a, col, h)
    BY <1>3 DEF HandleSelectedFrameChanged
  <2> HIDE DEF a, h, col
  <2>4. SameLook(a, SelectInBackground(a, col, h))
    BY <1>2, <2>1, <2>2, SelectInBackgroundLook
  <2>5. QED BY <1>2, <2>3, <2>4, SameLookTwice
<1>4. CASE ~ (old # None /\ w.selected_frame[col] = old /\ h # old)
  <2>1. HandleSelectedFrameChanged(w, old, new) = a
    BY <1>4 DEF HandleSelectedFrameChanged
  <2>2. QED BY <1>2, <2>1
<1>5. QED BY <1>3, <1>4

\* WColumn::select_frame.
LEMMA SelectFrameInColumnLook ==
  ASSUME NEW w, WellLinked(w), NothingDangles(w), NEW col \in Columns, NEW f \in OrNone(Frames)
  PROVE  SameLook(w, SelectFrameInColumn(w, col, f))
<1> DEFINE old == w.selected_frame[col]
           m == SelectInBackground(w, col, f)
           t == HandleSelectedFrameChanged(m, old, f)
           u == SelectFrameInColumn(w, col, f)
<1>1. w \in Graph
  BY DEF WellLinked
<1>2. /\ m \in Graph /\ SameLook(w, m) /\ SameLinks(w, m) /\ SameViews(w, m)
      /\ m.selected_column = w.selected_column
  <2>1. SameLook(w, m)
    BY <1>1, SelectInBackgroundLook
  <2>2. /\ m \in Graph
        /\ SameLinks(w, m) /\ SameViews(w, m)
        /\ m.selected_column = w.selected_column
        /\ m.selected_frame = [w.selected_frame EXCEPT ![col] = f]
    BY <1>1, SelectInBackgroundEffect
  <2> HIDE DEF m
  <2>3. QED BY <2>1, <2>2
<1>3. u = IF f = old THEN w
          ELSE IF col # SelectedColumn(w) THEN m
          ELSE IF f = None THEN t ELSE ScheduleInputFocus(t, f)
  BY DEF SelectFrameInColumn
<1>4. WellLinked(m)
  BY <1>2, SameLinksWellLinked DEF WellLinked, Tree, SameViews
<1>5. old \in OrNone(LiveFrames(m))
  <2>1. old \in OrNone(FramesIn(w, col))
    BY DEF NothingDangles
  <2>2. FramesIn(w, col) \subseteq LiveFrames(w) /\ LiveFrames(m) = LiveFrames(w)
    BY <1>2, NoneIsNeither DEF FramesIn, LiveFrames, SameLinks
  <2>3. QED BY <2>1, <2>2 DEF OrNone
<1> HIDE DEF m, u, old
<1>6. SameLook(m, t) /\ t \in Graph
  BY <1>4, <1>5, HandleSelectedFrameChangedLook, HandleSelectedFrameChangedEffect
<1> HIDE DEF t
<1>7. SameLook(t, ScheduleInputFocus(t, f)) /\ SameLook(w, w)
  BY <1>6, SchedulingLook DEF SameLook
<1>8. QED BY <1>2, <1>3, <1>6, <1>7, SameLookTwice DEF u

\* WView::select_column.
LEMMA SelectColumnLook ==
  ASSUME NEW w, WellLinked(w), NothingDangles(w), NEW v \in Views,
         NEW col \in OrNone(ColumnsOf(w, v))
  PROVE  SameLook(w, SelectColumn(w, v, col))
<1> DEFINE old == SelectedFrameOfView(w, v)
           new == SelectedFrameOfColumn(w, col)
           e == ScheduleDraw(w, old)
           d == ScheduleDraw(e, new)
           m == [d EXCEPT !.selected_column[v] = col]
           t == HandleSelectedFrameChanged(m, old, new)
           u == SelectColumn(w, v, col)
<1>0. /\ w \in Graph
      /\ w.selected_frame \in [Columns -> OrNone(Frames)]
      /\ w.selected_column \in [Views -> OrNone(Columns)]
  BY DEF WellLinked, Graph
<1>1. u = IF col = w.selected_column[v] THEN w
          ELSE IF v # w.selected_view THEN m
          ELSE IF new = None THEN t ELSE ScheduleInputFocus(t, new)
  BY DEF SelectColumn
<1>2. old \in OrNone(LiveFrames(w))
  <2>1. v # None /\ w.selected_column[v] \in OrNone(ColumnsOf(w, v))
    BY NoneIsNeither DEF NothingDangles
  <2>2. old = IF w.selected_column[v] = None THEN None
              ELSE w.selected_frame[w.selected_column[v]]
    BY <2>1 DEF SelectedFrameOfView, SelectedFrameOfColumn
  <2>3. \A c \in Columns : w.selected_frame[c] \in OrNone(FramesIn(w, c))
    BY DEF NothingDangles
  <2>4. \A c \in Columns : FramesIn(w, c) \subseteq LiveFrames(w)
    BY NoneIsNeither DEF FramesIn, LiveFrames
  <2>5. QED BY <2>1, <2>2, <2>3, <2>4 DEF OrNone, ColumnsOf
<1>3. new \in OrNone(Frames)
  BY <1>0 DEF SelectedFrameOfColumn, OrNone, ColumnsOf
<1>4. Schedules(w, e) /\ SameLook(w, e)
  BY <1>0, <1>2, ScheduleDrawEffect, SchedulingLook DEF OrNone, LiveFrames
<1> HIDE DEF e, old, new, u
<1>5. Schedules(e, d) /\ SameLook(e, d)
  BY <1>3, <1>4, ScheduleDrawEffect, SchedulingLook DEF Schedules
<1>6. Schedules(w, d) /\ SameLook(w, d)
  BY <1>4, <1>5, SchedulesTwice, SameLookTwice
<1> HIDE DEF d
<1>7. m \in Graph
  <2>1. d \in Graph /\ [d.selected_column EXCEPT ![v] = col] \in [Views -> OrNone(Columns)]
    BY <1>0, <1>6 DEF Schedules, OrNone, ColumnsOf
  <2>2. QED BY <2>1, Zenon DEF Graph
<1>8. SameLook(d, m) /\ SameLinks(d, m) /\ SameViews(d, m)
  BY <1>6 DEF Graph, Schedules, SameLook, SameLinks, SameViews
<1>9. SameLook(w, m) /\ SameLinks(w, m) /\ SameViews(w, m)
  BY <1>6, <1>8 DEF Schedules, SameLook, SameLinks, SameViews
<1> HIDE DEF m
<1>10. WellLinked(m)
  BY <1>7, <1>9, SameLinksWellLinked DEF WellLinked, Tree, SameViews
<1>11. old \in OrNone(LiveFrames(m))
  BY <1>2, <1>9 DEF LiveFrames, SameLinks
<1>12. SameLook(m, t) /\ t \in Graph
  BY <1>10, <1>11, HandleSelectedFrameChangedLook, HandleSelectedFrameChangedEffect
<1> HIDE DEF t
<1>13. SameLook(t, ScheduleInputFocus(t, new)) /\ SameLook(w, w)
  BY <1>12, SchedulingLook DEF SameLook
<1>14. QED BY <1>1, <1>9, <1>12, <1>13, SameLookTwice DEF u

\* WView::select_frame.
LEMMA SelectFrameLook ==
  ASSUME NEW w, WellFormed(w), NEW f \in LiveFrames(w)
  PROVE  SameLook(w, SelectFrame(w, f))
<1> DEFINE col == w.column_of[f]
           s == SelectFrameInColumn(w, col, f)
<1>1. WellLinked(w) /\ NothingDangles(w) /\ w \in Graph /\ Tree(w)
  BY SelectionDoesNotDangle DEF WellFormed, WellLinked
<1>2. f \in Frames /\ col \in Columns /\ f \in FramesIn(w, col)
  BY <1>1 DEF Graph, LiveFrames, OrNone, FramesIn
<1>3. ViewOf(f) \in Views /\ col \in ColumnsOf(w, ViewOf(f))
  BY <1>1, <1>2, FrameParts DEF Tree, ColumnsOf
<1>4. SelectFrame(w, f) = SelectColumn(s, ViewOf(f), col)
  BY DEF SelectFrame
<1> HIDE DEF col
<1>5. SameLook(w, s)
  BY <1>1, <1>2, SelectFrameInColumnLook DEF OrNone
<1>6. WellFormed(s) /\ SameLinks(w, s)
  BY <1>2, SelectOwnFrameWellFormed
<1> HIDE DEF s
<1>7. WellLinked(s) /\ NothingDangles(s)
  BY <1>6, SelectionDoesNotDangle DEF WellFormed
<1>8. col \in OrNone(ColumnsOf(s, ViewOf(f)))
  BY <1>3, <1>6 DEF SameLinks, ColumnsOf, OrNone
<1>9. SameLook(s, SelectColumn(s, ViewOf(f), col))
  BY <1>3, <1>7, <1>8, SelectColumnLook
<1>10. QED BY <1>4, <1>5, <1>9, SameLookTwice

\* A part of an operation that deletes no view, before or after one that may.
LEMMA KeepsLookAround ==
  ASSUME NEW w, NEW u, NEW x
  PROVE  /\ SameLook(w, u) /\ SameViews(w, u) /\ KeepsLook(u, x) => KeepsLook(w, x)
         /\ KeepsLook(w, u) /\ SameLook(u, x) /\ SameViews(u, x) => KeepsLook(w, x)
BY DEF SameLook, SameViews, KeepsLook

\* ~WView.
LEMMA DeleteViewLook ==
  ASSUME NEW w \in Graph, NEW v \in w.views
  PROVE  KeepsLook(w, DeleteView(w, v)) /\ DeleteView(w, v).views = w.views \ {v}
<1>1. /\ DeleteView(w, v).shaded = w.shaded /\ DeleteView(w, v).decorated = w.decorated
      /\ DeleteView(w, v).bar_visible = w.bar_visible \ {v}
      /\ DeleteView(w, v).views = w.views \ {v}
  BY DEF Graph, DeleteView
<1>2. QED BY <1>1 DEF KeepsLook

\* WM::select_view deletes the view that was left, if it is empty, and no other.
LEMMA SelectViewLook ==
  ASSUME NEW w, WellFormed(w), NEW v \in w.views, NEW u, u = SelectView(w, v)
  PROVE  /\ KeepsLook(w, u)
         /\ u.views = IF /\ w.selected_view \notin {None, v}
                         /\ w.columns[w.selected_view] = <<>>
                      THEN w.views \ {w.selected_view} ELSE w.views
<1> DEFINE old == w.selected_view
           h == IF old = None THEN w ELSE ScheduleFramesOfView(w, old)
           m == [h EXCEPT !.selected_view = v]
           from == SelectedFrameOfView(w, old)
           new == SelectedFrameOfView(w, v)
           t == HandleSelectedFrameChanged(m, from, new)
           s == IF old # None /\ t.columns[old] = <<>> THEN DeleteView(t, old) ELSE t
           x == ScheduleFramesOfView(s, v)
<1>0. /\ w \in Graph /\ WellLinked(w) /\ v \in Views /\ v # None
      /\ old \in OrNone(w.views) /\ old \in OrNone(Views)
  BY NoneIsNeither DEF WellFormed, WellLinked, Graph, Selection, OrNone
<1>1. u = IF v = old THEN w ELSE IF new = None THEN x ELSE ScheduleInputFocus(x, new)
  BY DEF SelectView
<1>2. CASE v = old
  BY <1>1, <1>2 DEF KeepsLook
<1>3. CASE v # old
  <2>1. Schedules(w, h) /\ SameLook(w, h)
    <3>1. CASE old = None
      BY <1>0, <3>1, SchedulesNothing DEF SameLook
    <3>2. CASE old # None
      BY <1>0, <3>2, ScheduleFramesOfViewEffect, SchedulingLook DEF OrNone
    <3>3. QED BY <3>1, <3>2
  <2>2. from \in OrNone(LiveFrames(w)) /\ new \in OrNone(Frames)
    BY <1>0, SelectedFrameIsLive DEF OrNone, LiveFrames
  <2> HIDE DEF h, from, new, old
  <2>3. m \in Graph
    <3>1. h \in Graph /\ v \in OrNone(Views)
      BY <1>0, <2>1 DEF Schedules, OrNone
    <3>2. QED BY <3>1, Zenon DEF Graph
  <2>4. SameLook(h, m) /\ SameLinks(h, m) /\ m.views = h.views
    BY <2>1 DEF Schedules, Graph, SameLook, SameLinks
  <2>5. SameLook(w, m) /\ SameLinks(w, m) /\ m.views = w.views
    BY <2>1, <2>4 DEF Schedules, SameLook, SameLinks, SameViews
  <2> HIDE DEF m
  <2>6. WellLinked(m)
    BY <1>0, <2>3, <2>5, SameLinksWellLinked DEF WellLinked, Tree
  <2>7. from \in OrNone(LiveFrames(m))
    BY <2>2, <2>5 DEF SameLinks, LiveFrames
  <2>8. SameLook(m, t)
    BY <2>6, <2>7, HandleSelectedFrameChangedLook
  <2>9. t \in Graph /\ SameLinks(m, t) /\ SameViews(m, t)
    BY <2>6, <2>7, HandleSelectedFrameChangedEffect
  <2> HIDE DEF t
  <2>10. SameLook(w, t) /\ t.views = w.views /\ t.columns = w.columns
    BY <2>5, <2>8, <2>9 DEF SameLook, SameLinks, SameViews
  <2>11. /\ KeepsLook(w, s) /\ s \in Graph
         /\ s.views = IF old # None /\ w.columns[old] = <<>> THEN w.views \ {old} ELSE w.views
    <3>1. CASE old # None /\ w.columns[old] = <<>>
      <4>1. s = DeleteView(t, old) /\ old \in t.views
        BY <1>0, <2>10, <3>1 DEF OrNone
      <4>2. KeepsLook(t, s) /\ s.views = t.views \ {old}
        BY <2>9, <4>1, DeleteViewLook
      <4>3. s \in Graph
        <5>1. t.views \ {old} \in SUBSET Views /\ t.bar_visible \ {old} \in SUBSET Views
              /\ t.todo_views \ {old} \in SUBSET Views
          BY <2>9 DEF Graph
        <5>2. QED BY <2>9, <4>1, <5>1, Zenon DEF Graph, DeleteView
      <4>4. QED BY <2>10, <3>1, <4>2, <4>3 DEF KeepsLook, SameLook
    <3>2. CASE ~ (old # None /\ w.columns[old] = <<>>)
      <4>1. s = t
        BY <2>10, <3>2
      <4>2. QED BY <2>9, <2>10, <3>2, <4>1 DEF KeepsLook, SameLook
    <3>3. QED BY <3>1, <3>2
  <2> HIDE DEF s
  <2>12. Schedules(s, x) /\ SameLook(s, x)
    BY <1>0, <2>11, ScheduleFramesOfViewEffect, SchedulingLook
  <2> HIDE DEF x
  <2>13. x \in Graph /\ SameViews(s, x)
    BY <2>12 DEF Schedules
  <2>14. KeepsLook(w, x) /\ x.views = s.views
    BY <2>11, <2>12, <2>13, KeepsLookAround DEF SameViews
  <2>15. CASE new = None
    BY <1>1, <1>3, <2>11, <2>14, <2>15 DEF old
  <2>16. CASE new # None
    <3>1. Schedules(x, u) /\ SameLook(x, u)
      BY <1>1, <1>3, <2>2, <2>13, <2>16, ScheduleInputFocusEffect, SchedulingLook DEF OrNone
    <3>2. KeepsLook(w, u) /\ u.views = x.views
      BY <2>14, <3>1, KeepsLookAround DEF Schedules, SameViews
    <3>3. QED BY <1>3, <2>11, <2>14, <3>2 DEF old
  <2>17. QED BY <2>15, <2>16
<1>4. QED BY <1>2, <1>3

\* WView::create_column.
LEMMA CreateColumnLook ==
  ASSUME NEW w, WellFormed(w), NEW v \in w.views, NEW i \in 1..(Len(w.columns[v]) + 1),
         NEW col \in FreeColumns(w)
  PROVE  SameLook(w, CreateColumn(w, v, i, col))
<1> DEFINE x == InsertColumn(w, v, i, col)
           y == IF w.selected_column[v] = None THEN SelectColumn(x, v, col) ELSE x
<1>1. CreateColumn(w, v, i, col) = ScheduleView(y, v)
  BY DEF CreateColumn, InsertColumn
<1>2. w \in Graph /\ v \in Views
  BY DEF WellFormed, WellLinked, Graph
<1>3. SameLook(w, x)
  <2> DEFINE a == [w.columns EXCEPT ![v] = InsertAt(@, i, col)]
             b == [w.view_of EXCEPT ![col] = v]
  <2>1. x = [w EXCEPT !.columns = a, !.view_of = b]
    BY DEF InsertColumn
  <2> HIDE DEF a, b
  <2>2. QED BY <1>2, <2>1 DEF Graph, SameLook
<1>4. /\ WellLinked(x) /\ ColumnsOf(x, v) = ColumnsOf(w, v) \cup {col}
      /\ w.selected_column[v] = None => NothingDangles(x)
  <2>1. x = InsertColumn(w, v, i, col)
    OBVIOUS
  <2> HIDE DEF x
  <2>2. ColumnInserted(w, v, i, col, x)
    BY <2>1, InsertedColumn
  <2>3. QED BY <2>2 DEF ColumnInserted
<1> HIDE DEF x
<1>5. SameLook(x, y) /\ y \in Graph
  <2>1. CASE w.selected_column[v] = None
    <3>1. col \in OrNone(ColumnsOf(x, v))
      BY <1>4 DEF OrNone
    <3>2. y = SelectColumn(x, v, col)
      BY <2>1
    <3> HIDE DEF y
    <3>3. QED BY <1>2, <1>4, <2>1, <3>1, <3>2, SelectColumnLook, SelectColumnEffect
  <2>2. CASE w.selected_column[v] # None
    BY <1>4, <2>2 DEF SameLook, WellLinked
  <2>3. QED BY <2>1, <2>2
<1> HIDE DEF y
<1>6. SameLook(y, ScheduleView(y, v))
  BY <1>5, SchedulingLook
<1>7. QED BY <1>1, <1>3, <1>5, <1>6, SameLookTwice

\* WColumn::add_frame.
LEMMA AddFrameLook ==
  ASSUME NEW w, WellFormed(w), NEW f \in Frames \ LiveFrames(w),
         NEW col \in Columns, w.view_of[col] = ViewOf(f),
         NEW i \in 1..(Len(w.frames[col]) + 1)
  PROVE  SameLook(w, AddFrame(w, f, col, i))
<1> DEFINE x == InsertFrame(w, f, col, i)
           y == IF w.selected_frame[col] = None THEN SelectFrameInColumn(x, col, f) ELSE x
<1>1. AddFrame(w, f, col, i) = ScheduleColumn(y, col)
  BY DEF AddFrame, InsertFrame
<1>2. w \in Graph
  BY DEF WellFormed, WellLinked
<1>3. SameLook(w, x)
  <2> DEFINE v == ViewOf(f)
             a == [w.column_of EXCEPT ![f] = col]
             b == [w.frames EXCEPT ![col] = InsertAt(@, i, f)]
             c == [w.column_activity EXCEPT ![col] = <<f>> \o @]
             d == [w.view_activity EXCEPT ![v] = <<f>> \o @]
             e == <<f>> \o w.activity
  <2>1. x = [w EXCEPT !.column_of = a, !.frames = b, !.column_activity = c,
                      !.view_activity = d, !.activity = e]
    BY DEF InsertFrame
  <2> HIDE DEF a, b, c, d, e
  <2>2. QED BY <1>2, <2>1 DEF Graph, SameLook
<1>4. WellLinked(x) /\ (w.selected_frame[col] = None => NothingDangles(x))
  <2>1. x = InsertFrame(w, f, col, i)
    OBVIOUS
  <2> HIDE DEF x
  <2>2. /\ WellLinked(x)
        /\ x.column_of = [w.column_of EXCEPT ![f] = col]
        /\ x.frames = [w.frames EXCEPT ![col] = InsertAt(w.frames[col], i, f)]
        /\ x.column_activity = [w.column_activity EXCEPT ![col] = <<f>> \o w.column_activity[col]]
        /\ SameViews(w, x) /\ x.marked = w.marked
        /\ x.columns = w.columns /\ x.view_of = w.view_of
        /\ x.selected_column = w.selected_column /\ x.selected_frame = w.selected_frame
        /\ FramesIn(x, col) = FramesIn(w, col) \cup {f}
        /\ \A z \in Views : Selects(x.selected_column[z], ColumnsOf(x, z))
        /\ \A c \in Columns \ {col} : Selects(x.selected_frame[c], FramesIn(x, c))
        /\ x.selected_view \in OrNone(x.views)
        /\ Selects(w.selected_frame[col], FramesIn(w, col))
        /\ w.selected_frame[col] = None => NothingDangles(x)
    BY <2>1, InsertedFrame
  <2>3. QED BY <2>2
<1> HIDE DEF x
<1>5. SameLook(x, y) /\ y \in Graph
  <2>1. CASE w.selected_frame[col] = None
    <3>1. f \in OrNone(Frames)
      BY DEF OrNone
    <3>2. y = SelectFrameInColumn(x, col, f)
      BY <2>1
    <3> HIDE DEF y
    <3>3. QED BY <1>4, <2>1, <3>1, <3>2, SelectFrameInColumnLook, SelectFrameInColumnEffect
  <2>2. CASE w.selected_frame[col] # None
    BY <1>4, <2>2 DEF SameLook, WellLinked
  <2>3. QED BY <2>1, <2>2
<1> HIDE DEF y
<1>6. SameLook(y, ScheduleColumn(y, col))
  BY <1>5, SchedulingLook
<1>7. QED BY <1>1, <1>3, <1>5, <1>6, SameLookTwice

\* add_frame after the selected frame.
LEMMA AddFrameAfterSelectedLook ==
  ASSUME NEW w, WellFormed(w), NEW f \in Frames \ LiveFrames(w),
         NEW col \in Columns, w.view_of[col] = ViewOf(f)
  PROVE  SameLook(w, AddFrameAfterSelected(w, f, col))
<1>1. /\ w.frames[col] \in Seq(Frames) /\ Enumerates(w.frames[col], FramesIn(w, col))
      /\ Selects(w.selected_frame[col], FramesIn(w, col))
  BY DEF WellFormed, WellLinked, Tree, Graph, Selection
<1>2. After(w.frames[col], w.selected_frame[col]) \in 1..(Len(w.frames[col]) + 1)
  BY <1>1, AfterProperties, NoneIsNeither
<1>3. QED BY <1>2, AddFrameLook DEF AddFrameAfterSelected

\* handle_frame_activity.
LEMMA HandleFrameActivityLook ==
  ASSUME NEW w, WellFormed(w)
  PROVE  SameLook(w, HandleFrameActivity(w))
<1> DEFINE f == SelectedFrame(w)
           col == w.column_of[f]
           a == [w.column_activity EXCEPT ![col] = ToFront(@, f)]
           b == [w.view_activity EXCEPT ![ViewOf(f)] = ToFront(@, f)]
           c == ToFront(w.activity, f)
           d == IF Head(w.column_activity[col]) = f THEN w.todo_columns
                ELSE w.todo_columns \cup {col}
<1>1. HandleFrameActivity(w) =
        IF f = None THEN w
        ELSE [w EXCEPT !.column_activity = a, !.view_activity = b, !.activity = c,
                       !.todo_columns = d]
  BY DEF HandleFrameActivity
<1>2. w \in Graph
  BY DEF WellFormed, WellLinked
<1> HIDE DEF a, b, c, d, f
<1>3. QED BY <1>1, <1>2 DEF Graph, SameLook

\* ~WColumn: only a view that goes with its last column loses its part.
LEMMA DeleteColumnLook ==
  ASSUME NEW w, WellFormed(w), NEW col \in Columns, w.view_of[col] # None,
         FramesIn(w, col) = {}
  PROVE  KeepsLook(w, DeleteColumn(w, col))
<1> DEFINE v == w.view_of[col]
           i == Position(w.columns[v], col)
           n == Neighbour(w.columns[v], col)
           l == LeaveColumn(w, col)
           x == EraseColumn(l, v, i, col)
           u == DeleteColumn(w, col)
<1>0. /\ w \in Graph /\ WellLinked(w) /\ NothingDangles(w) /\ Tree(w)
      /\ v \in Views /\ v \in w.views
      /\ w.columns[v] \in Seq(Columns)
      /\ Enumerates(w.columns[v], ColumnsOf(w, v)) /\ col \in ColumnsOf(w, v)
  <2>1. w \in Graph /\ WellLinked(w) /\ NothingDangles(w) /\ Tree(w)
    BY SelectionDoesNotDangle DEF WellFormed, WellLinked
  <2>2. v \in Views /\ w.columns \in [Views -> Seq(Columns)]
    BY <2>1 DEF Graph, OrNone
  <2>3. QED BY <2>1, <2>2 DEF Tree, ColumnsOf
<1>1. u = IF x.columns[v] = <<>> /\ v # x.selected_view THEN DeleteView(x, v) ELSE x
  BY ZenonT(60) DEF DeleteColumn, Neighbour, LeaveColumn, EraseColumn
<1>2. SameLook(w, l) /\ l \in Graph
  <2>1. l = IF col = w.selected_column[v] THEN SelectColumn(w, v, n) ELSE w
    BY DEF LeaveColumn
  <2>2. n \in OrNone(ColumnsOf(w, v))
    BY <1>0, NeighbourProperties DEF Selects, OrNone
  <2> HIDE DEF n, l, v
  <2>3. CASE col = w.selected_column[v]
    BY <1>0, <2>1, <2>2, <2>3, SelectColumnLook, SelectColumnEffect
  <2>4. CASE col # w.selected_column[v]
    BY <1>0, <2>1, <2>4 DEF SameLook
  <2>5. QED BY <2>3, <2>4
<1>3. SameLook(l, x)
  <2> DEFINE a == [l.columns EXCEPT ![v] = RemoveAt(@, i)]
             b == [l.view_of EXCEPT ![col] = None]
             c == l.todo_columns \ {col}
             d == l.todo_views \cup {v}
  <2>1. x = [l EXCEPT !.columns = a, !.view_of = b, !.todo_columns = c, !.todo_views = d]
    BY DEF EraseColumn
  <2> HIDE DEF a, b, c, d, l, x
  <2>2. QED BY <1>2, <2>1 DEF Graph, SameLook
<1>4. WellFormed(x) /\ SameViews(w, x)
  <2>1. l = LeaveColumn(w, col) /\ x = EraseColumn(l, w.view_of[col], i, col)
        /\ i = Position(w.columns[w.view_of[col]], col)
    OBVIOUS
  <2> HIDE DEF l, x, i, v
  <2>2. /\ WellFormed(x)
        /\ l \in Graph /\ SameLinks(w, l) /\ SameViews(w, l)
        /\ x.columns = [w.columns EXCEPT ![w.view_of[col]] =
                          RemoveAt(w.columns[w.view_of[col]],
                                   Position(w.columns[w.view_of[col]], col))]
        /\ x.view_of = [w.view_of EXCEPT ![col] = None]
        /\ SameViews(w, x) /\ SameFrames(w, x)
        /\ x.selected_column = l.selected_column /\ x.selected_frame = l.selected_frame
        /\ x.column_activity = w.column_activity
    BY SMTT(60), <2>1, ErasedColumn
  <2>3. QED BY <2>2
<1> HIDE DEF l, x, v
<1>5. SameLook(w, x)
  BY <1>2, <1>3, SameLookTwice
<1>6. CASE x.columns[v] = <<>> /\ v # x.selected_view
  <2>1. x \in Graph /\ v \in x.views
    BY <1>0, <1>4 DEF WellFormed, WellLinked, SameViews
  <2>2. KeepsLook(x, u)
    BY <1>1, <1>6, <2>1, DeleteViewLook
  <2>3. QED BY <1>4, <1>5, <2>2, KeepsLookAround
<1>7. CASE ~ (x.columns[v] = <<>> /\ v # x.selected_view)
  BY <1>1, <1>4, <1>5, <1>7, SameLookKeeps
<1>8. QED BY <1>6, <1>7

\* WFrame::remove.
LEMMA RemoveFrameLook ==
  ASSUME NEW w, WellFormed(w), NEW f \in LiveFrames(w)
  PROVE  KeepsLook(w, RemoveFrame(w, f))
<1> DEFINE col == w.column_of[f]
           v == ViewOf(f)
           succ == Successor(w.column_activity[col], f)
           l == LeaveFrame(w, f)
           k == ScheduleTask(l, ClientOf(f), "update_server")
           d == AskForErased(l, f, col)
           x == EraseFrame(d, f, col)
           u == RemoveFrame(w, f)
<1>0. /\ w \in Graph /\ WellLinked(w) /\ NothingDangles(w)
      /\ f \in Frames /\ ClientOf(f) \in Clients
      /\ col \in Columns /\ col # None /\ w.view_of[col] = v /\ v \in Views
      /\ w.column_activity[col] \in Seq(Frames)
      /\ Enumerates(w.column_activity[col], FramesIn(w, col)) /\ f \in FramesIn(w, col)
  <2>1. w \in Graph /\ WellLinked(w) /\ NothingDangles(w) /\ Tree(w) /\ Histories(w)
    BY SelectionDoesNotDangle DEF WellFormed, WellLinked
  <2>2. f \in Frames /\ ClientOf(f) \in Clients /\ v \in Views
    BY FrameParts DEF LiveFrames
  <2>3. col \in Columns /\ col # None /\ f \in FramesIn(w, col)
    BY <2>1, <2>2 DEF Graph, LiveFrames, OrNone, FramesIn
  <2>4. w.view_of[col] = v
    BY <2>1 DEF Tree
  <2>5. QED BY <2>1, <2>2, <2>3, <2>4 DEF Graph, Histories
<1>1. u = IF x.frames[col] = <<>> THEN DeleteColumn(x, col) ELSE x
  BY DEF RemoveFrame, Successor, LeaveFrame, AskForErased, EraseFrame
<1>2. SameLook(w, l) /\ l \in Graph
  <2>1. l = IF w.selected_frame[col] = f THEN SelectFrameInColumn(w, col, succ) ELSE w
    BY DEF LeaveFrame
  <2>2. succ \in OrNone(Frames)
    BY <1>0, SuccessorProperties DEF Selects, OrNone, FramesIn
  <2> HIDE DEF succ, l, col
  <2>3. CASE w.selected_frame[col] = f
    BY <1>0, <2>1, <2>2, <2>3, SelectFrameInColumnLook, SelectFrameInColumnEffect
  <2>4. CASE w.selected_frame[col] # f
    BY <1>0, <2>1, <2>4 DEF SameLook
  <2>5. QED BY <2>3, <2>4
<1>3. SameLook(l, d)
  <2>1. d = ScheduleColumn(k, col)
    BY DEF AskForErased
  <2> HIDE DEF l, d, col
  <2>2. k \in Graph /\ SameLook(l, k)
    BY <1>0, <1>2, ScheduleTaskEffect, SchedulingLook DEF Schedules, Tasks
  <2> HIDE DEF k
  <2>3. SameLook(k, d)
    BY <2>1, <2>2, SchedulingLook
  <2>4. QED BY <2>2, <2>3, SameLookTwice
<1>4. /\ WellFormed(x) /\ Schedules(l, d)
      /\ x.column_of = [w.column_of EXCEPT ![f] = None]
      /\ SameViews(w, x) /\ x.view_of = w.view_of
  <2>1. l = LeaveFrame(w, f) /\ d = AskForErased(l, f, w.column_of[f])
        /\ x = EraseFrame(d, f, w.column_of[f])
    OBVIOUS
  <2> HIDE DEF l, d, x, col
  <2>2. /\ WellFormed(x)
        /\ l \in Graph /\ SameLinks(w, l) /\ SameViews(w, l)
        /\ Schedules(l, d)
        /\ x.column_of = [w.column_of EXCEPT ![f] = None]
        /\ x.frames = [w.frames EXCEPT ![w.column_of[f]] = Erase(w.frames[w.column_of[f]], f)]
        /\ x.column_activity = [w.column_activity EXCEPT ![w.column_of[f]] =
                                  Erase(w.column_activity[w.column_of[f]], f)]
        /\ SameViews(w, x) /\ x.marked = w.marked
        /\ x.columns = w.columns /\ x.view_of = w.view_of
        /\ x.selected_column = w.selected_column /\ x.selected_frame = l.selected_frame
    BY <2>1, ErasedFrame
  <2>3. QED BY <2>2
<1>5. SameLook(d, x)
  <2> DEFINE a == [d.column_of EXCEPT ![f] = None]
             b == [d.frames EXCEPT ![col] = Erase(@, f)]
             c == [d.column_activity EXCEPT ![col] = Erase(@, f)]
             e == [d.view_activity EXCEPT ![ViewOf(f)] = Erase(@, f)]
             g == Erase(d.activity, f)
  <2>1. x = [d EXCEPT !.column_of = a, !.frames = b, !.column_activity = c,
                      !.view_activity = e, !.activity = g]
    BY DEF EraseFrame
  <2> HIDE DEF a, b, c, e, g, d, x
  <2>2. QED BY <1>4, <2>1 DEF Graph, SameLook, Schedules
<1> HIDE DEF l, d, x, col, v
<1>6. SameLook(w, x)
  BY <1>2, <1>3, <1>5, SameLookTwice
<1>7. CASE x.frames[col] = <<>>
  <2>1. FramesIn(x, col) = {}
    <3>1. x.frames[col] \in Seq(Frames) /\ Enumerates(x.frames[col], FramesIn(x, col))
      BY <1>0, <1>4 DEF Graph, Tree, WellFormed, WellLinked
    <3>2. QED BY ZenonT(60), <1>7, <3>1, EnumerationProperties
  <2>2. x.view_of[col] # None
    BY <1>0, <1>4, NoneIsNeither
  <2>3. KeepsLook(x, u)
    BY <1>0, <1>1, <1>4, <1>7, <2>1, <2>2, DeleteColumnLook
  <2>4. QED BY <1>4, <1>6, <2>3, KeepsLookAround
<1>8. CASE x.frames[col] # <<>>
  BY <1>1, <1>4, <1>6, <1>8, SameLookKeeps
<1>9. QED BY <1>7, <1>8

\* ~WFrame takes the frame's attributes with it.
LEMMA DeleteFrameLook ==
  ASSUME NEW w, WellFormed(w), NEW f \in LiveFrames(w), NEW u, u = DeleteFrame(w, f)
  PROVE  /\ u.shaded = w.shaded \ {f} /\ u.decorated = w.decorated \ {f}
         /\ u.bar_visible = w.bar_visible \ (w.views \ u.views)
         /\ u.views = w.views \/ u.views = w.views \ {ViewOf(f)}
         /\ \A c \in Columns : c # w.column_of[f] => u.view_of[c] = w.view_of[c]
         /\ u.view_of[w.column_of[f]] # None => FramesIn(u, w.column_of[f]) # {}
<1> DEFINE r == RemoveFrame(w, f)
<1>1. KeepsLook(w, r)
  BY RemoveFrameLook
<1>2. /\ WellFormed(r)
      /\ r.selected_view = w.selected_view
      /\ r.views = w.views \/ r.views = w.views \ {ViewOf(f)}
      /\ \A c \in Columns : c # w.column_of[f] => r.view_of[c] = w.view_of[c]
      /\ r.column_of = [w.column_of EXCEPT ![f] = None]
      /\ r.marked = w.marked
      /\ r.view_of[w.column_of[f]] # None => FramesIn(r, w.column_of[f]) # {}
      /\ ViewOf(f) \in r.views => ColumnsOf(r, ViewOf(f)) # {} \/ ViewOf(f) = r.selected_view
  BY RemoveFrameWellFormed
<1>3. u = [r EXCEPT !.shaded = @ \ {f}, !.decorated = @ \ {f}, !.marked = @ \ {f}]
  BY DEF DeleteFrame
<1> HIDE DEF r
<1>4. /\ u.shaded = r.shaded \ {f} /\ u.decorated = r.decorated \ {f}
      /\ u.bar_visible = r.bar_visible /\ u.views = r.views
      /\ u.view_of = r.view_of /\ u.column_of = r.column_of
  BY <1>2, <1>3 DEF WellFormed, WellLinked, Graph
<1>5. \A c : FramesIn(u, c) = FramesIn(r, c)
  BY <1>4 DEF FramesIn
<1>6. QED BY <1>1, <1>2, <1>4, <1>5 DEF KeepsLook

\* A frame made for a client, and one on its way to another view: the bar is the same.
LEMMA NewFrameLook ==
  ASSUME NEW w \in Graph, NEW f
  PROVE  /\ NewFrame(w, f).bar_visible = w.bar_visible
         /\ NewFrame(w, f).shaded = w.shaded \ {f}
         /\ NewFrame(w, f).decorated = w.decorated \cup {f}
         /\ \A g : CarryFrame(w, f, g).bar_visible = w.bar_visible
BY DEF Graph, NewFrame, CarryFrame

\* place_frame_in_smallest_column.
LEMMA PlaceInSmallestColumnLook ==
  ASSUME NEW w, WellFormed(w), NEW f \in Frames \ LiveFrames(w), ViewOf(f) \in w.views,
         NEW col \in FreeColumns(w),
         NEW u, u = PlaceInSmallestColumn(w, f, col)
  PROVE  /\ SameLook(w, u)
         /\ \A c \in Columns \ {col} : u.view_of[c] = w.view_of[c]
<1> DEFINE v == ViewOf(f)
           widen == Len(w.columns[v]) < DesiredColumns
           m == IF widen THEN CreateColumn(w, v, Len(w.columns[v]) + 1, col) ELSE w
           target == IF widen THEN col ELSE SmallestColumn(w, v)
           i == Len(m.frames[target]) + 1
<1>0. /\ w \in Graph /\ WellLinked(w)
      /\ v \in Views /\ w.columns[v] \in Seq(Columns) /\ Len(w.columns[v]) \in Nat
      /\ DesiredColumns \in Nat \ {0}
  BY FrameParts, LenProperties, DesiredColumnsAssumption DEF WellFormed, WellLinked, Graph
<1>1. u = AddFrame(m, f, target, i)
  BY DEF PlaceInSmallestColumn
<1>2. /\ WellFormed(m) /\ SameLook(w, m) /\ SameFrames(w, m)
      /\ target \in Columns /\ m.view_of[target] = v
      /\ \A c \in Columns \ {col} : m.view_of[c] = w.view_of[c]
  <2>1. CASE widen
    <3> DEFINE n == Len(w.columns[v]) + 1
    <3>1. n \in 1..(Len(w.columns[v]) + 1)
      BY <1>0
    <3>2. m = CreateColumn(w, v, n, col) /\ target = col /\ v \in w.views
      BY <2>1
    <3> HIDE DEF n, m, v, target
    <3>3. /\ WellFormed(m) /\ SameViews(w, m) /\ SameFrames(w, m)
          /\ \A c \in Columns : m.view_of[c] = IF c = col THEN v ELSE w.view_of[c]
      BY <3>1, <3>2, CreateColumnWellFormed
    <3>4. SameLook(w, m)
      BY <3>1, <3>2, CreateColumnLook
    <3>5. col \in Columns
      BY DEF FreeColumns
    <3>6. QED BY <3>2, <3>3, <3>4, <3>5
  <2>2. CASE ~ widen
    <3>1. w.columns[v] # <<>>
      <4>1. Len(w.columns[v]) # 0
        BY <1>0, <2>2
      <4>2. QED BY <4>1
    <3>2. SmallestColumn(w, v) \in ColumnsOf(w, v)
      BY <1>0, <3>1, SmallestColumnProperties
    <3>3. m = w /\ target = SmallestColumn(w, v)
      BY <2>2
    <3> HIDE DEF m, target
    <3>4. QED BY <3>2, <3>3 DEF ColumnsOf, SameLook, SameFrames
  <2>3. QED BY <2>1, <2>2
<1> HIDE DEF m, target
<1>3. i \in 1..(Len(m.frames[target]) + 1)
  <2>1. m.frames[target] \in Seq(Frames)
    BY <1>2 DEF WellFormed, WellLinked, Graph
  <2>2. Len(m.frames[target]) \in Nat
    BY <2>1, LenProperties
  <2>3. QED BY <2>2
<1>4. f \in Frames \ LiveFrames(m)
  BY <1>2 DEF SameFrames, LiveFrames
<1> HIDE DEF i
<1>5. /\ WellFormed(u)
      /\ SameViews(m, u)
      /\ u.columns = m.columns /\ u.view_of = m.view_of
      /\ u.column_of = [m.column_of EXCEPT ![f] = target]
      /\ u.marked = m.marked
  BY <1>1, <1>2, <1>3, <1>4, AddFrameWellFormed
<1>6. SameLook(m, u)
  BY <1>1, <1>2, <1>3, <1>4, AddFrameLook
<1>7. QED BY <1>2, <1>5, <1>6, SameLookTwice

\* WM::place_client: without a view on the screen one is made and shown.
LEMMA PlaceClientLook ==
  ASSUME NEW w, WellFormed(w), NEW c \in Clients, FramesOf(w, c) = {}, NEW misc \in Views,
         NEW col \in FreeColumns(w),
         NEW u, u = PlaceClient(w, c, misc, col)
  PROVE  /\ w.selected_view # None => u.views = w.views /\ u.bar_visible = w.bar_visible
         /\ w.selected_view = None =>
              u.views = w.views \cup {misc} /\ u.bar_visible = w.bar_visible \cup {misc}
         /\ u.decorated = w.decorated \cup {<<c, u.selected_view>>}
         /\ \A x \in Columns \ {col} : u.view_of[x] = w.view_of[x]
<1> DEFINE s == IF w.selected_view = None THEN SelectView(NewView(w, misc), misc) ELSE w
           v == s.selected_view
           f == <<c, v>>
           widen == Len(s.columns[v]) < 2
           target == IF widen THEN col ELSE s.selected_column[v]
           i == After(s.columns[v], s.selected_column[v])
           m == IF widen THEN CreateColumn(s, v, i, col) ELSE s
           n == NewFrame(m, f)
           a == AddFrameAfterSelected(n, f, target)
<1>1. u = SelectFrame(a, f)
  BY DEF PlaceClient
<1>2. /\ WellFormed(s) /\ SameLinks(w, s) /\ s.selected_view # None /\ s.selected_view \in s.views
      /\ w.selected_view # None => s.views = w.views /\ s.bar_visible = w.bar_visible
      /\ w.selected_view = None =>
           s.views = w.views \cup {misc} /\ s.bar_visible = w.bar_visible \cup {misc}
      /\ s.decorated = w.decorated
  <2>1. CASE w.selected_view = None
    <3> DEFINE x == NewView(w, misc)
    <3>1. /\ WellFormed(x) /\ SameLinks(w, x) /\ misc \in x.views
          /\ x.views = w.views \cup {misc} /\ x.selected_view = w.selected_view
      BY NewViewWellFormed
    <3>2. s = SelectView(x, misc)
      BY <2>1
    <3>3. x.bar_visible = w.bar_visible \cup {misc} /\ x.decorated = w.decorated
      BY DEF WellFormed, WellLinked, Graph, NewView
    <3> HIDE DEF x, s
    <3>4. WellFormed(s) /\ SameLinks(x, s) /\ s.selected_view = misc /\ misc \in s.views
      BY <3>1, <3>2, SelectViewWellFormed
    <3>5. /\ KeepsLook(x, s)
          /\ s.views = IF /\ x.selected_view \notin {None, misc}
                          /\ x.columns[x.selected_view] = <<>>
                       THEN x.views \ {x.selected_view} ELSE x.views
      BY <3>1, <3>2, SelectViewLook
    <3>6. QED BY <2>1, <3>1, <3>4, <3>5, <3>3, NoneIsNeither DEF SameLinks, KeepsLook
  <2>2. CASE w.selected_view # None
    <3>1. s = w
      BY <2>2
    <3>2. w.selected_view \in w.views
      BY <2>2 DEF WellFormed, Selection, OrNone
    <3> HIDE DEF s
    <3>3. QED BY <2>2, <3>1, <3>2 DEF SameLinks
  <2>3. QED BY <2>1, <2>2
<1> HIDE DEF s
<1>3. /\ s \in Graph /\ WellLinked(s) /\ v \in Views /\ v \in s.views
      /\ s.columns[v] \in Seq(Columns) /\ Len(s.columns[v]) \in Nat
      /\ Enumerates(s.columns[v], ColumnsOf(s, v))
      /\ Selects(s.selected_column[v], ColumnsOf(s, v))
  <2>1. s \in Graph /\ WellLinked(s) /\ Selection(s) /\ Tree(s)
    BY <1>2 DEF WellFormed, WellLinked
  <2>2. v \in Views
    BY <1>2, <2>1 DEF Graph
  <2>3. s.columns[v] \in Seq(Columns)
    BY <2>1, <2>2 DEF Graph
  <2>4. QED BY <1>2, <2>1, <2>2, <2>3, LenProperties DEF Selection, Tree
<1>4. f \in Frames /\ ClientOf(f) = c /\ ViewOf(f) = v /\ f \notin LiveFrames(s)
  <2>1. f \in Frames /\ ClientOf(f) = c /\ ViewOf(f) = v
    BY <1>3, PairIsFrame
  <2>2. LiveFrames(s) = LiveFrames(w)
    BY <1>2 DEF SameLinks, LiveFrames
  <2>3. QED BY <2>1, <2>2 DEF FramesOf
<1>5. /\ WellFormed(m) /\ SameViews(s, m) /\ SameFrames(s, m) /\ SameLook(s, m)
      /\ target \in Columns /\ m.view_of[target] = v
      /\ \A x \in Columns \ {col} : m.view_of[x] = s.view_of[x]
  <2>1. CASE widen
    <3>1. i \in 1..(Len(s.columns[v]) + 1)
      BY <1>3, AfterProperties, NoneIsNeither
    <3>2. m = CreateColumn(s, v, i, col) /\ target = col
      BY <2>1
    <3>3. col \in FreeColumns(s) /\ col \in Columns
      BY <1>2 DEF SameLinks, FreeColumns
    <3> HIDE DEF i, m, v, target
    <3>4. /\ WellFormed(m) /\ SameViews(s, m) /\ SameFrames(s, m)
          /\ \A x \in Columns : m.view_of[x] = IF x = col THEN v ELSE s.view_of[x]
      BY <1>2, <1>3, <3>1, <3>2, <3>3, CreateColumnWellFormed
    <3>5. SameLook(s, m)
      BY <1>2, <1>3, <3>1, <3>2, <3>3, CreateColumnLook
    <3>6. QED BY <3>2, <3>3, <3>4, <3>5
  <2>2. CASE ~ widen
    <3>1. s.columns[v] # <<>>
      <4>1. Len(s.columns[v]) # 0
        BY <1>3, <2>2
      <4>2. QED BY <4>1
    <3>2. s.selected_column[v] \in ColumnsOf(s, v)
      BY <1>3, <3>1, EnumerationProperties DEF Selects
    <3>3. m = s /\ target = s.selected_column[v]
      BY <2>2
    <3> HIDE DEF m, target
    <3>4. QED BY <1>2, <3>2, <3>3 DEF ColumnsOf, SameViews, SameFrames, SameLook
  <2>3. QED BY <2>1, <2>2
<1> HIDE DEF m, target
<1>6. /\ WellFormed(n) /\ Repaints(m, n) /\ n.bar_visible = m.bar_visible
      /\ n.decorated = m.decorated \cup {f}
  <2>1. m \in Graph
    BY <1>5 DEF WellFormed, WellLinked
  <2>2. QED BY <1>4, <1>5, <2>1, NewFrameEffect, NewFrameLook, RepaintsWellFormed
<1> HIDE DEF n
<1>7. f \in Frames \ LiveFrames(n) /\ n.view_of[target] = ViewOf(f)
  BY <1>4, <1>5, <1>6 DEF Repaints, LiveFrames, SameFrames
<1>8. /\ WellFormed(a)
      /\ SameViews(n, a)
      /\ a.columns = n.columns /\ a.view_of = n.view_of
      /\ a.column_of = [n.column_of EXCEPT ![f] = target]
      /\ a.marked = n.marked
  BY <1>5, <1>6, <1>7, AddFrameAfterSelectedWellFormed
<1>9. SameLook(n, a)
  BY <1>5, <1>6, <1>7, AddFrameAfterSelectedLook
<1> HIDE DEF a
<1>10. f \in LiveFrames(a)
  <2>1. n.column_of \in [Frames -> OrNone(Columns)]
    BY <1>6 DEF WellFormed, WellLinked, Graph
  <2>2. QED BY <1>4, <1>5, <1>8, <2>1, NoneIsNeither DEF LiveFrames
<1> HIDE DEF f
<1>11. WellFormed(u) /\ SameLinks(a, u) /\ SameViews(a, u)
  BY <1>1, <1>8, <1>10, SelectFrameWellFormed
<1>12. SameLook(a, u)
  BY <1>1, <1>8, <1>10, SelectFrameLook
<1>13. /\ u.bar_visible = s.bar_visible /\ u.views = s.views /\ u.selected_view = v
       /\ u.decorated = w.decorated \cup {f}
  BY <1>2, <1>5, <1>6, <1>8, <1>9, <1>11, <1>12 DEF SameLook, SameViews, Repaints
<1>14. \A x \in Columns \ {col} : u.view_of[x] = w.view_of[x]
  BY <1>2, <1>5, <1>6, <1>8, <1>11 DEF SameLinks, Repaints
<1>15. QED BY <1>2, <1>13, <1>14 DEF f

-----------------------------------------------------------------------------
(* What operations make of the lists and the selections, in full.          *)

\* WM::select_view: only the column of the frame that loses the focus may fall
\* back to another of its frames.
LEMMA SelectViewSelections ==
  ASSUME NEW w, WellFormed(w), NEW v \in w.views, NEW u, u = SelectView(w, v)
  PROVE  /\ u.selected_column = w.selected_column
         /\ u.selected_frame \in [Columns -> OrNone(Frames)]
         /\ \A c \in Columns :
              u.selected_frame[c] # w.selected_frame[c] =>
                SelectedFrame(w) # None /\ c = w.column_of[SelectedFrame(w)]
<1> DEFINE old == w.selected_view
           h == IF old = None THEN w ELSE ScheduleFramesOfView(w, old)
           m == [h EXCEPT !.selected_view = v]
           from == SelectedFrameOfView(w, old)
           new == SelectedFrameOfView(w, v)
           t == HandleSelectedFrameChanged(m, from, new)
           s == IF old # None /\ t.columns[old] = <<>> THEN DeleteView(t, old) ELSE t
           x == ScheduleFramesOfView(s, v)
<1>0. /\ w \in Graph /\ WellLinked(w) /\ v \in Views /\ v # None
      /\ old \in OrNone(w.views) /\ old \in OrNone(Views)
      /\ w.selected_frame \in [Columns -> OrNone(Frames)]
  BY NoneIsNeither DEF WellFormed, WellLinked, Graph, Selection, OrNone
<1>1. u = IF v = old THEN w ELSE IF new = None THEN x ELSE ScheduleInputFocus(x, new)
  BY DEF SelectView
<1>2. CASE v = old
  BY <1>0, <1>1, <1>2
<1>3. CASE v # old
  <2>1. Schedules(w, h)
    BY <1>0, ScheduleFramesOfViewEffect, SchedulesNothing DEF OrNone
  <2>2. from \in OrNone(LiveFrames(w)) /\ new \in OrNone(Frames) /\ from = SelectedFrame(w)
    BY <1>0, SelectedFrameIsLive DEF OrNone, LiveFrames, SelectedFrame
  <2> HIDE DEF h, from, new, old
  <2>3. m \in Graph
    <3>1. h \in Graph /\ v \in OrNone(Views)
      BY <1>0, <2>1 DEF Schedules, OrNone
    <3>2. QED BY <3>1, Zenon DEF Graph
  <2>4. /\ SameLinks(h, m) /\ m.views = h.views
        /\ m.selected_column = h.selected_column /\ m.selected_frame = h.selected_frame
    BY <2>1 DEF Schedules, Graph, SameLinks
  <2>5. /\ SameLinks(w, m) /\ m.views = w.views
        /\ m.selected_column = w.selected_column /\ m.selected_frame = w.selected_frame
    BY <2>1, <2>4 DEF Schedules, SameLinks, SameViews
  <2> HIDE DEF m
  <2>6. WellLinked(m)
    BY <1>0, <2>3, <2>5, SameLinksWellLinked DEF WellLinked, Tree
  <2>7. from \in OrNone(LiveFrames(m)) /\ m.column_of = w.column_of
    BY <2>2, <2>5 DEF SameLinks, LiveFrames
  <2>8. /\ t \in Graph
        /\ SameLinks(m, t) /\ SameViews(m, t)
        /\ t.selected_column = m.selected_column
        /\ t.selected_frame \in [Columns -> OrNone(Frames)]
        /\ \A c \in Columns :
             t.selected_frame[c] # m.selected_frame[c] =>
               /\ from # None /\ c = m.column_of[from] /\ m.selected_frame[c] = from
               /\ t.selected_frame[c] \in FramesIn(m, c)
    BY <2>6, <2>7, HandleSelectedFrameChangedEffect
  <2> HIDE DEF t
  <2>9. s \in Graph /\ s.selected_column = t.selected_column /\ s.selected_frame = t.selected_frame
    <3>1. CASE old # None /\ t.columns[old] = <<>>
      <4>1. s = DeleteView(t, old)
        BY <3>1
      <4>2. /\ t.views \ {old} \in SUBSET Views /\ t.bar_visible \ {old} \in SUBSET Views
            /\ t.todo_views \ {old} \in SUBSET Views
        BY <2>8 DEF Graph
      <4>3. s \in Graph
        BY <2>8, <4>1, <4>2, Zenon DEF Graph, DeleteView
      <4>4. QED BY <2>8, <4>1, <4>3 DEF Graph, DeleteView
    <3>2. CASE ~ (old # None /\ t.columns[old] = <<>>)
      BY <2>8, <3>2
    <3>3. QED BY <3>1, <3>2
  <2> HIDE DEF s
  <2>10. Schedules(s, x)
    BY <1>0, <2>9, ScheduleFramesOfViewEffect
  <2> HIDE DEF x
  <2>11. x \in Graph /\ x.selected_column = t.selected_column /\ x.selected_frame = t.selected_frame
    BY <2>9, <2>10 DEF Schedules
  <2>12. u.selected_column = t.selected_column /\ u.selected_frame = t.selected_frame
    <3>1. CASE new = None
      BY <1>1, <1>3, <2>11, <3>1 DEF old
    <3>2. CASE new # None
      <4>1. Schedules(x, u)
        BY <1>1, <1>3, <2>2, <2>11, <3>2, ScheduleInputFocusEffect DEF OrNone, old
      <4>2. QED BY <2>11, <4>1 DEF Schedules
    <3>3. QED BY <3>1, <3>2
  <2>13. QED BY <2>2, <2>5, <2>7, <2>8, <2>12
<1>4. QED BY <1>2, <1>3

\* The new column is listed, and selected if it is the only one.
InsertsColumn(w, u, v, i, col) ==
  /\ u.columns = [w.columns EXCEPT ![v] = InsertAt(w.columns[v], i, col)]
  /\ u.view_of = [w.view_of EXCEPT ![col] = v]
  /\ u.frames = w.frames /\ u.column_of = w.column_of
  /\ u.column_activity = w.column_activity
  /\ u.selected_column = IF w.selected_column[v] = None
                         THEN [w.selected_column EXCEPT ![v] = col]
                         ELSE w.selected_column
  /\ u.selected_frame = w.selected_frame

\* WView::create_column: a new column is selected only in a view without columns,
\* and no frame is.
LEMMA CreateColumnLists ==
  ASSUME NEW w, WellFormed(w), NEW v \in w.views, NEW i \in 1..(Len(w.columns[v]) + 1),
         NEW col \in FreeColumns(w),
         NEW u, u = CreateColumn(w, v, i, col)
  PROVE  InsertsColumn(w, u, v, i, col)
<1> DEFINE x == InsertColumn(w, v, i, col)
           y == IF w.selected_column[v] = None THEN SelectColumn(x, v, col) ELSE x
<1>0. /\ w \in Graph /\ WellLinked(w) /\ Selection(w) /\ NothingDangles(w)
      /\ v \in Views /\ v # None
      /\ w.selected_frame \in [Columns -> OrNone(Frames)]
  BY SelectionDoesNotDangle, NoneIsNeither DEF WellFormed, WellLinked, Graph
<1>1. col \in Columns /\ col # None
  BY NoneIsNeither DEF FreeColumns
<1>2. u = ScheduleView(y, v)
  BY DEF CreateColumn, InsertColumn
<1>3. x.column_activity = w.column_activity
  BY <1>0 DEF InsertColumn, Graph
<1>4. x = InsertColumn(w, v, i, col)
  OBVIOUS
<1> HIDE DEF x
<1>5a. ColumnInserted(w, v, i, col, x)
  BY <1>4, InsertedColumn
<1>5. /\ WellLinked(x)
      /\ x.columns = [w.columns EXCEPT ![v] = InsertAt(w.columns[v], i, col)]
      /\ x.view_of = [w.view_of EXCEPT ![col] = v]
      /\ SameViews(w, x) /\ SameFrames(w, x)
      /\ x.selected_column = w.selected_column /\ x.selected_frame = w.selected_frame
      /\ ColumnsOf(x, v) = ColumnsOf(w, v) \cup {col}
      /\ \A z \in Views \ {v} : Selects(x.selected_column[z], ColumnsOf(x, z))
      /\ \A c \in Columns : Selects(x.selected_frame[c], FramesIn(x, c))
      /\ x.selected_view \in OrNone(x.views)
      /\ w.selected_column[v] = None => NothingDangles(x)
  BY <1>5a DEF ColumnInserted
<1>6. x \in Graph
  BY <1>5 DEF WellLinked
<1>7. /\ y \in Graph /\ SameLinks(x, y)
      /\ y.selected_column = IF w.selected_column[v] = None
                             THEN [w.selected_column EXCEPT ![v] = col] ELSE w.selected_column
      /\ y.selected_frame = w.selected_frame
  <2>1. CASE w.selected_column[v] # None
    BY <1>5, <1>6, <2>1 DEF SameLinks
  <2>2. CASE w.selected_column[v] = None
    <3>1. y = SelectColumn(x, v, col) /\ NothingDangles(x) /\ col \in OrNone(ColumnsOf(x, v))
      BY <1>5, <2>2 DEF OrNone
    <3> HIDE DEF y
    <3>2. /\ y \in Graph
          /\ SameLinks(x, y) /\ SameViews(x, y)
          /\ y.selected_column = [x.selected_column EXCEPT ![v] = col]
          /\ y.selected_frame \in [Columns -> OrNone(Frames)]
          /\ \A c \in Columns :
               y.selected_frame[c] # x.selected_frame[c] =>
                 /\ x.selected_frame[c] \in FramesIn(x, c)
                 /\ y.selected_frame[c] \in FramesIn(x, c)
      <4>1. /\ WellLinked(x) /\ NothingDangles(x) /\ v \in Views
            /\ col \in OrNone(ColumnsOf(x, v)) /\ y = SelectColumn(x, v, col)
        BY <1>0, <1>5, <3>1
      <4>2. QED BY <4>1, SelectColumnEffect
    <3>3. y.selected_frame = x.selected_frame
      <4> DEFINE old == SelectedFrameOfView(x, v)
                 new == SelectedFrameOfColumn(x, col)
                 a == ScheduleDraw(ScheduleDraw(x, old), new)
                 b == [a EXCEPT !.selected_column[v] = col]
                 c == HandleSelectedFrameChanged(b, old, new)
      <4>1. x.selected_column[v] = None /\ col # None
        BY <1>1, <1>5, <2>2
      <4>2. old = None
        BY <1>0, <4>1 DEF SelectedFrameOfView, SelectedFrameOfColumn
      <4>3. new = None
        <5>1. FramesIn(x, col) = {}
          BY <1>0, <1>5, FreeColumnIsEmpty DEF SameFrames, FramesIn
        <5>2. QED BY <1>1, <1>5, <5>1 DEF Selects, SelectedFrameOfColumn
      <4>4. a = x
        BY <4>2, <4>3 DEF ScheduleDraw
      <4>5. y = IF v # x.selected_view THEN b ELSE c
        BY <3>1, <4>1, <4>3 DEF SelectColumn
      <4>6. b.selected_frame = x.selected_frame /\ b \in Graph
        <5>1. b = [x EXCEPT !.selected_column[v] = col]
          BY <4>4
        <5>2. [x.selected_column EXCEPT ![v] = col] \in [Views -> OrNone(Columns)]
          BY <1>1, <1>6 DEF Graph, OrNone
        <5>3. QED BY <1>6, <5>1, <5>2 DEF Graph
      <4> HIDE DEF b
      <4>7. c = [b EXCEPT !.todo_root = TRUE]
        BY <4>2, <4>3, Zenon DEF HandleSelectedFrameChanged
      <4>8. c.selected_frame = b.selected_frame
        BY <4>6, <4>7 DEF Graph
      <4>9. QED BY <4>5, <4>6, <4>8
    <3>4. QED BY <1>5, <2>2, <3>2, <3>3
  <2>3. QED BY <2>1, <2>2
<1> HIDE DEF y
<1>8. Schedules(y, u)
  BY <1>0, <1>2, <1>7, ScheduleViewEffect
<1>9. u.columns = x.columns /\ u.view_of = x.view_of /\ u.frames = x.frames
      /\ u.column_of = x.column_of /\ u.column_activity = x.column_activity
  BY <1>7, <1>8 DEF Schedules, SameLinks
<1>10. QED BY <1>3, <1>5, <1>7, <1>8, <1>9 DEF Schedules, SameFrames, InsertsColumn

\* The new frame is listed, and selected if it is the only one of its column.
InsertsFrame(w, u, f, col, i) ==
  /\ u.columns = w.columns /\ u.view_of = w.view_of
  /\ u.column_of = [w.column_of EXCEPT ![f] = col]
  /\ u.frames = [w.frames EXCEPT ![col] = InsertAt(w.frames[col], i, f)]
  /\ u.column_activity = [w.column_activity EXCEPT ![col] = <<f>> \o w.column_activity[col]]
  /\ u.selected_column = w.selected_column
  /\ u.selected_frame = IF w.selected_frame[col] = None
                        THEN [w.selected_frame EXCEPT ![col] = f] ELSE w.selected_frame

\* WColumn::add_frame: a new frame is selected only in a column without frames.
LEMMA AddFrameLists ==
  ASSUME NEW w, WellFormed(w), NEW f \in Frames \ LiveFrames(w),
         NEW col \in Columns, w.view_of[col] = ViewOf(f),
         NEW i \in 1..(Len(w.frames[col]) + 1),
         NEW u, u = AddFrame(w, f, col, i)
  PROVE  InsertsFrame(w, u, f, col, i)
<1> DEFINE x == InsertFrame(w, f, col, i)
           y == IF w.selected_frame[col] = None THEN SelectFrameInColumn(x, col, f) ELSE x
<1>1. u = ScheduleColumn(y, col)
  BY DEF AddFrame, InsertFrame
<1>2. PICK z : z = x
  OBVIOUS
<1> HIDE DEF x
<1>3. /\ WellLinked(z)
      /\ z.column_of = [w.column_of EXCEPT ![f] = col]
      /\ z.frames = [w.frames EXCEPT ![col] = InsertAt(w.frames[col], i, f)]
      /\ z.column_activity = [w.column_activity EXCEPT ![col] = <<f>> \o w.column_activity[col]]
      /\ SameViews(w, z) /\ z.marked = w.marked
      /\ z.columns = w.columns /\ z.view_of = w.view_of
      /\ z.selected_column = w.selected_column /\ z.selected_frame = w.selected_frame
      /\ FramesIn(z, col) = FramesIn(w, col) \cup {f}
      /\ \A d \in Views : Selects(z.selected_column[d], ColumnsOf(z, d))
      /\ \A c \in Columns \ {col} : Selects(z.selected_frame[c], FramesIn(z, c))
      /\ z.selected_view \in OrNone(z.views)
      /\ Selects(w.selected_frame[col], FramesIn(w, col))
      /\ w.selected_frame[col] = None => NothingDangles(z)
  BY <1>2, InsertedFrame DEF x
<1>4. z \in Graph
  BY <1>3 DEF WellLinked
<1>5. /\ y \in Graph /\ SameLinks(z, y)
      /\ y.selected_column = w.selected_column
      /\ y.selected_frame = IF w.selected_frame[col] = None
                            THEN [w.selected_frame EXCEPT ![col] = f] ELSE w.selected_frame
  <2>1. CASE w.selected_frame[col] # None
    BY <1>2, <1>3, <1>4, <2>1 DEF SameLinks
  <2>2. CASE w.selected_frame[col] = None
    <3>1. y = SelectFrameInColumn(z, col, f) /\ NothingDangles(z) /\ f \in OrNone(Frames)
      BY <1>2, <1>3, <2>2 DEF OrNone
    <3> HIDE DEF y
    <3>2. /\ y \in Graph
          /\ SameLinks(z, y) /\ SameViews(z, y)
          /\ y.selected_column = z.selected_column
          /\ y.selected_frame = [z.selected_frame EXCEPT ![col] = f]
      BY <1>3, <3>1, SelectFrameInColumnEffect
    <3>3. QED BY <1>3, <2>2, <3>2
  <2>3. QED BY <2>1, <2>2
<1> HIDE DEF y
<1>6. Schedules(y, u)
  BY <1>1, <1>5, ScheduleColumnEffect
<1>7. QED BY <1>3, <1>5, <1>6 DEF Schedules, SameLinks, InsertsFrame
=============================================================================
