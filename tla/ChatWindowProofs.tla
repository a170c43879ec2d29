-------------------------- MODULE ChatWindowProofs --------------------------
(***************************************************************************)
(* The window of a chat of any length, with pages of any length, any plan  *)
(* and any number of requests: no message shows twice, no page takes back  *)
(* what a live event, or a later page, has changed, and the messages are   *)
(* in the order of their ids.                                              *)
(*                                                                         *)
(* The merges are studied first, as what they keep of the window and what  *)
(* they add of the page; then the order of versions between the window,    *)
(* the pages on their way and the events in the channel; last the order of *)
(* the ids.                                                                *)
(***************************************************************************)
EXTENDS ChatWindow, FiniteSetTheorems, SequenceTheorems, WellFoundedInduction, NaturalsInduction, TLAPS

-----------------------------------------------------------------------------
(* The least and the greatest of some numbers, the k-th of some places.    *)

LEMMA LeastOf ==
    ASSUME NEW S \in SUBSET Nat, S # {}
    PROVE  Min(S) \in S /\ \A y \in S : Min(S) <= y
<1> DEFINE R == OpToRel(<, Nat)
<1>1. \E x \in S : \A y \in S : ~ (<<y, x>> \in R)
  <2>1. IsWellFoundedOn(R, Nat)
    BY NatLessThanWellFounded
  <2> HIDE DEF R
  <2> QED
    BY <2>1, WFMin
<1>2. PICK x \in S : \A y \in S : ~ (<<y, x>> \in R)
  BY <1>1
<1>3. \A y \in S : ~ (y < x)
  BY <1>2 DEF OpToRel
<1>4. \E z \in S : \A y \in S : z <= y
  BY <1>3
<1> QED
  BY <1>4 DEF Min

LEMMA MostOf ==
    ASSUME NEW n \in Nat, NEW S \in SUBSET (0 .. n), S # {}
    PROVE  Max(S) \in S /\ \A y \in S : y <= Max(S)
<1> DEFINE T == {n - x : x \in S}
<1>1. T \in SUBSET Nat /\ T # {}
  <2>1. \A x \in S : n - x \in Nat
    <3>1. \A x \in S : x \in 0 .. n
      OBVIOUS
    <3> QED
      BY <3>1
  <2> QED
    BY <2>1
<1>2. Min(T) \in T /\ \A y \in T : Min(T) <= y
  BY <1>1, LeastOf
<1>3. PICK x \in S : Min(T) = n - x
  BY <1>2
<1>4. \A y \in S : n - x <= n - y
  BY <1>2, <1>3
<1>5. \A y \in S : x >= y
  BY <1>4
<1>6. \E z \in S : \A y \in S : z >= y
  BY <1>5
<1>7. Max(S) \in S /\ \A y \in S : Max(S) >= y
  BY <1>6 DEF Max
<1> QED
  BY <1>7

Before(P, x) == {y \in P : Ahead(y, x)}

LEMMA BeforeFinite ==
    ASSUME NEW P, IsFiniteSet(P), NEW x
    PROVE  IsFiniteSet(Before(P, x)) /\ Cardinality(Before(P, x)) \in Nat
<1>1. Before(P, x) \in SUBSET P
  BY DEF Before
<1> QED
  BY <1>1, FS_Subset, FS_CardinalityType

LEMMA BeforeLess ==
    ASSUME NEW P \in SUBSET (Nat \X Nat), IsFiniteSet(P), NEW x \in P, NEW y \in P, Ahead(x, y)
    PROVE  Cardinality(Before(P, x)) < Cardinality(Before(P, y))
<1>1. x \notin Before(P, x)
  BY DEF Before, Ahead
<1>2. Before(P, x) \cup {x} \in SUBSET Before(P, y)
  BY DEF Before, Ahead
<1>3. IsFiniteSet(Before(P, x) \cup {x}) /\ Cardinality(Before(P, x) \cup {x}) = Cardinality(Before(P, x)) + 1
  BY <1>1, BeforeFinite, FS_AddElement
<1>4. Cardinality(Before(P, x) \cup {x}) <= Cardinality(Before(P, y))
  BY <1>2, BeforeFinite, FS_Subset
<1> QED
  BY <1>3, <1>4, BeforeFinite

\* Every place has its number, and every number up to their count a place.
LEMMA NthFacts ==
    ASSUME NEW P \in SUBSET (Nat \X Nat), IsFiniteSet(P)
    PROVE  /\ Cardinality(P) \in Nat
           /\ \A k \in 1 .. Cardinality(P) :
                 Nth(P, k) \in P /\ Cardinality(Before(P, Nth(P, k))) = k - 1
<1>1. Cardinality(P) \in Nat
  BY FS_CardinalityType
<1> DEFINE f == [x \in P |-> Cardinality(Before(P, x)) + 1]
<1>2. f \in [P -> 1 .. Cardinality(P)]
  <2> SUFFICES ASSUME NEW x \in P PROVE Cardinality(Before(P, x)) + 1 \in 1 .. Cardinality(P)
    OBVIOUS
  <2>1. Before(P, x) \in SUBSET (P \ {x})
    BY DEF Before, Ahead
  <2>2. IsFiniteSet(P \ {x}) /\ Cardinality(P \ {x}) = Cardinality(P) - 1
    BY FS_RemoveElement
  <2>3. Cardinality(Before(P, x)) <= Cardinality(P) - 1
    BY <2>1, <2>2, FS_Subset
  <2> QED
    BY <2>3, <1>1, BeforeFinite
<1>3. \A x \in P : \A y \in P : f[x] = f[y] => x = y
  <2> SUFFICES ASSUME NEW x \in P, NEW y \in P, x # y PROVE f[x] # f[y]
    OBVIOUS
  <2>1. Ahead(x, y) \/ Ahead(y, x)
    BY DEF Ahead
  <2>2. Cardinality(Before(P, x)) # Cardinality(Before(P, y))
    BY <2>1, BeforeLess, BeforeFinite
  <2> QED
    BY <2>2, BeforeFinite
<1>4. f \in Injection(P, 1 .. Cardinality(P))
  BY <1>2, <1>3 DEF Injection, IsInjective
<1>5. IsFiniteSet(1 .. Cardinality(P)) /\ Cardinality(1 .. Cardinality(P)) = Cardinality(P)
  BY <1>1, FS_Interval
<1>6. f \in Surjection(P, 1 .. Cardinality(P))
  BY <1>4, <1>5, FS_Injection
<1>7. \A k \in 1 .. Cardinality(P) : \E x \in P : f[x] = k
  BY <1>6 DEF Surjection
<1>8. \A k \in 1 .. Cardinality(P) : \E x \in P : Cardinality(Before(P, x)) = k - 1
  BY <1>7, BeforeFinite
<1> QED
  BY <1>1, <1>8 DEF Nth, Before


-----------------------------------------------------------------------------
(* What the merges keep and add.                                           *)

Item == [id : 0 .. MaxId, ver : Nat, newer : SUBSET Tags, gap : (0 .. MaxId) \X (0 .. MaxId)]

\* No message twice, as NoDoubles says of the window.
Single(s) == \A i, j \in DOMAIN s : s[i].id = s[j].id /\ s[i].id # 0 => i = j

\* The messages in the order of their ids, as InOrder says of the window.
Sorted(s) == \A i, j \in Positions(s) : i < j => s[i].id < s[j].id

\* A pending send or a marker: no version, and nothing later than a page.
Blank(it) == it.id = 0 /\ it.ver = 0 /\ it.newer = {}

\* The items of t are some of s.
Part(t, s) == \A i \in DOMAIN t : \E j \in DOMAIN s : t[i] = s[j]

\* The items of t are some of s, messages F of p, or no messages.
From(t, s, F, p) ==
    \A i \in DOMAIN t :
        \/ \E j \in DOMAIN s : t[i] = s[j]
        \/ Blank(t[i])
        \/ \E m \in F : t[i] = Message(m, p.ver[m])

Window(s) == s \in Seq(Item) /\ Single(s)

LEMMA MessageItem ==
    ASSUME NEW m \in 0 .. MaxId, NEW v \in Nat
    PROVE  Message(m, v) \in Item /\ Message(m, v).id = m
<1>1. 0 \in 0 .. MaxId
  BY WindowAssumption
<1> QED
  BY <1>1 DEF Message, Item, NoGap

LEMMA SeqFunction ==
    ASSUME NEW S, NEW n \in Nat, NEW f \in [1 .. n -> S]
    PROVE  f \in Seq(S) /\ Len(f) = n /\ DOMAIN f = 1 .. n
<1>1. f \in Seq(S)
  BY SeqDef
<1> QED
  BY <1>1, LenProperties

LEMMA ArrangeFacts ==
    ASSUME NEW s, Window(s), NEW P \in SUBSET (Nat \X Nat), IsFiniteSet(P), NEW p,
           \A x \in P : x[2] = 0 => x[1] \in DOMAIN s,
           \A x \in P : x[2] # 0 => x[2] \in Ids \ ItemIds(s) /\ p.ver[x[2]] \in Nat,
           \A x \in P : \A y \in P : x[2] = y[2] /\ x[2] # 0 => x = y,
           NEW F, \A x \in P : x[2] # 0 => x[2] \in F
    PROVE  Window(Arrange(P, s, p)) /\ From(Arrange(P, s, p), s, F, p)
<1> DEFINE t == Arrange(P, s, p)
<1>1. /\ Cardinality(P) \in Nat
      /\ \A k \in 1 .. Cardinality(P) : Nth(P, k) \in P
      /\ \A k \in 1 .. Cardinality(P) : Cardinality(Before(P, Nth(P, k))) = k - 1
  BY NthFacts
<1>2. DOMAIN s = 1 .. Len(s) /\ \A j \in DOMAIN s : s[j] \in Item
  BY LenProperties, ElementOfSeq DEF Window
<1>3. /\ DOMAIN t = 1 .. Cardinality(P)
      /\ \A k \in 1 .. Cardinality(P) :
            t[k] = IF Nth(P, k)[2] = 0 THEN s[Nth(P, k)[1]] ELSE Message(Nth(P, k)[2], p.ver[Nth(P, k)[2]])
  BY DEF Arrange
<1>4. ASSUME NEW k \in 1 .. Cardinality(P), Nth(P, k)[2] = 0
      PROVE  t[k] \in Item /\ Nth(P, k)[1] \in DOMAIN s /\ t[k] = s[Nth(P, k)[1]]
  BY <1>1, <1>2, <1>3, <1>4
<1>5. ASSUME NEW k \in 1 .. Cardinality(P), Nth(P, k)[2] # 0
      PROVE  /\ t[k] \in Item /\ Nth(P, k)[2] \in F \cap (Ids \ ItemIds(s))
             /\ t[k] = Message(Nth(P, k)[2], p.ver[Nth(P, k)[2]]) /\ t[k].id = Nth(P, k)[2]
  <2>1. Nth(P, k)[2] \in F \cap (Ids \ ItemIds(s)) /\ p.ver[Nth(P, k)[2]] \in Nat
    BY <1>1, <1>5
  <2>2. Nth(P, k)[2] \in 0 .. MaxId
    BY <2>1, WindowAssumption DEF Ids
  <2> QED
    BY <2>1, <2>2, <1>3, <1>5, MessageItem
<1>6. t \in Seq(Item)
  <2>1. t \in [1 .. Cardinality(P) -> Item]
    <3>1. \A k \in 1 .. Cardinality(P) : t[k] \in Item
      BY <1>4, <1>5
    <3>2. t = [k \in 1 .. Cardinality(P) |-> t[k]]
      BY DEF Arrange
    <3> HIDE DEF t
    <3> QED
      BY <3>1, <3>2
  <2> QED
    BY <2>1, <1>1, SeqFunction
<1>7. \A k, l \in 1 .. Cardinality(P) : Nth(P, k) = Nth(P, l) => k = l
  <2> SUFFICES ASSUME NEW k \in 1 .. Cardinality(P), NEW l \in 1 .. Cardinality(P), Nth(P, k) = Nth(P, l)
               PROVE  k = l
    OBVIOUS
  <2>1. k - 1 = l - 1
    BY <1>1
  <2> QED
    BY <2>1
<1>8. Single(t)
  <2> SUFFICES ASSUME NEW k \in 1 .. Cardinality(P), NEW l \in 1 .. Cardinality(P),
                      t[k].id = t[l].id, t[k].id # 0
               PROVE  k = l
    BY <1>3 DEF Single
  <2>1. CASE Nth(P, k)[2] = 0 /\ Nth(P, l)[2] = 0
    <3>1. Nth(P, k)[1] = Nth(P, l)[1]
      BY <2>1, <1>4 DEF Window, Single
    <3>2. Nth(P, k) = Nth(P, l)
      BY <3>1, <2>1, <1>1
    <3> QED
      BY <3>2, <1>7
  <2>2. CASE Nth(P, k)[2] # 0 /\ Nth(P, l)[2] # 0
    <3>1. Nth(P, k)[2] = Nth(P, l)[2]
      BY <2>2, <1>5
    <3>2. Nth(P, k) = Nth(P, l)
      BY <3>1, <2>2, <1>1
    <3> QED
      BY <3>2, <1>7
  <2>3. CASE Nth(P, k)[2] = 0 /\ Nth(P, l)[2] # 0
    <3>1. t[k].id \in ItemIds(s)
      BY <2>3, <1>4 DEF ItemIds
    <3> QED
      BY <3>1, <2>3, <1>5
  <2>4. CASE Nth(P, k)[2] # 0 /\ Nth(P, l)[2] = 0
    <3>1. t[l].id \in ItemIds(s)
      BY <2>4, <1>4 DEF ItemIds
    <3> QED
      BY <3>1, <2>4, <1>5
  <2> QED
    BY <2>1, <2>2, <2>3, <2>4
<1>9. From(t, s, F, p)
  BY <1>3, <1>4, <1>5 DEF From
<1> QED
  BY <1>6, <1>8, <1>9 DEF Window

\* Some positions of a window.
LEMMA OnlyFacts ==
    ASSUME NEW s, Window(s), NEW S \in SUBSET DOMAIN s
    PROVE  Window(Only(s, S)) /\ Part(Only(s, S), s)
<1> DEFINE P == S \X {0}
<1>1. DOMAIN s = 1 .. Len(s) /\ Len(s) \in Nat
  BY LenProperties DEF Window
<1>2. IsFiniteSet(P) /\ P \in SUBSET (Nat \X Nat)
  <2>1. IsFiniteSet(S)
    <3>1. S \in SUBSET (1 .. Len(s)) /\ Len(s) \in Int
      BY <1>1
    <3>2. IsFiniteSet(1 .. Len(s))
      BY <3>1, FS_Interval
    <3> QED
      BY <3>1, <3>2, FS_Subset
  <2>2. IsFiniteSet({0})
    BY FS_Singleton
  <2> QED
    BY <1>1, <2>1, <2>2, FS_Product
<1>3. \A x \in P : x[2] = 0 /\ x[1] \in DOMAIN s
  OBVIOUS
<1>4. /\ \A x \in P : x[2] = 0 => x[1] \in DOMAIN s
      /\ \A x \in P : x[2] # 0 => x[2] \in Ids \ ItemIds(s) /\ NoPage.ver[x[2]] \in Nat
      /\ \A x \in P : \A y \in P : x[2] = y[2] /\ x[2] # 0 => x = y
      /\ \A x \in P : x[2] # 0 => x[2] \in {}
  BY <1>3
<1>5. Window(Arrange(P, s, NoPage)) /\ From(Arrange(P, s, NoPage), s, {}, NoPage)
  <2> HIDE DEF P
  <2> QED
    BY <1>2, <1>4, ArrangeFacts
<1>6. Part(Arrange(P, s, NoPage), s)
  <2>1. DOMAIN Arrange(P, s, NoPage) = 1 .. Cardinality(P)
    BY DEF Arrange
  <2>2. ASSUME NEW k \in 1 .. Cardinality(P)
        PROVE  \E j \in DOMAIN s : Arrange(P, s, NoPage)[k] = s[j]
    <3>1. Nth(P, k) \in P
      BY <1>2, NthFacts
    <3> QED
      BY <3>1, <1>3 DEF Arrange
  <2> QED
    BY <2>1, <2>2 DEF Part
<1> QED
  BY <1>5, <1>6 DEF Only

LEMMA TrimFacts ==
    ASSUME NEW s, Window(s), plan.cap \in Nat
    PROVE  /\ Window(Trim(s)) /\ Part(Trim(s), s)
           /\ \E d \in Nat : \A i \in DOMAIN Trim(s) : d + i \in DOMAIN s /\ Trim(s)[i] = s[d + i]
<1>1. DOMAIN s = 1 .. Len(s) /\ Len(s) \in Nat
  BY LenProperties DEF Window
<1>2. CASE ~(Len(s) > plan.cap)
  <2>1. Trim(s) = s
    BY <1>2 DEF Trim
  <2>2. \A i \in DOMAIN s : 0 + i = i
    BY <1>1
  <2> QED
    BY <2>1, <2>2 DEF Part
<1>3. CASE Len(s) > plan.cap
  <2>0. PICK d : d = Len(s) - plan.cap
    OBVIOUS
  <2>1. d \in Nat /\ d + 1 \in Int /\ d + plan.cap = Len(s)
    BY <2>0, <1>1, <1>3
  <2>2. \A i \in d + 1 .. Len(s) : s[i] \in Item
    BY <2>1, <1>1, ElementOfSeq DEF Window
  <2>3. PICK t : t = SubSeq(s, d + 1, Len(s))
    OBVIOUS
  <2>4. /\ t \in Seq(Item) /\ Len(t) = plan.cap
        /\ \A i \in 1 .. plan.cap : t[i] = s[d + i]
    <3>0. Len(s) \in Int
      BY <1>1
    <3>1. /\ t \in Seq(Item)
          /\ Len(t) = IF d + 1 <= Len(s) THEN Len(s) - (d + 1) + 1 ELSE 0
          /\ \A i \in 1 .. Len(s) - (d + 1) + 1 : t[i] = s[d + 1 + i - 1]
      BY <2>1, <2>2, <2>3, <3>0, SubSeqProperties
    <3>2. Len(s) - (d + 1) + 1 = plan.cap /\ (d + 1 <= Len(s) \/ plan.cap = 0)
      BY <2>1, <1>1
    <3>3. \A i \in 1 .. plan.cap : d + 1 + i - 1 = d + i
      BY <2>1
    <3> QED
      BY <3>1, <3>2, <3>3
  <2>5. DOMAIN t = 1 .. plan.cap
    BY <2>4, LenProperties
  <2>6. \A i \in 1 .. plan.cap : d + i \in DOMAIN s
    BY <2>1, <1>1
  <2>7. Part(t, s)
    BY <2>4, <2>5, <2>6 DEF Part
  <2>8. Single(t)
    <3> SUFFICES ASSUME NEW i \in 1 .. plan.cap, NEW j \in 1 .. plan.cap, t[i].id = t[j].id, t[i].id # 0
                 PROVE  i = j
      BY <2>5 DEF Single
    <3>1. d + i = d + j
      BY <2>4, <2>6 DEF Window, Single
    <3> QED
      BY <3>1, <2>1
  <2> QED
    BY <2>0, <2>1, <2>3, <2>4, <2>5, <2>6, <2>7, <2>8, <1>3, <1>1 DEF Trim, Window
<1> QED
  BY <1>2, <1>3

\* What a page may say.
PageRight(p) == p.ids \subseteq Ids /\ p.ver \in [Ids -> Nat]

\* The version of an item after a page (reconcileMsg).
LEMMA ReconcileFacts ==
    ASSUME NEW s, Window(s), NEW p, PageRight(p)
    PROVE  LET t == Reconcile(s, p) IN
           /\ Window(t) /\ DOMAIN t = DOMAIN s /\ Len(t) = Len(s) /\ ItemIds(t) = ItemIds(s)
           /\ \A i \in DOMAIN s :
                 /\ t[i].id = s[i].id /\ t[i].newer = s[i].newer
                 /\ s[i].id \notin p.ids \/ p.tag \in s[i].newer => t[i].ver = s[i].ver
                 /\ s[i].id \in p.ids /\ p.tag \notin s[i].newer => t[i].ver = p.ver[s[i].id]
<1> DEFINE t == Reconcile(s, p)
<1>1. DOMAIN s = 1 .. Len(s) /\ Len(s) \in Nat /\ \A i \in DOMAIN s : s[i] \in Item
  BY LenProperties, ElementOfSeq DEF Window
<1>2. /\ t = [i \in 1 .. Len(s) |-> t[i]]
      /\ \A i \in DOMAIN s : t[i] = IF s[i].id \in p.ids /\ p.tag \notin s[i].newer
                                    THEN [s[i] EXCEPT !.ver = p.ver[s[i].id]] ELSE s[i]
  BY <1>1 DEF Reconcile
<1>3. ASSUME NEW i \in DOMAIN s
      PROVE  /\ t[i] \in Item /\ t[i].id = s[i].id /\ t[i].newer = s[i].newer
             /\ s[i].id \notin p.ids \/ p.tag \in s[i].newer => t[i].ver = s[i].ver
             /\ s[i].id \in p.ids /\ p.tag \notin s[i].newer => t[i].ver = p.ver[s[i].id]
  <2>1. s[i] \in Item
    BY <1>1
  <2>2. s[i].id \in p.ids => p.ver[s[i].id] \in Nat
    BY DEF PageRight
  <2> HIDE DEF t
  <2> QED
    BY <2>1, <2>2, <1>2 DEF Item
<1> HIDE DEF t
<1>4. t \in Seq(Item) /\ Len(t) = Len(s) /\ DOMAIN t = DOMAIN s
  <2>1. t \in [1 .. Len(s) -> Item]
    BY <1>1, <1>2, <1>3
  <2> QED
    BY <2>1, <1>1, SeqFunction
<1>5. Single(t)
  BY <1>3, <1>4 DEF Window, Single
<1>6. ItemIds(t) = ItemIds(s)
  BY <1>3, <1>4 DEF ItemIds
<1> QED
  BY <1>3, <1>4, <1>5, <1>6 DEF Window, t

LEMMA IdsFacts ==
    ASSUME NEW s, Window(s)
    PROVE  /\ ItemIds(s) \in SUBSET Ids
           /\ OldestID(s) \in 0 .. MaxId /\ LastID(s) \in 0 .. MaxId
<1>1. DOMAIN s = 1 .. Len(s) /\ Len(s) \in Nat /\ \A i \in DOMAIN s : s[i].id \in 0 .. MaxId
  <2>1. \A i \in DOMAIN s : s[i] \in Item
    BY LenProperties, ElementOfSeq DEF Window
  <2> QED
    BY <2>1, LenProperties DEF Window, Item
<1>2. ItemIds(s) \in SUBSET Ids
  BY <1>1, WindowAssumption DEF ItemIds, Ids
<1>3. 0 \in 0 .. MaxId
  BY WindowAssumption
<1>4. CASE Positions(s) = {}
  BY <1>2, <1>3, <1>4 DEF OldestID, LastID
<1>5. CASE Positions(s) # {}
  <2>1. Positions(s) \in SUBSET Nat /\ Positions(s) \in SUBSET (0 .. Len(s)) /\ Positions(s) \in SUBSET DOMAIN s
    BY <1>1 DEF Positions
  <2>2. Min(Positions(s)) \in DOMAIN s /\ Max(Positions(s)) \in DOMAIN s
    BY <2>1, <1>1, <1>5, LeastOf, MostOf
  <2> QED
    BY <2>2, <1>1, <1>2, <1>5 DEF OldestID, LastID
<1> QED
  BY <1>4, <1>5

LEMMA SlotFacts ==
    ASSUME NEW s, Window(s), NEW m \in Ids
    PROVE  Slot(s, m) \in 0 .. Len(s)
<1> DEFINE e == Message(MaxId + 1, 0)
           X == Item \cup {e}
<1>1. s \in Seq(X) /\ e \in X /\ Len(s) \in Nat
  BY SeqMonotonic, LenProperties DEF Window
<1>2. PICK t : t = Append(s, e)
  OBVIOUS
<1>3. Len(t) = Len(s) + 1 /\ t[Len(s) + 1] = e
  <2> HIDE DEF X, e
  <2> QED
    BY <1>1, <1>2, AppendProperties
<1>4. e.id > m
  BY WindowAssumption DEF Message, Ids
<1>5. PICK I : I = {i \in 1 .. Len(t) : t[i].id > m}
  OBVIOUS
<1>6. I \in SUBSET Nat /\ I \in SUBSET (1 .. Len(s) + 1) /\ I # {}
  BY <1>1, <1>3, <1>4, <1>5
<1>7. Min(I) \in 1 .. Len(s) + 1
  BY <1>6, LeastOf
<1>8. Slot(s, m) = Min(I) - 1
  BY <1>2, <1>5, <1>6 DEF Slot, SelectInSeq
<1> QED
  BY <1>1, <1>7, <1>8

LEMMA PartOfFrom ==
    ASSUME NEW t, NEW u, NEW s, NEW F, NEW p, From(t, s, F, p), Part(u, t)
    PROVE  From(u, s, F, p)
  BY DEF From, Part

LEMMA DropFacts ==
    ASSUME NEW s, Window(s)
    PROVE  Window(DropFilledGaps(s)) /\ Part(DropFilledGaps(s), s)
  BY OnlyFacts DEF DropFilledGaps

\* The places of a merge: every item of the window where it was, every message
\* the window misses at one place.
LEMMA PlacesFacts ==
    ASSUME NEW s, Window(s), NEW p, PageRight(p), NEW P \in SUBSET ((0 .. Len(s)) \X (0 .. MaxId)),
           \A x \in P : x[2] = 0 => x[1] \in DOMAIN s,
           \A x \in P : x[2] # 0 => x[2] \in Fresh(s, p),
           \A x \in P : \A y \in P : x[2] = y[2] /\ x[2] # 0 => x = y
    PROVE  /\ Window(Arrange(P, Reconcile(s, p), p))
           /\ From(Arrange(P, Reconcile(s, p), p), Reconcile(s, p), Fresh(s, p), p)
<1>1. Len(s) \in Nat /\ MaxId \in Nat
  BY LenProperties, WindowAssumption DEF Window
<1>2. IsFiniteSet(P) /\ P \in SUBSET (Nat \X Nat)
  <2>1. IsFiniteSet(0 .. Len(s)) /\ IsFiniteSet(0 .. MaxId)
    BY <1>1, FS_Interval
  <2>2. IsFiniteSet((0 .. Len(s)) \X (0 .. MaxId))
    BY <2>1, FS_Product
  <2> QED
    BY <1>1, <2>2, FS_Subset
<1>3. PICK t : t = Reconcile(s, p)
  OBVIOUS
<1>4. Window(t) /\ DOMAIN t = DOMAIN s /\ ItemIds(t) = ItemIds(s)
  BY <1>3, ReconcileFacts
<1>5. \A x \in P : x[2] # 0 => x[2] \in Ids \ ItemIds(t) /\ p.ver[x[2]] \in Nat
  BY <1>4 DEF Fresh, PageRight
<1>6. \A x \in P : x[2] = 0 => x[1] \in DOMAIN t
  BY <1>4
<1> QED
  BY <1>2, <1>3, <1>4, <1>5, <1>6, ArrangeFacts

LEMMA MergeFacts ==
    ASSUME NEW s, Window(s), NEW p, PageRight(p), plan.cap \in Nat
    PROVE  Window(Merge(s, p)) /\ From(Merge(s, p), Reconcile(s, p), Fresh(s, p), p)
<1>1. PICK newer : newer = {m \in Fresh(s, p) : m > LastID(s)}
  OBVIOUS
<1>2. PICK older : older = {m \in Fresh(s, p) \ newer : m < OldestID(s)}
  OBVIOUS
<1>3. PICK hole : hole = Fresh(s, p) \ (newer \cup older)
  OBVIOUS
<1>4. PICK P : P = (({0} \X older) \cup Kept(s) \cup ({Len(s)} \X newer)) \cup AtRank(s, hole)
  OBVIOUS
<1>5. /\ DOMAIN s = 1 .. Len(s) /\ Len(s) \in Nat
      /\ Fresh(s, p) \subseteq Ids /\ Ids \subseteq (0 .. MaxId) /\ 0 \notin Ids /\ 0 \in 0 .. MaxId
  BY LenProperties, WindowAssumption DEF Window, Fresh, PageRight, Ids
<1>6. \A m \in hole : Slot(s, m) \in 0 .. Len(s)
  BY <1>3, <1>5, SlotFacts
<1>7. \A x \in P : \/ x[1] = 0 /\ x[2] \in older /\ x = <<x[1], x[2]>>
                   \/ x[1] \in DOMAIN s /\ x[2] = 0 /\ x = <<x[1], x[2]>>
                   \/ x[1] = Len(s) /\ x[2] \in newer /\ x = <<x[1], x[2]>>
                   \/ x[2] \in hole /\ x[1] = Slot(s, x[2]) /\ x = <<x[1], x[2]>>
  BY <1>4 DEF Kept, AtRank
<1>8. P \in SUBSET ((0 .. Len(s)) \X (0 .. MaxId))
  <2> SUFFICES ASSUME NEW x \in P PROVE x \in (0 .. Len(s)) \X (0 .. MaxId)
    OBVIOUS
  <2>1. x = <<x[1], x[2]>> /\ x[1] \in 0 .. Len(s) /\ x[2] \in 0 .. MaxId
    BY <1>1, <1>2, <1>3, <1>5, <1>6, <1>7
  <2> QED
    BY <2>1
<1>9. \A x \in P : x[2] = 0 => x[1] \in DOMAIN s
  BY <1>1, <1>2, <1>3, <1>5, <1>7
<1>10. \A x \in P : x[2] # 0 => x[2] \in Fresh(s, p)
  BY <1>1, <1>2, <1>3, <1>7
<1>11. \A x \in P : \A y \in P : x[2] = y[2] /\ x[2] # 0 => x = y
  <2> SUFFICES ASSUME NEW x \in P, NEW y \in P, x[2] = y[2], x[2] # 0 PROVE x = y
    OBVIOUS
  <2>1. x[1] = y[1]
    <3>1. CASE x[2] \in older
      BY <3>1, <1>1, <1>2, <1>3, <1>7
    <3>2. CASE x[2] \in newer
      BY <3>2, <1>1, <1>2, <1>3, <1>7
    <3>3. CASE x[2] \in hole
      BY <3>3, <1>1, <1>2, <1>3, <1>7
    <3> QED
      BY <3>1, <3>2, <3>3, <1>7
  <2> QED
    BY <2>1, <1>7
<1>12. PICK t : t = Arrange(P, Reconcile(s, p), p)
  OBVIOUS
<1>13. Window(t) /\ From(t, Reconcile(s, p), Fresh(s, p), p)
  BY <1>8, <1>9, <1>10, <1>11, <1>12, PlacesFacts
<1>14. PICK u : u = DropFilledGaps(t)
  OBVIOUS
<1>15. Window(u) /\ From(u, Reconcile(s, p), Fresh(s, p), p)
  BY <1>13, <1>14, DropFacts, PartOfFrom
<1>16. Window(Trim(u)) /\ From(Trim(u), Reconcile(s, p), Fresh(s, p), p)
  BY <1>15, TrimFacts, PartOfFrom
<1> QED
  BY <1>1, <1>2, <1>3, <1>4, <1>12, <1>14, <1>16 DEF Merge

LEMMA InsertFacts ==
    ASSUME NEW s \in Seq(Item), NEW at \in 1 .. Len(s), NEW e \in Item
    PROVE  LET t == InsertAt(s, at, e) IN
           /\ t \in Seq(Item) /\ Len(t) = Len(s) + 1
           /\ \A i \in 1 .. Len(s) + 1 : t[i] = IF i < at THEN s[i] ELSE IF i = at THEN e ELSE s[i - 1]
<1>1. Len(s) \in Nat /\ at \in Int /\ at - 1 \in Int /\ Len(s) \in Int
  BY LenProperties
<1>2. PICK a : a = SubSeq(s, 1, at - 1)
  OBVIOUS
<1>3. PICK b : b = SubSeq(s, at, Len(s))
  OBVIOUS
<1>4. \A i \in 1 .. Len(s) : s[i] \in Item
  BY ElementOfSeq
<1>5. a \in Seq(Item) /\ Len(a) = at - 1 /\ \A i \in 1 .. at - 1 : a[i] = s[i]
  <2>1. /\ a \in Seq(Item) /\ Len(a) = IF 1 <= at - 1 THEN at - 1 - 1 + 1 ELSE 0
        /\ \A i \in 1 .. at - 1 - 1 + 1 : a[i] = s[1 + i - 1]
    <3>1. \A i \in 1 .. at - 1 : s[i] \in Item
      BY <1>1, <1>4
    <3>2. 1 \in Int
      OBVIOUS
    <3> QED
      BY <1>1, <1>2, <3>1, <3>2, SubSeqProperties
  <2>2. at - 1 - 1 + 1 = at - 1 /\ \A i \in 1 .. at - 1 : 1 + i - 1 = i
    BY <1>1
  <2> QED
    BY <2>1, <2>2, <1>1
<1>6. /\ b \in Seq(Item) /\ Len(b) = Len(s) - at + 1
      /\ \A i \in 1 .. Len(s) - at + 1 : b[i] = s[at + i - 1]
  <2>1. \A i \in at .. Len(s) : s[i] \in Item
    BY <1>1, <1>4
  <2>2. /\ b \in Seq(Item) /\ Len(b) = IF at <= Len(s) THEN Len(s) - at + 1 ELSE 0
        /\ \A i \in 1 .. Len(s) - at + 1 : b[i] = s[at + i - 1]
    BY <1>1, <1>3, <2>1, SubSeqProperties
  <2> QED
    BY <2>2, <1>1
<1>7. <<e>> \in Seq(Item) /\ Len(<<e>>) = 1 /\ <<e>>[1] = e
  OBVIOUS
<1>8. PICK c : c = a \o <<e>>
  OBVIOUS
<1>9. c \in Seq(Item) /\ Len(c) = at /\ \A i \in 1 .. at : c[i] = IF i < at THEN s[i] ELSE e
  <2>1. /\ c \in Seq(Item) /\ Len(c) = Len(a) + Len(<<e>>)
        /\ \A i \in 1 .. Len(a) + Len(<<e>>) : c[i] = IF i <= Len(a) THEN a[i] ELSE <<e>>[i - Len(a)]
    BY <1>5, <1>7, <1>8, ConcatProperties
  <2> QED
    BY <2>1, <1>1, <1>5, <1>7
<1>10. PICK t : t = c \o b
  OBVIOUS
<1>11. /\ t \in Seq(Item) /\ Len(t) = Len(s) + 1
       /\ \A i \in 1 .. Len(s) + 1 : t[i] = IF i <= at THEN c[i] ELSE b[i - at]
  <2>1. /\ t \in Seq(Item) /\ Len(t) = Len(c) + Len(b)
        /\ \A i \in 1 .. Len(c) + Len(b) : t[i] = IF i <= Len(c) THEN c[i] ELSE b[i - Len(c)]
    BY <1>6, <1>9, <1>10, ConcatProperties
  <2> QED
    BY <2>1, <1>1, <1>6, <1>9
<1>12. ASSUME NEW i \in 1 .. Len(s) + 1
       PROVE  t[i] = IF i < at THEN s[i] ELSE IF i = at THEN e ELSE s[i - 1]
  <2>1. CASE i <= at
    BY <2>1, <1>1, <1>9, <1>11
  <2>2. CASE ~(i <= at)
    <3>1. i - at \in 1 .. Len(s) - at + 1 /\ at + (i - at) - 1 = i - 1
      BY <2>2, <1>1
    <3>2. b[i - at] = s[i - 1]
      BY <3>1, <1>6
    <3> QED
      BY <3>2, <2>2, <1>1, <1>11
  <2> QED
    BY <2>1, <2>2
<1>13. InsertAt(s, at, e) = t
  BY <1>2, <1>3, <1>8, <1>10 DEF InsertAt
<1> QED
  BY <1>11, <1>12, <1>13

LEMMA MarkFacts ==
    ASSUME NEW s, Window(s), NEW lo \in 0 .. MaxId, NEW hi \in 0 .. MaxId
    PROVE  LET t == MarkGap(s, lo, hi) IN
           /\ Window(t) /\ \A i \in DOMAIN t : Blank(t[i]) \/ \E j \in DOMAIN s : t[i] = s[j]
           /\ Sorted(s) => Sorted(t)
<1>1. DOMAIN s = 1 .. Len(s) /\ Len(s) \in Nat
  BY LenProperties DEF Window
<1>2. PICK at : at = SelectInSeq(s, LAMBDA it : it.gap = <<lo, hi>> \/ it.id = hi)
  OBVIOUS
<1>3. CASE at = 0 \/ s[at].id # hi
  <2>1. MarkGap(s, lo, hi) = s
    BY <1>2, <1>3 DEF MarkGap
  <2> QED
    BY <2>1
<1>4. CASE ~(at = 0 \/ s[at].id # hi)
  <2> DEFINE e == Marker(lo, hi)
  <2>1. at \in 1 .. Len(s)
    <3>1. PICK I : I = {i \in 1 .. Len(s) : s[i].gap = <<lo, hi>> \/ s[i].id = hi}
      OBVIOUS
    <3>2. at = IF I # {} THEN Min(I) ELSE 0
      BY <1>2, <3>1 DEF SelectInSeq
    <3>3. I \in SUBSET Nat /\ I \in SUBSET (1 .. Len(s)) /\ I # {}
      BY <3>1, <3>2, <1>4
    <3> QED
      BY <3>2, <3>3, LeastOf
  <2>2. e \in Item /\ Blank(e)
    <3>1. 0 \in 0 .. MaxId
      BY WindowAssumption
    <3> QED
      BY <3>1 DEF Marker, Item, Blank
  <2>3. PICK t : t = InsertAt(s, at, e)
    OBVIOUS
  <2>4. MarkGap(s, lo, hi) = t
    BY <1>2, <1>4, <2>3 DEF MarkGap
  <2>5. /\ t \in Seq(Item) /\ Len(t) = Len(s) + 1 /\ DOMAIN t = 1 .. Len(s) + 1
        /\ \A i \in 1 .. Len(s) + 1 : t[i] = IF i < at THEN s[i] ELSE IF i = at THEN e ELSE s[i - 1]
    <3> HIDE DEF e
    <3>1. /\ t \in Seq(Item) /\ Len(t) = Len(s) + 1
          /\ \A i \in 1 .. Len(s) + 1 : t[i] = IF i < at THEN s[i] ELSE IF i = at THEN e ELSE s[i - 1]
      BY <2>1, <2>2, <2>3, InsertFacts DEF Window
    <3> QED
      BY <3>1, LenProperties
  <2> HIDE DEF e
  \* The place in s of what stands in t.
  <2> DEFINE Old(i) == IF i < at THEN i ELSE i - 1
  <2>6. \A i \in 1 .. Len(s) + 1 : i # at => Old(i) \in DOMAIN s /\ t[i] = s[Old(i)]
    BY <2>1, <2>5, <1>1
  <2>7. \A i \in DOMAIN t : Blank(t[i]) \/ \E j \in DOMAIN s : t[i] = s[j]
    BY <2>2, <2>5, <2>6
  <2>8. \A i, j \in 1 .. Len(s) + 1 : i # at /\ j # at =>
           (Old(i) = Old(j) => i = j) /\ (i < j => Old(i) < Old(j))
    BY <2>1, <1>1
  <2> HIDE DEF Old
  <2>9. Single(t)
    <3> SUFFICES ASSUME NEW i \in 1 .. Len(s) + 1, NEW j \in 1 .. Len(s) + 1, t[i].id = t[j].id, t[i].id # 0
                 PROVE  i = j
      BY <2>5 DEF Single
    <3>1. i # at /\ j # at
      BY <2>1, <2>2, <2>5 DEF Blank
    <3>2. Old(i) = Old(j)
      BY <3>1, <2>6 DEF Window, Single
    <3> QED
      BY <3>1, <3>2, <2>8
  <2>10. ASSUME Sorted(s) PROVE Sorted(t)
    <3>1. \A i \in Positions(t) : i \in 1 .. Len(s) + 1 /\ i # at /\ Old(i) \in Positions(s) /\ t[i] = s[Old(i)]
      BY <2>2, <2>5, <2>6 DEF Positions, Blank
    <3> QED
      BY <2>8, <2>10, <3>1 DEF Sorted
  <2> QED
    BY <2>4, <2>5, <2>7, <2>9, <2>10 DEF Window
<1> QED
  BY <1>3, <1>4

LEMMA MergeAroundFacts ==
    ASSUME NEW s, Window(s), NEW p, PageRight(p)
    PROVE  Window(MergeAround(s, p)) /\ From(MergeAround(s, p), Reconcile(s, p), Fresh(s, p), p)
<1>1. PICK r : r = Reconcile(s, p)
  OBVIOUS
<1>2. Window(r) /\ DOMAIN s = 1 .. Len(s) /\ Len(s) \in Nat
  BY <1>1, ReconcileFacts, LenProperties DEF Window
<1>3. CASE Fresh(s, p) = {}
  <2>1. MergeAround(s, p) = r
    BY <1>1, <1>3 DEF MergeAround
  <2> QED
    BY <1>1, <1>2, <2>1 DEF From
<1>4. CASE Fresh(s, p) # {}
  <2>1. PICK P : P = Kept(s) \cup AtRank(s, Fresh(s, p))
    OBVIOUS
  <2>2. PICK ranked : ranked = Arrange(P, r, p)
    OBVIOUS
  <2>3. /\ Fresh(s, p) \subseteq p.ids /\ p.ids \subseteq Ids /\ Ids \subseteq (0 .. MaxId)
        /\ Ids \subseteq Nat /\ 0 \notin Ids /\ 0 \in 0 .. MaxId
    BY WindowAssumption DEF Fresh, PageRight, Ids
  <2>4. \A x \in P : \/ x[1] \in DOMAIN s /\ x[2] = 0 /\ x = <<x[1], x[2]>>
                     \/ x[2] \in Fresh(s, p) /\ x[1] = Slot(s, x[2]) /\ x = <<x[1], x[2]>>
    BY <2>1 DEF Kept, AtRank
  <2>5. \A m \in Fresh(s, p) : Slot(s, m) \in 0 .. Len(s)
    BY <2>3, SlotFacts
  <2>6. P \in SUBSET ((0 .. Len(s)) \X (0 .. MaxId))
    <3> SUFFICES ASSUME NEW x \in P PROVE x \in (0 .. Len(s)) \X (0 .. MaxId)
      OBVIOUS
    <3>1. x = <<x[1], x[2]>> /\ x[1] \in 0 .. Len(s) /\ x[2] \in 0 .. MaxId
      BY <1>2, <2>3, <2>4, <2>5
    <3> QED
      BY <3>1
  <2>7. Window(ranked) /\ From(ranked, r, Fresh(s, p), p)
    <3>1. \A x \in P : x[2] = 0 => x[1] \in DOMAIN s
      BY <2>3, <2>4
    <3>2. \A x \in P : x[2] # 0 => x[2] \in Fresh(s, p)
      BY <2>4
    <3>3. \A x \in P : \A y \in P : x[2] = y[2] /\ x[2] # 0 => x = y
      BY <2>3, <2>4
    <3> QED
      BY <1>1, <2>2, <2>6, <3>1, <3>2, <3>3, PlacesFacts
  <2>8. PICK lo : lo = Min(ItemIds(s))
    OBVIOUS
  <2>9. PICK hi : hi = Max(ItemIds(s))
    OBVIOUS
  <2>10. ItemIds(s) # {} => lo \in 0 .. MaxId /\ hi \in 0 .. MaxId
    <3>1. ItemIds(s) \in SUBSET Nat /\ ItemIds(s) \in SUBSET (0 .. MaxId) /\ MaxId \in Nat
      BY <2>3, IdsFacts, WindowAssumption
    <3> QED
      BY <3>1, <2>8, <2>9, LeastOf, MostOf
  <2>11. Min(p.ids) \in 0 .. MaxId /\ Max(p.ids) \in 0 .. MaxId
    <3>1. p.ids \in SUBSET Nat /\ p.ids \in SUBSET (0 .. MaxId) /\ MaxId \in Nat /\ p.ids # {}
      BY <1>4, <2>3, WindowAssumption
    <3> QED
      BY <3>1, LeastOf, MostOf
  <2>12. PICK marked : marked = IF ItemIds(s) = {} THEN ranked
                                ELSE IF Min(p.ids) > hi THEN MarkGap(ranked, hi, Min(p.ids))
                                ELSE IF Max(p.ids) < lo THEN MarkGap(ranked, Max(p.ids), lo)
                                ELSE ranked
    OBVIOUS
  <2>13. /\ Window(marked)
         /\ \A i \in DOMAIN marked : Blank(marked[i]) \/ \E j \in DOMAIN ranked : marked[i] = ranked[j]
    <3>1. CASE marked = ranked
      BY <2>7, <3>1
    <3>2. CASE ItemIds(s) # {} /\ marked = MarkGap(ranked, hi, Min(p.ids))
      BY <2>7, <2>10, <2>11, <3>2, MarkFacts
    <3>3. CASE ItemIds(s) # {} /\ marked = MarkGap(ranked, Max(p.ids), lo)
      BY <2>7, <2>10, <2>11, <3>3, MarkFacts
    <3> QED
      BY <2>12, <3>1, <3>2, <3>3
  <2>14. From(marked, r, Fresh(s, p), p)
    BY <2>7, <2>13 DEF From
  <2>15. MergeAround(s, p) = DropFilledGaps(marked)
    BY <1>1, <1>4, <2>1, <2>2, <2>8, <2>9, <2>12 DEF MergeAround
  <2> QED
    BY <1>1, <2>13, <2>14, <2>15, DropFacts, PartOfFrom
<1> QED
  BY <1>3, <1>4

-----------------------------------------------------------------------------
(* What the live events and the sends change.                              *)

\* Items changed in place, each still of its message.
LEMMA SameIds ==
    ASSUME NEW s, Window(s), NEW t, t = [i \in DOMAIN s |-> t[i]],
           \A i \in DOMAIN s : t[i] \in Item /\ t[i].id = s[i].id
    PROVE  Window(t) /\ DOMAIN t = DOMAIN s /\ ItemIds(t) = ItemIds(s)
<1>1. DOMAIN s = 1 .. Len(s) /\ Len(s) \in Nat
  BY LenProperties DEF Window
<1>2. t \in Seq(Item) /\ DOMAIN t = DOMAIN s
  <2>1. t \in [1 .. Len(s) -> Item]
    BY <1>1
  <2> QED
    BY <2>1, <1>1, SeqFunction
<1> QED
  BY <1>2 DEF Window, Single, ItemIds

LEMMA ForgetFacts ==
    ASSUME NEW s, Window(s), NEW g
    PROVE  LET t == Forget(s, g) IN
           /\ Window(t) /\ DOMAIN t = DOMAIN s
           /\ \A i \in DOMAIN s : t[i] = [s[i] EXCEPT !.newer = s[i].newer \ {g}]
           /\ \A i \in DOMAIN s : t[i].id = s[i].id /\ t[i].ver = s[i].ver /\ (Blank(s[i]) => Blank(t[i]))
<1> DEFINE t == Forget(s, g)
<1>1. \A i \in DOMAIN s : s[i] \in Item
  BY LenProperties, ElementOfSeq DEF Window
<1>2. /\ t = [i \in DOMAIN s |-> t[i]]
      /\ \A i \in DOMAIN s : t[i] = [s[i] EXCEPT !.newer = s[i].newer \ {g}]
  BY DEF Forget
<1> HIDE DEF t
<1>3. \A i \in DOMAIN s : t[i] \in Item /\ t[i].id = s[i].id /\ t[i].ver = s[i].ver
                            /\ (Blank(s[i]) => Blank(t[i]))
  BY <1>1, <1>2 DEF Item, Blank
<1>4. Window(t) /\ DOMAIN t = DOMAIN s
  BY <1>2, <1>3, SameIds
<1> QED
  BY <1>2, <1>3, <1>4 DEF t

\* An item at the tail: a send, or a message the window misses.
LEMMA TailFacts ==
    ASSUME NEW s, Window(s), NEW it \in Item, it.id \notin ItemIds(s), plan.cap \in Nat
    PROVE  LET t == Trim(Append(s, it)) IN
           Window(t) /\ \A i \in DOMAIN t : t[i] = it \/ \E j \in DOMAIN s : t[i] = s[j]
<1>1. PICK u : u = Append(s, it)
  OBVIOUS
<1>2. /\ u \in Seq(Item) /\ Len(u) = Len(s) + 1 /\ u[Len(s) + 1] = it
      /\ \A i \in 1 .. Len(s) : u[i] = s[i]
  BY <1>1, AppendProperties DEF Window
<1>3. DOMAIN s = 1 .. Len(s) /\ DOMAIN u = 1 .. Len(s) + 1 /\ Len(s) \in Nat
  BY <1>2, LenProperties DEF Window
<1>4. \A i \in DOMAIN u : (i = Len(s) + 1 /\ u[i] = it) \/ (i \in DOMAIN s /\ u[i] = s[i])
  BY <1>2, <1>3
<1>5. Single(u)
  <2>1. \A i \in DOMAIN s : s[i].id = it.id => s[i].id = 0
    BY DEF ItemIds
  <2> QED
    BY <1>4, <2>1 DEF Window, Single
<1>6. Window(u)
  BY <1>2, <1>5 DEF Window
<1>7. Window(Trim(u)) /\ Part(Trim(u), u)
  BY <1>6, TrimFacts
<1> QED
  BY <1>1, <1>4, <1>7 DEF Part

LEMMA UpsertFacts ==
    ASSUME NEW s, Window(s), NEW it \in Item, it.id # 0, plan.cap \in Nat
    PROVE  LET t == Upsert(s, it) IN
           /\ Window(t)
           /\ \A i \in DOMAIN t : t[i] = it \/ \E j \in DOMAIN s : t[i] = s[j] /\ s[j].id # it.id
<1>1. CASE it.id \in ItemIds(s)
  <2>1. PICK t : t = [i \in DOMAIN s |-> IF s[i].id = it.id THEN it ELSE s[i]]
    OBVIOUS
  <2>2. t = Upsert(s, it)
    BY <1>1, <2>1 DEF Upsert
  <2>3. \A i \in DOMAIN s : t[i] \in Item /\ t[i].id = s[i].id
    <3>1. \A i \in DOMAIN s : s[i] \in Item
      BY LenProperties, ElementOfSeq DEF Window
    <3> QED
      BY <2>1, <3>1
  <2>4. t = [i \in DOMAIN s |-> t[i]]
    BY <2>1
  <2>5. Window(t) /\ DOMAIN t = DOMAIN s
    BY <2>3, <2>4, SameIds
  <2>6. \A i \in DOMAIN s : t[i] = it \/ (t[i] = s[i] /\ s[i].id # it.id)
    BY <2>1
  <2> QED
    BY <2>2, <2>5, <2>6
<1>2. CASE it.id \notin ItemIds(s)
  <2>1. \A j \in DOMAIN s : s[j].id # it.id
    BY <1>2 DEF ItemIds
  <2>2. Upsert(s, it) = Trim(Append(s, it))
    BY <1>2 DEF Upsert
  <2> QED
    BY <1>2, <2>1, <2>2, TailFacts
<1> QED
  BY <1>1, <1>2

LEMMA SentFacts ==
    ASSUME NEW s, Window(s), NEW m \in 0 .. MaxId
    PROVE  LET t == Sent(s, m) IN
           /\ Window(t)
           /\ \A i \in DOMAIN t :
                 \/ \E j \in DOMAIN s : t[i] = s[j]
                 \/ /\ m \notin ItemIds(s) /\ t[i].id = m
                    /\ \E j \in DOMAIN s : IsPending(s[j]) /\ t[i] = [s[j] EXCEPT !.id = m]
<1>1. /\ DOMAIN s = 1 .. Len(s) /\ Len(s) \in Nat
      /\ \A i \in DOMAIN s : s[i] \in Item
  BY LenProperties, ElementOfSeq DEF Window
<1>2. CASE Sends(s) = {}
  BY <1>2 DEF Sent
<1>3. CASE Sends(s) # {}
  <2>1. PICK at : at = Max(Sends(s))
    OBVIOUS
  <2>2. at \in DOMAIN s /\ IsPending(s[at])
    <3>1. Sends(s) \in SUBSET (0 .. Len(s)) /\ Len(s) \in Nat
      BY <1>1 DEF Sends
    <3>2. at \in Sends(s)
      BY <1>3, <2>1, <3>1, MostOf
    <3> QED
      BY <3>2 DEF Sends
  <2>3. CASE m \in ItemIds(s)
    <3>1. Sent(s, m) = Only(s, DOMAIN s \ {at})
      BY <1>3, <2>1, <2>3 DEF Sent
    <3>2. Window(Only(s, DOMAIN s \ {at})) /\ Part(Only(s, DOMAIN s \ {at}), s)
      BY OnlyFacts
    <3> QED
      BY <3>1, <3>2 DEF Part
  <2>4. CASE m \notin ItemIds(s)
    <3>1. PICK e : e = [s[at] EXCEPT !.id = m]
      OBVIOUS
    <3>2. s[at] \in Item
      BY <1>1, <2>2
    <3>3. e \in Item /\ e.id = m
      BY <3>1, <3>2 DEF Item
    <3>4. PICK t : t = [s EXCEPT ![at] = e]
      OBVIOUS
    <3>5. Sent(s, m) = t
      BY <1>3, <2>1, <2>4, <3>1, <3>4 DEF Sent
    <3>6. \A i \in DOMAIN s : t[i] = IF i = at THEN e ELSE s[i]
      BY <3>4
    <3>7. t \in Seq(Item) /\ DOMAIN t = DOMAIN s
      <4>1. s \in [1 .. Len(s) -> Item]
        BY <1>1, LenProperties DEF Window
      <4>2. t \in [1 .. Len(s) -> Item]
        BY <1>1, <2>2, <3>3, <3>4, <4>1
      <4> QED
        BY <4>2, <1>1, SeqFunction
    <3>8. Single(t)
      <4>1. \A i \in DOMAIN s : s[i].id = m => m = 0
        BY <2>4 DEF ItemIds
      <4> QED
        BY <3>3, <3>6, <3>7, <4>1 DEF Single, Window
    <3> QED
      BY <2>2, <2>4, <3>1, <3>3, <3>5, <3>6, <3>7, <3>8 DEF Window
  <2> QED
    BY <2>3, <2>4
<1> QED
  BY <1>2, <1>3

-----------------------------------------------------------------------------
(* The invariant.  Versions only grow on the server; the window, the pages *)
(* and the events hold earlier ones, and in the channel an edit comes      *)
(* behind what was read or edited before it.                               *)

EventSet == [kind : EventKinds, id : 0 .. MaxId, ver : Nat, page : Page \cup {NoPage}]
RequestSet == [tag : Tags, kind : PageKinds, at : 0 .. MaxId]

Typed ==
    /\ plan \in Plans /\ left \in [Deeds -> Nat] /\ \A d \in Deeds : left[d] <= plan.times[d]
    /\ top \in 0 .. plan.last /\ version \in [Ids -> Nat]
    /\ jump \in 0 .. MaxId /\ sentId \in 0 .. MaxId /\ (sending = "taken" => sentId # 0)
    /\ requests \subseteq RequestSet /\ pages \subseteq Page /\ queue \in Seq(EventSet)
    /\ Window(items)

Read(p) == \A m \in Ids : p.ver[m] <= version[m]

EventRight(e) ==
    /\ e.kind = "new" => e.id # 0 /\ e.ver = 0
    /\ e.kind = "edit" => e.id # 0 /\ e.ver <= version[e.id]
    /\ e.kind = "page" => e.page \in Page /\ Read(e.page)

PastRight ==
    /\ \A i \in DOMAIN items : IF items[i].id = 0 THEN Blank(items[i])
                               ELSE items[i].ver <= version[items[i].id]
    /\ \A p \in pages : Read(p)
    /\ \A k \in DOMAIN queue : EventRight(queue[k])

\* An edit in the channel is not older than f, a version of the message m.
Later(e, m, f) == e.kind = "edit" /\ e.id = m => f <= e.ver

EditsLater ==
    /\ \A i \in DOMAIN items, k \in DOMAIN queue : Later(queue[k], items[i].id, items[i].ver)
    /\ \A k, l \in DOMAIN queue : k < l =>
          /\ queue[k].kind = "edit" => Later(queue[l], queue[k].id, queue[k].ver)
          /\ queue[k].kind = "page" => \A m \in Ids : Later(queue[l], m, queue[k].page.ver[m])

\* Where the channel holds pages.
PageAt == {k \in DOMAIN queue : queue[k].kind = "page"}

\* One page at a time is asked for, on its way, or in the channel.
OneLoad ==
    /\ requests # {} \/ pages # {} \/ PageAt # {} => loading
    /\ \A q, r \in requests : q = r
    /\ \A p, q \in pages : p = q
    /\ \A k, l \in PageAt : k = l
    /\ requests # {} => pages = {} /\ PageAt = {}
    /\ pages # {} => PageAt = {}

\* A page on its way takes nothing of the item back.
Safe(it, p) == it.id \in p.ids /\ p.tag \notin it.newer => it.ver <= p.ver[it.id]

Guarded ==
    \A i \in DOMAIN items :
        /\ \A p \in pages : Safe(items[i], p)
        /\ \A k \in PageAt : Safe(items[i], queue[k].page)

LoadRight == plan.times["since"] = 0 => OneLoad /\ Guarded

WindowInv == Typed /\ PastRight /\ EditsLater /\ LoadRight

LEMMA QueueFacts ==
    ASSUME queue \in Seq(EventSet)
    PROVE  Len(queue) \in Nat /\ DOMAIN queue = 1 .. Len(queue) /\ \A k \in DOMAIN queue : queue[k] \in EventSet
  BY LenProperties, ElementOfSeq

LEMMA EventFacts ==
    ASSUME NEW k \in EventKinds, NEW m \in 0 .. MaxId, NEW v \in Nat
    PROVE  /\ Event(k, m, v) \in EventSet /\ Event(k, m, v).kind = k
           /\ Event(k, m, v).id = m /\ Event(k, m, v).ver = v
  BY DEF Event, EventSet

\* The channel with more events, none of them an edit or a page.
Grows(q) ==
    /\ q \in Seq(EventSet) /\ DOMAIN q = 1 .. Len(q) /\ Len(queue) <= Len(q)
    /\ \A k \in DOMAIN queue : q[k] = queue[k]
    /\ \A k \in DOMAIN q \ DOMAIN queue :
          q[k].kind \notin {"edit", "page"} /\ (q[k].kind = "new" => q[k].id # 0 /\ q[k].ver = 0)

LEMMA GrowsOne ==
    ASSUME queue \in Seq(EventSet), NEW e \in EventSet, e.kind \notin {"edit", "page"},
           e.kind = "new" => e.id # 0 /\ e.ver = 0
    PROVE  Grows(Append(queue, e)) /\ Grows(queue)
<1>1. PICK q : q = Append(queue, e)
  OBVIOUS
<1>2. /\ q \in Seq(EventSet) /\ Len(q) = Len(queue) + 1 /\ q[Len(queue) + 1] = e
      /\ \A k \in 1 .. Len(queue) : q[k] = queue[k]
  BY <1>1, AppendProperties
<1>3. DOMAIN q = 1 .. Len(q)
  BY <1>2, LenProperties
<1>4. Grows(q)
  BY <1>2, <1>3, QueueFacts DEF Grows
<1> QED
  BY <1>1, <1>4, QueueFacts DEF Grows

LEMMA GrowsTwo ==
    ASSUME queue \in Seq(EventSet), NEW e \in EventSet, NEW f \in EventSet,
           e.kind \notin {"edit", "page"}, e.kind = "new" => e.id # 0 /\ e.ver = 0,
           f.kind \notin {"edit", "page"}, f.kind = "new" => f.id # 0 /\ f.ver = 0
    PROVE  Grows(queue \o <<e, f>>)
<1>1. PICK b : b = <<e, f>>
  OBVIOUS
<1>2. b \in Seq(EventSet) /\ Len(b) = 2 /\ b[1] = e /\ b[2] = f
  BY <1>1
<1>3. PICK q : q = queue \o b
  OBVIOUS
<1>4. /\ q \in Seq(EventSet) /\ Len(q) = Len(queue) + Len(b)
      /\ \A k \in 1 .. Len(queue) + Len(b) : q[k] = IF k <= Len(queue) THEN queue[k] ELSE b[k - Len(queue)]
  BY <1>2, <1>3, ConcatProperties
<1>5. DOMAIN q = 1 .. Len(queue) + 2 /\ Len(q) = Len(queue) + 2 /\ Len(queue) \in Nat /\ DOMAIN queue = 1 .. Len(queue)
  BY <1>2, <1>4, LenProperties, QueueFacts
<1>6. \A k \in 1 .. Len(queue) + 2 : k <= Len(queue) \/ k - Len(queue) = 1 \/ k - Len(queue) = 2
  BY <1>5
<1>7. \A k \in 1 .. Len(queue) + 2 : (k <= Len(queue) /\ q[k] = queue[k]) \/ (k > Len(queue) /\ q[k] \in {e, f})
  BY <1>2, <1>4, <1>5, <1>6
<1>8. Grows(q)
  BY <1>4, <1>5, <1>7 DEF Grows
<1> QED
  BY <1>1, <1>3, <1>8

LEMMA GrowsKeeps ==
    ASSUME WindowInv, Grows(queue'), UNCHANGED <<items, pages, requests, loading, version, plan>>
    PROVE  (PastRight /\ EditsLater /\ LoadRight)'
<1>1. /\ Len(queue) \in Nat /\ DOMAIN queue = 1 .. Len(queue)
      /\ Len(queue') \in Nat /\ DOMAIN queue' = 1 .. Len(queue') /\ Len(queue) <= Len(queue')
      /\ \A k \in DOMAIN queue : k \in DOMAIN queue' /\ queue'[k] = queue[k]
  BY QueueFacts, LenProperties DEF WindowInv, Typed, Grows
<1>2. \A k \in DOMAIN queue' : queue'[k].kind \in {"edit", "page"} => k \in DOMAIN queue
  BY DEF Grows
<1>3. PageAt' = PageAt
  BY <1>1, <1>2 DEF PageAt
<1>4. PastRight'
  <2>1. \A k \in DOMAIN queue' : EventRight(queue[k])' 
    <3> SUFFICES ASSUME NEW k \in DOMAIN queue' PROVE EventRight(queue[k])'
      OBVIOUS
    <3>1. CASE k \in DOMAIN queue
      BY <3>1, <1>1 DEF WindowInv, PastRight, EventRight, Read
    <3>2. CASE k \notin DOMAIN queue
      BY <3>2, <1>2 DEF EventRight, Grows
    <3> QED
      BY <3>1, <3>2
  <2> QED
    BY <2>1 DEF WindowInv, PastRight, Read
<1>5. EditsLater'
  <2>1. ASSUME NEW i \in DOMAIN items, NEW k \in DOMAIN queue'
        PROVE  Later(queue'[k], items[i].id, items[i].ver)
    BY <1>1, <1>2 DEF WindowInv, EditsLater, Later
  <2>2. ASSUME NEW k \in DOMAIN queue', NEW l \in DOMAIN queue', k < l, queue'[l].kind = "edit"
        PROVE  k \in DOMAIN queue /\ l \in DOMAIN queue
    BY <2>2, <1>1, <1>2
  <2>3. \A k, l \in DOMAIN queue' : k < l =>
          /\ queue'[k].kind = "edit" => Later(queue'[l], queue'[k].id, queue'[k].ver)
          /\ queue'[k].kind = "page" => \A m \in Ids : Later(queue'[l], m, queue'[k].page.ver[m])
    BY <2>2, <1>1 DEF WindowInv, EditsLater, Later
  <2> QED
    BY <2>1, <2>3 DEF EditsLater
<1>6. LoadRight'
  BY <1>1, <1>3 DEF WindowInv, LoadRight, OneLoad, Guarded, PageAt
<1> QED
  BY <1>4, <1>5, <1>6

LEMMA LoadFacts ==
    ASSUME requests \subseteq RequestSet, NEW k \in PageKinds, NEW at \in 0 .. MaxId, Load(k, at)
    PROVE  /\ requests' \subseteq RequestSet
           /\ \/ UNCHANGED <<loading, requests>>
              \/ loading' = TRUE /\ \E x : requests' = requests \cup {x}
<1>1. CASE link = "off"
  BY <1>1 DEF Load
<1>2. CASE link # "off"
  <2>1. loading' = TRUE /\ Request(k, at)
    BY <1>2 DEF Load
  <2>2. PICK t \in Tags : requests' = requests \cup {[tag |-> t, kind |-> k, at |-> at]}
    BY <2>1 DEF Request
  <2>3. [tag |-> t, kind |-> k, at |-> at] \in RequestSet
    BY DEF RequestSet
  <2> QED
    BY <2>1, <2>2, <2>3
<1> QED
  BY <1>1, <1>2

LEMMA RequestKeeps ==
    ASSUME WindowInv, UNCHANGED <<items, pages, queue, version, plan>>,
           \/ UNCHANGED <<loading, requests>>
           \/ ~loading /\ loading' = TRUE /\ \E x : requests' = requests \cup {x}
           \/ plan.times["since"] # 0
    PROVE  (PastRight /\ EditsLater /\ LoadRight)'
<1>1. PastRight'
  BY DEF WindowInv, PastRight, EventRight, Read
<1>2. EditsLater'
  BY DEF WindowInv, EditsLater
<1>3. PageAt' = PageAt
  BY DEF PageAt
<1>4. LoadRight'
  <2>1. CASE plan.times["since"] # 0
    BY <2>1 DEF LoadRight
  <2>2. CASE UNCHANGED <<loading, requests>>
    BY <2>2, <1>3 DEF WindowInv, LoadRight, OneLoad, Guarded
  <2>3. CASE ~loading /\ loading' = TRUE /\ \E x : requests' = requests \cup {x}
    <3>1. SUFFICES ASSUME plan.times["since"] = 0 PROVE OneLoad' /\ Guarded'
      BY DEF LoadRight
    <3>2. requests = {} /\ pages = {} /\ PageAt = {}
      BY <2>3, <3>1 DEF WindowInv, LoadRight, OneLoad
    <3> QED
      BY <2>3, <3>2, <1>3 DEF OneLoad, Guarded
  <2> QED
    BY <2>1, <2>2, <2>3
<1> QED
  BY <1>1, <1>2, <1>4

-----------------------------------------------------------------------------
(* The steps keep it.                                                      *)

LEMMA InitInv == ASSUME Init PROVE WindowInv
<1>1. PICK p : p = [ver |-> version]
  OBVIOUS
<1>2. PICK P : P = {0} \X plan.cache
  OBVIOUS
<1>3. PICK s : s = << >> /\ s \in Seq(Item)
  <2>1. << >> \in Seq(Item)
    OBVIOUS
  <2> QED
    BY <2>1
<1>4. plan \in Plans /\ plan.cache \subseteq Ids /\ plan.known \in 0 .. plan.last /\ plan.last \in 0 .. MaxId
      /\ Ids \subseteq (0 .. MaxId) /\ 0 \notin Ids /\ 0 \in 0 .. MaxId /\ plan.times \in [Deeds -> Nat]
  BY WindowAssumption DEF Init, Ids
<1>5. Window(s) /\ DOMAIN s = {} /\ ItemIds(s) = {}
  BY <1>3 DEF Window, Single, ItemIds
<1>6. P \in SUBSET (Nat \X Nat) /\ IsFiniteSet(P)
  <2>1. IsFiniteSet(0 .. MaxId) /\ 0 .. MaxId \subseteq Nat
    BY WindowAssumption, FS_Interval
  <2>2. IsFiniteSet(plan.cache) /\ plan.cache \subseteq Nat
    BY <1>4, <2>1, FS_Subset
  <2>3. IsFiniteSet({0})
    BY FS_Singleton
  <2> QED
    BY <1>2, <2>2, <2>3, FS_Product
<1>7. \A m \in Ids : version[m] = 0 /\ p.ver[m] = 0
  BY <1>1 DEF Init
<1>8. /\ \A x \in P : x[2] # 0 /\ x[2] \in plan.cache /\ p.ver[x[2]] = 0
      /\ \A x \in P : \A y \in P : x[2] = y[2] => x = y
  <2>1. \A x \in P : x = <<0, x[2]>> /\ x[2] \in plan.cache
    BY <1>2
  <2>2. \A m \in plan.cache : m # 0 /\ p.ver[m] = 0
    BY <1>4, <1>7
  <2> QED
    BY <2>1, <2>2
<1>9. items = Arrange(P, s, p)
  BY <1>1, <1>2, <1>3 DEF Init, AsItems
<1>10. Window(items) /\ From(items, s, plan.cache, p)
  <2>1. \A x \in P : x[2] # 0 => x[2] \in Ids \ ItemIds(s) /\ p.ver[x[2]] \in Nat
    BY <1>4, <1>5, <1>8
  <2>2. \A x \in P : x[2] = 0 => x[1] \in DOMAIN s
    BY <1>8
  <2> QED
    BY <1>5, <1>6, <1>8, <1>9, <2>1, <2>2, ArrangeFacts
<1>11. \A i \in DOMAIN items : IF items[i].id = 0 THEN Blank(items[i])
                               ELSE items[i].ver <= version[items[i].id]
  <2> SUFFICES ASSUME NEW i \in DOMAIN items, items[i].id # 0 \/ ~Blank(items[i])
               PROVE  items[i].id # 0 /\ items[i].ver <= version[items[i].id]
    OBVIOUS
  <2>1. \/ Blank(items[i])
        \/ \E m \in plan.cache : items[i] = Message(m, p.ver[m])
    BY <1>5, <1>10 DEF From
  <2>2. CASE Blank(items[i])
    BY <2>2 DEF Blank
  <2>3. CASE \E m \in plan.cache : items[i] = Message(m, p.ver[m])
    <3>1. PICK m \in plan.cache : items[i] = Message(m, p.ver[m])
      BY <2>3
    <3>2. m \in Ids /\ m # 0 /\ p.ver[m] = 0 /\ version[m] = 0
      BY <1>4, <1>7
    <3>3. items[i].id = m /\ items[i].ver = 0
      BY <3>1, <3>2 DEF Message
    <3> QED
      BY <3>2, <3>3
  <2> QED
    BY <2>1, <2>2, <2>3
<1>12. Typed
  <2>1. queue \in Seq(EventSet) /\ requests \subseteq RequestSet /\ pages \subseteq Page
    BY DEF Init
  <2>2. version \in [Ids -> Nat] /\ top \in 0 .. plan.last
    BY <1>4 DEF Init
  <2>3. left = plan.times /\ left \in [Deeds -> Nat]
    BY <1>4 DEF Init
  <2>4. \A d \in Deeds : left[d] <= plan.times[d]
    BY <2>3
  <2> QED
    BY <1>4, <1>10, <2>1, <2>2, <2>3, <2>4 DEF Init, Typed
<1>13. PastRight /\ EditsLater
  BY <1>11 DEF Init, PastRight, EditsLater
<1>14. LoadRight
  BY DEF Init, LoadRight, OneLoad, Guarded, PageAt
<1> QED
  BY <1>12, <1>13, <1>14 DEF WindowInv

LEMMA TypedFacts ==
    ASSUME Typed
    PROVE  /\ plan.cap \in Nat /\ plan.last \in 0 .. MaxId /\ MaxId \in Nat /\ 0 \in 0 .. MaxId
           /\ Ids \subseteq (0 .. MaxId) /\ 0 \notin Ids /\ Ids = (0 .. MaxId) \ {0}
           /\ plan.times \in [Deeds -> Nat] /\ top \in Nat /\ top <= MaxId /\ Exists \subseteq Ids
  BY WindowAssumption DEF Typed, Ids, Exists

LEMMA SpendFacts ==
    ASSUME Typed, NEW d \in Deeds, Spend(d)
    PROVE  /\ plan' = plan /\ left' \in [Deeds -> Nat] /\ plan.times[d] # 0
           /\ \A k \in Deeds : left'[k] <= plan'.times[k]
<1>1. left \in [Deeds -> Nat] /\ \A k \in Deeds : left[k] <= plan.times[k]
  BY DEF Typed
<1>2. left[d] > 0 /\ left' = [left EXCEPT ![d] = left[d] - 1] /\ plan' = plan
  BY DEF Spend, May
<1>3. left[d] \in Nat /\ left[d] - 1 \in Nat
  BY <1>1, <1>2
<1>4. left' \in [Deeds -> Nat]
  BY <1>1, <1>2, <1>3
<1>5. plan.times \in [Deeds -> Nat]
  BY TypedFacts
<1>6. \A k \in Deeds : left'[k] <= left[k]
  BY <1>1, <1>2, <1>3
<1>7. \A k \in Deeds : left[k] \in Nat /\ left'[k] \in Nat /\ plan.times[k] \in Nat
  BY <1>1, <1>4, <1>5
<1>8. \A k \in Deeds : left'[k] <= plan.times[k]
  BY <1>1, <1>6, <1>7
<1>9. plan.times[d] # 0
  BY <1>1, <1>2, <1>3, <1>7
<1> QED
  BY <1>2, <1>4, <1>8, <1>9

LEMMA StepGoTo == ASSUME WindowInv, GoTo PROVE WindowInv'
<1>1. UNCHANGED <<items, jump, sending, sentId, top, pages, queue, version, plan, left>>
  BY DEF GoTo, server, bounds
<1>2. 0 \in 0 .. MaxId /\ "recent" \in PageKinds
  BY TypedFacts DEF WindowInv, PageKinds
<1>3. /\ requests' \subseteq RequestSet
      /\ \/ UNCHANGED <<loading, requests>>
         \/ ~loading /\ loading' = TRUE /\ \E x : requests' = requests \cup {x}
  BY <1>2, LoadFacts DEF GoTo, WindowInv, Typed
<1>4. (PastRight /\ EditsLater /\ LoadRight)'
  BY <1>1, <1>3, RequestKeeps
<1>5. Typed'
  BY <1>1, <1>3 DEF WindowInv, Typed
<1> QED
  BY <1>4, <1>5 DEF WindowInv

LEMMA StepOlder == ASSUME WindowInv, Older PROVE WindowInv'
<1>1. UNCHANGED <<items, jump, sending, sentId, top, pages, queue, version>>
  BY DEF Older, server
<1>2. "older" \in PageKinds /\ "recent" \in PageKinds /\ "older" \in Deeds
  BY DEF PageKinds, Deeds
<1>3. OldestID(items) \in 0 .. MaxId
  BY IdsFacts DEF WindowInv, Typed
<1>4. /\ requests' \subseteq RequestSet
      /\ \/ UNCHANGED <<loading, requests>>
         \/ ~loading /\ loading' = TRUE /\ \E x : requests' = requests \cup {x}
  <2>1. CASE OldestID(items) = 0
    BY <2>1, <1>2, <1>3, LoadFacts DEF Older, WindowInv, Typed
  <2>2. CASE OldestID(items) # 0
    BY <2>2, <1>2, <1>3, LoadFacts DEF Older, WindowInv, Typed
  <2> QED
    BY <2>1, <2>2
<1>5. plan' = plan /\ left' \in [Deeds -> Nat] /\ \A k \in Deeds : left'[k] <= plan'.times[k]
  BY <1>2, SpendFacts DEF Older, WindowInv
<1>6. (PastRight /\ EditsLater /\ LoadRight)'
  BY <1>1, <1>4, <1>5, RequestKeeps
<1>7. Typed'
  BY <1>1, <1>4, <1>5 DEF WindowInv, Typed
<1> QED
  BY <1>6, <1>7 DEF WindowInv

LEMMA StepJumpTo == ASSUME WindowInv, NEW m \in Ids, JumpTo(m) PROVE WindowInv'
<1>1. UNCHANGED <<items, sending, sentId, top, pages, queue, version>>
  BY DEF JumpTo, server
<1>2. "around" \in PageKinds /\ "around" \in Deeds
  BY DEF PageKinds, Deeds
<1>3. m \in 0 .. MaxId /\ 0 \in 0 .. MaxId
  BY TypedFacts DEF WindowInv
<1>4. /\ requests' \subseteq RequestSet /\ jump' \in 0 .. MaxId
      /\ \/ UNCHANGED <<loading, requests>>
         \/ ~loading /\ loading' = TRUE /\ \E x : requests' = requests \cup {x}
  BY <1>2, <1>3, LoadFacts DEF JumpTo, WindowInv, Typed
<1>5. plan' = plan /\ left' \in [Deeds -> Nat] /\ \A k \in Deeds : left'[k] <= plan'.times[k]
  BY <1>2, SpendFacts DEF JumpTo, WindowInv
<1>6. (PastRight /\ EditsLater /\ LoadRight)'
  BY <1>1, <1>4, <1>5, RequestKeeps
<1>7. Typed'
  BY <1>1, <1>4, <1>5 DEF WindowInv, Typed
<1> QED
  BY <1>6, <1>7 DEF WindowInv

LEMMA StepSync == ASSUME WindowInv, Sync PROVE WindowInv'
<1>1. UNCHANGED <<items, jump, sending, sentId, top, pages, queue, version, loading>>
  BY DEF Sync, server, window
<1>2. "since" \in PageKinds /\ "since" \in Deeds
  BY DEF PageKinds, Deeds
<1>3. LastID(items) \in 0 .. MaxId
  BY IdsFacts DEF WindowInv, Typed
<1>4. requests' \subseteq RequestSet
  <2>1. Request("since", LastID(items))
    BY DEF Sync
  <2>2. PICK t \in Tags : requests' = requests \cup {[tag |-> t, kind |-> "since", at |-> LastID(items)]}
    BY <2>1 DEF Request
  <2>3. [tag |-> t, kind |-> "since", at |-> LastID(items)] \in RequestSet
    BY <1>2, <1>3 DEF RequestSet
  <2> QED
    BY <2>2, <2>3 DEF WindowInv, Typed
<1>5. /\ plan' = plan /\ left' \in [Deeds -> Nat] /\ \A k \in Deeds : left'[k] <= plan'.times[k]
      /\ plan.times["since"] # 0
  BY <1>2, SpendFacts DEF Sync, WindowInv
<1>6. (PastRight /\ EditsLater /\ LoadRight)'
  BY <1>1, <1>5, RequestKeeps
<1>7. Typed'
  BY <1>1, <1>4, <1>5 DEF WindowInv, Typed
<1> QED
  BY <1>6, <1>7 DEF WindowInv

\* What an item must be, with pages on their way and events at the places K.
Fit(it, K) ==
    /\ IF it.id = 0 THEN Blank(it) ELSE it.ver <= version[it.id]
    /\ \A k \in K : Later(queue[k], it.id, it.ver)
    /\ plan.times["since"] = 0 =>
          (\A p \in pages : Safe(it, p)) /\ \A k \in PageAt \cap K : Safe(it, queue[k].page)

LEMMA OldFit ==
    ASSUME WindowInv, NEW K \in SUBSET DOMAIN queue, NEW i \in DOMAIN items
    PROVE  Fit(items[i], K)
  BY DEF WindowInv, PastRight, EditsLater, LoadRight, Guarded, Fit, PageAt

\* A message as it was written, and an item without one.
LEMMA ZeroFit ==
    ASSUME WindowInv, NEW K \in SUBSET DOMAIN queue, NEW it \in Item, it.ver = 0, it.id = 0 => Blank(it)
    PROVE  Fit(it, K)
<1>1. it.id # 0 => it.id \in Ids /\ version[it.id] \in Nat
  BY TypedFacts DEF WindowInv, Typed, Item
<1>2. \A k \in DOMAIN queue : queue[k].ver \in Nat
  BY QueueFacts DEF WindowInv, Typed, EventSet
<1>3. \A p \in Page : \A m \in p.ids : p.ver[m] \in Nat
  <2> SUFFICES ASSUME NEW p \in Page, NEW m \in p.ids PROVE p.ver[m] \in Nat
    OBVIOUS
  <2>1. p.ids \in SUBSET Ids /\ p.ver \in [Ids -> Nat]
    BY DEF Page
  <2> QED
    BY <2>1
<1>4. \A p \in Page : Safe(it, p)
  BY <1>3 DEF Safe
<1>5. pages \subseteq Page /\ \A k \in PageAt : queue[k].page \in Page
  BY DEF WindowInv, Typed, PastRight, EventRight, PageAt
<1> QED
  BY <1>1, <1>2, <1>4, <1>5 DEF Fit, Later

LEMMA ItemsKeep ==
    ASSUME WindowInv, UNCHANGED <<pages, queue, version, plan, requests, loading>>,
           \A i \in DOMAIN items' : Fit(items'[i], DOMAIN queue)
    PROVE  (PastRight /\ EditsLater /\ LoadRight)'
<1>1. PageAt' = PageAt /\ PageAt \subseteq DOMAIN queue
  BY DEF PageAt
<1>2. PastRight'
  BY DEF WindowInv, PastRight, EventRight, Read, Fit
<1>3. EditsLater'
  BY DEF WindowInv, EditsLater, Fit
<1>4. LoadRight'
  BY <1>1 DEF WindowInv, LoadRight, OneLoad, Guarded, Fit
<1> QED
  BY <1>2, <1>3, <1>4

LEMMA StepGoAway == ASSUME WindowInv, GoAway PROVE WindowInv'
<1>1. UNCHANGED <<items, loading, jump, requests, pages, queue, sending, sentId, top, version>>
  BY DEF GoAway, server
<1>2. plan' = plan /\ left' \in [Deeds -> Nat] /\ \A k \in Deeds : left'[k] <= plan'.times[k]
  BY SpendFacts DEF GoAway, WindowInv, Deeds
<1>3. (PastRight /\ EditsLater /\ LoadRight)'
  BY <1>1, <1>2, RequestKeeps
<1>4. Typed'
  BY <1>1, <1>2 DEF WindowInv, Typed
<1> QED
  BY <1>3, <1>4 DEF WindowInv

LEMMA StepSend == ASSUME WindowInv, Send PROVE WindowInv'
<1>1. UNCHANGED <<loading, jump, requests, pages, queue, sentId, top, version>> /\ sending' = "asked"
  BY DEF Send, server
<1>2. plan' = plan /\ left' \in [Deeds -> Nat] /\ \A k \in Deeds : left'[k] <= plan'.times[k]
  BY SpendFacts DEF Send, WindowInv, Deeds
<1>3. PICK it : it = Message(0, 0)
  OBVIOUS
<1>4. it \in Item /\ it.id = 0 /\ Blank(it)
  BY <1>3, TypedFacts, MessageItem DEF WindowInv, Message, Blank
<1>5. Window(items) /\ plan.cap \in Nat /\ it.id \notin ItemIds(items)
  BY <1>4, TypedFacts DEF WindowInv, Typed, ItemIds
<1>6. items' = Trim(Append(items, it))
  BY <1>3 DEF Send
<1>7. Window(items') /\ \A i \in DOMAIN items' : items'[i] = it \/ \E j \in DOMAIN items : items'[i] = items[j]
  BY <1>4, <1>5, <1>6, TailFacts
<1>8. \A i \in DOMAIN items' : Fit(items'[i], DOMAIN queue)
  <2>1. Fit(it, DOMAIN queue)
    BY <1>4, ZeroFit DEF Blank
  <2>2. \A j \in DOMAIN items : Fit(items[j], DOMAIN queue)
    BY OldFit
  <2> QED
    BY <1>7, <2>1, <2>2
<1>9. (PastRight /\ EditsLater /\ LoadRight)'
  BY <1>1, <1>2, <1>8, ItemsKeep
<1>10. Typed'
  BY <1>1, <1>2, <1>7 DEF WindowInv, Typed
<1> QED
  BY <1>9, <1>10 DEF WindowInv

LEMMA StepReadsServer == ASSUME WindowInv, NEW r \in requests, ReadsServer(r) PROVE WindowInv'
<1>1. UNCHANGED <<items, loading, jump, queue, sending, sentId, top, version, plan, left>>
  BY DEF ReadsServer, window, server, bounds
<1>2. PICK err \in {FALSE, plan.errors} :
         pages' = pages \cup {[tag |-> r.tag, kind |-> r.kind, at |-> r.at, err |-> err,
                               done |-> ~err /\ Done(r),
                               ids |-> IF err THEN {} ELSE Found(r), ver |-> version]}
  BY DEF ReadsServer
<1>3. PICK F : F = IF err THEN {} ELSE Found(r)
  OBVIOUS
<1>4. PICK d \in BOOLEAN : d = (~err /\ Done(r))
  OBVIOUS
<1>5. PICK n : n = [tag |-> r.tag, kind |-> r.kind, at |-> r.at, err |-> err, done |-> d,
                    ids |-> F, ver |-> version]
  OBVIOUS
<1>6. pages' = pages \cup {n}
  BY <1>2, <1>3, <1>4, <1>5
<1>7. n \in Page /\ n.ver = version
  <2>1. r \in RequestSet
    BY DEF WindowInv, Typed
  <2>2. r.tag \in Tags /\ r.kind \in PageKinds /\ r.at \in 0 .. MaxId
    BY <2>1 DEF RequestSet
  <2>3. err \in BOOLEAN
    BY WindowAssumption DEF WindowInv, Typed
  <2>4. F \in SUBSET Ids
    BY <1>3, TypedFacts DEF WindowInv, Found, Newest
  <2>5. version \in [Ids -> Nat]
    BY DEF WindowInv, Typed
  <2> QED
    BY <1>5, <2>2, <2>3, <2>4, <2>5 DEF Page
<1>8. Typed'
  BY <1>1, <1>6, <1>7 DEF WindowInv, Typed, ReadsServer
<1>9. Read(n)
  BY <1>7 DEF WindowInv, Typed, Read
<1>10. PastRight'
  BY <1>1, <1>6, <1>9 DEF WindowInv, PastRight, EventRight, Read
<1>11. EditsLater'
  BY <1>1 DEF WindowInv, EditsLater
<1>12. LoadRight'
  <2> SUFFICES ASSUME plan.times["since"] = 0 PROVE OneLoad' /\ Guarded'
    BY <1>1 DEF LoadRight
  <2>1. loading /\ pages = {} /\ PageAt = {} /\ requests' = {}
    BY DEF WindowInv, LoadRight, OneLoad, ReadsServer
  <2>2. PageAt' = {} /\ pages' = {n} /\ loading'
    BY <1>1, <1>6, <2>1 DEF PageAt
  <2>3. OneLoad'
    BY <2>1, <2>2 DEF OneLoad
  <2>4. \A i \in DOMAIN items : Safe(items[i], n)
    <3> SUFFICES ASSUME NEW i \in DOMAIN items, items[i].id \in n.ids PROVE items[i].ver <= n.ver[items[i].id]
      BY DEF Safe
    <3>1. items[i].id # 0
      BY <1>7, TypedFacts DEF WindowInv, Page
    <3> QED
      BY <1>7, <3>1 DEF WindowInv, PastRight
  <2> QED
    BY <1>1, <2>2, <2>3, <2>4 DEF Guarded
<1> QED
  BY <1>8, <1>10, <1>11, <1>12 DEF WindowInv

LEMMA StepPostsPage == ASSUME WindowInv, NEW p \in pages, PostsPage(p) PROVE WindowInv'
<1>1. /\ UNCHANGED <<items, loading, jump, requests, sending, sentId, top, version, plan, left>>
      /\ pages' = pages \ {p}
  BY DEF PostsPage, window, server, bounds
<1>2. PICK e : e = [Event("page", 0, 0) EXCEPT !.page = p]
  OBVIOUS
<1>3. e \in EventSet /\ e.kind = "page" /\ e.page = p
  <2>1. Event("page", 0, 0) \in EventSet /\ Event("page", 0, 0).kind = "page"
    BY TypedFacts, EventFacts DEF WindowInv, EventKinds
  <2>2. p \in Page
    BY DEF WindowInv, Typed
  <2> QED
    BY <1>2, <2>1, <2>2 DEF EventSet
<1>4. queue \in Seq(EventSet) /\ Len(queue) \in Nat /\ DOMAIN queue = 1 .. Len(queue)
  BY QueueFacts DEF WindowInv, Typed
<1>5. /\ queue' \in Seq(EventSet) /\ Len(queue') = Len(queue) + 1 /\ queue'[Len(queue) + 1] = e
      /\ \A k \in 1 .. Len(queue) : queue'[k] = queue[k]
  BY <1>2, <1>3, <1>4, AppendProperties DEF PostsPage
<1>6. /\ DOMAIN queue' = 1 .. Len(queue) + 1
      /\ \A k \in DOMAIN queue' : (k \in DOMAIN queue /\ queue'[k] = queue[k]) \/ (k = Len(queue) + 1 /\ queue'[k] = e)
  BY <1>4, <1>5, LenProperties
<1>7. Typed'
  BY <1>1, <1>5 DEF WindowInv, Typed
<1>8. PastRight'
  BY <1>1, <1>3, <1>6 DEF WindowInv, Typed, PastRight, EventRight, Read
<1>9. EditsLater'
  <2>1. ASSUME NEW k \in DOMAIN queue', NEW l \in DOMAIN queue', k < l, queue'[l].kind = "edit"
        PROVE  k \in DOMAIN queue /\ l \in DOMAIN queue
    BY <2>1, <1>3, <1>4, <1>6
  <2>2. \A k, l \in DOMAIN queue' : k < l =>
          /\ queue'[k].kind = "edit" => Later(queue'[l], queue'[k].id, queue'[k].ver)
          /\ queue'[k].kind = "page" => \A m \in Ids : Later(queue'[l], m, queue'[k].page.ver[m])
    BY <2>1, <1>6, <1>3, <1>4 DEF WindowInv, EditsLater, Later
  <2>3. \A i \in DOMAIN items, k \in DOMAIN queue' : Later(queue'[k], items[i].id, items[i].ver)
    BY <1>3, <1>6 DEF WindowInv, EditsLater, Later
  <2> QED
    BY <1>1, <2>2, <2>3 DEF EditsLater
<1>10. LoadRight'
  <2> SUFFICES ASSUME plan.times["since"] = 0 PROVE OneLoad' /\ Guarded'
    BY <1>1 DEF LoadRight
  <2>1. loading /\ requests = {} /\ PageAt = {} /\ pages' = {}
    BY <1>1 DEF WindowInv, LoadRight, OneLoad
  <2>2. PageAt' = {Len(queue) + 1}
    BY <1>3, <1>4, <1>5, <1>6, <2>1 DEF PageAt
  <2>3. OneLoad'
    BY <1>1, <2>1, <2>2 DEF OneLoad
  <2>4. \A i \in DOMAIN items : Safe(items[i], p)
    BY DEF WindowInv, LoadRight, Guarded
  <2>5. \A k \in PageAt' : queue'[k].page = p
    BY <1>3, <1>5, <2>2
  <2>6. Guarded'
    BY <1>1, <2>1, <2>4, <2>5 DEF Guarded
  <2> QED
    BY <2>3, <2>6
<1> QED
  BY <1>7, <1>8, <1>9, <1>10 DEF WindowInv

LEMMA StepOthersWrite == ASSUME WindowInv, OthersWrite PROVE WindowInv'
<1>1. /\ UNCHANGED <<items, loading, jump, requests, pages, sending, sentId, version, plan, left>>
      /\ top < plan.last /\ top' = top + 1
  BY DEF OthersWrite, window, bounds
<1>2. top' \in 0 .. plan.last /\ top + 1 \in 0 .. MaxId /\ top + 1 # 0
  BY <1>1, WindowAssumption DEF WindowInv, Typed
<1>3. PICK e : e = Event("new", top + 1, 0)
  OBVIOUS
<1>4. e \in EventSet /\ e.kind = "new" /\ e.id = top + 1 /\ e.ver = 0
  BY <1>2, <1>3, EventFacts DEF EventKinds
<1>5. queue' = Append(queue, e) \/ queue' = queue
  BY <1>3 DEF OthersWrite, Pushes
<1>6. Grows(queue')
  BY <1>2, <1>4, <1>5, GrowsOne DEF WindowInv, Typed
<1>7. (PastRight /\ EditsLater /\ LoadRight)'
  BY <1>1, <1>6, GrowsKeeps
<1>8. Typed'
  BY <1>1, <1>2, <1>6 DEF WindowInv, Typed, Grows
<1> QED
  BY <1>7, <1>8 DEF WindowInv

LEMMA StepServerTakesSend == ASSUME WindowInv, ServerTakesSend PROVE WindowInv'
<1>1. /\ UNCHANGED <<items, loading, jump, requests, pages, version, plan, left>>
      /\ top < plan.last /\ top' = top + 1 /\ sentId' = top + 1
  BY DEF ServerTakesSend, window, bounds
<1>2. top' \in 0 .. plan.last /\ sentId' \in 0 .. MaxId /\ sentId' # 0
  BY <1>1, WindowAssumption DEF WindowInv, Typed
<1>3. PICK e : e = Event("new", top + 1, 0)
  OBVIOUS
<1>4. e \in EventSet /\ e.kind = "new" /\ e.id = top + 1 /\ e.ver = 0
  BY <1>1, <1>2, <1>3, EventFacts DEF EventKinds
<1>5. queue' = Append(queue, e) \/ queue' = queue
  BY <1>3 DEF ServerTakesSend, Pushes
<1>6. Grows(queue')
  BY <1>1, <1>2, <1>4, <1>5, GrowsOne DEF WindowInv, Typed
<1>7. (PastRight /\ EditsLater /\ LoadRight)'
  BY <1>1, <1>6, GrowsKeeps
<1>8. Typed'
  BY <1>1, <1>2, <1>6 DEF WindowInv, Typed, Grows
<1> QED
  BY <1>7, <1>8 DEF WindowInv

LEMMA StepPostsReceipt == ASSUME WindowInv, PostsReceipt PROVE WindowInv'
<1>1. /\ UNCHANGED <<items, loading, jump, requests, pages, sentId, top, version, plan, left>>
      /\ sending = "taken" /\ sending' = "answered"
  BY DEF PostsReceipt, window, server, bounds
<1>2. sentId \in 0 .. MaxId /\ sentId # 0 /\ queue \in Seq(EventSet)
  BY <1>1 DEF WindowInv, Typed
<1>3. PICK e : e = Event("receipt", sentId, 0)
  OBVIOUS
<1>4. PICK f : f = Event("new", sentId, 0)
  OBVIOUS
<1>5. /\ e \in EventSet /\ e.kind = "receipt"
      /\ f \in EventSet /\ f.kind = "new" /\ f.id # 0 /\ f.ver = 0
  BY <1>2, <1>3, <1>4, EventFacts DEF EventKinds
<1>6. queue' = Append(queue, e) \/ queue' = queue \o <<e, f>>
  BY <1>3, <1>4 DEF PostsReceipt
<1>7. Grows(queue')
  <2>1. Grows(Append(queue, e))
    BY <1>2, <1>5, GrowsOne
  <2>2. Grows(queue \o <<e, f>>)
    BY <1>2, <1>5, GrowsTwo
  <2> QED
    BY <1>6, <2>1, <2>2
<1>8. (PastRight /\ EditsLater /\ LoadRight)'
  BY <1>1, <1>7, GrowsKeeps
<1>9. Typed'
  BY <1>1, <1>7 DEF WindowInv, Typed, Grows
<1> QED
  BY <1>8, <1>9 DEF WindowInv

LEMMA StepGateway == ASSUME WindowInv, GatewayDrops \/ GatewayConnects \/ Started PROVE WindowInv'
<1>1. UNCHANGED <<items, loading, jump, requests, pages, sending, sentId, top, version>>
  BY DEF GatewayDrops, GatewayConnects, Started, window, server
<1>2. plan' = plan /\ left' \in [Deeds -> Nat] /\ \A k \in Deeds : left'[k] <= plan'.times[k]
  <2>1. CASE GatewayDrops
    BY <2>1, SpendFacts DEF GatewayDrops, WindowInv, Deeds
  <2>2. CASE GatewayConnects \/ Started
    BY <2>2 DEF GatewayConnects, Started, bounds, WindowInv, Typed
  <2> QED
    BY <2>1, <2>2
<1>3. PICK e : e = Event("disconnected", 0, 0)
  OBVIOUS
<1>4. PICK f : f = Event("connected", 0, 0)
  OBVIOUS
<1>5. e \in EventSet /\ e.kind = "disconnected" /\ f \in EventSet /\ f.kind = "connected"
  BY <1>3, <1>4, TypedFacts, EventFacts DEF WindowInv, EventKinds
<1>6. queue' = Append(queue, e) \/ queue' = Append(queue, f) \/ queue' = queue
  BY <1>3, <1>4 DEF GatewayDrops, GatewayConnects, Started
<1>7. Grows(queue')
  BY <1>5, <1>6, GrowsOne DEF WindowInv, Typed
<1>8. (PastRight /\ EditsLater /\ LoadRight)'
  BY <1>1, <1>2, <1>7, GrowsKeeps
<1>9. Typed'
  BY <1>1, <1>2, <1>7 DEF WindowInv, Typed, Grows
<1> QED
  BY <1>8, <1>9 DEF WindowInv

LEMMA StepOthersEdit == ASSUME WindowInv, NEW m \in Ids, OthersEdit(m) PROVE WindowInv'
<1>1. /\ UNCHANGED <<items, loading, jump, requests, pages, sending, sentId, top>>
      /\ m \in Ids
  BY TypedFacts DEF OthersEdit, window, WindowInv
<1>2. plan' = plan /\ left' \in [Deeds -> Nat] /\ \A k \in Deeds : left'[k] <= plan'.times[k]
  BY SpendFacts DEF OthersEdit, WindowInv, Deeds
<1>3. /\ version \in [Ids -> Nat] /\ version' \in [Ids -> Nat] /\ version'[m] = version[m] + 1
      /\ \A n \in Ids : version[n] \in Nat /\ version[n] <= version'[n]
  BY <1>1 DEF OthersEdit, WindowInv, Typed
<1>4. PICK e : e = Event("edit", m, version[m] + 1)
  OBVIOUS
<1>5. e \in EventSet /\ e.kind = "edit" /\ e.id = m /\ e.ver = version[m] + 1 /\ m # 0
  <2>1. m \in 0 .. MaxId /\ version[m] + 1 \in Nat /\ m # 0
    BY <1>1, <1>3, TypedFacts DEF WindowInv
  <2> QED
    BY <1>4, <2>1, EventFacts DEF EventKinds
<1>6. queue' = Append(queue, e) \/ queue' = queue
  BY <1>4 DEF OthersEdit, Pushes
<1>7. queue \in Seq(EventSet) /\ Len(queue) \in Nat /\ DOMAIN queue = 1 .. Len(queue)
  BY QueueFacts DEF WindowInv, Typed
<1>8. /\ queue' \in Seq(EventSet) /\ DOMAIN queue \subseteq DOMAIN queue' /\ DOMAIN queue' \subseteq Nat
      /\ \A k \in DOMAIN queue' : \/ k \in DOMAIN queue /\ queue'[k] = queue[k]
                                  \/ k \notin DOMAIN queue /\ queue'[k] = e
      /\ \A k, l \in DOMAIN queue' : k < l => k \in DOMAIN queue
  <2>1. CASE queue' = queue
    BY <2>1, <1>7
  <2>2. CASE queue' = Append(queue, e)
    <3>1. /\ queue' \in Seq(EventSet) /\ Len(queue') = Len(queue) + 1 /\ queue'[Len(queue) + 1] = e
          /\ \A k \in 1 .. Len(queue) : queue'[k] = queue[k]
      BY <1>5, <1>7, <2>2, AppendProperties
    <3>2. DOMAIN queue' = 1 .. Len(queue) + 1
      BY <3>1, LenProperties
    <3> QED
      BY <1>7, <3>1, <3>2
  <2> QED
    BY <1>6, <2>1, <2>2
<1>9. \A i \in DOMAIN items : IF items[i].id = 0 THEN Blank(items[i])
                              ELSE items[i].id \in Ids /\ items[i].ver \in Nat /\ items[i].ver <= version[items[i].id]
  <2> SUFFICES ASSUME NEW i \in DOMAIN items, items[i].id # 0
               PROVE  items[i].id \in Ids /\ items[i].ver \in Nat
    BY DEF WindowInv, PastRight
  <2>1. items[i] \in Item
    BY LenProperties, ElementOfSeq DEF WindowInv, Typed, Window
  <2> QED
    BY <2>1, TypedFacts DEF WindowInv, Item
<1>10. \A p \in Page : \A n \in Ids : p.ver[n] \in Nat
  BY DEF Page
<1>11. \A k \in DOMAIN queue : queue[k] \in EventSet /\ queue[k].id \in 0 .. MaxId /\ queue[k].ver \in Nat
  BY <1>7, QueueFacts DEF EventSet
<1>12. \A p \in Page : Read(p) => Read(p)'
  BY <1>3, <1>10 DEF Read
<1>13. \A x \in EventSet : EventRight(x) => EventRight(x)'
  <2> SUFFICES ASSUME NEW x \in EventSet, EventRight(x) PROVE EventRight(x)'
    OBVIOUS
  <2>1. x.kind = "edit" => x.id \in Ids
    BY TypedFacts DEF WindowInv, EventRight, EventSet
  <2>2. x.kind = "edit" => x.ver <= version'[x.id]
    <3> SUFFICES ASSUME x.kind = "edit" PROVE x.ver <= version'[x.id]
      OBVIOUS
    <3>1. x.ver \in Nat /\ x.ver <= version[x.id]
      BY DEF EventRight, EventSet
    <3>2. version[x.id] <= version'[x.id] /\ version[x.id] \in Nat /\ version'[x.id] \in Nat
      BY <1>3, <2>1
    <3> QED
      BY <3>1, <3>2
  <2> QED
    BY <1>12, <2>2 DEF EventRight
<1>14. PastRight'
  <2>1. \A i \in DOMAIN items : IF items[i].id = 0 THEN Blank(items[i])
                                ELSE items[i].ver <= version'[items[i].id]
    <3> SUFFICES ASSUME NEW i \in DOMAIN items, items[i].id # 0
                 PROVE  items[i].ver <= version'[items[i].id]
      BY <1>9
    <3>1. items[i].id \in Ids /\ items[i].ver \in Nat /\ items[i].ver <= version[items[i].id]
      BY <1>9
    <3>2. version[items[i].id] <= version'[items[i].id] /\ version[items[i].id] \in Nat /\ version'[items[i].id] \in Nat
      BY <1>3, <3>1
    <3> QED
      BY <3>1, <3>2
  <2>2. \A p \in pages : Read(p)'
    BY <1>12 DEF WindowInv, Typed, PastRight
  <2>3. EventRight(e)'
    BY <1>3, <1>5 DEF EventRight
  <2>4. \A k \in DOMAIN queue : queue[k] \in EventSet /\ EventRight(queue[k])
    BY <1>11 DEF WindowInv, PastRight
  <2>5. ASSUME NEW k \in DOMAIN queue' PROVE EventRight(queue[k])'
    <3>1. PICK x : x = queue'[k]
      OBVIOUS
    <3>2. EventRight(x)'
      <4>1. x = e \/ (x \in EventSet /\ EventRight(x))
        BY <1>8, <2>4, <3>1
      <4> QED
        BY <1>13, <2>3, <4>1
    <3> QED
      BY <3>1, <3>2 DEF EventRight, Read
  <2> QED
    BY <1>1, <2>1, <2>2, <2>5 DEF PastRight
<1>15. EditsLater'
  <2>1. ASSUME NEW i \in DOMAIN items, NEW k \in DOMAIN queue'
        PROVE  Later(queue'[k], items[i].id, items[i].ver)
    <3>1. CASE k \in DOMAIN queue
      BY <3>1, <1>8 DEF WindowInv, EditsLater
    <3>2. CASE queue'[k] = e
      <4> SUFFICES ASSUME m = items[i].id PROVE items[i].ver <= version[m] + 1
        BY <1>5, <3>2 DEF Later
      <4>1. items[i].ver \in Nat /\ items[i].ver <= version[m] /\ version[m] \in Nat
        BY <1>1, <1>3, <1>5, <1>9
      <4> QED
        BY <4>1
    <3> QED
      BY <3>1, <3>2, <1>8
  <2>2. ASSUME NEW k \in DOMAIN queue', NEW l \in DOMAIN queue', k < l, queue'[k].kind = "edit"
        PROVE  Later(queue'[l], queue'[k].id, queue'[k].ver)
    <3>1. k \in DOMAIN queue /\ queue'[k] = queue[k]
      BY <1>8, <2>2
    <3>2. CASE l \in DOMAIN queue
      BY <1>8, <2>2, <3>1, <3>2 DEF WindowInv, EditsLater
    <3>3. CASE queue'[l] = e
      <4> SUFFICES ASSUME m = queue[k].id PROVE queue[k].ver <= version[m] + 1
        BY <1>5, <3>1, <3>3 DEF Later
      <4>1. queue[k].ver \in Nat /\ queue[k].ver <= version[m] /\ version[m] \in Nat
        BY <1>1, <1>3, <1>11, <2>2, <3>1 DEF WindowInv, PastRight, EventRight
      <4> QED
        BY <4>1
    <3> QED
      BY <3>2, <3>3, <1>8
  <2>3. ASSUME NEW k \in DOMAIN queue', NEW l \in DOMAIN queue', k < l, queue'[k].kind = "page", NEW n \in Ids
        PROVE  Later(queue'[l], n, queue'[k].page.ver[n])
    <3>1. k \in DOMAIN queue /\ queue'[k] = queue[k]
      BY <1>8, <2>3
    <3>2. CASE l \in DOMAIN queue
      BY <1>8, <2>3, <3>1, <3>2 DEF WindowInv, EditsLater
    <3>3. CASE queue'[l] = e
      <4> SUFFICES ASSUME m = n PROVE queue[k].page.ver[m] <= version[m] + 1
        BY <1>5, <3>1, <3>3 DEF Later
      <4>1. queue[k].page \in Page /\ Read(queue[k].page)
        BY <2>3, <3>1 DEF WindowInv, PastRight, EventRight
      <4>2. queue[k].page.ver[m] \in Nat /\ queue[k].page.ver[m] <= version[m] /\ version[m] \in Nat
        BY <1>1, <1>3, <1>10, <4>1 DEF Read
      <4> QED
        BY <4>2
    <3> QED
      BY <3>2, <3>3, <1>8
  <2> QED
    BY <1>1, <2>1, <2>2, <2>3 DEF EditsLater
<1>16. LoadRight'
  <2>1. PageAt' = PageAt /\ \A k \in PageAt : queue'[k] = queue[k]
    BY <1>5, <1>8 DEF PageAt
  <2> QED
    BY <1>1, <1>2, <2>1 DEF WindowInv, LoadRight, OneLoad, Guarded
<1>17. Typed'
  BY <1>1, <1>2, <1>3, <1>8 DEF WindowInv, Typed
<1> QED
  BY <1>14, <1>15, <1>16, <1>17 DEF WindowInv

LEMMA StepStopped == ASSUME WindowInv, Stopped PROVE WindowInv'
<1>1. /\ UNCHANGED <<jump, sentId, top, version>>
      /\ requests' = {} /\ pages' = {} /\ queue' = << >> /\ sending' # "taken"
  BY DEF Stopped, server
<1>2. plan' = plan /\ left' \in [Deeds -> Nat] /\ \A k \in Deeds : left'[k] <= plan'.times[k]
  BY SpendFacts DEF Stopped, WindowInv, Deeds
<1>3. PICK t : t = [i \in DOMAIN items |-> [items[i] EXCEPT !.newer = {}]]
  OBVIOUS
<1>4. items' = t /\ t = [i \in DOMAIN items |-> t[i]]
  BY <1>3 DEF Stopped
<1>5. Window(items) /\ \A i \in DOMAIN items : items[i] \in Item
  BY LenProperties, ElementOfSeq DEF WindowInv, Typed, Window
<1>6. \A i \in DOMAIN items : /\ t[i] \in Item /\ t[i].id = items[i].id /\ t[i].ver = items[i].ver
                              /\ Blank(items[i]) => Blank(t[i])
  BY <1>3, <1>5 DEF Item, Blank
<1>7. Window(t) /\ DOMAIN t = DOMAIN items
  BY <1>4, <1>5, <1>6, SameIds
<1>8. queue' \in Seq(EventSet) /\ DOMAIN queue' = {}
  BY <1>1
<1>9. Typed'
  BY <1>1, <1>2, <1>4, <1>7, <1>8 DEF WindowInv, Typed
<1>10. PastRight'
  BY <1>1, <1>4, <1>6, <1>7, <1>8 DEF WindowInv, PastRight
<1>11. EditsLater'
  BY <1>8 DEF EditsLater
<1>12. LoadRight'
  BY <1>1, <1>8 DEF LoadRight, OneLoad, Guarded, PageAt
<1> QED
  BY <1>9, <1>10, <1>11, <1>12 DEF WindowInv

\* The channel behind its first event.
LEMMA TailQueue ==
    ASSUME queue \in Seq(EventSet), queue # << >>, queue' = Tail(queue)
    PROVE  /\ queue' \in Seq(EventSet) /\ 1 \in DOMAIN queue /\ Head(queue) = queue[1]
           /\ DOMAIN queue' \subseteq Nat
           /\ \A k \in DOMAIN queue' : k + 1 \in DOMAIN queue \ {1} /\ queue'[k] = queue[k + 1]
<1>1. Len(queue) \in Nat /\ Len(queue) # 0 /\ DOMAIN queue = 1 .. Len(queue)
  BY EmptySeq, LenProperties
<1>2. /\ queue' \in Seq(EventSet) /\ Head(queue) = queue[1] /\ Len(queue') = Len(queue) - 1
      /\ \A k \in 1 .. Len(queue') : queue'[k] = queue[k + 1]
  BY HeadTailProperties
<1>3. DOMAIN queue' = 1 .. Len(queue) - 1
  BY <1>2, LenProperties
<1> QED
  BY <1>1, <1>2, <1>3

LEMMA DispatchKeeps ==
    ASSUME WindowInv, queue # << >>, queue' = Tail(queue), UNCHANGED <<pages, version, plan>>,
           \A i \in DOMAIN items' : Fit(items'[i], DOMAIN queue \ {1}),
           plan.times["since"] = 0 => OneLoad'
    PROVE  (PastRight /\ EditsLater /\ LoadRight)'
<1>1. /\ 1 \in DOMAIN queue /\ DOMAIN queue' \subseteq Nat /\ DOMAIN queue \subseteq Nat
      /\ \A k \in DOMAIN queue' : k + 1 \in DOMAIN queue \ {1} /\ queue'[k] = queue[k + 1]
  BY TailQueue, QueueFacts DEF WindowInv, Typed
<1>2. PastRight'
  <2>1. \A k \in DOMAIN queue' : EventRight(queue[k])'
    BY <1>1 DEF WindowInv, PastRight, EventRight, Read
  <2> QED
    BY <2>1 DEF WindowInv, PastRight, Read, Fit
<1>3. EditsLater'
  <2>1. \A i \in DOMAIN items', k \in DOMAIN queue' : Later(queue'[k], items'[i].id, items'[i].ver)
    BY <1>1 DEF Fit
  <2>2. \A k, l \in DOMAIN queue' : k < l => k + 1 < l + 1
    BY <1>1
  <2>3. \A k, l \in DOMAIN queue' : k < l =>
          /\ queue'[k].kind = "edit" => Later(queue'[l], queue'[k].id, queue'[k].ver)
          /\ queue'[k].kind = "page" => \A m \in Ids : Later(queue'[l], m, queue'[k].page.ver[m])
    <3> SUFFICES ASSUME NEW k \in DOMAIN queue', NEW l \in DOMAIN queue', k < l
                 PROVE  /\ queue'[k].kind = "edit" => Later(queue'[l], queue'[k].id, queue'[k].ver)
                        /\ queue'[k].kind = "page" => \A m \in Ids : Later(queue'[l], m, queue'[k].page.ver[m])
      OBVIOUS
    <3>1. PICK a \in DOMAIN queue : a = k + 1 /\ queue'[k] = queue[a]
      BY <1>1
    <3>2. PICK b \in DOMAIN queue : b = l + 1 /\ queue'[l] = queue[b]
      BY <1>1
    <3>3. a < b
      BY <2>2, <3>1, <3>2
    <3> QED
      BY <3>1, <3>2, <3>3 DEF WindowInv, EditsLater
  <2> QED
    BY <2>1, <2>3 DEF EditsLater
<1>4. plan.times["since"] = 0 => Guarded'
  <2> SUFFICES ASSUME plan.times["since"] = 0,
                      NEW i \in DOMAIN items'
               PROVE  /\ \A p \in pages' : Safe(items'[i], p)
                      /\ \A k \in PageAt' : Safe(items'[i], queue'[k].page)
    BY DEF Guarded
  <2>1. \A k \in PageAt' : k + 1 \in PageAt \cap (DOMAIN queue \ {1}) /\ queue'[k].page = queue[k + 1].page
    BY <1>1 DEF PageAt
  <2> QED
    BY <2>1 DEF Fit
<1> QED
  BY <1>2, <1>3, <1>4 DEF LoadRight

\* What may be in flight after an event that is no page.
LEMMA DispatchLoads ==
    ASSUME WindowInv, queue # << >>, queue' = Tail(queue), UNCHANGED <<pages, version, plan>>,
           \/ UNCHANGED <<loading, requests>>
           \/ ~loading /\ loading' = TRUE /\ \E x : requests' = requests \cup {x},
           plan.times["since"] = 0
    PROVE  OneLoad'
<1>1. /\ 1 \in DOMAIN queue /\ DOMAIN queue' \subseteq Nat
      /\ \A k \in DOMAIN queue' : k + 1 \in DOMAIN queue \ {1} /\ queue'[k] = queue[k + 1]
  BY TailQueue DEF WindowInv, Typed
<1>2. \A k \in PageAt' : k + 1 \in PageAt
  BY <1>1 DEF PageAt
<1>3. \A k, l \in PageAt' : k + 1 = l + 1 => k = l
  BY <1>1 DEF PageAt
<1>4. OneLoad
  BY DEF WindowInv, LoadRight
<1>5. CASE UNCHANGED <<loading, requests>>
  <2>1. \A k, l \in PageAt' : k = l
    BY <1>2, <1>3, <1>4 DEF OneLoad
  <2>2. PageAt' # {} => PageAt # {}
    BY <1>2
  <2> QED
    BY <1>4, <1>5, <2>1, <2>2 DEF OneLoad
<1>6. CASE ~loading /\ loading' = TRUE /\ \E x : requests' = requests \cup {x}
  <2>1. requests = {} /\ pages = {} /\ PageAt = {}
    BY <1>4, <1>6 DEF OneLoad
  <2>2. PageAt' = {}
    BY <1>2, <2>1
  <2> QED
    BY <1>6, <2>1, <2>2 DEF OneLoad
<1> QED
  BY <1>5, <1>6

LEMMA InFlightFacts ==
    ASSUME Typed, PastRight
    PROVE  /\ InFlight \subseteq Tags
           /\ \A p \in pages : p.tag \in InFlight
           /\ \A k \in PageAt : queue[k].page.tag \in InFlight
<1>1. \A r \in requests : r.tag \in Tags
  BY DEF Typed, RequestSet
<1>2. \A p \in pages : p.tag \in Tags
  BY DEF Typed, Page
<1>3. \A k \in DOMAIN queue : queue[k].kind = "page" => queue[k].page.tag \in Tags
  BY DEF PastRight, EventRight, Page
<1> QED
  BY <1>1, <1>2, <1>3 DEF InFlight, ToSet, PageAt

\* A message that just changed live: the pages under way leave it alone.
LEMMA LiveFit ==
    ASSUME WindowInv, NEW K \in SUBSET DOMAIN queue, NEW it, it.id # 0, it.newer = InFlight,
           it.ver <= version[it.id], \A k \in K : Later(queue[k], it.id, it.ver)
    PROVE  Fit(it, K)
  BY InFlightFacts DEF WindowInv, Fit, Safe, PageAt

\* What a dispatch leaves alone.
Dispatches == queue # << >> /\ queue' = Tail(queue)
                 /\ UNCHANGED <<shown, link, pages, sending, sentId, server, bounds>>

LEMMA DispatchTyped ==
    ASSUME WindowInv, Dispatches, requests' \subseteq RequestSet, jump' \in 0 .. MaxId, Window(items')
    PROVE  Typed'
<1>1. queue' \in Seq(EventSet)
  BY TailQueue DEF WindowInv, Typed, Dispatches
<1>2. UNCHANGED <<pages, sending, sentId, top, version, plan, left>>
  BY DEF Dispatches, server, bounds
<1> QED
  BY <1>1, <1>2 DEF WindowInv, Typed

\* The first event.
LEMMA HeadFacts ==
    ASSUME WindowInv, Dispatches
    PROVE  LET e == Head(queue) IN
           /\ 1 \in DOMAIN queue /\ e = queue[1] /\ e \in EventSet /\ EventRight(e)
           /\ e.id \in 0 .. MaxId /\ e.ver \in Nat
           /\ \A k \in DOMAIN queue \ {1} : 1 < k /\ k \in DOMAIN queue
           /\ UNCHANGED <<pages, version, plan>>
<1>1. 1 \in DOMAIN queue /\ Head(queue) = queue[1]
  BY TailQueue DEF WindowInv, Typed, Dispatches
<1>2. DOMAIN queue = 1 .. Len(queue) /\ queue[1] \in EventSet
  BY <1>1, QueueFacts DEF WindowInv, Typed
<1>3. queue[1].id \in 0 .. MaxId /\ queue[1].ver \in Nat
  BY <1>2 DEF EventSet
<1>4. UNCHANGED <<pages, version, plan>>
  BY DEF Dispatches, server, bounds
<1> QED
  BY <1>1, <1>2, <1>3, <1>4 DEF WindowInv, PastRight

LEMMA DispatchNew ==
    ASSUME WindowInv, Dispatches, Head(queue).kind = "new", OnNew(Head(queue))
    PROVE  WindowInv'
<1>1. PICK e : e = Head(queue)
  OBVIOUS
<1>2. /\ e.id \in 0 .. MaxId /\ e.id # 0 /\ e.ver = 0
      /\ DOMAIN queue \ {1} \in SUBSET DOMAIN queue
      /\ UNCHANGED <<pages, version, plan>>
  BY <1>1, HeadFacts DEF EventRight
<1>3. UNCHANGED <<loading, jump, requests>>
  BY DEF OnNew
<1>4. PICK it : it = [Message(e.id, e.ver) EXCEPT !.newer = InFlight]
  OBVIOUS
<1>5. it \in Item /\ it.id = e.id /\ it.ver = 0 /\ it.newer = InFlight
  <2>1. InFlight \in SUBSET Tags
    BY InFlightFacts DEF WindowInv
  <2>2. Message(e.id, e.ver) \in Item /\ Message(e.id, e.ver).id = e.id /\ Message(e.id, e.ver).ver = 0
    BY <1>2, MessageItem DEF Message
  <2> QED
    BY <1>4, <2>1, <2>2 DEF Item
<1>6. Window(items) /\ plan.cap \in Nat
  BY TypedFacts DEF WindowInv, Typed
<1>7. items' = Upsert(items, it)
  BY <1>1, <1>4 DEF OnNew
<1>8. Window(items') /\ \A i \in DOMAIN items' : items'[i] = it \/ \E j \in DOMAIN items : items'[i] = items[j]
  BY <1>2, <1>5, <1>6, <1>7, UpsertFacts
<1>9. \A i \in DOMAIN items' : Fit(items'[i], DOMAIN queue \ {1})
  <2>1. Fit(it, DOMAIN queue \ {1})
    BY <1>2, <1>5, ZeroFit
  <2>2. \A j \in DOMAIN items : Fit(items[j], DOMAIN queue \ {1})
    BY <1>2, OldFit
  <2> QED
    BY <1>8, <2>1, <2>2
<1>10. plan.times["since"] = 0 => OneLoad'
  BY <1>2, <1>3, DispatchLoads DEF Dispatches
<1>11. (PastRight /\ EditsLater /\ LoadRight)'
  BY <1>2, <1>9, <1>10, DispatchKeeps DEF Dispatches
<1>12. Typed'
  BY <1>3, <1>8, DispatchTyped DEF WindowInv, Typed
<1> QED
  BY <1>11, <1>12 DEF WindowInv

LEMMA DispatchEdit ==
    ASSUME WindowInv, Dispatches, Head(queue).kind = "edit", OnEdit(Head(queue))
    PROVE  WindowInv'
<1>1. PICK e : e = Head(queue)
  OBVIOUS
<1>2. /\ e.id \in 0 .. MaxId /\ e.id # 0 /\ e.ver \in Nat /\ e.ver <= version[e.id]
      /\ DOMAIN queue \ {1} \in SUBSET DOMAIN queue
      /\ UNCHANGED <<pages, version, plan>>
  BY <1>1, HeadFacts DEF EventRight
<1>3. UNCHANGED <<loading, jump, requests>>
  BY DEF OnEdit
<1>4. PICK t : t = [i \in DOMAIN items |-> IF items[i].id = e.id
                       THEN [items[i] EXCEPT !.ver = e.ver, !.newer = InFlight] ELSE items[i]]
  OBVIOUS
<1>5. items' = t /\ t = [i \in DOMAIN items |-> t[i]]
  BY <1>1, <1>4 DEF OnEdit
<1>6. Window(items) /\ \A i \in DOMAIN items : items[i] \in Item
  BY LenProperties, ElementOfSeq DEF WindowInv, Typed, Window
<1>7. ASSUME NEW i \in DOMAIN items
      PROVE  /\ t[i] \in Item /\ t[i].id = items[i].id
             /\ items[i].id = e.id => t[i].ver = e.ver /\ t[i].newer = InFlight
             /\ items[i].id # e.id => t[i] = items[i]
  <2>1. InFlight \in SUBSET Tags
    BY InFlightFacts DEF WindowInv
  <2>2. items[i] \in Item
    BY <1>6
  <2> QED
    BY <1>2, <1>4, <2>1, <2>2 DEF Item
<1>8. Window(t) /\ DOMAIN t = DOMAIN items
  BY <1>5, <1>6, <1>7, SameIds
<1>9. \A i \in DOMAIN items' : Fit(items'[i], DOMAIN queue \ {1})
  <2> SUFFICES ASSUME NEW i \in DOMAIN items PROVE Fit(t[i], DOMAIN queue \ {1})
    BY <1>5, <1>8
  <2>1. CASE items[i].id # e.id
    BY <1>2, <1>7, <2>1, OldFit
  <2>2. CASE items[i].id = e.id
    <3>1. \A k \in DOMAIN queue \ {1} : Later(queue[k], e.id, e.ver)
      <4>1. e = queue[1] /\ queue[1].kind = "edit" /\ 1 \in DOMAIN queue
        BY <1>1, HeadFacts
      <4>2. \A k \in DOMAIN queue \ {1} : 1 < k /\ k \in DOMAIN queue
        BY HeadFacts
      <4> QED
        BY <4>1, <4>2 DEF WindowInv, EditsLater
    <3> QED
      BY <1>2, <1>7, <2>2, <3>1, LiveFit
  <2> QED
    BY <2>1, <2>2
<1>10. plan.times["since"] = 0 => OneLoad'
  BY <1>2, <1>3, DispatchLoads DEF Dispatches
<1>11. (PastRight /\ EditsLater /\ LoadRight)'
  BY <1>2, <1>9, <1>10, DispatchKeeps DEF Dispatches
<1>12. Typed'
  BY <1>3, <1>5, <1>8, DispatchTyped DEF WindowInv, Typed
<1> QED
  BY <1>11, <1>12 DEF WindowInv

LEMMA DispatchReceipt ==
    ASSUME WindowInv, Dispatches, Head(queue).kind = "receipt", OnReceipt(Head(queue))
    PROVE  WindowInv'
<1>1. PICK m : m = Head(queue).id
  OBVIOUS
<1>2. /\ m \in 0 .. MaxId /\ DOMAIN queue \ {1} \in SUBSET DOMAIN queue
      /\ UNCHANGED <<pages, version, plan>>
  BY <1>1, HeadFacts
<1>3. UNCHANGED <<loading, jump, requests>> /\ items' = Sent(items, m)
  BY <1>1 DEF OnReceipt
<1>4. Window(items) /\ \A j \in DOMAIN items : items[j] \in Item
  BY LenProperties, ElementOfSeq DEF WindowInv, Typed, Window
<1>5. /\ Window(items')
      /\ \A i \in DOMAIN items' :
            \/ \E j \in DOMAIN items : items'[i] = items[j]
            \/ /\ m \notin ItemIds(items) /\ items'[i].id = m
               /\ \E j \in DOMAIN items : IsPending(items[j]) /\ items'[i] = [items[j] EXCEPT !.id = m]
  BY <1>2, <1>3, <1>4, SentFacts
<1>6. ASSUME NEW i \in DOMAIN items' PROVE Fit(items'[i], DOMAIN queue \ {1})
  <2>1. CASE \E j \in DOMAIN items : items'[i] = items[j]
    BY <1>2, <2>1, OldFit
  <2>2. CASE \E j \in DOMAIN items : IsPending(items[j]) /\ items'[i] = [items[j] EXCEPT !.id = m]
    <3>1. PICK j \in DOMAIN items : IsPending(items[j]) /\ items'[i] = [items[j] EXCEPT !.id = m]
      BY <2>2
    <3>2. items[j] \in Item /\ Blank(items[j])
      BY <1>4, <3>1 DEF WindowInv, PastRight, IsPending
    <3>3. PICK it : it = items'[i]
      OBVIOUS
    <3>4. it \in Item /\ it.ver = 0 /\ (it.id = 0 => Blank(it))
      BY <1>2, <3>1, <3>2, <3>3 DEF Item, Blank
    <3>5. Fit(it, DOMAIN queue \ {1})
      BY <1>2, <3>4, ZeroFit
    <3> QED
      BY <3>3, <3>5
  <2> QED
    BY <1>5, <2>1, <2>2
<1>7. plan.times["since"] = 0 => OneLoad'
  BY <1>2, <1>3, DispatchLoads DEF Dispatches
<1>8. (PastRight /\ EditsLater /\ LoadRight)'
  BY <1>2, <1>6, <1>7, DispatchKeeps DEF Dispatches
<1>9. Typed'
  BY <1>3, <1>5, DispatchTyped DEF WindowInv, Typed
<1> QED
  BY <1>8, <1>9 DEF WindowInv

\* The gateway comes back or goes: no item changes.
LEMMA DispatchLink ==
    ASSUME WindowInv, Dispatches, UNCHANGED <<items, jump>>, requests' \subseteq RequestSet,
           \/ UNCHANGED <<loading, requests>>
           \/ ~loading /\ loading' = TRUE /\ \E x : requests' = requests \cup {x}
    PROVE  WindowInv'
<1>1. DOMAIN queue \ {1} \in SUBSET DOMAIN queue /\ UNCHANGED <<pages, version, plan>>
  BY HeadFacts
<1>2. \A i \in DOMAIN items' : Fit(items'[i], DOMAIN queue \ {1})
  BY <1>1, OldFit
<1>3. plan.times["since"] = 0 => OneLoad'
  BY <1>1, DispatchLoads DEF Dispatches
<1>4. (PastRight /\ EditsLater /\ LoadRight)'
  BY <1>1, <1>2, <1>3, DispatchKeeps DEF Dispatches
<1>5. Typed'
  BY DispatchTyped DEF WindowInv, Typed
<1> QED
  BY <1>4, <1>5 DEF WindowInv

\* Once the page is taken nothing else is on its way, unless the sync runs.
LEMMA AfterPage ==
    ASSUME WindowInv, Dispatches, Head(queue).kind = "page", NEW it,
           IF it.id = 0 THEN Blank(it) ELSE it.ver <= version[it.id],
           \A k \in DOMAIN queue \ {1} : Later(queue[k], it.id, it.ver)
    PROVE  Fit(it, DOMAIN queue \ {1})
<1>1. 1 \in PageAt
  BY HeadFacts DEF PageAt
<1>2. plan.times["since"] = 0 => pages = {} /\ PageAt = {1}
  BY <1>1 DEF WindowInv, LoadRight, OneLoad
<1> QED
  BY <1>2 DEF Fit

LEMMA AfterPageLoads ==
    ASSUME WindowInv, Dispatches, Head(queue).kind = "page", plan.times["since"] = 0,
           requests' = requests \/ (loading' = TRUE /\ \E x : requests' = requests \cup {x})
    PROVE  OneLoad'
<1>1. 1 \in PageAt
  BY HeadFacts DEF PageAt
<1>2. pages = {} /\ requests = {} /\ \A k \in PageAt : k = 1
  BY <1>1 DEF WindowInv, LoadRight, OneLoad
<1>3. \A k \in PageAt' : k + 1 \in PageAt /\ k + 1 # 1
  BY TailQueue DEF PageAt, WindowInv, Typed, Dispatches
<1>4. PageAt' = {} /\ pages' = {}
  BY <1>2, <1>3, HeadFacts
<1> QED
  BY <1>2, <1>4 DEF OneLoad

\* The window after a page: its own items, refreshed or not, and new ones.
LEMMA PageItems ==
    ASSUME WindowInv, Dispatches, Head(queue).kind = "page", NEW p, p = Head(queue).page,
           NEW t, Window(t), From(t, Reconcile(items, p), Fresh(items, p), p)
    PROVE  \A i \in DOMAIN t : Fit(t[i], DOMAIN queue \ {1})
<1>1. /\ p \in Page /\ Read(p) /\ p = queue[1].page /\ queue[1].kind = "page" /\ 1 \in DOMAIN queue
      /\ \A k \in DOMAIN queue \ {1} : 1 < k /\ k \in DOMAIN queue
  BY HeadFacts DEF EventRight
<1>2. PageRight(p) /\ Window(items) /\ 0 \notin p.ids /\ Fresh(items, p) \subseteq Ids
  BY <1>1, TypedFacts DEF WindowInv, Typed, Page, PageRight, Fresh
<1>3. PICK r : r = Reconcile(items, p)
  OBVIOUS
<1>4. /\ DOMAIN r = DOMAIN items
      /\ \A i \in DOMAIN items :
            /\ r[i].id = items[i].id /\ r[i].newer = items[i].newer
            /\ items[i].id \notin p.ids \/ p.tag \in items[i].newer => r[i].ver = items[i].ver
            /\ items[i].id \in p.ids /\ p.tag \notin items[i].newer => r[i].ver = p.ver[items[i].id]
  BY <1>2, <1>3, ReconcileFacts
<1>5. \A m \in Ids : p.ver[m] <= version[m] /\ \A k \in DOMAIN queue \ {1} : Later(queue[k], m, p.ver[m])
  BY <1>1 DEF Read, WindowInv, EditsLater
<1> SUFFICES ASSUME NEW i \in DOMAIN t PROVE Fit(t[i], DOMAIN queue \ {1})
  OBVIOUS
<1>6. CASE Blank(t[i])
  <2>1. \A k \in DOMAIN queue \ {1} : Later(queue[k], t[i].id, t[i].ver)
    <3>1. \A k \in DOMAIN queue : queue[k].ver \in Nat
      BY QueueFacts DEF WindowInv, Typed, EventSet
    <3> QED
      BY <1>6, <3>1 DEF Blank, Later
  <2>2. t[i].id = 0
    BY <1>6 DEF Blank
  <2> QED
    BY <1>6, <2>1, <2>2, AfterPage
<1>7. CASE \E m \in Fresh(items, p) : t[i] = Message(m, p.ver[m])
  <2>1. PICK m \in Fresh(items, p) : t[i] = Message(m, p.ver[m])
    BY <1>7
  <2>2. m \in Ids /\ m # 0 /\ t[i].id = m /\ t[i].ver = p.ver[m]
    BY <1>2, <2>1, TypedFacts DEF Message, WindowInv
  <2> QED
    BY <1>5, <2>2, AfterPage
<1>8. CASE \E j \in DOMAIN r : t[i] = r[j]
  <2>1. PICK j \in DOMAIN items : t[i] = r[j]
    BY <1>4, <1>8
  <2>2. CASE r[j].ver = items[j].ver
    <3>1. Fit(items[j], DOMAIN queue \ {1})
      BY OldFit
    <3>2. items[j].id = 0 /\ Blank(items[j]) => Blank(t[i])
      BY <1>4, <2>1, <2>2 DEF Blank
    <3> QED
      BY <1>4, <2>1, <2>2, <3>1, <3>2, AfterPage DEF Fit
  <2>3. CASE items[j].id \in p.ids /\ r[j].ver = p.ver[items[j].id]
    <3>1. items[j].id \in Ids /\ items[j].id # 0
      BY <1>2, <2>3 DEF PageRight
    <3> QED
      BY <1>4, <1>5, <2>1, <2>3, <3>1, AfterPage
  <2> QED
    BY <1>4, <2>2, <2>3
<1> QED
  BY <1>3, <1>6, <1>7, <1>8 DEF From

LEMMA ForgetFit ==
    ASSUME WindowInv, Dispatches, Head(queue).kind = "page", NEW t, Window(t), NEW g,
           \A i \in DOMAIN t : Fit(t[i], DOMAIN queue \ {1})
    PROVE  \A i \in DOMAIN Forget(t, g) : Fit(Forget(t, g)[i], DOMAIN queue \ {1})
<1>1. PICK u : u = Forget(t, g)
  OBVIOUS
<1>2. /\ DOMAIN u = DOMAIN t
      /\ \A i \in DOMAIN t : u[i].id = t[i].id /\ u[i].ver = t[i].ver /\ (Blank(t[i]) => Blank(u[i]))
  BY <1>1, ForgetFacts
<1>3. ASSUME NEW i \in DOMAIN t PROVE Fit(u[i], DOMAIN queue \ {1})
  BY <1>2, AfterPage DEF Fit
<1> QED
  BY <1>1, <1>2, <1>3

\* What the two merges have in common.
LEMMA PageMerge ==
    ASSUME WindowInv, NEW p \in Page
    PROVE  LET s == IF p.kind = "around" THEN MergeAround(items, p) ELSE Merge(items, p) IN
           Window(s) /\ From(s, Reconcile(items, p), Fresh(items, p), p)
<1>1. PageRight(p) /\ Window(items) /\ plan.cap \in Nat
  BY TypedFacts DEF WindowInv, Typed, Page, PageRight
<1>2. CASE p.kind = "around"
  BY <1>1, <1>2, MergeAroundFacts
<1>3. CASE p.kind # "around"
  BY <1>1, <1>3, MergeFacts
<1> QED
  BY <1>2, <1>3

LEMMA DispatchPage ==
    ASSUME WindowInv, Dispatches, Head(queue).kind = "page", NEW p, p = Head(queue).page,
           IF p.kind = "since" /\ p.err THEN OnSyncError(p) ELSE OnPage(p)
    PROVE  WindowInv'
<1>1. p \in Page /\ DOMAIN queue \ {1} \in SUBSET DOMAIN queue /\ UNCHANGED <<pages, version, plan>>
  BY HeadFacts DEF EventRight
<1>2. PICK s : s = IF p.kind = "around" THEN MergeAround(items, p) ELSE Merge(items, p)
  OBVIOUS
<1>3. /\ Window(items) /\ \A i \in DOMAIN items : Fit(items[i], DOMAIN queue \ {1})
      /\ Window(s) /\ \A i \in DOMAIN s : Fit(s[i], DOMAIN queue \ {1})
  <2>1. \A i \in DOMAIN items : Fit(items[i], DOMAIN queue \ {1})
    BY <1>1, OldFit
  <2>2. Window(s) /\ From(s, Reconcile(items, p), Fresh(items, p), p)
    BY <1>1, <1>2, PageMerge
  <2> QED
    BY <2>1, <2>2, PageItems DEF WindowInv, Typed
<1>4. items' = Forget(items, p.tag) \/ items' = Forget(s, p.tag)
  BY <1>2 DEF OnSyncError, OnPage
<1>5. Window(items') /\ \A i \in DOMAIN items' : Fit(items'[i], DOMAIN queue \ {1})
  <2>1. PICK t \in {items, s} : items' = Forget(t, p.tag)
    BY <1>4
  <2>2. Window(t) /\ \A i \in DOMAIN t : Fit(t[i], DOMAIN queue \ {1})
    BY <1>3, <2>1
  <2>3. PICK u : u = Forget(t, p.tag)
    OBVIOUS
  <2>4. Window(u)
    BY <2>2, <2>3, ForgetFacts
  <2>5. \A i \in DOMAIN u : Fit(u[i], DOMAIN queue \ {1})
    BY <2>2, <2>3, ForgetFit
  <2> QED
    BY <2>1, <2>3, <2>4, <2>5
<1>6. /\ requests' \subseteq RequestSet /\ jump' \in 0 .. MaxId
      /\ requests' = requests \/ (loading' = TRUE /\ \E x : requests' = requests \cup {x})
  <2>1. 0 \in 0 .. MaxId /\ jump \in 0 .. MaxId /\ requests \subseteq RequestSet /\ "around" \in PageKinds
    BY TypedFacts DEF WindowInv, Typed, PageKinds
  <2>2. CASE p.kind = "since" /\ p.err
    BY <2>1, <2>2 DEF OnSyncError
  <2>3. CASE ~(p.kind = "since" /\ p.err) /\ p.err
    BY <2>1, <2>3 DEF OnPage
  <2>4. CASE ~p.err
    <3>1. KeepJump(s, p)
      BY <1>2, <2>4 DEF OnPage
    <3>2. CASE jump' = 0 /\ loading' = FALSE /\ UNCHANGED requests
      BY <2>1, <3>2
    <3>3. CASE UNCHANGED jump /\ Load("around", jump)
      BY <2>1, <3>3, LoadFacts
    <3> QED
      BY <3>1, <3>2, <3>3 DEF KeepJump
  <2> QED
    BY <2>2, <2>3, <2>4
<1>7. plan.times["since"] = 0 => OneLoad'
  BY <1>6, AfterPageLoads
<1>8. (PastRight /\ EditsLater /\ LoadRight)'
  BY <1>1, <1>5, <1>7, DispatchKeeps DEF Dispatches
<1>9. Typed'
  BY <1>5, <1>6, DispatchTyped
<1> QED
  BY <1>8, <1>9 DEF WindowInv

LEMMA StepDispatch == ASSUME WindowInv, Dispatch PROVE WindowInv'
<1>1. Dispatches
  BY DEF Dispatch, Dispatches
<1>2. PICK e : e = Head(queue)
  OBVIOUS
<1>3. CASE e.kind = "new" /\ OnNew(e)
  BY <1>1, <1>2, <1>3, DispatchNew
<1>4. CASE e.kind = "edit" /\ OnEdit(e)
  BY <1>1, <1>2, <1>4, DispatchEdit
<1>5. CASE e.kind = "receipt" /\ OnReceipt(e)
  BY <1>1, <1>2, <1>5, DispatchReceipt
<1>6. CASE e.kind = "connected" /\ OnConnected
  <2>1. UNCHANGED <<items, jump>> /\ 0 \in 0 .. MaxId /\ "recent" \in PageKinds /\ requests \subseteq RequestSet
    BY <1>6, TypedFacts DEF OnConnected, PageKinds, WindowInv, Typed
  <2>2. /\ requests' \subseteq RequestSet
        /\ \/ UNCHANGED <<loading, requests>>
           \/ ~loading /\ loading' = TRUE /\ \E x : requests' = requests \cup {x}
    <3>1. CASE loaded /\ shown /\ ~loading
      BY <1>6, <2>1, <3>1, LoadFacts DEF OnConnected
    <3>2. CASE ~(loaded /\ shown /\ ~loading)
      BY <1>6, <2>1, <3>2 DEF OnConnected
    <3> QED
      BY <3>1, <3>2
  <2> QED
    BY <1>1, <2>1, <2>2, DispatchLink
<1>7. CASE e.kind = "disconnected" /\ UNCHANGED <<items, loading, loaded, full, jump, requests>>
  BY <1>1, <1>7, DispatchLink DEF WindowInv, Typed
<1>8. CASE e.kind = "page" /\ IF e.page.kind = "since" /\ e.page.err
                              THEN OnSyncError(e.page) ELSE OnPage(e.page)
  BY <1>1, <1>2, <1>8, DispatchPage
<1> QED
  BY <1>2, <1>3, <1>4, <1>5, <1>6, <1>7, <1>8 DEF Dispatch

-----------------------------------------------------------------------------
(* No change of a message is taken back.                                   *)

\* The items of a later window t are no older than those of s.
NoOlder(s, t) ==
    \A i \in DOMAIN s, j \in DOMAIN t : s[i].id = t[j].id /\ s[i].id # 0 => t[j].ver >= s[i].ver

\* The same items, with what a page or a stop forgets.
LEMMA SameNoOlder ==
    ASSUME NEW s, Window(s), NEW t,
           \A j \in DOMAIN t : t[j].id = 0 \/ \E i \in DOMAIN s : t[j].id = s[i].id /\ t[j].ver = s[i].ver
    PROVE  NoOlder(s, t)
<1>1. \A i \in DOMAIN s : s[i].ver \in Nat
  <2>1. \A i \in DOMAIN s : s[i] \in Item
    BY LenProperties, ElementOfSeq DEF Window
  <2> QED
    BY <2>1 DEF Item
<1> SUFFICES ASSUME NEW i \in DOMAIN s, NEW j \in DOMAIN t, s[i].id = t[j].id, s[i].id # 0
             PROVE  t[j].ver >= s[i].ver
  BY DEF NoOlder
<1>2. PICK k \in DOMAIN s : t[j].id = s[k].id /\ t[j].ver = s[k].ver
  OBVIOUS
<1>3. k = i
  BY <1>2 DEF Window, Single
<1> QED
  BY <1>1, <1>2, <1>3

LEMMA NewNoOlder ==
    ASSUME WindowInv, Dispatches, OnNew(Head(queue)), Head(queue).kind = "new"
    PROVE  \A i \in DOMAIN items, j \in DOMAIN items' :
              items[i].id = items'[j].id /\ items[i].id # 0 /\ items[i].id # Head(queue).id
                 => items'[j].ver >= items[i].ver
<1>1. PICK e : e = Head(queue)
  OBVIOUS
<1>2. e.id \in 0 .. MaxId /\ e.id # 0 /\ e.ver = 0
  BY <1>1, HeadFacts DEF EventRight
<1>3. PICK it : it = [Message(e.id, e.ver) EXCEPT !.newer = InFlight]
  OBVIOUS
<1>4. it \in Item /\ it.id = e.id
  <2>1. InFlight \in SUBSET Tags
    BY InFlightFacts DEF WindowInv
  <2>2. Message(e.id, e.ver) \in Item /\ Message(e.id, e.ver).id = e.id
    BY <1>2, MessageItem
  <2> QED
    BY <1>3, <2>1, <2>2 DEF Item
<1>5. Window(items) /\ plan.cap \in Nat /\ items' = Upsert(items, it)
  BY <1>1, <1>3, TypedFacts DEF OnNew, WindowInv, Typed
<1>6. \A i \in DOMAIN items' : items'[i] = it \/ \E j \in DOMAIN items : items'[i] = items[j] /\ items[j].id # it.id
  BY <1>2, <1>4, <1>5, UpsertFacts
<1>7. \A i \in DOMAIN items : items[i].ver \in Nat
  <2>1. \A i \in DOMAIN items : items[i] \in Item
    BY <1>5, LenProperties, ElementOfSeq DEF Window
  <2> QED
    BY <2>1 DEF Item
<1> SUFFICES ASSUME NEW i \in DOMAIN items, NEW j \in DOMAIN items',
                    items[i].id = items'[j].id, items[i].id # 0, items[i].id # e.id
             PROVE  items'[j].ver >= items[i].ver
  BY <1>1
<1>8. PICK k \in DOMAIN items : items'[j] = items[k]
  BY <1>4, <1>6
<1>9. k = i
  BY <1>5, <1>8 DEF Window, Single
<1> QED
  BY <1>7, <1>8, <1>9

LEMMA EditNoOlder ==
    ASSUME WindowInv, Dispatches, OnEdit(Head(queue)), Head(queue).kind = "edit"
    PROVE  NoOlder(items, items')
<1>1. PICK e : e = Head(queue)
  OBVIOUS
<1>2. e = queue[1] /\ 1 \in DOMAIN queue /\ e.kind = "edit" /\ e.ver \in Nat
  BY <1>1, HeadFacts
<1>3. /\ DOMAIN items' = DOMAIN items
      /\ \A i \in DOMAIN items : /\ items[i].id = e.id => items'[i] = [items[i] EXCEPT !.ver = e.ver, !.newer = InFlight]
                                 /\ items[i].id # e.id => items'[i] = items[i]
  BY <1>1 DEF OnEdit
<1>4. \A i \in DOMAIN items : items[i] \in Item
  BY LenProperties, ElementOfSeq DEF WindowInv, Typed, Window
<1>5. \A i \in DOMAIN items : items[i].id = e.id => items[i].ver <= e.ver
  BY <1>2 DEF WindowInv, EditsLater, Later
<1>6. \A i \in DOMAIN items : items'[i].id = items[i].id /\ items'[i].ver >= items[i].ver
  <2> SUFFICES ASSUME NEW i \in DOMAIN items PROVE items'[i].id = items[i].id /\ items'[i].ver >= items[i].ver
    OBVIOUS
  <2>1. items[i] \in Item /\ items[i].ver \in Nat
    BY <1>4 DEF Item
  <2>2. CASE items[i].id # e.id
    <3>1. items'[i] = items[i]
      BY <1>3, <2>2
    <3>2. items[i].ver >= items[i].ver
      BY <2>1
    <3> QED
      BY <3>1, <3>2
  <2>3. CASE items[i].id = e.id
    <3>1. items'[i] = [items[i] EXCEPT !.ver = e.ver, !.newer = InFlight]
      BY <1>3, <2>3
    <3>2. items'[i].id = items[i].id /\ items'[i].ver = e.ver
      BY <2>1, <3>1 DEF Item
    <3> QED
      BY <1>2, <1>5, <2>1, <2>3, <3>2
  <2> QED
    BY <2>2, <2>3
<1> QED
  BY <1>3, <1>6 DEF NoOlder, WindowInv, Typed, Window, Single

LEMMA ReceiptNoOlder ==
    ASSUME WindowInv, Dispatches, OnReceipt(Head(queue))
    PROVE  NoOlder(items, items')
<1>1. PICK m : m = Head(queue).id
  OBVIOUS
<1>2. Window(items) /\ m \in 0 .. MaxId /\ items' = Sent(items, m)
  BY <1>1, HeadFacts DEF OnReceipt, WindowInv, Typed
<1>3. \A i \in DOMAIN items' :
         \/ \E j \in DOMAIN items : items'[i] = items[j]
         \/ m \notin ItemIds(items) /\ items'[i].id = m
  BY <1>2, SentFacts
<1>4. \A i \in DOMAIN items : items[i].ver \in Nat
  <2>1. \A i \in DOMAIN items : items[i] \in Item
    BY <1>2, LenProperties, ElementOfSeq DEF Window
  <2> QED
    BY <2>1 DEF Item
<1> SUFFICES ASSUME NEW i \in DOMAIN items, NEW j \in DOMAIN items',
                    items[i].id = items'[j].id, items[i].id # 0
             PROVE  items'[j].ver >= items[i].ver
  BY DEF NoOlder
<1>5. items[i].id \in ItemIds(items)
  BY DEF ItemIds
<1>6. PICK k \in DOMAIN items : items'[j] = items[k]
  BY <1>3, <1>5
<1>7. k = i
  BY <1>2, <1>6 DEF Window, Single
<1> QED
  BY <1>4, <1>6, <1>7

LEMMA PageNoOlder ==
    ASSUME WindowInv, Dispatches, Head(queue).kind = "page", NEW p, p = Head(queue).page,
           plan.times["since"] = 0,
           IF p.kind = "since" /\ p.err THEN OnSyncError(p) ELSE OnPage(p)
    PROVE  NoOlder(items, items')
<1>1. p \in Page /\ p = queue[1].page /\ 1 \in PageAt
  BY HeadFacts DEF EventRight, PageAt
<1>2. PICK s : s = IF p.kind = "around" THEN MergeAround(items, p) ELSE Merge(items, p)
  OBVIOUS
<1>3. Window(items) /\ PageRight(p)
  BY <1>1 DEF WindowInv, Typed, Page, PageRight
<1>4. items' = Forget(items, p.tag) \/ items' = Forget(s, p.tag)
  BY <1>2 DEF OnSyncError, OnPage
<1>5. CASE items' = Forget(items, p.tag)
  <2>1. /\ DOMAIN items' = DOMAIN items
        /\ \A i \in DOMAIN items : items'[i].id = items[i].id /\ items'[i].ver = items[i].ver
    BY <1>3, <1>5, ForgetFacts
  <2> QED
    BY <1>3, <2>1, SameNoOlder
<1>6. CASE items' = Forget(s, p.tag)
  <2>1. Window(s) /\ From(s, Reconcile(items, p), Fresh(items, p), p)
    BY <1>1, <1>2, PageMerge
  <2>2. /\ DOMAIN items' = DOMAIN s
        /\ \A i \in DOMAIN s : items'[i].id = s[i].id /\ items'[i].ver = s[i].ver
    BY <1>6, <2>1, ForgetFacts
  <2>3. PICK r : r = Reconcile(items, p)
    OBVIOUS
  <2>4. /\ Window(r) /\ DOMAIN r = DOMAIN items
        /\ \A i \in DOMAIN items :
              /\ r[i].id = items[i].id
              /\ items[i].id \notin p.ids \/ p.tag \in items[i].newer => r[i].ver = items[i].ver
              /\ items[i].id \in p.ids /\ p.tag \notin items[i].newer => r[i].ver = p.ver[items[i].id]
    BY <1>3, <2>3, ReconcileFacts
  <2>5. \A i \in DOMAIN items : items[i].ver \in Nat
    <3>1. \A i \in DOMAIN items : items[i] \in Item
      BY <1>3, LenProperties, ElementOfSeq DEF Window
    <3> QED
      BY <3>1 DEF Item
  <2>6. \A i \in DOMAIN items : Safe(items[i], p)
    BY <1>1 DEF WindowInv, LoadRight, Guarded
  <2>7. \A i \in DOMAIN items : items[i].id \in p.ids => p.ver[items[i].id] \in Nat
    BY <1>3 DEF PageRight
  <2>8. \A i \in DOMAIN items : r[i].ver >= items[i].ver
    BY <2>4, <2>5, <2>6, <2>7 DEF Safe
  <2> SUFFICES ASSUME NEW i \in DOMAIN items, NEW j \in DOMAIN s,
                      items[i].id = s[j].id, items[i].id # 0
               PROVE  s[j].ver >= items[i].ver
    BY <2>2 DEF NoOlder
  <2>9. items[i].id \in ItemIds(items)
    BY DEF ItemIds
  <2>10. PICK k \in DOMAIN r : s[j] = r[k]
    <3>1. ~ Blank(s[j])
      BY DEF Blank
    <3>2. \A m \in Fresh(items, p) : Message(m, p.ver[m]).id = m /\ m \notin ItemIds(items)
      BY DEF Message, Fresh
    <3> QED
      BY <2>1, <2>3, <2>9, <3>1, <3>2 DEF From
  <2>11. k = i
    BY <1>3, <2>4, <2>10 DEF Window, Single
  <2> QED
    BY <2>8, <2>10, <2>11
<1> QED
  BY <1>4, <1>5, <1>6

LEMMA DispatchNoOlder ==
    ASSUME WindowInv, Dispatch, plan.times["since"] = 0
    PROVE  \A i \in DOMAIN items, j \in DOMAIN items' :
              items[i].id = items'[j].id /\ items[i].id # 0
                 /\ ~(Head(queue).kind = "new" /\ Head(queue).id = items[i].id)
                 => items'[j].ver >= items[i].ver
<1>1. Dispatches
  BY DEF Dispatch, Dispatches
<1>2. CASE Head(queue).kind = "new" /\ OnNew(Head(queue))
  BY <1>1, <1>2, NewNoOlder
<1>3. CASE Head(queue).kind = "edit" /\ OnEdit(Head(queue))
  BY <1>1, <1>3, EditNoOlder DEF NoOlder
<1>4. CASE Head(queue).kind = "receipt" /\ OnReceipt(Head(queue))
  BY <1>1, <1>4, ReceiptNoOlder DEF NoOlder
<1>5. CASE UNCHANGED items
  BY <1>5, SameNoOlder DEF WindowInv, Typed, NoOlder
<1>6. CASE Head(queue).kind = "page" /\ IF Head(queue).page.kind = "since" /\ Head(queue).page.err
                                        THEN OnSyncError(Head(queue).page) ELSE OnPage(Head(queue).page)
  BY <1>1, <1>6, PageNoOlder DEF NoOlder
<1> QED
  BY <1>2, <1>3, <1>4, <1>5, <1>6 DEF Dispatch, OnConnected

LEMMA StoppedNoOlder == ASSUME WindowInv, Stopped PROVE NoOlder(items, items')
<1>1. Window(items) /\ \A i \in DOMAIN items : items[i] \in Item
  BY LenProperties, ElementOfSeq DEF WindowInv, Typed, Window
<1>2. /\ DOMAIN items' = DOMAIN items
      /\ \A i \in DOMAIN items : items'[i] = [items[i] EXCEPT !.newer = {}]
  BY DEF Stopped
<1>3. \A i \in DOMAIN items : items'[i].id = items[i].id /\ items'[i].ver = items[i].ver
  BY <1>1, <1>2 DEF Item
<1> QED
  BY <1>1, <1>2, <1>3, SameNoOlder

LEMMA SendNoOlder == ASSUME WindowInv, Send PROVE NoOlder(items, items')
<1>1. PICK it : it = Message(0, 0)
  OBVIOUS
<1>2. it \in Item /\ it.id = 0
  BY <1>1, TypedFacts, MessageItem DEF WindowInv
<1>3. Window(items) /\ plan.cap \in Nat /\ it.id \notin ItemIds(items) /\ items' = Trim(Append(items, it))
  BY <1>1, <1>2, TypedFacts DEF WindowInv, Typed, ItemIds, Send
<1>4. \A i \in DOMAIN items' : items'[i] = it \/ \E j \in DOMAIN items : items'[i] = items[j]
  BY <1>2, <1>3, TailFacts
<1> QED
  BY <1>2, <1>3, <1>4, SameNoOlder

-----------------------------------------------------------------------------
(* The theorems.                                                           *)

LEMMA NextInv == ASSUME WindowInv, [Next]_vars PROVE WindowInv'
<1>1. CASE Next
  <2>1. CASE User
    BY <2>1, StepGoTo, StepGoAway, StepOlder, StepSend, StepJumpTo DEF User
  <2>2. CASE Sync
    BY <2>2, StepSync
  <2>3. CASE Backend
    BY <2>3, StepReadsServer, StepPostsPage, StepServerTakesSend, StepPostsReceipt DEF Backend
  <2>4. CASE Others
    BY <2>4, StepOthersWrite, StepGateway, StepStopped, StepOthersEdit DEF Others
  <2>5. CASE Dispatch
    BY <2>5, StepDispatch
  <2> QED
    BY <1>1, <2>1, <2>2, <2>3, <2>4, <2>5 DEF Next
<1>2. CASE UNCHANGED vars
  BY <1>2 DEF vars, window, server, bounds, WindowInv, Typed, PastRight, EventRight, Read,
              EditsLater, LoadRight, OneLoad, Guarded, PageAt
<1> QED
  BY <1>1, <1>2

LEMMA InvAlways == Spec => []WindowInv
<1>1. Init => WindowInv
  BY InitInv
<1>2. WindowInv /\ [Next]_vars => WindowInv'
  BY NextInv
<1> QED
  BY <1>1, <1>2, PTL DEF Spec

\* A message shows once, whichever of the pages, the live copy and the receipt
\* of a send bring it, and in whatever order (Window.Merge, MergeAround, Upsert,
\* Sent).
THEOREM NoDoublesAlways == Spec => []NoDoubles
<1>1. WindowInv => NoDoubles
  BY DEF WindowInv, Typed, Window, Single, NoDoubles
<1> QED
  BY <1>1, InvAlways, PTL

LEMMA NextNoOlder ==
    ASSUME WindowInv, [Next]_vars, plan.times["since"] = 0
    PROVE  \A i \in DOMAIN items, j \in DOMAIN items' :
              items[i].id = items'[j].id /\ items[i].id # 0
                 /\ ~(queue # << >> /\ Head(queue).kind = "new" /\ Head(queue).id = items[i].id)
                 => items'[j].ver >= items[i].ver
<1>1. CASE UNCHANGED items
  BY <1>1, SameNoOlder DEF WindowInv, Typed, NoOlder
<1>2. CASE Send
  BY <1>2, SendNoOlder DEF NoOlder
<1>3. CASE Stopped
  BY <1>3, StoppedNoOlder DEF NoOlder
<1>4. CASE Dispatch
  BY <1>4, DispatchNoOlder DEF Dispatch
<1>5. UNCHANGED items \/ Send \/ Stopped \/ Dispatch
  <2>1. CASE User
    BY <2>1 DEF User, GoTo, GoAway, Older, JumpTo
  <2>2. CASE Sync
    BY <2>2 DEF Sync, window
  <2>3. CASE Backend
    BY <2>3 DEF Backend, ReadsServer, PostsPage, ServerTakesSend, PostsReceipt, window
  <2>4. CASE Others
    BY <2>4 DEF Others, OthersWrite, GatewayDrops, GatewayConnects, Started, OthersEdit, window
  <2>5. CASE UNCHANGED vars
    BY <2>5 DEF vars, window
  <2> QED
    BY <2>1, <2>2, <2>3, <2>4, <2>5 DEF Next
<1> QED
  BY <1>1, <1>2, <1>3, <1>4, <1>5

\* A page read before a live change never takes the change back, in a window
\* whose pages are asked for one at a time (reconcileMsg and Window.LiveAt).
THEOREM NoStalePageAlways == Spec => NoStalePage
<1> DEFINE Still == plan.times["since"] = 0 =>
       \A m \in ItemIds(items) \cap ItemIds(items') :
          \A i \in DOMAIN items, j \in DOMAIN items' :
              items[i].id = m /\ items'[j].id = m
                  /\ ~(queue # <<>> /\ Head(queue).kind = "new" /\ Head(queue).id = m)
              => items'[j].ver >= items[i].ver
<1>1. WindowInv /\ [Next]_vars => [Still]_vars
  <2> SUFFICES ASSUME WindowInv, [Next]_vars PROVE Still
    OBVIOUS
  <2>1. \A m \in ItemIds(items) : m # 0
    BY DEF ItemIds
  <2> QED
    BY <2>1, NextNoOlder
<1>2. Spec => [][Still]_vars
  <2> HIDE DEF Still
  <2> QED
    BY <1>1, InvAlways, PTL DEF Spec
<1> QED
  BY <1>2 DEF NoStalePage

-----------------------------------------------------------------------------
(* The order of the messages.  Without sends a live message is above all   *)
(* that the window holds, and above what the pages before it bring.        *)

\* What an event brings to the window at the most.
Brings(e) == IF e.kind = "new" THEN {e.id} ELSE IF e.kind = "page" THEN e.page.ids ELSE {}

Order ==
    /\ Sorted(items) /\ sending = "no"
    /\ \A i \in DOMAIN items : items[i].id <= top
    /\ \A p \in pages : \A m \in p.ids : m <= top
    /\ \A k \in DOMAIN queue : queue[k].kind # "receipt" /\ \A m \in Brings(queue[k]) : m <= top
    /\ \A k \in DOMAIN queue : queue[k].kind = "new" =>
          /\ \A i \in DOMAIN items : items[i].id < queue[k].id
          /\ \A l \in DOMAIN queue : l < k => \A m \in Brings(queue[l]) : m < queue[k].id

OrderInv == plan.times["send"] = 0 => Order

\* The message of a place.
IdOf(x, s) == IF x[2] = 0 THEN s[x[1]].id ELSE x[2]

LEMMA SortedArrange ==
    ASSUME NEW s, NEW p, NEW P \in SUBSET (Nat \X Nat), IsFiniteSet(P),
           \A x \in P : \A y \in P :
              Ahead(x, y) /\ IdOf(x, s) > 0 /\ IdOf(y, s) > 0 => IdOf(x, s) < IdOf(y, s)
    PROVE  Sorted(Arrange(P, s, p))
<1>1. PICK t : t = Arrange(P, s, p)
  OBVIOUS
<1>2. /\ Cardinality(P) \in Nat
      /\ \A k \in 1 .. Cardinality(P) : Nth(P, k) \in P /\ Cardinality(Before(P, Nth(P, k))) = k - 1
  BY NthFacts
<1>3. DOMAIN t = 1 .. Cardinality(P) /\ \A k \in DOMAIN t : t[k].id = IdOf(Nth(P, k), s)
  BY <1>1 DEF Arrange, IdOf, Message
<1> SUFFICES ASSUME NEW k \in Positions(t), NEW l \in Positions(t), k < l PROVE t[k].id < t[l].id
  BY <1>1 DEF Sorted
<1>4. k \in 1 .. Cardinality(P) /\ l \in 1 .. Cardinality(P) /\ t[k].id > 0 /\ t[l].id > 0
  BY <1>3 DEF Positions
<1>5. PICK x \in P : x = Nth(P, k) /\ Cardinality(Before(P, x)) = k - 1
  BY <1>2, <1>4
<1>6. PICK y \in P : y = Nth(P, l) /\ Cardinality(Before(P, y)) = l - 1
  BY <1>2, <1>4
<1>7. x # y
  BY <1>4, <1>5, <1>6
<1>8. Ahead(x, y) \/ Ahead(y, x)
  BY <1>7 DEF Ahead
<1>9. ~ Ahead(y, x)
  <2>1. SUFFICES ASSUME Ahead(y, x) PROVE l - 1 < k - 1
    BY <1>4
  <2> QED
    BY <2>1, <1>5, <1>6, BeforeLess
<1> QED
  BY <1>3, <1>4, <1>5, <1>6, <1>8, <1>9

LEMMA SortedOnly ==
    ASSUME NEW s, Window(s), Sorted(s), NEW S \in SUBSET DOMAIN s
    PROVE  Sorted(Only(s, S))
<1> DEFINE P == S \X {0}
<1>1. DOMAIN s = 1 .. Len(s) /\ Len(s) \in Nat
  BY LenProperties DEF Window
<1>2. IsFiniteSet(P) /\ P \in SUBSET (Nat \X Nat)
  <2>1. IsFiniteSet(S)
    <3>1. S \in SUBSET (1 .. Len(s)) /\ IsFiniteSet(1 .. Len(s))
      BY <1>1, FS_Interval
    <3> QED
      BY <3>1, FS_Subset
  <2>2. IsFiniteSet({0})
    BY FS_Singleton
  <2> QED
    BY <1>1, <2>1, <2>2, FS_Product
<1>3. \A x \in P : x[2] = 0 /\ x[1] \in DOMAIN s /\ IdOf(x, s) = s[x[1]].id
  BY DEF IdOf
<1>4. \A x \in P : \A y \in P :
         Ahead(x, y) /\ IdOf(x, s) > 0 /\ IdOf(y, s) > 0 => IdOf(x, s) < IdOf(y, s)
  BY <1>3 DEF Sorted, Positions, Ahead
<1> HIDE DEF P
<1>5. Sorted(Arrange(P, s, NoPage))
  BY <1>2, <1>4, SortedArrange
<1> QED
  BY <1>5 DEF Only, P

LEMMA SortedTrim ==
    ASSUME NEW s, Window(s), Sorted(s), plan.cap \in Nat
    PROVE  Sorted(Trim(s))
<1>1. PICK d \in Nat : \A i \in DOMAIN Trim(s) : d + i \in DOMAIN s /\ Trim(s)[i] = s[d + i]
  BY TrimFacts
<1>2. DOMAIN Trim(s) \subseteq Nat
  BY TrimFacts, LenProperties DEF Window
<1>3. \A i, j \in DOMAIN Trim(s) : i < j => d + i < d + j
  BY <1>2
<1> QED
  BY <1>1, <1>3 DEF Sorted, Positions

LEMMA SortedDrop ==
    ASSUME NEW s, Window(s), Sorted(s)
    PROVE  Sorted(DropFilledGaps(s))
  BY SortedOnly DEF DropFilledGaps

\* The ends of a window in order.
LEMMA EndsFacts ==
    ASSUME NEW s, Window(s), Sorted(s)
    PROVE  /\ \A i \in Positions(s) : OldestID(s) <= s[i].id /\ s[i].id <= LastID(s)
           /\ OldestID(s) # 0 => OldestID(s) <= LastID(s)
<1>1. DOMAIN s = 1 .. Len(s) /\ Len(s) \in Nat /\ \A i \in DOMAIN s : s[i].id \in Nat
  <2>1. \A i \in DOMAIN s : s[i] \in Item
    BY LenProperties, ElementOfSeq DEF Window
  <2> QED
    BY <2>1, LenProperties, WindowAssumption DEF Window, Item
<1>2. CASE Positions(s) = {}
  BY <1>2 DEF OldestID
<1>3. CASE Positions(s) # {}
  <2>1. Positions(s) \in SUBSET Nat /\ Positions(s) \in SUBSET (0 .. Len(s)) /\ Positions(s) \in SUBSET DOMAIN s
    BY <1>1 DEF Positions
  <2>2. PICK a \in Positions(s) : a = Min(Positions(s)) /\ \A i \in Positions(s) : a <= i
    BY <1>3, <2>1, LeastOf
  <2>3. PICK b \in Positions(s) : b = Max(Positions(s)) /\ \A i \in Positions(s) : i <= b
    BY <1>1, <1>3, <2>1, MostOf
  <2>4. OldestID(s) = s[a].id /\ LastID(s) = s[b].id
    BY <1>3, <2>2, <2>3 DEF OldestID, LastID
  <2>5. \A i \in Positions(s) : s[a].id <= s[i].id
    <3> SUFFICES ASSUME NEW i \in Positions(s) PROVE s[a].id <= s[i].id
      OBVIOUS
    <3>1. a = i \/ a < i
      BY <2>1, <2>2
    <3> QED
      BY <1>1, <2>1, <3>1 DEF Sorted
  <2>6. \A i \in Positions(s) : s[i].id <= s[b].id
    <3> SUFFICES ASSUME NEW i \in Positions(s) PROVE s[i].id <= s[b].id
      OBVIOUS
    <3>1. b = i \/ i < b
      BY <2>1, <2>3
    <3> QED
      BY <1>1, <2>1, <3>1 DEF Sorted
  <2> QED
    BY <2>4, <2>5, <2>6
<1> QED
  BY <1>2, <1>3

\* The rank j is the one of m in s: behind smaller ids, before larger ones.
Rank(s, j, m) ==
    \A i \in DOMAIN s : s[i].id # 0 => (i <= j => s[i].id < m) /\ (i > j => m < s[i].id)

LEMMA SlotRank ==
    ASSUME NEW s, Window(s), Sorted(s), NEW m \in Ids, m \notin ItemIds(s)
    PROVE  /\ Rank(s, Slot(s, m), m)
           /\ \A n \in Ids : n < m => Slot(s, n) <= Slot(s, m)
<1> DEFINE e == Message(MaxId + 1, 0)
           X == Item \cup {e}
<1>1. s \in Seq(X) /\ e \in X /\ Len(s) \in Nat
  BY SeqMonotonic, LenProperties DEF Window
<1>2. PICK t : t = Append(s, e)
  OBVIOUS
<1>3. Len(t) = Len(s) + 1 /\ t[Len(s) + 1] = e /\ \A i \in 1 .. Len(s) : t[i] = s[i]
  <2> HIDE DEF X, e
  <2> QED
    BY <1>1, <1>2, AppendProperties
<1>4. e.id = MaxId + 1 /\ MaxId \in Nat
  BY WindowAssumption DEF Message
<1> HIDE DEF e, X
<1>5. DOMAIN s = 1 .. Len(s) /\ \A i \in DOMAIN s : s[i].id \in Nat
  <2>1. \A i \in DOMAIN s : s[i] \in Item
    BY LenProperties, ElementOfSeq DEF Window
  <2> QED
    BY <2>1, LenProperties, WindowAssumption DEF Window, Item
<1>6. ASSUME NEW n \in Ids
      PROVE  /\ Slot(s, n) + 1 \in 1 .. Len(s) + 1 /\ t[Slot(s, n) + 1].id > n
             /\ \A i \in 1 .. Len(s) + 1 : t[i].id > n => Slot(s, n) + 1 <= i
  <2>1. PICK I : I = {i \in 1 .. Len(t) : t[i].id > n}
    OBVIOUS
  <2>2. I \in SUBSET Nat /\ I \in SUBSET (1 .. Len(s) + 1) /\ I # {}
    BY <1>1, <1>3, <1>4, <2>1 DEF Ids
  <2>3. Min(I) \in I /\ \A i \in I : Min(I) <= i
    BY <2>2, LeastOf
  <2>4. Slot(s, n) = Min(I) - 1
    BY <1>2, <2>1, <2>2 DEF Slot, SelectInSeq, e
  <2>5. Slot(s, n) + 1 = Min(I)
    <3>1. PICK a : a = Min(I)
      OBVIOUS
    <3>2. a \in Nat
      BY <2>2, <2>3, <3>1
    <3> QED
      BY <2>4, <3>1, <3>2
  <2> QED
    BY <1>3, <2>1, <2>2, <2>3, <2>5
<1>7. m \in Nat /\ m # 0
  BY WindowAssumption DEF Ids
<1>8. PICK j : j = Slot(s, m)
  OBVIOUS
<1>9. j + 1 \in 1 .. Len(s) + 1 /\ j \in Nat /\ j <= Len(s)
  <2>1. Slot(s, m) \in 0 .. Len(s)
    BY SlotFacts
  <2> QED
    BY <1>1, <1>8, <2>1
<1>10. Rank(s, j, m)
  <2> SUFFICES ASSUME NEW i \in DOMAIN s, s[i].id # 0
               PROVE  (i <= j => s[i].id < m) /\ (i > j => m < s[i].id)
    BY DEF Rank
  <2>1. s[i].id # m /\ s[i].id \in Nat /\ s[i].id > 0 /\ t[i] = s[i] /\ i \in 1 .. Len(s)
    BY <1>3, <1>5 DEF ItemIds
  <2>2. ASSUME i <= j PROVE s[i].id < m
    <3>1. ~ (j + 1 <= i)
      BY <1>9, <2>1, <2>2
    <3>2. ~ (t[i].id > m)
      BY <1>1, <1>6, <1>8, <2>1, <3>1
    <3> QED
      BY <1>7, <2>1, <3>2
  <2>3. ASSUME i > j PROVE m < s[i].id
    <3>1. t[j + 1].id > m
      BY <1>6, <1>8
    <3>2. CASE i = j + 1
      BY <2>1, <3>1, <3>2
    <3>3. CASE i # j + 1
      <4>1. j + 1 < i /\ j + 1 \in DOMAIN s
        BY <1>1, <1>5, <1>9, <2>1, <2>3, <3>3
      <4>2. s[j + 1].id > m /\ s[j + 1].id \in Nat
        BY <1>3, <1>5, <3>1, <4>1
      <4>3. j + 1 \in Positions(s) /\ i \in Positions(s)
        BY <1>7, <2>1, <4>1, <4>2 DEF Positions
      <4>4. s[j + 1].id < s[i].id
        BY <4>1, <4>3 DEF Sorted
      <4> QED
        BY <1>7, <2>1, <4>2, <4>4
    <3> QED
      BY <3>2, <3>3
  <2> QED
    BY <2>2, <2>3
<1>11. ASSUME NEW n \in Ids, n < m PROVE Slot(s, n) <= j
  <2>1. n \in Nat
    BY WindowAssumption DEF Ids
  <2>2. t[j + 1].id > m
    BY <1>6, <1>8
  <2>3. t[j + 1].id \in Nat
    BY <1>3, <1>4, <1>5, <1>9, <1>1
  <2>4. t[j + 1].id > n
    BY <1>7, <1>11, <2>1, <2>2, <2>3
  <2>5. Slot(s, n) + 1 <= j + 1
    BY <1>6, <1>9, <2>4
  <2>6. Slot(s, n) \in Nat
    BY SlotFacts
  <2> QED
    BY <1>9, <2>5, <2>6
<1> QED
  BY <1>8, <1>10, <1>11

LEMMA SortedReconcile ==
    ASSUME NEW s, Window(s), Sorted(s), NEW p, PageRight(p)
    PROVE  Sorted(Reconcile(s, p))
<1>1. PICK t : t = Reconcile(s, p)
  OBVIOUS
<1>2. DOMAIN t = DOMAIN s /\ \A i \in DOMAIN s : t[i].id = s[i].id
  BY <1>1, ReconcileFacts
<1>3. Positions(t) = Positions(s)
  BY <1>2 DEF Positions
<1>4. \A i \in Positions(s) : t[i].id = s[i].id
  BY <1>2 DEF Positions
<1> QED
  BY <1>1, <1>3, <1>4 DEF Sorted

\* Messages at their ranks among the items of a window, and in order among
\* themselves, leave it in order.
LEMMA PlacesSorted ==
    ASSUME NEW s, Window(s), Sorted(s), NEW p, PageRight(p),
           NEW P \in SUBSET ((0 .. Len(s)) \X (0 .. MaxId)),
           \A x \in P : x[2] = 0 => x[1] \in DOMAIN s,
           \A x \in P : x[2] # 0 => Rank(s, x[1], x[2]),
           \A x \in P : \A y \in P : x[2] # 0 /\ y[2] # 0 /\ x[1] < y[1] => x[2] < y[2]
    PROVE  Sorted(Arrange(P, Reconcile(s, p), p))
<1>1. Len(s) \in Nat /\ MaxId \in Nat /\ DOMAIN s = 1 .. Len(s)
  BY LenProperties, WindowAssumption DEF Window
<1>2. IsFiniteSet(P) /\ P \in SUBSET (Nat \X Nat)
  <2>1. IsFiniteSet(0 .. Len(s)) /\ IsFiniteSet(0 .. MaxId)
    BY <1>1, FS_Interval
  <2>2. IsFiniteSet((0 .. Len(s)) \X (0 .. MaxId))
    BY <2>1, FS_Product
  <2> QED
    BY <1>1, <2>2, FS_Subset
<1>3. PICK t : t = Reconcile(s, p)
  OBVIOUS
<1>4. DOMAIN t = DOMAIN s /\ \A i \in DOMAIN s : t[i].id = s[i].id
  BY <1>3, ReconcileFacts
<1>5. \A x \in P : IdOf(x, t) = IF x[2] = 0 THEN s[x[1]].id ELSE x[2]
  BY <1>4 DEF IdOf
<1>6. ASSUME NEW x \in P, NEW y \in P, Ahead(x, y), IdOf(x, t) > 0, IdOf(y, t) > 0
      PROVE  IdOf(x, t) < IdOf(y, t)
  <2>1. x[1] \in Nat /\ x[2] \in Nat /\ y[1] \in Nat /\ y[2] \in Nat
    BY <1>2
  <2>2. CASE x[2] = 0 /\ y[2] = 0
    <3>1. x[1] \in Positions(s) /\ y[1] \in Positions(s) /\ x[1] < y[1]
      BY <1>5, <1>6, <2>1, <2>2 DEF Positions, Ahead
    <3> QED
      BY <1>5, <2>2, <3>1 DEF Sorted
  <2>3. CASE x[2] = 0 /\ y[2] # 0
    <3>1. x[1] <= y[1] /\ x[1] \in DOMAIN s /\ s[x[1]].id # 0 /\ Rank(s, y[1], y[2])
      BY <1>5, <1>6, <2>1, <2>3 DEF Ahead
    <3> QED
      BY <1>5, <2>3, <3>1 DEF Rank
  <2>4. CASE x[2] # 0 /\ y[2] = 0
    <3>1. y[1] > x[1] /\ y[1] \in DOMAIN s /\ s[y[1]].id # 0 /\ Rank(s, x[1], x[2])
      BY <1>5, <1>6, <2>1, <2>4 DEF Ahead
    <3> QED
      BY <1>5, <2>4, <3>1 DEF Rank
  <2>5. CASE x[2] # 0 /\ y[2] # 0
    <3>1. x[1] < y[1] \/ x[2] < y[2]
      BY <1>6 DEF Ahead
    <3> QED
      BY <1>5, <2>5, <3>1
  <2> QED
    BY <2>2, <2>3, <2>4, <2>5
<1>7. Sorted(Arrange(P, t, p))
  BY <1>2, <1>6, SortedArrange
<1> QED
  BY <1>3, <1>7

LEMMA SortedMerge ==
    ASSUME NEW s, Window(s), Sorted(s), NEW p, PageRight(p), plan.cap \in Nat
    PROVE  Sorted(Merge(s, p))
<1>1. PICK newer : newer = {m \in Fresh(s, p) : m > LastID(s)}
  OBVIOUS
<1>2. PICK older : older = {m \in Fresh(s, p) \ newer : m < OldestID(s)}
  OBVIOUS
<1>3. PICK hole : hole = Fresh(s, p) \ (newer \cup older)
  OBVIOUS
<1>4. PICK P : P = (({0} \X older) \cup Kept(s) \cup ({Len(s)} \X newer)) \cup AtRank(s, hole)
  OBVIOUS
<1>5. /\ DOMAIN s = 1 .. Len(s) /\ Len(s) \in Nat
      /\ Fresh(s, p) \subseteq Ids \ ItemIds(s) /\ Ids \subseteq (0 .. MaxId) /\ 0 \notin Ids /\ 0 \in 0 .. MaxId
      /\ Ids \subseteq Nat /\ OldestID(s) \in Nat /\ LastID(s) \in Nat
      /\ \A i \in DOMAIN s : s[i].id \in Nat
  <2>1. \A i \in DOMAIN s : s[i] \in Item
    BY LenProperties, ElementOfSeq DEF Window
  <2>2. /\ Ids \subseteq (0 .. MaxId) /\ 0 \notin Ids /\ 0 \in 0 .. MaxId /\ Ids \subseteq Nat
        /\ \A m \in 0 .. MaxId : m \in Nat
    BY WindowAssumption DEF Ids
  <2>3. Fresh(s, p) \subseteq Ids \ ItemIds(s)
    BY DEF Fresh, PageRight
  <2>4. OldestID(s) \in Nat /\ LastID(s) \in Nat
    BY <2>2, IdsFacts
  <2>5. \A i \in DOMAIN s : s[i].id \in Nat
    BY <2>1, <2>2 DEF Item
  <2>6. DOMAIN s = 1 .. Len(s) /\ Len(s) \in Nat
    BY LenProperties DEF Window
  <2> QED
    BY <2>2, <2>3, <2>4, <2>5, <2>6
<1>6. \A m \in hole : Slot(s, m) \in 0 .. Len(s)
  BY <1>3, <1>5, SlotFacts
<1>7. \A x \in P : \/ x[1] = 0 /\ x[2] \in older /\ x = <<x[1], x[2]>>
                   \/ x[1] \in DOMAIN s /\ x[2] = 0 /\ x = <<x[1], x[2]>>
                   \/ x[1] = Len(s) /\ x[2] \in newer /\ x = <<x[1], x[2]>>
                   \/ x[2] \in hole /\ x[1] = Slot(s, x[2]) /\ x = <<x[1], x[2]>>
  BY <1>4 DEF Kept, AtRank
<1>8. P \in SUBSET ((0 .. Len(s)) \X (0 .. MaxId))
  <2> SUFFICES ASSUME NEW x \in P PROVE x \in (0 .. Len(s)) \X (0 .. MaxId)
    OBVIOUS
  <2>1. x = <<x[1], x[2]>> /\ x[1] \in 0 .. Len(s) /\ x[2] \in 0 .. MaxId
    BY <1>1, <1>2, <1>3, <1>5, <1>6, <1>7
  <2> QED
    BY <2>1
<1>9. \A x \in P : x[2] = 0 => x[1] \in DOMAIN s
  BY <1>1, <1>2, <1>3, <1>5, <1>7
<1>10. /\ \A i \in DOMAIN s : s[i].id # 0 => OldestID(s) <= s[i].id /\ s[i].id <= LastID(s)
       /\ OldestID(s) # 0 => OldestID(s) <= LastID(s)
  <2>1. \A i \in DOMAIN s : s[i].id # 0 => i \in Positions(s)
    BY <1>5 DEF Positions
  <2> QED
    BY <2>1, EndsFacts
<1>11. PICK o : o = OldestID(s)
  OBVIOUS
<1>12. PICK h : h = LastID(s)
  OBVIOUS
<1>13. o \in Nat /\ h \in Nat
  BY <1>5, <1>11, <1>12
<1>14. /\ \A m \in newer : m \in Nat /\ m # 0 /\ m > h
       /\ \A m \in older : m \in Nat /\ m # 0 /\ m < o /\ o <= h
       /\ \A m \in hole : m \in Nat /\ m # 0 /\ m >= o /\ m <= h
  <2>1. \A m \in Fresh(s, p) : m \in Nat /\ m # 0
    BY <1>5
  <2>2. \A m \in newer : m > h
    BY <1>1, <1>12
  <2>3. \A m \in older : m < o /\ o <= h
    BY <1>2, <1>10, <1>11, <1>12, <1>13, <2>1
  <2>4. \A m \in hole : m >= o /\ m <= h
    BY <1>1, <1>2, <1>3, <1>11, <1>12, <1>13, <2>1
  <2> QED
    BY <1>1, <1>2, <1>3, <2>1, <2>2, <2>3, <2>4
<1>15. \A i \in DOMAIN s : s[i].id # 0 => o <= s[i].id /\ s[i].id <= h
  BY <1>10, <1>11, <1>12
<1>16. \A x \in P : x[2] # 0 => Rank(s, x[1], x[2])
  <2>1. ASSUME NEW m \in older PROVE Rank(s, 0, m)
    <3> SUFFICES ASSUME NEW i \in DOMAIN s, s[i].id # 0 PROVE ~ (i <= 0) /\ m < s[i].id
      BY DEF Rank
    <3>1. m \in Nat /\ m < o /\ o <= s[i].id /\ s[i].id \in Nat /\ i \in 1 .. Len(s)
      BY <1>5, <1>14, <1>15
    <3> QED
      BY <1>5, <1>13, <3>1
  <2>2. ASSUME NEW m \in newer PROVE Rank(s, Len(s), m)
    <3> SUFFICES ASSUME NEW i \in DOMAIN s, s[i].id # 0 PROVE ~ (i > Len(s)) /\ s[i].id < m
      BY DEF Rank
    <3>1. m \in Nat /\ m > h /\ s[i].id <= h /\ s[i].id \in Nat /\ i \in 1 .. Len(s)
      BY <1>5, <1>14, <1>15
    <3> QED
      BY <1>5, <1>13, <3>1
  <2>3. \A m \in hole : Rank(s, Slot(s, m), m)
    BY <1>3, <1>5, SlotRank
  <2> QED
    BY <1>7, <2>1, <2>2, <2>3
<1>17. ASSUME NEW x \in P, NEW y \in P, x[2] # 0, y[2] # 0, x[1] < y[1]
       PROVE  x[2] < y[2]
  <2>0. /\ x[1] \in 0 .. Len(s) /\ y[1] \in 0 .. Len(s)
        /\ x[2] \in older \cup newer \cup hole /\ y[2] \in older \cup newer \cup hole
        /\ x[2] \in older => x[1] = 0
        /\ y[2] \in older => y[1] = 0
        /\ x[2] \in newer => x[1] = Len(s)
        /\ y[2] \in newer => y[1] = Len(s)
        /\ x[2] \in hole => x[1] = Slot(s, x[2])
        /\ y[2] \in hole => y[1] = Slot(s, y[2])
    BY <1>1, <1>2, <1>3, <1>5, <1>6, <1>7, <1>17
  <2>1. y[2] \notin older /\ x[2] \notin newer
    BY <1>5, <1>17, <2>0
  <2>2. CASE x[2] \in older
    <3>1. x[2] \in Nat /\ x[2] < o /\ o <= h
      BY <1>14, <2>2
    <3>2. y[2] \in Nat /\ y[2] >= o
      BY <1>13, <1>14, <2>0, <2>1, <3>1
    <3> QED
      BY <1>13, <3>1, <3>2
  <2>3. CASE x[2] \in hole /\ y[2] \in newer
    <3>1. x[2] \in Nat /\ x[2] <= h /\ y[2] \in Nat /\ y[2] > h
      BY <1>14, <2>3
    <3> QED
      BY <1>13, <3>1
  <2>4. CASE x[2] \in hole /\ y[2] \in hole
    <3>0. x[2] # y[2]
      <4>1. x[2] = y[2] => x[1] = y[1]
        BY <2>0, <2>4
      <4> QED
        BY <1>5, <1>17, <2>0, <4>1
    <3>1. /\ x[2] \in Ids \ ItemIds(s) /\ y[2] \in Ids \ ItemIds(s)
          /\ x[2] \in Nat /\ y[2] \in Nat /\ x[2] # y[2]
      <4>1. hole \subseteq Ids \ ItemIds(s) /\ Ids \subseteq Nat
        BY <1>3, <1>5
      <4> QED
        BY <2>4, <3>0, <4>1
    <3>2. y[2] < x[2] => Slot(s, y[2]) <= Slot(s, x[2])
      BY <3>1, SlotRank
    <3>3. Slot(s, x[2]) < Slot(s, y[2]) /\ Slot(s, x[2]) \in Nat /\ Slot(s, y[2]) \in Nat
      BY <1>5, <1>6, <1>17, <2>0, <2>4
    <3> QED
      BY <3>1, <3>2, <3>3
  <2> QED
    BY <2>0, <2>1, <2>2, <2>3, <2>4
<1>18. PICK t : t = Arrange(P, Reconcile(s, p), p)
  OBVIOUS
<1>19. Sorted(t)
  BY <1>8, <1>9, <1>16, <1>17, <1>18, PlacesSorted
<1>20. Window(t)
  <2>1. \A x \in P : x[2] # 0 => x[2] \in Fresh(s, p)
    BY <1>1, <1>2, <1>3, <1>7
  <2>2. \A x \in P : \A y \in P : x[2] = y[2] /\ x[2] # 0 => x = y
    <3> SUFFICES ASSUME NEW x \in P, NEW y \in P, x[2] = y[2], x[2] # 0 PROVE x = y
      OBVIOUS
    <3>1. x[1] = y[1]
      <4>1. ~ (x[1] < y[1]) /\ ~ (y[1] < x[1])
        <5>1. x[2] \in Nat /\ y[2] \in Nat
          BY <1>8, <1>5
        <5> QED
          BY <1>17, <5>1
      <4> QED
        BY <1>8, <1>5, <4>1
    <3> QED
      BY <3>1, <1>7
  <2> QED
    BY <1>8, <1>9, <1>18, <2>1, <2>2, PlacesFacts
<1>21. Window(DropFilledGaps(t)) /\ Sorted(DropFilledGaps(t))
  BY <1>19, <1>20, DropFacts, SortedDrop
<1>22. Sorted(Trim(DropFilledGaps(t)))
  BY <1>21, SortedTrim
<1> QED
  BY <1>1, <1>2, <1>3, <1>4, <1>18, <1>22 DEF Merge

LEMMA SortedMergeAround ==
    ASSUME NEW s, Window(s), Sorted(s), NEW p, PageRight(p)
    PROVE  Sorted(MergeAround(s, p))
<1>1. PICK F : F = Fresh(s, p)
  OBVIOUS
<1>2. PICK P : P = Kept(s) \cup AtRank(s, F)
  OBVIOUS
<1>3. PICK ranked : ranked = Arrange(P, Reconcile(s, p), p)
  OBVIOUS
<1>4. /\ F \subseteq p.ids /\ F \subseteq Ids \ ItemIds(s) /\ p.ids \subseteq Ids
      /\ Ids \subseteq (0 .. MaxId) /\ Ids \subseteq Nat /\ 0 \notin Ids /\ 0 \in 0 .. MaxId
  BY <1>1, WindowAssumption DEF Fresh, PageRight, Ids
<1>5. \A x \in P : \/ x[1] \in DOMAIN s /\ x[2] = 0 /\ x = <<x[1], x[2]>>
                   \/ x[2] \in F /\ x[1] = Slot(s, x[2]) /\ x = <<x[1], x[2]>>
  BY <1>2 DEF Kept, AtRank
<1>6. /\ DOMAIN s = 1 .. Len(s) /\ Len(s) \in Nat
      /\ \A m \in F : Slot(s, m) \in 0 .. Len(s)
  BY <1>4, SlotFacts, LenProperties DEF Window
<1>7. P \in SUBSET ((0 .. Len(s)) \X (0 .. MaxId))
  <2> SUFFICES ASSUME NEW x \in P PROVE x \in (0 .. Len(s)) \X (0 .. MaxId)
    OBVIOUS
  <2>1. x = <<x[1], x[2]>> /\ x[1] \in 0 .. Len(s) /\ x[2] \in 0 .. MaxId
    BY <1>4, <1>5, <1>6
  <2> QED
    BY <2>1
<1>8. /\ \A x \in P : x[2] = 0 => x[1] \in DOMAIN s
      /\ \A x \in P : x[2] # 0 => x[2] \in F
  BY <1>4, <1>5
<1>9. \A x \in P : x[2] # 0 => Rank(s, x[1], x[2])
  <2>1. \A m \in F : Rank(s, Slot(s, m), m)
    BY <1>4, SlotRank
  <2> QED
    BY <1>5, <2>1
<1>10. ASSUME NEW x \in P, NEW y \in P, x[2] # 0, y[2] # 0, x[1] < y[1]
       PROVE  x[2] < y[2]
  <2>1. x[2] \in F /\ y[2] \in F /\ x[1] = Slot(s, x[2]) /\ y[1] = Slot(s, y[2])
    BY <1>5, <1>10
  <2>2. x[1] \in Nat /\ y[1] \in Nat /\ x[2] \in Nat /\ y[2] \in Nat
    <3>1. x[2] \in Nat /\ y[2] \in Nat
      BY <1>4, <2>1
    <3>2. x[1] \in 0 .. Len(s) /\ y[1] \in 0 .. Len(s)
      BY <1>7
    <3> QED
      BY <1>6, <3>1, <3>2
  <2>3. x[2] # y[2]
    BY <1>10, <2>1, <2>2
  <2>4. y[2] < x[2] => y[1] <= x[1]
    BY <1>4, <2>1, SlotRank
  <2> QED
    BY <1>10, <2>2, <2>3, <2>4
<1>11. Sorted(ranked)
  BY <1>3, <1>7, <1>8, <1>9, <1>10, PlacesSorted
<1>12. Window(ranked)
  <2>1. \A x \in P : \A y \in P : x[2] = y[2] /\ x[2] # 0 => x = y
    BY <1>4, <1>5
  <2> QED
    BY <1>1, <1>3, <1>7, <1>8, <2>1, PlacesFacts
<1>13. PICK lo : lo = Min(ItemIds(s))
  OBVIOUS
<1>14. PICK hi : hi = Max(ItemIds(s))
  OBVIOUS
<1>15. ItemIds(s) # {} => lo \in 0 .. MaxId /\ hi \in 0 .. MaxId
  <2>1. ItemIds(s) \in SUBSET Nat /\ ItemIds(s) \in SUBSET (0 .. MaxId) /\ MaxId \in Nat
    BY <1>4, IdsFacts, WindowAssumption
  <2> QED
    BY <2>1, <1>13, <1>14, LeastOf, MostOf
<1>16. F # {} => Min(p.ids) \in 0 .. MaxId /\ Max(p.ids) \in 0 .. MaxId
  <2>1. p.ids \in SUBSET Nat /\ p.ids \in SUBSET (0 .. MaxId) /\ MaxId \in Nat /\ (F # {} => p.ids # {})
    BY <1>4, WindowAssumption
  <2> QED
    BY <2>1, LeastOf, MostOf
<1>17. PICK marked : marked = IF ItemIds(s) = {} THEN ranked
                              ELSE IF Min(p.ids) > hi THEN MarkGap(ranked, hi, Min(p.ids))
                              ELSE IF Max(p.ids) < lo THEN MarkGap(ranked, Max(p.ids), lo)
                              ELSE ranked
  OBVIOUS
<1>18. F # {} => Window(marked) /\ Sorted(marked)
  <2> SUFFICES ASSUME F # {} PROVE Window(marked) /\ Sorted(marked)
    OBVIOUS
  <2>1. CASE marked = ranked
    BY <1>11, <1>12, <2>1
  <2>2. CASE ItemIds(s) # {} /\ marked = MarkGap(ranked, hi, Min(p.ids))
    BY <1>11, <1>12, <1>15, <1>16, <2>2, MarkFacts
  <2>3. CASE ItemIds(s) # {} /\ marked = MarkGap(ranked, Max(p.ids), lo)
    BY <1>11, <1>12, <1>15, <1>16, <2>3, MarkFacts
  <2> QED
    BY <1>17, <2>1, <2>2, <2>3
<1>19. MergeAround(s, p) = IF F = {} THEN Reconcile(s, p) ELSE DropFilledGaps(marked)
  BY <1>1, <1>2, <1>3, <1>13, <1>14, <1>17 DEF MergeAround
<1> QED
  BY <1>18, <1>19, SortedReconcile, SortedDrop

\* The ids a merge may bring.
LEMMA FromIds ==
    ASSUME NEW s, Window(s), NEW p, PageRight(p), NEW t, From(t, Reconcile(s, p), Fresh(s, p), p)
    PROVE  \A i \in DOMAIN t : t[i].id = 0 \/ t[i].id \in p.ids \/ \E j \in DOMAIN s : t[i].id = s[j].id
<1>1. PICK r : r = Reconcile(s, p)
  OBVIOUS
<1>2. DOMAIN r = DOMAIN s /\ \A i \in DOMAIN s : r[i].id = s[i].id
  BY <1>1, ReconcileFacts
<1>3. \A m \in Fresh(s, p) : m \in p.ids /\ Message(m, p.ver[m]).id = m
  BY DEF Fresh, Message
<1> QED
  BY <1>1, <1>2, <1>3 DEF From, Blank

\* A live message at the tail.
LEMMA SortedUpsert ==
    ASSUME NEW s, Window(s), Sorted(s), NEW it \in Item, plan.cap \in Nat,
           \A i \in DOMAIN s : s[i].id < it.id
    PROVE  Sorted(Upsert(s, it))
<1>1. it.id \notin ItemIds(s)
  <2>1. it.id \in Nat
    BY WindowAssumption DEF Item
  <2> QED
    BY <2>1 DEF ItemIds
<1>2. PICK u : u = Append(s, it)
  OBVIOUS
<1>3. /\ u \in Seq(Item) /\ Len(u) = Len(s) + 1 /\ u[Len(s) + 1] = it
      /\ \A i \in 1 .. Len(s) : u[i] = s[i]
  BY <1>2, AppendProperties DEF Window
<1>4. DOMAIN s = 1 .. Len(s) /\ DOMAIN u = 1 .. Len(s) + 1 /\ Len(s) \in Nat
  BY <1>3, LenProperties DEF Window
<1>5. \A i \in DOMAIN u : (i = Len(s) + 1 /\ u[i] = it) \/ (i \in DOMAIN s /\ u[i] = s[i])
  BY <1>3, <1>4
<1>6. Sorted(u)
  <2> SUFFICES ASSUME NEW i \in Positions(u), NEW j \in Positions(u), i < j PROVE u[i].id < u[j].id
    BY DEF Sorted
  <2>1. i \in DOMAIN s /\ u[i] = s[i] /\ s[i].id > 0
    BY <1>4, <1>5 DEF Positions
  <2>2. CASE j \in DOMAIN s /\ u[j] = s[j]
    BY <2>1, <2>2 DEF Sorted, Positions
  <2>3. CASE u[j] = it
    BY <2>1, <2>3
  <2> QED
    BY <1>5, <2>2, <2>3 DEF Positions
<1>7. Window(u)
  <2>1. \A i \in DOMAIN s : s[i].id # it.id
    <3>1. it.id \in Nat
      BY WindowAssumption DEF Item
    <3> QED
      BY <3>1
  <2>2. Single(u)
    BY <1>5, <2>1 DEF Window, Single
  <2> QED
    BY <1>3, <2>2 DEF Window
<1>8. Upsert(s, it) = Trim(u)
  BY <1>1, <1>2 DEF Upsert
<1> QED
  BY <1>6, <1>7, <1>8, SortedTrim

LEMMA BringsFacts ==
    ASSUME WindowInv, NEW k \in DOMAIN queue
    PROVE  /\ Brings(queue[k]) \subseteq Nat
           /\ queue[k].kind = "new" => queue[k].id \in Nat /\ queue[k].id # 0 /\ queue[k].id \in Brings(queue[k])
           /\ queue[k].kind = "page" => Brings(queue[k]) = queue[k].page.ids
<1>1. queue[k] \in EventSet /\ queue[k].id \in Nat
  <2>1. queue[k] \in EventSet
    BY QueueFacts DEF WindowInv, Typed
  <2> QED
    BY <2>1, WindowAssumption DEF EventSet
<1>2. queue[k].kind = "page" => queue[k].page.ids \subseteq Nat
  BY WindowAssumption DEF WindowInv, PastRight, EventRight, Page, Ids
<1>3. queue[k].kind = "new" => queue[k].id # 0
  BY DEF WindowInv, PastRight, EventRight
<1> QED
  BY <1>1, <1>2, <1>3 DEF Brings

LEMMA OrderSame ==
    ASSUME WindowInv, Order, UNCHANGED <<items, pages, queue, sending>>, top' \in Nat, top <= top'
    PROVE  Order'
<1>1. top \in Nat
  BY TypedFacts DEF WindowInv
<1>2. \A i \in DOMAIN items : items[i].id \in Nat
  <2>1. \A i \in DOMAIN items : items[i] \in Item
    BY LenProperties, ElementOfSeq DEF WindowInv, Typed, Window
  <2> QED
    BY <2>1, WindowAssumption DEF Item
<1>3. \A i \in DOMAIN items : items[i].id <= top'
  BY <1>1, <1>2 DEF Order
<1>4. \A p \in pages : \A m \in p.ids : m <= top'
  <2>1. \A p \in pages : \A m \in p.ids : m \in Nat
    BY WindowAssumption DEF WindowInv, Typed, Page, Ids
  <2> QED
    BY <1>1, <2>1 DEF Order
<1>5. \A k \in DOMAIN queue : \A m \in Brings(queue[k]) : m <= top'
  BY <1>1, BringsFacts DEF Order
<1> QED
  BY <1>3, <1>4, <1>5 DEF Order

LEMMA OrderAppend ==
    ASSUME WindowInv, Order, UNCHANGED <<items, sending>>, pages' \subseteq pages,
           top' \in Nat, top <= top', NEW e \in EventSet, queue' = Append(queue, e),
           e.kind # "receipt", \A m \in Brings(e) : m <= top',
           e.kind = "new" => top < e.id /\ e.id \in Nat
    PROVE  Order'
<1>1. top \in Nat /\ queue \in Seq(EventSet) /\ Len(queue) \in Nat /\ DOMAIN queue = 1 .. Len(queue)
  BY TypedFacts, QueueFacts DEF WindowInv, Typed
<1>2. /\ queue' \in Seq(EventSet) /\ Len(queue') = Len(queue) + 1 /\ queue'[Len(queue) + 1] = e
      /\ \A k \in 1 .. Len(queue) : queue'[k] = queue[k]
  BY <1>1, AppendProperties
<1>3. DOMAIN queue' = 1 .. Len(queue) + 1
  BY <1>2, LenProperties
<1>4. \A k \in DOMAIN queue' : (k \in DOMAIN queue /\ queue'[k] = queue[k]) \/ (k = Len(queue) + 1 /\ queue'[k] = e)
  BY <1>1, <1>2, <1>3
<1>5. \A i \in DOMAIN items : items[i].id \in Nat
  <2>1. \A i \in DOMAIN items : items[i] \in Item
    BY LenProperties, ElementOfSeq DEF WindowInv, Typed, Window
  <2> QED
    BY <2>1, WindowAssumption DEF Item
<1>6. \A i \in DOMAIN items : items[i].id <= top'
  BY <1>1, <1>5 DEF Order
<1>7. \A p \in pages' : \A m \in p.ids : m <= top'
  <2>1. \A p \in pages : \A m \in p.ids : m \in Nat
    BY WindowAssumption DEF WindowInv, Typed, Page, Ids
  <2> QED
    BY <1>1, <2>1 DEF Order
<1>8. \A k \in DOMAIN queue' : queue'[k].kind # "receipt" /\ \A m \in Brings(queue'[k]) : m <= top'
  BY <1>1, <1>4, BringsFacts DEF Order
<1>9. ASSUME NEW k \in DOMAIN queue', queue'[k].kind = "new"
      PROVE  /\ \A i \in DOMAIN items : items[i].id < queue'[k].id
             /\ \A l \in DOMAIN queue' : l < k => \A m \in Brings(queue'[l]) : m < queue'[k].id
  <2>1. CASE k \in DOMAIN queue
    <3>1. \A l \in DOMAIN queue' : l < k => l \in DOMAIN queue /\ queue'[l] = queue[l]
      BY <1>1, <1>2, <1>3, <2>1
    <3> QED
      BY <1>2, <1>1, <1>9, <2>1, <3>1 DEF Order
  <2>2. CASE k = Len(queue) + 1 /\ queue'[k] = e
    <3>1. top < e.id /\ e.id \in Nat
      BY <1>9, <2>2
    <3>2. \A i \in DOMAIN items : items[i].id < e.id
      BY <1>1, <1>5, <3>1 DEF Order
    <3>3. \A l \in DOMAIN queue' : l < k => l \in DOMAIN queue /\ queue'[l] = queue[l]
      BY <1>1, <1>2, <1>3, <2>2
    <3>4. \A l \in DOMAIN queue : \A m \in Brings(queue[l]) : m < e.id
      BY <1>1, <3>1, BringsFacts DEF Order
    <3> QED
      BY <2>2, <3>2, <3>3, <3>4
  <2> QED
    BY <1>4, <2>1, <2>2
<1> QED
  BY <1>6, <1>7, <1>8, <1>9 DEF Order

LEMMA OrderDispatch ==
    ASSUME WindowInv, Order, Dispatches, Sorted(items'),
           \A i \in DOMAIN items' : \/ items'[i].id = 0 \/ items'[i].id \in Brings(Head(queue))
                                    \/ \E j \in DOMAIN items : items'[i].id = items[j].id
    PROVE  Order'
<1>1. /\ 1 \in DOMAIN queue /\ Head(queue) = queue[1] /\ DOMAIN queue' \subseteq Nat
      /\ \A k \in DOMAIN queue' : k + 1 \in DOMAIN queue \ {1} /\ queue'[k] = queue[k + 1]
  BY TailQueue DEF WindowInv, Typed, Dispatches
<1>2. UNCHANGED <<pages, sending, top>> /\ top \in Nat
  BY TypedFacts DEF Dispatches, server, WindowInv
<1>3. \A i \in DOMAIN items' : items'[i].id <= top
  <2>1. 0 <= top
    BY <1>2
  <2> QED
    BY <1>1, <2>1 DEF Order
<1>4. \A k \in DOMAIN queue' : queue'[k].kind # "receipt" /\ \A m \in Brings(queue'[k]) : m <= top
  BY <1>1 DEF Order
<1>5. ASSUME NEW k \in DOMAIN queue', queue'[k].kind = "new"
      PROVE  /\ \A i \in DOMAIN items' : items'[i].id < queue'[k].id
             /\ \A l \in DOMAIN queue' : l < k => \A m \in Brings(queue'[l]) : m < queue'[k].id
  <2>1. PICK a \in DOMAIN queue : a = k + 1 /\ queue'[k] = queue[a]
    BY <1>1
  <2>2. queue[a].kind = "new" /\ queue[a].id \in Nat /\ queue[a].id # 0 /\ 1 < a
    BY <1>1, <1>5, <2>1, BringsFacts
  <2>3. \A m \in Brings(queue[1]) : m < queue[a].id
    BY <1>1, <2>2 DEF Order
  <2>4. \A i \in DOMAIN items : items[i].id < queue[a].id
    BY <2>2 DEF Order
  <2>5. 0 < queue[a].id
    BY <2>2
  <2>6. \A i \in DOMAIN items' : items'[i].id < queue[a].id
    BY <1>1, <2>3, <2>4, <2>5
  <2>7. ASSUME NEW l \in DOMAIN queue', l < k PROVE \A m \in Brings(queue'[l]) : m < queue[a].id
    <3>1. PICK b \in DOMAIN queue : b = l + 1 /\ queue'[l] = queue[b]
      BY <1>1
    <3>2. b < a
      BY <1>1, <2>1, <2>7, <3>1
    <3> QED
      BY <2>2, <3>1, <3>2 DEF Order
  <2> QED
    BY <2>1, <2>6, <2>7
<1> QED
  BY <1>2, <1>3, <1>4, <1>5 DEF Order

\* The same messages in the same places.
LEMMA SortedSame ==
    ASSUME NEW s, Sorted(s), NEW t, DOMAIN t = DOMAIN s, \A i \in DOMAIN s : t[i].id = s[i].id
    PROVE  Sorted(t)
  BY DEF Sorted, Positions

LEMMA OrderReads == ASSUME WindowInv, Order, NEW r \in requests, ReadsServer(r) PROVE Order'
<1>1. UNCHANGED <<items, queue, sending, top>>
  BY DEF ReadsServer, window, server
<1>2. \A p \in pages' : p \in pages \/ \A m \in p.ids : m \in Exists
  <2>1. PICK F : F = Found(r)
    OBVIOUS
  <2>2. F \subseteq Exists
    BY <2>1 DEF Found, Newest
  <2>3. \A p \in pages' : p \in pages \/ p.ids = {} \/ p.ids = F
    BY <2>1 DEF ReadsServer
  <2> QED
    BY <2>2, <2>3
<1>3. \A m \in Exists : m <= top
  BY TypedFacts DEF WindowInv, Exists
<1> QED
  BY <1>1, <1>2, <1>3 DEF Order

LEMMA OrderPosts == ASSUME WindowInv, Order, NEW p \in pages, PostsPage(p) PROVE Order'
<1>1. UNCHANGED <<items, sending, top>> /\ pages' \subseteq pages /\ top \in Nat
  BY TypedFacts DEF PostsPage, window, server, WindowInv
<1>2. PICK e : e = [Event("page", 0, 0) EXCEPT !.page = p]
  OBVIOUS
<1>3. e \in EventSet /\ e.kind = "page" /\ e.page = p
  <2>1. Event("page", 0, 0) \in EventSet /\ Event("page", 0, 0).kind = "page"
    BY TypedFacts, EventFacts DEF WindowInv, EventKinds
  <2>2. p \in Page
    BY DEF WindowInv, Typed
  <2> QED
    BY <1>2, <2>1, <2>2 DEF EventSet
<1>4. queue' = Append(queue, e)
  BY <1>2 DEF PostsPage
<1>5. \A m \in Brings(e) : m <= top
  BY <1>3 DEF Brings, Order
<1> QED
  BY <1>1, <1>3, <1>4, <1>5, OrderAppend

LEMMA OrderWrite == ASSUME WindowInv, Order, OthersWrite PROVE Order'
<1>1. UNCHANGED <<items, pages, sending>> /\ top' = top + 1 /\ top < plan.last
  BY DEF OthersWrite, window
<1>2. top \in Nat /\ top' \in Nat /\ top <= top' /\ top + 1 \in 0 .. MaxId
  BY <1>1, TypedFacts DEF WindowInv
<1>3. PICK e : e = Event("new", top + 1, 0)
  OBVIOUS
<1>4. e \in EventSet /\ e.kind = "new" /\ e.id = top + 1
  BY <1>2, <1>3, EventFacts DEF EventKinds
<1>5. queue' = Append(queue, e) \/ queue' = queue
  BY <1>3 DEF OthersWrite, Pushes
<1>6. CASE queue' = queue
  BY <1>1, <1>2, <1>6, OrderSame
<1>7. CASE queue' = Append(queue, e)
  <2>1. (\A m \in Brings(e) : m <= top') /\ top < e.id /\ e.id \in Nat
    BY <1>1, <1>2, <1>4 DEF Brings
  <2> QED
    BY <1>1, <1>2, <1>4, <1>7, <2>1, OrderAppend
<1> QED
  BY <1>5, <1>6, <1>7

LEMMA OrderEdit == ASSUME WindowInv, Order, NEW m \in Ids, OthersEdit(m) PROVE Order'
<1>1. UNCHANGED <<items, pages, sending, top>> /\ top \in Nat
  BY TypedFacts DEF OthersEdit, window, WindowInv
<1>2. PICK e : e = Event("edit", m, version[m] + 1)
  OBVIOUS
<1>3. e \in EventSet /\ e.kind = "edit"
  <2>1. version[m] + 1 \in Nat /\ m \in 0 .. MaxId
    BY TypedFacts DEF WindowInv, Typed
  <2> QED
    BY <1>2, <2>1, EventFacts DEF EventKinds
<1>4. queue' = Append(queue, e) \/ queue' = queue
  BY <1>2 DEF OthersEdit, Pushes
<1>5. CASE queue' = queue
  BY <1>1, <1>5, OrderSame
<1>6. CASE queue' = Append(queue, e)
  <2>1. Brings(e) = {}
    BY <1>3 DEF Brings
  <2> QED
    BY <1>1, <1>3, <1>6, <2>1, OrderAppend
<1> QED
  BY <1>4, <1>5, <1>6

LEMMA OrderGateway == ASSUME WindowInv, Order, GatewayDrops \/ GatewayConnects \/ Started PROVE Order'
<1>1. UNCHANGED <<items, pages, sending, top>> /\ top \in Nat
  BY TypedFacts DEF GatewayDrops, GatewayConnects, Started, window, server, WindowInv
<1>2. PICK e, f : e = Event("connected", 0, 0) /\ f = Event("disconnected", 0, 0)
  OBVIOUS
<1>3. /\ e \in EventSet /\ e.kind = "connected" /\ f \in EventSet /\ f.kind = "disconnected"
      /\ Brings(e) = {} /\ Brings(f) = {}
  BY <1>2, TypedFacts, EventFacts DEF WindowInv, EventKinds, Brings
<1>4. queue' = queue \/ queue' = Append(queue, e) \/ queue' = Append(queue, f)
  BY <1>2 DEF GatewayDrops, GatewayConnects, Started
<1>5. CASE queue' = queue
  BY <1>1, <1>5, OrderSame
<1>6. CASE queue' = Append(queue, e)
  BY <1>1, <1>3, <1>6, OrderAppend
<1>7. CASE queue' = Append(queue, f)
  BY <1>1, <1>3, <1>7, OrderAppend
<1> QED
  BY <1>4, <1>5, <1>6, <1>7

LEMMA OrderStopped == ASSUME WindowInv, Order, Stopped PROVE Order'
<1>1. pages' = {} /\ queue' = << >> /\ sending' = "no" /\ top' = top
  BY DEF Stopped, server, Order
<1>2. DOMAIN items' = DOMAIN items /\ \A i \in DOMAIN items : items'[i].id = items[i].id
  <2>1. \A i \in DOMAIN items : items[i] \in Item
    BY LenProperties, ElementOfSeq DEF WindowInv, Typed, Window
  <2> QED
    BY <2>1 DEF Stopped, Item
<1>3. Sorted(items') /\ \A i \in DOMAIN items' : items'[i].id <= top
  BY <1>2, SortedSame DEF Order
<1>4. DOMAIN queue' = {}
  BY <1>1
<1> QED
  BY <1>1, <1>3, <1>4 DEF Order

LEMMA OrderNew ==
    ASSUME WindowInv, Order, Dispatches, Head(queue).kind = "new", OnNew(Head(queue))
    PROVE  Order'
<1>1. PICK e : e = Head(queue)
  OBVIOUS
<1>2. e.id \in 0 .. MaxId /\ e.id # 0 /\ e.ver = 0 /\ 1 \in DOMAIN queue /\ e = queue[1]
  BY <1>1, HeadFacts DEF EventRight
<1>3. PICK it : it = [Message(e.id, e.ver) EXCEPT !.newer = InFlight]
  OBVIOUS
<1>4. it \in Item /\ it.id = e.id
  <2>1. InFlight \in SUBSET Tags
    BY InFlightFacts DEF WindowInv
  <2>2. Message(e.id, e.ver) \in Item /\ Message(e.id, e.ver).id = e.id
    BY <1>2, TypedFacts, MessageItem DEF WindowInv
  <2> QED
    BY <1>3, <2>1, <2>2 DEF Item
<1>5. Window(items) /\ plan.cap \in Nat
  BY TypedFacts DEF WindowInv, Typed
<1>6. items' = Upsert(items, it)
  BY <1>1, <1>3 DEF OnNew
<1>7. \A i \in DOMAIN items' : items'[i] = it \/ \E j \in DOMAIN items : items'[i] = items[j]
  BY <1>2, <1>4, <1>5, <1>6, UpsertFacts
<1>8. Sorted(items')
  <2>1. \A i \in DOMAIN items : items[i].id < it.id
    BY <1>1, <1>2, <1>4 DEF Order
  <2> QED
    BY <1>4, <1>5, <1>6, <2>1, SortedUpsert DEF Order
<1>9. it.id \in Brings(Head(queue))
  BY <1>1, <1>4 DEF Brings
<1>10. \A i \in DOMAIN items' : \/ items'[i].id = 0 \/ items'[i].id \in Brings(Head(queue))
                                \/ \E j \in DOMAIN items : items'[i].id = items[j].id
  BY <1>7, <1>9
<1> QED
  BY <1>8, <1>10, OrderDispatch

LEMMA OrderPage ==
    ASSUME WindowInv, Order, Dispatches, Head(queue).kind = "page", NEW p, p = Head(queue).page,
           IF p.kind = "since" /\ p.err THEN OnSyncError(p) ELSE OnPage(p)
    PROVE  Order'
<1>1. p \in Page /\ PageRight(p) /\ Brings(Head(queue)) = p.ids
  BY HeadFacts DEF EventRight, Page, PageRight, Brings
<1>2. PICK s : s = IF p.kind = "around" THEN MergeAround(items, p) ELSE Merge(items, p)
  OBVIOUS
<1>3. Window(items) /\ Sorted(items) /\ plan.cap \in Nat
  BY TypedFacts DEF WindowInv, Typed, Order
<1>4. Window(s) /\ From(s, Reconcile(items, p), Fresh(items, p), p)
  BY <1>1, <1>2, PageMerge
<1>5. Sorted(s)
  BY <1>1, <1>2, <1>3, SortedMerge, SortedMergeAround
<1>6. \A i \in DOMAIN s : s[i].id = 0 \/ s[i].id \in p.ids \/ \E j \in DOMAIN items : s[i].id = items[j].id
  BY <1>1, <1>3, <1>4, FromIds
<1>7. PICK t \in {items, s} : items' = Forget(t, p.tag)
  BY <1>2 DEF OnSyncError, OnPage
<1>8. /\ Window(t) /\ Sorted(t)
      /\ \A i \in DOMAIN t : t[i].id = 0 \/ t[i].id \in p.ids \/ \E j \in DOMAIN items : t[i].id = items[j].id
  BY <1>3, <1>4, <1>5, <1>6, <1>7
<1>9. PICK u : u = Forget(t, p.tag)
  OBVIOUS
<1>10. DOMAIN u = DOMAIN t /\ \A i \in DOMAIN t : u[i].id = t[i].id
  BY <1>8, <1>9, ForgetFacts
<1>11. Sorted(u)
  BY <1>8, <1>10, SortedSame
<1> QED
  BY <1>1, <1>7, <1>8, <1>9, <1>10, <1>11, OrderDispatch

\* Events that bring nothing new, and keep each item with its message.
LEMMA OrderKept ==
    ASSUME WindowInv, Order, Dispatches, DOMAIN items' = DOMAIN items,
           \A i \in DOMAIN items : items'[i].id = items[i].id
    PROVE  Order'
<1>1. Sorted(items')
  BY SortedSame DEF Order
<1> QED
  BY <1>1, OrderDispatch

LEMMA OrderEdited ==
    ASSUME WindowInv, Order, Dispatches, Head(queue).kind = "edit", OnEdit(Head(queue))
    PROVE  Order'
<1>1. PICK e : e = Head(queue)
  OBVIOUS
<1>2. PICK t : t = [i \in DOMAIN items |-> IF items[i].id = e.id
                       THEN [items[i] EXCEPT !.ver = e.ver, !.newer = InFlight] ELSE items[i]]
  OBVIOUS
<1>3. items' = t /\ t = [i \in DOMAIN items |-> t[i]]
  BY <1>1, <1>2 DEF OnEdit
<1>4. \A i \in DOMAIN items : items[i] \in Item
  BY LenProperties, ElementOfSeq DEF WindowInv, Typed, Window
<1>5. ASSUME NEW i \in DOMAIN items PROVE t[i].id = items[i].id
  <2>1. items[i] \in Item
    BY <1>4
  <2>2. e.id \in 0 .. MaxId /\ e.ver \in Nat
    BY <1>1, HeadFacts
  <2>3. InFlight \in SUBSET Tags
    BY InFlightFacts DEF WindowInv
  <2> QED
    BY <1>2, <2>1, <2>2, <2>3 DEF Item
<1>6. DOMAIN items' = DOMAIN items /\ \A i \in DOMAIN items : items'[i].id = items[i].id
  BY <1>3, <1>5
<1> QED
  BY <1>6, OrderKept

LEMMA OrderStep == ASSUME WindowInv, Order, Dispatch PROVE Order'
<1>1. Dispatches
  BY DEF Dispatch, Dispatches
<1>2. PICK e : e = Head(queue)
  OBVIOUS
<1>3. CASE e.kind = "new" /\ OnNew(e)
  BY <1>1, <1>2, <1>3, OrderNew
<1>4. CASE e.kind = "edit" /\ OnEdit(e)
  BY <1>1, <1>2, <1>4, OrderEdited
<1>5. CASE e.kind = "receipt" /\ OnReceipt(e)
  BY <1>1, <1>2, <1>5, HeadFacts DEF Order
<1>6. CASE UNCHANGED items
  BY <1>1, <1>6, OrderKept
<1>7. CASE e.kind = "page" /\ IF e.page.kind = "since" /\ e.page.err
                              THEN OnSyncError(e.page) ELSE OnPage(e.page)
  BY <1>1, <1>2, <1>7, OrderPage
<1> QED
  BY <1>2, <1>3, <1>4, <1>5, <1>6, <1>7 DEF Dispatch, OnConnected

LEMMA InitOrder == ASSUME Init PROVE OrderInv
<1>1. PICK p : p = [ver |-> version]
  OBVIOUS
<1>2. PICK P : P = {0} \X plan.cache
  OBVIOUS
<1>3. /\ plan \in Plans /\ plan.cache \subseteq 1 .. plan.known /\ plan.known \in Nat
      /\ plan.known \in 0 .. plan.last /\ plan.last \in 0 .. MaxId
  BY WindowAssumption DEF Init
<1>4. P \in SUBSET (Nat \X Nat) /\ IsFiniteSet(P)
  <2>1. IsFiniteSet(1 .. plan.known) /\ 1 .. plan.known \subseteq Nat
    <3>1. 1 \in Int /\ plan.known \in Int /\ 1 .. plan.known \subseteq Nat
      BY <1>3
    <3> QED
      BY <3>1, FS_Interval
  <2>2. IsFiniteSet(plan.cache) /\ plan.cache \subseteq Nat
    BY <1>3, <2>1, FS_Subset
  <2>3. IsFiniteSet({0})
    BY FS_Singleton
  <2> QED
    BY <1>2, <2>2, <2>3, FS_Product
<1>5. \A x \in P : x[1] = 0 /\ x[2] \in Nat /\ x[2] # 0 /\ x[2] <= plan.known /\ IdOf(x, << >>) = x[2]
  <2>1. \A m \in plan.cache : m \in Nat /\ m # 0 /\ m <= plan.known
    BY <1>3
  <2> QED
    BY <1>2, <2>1 DEF IdOf
<1>6. items = Arrange(P, << >>, p)
  BY <1>1, <1>2 DEF Init, AsItems
<1>7. \A x \in P : \A y \in P : Ahead(x, y) => IdOf(x, << >>) < IdOf(y, << >>)
  BY <1>5 DEF Ahead
<1>8. Sorted(items)
  BY <1>4, <1>6, <1>7, SortedArrange
<1>9. \A i \in DOMAIN items : items[i].id <= top
  <2>1. DOMAIN items = 1 .. Cardinality(P)
    BY <1>6 DEF Arrange
  <2>2. \A k \in 1 .. Cardinality(P) : Nth(P, k) \in P
    BY <1>4, NthFacts
  <2>3. \A k \in 1 .. Cardinality(P) : items[k].id = Nth(P, k)[2]
    BY <1>5, <1>6, <2>2 DEF Arrange, Message
  <2> QED
    BY <1>5, <2>1, <2>2, <2>3 DEF Init
<1> QED
  BY <1>8, <1>9 DEF Init, OrderInv, Order

LEMMA NextOrder == ASSUME WindowInv, OrderInv, [Next]_vars PROVE OrderInv'
<1>1. plan' = plan
  <2>1. CASE User
    BY <2>1 DEF User, GoTo, GoAway, Older, Send, JumpTo, Spend, bounds
  <2>2. CASE Sync
    BY <2>2 DEF Sync, Spend
  <2>3. CASE Backend
    BY <2>3 DEF Backend, ReadsServer, PostsPage, ServerTakesSend, PostsReceipt, bounds
  <2>4. CASE Others
    BY <2>4 DEF Others, OthersWrite, GatewayDrops, GatewayConnects, Stopped, Started, OthersEdit, Spend, bounds
  <2>5. CASE Dispatch
    BY <2>5 DEF Dispatch, bounds
  <2>6. CASE UNCHANGED vars
    BY <2>6 DEF vars, bounds
  <2> QED
    BY <2>1, <2>2, <2>3, <2>4, <2>5, <2>6 DEF Next
<1> SUFFICES ASSUME plan.times["send"] = 0, Order PROVE Order'
  BY <1>1 DEF OrderInv
<1>2. top \in Nat
  BY TypedFacts DEF WindowInv
<1>3. CASE User
  <2>1. ~ Send
    BY SpendFacts DEF Send, WindowInv, Deeds
  <2>2. UNCHANGED <<items, pages, queue, sending, top>>
    BY <1>3, <2>1 DEF User, GoTo, GoAway, Older, JumpTo, server
  <2> QED
    BY <1>2, <2>2, OrderSame
<1>4. CASE Sync \/ UNCHANGED vars
  <2>1. UNCHANGED <<items, pages, queue, sending, top>>
    BY <1>4 DEF Sync, vars, window, server
  <2> QED
    BY <1>2, <2>1, OrderSame
<1>5. CASE Backend
  <2>1. ~ ServerTakesSend /\ ~ PostsReceipt
    BY DEF ServerTakesSend, PostsReceipt, Order
  <2> QED
    BY <1>5, <2>1, OrderReads, OrderPosts DEF Backend
<1>6. CASE Others
  BY <1>6, OrderWrite, OrderGateway, OrderStopped, OrderEdit DEF Others
<1>7. CASE Dispatch
  BY <1>7, OrderStep
<1> QED
  BY <1>3, <1>4, <1>5, <1>6, <1>7 DEF Next

\* Without sends, the messages of a window are in the order of their ids,
\* whatever the order its pages and the live messages came in (Window.Merge,
\* MergeAround, Upsert).
THEOREM InOrderAlways == Spec => []InOrder
<1>1. Init => OrderInv
  BY InitOrder
<1>2. WindowInv /\ OrderInv /\ [Next]_vars => OrderInv'
  BY NextOrder
<1>3. OrderInv => InOrder
  BY DEF OrderInv, Order, Sorted, InOrder
<1> QED
  BY <1>1, <1>2, <1>3, InvAlways, PTL DEF Spec
=============================================================================
