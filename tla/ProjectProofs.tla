---------------------------- MODULE ProjectProofs ----------------------------
(***************************************************************************)
(* Facts about the operators of ProjectModel and ProjectFile, for all      *)
(* projects and documents: what inserting, removing, updating, sorting and *)
(* loading make of a vector's entries; and what AppController's operations *)
(* make of the project, the ids and the files.                             *)
(***************************************************************************)
EXTENDS AppController, TLAPS, FiniteSetTheorems, SequenceTheorems, WellFoundedInduction

-----------------------------------------------------------------------------
(* Numbers.                                                                *)

\* A set of natural numbers has a least one.
LEMMA LeastNumber ==
  ASSUME NEW T \in SUBSET Nat, T # {}
  PROVE  \E x \in T : \A y \in T : x <= y
<1>1. PICK x \in T : \A y \in T : ~ (<<y, x>> \in OpToRel(<, Nat))
  BY WFMin, NatLessThanWellFounded
<1>2. \A y \in T : ~ (y < x)
  BY <1>1 DEF OpToRel
<1>3. QED
  BY <1>2

\* Induction, over a set of numbers.
LEMMA NumberInduction ==
  ASSUME NEW S, 0 \in S, \A n \in Nat : n \in S => n + 1 \in S
  PROVE  Nat \subseteq S
<1> SUFFICES ASSUME Nat \ S # {} PROVE FALSE
  OBVIOUS
<1>1. PICK x \in Nat \ S : \A y \in Nat \ S : x <= y
  BY LeastNumber
<1>2. x # 0 /\ x - 1 \in Nat /\ x - 1 \in S
  BY <1>1
<1>3. QED
  BY <1>1, <1>2

\* A finite set of numbers that is not empty has a largest one.
LEMMA LargestNumber ==
  ASSUME NEW T, IsFiniteSet(T), T \subseteq Nat, T # {}
  PROVE  \E x \in T : \A y \in T : y <= x
<1> DEFINE S == {n \in Nat : \A U \in SUBSET T :
                    U # {} /\ Cardinality(U) = n => \E x \in U : \A y \in U : y <= x}
<1>1. 0 \in S
  BY FS_EmptySet, FS_Subset
<1>2. ASSUME NEW n \in Nat, n \in S PROVE n + 1 \in S
  <2> SUFFICES ASSUME NEW U \in SUBSET T, U # {}, Cardinality(U) = n + 1
               PROVE  \E x \in U : \A y \in U : y <= x
    OBVIOUS
  <2>1. PICK u \in U : TRUE
    OBVIOUS
  <2>2. IsFiniteSet(U)
    BY FS_Subset
  <2> HIDE DEF S
  <2>6. Cardinality(U \ {u}) = n
    <3>1. Cardinality(U \ {u}) = Cardinality(U) - 1
      BY <2>1, <2>2, FS_RemoveElement
    <3>2. QED
      BY <3>1
  <2> USE DEF S
  <2>3. CASE U \ {u} = {}
    BY <2>1, <2>3
  <2>4. CASE U \ {u} # {}
    <3>1. PICK x \in U \ {u} : \A y \in U \ {u} : y <= x
      BY <1>2, <2>4, <2>6
    <3>2. CASE u <= x
      BY <3>1, <3>2
    <3>3. CASE x < u
      <4>1. \A y \in U : y <= u
        BY <3>1, <3>3
      <4>2. QED
        BY <4>1
    <3>4. QED
      BY <3>2, <3>3
  <2>5. QED
    BY <2>3, <2>4
<1> HIDE DEF S
<1>3. Nat \subseteq S
  BY <1>1, <1>2, NumberInduction
<1>4. Cardinality(T) \in S
  BY <1>3, FS_CardinalityType
<1>5. QED
  BY <1>4 DEF S

\* A set of the first numbers is told by how many they are.
LEMMA FirstNumbers ==
  ASSUME NEW n \in Nat, NEW T \in SUBSET (1 .. n), \A i \in T, j \in 1 .. n : j <= i => j \in T
  PROVE  T = 1 .. Cardinality(T)
<1>1. IsFiniteSet(1 .. n)
  BY FS_Interval
<1>2. IsFiniteSet(T)
  BY <1>1, FS_Subset
<1>3. CASE T = {}
  BY <1>3, FS_EmptySet
<1>4. CASE T # {}
  <2>0. T \subseteq Nat
    OBVIOUS
  <2>1. PICK m \in T : \A i \in T : i <= m
    BY <1>2, <1>4, <2>0, LargestNumber
  <2>2. T = 1 .. m
    <3>1. m \in 1 .. n
      OBVIOUS
    <3>2. \A j \in 1 .. m : j \in 1 .. n
      BY <3>1
    <3>3. \A j \in 1 .. m : j \in T
      BY <2>1, <3>2
    <3>4. \A j \in T : j \in 1 .. m
      BY <2>1, <3>1
    <3>5. QED
      BY <3>3, <3>4
  <2>3. Cardinality(1 .. m) = m
    BY <2>1, FS_Interval
  <2>4. QED
    BY <2>2, <2>3
<1>5. QED
  BY <1>3, <1>4

-----------------------------------------------------------------------------
(* Vectors.                                                                *)

\* new is s with e at place i.
Inserted(new, s, i, e) ==
    /\ Len(new) = Len(s) + 1
    /\ \A j \in 1 .. Len(s) + 1 : new[j] = IF j < i THEN s[j] ELSE IF j = i THEN e ELSE s[j - 1]

LEMMA InsertAtIs ==
  ASSUME NEW S, NEW s \in Seq(S), NEW i \in 1 .. Len(s) + 1, NEW e \in S
  PROVE  InsertAt(s, i, e) \in Seq(S) /\ Inserted(InsertAt(s, i, e), s, i, e)
<1> DEFINE a == SubSeq(s, 1, i - 1)
           b == SubSeq(s, i, Len(s))
           c == a \o <<e>>
<1>1. Len(s) \in Nat /\ DOMAIN s = 1 .. Len(s) /\ \A j \in 1 .. Len(s) : s[j] \in S
  BY LenProperties, ElementOfSeq
<1>2. /\ a \in Seq(S) /\ Len(a) = i - 1
      /\ \A j \in 1 .. i - 1 : a[j] = s[j]
  <2>1. /\ a \in Seq(S) /\ Len(a) = IF 1 <= i - 1 THEN (i - 1) - 1 + 1 ELSE 0
        /\ \A j \in 1 .. (i - 1) - 1 + 1 : a[j] = s[1 + j - 1]
    BY <1>1, SubSeqProperties
  <2>2. QED
    BY <2>1, <1>1
<1>3. /\ b \in Seq(S) /\ Len(b) = Len(s) - i + 1
      /\ \A j \in 1 .. Len(s) - i + 1 : b[j] = s[i + j - 1]
  <2>1. /\ b \in Seq(S) /\ Len(b) = IF i <= Len(s) THEN Len(s) - i + 1 ELSE 0
        /\ \A j \in 1 .. Len(s) - i + 1 : b[j] = s[i + j - 1]
    BY <1>1, SubSeqProperties
  <2>2. QED
    BY <2>1, <1>1
<1> HIDE DEF a, b
<1>4. <<e>> \in Seq(S) /\ Len(<<e>>) = 1 /\ <<e>>[1] = e
  OBVIOUS
<1>5. /\ c \in Seq(S) /\ Len(c) = Len(a) + 1
      /\ \A j \in 1 .. Len(a) + 1 : c[j] = IF j <= Len(a) THEN a[j] ELSE <<e>>[j - Len(a)]
  BY <1>2, <1>4, ConcatProperties
<1> HIDE DEF c
<1>6. /\ c \o b \in Seq(S) /\ Len(c \o b) = Len(c) + Len(b)
      /\ \A j \in 1 .. Len(c) + Len(b) : (c \o b)[j] = IF j <= Len(c) THEN c[j] ELSE b[j - Len(c)]
  BY <1>3, <1>5, ConcatProperties
<1>7. InsertAt(s, i, e) = c \o b
  BY DEF InsertAt, a, b, c
<1>8. \A j \in 1 .. i : c[j] = IF j < i THEN s[j] ELSE e
  BY <1>1, <1>2, <1>4, <1>5
<1>9. QED
  BY <1>1, <1>2, <1>3, <1>5, <1>6, <1>7, <1>8 DEF Inserted

LEMMA RemoveAtIs ==
  ASSUME NEW S, NEW s \in Seq(S), NEW i \in 1 .. Len(s)
  PROVE  /\ RemoveAt(s, i) \in Seq(S)
         /\ Len(RemoveAt(s, i)) = Len(s) - 1
         /\ \A j \in 1 .. Len(s) - 1 : RemoveAt(s, i)[j] = IF j < i THEN s[j] ELSE s[j + 1]
<1> DEFINE a == SubSeq(s, 1, i - 1)
           b == SubSeq(s, i + 1, Len(s))
<1>1. Len(s) \in Nat /\ DOMAIN s = 1 .. Len(s) /\ \A j \in 1 .. Len(s) : s[j] \in S
  BY LenProperties, ElementOfSeq
<1>2. /\ a \in Seq(S) /\ Len(a) = i - 1
      /\ \A j \in 1 .. i - 1 : a[j] = s[j]
  <2>1. /\ a \in Seq(S) /\ Len(a) = IF 1 <= i - 1 THEN (i - 1) - 1 + 1 ELSE 0
        /\ \A j \in 1 .. (i - 1) - 1 + 1 : a[j] = s[1 + j - 1]
    BY <1>1, SubSeqProperties
  <2>2. QED
    BY <2>1, <1>1
<1>3. /\ b \in Seq(S) /\ Len(b) = Len(s) - i
      /\ \A j \in 1 .. Len(s) - i : b[j] = s[i + j]
  <2>1. /\ b \in Seq(S) /\ Len(b) = IF i + 1 <= Len(s) THEN Len(s) - (i + 1) + 1 ELSE 0
        /\ \A j \in 1 .. Len(s) - (i + 1) + 1 : b[j] = s[i + 1 + j - 1]
    BY <1>1, SubSeqProperties
  <2> HIDE DEF b
  <2>2. Len(b) = Len(s) - i
    <3>1. Len(b) = IF i + 1 <= Len(s) THEN Len(s) - (i + 1) + 1 ELSE 0
      BY <2>1, Zenon
    <3>2. Len(s) \in Nat /\ i \in 1 .. Len(s)
      BY <1>1
    <3>3. (IF i + 1 <= Len(s) THEN Len(s) - (i + 1) + 1 ELSE 0) = Len(s) - i
      BY <3>2
    <3>4. QED
      BY <3>1, <3>3
  <2>3. ASSUME NEW j \in 1 .. Len(s) - i PROVE b[j] = s[i + j]
    <3>1. b[j] = s[i + 1 + j - 1]
      <4>1. j \in 1 .. Len(s) - (i + 1) + 1
        BY <1>1
      <4>2. QED
        BY <2>1, <4>1
    <3>2. i + 1 + j - 1 = i + j
      BY <1>1
    <3>3. QED
      BY <3>1, <3>2, Zenon
  <2>4. QED
    BY <2>1, <2>2, <2>3
<1> HIDE DEF a, b
<1>4. /\ a \o b \in Seq(S) /\ Len(a \o b) = Len(a) + Len(b)
      /\ \A j \in 1 .. Len(a) + Len(b) : (a \o b)[j] = IF j <= Len(a) THEN a[j] ELSE b[j - Len(a)]
  BY <1>2, <1>3, ConcatProperties
<1>5. RemoveAt(s, i) = a \o b
  BY DEF RemoveAt, a, b
<1>6. \A j \in 1 .. Len(s) - 1 : (a \o b)[j] = IF j < i THEN s[j] ELSE s[j + 1]
  <2> SUFFICES ASSUME NEW j \in 1 .. Len(s) - 1
               PROVE  (a \o b)[j] = IF j < i THEN s[j] ELSE s[j + 1]
    OBVIOUS
  <2>1. CASE j < i
    BY <1>1, <1>2, <1>3, <1>4, <2>1
  <2>2. CASE ~ (j < i)
    <3>1. j - (i - 1) \in 1 .. Len(s) - i /\ i + (j - (i - 1)) = j + 1
      BY <1>1, <2>2
    <3>2. b[j - (i - 1)] = s[j + 1]
      BY <1>3, <3>1
    <3>3. QED
      BY <1>1, <1>2, <1>3, <1>4, <2>2, <3>2
  <2>3. QED
    BY <2>1, <2>2
<1>7. Len(a \o b) = Len(s) - 1
  BY <1>1, <1>2, <1>3, <1>4
<1>8. QED
  BY <1>4, <1>5, <1>6, <1>7

-----------------------------------------------------------------------------
(* Lists of notes.                                                         *)

\* Entries with ids of their own, and notes in order.
Proper(s) ==
    /\ \A i \in DOMAIN s : IsValid(s[i].id)
    /\ \A i, j \in DOMAIN s : s[i].id = s[j].id => i = j

InOrder(s) == \A i, j \in DOMAIN s : i < j => s[i].start <= s[j].start

\* Anything with a start.
Started(S) == \A e \in S : e.start \in Int

LEMMA IsList ==
  ASSUME NEW S, NEW s \in Seq(S)
  PROVE  /\ Len(s) \in Nat /\ DOMAIN s = 1 .. Len(s)
         /\ \A i \in DOMAIN s : s[i] \in S
  BY LenProperties, ElementOfSeq

\* The notes that start no later than e come first: e goes behind them.
LEMMA PlaceOf ==
  ASSUME NEW S, Started(S), NEW s \in Seq(S), InOrder(s), NEW e \in S
  PROVE  \E k \in 1 .. Len(s) + 1 :
            /\ InsertByStart(s, e) = InsertAt(s, k, e)
            /\ \A i \in DOMAIN s : s[i].start <= e.start <=> i < k
<1> DEFINE T == {i \in DOMAIN s : s[i].start <= e.start}
           k == Cardinality(T)
<1>1. Len(s) \in Nat /\ DOMAIN s = 1 .. Len(s) /\ \A i \in DOMAIN s : s[i].start \in Int
  BY IsList DEF Started
<1>2. T \in SUBSET (1 .. Len(s))
  BY <1>1
<1>3. \A i \in T, j \in 1 .. Len(s) : j <= i => j \in T
  <2> SUFFICES ASSUME NEW i \in T, NEW j \in 1 .. Len(s), j < i PROVE s[j].start <= e.start
    BY <1>1
  <2>1. s[j].start <= s[i].start /\ s[i].start <= e.start
    BY <1>1 DEF InOrder
  <2>2. QED
    BY <2>1, <1>1 DEF Started
<1> HIDE DEF T
<1>4. T = 1 .. k
  BY <1>1, <1>2, <1>3, FirstNumbers
<1>5. k \in Nat
  <2>1. IsFiniteSet(1 .. Len(s))
    BY <1>1, FS_Interval
  <2>2. IsFiniteSet(T)
    BY <1>2, <2>1, FS_Subset
  <2>3. QED
    BY <2>2, FS_CardinalityType
<1> HIDE DEF k
<1>6. k <= Len(s)
  <2>1. CASE k = 0
    BY <2>1, <1>1
  <2>2. CASE k # 0
    <3>1. k \in 1 .. k
      BY <2>2, <1>5
    <3>2. QED
      BY <3>1, <1>4, <1>2
  <2>3. QED
    BY <2>1, <2>2
<1>7. \A i \in DOMAIN s : s[i].start <= e.start <=> i <= k
  BY <1>1, <1>4, <1>5 DEF T
<1>8. InsertByStart(s, e) = InsertAt(s, 1 + k, e)
  BY DEF InsertByStart, T, k
<1>9. 1 + k \in 1 .. Len(s) + 1 /\ \A i \in DOMAIN s : i <= k <=> i < 1 + k
  BY <1>1, <1>5, <1>6
<1>10. QED
  BY <1>7, <1>8, <1>9

\* Inserting keeps the notes, their order and what was between them.
LEMMA InsertIs ==
  ASSUME NEW S, Started(S), NEW s \in Seq(S), InOrder(s), NEW e \in S
  PROVE  /\ InsertByStart(s, e) \in Seq(S)
         /\ InOrder(InsertByStart(s, e))
         /\ \E k \in 1 .. Len(s) + 1 :
              /\ Len(InsertByStart(s, e)) = Len(s) + 1
              /\ \A j \in 1 .. Len(s) + 1 :
                   InsertByStart(s, e)[j] = IF j < k THEN s[j] ELSE IF j = k THEN e ELSE s[j - 1]
<1> DEFINE new == InsertByStart(s, e)
<1>1. /\ Len(s) \in Nat /\ DOMAIN s = 1 .. Len(s)
      /\ \A i \in DOMAIN s : s[i].start \in Int
      /\ e.start \in Int
  BY IsList DEF Started
<1>2. PICK k \in 1 .. Len(s) + 1 :
         /\ new = InsertAt(s, k, e)
         /\ \A i \in DOMAIN s : s[i].start <= e.start <=> i < k
  BY PlaceOf
<1> HIDE DEF new
<1>4. /\ new \in Seq(S)
      /\ Len(new) = Len(s) + 1
      /\ \A j \in 1 .. Len(s) + 1 :
            new[j] = IF j < k THEN s[j] ELSE IF j = k THEN e ELSE s[j - 1]
  <2>1. InsertAt(s, k, e) \in Seq(S) /\ Inserted(InsertAt(s, k, e), s, k, e)
    BY InsertAtIs
  <2>2. new = InsertAt(s, k, e)
    BY <1>2
  <2>3. QED
    BY <2>1, <2>2, Zenon DEF Inserted
<1>5. DOMAIN new = 1 .. Len(s) + 1
  BY <1>4, IsList
<1>6. ASSUME NEW i \in 1 .. Len(s) + 1, NEW j \in 1 .. Len(s) + 1, i < j
      PROVE  new[i].start <= new[j].start
  <2>1. CASE j < k
    <3>1. new[i] = s[i] /\ new[j] = s[j] /\ i \in DOMAIN s /\ j \in DOMAIN s
      BY <1>1, <1>4, <1>6, <2>1
    <3>2. QED
      BY <1>6, <3>1 DEF InOrder
  <2>2. CASE j = k
    <3>1. new[i] = s[i] /\ new[j] = e /\ i \in DOMAIN s /\ i < k
      BY <1>1, <1>4, <1>6, <2>2
    <3>2. QED
      BY <1>2, <3>1
  <2>3. CASE j > k /\ i < k
    <3>1. new[i] = s[i] /\ new[j] = s[j - 1] /\ i \in DOMAIN s /\ j - 1 \in DOMAIN s /\ i < j - 1
      BY <1>1, <1>4, <2>3
    <3>2. QED
      BY <3>1 DEF InOrder
  <2>4. CASE j > k /\ i = k
    <3>1. new[i] = e /\ new[j] = s[j - 1] /\ j - 1 \in DOMAIN s /\ ~ (j - 1 < k)
      BY <1>1, <1>4, <2>4
    <3>2. QED
      BY <3>1, <1>1, <1>2
  <2>5. CASE j > k /\ i > k
    <3>1. /\ new[i] = s[i - 1] /\ new[j] = s[j - 1]
          /\ i - 1 \in DOMAIN s /\ j - 1 \in DOMAIN s /\ i - 1 < j - 1
      BY <1>1, <1>4, <1>6, <2>5
    <3>2. QED
      BY <3>1 DEF InOrder
  <2>6. QED
    BY <1>1, <2>1, <2>2, <2>3, <2>4, <2>5
<1>7. InOrder(new)
  BY <1>5, <1>6 DEF InOrder
<1>8. QED
  BY <1>4, <1>7 DEF new

LEMMA InsertedProper ==
  ASSUME NEW S, Started(S), NEW s \in Seq(S), InOrder(s), NEW e \in S,
         Proper(s), IsValid(e.id), ~HasId(s, e.id)
  PROVE  Proper(InsertByStart(s, e))
<1> DEFINE new == InsertByStart(s, e)
<1>1. Len(s) \in Nat /\ DOMAIN s = 1 .. Len(s)
  BY IsList
<1>2. new \in Seq(S)
  BY InsertIs
<1>3. PICK k \in 1 .. Len(s) + 1 :
         /\ Len(new) = Len(s) + 1
         /\ \A j \in 1 .. Len(s) + 1 :
               new[j] = IF j < k THEN s[j] ELSE IF j = k THEN e ELSE s[j - 1]
  BY InsertIs
<1> HIDE DEF new
<1>4. DOMAIN new = 1 .. Len(s) + 1
  BY <1>2, <1>3, IsList
<1> DEFINE old(j) == IF j < k THEN j ELSE j - 1
<1>5. ASSUME NEW j \in 1 .. Len(s) + 1, j # k
      PROVE  old(j) \in DOMAIN s /\ new[j] = s[old(j)]
  BY <1>1, <1>3, <1>5
<1>6. ASSUME NEW j \in 1 .. Len(s) + 1, j # k
      PROVE  new[j].id # e.id /\ IsValid(new[j].id)
  BY <1>5, <1>6 DEF Proper, HasId
<1>7. new[k] = e
  BY <1>1, <1>3
<1>8. ASSUME NEW i \in 1 .. Len(s) + 1, NEW j \in 1 .. Len(s) + 1, new[i].id = new[j].id
      PROVE  i = j
  <2>1. CASE i = k \/ j = k
    BY <1>6, <1>7, <1>8, <2>1
  <2>2. CASE i # k /\ j # k
    <3>1. old(i) = old(j)
      <4>1. /\ old(i) \in DOMAIN s /\ new[i] = s[old(i)]
            /\ old(j) \in DOMAIN s /\ new[j] = s[old(j)]
        BY <1>5, <2>2
      <4> HIDE DEF old
      <4>2. QED
        BY <4>1, <1>8 DEF Proper
    <3>2. QED
      BY <3>1, <2>2, <1>1
  <2>3. QED
    BY <2>1, <2>2
<1>9. \A j \in 1 .. Len(s) + 1 : IsValid(new[j].id)
  BY <1>6, <1>7
<1>10. Proper(new)
  BY <1>4, <1>8, <1>9 DEF Proper
<1>11. QED
  BY <1>10 DEF new

LEMMA InsertedRange ==
  ASSUME NEW S, Started(S), NEW s \in Seq(S), InOrder(s), NEW e \in S
  PROVE  Range(InsertByStart(s, e)) = Range(s) \cup {e}
<1> DEFINE new == InsertByStart(s, e)
<1>1. Len(s) \in Nat /\ DOMAIN s = 1 .. Len(s)
  BY IsList
<1>2. new \in Seq(S)
  BY InsertIs
<1>3. PICK k \in 1 .. Len(s) + 1 :
         /\ Len(new) = Len(s) + 1
         /\ \A j \in 1 .. Len(s) + 1 :
               new[j] = IF j < k THEN s[j] ELSE IF j = k THEN e ELSE s[j - 1]
  BY InsertIs
<1> HIDE DEF new
<1>4. DOMAIN new = 1 .. Len(s) + 1
  BY <1>2, <1>3, IsList
<1>5. ASSUME NEW j \in DOMAIN new PROVE new[j] = e \/ \E i \in DOMAIN s : new[j] = s[i]
  <2>1. j > k => j - 1 \in DOMAIN s
    BY <1>1, <1>4
  <2>2. j < k => j \in DOMAIN s
    BY <1>1, <1>4
  <2>3. QED
    BY <1>3, <1>4, <2>1, <2>2
<1>6. ASSUME NEW i \in DOMAIN s PROVE \E j \in DOMAIN new : new[j] = s[i]
  <2>1. CASE i < k
    <3>1. i \in DOMAIN new /\ new[i] = s[i]
      BY <1>1, <1>3, <1>4, <2>1
    <3>2. QED
      BY <3>1
  <2>2. CASE ~ (i < k)
    <3>1. i + 1 \in DOMAIN new /\ ~ (i + 1 < k) /\ i + 1 # k /\ i + 1 - 1 = i
      BY <1>1, <1>4, <2>2
    <3>2. new[i + 1] = s[i + 1 - 1]
      BY <1>3, <1>4, <3>1
    <3>3. QED
      BY <3>1, <3>2
  <2>3. QED
    BY <2>1, <2>2
<1>7. k \in DOMAIN new /\ new[k] = e
  BY <1>1, <1>3, <1>4
<1>8. Range(new) = Range(s) \cup {e}
  BY <1>5, <1>6, <1>7 DEF Range
<1>9. QED
  BY <1>8 DEF new

\* Removing the note with an id that is there.
LEMMA RemovedIs ==
  ASSUME NEW S, Started(S), NEW s \in Seq(S), NEW id, HasId(s, id)
  PROVE  /\ RemoveNoteFrom(s, id) \in Seq(S)
         /\ InOrder(s) => InOrder(RemoveNoteFrom(s, id))
         /\ Proper(s) => Proper(RemoveNoteFrom(s, id))
         /\ Range(RemoveNoteFrom(s, id)) \subseteq Range(s)
         /\ \A x \in Range(s) : x.id # id => x \in Range(RemoveNoteFrom(s, id))
<1> DEFINE r == IndexOf(s, id)
           new == RemoveNoteFrom(s, id)
           old(j) == IF j < r THEN j ELSE j + 1
<1>1. Len(s) \in Nat /\ DOMAIN s = 1 .. Len(s)
  BY IsList
<1>2. r \in DOMAIN s /\ s[r].id = id
  BY DEF HasId, IndexOf
<1> HIDE DEF r
<1>3. /\ new \in Seq(S)
      /\ Len(new) = Len(s) - 1
      /\ \A j \in 1 .. Len(s) - 1 : new[j] = IF j < r THEN s[j] ELSE s[j + 1]
  <2>1. r \in 1 .. Len(s)
    BY <1>1, <1>2
  <2>2. /\ RemoveAt(s, r) \in Seq(S)
        /\ Len(RemoveAt(s, r)) = Len(s) - 1
        /\ \A j \in 1 .. Len(s) - 1 : RemoveAt(s, r)[j] = IF j < r THEN s[j] ELSE s[j + 1]
    BY <2>1, RemoveAtIs
  <2>3. new = RemoveAt(s, r)
    BY DEF RemoveNoteFrom, r
  <2> HIDE DEF new
  <2>4. QED
    BY <2>2, <2>3, Zenon
<1> HIDE DEF new
<1>4. DOMAIN new = 1 .. Len(s) - 1
  BY <1>3, IsList
<1>5. ASSUME NEW j \in DOMAIN new
      PROVE  old(j) \in DOMAIN s /\ new[j] = s[old(j)] /\ old(j) \in Int
  BY <1>1, <1>2, <1>3, <1>4
<1>6. ASSUME NEW i \in DOMAIN new, NEW j \in DOMAIN new
      PROVE  (i < j <=> old(i) < old(j)) /\ (i = j <=> old(i) = old(j))
  BY <1>1, <1>2, <1>4
<1>7. ASSUME NEW i \in DOMAIN s, i # r PROVE \E j \in DOMAIN new : old(j) = i
  <2>1. CASE i < r
    <3>1. i \in DOMAIN new /\ old(i) = i
      BY <1>1, <1>2, <1>4, <2>1
    <3>2. QED
      BY <3>1
  <2>2. CASE i > r
    <3>1. i - 1 \in DOMAIN new /\ old(i - 1) = i
      BY <1>1, <1>2, <1>4, <2>2
    <3>2. QED
      BY <3>1
  <2>3. QED
    BY <1>1, <1>2, <1>7, <2>1, <2>2
<1> HIDE DEF old
<1>8. InOrder(s) => InOrder(new)
  BY <1>5, <1>6 DEF InOrder
<1>9. Proper(s) => Proper(new)
  BY <1>5, <1>6 DEF Proper
<1>10. Range(new) \subseteq Range(s)
  BY <1>5 DEF Range
<1>11. ASSUME NEW x \in Range(s), x.id # id PROVE x \in Range(new)
  <2>1. PICK i \in DOMAIN s : x = s[i]
    BY DEF Range
  <2>2. i # r
    BY <1>2, <1>11, <2>1
  <2>3. PICK j \in DOMAIN new : old(j) = i
    BY <1>7, <2>2
  <2>4. new[j] = x
    BY <1>5, <2>1, <2>3
  <2>5. QED
    BY <2>4 DEF Range
<1>12. QED
  BY <1>3, <1>8, <1>9, <1>10, <1>11 DEF new

-----------------------------------------------------------------------------
(* Sorting.                                                                *)

\* i comes before j once the notes are sorted.
Before(s, i, j) ==
    \/ s[i].start < s[j].start
    \/ s[i].start = s[j].start /\ i < j

LEMMA RankType ==
  ASSUME NEW S, Started(S), NEW s \in Seq(S), NEW i \in DOMAIN s
  PROVE  Rank(s, i) \in 1 .. Len(s)
<1> DEFINE T == {j \in DOMAIN s : \/ s[j].start < s[i].start
                                  \/ s[j].start = s[i].start /\ j <= i}
<1>1. Len(s) \in Nat /\ DOMAIN s = 1 .. Len(s)
  BY IsList
<1>2. i \in T /\ T \in SUBSET (1 .. Len(s))
  BY <1>1
<1> HIDE DEF T
<1>3. IsFiniteSet(1 .. Len(s)) /\ Cardinality(1 .. Len(s)) = Len(s)
  <2>1. /\ IsFiniteSet(1 .. Len(s))
        /\ Cardinality(1 .. Len(s)) = IF 1 > Len(s) THEN 0 ELSE Len(s) - 1 + 1
    BY <1>1, FS_Interval
  <2>2. QED
    BY <1>1, <2>1
<1>4. IsFiniteSet(T) /\ Cardinality(T) <= Len(s)
  BY <1>2, <1>3, FS_Subset
<1>5. Cardinality(T) \in Nat /\ Cardinality(T) # 0
  BY <1>2, <1>4, FS_CardinalityType, FS_EmptySet
<1>6. QED
  BY <1>1, <1>4, <1>5 DEF Rank, T

LEMMA RankGrows ==
  ASSUME NEW S, Started(S), NEW s \in Seq(S), NEW i \in DOMAIN s, NEW j \in DOMAIN s, Before(s, i, j)
  PROVE  Rank(s, i) < Rank(s, j)
<1> DEFINE T(m) == {l \in DOMAIN s : \/ s[l].start < s[m].start
                                     \/ s[l].start = s[m].start /\ l <= m}
<1>1. /\ Len(s) \in Nat /\ DOMAIN s = 1 .. Len(s)
      /\ \A m \in DOMAIN s : s[m].start \in Int
  BY IsList DEF Started
<1>2. T(i) \in SUBSET T(j) /\ j \in T(j) /\ j \notin T(i)
  BY <1>1 DEF Before
<1>3. T(j) \in SUBSET (1 .. Len(s))
  BY <1>1
<1>4. Rank(s, i) = Cardinality(T(i)) /\ Rank(s, j) = Cardinality(T(j))
  BY DEF Rank
<1> HIDE DEF T
<1>5. IsFiniteSet(1 .. Len(s))
  BY <1>1, FS_Interval
<1>6. IsFiniteSet(T(j))
  BY <1>3, <1>5, FS_Subset
<1>7. Cardinality(T(i)) <= Cardinality(T(j)) /\ Cardinality(T(i)) # Cardinality(T(j))
  BY <1>2, <1>6, FS_Subset
<1>8. Rank(s, i) \in Nat /\ Rank(s, j) \in Nat
  <2>1. Rank(s, i) \in 1 .. Len(s) /\ Rank(s, j) \in 1 .. Len(s)
    BY RankType
  <2>2. QED
    BY <1>1, <2>1
<1>9. QED
  BY <1>4, <1>7, <1>8

\* Every rank is that of one note.
LEMMA RankFound ==
  ASSUME NEW S, Started(S), NEW s \in Seq(S), NEW k \in DOMAIN s
  PROVE  \E i \in DOMAIN s : Rank(s, i) = k
<1> DEFINE D == 1 .. Len(s)
           f == [i \in D |-> Rank(s, i)]
<1>1. /\ Len(s) \in Nat /\ DOMAIN s = D
      /\ \A m \in DOMAIN s : s[m].start \in Int
  BY IsList DEF Started
<1>2. f \in [D -> D]
  BY <1>1, RankType
<1>3. ASSUME NEW i \in D, NEW j \in D, f[i] = f[j] PROVE i = j
  <2>1. Rank(s, i) = Rank(s, j)
    BY <1>3
  <2>2. Rank(s, i) \in D /\ Rank(s, j) \in D
    BY <1>1, RankType
  <2>3. ~ Before(s, i, j) /\ ~ Before(s, j, i)
    BY <1>1, <2>1, <2>2, RankGrows
  <2>4. QED
    BY <1>1, <2>3 DEF Before
<1>4. IsFiniteSet(D)
  BY <1>1, FS_Interval
<1> HIDE DEF f
<1>5. f \in Injection(D, D)
  BY <1>2, <1>3 DEF Injection, IsInjective
<1>6. f \in Surjection(D, D)
  BY <1>4, <1>5, FS_Injection
<1>7. PICK i \in D : f[i] = k
  BY <1>1, <1>6 DEF Surjection
<1>8. QED
  BY <1>1, <1>7 DEF f

\* Sorting puts the notes in order and keeps every one of them.
LEMMA SortedIs ==
  ASSUME NEW S, Started(S), NEW s \in Seq(S)
  PROVE  /\ StableSort(s) \in Seq(S)
         /\ InOrder(StableSort(s))
         /\ Proper(s) => Proper(StableSort(s))
         /\ Range(StableSort(s)) = Range(s)
<1> DEFINE at(k) == CHOOSE i \in DOMAIN s : Rank(s, i) = k
           new == StableSort(s)
<1>1. /\ Len(s) \in Nat /\ DOMAIN s = 1 .. Len(s)
      /\ \A m \in DOMAIN s : s[m] \in S /\ s[m].start \in Int
  BY IsList DEF Started
<1>2. \A k \in DOMAIN s : at(k) \in DOMAIN s /\ Rank(s, at(k)) = k
  BY RankFound
<1>3. DOMAIN new = DOMAIN s /\ \A k \in DOMAIN s : new[k] = s[at(k)]
  BY DEF StableSort
<1>4. new \in Seq(S)
  <2>1. new \in [1 .. Len(s) -> S]
    BY <1>1, <1>2 DEF StableSort
  <2>2. QED
    BY <1>1, <2>1, SeqDef
<1> HIDE DEF at, new
<1>5. ASSUME NEW k \in DOMAIN s, NEW l \in DOMAIN s, k < l PROVE Before(s, at(k), at(l))
  <2>1. at(k) # at(l)
    BY <1>2, <1>5
  <2>2. ~ Before(s, at(l), at(k))
    <3>1. SUFFICES ASSUME Before(s, at(l), at(k)) PROVE l < k
      BY <1>1, <1>5
    <3>2. Rank(s, at(l)) < Rank(s, at(k))
      BY <1>2, <3>1, RankGrows
    <3>3. QED
      BY <1>2, <3>2
  <2>3. /\ at(k) \in Int /\ at(l) \in Int
        /\ s[at(k)].start \in Int /\ s[at(l)].start \in Int
    BY <1>1, <1>2
  <2>4. QED
    BY <2>1, <2>2, <2>3 DEF Before
<1>6. InOrder(new)
  <2>1. ASSUME NEW k \in DOMAIN s, NEW l \in DOMAIN s, k < l
        PROVE  new[k].start <= new[l].start
    <3>1. s[at(k)].start \in Int /\ s[at(l)].start \in Int
      BY <1>1, <1>2
    <3>2. s[at(k)].start <= s[at(l)].start
      BY <1>5, <2>1, <3>1 DEF Before
    <3>3. QED
      BY <1>3, <3>2
  <2>2. QED
    BY <1>3, <2>1 DEF InOrder
<1>7. Proper(s) => Proper(new)
  <2> SUFFICES ASSUME Proper(s) PROVE Proper(new)
    OBVIOUS
  <2>1. \A k \in DOMAIN new : IsValid(new[k].id)
    BY <1>2, <1>3 DEF Proper
  <2>2. ASSUME NEW k \in DOMAIN new, NEW l \in DOMAIN new, new[k].id = new[l].id PROVE k = l
    <3>1. at(k) = at(l)
      BY <1>2, <1>3, <2>2 DEF Proper
    <3>2. QED
      BY <1>2, <1>3, <3>1
  <2>3. QED
    BY <2>1, <2>2 DEF Proper
<1>8. Range(new) = Range(s)
  <2>1. \A k \in DOMAIN new : \E i \in DOMAIN s : new[k] = s[i]
    BY <1>2, <1>3
  <2>2. ASSUME NEW i \in DOMAIN s PROVE \E k \in DOMAIN new : new[k] = s[i]
    <3> DEFINE k == Rank(s, i)
    <3>1. k \in DOMAIN s
      BY <1>1, RankType
    <3> HIDE DEF k
    <3>2. at(k) = i
      <4>1. /\ at(k) \in DOMAIN s /\ Rank(s, at(k)) = Rank(s, i)
            /\ Rank(s, i) \in Int
        BY <1>1, <1>2, <3>1 DEF k
      <4>2. ~ Before(s, at(k), i) /\ ~ Before(s, i, at(k))
        BY <4>1, RankGrows
      <4>3. QED
        BY <1>1, <4>1, <4>2 DEF Before
    <3>3. QED
      BY <1>3, <3>1, <3>2
  <2>3. QED
    BY <2>1, <2>2 DEF Range
<1>9. QED
  BY <1>4, <1>6, <1>7, <1>8 DEF new

\* The note with e's id becomes e, and the notes are sorted again.
LEMMA UpdatedIs ==
  ASSUME NEW S, Started(S), NEW s \in Seq(S), NEW e \in S, HasId(s, e.id)
  PROVE  /\ UpdateNote(s, e) \in Seq(S)
         /\ InOrder(UpdateNote(s, e))
         /\ Proper(s) => Proper(UpdateNote(s, e))
         /\ \A x \in Range(UpdateNote(s, e)) : x = e \/ x \in Range(s)
         /\ \A x \in Range(s) : x.id # e.id => x \in Range(UpdateNote(s, e))
<1> DEFINE r == IndexOf(s, e.id)
           mid == [s EXCEPT ![r] = e]
<1>1. Len(s) \in Nat /\ DOMAIN s = 1 .. Len(s)
  BY IsList
<1>2. r \in DOMAIN s /\ s[r].id = e.id
  BY DEF HasId, IndexOf
<1> HIDE DEF r
<1>3. mid \in Seq(S)
  BY <1>1, <1>2, ExceptSeq
<1>4. /\ DOMAIN mid = DOMAIN s /\ mid[r] = e
      /\ \A i \in DOMAIN s : i # r => mid[i] = s[i]
  BY <1>2
<1> HIDE DEF mid
<1>5. /\ StableSort(mid) \in Seq(S) /\ InOrder(StableSort(mid))
      /\ Proper(mid) => Proper(StableSort(mid))
      /\ Range(StableSort(mid)) = Range(mid)
  BY <1>3, SortedIs
<1>6. UpdateNote(s, e) = StableSort(mid)
  BY DEF UpdateNote, mid, r
<1>7. \A i \in DOMAIN s : mid[i].id = s[i].id
  BY <1>2, <1>4
<1>8. Proper(s) => Proper(mid)
  BY <1>4, <1>7 DEF Proper
<1>9. \A x \in Range(mid) : x = e \/ x \in Range(s)
  BY <1>4 DEF Range
<1>10. \A x \in Range(s) : x.id # e.id => x \in Range(mid)
  <2> SUFFICES ASSUME NEW i \in DOMAIN s, s[i].id # e.id PROVE s[i] \in Range(mid)
    BY DEF Range
  <2>1. i \in DOMAIN mid /\ mid[i] = s[i]
    BY <1>2, <1>4
  <2>2. QED
    BY <2>1 DEF Range
<1>11. QED
  BY <1>5, <1>6, <1>8, <1>9, <1>10

-----------------------------------------------------------------------------
(* Folds.                                                                  *)

LEMMA MaxIs == ASSUME NEW k \in Nat PROVE Max(1 .. k + 1) = k + 1
<1>1. k + 1 \in 1 .. k + 1 /\ \A y \in 1 .. k + 1 : k + 1 >= y
  OBVIOUS
<1>2. \A x \in 1 .. k + 1 : (\A y \in 1 .. k + 1 : x >= y) => x = k + 1
  BY <1>1
<1>3. QED
  BY <1>1, <1>2 DEF Max

LEMMA MaxIn ==
  ASSUME NEW n \in Nat, NEW s \in SUBSET (1 .. n), s # {}
  PROVE  Max(s) \in s
<1>1. IsFiniteSet(1 .. n)
  BY FS_Interval
<1>2. IsFiniteSet(s)
  BY <1>1, FS_Subset
<1>3. s \subseteq Nat
  OBVIOUS
<1>4. PICK x \in s : \A y \in s : y <= x
  BY <1>2, <1>3, LargestNumber
<1>5. \A y \in s : x >= y
  BY <1>3, <1>4
<1>6. QED
  BY <1>5 DEF Max

\* A fold by a function over a vector: there is what its definition chooses.
Folds(f, n, base, g, seq) ==
    \A s \in SUBSET (1 .. n) :
        f[s] = IF s = {} THEN base ELSE g[<<f[s \ {Max(s)}], seq[Max(s)]>>]

LEMMA FoldExists ==
  ASSUME NEW A, NEW B, NEW g \in [A \X B -> A], NEW base \in A,
         NEW n \in Nat, NEW seq \in [1 .. n -> B]
  PROVE  \E f \in [SUBSET (1 .. n) -> A] : Folds(f, n, base, g, seq)
<1> DEFINE U == SUBSET (1 .. n)
           Step(f, s) == IF s = {} THEN base ELSE g[<<f[s \ {Max(s)}], seq[Max(s)]>>]
           Good(f, k) == \A s \in U : Cardinality(s) < k => f[s] = Step(f, s)
           S == {k \in Nat : \E f \in [U -> A] : Good(f, k)}
<1>1. \A s \in U : IsFiniteSet(s) /\ Cardinality(s) \in Nat
  <2>1. IsFiniteSet(1 .. n)
    BY FS_Interval
  <2>2. QED
    BY <2>1, FS_Subset, FS_CardinalityType
<1>2. \A s \in U : s # {} => Max(s) \in s
  BY MaxIn
<1>3. ASSUME NEW f \in [U -> A], NEW s \in U PROVE Step(f, s) \in A
  <2>1. CASE s # {}
    <3>1. Max(s) \in 1 .. n /\ s \ {Max(s)} \in U
      BY <1>2, <2>1
    <3>2. f[s \ {Max(s)}] \in A /\ seq[Max(s)] \in B
      BY <3>1
    <3>3. QED
      BY <2>1, <3>2
  <2>2. QED
    BY <2>1
<1>4. 0 \in S
  <2>1. [s \in U |-> base] \in [U -> A]
    OBVIOUS
  <2>2. \A s \in U : ~ (Cardinality(s) < 0)
    BY <1>1
  <2> HIDE DEF Step
  <2>3. \A f : Good(f, 0)
    BY <2>2
  <2> HIDE DEF Good
  <2>4. QED
    BY <2>1, <2>3
<1>5. ASSUME NEW k \in Nat, k \in S PROVE k + 1 \in S
  <2>1. PICK f \in [U -> A] : Good(f, k)
    BY <1>5
  <2> DEFINE h == [s \in U |-> Step(f, s)]
  <2>2. h \in [U -> A]
    BY <1>3
  <2>3. ASSUME NEW s \in U, Cardinality(s) < k PROVE h[s] = f[s]
    BY <2>1, <2>3
  <2>4. ASSUME NEW s \in U, Cardinality(s) < k + 1 PROVE h[s] = Step(h, s)
    <3>1. CASE s = {}
      BY <3>1
    <3>2. CASE s # {}
      <4>1. Max(s) \in s /\ s \ {Max(s)} \in U
        BY <1>2, <3>2
      <4>2. Cardinality(s \ {Max(s)}) = Cardinality(s) - 1
        BY <1>1, <4>1, FS_RemoveElement
      <4>3. Cardinality(s \ {Max(s)}) < k
        BY <1>1, <2>4, <4>2
      <4>4. h[s \ {Max(s)}] = f[s \ {Max(s)}]
        BY <2>3, <4>1, <4>3
      <4>5. QED
        BY <3>2, <4>4
    <3>3. QED
      BY <3>1, <3>2
  <2> HIDE DEF h, Step
  <2>5. Good(h, k + 1)
    BY <2>4
  <2> HIDE DEF Good
  <2>6. QED
    BY <2>2, <2>5
<1> HIDE DEF S
<1>6. n + 1 \in S
  BY <1>4, <1>5, NumberInduction
<1>7. PICK f \in [U -> A] : Good(f, n + 1)
  BY <1>6 DEF S
<1>8. \A s \in U : Cardinality(s) < n + 1
  <2>1. /\ IsFiniteSet(1 .. n)
        /\ Cardinality(1 .. n) = IF 1 > n THEN 0 ELSE n - 1 + 1
    BY FS_Interval
  <2>2. \A s \in U : Cardinality(s) <= Cardinality(1 .. n)
    BY <2>1, FS_Subset
  <2>3. QED
    BY <1>1, <2>1, <2>2
<1>9. Folds(f, n, base, g, seq)
  BY <1>7, <1>8 DEF Folds
<1>10. QED
  BY <1>9

\* The vectors of notes the program keeps, with notes of the set S.
Lists(S) == {s \in Seq(S) : InOrder(s) /\ Proper(s)}

LEMMA AddedNote ==
  ASSUME NEW S, Started(S), NEW s \in Lists(S), NEW e \in S
  PROVE  AddNoteWithId(s, e) \in Lists(S)
  BY InsertIs, InsertedProper DEF Lists, AddNoteWithId

LEMMA NotesFolded ==
  ASSUME NEW S, Started(S), NEW seq \in Seq(S)
  PROVE  \E u \in [0 .. Len(seq) -> Lists(S)] :
            /\ u[0] = <<>>
            /\ \A k \in 0 .. Len(seq) - 1 : u[k + 1] = AddNoteWithId(u[k], seq[k + 1])
            /\ FoldLeft(AddNoteWithId, <<>>, seq) = u[Len(seq)]
<1> DEFINE n == Len(seq)
           A == Lists(S)
           empty == <<>>
           g == [x \in A \X S |-> AddNoteWithId(x[1], x[2])]
           Body(f) == [s \in SUBSET (1 .. n) |->
                         IF s = {} THEN <<>> ELSE AddNoteWithId(f[s \ {Max(s)}], seq[Max(s)])]
           chosen == CHOOSE f : f = Body(f)
           u == [k \in 0 .. n |-> chosen[1 .. k]]
<1>1. n \in Nat /\ DOMAIN seq = 1 .. n /\ seq \in [1 .. n -> S]
  BY LenProperties
<1>2. g \in [A \X S -> A]
  BY AddedNote
<1>3. empty \in A
  BY EmptySeq DEF Lists, InOrder, Proper
<1>4. PICK f \in [SUBSET (1 .. n) -> A] : Folds(f, n, empty, g, seq)
  <2> HIDE DEF n, A, g, empty
  <2>1. QED
    BY <1>1, <1>2, <1>3, FoldExists
<1>5. \A s \in SUBSET (1 .. n) :
         s # {} => g[<<f[s \ {Max(s)}], seq[Max(s)]>>] = AddNoteWithId(f[s \ {Max(s)}], seq[Max(s)])
  <2> SUFFICES ASSUME NEW s \in SUBSET (1 .. n), s # {}
               PROVE  g[<<f[s \ {Max(s)}], seq[Max(s)]>>] = AddNoteWithId(f[s \ {Max(s)}], seq[Max(s)])
    OBVIOUS
  <2>1. Max(s) \in s
    BY <1>1, MaxIn
  <2>2. f[s \ {Max(s)}] \in A /\ seq[Max(s)] \in S
    BY <1>1, <2>1
  <2>3. QED
    BY <2>2
<1>6. f = Body(f)
  <2> HIDE DEF g
  <2>1. QED
    BY <1>4, <1>5 DEF Folds
<1>7. chosen = Body(chosen)
  BY <1>6
<1>8. FoldLeft(AddNoteWithId, <<>>, seq) = chosen[1 .. n]
  BY <1>1 DEF FoldLeft, MapThenFoldSet
<1>9. chosen[{}] = <<>>
  <2>1. {} \in SUBSET (1 .. n)
    OBVIOUS
  <2>2. QED
    BY <1>7, <2>1
<1>10. ASSUME NEW k \in 0 .. n - 1
       PROVE  chosen[1 .. k + 1] = AddNoteWithId(chosen[1 .. k], seq[k + 1])
  <2>1. k \in Nat /\ k + 1 \in 1 .. n
    BY <1>1
  <2>5. 1 .. k + 1 \in SUBSET (1 .. n) /\ k + 1 \in 1 .. k + 1
    BY <1>1, <2>1
  <2>2. Max(1 .. k + 1) = k + 1
    BY <1>1, MaxIs
  <2>3. (1 .. k + 1) \ {k + 1} = 1 .. k
    BY <1>1
  <2> HIDE DEF chosen
  <2>4. QED
    BY <1>7, <2>2, <2>3, <2>5
<1> HIDE DEF chosen
<1>11. u[0] = <<>>
  BY <1>1, <1>9
<1>12. ASSUME NEW k \in 0 .. n - 1 PROVE u[k + 1] = AddNoteWithId(u[k], seq[k + 1])
  BY <1>1, <1>10
<1>13. \A k \in 0 .. n : u[k] \in A
  <2> DEFINE T == {k \in Nat : k <= n => u[k] \in A}
  <2>1. 0 \in T
    BY <1>3, <1>11
  <2>2. ASSUME NEW k \in Nat, k \in T PROVE k + 1 \in T
    <3> HIDE DEF u, A
    <3>1. SUFFICES ASSUME k + 1 <= n PROVE u[k + 1] \in A
      OBVIOUS
    <3>2. k \in 0 .. n - 1 /\ u[k] \in A /\ seq[k + 1] \in S
      BY <1>1, <2>2, <3>1
    <3>3. QED
      BY <1>12, <3>2, AddedNote DEF A
  <2> HIDE DEF T
  <2>3. Nat \subseteq T
    BY <2>1, <2>2, NumberInduction
  <2> HIDE DEF u, A
  <2>4. \A k \in 0 .. n : k \in Nat /\ k <= n
    BY <1>1
  <2>5. QED
    BY <2>3, <2>4 DEF T
<1>14. u \in [0 .. n -> A] /\ u[n] = chosen[1 .. n]
  BY <1>1, <1>13
<1> HIDE DEF u
<1>15. QED
  BY <1>8, <1>11, <1>12, <1>14

\* The vectors of patterns and tracks.
Uniques(S) == {s \in Seq(S) : Proper(s)}

LEMMA AppendedIs ==
  ASSUME NEW S, NEW s \in Seq(S), NEW e \in S
  PROVE  /\ Append(s, e) \in Seq(S)
         /\ DOMAIN Append(s, e) = 1 .. Len(s) + 1 /\ DOMAIN s = 1 .. Len(s) /\ Len(s) \in Nat
         /\ \A i \in DOMAIN s : Append(s, e)[i] = s[i]
         /\ Append(s, e)[Len(s) + 1] = e
  BY AppendProperties, LenProperties

LEMMA AddedEntry ==
  ASSUME NEW S, NEW s \in Uniques(S), NEW e \in S
  PROVE  AddWithId(s, e) \in Uniques(S)
<1> SUFFICES ASSUME IsValid(e.id), ~HasId(s, e.id) PROVE Append(s, e) \in Uniques(S)
  BY DEF AddWithId
<1> DEFINE new == Append(s, e)
<1>1. /\ new \in Seq(S)
      /\ DOMAIN new = 1 .. Len(s) + 1 /\ DOMAIN s = 1 .. Len(s) /\ Len(s) \in Nat
      /\ \A i \in DOMAIN s : new[i] = s[i]
      /\ new[Len(s) + 1] = e
  BY AppendedIs DEF Uniques
<1> HIDE DEF new
<1>2. \A i \in DOMAIN new : i \in DOMAIN s \/ i = Len(s) + 1
  BY <1>1
<1>3. Proper(new)
  BY <1>1, <1>2 DEF Proper, HasId, Uniques
<1>4. QED
  BY <1>1, <1>3 DEF new, Uniques

LEMMA EntriesFolded ==
  ASSUME NEW S, NEW seq \in Seq(S)
  PROVE  \E u \in [0 .. Len(seq) -> Uniques(S)] :
            /\ u[0] = <<>>
            /\ \A k \in 0 .. Len(seq) - 1 : u[k + 1] = AddWithId(u[k], seq[k + 1])
            /\ FoldLeft(AddWithId, <<>>, seq) = u[Len(seq)]
<1> DEFINE n == Len(seq)
           A == Uniques(S)
           empty == <<>>
           g == [x \in A \X S |-> AddWithId(x[1], x[2])]
           Body(f) == [s \in SUBSET (1 .. n) |->
                         IF s = {} THEN <<>> ELSE AddWithId(f[s \ {Max(s)}], seq[Max(s)])]
           chosen == CHOOSE f : f = Body(f)
           u == [k \in 0 .. n |-> chosen[1 .. k]]
<1>1. n \in Nat /\ DOMAIN seq = 1 .. n /\ seq \in [1 .. n -> S]
  BY LenProperties
<1>2. g \in [A \X S -> A]
  BY AddedEntry
<1>3. empty \in A
  BY EmptySeq DEF Uniques, Proper
<1>4. PICK f \in [SUBSET (1 .. n) -> A] : Folds(f, n, empty, g, seq)
  <2> HIDE DEF n, A, g, empty
  <2>1. QED
    BY <1>1, <1>2, <1>3, FoldExists
<1>5. \A s \in SUBSET (1 .. n) :
         s # {} => g[<<f[s \ {Max(s)}], seq[Max(s)]>>] = AddWithId(f[s \ {Max(s)}], seq[Max(s)])
  <2> SUFFICES ASSUME NEW s \in SUBSET (1 .. n), s # {}
               PROVE  g[<<f[s \ {Max(s)}], seq[Max(s)]>>] = AddWithId(f[s \ {Max(s)}], seq[Max(s)])
    OBVIOUS
  <2>1. Max(s) \in s
    BY <1>1, MaxIn
  <2>2. f[s \ {Max(s)}] \in A /\ seq[Max(s)] \in S
    BY <1>1, <2>1
  <2>3. QED
    BY <2>2
<1>6. f = Body(f)
  <2> HIDE DEF g
  <2>1. QED
    BY <1>4, <1>5 DEF Folds
<1>7. chosen = Body(chosen)
  BY <1>6
<1>8. FoldLeft(AddWithId, <<>>, seq) = chosen[1 .. n]
  BY <1>1 DEF FoldLeft, MapThenFoldSet
<1>9. chosen[{}] = <<>>
  <2>1. {} \in SUBSET (1 .. n)
    OBVIOUS
  <2>2. QED
    BY <1>7, <2>1
<1>10. ASSUME NEW k \in 0 .. n - 1
       PROVE  chosen[1 .. k + 1] = AddWithId(chosen[1 .. k], seq[k + 1])
  <2>1. k \in Nat /\ k + 1 \in 1 .. n
    BY <1>1
  <2>5. 1 .. k + 1 \in SUBSET (1 .. n) /\ k + 1 \in 1 .. k + 1
    BY <1>1, <2>1
  <2>2. Max(1 .. k + 1) = k + 1
    BY <1>1, MaxIs
  <2>3. (1 .. k + 1) \ {k + 1} = 1 .. k
    BY <1>1
  <2> HIDE DEF chosen
  <2>4. QED
    BY <1>7, <2>2, <2>3, <2>5
<1> HIDE DEF chosen
<1>11. u[0] = <<>>
  BY <1>1, <1>9
<1>12. ASSUME NEW k \in 0 .. n - 1 PROVE u[k + 1] = AddWithId(u[k], seq[k + 1])
  BY <1>1, <1>10
<1>13. \A k \in 0 .. n : u[k] \in A
  <2> DEFINE T == {k \in Nat : k <= n => u[k] \in A}
  <2>1. 0 \in T
    BY <1>3, <1>11
  <2>2. ASSUME NEW k \in Nat, k \in T PROVE k + 1 \in T
    <3> HIDE DEF u, A
    <3>1. SUFFICES ASSUME k + 1 <= n PROVE u[k + 1] \in A
      OBVIOUS
    <3>2. k \in 0 .. n - 1 /\ u[k] \in A /\ seq[k + 1] \in S
      BY <1>1, <2>2, <3>1
    <3>3. QED
      BY <1>12, <3>2, AddedEntry DEF A
  <2> HIDE DEF T
  <2>3. Nat \subseteq T
    BY <2>1, <2>2, NumberInduction
  <2> HIDE DEF u, A
  <2>4. \A k \in 0 .. n : k \in Nat /\ k <= n
    BY <1>1
  <2>5. QED
    BY <2>3, <2>4 DEF T
<1>14. u \in [0 .. n -> A] /\ u[n] = chosen[1 .. n]
  BY <1>1, <1>13
<1> HIDE DEF u
<1>15. QED
  BY <1>8, <1>11, <1>12, <1>14

\* The port mappings.
Labelled(S) ==
    {s \in Seq(S) : \A i, j \in DOMAIN s : s[i].label = s[j].label => i = j}

LEMMA AddedMapping ==
  ASSUME NEW S, NEW s \in Labelled(S), NEW e \in S
  PROVE  AddPortMapping(s, e) \in Labelled(S)
<1> SUFFICES ASSUME ~ \E i \in DOMAIN s : s[i].label = e.label
             PROVE  Append(s, e) \in Labelled(S)
  BY DEF AddPortMapping
<1> DEFINE new == Append(s, e)
<1>1. /\ new \in Seq(S)
      /\ DOMAIN new = 1 .. Len(s) + 1 /\ DOMAIN s = 1 .. Len(s) /\ Len(s) \in Nat
      /\ \A i \in DOMAIN s : new[i] = s[i]
      /\ new[Len(s) + 1] = e
  BY AppendedIs DEF Labelled
<1> HIDE DEF new
<1>2. \A i \in DOMAIN new : i \in DOMAIN s \/ i = Len(s) + 1
  BY <1>1
<1>3. \A i, j \in DOMAIN new : new[i].label = new[j].label => i = j
  BY <1>1, <1>2 DEF Labelled
<1>4. QED
  BY <1>1, <1>3 DEF new, Labelled

LEMMA MappingsFolded ==
  ASSUME NEW S, NEW seq \in Seq(S)
  PROVE  \E u \in [0 .. Len(seq) -> Labelled(S)] :
            /\ u[0] = <<>>
            /\ \A k \in 0 .. Len(seq) - 1 : u[k + 1] = AddPortMapping(u[k], seq[k + 1])
            /\ FoldLeft(AddPortMapping, <<>>, seq) = u[Len(seq)]
<1> DEFINE n == Len(seq)
           A == Labelled(S)
           empty == <<>>
           g == [x \in A \X S |-> AddPortMapping(x[1], x[2])]
           Body(f) == [s \in SUBSET (1 .. n) |->
                         IF s = {} THEN <<>> ELSE AddPortMapping(f[s \ {Max(s)}], seq[Max(s)])]
           chosen == CHOOSE f : f = Body(f)
           u == [k \in 0 .. n |-> chosen[1 .. k]]
<1>1. n \in Nat /\ DOMAIN seq = 1 .. n /\ seq \in [1 .. n -> S]
  BY LenProperties
<1>2. g \in [A \X S -> A]
  BY AddedMapping
<1>3. empty \in A
  BY EmptySeq DEF Labelled
<1>4. PICK f \in [SUBSET (1 .. n) -> A] : Folds(f, n, empty, g, seq)
  <2> HIDE DEF n, A, g, empty
  <2>1. QED
    BY <1>1, <1>2, <1>3, FoldExists
<1>5. \A s \in SUBSET (1 .. n) :
         s # {} => g[<<f[s \ {Max(s)}], seq[Max(s)]>>] = AddPortMapping(f[s \ {Max(s)}], seq[Max(s)])
  <2> SUFFICES ASSUME NEW s \in SUBSET (1 .. n), s # {}
               PROVE  g[<<f[s \ {Max(s)}], seq[Max(s)]>>] = AddPortMapping(f[s \ {Max(s)}], seq[Max(s)])
    OBVIOUS
  <2>1. Max(s) \in s
    BY <1>1, MaxIn
  <2>2. f[s \ {Max(s)}] \in A /\ seq[Max(s)] \in S
    BY <1>1, <2>1
  <2>3. QED
    BY <2>2
<1>6. f = Body(f)
  <2> HIDE DEF g
  <2>1. QED
    BY <1>4, <1>5 DEF Folds
<1>7. chosen = Body(chosen)
  BY <1>6
<1>8. FoldLeft(AddPortMapping, <<>>, seq) = chosen[1 .. n]
  BY <1>1 DEF FoldLeft, MapThenFoldSet
<1>9. chosen[{}] = <<>>
  <2>1. {} \in SUBSET (1 .. n)
    OBVIOUS
  <2>2. QED
    BY <1>7, <2>1
<1>10. ASSUME NEW k \in 0 .. n - 1
       PROVE  chosen[1 .. k + 1] = AddPortMapping(chosen[1 .. k], seq[k + 1])
  <2>1. k \in Nat /\ k + 1 \in 1 .. n
    BY <1>1
  <2>5. 1 .. k + 1 \in SUBSET (1 .. n) /\ k + 1 \in 1 .. k + 1
    BY <1>1, <2>1
  <2>2. Max(1 .. k + 1) = k + 1
    BY <1>1, MaxIs
  <2>3. (1 .. k + 1) \ {k + 1} = 1 .. k
    BY <1>1
  <2> HIDE DEF chosen
  <2>4. QED
    BY <1>7, <2>2, <2>3, <2>5
<1> HIDE DEF chosen
<1>11. u[0] = <<>>
  BY <1>1, <1>9
<1>12. ASSUME NEW k \in 0 .. n - 1 PROVE u[k + 1] = AddPortMapping(u[k], seq[k + 1])
  BY <1>1, <1>10
<1>13. \A k \in 0 .. n : u[k] \in A
  <2> DEFINE T == {k \in Nat : k <= n => u[k] \in A}
  <2>1. 0 \in T
    BY <1>3, <1>11
  <2>2. ASSUME NEW k \in Nat, k \in T PROVE k + 1 \in T
    <3> HIDE DEF u, A
    <3>1. SUFFICES ASSUME k + 1 <= n PROVE u[k + 1] \in A
      OBVIOUS
    <3>2. k \in 0 .. n - 1 /\ u[k] \in A /\ seq[k + 1] \in S
      BY <1>1, <2>2, <3>1
    <3>3. QED
      BY <1>12, <3>2, AddedMapping DEF A
  <2> HIDE DEF T
  <2>3. Nat \subseteq T
    BY <2>1, <2>2, NumberInduction
  <2> HIDE DEF u, A
  <2>4. \A k \in 0 .. n : k \in Nat /\ k <= n
    BY <1>1
  <2>5. QED
    BY <2>3, <2>4 DEF T
<1>14. u \in [0 .. n -> A] /\ u[n] = chosen[1 .. n]
  BY <1>1, <1>13
<1> HIDE DEF u
<1>15. QED
  BY <1>8, <1>11, <1>12, <1>14

-----------------------------------------------------------------------------
(* A vector that is as it should be is loaded as it is.                    *)

LEMMA Prefix ==
  ASSUME NEW S, NEW s \in Seq(S), NEW k \in 0 .. Len(s) - 1
  PROVE  /\ SubSeq(s, 1, k) \in Seq(S) /\ Len(SubSeq(s, 1, k)) = k
         /\ DOMAIN SubSeq(s, 1, k) = 1 .. k
         /\ \A i \in 1 .. k : SubSeq(s, 1, k)[i] = s[i]
         /\ k + 1 \in DOMAIN s /\ s[k + 1] \in S
         /\ Append(SubSeq(s, 1, k), s[k + 1]) = SubSeq(s, 1, k + 1)
<1>1. Len(s) \in Nat /\ DOMAIN s = 1 .. Len(s) /\ \A i \in DOMAIN s : s[i] \in S
  BY IsList
<1>2. /\ k \in Int /\ k + 1 \in Int /\ k + 1 \in DOMAIN s
      /\ \A i \in 1 .. k : i \in DOMAIN s /\ 1 + i - 1 = i
      /\ \A i \in 1 .. k + 1 : i \in DOMAIN s /\ 1 + i - 1 = i
      /\ k - 1 + 1 = k /\ k + 1 - 1 + 1 = k + 1
  BY <1>1
<1>3. /\ SubSeq(s, 1, k) \in Seq(S)
      /\ Len(SubSeq(s, 1, k)) = IF 1 <= k THEN k - 1 + 1 ELSE 0
      /\ \A i \in 1 .. k - 1 + 1 : SubSeq(s, 1, k)[i] = s[1 + i - 1]
  BY <1>1, <1>2, SubSeqProperties
<1>4. /\ SubSeq(s, 1, k + 1) \in Seq(S)
      /\ Len(SubSeq(s, 1, k + 1)) = IF 1 <= k + 1 THEN k + 1 - 1 + 1 ELSE 0
      /\ \A i \in 1 .. k + 1 - 1 + 1 : SubSeq(s, 1, k + 1)[i] = s[1 + i - 1]
  BY <1>1, <1>2, SubSeqProperties
<1> DEFINE a == SubSeq(s, 1, k)
           b == SubSeq(s, 1, k + 1)
           e == s[k + 1]
<1>5. a \in Seq(S) /\ Len(a) = k /\ \A i \in 1 .. k : a[i] = s[i]
  BY <1>2, <1>3
<1>6. b \in Seq(S) /\ Len(b) = k + 1 /\ \A i \in 1 .. k + 1 : b[i] = s[i]
  BY <1>2, <1>4
<1>7. e \in S
  BY <1>1, <1>2
<1> HIDE DEF a, b
<1>8. DOMAIN a = 1 .. k
  BY <1>5, LenProperties
<1>9. Append(a, e) = b
  <2>1. /\ Append(a, e) \in Seq(S) /\ Len(Append(a, e)) = k + 1
        /\ \A i \in 1 .. k : Append(a, e)[i] = a[i]
        /\ Append(a, e)[k + 1] = e
    BY <1>5, <1>7, AppendProperties
  <2>2. \A i \in 1 .. k + 1 : Append(a, e)[i] = b[i]
    <3>1. \A i \in 1 .. k + 1 : i \in 1 .. k \/ i = k + 1
      BY <1>2
    <3>2. QED
      BY <1>5, <1>6, <2>1, <3>1
  <2>3. QED
    BY <1>6, <2>1, <2>2, SeqEqual
<1>10. QED
  BY <1>2, <1>5, <1>7, <1>8, <1>9 DEF a, b

LEMMA InsertedLast ==
  ASSUME NEW S, Started(S), NEW s \in Seq(S), InOrder(s), NEW e \in S,
         \A i \in DOMAIN s : s[i].start <= e.start
  PROVE  InsertByStart(s, e) = Append(s, e)
<1>1. Len(s) \in Nat /\ DOMAIN s = 1 .. Len(s)
  BY IsList
<1>2. PICK k \in 1 .. Len(s) + 1 :
         /\ InsertByStart(s, e) = InsertAt(s, k, e)
         /\ \A i \in DOMAIN s : s[i].start <= e.start <=> i < k
  BY PlaceOf
<1>3. k = Len(s) + 1
  <2>1. \A i \in DOMAIN s : i < k
    BY <1>2
  <2>2. k \notin DOMAIN s
    BY <1>1, <2>1
  <2>3. QED
    BY <1>1, <2>2
<1> DEFINE a == InsertAt(s, k, e)
           b == Append(s, e)
<1>4. /\ a \in Seq(S) /\ Len(a) = Len(s) + 1
      /\ \A j \in 1 .. Len(s) + 1 : a[j] = IF j < k THEN s[j] ELSE IF j = k THEN e ELSE s[j - 1]
  <2>1. InsertAt(s, k, e) \in Seq(S) /\ Inserted(InsertAt(s, k, e), s, k, e)
    BY InsertAtIs
  <2>2. QED
    BY <2>1, Zenon DEF Inserted
<1>5. /\ b \in Seq(S) /\ Len(b) = Len(s) + 1
      /\ \A i \in 1 .. Len(s) : b[i] = s[i]
      /\ b[Len(s) + 1] = e
  BY AppendProperties
<1> HIDE DEF a, b
<1>6. \A j \in 1 .. Len(s) + 1 : a[j] = b[j]
  BY <1>1, <1>3, <1>4, <1>5
<1>7. a = b
  BY <1>4, <1>5, <1>6, SeqEqual
<1>8. QED
  BY <1>2, <1>7 DEF a, b

LEMMA NotesKept ==
  ASSUME NEW S, Started(S), NEW s \in Lists(S)
  PROVE  FoldLeft(AddNoteWithId, <<>>, s) = s
<1>1. Len(s) \in Nat /\ DOMAIN s = 1 .. Len(s) /\ s \in Seq(S)
  BY IsList DEF Lists
<1>2. PICK u \in [0 .. Len(s) -> Lists(S)] :
         /\ u[0] = <<>>
         /\ \A k \in 0 .. Len(s) - 1 : u[k + 1] = AddNoteWithId(u[k], s[k + 1])
         /\ FoldLeft(AddNoteWithId, <<>>, s) = u[Len(s)]
  BY <1>1, NotesFolded
<1> DEFINE T == {k \in Nat : k <= Len(s) => u[k] = SubSeq(s, 1, k)}
<1>3. 0 \in T
  <2>1. SubSeq(s, 1, 0) = <<>>
    BY SubSeqEmpty
  <2>2. QED
    BY <1>2, <2>1
<1>4. ASSUME NEW k \in Nat, k \in T PROVE k + 1 \in T
  <2>1. SUFFICES ASSUME k + 1 <= Len(s) PROVE u[k + 1] = SubSeq(s, 1, k + 1)
    OBVIOUS
  <2> DEFINE a == SubSeq(s, 1, k)
             e == s[k + 1]
  <2>2. k \in 0 .. Len(s) - 1 /\ u[k] = a
    BY <1>1, <1>4, <2>1
  <2>3. /\ a \in Seq(S) /\ DOMAIN a = 1 .. k
        /\ \A i \in 1 .. k : a[i] = s[i]
        /\ k + 1 \in DOMAIN s /\ e \in S
        /\ Append(a, e) = SubSeq(s, 1, k + 1)
    BY <1>1, <2>2, Prefix
  <2> HIDE DEF a, T
  <2>4. \A i \in 1 .. k : i \in DOMAIN s /\ i < k + 1
    BY <1>1, <2>2
  <2>5. IsValid(e.id) /\ ~HasId(a, e.id)
    BY <2>3, <2>4 DEF HasId, Proper, Lists
  <2>6. InOrder(a) /\ \A i \in DOMAIN a : a[i].start <= e.start
    BY <2>3, <2>4 DEF InOrder, Lists
  <2>7. InsertByStart(a, e) = Append(a, e)
    BY <2>3, <2>6, InsertedLast
  <2>8. QED
    BY <1>2, <2>2, <2>3, <2>5, <2>7 DEF AddNoteWithId
<1> HIDE DEF T
<1>5. Len(s) \in T
  BY <1>1, <1>3, <1>4, NumberInduction
<1>6. QED
  BY <1>1, <1>2, <1>5, SubSeqFull DEF T

LEMMA EntriesKept ==
  ASSUME NEW S, NEW s \in Uniques(S)
  PROVE  FoldLeft(AddWithId, <<>>, s) = s
<1>1. Len(s) \in Nat /\ DOMAIN s = 1 .. Len(s) /\ s \in Seq(S)
  BY IsList DEF Uniques
<1>2. PICK u \in [0 .. Len(s) -> Uniques(S)] :
         /\ u[0] = <<>>
         /\ \A k \in 0 .. Len(s) - 1 : u[k + 1] = AddWithId(u[k], s[k + 1])
         /\ FoldLeft(AddWithId, <<>>, s) = u[Len(s)]
  BY <1>1, EntriesFolded
<1> DEFINE T == {k \in Nat : k <= Len(s) => u[k] = SubSeq(s, 1, k)}
<1>3. 0 \in T
  <2>1. SubSeq(s, 1, 0) = <<>>
    BY SubSeqEmpty
  <2>2. QED
    BY <1>2, <2>1
<1>4. ASSUME NEW k \in Nat, k \in T PROVE k + 1 \in T
  <2>1. SUFFICES ASSUME k + 1 <= Len(s) PROVE u[k + 1] = SubSeq(s, 1, k + 1)
    OBVIOUS
  <2> DEFINE a == SubSeq(s, 1, k)
             e == s[k + 1]
  <2>2. k \in 0 .. Len(s) - 1 /\ u[k] = a
    BY <1>1, <1>4, <2>1
  <2>3. /\ a \in Seq(S) /\ DOMAIN a = 1 .. k
        /\ \A i \in 1 .. k : a[i] = s[i]
        /\ k + 1 \in DOMAIN s /\ e \in S
        /\ Append(a, e) = SubSeq(s, 1, k + 1)
    BY <1>1, <2>2, Prefix
  <2> HIDE DEF a, T
  <2>4. \A i \in 1 .. k : i \in DOMAIN s /\ i < k + 1
    BY <1>1, <2>2
  <2>5. IsValid(e.id) /\ ~HasId(a, e.id)
    BY <2>3, <2>4 DEF HasId, Proper, Uniques
  <2>6. QED
    BY <1>2, <2>2, <2>3, <2>5 DEF AddWithId
<1> HIDE DEF T
<1>5. Len(s) \in T
  BY <1>1, <1>3, <1>4, NumberInduction
<1>6. QED
  BY <1>1, <1>2, <1>5, SubSeqFull DEF T

LEMMA MappingsKept ==
  ASSUME NEW S, NEW s \in Labelled(S)
  PROVE  FoldLeft(AddPortMapping, <<>>, s) = s
<1>1. Len(s) \in Nat /\ DOMAIN s = 1 .. Len(s) /\ s \in Seq(S)
  BY IsList DEF Labelled
<1>2. PICK u \in [0 .. Len(s) -> Labelled(S)] :
         /\ u[0] = <<>>
         /\ \A k \in 0 .. Len(s) - 1 : u[k + 1] = AddPortMapping(u[k], s[k + 1])
         /\ FoldLeft(AddPortMapping, <<>>, s) = u[Len(s)]
  BY <1>1, MappingsFolded
<1> DEFINE T == {k \in Nat : k <= Len(s) => u[k] = SubSeq(s, 1, k)}
<1>3. 0 \in T
  <2>1. SubSeq(s, 1, 0) = <<>>
    BY SubSeqEmpty
  <2>2. QED
    BY <1>2, <2>1
<1>4. ASSUME NEW k \in Nat, k \in T PROVE k + 1 \in T
  <2>1. SUFFICES ASSUME k + 1 <= Len(s) PROVE u[k + 1] = SubSeq(s, 1, k + 1)
    OBVIOUS
  <2> DEFINE a == SubSeq(s, 1, k)
             e == s[k + 1]
  <2>2. k \in 0 .. Len(s) - 1 /\ u[k] = a
    BY <1>1, <1>4, <2>1
  <2>3. /\ a \in Seq(S) /\ DOMAIN a = 1 .. k
        /\ \A i \in 1 .. k : a[i] = s[i]
        /\ k + 1 \in DOMAIN s /\ e \in S
        /\ Append(a, e) = SubSeq(s, 1, k + 1)
    BY <1>1, <2>2, Prefix
  <2> HIDE DEF a, T
  <2>4. \A i \in 1 .. k : i \in DOMAIN s /\ i < k + 1
    BY <1>1, <2>2
  <2>5. ~ \E i \in DOMAIN a : a[i].label = e.label
    BY <2>3, <2>4 DEF Labelled
  <2>6. QED
    BY <1>2, <2>2, <2>3, <2>5 DEF AddPortMapping
<1> HIDE DEF T
<1>5. Len(s) \in T
  BY <1>1, <1>3, <1>4, NumberInduction
<1>6. QED
  BY <1>1, <1>2, <1>5, SubSeqFull DEF T

-----------------------------------------------------------------------------
(* Projects.                                                               *)

Notes    == [id : Nat, start : Int, length : Int, pitch : 0 .. 127, velocity : 0 .. 127]
Patterns == [id : Nat, length : Int, notes : Lists(Notes)]
Tracks   == [id : Nat, channel : 0 .. 15, transpose : -64 .. 64, patterns : Uniques(Patterns)]
Meters   == [num : 1 .. 32, den : {1, 2, 4, 8, 16, 32}]

\* What every project is, whatever was loaded into it and edited: values in
\* range, ids of their own, notes in order.
WellFormed(prj) ==
    /\ prj = [tempo |-> prj.tempo, meter |-> prj.meter, tracks |-> prj.tracks,
              arrangement |-> prj.arrangement, mappings |-> prj.mappings, loop |-> prj.loop]
    /\ prj.tempo \in 20 .. 999 /\ prj.meter \in Meters
    /\ prj.tracks \in Uniques(Tracks) /\ prj.mappings \in Labelled(Mappings)

LEMMA NotesStart == Started(Notes)
  BY DEF Started, Notes

\* The core types keep what is in their range.
LEMMA MeterIs ==
  ASSUME NEW num \in Int, NEW den
  PROVE  /\ TimeSignature(num, den) \in Meters
         /\ \A m \in Meters : m.num = num /\ m.den = den => TimeSignature(num, den) = m
  BY DEF TimeSignature, Meters, Clamp

LEMMA EmptyWellFormed == WellFormed(EmptyProject)
<1>1. <<>> \in Uniques(Tracks) /\ <<>> \in Labelled(Mappings)
  BY EmptySeq DEF Uniques, Proper, Labelled
<1>2. QED
  BY <1>1 DEF WellFormed, EmptyProject, DefaultTempo, TimeSignature, Clamp, Meters

\* A vector of what a document's entries are made into.
LEMMA MadeOf ==
  ASSUME NEW D, NEW d \in Seq(D), NEW S, NEW s, s = [i \in DOMAIN d |-> s[i]],
         \A i \in DOMAIN d : d[i] \in D => s[i] \in S
  PROVE  s \in Seq(S) /\ DOMAIN s = DOMAIN d /\ Len(s) = Len(d)
<1>1. Len(d) \in Nat /\ DOMAIN d = 1 .. Len(d) /\ \A i \in DOMAIN d : d[i] \in D
  BY IsList
<1>2. s \in [1 .. Len(d) -> S]
  BY <1>1
<1>3. s \in Seq(S)
  BY <1>1, <1>2, SeqDef
<1>4. Len(s) \in Nat /\ DOMAIN s = 1 .. Len(s)
  BY <1>3, IsList
<1>5. QED
  BY <1>1, <1>2, <1>3, <1>4

LEMMA LoadedNote == ASSUME NEW d \in DocNotes PROVE NoteFrom(d) \in Notes
<1>1. d.pitch \in Int /\ d.velocity \in Int
  BY DEF DocNotes
<1>2. Pitch(d.pitch) \in 0 .. 127 /\ Velocity(d.velocity) \in 0 .. 127
  BY <1>1 DEF Pitch, Velocity, Clamp
<1>3. QED
  BY <1>2 DEF NoteFrom, Notes, DocNotes

LEMMA LoadedPattern == ASSUME NEW d \in DocPatterns PROVE PatternFrom(d) \in Patterns
<1> DEFINE s == [i \in DOMAIN d.notes |-> NoteFrom(d.notes[i])]
<1>1. d.notes \in Seq(DocNotes) /\ d.id \in Nat /\ d.length \in Int
  BY DEF DocPatterns
<1>2. s = [i \in DOMAIN d.notes |-> s[i]]
  OBVIOUS
<1>3. \A i \in DOMAIN d.notes : d.notes[i] \in DocNotes => s[i] \in Notes
  BY LoadedNote
<1> HIDE DEF s
<1>4. s \in Seq(Notes)
  BY <1>1, <1>2, <1>3, MadeOf
<1>5. PICK u \in [0 .. Len(s) -> Lists(Notes)] : FoldLeft(AddNoteWithId, <<>>, s) = u[Len(s)]
  BY <1>4, NotesStart, NotesFolded
<1>6. Len(s) \in 0 .. Len(s)
  BY <1>4, IsList
<1>7. FoldLeft(AddNoteWithId, <<>>, s) \in Lists(Notes)
  BY <1>5, <1>6
<1>8. QED
  BY <1>1, <1>7 DEF PatternFrom, Patterns, s

LEMMA LoadedTrack == ASSUME NEW d \in DocTracks PROVE TrackFrom(d) \in Tracks
<1> DEFINE s == [i \in DOMAIN d.patterns |-> PatternFrom(d.patterns[i])]
<1>1. /\ d.patterns \in Seq(DocPatterns)
      /\ d.id \in Nat /\ d.channel \in Int /\ d.transpose \in Int
  BY DEF DocTracks
<1>2. s = [i \in DOMAIN d.patterns |-> s[i]]
  OBVIOUS
<1>3. \A i \in DOMAIN d.patterns : d.patterns[i] \in DocPatterns => s[i] \in Patterns
  BY LoadedPattern
<1> HIDE DEF s
<1>4. s \in Seq(Patterns)
  BY <1>1, <1>2, <1>3, MadeOf
<1>5. PICK u \in [0 .. Len(s) -> Uniques(Patterns)] : FoldLeft(AddWithId, <<>>, s) = u[Len(s)]
  BY <1>4, EntriesFolded
<1>6. Len(s) \in 0 .. Len(s)
  BY <1>4, IsList
<1>7. FoldLeft(AddWithId, <<>>, s) \in Uniques(Patterns)
  BY <1>5, <1>6
<1>8. Channel(d.channel) \in 0 .. 15 /\ Transpose(d.transpose) \in -64 .. 64
  <2>1. \A v \in Int : Channel(v) \in 0 .. 15 /\ Transpose(v) \in -64 .. 64
    BY DEF Channel, Transpose, Clamp
  <2>2. QED
    BY <1>1, <2>1, Zenon
<1>9. QED
  BY <1>1, <1>7, <1>8 DEF TrackFrom, Tracks, s

\* Whatever a document holds, what is loaded from it is well formed.
LEMMA LoadedWellFormed ==
  ASSUME NEW doc, IsDocument(doc)
  PROVE  WellFormed(ProjectFrom(doc))
<1> DEFINE s == [i \in DOMAIN doc.tracks |-> TrackFrom(doc.tracks[i])]
           m == doc.mappings
<1>1. /\ doc.tracks \in Seq(DocTracks) /\ m \in Seq(Mappings)
      /\ doc.tempo \in Int /\ doc.meter.num \in Int
  BY DEF IsDocument
<1>2. Bpm(doc.tempo) \in 20 .. 999
  <2>1. doc.tempo \in Int
    BY <1>1
  <2>2. QED
    BY <2>1 DEF Bpm, Clamp
<1>3. TimeSignature(doc.meter.num, doc.meter.den) \in Meters
  BY <1>1, MeterIs
<1>4. s = [i \in DOMAIN doc.tracks |-> s[i]]
  OBVIOUS
<1>5. \A i \in DOMAIN doc.tracks : doc.tracks[i] \in DocTracks => s[i] \in Tracks
  BY LoadedTrack
<1> HIDE DEF s, m
<1>6. s \in Seq(Tracks)
  BY <1>1, <1>4, <1>5, MadeOf
<1>7. PICK u \in [0 .. Len(s) -> Uniques(Tracks)] : FoldLeft(AddWithId, <<>>, s) = u[Len(s)]
  BY <1>6, EntriesFolded
<1>8. PICK v \in [0 .. Len(m) -> Labelled(Mappings)] : FoldLeft(AddPortMapping, <<>>, m) = v[Len(m)]
  BY <1>1, MappingsFolded
<1>9. Len(s) \in 0 .. Len(s) /\ Len(m) \in 0 .. Len(m)
  BY <1>1, <1>6, IsList
<1>10. /\ FoldLeft(AddWithId, <<>>, s) \in Uniques(Tracks)
      /\ FoldLeft(AddPortMapping, <<>>, m) \in Labelled(Mappings)
  BY <1>7, <1>8, <1>9
<1>11. QED
  BY <1>2, <1>3, <1>10 DEF WellFormed, ProjectFrom, s, m

-----------------------------------------------------------------------------
(* Saving and loading.                                                     *)

LEMMA SavedNote ==
  ASSUME NEW n \in Notes
  PROVE  NoteTo(n) \in DocNotes /\ NoteFrom(NoteTo(n)) = n
<1>1. n.pitch \in 0 .. 127 /\ n.velocity \in 0 .. 127
  BY DEF Notes
<1>2. Pitch(n.pitch) = n.pitch /\ Velocity(n.velocity) = n.velocity
  BY <1>1 DEF Pitch, Velocity, Clamp
<1>3. QED
  BY <1>2 DEF Notes, DocNotes, NoteTo, NoteFrom

LEMMA SavedPattern ==
  ASSUME NEW p \in Patterns
  PROVE  PatternTo(p) \in DocPatterns /\ PatternFrom(PatternTo(p)) = p
<1> DEFINE s == p.notes
           d == [i \in DOMAIN s |-> NoteTo(s[i])]
           t == [i \in DOMAIN d |-> NoteFrom(d[i])]
<1>1. /\ s \in Lists(Notes) /\ p.id \in Nat /\ p.length \in Int
      /\ p = [id |-> p.id, length |-> p.length, notes |-> s]
  BY DEF Patterns
<1>2. s \in Seq(Notes)
  BY <1>1 DEF Lists
<1> HIDE DEF s
<1>3. Len(s) \in Nat /\ DOMAIN s = 1 .. Len(s) /\ \A i \in DOMAIN s : s[i] \in Notes
  BY <1>2, IsList
<1>4. d \in Seq(DocNotes)
  <2>1. d = [i \in DOMAIN s |-> d[i]]
    OBVIOUS
  <2>2. \A i \in DOMAIN s : s[i] \in Notes => d[i] \in DocNotes
    BY SavedNote
  <2> HIDE DEF d
  <2>3. QED
    BY <1>2, <2>1, <2>2, MadeOf
<1>5. t = s
  <2>1. \A i \in DOMAIN s : NoteFrom(NoteTo(s[i])) = s[i]
    BY <1>3, SavedNote
  <2>2. s = [i \in DOMAIN s |-> s[i]]
    BY <1>2, <1>3, SeqDef
  <2>3. QED
    BY <2>1, <2>2
<1>6. FoldLeft(AddNoteWithId, <<>>, s) = s
  BY <1>1, NotesStart, NotesKept
<1>7. PatternTo(p) = [id |-> p.id, length |-> p.length, notes |-> d]
  BY DEF PatternTo, s
<1>8. PatternTo(p) \in DocPatterns
  BY <1>1, <1>4, <1>7 DEF DocPatterns
<1>9. PatternFrom(PatternTo(p)) = [id |-> p.id, length |-> p.length,
                                  notes |-> FoldLeft(AddNoteWithId, <<>>, t)]
  BY <1>7 DEF PatternFrom
<1> HIDE DEF d, t
<1>10. QED
  BY <1>1, <1>5, <1>6, <1>8, <1>9

LEMMA SavedTrack ==
  ASSUME NEW r \in Tracks
  PROVE  TrackTo(r) \in DocTracks /\ TrackFrom(TrackTo(r)) = r
<1> DEFINE s == r.patterns
           d == [i \in DOMAIN s |-> PatternTo(s[i])]
           t == [i \in DOMAIN d |-> PatternFrom(d[i])]
<1>1. /\ s \in Uniques(Patterns) /\ r.id \in Nat
      /\ r.channel \in 0 .. 15 /\ r.transpose \in -64 .. 64
      /\ r = [id |-> r.id, channel |-> r.channel, transpose |-> r.transpose, patterns |-> s]
  BY DEF Tracks
<1>2. s \in Seq(Patterns)
  BY <1>1 DEF Uniques
<1> HIDE DEF s
<1>3. Len(s) \in Nat /\ DOMAIN s = 1 .. Len(s) /\ \A i \in DOMAIN s : s[i] \in Patterns
  BY <1>2, IsList
<1>4. d \in Seq(DocPatterns)
  <2>1. d = [i \in DOMAIN s |-> d[i]]
    OBVIOUS
  <2>2. \A i \in DOMAIN s : s[i] \in Patterns => d[i] \in DocPatterns
    BY SavedPattern
  <2> HIDE DEF d
  <2>3. QED
    BY <1>2, <2>1, <2>2, MadeOf
<1>5. t = s
  <2>1. \A i \in DOMAIN s : PatternFrom(PatternTo(s[i])) = s[i]
    BY <1>3, SavedPattern
  <2>2. s = [i \in DOMAIN s |-> s[i]]
    BY <1>2, <1>3, SeqDef
  <2>3. QED
    BY <2>1, <2>2
<1>6. FoldLeft(AddWithId, <<>>, s) = s
  BY <1>1, EntriesKept
<1>7. TrackTo(r) = [id |-> r.id, channel |-> r.channel, transpose |-> r.transpose, patterns |-> d]
  BY DEF TrackTo, s
<1>8. TrackTo(r) \in DocTracks
  <2>1. r.channel \in Int /\ r.transpose \in Int
    BY <1>1
  <2>2. QED
    BY <1>1, <1>4, <1>7, <2>1 DEF DocTracks
<1>9. Channel(r.channel) = r.channel /\ Transpose(r.transpose) = r.transpose
  BY <1>1 DEF Channel, Transpose, Clamp
<1>10. TrackFrom(TrackTo(r)) = [id |-> r.id, channel |-> Channel(r.channel),
                               transpose |-> Transpose(r.transpose),
                               patterns |-> FoldLeft(AddWithId, <<>>, t)]
  BY <1>7 DEF TrackFrom
<1> HIDE DEF d, t
<1>11. QED
  BY <1>1, <1>5, <1>6, <1>8, <1>9, <1>10

\* Loading what was saved gives what was saved, whatever the project.
LEMMA SavedLoads ==
  ASSUME NEW prj, WellFormed(prj)
  PROVE  IsDocument(ProjectTo(prj)) /\ ProjectFrom(ProjectTo(prj)) = prj
<1> DEFINE s == prj.tracks
           m == prj.mappings
           d == [i \in DOMAIN s |-> TrackTo(s[i])]
           t == [i \in DOMAIN d |-> TrackFrom(d[i])]
           doc == ProjectTo(prj)
<1>1. /\ s \in Uniques(Tracks) /\ m \in Labelled(Mappings)
      /\ prj.tempo \in 20 .. 999 /\ prj.meter \in Meters
      /\ prj = [tempo |-> prj.tempo, meter |-> prj.meter, tracks |-> s,
                arrangement |-> prj.arrangement, mappings |-> m, loop |-> prj.loop]
  BY DEF WellFormed
<1>2. s \in Seq(Tracks) /\ m \in Seq(Mappings)
  BY <1>1 DEF Uniques, Labelled
<1> HIDE DEF s, m
<1>3. Len(s) \in Nat /\ DOMAIN s = 1 .. Len(s) /\ \A i \in DOMAIN s : s[i] \in Tracks
  BY <1>2, IsList
<1>4. d \in Seq(DocTracks)
  <2>1. d = [i \in DOMAIN s |-> d[i]]
    OBVIOUS
  <2>2. \A i \in DOMAIN s : s[i] \in Tracks => d[i] \in DocTracks
    BY SavedTrack
  <2> HIDE DEF d
  <2>3. QED
    BY <1>2, <2>1, <2>2, MadeOf
<1>5. t = s
  <2>1. \A i \in DOMAIN s : TrackFrom(TrackTo(s[i])) = s[i]
    BY <1>3, SavedTrack
  <2>2. s = [i \in DOMAIN s |-> s[i]]
    BY <1>2, <1>3, SeqDef
  <2>3. QED
    BY <2>1, <2>2
<1>6. FoldLeft(AddWithId, <<>>, s) = s /\ FoldLeft(AddPortMapping, <<>>, m) = m
  BY <1>1, EntriesKept, MappingsKept
<1>7. /\ doc.tempo = prj.tempo /\ doc.meter = prj.meter /\ doc.tracks = d
      /\ doc.arrangement = prj.arrangement /\ doc.mappings = m /\ doc.loop = {prj.loop}
  BY DEF ProjectTo, s, m
<1> HIDE DEF doc
<1>8. prj.tempo \in Int /\ prj.meter \in [num : Int, den : Int]
  BY <1>1 DEF Meters
<1>9. IsDocument(doc)
  BY <1>2, <1>4, <1>7, <1>8 DEF IsDocument
<1>10. Bpm(prj.tempo) = prj.tempo
  BY <1>1 DEF Bpm, Clamp
<1>11. TimeSignature(prj.meter.num, prj.meter.den) = prj.meter
  <2>1. prj.meter.num \in Int
    BY <1>8
  <2>2. QED
    BY <1>1, <2>1, MeterIs
<1>12. ProjectFrom(doc) =
          [tempo |-> Bpm(prj.tempo), meter |-> TimeSignature(prj.meter.num, prj.meter.den),
           tracks |-> FoldLeft(AddWithId, <<>>, t), arrangement |-> prj.arrangement,
           mappings |-> FoldLeft(AddPortMapping, <<>>, m), loop |-> prj.loop]
  <2>1. (CHOOSE x \in {prj.loop} : TRUE) = prj.loop
    OBVIOUS
  <2>2. QED
    BY <1>7, <2>1 DEF ProjectFrom
<1> HIDE DEF d, t
<1>13. QED
  BY <1>1, <1>5, <1>6, <1>9, <1>10, <1>11, <1>12 DEF doc

-----------------------------------------------------------------------------
(* Edits of a pattern's notes.                                             *)

\* The places of a project's patterns.
At(prj, a, b) == a \in DOMAIN prj.tracks /\ b \in DOMAIN prj.tracks[a].patterns

LEMMA FoundAt ==
  ASSUME NEW prj, NEW x, NEW y, NEW at
  PROVE  at \in FindPattern(prj, x, y) <=>
            \E a, b : /\ At(prj, a, b) /\ at = <<a, b>>
                      /\ prj.tracks[a].id = x /\ prj.tracks[a].patterns[b].id = y
<1> DEFINE All == UNION {{<<t, p>> : p \in DOMAIN prj.tracks[t].patterns} : t \in DOMAIN prj.tracks}
<1>1. at \in All <=>
         \E a \in DOMAIN prj.tracks : \E b \in DOMAIN prj.tracks[a].patterns : at = <<a, b>>
  OBVIOUS
<1>2. at \in FindPattern(prj, x, y) <=>
         /\ at \in All
         /\ prj.tracks[at[1]].id = x
         /\ prj.tracks[at[1]].patterns[at[2]].id = y
  BY DEF FindPattern
<1> HIDE DEF All
<1>3. QED
  BY <1>1, <1>2 DEF At

LEMMA NoteIn ==
  ASSUME NEW prj, NEW x
  PROVE  x \in NotesOf(prj) <=>
            \E a, b : /\ At(prj, a, b)
                      /\ \E e \in Range(prj.tracks[a].patterns[b].notes) :
                            x = [pattern |-> <<a, b>>, note |-> e]
<1>1. x \in NotesOf(prj) <=>
         \E a \in DOMAIN prj.tracks : \E b \in DOMAIN prj.tracks[a].patterns :
            \E n \in DOMAIN prj.tracks[a].patterns[b].notes :
               x = [pattern |-> <<a, b>>, note |-> prj.tracks[a].patterns[b].notes[n]]
  BY DEF NotesOf
<1>2. QED
  BY <1>1 DEF At, Range

\* Where the parts of a well-formed project are.
LEMMA WellFormedAt ==
  ASSUME NEW prj, WellFormed(prj), NEW a, NEW b, At(prj, a, b)
  PROVE  /\ prj.tracks \in Uniques(Tracks) /\ prj.tracks[a] \in Tracks
         /\ prj.tracks[a].patterns \in Uniques(Patterns)
         /\ prj.tracks[a].patterns[b] \in Patterns
         /\ prj.tracks[a].patterns[b].notes \in Lists(Notes)
<1>1. prj.tracks \in Uniques(Tracks) /\ prj.tracks \in Seq(Tracks)
  BY DEF WellFormed, Uniques
<1>2. prj.tracks[a] \in Tracks
  BY <1>1, IsList DEF At
<1>3. prj.tracks[a].patterns \in Uniques(Patterns)
  BY <1>2 DEF Tracks
<1>4. prj.tracks[a].patterns \in Seq(Patterns)
  BY <1>3 DEF Uniques
<1>5. prj.tracks[a].patterns[b] \in Patterns
  BY <1>4, IsList DEF At
<1>6. QED
  BY <1>1, <1>2, <1>3, <1>5 DEF Patterns

\* What WithNotes changes, and what not.
Rewritten(prj, new, a, b, notes) ==
    /\ new = [prj EXCEPT !.tracks = new.tracks]
    /\ DOMAIN new.tracks = DOMAIN prj.tracks
    /\ \A c \in DOMAIN prj.tracks :
          /\ c # a => new.tracks[c] = prj.tracks[c]
          /\ new.tracks[c].id = prj.tracks[c].id
          /\ DOMAIN new.tracks[c].patterns = DOMAIN prj.tracks[c].patterns
    /\ new.tracks[a] = [prj.tracks[a] EXCEPT !.patterns = new.tracks[a].patterns]
    /\ \A d \in DOMAIN prj.tracks[a].patterns :
          d # b => new.tracks[a].patterns[d] = prj.tracks[a].patterns[d]
    /\ new.tracks[a].patterns[b] = [prj.tracks[a].patterns[b] EXCEPT !.notes = notes]
    /\ new.tracks = [prj.tracks EXCEPT ![a] = new.tracks[a]]
    /\ new.tracks[a].patterns =
          [prj.tracks[a].patterns EXCEPT ![b] = new.tracks[a].patterns[b]]

LEMMA WithNotesIs ==
  ASSUME NEW prj, WellFormed(prj), NEW a, NEW b, At(prj, a, b), NEW notes
  PROVE  Rewritten(prj, WithNotes(prj, <<a, b>>, notes), a, b, notes)
<1> DEFINE ts == prj.tracks
           new == WithNotes(prj, <<a, b>>, notes)
           r == [ts[a] EXCEPT !.patterns[b].notes = notes]
           q == [ts[a].patterns[b] EXCEPT !.notes = notes]
<1>1. "tracks" \in DOMAIN prj /\ a \in DOMAIN ts /\ b \in DOMAIN ts[a].patterns
  BY DEF WellFormed, At
<1>2. "patterns" \in DOMAIN ts[a]
  BY WellFormedAt DEF Tracks
<1>3. new = [prj EXCEPT !.tracks = [ts EXCEPT ![a] = r]]
  BY DEF WithNotes
<1>4. r = [ts[a] EXCEPT !.patterns = [ts[a].patterns EXCEPT ![b] = q]]
  OBVIOUS
<1> HIDE DEF new, r, q
<1>5. new.tracks = [ts EXCEPT ![a] = r]
  BY <1>1, <1>3
<1>6. r.patterns = [ts[a].patterns EXCEPT ![b] = q]
  BY <1>2, <1>4
<1>7. new.tracks[a] = r /\ new.tracks[a].patterns[b] = q
  BY <1>1, <1>5, <1>6
<1>8. r.id = ts[a].id /\ DOMAIN r.patterns = DOMAIN ts[a].patterns
  <2>1. "id" \in DOMAIN ts[a]
    BY WellFormedAt DEF Tracks
  <2>2. QED
    BY <1>4, <1>6, <2>1
<1>9. /\ new = [prj EXCEPT !.tracks = new.tracks]
      /\ r = [ts[a] EXCEPT !.patterns = r.patterns]
  BY <1>3, <1>4, <1>5, <1>6
<1>10. \A c \in DOMAIN ts : c # a => new.tracks[c] = ts[c]
  BY <1>5
<1>11. \A d \in DOMAIN ts[a].patterns : d # b => r.patterns[d] = ts[a].patterns[d]
  BY <1>6
<1>12. QED
  BY <1>1, <1>5, <1>6, <1>7, <1>8, <1>9, <1>10, <1>11 DEF new, q, Rewritten

\* An entry may be replaced by one with its id.
LEMMA EntryReplaced ==
  ASSUME NEW S, NEW s \in Uniques(S), NEW i \in DOMAIN s, NEW e \in S, e.id = s[i].id
  PROVE  [s EXCEPT ![i] = e] \in Uniques(S)
<1> DEFINE new == [s EXCEPT ![i] = e]
<1>1. s \in Seq(S) /\ DOMAIN s = 1 .. Len(s)
  BY IsList DEF Uniques
<1>2. new \in Seq(S)
  BY <1>1, ExceptSeq
<1>3. DOMAIN new = DOMAIN s /\ \A j \in DOMAIN s : new[j].id = s[j].id
  OBVIOUS
<1> HIDE DEF new
<1>4. Proper(new)
  BY <1>3 DEF Uniques, Proper
<1>5. QED
  BY <1>2, <1>4 DEF Uniques, new

LEMMA EditWellFormed ==
  ASSUME NEW prj, WellFormed(prj), NEW a, NEW b, At(prj, a, b), NEW notes \in Lists(Notes)
  PROVE  WellFormed(WithNotes(prj, <<a, b>>, notes))
<1> DEFINE new == WithNotes(prj, <<a, b>>, notes)
           track == prj.tracks[a]
           pattern == track.patterns[b]
<1>1. /\ prj.tracks \in Uniques(Tracks) /\ track \in Tracks
      /\ track.patterns \in Uniques(Patterns) /\ pattern \in Patterns
  BY WellFormedAt
<1>2. /\ new = [prj EXCEPT !.tracks = new.tracks]
      /\ new.tracks[a] = [track EXCEPT !.patterns = new.tracks[a].patterns]
      /\ new.tracks[a].patterns[b] = [pattern EXCEPT !.notes = notes]
      /\ new.tracks = [prj.tracks EXCEPT ![a] = new.tracks[a]]
      /\ new.tracks[a].patterns = [track.patterns EXCEPT ![b] = new.tracks[a].patterns[b]]
  <2>1. Rewritten(prj, new, a, b, notes)
    BY WithNotesIs
  <2> HIDE DEF new
  <2>2. QED
    BY <2>1 DEF Rewritten
<1> HIDE DEF new, track, pattern
<1>3. /\ new.tracks[a].patterns[b] \in Patterns
      /\ new.tracks[a].patterns[b].id = pattern.id
  BY <1>1, <1>2 DEF Patterns
<1>4. new.tracks[a].patterns \in Uniques(Patterns)
  <2> DEFINE s == track.patterns
             e == new.tracks[a].patterns[b]
  <2>1. b \in DOMAIN s /\ pattern = s[b]
    BY DEF At, track, pattern
  <2>2. s \in Uniques(Patterns) /\ e \in Patterns /\ e.id = s[b].id
    BY <1>1, <1>3, <2>1
  <2>3. new.tracks[a].patterns = [s EXCEPT ![b] = e]
    BY <1>2
  <2> HIDE DEF s, e
  <2>4. QED
    BY <2>1, <2>2, <2>3, EntryReplaced
<1>5. new.tracks[a] \in Tracks /\ new.tracks[a].id = track.id
  BY <1>1, <1>2, <1>4 DEF Tracks
<1>6. new.tracks \in Uniques(Tracks)
  <2>1. a \in DOMAIN prj.tracks /\ track = prj.tracks[a]
    BY DEF At, track
  <2>2. QED
    BY <1>1, <1>2, <1>5, <2>1, EntryReplaced
<1>7. WellFormed(new)
  BY <1>2, <1>6 DEF WellFormed
<1>8. QED
  BY <1>7 DEF new

\* The notes after an edit: those of the pattern, and the others as they were.
LEMMA EditedNotes ==
  ASSUME NEW prj, WellFormed(prj), NEW a, NEW b, At(prj, a, b), NEW notes, NEW x
  PROVE  x \in NotesOf(WithNotes(prj, <<a, b>>, notes)) <=>
            \/ x \in NotesOf(prj) /\ x.pattern # <<a, b>>
            \/ \E e \in Range(notes) : x = [pattern |-> <<a, b>>, note |-> e]
<1> DEFINE new == WithNotes(prj, <<a, b>>, notes)
<1>1. /\ DOMAIN new.tracks = DOMAIN prj.tracks
      /\ \A c \in DOMAIN prj.tracks :
            /\ c # a => new.tracks[c] = prj.tracks[c]
            /\ DOMAIN new.tracks[c].patterns = DOMAIN prj.tracks[c].patterns
      /\ \A d \in DOMAIN prj.tracks[a].patterns :
            d # b => new.tracks[a].patterns[d] = prj.tracks[a].patterns[d]
      /\ new.tracks[a].patterns[b] = [prj.tracks[a].patterns[b] EXCEPT !.notes = notes]
  <2>1. Rewritten(prj, new, a, b, notes)
    BY WithNotesIs
  <2> HIDE DEF new
  <2>2. QED
    BY <2>1 DEF Rewritten
<1>2. new.tracks[a].patterns[b].notes = notes
  <2>1. "notes" \in DOMAIN prj.tracks[a].patterns[b]
    BY WellFormedAt DEF Patterns
  <2>2. QED
    BY <1>1, <2>1
<1> HIDE DEF new
<1>3. \A c, d : At(new, c, d) <=> At(prj, c, d)
  BY <1>1 DEF At
<1>4. \A c, d : At(prj, c, d) /\ <<c, d>> # <<a, b>> =>
         new.tracks[c].patterns[d].notes = prj.tracks[c].patterns[d].notes
  BY <1>1 DEF At
<1>5. ASSUME x \in NotesOf(new)
      PROVE  \/ x \in NotesOf(prj) /\ x.pattern # <<a, b>>
             \/ \E e \in Range(notes) : x = [pattern |-> <<a, b>>, note |-> e]
  <2>1. PICK c, d : /\ At(new, c, d)
                    /\ \E e \in Range(new.tracks[c].patterns[d].notes) :
                          x = [pattern |-> <<c, d>>, note |-> e]
    BY <1>5, NoteIn
  <2>2. CASE <<c, d>> = <<a, b>>
    BY <1>2, <2>1, <2>2
  <2>3. CASE <<c, d>> # <<a, b>>
    <3>1. /\ At(prj, c, d)
          /\ \E e \in Range(prj.tracks[c].patterns[d].notes) : x = [pattern |-> <<c, d>>, note |-> e]
      BY <1>3, <1>4, <2>1, <2>3
    <3>2. x \in NotesOf(prj)
      BY <3>1, NoteIn
    <3>3. x.pattern = <<c, d>>
      BY <3>1
    <3>4. QED
      BY <2>3, <3>2, <3>3
  <2>4. QED
    BY <2>2, <2>3
<1>6. ASSUME x \in NotesOf(prj), x.pattern # <<a, b>> PROVE x \in NotesOf(new)
  <2>1. PICK c, d : /\ At(prj, c, d)
                    /\ \E e \in Range(prj.tracks[c].patterns[d].notes) :
                          x = [pattern |-> <<c, d>>, note |-> e]
    BY <1>6, NoteIn
  <2>2. <<c, d>> # <<a, b>>
    BY <1>6, <2>1
  <2>3. /\ At(new, c, d)
        /\ \E e \in Range(new.tracks[c].patterns[d].notes) : x = [pattern |-> <<c, d>>, note |-> e]
    BY <1>3, <1>4, <2>1, <2>2
  <2>4. QED
    BY <2>3, NoteIn
<1>7. ASSUME NEW e \in Range(notes), x = [pattern |-> <<a, b>>, note |-> e] PROVE x \in NotesOf(new)
  <2>1. At(new, a, b) /\ e \in Range(new.tracks[a].patterns[b].notes)
    BY <1>2, <1>3
  <2>2. QED
    BY <1>7, <2>1, NoteIn
<1>8. QED
  BY <1>5, <1>6, <1>7 DEF new

\* The note entries other than x's note.
OthersOf(notes, x) == {n \in notes : n.pattern # x.pattern \/ n.note.id # x.note.id}

\* An edit that leaves the notes with other ids to the pattern leaves every
\* other note of the project as it was.
LEMMA LocalEdit ==
  ASSUME NEW prj, WellFormed(prj), NEW a, NEW b, At(prj, a, b), NEW notes, NEW id,
         \A e : e.id # id => (e \in Range(notes) <=> e \in Range(prj.tracks[a].patterns[b].notes)),
         NEW x, x.pattern = <<a, b>>, x.note.id = id
  PROVE  OthersOf(NotesOf(prj), x) = OthersOf(NotesOf(WithNotes(prj, <<a, b>>, notes)), x)
<1> DEFINE old == prj.tracks[a].patterns[b].notes
           new == WithNotes(prj, <<a, b>>, notes)
<1>1. ASSUME NEW y, y.pattern # <<a, b>> PROVE y \in NotesOf(new) <=> y \in NotesOf(prj)
  BY <1>1, EditedNotes
<1>2. ASSUME NEW y, y.pattern = <<a, b>>
      PROVE  /\ y \in NotesOf(prj) <=> \E e \in Range(old) : y = [pattern |-> <<a, b>>, note |-> e]
             /\ y \in NotesOf(new) <=> \E e \in Range(notes) : y = [pattern |-> <<a, b>>, note |-> e]
  <2>1. y \in NotesOf(new) <=> \E e \in Range(notes) : y = [pattern |-> <<a, b>>, note |-> e]
    BY <1>2, EditedNotes
  <2>2. ASSUME y \in NotesOf(prj)
        PROVE  \E e \in Range(old) : y = [pattern |-> <<a, b>>, note |-> e]
    <3>1. PICK c, d : /\ At(prj, c, d)
                      /\ \E e \in Range(prj.tracks[c].patterns[d].notes) :
                            y = [pattern |-> <<c, d>>, note |-> e]
      BY <2>2, NoteIn
    <3>2. c = a /\ d = b
      BY <1>2, <3>1
    <3>3. QED
      BY <3>1, <3>2
  <2>3. ASSUME NEW e \in Range(old), y = [pattern |-> <<a, b>>, note |-> e]
        PROVE  y \in NotesOf(prj)
    BY <2>3, NoteIn
  <2>4. QED
    BY <2>1, <2>2, <2>3
<1> HIDE DEF new
<1>3. ASSUME NEW y, y.pattern = <<a, b>>, y.note.id # id
      PROVE  y \in NotesOf(new) <=> y \in NotesOf(prj)
  <2> HIDE DEF old
  <2>1. \A e : y = [pattern |-> <<a, b>>, note |-> e] => e.id # id
    BY <1>3
  <2>2. \A e : e.id # id => (e \in Range(notes) <=> e \in Range(old))
    BY DEF old
  <2>3. QED
    BY <1>2, <1>3, <2>1, <2>2
<1>4. \A y : y \in OthersOf(NotesOf(prj), x) <=> y \in OthersOf(NotesOf(new), x)
  BY <1>1, <1>3 DEF OthersOf
<1>5. QED
  BY <1>4 DEF new, OthersOf

-----------------------------------------------------------------------------
(* The ids of a project's notes.                                           *)

LEMMA NoteTyped ==
  ASSUME NEW prj, WellFormed(prj), NEW n \in NotesOf(prj)
  PROVE  n.note \in Notes /\ n.note.id \in Nat /\ IsValid(n.note.id)
<1>1. PICK a, b : /\ At(prj, a, b)
                  /\ \E e \in Range(prj.tracks[a].patterns[b].notes) :
                        n = [pattern |-> <<a, b>>, note |-> e]
  BY NoteIn
<1> DEFINE s == prj.tracks[a].patterns[b].notes
<1>2. s \in Lists(Notes)
  BY <1>1, WellFormedAt
<1> HIDE DEF s
<1>3. PICK i \in DOMAIN s : n = [pattern |-> <<a, b>>, note |-> s[i]]
  BY <1>1 DEF s, Range
<1>4. s[i] \in Notes /\ IsValid(s[i].id)
  BY <1>2, IsList DEF Lists, Proper
<1>5. QED
  BY <1>3, <1>4 DEF Notes

LEMMA FiniteRange ==
  ASSUME NEW f, IsFiniteSet(DOMAIN f), f = [x \in DOMAIN f |-> f[x]]
  PROVE  IsFiniteSet(Range(f))
<1>1. f \in Surjection(DOMAIN f, Range(f))
  BY DEF Surjection, Range
<1>2. QED
  BY <1>1, FS_Surjection

LEMMA FiniteDomain == ASSUME NEW S, NEW s \in Seq(S) PROVE IsFiniteSet(DOMAIN s)
<1>1. Len(s) \in Nat /\ DOMAIN s = 1 .. Len(s)
  BY IsList
<1>2. IsFiniteSet(1 .. Len(s))
  BY <1>1, FS_Interval
<1>3. QED
  BY <1>1, <1>2

LEMMA InRange ==
  ASSUME NEW f
  PROVE  /\ \A x \in DOMAIN f : f[x] \in Range(f)
         /\ \A y \in Range(f) : \E x \in DOMAIN f : y = f[x]
  BY DEF Range

LEMMA FiniteEntries ==
  ASSUME NEW S, NEW s \in Seq(S), NEW f, DOMAIN f = DOMAIN s, f = [x \in DOMAIN f |-> f[x]]
  PROVE  IsFiniteSet(Range(f))
<1>1. IsFiniteSet(DOMAIN s)
  BY FiniteDomain
<1>2. QED
  BY <1>1, FiniteRange

LEMMA IdsFinite ==
  ASSUME NEW prj, WellFormed(prj)
  PROVE  IsFiniteSet({n.note.id : n \in NotesOf(prj)})
<1> DEFINE ids(p) == [i \in DOMAIN p.notes |-> p.notes[i].id]
           inPatterns(t) == [b \in DOMAIN t.patterns |-> Range(ids(t.patterns[b]))]
           inTracks == [a \in DOMAIN prj.tracks |-> UNION Range(inPatterns(prj.tracks[a]))]
           all == UNION Range(inTracks)
<1>1. ASSUME NEW p \in Patterns PROVE IsFiniteSet(Range(ids(p)))
  <2>1. p.notes \in Seq(Notes)
    BY DEF Patterns, Lists
  <2>2. DOMAIN ids(p) = DOMAIN p.notes /\ ids(p) = [x \in DOMAIN ids(p) |-> ids(p)[x]]
    OBVIOUS
  <2> HIDE DEF ids
  <2>3. QED
    BY <2>1, <2>2, FiniteEntries
<1>2. ASSUME NEW t \in Tracks PROVE IsFiniteSet(UNION Range(inPatterns(t)))
  <2>1. t.patterns \in Seq(Patterns)
    BY DEF Tracks, Uniques
  <2>2. \A b \in DOMAIN t.patterns : t.patterns[b] \in Patterns
    BY <2>1, IsList
  <2>3. /\ DOMAIN inPatterns(t) = DOMAIN t.patterns
        /\ inPatterns(t) = [x \in DOMAIN inPatterns(t) |-> inPatterns(t)[x]]
        /\ \A b \in DOMAIN t.patterns : inPatterns(t)[b] = Range(ids(t.patterns[b]))
    BY Zenon
  <2> HIDE DEF inPatterns, ids
  <2>4. IsFiniteSet(Range(inPatterns(t)))
    BY <2>1, <2>3, FiniteEntries
  <2>5. ASSUME NEW U \in Range(inPatterns(t)) PROVE IsFiniteSet(U)
    <3>1. PICK b \in DOMAIN inPatterns(t) : U = inPatterns(t)[b]
      BY InRange
    <3>2. U = Range(ids(t.patterns[b])) /\ t.patterns[b] \in Patterns
      BY <2>2, <2>3, <3>1, Zenon
    <3>3. IsFiniteSet(Range(ids(t.patterns[b])))
      BY <1>1, <3>2
    <3>4. QED
      BY <3>2, <3>3, Zenon
  <2>6. QED
    BY <2>4, <2>5, FS_UNION
<1>3. IsFiniteSet(all)
  <2>1. prj.tracks \in Seq(Tracks)
    BY DEF WellFormed, Uniques
  <2>2. \A a \in DOMAIN prj.tracks : prj.tracks[a] \in Tracks
    BY <2>1, IsList
  <2>3. /\ DOMAIN inTracks = DOMAIN prj.tracks
        /\ inTracks = [x \in DOMAIN inTracks |-> inTracks[x]]
        /\ \A a \in DOMAIN prj.tracks : inTracks[a] = UNION Range(inPatterns(prj.tracks[a]))
    BY Zenon
  <2> HIDE DEF inPatterns, inTracks
  <2>4. IsFiniteSet(Range(inTracks))
    BY <2>1, <2>3, FiniteEntries
  <2>5. ASSUME NEW U \in Range(inTracks) PROVE IsFiniteSet(U)
    <3>1. PICK a \in DOMAIN inTracks : U = inTracks[a]
      BY InRange
    <3>2. U = UNION Range(inPatterns(prj.tracks[a])) /\ prj.tracks[a] \in Tracks
      BY <2>2, <2>3, <3>1, Zenon
    <3>3. IsFiniteSet(UNION Range(inPatterns(prj.tracks[a])))
      BY <1>2, <3>2
    <3>4. QED
      BY <3>2, <3>3, Zenon
  <2>6. QED
    BY <2>4, <2>5, FS_UNION
<1>4. ASSUME NEW n \in NotesOf(prj) PROVE n.note.id \in all
  <2>1. PICK a, b : /\ At(prj, a, b)
                    /\ \E e \in Range(prj.tracks[a].patterns[b].notes) :
                          n = [pattern |-> <<a, b>>, note |-> e]
    BY NoteIn
  <2>2. PICK e \in Range(prj.tracks[a].patterns[b].notes) : n.note = e
    BY <2>1
  <2>3. PICK i \in DOMAIN prj.tracks[a].patterns[b].notes :
           prj.tracks[a].patterns[b].notes[i] = e
    BY InRange
  <2>4. /\ i \in DOMAIN ids(prj.tracks[a].patterns[b])
        /\ ids(prj.tracks[a].patterns[b])[i] = n.note.id
    BY <2>2, <2>3, Zenon
  <2> HIDE DEF ids
  <2>5. n.note.id \in Range(ids(prj.tracks[a].patterns[b]))
    BY <2>4, InRange
  <2>6. n.note.id \in UNION Range(inPatterns(prj.tracks[a]))
    <3> DEFINE f == inPatterns(prj.tracks[a])
    <3>1. b \in DOMAIN f /\ f[b] = Range(ids(prj.tracks[a].patterns[b]))
      BY <2>1 DEF At
    <3> HIDE DEF f
    <3>2. f[b] \in Range(f)
      BY <3>1, InRange
    <3>3. QED
      BY <2>5, <3>1, <3>2 DEF f
  <2> HIDE DEF inPatterns
  <2>7. a \in DOMAIN inTracks /\ inTracks[a] = UNION Range(inPatterns(prj.tracks[a]))
    BY <2>1 DEF At
  <2> HIDE DEF inTracks
  <2>8. inTracks[a] \in Range(inTracks)
    BY <2>7, InRange
  <2>9. QED
    BY <2>6, <2>7, <2>8
<1> HIDE DEF all
<1>5. {n.note.id : n \in NotesOf(prj)} \in SUBSET all
  BY <1>4
<1>6. QED
  BY <1>3, <1>5, FS_Subset

\* After a project was loaded the counter is at or beyond every id in it.
LEMMA BumpIs ==
  ASSUME NEW prj, WellFormed(prj), NEW counter \in Nat
  PROVE  /\ BumpNoteIds(counter, prj) \in Nat
         /\ counter <= BumpNoteIds(counter, prj)
         /\ \A n \in NotesOf(prj) : n.note.id <= BumpNoteIds(counter, prj)
<1> DEFINE used == {n.note.id : n \in NotesOf(prj)}
           ids == {counter} \cup used
<1>1. IsFiniteSet(used)
  BY IdsFinite
<1>2. used \subseteq Nat /\ \A n \in NotesOf(prj) : n.note.id \in used
  BY NoteTyped
<1> HIDE DEF used
<1>3. IsFiniteSet(ids)
  BY <1>1, FS_AddElement
<1>4. ids \subseteq Nat /\ ids # {}
  BY <1>2
<1>5. BumpNoteIds(counter, prj) = CHOOSE c \in ids : \A d \in ids : d <= c
  BY DEF BumpNoteIds, used
<1> HIDE DEF ids
<1>6. \E c \in ids : \A d \in ids : d <= c
  BY <1>3, <1>4, LargestNumber
<1>7. /\ BumpNoteIds(counter, prj) \in ids
      /\ \A d \in ids : d <= BumpNoteIds(counter, prj)
  BY <1>5, <1>6
<1>8. QED
  BY <1>2, <1>4, <1>7 DEF ids

-----------------------------------------------------------------------------
(* The controller: what is edited, saved and loaded is well formed.        *)

TypedDisk ==
    /\ DOMAIN disk = Paths
    /\ \A path \in Paths :
          /\ disk[path].kind \in {"absent", "torn", "malformed", "document"}
          /\ disk[path].kind = "document" => IsDocument(disk[path].doc)

\* No id of a note is beyond the counter.
IdsPassed == \A n \in NotesOf(project) : IsValid(n.note.id) /\ n.note.id <= noteIds

DataInv == WellFormed(project) /\ noteIds \in Nat /\ IdsPassed /\ TypedDisk

LEMMA EmptyFresh == ASSUME NEW n \in NotesOf(EmptyProject) PROVE FALSE
  BY DEF NotesOf, EmptyProject

\* The program starts with an empty project, over whatever is on the disk.
LEMMA DataEmptied ==
  ASSUME TypedDisk', project' = EmptyProject, noteIds' \in Nat
  PROVE  DataInv'
  BY EmptyWellFormed, EmptyFresh DEF DataInv, IdsPassed

\* What a step writes to a path.
LEMMA DataWritten ==
  ASSUME TypedDisk, NEW path, NEW content, disk' = [disk EXCEPT ![path] = content],
         content.kind \in {"absent", "torn", "malformed", "document"},
         content.kind = "document" => IsDocument(content.doc)
  PROVE  TypedDisk'
  BY DEF TypedDisk

LEMMA DataSame ==
  ASSUME DataInv, UNCHANGED <<project, noteIds>>, TypedDisk'
  PROVE  DataInv'
  BY DEF DataInv, IdsPassed

LEMMA DataSaved ==
  ASSUME DataInv, NEW path, SaveProject(path) \/ SaveCutShort(path)
  PROVE  DataInv'
<1>1. UNCHANGED <<project, noteIds>>
  BY DEF SaveProject, SaveCutShort, memoryVars
<1>2. TypedDisk'
  <2>1. CASE SaveProject(path)
    <3>1. IsDocument(ProjectTo(project))
      BY SavedLoads DEF DataInv
    <3>2. /\ File(ProjectTo(project)).kind = "document"
          /\ File(ProjectTo(project)).doc = ProjectTo(project)
      BY DEF File
    <3>3. QED
      BY <2>1, <3>1, <3>2, DataWritten DEF SaveProject, DataInv
  <2>2. CASE SaveCutShort(path)
    BY <2>2, DataWritten DEF SaveCutShort, DataInv, Torn
  <2>3. QED
    BY <2>1, <2>2
<1>3. QED
  BY <1>1, <1>2, DataSame

LEMMA DataOpened ==
  ASSUME DataInv, NEW path \in Paths, OpenProject(path)
  PROVE  DataInv'
<1> DEFINE loaded == ProjectFrom(disk[path].doc)
<1>1. /\ project' = loaded /\ noteIds' = BumpNoteIds(noteIds, loaded) /\ disk' = disk
      /\ disk[path].kind = "document"
  BY DEF OpenProject, Loadable
<1>2. WellFormed(loaded)
  BY <1>1, LoadedWellFormed DEF DataInv, TypedDisk
<1> HIDE DEF loaded
<1>3. /\ noteIds' \in Nat
      /\ \A n \in NotesOf(loaded) : n.note.id <= noteIds'
  BY <1>1, <1>2, BumpIs DEF DataInv
<1>4. \A n \in NotesOf(loaded) : IsValid(n.note.id)
  BY <1>2, NoteTyped
<1>5. TypedDisk'
  BY <1>1 DEF DataInv, TypedDisk
<1>6. QED
  BY <1>1, <1>2, <1>3, <1>4, <1>5 DEF DataInv, IdsPassed

\* A note edit gives one pattern a list of notes that differs from the one it
\* had in the entries with one id, which is no id the counter will hand out; an
\* entry that was not there is e.
OneNote(a, b, notes, id, e) ==
    LET old == project.tracks[a].patterns[b].notes
    IN /\ At(project, a, b)
       /\ project' = WithNotes(project, <<a, b>>, notes)
       /\ notes \in Lists(Notes)
       /\ \A x : x.id # id => (x \in Range(notes) <=> x \in Range(old))
       /\ \A x \in Range(notes) : x = e \/ x \in Range(old)
       /\ HasId(old, id) \/ HasId(notes, id)
       /\ noteIds' \in Nat /\ noteIds <= noteIds' /\ id <= noteIds'

\* An id a pattern has was handed out, or passed when the file was loaded.
LEMMA HeldId ==
  ASSUME DataInv, NEW a, NEW b, At(project, a, b), NEW id,
         HasId(project.tracks[a].patterns[b].notes, id)
  PROVE  id \in Nat /\ id <= noteIds
<1> DEFINE s == project.tracks[a].patterns[b].notes
<1>1. PICK i \in DOMAIN s : s[i].id = id
  BY DEF HasId
<1>2. [pattern |-> <<a, b>>, note |-> s[i]] \in NotesOf(project)
  BY <1>1, NoteIn, InRange
<1>3. QED
  BY <1>1, <1>2, NoteTyped DEF DataInv, IdsPassed

\* What is drawn or moved, before it is a note of a pattern.
Sketches == [start : Int, length : Int, pitch : 0 .. 127, velocity : 0 .. 127]

NextNote(note) ==
    [id |-> noteIds + 1, start |-> note.start, length |-> note.length,
     pitch |-> note.pitch, velocity |-> note.velocity]

LEMMA AddedOne ==
  ASSUME DataInv, NEW t, NEW p, NEW note \in Sketches, AddNote(t, p, note)
  PROVE  \E a, b, notes : /\ <<a, b>> \in FindPattern(project, t, p)
                          /\ OneNote(a, b, notes, noteIds + 1, NextNote(note))
<1> DEFINE e == NextNote(note)
<1>1. PICK at \in FindPattern(project, t, p) :
         Edited(WithNotes(project, at, InsertByStart(PatternAt(project, at).notes, e)))
  BY DEF AddNote, NextNote
<1>2. PICK a, b : At(project, a, b) /\ at = <<a, b>>
  BY <1>1, FoundAt
<1> DEFINE s == project.tracks[a].patterns[b].notes
           notes == InsertByStart(s, e)
<1>3. project' = WithNotes(project, <<a, b>>, notes)
  BY <1>1, <1>2 DEF Edited, PatternAt
<1>4. s \in Lists(Notes)
  BY <1>2, WellFormedAt DEF DataInv
<1>5. e \in Notes /\ e.id = noteIds + 1 /\ IsValid(e.id)
  BY DEF DataInv, Sketches, NextNote, Notes, IsValid
<1>6. ~HasId(s, e.id)
  <2> SUFFICES ASSUME NEW i \in DOMAIN s, s[i].id = noteIds + 1 PROVE FALSE
    BY <1>5 DEF HasId
  <2>1. [pattern |-> <<a, b>>, note |-> s[i]] \in NotesOf(project)
    BY <1>2, NoteIn, InRange
  <2>2. s[i].id <= noteIds
    BY <2>1 DEF DataInv, IdsPassed
  <2>3. QED
    BY <2>2 DEF DataInv
<1> HIDE DEF e, s
<1>7. /\ notes \in Lists(Notes) /\ Range(notes) = Range(s) \cup {e}
  BY <1>4, <1>5, <1>6, NotesStart, InsertIs, InsertedProper, InsertedRange DEF Lists
<1> HIDE DEF notes
<1>8. HasId(notes, e.id)
  <2>1. e \in Range(notes)
    BY <1>7
  <2>2. PICK i \in DOMAIN notes : e = notes[i]
    BY <2>1, InRange
  <2>3. QED
    BY <2>2 DEF HasId
<1>9. noteIds' = noteIds + 1
  BY DEF AddNote
<1>10. OneNote(a, b, notes, noteIds + 1, e)
  BY <1>2, <1>3, <1>5, <1>7, <1>8, <1>9 DEF OneNote, DataInv, s
<1>11. QED
  BY <1>1, <1>2, <1>10 DEF e

LEMMA RemovedOne ==
  ASSUME DataInv, NEW t, NEW p, NEW n, RemoveNote(t, p, n)
  PROVE  \E a, b, notes :
            /\ <<a, b>> \in FindPattern(project, t, p)
            /\ \E e \in Range(project.tracks[a].patterns[b].notes) : OneNote(a, b, notes, n, e)
<1>1. PICK at \in FindPattern(project, t, p) :
         /\ HasId(PatternAt(project, at).notes, n)
         /\ Edited(WithNotes(project, at, RemoveNoteFrom(PatternAt(project, at).notes, n)))
  BY DEF RemoveNote
<1>2. PICK a, b : At(project, a, b) /\ at = <<a, b>>
  BY <1>1, FoundAt
<1> DEFINE s == project.tracks[a].patterns[b].notes
           notes == RemoveNoteFrom(s, n)
<1>3. HasId(s, n) /\ project' = WithNotes(project, <<a, b>>, notes)
  BY <1>1, <1>2 DEF Edited, PatternAt
<1>4. s \in Lists(Notes)
  BY <1>2, WellFormedAt DEF DataInv
<1>5. n <= noteIds
  BY <1>2, <1>3, HeldId
<1> HIDE DEF s
<1>6. /\ notes \in Lists(Notes) /\ Range(notes) \subseteq Range(s)
      /\ \A x \in Range(s) : x.id # n => x \in Range(notes)
  BY <1>3, <1>4, NotesStart, RemovedIs DEF Lists
<1> HIDE DEF notes
<1>7. PICK e : e \in Range(s)
  BY <1>3, InRange DEF HasId
<1>8. OneNote(a, b, notes, n, e)
  BY <1>2, <1>3, <1>5, <1>6 DEF OneNote, DataInv, s, RemoveNote
<1>9. QED
  BY <1>1, <1>2, <1>7, <1>8 DEF s

\* Fields of a note that a change may give, with values of their types.
IsChange(fields) ==
    /\ DOMAIN fields \subseteq {"start", "length", "pitch", "velocity"}
    /\ "start" \in DOMAIN fields => fields.start \in Int
    /\ "length" \in DOMAIN fields => fields.length \in Int
    /\ "pitch" \in DOMAIN fields => fields.pitch \in 0 .. 127
    /\ "velocity" \in DOMAIN fields => fields.velocity \in 0 .. 127

LEMMA ChangedNote ==
  ASSUME NEW e \in Notes, NEW fields, IsChange(fields)
  PROVE  WithFields(e, fields) \in Notes /\ WithFields(e, fields).id = e.id
<1> DEFINE new == WithFields(e, fields)
<1>1. DOMAIN e = {"id", "start", "length", "pitch", "velocity"}
  BY DEF Notes
<1>2. DOMAIN new = {"id", "start", "length", "pitch", "velocity"}
  BY <1>1 DEF WithFields
<1>3. \A x \in DOMAIN new : new[x] = IF x \in DOMAIN fields THEN fields[x] ELSE e[x]
  BY DEF WithFields
<1>4. new = [x \in DOMAIN new |-> new[x]]
  BY DEF WithFields
<1> HIDE DEF new
<1>5. new = [id |-> new.id, start |-> new.start, length |-> new.length,
             pitch |-> new.pitch, velocity |-> new.velocity]
  BY <1>2, <1>4
<1>6. /\ new.id = IF "id" \in DOMAIN fields THEN fields.id ELSE e.id
      /\ new.start = IF "start" \in DOMAIN fields THEN fields.start ELSE e.start
      /\ new.length = IF "length" \in DOMAIN fields THEN fields.length ELSE e.length
      /\ new.pitch = IF "pitch" \in DOMAIN fields THEN fields.pitch ELSE e.pitch
      /\ new.velocity = IF "velocity" \in DOMAIN fields THEN fields.velocity ELSE e.velocity
  BY <1>2, <1>3, Zenon
<1>7. /\ e.id \in Nat /\ e.start \in Int /\ e.length \in Int
      /\ e.pitch \in 0 .. 127 /\ e.velocity \in 0 .. 127
  BY DEF Notes
<1>8. /\ new.id = e.id /\ new.start \in Int /\ new.length \in Int
      /\ new.pitch \in 0 .. 127 /\ new.velocity \in 0 .. 127 /\ e.id \in Nat
  BY <1>6, <1>7 DEF IsChange
<1>9. QED
  BY <1>5, <1>7, <1>8 DEF new, Notes

LEMMA ChangedOne ==
  ASSUME DataInv, NEW t, NEW p, NEW n, NEW fields, IsChange(fields),
         ChangeNote(t, p, n, fields)
  PROVE  \E a, b, notes :
            /\ <<a, b>> \in FindPattern(project, t, p)
            /\ \E o \in Range(project.tracks[a].patterns[b].notes) :
                  o.id = n /\ OneNote(a, b, notes, n, WithFields(o, fields))
<1>1. PICK at \in FindPattern(project, t, p) :
         LET old == PatternAt(project, at).notes
         IN /\ HasId(old, n)
            /\ project' = WithNotes(project, at,
                             UpdateNote(old, WithFields(old[IndexOf(old, n)], fields)))
  BY DEF ChangeNote, Edited
<1>2. PICK a, b : At(project, a, b) /\ at = <<a, b>>
  BY FoundAt
<1> DEFINE s == project.tracks[a].patterns[b].notes
           o == s[IndexOf(s, n)]
           e == WithFields(o, fields)
           notes == UpdateNote(s, e)
<1>3. HasId(s, n) /\ project' = WithNotes(project, <<a, b>>, notes)
  BY <1>1, <1>2, Zenon DEF PatternAt
<1>4. s \in Lists(Notes)
  BY <1>2, WellFormedAt DEF DataInv
<1>5. n \in Nat /\ n <= noteIds
  BY <1>2, <1>3, HeldId
<1> HIDE DEF s
<1>6. IndexOf(s, n) \in DOMAIN s /\ s[IndexOf(s, n)].id = n
  BY <1>3 DEF HasId, IndexOf
<1>7. s[IndexOf(s, n)] \in Notes
  BY <1>4, <1>6, IsList DEF Lists
<1>8. e \in Notes /\ e.id = n
  BY <1>6, <1>7, ChangedNote
<1> HIDE DEF e
<1>9. /\ notes \in Lists(Notes)
      /\ \A x \in Range(notes) : x = e \/ x \in Range(s)
      /\ \A x \in Range(s) : x.id # n => x \in Range(notes)
  BY <1>3, <1>4, <1>8, NotesStart, UpdatedIs DEF Lists
<1> HIDE DEF notes
<1>10. OneNote(a, b, notes, n, e)
  BY <1>2, <1>3, <1>5, <1>8, <1>9 DEF OneNote, DataInv, s, ChangeNote
<1>11. o \in Range(s) /\ o.id = n
  BY <1>6, InRange
<1>12. QED
  <2>1. <<a, b>> \in FindPattern(project, t, p)
    BY <1>2
  <2>2. o.id = n /\ OneNote(a, b, notes, n, WithFields(o, fields))
    BY <1>10, <1>11 DEF e
  <2>3. o \in Range(project.tracks[a].patterns[b].notes)
    BY <1>11 DEF s
  <2> HIDE DEF o
  <2>4. QED
    BY <2>1, <2>2, <2>3, Zenon

LEMMA DataOneNote ==
  ASSUME DataInv, UNCHANGED disk, NEW a, NEW b, NEW notes, NEW id, NEW e,
         OneNote(a, b, notes, id, e)
  PROVE  DataInv'
<1> DEFINE old == project.tracks[a].patterns[b].notes
<1>1. /\ At(project, a, b) /\ project' = WithNotes(project, <<a, b>>, notes)
      /\ notes \in Lists(Notes)
      /\ \A x : x.id # id => (x \in Range(notes) <=> x \in Range(old))
      /\ noteIds' \in Nat /\ noteIds <= noteIds' /\ id <= noteIds'
  BY DEF OneNote
<1>2. WellFormed(project')
  BY <1>1, EditWellFormed DEF DataInv
<1>3. ASSUME NEW n \in NotesOf(project') PROVE IsValid(n.note.id) /\ n.note.id <= noteIds'
  <2>1. n.note.id \in Nat /\ IsValid(n.note.id)
    BY <1>2, NoteTyped
  <2>2. CASE n \in NotesOf(project)
    BY <1>1, <2>1, <2>2 DEF DataInv, IdsPassed
  <2>3. ASSUME NEW x \in Range(notes), n = [pattern |-> <<a, b>>, note |-> x], x.id # id
        PROVE  n \in NotesOf(project)
    <3>1. x \in Range(old)
      BY <1>1, <2>3
    <3>2. QED
      BY <1>1, <2>3, <3>1, NoteIn
  <2>4. \/ n \in NotesOf(project)
        \/ \E x \in Range(notes) : n = [pattern |-> <<a, b>>, note |-> x]
    BY <1>1, EditedNotes DEF DataInv
  <2>5. CASE n.note.id = id
    BY <1>1, <2>1, <2>5
  <2>6. QED
    BY <2>1, <2>2, <2>3, <2>4, <2>5
<1>4. TypedDisk'
  BY DEF DataInv, TypedDisk
<1>5. QED
  BY <1>1, <1>2, <1>3, <1>4 DEF DataInv, IdsPassed

LEMMA DataSetLoop == ASSUME DataInv, NEW region, SetLoop(region) PROVE DataInv'
<1>1. /\ project' = [project EXCEPT !.loop = region]
      /\ UNCHANGED <<noteIds, disk>>
  BY DEF SetLoop
<1>2. WellFormed(project')
  BY <1>1 DEF DataInv, WellFormed
<1>3. project'.tracks = project.tracks
  BY <1>1 DEF DataInv, WellFormed
<1>4. NotesOf(project') = NotesOf(project)
  BY <1>3 DEF NotesOf
<1>5. QED
  BY <1>1, <1>2, <1>4 DEF DataInv, IdsPassed, TypedDisk
=============================================================================
