--------------------------- MODULE PassportProofs ---------------------------
(***************************************************************************)
(* Proofs about Passport and PassportText, for any pages of any length,    *)
(* any answers and any clients.                                            *)
(*                                                                         *)
(* The properties speak of the page that is printed and of the response,   *)
(* with six steps between them: the client orders the blocks, four steps   *)
(* of the parser each add fields, the normalisation makes the response.    *)
(* ReadInv says what holds between them: the parser has the lines of the   *)
(* page in their order, and from its step on a field is what the operator  *)
(* of this step reads from the page. For Yandex v1 that is the correctness *)
(* of sortBlocksByY (SortRestores): after pass i the blocks up to place i  *)
(* are the topmost ones in order (Settled), and an increasing order of all *)
(* places is that of the page. The rest is about what is read from a page: *)
(* names by labels, names without labels, the pair of numbers, the dates.  *)
(*                                                                         *)
(* The recursive functions of the sort are shown to exist, and the facts   *)
(* about them to hold, by a least counterexample.                          *)
(***************************************************************************)
EXTENDS Passport, FiniteSetTheorems, SequenceTheorems, TLAPS

-----------------------------------------------------------------------------
(* Least and greatest elements.                                             *)

(* A set of naturals has a least one.                                       *)
LEMMA LeastNatural ==
  ASSUME NEW T \in SUBSET Nat, T # {}
  PROVE  \E n \in T : \A m \in T : n <= m
<1> DEFINE R == OpToRel(<, Nat)
<1>1. IsWellFoundedOn(R, Nat)
  BY NatLessThanWellFounded
<1>2. \A m, n \in Nat : m < n => <<m, n>> \in R
  BY DEF OpToRel
<1> HIDE DEF R
<1>3. PICK n \in T : \A m \in T : <<m, n>> \notin R
  BY <1>1, WFMin
<1>4. ASSUME NEW m \in T PROVE n <= m
  <2>1. m \in Nat /\ n \in Nat
    OBVIOUS
  <2>2. ~(m < n)
    BY <1>2, <1>3, <2>1
  <2> QED
    BY <2>1, <2>2
<1> QED BY <1>4

(* Min is the first of some places of a sequence, Max the last.             *)
LEMMA MinIsLeast ==
  ASSUME NEW S \in SUBSET Nat, S # {}
  PROVE  Min(S) \in S /\ \A m \in S : Min(S) <= m
<1>1. \E n \in S : \A m \in S : n <= m
  BY LeastNatural
<1> QED
  BY <1>1 DEF Min

(* The last of some places of a sequence is one of them.                    *)
LEMMA MaxIsGreatest ==
  ASSUME NEW n \in Nat, NEW S \in SUBSET (1..n), S # {}
  PROVE  Max(S) \in S /\ \A m \in S : m <= Max(S)
<1> DEFINE T == {n - m : m \in S}
<1>1. T \in SUBSET Nat /\ T # {}
  <2>1. \A m \in S : m \in Nat /\ m <= n
    OBVIOUS
  <2>2. \A m \in S : n - m \in Nat
    BY <2>1
  <2> QED
    BY <2>2
<1>2. PICK least \in T : \A m \in T : least <= m
  BY <1>1, LeastNatural
<1>3. PICK x \in S : least = n - x
  OBVIOUS
<1>4. ASSUME NEW m \in S PROVE x >= m
  <2>1. n - x <= n - m /\ m \in Int /\ x \in Int
    BY <1>2, <1>3
  <2> QED
    BY <2>1
<1> QED
  BY <1>4 DEF Max

(* The last of one place is this place.                                     *)
LEMMA MaxOfOne == ASSUME NEW x \in Int PROVE Max({x}) = x
BY DEF Max

(* What is on a line of a page.                                             *)
LEMMA LineType ==
  ASSUME NEW text \in Seq(Lines)
  PROVE  /\ Len(text) \in Nat /\ DOMAIN text = 1..Len(text)
         /\ \A i \in DOMAIN text :
              /\ text[i].name \in Names \union {None} /\ text[i].words \in SUBSET Keywords
              /\ text[i].dates \in Seq(Dates) /\ text[i].code \in Codes \union {None}
              /\ text[i].digits \in Seq(Numerals)
<1>1. Len(text) \in Nat /\ DOMAIN text = 1..Len(text) /\ \A i \in DOMAIN text : text[i] \in Lines
  BY LenProperties
<1>2. ASSUME NEW line \in Lines
      PROVE  /\ line.name \in Names \union {None} /\ line.words \in SUBSET Keywords
             /\ line.dates \in Seq(Dates) /\ line.code \in Codes \union {None}
             /\ line.digits \in Seq(Numerals)
  BY DEF Lines
<1> QED
  BY <1>1, <1>2

-----------------------------------------------------------------------------
(* Names by their labels.                                                   *)

(* A name on the line above is the nearest.                                 *)
LEMMA AboveIsNearest ==
  ASSUME NEW text \in Seq(Lines), NEW i \in 2..Len(text), text[i - 1].name # None,
         NEW dist \in Nat \ {0}
  PROVE  NameBeside(text, i, dist) = text[i - 1].name
<1> DEFINE near == {j \in 1..i - 1 : i - j <= dist /\ text[j].name # None}
<1>1. i - 1 \in near /\ near \in SUBSET (1..i - 1) /\ i - 1 \in Nat
  OBVIOUS
<1>2. Max(near) = i - 1
  <2>1. Max(near) \in near /\ i - 1 <= Max(near)
    BY <1>1, MaxIsGreatest
  <2> QED
    BY <1>1, <2>1
<1>3. NameAbove(text, i, dist) = text[i - 1].name
  BY <1>1, <1>2 DEF NameAbove
<1> QED
  BY <1>3 DEF NameBeside

(* A label that is on one line only gives the name above it.                *)
LEMMA ByOnlyLabel ==
  ASSUME NEW text \in Seq(Lines), NEW i \in 2..Len(text), text[i - 1].name # None,
         NEW dist \in Nat \ {0}, NEW field,
         \A j \in DOMAIN text : LabelOf(field, text[j]) <=> j = i
  PROVE  ByLabel(text, field, dist) = text[i - 1].name
<1> DEFINE found == {j \in DOMAIN text : /\ LabelOf(field, text[j])
                                         /\ NameBeside(text, j, dist) # None}
<1>1. NameBeside(text, i, dist) = text[i - 1].name /\ i \in DOMAIN text /\ i \in Int
  BY AboveIsNearest, LineType
<1>2. found = {i}
  BY <1>1
<1>3. Max(found) = i
  BY <1>1, <1>2, MaxOfOne
<1> QED
  BY <1>1, <1>2, <1>3 DEF ByLabel

(* On a standard page every label is.                                       *)
LEMMA LabelOnce ==
  ASSUME NEW text \in Seq(Lines), Standard(text), NEW label \in Labels
  PROVE  \E i \in 2..Len(text) :
           /\ text[i - 1].name # None /\ ValueOf(text, label) = text[i - 1].name
           /\ text[i].words \intersect Labels = {label}
           /\ \A j \in DOMAIN text : label \in text[j].words <=> j = i
<1> DEFINE at == {i \in DOMAIN text : label \in text[i].words}
<1>1. Len(text) \in Nat /\ DOMAIN text = 1..Len(text)
  BY LineType
<1>2. IsFiniteSet(at) /\ Cardinality(at) = 1
  <2>1. IsFiniteSet(1..Len(text))
    BY <1>1, FS_Interval
  <2>2. IsFiniteSet(at)
    BY <1>1, <2>1, FS_Subset
  <2> QED
    BY <2>2 DEF Standard
<1>3. PICK i : at = {i}
  BY <1>2, FS_Singleton
<1>4. i \in DOMAIN text /\ label \in text[i].words
  BY <1>3
<1>5. /\ Cardinality(text[i].words \intersect Labels) = 1
      /\ i > 1 /\ text[i - 1].name # None
  BY <1>4 DEF Standard
<1>6. text[i].words \intersect Labels = {label}
  <2>1. IsFiniteSet(Labels)
    <3>1. IsFiniteSet({}) /\ Labels = (({} \cup {Surname}) \cup {FirstName}) \cup {Patronymic}
      BY FS_EmptySet DEF Labels
    <3>2. IsFiniteSet({} \cup {Surname})
      BY <3>1, FS_AddElement
    <3>3. IsFiniteSet(({} \cup {Surname}) \cup {FirstName})
      BY <3>2, FS_AddElement
    <3> QED
      BY <3>1, <3>3, FS_AddElement
  <2>2. IsFiniteSet(text[i].words \intersect Labels)
    BY <2>1, FS_Subset
  <2>3. PICK w : text[i].words \intersect Labels = {w}
    BY <1>5, <2>2, FS_Singleton
  <2> QED
    BY <1>4, <2>3
<1>7. i = CHOOSE x \in DOMAIN text : label \in text[x].words
  BY <1>3
<1>8. i \in 2..Len(text)
  BY <1>1, <1>4, <1>5
<1> QED
  BY <1>3, <1>5, <1>6, <1>7, <1>8 DEF ValueOf

(* What the labels give is neither completed nor looked for again.          *)
LEMMA StandardNames ==
  ASSUME NEW text \in Seq(Lines), Standard(text)
  PROVE  NamesRead(text) = [last   |-> ValueOf(text, Surname),
                            first  |-> ValueOf(text, FirstName),
                            middle |-> ValueOf(text, Patronymic)]
<1>1. PICK l \in 2..Len(text) :
        /\ text[l - 1].name # None /\ ValueOf(text, Surname) = text[l - 1].name
        /\ \A j \in DOMAIN text : Surname \in text[j].words <=> j = l
  BY LabelOnce DEF Labels
<1>2. PICK f \in 2..Len(text) :
        /\ text[f - 1].name # None /\ ValueOf(text, FirstName) = text[f - 1].name
        /\ text[f].words \intersect Labels = {FirstName}
        /\ \A j \in DOMAIN text : FirstName \in text[j].words <=> j = f
  BY LabelOnce DEF Labels
<1>3. PICK m \in 2..Len(text) :
        /\ text[m - 1].name # None /\ ValueOf(text, Patronymic) = text[m - 1].name
        /\ \A j \in DOMAIN text : Patronymic \in text[j].words <=> j = m
  BY LabelOnce DEF Labels
<1>4. Patronymic \notin text[f].words
  BY <1>2 DEF Labels, FirstName, Patronymic
<1>5. /\ \A j \in DOMAIN text : LabelOf("last", text[j]) <=> j = l
      /\ \A j \in DOMAIN text : LabelOf("first", text[j]) <=> j = f
      /\ \A j \in DOMAIN text : LabelOf("middle", text[j]) <=> j = m
  BY <1>1, <1>2, <1>3, <1>4 DEF LabelOf
<1>6. /\ ByLabel(text, "last", 5) = text[l - 1].name
      /\ ByLabel(text, "first", 5) = text[f - 1].name
      /\ ByLabel(text, "middle", 3) = text[m - 1].name
  <2>1. ByLabel(text, "last", 5) = text[l - 1].name
    BY <1>1, <1>5, ByOnlyLabel
  <2>2. ByLabel(text, "first", 5) = text[f - 1].name
    BY <1>2, <1>5, ByOnlyLabel
  <2>3. ByLabel(text, "middle", 3) = text[m - 1].name
    BY <1>3, <1>5, ByOnlyLabel
  <2> QED
    BY <2>1, <2>2, <2>3
<1> DEFINE names == Labelled(text)
<1>7. /\ names = [last |-> text[l - 1].name, first |-> text[f - 1].name,
                  middle |-> text[m - 1].name]
      /\ names.last # None /\ names.first # None /\ names.middle # None
  BY <1>1, <1>2, <1>3, <1>6 DEF Labelled
<1> HIDE DEF names
<1>8. Supplemented(text, names) = names
  BY <1>7 DEF Supplemented
<1>9. ThreeInARow(text, names) = names /\ TwoInARow(text, names) = names
  BY <1>7 DEF ThreeInARow, TwoInARow
<1> QED
  BY <1>1, <1>2, <1>3, <1>7, <1>8, <1>9 DEF NamesRead, names

-----------------------------------------------------------------------------
(* Names without labels.                                                    *)

(* There are as many names as lines they are on, and on fewer lines fewer.  *)
LEMMA NamesCount ==
  ASSUME NEW text \in Seq(Lines), NEW i \in Int, NEW j \in Int
  PROVE  /\ Named(text, i, j) \in SUBSET Named(text, 1, Len(text))
         /\ IsFiniteSet(Named(text, i, j)) /\ Cardinality(Named(text, i, j)) \in Nat
         /\ Cardinality(Named(text, i, j)) <= Cardinality(Named(text, 1, Len(text)))
         /\ Cardinality(Named(text, i, j)) <= Len(text)
         /\ Len(NamesBetween(text, i, j)) = Cardinality(Named(text, i, j))
<1>1. Len(text) \in Nat /\ DOMAIN text = 1..Len(text)
  BY LineType
<1>2. /\ IsFiniteSet(1..Len(text)) /\ Cardinality(1..Len(text)) = Len(text)
  BY <1>1, FS_Interval
<1>3. /\ Named(text, i, j) \in SUBSET Named(text, 1, Len(text))
      /\ Named(text, 1, Len(text)) \in SUBSET (1..Len(text))
      /\ Named(text, i, j) \in SUBSET (1..Len(text))
  BY <1>1 DEF Named
<1>4. IsFiniteSet(Named(text, 1, Len(text))) /\ IsFiniteSet(Named(text, i, j))
  BY <1>2, <1>3, FS_Subset
<1>5. /\ Cardinality(Named(text, i, j)) <= Cardinality(Named(text, 1, Len(text)))
      /\ Cardinality(Named(text, i, j)) <= Len(text)
  BY <1>2, <1>3, <1>4, FS_Subset
<1>6. Cardinality(Named(text, i, j)) \in Nat
  BY <1>4, FS_CardinalityType
<1>7. Len(NamesBetween(text, i, j)) = Cardinality(Named(text, i, j))
  <2>1. \A at : Cardinality(at) \in Nat => Len(NamesOn(text, at)) = Cardinality(at)
    BY DEF NamesOn
  <2> QED
    BY <1>6, <2>1 DEF NamesBetween
<1> QED
  BY <1>3, <1>4, <1>5, <1>6, <1>7

(* Some line of a set of them is the k-th.                                  *)
LEMMA KthLine ==
  ASSUME NEW n \in Nat, NEW at \in SUBSET (1..n), NEW k \in 1..Cardinality(at)
  PROVE  \E i \in at : Cardinality({m \in at : m <= i}) = k
<1> DEFINE upTo(j) == {m \in at : m <= j}
           Far == {j \in 0..n : Cardinality(upTo(j)) >= k}
<1>1. IsFiniteSet(at) /\ Cardinality(at) \in Nat /\ k \in Nat \ {0} /\ k <= Cardinality(at)
  <2>1. IsFiniteSet(1..n)
    BY FS_Interval
  <2>2. IsFiniteSet(at)
    BY <2>1, FS_Subset
  <2> QED
    BY <2>2, FS_CardinalityType
<1>2. \A m \in at : m \in Int /\ 1 <= m /\ m <= n
  OBVIOUS
<1>3. ASSUME NEW j \in Int PROVE IsFiniteSet(upTo(j)) /\ Cardinality(upTo(j)) \in Nat
  <2>1. IsFiniteSet(upTo(j))
    BY <1>1, FS_Subset
  <2> QED
    BY <2>1, FS_CardinalityType
<1>4. Far \in SUBSET Nat /\ n \in Far
  <2>1. upTo(n) = at
    BY <1>2
  <2>2. Cardinality(upTo(n)) >= k
    BY <1>1, <2>1
  <2> QED
    BY <2>2
<1>5. PICK j \in Far : \A m \in Far : j <= m
  BY <1>4, LeastNatural
<1>6. j \in 0..n /\ Cardinality(upTo(j)) >= k
  OBVIOUS
<1>7. Cardinality(upTo(0)) = 0
  <2>1. \A m \in at : ~(m <= 0)
    BY <1>2
  <2>2. upTo(0) = {}
    BY <2>1
  <2> QED
    BY <2>2, FS_EmptySet
<1>8. j # 0
  <2>1. SUFFICES ASSUME j = 0 PROVE FALSE
    OBVIOUS
  <2>2. 0 >= k
    BY <1>6, <1>7, <2>1
  <2> QED
    BY <1>1, <2>2
<1>9. j \in Int /\ j - 1 \in Int /\ j - 1 \in 0..n
  BY <1>6, <1>8
<1>10. ~(Cardinality(upTo(j - 1)) >= k)
  <2>1. SUFFICES ASSUME Cardinality(upTo(j - 1)) >= k PROVE FALSE
    OBVIOUS
  <2>2. j - 1 \in Far
    BY <1>9, <2>1
  <2>3. j <= j - 1
    BY <1>5, <2>2
  <2> QED
    BY <1>9, <2>3
<1>11. Cardinality(upTo(j)) \in Nat /\ Cardinality(upTo(j - 1)) \in Nat
       /\ IsFiniteSet(upTo(j - 1))
  <2> HIDE DEF upTo
  <2> QED
    BY <1>3, <1>9
<1>12. j \in at
  <2>1. SUFFICES ASSUME j \notin at PROVE FALSE
    OBVIOUS
  <2>2. upTo(j) = upTo(j - 1)
    <3>1. \A m \in at : m # j
      BY <2>1
    <3>2. \A m \in at : m <= j <=> m <= j - 1
      BY <1>2, <1>9, <3>1
    <3> QED
      BY <3>2
  <2> HIDE DEF upTo
  <2> QED
    BY <1>6, <1>10, <2>2
<1>13. Cardinality(upTo(j)) = Cardinality(upTo(j - 1)) + 1
  <2>1. upTo(j) = upTo(j - 1) \union {j} /\ j \notin upTo(j - 1)
    <3>1. \A m \in at : m <= j <=> m <= j - 1 \/ m = j
      BY <1>2, <1>9
    <3>2. ~(j <= j - 1)
      BY <1>9
    <3> QED
      BY <1>12, <3>1, <3>2
  <2> HIDE DEF upTo
  <2> QED
    BY <1>11, <2>1, FS_AddElement
<1>14. Cardinality(upTo(j)) = k
  <2> HIDE DEF upTo
  <2> QED
    BY <1>1, <1>6, <1>10, <1>11, <1>13
<1> QED
  BY <1>12, <1>14

(* So the names of a page are names.                                        *)
LEMMA NameOnType ==
  ASSUME NEW text \in Seq(Lines), NEW at \in SUBSET {i \in DOMAIN text : text[i].name # None},
         NEW k \in 1..Cardinality(at)
  PROVE  NamesOn(text, at)[k] \in Names
<1>1. Len(text) \in Nat /\ at \in SUBSET (1..Len(text)) /\ \A i \in at : text[i].name \in Names
  BY LineType
<1>2. \E i \in at : Cardinality({m \in at : m <= i}) = k
  BY <1>1, KthLine
<1>3. (CHOOSE i \in at : Cardinality({m \in at : m <= i}) = k) \in at
  BY <1>2
<1> QED
  BY <1>1, <1>3 DEF NamesOn

(* So are the names between two lines.                                      *)
LEMMA NameType ==
  ASSUME NEW text \in Seq(Lines), NEW i \in Int, NEW j \in Int,
         NEW k \in 1..Len(NamesBetween(text, i, j))
  PROVE  NamesBetween(text, i, j)[k] \in Names
<1>1. Named(text, i, j) \in SUBSET {n \in DOMAIN text : text[n].name # None}
  BY DEF Named
<1>2. k \in 1..Cardinality(Named(text, i, j))
  BY NamesCount
<1> QED
  BY <1>1, <1>2, NameOnType DEF NamesBetween

(* No label, no name by a label, and nothing to complete.                   *)
LEMMA NothingLabelled ==
  ASSUME NEW text \in Seq(Lines), Unlabelled(text)
  PROVE  Supplemented(text, Labelled(text)) = [last |-> None, first |-> None, middle |-> None]
<1>1. \A i \in DOMAIN text : {Surname, FirstName, Patronymic} \intersect text[i].words = {}
  BY DEF Unlabelled, Labels
<1>2. ASSUME NEW field \in {"last", "first", "middle"}, NEW dist
      PROVE  ByLabel(text, field, dist) = None
  <2>1. \A i \in DOMAIN text : ~LabelOf(field, text[i])
    BY <1>1 DEF LabelOf
  <2> QED
    BY <2>1 DEF ByLabel
<1>3. Labelled(text) = [last |-> None, first |-> None, middle |-> None]
  BY <1>2 DEF Labelled
<1> QED
  BY <1>3 DEF Supplemented

(* On a short page all names are in the first window.                       *)
LEMMA FirstWindow ==
  ASSUME NEW text \in Seq(Lines), Len(text) <= 7, NEW n \in 7..9
  PROVE  NamesBetween(text, 1, n) = NamesBetween(text, 1, Len(text))
<1>1. Named(text, 1, n) = Named(text, 1, Len(text))
  BY LineType DEF Named
<1> QED
  BY <1>1 DEF NamesBetween

(* A set of places that has the first place starts with it.                 *)
LEMMA FirstIsOne ==
  ASSUME NEW S \in SUBSET (Nat \ {0}), 1 \in S
  PROVE  Min(S) = 1
<1>1. S \in SUBSET Nat /\ S # {}
  OBVIOUS
<1>2. Min(S) \in S /\ Min(S) <= 1
  BY <1>1, MinIsLeast
<1>3. Min(S) \in Nat \ {0}
  BY <1>2
<1> QED
  BY <1>2, <1>3

(* Three names on it are the last, the first and the middle name.           *)
LEMMA ThreeNames ==
  ASSUME NEW text \in Seq(Lines), Unlabelled(text), Len(text) <= 7,
         NEW names, names = NamesBetween(text, 1, Len(text)), Len(names) = 3
  PROVE  NamesRead(text) = [last |-> names[1], first |-> names[2], middle |-> names[3]]
<1> DEFINE starts == {i \in 1..Len(text) - 2 : Len(NamesBetween(text, i, i + 8)) >= 3}
           none == [last |-> None, first |-> None, middle |-> None]
<1>1. Len(text) \in Nat /\ Len(text) >= 3
  <2>1. Len(text) \in Nat /\ 1 \in Int
    BY LineType
  <2>2. /\ Len(names) = Cardinality(Named(text, 1, Len(text)))
        /\ Cardinality(Named(text, 1, Len(text))) <= Len(text)
    BY <2>1, NamesCount
  <2> QED
    BY <2>1, <2>2
<1>2. NamesBetween(text, 1, 1 + 8) = names
  <2>1. 1 + 8 = 9 /\ 9 \in 7..9
    OBVIOUS
  <2>2. NamesBetween(text, 1, 9) = names
    BY <2>1, FirstWindow
  <2> QED
    BY <2>1, <2>2
<1>3. 1 \in starts /\ Min(starts) = 1
  <2>1. 1 \in starts
    <3>1. 1 \in 1..Len(text) - 2
      BY <1>1
    <3>2. Len(NamesBetween(text, 1, 1 + 8)) = 3
      BY <1>2, Zenon
    <3>3. \A size : size = 3 => size >= 3
      OBVIOUS
    <3>4. Len(NamesBetween(text, 1, 1 + 8)) >= 3
      BY <3>2, <3>3, Zenon
    <3> QED
      BY <3>1, <3>4
  <2>2. starts \in SUBSET (Nat \ {0})
    OBVIOUS
  <2> QED
    BY <2>1, <2>2, FirstIsOne
<1>4. ThreeInARow(text, none) = [last |-> names[1], first |-> names[2], middle |-> names[3]]
  BY <1>2, <1>3 DEF ThreeInARow
<1>5. names[1] # None
  <2>1. 1 \in Int /\ Len(text) \in Int /\ 1 \in 1..Len(names)
    BY <1>1
  <2> QED
    BY <2>1, NameType, NamesAreNotEmpty
<1>6. Supplemented(text, Labelled(text)) = none
  BY NothingLabelled
<1> QED
  BY <1>4, <1>5, <1>6 DEF NamesRead, TwoInARow

(* Two names on it are ordered by the table of first names.                 *)
LEMMA TwoNames ==
  ASSUME NEW text \in Seq(Lines), Unlabelled(text), Len(text) <= 7,
         NEW names, names = NamesBetween(text, 1, Len(text)), Len(names) = 2
  PROVE  /\ NamesRead(text).last = NameOrder(names[1], names[2])[1]
         /\ NamesRead(text).first = NameOrder(names[1], names[2])[2]
<1> DEFINE starts == {i \in 1..Len(text) - 1 : Len(NamesBetween(text, i, i + 6)) >= 2}
           none == [last |-> None, first |-> None, middle |-> None]
<1>1. Len(text) \in Nat /\ Len(text) >= 2
  <2>1. Len(text) \in Nat /\ 1 \in Int
    BY LineType
  <2>2. /\ Len(names) = Cardinality(Named(text, 1, Len(text)))
        /\ Cardinality(Named(text, 1, Len(text))) <= Len(text)
    BY <2>1, NamesCount
  <2> QED
    BY <2>1, <2>2
<1>2. NamesBetween(text, 1, 1 + 6) = names
  <2>1. 1 + 6 = 7 /\ 7 \in 7..9
    OBVIOUS
  <2>2. NamesBetween(text, 1, 7) = names
    BY <2>1, FirstWindow
  <2> QED
    BY <2>1, <2>2
<1>3. 1 \in starts /\ Min(starts) = 1
  <2>1. 1 \in starts
    <3>1. 1 \in 1..Len(text) - 1
      BY <1>1
    <3>2. Len(NamesBetween(text, 1, 1 + 6)) = 2
      BY <1>2, Zenon
    <3>3. \A size : size = 2 => size >= 2
      OBVIOUS
    <3>4. Len(NamesBetween(text, 1, 1 + 6)) >= 2
      BY <3>2, <3>3, Zenon
    <3> QED
      BY <3>1, <3>4
  <2>2. starts \in SUBSET (Nat \ {0})
    OBVIOUS
  <2> QED
    BY <2>1, <2>2, FirstIsOne
<1>4. ThreeInARow(text, none) = none
  <2>1. ASSUME NEW i \in 1..Len(text) - 2
        PROVE  ~(Len(NamesBetween(text, i, i + 8)) >= 3)
    <3>1. i \in Int /\ i + 8 \in Int /\ 1 \in Int /\ Len(text) \in Int
      BY <1>1
    <3>2. /\ Len(NamesBetween(text, i, i + 8)) = Cardinality(Named(text, i, i + 8))
          /\ Cardinality(Named(text, i, i + 8)) \in Nat
          /\ Cardinality(Named(text, i, i + 8)) <= Cardinality(Named(text, 1, Len(text)))
      BY <3>1, NamesCount
    <3>3. 2 = Cardinality(Named(text, 1, Len(text)))
      BY <3>1, NamesCount
    <3> QED
      BY <3>2, <3>3
  <2> QED
    BY <2>1 DEF ThreeInARow
<1>5. TwoInARow(text, none)
        = [none EXCEPT !.last = NameOrder(names[1], names[2])[1],
                       !.first = NameOrder(names[1], names[2])[2]]
  BY <1>2, <1>3 DEF TwoInARow
<1>6. Supplemented(text, Labelled(text)) = none
  BY NothingLabelled
<1> QED
  <2>1. NamesRead(text) = TwoInARow(text, none)
    BY <1>4, <1>6 DEF NamesRead
  <2> QED
    BY <1>5, <2>1

-----------------------------------------------------------------------------
(* The sort of the blocks.                                                  *)

Shuffles(n) == {o \in [1..n -> 1..n] : \A a, b \in 1..n : o[a] = o[b] => a = b}

(* The blocks of a page in the order o.                                     *)
Shown(text, o) == [k \in 1..Len(text) |-> [line |-> text[o[k]], top |-> o[k]]]

(* These blocks are sorted before place i, and none up to place j is above  *)
(* the one on place i.                                                      *)
Settled(text, blocks, i, j) ==
  \E o \in Shuffles(Len(text)) :
    /\ blocks = Shown(text, o)
    /\ \A a \in 1..i - 1, b \in 1..Len(text) : a < b => o[a] < o[b]
    /\ \A b \in i + 1..j : o[i] <= o[b]

(* There is a block for every line.                                         *)
LEMMA ShownLength ==
  ASSUME NEW text \in Seq(Lines), NEW o
  PROVE  Len(Shown(text, o)) = Len(text)
<1>1. Len(text) \in Nat
  BY LineType
<1> QED
  BY <1>1 DEF Shown

(* One exchange settles one place more.                                     *)
LEMMA ExchangeSettles ==
  ASSUME NEW text \in Seq(Lines), NEW i \in 1..Len(text), NEW j \in i + 1..Len(text),
         NEW blocks, Settled(text, blocks, i, j - 1)
  PROVE  Settled(text, Exchanged(blocks, i, j), i, j)
<1> DEFINE n == Len(text)
<1>1. n \in Nat /\ i \in 1..n /\ j \in 1..n /\ i < j /\ i \in Int /\ j \in Int
  BY LineType
<1>2. PICK o \in Shuffles(n) :
        /\ blocks = Shown(text, o)
        /\ \A a \in 1..i - 1, b \in 1..n : a < b => o[a] < o[b]
        /\ \A b \in i + 1..j - 1 : o[i] <= o[b]
  BY DEF Settled
<1> HIDE DEF n
<1>3. o \in [1..n -> 1..n] /\ \A a, b \in 1..n : o[a] = o[b] => a = b
  BY DEF Shuffles
<1>4. \A a \in 1..n : o[a] \in Int
  BY <1>1, <1>3
<1>5. blocks[i] = [line |-> text[o[i]], top |-> o[i]]
      /\ blocks[j] = [line |-> text[o[j]], top |-> o[j]]
  BY <1>1, <1>2 DEF Shown, n
<1>6. CASE ~(o[j] < o[i])
  <2>1. Exchanged(blocks, i, j) = blocks
    BY <1>5, <1>6 DEF Exchanged
  <2>2. \A b \in i + 1..j : o[i] <= o[b]
    BY <1>1, <1>2, <1>4, <1>6
  <2> QED
    BY <1>2, <2>1, <2>2 DEF Settled, n
<1>7. CASE o[j] < o[i]
  <2> DEFINE q == [a \in 1..n |-> IF a = i THEN o[j] ELSE IF a = j THEN o[i] ELSE o[a]]
  <2>1. q \in [1..n -> 1..n]
    BY <1>1, <1>3
  <2>2. \A a, b \in 1..n : q[a] = q[b] => a = b
    BY <1>1, <1>3
  <2>3. Exchanged(blocks, i, j) = Shown(text, q)
    <3>1. Exchanged(blocks, i, j) = [blocks EXCEPT ![i] = blocks[j], ![j] = blocks[i]]
      BY <1>5, <1>7 DEF Exchanged
    <3>2. blocks = [k \in 1..n |-> [line |-> text[o[k]], top |-> o[k]]]
      BY <1>2 DEF Shown, n
    <3>3. Shown(text, q) = [k \in 1..n |-> [line |-> text[q[k]], top |-> q[k]]]
      BY DEF Shown, n
    <3>4. \A k \in 1..n : [line |-> text[q[k]], top |-> q[k]]
            = IF k = i THEN blocks[j] ELSE IF k = j THEN blocks[i] ELSE blocks[k]
      BY <1>1, <1>5, <3>2
    <3> HIDE DEF q
    <3>5. [blocks EXCEPT ![i] = blocks[j], ![j] = blocks[i]]
            = [k \in 1..n |-> IF k = i THEN blocks[j] ELSE IF k = j THEN blocks[i] ELSE blocks[k]]
      BY <1>1, <3>2
    <3> QED
      BY <3>1, <3>3, <3>4, <3>5
  <2>4. ASSUME NEW a \in 1..i - 1, NEW b \in 1..n, a < b PROVE q[a] < q[b]
    <3>1. a \in 1..n /\ a # i /\ a # j /\ q[a] = o[a]
      BY <1>1
    <3>2. o[a] < o[b] /\ o[a] < o[i] /\ o[a] < o[j]
      BY <1>1, <1>2, <2>4
    <3> QED
      BY <1>1, <3>1, <3>2
  <2>5. ASSUME NEW b \in i + 1..j PROVE q[i] <= q[b]
    <3>1. b \in 1..n /\ b # i /\ q[i] = o[j] /\ b \in Int
      BY <1>1
    <3>2. CASE b = j
      BY <1>1, <1>4, <1>7, <3>1, <3>2
    <3>3. CASE b # j
      <4>1. b \in i + 1..j - 1
        BY <1>1, <3>1, <3>3
      <4>2. o[i] <= o[b] /\ q[b] = o[b]
        BY <1>2, <3>1, <3>3, <4>1
      <4> QED
        BY <1>1, <1>4, <1>7, <3>1, <4>2
    <3> QED
      BY <3>2, <3>3
  <2> HIDE DEF q
  <2>6. q \in Shuffles(n)
    BY <2>1, <2>2 DEF Shuffles
  <2> QED
    BY <2>3, <2>4, <2>5, <2>6 DEF Settled, n
<1> QED
  BY <1>6, <1>7

(* The inner loop is defined.                                               *)
PassUpTo(after, blocks, i, n) ==
  after = [j \in i..n |-> IF j = i THEN blocks ELSE Exchanged(after[j - 1], i, j)]

(* Such a function exists for every number of blocks.                       *)
LEMMA PassExists ==
  ASSUME NEW blocks, NEW i \in Nat
  PROVE  \A n \in Nat : \E after : PassUpTo(after, blocks, i, n)
<1> DEFINE Bad == {n \in Nat : ~\E after : PassUpTo(after, blocks, i, n)}
<1> SUFFICES ASSUME Bad # {} PROVE FALSE
  OBVIOUS
<1>1. PICK n \in Bad : \A m \in Bad : n <= m
  BY LeastNatural
<1>2. n \in Nat /\ ~\E after : PassUpTo(after, blocks, i, n)
  OBVIOUS
<1>3. CASE n <= i
  <2>1. PassUpTo([j \in i..n |-> blocks], blocks, i, n)
    <3>1. \A j \in i..n : j = i
      BY <1>2, <1>3
    <3> QED
      BY <3>1 DEF PassUpTo
  <2> QED
    BY <1>2, <2>1
<1>4. CASE n > i
  <2>1. n - 1 \in Nat /\ ~(n <= n - 1)
    BY <1>2, <1>4
  <2>2. n - 1 \notin Bad
    BY <1>1, <2>1
  <2>3. PICK less : PassUpTo(less, blocks, i, n - 1)
    BY <2>1, <2>2
  <2>4. \A j \in i..n - 1 :
          less[j] = IF j = i THEN blocks ELSE Exchanged(less[j - 1], i, j)
    BY <2>3 DEF PassUpTo
  <2> DEFINE it == [j \in i..n |-> IF j = n THEN Exchanged(less[n - 1], i, n) ELSE less[j]]
  <2>5. ASSUME NEW j \in i..n
        PROVE  it[j] = IF j = i THEN blocks ELSE Exchanged(it[j - 1], i, j)
    <3>1. j \in Int /\ i <= j /\ j <= n
      BY <1>2
    <3>2. CASE j = n
      <4>1. n - 1 \in i..n /\ n - 1 # n /\ j # i
        BY <1>2, <1>4, <3>2
      <4> QED
        BY <3>2, <4>1
    <3>3. CASE j = i
      <4>1. j \in i..n - 1 /\ j # n
        BY <1>2, <1>4, <3>1, <3>3
      <4> QED
        BY <2>4, <3>3, <4>1
    <3>4. CASE j # n /\ j # i
      <4>1. j \in i..n - 1 /\ j - 1 \in i..n /\ j - 1 # n
        BY <1>2, <1>4, <3>1, <3>4
      <4> QED
        BY <2>4, <3>4, <4>1
    <3> QED
      BY <3>2, <3>3, <3>4
  <2>6. it = [j \in i..n |-> IF j = i THEN blocks ELSE Exchanged(it[j - 1], i, j)]
    <3>1. it = [j \in i..n |-> it[j]]
      OBVIOUS
    <3> HIDE DEF it
    <3> QED
      BY <2>5, <3>1
  <2> HIDE DEF it
  <2> QED
    BY <1>2, <2>6 DEF PassUpTo
<1> QED
  BY <1>2, <1>3, <1>4

(* It settles place i.                                                      *)
LEMMA PassSettles ==
  ASSUME NEW text \in Seq(Lines), NEW i \in 1..Len(text), NEW blocks,
         Settled(text, blocks, i, i)
  PROVE  Settled(text, Pass(blocks, i), i + 1, i + 1)
<1> DEFINE n == Len(text)
<1>1. n \in Nat /\ i \in Nat /\ i \in 1..n /\ n \in i..n
  BY LineType
<1>2. Len(blocks) = n
  BY ShownLength DEF Settled
<1>3. PICK after : /\ PassUpTo(after, blocks, i, n)
                   /\ Pass(blocks, i) = after[n]
  <2>1. \E after : PassUpTo(after, blocks, i, n)
    BY <1>1, PassExists
  <2> DEFINE chosen == CHOOSE f :
               f = [j \in i..Len(blocks) |-> IF j = i THEN blocks ELSE Exchanged(f[j - 1], i, j)]
  <2>2. PassUpTo(chosen, blocks, i, n)
    BY <1>2, <2>1 DEF PassUpTo
  <2>3. Pass(blocks, i) = chosen[n]
    BY <1>2 DEF Pass
  <2> HIDE DEF chosen
  <2> QED
    BY <2>2, <2>3
<1>4. \A j \in i..n : after[j] = IF j = i THEN blocks ELSE Exchanged(after[j - 1], i, j)
  BY <1>3 DEF PassUpTo
<1> HIDE DEF n
<1>5. \A j \in i..n : Settled(text, after[j], i, j)
  <2> DEFINE Bad == {j \in i..n : ~Settled(text, after[j], i, j)}
  <2>1. SUFFICES ASSUME Bad # {} PROVE FALSE
    OBVIOUS
  <2>2. Bad \in SUBSET Nat
    BY <1>1
  <2>3. PICK j \in Bad : \A m \in Bad : j <= m
    BY <2>1, <2>2, LeastNatural
  <2>4. j \in i..n /\ j \in Int /\ i <= j /\ j <= n /\ ~Settled(text, after[j], i, j)
    BY <1>1
  <2>5. CASE j = i
    BY <1>4, <2>4, <2>5
  <2>6. CASE j # i
    <3>1. j - 1 \in i..n /\ ~(j <= j - 1) /\ j \in i + 1..n
      BY <1>1, <2>4, <2>6
    <3>2. Settled(text, after[j - 1], i, j - 1)
      BY <2>3, <3>1
    <3>3. Settled(text, Exchanged(after[j - 1], i, j), i, j)
      BY <1>1, <3>1, <3>2, ExchangeSettles DEF n
    <3> QED
      BY <1>4, <2>4, <2>6, <3>3
  <2> QED
    BY <2>5, <2>6
<1>6. Settled(text, Pass(blocks, i), i, n)
  BY <1>1, <1>3, <1>5
<1>7. PICK o \in Shuffles(n) :
        /\ Pass(blocks, i) = Shown(text, o)
        /\ \A a \in 1..i - 1, b \in 1..n : a < b => o[a] < o[b]
        /\ \A b \in i + 1..n : o[i] <= o[b]
  BY <1>6 DEF Settled, n
<1>8. o \in [1..n -> 1..n] /\ \A a, b \in 1..n : o[a] = o[b] => a = b
  BY DEF Shuffles
<1>9. ASSUME NEW a \in 1..(i + 1) - 1, NEW b \in 1..n, a < b PROVE o[a] < o[b]
  <2>1. CASE a = i
    <3>1. b \in i + 1..n /\ b # i /\ o[i] \in Int /\ o[b] \in Int
      BY <1>1, <1>8, <1>9, <2>1
    <3>2. o[i] <= o[b] /\ o[i] # o[b]
      BY <1>1, <1>7, <1>8, <3>1
    <3> QED
      BY <2>1, <3>1, <3>2
  <2>2. CASE a # i
    <3>1. a \in 1..i - 1
      BY <1>1, <2>2
    <3> QED
      BY <1>7, <1>9, <3>1
  <2> QED
    BY <2>1, <2>2
<1>10. \A b \in (i + 1) + 1..i + 1 : o[i + 1] <= o[b]
  BY <1>1
<1> QED
  BY <1>7, <1>9, <1>10 DEF Settled, n

(* The outer loop is defined.                                               *)
SortedUpTo(sorted, blocks, n) ==
  sorted = [i \in 0..n |-> IF i = 0 THEN blocks ELSE Pass(sorted[i - 1], i)]

(* Such a function exists for every number of passes.                       *)
LEMMA SortExists ==
  ASSUME NEW blocks
  PROVE  \A n \in Nat : \E sorted : SortedUpTo(sorted, blocks, n)
<1> DEFINE Bad == {n \in Nat : ~\E sorted : SortedUpTo(sorted, blocks, n)}
<1> SUFFICES ASSUME Bad # {} PROVE FALSE
  OBVIOUS
<1>1. PICK n \in Bad : \A m \in Bad : n <= m
  BY LeastNatural
<1>2. n \in Nat /\ ~\E sorted : SortedUpTo(sorted, blocks, n)
  OBVIOUS
<1>3. CASE n = 0
  <2>1. SortedUpTo([i \in 0..n |-> blocks], blocks, n)
    <3>1. \A i \in 0..n : i = 0
      BY <1>3
    <3> QED
      BY <3>1 DEF SortedUpTo
  <2> QED
    BY <1>2, <2>1
<1>4. CASE n # 0
  <2>1. n - 1 \in Nat /\ ~(n <= n - 1)
    BY <1>2, <1>4
  <2>2. n - 1 \notin Bad
    BY <1>1, <2>1
  <2>3. PICK less : SortedUpTo(less, blocks, n - 1)
    BY <2>1, <2>2
  <2>4. \A i \in 0..n - 1 : less[i] = IF i = 0 THEN blocks ELSE Pass(less[i - 1], i)
    BY <2>3 DEF SortedUpTo
  <2> DEFINE it == [i \in 0..n |-> IF i = n THEN Pass(less[n - 1], n) ELSE less[i]]
  <2>5. ASSUME NEW i \in 0..n
        PROVE  it[i] = IF i = 0 THEN blocks ELSE Pass(it[i - 1], i)
    <3>1. i \in Int /\ 0 <= i /\ i <= n
      BY <1>2
    <3>2. CASE i = n
      <4>1. n - 1 \in 0..n /\ n - 1 # n /\ i # 0
        BY <1>2, <1>4, <3>2
      <4> QED
        BY <3>2, <4>1
    <3>3. CASE i = 0
      <4>1. i \in 0..n - 1 /\ i # n
        BY <1>2, <1>4, <3>1, <3>3
      <4> QED
        BY <2>4, <3>3, <4>1
    <3>4. CASE i # n /\ i # 0
      <4>1. i \in 0..n - 1 /\ i - 1 \in 0..n /\ i - 1 # n
        BY <1>2, <1>4, <3>1, <3>4
      <4> QED
        BY <2>4, <3>4, <4>1
    <3> QED
      BY <3>2, <3>3, <3>4
  <2>6. it = [i \in 0..n |-> IF i = 0 THEN blocks ELSE Pass(it[i - 1], i)]
    <3>1. it = [i \in 0..n |-> it[i]]
      OBVIOUS
    <3> HIDE DEF it
    <3> QED
      BY <2>5, <3>1
  <2> HIDE DEF it
  <2> QED
    BY <1>2, <2>6 DEF SortedUpTo
<1> QED
  BY <1>2, <1>3, <1>4

(* It settles all places.                                                   *)
LEMMA SortSettles ==
  ASSUME NEW text \in Seq(Lines), NEW order \in Shuffles(Len(text))
  PROVE  Settled(text, SortBlocksByY(Shown(text, order)), Len(text) + 1, Len(text) + 1)
<1> DEFINE n == Len(text)
           blocks == Shown(text, order)
<1>1. n \in Nat /\ Len(blocks) = n
  BY LineType, ShownLength
<1>2. PICK sorted : /\ SortedUpTo(sorted, blocks, n)
                    /\ SortBlocksByY(blocks) = sorted[n]
  <2>1. \E sorted : SortedUpTo(sorted, blocks, n)
    BY <1>1, SortExists
  <2> DEFINE chosen == CHOOSE f :
               f = [i \in 0..Len(blocks) |-> IF i = 0 THEN blocks ELSE Pass(f[i - 1], i)]
  <2>2. SortedUpTo(chosen, blocks, n)
    BY <1>1, <2>1 DEF SortedUpTo
  <2>3. SortBlocksByY(blocks) = chosen[n]
    BY <1>1 DEF SortBlocksByY
  <2> HIDE DEF chosen
  <2> QED
    BY <2>2, <2>3
<1>3. \A i \in 0..n : sorted[i] = IF i = 0 THEN blocks ELSE Pass(sorted[i - 1], i)
  BY <1>2 DEF SortedUpTo
<1>4. Settled(text, blocks, 0 + 1, 0 + 1)
  <2>1. /\ \A a \in 1..(0 + 1) - 1, b \in 1..Len(text) : a < b => order[a] < order[b]
        /\ \A b \in (0 + 1) + 1..0 + 1 : order[0 + 1] <= order[b]
    OBVIOUS
  <2> QED
    BY <2>1 DEF Settled
<1> HIDE DEF n, blocks
<1>5. \A i \in 0..n : Settled(text, sorted[i], i + 1, i + 1)
  <2> DEFINE Bad == {i \in 0..n : ~Settled(text, sorted[i], i + 1, i + 1)}
  <2>1. SUFFICES ASSUME Bad # {} PROVE FALSE
    OBVIOUS
  <2>2. Bad \in SUBSET Nat
    BY <1>1
  <2>3. PICK i \in Bad : \A m \in Bad : i <= m
    BY <2>1, <2>2, LeastNatural
  <2>4. i \in 0..n /\ i \in Int /\ 0 <= i /\ i <= n /\ ~Settled(text, sorted[i], i + 1, i + 1)
    BY <1>1
  <2>5. CASE i = 0
    <3>1. sorted[0] = blocks
      BY <1>1, <1>3
    <3> QED
      BY <1>4, <2>4, <2>5, <3>1
  <2>6. CASE i # 0
    <3>1. i - 1 \in 0..n /\ ~(i <= i - 1) /\ i \in 1..n /\ (i - 1) + 1 = i
      BY <1>1, <2>4, <2>6
    <3>2. Settled(text, sorted[i - 1], (i - 1) + 1, (i - 1) + 1)
      BY <2>3, <3>1
    <3>3. Settled(text, sorted[i - 1], i, i)
      BY <3>1, <3>2
    <3>4. Settled(text, Pass(sorted[i - 1], i), i + 1, i + 1)
      BY <3>1, <3>3, PassSettles DEF n
    <3> QED
      BY <1>3, <2>4, <2>6, <3>4
  <2> QED
    BY <2>5, <2>6
<1>6. n \in 0..n
  BY <1>1
<1>7. Settled(text, SortBlocksByY(blocks), n + 1, n + 1)
  BY <1>2, <1>5, <1>6
<1> QED
  BY <1>7 DEF n, blocks

(* An increasing order of all places is that of the page.                   *)
LEMMA IncreasingIsPage ==
  ASSUME NEW n \in Nat, NEW o \in [1..n -> 1..n],
         \A a, b \in 1..n : a < b => o[a] < o[b]
  PROVE  \A k \in 1..n : o[k] = k
<1>1. \A k \in 1..n : k \in Int /\ 1 <= k /\ k <= n
                      /\ o[k] \in Int /\ 1 <= o[k] /\ o[k] <= n
  OBVIOUS
<1>2. \A k \in 1..n : o[k] >= k
  <2> DEFINE Bad == {k \in 1..n : ~(o[k] >= k)}
  <2>1. SUFFICES ASSUME Bad # {} PROVE FALSE
    OBVIOUS
  <2>2. PICK k \in Bad : \A m \in Bad : k <= m
    <3>1. Bad \in SUBSET Nat
      OBVIOUS
    <3> QED
      BY <2>1, <3>1, LeastNatural
  <2>3. k \in 1..n /\ ~(o[k] >= k) /\ k \in Int
    OBVIOUS
  <2>4. k # 1
    BY <1>1, <2>3
  <2>5. k - 1 \in 1..n /\ ~(k <= k - 1) /\ k - 1 < k
    BY <2>3, <2>4
  <2>6. o[k - 1] >= k - 1
    BY <2>2, <2>5
  <2>7. o[k - 1] < o[k]
    BY <2>3, <2>5
  <2>8. o[k - 1] \in Int /\ o[k] \in Int
    BY <1>1, <2>3, <2>5
  <2> QED
    BY <2>3, <2>6, <2>7, <2>8
<1>3. \A k \in 1..n : o[k] <= k
  <2> DEFINE Bad == {k \in 1..n : ~(o[k] <= k)}
  <2>1. SUFFICES ASSUME Bad # {} PROVE FALSE
    OBVIOUS
  <2>2. PICK k \in Bad : \A m \in Bad : m <= k
    <3>1. Bad \in SUBSET (1..n)
      OBVIOUS
    <3> QED
      BY <2>1, <3>1, MaxIsGreatest
  <2>3. k \in 1..n /\ ~(o[k] <= k) /\ k \in Int
    OBVIOUS
  <2>4. k # n
    BY <1>1, <2>3
  <2>5. k + 1 \in 1..n /\ ~(k + 1 <= k) /\ k < k + 1
    BY <2>3, <2>4
  <2>6. o[k + 1] <= k + 1
    BY <2>2, <2>5
  <2>7. o[k] < o[k + 1]
    BY <2>3, <2>5
  <2>8. o[k + 1] \in Int /\ o[k] \in Int
    BY <1>1, <2>3, <2>5
  <2> QED
    BY <2>3, <2>6, <2>7, <2>8
<1> QED
  BY <1>1, <1>2, <1>3

(* The blocks of a page are read in its order, in whatever order they come. *)
LEMMA SortRestores ==
  ASSUME NEW text \in Seq(Lines), NEW order \in Orders(text)
  PROVE  [k \in DOMAIN text |-> SortBlocksByY([i \in DOMAIN text |->
            [line |-> text[order[i]], top |-> order[i]]])[k].line] = text
<1> DEFINE n == Len(text)
<1>1. n \in Nat /\ DOMAIN text = 1..n /\ text = [k \in 1..n |-> text[k]]
  BY LineType
<1>2. order \in Shuffles(n)
  <2>1. CASE text \in Shuffled
    <3>1. order \in Bijection(1..n, 1..n)
      BY <1>1, <2>1 DEF Orders
    <3> HIDE DEF n
    <3> QED
      BY <3>1 DEF Bijection, Injection, IsInjective, Shuffles
  <2>2. CASE text \notin Shuffled
    <3>1. order = [i \in 1..n |-> i]
      BY <1>1, <2>2 DEF Orders
    <3> HIDE DEF n
    <3> QED
      BY <3>1 DEF Shuffles
  <2> QED
    BY <2>1, <2>2
<1>3. [i \in DOMAIN text |-> [line |-> text[order[i]], top |-> order[i]]] = Shown(text, order)
  BY <1>1 DEF Shown
<1> DEFINE sorted == SortBlocksByY(Shown(text, order))
<1>4. PICK o \in Shuffles(n) :
        /\ sorted = Shown(text, o)
        /\ \A a \in 1..(n + 1) - 1, b \in 1..n : a < b => o[a] < o[b]
  BY <1>2, SortSettles DEF Settled
<1> HIDE DEF sorted, n
<1>5. o \in [1..n -> 1..n] /\ \A a, b \in 1..n : a < b => o[a] < o[b]
  BY <1>1, <1>4 DEF Shuffles
<1>6. \A k \in 1..n : o[k] = k
  BY <1>1, <1>5, IncreasingIsPage
<1>7. \A k \in 1..n : sorted[k].line = text[k]
  BY <1>4, <1>6 DEF Shown, n
<1> QED
  BY <1>1, <1>3, <1>7 DEF sorted

-----------------------------------------------------------------------------
(* The series and the number.                                               *)

(* What has the digits of a series or a number is not dropped.              *)
LEMMA NumbersKept ==
  /\ \A series \in SeriesNumbers : NormalSeries(series) = series /\ series # None
  /\ \A number \in DocumentNumbers : NormalNumber(number) = number /\ number # None
BY NoneIsNoValue DEF NormalSeries, NormalNumber

(* The last four digits of any number are a series.                         *)
LEMMA LastFourDigits == \A n \in Nat : LastFour(n) \in SeriesNumbers
<1>1. \A n \in Nat : n % 10000 \in Int /\ 0 <= n % 10000 /\ n % 10000 <= 9999
  BY SMT
<1>2. \A m \in Int : 0 <= m /\ m <= 9999 => m \in SeriesNumbers
  BY SMT DEF SeriesNumbers
<1> QED
  BY <1>1, <1>2 DEF LastFour

(* What is printed in digits is a number, of four digits or of six.         *)
LEMMA NumeralType ==
  ASSUME NEW word \in Numerals
  PROVE  /\ word.n \in Nat
         /\ word.is \in {"year", "four"} => word.n \in SeriesNumbers
         /\ word.is = "six" => word.n \in DocumentNumbers
<1>1. \A n \in SeriesNumbers : n \in Nat
  BY SMT DEF SeriesNumbers
<1>2. \A n \in DocumentNumbers : n \in Nat
  BY SMT DEF DocumentNumbers
<1>3. \/ word.is \in {"year", "four", "split"} /\ word.n \in SeriesNumbers
      \/ word.is = "six" /\ word.n \in DocumentNumbers
      \/ word.is = "other" /\ word.n = 0
  BY DEF Numerals
<1> QED
  BY <1>1, <1>2, <1>3

(* The digits of a line in their order.                                     *)
LEMMA DigitsType ==
  ASSUME NEW text \in Seq(Lines), NEW i \in DOMAIN text
  PROVE  /\ DOMAIN text[i].digits \in SUBSET Nat
         /\ \A k \in DOMAIN text[i].digits : text[i].digits[k] \in Numerals
<1>1. text[i].digits \in Seq(Numerals)
  BY LineType
<1> QED
  BY <1>1, LenProperties

(* Where four digits stand right before six, they are a series and a number. *)
LEMMA PairAtType ==
  ASSUME NEW text \in Seq(Lines), NEW i \in DOMAIN text, NEW k \in Beside(text[i])
  PROVE  /\ PairAt(text[i], k).series \in SeriesNumbers
         /\ PairAt(text[i], k).number \in DocumentNumbers
<1>1. /\ k \in DOMAIN text[i].digits /\ k + 1 \in DOMAIN text[i].digits
      /\ text[i].digits[k + 1].is = "six"
  BY DEF Beside
<1>2. text[i].digits[k].n \in Nat /\ text[i].digits[k + 1].n \in DocumentNumbers
  BY <1>1, DigitsType, NumeralType
<1> QED
  BY <1>2, LastFourDigits DEF PairAt

(* A line with such a place has a first one.                                *)
LEMMA FirstBeside ==
  ASSUME NEW text \in Seq(Lines), NEW i \in DOMAIN text, Beside(text[i]) # {}
  PROVE  /\ Min(Beside(text[i])) \in Beside(text[i])
         /\ \A j \in Beside(text[i]) : Min(Beside(text[i])) <= j
<1>1. Beside(text[i]) \in SUBSET Nat
  BY DigitsType DEF Beside
<1> QED
  BY <1>1, MinIsLeast

(* The first of the lines with a pair is one of them.                       *)
LEMMA FirstWithPair ==
  ASSUME NEW text \in Seq(Lines), WithPair(text) # {}
  PROVE  /\ Min(WithPair(text)) \in WithPair(text)
         /\ Paired(text) = PairAt(text[Min(WithPair(text))],
                                  Min(Beside(text[Min(WithPair(text))])))
<1>1. WithPair(text) \in SUBSET Nat
  BY LineType DEF WithPair
<1>2. Min(WithPair(text)) \in WithPair(text)
  BY <1>1, MinIsLeast
<1> QED
  BY <1>2, Zenon DEF Paired

(* A pair is taken from one place, and single lines do not change it.       *)
LEMMA PairRead ==
  ASSUME NEW text \in Seq(Lines), WithPair(text) # {}
  PROVE  \E i \in WithPair(text) : \E k \in Beside(text[i]) :
           /\ NormalSeries(NumbersRead(text).series) = LastFour(text[i].digits[k].n)
           /\ NormalNumber(NumbersRead(text).number) = text[i].digits[k + 1].n
<1>1. PICK i \in WithPair(text) : Paired(text) = PairAt(text[i], Min(Beside(text[i])))
  BY FirstWithPair
<1>2. PICK k \in Beside(text[i]) : Paired(text) = PairAt(text[i], k)
  <2>1. i \in DOMAIN text /\ Beside(text[i]) # {}
    BY DEF WithPair
  <2> QED
    BY <1>1, <2>1, FirstBeside
<1> DEFINE pair == PairAt(text[i], k)
<1>3. pair.series \in SeriesNumbers /\ pair.number \in DocumentNumbers
  <2>1. i \in DOMAIN text
    BY DEF WithPair
  <2> QED
    BY <2>1, PairAtType
<1>4. pair.series = LastFour(text[i].digits[k].n) /\ pair.number = text[i].digits[k + 1].n
  BY DEF PairAt
<1> HIDE DEF pair
<1>5. /\ pair.series # None /\ NormalSeries(pair.series) = pair.series
      /\ pair.number # None /\ NormalNumber(pair.number) = pair.number
  BY <1>3, NumbersKept
<1>6. Singled(text, pair).series = pair.series /\ Singled(text, pair).number = pair.number
  BY <1>5 DEF Singled
<1>7. NumbersRead(text) = Singled(text, pair)
  BY <1>2 DEF NumbersRead, pair
<1> QED
  BY <1>4, <1>5, <1>6, <1>7

-----------------------------------------------------------------------------
(* The dates.                                                               *)

(* A date as the parser takes it.                                           *)
Accepted(date) == date \in Dates /\ YearAccepted(date)

(* Some place of a text comes first.                                        *)
LEMMA EarliestIsOne ==
  ASSUME NEW places \in SUBSET (Nat \X Nat), places # {}
  PROVE  Earliest(places) \in places
<1> DEFINE rows == {p[1] : p \in places}
<1>1. PICK row \in rows : \A m \in rows : row <= m
  <2>1. rows \in SUBSET Nat /\ rows # {}
    OBVIOUS
  <2> QED
    BY <2>1, LeastNatural
<1> DEFINE columns == {p[2] : p \in {q \in places : q[1] = row}}
<1>2. PICK column \in columns : \A m \in columns : column <= m
  <2>1. columns \in SUBSET Nat /\ columns # {}
    OBVIOUS
  <2> QED
    BY <2>1, LeastNatural
<1>3. PICK p \in places : p[1] = row /\ p[2] = column
  OBVIOUS
<1>4. ASSUME NEW q \in places PROVE p[1] < q[1] \/ (p[1] = q[1] /\ p[2] <= q[2])
  <2>1. p[1] \in Nat /\ q[1] \in Nat /\ p[1] <= q[1]
    BY <1>1, <1>3
  <2>2. q[1] = p[1] => p[2] <= q[2]
    BY <1>2, <1>3
  <2> QED
    BY <2>1, <2>2
<1> QED
  BY <1>4 DEF Earliest

(* At every place of a printed date there is a date the parser takes.       *)
LEMMA PrintedType ==
  ASSUME NEW text \in Seq(Lines)
  PROVE  /\ Printed(text) \in SUBSET (Nat \X Nat)
         /\ \A p \in Printed(text) :
              /\ p[1] \in DOMAIN text /\ p[2] \in DOMAIN text[p[1]].dates
              /\ Accepted(text[p[1]].dates[p[2]])
<1>1. ASSUME NEW p \in Printed(text)
      PROVE  /\ p \in Nat \X Nat
             /\ p[1] \in DOMAIN text /\ p[2] \in DOMAIN text[p[1]].dates
             /\ Accepted(text[p[1]].dates[p[2]])
  <2>1. PICK i \in DOMAIN text :
          p \in {<<i, k>> : k \in {n \in DOMAIN text[i].dates : YearAccepted(text[i].dates[n])}}
    BY DEF Printed
  <2>2. PICK k \in DOMAIN text[i].dates : p = <<i, k>> /\ YearAccepted(text[i].dates[k])
    BY <2>1
  <2>3. i \in Nat /\ text[i].dates \in Seq(Dates)
    BY LineType
  <2>4. k \in Nat /\ text[i].dates[k] \in Dates
    BY <2>3
  <2> QED
    BY <2>2, <2>3, <2>4 DEF Accepted
<1> QED
  BY <1>1

(* The first dates of the lines are dates.                                  *)
LEMMA DatedType ==
  ASSUME NEW text \in Seq(Lines)
  PROVE  /\ Dated(text) \in SUBSET Nat
         /\ \A i \in Dated(text) : i \in DOMAIN text /\ Accepted(text[i].dates[1])
<1>1. ASSUME NEW i \in Dated(text)
      PROVE  i \in Nat /\ i \in DOMAIN text /\ Accepted(text[i].dates[1])
  <2>1. i \in DOMAIN text /\ i \in Nat /\ text[i].dates \in Seq(Dates) /\ text[i].dates # <<>>
        /\ YearAccepted(text[i].dates[1])
    BY LineType DEF Dated
  <2>2. text[i].dates[1] \in Dates
    BY <2>1
  <2> QED
    BY <2>1, <2>2 DEF Accepted
<1> QED
  BY <1>1

(* A first date that is found is one of the page and not the other one.     *)
LEMMA FirstDateType ==
  ASSUME NEW text \in Seq(Lines), NEW date, FirstDateBut(text, date) # None
  PROVE  /\ \E i \in Dated(text) : FirstDateBut(text, date) = text[i].dates[1]
         /\ Accepted(FirstDateBut(text, date)) /\ FirstDateBut(text, date) # date
<1> DEFINE others == {i \in Dated(text) : text[i].dates[1] # date}
<1>1. others # {} /\ FirstDateBut(text, date) = text[Min(others)].dates[1]
  BY DEF FirstDateBut
<1>2. Min(others) \in others
  <2>1. others \in SUBSET Nat
    BY DatedType
  <2> QED
    BY <1>1, <2>1, MinIsLeast
<1> QED
  BY <1>1, <1>2, DatedType

(* The context gives dates of the page, and never one place as both.        *)
LEMMA ContextType ==
  ASSUME NEW text \in Seq(Lines)
  PROVE  /\ ByContext(text).birth = None \/
              \E p \in Printed(text) : ByContext(text).birth = text[p[1]].dates[p[2]]
         /\ ByContext(text).issue = None \/
              \E q \in Printed(text) :
                /\ ByContext(text).issue = text[q[1]].dates[q[2]]
                /\ ByContext(text).birth # None => 
                     \E p \in Printed(text) \ {q} : ByContext(text).birth = text[p[1]].dates[p[2]]
<1> DEFINE dateAt(p) == text[p[1]].dates[p[2]]
           births == {p \in Printed(text) : NearBirth(text, p[1])}
           issues == {p \in Printed(text) : /\ NearIssue(text, p[1])
                                            /\ births # {} => p # Earliest(births)}
<1>1. births # {} => Earliest(births) \in births
  BY PrintedType, EarliestIsOne
<1>2. issues # {} => Earliest(issues) \in issues
  BY PrintedType, EarliestIsOne
<1>3. ByContext(text).birth = IF births = {} THEN None ELSE dateAt(Earliest(births))
  BY DEF ByContext
<1>4. ByContext(text).issue = IF issues = {} THEN None ELSE dateAt(Earliest(issues))
  BY DEF ByContext
<1>5. ByContext(text).birth # None => births # {}
  BY <1>3
<1>6. ByContext(text).issue # None => issues # {}
  BY <1>4
<1>7. CASE births = {}
  BY <1>2, <1>3, <1>4, <1>7
<1>8. CASE births # {}
  <2>1. Earliest(births) \in Printed(text) /\ ByContext(text).birth = dateAt(Earliest(births))
    BY <1>1, <1>3, <1>8
  <2>2. issues # {} => Earliest(issues) \in Printed(text) /\ Earliest(issues) # Earliest(births)
    BY <1>2, <1>8
  <2> QED
    BY <1>4, <2>1, <2>2
<1> QED
  BY <1>7, <1>8

(* What is read is a date whose year passes, or nothing.                    *)
LEMMA OtherDateType ==
  ASSUME NEW text \in Seq(Lines), NEW f, f = WithOtherDate(text, ByContext(text))
  PROVE  /\ f = [birth |-> f.birth, issue |-> f.issue]
         /\ f.birth # None => Accepted(f.birth)
         /\ f.issue # None => Accepted(f.issue)
<1> DEFINE context == ByContext(text)
<1>1. /\ context.birth # None => Accepted(context.birth)
      /\ context.issue # None => Accepted(context.issue)
  BY ContextType, PrintedType
<1>2. f = [birth |-> IF context.birth # None THEN context.birth
                     ELSE FirstDateBut(text, IF context.issue # None THEN context.issue
                                             ELSE FirstDateBut(text, context.birth)),
           issue |-> IF context.issue # None THEN context.issue
                     ELSE FirstDateBut(text, context.birth)]
  BY DEF WithOtherDate
<1> HIDE DEF context
<1>3. f = [birth |-> f.birth, issue |-> f.issue]
  BY <1>2
<1>4. f.issue # None => Accepted(f.issue)
  <2>1. CASE context.issue # None
    BY <1>1, <1>2, <2>1
  <2>2. CASE context.issue = None
    <3>1. f.issue = FirstDateBut(text, context.birth)
      BY <1>2, <2>2
    <3> QED
      BY <3>1, FirstDateType
  <2> QED
    BY <2>1, <2>2
<1>5. f.birth # None => Accepted(f.birth)
  <2>1. CASE context.birth # None
    BY <1>1, <1>2, <2>1
  <2>2. CASE context.birth = None
    <3>1. f.birth = FirstDateBut(text, f.issue)
      BY <1>2, <2>2
    <3> QED
      BY <3>1, FirstDateType
  <2> QED
    BY <2>1, <2>2
<1> QED
  BY <1>3, <1>4, <1>5

(* The moments of dates can be compared.                                    *)
LEMMA MomentType == ASSUME NEW date, Accepted(date) PROVE Moment(date) \in Int
<1>1. date.d \in 0..99 /\ date.m \in 0..99 /\ date.y \in 1500..2100
  BY DEF Accepted, Dates, YearAccepted
<1>2. date.d \in Int /\ date.m \in Int /\ date.y \in Int
  BY <1>1
<1>3. date.y * 10000 + date.m * 100 + date.d \in Int
  BY <1>2
<1> QED
  BY <1>3 DEF Moment

(* The date of birth that is read is not the later one.                     *)
LEMMA DatesReadType ==
  ASSUME NEW text \in Seq(Lines), NEW f, f = DatesRead(text)
  PROVE  /\ f.birth # None => Accepted(f.birth)
         /\ f.issue # None => Accepted(f.issue)
         /\ f.birth # None /\ f.issue # None => Moment(f.birth) <= Moment(f.issue)
<1> DEFINE g == WithOtherDate(text, ByContext(text))
<1>1. /\ g = [birth |-> g.birth, issue |-> g.issue]
      /\ g.birth # None => Accepted(g.birth)
      /\ g.issue # None => Accepted(g.issue)
  BY OtherDateType
<1>2. f = IF g.birth # None /\ g.issue # None /\ Moment(g.birth) > Moment(g.issue)
            THEN [birth |-> g.issue, issue |-> g.birth] ELSE g
  BY DEF DatesRead, BirthFirst
<1> HIDE DEF g
<1>3. g.birth # None /\ g.issue # None => Moment(g.birth) \in Int /\ Moment(g.issue) \in Int
  BY <1>1, MomentType
<1>4. CASE g.birth # None /\ g.issue # None /\ Moment(g.birth) > Moment(g.issue)
  <2>1. f.birth = g.issue /\ f.issue = g.birth
    BY <1>2, <1>4
  <2> QED
    BY <1>1, <1>3, <1>4, <2>1
<1>5. CASE ~(g.birth # None /\ g.issue # None /\ Moment(g.birth) > Moment(g.issue))
  <2>1. f = g
    BY <1>2, <1>5
  <2> QED
    BY <1>1, <1>3, <1>5, <2>1
<1> QED
  BY <1>4, <1>5

(* A date that is read stays as it is, if there is such a day.              *)
LEMMA NormalAccepted ==
  ASSUME NEW date, Accepted(date)
  PROVE  NormalDate(date) = IF OnCalendar(date) THEN date ELSE None
<1>1. date \in Dates /\ date.y \in Int /\ date.y > 99
  BY DEF Accepted, YearAccepted
<1>2. FullYear(date.y) = date.y
  BY <1>1 DEF FullYear
<1>3. [date EXCEPT !.y = date.y] = date
  BY <1>1 DEF Dates
<1> QED
  BY <1>2, <1>3 DEF NormalDate, Accepted

(* Of two dates on lines of their own neither is lost.                      *)
DatedLines(text) == {i \in DOMAIN text : text[i].dates # <<>>}

(* The context may give either, both or none: the earlier one is read as the*)
(* date of birth, the other one as the date of issue.                       *)
LEMMA BothDatesRead ==
  ASSUME NEW text \in Seq(Lines), NEW i, NEW j, DatedLines(text) = {i, j},
         \A k \in {i, j} : /\ Len(text[k].dates) = 1
                           /\ YearAccepted(text[k].dates[1]),
         Moment(text[i].dates[1]) < Moment(text[j].dates[1])
  PROVE  /\ DatesRead(text).birth = text[i].dates[1]
         /\ DatesRead(text).issue = text[j].dates[1]
<1> DEFINE di == text[i].dates[1]
           dj == text[j].dates[1]
           context == ByContext(text)
<1>1. \A k \in {i, j} : k \in DOMAIN text /\ text[k].dates \in Seq(Dates) /\ text[k].dates # <<>>
  BY LineType DEF DatedLines
<1>2. Accepted(di) /\ Accepted(dj)
  <2>1. \A k \in {i, j} : text[k].dates[1] \in Dates
    BY <1>1
  <2> QED
    BY <2>1 DEF Accepted
<1>3. Moment(di) \in Int /\ Moment(dj) \in Int /\ Moment(di) < Moment(dj)
  BY <1>2, MomentType
<1>4. di # dj /\ di # None /\ dj # None
  BY <1>2, <1>3, NoneIsNoValue DEF Accepted
<1>5. Printed(text) = {<<i, 1>>, <<j, 1>>}
  <2>1. ASSUME NEW p \in Printed(text) PROVE p \in {<<i, 1>>, <<j, 1>>}
    <3>1. /\ p \in Nat \X Nat /\ p[1] \in DOMAIN text /\ p[2] \in DOMAIN text[p[1]].dates
      BY PrintedType
    <3>2. text[p[1]].dates \in Seq(Dates)
      BY <3>1, LineType
    <3>3. text[p[1]].dates # <<>>
      BY <3>1, <3>2
    <3>4. p[1] \in {i, j}
      BY <3>1, <3>3 DEF DatedLines
    <3>5. p[2] = 1
      BY <3>1, <3>2, <3>4
    <3> QED
      BY <3>1, <3>4, <3>5
  <2>2. ASSUME NEW k \in {i, j} PROVE <<k, 1>> \in Printed(text)
    <3>1. k \in DOMAIN text /\ 1 \in {n \in DOMAIN text[k].dates : YearAccepted(text[k].dates[n])}
      BY <1>1
    <3> QED
      BY <3>1 DEF Printed
  <2> QED
    BY <2>1, <2>2
<1>6. Dated(text) = {i, j}
  BY <1>1 DEF Dated, DatedLines
<1> HIDE DEF di, dj, context
<1>7. /\ context.birth \in {None, di, dj} /\ context.issue \in {None, di, dj}
      /\ context.issue # None => context.birth # context.issue
  <2>1. context.birth = None \/ \E p \in Printed(text) : context.birth = text[p[1]].dates[p[2]]
    BY ContextType DEF context
  <2>2. \A p \in Printed(text) : text[p[1]].dates[p[2]] = IF p = <<i, 1>> THEN di ELSE dj
    BY <1>3, <1>5 DEF di, dj
  <2>3. CASE context.issue = None
    BY <2>1, <2>2, <2>3
  <2>4. CASE context.issue # None
    <3>1. PICK q \in Printed(text) :
            /\ context.issue = text[q[1]].dates[q[2]]
            /\ context.birth # None =>
                 \E p \in Printed(text) \ {q} : context.birth = text[p[1]].dates[p[2]]
      BY <2>4, ContextType DEF context
    <3>2. CASE context.birth = None
      BY <1>4, <2>2, <2>4, <3>1, <3>2
    <3>3. CASE context.birth # None
      <4>1. PICK p \in Printed(text) : p # q /\ context.birth = text[p[1]].dates[p[2]]
        BY <3>1, <3>3
      <4>2. p = <<i, 1>> <=> q # <<i, 1>>
        BY <1>5, <4>1
      <4> QED
        BY <1>4, <2>2, <3>1, <4>1, <4>2
    <3> QED
      BY <3>2, <3>3
  <2> QED
    BY <2>3, <2>4
<1>8. \A date \in {None, di, dj} : FirstDateBut(text, date) \in {di, dj} \ {date}
  <2>1. ASSUME NEW date \in {None, di, dj} PROVE FirstDateBut(text, date) \in {di, dj} \ {date}
    <3> DEFINE others == {k \in Dated(text) : text[k].dates[1] # date}
    <3>1. others # {}
      BY <1>4, <1>6 DEF di, dj
    <3>2. Min(others) \in others
      <4>1. others \in SUBSET Nat
        BY DatedType
      <4> QED
        BY <3>1, <4>1, MinIsLeast
    <3>3. FirstDateBut(text, date) = text[Min(others)].dates[1]
      BY <3>1 DEF FirstDateBut
    <3> QED
      BY <1>6, <3>2, <3>3 DEF di, dj
  <2> QED
    BY <2>1
<1> DEFINE f == WithOtherDate(text, context)
<1>9. f = [birth |-> f.birth, issue |-> f.issue] /\ f.birth \in {di, dj}
      /\ f.issue \in {di, dj} \ {f.birth}
  <2>1. f.issue = IF context.issue # None THEN context.issue ELSE FirstDateBut(text, context.birth)
    BY DEF WithOtherDate
  <2>2. f.birth = IF context.birth # None THEN context.birth ELSE FirstDateBut(text, f.issue)
    BY DEF WithOtherDate
  <2>3. f = [birth |-> f.birth, issue |-> f.issue]
    BY DEF WithOtherDate
  <2> HIDE DEF f
  <2>4. f.issue \in {di, dj} /\ f.issue # context.birth
    BY <1>7, <1>8, <2>1
  <2>5. f.birth \in {di, dj} /\ f.birth # f.issue
    BY <1>7, <1>8, <2>2, <2>4
  <2> QED
    BY <2>3, <2>4, <2>5
<1>10. DatesRead(text) = BirthFirst(f)
  BY DEF DatesRead, context
<1> HIDE DEF f
<1>11. f.birth # None /\ f.issue # None
  BY <1>4, <1>9
<1>12. CASE f.birth = di
  <2>1. f.issue = dj /\ ~(Moment(f.birth) > Moment(f.issue))
    BY <1>3, <1>9, <1>12
  <2> QED
    BY <1>10, <1>12, <2>1 DEF BirthFirst, di, dj
<1>13. CASE f.birth = dj
  <2>1. f.issue = di /\ Moment(f.birth) > Moment(f.issue)
    BY <1>3, <1>9, <1>13
  <2> QED
    BY <1>10, <1>11, <1>13, <2>1 DEF BirthFirst, di, dj
<1> QED
  BY <1>9, <1>12, <1>13

-----------------------------------------------------------------------------
(* The types of what is read.                                               *)

NameFields == [last : Names \union {None}, first : Names \union {None},
               middle : Names \union {None}]

(* What stands beside a label is a name or nothing.                         *)
LEMMA BesideType ==
  ASSUME NEW text \in Seq(Lines), NEW i \in DOMAIN text, NEW dist
  PROVE  NameBeside(text, i, dist) \in Names \union {None}
<1>1. Len(text) \in Nat /\ i \in 1..Len(text) /\ i - 1 \in Nat
  BY LineType
<1>2. NameAbove(text, i, dist) \in Names \union {None}
  <2> DEFINE near == {j \in 1..i - 1 : i - j <= dist /\ text[j].name # None}
  <2>1. CASE near = {}
    BY <2>1 DEF NameAbove
  <2>2. CASE near # {}
    <3>1. near \in SUBSET (1..i - 1)
      OBVIOUS
    <3>2. Max(near) \in near
      BY <1>1, <2>2, <3>1, MaxIsGreatest
    <3>3. Max(near) \in DOMAIN text
      BY <1>1, <3>2, LineType
    <3>4. NameAbove(text, i, dist) = text[Max(near)].name
      BY <2>2 DEF NameAbove
    <3> QED
      BY <3>3, <3>4, LineType
  <2> QED
    BY <2>1, <2>2
<1>3. NameBelow(text, i, 3) \in Names \union {None}
  <2> DEFINE near == {j \in i + 1..Len(text) : j - i <= 3 /\ text[j].name # None}
  <2>1. CASE near = {}
    BY <2>1 DEF NameBelow
  <2>2. CASE near # {}
    <3>1. near \in SUBSET Nat
      BY <1>1
    <3>2. Min(near) \in near
      BY <2>2, <3>1, MinIsLeast
    <3>3. Min(near) \in DOMAIN text
      BY <1>1, <3>2, LineType
    <3>4. NameBelow(text, i, 3) = text[Min(near)].name
      BY <2>2 DEF NameBelow
    <3> QED
      BY <3>3, <3>4, LineType
  <2> QED
    BY <2>1, <2>2
<1> QED
  BY <1>2, <1>3 DEF NameBeside

(* So is what the labels give.                                              *)
LEMMA LabelledType == ASSUME NEW text \in Seq(Lines) PROVE Labelled(text) \in NameFields
<1>1. ASSUME NEW field, NEW dist PROVE ByLabel(text, field, dist) \in Names \union {None}
  <2> DEFINE found == {i \in DOMAIN text : /\ LabelOf(field, text[i])
                                           /\ NameBeside(text, i, dist) # None}
  <2>1. CASE found = {}
    BY <2>1 DEF ByLabel
  <2>2. CASE found # {}
    <3>1. Len(text) \in Nat /\ found \in SUBSET (1..Len(text))
      BY LineType
    <3>2. Max(found) \in found
      BY <2>2, <3>1, MaxIsGreatest
    <3>3. ByLabel(text, field, dist) = NameBeside(text, Max(found), dist)
      BY <2>2 DEF ByLabel
    <3> QED
      BY <3>2, <3>3, BesideType
  <2> QED
    BY <2>1, <2>2
<1> QED
  BY <1>1 DEF Labelled, NameFields

(* What completes it is names.                                              *)
LEMMA SupplementedType ==
  ASSUME NEW text \in Seq(Lines), NEW f \in NameFields
  PROVE  Supplemented(text, f) \in NameFields
<1> DEFINE used == {f.last, f.first, f.middle} \ {None}
           at == {n \in Named(text, 1, Len(text)) : text[n].name \notin used}
           spare == NamesOn(text, at)
           takesFirst == f.first = None /\ spare # <<>>
           rest == IF takesFirst THEN Tail(spare) ELSE spare
<1>1. spare \in Seq(Names)
  <2>1. at \in SUBSET {n \in DOMAIN text : text[n].name # None}
    BY DEF Named
  <2>2. Cardinality(at) \in Nat
    <3>1. 1 \in Int /\ Len(text) \in Int
      BY LineType
    <3>2. IsFiniteSet(Named(text, 1, Len(text)))
      BY <3>1, NamesCount
    <3>3. IsFiniteSet(at)
      BY <3>2, FS_Subset
    <3> QED
      BY <3>3, FS_CardinalityType
  <2> HIDE DEF at
  <2>3. \A k \in 1..Cardinality(at) : spare[k] \in Names
    BY <2>1, NameOnType
  <2>4. spare = [k \in 1..Cardinality(at) |-> spare[k]]
    BY DEF NamesOn
  <2> HIDE DEF spare
  <2> QED
    BY <2>2, <2>3, <2>4
<1> HIDE DEF spare
<1>2. spare # <<>> => Head(spare) \in Names
  BY <1>1
<1>3. rest \in Seq(Names)
  BY <1>1
<1> HIDE DEF rest
<1>4. rest # <<>> => Head(rest) \in Names
  BY <1>3
<1>5. Supplemented(text, f) =
        IF used = {} THEN f
        ELSE [last   |-> f.last,
              first  |-> IF takesFirst THEN Head(spare) ELSE f.first,
              middle |-> IF f.middle = None /\ rest # <<>> THEN Head(rest) ELSE f.middle]
  BY DEF Supplemented, spare, rest
<1> HIDE DEF used
<1> QED
  BY <1>2, <1>4, <1>5 DEF NameFields

(* The first window with so many names has names in these places.           *)
LEMMA WindowType ==
  ASSUME NEW text \in Seq(Lines), NEW n \in Int, NEW wide \in Int, NEW count \in Nat,
         NEW k \in 1..count,
         NEW starts, starts = {i \in 1..n : Len(NamesBetween(text, i, i + wide)) >= count},
         starts # {}
  PROVE  NamesBetween(text, Min(starts), Min(starts) + wide)[k] \in Names
<1>1. starts \in SUBSET Nat
  OBVIOUS
<1>2. Min(starts) \in starts
  BY <1>1, MinIsLeast
<1> DEFINE i == Min(starts)
<1>3. i \in Int /\ i + wide \in Int /\ Len(NamesBetween(text, i, i + wide)) >= count
  BY <1>2
<1> HIDE DEF i
<1>4. Len(NamesBetween(text, i, i + wide)) \in Nat
  BY <1>3, NamesCount
<1>5. k \in 1..Len(NamesBetween(text, i, i + wide))
  BY <1>3, <1>4
<1> QED
  BY <1>3, <1>5, NameType DEF i

(* All names that are read are names.                                       *)
LEMMA NamesReadType == ASSUME NEW text \in Seq(Lines) PROVE NamesRead(text) \in NameFields
<1>1. Len(text) \in Int
  BY LineType
<1>2. ASSUME NEW f \in NameFields PROVE ThreeInARow(text, f) \in NameFields
  <2> DEFINE starts == {i \in 1..Len(text) - 2 : Len(NamesBetween(text, i, i + 8)) >= 3}
             names == NamesBetween(text, Min(starts), Min(starts) + 8)
  <2>1. CASE f.last # None \/ starts = {}
    BY <2>1 DEF ThreeInARow
  <2>2. CASE ~(f.last # None \/ starts = {})
    <3>1. ASSUME NEW k \in 1..3 PROVE names[k] \in Names
      <4>1. Len(text) - 2 \in Int /\ 8 \in Int /\ 3 \in Nat /\ starts # {}
        BY <1>1, <2>2
      <4> QED
        BY <4>1, WindowType
    <3>2. ThreeInARow(text, f) = [last |-> names[1], first |-> names[2], middle |-> names[3]]
      BY <2>2 DEF ThreeInARow
    <3> HIDE DEF names
    <3> QED
      BY <3>1, <3>2 DEF NameFields
  <2> QED
    BY <2>1, <2>2
<1>3. ASSUME NEW f \in NameFields PROVE TwoInARow(text, f) \in NameFields
  <2> DEFINE starts == {i \in 1..Len(text) - 1 : Len(NamesBetween(text, i, i + 6)) >= 2}
             names == NamesBetween(text, Min(starts), Min(starts) + 6)
             order == NameOrder(names[1], names[2])
  <2>1. CASE f.last # None \/ starts = {}
    BY <2>1 DEF TwoInARow
  <2>2. CASE ~(f.last # None \/ starts = {})
    <3>1. ASSUME NEW k \in 1..2 PROVE names[k] \in Names
      <4>1. Len(text) - 1 \in Int /\ 6 \in Int /\ 2 \in Nat /\ starts # {}
        BY <1>1, <2>2
      <4> QED
        BY <4>1, WindowType
    <3>2. TwoInARow(text, f) = [f EXCEPT !.last = order[1], !.first = order[2]]
      BY <2>2 DEF TwoInARow
    <3> HIDE DEF names
    <3>3. order[1] \in Names /\ order[2] \in Names
      BY <3>1 DEF NameOrder
    <3> HIDE DEF order
    <3> QED
      BY <3>2, <3>3 DEF NameFields
  <2> QED
    BY <2>1, <2>2
<1> QED
  BY <1>2, <1>3, LabelledType, SupplementedType DEF NamesRead

(* The first word of these kinds is one of them, if there is any.           *)
LEMMA FirstOfType ==
  ASSUME NEW text \in Seq(Lines), NEW i \in DOMAIN text, NEW kinds
  PROVE  \/ FirstOf(text[i], kinds) = None
         \/ \E word \in Numerals : word.is \in kinds /\ FirstOf(text[i], kinds) = word.n
<1> DEFINE at == {k \in DOMAIN text[i].digits : text[i].digits[k].is \in kinds}
<1>1. FirstOf(text[i], kinds) = IF at = {} THEN None ELSE text[i].digits[Min(at)].n
  BY Zenon DEF FirstOf
<1>2. at # {} => Min(at) \in at
  <2>1. at \in SUBSET Nat
    BY DigitsType
  <2> HIDE DEF at
  <2> QED
    BY <2>1, MinIsLeast
<1>3. at # {} => text[i].digits[Min(at)] \in Numerals /\ text[i].digits[Min(at)].is \in kinds
  BY <1>2, DigitsType
<1> HIDE DEF at
<1> QED
  BY <1>1, <1>3

(* Four digits of a line, or the year of its date, are a series, and six    *)
(* are a number.                                                            *)
LEMMA SingleDigitsType ==
  ASSUME NEW text \in Seq(Lines), NEW i \in DOMAIN text
  PROVE  /\ FourDigits(text[i]) \in SeriesNumbers \union {None}
         /\ SixDigits(text[i]) \in DocumentNumbers \union {None}
<1>1. FourDigits(text[i]) \in SeriesNumbers \union {None}
  <2>1. CASE FourDigits(text[i]) = None
    BY <2>1
  <2>2. ASSUME NEW word \in Numerals, word.is \in {"year", "four"}, FourDigits(text[i]) = word.n
        PROVE  FourDigits(text[i]) \in SeriesNumbers
    BY <2>2, NumeralType
  <2> QED
    BY <2>1, <2>2, FirstOfType DEF FourDigits
<1>2. SixDigits(text[i]) \in DocumentNumbers \union {None}
  <2>1. CASE SixDigits(text[i]) = None
    BY <2>1
  <2>2. ASSUME NEW word \in Numerals, word.is \in {"six"}, SixDigits(text[i]) = word.n
        PROVE  SixDigits(text[i]) \in DocumentNumbers
    BY <2>2, NumeralType
  <2> QED
    BY <2>1, <2>2, FirstOfType DEF SixDigits
<1> QED
  BY <1>1, <1>2

(* What is read as a series is one, and so is the number.                   *)
LEMMA NumbersReadType ==
  ASSUME NEW text \in Seq(Lines)
  PROVE  /\ NumbersRead(text).series \in SeriesNumbers \union {None}
         /\ NumbersRead(text).number \in DocumentNumbers \union {None}
<1>1. ASSUME NEW S \in SUBSET DOMAIN text, S # {} PROVE Min(S) \in S /\ Min(S) \in DOMAIN text
  <2>1. S \in SUBSET Nat
    BY LineType
  <2> QED
    BY <1>1, <2>1, MinIsLeast
<1>2. /\ Paired(text).series \in SeriesNumbers \union {None}
      /\ Paired(text).number \in DocumentNumbers \union {None}
  <2>1. CASE WithPair(text) = {}
    <3>1. Paired(text) = [series |-> None, number |-> None]
      BY <2>1, Zenon DEF Paired
    <3> QED
      BY <3>1
  <2>2. CASE WithPair(text) # {}
    <3>1. PICK i \in WithPair(text) : Paired(text) = PairAt(text[i], Min(Beside(text[i])))
      BY <2>2, FirstWithPair
    <3>2. i \in DOMAIN text /\ Beside(text[i]) # {}
      BY DEF WithPair
    <3> QED
      BY <3>1, <3>2, FirstBeside, PairAtType
  <2> QED
    BY <2>1, <2>2
<1>3. ASSUME NEW pair, pair.series \in SeriesNumbers \union {None},
             pair.number \in DocumentNumbers \union {None}
      PROVE  /\ Singled(text, pair).series \in SeriesNumbers \union {None}
             /\ Singled(text, pair).number \in DocumentNumbers \union {None}
  <2> DEFINE IsFour(i) == FourDigits(text[i]) \notin {None, 101, 3112}
             four == {i \in DOMAIN text : IsFour(i)}
             six  == {i \in DOMAIN text : SixDigits(text[i]) # None}
  <2>1. Singled(text, pair) =
          [series |-> IF pair.series # None \/ four = {} THEN pair.series
                      ELSE FourDigits(text[Min(four)]),
           number |-> IF pair.number # None \/ six = {} THEN pair.number
                      ELSE SixDigits(text[Min(six)])]
    BY Zenon DEF Singled
  <2>2. four # {} => FourDigits(text[Min(four)]) \in SeriesNumbers \union {None}
    <3> HIDE DEF IsFour
    <3>1. four \in SUBSET DOMAIN text
      OBVIOUS
    <3> HIDE DEF four
    <3>2. four # {} => Min(four) \in DOMAIN text
      BY <1>1, <3>1
    <3> QED
      BY <3>2, SingleDigitsType
  <2>3. six # {} => SixDigits(text[Min(six)]) \in DocumentNumbers \union {None}
    <3>1. six # {} => Min(six) \in DOMAIN text
      BY <1>1
    <3> HIDE DEF six
    <3> QED
      BY <3>1, SingleDigitsType
  <2> HIDE DEF four, six
  <2> QED
    BY <1>3, <2>1, <2>2, <2>3
<1> QED
  BY <1>2, <1>3 DEF NumbersRead

(* What is read as a code is one.                                           *)
LEMMA CodeReadType ==
  ASSUME NEW text \in Seq(Lines), NEW issue
  PROVE  CodeRead(text, issue) \in Codes \union {None}
<1> DEFINE taken == {i \in DOMAIN text :
                       /\ text[i].code # None
                       /\ issue # None \/ \E j \in DOMAIN text : /\ i - j \in 0..3
                                                                 /\ "KOD" \in text[j].words}
<1>1. CodeRead(text, issue) = IF taken = {} THEN None ELSE text[Min(taken)].code
  BY Zenon DEF CodeRead
<1>2. taken # {} => Min(taken) \in DOMAIN text
  <2>1. taken \in SUBSET Nat /\ taken \in SUBSET DOMAIN text
    BY LineType
  <2> HIDE DEF taken
  <2> QED
    BY <2>1, MinIsLeast
<1> HIDE DEF taken
<1> QED
  BY <1>1, <1>2, LineType

(* The authority is on lines of the page.                                   *)
LEMMA IssuedByType == ASSUME NEW text \in Seq(Lines) PROVE IssuedByRead(text) \in SUBSET Nat
<1>1. DOMAIN text \in SUBSET Nat
  BY LineType
<1> QED
  BY <1>1 DEF IssuedByRead

-----------------------------------------------------------------------------
(* The invariant: the parser has the lines of the page, each of its steps   *)
(* leaves the fields the earlier ones read, and the response is what the    *)
(* normalisation makes of the fields.                                       *)

FieldNames == {"last", "first", "middle", "birth", "issue", "series", "number", "code",
               "issuedBy"}

HasNames ==
  /\ fields.last = NamesRead(page).last /\ fields.first = NamesRead(page).first
  /\ fields.middle = NamesRead(page).middle
HasNumbers ==
  /\ fields.series = NumbersRead(page).series
  /\ fields.number = NumbersRead(page).number
HasDates ==
  /\ fields.birth = DatesRead(page).birth
  /\ fields.issue = DatesRead(page).issue

ReadInv ==
  /\ pc \in {"names", "numbers", "dates", "code"} => source = "text"
  /\ source = "text" => lines = page
  /\ source = "text" /\ pc \in {"numbers", "dates", "code", "normalise", "done"} => HasNames
  /\ source = "text" /\ pc \in {"dates", "code", "normalise", "done"} => HasNumbers
  /\ source = "text" /\ pc \in {"code", "normalise", "done"} => HasDates
  /\ pc = "done" => response = NormalPassport(fields)

Inv == TypeOK /\ ReadInv

(* The fields of a result, before anything is read.                         *)
LEMMA NoFieldsDomain == DOMAIN NoFields = FieldNames
BY DEF NoFields, FieldNames

(* Nothing read is of every type.                                           *)
LEMMA NoFieldsTyped == FieldsTyped(NoFields)
BY DEF NoFields, FieldsTyped

(* The parts of a record with all fields.                                   *)
LEMMA FieldsExcept ==
  ASSUME NEW f, DOMAIN f = FieldNames, NEW a, NEW b, NEW c
  PROVE  /\ DOMAIN [f EXCEPT !.last = a, !.first = b, !.middle = c] = FieldNames
         /\ DOMAIN [f EXCEPT !.series = a, !.number = b] = FieldNames
         /\ DOMAIN [f EXCEPT !.birth = a, !.issue = b] = FieldNames
         /\ DOMAIN [f EXCEPT !.code = a, !.issuedBy = b] = FieldNames
OBVIOUS

(* The normalisation keeps the types, the names, and changes nothing but    *)
(* dates, series and number.                                                *)
LEMMA NormalType ==
  ASSUME NEW f, DOMAIN f = FieldNames, FieldsTyped(f), NEW r, r = NormalPassport(f)
  PROVE  /\ DOMAIN r = FieldNames /\ FieldsTyped(r)
         /\ r.last = f.last /\ r.first = f.first /\ r.middle = f.middle
         /\ r.birth = IF f.birth = None THEN None ELSE NormalDate(f.birth)
         /\ r.issue = IF f.issue = None THEN None ELSE NormalDate(f.issue)
         /\ r.series = NormalSeries(f.series) /\ r.number = NormalNumber(f.number)
<1> DEFINE birth == IF f.birth = None THEN None ELSE NormalDate(f.birth)
           issue == IF f.issue = None THEN None ELSE NormalDate(f.issue)
           series == NormalSeries(f.series)
           number == NormalNumber(f.number)
<1>1. r = [f EXCEPT !.birth = birth, !.issue = issue, !.series = series, !.number = number]
  BY DEF NormalPassport
<1>2. \A date \in Dates : NormalDate(date) \in Dates \union {None}
  <2>1. ASSUME NEW date \in Dates PROVE [date EXCEPT !.y = FullYear(date.y)] \in Dates
    <3>1. date.y \in SeriesNumbers
      BY DEF Dates
    <3>2. FullYear(date.y) \in SeriesNumbers
      <4>1. \A y \in SeriesNumbers : y \in Int /\ 0 <= y /\ y <= 9999
        BY SMT DEF SeriesNumbers
      <4>2. date.y \in Int /\ 0 <= date.y /\ date.y <= 9999
        BY <3>1, <4>1
      <4>3. FullYear(date.y) \in Int /\ 0 <= FullYear(date.y) /\ FullYear(date.y) <= 9999
        BY <4>2, SMT DEF FullYear
      <4>4. \A y \in Int : 0 <= y /\ y <= 9999 => y \in SeriesNumbers
        BY SMT DEF SeriesNumbers
      <4> QED
        BY <4>3, <4>4, SMT
    <3> QED
      BY <3>2 DEF Dates
  <2> QED
    BY <2>1 DEF NormalDate
<1>3. /\ birth \in Dates \union {None} /\ issue \in Dates \union {None}
      /\ series \in SeriesNumbers \union {None} /\ number \in DocumentNumbers \union {None}
  BY <1>2 DEF FieldsTyped, NormalSeries, NormalNumber
<1> HIDE DEF birth, issue, series, number
<1>4. /\ DOMAIN r = FieldNames
      /\ r.last = f.last /\ r.first = f.first /\ r.middle = f.middle
      /\ r.birth = birth /\ r.issue = issue /\ r.series = series /\ r.number = number
      /\ r.code = f.code /\ r.issuedBy = f.issuedBy
  BY <1>1 DEF FieldNames
<1>5. FieldsTyped(r)
  BY <1>3, <1>4 DEF FieldsTyped
<1> QED
  BY <1>4, <1>5 DEF birth, issue, series, number

(* The entities of the passport model, as fields.                           *)
LEMMA StructuredType ==
  ASSUME NEW entity \in Entities
  PROVE  /\ DOMAIN ExtractStructured(entity) = FieldNames
         /\ FieldsTyped(ExtractStructured(entity))
<1>1. DOMAIN ExtractStructured(entity) = FieldNames
  BY DEF ExtractStructured, FieldNames
<1>2. FieldsTyped(ExtractStructured(entity))
  BY EntitiesAreAnswers DEF ExtractStructured, FieldsTyped
<1> QED
  BY <1>1, <1>2

(* The invariant holds at the start.                                        *)
LEMMA InvInit == Init => Inv
<1> SUFFICES ASSUME Init PROVE Inv
  OBVIOUS
<1> USE DEF Init
<1>1. TypeOK
  <2>1. <<>> \in Seq(Lines)
    OBVIOUS
  <2>2. FieldsTyped(fields) /\ FieldsTyped(response)
    BY NoFieldsTyped
  <2> QED
    BY <2>1, <2>2 DEF TypeOK
<1>2. source # "text" /\ pc = "call"
  BY ConfigurationIsLegal
<1> QED
  BY <1>1, <1>2 DEF Inv, ReadInv

(* What the steps of the calls keep: the type of the text that is parsed.   *)
LEMMA ParseStep ==
  ASSUME TypeOK, NEW text \in Pages, Parse(text, text)
  PROVE  TypeOK' /\ ReadInv'
<1>1. text \in Seq(Lines)
  BY ConfigurationIsLegal
<1>2. TypeOK'
  BY <1>1 DEF TypeOK, Parse
<1>3. ReadInv'
  BY DEF Parse, ReadInv
<1> QED
  BY <1>2, <1>3

(* A call that fails changes no field.                                      *)
LEMMA FailsStep ==
  ASSUME Inv, NEW answer \in Answers, Fails(answer)
  PROVE  TypeOK' /\ ReadInv'
<1>1. ErrorType(answer) \in {"network", "api", "auth", "rate_limit", "invalid", "unknown"}
  BY ConfigurationIsLegal DEF Failures, ErrorType
<1>2. TypeOK'
  BY <1>1 DEF Inv, TypeOK, Fails
<1>3. ReadInv'
  BY DEF Inv, Fails, ReadInv
<1> QED
  BY <1>2, <1>3

(* The entities of the passport model become fields, or nothing changes.    *)
LEMMA AskStructuredStep == Inv /\ AskStructured => TypeOK' /\ ReadInv'
<1> SUFFICES ASSUME Inv, AskStructured PROVE TypeOK' /\ ReadInv'
  OBVIOUS
<1> USE DEF Inv
<1>1. CASE \E entity \in Entities :
             /\ HasRequiredFields(ExtractStructured(entity))
             /\ fields' = ExtractStructured(entity)
             /\ source' = "structured"
             /\ pc' = "normalise"
  <2>1. PICK entity \in Entities : fields' = ExtractStructured(entity)
    BY <1>1
  <2>2. /\ pc' = "normalise" /\ source' = "structured"
        /\ UNCHANGED <<client, provider, page, lines, err, response>>
    BY <1>1 DEF AskStructured
  <2>3. DOMAIN fields' = DOMAIN NoFields /\ FieldsTyped(fields)'
    <3>1. DOMAIN fields' = FieldNames /\ FieldsTyped(ExtractStructured(entity))
      BY <2>1, StructuredType
    <3> QED
      BY <2>1, <3>1, NoFieldsDomain DEF FieldsTyped
  <2>4. TypeOK'
    BY <2>2, <2>3 DEF TypeOK
  <2>5. ReadInv'
    BY <2>2 DEF ReadInv
  <2> QED
    BY <2>4, <2>5
<1>2. CASE pc' = "page" /\ UNCHANGED <<source, fields>>
  <2>1. UNCHANGED <<client, provider, page, lines, err, response>>
    BY DEF AskStructured
  <2> QED
    BY <1>2, <2>1 DEF TypeOK, ReadInv
<1> QED
  BY <1>1, <1>2 DEF AskStructured

(* The page model gives the lines in the order of the page.                 *)
LEMMA AskPageStep == Inv /\ AskPage => TypeOK' /\ ReadInv'
BY ParseStep, FailsStep DEF Inv, AskPage

(* So does VK.                                                              *)
LEMMA AskVKStep == Inv /\ AskVK => TypeOK' /\ ReadInv'
BY ParseStep, FailsStep DEF Inv, AskVK

(* The sorted blocks are the page.                                          *)
LEMMA AskYandexStep == Inv /\ AskYandex => TypeOK' /\ ReadInv'
<1> SUFFICES ASSUME Inv, AskYandex PROVE TypeOK' /\ ReadInv'
  OBVIOUS
<1>1. CASE \E answer \in Answers : Fails(answer)
  BY <1>1, FailsStep
<1>2. CASE \E text \in Pages : \E order \in Orders(text) :
             LET sorted == SortBlocksByY([k \in DOMAIN text |->
                             [line |-> text[order[k]], top |-> order[k]]])
             IN  Parse(text, [k \in DOMAIN text |-> sorted[k].line])
  <2>1. PICK text \in Pages : \E order \in Orders(text) :
          Parse(text, [k \in DOMAIN text |-> SortBlocksByY([i \in DOMAIN text |->
                  [line |-> text[order[i]], top |-> order[i]]])[k].line])
    BY <1>2
  <2>2. PICK order \in Orders(text) :
          Parse(text, [k \in DOMAIN text |-> SortBlocksByY([i \in DOMAIN text |->
                  [line |-> text[order[i]], top |-> order[i]]])[k].line])
    BY <2>1
  <2>3. text \in Seq(Lines)
    BY ConfigurationIsLegal
  <2>4. Parse(text, text)
    BY <2>2, <2>3, SortRestores
  <2> QED
    BY <2>4, ParseStep DEF Inv
<1> QED
  BY <1>1, <1>2 DEF AskYandex

(* The first step of the parser has the names of the page.                  *)
LEMMA ReadNamesStep == Inv /\ ReadNames => TypeOK' /\ ReadInv'
<1> SUFFICES ASSUME Inv, ReadNames PROVE TypeOK' /\ ReadInv'
  OBVIOUS
<1> DEFINE names == NamesRead(page)
<1>1. /\ pc = "names" /\ pc' = "numbers" /\ source = "text" /\ lines = page /\ page \in Seq(Lines)
      /\ UNCHANGED <<client, provider, page, lines, source, err, response>>
  BY DEF Inv, TypeOK, ReadInv, ReadNames
<1>2. fields' = [NoFields EXCEPT !.last = names.last, !.first = names.first,
                                 !.middle = names.middle]
  BY <1>1 DEF ReadNames
<1>3. names \in NameFields
  BY <1>1, NamesReadType
<1> HIDE DEF names
<1>4. {names.last, names.first, names.middle} \subseteq Names \union {None}
  BY <1>3 DEF NameFields
<1>5. /\ DOMAIN fields' = DOMAIN NoFields
      /\ fields'.last = names.last /\ fields'.first = names.first /\ fields'.middle = names.middle
      /\ fields'.birth = None /\ fields'.issue = None /\ fields'.series = None
      /\ fields'.number = None /\ fields'.code = None /\ fields'.issuedBy = {}
  BY <1>2 DEF NoFields
<1>6. FieldsTyped(fields)'
  BY <1>4, <1>5 DEF FieldsTyped
<1>7. TypeOK'
  BY <1>1, <1>5, <1>6 DEF Inv, TypeOK
<1>8. ReadInv'
  BY <1>1, <1>5 DEF ReadInv, HasNames, names
<1> QED
  BY <1>7, <1>8

(* The second keeps them.                                                   *)
LEMMA ReadNumbersStep == Inv /\ ReadNumbers => TypeOK' /\ ReadInv'
<1> SUFFICES ASSUME Inv, ReadNumbers PROVE TypeOK' /\ ReadInv'
  OBVIOUS
<1> DEFINE numbers == NumbersRead(page)
<1>1. /\ pc = "numbers" /\ pc' = "dates" /\ source = "text" /\ lines = page /\ page \in Seq(Lines)
      /\ UNCHANGED <<client, provider, page, lines, source, err, response>>
      /\ HasNames /\ DOMAIN fields = FieldNames /\ FieldsTyped(fields)
  BY NoFieldsDomain DEF Inv, TypeOK, ReadInv, ReadNumbers
<1>2. fields' = [fields EXCEPT !.series = numbers.series, !.number = numbers.number]
  BY <1>1 DEF ReadNumbers
<1>3. /\ numbers.series \in SeriesNumbers \union {None}
      /\ numbers.number \in DocumentNumbers \union {None}
  BY <1>1, NumbersReadType
<1> HIDE DEF numbers
<1>4. /\ DOMAIN fields' = FieldNames
      /\ fields'.last = fields.last /\ fields'.first = fields.first
      /\ fields'.middle = fields.middle /\ fields'.birth = fields.birth
      /\ fields'.issue = fields.issue /\ fields'.series = numbers.series
      /\ fields'.number = numbers.number /\ fields'.code = fields.code
      /\ fields'.issuedBy = fields.issuedBy
  BY <1>1, <1>2 DEF FieldNames
<1>5. FieldsTyped(fields)'
  BY <1>1, <1>3, <1>4 DEF FieldsTyped
<1>6. TypeOK'
  BY <1>1, <1>4, <1>5, NoFieldsDomain DEF Inv, TypeOK
<1>7. ReadInv'
  BY <1>1, <1>4 DEF ReadInv, HasNames, HasNumbers, numbers
<1> QED
  BY <1>6, <1>7

(* The third keeps these too.                                               *)
LEMMA ReadDatesStep == Inv /\ ReadDates => TypeOK' /\ ReadInv'
<1> SUFFICES ASSUME Inv, ReadDates PROVE TypeOK' /\ ReadInv'
  OBVIOUS
<1> DEFINE dates == DatesRead(page)
<1>1. /\ pc = "dates" /\ pc' = "code" /\ source = "text" /\ lines = page /\ page \in Seq(Lines)
      /\ UNCHANGED <<client, provider, page, lines, source, err, response>>
      /\ HasNames /\ HasNumbers /\ DOMAIN fields = FieldNames /\ FieldsTyped(fields)
  BY NoFieldsDomain DEF Inv, TypeOK, ReadInv, ReadDates
<1>2. fields' = [fields EXCEPT !.birth = dates.birth, !.issue = dates.issue]
  BY <1>1 DEF ReadDates
<1>3. dates.birth \in Dates \union {None} /\ dates.issue \in Dates \union {None}
  BY <1>1, DatesReadType DEF Accepted
<1> HIDE DEF dates
<1>4. /\ DOMAIN fields' = FieldNames
      /\ fields'.last = fields.last /\ fields'.first = fields.first
      /\ fields'.middle = fields.middle /\ fields'.birth = dates.birth
      /\ fields'.issue = dates.issue /\ fields'.series = fields.series
      /\ fields'.number = fields.number /\ fields'.code = fields.code
      /\ fields'.issuedBy = fields.issuedBy
  BY <1>1, <1>2 DEF FieldNames
<1>5. FieldsTyped(fields)'
  BY <1>1, <1>3, <1>4 DEF FieldsTyped
<1>6. TypeOK'
  BY <1>1, <1>4, <1>5, NoFieldsDomain DEF Inv, TypeOK
<1>7. ReadInv'
  BY <1>1, <1>4 DEF ReadInv, HasNames, HasNumbers, HasDates, dates
<1> QED
  BY <1>6, <1>7

(* The last keeps all of them.                                              *)
LEMMA ReadCodeStep == Inv /\ ReadCode => TypeOK' /\ ReadInv'
<1> SUFFICES ASSUME Inv, ReadCode PROVE TypeOK' /\ ReadInv'
  OBVIOUS
<1> DEFINE code == CodeRead(page, fields.issue)
           issuedBy == IssuedByRead(page)
<1>1. /\ pc = "code" /\ pc' = "normalise" /\ source = "text" /\ lines = page
      /\ page \in Seq(Lines)
      /\ UNCHANGED <<client, provider, page, lines, source, err, response>>
      /\ HasNames /\ HasNumbers /\ HasDates /\ DOMAIN fields = FieldNames /\ FieldsTyped(fields)
  BY NoFieldsDomain DEF Inv, TypeOK, ReadInv, ReadCode
<1>2. fields' = [fields EXCEPT !.code = code, !.issuedBy = issuedBy]
  BY <1>1 DEF ReadCode
<1>3. code \in Codes \union {None} /\ issuedBy \in SUBSET Nat
  BY <1>1, CodeReadType, IssuedByType
<1> HIDE DEF code, issuedBy
<1>4. /\ DOMAIN fields' = FieldNames
      /\ fields'.last = fields.last /\ fields'.first = fields.first
      /\ fields'.middle = fields.middle /\ fields'.birth = fields.birth
      /\ fields'.issue = fields.issue /\ fields'.series = fields.series
      /\ fields'.number = fields.number /\ fields'.code = code
      /\ fields'.issuedBy = issuedBy
  BY <1>1, <1>2 DEF FieldNames
<1>5. FieldsTyped(fields)'
  BY <1>1, <1>3, <1>4 DEF FieldsTyped
<1>6. TypeOK'
  BY <1>1, <1>4, <1>5, NoFieldsDomain DEF Inv, TypeOK
<1>7. ReadInv'
  BY <1>1, <1>4 DEF ReadInv, HasNames, HasNumbers, HasDates
<1> QED
  BY <1>6, <1>7

(* The response is made of them.                                            *)
LEMMA NormaliseStep == Inv /\ Normalise => TypeOK' /\ ReadInv'
<1> SUFFICES ASSUME Inv, Normalise PROVE TypeOK' /\ ReadInv'
  OBVIOUS
<1>1. /\ pc = "normalise" /\ pc' = "done" /\ response' = NormalPassport(fields)
      /\ UNCHANGED <<client, provider, page, lines, source, fields, err>>
      /\ DOMAIN fields = FieldNames /\ FieldsTyped(fields)
  BY NoFieldsDomain DEF Inv, TypeOK, Normalise
<1>2. DOMAIN response' = FieldNames /\ FieldsTyped(response')
  BY <1>1, NormalType
<1>3. FieldsTyped(response)' /\ FieldsTyped(fields)'
  BY <1>1, <1>2 DEF FieldsTyped
<1>4. TypeOK'
  BY <1>1, <1>2, <1>3, NoFieldsDomain DEF Inv, TypeOK
<1>5. ReadInv'
  BY <1>1 DEF Inv, ReadInv, HasNames, HasNumbers, HasDates
<1> QED
  BY <1>4, <1>5

(* The fallback and the end change no field.                                *)
LEMMA EndStep == Inv /\ (FallBack \/ GiveUp \/ UNCHANGED vars) => TypeOK' /\ ReadInv'
<1>1. Inv /\ FallBack => TypeOK' /\ ReadInv'
  BY DEF FallBack, Inv, TypeOK, ReadInv
<1>2. Inv /\ GiveUp => TypeOK' /\ ReadInv'
  BY DEF GiveUp, Inv, TypeOK, ReadInv
<1>3. Inv /\ UNCHANGED vars => TypeOK' /\ ReadInv'
  BY DEF vars, Inv, TypeOK, ReadInv, HasNames, HasNumbers, HasDates
<1> QED
  BY <1>1, <1>2, <1>3

(* Every step keeps the invariant.                                          *)
LEMMA InvStep == Inv /\ [Next]_vars => Inv'
<1>1. Inv /\ [Next]_vars => TypeOK' /\ ReadInv'
  BY AskStructuredStep, AskPageStep, AskYandexStep, AskVKStep, ReadNamesStep, ReadNumbersStep,
     ReadDatesStep, ReadCodeStep, NormaliseStep, EndStep, Zenon DEF Next
<1> QED
  BY <1>1 DEF Inv

(* The invariant holds for any pages, answers and clients: what the parser  *)
(* reads, it reads from the lines in the order of the page.                 *)
THEOREM Invariance == Spec => []Inv
BY InvInit, InvStep, PTL DEF Spec

-----------------------------------------------------------------------------
(* The theorems.                                                            *)

(* What a parsed response consists of.                                      *)
LEMMA ParsedResponse ==
  ASSUME Inv, Parsed
  PROVE  /\ page \in Seq(Lines)
         /\ response.last = NamesRead(page).last
         /\ response.first = NamesRead(page).first
         /\ response.middle = NamesRead(page).middle
         /\ response.series = NormalSeries(NumbersRead(page).series)
         /\ response.number = NormalNumber(NumbersRead(page).number)
         /\ response.birth = IF DatesRead(page).birth = None THEN None
                             ELSE NormalDate(DatesRead(page).birth)
         /\ response.issue = IF DatesRead(page).issue = None THEN None
                             ELSE NormalDate(DatesRead(page).issue)
<1>1. /\ pc = "done" /\ source = "text" /\ page \in Seq(Lines)
      /\ DOMAIN fields = FieldNames /\ FieldsTyped(fields)
      /\ HasNames /\ HasNumbers /\ HasDates /\ response = NormalPassport(fields)
  BY NoFieldsDomain DEF Parsed, Inv, TypeOK, ReadInv
<1>2. /\ response.last = fields.last /\ response.first = fields.first
      /\ response.middle = fields.middle
      /\ response.birth = IF fields.birth = None THEN None ELSE NormalDate(fields.birth)
      /\ response.issue = IF fields.issue = None THEN None ELSE NormalDate(fields.issue)
      /\ response.series = NormalSeries(fields.series)
      /\ response.number = NormalNumber(fields.number)
  BY <1>1, NormalType
<1> QED
  BY <1>1, <1>2 DEF HasNames, HasNumbers, HasDates

(* The names of a standard page are in the response.                        *)
LEMMA StandardPage == Inv => StandardPageRead
<1> SUFFICES ASSUME Inv, Parsed, Standard(page)
             PROVE  /\ response.last = ValueOf(page, Surname)
                    /\ response.first = ValueOf(page, FirstName)
                    /\ response.middle = ValueOf(page, Patronymic)
  BY DEF StandardPageRead
<1>1. NamesRead(page) = [last   |-> ValueOf(page, Surname),
                         first  |-> ValueOf(page, FirstName),
                         middle |-> ValueOf(page, Patronymic)]
  BY ParsedResponse, StandardNames
<1> QED
  BY <1>1, ParsedResponse

(* So are the names of a page without labels.                               *)
LEMMA UnlabelledNames == Inv => UnlabelledNamesRead
<1> SUFFICES ASSUME Inv, Parsed, Unlabelled(page), Len(page) <= 7,
                    NEW names, names = NamesBetween(page, 1, Len(page))
             PROVE  /\ Len(names) = 3 =>
                         <<response.last, response.first, response.middle>> = names
                    /\ \A k \in {1, 2} :
                         Len(names) = 2 /\ names[k] \in CommonFirstNames
                           /\ names[3 - k] \notin CommonFirstNames
                           => response.first = names[k] /\ response.last = names[3 - k]
  BY DEF UnlabelledNamesRead
<1>1. page \in Seq(Lines)
  BY ParsedResponse
<1>2. ASSUME Len(names) = 3
      PROVE  <<response.last, response.first, response.middle>> = names
  <2>1. NamesRead(page) = [last |-> names[1], first |-> names[2], middle |-> names[3]]
    BY <1>1, <1>2, ThreeNames
  <2>2. /\ response.last = names[1] /\ response.first = names[2] /\ response.middle = names[3]
    BY <2>1, ParsedResponse
  <2>3. names = [k \in 1..3 |-> names[k]]
    <3>1. 1 \in Int /\ Len(page) \in Int
      BY <1>1, LineType
    <3>2. Cardinality(Named(page, 1, Len(page))) = 3
      BY <1>1, <1>2, <3>1, NamesCount
    <3> QED
      BY <3>2 DEF NamesBetween, NamesOn
  <2> QED
    BY <2>2, <2>3
<1>3. ASSUME NEW k \in {1, 2}, Len(names) = 2, names[k] \in CommonFirstNames,
             names[3 - k] \notin CommonFirstNames
      PROVE  response.first = names[k] /\ response.last = names[3 - k]
  <2>1. /\ response.last = NameOrder(names[1], names[2])[1]
        /\ response.first = NameOrder(names[1], names[2])[2]
    BY <1>1, <1>3, TwoNames, ParsedResponse
  <2>2. CASE k = 1
    <3>1. NameOrder(names[1], names[2]) = <<names[2], names[1]>>
      BY <1>3, <2>2 DEF NameOrder
    <3> QED
      BY <2>1, <2>2, <3>1
  <2>3. CASE k = 2
    <3>1. NameOrder(names[1], names[2]) = <<names[1], names[2]>>
      BY <1>3, <2>3 DEF NameOrder
    <3> QED
      BY <2>1, <2>3, <3>1
  <2> QED
    BY <2>2, <2>3
<1> QED
  BY <1>2, <1>3

(* The first place of a line with a pair is the one that is looked at.      *)
LEMMA KeptHasPair ==
  ASSUME NEW text \in Seq(Lines), NEW i \in DOMAIN text
  PROVE  i \in WithPair(text)
           <=> \E k \in DOMAIN text[i].digits :
                 /\ k \in Beside(text[i]) /\ \A j \in Beside(text[i]) : k <= j
                 /\ LastFour(text[i].digits[k].n) \notin DayLike
<1>1. \A k : PairAt(text[i], k).series = LastFour(text[i].digits[k].n)
  BY DEF PairAt
<1>2. ASSUME i \in WithPair(text)
      PROVE  \E k \in DOMAIN text[i].digits :
               /\ k \in Beside(text[i]) /\ \A j \in Beside(text[i]) : k <= j
               /\ LastFour(text[i].digits[k].n) \notin DayLike
  <2>1. Beside(text[i]) # {} /\ PairAt(text[i], Min(Beside(text[i]))).series \notin DayLike
    BY <1>2 DEF WithPair
  <2>2. PICK k \in Beside(text[i]) : k = Min(Beside(text[i])) /\ \A j \in Beside(text[i]) : k <= j
    BY <2>1, FirstBeside
  <2>3. k \in DOMAIN text[i].digits
    BY DEF Beside
  <2> QED
    BY <1>1, <2>1, <2>2, <2>3
<1>3. ASSUME NEW k \in Beside(text[i]), \A j \in Beside(text[i]) : k <= j,
             LastFour(text[i].digits[k].n) \notin DayLike
      PROVE  i \in WithPair(text)
  <2>1. Beside(text[i]) \in SUBSET Nat
    BY DigitsType DEF Beside
  <2>2. Min(Beside(text[i])) \in Beside(text[i]) /\ Min(Beside(text[i])) <= k
    BY <2>1, MinIsLeast
  <2>3. Min(Beside(text[i])) = k
    BY <1>3, <2>1, <2>2
  <2> QED
    BY <1>1, <1>3, <2>3 DEF WithPair
<1> QED
  BY <1>2, <1>3

(* The pair of one place is in the response.                                *)
LEMMA PairTogether == Inv => PairStaysTogether
<1> DEFINE First(i, k) == k \in Beside(page[i]) /\ \A j \in Beside(page[i]) : k <= j
           kept == {i \in DOMAIN page : \E k \in DOMAIN page[i].digits :
                      First(i, k) /\ LastFour(page[i].digits[k].n) \notin DayLike}
<1> SUFFICES ASSUME Inv, Parsed, kept # {}
             PROVE  \E i \in kept : \E k \in Beside(page[i]) :
                      /\ response.series = LastFour(page[i].digits[k].n)
                      /\ response.number = page[i].digits[k + 1].n
  BY Zenon DEF PairStaysTogether
<1>1. page \in Seq(Lines)
  BY ParsedResponse
<1>2. kept = WithPair(page)
  <2>1. \A i \in DOMAIN page : i \in kept <=> i \in WithPair(page)
    BY <1>1, KeptHasPair
  <2>2. WithPair(page) \in SUBSET DOMAIN page
    BY DEF WithPair
  <2> QED
    BY <2>1, <2>2
<1> HIDE DEF kept
<1> QED
  BY <1>1, <1>2, PairRead, ParsedResponse

(* The normalisation drops dates but exchanges none.                        *)
LEMMA NormalDatesInOrder == Inv => DatesInOrder
<1> SUFFICES ASSUME Inv, Parsed, response.birth # None, response.issue # None
             PROVE  Moment(response.birth) <= Moment(response.issue)
  BY DEF DatesInOrder
<1> DEFINE f == DatesRead(page)
<1>1. /\ response.birth = IF f.birth = None THEN None ELSE NormalDate(f.birth)
      /\ response.issue = IF f.issue = None THEN None ELSE NormalDate(f.issue)
      /\ page \in Seq(Lines)
  BY ParsedResponse
<1>2. /\ f.birth # None => Accepted(f.birth)
      /\ f.issue # None => Accepted(f.issue)
      /\ f.birth # None /\ f.issue # None => Moment(f.birth) <= Moment(f.issue)
  BY <1>1, DatesReadType
<1> HIDE DEF f
<1>3. /\ f.birth # None /\ response.birth = f.birth
      /\ f.issue # None /\ response.issue = f.issue
  BY <1>1, <1>2, NormalAccepted
<1> QED
  BY <1>2, <1>3

(* It drops no date that is on the calendar.                                *)
LEMMA BothDates == Inv => TwoDatesFound
<1> SUFFICES ASSUME Inv, Parsed, NEW i \in DatedLines(page), NEW j \in DatedLines(page),
                    DatedLines(page) = {i, j},
                    \A k \in DatedLines(page) :
                      /\ Len(page[k].dates) = 1
                      /\ YearAccepted(page[k].dates[1]) /\ OnCalendar(page[k].dates[1]),
                    Moment(page[i].dates[1]) < Moment(page[j].dates[1])
             PROVE  /\ response.birth = page[i].dates[1]
                    /\ response.issue = page[j].dates[1]
  BY DEF TwoDatesFound, DatedLines
<1>1. /\ DatesRead(page).birth = page[i].dates[1]
      /\ DatesRead(page).issue = page[j].dates[1]
  BY ParsedResponse, BothDatesRead
<1>2. \A k \in {i, j} : Accepted(page[k].dates[1]) /\ OnCalendar(page[k].dates[1])
                        /\ page[k].dates[1] # None
  <2>1. ASSUME NEW k \in {i, j} PROVE page[k].dates[1] \in Dates
    <3>1. k \in DOMAIN page /\ page[k].dates \in Seq(Dates) /\ page[k].dates # <<>>
      BY ParsedResponse, LineType DEF DatedLines
    <3> QED
      BY <3>1
  <2> QED
    BY <2>1, NoneIsNoValue DEF Accepted
<1>3. \A k \in {i, j} : NormalDate(page[k].dates[1]) = page[k].dates[1]
  BY <1>2, NormalAccepted
<1> QED
  BY <1>1, <1>2, <1>3, ParsedResponse

(* Every variable has its type: the parser takes each field from a word of  *)
(* the kind it is, whatever the lines of the page, and the normalisation    *)
(* keeps the kinds.                                                         *)
THEOREM TypeCorrect == Spec => []TypeOK
<1>1. Inv => TypeOK
  BY DEF Inv
<1> QED
  BY <1>1, Invariance, PTL

(* On every page with each label once and each value above its label, the   *)
(* names of the response are the values, whichever client read the page and *)
(* in whatever order the blocks came from Yandex v1.                        *)
THEOREM StandardPageIsRead == Spec => []StandardPageRead
BY StandardPage, Invariance, PTL

(* On every page of at most seven lines without labels three names are the  *)
(* last, the first and the middle name; of two the common first name is the *)
(* first.                                                                   *)
THEOREM UnlabelledPageIsRead == Spec => []UnlabelledNamesRead
BY UnlabelledNames, Invariance, PTL

(* A series and a number that are printed side by side are never torn       *)
(* apart, and nothing that stands elsewhere is put together with either.    *)
THEOREM PairIsKept == Spec => []PairStaysTogether
BY PairTogether, Invariance, PTL

(* The date of birth of a response is never later than the date of issue.   *)
THEOREM BirthIsFirst == Spec => []DatesInOrder
BY NormalDatesInOrder, Invariance, PTL

(* Of two different dates that stand alone on their lines neither is lost,  *)
(* whatever words are near them, and the earlier one is the date of birth.  *)
THEOREM BothDatesAreFound == Spec => []TwoDatesFound
BY BothDates, Invariance, PTL

=============================================================================
