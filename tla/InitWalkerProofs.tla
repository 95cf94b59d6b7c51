-------------------------- MODULE InitWalkerProofs --------------------------
(* Proofs about the init walker, for any sections and any size of its table. *)
EXTENDS Commands, SequenceTheorems, WellFoundedInduction, TLAPS

-----------------------------------------------------------------------------
(* The invariant: the table is a rearrangement of the instances that found  *)
(* room in it, ascending up to where the insertion sort has come, and the   *)
(* init_fns that were called are those of the table's front, in its order.  *)

\* Predicates of the variables' values: the section, the table, the names of
\* those that were called.

\* How many instances the table holds.
Size(sec) == Lowest({MaxInstances, Len(sec)})

Names(sec) == {sec[i].name : i \in 1..Len(sec)}

\* p tells of each place of the table the place of its instance in the section.
Perm(p, m) ==
  /\ p \in [1..m -> 1..m]
  /\ \A a, b \in 1..m : p[a] = p[b] => a = b
  /\ \A n \in 1..m : \E a \in 1..m : p[a] = n

Table(sec, tab, p) ==
  /\ Perm(p, Size(sec))
  /\ DOMAIN tab = 1..Size(sec) /\ Len(tab) = Size(sec)
  /\ \A a \in 1..Size(sec) : tab[a] = sec[p[a]]

\* Before, of a section.
Earlier(sec, i, j) ==
  \/ sec[i].init_priority < sec[j].init_priority
  \/ sec[i].init_priority = sec[j].init_priority /\ i < j

Ascending(sec, p, n) ==
  \A a, b \in 1..Size(sec) : a < b /\ b <= n => Earlier(sec, p[a], p[b])

\* The sort has not touched what comes from n on.
Untouched(sec, p, n) == \A a \in 1..Size(sec) : a >= n => p[a] = a

Called(tab, n) == tab[n].init_fn # "none"

\* Those of the table before place n, and no other, have been called, in the
\* order of the table.
Started(sec, tab, ini, n) ==
  /\ ini \in Seq(Names(sec))
  /\ \A i \in 1..(n - 1) : Called(tab, i) =>
       \E a \in 1..Len(ini) : ini[a] = tab[i].name
  /\ \A a \in 1..Len(ini) : \E i \in 1..(n - 1) :
       Called(tab, i) /\ ini[a] = tab[i].name
  /\ \A a, b \in 1..Len(ini) : \A i, l \in 1..(n - 1) :
       ini[a] = tab[i].name /\ ini[b] = tab[l].name => (a < b <=> i < l)

\* Sorted up to place n and as the section beyond it.
Sorting(sec, tab, n) ==
  \E p \in [1..Size(sec) -> 1..Size(sec)] :
    Table(sec, tab, p) /\ Ascending(sec, p, n - 1) /\ Untouched(sec, p, n)

InOrder(sec, tab) ==
  \E p \in [1..Size(sec) -> 1..Size(sec)] :
    Table(sec, tab, p) /\ Ascending(sec, p, Size(sec))

WalkInv ==
  /\ section \in Sections
  /\ walk \in {"collect", "sort", "init", "done"}
  /\ walk \in {"collect", "sort"} => inited = <<>>
  /\ walk = "sort" => k \in Nat /\ k >= 2 /\ Sorting(section, ordered, k)
  /\ walk \in {"init", "done"} =>
       /\ k \in 1..(Size(section) + 1)
       /\ Started(section, ordered, inited, k)
       /\ InOrder(section, ordered)
  /\ walk = "done" => k = Size(section) + 1

-----------------------------------------------------------------------------
(* Lemmas about the operators of the walker.                                *)

(* What nothing is below with respect to < is lowest.                       *)
LEMMA BelowLemma ==
  ASSUME NEW R, \A x, y \in Nat : x < y => <<x, y>> \in R,
         NEW S, S \subseteq Nat, NEW n \in S,
         \A o \in S : ~ (<<o, n>> \in R)
  PROVE  \A o \in S : n <= o
<1> SUFFICES ASSUME NEW o \in S PROVE n <= o
  OBVIOUS
<1>1. ~(o < n)
  OBVIOUS
<1>2. QED
  BY <1>1

(* The lowest element of a set of natural numbers that is not empty.        *)
LEMMA LowestLemma ==
  ASSUME NEW S, S \subseteq Nat, S # {}
  PROVE  Lowest(S) \in S /\ \A o \in S : Lowest(S) <= o
<1> DEFINE R == OpToRel(<, Nat)
<1>1. \A x, y \in Nat : x < y => <<x, y>> \in R
  BY DEF OpToRel
<1>2. IsWellFoundedOn(R, Nat)
  BY NatLessThanWellFounded
<1> HIDE DEF R
<1>3. \E n \in S : \A o \in S : ~ (<<o, n>> \in R)
  BY <1>2, WFMin
<1>4. \E n \in S : \A o \in S : n <= o
  BY <1>1, <1>3, BelowLemma
<1>5. QED
  BY <1>4 DEF Lowest

(* The table takes the whole section, or as much of it as there is room for. *)
LEMMA SizeLemma ==
  ASSUME section \in Sections
  PROVE  /\ Size(section) \in Nat /\ Size(section) <= Len(section)
         /\ Kept = 1..Size(section)
         /\ Len(section) \in Nat /\ DOMAIN section = 1..Len(section)
<1>1. /\ section \in Seq({section[i] : i \in 1..Len(section)})
  BY SectionsAssumption
<1>2. Len(section) \in Nat /\ DOMAIN section = 1..Len(section)
  BY <1>1
<1>3. /\ Size(section) \in {MaxInstances, Len(section)}
      /\ \A o \in {MaxInstances, Len(section)} : Size(section) <= o
  BY <1>2, WalkerAssumption, LowestLemma DEF Size
<1>4. QED
  BY <1>2, <1>3, WalkerAssumption DEF Kept, Size

(* The inner loop stops at the instance that cur goes behind, or at the     *)
(* front of the table.                                                      *)
LEMMA InnerLoopLemma ==
  ASSUME NEW table, NEW cur, NEW from \in Nat, from >= 1,
         cur.init_priority \in Int,
         \A i \in 1..from : table[i].init_priority \in Int
  PROVE  LET j == Place(table, cur, from) IN
         /\ j \in 1..from
         /\ \A i \in j..(from - 1) :
              table[i].init_priority > cur.init_priority
         /\ j > 1 => table[j - 1].init_priority <= cur.init_priority
<1> DEFINE S == {j \in 1..from : \A i \in j..(from - 1) :
                   table[i].init_priority > cur.init_priority}
           j == Lowest(S)
<1>1. from \in S /\ S \subseteq Nat
  OBVIOUS
<1>2. j \in S /\ \A o \in S : j <= o
  BY <1>1, LowestLemma
<1> HIDE DEF j
<1>3. j > 1 => table[j - 1].init_priority <= cur.init_priority
  <2> SUFFICES ASSUME j > 1,
                      ~(table[j - 1].init_priority <= cur.init_priority)
               PROVE  FALSE
    OBVIOUS
  <2>1. j - 1 \in 1..from /\ table[j - 1].init_priority > cur.init_priority
    BY <1>2
  <2>2. \A i \in (j - 1)..(from - 1) : i = j - 1 \/ i \in j..(from - 1)
    BY <1>2
  <2>3. j - 1 \in S
    BY <1>2, <2>1, <2>2
  <2>4. QED
    BY <1>2, <2>3
<1>4. QED
  BY <1>2, <1>3 DEF Place, j

\* What a round of the sort does to the table, and to any p.
Shift(p, j, n) ==
  [i \in DOMAIN p |-> IF i = j THEN p[n]
                      ELSE IF i \in (j + 1)..n THEN p[i - 1]
                      ELSE p[i]]

(* A round rearranges the places.                                           *)
LEMMA ShiftPerm ==
  ASSUME NEW m \in Nat, NEW p, Perm(p, m), NEW n \in 1..m, NEW j \in 1..n
  PROVE  Perm(Shift(p, j, n), m)
<1> DEFINE q == Shift(p, j, n)
<1>1. /\ p \in [1..m -> 1..m]
      /\ \A a, b \in 1..m : p[a] = p[b] => a = b
      /\ \A i \in 1..m : \E a \in 1..m : p[a] = i
  BY DEF Perm
<1>2. /\ DOMAIN q = 1..m
      /\ \A i \in 1..m : q[i] = IF i = j THEN p[n]
                              ELSE IF i \in (j + 1)..n THEN p[i - 1]
                              ELSE p[i]
      /\ q = [i \in 1..m |-> q[i]]
  BY <1>1 DEF Shift
<1>3. q \in [1..m -> 1..m]
  <2>1. \A i \in (j + 1)..n : i - 1 \in 1..m
    OBVIOUS
  <2>2. \A i \in 1..m : q[i] \in 1..m
    BY <1>1, <1>2, <2>1
  <2> HIDE DEF q
  <2>3. QED
    BY <1>2, <2>2
<1> HIDE DEF q
<1> DEFINE From(i) == IF i = j THEN n
                      ELSE IF i \in (j + 1)..n THEN i - 1 ELSE i
<1>4. \A i \in 1..m : From(i) \in 1..m /\ q[i] = p[From(i)]
  BY <1>2
<1>5. \A a, b \in 1..m : From(a) = From(b) => a = b
  OBVIOUS
<1>6. \A i \in 1..m : \E a \in 1..m : From(a) = i
  <2> SUFFICES ASSUME NEW i \in 1..m PROVE \E a \in 1..m : From(a) = i
    OBVIOUS
  <2>1. CASE i = n
    <3>1. From(j) = i /\ j \in 1..m
      BY <2>1
    <3>2. QED
      BY <3>1
  <2>2. CASE i \in j..(n - 1)
    <3>1. From(i + 1) = i /\ i + 1 \in 1..m
      BY <2>2
    <3>2. QED
      BY <3>1
  <2>3. CASE i < j \/ i > n
    <3>1. From(i) = i
      BY <2>3
    <3>2. QED
      BY <3>1
  <2>4. QED
    BY <2>1, <2>2, <2>3
<1> HIDE DEF From
<1>7. \A a, b \in 1..m : q[a] = q[b] => a = b
  BY <1>1, <1>4, <1>5
<1>8. ASSUME NEW i \in 1..m
      PROVE  \E a \in 1..m : q[a] = i
  <2>1. PICK c \in 1..m : p[c] = i
    BY <1>1
  <2>2. PICK a \in 1..m : From(a) = c
    BY <1>6
  <2>3. QED
    BY <1>4, <2>1, <2>2
<1>9. QED
  BY <1>3, <1>7, <1>8 DEF Perm, q
(* A round keeps the front of the table ascending, one instance longer, and *)
(* equal priorities in the order of the section.                            *)
LEMMA ShiftAscends ==
  ASSUME section \in Sections, NEW p, Table(section, ordered, p),
         NEW n \in 1..Size(section),
         Ascending(section, p, n - 1), Untouched(section, p, n),
         NEW j, j = Place(ordered, ordered[n], n)
  PROVE  /\ j \in 1..n
         /\ Ascending(section, Shift(p, j, n), n)
         /\ Untouched(section, Shift(p, j, n), n + 1)
<1> DEFINE P(i) == section[i].init_priority
           m == Size(section)
           q == Shift(p, j, n)
<1>1. /\ m \in Nat /\ m <= Len(section) /\ Len(section) \in Nat
  BY SizeLemma
<1>2. /\ p \in [1..m -> 1..m]
      /\ \A a, b \in 1..m : p[a] = p[b] => a = b
      /\ \A a \in 1..m : ordered[a] = section[p[a]]
  BY DEF Table, Perm
<1>3. \A i \in 1..m : P(i) \in Int
  <2>1. \A i \in 1..m : i \in 1..Len(section)
    BY <1>1
  <2>2. QED
    BY <2>1, SectionsAssumption
<1>4. \A i \in 1..m : ordered[i].init_priority = P(p[i])
  BY <1>2
<1>5. p[n] = n /\ \A a \in 1..m : a >= n => p[a] = a
  BY DEF Untouched
<1>6. \A a \in 1..m : a < n => p[a] < n
  <2> SUFFICES ASSUME NEW a \in 1..m, a < n, ~(p[a] < n) PROVE FALSE
    BY <1>1, <1>2
  <2>1. p[a] \in 1..m /\ p[a] >= n
    BY <1>1, <1>2
  <2>2. p[p[a]] = p[a]
    BY <1>5, <2>1
  <2>3. QED
    BY <1>2, <2>1, <2>2
<1>7. /\ j \in 1..n
      /\ \A i \in j..(n - 1) : P(p[i]) > P(n)
      /\ j > 1 => P(p[j - 1]) <= P(n)
  <2>1. /\ n \in Nat /\ n >= 1 /\ ordered[n].init_priority \in Int
        /\ \A i \in 1..n : ordered[i].init_priority \in Int
    <3>1. \A i \in 1..n : ordered[i].init_priority \in Int
      <4> SUFFICES ASSUME NEW i \in 1..n
                   PROVE  ordered[i].init_priority \in Int
        OBVIOUS
      <4>1. i \in 1..m /\ p[i] \in 1..m
        BY <1>1, <1>2
      <4> HIDE DEF P
      <4>2. QED
        BY <1>3, <1>4, <4>1
    <3>2. QED
      BY <1>1, <3>1
  <2>2. /\ j \in 1..n
        /\ \A i \in j..(n - 1) :
             ordered[i].init_priority > ordered[n].init_priority
        /\ j > 1 =>
             ordered[j - 1].init_priority <= ordered[n].init_priority
    BY <2>1, InnerLoopLemma
  <2>3. QED
    BY <1>1, <1>4, <1>5, <2>2
<1>8. \A a \in 1..m :
        q[a] = IF a = j THEN p[n]
               ELSE IF a \in (j + 1)..n THEN p[a - 1] ELSE p[a]
  BY <1>2 DEF Shift
<1> HIDE DEF q
<1>9. \A a, b \in 1..m : a < b /\ b <= n - 1 =>
        P(p[a]) < P(p[b]) \/ (P(p[a]) = P(p[b]) /\ p[a] < p[b])
  BY DEF Ascending, Earlier
<1> HIDE DEF P
<1>10. \A a \in 1..m : a < j => P(p[a]) <= P(n)
  <2> SUFFICES ASSUME NEW a \in 1..m, a < j PROVE P(p[a]) <= P(n)
    OBVIOUS
  <2>1. j - 1 \in 1..m /\ P(p[j - 1]) <= P(n) /\ j - 1 <= n - 1
    BY <1>1, <1>7
  <2>2. p[a] \in 1..m /\ p[j - 1] \in 1..m /\ n \in 1..m
    BY <1>2, <2>1
  <2>3. P(p[a]) \in Int /\ P(p[j - 1]) \in Int /\ P(n) \in Int
    BY <1>3, <2>2
  <2>4. a = j - 1 \/ P(p[a]) <= P(p[j - 1])
    BY <1>7, <1>9, <2>1, <2>3
  <2>5. QED
    BY <2>1, <2>3, <2>4
<1>11. ASSUME NEW a \in 1..m, NEW b \in 1..m, a < b, b <= n
       PROVE  P(q[a]) < P(q[b]) \/ (P(q[a]) = P(q[b]) /\ q[a] < q[b])
  <2>0. /\ p[a] \in 1..m /\ n \in 1..m
        /\ P(p[a]) \in Int /\ P(n) \in Int
    BY <1>2, <1>3
  <2>1. CASE b < j
    <3>1. q[a] = p[a] /\ q[b] = p[b] /\ b <= n - 1
      BY <1>1, <1>7, <1>8, <1>11, <2>1
    <3>2. QED
      BY <1>9, <1>11, <3>1
  <2>2. CASE b = j
    <3>1. q[a] = p[a] /\ q[b] = n
      BY <1>1, <1>5, <1>7, <1>8, <1>11, <2>2
    <3>2. P(p[a]) <= P(n) /\ p[a] < n
      BY <1>1, <1>6, <1>7, <1>10, <1>11, <2>2
    <3>3. QED
      BY <2>0, <3>1, <3>2
  <2>3. CASE b > j
    <3>1. /\ q[b] = p[b - 1] /\ b - 1 \in 1..m /\ b - 1 <= n - 1
          /\ b - 1 \in j..(n - 1)
      BY <1>1, <1>7, <1>8, <1>11, <2>3
    <3>2. CASE a < j
      <4>1. q[a] = p[a] /\ a < b - 1
        BY <1>1, <1>7, <1>8, <1>11, <2>3, <3>2
      <4>2. QED
        BY <1>9, <3>1, <4>1
    <3>3. CASE a = j
      <4>1. q[a] = n /\ P(p[b - 1]) > P(n)
        BY <1>1, <1>5, <1>7, <1>8, <3>1, <3>3
      <4>2. P(p[b - 1]) \in Int
        BY <1>2, <1>3, <3>1
      <4>3. QED
        BY <2>0, <3>1, <4>1, <4>2
    <3>4. CASE a > j
      <4>1. q[a] = p[a - 1] /\ a - 1 \in 1..m /\ a - 1 < b - 1
        BY <1>1, <1>7, <1>8, <1>11, <3>4
      <4>2. QED
        BY <1>9, <3>1, <4>1
    <3>5. QED
      BY <1>1, <1>7, <3>2, <3>3, <3>4
  <2>4. QED
    BY <1>1, <1>7, <2>1, <2>2, <2>3
<1>12. Ascending(section, q, n)
  BY <1>11 DEF Ascending, Earlier, P
<1>13. Untouched(section, q, n + 1)
  BY <1>1, <1>5, <1>7, <1>8 DEF Untouched
<1>14. QED
  BY <1>7, <1>12, <1>13 DEF q
-----------------------------------------------------------------------------
(* The invariant holds initially and is kept.                               *)

(* The names in the table differ.                                           *)
LEMMA NamesLemma ==
  ASSUME section \in Sections, NEW p, Table(section, ordered, p)
  PROVE  /\ \A a \in 1..Size(section) : ordered[a].name \in Names(section)
         /\ \A a, b \in 1..Size(section) :
              ordered[a].name = ordered[b].name => a = b
<1> DEFINE m == Size(section)
<1>1. m \in Nat /\ m <= Len(section) /\ Len(section) \in Nat
  BY SizeLemma
<1>2. /\ p \in [1..m -> 1..m]
      /\ \A a, b \in 1..m : p[a] = p[b] => a = b
      /\ \A a \in 1..m : ordered[a] = section[p[a]]
  BY DEF Table, Perm
<1> HIDE DEF m
<1>3. \A a \in 1..m : p[a] \in 1..Len(section)
  BY <1>1, <1>2
<1>4. \A i, j \in 1..Len(section) : section[i].name = section[j].name => i = j
  BY SectionsAssumption
<1>5. \A a, b \in 1..m : ordered[a].name = ordered[b].name => a = b
  <2> SUFFICES ASSUME NEW a \in 1..m, NEW b \in 1..m,
                      ordered[a].name = ordered[b].name
               PROVE  a = b
    OBVIOUS
  <2>1. p[a] = p[b]
    BY <1>2, <1>3, <1>4
  <2>2. QED
    BY <1>2, <2>1
<1>6. \A a \in 1..m : ordered[a].name \in Names(section)
  BY <1>2, <1>3 DEF Names
<1>7. QED
  BY <1>5, <1>6 DEF m

(* The instances there is room for are taken as they come.                  *)
LEMMA CollectLemma ==
  ASSUME WalkInv, Collect
  PROVE  WalkInv'
<1> DEFINE m == Size(section)
           p == [a \in 1..m |-> a]
           o == SubSeq(section, 1, m)
<1>1. /\ m \in Nat /\ m <= Len(section) /\ Len(section) \in Nat
      /\ section \in Sections /\ inited = <<>>
  BY SizeLemma DEF WalkInv, Collect
<1>2. /\ ordered' = o /\ walk' = "sort" /\ k' = 2
      /\ section' = section /\ inited' = inited
  BY DEF Collect, Size
<1> HIDE DEF m
<1>3. /\ DOMAIN o = 1..m /\ Len(o) = m
      /\ \A a \in 1..m : o[a] = section[a]
  <2> DEFINE S == {section[i] : i \in 1..Len(section)}
  <2>1. section \in Seq(S)
    BY <1>1, SectionsAssumption
  <2>2. \A i \in 1..m : section[i] \in S
    BY <1>1
  <2> HIDE DEF S
  <2>3. /\ o \in Seq(S)
        /\ Len(o) = IF 1 <= m THEN m - 1 + 1 ELSE 0
        /\ \A i \in 1..(m - 1 + 1) : o[i] = section[1 + i - 1]
    BY <1>1, <2>1, <2>2, SubSeqProperties
  <2> HIDE DEF o
  <2>4. QED
    BY <1>1, <2>3
<1>4. p \in [1..m -> 1..m] /\ \A a \in 1..m : p[a] = a
  OBVIOUS
<1> HIDE DEF o, p
<1>5. Table(section, o, p)
  BY <1>3, <1>4 DEF Table, Perm, m
<1>6. Ascending(section, p, 1) /\ Untouched(section, p, 2)
  BY <1>1, <1>4 DEF Ascending, Untouched, m
<1>7. Sorting(section, o, 2)
  BY <1>4, <1>5, <1>6 DEF Sorting, m
<1>8. QED
  BY <1>1, <1>2, <1>7 DEF WalkInv

(* A round of the insertion sort.                                           *)
LEMMA SortLemma ==
  ASSUME WalkInv, SortNext
  PROVE  WalkInv'
<1> DEFINE m == Size(section)
<1>1. /\ section \in Sections /\ inited = <<>> /\ walk = "sort"
      /\ k \in Nat /\ k >= 2 /\ Sorting(section, ordered, k)
  BY DEF WalkInv, SortNext
<1>2. PICK p \in [1..m -> 1..m] :
        /\ Table(section, ordered, p)
        /\ Ascending(section, p, k - 1) /\ Untouched(section, p, k)
  BY <1>1 DEF Sorting
<1>3. /\ m \in Nat /\ DOMAIN ordered = 1..m /\ Len(ordered) = m
      /\ k \in 1..m /\ Perm(p, m)
      /\ \A a \in 1..m : ordered[a] = section[p[a]]
  BY <1>1, <1>2, SizeLemma DEF Table, SortNext
<1>4. PICK j : j = Place(ordered, ordered[k], k)
  OBVIOUS
<1> DEFINE q == Shift(p, j, k)
           o == Shift(ordered, j, k)
<1>5. /\ ordered' = o /\ k' = k + 1
      /\ walk' = "sort" /\ section' = section /\ inited' = <<>>
  BY <1>1, <1>4 DEF SortNext, Shift
<1>6. /\ j \in 1..k /\ Ascending(section, q, k)
      /\ Untouched(section, q, k + 1)
  BY <1>1, <1>2, <1>3, <1>4, ShiftAscends
<1>7. Perm(q, m)
  BY <1>3, <1>6, ShiftPerm
<1>8. /\ DOMAIN o = 1..m /\ Len(o) = m
      /\ \A a \in 1..m :
           o[a] = IF a = j THEN ordered[k]
                  ELSE IF a \in (j + 1)..k THEN ordered[a - 1]
                  ELSE ordered[a]
  BY <1>3 DEF Shift
<1>9. \A a \in 1..m :
        q[a] = IF a = j THEN p[k]
               ELSE IF a \in (j + 1)..k THEN p[a - 1] ELSE p[a]
  BY <1>2 DEF Shift
<1> HIDE DEF q, o, m
<1>10. \A a \in 1..m : o[a] = section[q[a]]
  <2>1. \A a \in (j + 1)..k : a - 1 \in 1..m
    BY <1>3, <1>6
  <2>2. j \in 1..m
    BY <1>3, <1>6
  <2> SUFFICES ASSUME NEW a \in 1..m PROVE o[a] = section[q[a]]
    OBVIOUS
  <2>3. CASE a = j
    BY <1>3, <1>8, <1>9, <2>3
  <2>4. CASE a # j /\ a \in (j + 1)..k
    BY <1>3, <1>8, <1>9, <2>1, <2>4
  <2>5. CASE a # j /\ a \notin (j + 1)..k
    BY <1>3, <1>8, <1>9, <2>5
  <2>6. QED
    BY <2>3, <2>4, <2>5
<1>11. Table(section, o, q) /\ q \in [1..m -> 1..m]
  BY <1>7, <1>8, <1>10 DEF Table, Perm, m
<1>12. k + 1 - 1 = k
  BY <1>1
<1>13. Sorting(section, o, k + 1)
  <2>1. Ascending(section, q, (k + 1) - 1)
    BY <1>1, <1>3, <1>6, <1>12 DEF Ascending
  <2>2. Untouched(section, q, k + 1)
    BY <1>6
  <2>3. QED
    BY <1>11, <2>1, <2>2 DEF Sorting, m
<1>14. k' \in Nat /\ k' >= 2
  BY <1>1, <1>5
<1>15. QED
  BY <1>1, <1>5, <1>13, <1>14 DEF WalkInv

(* The sort is at its end, and no init_fn has been called.                  *)
LEMMA SortedLemma ==
  ASSUME WalkInv, Sorted
  PROVE  WalkInv'
<1> DEFINE m == Size(section)
<1>1. /\ section \in Sections /\ inited = <<>> /\ walk = "sort"
      /\ k \in Nat /\ k >= 2 /\ Sorting(section, ordered, k)
  BY DEF WalkInv, Sorted
<1>2. PICK p \in [1..m -> 1..m] :
        /\ Table(section, ordered, p)
        /\ Ascending(section, p, k - 1) /\ Untouched(section, p, k)
  BY <1>1 DEF Sorting
<1>3. m \in Nat /\ k > m
  BY <1>1, <1>2, SizeLemma DEF Table, Sorted
<1>4. /\ section' = section /\ ordered' = ordered /\ inited' = <<>>
      /\ walk' = "init" /\ k' = 1
  BY <1>1 DEF Sorted
<1>5. Ascending(section, p, m)
  BY <1>1, <1>2, <1>3 DEF Ascending
<1>6. InOrder(section, ordered)
  BY <1>2, <1>5 DEF InOrder
<1>7. Started(section, ordered, <<>>, 1)
  <2>1. /\ <<>> \in Seq(Names(section)) /\ 1..Len(<<>>) = {}
        /\ 1..(1 - 1) = {}
    OBVIOUS
  <2>2. QED
    BY <2>1 DEF Started
<1>8. 1 \in 1..(m + 1)
  BY <1>3
<1>9. QED
  BY <1>1, <1>4, <1>6, <1>7, <1>8 DEF WalkInv

(* The next instance of the table is called, if it has an init_fn.          *)
LEMMA StartedNext ==
  ASSUME section \in Sections, NEW p, Table(section, ordered, p),
         NEW n \in 1..Size(section), NEW ini,
         Started(section, ordered, ini, n)
  PROVE  /\ ~Called(ordered, n) => Started(section, ordered, ini, n + 1)
         /\ Called(ordered, n) =>
              Started(section, ordered, Append(ini, ordered[n].name), n + 1)
<1> DEFINE m    == Size(section)
           S    == Names(section)
           e(i) == ordered[i].name
<1>1. m \in Nat
  BY SizeLemma
<1>2. /\ \A a \in 1..m : e(a) \in S
      /\ \A a, b \in 1..m : e(a) = e(b) => a = b
  BY NamesLemma
<1>3. /\ ini \in Seq(S)
      /\ \A i \in 1..(n - 1) : Called(ordered, i) =>
           \E a \in 1..Len(ini) : ini[a] = e(i)
      /\ \A a \in 1..Len(ini) : \E i \in 1..(n - 1) :
           Called(ordered, i) /\ ini[a] = e(i)
      /\ \A a, b \in 1..Len(ini) : \A i, l \in 1..(n - 1) :
           ini[a] = e(i) /\ ini[b] = e(l) => (a < b <=> i < l)
  BY DEF Started
<1>4. \A i \in 1..n : i \in 1..m /\ (i = n \/ i \in 1..(n - 1))
  BY <1>1
<1>5. \A i \in 1..(n - 1) : i \in 1..n /\ i \in 1..m /\ i < n
  BY <1>1
<1>6. n \in 1..n /\ n \in 1..m /\ n + 1 - 1 = n
  BY <1>1
<1>7. ASSUME NEW a \in 1..Len(ini), NEW i \in 1..n, ini[a] = e(i)
      PROVE  i \in 1..(n - 1)
  <2>1. PICK l \in 1..(n - 1) : ini[a] = e(l)
    BY <1>3
  <2>2. i = l
    BY <1>2, <1>4, <1>5, <1>7, <2>1
  <2>3. QED
    BY <2>2
<1> HIDE DEF m, S, e
<1>8. CASE ~Called(ordered, n)
  <2>1. \A i \in 1..n : Called(ordered, i) =>
          \E a \in 1..Len(ini) : ini[a] = e(i)
    BY <1>3, <1>4, <1>8
  <2>2. \A a \in 1..Len(ini) : \E i \in 1..n :
          Called(ordered, i) /\ ini[a] = e(i)
    BY <1>3, <1>5
  <2>3. \A a, b \in 1..Len(ini) : \A i, l \in 1..n :
          ini[a] = e(i) /\ ini[b] = e(l) => (a < b <=> i < l)
    BY <1>3, <1>7
  <2>4. Started(section, ordered, ini, n + 1)
    BY <1>3, <1>6, <2>1, <2>2, <2>3 DEF Started, S, e
  <2>5. QED
    BY <1>8, <2>4
<1>9. CASE Called(ordered, n)
  <2> DEFINE N == Len(ini) + 1
             t == Append(ini, e(n))
  <2>1. /\ N \in Nat /\ N >= 1 /\ t \in Seq(S) /\ Len(t) = N /\ t[N] = e(n)
        /\ \A a \in 1..Len(ini) : t[a] = ini[a] /\ a \in 1..N /\ a < N
        /\ \A a \in 1..N : a = N \/ a \in 1..Len(ini)
        /\ N \in 1..N
    BY <1>2, <1>3, <1>6
  <2> HIDE DEF t, N
  <2>2. \A i \in 1..n : Called(ordered, i) => \E a \in 1..N : t[a] = e(i)
    <3> SUFFICES ASSUME NEW i \in 1..n, Called(ordered, i)
                 PROVE  \E a \in 1..N : t[a] = e(i)
      OBVIOUS
    <3>1. CASE i = n
      BY <2>1, <3>1
    <3>2. CASE i \in 1..(n - 1)
      <4>1. PICK a \in 1..Len(ini) : ini[a] = e(i)
        BY <1>3, <3>2
      <4>2. QED
        BY <2>1, <4>1
    <3>3. QED
      BY <1>4, <3>1, <3>2
  <2>3. \A a \in 1..N : \E i \in 1..n : Called(ordered, i) /\ t[a] = e(i)
    <3> SUFFICES ASSUME NEW a \in 1..N
                 PROVE  \E i \in 1..n : Called(ordered, i) /\ t[a] = e(i)
      OBVIOUS
    <3>1. CASE a = N
      BY <1>6, <1>9, <2>1, <3>1
    <3>2. CASE a \in 1..Len(ini)
      <4>1. PICK i \in 1..(n - 1) : Called(ordered, i) /\ ini[a] = e(i)
        BY <1>3, <3>2
      <4>2. QED
        BY <1>5, <2>1, <3>2, <4>1
    <3>3. QED
      BY <2>1, <3>1, <3>2
  <2>4. \A i \in 1..n : e(i) = e(n) => i = n
    BY <1>2, <1>4, <1>6
  <2>5. \A a, b \in 1..N : \A i, l \in 1..n :
          t[a] = e(i) /\ t[b] = e(l) => (a < b <=> i < l)
    <3> SUFFICES ASSUME NEW a \in 1..N, NEW b \in 1..N,
                        NEW i \in 1..n, NEW l \in 1..n,
                        t[a] = e(i), t[b] = e(l)
                 PROVE  a < b <=> i < l
      OBVIOUS
    <3>1. CASE a = N
      <4>1. i = n
        BY <2>1, <2>4, <3>1
      <4>2. QED
        BY <1>6, <2>1, <3>1, <4>1
    <3>2. CASE a \in 1..Len(ini) /\ b = N
      <4>1. l = n /\ i \in 1..(n - 1)
        BY <1>7, <2>1, <2>4, <3>2
      <4>2. a < b /\ i < l
        BY <1>5, <2>1, <3>2, <4>1
      <4>3. QED
        BY <4>2
    <3>3. CASE a \in 1..Len(ini) /\ b \in 1..Len(ini)
      <4>1. i \in 1..(n - 1) /\ l \in 1..(n - 1)
        BY <1>7, <2>1, <3>3
      <4>2. QED
        BY <1>3, <2>1, <3>3, <4>1
    <3>4. QED
      BY <2>1, <3>1, <3>2, <3>3
  <2>6. Started(section, ordered, t, n + 1)
    BY <1>6, <2>1, <2>2, <2>3, <2>5 DEF Started, S, e
  <2>7. QED
    BY <1>9, <2>6 DEF t, e
<1>10. QED
  BY <1>8, <1>9

(* A step of the walk through the table.                                    *)
LEMMA CallLemma ==
  ASSUME WalkInv, InitNext
  PROVE  WalkInv'
<1> DEFINE m == Size(section)
<1>1. /\ section \in Sections /\ walk = "init"
      /\ k \in 1..(m + 1) /\ Started(section, ordered, inited, k)
      /\ InOrder(section, ordered)
  BY DEF WalkInv, InitNext
<1>2. PICK p \in [1..m -> 1..m] :
        Table(section, ordered, p) /\ Ascending(section, p, m)
  BY <1>1 DEF InOrder
<1>3. m \in Nat /\ k \in 1..m /\ k + 1 \in 1..(m + 1)
  BY <1>1, <1>2, SizeLemma DEF Table, InitNext
<1>4. /\ section' = section /\ ordered' = ordered
      /\ walk' = "init" /\ k' = k + 1
      /\ inited' = IF Called(ordered, k) THEN Append(inited, ordered[k].name)
                                         ELSE inited
  BY <1>1 DEF InitNext, Called
<1>5. Started(section, ordered, inited', k + 1)
  BY <1>1, <1>2, <1>3, <1>4, StartedNext
<1>6. QED
  BY <1>1, <1>3, <1>4, <1>5 DEF WalkInv

(* The walker returns when all of the table has had its turn.               *)
LEMMA EndLemma ==
  ASSUME WalkInv, WalkEnds
  PROVE  WalkInv'
<1> DEFINE m == Size(section)
<1>1. /\ section \in Sections /\ walk = "init"
      /\ k \in 1..(m + 1) /\ Started(section, ordered, inited, k)
      /\ InOrder(section, ordered)
  BY DEF WalkInv, WalkEnds
<1>2. m \in Nat /\ k = m + 1
  BY <1>1, SizeLemma DEF InOrder, Table, WalkEnds
<1>3. /\ section' = section /\ ordered' = ordered /\ inited' = inited
      /\ walk' = "done" /\ k' = k
  BY DEF WalkEnds
<1>4. QED
  BY <1>1, <1>2, <1>3 DEF WalkInv

(* Whoever moves, the walker stays where it is or makes a step.             *)
LEMMA WalkNext == WalkInv /\ [Next]_vars => WalkInv'
<1> SUFFICES ASSUME WalkInv, [Next]_vars PROVE WalkInv'
  OBVIOUS
<1>1. Walker \/ UNCHANGED walker
  BY DEF Next, vars
<1>2. CASE UNCHANGED walker
  BY <1>2 DEF walker, WalkInv
<1>3. CASE Walker
  BY <1>3, CollectLemma, SortLemma, SortedLemma, CallLemma, EndLemma
     DEF Walker
<1>4. QED
  BY <1>1, <1>2, <1>3

(* The invariant holds in every reachable state.                            *)
LEMMA AlwaysWalkInv == Spec => []WalkInv
<1>1. Init => WalkInv
  BY DEF Init, WalkerInit, WalkInv
<1>2. QED
  BY <1>1, WalkNext, PTL DEF Spec

-----------------------------------------------------------------------------
(* The properties.                                                          *)

(* Of two instances in the table the one that the section puts before the   *)
(* other by priority stands before it.                                      *)
LEMMA OrderLemma ==
  ASSUME section \in Sections, NEW p, Table(section, ordered, p),
         Ascending(section, p, Size(section)),
         NEW x \in 1..Size(section), NEW y \in 1..Size(section),
         Before(p[x], p[y])
  PROVE  x < y
<1> DEFINE m == Size(section)
<1>1. m \in Nat /\ m <= Len(section) /\ Len(section) \in Nat
  BY SizeLemma
<1>2. p[x] \in 1..m /\ p[y] \in 1..m
  BY DEF Table, Perm
<1>3. p[x] \in 1..Len(section) /\ p[y] \in 1..Len(section)
  BY <1>1, <1>2
<1>4. /\ section[p[x]].init_priority \in Int
      /\ section[p[y]].init_priority \in Int
      /\ p[x] \in Int /\ p[y] \in Int
  <2>1. \A i \in 1..Len(section) : section[i].init_priority \in Int
    BY SectionsAssumption
  <2>2. QED
    BY <1>1, <1>2, <1>3, <2>1
<1>5. ~Before(p[y], p[x]) /\ p[x] # p[y]
  BY <1>4 DEF Before
<1>6. y < x => Before(p[y], p[x])
  BY <1>1 DEF Ascending, Earlier, Before
<1>7. QED
  BY <1>1, <1>5, <1>6

\* By the time an init_fn is called, those of all instances with a lower
\* init_priority, and of those with an equal one that stand earlier in the
\* section, have been.
THEOREM InitOrderAlways == Spec => []InitOrder
<1>1. WalkInv => InitOrder
  <2> DEFINE m == Size(section)
  <2> SUFFICES ASSUME WalkInv, NEW i \in Starters, NEW j \in Starters,
                      NEW a \in DOMAIN inited,
                      inited[a] = section[j].name, Before(i, j)
               PROVE  \E b \in 1..(a - 1) : inited[b] = section[i].name
    BY DEF InitOrder
  <2>0. section \in Sections
    BY DEF WalkInv
  <2>1. walk \in {"init", "done"}
    BY DEF WalkInv
  <2>2. /\ k \in 1..(m + 1) /\ Started(section, ordered, inited, k)
        /\ InOrder(section, ordered)
    BY <2>1 DEF WalkInv
  <2>3. PICK p \in [1..m -> 1..m] :
          Table(section, ordered, p) /\ Ascending(section, p, m)
    BY <2>2 DEF InOrder
  <2>4. /\ m \in Nat /\ Starters \subseteq 1..m
        /\ section[i].init_fn # "none"
    BY <2>0, SizeLemma DEF Starters
  <2>5. PICK x \in 1..m, y \in 1..m : p[x] = i /\ p[y] = j
    BY <2>3, <2>4 DEF Table, Perm
  <2>6. ordered[x] = section[i] /\ ordered[y] = section[j]
    BY <2>3, <2>5 DEF Table
  <2>7. x < y
    BY <2>0, <2>3, <2>5, OrderLemma
  <2>8. inited \in Seq(Names(section)) /\ a \in 1..Len(inited)
    BY <2>2 DEF Started
  <2>9. PICK n \in 1..(k - 1) : inited[a] = ordered[n].name
    BY <2>2, <2>8 DEF Started
  <2>10. n = y
    <3>1. n \in 1..m
      BY <2>2, <2>4
    <3>2. ordered[n].name = ordered[y].name
      BY <2>6, <2>9
    <3>3. QED
      BY <2>0, <2>3, <3>1, <3>2, NamesLemma
  <2>11. x \in 1..(k - 1) /\ y \in 1..(k - 1)
    BY <2>2, <2>4, <2>7, <2>10
  <2>12. PICK b \in 1..Len(inited) : inited[b] = ordered[x].name
    BY <2>2, <2>4, <2>6, <2>11 DEF Started, Called
  <2>13. b < a
    BY <2>2, <2>7, <2>8, <2>9, <2>10, <2>11, <2>12 DEF Started
  <2>14. b \in 1..(a - 1)
    BY <2>8, <2>13
  <2>15. QED
    BY <2>6, <2>12, <2>14
<1>2. QED
  BY <1>1, AlwaysWalkInv, PTL

\* When the walker is done, the init_fn of every instance that the table had
\* room for has been called once, whatever the others returned.
THEOREM InitCompleteAlways == Spec => []InitComplete
<1>1. WalkInv => InitComplete
  <2> DEFINE m == Size(section)
             T == {section[i].name : i \in Starters}
             I == {inited[a] : a \in DOMAIN inited}
  <2> SUFFICES ASSUME WalkInv, walk = "done"
               PROVE  /\ I = T
                      /\ \A a, b \in DOMAIN inited :
                           inited[a] = inited[b] => a = b
    BY DEF InitComplete
  <2>1. /\ section \in Sections /\ k = m + 1
        /\ Started(section, ordered, inited, k) /\ InOrder(section, ordered)
    BY DEF WalkInv
  <2>2. PICK p \in [1..m -> 1..m] : Table(section, ordered, p)
    BY <2>1 DEF InOrder
  <2>3. m \in Nat /\ k - 1 = m /\ Kept = 1..m
    BY <2>1, SizeLemma
  <2>4. /\ inited \in Seq(Names(section))
        /\ \A i \in 1..m : Called(ordered, i) =>
             \E a \in 1..Len(inited) : inited[a] = ordered[i].name
        /\ \A a \in 1..Len(inited) : \E i \in 1..m :
             Called(ordered, i) /\ inited[a] = ordered[i].name
        /\ \A a, b \in 1..Len(inited) : \A i, l \in 1..m :
             inited[a] = ordered[i].name /\ inited[b] = ordered[l].name =>
               (a < b <=> i < l)
    BY <2>1, <2>3 DEF Started
  <2>5. /\ \A a \in 1..m : p[a] \in 1..m /\ ordered[a] = section[p[a]]
        /\ \A n \in 1..m : \E a \in 1..m : p[a] = n
    BY <2>2 DEF Table, Perm
  <2>6. DOMAIN inited = 1..Len(inited)
    BY <2>4
  <2> HIDE DEF m
  <2>7. ASSUME NEW a \in DOMAIN inited PROVE inited[a] \in T
    <3>1. PICK n \in 1..m : Called(ordered, n) /\ inited[a] = ordered[n].name
      BY <2>4, <2>6
    <3>2. p[n] \in Starters /\ ordered[n] = section[p[n]]
      BY <2>3, <2>5, <3>1 DEF Starters, Called
    <3>3. QED
      BY <3>1, <3>2
  <2>8. ASSUME NEW i \in Starters PROVE section[i].name \in I
    <3>1. i \in 1..m /\ section[i].init_fn # "none"
      BY <2>3 DEF Starters
    <3>2. PICK n \in 1..m : p[n] = i
      BY <2>5, <3>1
    <3>3. ordered[n] = section[i] /\ Called(ordered, n)
      BY <2>5, <3>1, <3>2 DEF Called
    <3>4. PICK a \in 1..Len(inited) : inited[a] = ordered[n].name
      BY <2>4, <3>3
    <3>5. QED
      BY <2>6, <3>3, <3>4
  <2>9. ASSUME NEW a \in DOMAIN inited, NEW b \in DOMAIN inited,
               inited[a] = inited[b]
        PROVE  a = b
    <3>1. PICK n \in 1..m : inited[a] = ordered[n].name
      BY <2>4, <2>6
    <3>2. /\ inited[b] = ordered[n].name
          /\ a \in 1..Len(inited) /\ b \in 1..Len(inited)
      BY <2>6, <2>9, <3>1
    <3>3. (a < b <=> n < n) /\ (b < a <=> n < n)
      BY <2>4, <3>1, <3>2
    <3>4. n \in Int /\ a \in Int /\ b \in Int
      BY <2>3, <2>4, <3>1, <3>2
    <3>5. QED
      BY <3>3, <3>4
  <2>10. I = T
    BY <2>7, <2>8
  <2>11. QED
    BY <2>9, <2>10
<1>2. QED
  BY <1>1, AlwaysWalkInv, PTL

=============================================================================
