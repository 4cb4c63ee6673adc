--------------------------- MODULE ResultsProofs ---------------------------
(* Proofs about Results, for any number of result sets of any sizes and any  *)
(* mixture of fetchOne(), fetchAll() and nextResult().                       *)
EXTENDS Results, TLAPS

\* What is left of n rows when k were taken: a RowResult marks those that were
\* taken, and the set when none is left; a DocResult removes them.
Marked(n, k) ==
    IF k = n /\ n > 0 THEN NoSet ELSE [i \in 1 .. n |-> IF i <= k THEN NoRow ELSE i]
Shortened(n, k) == [i \in 1 .. n - k |-> k + i]

\* When count[s] rows of set s were taken, the application has got exactly
\* those, in order, and nothing of the sets after the one the cursor is in.
Handed(count) ==
    /\ count \in [DOMAIN sizes -> Nat]
    /\ \A s \in DOMAIN sizes : count[s] <= sizes[s] /\ (s > index => count[s] = 0)
    /\ handed \in Seq([set : DOMAIN sizes, row : Nat])
    /\ \A i \in DOMAIN handed :
          /\ handed[i].set <= index
          /\ handed[i].row \in 1 .. count[handed[i].set]
    /\ \A s \in DOMAIN sizes : \A r \in 1 .. count[s] : Got(s, r)
    /\ \A i, j \in DOMAIN handed : i < j =>
          \/ handed[i].set < handed[j].set
          \/ handed[i].set = handed[j].set /\ handed[i].row < handed[j].row
    /\ \A s \in ended \cap DOMAIN sizes : count[s] = sizes[s]

\* What the result still holds.
Holds(count) ==
    \/ /\ kind = "row"
       /\ results = [s \in DOMAIN sizes |-> Marked(sizes[s], count[s])]
    \/ /\ kind = "doc" /\ Len(sizes) = 1 /\ index = 1
       /\ \/ results = <<>> /\ count[1] = sizes[1]
          \/ results = <<Shortened(sizes[1], count[1])>>

Consistent ==
    /\ sizes \in Seq(Nat) /\ index \in Nat /\ index >= 1
    /\ \E count : Handed(count) /\ Holds(count)

\* Nothing was taken yet.
LEMMA ConsistentInit == ResultsInit => Consistent
  <1> SUFFICES ASSUME ResultsInit PROVE Consistent
    OBVIOUS
  <1>1. sizes \in Seq(Nat) /\ DOMAIN sizes = 1 .. Len(sizes) /\ Len(sizes) \in Nat
    <2>1. PICK m \in 0 .. MaxSets : sizes \in [1 .. m -> 0 .. MaxRows]
      BY DEF ResultsInit, BoundedSeq, SeqOf
    <2>2. m \in Nat /\ sizes \in [1 .. m -> Nat]
      BY <2>1
    <2> QED
      BY <2>2
  <1> DEFINE none == [s \in DOMAIN sizes |-> 0]
  <1>2. handed = <<>> /\ ended = {} /\ index = 1
    BY DEF ResultsInit
  <1>3. Handed(none)
    <2>1. \A s \in DOMAIN sizes : none[s] = 0 /\ sizes[s] \in Nat
      BY <1>1
    <2>2. handed \in Seq([set : DOMAIN sizes, row : Nat]) /\ DOMAIN handed = {}
      BY <1>2
    <2> QED
      BY <1>2, <2>1, <2>2 DEF Handed
  <1>4. \A s \in DOMAIN sizes : /\ Rows(sizes[s]) = Marked(sizes[s], none[s])
                                /\ Rows(sizes[s]) = Shortened(sizes[s], none[s])
    <2> TAKE s \in DOMAIN sizes
    <2>1. none[s] = 0 /\ sizes[s] \in Nat
      BY <1>1
    <2> QED
      BY <2>1 DEF Rows, Marked, Shortened
  <1>5. results = [s \in DOMAIN sizes |-> Rows(sizes[s])] /\ kind \in {"row", "doc"}
    BY DEF ResultsInit
  <1>6. CASE kind = "row"
    BY <1>1, <1>2, <1>3, <1>4, <1>5, <1>6 DEF Consistent, Holds
  <1>7. CASE kind = "doc"
    <2>1. Len(sizes) = 1 /\ DOMAIN sizes = {1}
      BY <1>1, <1>7 DEF ResultsInit
    <2>2. results = <<Shortened(sizes[1], none[1])>>
      BY <1>4, <1>5, <2>1
    <2> QED
      BY <1>1, <1>2, <1>3, <1>7, <2>1, <2>2 DEF Consistent, Holds
  <1> QED
    BY <1>5, <1>6, <1>7

\* Facts about sequences, each cited by name.
LEMMA IsSequence ==
    ASSUME NEW S, NEW n \in Nat, NEW f \in [1 .. n -> S]
    PROVE  f \in Seq(S) /\ Len(f) = n
  OBVIOUS

LEMMA Element ==
    ASSUME NEW S, NEW q \in Seq(S), NEW i \in DOMAIN q
    PROVE  q[i] \in S
  OBVIOUS

LEMMA RestOfSequence ==
    ASSUME NEW S, NEW q \in Seq(S), Len(q) >= 1
    PROVE  Tail(q) = [i \in 1 .. Len(q) - 1 |-> q[i + 1]]
  <1>1. PICK t : t = Tail(q)
    OBVIOUS
  <1>2. /\ t \in Seq(S) /\ Len(t) = Len(q) - 1
        /\ \A i \in 1 .. Len(q) - 1 : t[i] = q[i + 1]
    BY <1>1
  <1>3. DOMAIN t = 1 .. Len(q) - 1 /\ t = [i \in DOMAIN t |-> t[i]]
    BY <1>2
  <1> QED
    BY <1>1, <1>2, <1>3

LEMMA Joined ==
    ASSUME NEW S, NEW p \in Seq(S), NEW q \in Seq(S)
    PROVE  /\ p \o q \in Seq(S) /\ Len(p \o q) = Len(p) + Len(q)
           /\ DOMAIN (p \o q) = 1 .. Len(p) + Len(q)
           /\ \A i \in 1 .. Len(p) : (p \o q)[i] = p[i]
           /\ \A i \in 1 .. Len(q) : (p \o q)[Len(p) + i] = q[i]
  OBVIOUS

\* The application gets the next rows of the set the cursor is in.
LEMMA MoreHanded ==
    ASSUME Consistent, NEW count, Handed(count), index \in DOMAIN sizes,
           NEW m \in Nat, count[index] <= m, m <= sizes[index],
           NEW rows \in Seq(Nat), Len(rows) = m - count[index],
           \A i \in 1 .. Len(rows) : rows[i] = count[index] + i,
           Hand(index, rows), UNCHANGED <<sizes, index>>,
           ended' = ended \/ (ended' = ended \cup {index} /\ m = sizes[index])
    PROVE  Handed([count EXCEPT ![index] = m])'
  <1>1. PICK next : next = [count EXCEPT ![index] = m]
    OBVIOUS
  <1> DEFINE n == Len(handed)
             k == Len(rows)
             E == [set : DOMAIN sizes, row : Nat]
  <1>2. PICK c \in Nat : c = count[index]
    BY DEF Handed
  <1>3. /\ n \in Nat /\ k \in Nat /\ DOMAIN handed = 1 .. n /\ DOMAIN rows = 1 .. k
        /\ index \in Nat
        /\ \A s \in DOMAIN sizes : sizes[s] \in Nat /\ s \in Nat
    <2>1. index \in Nat /\ \A s \in DOMAIN sizes : sizes[s] \in Nat /\ s \in Nat
      BY DEF Consistent
    <2>2. handed \in Seq([set : DOMAIN sizes, row : Nat])
      BY DEF Handed
    <2>3. n \in Nat /\ DOMAIN handed = 1 .. n
      BY <2>2
    <2>4. k \in Nat /\ DOMAIN rows = 1 .. k
      OBVIOUS
    <2> QED
      BY <2>1, <2>2, <2>3, <2>4
  <1>4. /\ \A r \in Nat : [set |-> index, row |-> r] \in E
        /\ \A e \in E : e.set \in DOMAIN sizes /\ e.set \in Nat /\ e.row \in Nat
        /\ handed \in Seq(E)
    BY <1>3 DEF Handed
  <1>5. /\ next \in [DOMAIN sizes -> Nat] /\ next[index] = m
        /\ \A s \in DOMAIN sizes : s # index => next[s] = count[s]
    BY <1>1 DEF Handed
  <1>6. \A i \in 1 .. k : rows[i] = c + i /\ c + i \in Nat
    BY <1>2, <1>3
  <1>7. k = m - c /\ c <= m
    BY <1>2
  <1>8. n = Len(handed) /\ k = Len(rows)
    OBVIOUS
  <1> HIDE DEF n, k, E
  <1>9. PICK more : more = [i \in DOMAIN rows |-> [set |-> index, row |-> rows[i]]]
    OBVIOUS
  <1>10. more \in [1 .. k -> E] /\ \A i \in 1 .. k : more[i].set = index /\ more[i].row = c + i
    BY <1>3, <1>9, <1>4, <1>6
  <1>11. more \in Seq(E) /\ Len(more) = k
    BY <1>3, <1>10, IsSequence
  <1>12. handed' = handed \o more /\ handed \in Seq(E)
    BY <1>9, <1>4 DEF Hand
  <1>13. PICK all : all = handed'
    OBVIOUS
  <1>14. /\ all \in Seq(E) /\ Len(all) = n + k /\ DOMAIN all = 1 .. n + k
         /\ \A i \in 1 .. n : all[i] = handed[i]
         /\ \A i \in 1 .. k : all[n + i] = more[i]
    BY <1>3, <1>11, <1>12, <1>13, <1>8, Joined
  <1>15. \A i \in 1 .. n + k : i > n =>
           all[i].set = index /\ all[i].row = c + (i - n)
    <2> TAKE i \in 1 .. n + k
    <2> HAVE i > n
    <2>1. i - n \in 1 .. k /\ n + (i - n) = i
      BY <1>3
    <2> QED
      BY <1>10, <1>14, <2>1
  <1>16. /\ next \in [DOMAIN sizes -> Nat] /\ next[index] = m
         /\ count[index] = c /\ \A s \in DOMAIN sizes : s # index => next[s] = count[s]
    BY <1>2, <1>5
  <1>17. \A s \in DOMAIN sizes : next[s] <= sizes[s] /\ (s > index => next[s] = 0)
    BY <1>3, <1>16 DEF Handed
  <1>18. \A i \in 1 .. n : /\ all[i].set \in DOMAIN sizes /\ all[i].set <= index
                           /\ all[i].row \in 1 .. count[all[i].set]
                           /\ all[i].set \in Nat /\ count[all[i].set] \in Nat
    <2> TAKE i \in 1 .. n
    <2>1. handed[i] \in E /\ all[i] = handed[i]
      BY <1>3, <1>14, <1>4, <1>8
    <2>2. all[i].set \in DOMAIN sizes /\ all[i].set \in Nat
      BY <2>1, <1>4
    <2> QED
      BY <1>3, <2>1, <2>2 DEF Handed
  <1>19. \A i \in 1 .. n + k : all[i].set <= index /\ all[i].row \in 1 .. next[all[i].set]
    <2> TAKE i \in 1 .. n + k
    <2>1. CASE i <= n
      <3>1. i \in 1 .. n
        BY <1>3, <2>1
      <3>2. CASE all[i].set = index
        <4>1. all[i].row \in 1 .. c
          BY <1>16, <1>18, <3>1, <3>2
        <4>2. all[i].row \in 1 .. m
          BY <1>7, <4>1
        <4> QED
          BY <1>3, <1>16, <3>2, <4>2
      <3>3. CASE all[i].set # index
        BY <1>3, <1>16, <1>18, <3>1, <3>3
      <3> QED
        BY <3>2, <3>3
    <2>2. CASE i > n
      <3>1. all[i].set = index /\ all[i].row = c + (i - n)
        BY <1>3, <1>15, <2>2
      <3>2. i - n \in 1 .. m - c
        BY <1>3, <1>7, <2>2
      <3>3. c + (i - n) \in 1 .. m
        BY <1>3, <3>2
      <3> QED
        BY <1>3, <1>16, <3>1, <3>3
    <2> QED
      BY <1>3, <2>1, <2>2
  <1>20. \A s \in DOMAIN sizes : \A r \in 1 .. next[s] :
            \E i \in 1 .. n + k : all[i].set = s /\ all[i].row = r
    <2> TAKE s \in DOMAIN sizes
    <2> TAKE r \in 1 .. next[s]
    <2>1. CASE r \in 1 .. count[s]
      <3>1. PICK i \in 1 .. n : handed[i].set = s /\ handed[i].row = r
        <4>1. Got(s, r)
          BY <2>1 DEF Handed
        <4> QED
          BY <1>3, <4>1 DEF Got
      <3> QED
        BY <1>3, <1>14, <3>1
    <2>2. CASE r \notin 1 .. count[s]
      <3>1. s = index
        BY <1>16, <2>2
      <3>2. r - c \in 1 .. k /\ c + (r - c) = r
        BY <1>3, <1>16, <1>7, <2>2, <3>1
      <3>3. all[n + (r - c)].set = s /\ all[n + (r - c)].row = r
        BY <1>3, <1>10, <1>14, <3>1, <3>2
      <3>4. n + (r - c) \in 1 .. n + k
        BY <1>3, <3>2
      <3> QED
        BY <3>3, <3>4
    <2> QED
      BY <2>1, <2>2
  <1>21. \A i, j \in 1 .. n + k : i < j =>
            \/ all[i].set < all[j].set
            \/ all[i].set = all[j].set /\ all[i].row < all[j].row
    <2> TAKE i, j \in 1 .. n + k
    <2> HAVE i < j
    <2>1. CASE j <= n
      <3>1. i \in 1 .. n /\ j \in 1 .. n
        BY <1>3, <2>1
      <3>2. \/ handed[i].set < handed[j].set
            \/ handed[i].set = handed[j].set /\ handed[i].row < handed[j].row
        BY <1>3, <3>1 DEF Handed
      <3>3. all[i] = handed[i] /\ all[j] = handed[j]
        BY <1>14, <3>1
      <3> QED
        BY <3>2, <3>3
    <2>2. CASE i > n
      <3>1. j > n
        BY <1>3, <2>2
      <3>2. all[i].set = index /\ all[i].row = c + (i - n)
        BY <1>3, <1>15, <2>2
      <3>3. all[j].set = index /\ all[j].row = c + (j - n)
        BY <1>3, <1>15, <3>1
      <3>4. c + (i - n) < c + (j - n)
        BY <1>3
      <3> QED
        BY <3>2, <3>3, <3>4
    <2>3. CASE i <= n /\ j > n
      <3>1. all[j].set = index /\ all[j].row = c + (j - n)
        BY <1>3, <1>15, <2>3
      <3>2. i \in 1 .. n
        BY <1>3, <2>3
      <3>3. all[i].set \in Nat /\ all[i].set <= index
        BY <1>3, <1>18, <3>2
      <3>4. CASE all[i].set = index
        <4>1. all[i].row \in 1 .. c
          BY <1>16, <1>18, <3>2, <3>4
        <4>2. PICK y \in Int : y = c + (j - n) /\ c < y
          BY <1>3, <2>3
        <4>3. PICK x \in 1 .. c : x = all[i].row
          BY <4>1
        <4>4. x < y
          BY <4>2
        <4> QED
          BY <3>1, <3>4, <4>2, <4>3, <4>4
      <3>5. CASE all[i].set # index
        BY <1>3, <3>1, <3>3, <3>5
      <3> QED
        BY <3>4, <3>5
    <2> QED
      BY <1>3, <2>1, <2>2, <2>3
  <1>22. \A s \in ended' \cap DOMAIN sizes : next[s] = sizes[s]
    <2> TAKE s \in ended' \cap DOMAIN sizes
    <2>1. CASE s = index
      <3>1. CASE s \in ended
        <4>1. count[index] = sizes[index]
          BY <2>1, <3>1 DEF Handed
        <4>2. c = sizes[index] /\ m <= sizes[index] /\ sizes[index] \in Nat
          BY <1>3, <1>16, <4>1
        <4>3. m = sizes[index]
          BY <1>7, <4>2
        <4> QED
          BY <1>16, <2>1, <4>3
      <3>2. CASE s \notin ended
        BY <1>16, <2>1, <3>2
      <3> QED
        BY <3>1, <3>2
    <2>2. CASE s # index
      BY <1>16, <2>2 DEF Handed
    <2> QED
      BY <2>1, <2>2
  <1>23. handed' \in Seq(E) /\ DOMAIN handed' = 1 .. n + k /\ handed' = all
    BY <1>13, <1>14
  <1>24. \A s \in DOMAIN sizes : \A r \in 1 .. next[s] : Got(s, r)'
    BY <1>20, <1>23 DEF Got
  <1>25. sizes' = sizes /\ index' = index
    OBVIOUS
  <1>26. Handed(next)'
    <2>1. handed' \in Seq([set : DOMAIN sizes', row : Nat])
      BY <1>23, <1>25 DEF E
    <2>2. (\A i \in DOMAIN handed :
             handed[i].set <= index /\ handed[i].row \in 1 .. next[handed[i].set])'
      BY <1>19, <1>23, <1>25
    <2>3. (\A i, j \in DOMAIN handed : i < j =>
             \/ handed[i].set < handed[j].set
             \/ handed[i].set = handed[j].set /\ handed[i].row < handed[j].row)'
      BY <1>21, <1>23
    <2> QED
      BY <1>16, <1>17, <1>22, <1>24, <1>25, <2>1, <2>2, <2>3 DEF Handed
  <1> QED
    BY <1>1, <1>26, <1>25

\* Rows that were taken are marked from the first one on.
LEMMA MarkedProperties ==
    ASSUME NEW n \in Nat, NEW k \in Nat, k < n
    PROVE  /\ Marked(n, k) \in Seq(Nat) /\ Len(Marked(n, k)) = n
           /\ \A i \in 1 .. n : Marked(n, k)[i] = IF i <= k THEN NoRow ELSE i
           /\ Marked(n, k) # NoSet /\ Marked(n, k) # <<>>
  <1>1. Marked(n, k) = [i \in 1 .. n |-> IF i <= k THEN NoRow ELSE i]
    BY DEF Marked
  <1>2. PICK f : f = [i \in 1 .. n |-> IF i <= k THEN NoRow ELSE i]
    OBVIOUS
  <1>3. f \in [1 .. n -> Nat] /\ \A i \in 1 .. n : f[i] = IF i <= k THEN NoRow ELSE i
    BY <1>2 DEF NoRow
  <1>4. f \in Seq(Nat) /\ Len(f) = n
    BY <1>3, IsSequence
  <1>5. f[n] = n
    BY <1>3
  <1>6. f # NoSet
    <2> SUFFICES ASSUME f = <<NoRow>> PROVE FALSE
      BY DEF NoSet
    <2>1. Len(<<NoRow>>) = 1 /\ <<NoRow>>[1] = 0
      BY DEF NoRow
    <2> QED
      BY <1>4, <1>5, <2>1
  <1>7. f # <<>>
    <2>1. Len(<<>>) = 0 /\ n # 0
      OBVIOUS
    <2> QED
      BY <1>4, <2>1
  <1> QED
    BY <1>1, <1>2, <1>3, <1>4, <1>6, <1>7

FirstKept(rows) == SelectInSeq(rows, LAMBDA row : row # NoRow)

\* The first row that is not marked follows the last one that is.
LEMMA FirstLeft ==
    ASSUME NEW n \in Nat, NEW k \in Nat, k < n
    PROVE  /\ startIndex(Marked(n, k)) = k + 1
           /\ FirstKept(Marked(n, k)) = k + 1
  <1> DEFINE marks == {i \in 1 .. Len(Marked(n, k)) : Marked(n, k)[i] = NoRow}
             rest == {i \in 1 .. Len(Marked(n, k)) : Marked(n, k)[i] # NoRow}
  <1>1. marks = 1 .. k /\ rest = k + 1 .. n
    <2>1. PICK f : f = Marked(n, k)
      OBVIOUS
    <2>2. Len(f) = n /\ \A i \in 1 .. n : f[i] = IF i <= k THEN 0 ELSE i
      BY <2>1, MarkedProperties DEF NoRow
    <2>3. \A i \in 1 .. n : f[i] = 0 <=> i <= k
      BY <2>2
    <2>4. /\ marks = {i \in 1 .. n : f[i] = 0} /\ rest = {i \in 1 .. n : f[i] # 0}
      BY <2>1, <2>2 DEF NoRow
    <2> QED
      BY <2>3, <2>4
  <1>2. startIndex(Marked(n, k)) = (IF marks # {} THEN Max(marks) ELSE 0) + 1
    BY DEF startIndex, SelectLastInSeq
  <1>3. FirstKept(Marked(n, k)) = IF rest # {} THEN Min(rest) ELSE 0
    BY DEF FirstKept, SelectInSeq
  <1> HIDE DEF marks, rest
  <1>4. Min(rest) = k + 1
    <2>1. k + 1 \in rest /\ \A y \in rest : k + 1 <= y /\ y \in Nat
      BY <1>1
    <2>2. \A x \in rest : (\A y \in rest : x <= y) => x = k + 1
      BY <2>1
    <2> QED
      BY <2>1, <2>2 DEF Min
  <1>5. k > 0 => Max(marks) = k
    <2> SUFFICES ASSUME k > 0 PROVE Max(marks) = k
      OBVIOUS
    <2>1. k \in marks /\ \A y \in marks : k >= y /\ y \in Nat
      BY <1>1
    <2>2. \A x \in marks : (\A y \in marks : x >= y) => x = k
      BY <2>1
    <2> QED
      BY <2>1, <2>2 DEF Max
  <1>6. rest # {} /\ (k = 0 <=> marks = {})
    <2>1. k + 1 \in rest
      BY <1>1
    <2>2. k > 0 => 1 \in marks
      BY <1>1
    <2>3. k = 0 => marks = {}
      BY <1>1
    <2> QED
      BY <2>1, <2>2, <2>3
  <1>7. (IF marks # {} THEN Max(marks) ELSE 0) = k
    BY <1>5, <1>6
  <1> QED
    BY <1>2, <1>3, <1>4, <1>6, <1>7

\* One row more is taken.
LEMMA OneMoreTaken ==
    ASSUME NEW n \in Nat, NEW k \in Nat, k < n
    PROVE  taken(Marked(n, k), k + 1) = Marked(n, k + 1)
  <1>1. PICK f : f = [i \in 1 .. n |-> IF i <= k THEN NoRow ELSE i]
    OBVIOUS
  <1>2. f = Marked(n, k)
    BY <1>1 DEF Marked
  <1>3. Len(f) = n
    BY <1>2, MarkedProperties
  <1>4. CASE k + 1 = n
    BY <1>2, <1>3, <1>4 DEF taken, Marked
  <1>5. CASE k + 1 # n
    <2>1. taken(f, k + 1) = [f EXCEPT ![k + 1] = NoRow]
      BY <1>3, <1>5 DEF taken
    <2>2. Marked(n, k + 1) = [i \in 1 .. n |-> IF i <= k + 1 THEN NoRow ELSE i]
      BY <1>5 DEF Marked
    <2>3. [f EXCEPT ![k + 1] = NoRow] = [i \in 1 .. n |-> IF i <= k + 1 THEN NoRow ELSE i]
      <3>1. \A i \in 1 .. n : i <= k + 1 <=> i <= k \/ i = k + 1
        OBVIOUS
      <3> QED
        BY <1>1, <3>1
    <2> QED
      BY <1>2, <2>1, <2>2, <2>3
  <1> QED
    BY <1>4, <1>5

\* A RowResult hands out the rows of a set up to the m-th one.
LEMMA RowTakes ==
    ASSUME Consistent, kind = "row", NEW count, Handed(count), Holds(count),
           index \in DOMAIN sizes, NEW m \in Nat, count[index] <= m, m <= sizes[index],
           NEW rows \in Seq(Nat), Len(rows) = m - count[index],
           \A i \in 1 .. Len(rows) : rows[i] = count[index] + i,
           Hand(index, rows), UNCHANGED <<kind, sizes, index>>,
           results' = [results EXCEPT ![index] = Marked(sizes[index], m)],
           ended' = ended \/ (ended' = ended \cup {index} /\ m = sizes[index])
    PROVE  Consistent'
  <1>1. Handed([count EXCEPT ![index] = m])'
    BY MoreHanded
  <1>2. PICK next : next = [count EXCEPT ![index] = m]
    OBVIOUS
  <1>3. results = [s \in DOMAIN sizes |-> Marked(sizes[s], count[s])]
    BY DEF Holds
  <1>4. results' = [s \in DOMAIN sizes |-> Marked(sizes[s], next[s])]
    <2>1. \A s \in DOMAIN sizes : next[s] = IF s = index THEN m ELSE count[s]
      BY <1>2 DEF Handed
    <2> QED
      BY <1>3, <2>1
  <1>5. Handed(next)'
    BY <1>1, <1>2
  <1>6. Holds(next)'
    BY <1>4 DEF Holds
  <1>7. (sizes \in Seq(Nat) /\ index \in Nat /\ index >= 1)'
    BY DEF Consistent
  <1> QED
    BY <1>5, <1>6, <1>7 DEF Consistent

\* What the cursor of a RowResult is in.
LEMMA CurrentSet ==
    ASSUME Consistent, kind = "row", NEW count, Handed(count), Holds(count)
    PROVE  /\ DOMAIN results = DOMAIN sizes
           /\ index \notin DOMAIN sizes => Current = <<>>
           /\ index \in DOMAIN sizes =>
                 /\ count[index] \in Nat /\ sizes[index] \in Nat /\ count[index] <= sizes[index]
                 /\ results[index] = Marked(sizes[index], count[index])
                 /\ count[index] = sizes[index] => Current = <<>>
                 /\ count[index] < sizes[index] =>
                       Current = Marked(sizes[index], count[index])
  <1>1. results = [s \in DOMAIN sizes |-> Marked(sizes[s], count[s])]
    BY DEF Holds
  <1>2. ASSUME index \in DOMAIN sizes
        PROVE  /\ count[index] \in Nat /\ sizes[index] \in Nat /\ count[index] <= sizes[index]
               /\ results[index] = Marked(sizes[index], count[index])
    BY <1>1, <1>2 DEF Consistent, Handed
  <1>3. ASSUME index \in DOMAIN sizes, count[index] = sizes[index] PROVE Current = <<>>
    <2>1. PICK n \in Nat : n = sizes[index]
      BY <1>2, <1>3
    <2>2. results[index] = Marked(n, n)
      BY <1>2, <1>3, <2>1
    <2>3. CASE n > 0
      BY <2>2, <2>3 DEF Current, Marked
    <2>4. CASE n = 0
      <3>1. Marked(n, n) = <<>>
        BY <2>4 DEF Marked
      <3> QED
        BY <2>2, <3>1 DEF Current
    <2> QED
      BY <2>3, <2>4
  <1>4. ASSUME index \in DOMAIN sizes, count[index] < sizes[index]
        PROVE  Current = Marked(sizes[index], count[index])
    <2>1. Marked(sizes[index], count[index]) # NoSet
      BY <1>2, <1>4, MarkedProperties
    <2> QED
      BY <1>1, <1>2, <1>4, <2>1 DEF Current
  <1>5. ASSUME index \notin DOMAIN sizes PROVE Current = <<>>
    BY <1>1, <1>5 DEF Current
  <1> QED
    BY <1>1, <1>2, <1>3, <1>4, <1>5

\* The application is told that there are no more rows, and gets none.
LEMMA NothingTaken ==
    ASSUME Consistent, NEW count, Handed(count), Holds(count),
           UNCHANGED <<kind, sizes, index, results, handed>>,
           ended' = ended \cup {index},
           index \in DOMAIN sizes => count[index] = sizes[index]
    PROVE  Consistent'
  <1>1. /\ kind' = kind /\ sizes' = sizes /\ index' = index /\ results' = results
        /\ handed' = handed
    OBVIOUS
  <1>2. \A s \in ended' \cap DOMAIN sizes : count[s] = sizes[s]
    BY DEF Handed
  <1>3. Handed(count)'
    BY <1>1, <1>2 DEF Handed, Got
  <1>4. Holds(count)'
    BY <1>1 DEF Holds
  <1>5. (sizes \in Seq(Nat) /\ index \in Nat /\ index >= 1)'
    BY <1>1 DEF Consistent
  <1> QED
    BY <1>3, <1>4, <1>5 DEF Consistent

\* Handing out no rows changes nothing.
LEMMA NothingHanded ==
    ASSUME Consistent, NEW count, Handed(count), NEW s, NEW rows, rows = <<>>, Hand(s, rows)
    PROVE  handed' = handed
  <1>1. handed \in Seq([set : DOMAIN sizes, row : Nat])
    BY DEF Handed
  <1>2. [i \in DOMAIN rows |-> [set |-> s, row |-> rows[i]]] = <<>>
    OBVIOUS
  <1> QED
    BY <1>1, <1>2 DEF Hand

\* What is left of the set, which is then marked as a whole.
LEMMA RowFetchAllKeeps ==
    ASSUME Consistent, RowFetchAll
    PROVE  Consistent'
  <1>1. /\ kind = "row" /\ UNCHANGED <<kind, sizes, index>>
        /\ Hand(index, SubSeq(Current, startIndex(Current), Len(Current)))
        /\ results' = IF Current # <<>> THEN [results EXCEPT ![index] = NoSet] ELSE results
        /\ ended' = ended \cup {index}
    BY DEF RowFetchAll
  <1>2. PICK count : Handed(count) /\ Holds(count)
    BY DEF Consistent
  <1>3. CASE Current = <<>>
    <2>1. results' = results
      BY <1>1, <1>3
    <2>2. \A from : SubSeq(Current, from, Len(Current)) = <<>>
      BY <1>3
    <2>3. handed' = handed
      BY <1>1, <1>2, <2>2, NothingHanded
    <2>4. ASSUME index \in DOMAIN sizes PROVE count[index] = sizes[index]
      <3>1. /\ count[index] \in Nat /\ sizes[index] \in Nat /\ count[index] <= sizes[index]
            /\ count[index] < sizes[index] => Current = Marked(sizes[index], count[index])
        BY <1>1, <1>2, <2>4, CurrentSet
      <3>2. ~(count[index] < sizes[index])
        BY <1>3, <3>1, MarkedProperties
      <3> QED
        BY <3>1, <3>2
    <2> QED
      BY <1>1, <1>2, <2>1, <2>3, <2>4, NothingTaken
  <1>4. CASE Current # <<>>
    <2>1. index \in DOMAIN sizes /\ count[index] # sizes[index]
      BY <1>1, <1>2, <1>4, CurrentSet
    <2>2. PICK n \in Nat, k \in Nat : n = sizes[index] /\ k = count[index]
      BY <1>1, <1>2, <2>1, CurrentSet
    <2>3. k < n /\ Current = Marked(n, k)
      BY <1>1, <1>2, <2>1, <2>2, CurrentSet
    <2>4. PICK f : f = Current
      OBVIOUS
    <2>5. /\ f \in Seq(Nat) /\ Len(f) = n /\ \A i \in 1 .. n : f[i] = IF i <= k THEN 0 ELSE i
          /\ startIndex(f) = k + 1
      BY <2>3, <2>4, MarkedProperties, FirstLeft DEF NoRow
    <2>6. PICK rows : rows = SubSeq(f, k + 1, n)
      OBVIOUS
    <2>7. /\ rows \in Seq(Nat) /\ Len(rows) = n - k
          /\ \A i \in 1 .. n - k : rows[i] = k + i
      <3>1. /\ rows \in Seq(Nat) /\ Len(rows) = n - k
            /\ \A i \in 1 .. n - k : rows[i] = f[k + i]
        BY <2>3, <2>5, <2>6
      <3>2. \A i \in 1 .. n - k : k + i \in 1 .. n /\ ~(k + i <= k)
        BY <2>3
      <3> QED
        BY <2>5, <3>1, <3>2
    <2>8. Hand(index, rows)
      BY <1>1, <2>4, <2>5, <2>6
    <2>9. NoSet = Marked(n, n)
      BY <2>3 DEF Marked
    <2>10. results' = [results EXCEPT ![index] = Marked(n, n)]
      BY <1>1, <1>4, <2>9
    <2>11. count[index] <= n /\ n <= sizes[index] /\ n \in Nat
      BY <2>2, <2>3
    <2> QED
      BY <1>1, <1>2, <2>1, <2>2, <2>7, <2>8, <2>10, <2>11, RowTakes
  <1> QED
    BY <1>3, <1>4

\* The first row that is left, or the end of the set.
LEMMA RowFetchOneKeeps ==
    ASSUME Consistent, RowFetchOne
    PROVE  Consistent'
  <1>1. PICK first : first = FirstKept(Current)
    OBVIOUS
  <1>2. /\ kind = "row" /\ UNCHANGED <<kind, sizes, index>>
        /\ IF first = 0
           THEN ended' = ended \cup {index} /\ UNCHANGED <<results, handed>>
           ELSE /\ Hand(index, <<Current[first]>>)
                /\ results' = [results EXCEPT ![index] = taken(Current, first)]
                /\ UNCHANGED ended
    BY <1>1 DEF RowFetchOne, FirstKept
  <1>3. PICK count : Handed(count) /\ Holds(count)
    BY DEF Consistent
  <1>4. CASE index \in DOMAIN sizes /\ count[index] < sizes[index]
    <2>1. PICK n \in Nat, k \in Nat : n = sizes[index] /\ k = count[index]
      BY <1>2, <1>3, <1>4, CurrentSet
    <2>2. k < n /\ Current = Marked(n, k)
      BY <1>2, <1>3, <1>4, <2>1, CurrentSet
    <2>3. first = k + 1 /\ first # 0
      <3>1. FirstKept(Marked(n, k)) = k + 1 /\ k + 1 # 0
        BY <2>2, FirstLeft
      <3> QED
        BY <1>1, <2>2, <3>1
    <2>4. Current[first] = k + 1
      BY <2>2, <2>3, MarkedProperties
    <2>5. PICK rows : rows = <<k + 1>>
      OBVIOUS
    <2>6. /\ rows \in Seq(Nat) /\ Len(rows) = (k + 1) - k
          /\ \A i \in 1 .. Len(rows) : rows[i] = k + i
      BY <2>5
    <2>7. Hand(index, rows) /\ ended' = ended
      BY <1>2, <2>3, <2>4, <2>5
    <2>8. results' = [results EXCEPT ![index] = Marked(n, k + 1)]
      BY <1>2, <2>2, <2>3, OneMoreTaken
    <2>9. count[index] <= k + 1 /\ k + 1 <= sizes[index] /\ k + 1 \in Nat
      BY <2>1, <2>2
    <2> QED
      BY <1>2, <1>3, <1>4, <2>1, <2>6, <2>7, <2>8, <2>9, RowTakes
  <1>5. CASE ~(index \in DOMAIN sizes /\ count[index] < sizes[index])
    <2>1. Current = <<>> /\ (index \in DOMAIN sizes => count[index] = sizes[index])
      BY <1>2, <1>3, <1>5, CurrentSet
    <2>2. first = 0
      BY <1>1, <2>1 DEF FirstKept, SelectInSeq
    <2> QED
      BY <1>2, <1>3, <2>1, <2>2, NothingTaken
  <1> QED
    BY <1>4, <1>5

\* The cursor moves on, whether there is another set or not.
LEMMA RowNextResultKeeps ==
    ASSUME Consistent, RowNextResult
    PROVE  Consistent'
  <1>1. PICK count : Handed(count) /\ Holds(count)
    BY DEF Consistent
  <1>2. /\ index' = index + 1 /\ index \in Nat /\ index >= 1 /\ kind = "row"
        /\ kind' = kind /\ results' = results /\ sizes' = sizes /\ handed' = handed
        /\ ended' = ended /\ sizes \in Seq(Nat)
    BY DEF RowNextResult, Consistent
  <1>3. \A s \in DOMAIN sizes : count[s] <= sizes[s] /\ (s > index' => count[s] = 0)
    <2> TAKE s \in DOMAIN sizes
    <2>1. s \in Nat
      BY <1>2
    <2>2. s > index' => s > index
      BY <1>2, <2>1
    <2> QED
      BY <1>1, <2>2 DEF Handed
  <1>4. \A i \in DOMAIN handed : handed[i].set <= index' /\ handed[i].row \in 1 .. count[handed[i].set]
    <2> TAKE i \in DOMAIN handed
    <2>1. handed[i] \in [set : DOMAIN sizes, row : Nat] /\ handed[i].set <= index
      <3>1. handed \in Seq([set : DOMAIN sizes, row : Nat])
        BY <1>1 DEF Handed
      <3>2. handed[i] \in [set : DOMAIN sizes, row : Nat]
        BY <3>1, Element
      <3> QED
        BY <1>1, <3>2 DEF Handed
    <2>2. handed[i].set \in Nat
      BY <1>2, <2>1
    <2>3. handed[i].set <= index'
      BY <1>2, <2>1, <2>2
    <2> QED
      BY <1>1, <2>3 DEF Handed
  <1>5. Handed(count)'
    BY <1>1, <1>2, <1>3, <1>4 DEF Handed, Got
  <1>6. Holds(count)'
    BY <1>1, <1>2 DEF Holds
  <1>7. (sizes \in Seq(Nat) /\ index \in Nat /\ index >= 1)'
    BY <1>2
  <1> QED
    BY <1>5, <1>6, <1>7 DEF Consistent

\* A DocResult hands out the documents up to the m-th one.
LEMMA DocTakes ==
    ASSUME Consistent, kind = "doc", NEW count, Handed(count), Holds(count),
           NEW m \in Nat, count[1] <= m, m <= sizes[1],
           NEW rows \in Seq(Nat), Len(rows) = m - count[1],
           \A i \in 1 .. Len(rows) : rows[i] = count[1] + i,
           Hand(1, rows), UNCHANGED <<kind, sizes, index>>,
           \/ results' = <<>> /\ m = sizes[1]
           \/ results' = <<Shortened(sizes[1], m)>>,
           ended' = ended \/ (ended' = ended \cup {1} /\ m = sizes[1])
    PROVE  Consistent'
  <1>1. index = 1 /\ index \in DOMAIN sizes /\ Len(sizes) = 1
    BY DEF Holds, Consistent
  <1>2. PICK next : next = [count EXCEPT ![1] = m]
    OBVIOUS
  <1>3. Handed([count EXCEPT ![index] = m])'
    BY <1>1, MoreHanded
  <1>4. Handed(next)'
    BY <1>1, <1>2, <1>3
  <1>5. next[1] = m
    BY <1>1, <1>2 DEF Handed
  <1>6. Holds(next)'
    BY <1>1, <1>5 DEF Holds
  <1>7. (sizes \in Seq(Nat) /\ index \in Nat /\ index >= 1)'
    BY DEF Consistent
  <1> QED
    BY <1>4, <1>6, <1>7 DEF Consistent

\* What a DocResult holds.
LEMMA DocLeft ==
    ASSUME Consistent, kind = "doc", NEW count, Handed(count), Holds(count)
    PROVE  /\ index = 1 /\ 1 \in DOMAIN sizes
           /\ count[1] \in Nat /\ sizes[1] \in Nat /\ count[1] <= sizes[1]
           /\ results = <<>> => count[1] = sizes[1]
           /\ results # <<>> => results[1] = Shortened(sizes[1], count[1])
  <1>1. index = 1 /\ 1 \in DOMAIN sizes
    BY DEF Holds, Consistent
  <1>2. count[1] \in Nat /\ sizes[1] \in Nat /\ count[1] <= sizes[1]
    BY <1>1 DEF Handed, Consistent
  <1>3. \A x : <<x>> # <<>> /\ <<x>>[1] = x
    OBVIOUS
  <1> QED
    BY <1>1, <1>2, <1>3 DEF Holds

\* The documents that are left begin with the first one not taken.
LEMMA ShortenedProperties ==
    ASSUME NEW n \in Nat, NEW k \in Nat, k <= n
    PROVE  /\ Shortened(n, k) \in Seq(Nat) /\ Len(Shortened(n, k)) = n - k
           /\ \A i \in 1 .. n - k : Shortened(n, k)[i] = k + i
           /\ k < n => Head(Shortened(n, k)) = k + 1 /\ Tail(Shortened(n, k)) = Shortened(n, k + 1)
  <1>1. PICK f : f = Shortened(n, k)
    OBVIOUS
  <1>2. n - k \in Nat /\ \A i \in 1 .. n - k : k + i \in Nat
    OBVIOUS
  <1>3. f \in [1 .. n - k -> Nat] /\ \A i \in 1 .. n - k : f[i] = k + i
    BY <1>1, <1>2 DEF Shortened
  <1>4. f \in Seq(Nat) /\ Len(f) = n - k
    BY <1>2, <1>3, IsSequence
  <1>5. ASSUME k < n PROVE Head(f) = k + 1 /\ Tail(f) = Shortened(n, k + 1)
    <2>1. Head(f) = f[1] /\ 1 \in 1 .. n - k
      BY <1>4, <1>5
    <2>2. Tail(f) = [i \in 1 .. (n - k) - 1 |-> f[i + 1]]
      <3>1. Len(f) >= 1 /\ Len(f) - 1 = (n - k) - 1
        BY <1>4, <1>5
      <3> QED
        BY <1>4, <3>1, RestOfSequence
    <2>3. \A i \in 1 .. (n - k) - 1 : f[i + 1] = (k + 1) + i
      <3> TAKE i \in 1 .. (n - k) - 1
      <3>1. i + 1 \in 1 .. n - k /\ k + (i + 1) = (k + 1) + i
        OBVIOUS
      <3> QED
        BY <1>3, <3>1
    <2>4. (n - k) - 1 = n - (k + 1)
      OBVIOUS
    <2>5. Tail(f) = [i \in 1 .. n - (k + 1) |-> (k + 1) + i]
      BY <2>2, <2>3, <2>4
    <2> QED
      BY <1>3, <2>1, <2>5 DEF Shortened
  <1> QED
    BY <1>1, <1>3, <1>4, <1>5

\* All that are left, and the list goes.
LEMMA DocFetchAllKeeps ==
    ASSUME Consistent, DocFetchAll
    PROVE  Consistent'
  <1>1. PICK rows : rows = IF results = <<>> THEN <<>> ELSE results[1]
    OBVIOUS
  <1>2. /\ kind = "doc" /\ UNCHANGED <<kind, sizes, index>> /\ Hand(1, rows)
        /\ results' = <<>> /\ ended' = ended \cup {1}
    BY <1>1 DEF DocFetchAll
  <1>3. PICK count : Handed(count) /\ Holds(count)
    BY DEF Consistent
  <1>4. PICK n \in Nat, k \in Nat : n = sizes[1] /\ k = count[1] /\ k <= n
    BY <1>2, <1>3, DocLeft
  <1>5. rows \in Seq(Nat) /\ Len(rows) = n - k /\ \A i \in 1 .. n - k : rows[i] = k + i
    <2>1. CASE results = <<>>
      <3>1. rows = <<>> /\ n - k = 0
        BY <1>1, <1>2, <1>3, <1>4, <2>1, DocLeft
      <3> QED
        BY <3>1
    <2>2. CASE results # <<>>
      <3>1. rows = Shortened(n, k)
        BY <1>1, <1>2, <1>3, <1>4, <2>2, DocLeft
      <3> QED
        BY <1>4, <3>1, ShortenedProperties
    <2> QED
      BY <2>1, <2>2
  <1>6. count[1] <= n /\ n <= sizes[1]
    BY <1>4
  <1> QED
    BY <1>2, <1>3, <1>4, <1>5, <1>6, DocTakes

\* The first document that is left, or the end of the list.
LEMMA DocFetchOneKeeps ==
    ASSUME Consistent, DocFetchOne
    PROVE  Consistent'
  <1>1. /\ kind = "doc" /\ UNCHANGED <<kind, sizes, index>>
        /\ IF results = <<>> \/ results[1] = <<>>
           THEN ended' = ended \cup {1} /\ UNCHANGED <<results, handed>>
           ELSE /\ Hand(1, <<Head(results[1])>>)
                /\ results' = <<Tail(results[1])>>
                /\ UNCHANGED ended
    BY DEF DocFetchOne
  <1>2. PICK count : Handed(count) /\ Holds(count)
    BY DEF Consistent
  <1>3. PICK n \in Nat, k \in Nat : n = sizes[1] /\ k = count[1] /\ k <= n
    BY <1>1, <1>2, DocLeft
  <1>4. results # <<>> => results[1] = Shortened(n, k)
    BY <1>1, <1>2, <1>3, DocLeft
  <1>5. CASE results = <<>> \/ results[1] = <<>>
    <2>1. k = n
      <3>1. CASE results = <<>>
        BY <1>1, <1>2, <1>3, <3>1, DocLeft
      <3>2. CASE results # <<>>
        <4>1. Len(Shortened(n, k)) = n - k /\ Len(<<>>) = 0
          BY <1>3, ShortenedProperties
        <4> QED
          BY <1>4, <1>5, <3>2, <4>1
      <3> QED
        BY <3>1, <3>2
    <2>2. index = 1
      BY <1>1, <1>2, DocLeft
    <2> QED
      BY <1>1, <1>2, <1>3, <1>5, <2>1, <2>2, NothingTaken
  <1>6. CASE ~(results = <<>> \/ results[1] = <<>>)
    <2>1. k < n
      <3>1. Len(Shortened(n, k)) = n - k /\ Shortened(n, k) \in Seq(Nat)
        BY <1>3, ShortenedProperties
      <3>2. n - k # 0
        BY <1>4, <1>6, <3>1
      <3> QED
        BY <1>3, <3>2
    <2>2. Head(results[1]) = k + 1 /\ Tail(results[1]) = Shortened(n, k + 1)
      <3>1. results[1] = Shortened(n, k)
        BY <1>4, <1>6
      <3>2. /\ Head(Shortened(n, k)) = k + 1
            /\ Tail(Shortened(n, k)) = Shortened(n, k + 1)
        BY <1>3, <2>1, ShortenedProperties
      <3> QED
        BY <3>1, <3>2
    <2>3. PICK rows : rows = <<k + 1>>
      OBVIOUS
    <2>4. /\ rows \in Seq(Nat) /\ Len(rows) = (k + 1) - k
          /\ \A i \in 1 .. Len(rows) : rows[i] = k + i
      BY <2>3
    <2>5. Hand(1, rows) /\ results' = <<Shortened(n, k + 1)>> /\ ended' = ended
      BY <1>1, <1>6, <2>2, <2>3
    <2>6. count[1] <= k + 1 /\ k + 1 <= sizes[1] /\ k + 1 \in Nat
      BY <1>3, <2>1
    <2> QED
      BY <1>1, <1>2, <1>3, <2>4, <2>5, <2>6, DocTakes
  <1> QED
    BY <1>5, <1>6

LEMMA ConsistentStep == Consistent /\ [ResultsNext]_resultsVars => Consistent'
  <1> SUFFICES ASSUME Consistent, [ResultsNext]_resultsVars PROVE Consistent'
    OBVIOUS
  <1>1. CASE RowFetchAll
    BY <1>1, RowFetchAllKeeps
  <1>2. CASE RowFetchOne
    BY <1>2, RowFetchOneKeeps
  <1>3. CASE RowNextResult
    BY <1>3, RowNextResultKeeps
  <1>4. CASE DocFetchAll
    BY <1>4, DocFetchAllKeeps
  <1>5. CASE DocFetchOne
    BY <1>5, DocFetchOneKeeps
  <1>6. CASE UNCHANGED resultsVars
    <2>1. /\ kind' = kind /\ results' = results /\ index' = index /\ sizes' = sizes
          /\ handed' = handed /\ ended' = ended
      BY <1>6 DEF resultsVars
    <2>2. ASSUME NEW count, Handed(count), Holds(count) PROVE Handed(count)' /\ Holds(count)'
      BY <2>1, <2>2 DEF Handed, Holds, Got
    <2> QED
      BY <2>1, <2>2 DEF Consistent
  <1> QED
    BY <1>1, <1>2, <1>3, <1>4, <1>5, <1>6 DEF ResultsNext

\* However fetchOne(), fetchAll() and nextResult() are mixed, the application
\* gets every row once and in order, and all of them before it is told that
\* there are no more.
THEOREM RowsOnce == ResultsSpec => []EveryRowOnce
  <1>1. Consistent => EveryRowOnce
    <2> SUFFICES ASSUME Consistent PROVE EveryRowOnce
      OBVIOUS
    <2>1. PICK count : Handed(count)
      BY DEF Consistent
    <2>2. \A i \in DOMAIN handed :
             /\ handed[i].set \in DOMAIN sizes
             /\ handed[i].row \in 1 .. count[handed[i].set]
      <3> TAKE i \in DOMAIN handed
      <3>1. handed \in Seq([set : DOMAIN sizes, row : Nat])
        BY <2>1 DEF Handed
      <3>2. handed[i] \in [set : DOMAIN sizes, row : Nat]
        BY <3>1, Element
      <3> QED
        BY <2>1, <3>2 DEF Handed
    <2>3. \A s \in DOMAIN sizes : /\ count[s] \in Nat /\ sizes[s] \in Nat /\ count[s] <= sizes[s]
                                  /\ \A r \in 1 .. count[s] : Got(s, r)
      BY <2>1 DEF Handed, Consistent
    <2>4. \A i \in DOMAIN handed : \A r \in 1 .. handed[i].row : Got(handed[i].set, r)
      <3> TAKE i \in DOMAIN handed
      <3> TAKE r \in 1 .. handed[i].row
      <3>1. r \in 1 .. count[handed[i].set]
        BY <2>2, <2>3
      <3> QED
        BY <2>2, <2>3, <3>1
    <2>5. \A i \in DOMAIN handed : handed[i].row \in 1 .. sizes[handed[i].set]
      BY <2>2, <2>3
    <2>6. \A s \in ended \cap DOMAIN sizes : \A r \in 1 .. sizes[s] : Got(s, r)
      BY <2>1, <2>3 DEF Handed
    <2>7. \A i, j \in DOMAIN handed : i < j =>
             \/ handed[i].set < handed[j].set
             \/ handed[i].set = handed[j].set /\ handed[i].row < handed[j].row
      BY <2>1 DEF Handed
    <2> QED
      BY <2>2, <2>4, <2>5, <2>6, <2>7 DEF EveryRowOnce
  <1> QED
    BY <1>1, ConsistentInit, ConsistentStep, PTL DEF ResultsSpec
=============================================================================
