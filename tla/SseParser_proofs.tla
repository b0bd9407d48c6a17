--------------------------- MODULE SseParser_proofs ---------------------------
(***************************************************************************)
(* Proofs about the SSE parser: what it yields does not depend on how the  *)
(* body is cut into chunks, for any limits of the buffer and of the data,  *)
(* any text and any chunks.  The argument: the events of a text are        *)
(* defined by its lines and the groups of its data lines, and one more     *)
(* symbol changes only the last line, one more line only the last group;   *)
(* between two chunks the parser holds the events and the data of the      *)
(* lines before its buffer, which begins at the beginning of a line.       *)
(***************************************************************************)
EXTENDS SseParser, FiniteSetTheorems, WellFoundedInduction, TLAPS

-----------------------------------------------------------------------------
(* Ranks                                                                   *)

(* A set that holds 0 and the successor of each of its numbers holds every *)
(* number: induction, stated of a set.                                     *)
LEMMA InductiveSet ==
    ASSUME NEW S, 0 \in S, \A n \in Nat : n \in S => n + 1 \in S
    PROVE  Nat \subseteq S
<1> SUFFICES ASSUME Nat \ S # {} PROVE FALSE
  OBVIOUS
<1>1. PICK m \in Nat \ S : \A k \in Nat \ S : ~ (<<k, m>> \in OpToRel(<, Nat))
  BY WFMin, NatLessThanWellFounded
<1>2. \A k \in Nat \ S : ~ (k < m)
  BY <1>1 DEF OpToRel
<1>3. m # 0 /\ m - 1 \in Nat
  OBVIOUS
<1>4. m - 1 \in S
  BY <1>2, <1>3
<1> QED BY <1>3, <1>4

(* R orders the elements of S.                                             *)
Orders(R, S) ==
    /\ \A x, y \in S : <<x, y>> \in R => <<y, x>> \notin R
    /\ \A x, y, z \in S : <<x, y>> \in R /\ <<y, z>> \in R => <<x, z>> \in R
    /\ \A x, y \in S : x = y \/ <<x, y>> \in R \/ <<y, x>> \in R

(* How many elements of S come before x.                                   *)
Rank(R, S, x) == Cardinality({y \in S : <<y, x>> \in R})

(* Of two elements the earlier has the smaller rank, and there are fewer   *)
(* elements before an element than there are elements.                     *)
LEMMA RankGrows ==
    ASSUME NEW S, IsFiniteSet(S), NEW R, Orders(R, S)
    PROVE  /\ \A x \in S : Rank(R, S, x) \in 0 .. Cardinality(S) - 1
           /\ \A x, y \in S : <<x, y>> \in R => Rank(R, S, x) < Rank(R, S, y)
<1> DEFINE Below(x) == {y \in S : <<y, x>> \in R}
<1>1. \A x \in S : /\ IsFiniteSet(Below(x)) /\ Cardinality(Below(x)) \in Nat
                   /\ Cardinality(S) \in Nat /\ Cardinality(Below(x)) < Cardinality(S)
  <2> SUFFICES ASSUME NEW x \in S
               PROVE  /\ IsFiniteSet(Below(x)) /\ Cardinality(Below(x)) \in Nat
                      /\ Cardinality(S) \in Nat /\ Cardinality(Below(x)) < Cardinality(S)
    OBVIOUS
  <2>1. Below(x) \in SUBSET S /\ x \notin Below(x)
    BY DEF Orders
  <2> HIDE DEF Below
  <2>2. /\ IsFiniteSet(Below(x)) /\ Cardinality(Below(x)) <= Cardinality(S)
        /\ Cardinality(S) = Cardinality(Below(x)) => S = Below(x)
    BY <2>1, FS_Subset
  <2>3. Cardinality(S) \in Nat /\ Cardinality(Below(x)) \in Nat
    BY <2>2, FS_CardinalityType
  <2> QED BY <2>1, <2>2, <2>3
<1>2. ASSUME NEW x \in S, NEW y \in S, <<x, y>> \in R
      PROVE  Cardinality(Below(x)) < Cardinality(Below(y))
  <2>1. Below(x) \in SUBSET Below(y) /\ x \notin Below(x) /\ x \in Below(y)
    BY <1>2 DEF Orders
  <2> HIDE DEF Below
  <2>2. /\ Cardinality(Below(x)) <= Cardinality(Below(y))
        /\ Cardinality(Below(y)) = Cardinality(Below(x)) => Below(y) = Below(x)
    BY <1>1, <2>1, FS_Subset
  <2> QED BY <1>1, <2>1, <2>2
<1>3. \A x \in S : Cardinality(Below(x)) \in 0 .. Cardinality(S) - 1
  <2> HIDE DEF Below
  <2> QED BY <1>1
<1> QED BY <1>2, <1>3 DEF Rank

(* So the ranks are in the order of the elements.                          *)
LEMMA RankIsOrder ==
    ASSUME NEW S, IsFiniteSet(S), NEW R, Orders(R, S)
    PROVE  \A x, y \in S : <<x, y>> \in R <=> Rank(R, S, x) < Rank(R, S, y)
<1> DEFINE n == Cardinality(S)
<1>0. n \in Nat
  BY FS_CardinalityType
<1>1. \A x \in S : Rank(R, S, x) \in 0 .. n - 1
  BY RankGrows
<1>2. \A x, y \in S : <<x, y>> \in R => Rank(R, S, x) < Rank(R, S, y)
  BY RankGrows
<1>3. \A x, y \in S : x = y \/ <<x, y>> \in R \/ <<y, x>> \in R
  BY DEF Orders
<1>4. ASSUME NEW x \in S, NEW y \in S
      PROVE  <<x, y>> \in R <=> Rank(R, S, x) < Rank(R, S, y)
  <2>1. Rank(R, S, x) \in Int /\ Rank(R, S, y) \in Int
    BY <1>0, <1>1
  <2>2. CASE <<x, y>> \in R
    BY <1>2, <2>2
  <2>3. CASE x = y
    BY <1>2, <2>1, <2>3
  <2>4. CASE <<y, x>> \in R
    <3>1. Rank(R, S, y) < Rank(R, S, x) /\ <<x, y>> \notin R
      BY <1>2, <2>4 DEF Orders
    <3> QED BY <2>1, <3>1
  <2> QED BY <1>3, <2>2, <2>3, <2>4
<1> QED BY <1>4

(* And they are the numbers from 0 on, each the rank of an element.        *)
LEMMA RankIsOnto ==
    ASSUME NEW S, IsFiniteSet(S), NEW R, Orders(R, S)
    PROVE  \A k \in 0 .. Cardinality(S) - 1 : \E x \in S : Rank(R, S, x) = k
<1> DEFINE n == Cardinality(S)
           f == [x \in S |-> Rank(R, S, x)]
<1>0. n \in Nat
  BY FS_CardinalityType
<1>1. \A x \in S : Rank(R, S, x) \in 0 .. n - 1 /\ f[x] = Rank(R, S, x)
  BY RankGrows
<1>2. \A x, y \in S : <<x, y>> \in R => Rank(R, S, x) < Rank(R, S, y)
  BY RankGrows
<1>3. \A x, y \in S : x = y \/ <<x, y>> \in R \/ <<y, x>> \in R
  BY DEF Orders
<1>5. ASSUME NEW x \in S, NEW y \in S, f[x] = f[y] PROVE x = y
  <2>1. Rank(R, S, x) \in Int /\ Rank(R, S, x) = Rank(R, S, y)
    BY <1>0, <1>1, <1>5
  <2>2. ~ (Rank(R, S, x) < Rank(R, S, y)) /\ ~ (Rank(R, S, y) < Rank(R, S, x))
    BY <2>1
  <2> QED BY <1>2, <1>3, <2>2
<1>6. f \in [S -> 0 .. n - 1] /\ DOMAIN f = S
  BY <1>1
<1> HIDE DEF f
<1>7. f \in Injection(S, 0 .. n - 1)
  BY <1>5, <1>6 DEF Injection, IsInjective
<1>8. Cardinality(0 .. n - 1) = n /\ IsFiniteSet(0 .. n - 1)
  <2>1. 0 \in Int /\ n - 1 \in Int
    BY <1>0
  <2>2. /\ IsFiniteSet(0 .. n - 1)
        /\ Cardinality(0 .. n - 1) = IF 0 > n - 1 THEN 0 ELSE n - 1 - 0 + 1
    BY <2>1, FS_Interval
  <2> QED BY <1>0, <2>2
<1>9. f \in Surjection(S, 0 .. n - 1)
  BY <1>7, <1>8, FS_Injection
<1>10. \A k \in 0 .. n - 1 : \E x \in S : f[x] = k
  BY <1>9 DEF Surjection
<1> QED BY <1>1, <1>10

-----------------------------------------------------------------------------
(* Places                                                                  *)

(* The k-th of some places has k - 1 of them before it, and each of them   *)
(* is the k-th for some k.                                                 *)
LEMMA NthIs ==
    ASSUME NEW places, IsFiniteSet(places), \A i \in places : i \in Int
    PROVE  /\ Cardinality(places) \in Nat
           /\ \A k \in 1 .. Cardinality(places) :
                 /\ Nth(places, k) \in places
                 /\ Cardinality({j \in places : j < Nth(places, k)}) = k - 1
           /\ \A i \in places :
                 \E k \in 1 .. Cardinality(places) : Nth(places, k) = i
           /\ \A k, l \in 1 .. Cardinality(places) :
                 k < l => Nth(places, k) < Nth(places, l)
<1> DEFINE n == Cardinality(places)
           R == {pair \in places \X places : pair[1] < pair[2]}
           before(i) == {j \in places : j < i}
<1>1. n \in Nat
  BY FS_CardinalityType
<1>2. \A i, j \in places : <<i, j>> \in R <=> i < j
  OBVIOUS
<1>3. \A i \in places : before(i) = {j \in places : <<j, i>> \in R}
  BY <1>2
<1> HIDE DEF R, before
<1>4. Orders(R, places)
  <2>1. \A i, j \in places : <<i, j>> \in R => <<j, i>> \notin R
    BY <1>2
  <2>2. \A i, j, k \in places : <<i, j>> \in R /\ <<j, k>> \in R => <<i, k>> \in R
    BY <1>2
  <2>3. \A i, j \in places : i = j \/ <<i, j>> \in R \/ <<j, i>> \in R
    <3>1. \A i, j \in places : i \in Int /\ j \in Int
      OBVIOUS
    <3>2. \A i, j \in places : i = j \/ i < j \/ j < i
      BY <3>1
    <3> QED BY <1>2, <3>2
  <2> QED BY <2>1, <2>2, <2>3 DEF Orders
<1>5. \A i \in places : Cardinality(before(i)) = Rank(R, places, i)
  BY <1>3 DEF Rank
<1>6. /\ \A i, j \in places : <<i, j>> \in R <=> Rank(R, places, i) < Rank(R, places, j)
      /\ \A i \in places : Rank(R, places, i) \in 0 .. n - 1
      /\ \A k \in 0 .. n - 1 : \E i \in places : Rank(R, places, i) = k
  <2>1. \A i, j \in places : <<i, j>> \in R <=> Rank(R, places, i) < Rank(R, places, j)
    BY <1>4, RankIsOrder
  <2>2. \A i \in places : Rank(R, places, i) \in 0 .. Cardinality(places) - 1
    BY <1>4, RankGrows
  <2>3. \A k \in 0 .. Cardinality(places) - 1 : \E x \in places : Rank(R, places, x) = k
    BY <1>4, RankIsOnto
  <2> QED BY <2>1, <2>2, <2>3
<1> HIDE DEF n
<1>7. \A k \in 1 .. n : Nth(places, k) \in places /\ Cardinality(before(Nth(places, k))) = k - 1
  <2> SUFFICES ASSUME NEW k \in 1 .. n
               PROVE  Nth(places, k) \in places /\ Cardinality(before(Nth(places, k))) = k - 1
    OBVIOUS
  <2>1. k - 1 \in 0 .. n - 1
    BY <1>1
  <2>2. \E i \in places : Cardinality(before(i)) = k - 1
    BY <1>5, <1>6, <2>1
  <2>3. Nth(places, k) = CHOOSE i \in places : Cardinality(before(i)) = k - 1
    BY DEF Nth, before
  <2> QED BY <2>2, <2>3, Zenon
<1>8. ASSUME NEW i \in places, NEW j \in places, Cardinality(before(i)) = Cardinality(before(j))
      PROVE  i = j
  <2>1. Rank(R, places, i) = Rank(R, places, j) /\ Rank(R, places, i) \in Int
    BY <1>1, <1>5, <1>6, <1>8
  <2>2. ~ (Rank(R, places, i) < Rank(R, places, j)) /\ ~ (Rank(R, places, j) < Rank(R, places, i))
    BY <2>1
  <2> QED BY <1>4, <1>6, <2>2 DEF Orders
<1>9. ASSUME NEW i \in places PROVE \E k \in 1 .. n : Nth(places, k) = i
  <2> DEFINE k == Cardinality(before(i)) + 1
  <2>1. Cardinality(before(i)) \in 0 .. n - 1
    BY <1>5, <1>6
  <2>2. k \in 1 .. n /\ k - 1 = Cardinality(before(i))
    BY <1>1, <2>1
  <2>3. Nth(places, k) \in places /\ Cardinality(before(Nth(places, k))) = Cardinality(before(i))
    BY <1>7, <2>2
  <2>4. Nth(places, k) = i
    BY <1>8, <2>3
  <2> QED BY <2>2, <2>4
<1>10. ASSUME NEW k \in 1 .. n, NEW l \in 1 .. n, k < l PROVE Nth(places, k) < Nth(places, l)
  <2>1. /\ Nth(places, k) \in places /\ Cardinality(before(Nth(places, k))) = k - 1
        /\ Nth(places, l) \in places /\ Cardinality(before(Nth(places, l))) = l - 1
    BY <1>7
  <2>2. Rank(R, places, Nth(places, k)) < Rank(R, places, Nth(places, l))
    <3>1. k - 1 < l - 1
      BY <1>10
    <3> QED BY <1>5, <2>1, <3>1
  <2> QED BY <1>2, <1>6, <2>1, <2>2
<1> QED BY <1>1, <1>7, <1>9, <1>10 DEF n, before

(* A place after all the others is the last, and the others stay what they *)
(* are.                                                                    *)
LEMMA NthOfMore ==
    ASSUME NEW places, IsFiniteSet(places), \A i \in places : i \in Int,
           NEW last \in Int, \A i \in places : i < last
    PROVE  /\ Cardinality(places \cup {last}) = Cardinality(places) + 1
           /\ \A k \in 1 .. Cardinality(places) : Nth(places \cup {last}, k) = Nth(places, k)
           /\ Nth(places \cup {last}, Cardinality(places) + 1) = last
<1> DEFINE n == Cardinality(places)
           more == places \cup {last}
<1>1. n \in Nat /\ last \notin places
  BY FS_CardinalityType
<1>2. IsFiniteSet(more) /\ Cardinality(more) = n + 1 /\ \A i \in more : i \in Int
  BY <1>1, FS_AddElement
<1>3. \A i \in places : {j \in more : j < i} = {j \in places : j < i}
  OBVIOUS
<1>4. {j \in more : j < last} = places
  <2>1. ~ (last < last)
    OBVIOUS
  <2>2. \A j \in more : j < last <=> j \in places
    BY <2>1
  <2> QED BY <2>2
<1>0. more = places \cup {last}
  OBVIOUS
<1> HIDE DEF n, more
<1>5. \A k \in 1 .. n + 1 : Nth(more, k) \in more /\ Cardinality({j \in more : j < Nth(more, k)}) = k - 1
  BY <1>2, NthIs
<1>6. \A k \in 1 .. n : Nth(places, k) \in places /\ Cardinality({j \in places : j < Nth(places, k)}) = k - 1
  BY NthIs DEF n
<1>7. \A k, l \in 1 .. n + 1 : k < l => Nth(more, k) < Nth(more, l)
  BY <1>2, NthIs
<1>8. PICK top \in 1 .. n + 1 : Nth(more, top) = last
  BY <1>0, <1>2, NthIs
<1>9. top = n + 1
  <2>1. Cardinality({j \in more : j < last}) = top - 1
    BY <1>5, <1>8
  <2>2. n = top - 1
    BY <1>4, <2>1 DEF n
  <2> HIDE DEF n
  <2> QED BY <1>1, <2>2
<1>10. ASSUME NEW k \in 1 .. n PROVE Nth(more, k) = Nth(places, k)
  <2> DEFINE i == Nth(places, k)
  <2>1. i \in places /\ Cardinality({j \in more : j < i}) = k - 1
    BY <1>3, <1>6
  <2>2. i \in more
    BY <1>0, <2>1
  <2>3. PICK l \in 1 .. n + 1 : Nth(more, l) = i
    BY <1>2, <2>2, NthIs
  <2>4. Cardinality({j \in more : j < i}) = l - 1
    BY <1>5, <2>3
  <2>5. l = k
    BY <1>1, <2>1, <2>4
  <2> QED BY <2>3, <2>5
<1> QED BY <1>2, <1>8, <1>9, <1>10 DEF n, more

-----------------------------------------------------------------------------
(* Some elements of a list                                                 *)

(* A list that is one longer than another and begins with it.              *)
LEMMA AppendIs ==
    ASSUME NEW V, NEW old \in Seq(V), NEW new \in Seq(V), NEW x \in V, NEW n \in Nat,
           Len(old) = n, Len(new) = n + 1,
           \A k \in 1 .. n : new[k] = old[k], new[n + 1] = x
    PROVE  new = Append(old, x)
OBVIOUS

(* Some elements of a list are a list.                                     *)
LEMMA OnlyIs ==
    ASSUME NEW places, IsFiniteSet(places), \A i \in places : i \in Int,
           NEW V, NEW list, \A i \in places : list[i] \in V
    PROVE  /\ Only(list, places) \in Seq(V)
           /\ Len(Only(list, places)) = Cardinality(places)
           /\ \A k \in 1 .. Cardinality(places) : Only(list, places)[k] = list[Nth(places, k)]
<1> DEFINE n == Cardinality(places)
<1>1. n \in Nat /\ \A k \in 1 .. n : Nth(places, k) \in places
  BY NthIs
<1> HIDE DEF n
<1>2. Only(list, places) = [k \in 1 .. n |-> list[Nth(places, k)]]
  BY DEF Only, n
<1>3. \A k \in 1 .. n : list[Nth(places, k)] \in V
  BY <1>1
<1>4. Only(list, places) \in [1 .. n -> V]
  BY <1>2, <1>3
<1> QED BY <1>1, <1>2, <1>4 DEF n

(* Nothing but those elements counts.                                      *)
LEMMA OnlySame ==
    ASSUME NEW places, IsFiniteSet(places), \A i \in places : i \in Int,
           NEW list, NEW other, \A i \in places : other[i] = list[i]
    PROVE  Only(other, places) = Only(list, places)
<1>1. \A k \in 1 .. Cardinality(places) : Nth(places, k) \in places
  BY NthIs
<1>2. \A k \in 1 .. Cardinality(places) : other[Nth(places, k)] = list[Nth(places, k)]
  BY <1>1
<1> QED BY <1>2 DEF Only

(* One more place, after the others, adds its element.                     *)
LEMMA OnlyMore ==
    ASSUME NEW places, IsFiniteSet(places), \A i \in places : i \in Int,
           NEW last \in Int, \A i \in places : i < last,
           NEW V, NEW list, \A i \in places : list[i] \in V, list[last] \in V
    PROVE  Only(list, places \cup {last}) = Append(Only(list, places), list[last])
<1> DEFINE n == Cardinality(places)
           more == places \cup {last}
           old == Only(list, places)
           new == Only(list, more)
<1>1. IsFiniteSet(more) /\ \A i \in more : i \in Int /\ list[i] \in V
  BY FS_AddElement
<1>2. n \in Nat
  BY FS_CardinalityType
<1>3. /\ Cardinality(more) = n + 1
      /\ \A k \in 1 .. n : Nth(more, k) = Nth(places, k)
      /\ Nth(more, n + 1) = last
  BY NthOfMore
<1>4. old \in Seq(V) /\ Len(old) = n /\ \A k \in 1 .. n : old[k] = list[Nth(places, k)]
  BY OnlyIs
<1>5. /\ new \in Seq(V) /\ Len(new) = n + 1
      /\ \A k \in 1 .. n + 1 : new[k] = list[Nth(more, k)]
  <2> HIDE DEF more, n
  <2>1. /\ Only(list, more) \in Seq(V)
        /\ Len(Only(list, more)) = Cardinality(more)
        /\ \A k \in 1 .. Cardinality(more) : Only(list, more)[k] = list[Nth(more, k)]
    BY <1>1, OnlyIs
  <2> QED BY <1>3, <2>1
<1> HIDE DEF n, more, old, new
<1>6. \A k \in 1 .. n : new[k] = old[k]
  BY <1>2, <1>3, <1>4, <1>5
<1>7. new[n + 1] = list[last]
  BY <1>2, <1>3, <1>5
<1>8. new = Append(old, list[last])
  BY <1>2, <1>4, <1>5, <1>6, <1>7
<1> QED BY <1>8 DEF new, old, more

-----------------------------------------------------------------------------
(* The parts of a list                                                     *)

(* Of a list and cuts within it.                                           *)
LEMMA PartsAre ==
    ASSUME NEW S, NEW list \in Seq(S), NEW cuts \in SUBSET DOMAIN list
    PROVE  /\ IsFiniteSet(cuts) /\ \A i \in cuts : i \in 1 .. Len(list)
           /\ Cardinality(cuts) \in Nat
           /\ \A k \in 0 .. Cardinality(cuts) + 1 :
                 Cut(list, cuts, k) \in 0 .. Len(list) + 1
           /\ \A k \in 1 .. Cardinality(cuts) + 1 :
                 Parts(list, cuts)[k]
                   = SubSeq(list, Cut(list, cuts, k - 1) + 1, Cut(list, cuts, k) - 1)
           /\ Parts(list, cuts) \in Seq(Seq(S))
           /\ Len(Parts(list, cuts)) = Cardinality(cuts) + 1
<1> DEFINE n == Cardinality(cuts)
<1>1. \A i \in cuts : i \in 1 .. Len(list)
  OBVIOUS
<1>2. IsFiniteSet(cuts)
  <2>1. IsFiniteSet(1 .. Len(list))
    <3>1. 1 \in Int /\ Len(list) \in Int
      OBVIOUS
    <3> QED BY <3>1, FS_Interval
  <2>2. cuts \in SUBSET (1 .. Len(list))
    OBVIOUS
  <2> QED BY <2>1, <2>2, FS_Subset
<1>3. n \in Nat
  BY <1>2, FS_CardinalityType
<1>4. \A k \in 1 .. n : Nth(cuts, k) \in cuts
  <2>1. \A i \in cuts : i \in Int
    BY <1>1
  <2> QED BY <1>2, <2>1, NthIs
<1> HIDE DEF n
<1>5. ASSUME NEW k \in 0 .. n + 1 PROVE Cut(list, cuts, k) \in 0 .. Len(list) + 1
  <2>1. CASE k = 0
    BY <2>1 DEF Cut
  <2>2. CASE k = n + 1
    BY <1>3, <2>2 DEF Cut, n
  <2>3. CASE k \in 1 .. n
    <3>1. k # 0 /\ k # n + 1
      BY <1>3, <2>3
    <3>2. Cut(list, cuts, k) = Nth(cuts, k)
      BY <3>1 DEF Cut, n
    <3>3. Nth(cuts, k) \in 1 .. Len(list)
      BY <1>1, <1>4, <2>3
    <3> QED BY <3>2, <3>3
  <2> QED BY <1>3, <2>1, <2>2, <2>3
<1>6. Parts(list, cuts)
        = [k \in 1 .. n + 1 |-> SubSeq(list, Cut(list, cuts, k - 1) + 1, Cut(list, cuts, k) - 1)]
  BY DEF Parts, n
<1>7. ASSUME NEW k \in 1 .. n + 1 PROVE Parts(list, cuts)[k] \in Seq(S)
  <2>1. k - 1 \in 0 .. n + 1 /\ k \in 0 .. n + 1
    BY <1>3
  <2> DEFINE a == Cut(list, cuts, k - 1)
             b == Cut(list, cuts, k)
  <2>2. a \in 0 .. Len(list) + 1 /\ b \in 0 .. Len(list) + 1
    BY <1>5, <2>1
  <2>3. Parts(list, cuts)[k] = SubSeq(list, a + 1, b - 1)
    BY <1>6
  <2> HIDE DEF a, b
  <2>4. a + 1 \in 1 .. Len(list) + 2 /\ b - 1 \in -1 .. Len(list)
    BY <2>2
  <2>5. SubSeq(list, a + 1, b - 1) \in Seq(S)
    BY <2>4
  <2> QED BY <2>3, <2>5
<1>8. Parts(list, cuts) \in [1 .. n + 1 -> Seq(S)]
  BY <1>6, <1>7
<1>9. Parts(list, cuts) \in Seq(Seq(S)) /\ Len(Parts(list, cuts)) = n + 1
  BY <1>3, <1>8
<1>10. \A k \in 1 .. n + 1 :
         Parts(list, cuts)[k] = SubSeq(list, Cut(list, cuts, k - 1) + 1, Cut(list, cuts, k) - 1)
  BY <1>6
<1> QED BY <1>1, <1>2, <1>3, <1>5, <1>9, <1>10 DEF n

(* One more element, and no cut: the last part grows.                      *)
LEMMA PartsGrow ==
    ASSUME NEW S, NEW list \in Seq(S), NEW x \in S, NEW cuts \in SUBSET DOMAIN list
    PROVE  LET old == Parts(list, cuts)
               new == Parts(Append(list, x), cuts)
               n   == Len(old)
           IN  /\ Len(new) = n
               /\ \A k \in 1 .. n - 1 : new[k] = old[k]
               /\ new[n] = Append(old[n], x)
<1> DEFINE more == Append(list, x)
           old == Parts(list, cuts)
           new == Parts(more, cuts)
           m == Len(list)
           c == Cardinality(cuts)
<1>1. more \in Seq(S) /\ Len(more) = m + 1 /\ m \in Nat /\ cuts \in SUBSET DOMAIN more
      /\ \A i \in 1 .. m : more[i] = list[i]
  OBVIOUS
<1>2. /\ c \in Nat /\ Len(old) = c + 1
      /\ \A k \in 0 .. c + 1 : Cut(list, cuts, k) \in 0 .. m + 1
      /\ \A k \in 1 .. c + 1 :
            old[k] = SubSeq(list, Cut(list, cuts, k - 1) + 1, Cut(list, cuts, k) - 1)
      /\ \A i \in cuts : i \in 1 .. m
  BY PartsAre
<1> HIDE DEF more
<1>3. /\ Len(new) = c + 1
      /\ \A k \in 1 .. c + 1 :
            new[k] = SubSeq(more, Cut(more, cuts, k - 1) + 1, Cut(more, cuts, k) - 1)
  BY <1>1, PartsAre
<1> HIDE DEF old, new, m
<1>4. \A k \in 0 .. c : Cut(more, cuts, k) = Cut(list, cuts, k) /\ Cut(list, cuts, k) \in 0 .. m
  <2> SUFFICES ASSUME NEW k \in 0 .. c
               PROVE  Cut(more, cuts, k) = Cut(list, cuts, k) /\ Cut(list, cuts, k) \in 0 .. m
    OBVIOUS
  <2>1. k # c + 1 /\ (k = 0 \/ k \in 1 .. c)
    BY <1>2
  <2>2. Cut(more, cuts, k) = Cut(list, cuts, k)
    BY <2>1 DEF Cut
  <2>3. CASE k = 0
    BY <1>1, <2>2, <2>3 DEF Cut
  <2>4. CASE k # 0
    <3>1. k \in 1 .. c
      BY <2>1, <2>4
    <3>2. IsFiniteSet(cuts) /\ \A i \in cuts : i \in Int
      BY PartsAre
    <3>3. Nth(cuts, k) \in cuts
      BY <3>1, <3>2, NthIs
    <3>4. Cut(list, cuts, k) = Nth(cuts, k)
      BY <2>1, <2>4 DEF Cut
    <3> QED BY <1>1, <1>2, <2>2, <3>3, <3>4
  <2> QED BY <2>3, <2>4
<1>5. Cut(list, cuts, c + 1) = m + 1 /\ Cut(more, cuts, c + 1) = m + 2
  <2>1. c + 1 # 0
    BY <1>2
  <2>2. Cut(list, cuts, c + 1) = Len(list) + 1 /\ Cut(more, cuts, c + 1) = Len(more) + 1
    BY <2>1 DEF Cut
  <2>3. Len(more) + 1 = m + 2
    BY <1>1
  <2> QED BY <2>2, <2>3 DEF m
<1> HIDE DEF c
<1>6. ASSUME NEW k \in 1 .. c PROVE new[k] = old[k]
  <2> DEFINE a == Cut(list, cuts, k - 1)
             b == Cut(list, cuts, k)
  <2>1. k - 1 \in 0 .. c /\ k \in 0 .. c /\ k \in 1 .. c + 1
    BY <1>2
  <2>2. a \in 0 .. m /\ b \in 0 .. m /\ Cut(more, cuts, k - 1) = a /\ Cut(more, cuts, k) = b
    BY <1>4, <2>1
  <2>3. old[k] = SubSeq(list, a + 1, b - 1) /\ new[k] = SubSeq(more, a + 1, b - 1)
    BY <1>2, <1>3, <2>1, <2>2
  <2> HIDE DEF a, b
  <2>4. SubSeq(list, a + 1, b - 1) = SubSeq(more, a + 1, b - 1)
    BY <1>1, <2>2 DEF m
  <2> QED BY <2>3, <2>4
<1>7. new[c + 1] = Append(old[c + 1], x)
  <2> DEFINE a == Cut(list, cuts, c)
  <2>1. c \in 0 .. c /\ c + 1 \in 1 .. c + 1 /\ (c + 1) - 1 = c
    BY <1>2
  <2>2. a \in 0 .. m /\ Cut(more, cuts, c) = a
    BY <1>4, <2>1
  <2>3. old[c + 1] = SubSeq(list, a + 1, (m + 1) - 1) /\ new[c + 1] = SubSeq(more, a + 1, (m + 2) - 1)
    BY <1>2, <1>3, <1>5, <2>1, <2>2
  <2>4. (m + 1) - 1 = m /\ (m + 2) - 1 = m + 1
    BY <1>1
  <2> HIDE DEF a
  <2>5. SubSeq(more, a + 1, m + 1) = Append(SubSeq(list, a + 1, m), x)
    <3>1. a \in Int /\ a <= m /\ 0 <= a
      BY <1>1, <2>2
    <3>2. more = Append(list, x) /\ Len(list) = m
      BY DEF more, m
    <3> QED BY <1>1, <3>1, <3>2
  <2> QED BY <2>3, <2>4, <2>5
<1>8. Len(new) = Len(old) /\ Len(old) - 1 = c
  BY <1>2, <1>3
<1> QED BY <1>2, <1>6, <1>7, <1>8 DEF old, new, more

(* One more element, and a cut there: an empty part begins.                *)
LEMMA PartsSplit ==
    ASSUME NEW S, NEW list \in Seq(S), NEW x \in S, NEW cuts \in SUBSET DOMAIN list
    PROVE  Parts(Append(list, x), cuts \cup {Len(list) + 1}) = Append(Parts(list, cuts), <<>>)
<1> DEFINE m == Len(list)
           c == Cardinality(cuts)
           more == Append(list, x)
           all == cuts \cup {m + 1}
           old == Parts(list, cuts)
           new == Parts(more, all)
<1>1. more \in Seq(S) /\ Len(more) = m + 1 /\ m \in Nat /\ all \in SUBSET DOMAIN more
      /\ \A i \in 1 .. m : more[i] = list[i]
  OBVIOUS
<1>2. /\ c \in Nat /\ old \in Seq(Seq(S)) /\ Len(old) = c + 1
      /\ \A k \in 0 .. c + 1 : Cut(list, cuts, k) \in 0 .. m + 1
      /\ \A k \in 1 .. c + 1 :
            old[k] = SubSeq(list, Cut(list, cuts, k - 1) + 1, Cut(list, cuts, k) - 1)
      /\ IsFiniteSet(cuts)
      /\ \A i \in cuts : i \in 1 .. m
  BY PartsAre
<1>3. /\ Cardinality(all) = c + 1
      /\ \A k \in 1 .. c : Nth(all, k) = Nth(cuts, k)
      /\ Nth(all, c + 1) = m + 1
  <2>1. m + 1 \in Int /\ \A i \in cuts : i \in Int /\ i < m + 1
    BY <1>1, <1>2
  <2> HIDE DEF m
  <2> QED BY <1>2, <2>1, NthOfMore
<1> HIDE DEF more, all
<1>4. /\ new \in Seq(Seq(S)) /\ Len(new) = c + 2
      /\ \A k \in 1 .. c + 2 :
            new[k] = SubSeq(more, Cut(more, all, k - 1) + 1, Cut(more, all, k) - 1)
  <2>1. /\ new \in Seq(Seq(S)) /\ Len(new) = Cardinality(all) + 1
        /\ \A k \in 1 .. Cardinality(all) + 1 :
              new[k] = SubSeq(more, Cut(more, all, k - 1) + 1, Cut(more, all, k) - 1)
    BY <1>1, PartsAre
  <2>2. Cardinality(all) + 1 = c + 2
    BY <1>2, <1>3
  <2> HIDE DEF new, c
  <2> QED BY <2>1, <2>2
<1> HIDE DEF old, new
<1>5. \A k \in 0 .. c + 1 : Cut(more, all, k) = Cut(list, cuts, k) /\ Cut(list, cuts, k) \in 0 .. m + 1
  <2> SUFFICES ASSUME NEW k \in 0 .. c + 1 PROVE Cut(more, all, k) = Cut(list, cuts, k)
    BY <1>2
  <2>1. k # (c + 1) + 1
    BY <1>2
  <2>2. CASE k = 0
    BY <2>2 DEF Cut
  <2>3. CASE k # 0 /\ k = c + 1
    <3>1. Cut(more, all, k) = Nth(all, c + 1) /\ Cut(list, cuts, k) = m + 1
      BY <1>3, <2>1, <2>3 DEF Cut
    <3> QED BY <1>3, <3>1
  <2>4. CASE k # 0 /\ k # c + 1
    <3>1. k \in 1 .. c
      BY <1>2, <2>4
    <3>2. Cut(more, all, k) = Nth(all, k) /\ Cut(list, cuts, k) = Nth(cuts, k)
      BY <1>3, <2>1, <2>4 DEF Cut
    <3> QED BY <1>3, <3>1, <3>2
  <2> QED BY <2>2, <2>3, <2>4
<1>6. Cut(more, all, c + 2) = m + 2 /\ Cut(more, all, c + 1) = m + 1
  <2>1. c + 2 # 0 /\ c + 2 = Cardinality(all) + 1
    BY <1>2, <1>3
  <2>2. Cut(more, all, c + 2) = Len(more) + 1
    BY <2>1 DEF Cut
  <2>3. c + 1 # 0 /\ c + 1 # Cardinality(all) + 1
    BY <1>2, <1>3
  <2>4. Cut(more, all, c + 1) = m + 1
    BY <1>3, <2>3 DEF Cut
  <2>5. Len(more) + 1 = m + 2
    BY <1>1
  <2> QED BY <2>2, <2>4, <2>5
<1> HIDE DEF c
<1>7. ASSUME NEW k \in 1 .. c + 1 PROVE new[k] = old[k]
  <2> DEFINE a == Cut(list, cuts, k - 1)
             b == Cut(list, cuts, k)
  <2>1. k - 1 \in 0 .. c + 1 /\ k \in 0 .. c + 1 /\ k \in 1 .. c + 2
    BY <1>2
  <2>2. a \in 0 .. m + 1 /\ b \in 0 .. m + 1 /\ Cut(more, all, k - 1) = a /\ Cut(more, all, k) = b
    BY <1>5, <2>1
  <2>3. old[k] = SubSeq(list, a + 1, b - 1) /\ new[k] = SubSeq(more, a + 1, b - 1)
    BY <1>2, <1>4, <2>1, <2>2
  <2> HIDE DEF a, b
  <2>4. SubSeq(list, a + 1, b - 1) = SubSeq(more, a + 1, b - 1)
    <3>1. a \in Int /\ 0 <= a /\ b \in Int /\ b - 1 <= m
      BY <1>1, <2>2
    <3> HIDE DEF m
    <3> QED BY <1>1, <3>1
  <2> QED BY <2>3, <2>4
<1>8. new[c + 2] = <<>>
  <2>1. c + 2 \in 1 .. c + 2 /\ (c + 2) - 1 = c + 1
    BY <1>2
  <2>2. new[c + 2] = SubSeq(more, (m + 1) + 1, (m + 2) - 1)
    BY <1>4, <1>6, <2>1
  <2>3. SubSeq(more, (m + 1) + 1, (m + 2) - 1) = <<>>
    BY <1>1
  <2> QED BY <2>2, <2>3
<1>9. new = Append(old, <<>>)
  <2> DEFINE V == Seq(S)
             n == c + 1
  <2>1. <<>> \in V /\ c + 2 = n + 1 /\ n \in Nat
    BY <1>2
  <2> HIDE DEF V, n
  <2>2. old \in Seq(V) /\ new \in Seq(V)
    BY <1>2, <1>4 DEF V
  <2>3. Len(old) = n /\ Len(new) = n + 1
    BY <1>2, <1>4, <2>1 DEF n
  <2>4. \A k \in 1 .. n : new[k] = old[k]
    BY <1>7 DEF n
  <2> QED BY <1>8, <2>1, <2>2, <2>3, <2>4, AppendIs
<1> QED BY <1>9 DEF new, old, more, all

(* The parts of nothing.                                                   *)
LEMMA PartsOfNothing == Parts(<<>>, {}) = << <<>> >>
<1>1. Cardinality({}) = 0 /\ Len(<<>>) = 0
  BY FS_EmptySet
<1>2. Cut(<<>>, {}, 0) = 0 /\ Cut(<<>>, {}, 1) = 1
  BY <1>1 DEF Cut
<1>3. Parts(<<>>, {}) = [k \in 1 .. 1 |-> SubSeq(<<>>, 1, 0)]
  <2>1. \A k \in 1 .. 1 : SubSeq(<<>>, Cut(<<>>, {}, k - 1) + 1, Cut(<<>>, {}, k) - 1) = SubSeq(<<>>, 1, 0)
    BY <1>2
  <2>2. Parts(<<>>, {}) = [k \in 1 .. 1 |-> SubSeq(<<>>, Cut(<<>>, {}, k - 1) + 1, Cut(<<>>, {}, k) - 1)]
    BY <1>1 DEF Parts
  <2> QED BY <2>1, <2>2
<1>4. SubSeq(<<>>, 1, 0) = <<>>
  OBVIOUS
<1> QED BY <1>3, <1>4

-----------------------------------------------------------------------------
(* The lines of a text                                                     *)

AllTexts == Seq(Symbols)

Raw(text) == Parts(text, LineEnds(text))

AfterCr(text) == text # <<>> /\ text[Len(text)] = "cr"

(* A symbol that ends a line after a text.                                 *)
Ends(text, symbol) == symbol = "cr" \/ (symbol = "lf" /\ ~ AfterCr(text))

(* A trimmed line is a text.                                               *)
LEMMA TrimmedIs ==
    ASSUME NEW line \in AllTexts
    PROVE  Trimmed(line) \in AllTexts
BY DEF Trimmed, AllTexts

(* A line is its part of the text without the LF of the break before.      *)
LEMMA LinesAre ==
    ASSUME NEW text \in AllTexts
    PROVE  /\ LineEnds(text) \in SUBSET DOMAIN text
           /\ Raw(text) \in Seq(AllTexts) /\ Len(Raw(text)) \in Nat \ {0}
           /\ LinesOf(text) \in Seq(AllTexts) /\ Len(LinesOf(text)) = Len(Raw(text))
           /\ \A k \in 1 .. Len(Raw(text)) : LinesOf(text)[k] = Trimmed(Raw(text)[k])
<1>1. LineEnds(text) \in SUBSET DOMAIN text
  BY DEF LineEnds
<1>2. /\ Raw(text) \in Seq(AllTexts) /\ Len(Raw(text)) = Cardinality(LineEnds(text)) + 1
      /\ Cardinality(LineEnds(text)) \in Nat
  BY <1>1, PartsAre DEF Raw, AllTexts
<1> DEFINE raw == Raw(text)
           n == Len(raw)
<1>3. n \in Nat \ {0} /\ DOMAIN raw = 1 .. n /\ \A k \in 1 .. n : raw[k] \in AllTexts
  BY <1>2
<1>4. LinesOf(text) = [k \in DOMAIN raw |-> Trimmed(raw[k])]
  BY DEF LinesOf, Raw
<1> HIDE DEF raw, n
<1>5. \A k \in 1 .. n : Trimmed(raw[k]) \in AllTexts
  BY <1>3, TrimmedIs
<1>6. LinesOf(text) = [k \in 1 .. n |-> Trimmed(raw[k])] /\ LinesOf(text) \in [1 .. n -> AllTexts]
  BY <1>3, <1>4, <1>5
<1>7. LinesOf(text) \in Seq(AllTexts) /\ Len(LinesOf(text)) = n
  BY <1>3, <1>6
<1> QED BY <1>1, <1>2, <1>3, <1>6, <1>7 DEF raw, n

(* Where lines end in a text that is one symbol longer.                    *)
LEMMA EndsOfMore ==
    ASSUME NEW text \in AllTexts, NEW symbol \in Symbols
    PROVE  LineEnds(Append(text, symbol))
             = IF Ends(text, symbol) THEN LineEnds(text) \cup {Len(text) + 1} ELSE LineEnds(text)
<1> DEFINE n == Len(text)
           more == Append(text, symbol)
<1>1. /\ n \in Nat /\ DOMAIN text = 1 .. n /\ DOMAIN more = 1 .. n + 1
      /\ \A i \in 1 .. n : more[i] = text[i]
      /\ more[n + 1] = symbol
      /\ text # <<>> <=> n # 0
  BY DEF AllTexts
<1> HIDE DEF more, n
<1>2. ASSUME NEW i \in 1 .. n PROVE i \in LineEnds(more) <=> i \in LineEnds(text)
  <2>1. i \in 1 .. n + 1 /\ more[i] = text[i]
    BY <1>1
  <2>2. i # 1 => more[i - 1] = text[i - 1]
    <3>1. i # 1 => i - 1 \in 1 .. n
      BY <1>1
    <3> QED BY <1>1, <3>1
  <2> QED BY <1>1, <2>1, <2>2 DEF LineEnds
<1>3. n + 1 \in LineEnds(more) <=> Ends(text, symbol)
  <2>1. n + 1 \in DOMAIN more /\ (n + 1) - 1 = n /\ (n + 1 = 1 <=> n = 0)
    BY <1>1
  <2>2. n # 0 => more[n] = text[n]
    <3>1. n # 0 => n \in 1 .. n
      BY <1>1
    <3> QED BY <1>1, <3>1
  <2>3. n + 1 \in LineEnds(more)
          <=> symbol = "cr" \/ (symbol = "lf" /\ (n = 0 \/ more[n] # "cr"))
    BY <1>1, <2>1 DEF LineEnds
  <2> QED BY <1>1, <2>2, <2>3 DEF Ends, AfterCr, n
<1>4. /\ \A i \in LineEnds(more) : i \in 1 .. n \/ i = n + 1
      /\ \A i \in LineEnds(text) : i \in 1 .. n
      /\ n + 1 \notin 1 .. n
  BY <1>1 DEF LineEnds
<1>5. LineEnds(more) = IF Ends(text, symbol) THEN LineEnds(text) \cup {n + 1} ELSE LineEnds(text)
  <2>1. CASE Ends(text, symbol)
    BY <1>2, <1>3, <1>4, <2>1
  <2>2. CASE ~ Ends(text, symbol)
    BY <1>2, <1>3, <1>4, <2>2
  <2> QED BY <2>1, <2>2
<1> QED BY <1>5 DEF more, n

(* A symbol that ends a line begins the next one.                          *)
LEMMA RawSplits ==
    ASSUME NEW text \in AllTexts, NEW symbol \in Symbols, Ends(text, symbol)
    PROVE  Raw(Append(text, symbol)) = Append(Raw(text), <<>>)
<1>1. LineEnds(text) \in SUBSET DOMAIN text
  BY LinesAre
<1>2. LineEnds(Append(text, symbol)) = LineEnds(text) \cup {Len(text) + 1}
  BY EndsOfMore
<1> QED BY <1>1, <1>2, PartsSplit DEF Raw, AllTexts

(* Any other symbol makes the last part longer.                            *)
LEMMA RawGrows ==
    ASSUME NEW text \in AllTexts, NEW symbol \in Symbols, ~ Ends(text, symbol)
    PROVE  LET old == Raw(text)
               new == Raw(Append(text, symbol))
               n   == Len(old)
           IN  /\ Len(new) = n
               /\ \A k \in 1 .. n - 1 : new[k] = old[k]
               /\ new[n] = Append(old[n], symbol)
<1>1. LineEnds(text) \in SUBSET DOMAIN text
  BY LinesAre
<1>2. LineEnds(Append(text, symbol)) = LineEnds(text)
  BY EndsOfMore
<1> QED BY <1>1, <1>2, PartsGrow DEF Raw, AllTexts

(* Nothing has been read of the line after a CR.                           *)
LEMMA RawAfterCr ==
    ASSUME NEW text \in AllTexts, AfterCr(text)
    PROVE  Raw(text)[Len(Raw(text))] = <<>>
<1> DEFINE n == Len(text)
           less == SubSeq(text, 1, n - 1)
<1>1. n \in Nat \ {0} /\ text[n] = "cr"
  BY DEF AfterCr, AllTexts
<1>2. less \in AllTexts /\ text = Append(less, "cr") /\ "cr" \in Symbols
  BY <1>1 DEF AllTexts, Symbols
<1> HIDE DEF less
<1>3. Raw(text) = Append(Raw(less), <<>>)
  BY <1>2, RawSplits DEF Ends
<1>4. Raw(less) \in Seq(AllTexts)
  BY <1>2, LinesAre
<1>5. <<>> \in AllTexts
  BY DEF AllTexts
<1> HIDE DEF AllTexts
<1> QED BY <1>3, <1>4, <1>5

(* One more symbol ends a line, is the second half of a break, or belongs  *)
(* to the last line.                                                       *)
LEMMA LinesSplit ==
    ASSUME NEW text \in AllTexts, NEW symbol \in Symbols, Ends(text, symbol)
    PROVE  LinesOf(Append(text, symbol)) = Append(LinesOf(text), <<>>)
<1> DEFINE old == Raw(text)
           more == Append(text, symbol)
           new == Raw(more)
           n == Len(old)
<1>1. more \in AllTexts /\ <<>> \in AllTexts
  BY DEF AllTexts
<1>2. /\ old \in Seq(AllTexts) /\ n \in Nat /\ LinesOf(text) \in Seq(AllTexts) /\ Len(LinesOf(text)) = n
      /\ \A k \in 1 .. n : LinesOf(text)[k] = Trimmed(old[k])
  BY LinesAre
<1>3. new = Append(old, <<>>)
  BY RawSplits
<1> HIDE DEF more, new
<1>4. /\ LinesOf(more) \in Seq(AllTexts) /\ Len(LinesOf(more)) = Len(new)
      /\ \A k \in 1 .. Len(new) : LinesOf(more)[k] = Trimmed(new[k])
  BY <1>1, LinesAre DEF new
<1> HIDE DEF old, n, AllTexts
<1>5. /\ Len(new) = n + 1 /\ new[n + 1] = <<>> /\ \A k \in 1 .. n : new[k] = old[k]
  BY <1>1, <1>2, <1>3 DEF n
<1>6. \A k \in 1 .. n : k \in 1 .. n + 1
  BY <1>2
<1>7. \A k \in 1 .. n : LinesOf(more)[k] = LinesOf(text)[k]
  BY <1>2, <1>4, <1>5, <1>6
<1>8. LinesOf(more)[n + 1] = <<>>
  <2>1. n + 1 \in 1 .. n + 1
    BY <1>2
  <2>2. LinesOf(more)[n + 1] = Trimmed(<<>>)
    BY <1>4, <1>5, <2>1
  <2> QED BY <2>2 DEF Trimmed
<1>9. LinesOf(more) = Append(LinesOf(text), <<>>)
  <2> DEFINE a == LinesOf(text)
             b == LinesOf(more)
  <2>1. a \in Seq(AllTexts) /\ b \in Seq(AllTexts) /\ Len(a) = n /\ Len(b) = n + 1
        /\ (\A k \in 1 .. n : b[k] = a[k]) /\ b[n + 1] = <<>>
    BY <1>2, <1>4, <1>5, <1>7, <1>8
  <2> HIDE DEF a, b
  <2>2. b = Append(a, <<>>)
    BY <1>1, <1>2, <2>1, AppendIs
  <2> QED BY <2>2 DEF a, b
<1> QED BY <1>9 DEF more

(* The lines of one text are those of another but for the last, to which   *)
(* a symbol is added.                                                      *)
LastGrows(old, new, symbol) ==
    /\ Len(new) = Len(old)
    /\ \A k \in 1 .. Len(old) - 1 : new[k] = old[k]
    /\ new[Len(old)] = Append(old[Len(old)], symbol)

(* A symbol that is no break is added to the last line and changes no      *)
(* other.                                                                  *)
LEMMA LinesGrow ==
    ASSUME NEW text \in AllTexts, NEW symbol \in Symbols, ~ IsBreak(symbol)
    PROVE  LastGrows(LinesOf(text), LinesOf(Append(text, symbol)), symbol)
<1> DEFINE old == Raw(text)
           more == Append(text, symbol)
           new == Raw(more)
           n == Len(old)
<1>1. more \in AllTexts /\ ~ Ends(text, symbol) /\ symbol # "lf"
  BY DEF AllTexts, IsBreak, Ends
<1>2. /\ old \in Seq(AllTexts) /\ n \in Nat \ {0} /\ Len(LinesOf(text)) = n
      /\ \A k \in 1 .. n : LinesOf(text)[k] = Trimmed(old[k])
  BY LinesAre
<1>3. /\ Len(new) = n
      /\ \A k \in 1 .. n - 1 : new[k] = old[k]
      /\ new[n] = Append(old[n], symbol)
  BY <1>1, RawGrows
<1> HIDE DEF more, new
<1>4. /\ Len(LinesOf(more)) = n
      /\ \A k \in 1 .. n : LinesOf(more)[k] = Trimmed(new[k])
  BY <1>1, <1>3, LinesAre DEF new
<1>0. old[n] \in AllTexts
  BY <1>2
<1> HIDE DEF old, n
<1>5. \A k \in 1 .. n - 1 : LinesOf(more)[k] = LinesOf(text)[k]
  <2>1. \A k \in 1 .. n - 1 : k \in 1 .. n
    BY <1>2
  <2> QED BY <1>2, <1>3, <1>4, <2>1
<1>6. LinesOf(more)[n] = Append(LinesOf(text)[n], symbol)
  <2> DEFINE last == old[n]
  <2>1. n \in 1 .. n
    BY <1>2
  <2>2. LinesOf(text)[n] = Trimmed(last) /\ LinesOf(more)[n] = Trimmed(Append(last, symbol))
    BY <1>2, <1>3, <1>4, <2>1
  <2>3. last \in AllTexts
    BY <1>0
  <2> HIDE DEF last
  <2>4. Trimmed(Append(last, symbol)) = Append(Trimmed(last), symbol)
    <3>1. CASE last = <<>>
      <4>1. Append(last, symbol) # <<>> /\ Head(Append(last, symbol)) = symbol
        BY <3>1
      <4> QED BY <1>1, <3>1, <4>1 DEF Trimmed
    <3>2. CASE last # <<>>
      <4>1. /\ Append(last, symbol) # <<>> /\ Head(Append(last, symbol)) = Head(last)
            /\ Tail(Append(last, symbol)) = Append(Tail(last), symbol)
        BY <2>3, <3>2 DEF AllTexts
      <4> QED BY <3>2, <4>1 DEF Trimmed
    <3> QED BY <3>1, <3>2
  <2> QED BY <2>2, <2>4
<1> QED BY <1>2, <1>4, <1>5, <1>6 DEF LastGrows, more

(* An LF after a CR changes no line: the CR has ended its line.            *)
LEMMA LinesStay ==
    ASSUME NEW text \in AllTexts, AfterCr(text)
    PROVE  LinesOf(Append(text, "lf")) = LinesOf(text) /\ LinesOf(text)[Len(LinesOf(text))] = <<>>
<1> DEFINE old == Raw(text)
           more == Append(text, "lf")
           new == Raw(more)
           n == Len(old)
<1>1. more \in AllTexts /\ ~ Ends(text, "lf") /\ "lf" \in Symbols
  BY DEF AllTexts, Ends, Symbols
<1>2. /\ old \in Seq(AllTexts) /\ n \in Nat \ {0} /\ LinesOf(text) \in Seq(AllTexts)
      /\ Len(LinesOf(text)) = n
      /\ \A k \in 1 .. n : LinesOf(text)[k] = Trimmed(old[k])
  BY LinesAre
<1>3. /\ Len(new) = n
      /\ \A k \in 1 .. n - 1 : new[k] = old[k]
      /\ new[n] = Append(old[n], "lf")
  BY <1>1, RawGrows
<1>4. old[n] = <<>>
  BY RawAfterCr
<1> HIDE DEF more, new
<1>5. /\ LinesOf(more) \in Seq(AllTexts) /\ Len(LinesOf(more)) = n
      /\ \A k \in 1 .. n : LinesOf(more)[k] = Trimmed(new[k])
  BY <1>1, <1>3, LinesAre DEF new
<1> HIDE DEF old, n
<1>6. Trimmed(new[n]) = <<>> /\ Trimmed(old[n]) = <<>>
  BY <1>3, <1>4 DEF Trimmed
<1>7. \A k \in 1 .. n : k = n \/ k \in 1 .. n - 1
  BY <1>2
<1>8. \A k \in 1 .. n : LinesOf(more)[k] = LinesOf(text)[k]
  BY <1>2, <1>3, <1>5, <1>6, <1>7
<1>9. LinesOf(more) = LinesOf(text)
  <2> DEFINE a == LinesOf(text)
             b == LinesOf(more)
  <2>1. a \in Seq(AllTexts) /\ b \in Seq(AllTexts) /\ Len(a) = n /\ Len(b) = n
        /\ (\A k \in 1 .. n : b[k] = a[k])
    BY <1>2, <1>5, <1>8
  <2> HIDE DEF a, b, AllTexts
  <2>2. b = a
    BY <1>2, <2>1
  <2> QED BY <2>2 DEF a, b
<1>10. n \in 1 .. n
  BY <1>2
<1> QED BY <1>2, <1>6, <1>9, <1>10 DEF more

(* The empty text is one empty line.                                       *)
LEMMA LinesOfNothing == LinesOf(<<>>) = << <<>> >>
<1>1. LineEnds(<<>>) = {}
  BY DEF LineEnds
<1>2. Parts(<<>>, LineEnds(<<>>)) = << <<>> >>
  BY <1>1, PartsOfNothing
<1>3. LinesOf(<<>>) = [k \in DOMAIN << <<>> >> |-> Trimmed(<< <<>> >>[k])]
  BY <1>2 DEF LinesOf
<1>4. Trimmed(<<>>) = <<>>
  BY DEF Trimmed
<1> QED BY <1>3, <1>4

-----------------------------------------------------------------------------
(* What more of a text or of its lines may change                          *)

(* A list begins with another.                                             *)
Starts(short, long) ==
    Len(short) <= Len(long) /\ \A i \in 1 .. Len(short) : long[i] = short[i]

(* A list of lists goes on: its last list may become longer, and others    *)
(* may follow it.                                                          *)
Grows(old, new) ==
    /\ Len(old) <= Len(new)
    /\ \A k \in 1 .. Len(old) - 1 : new[k] = old[k]
    /\ Starts(old[Len(old)], new[Len(old)])

NonEmpty(V) == {list \in Seq(Seq(V)) : list # <<>>}

(* A list of lists that is not empty has a last list.                      *)
LEMMA NonEmptyIs ==
    ASSUME NEW V, NEW list \in NonEmpty(V)
    PROVE  /\ list \in Seq(Seq(V)) /\ Len(list) \in Nat /\ 1 <= Len(list)
           /\ \A k \in 1 .. Len(list) : list[k] \in Seq(V)
           /\ list[Len(list)] \in Seq(V)
BY DEF NonEmpty

(* To be the beginning of a list is reflexive and transitive.              *)
LEMMA StartsIsOrder ==
    ASSUME NEW V, NEW a \in Seq(V), NEW b \in Seq(V), NEW c \in Seq(V)
    PROVE  Starts(a, a) /\ (Starts(a, b) /\ Starts(b, c) => Starts(a, c))
<1>1. Len(a) \in Nat /\ Len(b) \in Nat /\ Len(c) \in Nat
  OBVIOUS
<1>2. Starts(a, a)
  BY <1>1 DEF Starts
<1>3. ASSUME Starts(a, b), Starts(b, c) PROVE Starts(a, c)
  <2>1. \A i \in 1 .. Len(a) : i \in 1 .. Len(b)
    BY <1>1, <1>3 DEF Starts
  <2> QED BY <1>1, <1>3, <2>1 DEF Starts
<1> QED BY <1>2, <1>3

(* So is to grow at the last list only.                                    *)
LEMMA GrowsIsOrder ==
    ASSUME NEW V, NEW a \in NonEmpty(V), NEW b \in NonEmpty(V), NEW c \in NonEmpty(V)
    PROVE  Grows(a, a) /\ (Grows(a, b) /\ Grows(b, c) => Grows(a, c))
<1> DEFINE l == Len(a)
           m == Len(b)
           n == Len(c)
<1>1. /\ l \in Nat /\ m \in Nat /\ n \in Nat /\ 1 <= l /\ 1 <= m /\ 1 <= n
      /\ a[l] \in Seq(V) /\ b[m] \in Seq(V)
      /\ \A k \in 1 .. m : b[k] \in Seq(V)
      /\ \A k \in 1 .. n : c[k] \in Seq(V)
  BY NonEmptyIs
<1> HIDE DEF l, m, n
<1>2. Grows(a, a)
  BY <1>1, StartsIsOrder DEF Grows, l
<1>3. ASSUME Grows(a, b), Grows(b, c) PROVE Grows(a, c)
  <2>1. /\ l <= m /\ (\A k \in 1 .. l - 1 : b[k] = a[k]) /\ Starts(a[l], b[l])
        /\ m <= n /\ (\A k \in 1 .. m - 1 : c[k] = b[k]) /\ Starts(b[m], c[m])
    BY <1>3 DEF Grows, l, m, n
  <2>2. \A k \in 1 .. l - 1 : c[k] = a[k]
    <3>1. \A k \in 1 .. l - 1 : k \in 1 .. m - 1
      BY <1>1, <2>1
    <3> QED BY <2>1, <3>1
  <2>3. Starts(a[l], c[l])
    <3>1. CASE l = m
      <4>1. m \in 1 .. n
        BY <1>1, <2>1
      <4>2. b[m] \in Seq(V) /\ c[m] \in Seq(V)
        BY <1>1, <4>1
      <4> QED BY <1>1, <2>1, <3>1, <4>2, StartsIsOrder
    <3>2. CASE l # m
      <4>1. l \in 1 .. m - 1
        BY <1>1, <2>1, <3>2
      <4> QED BY <2>1, <4>1
    <3> QED BY <3>1, <3>2
  <2>4. l <= n
    BY <1>1, <2>1
  <2> QED BY <2>2, <2>3, <2>4 DEF Grows, l, n
<1> QED BY <1>2, <1>3

(* A list that gets one more element in its last list grows.               *)
LEMMA LastGrowsGrows ==
    ASSUME NEW V, NEW old \in NonEmpty(V), NEW new, NEW x \in V, LastGrows(old, new, x)
    PROVE  Grows(old, new) /\ (new \in Seq(Seq(V)) => new \in NonEmpty(V))
<1> DEFINE n == Len(old)
           s == old[n]
<1>1. n \in Nat /\ 1 <= n /\ s \in Seq(V)
  BY NonEmptyIs
<1>2. Len(new) = n /\ (\A k \in 1 .. n - 1 : new[k] = old[k]) /\ new[n] = Append(s, x)
  BY DEF LastGrows
<1>3. Starts(s, Append(s, x))
  <2> HIDE DEF s
  <2> QED BY <1>1 DEF Starts
<1> HIDE DEF n
<1>4. Grows(old, new)
  <2> HIDE DEF s
  <2> QED BY <1>1, <1>2, <1>3 DEF Grows, n, s
<1>5. new \in Seq(Seq(V)) => new \in NonEmpty(V)
  BY <1>1, <1>2 DEF NonEmpty
<1> QED BY <1>4, <1>5

(* A list that gets one more list, an empty one, grows.                    *)
LEMMA AppendGrows ==
    ASSUME NEW V, NEW old \in NonEmpty(V)
    PROVE  Grows(old, Append(old, <<>>)) /\ Append(old, <<>>) \in NonEmpty(V)
<1> DEFINE n == Len(old)
           S == Seq(V)
           new == Append(old, <<>>)
<1>1. n \in Nat /\ 1 <= n /\ old \in Seq(S) /\ <<>> \in S /\ old[n] \in S
  BY NonEmptyIs
<1> HIDE DEF S
<1>2. /\ new \in Seq(S) /\ new # <<>> /\ Len(new) = n + 1
      /\ \A k \in 1 .. n : new[k] = old[k]
  BY <1>1
<1> HIDE DEF n, new
<1>3. Starts(old[n], old[n])
  BY <1>1, StartsIsOrder DEF S
<1>4. n <= n + 1 /\ n \in 1 .. n /\ \A k \in 1 .. n - 1 : k \in 1 .. n
  BY <1>1
<1>5. Grows(old, new)
  BY <1>2, <1>3, <1>4 DEF Grows, n
<1> QED BY <1>2, <1>5 DEF NonEmpty, S, new

(* A text has a line.                                                      *)
LEMMA LinesAreNonEmpty ==
    ASSUME NEW text \in AllTexts
    PROVE  LinesOf(text) \in NonEmpty(Symbols)
<1>1. LinesOf(text) \in Seq(AllTexts) /\ Len(LinesOf(text)) \in Nat \ {0}
  BY LinesAre
<1>2. LinesOf(text) # <<>>
  BY <1>1
<1> QED BY <1>1, <1>2 DEF NonEmpty, AllTexts

(* The first of a list.                                                    *)
Taken(list, n) == SubSeq(list, 1, n)

(* The first n elements of a list.                                         *)
LEMMA TakenIs ==
    ASSUME NEW V, NEW list \in Seq(V), NEW n \in 0 .. Len(list)
    PROVE  /\ Taken(list, n) \in Seq(V) /\ Len(Taken(list, n)) = n
           /\ \A i \in 1 .. n : Taken(list, n)[i] = list[i]
           /\ n < Len(list) => /\ Taken(list, n + 1) = Append(Taken(list, n), list[n + 1])
                               /\ list[n + 1] \in V
           /\ Taken(list, Len(list)) = list
BY DEF Taken

(* One more symbol changes only the last line, or begins another.          *)
LEMMA LinesOneMore ==
    ASSUME NEW text \in AllTexts, NEW symbol \in Symbols
    PROVE  Grows(LinesOf(text), LinesOf(Append(text, symbol)))
<1>0. LinesOf(text) \in NonEmpty(Symbols)
  BY LinesAreNonEmpty
<1>1. CASE Ends(text, symbol)
  BY <1>0, <1>1, LinesSplit, AppendGrows
<1>2. CASE ~ IsBreak(symbol)
  BY <1>0, <1>2, LinesGrow, LastGrowsGrows
<1>3. CASE IsBreak(symbol) /\ ~ Ends(text, symbol)
  <2>1. symbol = "lf" /\ AfterCr(text)
    BY <1>3 DEF IsBreak, Ends
  <2> QED BY <1>0, <2>1, LinesStay, GrowsIsOrder
<1> QED BY <1>1, <1>2, <1>3

(* The lines of a text are still there in one that goes on.                *)
LEMMA LinesOfTaken ==
    ASSUME NEW text \in AllTexts, NEW n \in 0 .. Len(text)
    PROVE  Grows(LinesOf(Taken(text, n)), LinesOf(text))
<1> DEFINE first == LinesOf(Taken(text, n))
           S == {d \in Nat : n + d <= Len(text) => Grows(first, LinesOf(Taken(text, n + d)))}
<1>1. /\ n \in Nat /\ Len(text) \in Nat /\ text \in Seq(Symbols)
      /\ \A k \in 0 .. Len(text) : /\ Taken(text, k) \in AllTexts
                                   /\ LinesOf(Taken(text, k)) \in NonEmpty(Symbols)
  BY TakenIs, LinesAreNonEmpty DEF AllTexts
<1>2. first \in NonEmpty(Symbols)
  BY <1>1
<1> HIDE DEF first
<1>3. 0 \in S
  <2>1. n + 0 = n
    BY <1>1
  <2>2. Grows(first, first)
    BY <1>2, GrowsIsOrder
  <2> QED BY <2>1, <2>2 DEF first
<1>4. ASSUME NEW d \in Nat, d \in S PROVE d + 1 \in S
  <2> SUFFICES ASSUME n + (d + 1) <= Len(text)
               PROVE  Grows(first, LinesOf(Taken(text, n + (d + 1))))
    OBVIOUS
  <2> DEFINE k == n + d
             now == Taken(text, k)
             next == Taken(text, k + 1)
  <2>1. k \in 0 .. Len(text) /\ k < Len(text) /\ k + 1 \in 0 .. Len(text) /\ n + (d + 1) = k + 1
    BY <1>1
  <2> HIDE DEF k
  <2>2. next = Append(now, text[k + 1]) /\ text[k + 1] \in Symbols
    BY <1>1, <2>1, TakenIs
  <2>3. /\ now \in AllTexts /\ LinesOf(now) \in NonEmpty(Symbols)
        /\ LinesOf(next) \in NonEmpty(Symbols)
    BY <1>1, <2>1
  <2>4. Grows(first, LinesOf(now))
    BY <1>4, <2>1 DEF k
  <2> HIDE DEF now, next
  <2>5. Grows(LinesOf(now), LinesOf(next))
    BY <2>2, <2>3, LinesOneMore
  <2>6. Grows(first, LinesOf(next))
    BY <1>2, <2>3, <2>4, <2>5, GrowsIsOrder
  <2> QED BY <2>1, <2>6 DEF next
<1>5. Nat \subseteq S
  <2> HIDE DEF S
  <2> QED BY <1>3, <1>4, InductiveSet
<1>6. Len(text) - n \in Nat /\ n + (Len(text) - n) = Len(text)
  BY <1>1
<1>7. Grows(first, LinesOf(Taken(text, Len(text))))
  <2> DEFINE m == Len(text) - n
  <2>1. m \in Nat /\ n + m = Len(text) /\ n + m <= Len(text)
    BY <1>1, <1>6
  <2> HIDE DEF m
  <2>2. m \in S
    <3> HIDE DEF S
    <3> QED BY <1>5, <2>1
  <2>3. Grows(first, LinesOf(Taken(text, n + m)))
    BY <2>1, <2>2
  <2> QED BY <2>1, <2>3
<1>8. Taken(text, Len(text)) = text
  BY <1>1, TakenIs
<1> QED BY <1>7, <1>8 DEF first

-----------------------------------------------------------------------------
(* The data of lines                                                       *)

DataPlaces(group) == {i \in DOMAIN group : IsData(group[i])}

(* The places of a group that hold its data lines.                         *)
LEMMA KeptIs ==
    ASSUME NEW group \in Seq(AllTexts)
    PROVE  /\ IsFiniteSet(DataPlaces(group))
           /\ \A i \in DataPlaces(group) : i \in Int /\ i \in 1 .. Len(group)
           /\ \A i \in DataPlaces(group) : group[i] \in AllTexts /\ IsData(group[i])
<1>1. IsFiniteSet(1 .. Len(group))
  <2>1. 1 \in Int /\ Len(group) \in Int
    OBVIOUS
  <2> QED BY <2>1, FS_Interval
<1>2. DataPlaces(group) \in SUBSET (1 .. Len(group))
  BY DEF DataPlaces
<1>3. IsFiniteSet(DataPlaces(group))
  BY <1>1, <1>2, FS_Subset
<1>4. \A i \in DataPlaces(group) : i \in Int /\ i \in 1 .. Len(group) /\ IsData(group[i])
  BY DEF DataPlaces
<1>5. \A i \in 1 .. Len(group) : group[i] \in AllTexts
  OBVIOUS
<1> QED BY <1>3, <1>4, <1>5

(* What a data line carries is a text.                                     *)
LEMMA TailIs ==
    ASSUME NEW line \in AllTexts, IsData(line)
    PROVE  Tail(line) \in AllTexts
BY DEF AllTexts, IsData

(* The data of a group: the rest of each of its data lines.                *)
LEMMA DataOfIs ==
    ASSUME NEW group \in Seq(AllTexts)
    PROVE  /\ DataOf(group) \in Seq(AllTexts)
           /\ Only(group, DataPlaces(group)) \in Seq(AllTexts)
           /\ Len(DataOf(group)) = Len(Only(group, DataPlaces(group)))
           /\ \A k \in 1 .. Len(DataOf(group)) : DataOf(group)[k] = Tail(Only(group, DataPlaces(group))[k])
<1> DEFINE places == DataPlaces(group)
           kept == Only(group, places)
           V == {line \in AllTexts : IsData(line)}
           n == Cardinality(places)
<1>1. /\ IsFiniteSet(places) /\ \A i \in places : i \in Int
      /\ \A i \in places : group[i] \in V
  BY KeptIs
<1> HIDE DEF V
<1>2. kept \in Seq(V) /\ Len(kept) = n
  <2> HIDE DEF places
  <2> QED BY <1>1, OnlyIs
<1> HIDE DEF places, kept
<1>3. Len(kept) \in Nat /\ DOMAIN kept = 1 .. Len(kept) /\ \A k \in 1 .. Len(kept) : kept[k] \in V
  BY <1>2
<1>4. DataOf(group) = [k \in DOMAIN kept |-> Tail(kept[k])]
  BY DEF DataOf, kept, places, DataPlaces
<1>5. \A k \in 1 .. Len(kept) : Tail(kept[k]) \in AllTexts
  BY <1>3, TailIs DEF V
<1>6. DataOf(group) \in [1 .. Len(kept) -> AllTexts]
  BY <1>3, <1>4, <1>5
<1>7. DataOf(group) \in Seq(AllTexts) /\ Len(DataOf(group)) = Len(kept)
  BY <1>3, <1>6
<1>8. kept \in Seq(AllTexts)
  <2>1. \A k \in 1 .. Len(kept) : kept[k] \in AllTexts
    BY <1>3 DEF V
  <2> QED BY <1>2, <1>3, <2>1
<1> QED BY <1>3, <1>4, <1>7, <1>8 DEF kept, places

(* One more line adds to the data of its group if it is a data line.       *)
LEMMA DataOfMore ==
    ASSUME NEW group \in Seq(AllTexts), NEW line \in AllTexts
    PROVE  DataOf(Append(group, line))
             = IF IsData(line) THEN Append(DataOf(group), Tail(line)) ELSE DataOf(group)
<1> DEFINE n == Len(group)
           more == Append(group, line)
           old == Only(group, DataPlaces(group))
           new == Only(more, DataPlaces(more))
<1>1. /\ n \in Nat /\ more \in Seq(AllTexts) /\ DOMAIN group = 1 .. n /\ DOMAIN more = 1 .. n + 1
      /\ \A i \in 1 .. n : more[i] = group[i]
      /\ more[n + 1] = line
  OBVIOUS
<1> HIDE DEF more
<1>2. DataPlaces(more) = IF IsData(line) THEN DataPlaces(group) \cup {n + 1} ELSE DataPlaces(group)
  <2>1. \A i \in 1 .. n : i \in 1 .. n + 1
    BY <1>1
  <2>2. \A i \in 1 .. n + 1 : i \in 1 .. n \/ i = n + 1
    BY <1>1
  <2>3. n + 1 \in 1 .. n + 1 /\ n + 1 \notin 1 .. n
    BY <1>1
  <2> HIDE DEF n
  <2>4. CASE IsData(line)
    BY <1>1, <2>1, <2>2, <2>3, <2>4 DEF DataPlaces
  <2>5. CASE ~ IsData(line)
    BY <1>1, <2>1, <2>2, <2>3, <2>5 DEF DataPlaces
  <2> QED BY <2>4, <2>5
<1>3. /\ IsFiniteSet(DataPlaces(group))
      /\ \A i \in DataPlaces(group) : i \in Int /\ i < n + 1 /\ i \in 1 .. n
      /\ \A i \in DataPlaces(group) : group[i] \in AllTexts
  BY <1>1, KeptIs
<1>4. \A i \in DataPlaces(group) : more[i] = group[i]
  BY <1>1, <1>3
<1>5. Only(more, DataPlaces(group)) = old
  <2> HIDE DEF n
  <2> QED BY <1>3, <1>4, OnlySame
<1>6. new = IF IsData(line) THEN Append(old, line) ELSE old
  <2>1. CASE IsData(line)
    <3>1. n + 1 \in Int /\ more[n + 1] \in AllTexts /\ \A i \in DataPlaces(group) : more[i] \in AllTexts
      BY <1>1, <1>3, <1>4
    <3>2. Only(more, DataPlaces(group) \cup {n + 1}) = Append(Only(more, DataPlaces(group)), more[n + 1])
      <4> DEFINE last == n + 1
      <4>1. last \in Int /\ \A i \in DataPlaces(group) : i \in Int /\ i < last
        BY <1>3, <3>1
      <4> HIDE DEF last, n
      <4> QED BY <1>3, <3>1, <4>1, OnlyMore DEF last
    <3> QED BY <1>1, <1>2, <1>5, <2>1, <3>2
  <2>2. CASE ~ IsData(line)
    BY <1>2, <1>5, <2>2
  <2> QED BY <2>1, <2>2
<1>7. /\ DataOf(group) \in Seq(AllTexts) /\ old \in Seq(AllTexts) /\ Len(DataOf(group)) = Len(old)
      /\ \A k \in 1 .. Len(DataOf(group)) : DataOf(group)[k] = Tail(old[k])
  BY DataOfIs
<1>8. /\ DataOf(more) \in Seq(AllTexts) /\ new \in Seq(AllTexts) /\ Len(DataOf(more)) = Len(new)
      /\ \A k \in 1 .. Len(DataOf(more)) : DataOf(more)[k] = Tail(new[k])
  BY <1>1, DataOfIs
<1> DEFINE a == DataOf(group)
           b == DataOf(more)
<1> HIDE DEF old, new, n, a, b, AllTexts
<1>9. CASE IsData(line)
  <2>1. new = Append(old, line) /\ Tail(line) \in AllTexts /\ Len(old) \in Nat
    BY <1>6, <1>7, <1>9, TailIs
  <2>2. Len(new) = Len(old) + 1 /\ new[Len(old) + 1] = line /\ \A k \in 1 .. Len(old) : new[k] = old[k]
    BY <1>7, <2>1
  <2>3. \A k \in 1 .. Len(old) : k \in 1 .. Len(old) + 1
    BY <2>1
  <2>4. a \in Seq(AllTexts) /\ b \in Seq(AllTexts) /\ Len(a) = Len(old) /\ Len(b) = Len(old) + 1
    BY <1>7, <1>8, <2>2 DEF a, b
  <2>5. \A k \in 1 .. Len(old) : b[k] = a[k]
    BY <1>7, <1>8, <2>2, <2>3 DEF a, b
  <2>6. b[Len(old) + 1] = Tail(line)
    <3>1. Len(old) + 1 \in 1 .. Len(old) + 1
      BY <2>1
    <3> QED BY <1>8, <2>2, <3>1 DEF b
  <2>7. b = Append(a, Tail(line))
    BY <2>1, <2>4, <2>5, <2>6, AppendIs
  <2> QED BY <1>9, <2>7 DEF a, b, more
<1>10. CASE ~ IsData(line)
  <2>1. new = old
    BY <1>6, <1>10
  <2>2. a \in Seq(AllTexts) /\ b \in Seq(AllTexts) /\ Len(a) = Len(b)
    BY <1>7, <1>8, <2>1 DEF a, b
  <2>3. \A k \in 1 .. Len(a) : b[k] = a[k]
    BY <1>7, <1>8, <2>1, <2>2 DEF a, b
  <2>4. b = a
    BY <2>2, <2>3
  <2> QED BY <1>10, <2>4 DEF a, b, more
<1> QED BY <1>9, <1>10

Groups(lines) == Parts(lines, {i \in DOMAIN lines : lines[i] = <<>>})

(* An empty group carries no data.                                         *)
LEMMA DataOfNothing == DataOf(<<>>) = <<>>
<1>1. DataPlaces(<<>>) = {} /\ Cardinality({}) = 0
  BY FS_EmptySet DEF DataPlaces
<1>2. Only(<<>>, DataPlaces(<<>>)) = [k \in 1 .. 0 |-> <<>>[Nth({}, k)]]
  BY <1>1, Zenon DEF Only
<1>3. Only(<<>>, DataPlaces(<<>>)) = <<>>
  BY <1>2
<1> QED BY <1>3 DEF DataOf, DataPlaces

(* The data of some lines is the data of each of their groups.             *)
LEMMA DataInIs ==
    ASSUME NEW lines \in Seq(AllTexts)
    PROVE  /\ Groups(lines) \in Seq(Seq(AllTexts)) /\ Len(Groups(lines)) \in Nat \ {0}
           /\ DataIn(lines) \in NonEmpty(AllTexts)
           /\ Len(DataIn(lines)) = Len(Groups(lines))
           /\ \A k \in 1 .. Len(Groups(lines)) : DataIn(lines)[k] = DataOf(Groups(lines)[k])
<1> DEFINE groups == Groups(lines)
           cuts == {i \in DOMAIN lines : lines[i] = <<>>}
           n == Len(groups)
           V == Seq(AllTexts)
<1>1. groups \in Seq(V) /\ n = Cardinality(cuts) + 1 /\ Cardinality(cuts) \in Nat
  <2>1. cuts \in SUBSET DOMAIN lines
    OBVIOUS
  <2> HIDE DEF cuts
  <2>2. /\ Parts(lines, cuts) \in Seq(V) /\ Len(Parts(lines, cuts)) = Cardinality(cuts) + 1
        /\ Cardinality(cuts) \in Nat
    BY <2>1, PartsAre
  <2> QED BY <2>2 DEF Groups, cuts
<1> HIDE DEF V, cuts
<1>2. n \in Nat \ {0} /\ DOMAIN groups = 1 .. n /\ \A k \in 1 .. n : groups[k] \in V
  <2>1. groups \in Seq(V) /\ Cardinality(cuts) + 1 \in Nat \ {0}
    BY <1>1
  <2> HIDE DEF groups
  <2> QED BY <1>1, <2>1
<1> USE DEF V
<1>3. DataIn(lines) = [k \in DOMAIN groups |-> DataOf(groups[k])]
  BY DEF DataIn, Groups
<1> HIDE DEF groups, n
<1>4. \A k \in 1 .. n : DataOf(groups[k]) \in V
  BY <1>2, DataOfIs
<1> HIDE DEF V
<1>5. DataIn(lines) = [k \in 1 .. n |-> DataOf(groups[k])] /\ DataIn(lines) \in [1 .. n -> V]
  BY <1>2, <1>3, <1>4
<1>6. DataIn(lines) \in Seq(V) /\ Len(DataIn(lines)) = n
  BY <1>2, <1>5
<1>7. DataIn(lines) # <<>>
  BY <1>2, <1>6
<1> QED BY <1>1, <1>2, <1>5, <1>6, <1>7 DEF V, n, groups, NonEmpty

(* An empty line begins a group.                                           *)
LEMMA DataInSplits ==
    ASSUME NEW lines \in Seq(AllTexts)
    PROVE  DataIn(Append(lines, <<>>)) = Append(DataIn(lines), <<>>)
<1> DEFINE more == Append(lines, <<>>)
           old == Groups(lines)
           new == Groups(more)
           n == Len(old)
           V == Seq(AllTexts)
           a == DataIn(lines)
           b == DataIn(more)
<1>1. <<>> \in AllTexts /\ <<>> \in V
  BY DEF AllTexts
<1>2. more \in Seq(AllTexts)
  BY <1>1
<1>3. new = Append(old, <<>>)
  <2> DEFINE cuts == {i \in DOMAIN lines : lines[i] = <<>>}
             all == {i \in DOMAIN more : more[i] = <<>>}
  <2>1. all = cuts \cup {Len(lines) + 1}
    BY <1>1
  <2>2. cuts \in SUBSET DOMAIN lines
    OBVIOUS
  <2>3. Parts(more, cuts \cup {Len(lines) + 1}) = Append(Parts(lines, cuts), <<>>)
    <3> DEFINE empty == <<>>
    <3>1. lines \in Seq(AllTexts) /\ empty \in AllTexts /\ cuts \in SUBSET DOMAIN lines
      BY <1>1, <2>2
    <3> HIDE DEF cuts, empty
    <3>2. Parts(Append(lines, empty), cuts \cup {Len(lines) + 1}) = Append(Parts(lines, cuts), <<>>)
      BY <3>1, PartsSplit
    <3> QED BY <3>2 DEF empty
  <2> HIDE DEF cuts, all
  <2>4. new = Parts(more, all) /\ old = Parts(lines, cuts)
    BY DEF Groups, cuts, all
  <2> QED BY <2>1, <2>3, <2>4
<1>4. /\ old \in Seq(V) /\ n \in Nat \ {0} /\ a \in NonEmpty(AllTexts) /\ Len(a) = n
      /\ \A k \in 1 .. n : a[k] = DataOf(old[k])
  BY DataInIs
<1> HIDE DEF more
<1>5. /\ b \in NonEmpty(AllTexts) /\ Len(b) = Len(new)
      /\ \A k \in 1 .. Len(new) : b[k] = DataOf(new[k])
  BY <1>2, DataInIs
<1> HIDE DEF old, new, n, a, b, V
<1>6. /\ Len(new) = n + 1 /\ new[n + 1] = <<>> /\ \A k \in 1 .. n : new[k] = old[k]
  BY <1>1, <1>3, <1>4 DEF n
<1>7. (\A k \in 1 .. n : k \in 1 .. n + 1) /\ n + 1 \in 1 .. n + 1
  BY <1>4
<1>8. \A k \in 1 .. n : b[k] = a[k]
  BY <1>4, <1>5, <1>6, <1>7
<1>9. b[n + 1] = <<>>
  BY <1>5, <1>6, <1>7, DataOfNothing
<1>10. a \in Seq(V) /\ b \in Seq(V)
  BY <1>4, <1>5 DEF NonEmpty, V
<1>11. b = Append(a, <<>>)
  BY <1>1, <1>4, <1>5, <1>6, <1>8, <1>9, <1>10, AppendIs
<1> QED BY <1>11 DEF a, b, more

(* Any other line belongs to the last group.                               *)
LEMMA DataInGrows ==
    ASSUME NEW lines \in Seq(AllTexts), NEW line \in AllTexts, line # <<>>
    PROVE  IF IsData(line) THEN LastGrows(DataIn(lines), DataIn(Append(lines, line)), Tail(line))
                           ELSE DataIn(Append(lines, line)) = DataIn(lines)
<1> DEFINE more == Append(lines, line)
           old == Groups(lines)
           new == Groups(more)
           n == Len(old)
           V == Seq(AllTexts)
           a == DataIn(lines)
           b == DataIn(more)
<1>2. more \in Seq(AllTexts)
  OBVIOUS
<1>3. /\ Len(new) = n
      /\ \A k \in 1 .. n - 1 : new[k] = old[k]
      /\ new[n] = Append(old[n], line)
  <2> DEFINE cuts == {i \in DOMAIN lines : lines[i] = <<>>}
             all == {i \in DOMAIN more : more[i] = <<>>}
  <2>1. all = cuts
    OBVIOUS
  <2>2. cuts \in SUBSET DOMAIN lines
    OBVIOUS
  <2> HIDE DEF cuts, all
  <2>3. /\ Len(Parts(more, cuts)) = Len(Parts(lines, cuts))
        /\ \A k \in 1 .. Len(Parts(lines, cuts)) - 1 : Parts(more, cuts)[k] = Parts(lines, cuts)[k]
        /\ Parts(more, cuts)[Len(Parts(lines, cuts))]
             = Append(Parts(lines, cuts)[Len(Parts(lines, cuts))], line)
    BY <2>2, PartsGrow
  <2>4. new = Parts(more, cuts) /\ old = Parts(lines, cuts)
    BY <2>1 DEF Groups, cuts, all
  <2> QED BY <2>3, <2>4
<1>4. /\ old \in Seq(V) /\ n \in Nat \ {0} /\ a \in NonEmpty(AllTexts) /\ Len(a) = n
      /\ \A k \in 1 .. n : a[k] = DataOf(old[k])
  BY DataInIs
<1>5. old[n] \in V /\ n \in 1 .. n
  BY <1>4
<1> HIDE DEF more
<1>6. /\ b \in NonEmpty(AllTexts) /\ Len(b) = Len(new)
      /\ \A k \in 1 .. Len(new) : b[k] = DataOf(new[k])
  BY <1>2, DataInIs
<1> HIDE DEF old, new, n, a, b
<1>7. \A k \in 1 .. n - 1 : b[k] = a[k]
  <2>1. \A k \in 1 .. n - 1 : k \in 1 .. n
    BY <1>4
  <2> QED BY <1>3, <1>4, <1>6, <2>1
<1>8. b[n] = IF IsData(line) THEN Append(a[n], Tail(line)) ELSE a[n]
  <2>1. b[n] = DataOf(Append(old[n], line)) /\ a[n] = DataOf(old[n])
    BY <1>3, <1>4, <1>5, <1>6
  <2>2. DataOf(Append(old[n], line))
          = IF IsData(line) THEN Append(DataOf(old[n]), Tail(line)) ELSE DataOf(old[n])
    BY <1>5, DataOfMore
  <2> QED BY <2>1, <2>2
<1>9. CASE IsData(line)
  BY <1>3, <1>4, <1>6, <1>7, <1>8, <1>9 DEF LastGrows, a, b, more
<1>10. CASE ~ IsData(line)
  <2>1. \A k \in 1 .. n : k = n \/ k \in 1 .. n - 1
    BY <1>4
  <2>2. \A k \in 1 .. n : b[k] = a[k]
    BY <1>7, <1>8, <1>10, <2>1
  <2> HIDE DEF V
  <2>3. a \in Seq(V) /\ b \in Seq(V) /\ Len(a) = n /\ Len(b) = n
    BY <1>3, <1>4, <1>6 DEF NonEmpty, V
  <2>4. b = a
    BY <2>2, <2>3
  <2> QED BY <1>10, <2>4 DEF a, b, more
<1> QED BY <1>9, <1>10

(* No lines are one group without data.                                    *)
LEMMA DataInNothing == DataIn(<<>>) = << <<>> >>
<1>1. Groups(<<>>) = << <<>> >>
  <2>1. {i \in DOMAIN <<>> : <<>>[i] = <<>>} = {}
    OBVIOUS
  <2> QED BY <2>1, PartsOfNothing DEF Groups
<1>2. DataIn(<<>>) = [k \in DOMAIN << <<>> >> |-> DataOf(<< <<>> >>[k])]
  BY <1>1 DEF DataIn, Groups
<1> QED BY <1>2, DataOfNothing

-----------------------------------------------------------------------------
(* The events of lines                                                     *)

(* The places of the first n members of a list that are not empty, and     *)
(* those members.                                                          *)
Filled(list, n) == {k \in 1 .. n : list[k] # <<>>}
Given(list, n) == Only(list, Filled(list, n))

(* The places among the first n that hold something are finitely many.     *)
LEMMA FilledIs ==
    ASSUME NEW list, NEW n \in Nat
    PROVE  /\ IsFiniteSet(Filled(list, n))
           /\ \A k \in Filled(list, n) : k \in Int /\ k \in 1 .. n /\ k < n + 1
<1>1. IsFiniteSet(1 .. n)
  <2>1. 1 \in Int /\ n \in Int
    OBVIOUS
  <2> QED BY <2>1, FS_Interval
<1>2. Filled(list, n) \in SUBSET (1 .. n)
  BY DEF Filled
<1>3. IsFiniteSet(Filled(list, n))
  BY <1>1, <1>2, FS_Subset
<1>4. \A k \in Filled(list, n) : k \in 1 .. n
  BY <1>2
<1>5. \A k \in 1 .. n : k \in Int /\ k < n + 1
  OBVIOUS
<1> QED BY <1>3, <1>4, <1>5

(* What those places hold is a list of the same elements.                  *)
LEMMA GivenIs ==
    ASSUME NEW V, NEW list \in Seq(V), NEW n \in 0 .. Len(list)
    PROVE  Given(list, n) \in Seq(V) /\ Len(Given(list, n)) \in Nat
<1> DEFINE places == Filled(list, n)
<1>1. n \in Nat /\ \A k \in 1 .. n : list[k] \in V
  OBVIOUS
<1>2. /\ IsFiniteSet(places) /\ \A k \in places : k \in Int
      /\ \A k \in places : list[k] \in V
  BY <1>1, FilledIs
<1> HIDE DEF places
<1>3. Only(list, places) \in Seq(V)
  BY <1>2, OnlyIs
<1>4. Len(Only(list, places)) \in Nat
  BY <1>3
<1> QED BY <1>3, <1>4 DEF Given, places

(* It depends on the first n elements only.                                *)
LEMMA GivenSame ==
    ASSUME NEW list, NEW other, NEW n \in Nat, \A k \in 1 .. n : other[k] = list[k]
    PROVE  Given(other, n) = Given(list, n)
<1> DEFINE places == Filled(list, n)
<1>1. Filled(other, n) = places
  BY DEF Filled
<1>2. /\ IsFiniteSet(places) /\ \A k \in places : k \in Int
      /\ \A k \in places : other[k] = list[k]
  BY FilledIs
<1> HIDE DEF places
<1>3. Only(other, places) = Only(list, places)
  BY <1>2, OnlySame
<1> QED BY <1>1, <1>3 DEF Given, places

(* One more element is added to it, or is empty and is left out.           *)
LEMMA GivenMore ==
    ASSUME NEW V, NEW list \in Seq(V), NEW n \in 0 .. Len(list) - 1
    PROVE  /\ n + 1 \in 0 .. Len(list) /\ list[n + 1] \in V
           /\ Given(list, n + 1) = IF list[n + 1] = <<>> THEN Given(list, n)
                                   ELSE Append(Given(list, n), list[n + 1])
<1> DEFINE places == Filled(list, n)
           last == n + 1
<1>1. /\ n \in Nat /\ n + 1 \in 0 .. Len(list) /\ n + 1 \in 1 .. Len(list) /\ n + 1 \in Int
      /\ \A k \in 1 .. n : list[k] \in V
      /\ list[n + 1] \in V
  OBVIOUS
<1>2. /\ IsFiniteSet(places) /\ \A k \in places : k \in Int
      /\ \A k \in places : k < n + 1
      /\ \A k \in places : list[k] \in V
  BY <1>1, FilledIs
<1>3. Filled(list, n + 1) = IF list[n + 1] = <<>> THEN places ELSE places \cup {n + 1}
  <2>1. \A k : k \in 1 .. n + 1 <=> (k \in 1 .. n \/ k = n + 1)
    BY <1>1
  <2> HIDE DEF last
  <2>2. CASE list[n + 1] = <<>>
    BY <2>1, <2>2 DEF Filled
  <2>3. CASE list[n + 1] # <<>>
    BY <2>1, <2>3 DEF Filled
  <2> QED BY <2>2, <2>3
<1>4. Only(list, places \cup {n + 1}) = Append(Only(list, places), list[n + 1])
  <2>1. last \in Int /\ (\A k \in places : k < last) /\ list[last] \in V
    BY <1>1, <1>2
  <2> HIDE DEF places, last
  <2>2. Only(list, places \cup {last}) = Append(Only(list, places), list[last])
    BY <1>2, <2>1, OnlyMore
  <2> QED BY <2>2 DEF last
<1> HIDE DEF places, last
<1>5. Given(list, n) = Only(list, places) /\ Given(list, n + 1) = Only(list, Filled(list, n + 1))
  BY DEF Given, places
<1> QED BY <1>1, <1>3, <1>4, <1>5

(* So what is given of fewer elements is the beginning of what is given of *)
(* more.                                                                   *)
LEMMA GivenStarts ==
    ASSUME NEW V, NEW list \in Seq(Seq(V)), NEW m \in 0 .. Len(list), NEW n \in m .. Len(list)
    PROVE  Starts(Given(list, m), Given(list, n))
<1> DEFINE S == {d \in Nat : m + d <= Len(list) => Starts(Given(list, m), Given(list, m + d))}
           W == Seq(V)
<1>1. Len(list) \in Nat /\ m \in Nat /\ n - m \in Nat /\ m + (n - m) = n /\ m <= Len(list)
      /\ n <= Len(list)
  OBVIOUS
<1> HIDE DEF W
<1>2. \A k \in 0 .. Len(list) : Given(list, k) \in Seq(W)
  BY GivenIs DEF W
<1>3. 0 \in S
  <2>1. m + 0 = m /\ Starts(Given(list, m), Given(list, m))
    BY <1>1, <1>2, StartsIsOrder
  <2> QED BY <2>1
<1>4. ASSUME NEW d \in Nat, d \in S PROVE d + 1 \in S
  <2> SUFFICES ASSUME m + (d + 1) <= Len(list)
               PROVE  Starts(Given(list, m), Given(list, m + (d + 1)))
    OBVIOUS
  <2> DEFINE k == m + d
  <2>1. /\ k \in 0 .. Len(list) /\ k \in 0 .. Len(list) - 1 /\ k + 1 \in 0 .. Len(list)
        /\ m + (d + 1) = k + 1 /\ m + d <= Len(list)
    BY <1>1
  <2>2. Starts(Given(list, m), Given(list, k))
    BY <1>4, <2>1
  <2> HIDE DEF k
  <2> DEFINE a == Given(list, k)
             b == Given(list, k + 1)
             c == Given(list, m)
  <2>3. a \in Seq(W) /\ b \in Seq(W) /\ c \in Seq(W)
    BY <1>1, <1>2, <2>1
  <2>4. list[k + 1] \in W /\ (b = a \/ b = Append(a, list[k + 1]))
    BY <2>1, GivenMore DEF W
  <2> HIDE DEF a, b
  <2>5. Starts(a, b)
    <3>1. Len(a) \in Nat
      BY <2>3
    <3>2. Starts(a, a)
      BY <2>3, StartsIsOrder
    <3>3. Starts(a, Append(a, list[k + 1]))
      BY <2>3, <2>4, <3>1 DEF Starts
    <3> QED BY <2>4, <3>2, <3>3
  <2>6. Starts(c, a)
    BY <2>2 DEF a
  <2> HIDE DEF c
  <2>7. Starts(c, b)
    BY <2>3, <2>5, <2>6, StartsIsOrder
  <2> QED BY <2>1, <2>7 DEF b, c
<1>5. Nat \subseteq S
  <2> HIDE DEF S
  <2> QED BY <1>3, <1>4, InductiveSet
<1>6. n - m \in S
  <2> HIDE DEF S
  <2> QED BY <1>1, <1>5
<1> QED BY <1>1, <1>6

(* A member that is not empty is given.                                    *)
LEMMA GivenHas ==
    ASSUME NEW V, NEW list \in Seq(Seq(V)), NEW n \in 0 .. Len(list),
           NEW k \in 1 .. n, list[k] # <<>>
    PROVE  \E i \in DOMAIN Given(list, n) : Given(list, n)[i] = list[k]
<1> DEFINE W == Seq(V)
           a == Given(list, k - 1)
           b == Given(list, k)
           c == Given(list, n)
<1>1. /\ k \in 0 .. Len(list) /\ k - 1 \in 0 .. Len(list) - 1 /\ k - 1 \in 0 .. Len(list)
      /\ (k - 1) + 1 = k /\ n \in k .. Len(list) /\ list[k] \in W
  OBVIOUS
<1>2. Starts(b, c)
  BY <1>1, GivenStarts
<1> HIDE DEF W
<1>3. a \in Seq(W) /\ b \in Seq(W) /\ c \in Seq(W)
  BY <1>1, GivenIs DEF W
<1>4. b = Append(a, list[k])
  <2> DEFINE j == k - 1
  <2> HIDE DEF j
  <2>1. j \in 0 .. Len(list) - 1
    BY <1>1 DEF j
  <2>2. Given(list, j + 1) = IF list[j + 1] = <<>> THEN Given(list, j)
                             ELSE Append(Given(list, j), list[j + 1])
    BY <2>1, GivenMore DEF W
  <2>3. j + 1 = k
    BY <1>1 DEF j
  <2> QED BY <2>2, <2>3 DEF j
<1> HIDE DEF a, b, c
<1>5. Len(a) \in Nat /\ Len(b) = Len(a) + 1 /\ b[Len(a) + 1] = list[k] /\ Len(c) \in Nat
      /\ DOMAIN c = 1 .. Len(c)
  BY <1>1, <1>3, <1>4
<1>6. Len(a) + 1 \in 1 .. Len(c) /\ c[Len(a) + 1] = list[k]
  <2>1. Len(b) <= Len(c) /\ \A i \in 1 .. Len(b) : c[i] = b[i]
    BY <1>2 DEF Starts
  <2>2. Len(a) + 1 \in 1 .. Len(c) /\ Len(a) + 1 \in 1 .. Len(b)
    BY <1>5, <2>1
  <2> QED BY <1>5, <2>1, <2>2
<1> QED BY <1>5, <1>6 DEF c

-----------------------------------------------------------------------------
(* What is yielded and what is collected once some lines are consumed      *)

Done(lines) == Given(DataIn(lines), Len(DataIn(lines)) - 1)
Pending(lines) == DataIn(lines)[Len(DataIn(lines))]

(* The events and the data that some lines leave behind.                   *)
LEMMA DigestIs ==
    ASSUME NEW lines \in Seq(AllTexts)
    PROVE  /\ DataIn(lines) \in NonEmpty(AllTexts) /\ Len(DataIn(lines)) \in Nat \ {0}
           /\ DataIn(lines) \in Seq(Seq(AllTexts))
           /\ Done(lines) \in Seq(Seq(AllTexts)) /\ Pending(lines) \in Seq(AllTexts)
<1> DEFINE data == DataIn(lines)
           n == Len(data)
           V == AllTexts
           W == Seq(V)
<1>1. data \in NonEmpty(V)
  BY DataInIs
<1> HIDE DEF data, V
<1>2. data \in Seq(W) /\ n \in Nat /\ 1 <= n /\ data[n] \in W
  BY <1>1, NonEmptyIs
<1>3. n \in Nat \ {0} /\ n - 1 \in 0 .. n
  BY <1>2
<1> HIDE DEF W, n
<1>4. Given(data, n - 1) \in Seq(W)
  BY <1>2, <1>3, GivenIs DEF n
<1> QED BY <1>1, <1>2, <1>3, <1>4 DEF Done, Pending, data, n, V, W

(* No lines leave nothing behind.                                          *)
LEMMA DigestOfNothing == Done(<<>>) = <<>> /\ Pending(<<>>) = <<>>
<1> DEFINE data == << <<>> >>
<1>1. DataIn(<<>>) = data /\ Len(data) = 1 /\ data[1] = <<>> /\ 1 - 1 = 0
  BY DataInNothing
<1> HIDE DEF data
<1>2. Filled(data, 0) = {}
  BY DEF Filled
<1>3. Only(data, {}) = <<>>
  <2>1. Only(data, {}) = [k \in 1 .. 0 |-> data[Nth({}, k)]]
    BY FS_EmptySet, Zenon DEF Only
  <2> QED BY <2>1
<1> QED BY <1>1, <1>2, <1>3 DEF Done, Pending, Given

(* An empty line yields what is collected.                                 *)
LEMMA DigestOfEmpty ==
    ASSUME NEW lines \in Seq(AllTexts)
    PROVE  /\ Pending(Append(lines, <<>>)) = <<>>
           /\ Done(Append(lines, <<>>)) = IF Pending(lines) = <<>> THEN Done(lines)
                                          ELSE Append(Done(lines), Pending(lines))
           /\ Done(Append(lines, <<>>)) = Given(DataIn(lines), Len(DataIn(lines)))
<1> DEFINE data == DataIn(lines)
           more == DataIn(Append(lines, <<>>))
           n == Len(data)
           W == Seq(AllTexts)
<1>1. data \in Seq(W) /\ n \in Nat \ {0} /\ <<>> \in W
  BY DigestIs
<1>2. more = Append(data, <<>>)
  BY DataInSplits
<1> HIDE DEF data, more, W
<1>3. Len(more) = n + 1 /\ (\A k \in 1 .. n : more[k] = data[k]) /\ more[n + 1] = <<>>
  BY <1>1, <1>2
<1> HIDE DEF n
<1>4. Len(more) - 1 = n
  BY <1>1, <1>3
<1>5. Given(more, n) = Given(data, n)
  BY <1>1, <1>3, GivenSame
<1>6. Done(Append(lines, <<>>)) = Given(data, n) /\ Pending(Append(lines, <<>>)) = <<>>
  BY <1>3, <1>4, <1>5 DEF Done, Pending, more
<1>7. Given(data, n) = IF data[n] = <<>> THEN Given(data, n - 1)
                       ELSE Append(Given(data, n - 1), data[n])
  <2> DEFINE j == n - 1
  <2>1. j \in 0 .. n - 1 /\ j + 1 = n
    BY <1>1
  <2> HIDE DEF j
  <2>2. j \in 0 .. Len(data) - 1
    BY <2>1 DEF n
  <2>3. Given(data, j + 1) = IF data[j + 1] = <<>> THEN Given(data, j)
                             ELSE Append(Given(data, j), data[j + 1])
    BY <1>1, <2>2, GivenMore
  <2> QED BY <2>1, <2>3 DEF j
<1> QED BY <1>6, <1>7 DEF Done, Pending, data, n

(* A data line is added to what is collected; any other is ignored.        *)
LEMMA DigestOfLine ==
    ASSUME NEW lines \in Seq(AllTexts), NEW line \in AllTexts, line # <<>>
    PROVE  /\ Done(Append(lines, line)) = Done(lines)
           /\ Pending(Append(lines, line)) = IF IsData(line) THEN Append(Pending(lines), Tail(line))
                                             ELSE Pending(lines)
<1> DEFINE data == DataIn(lines)
           more == DataIn(Append(lines, line))
           n == Len(data)
<1>1. n \in Nat \ {0}
  BY DigestIs
<1>2. IF IsData(line) THEN LastGrows(data, more, Tail(line)) ELSE more = data
  BY DataInGrows
<1> HIDE DEF data, more
<1>3. CASE IsData(line)
  <2>1. /\ Len(more) = n
        /\ \A k \in 1 .. n - 1 : more[k] = data[k]
        /\ more[n] = Append(data[n], Tail(line))
    BY <1>2, <1>3 DEF LastGrows
  <2>2. n - 1 \in Nat
    BY <1>1
  <2> HIDE DEF n
  <2>3. Given(more, n - 1) = Given(data, n - 1)
    BY <2>1, <2>2, GivenSame
  <2> QED BY <1>3, <2>1, <2>3 DEF Done, Pending, data, more, n
<1>4. CASE ~ IsData(line)
  BY <1>2, <1>4 DEF Done, Pending, data, more
<1> QED BY <1>3, <1>4

(* The events of lines: an empty line at the end yields the last of them.  *)
LEMMA EventsAre ==
    ASSUME NEW lines \in Seq(AllTexts)
    PROVE  /\ EventsIn(lines) = Given(DataIn(lines), Len(DataIn(lines)))
           /\ EventsIn(lines) = Done(Append(lines, <<>>))
           /\ EventsIn(lines) \in Seq(Seq(AllTexts))
<1> DEFINE data == DataIn(lines)
           n == Len(data)
<1>1. DOMAIN data = 1 .. n /\ n \in Nat /\ data \in Seq(Seq(AllTexts)) /\ n \in 0 .. n
  <2>1. data \in Seq(Seq(AllTexts))
    BY DigestIs
  <2> HIDE DEF data
  <2> QED BY <2>1
<1>2. EventsIn(lines) = Only(data, {k \in DOMAIN data : data[k] # <<>>})
  BY DEF EventsIn
<1> HIDE DEF data
<1>3. EventsIn(lines) = Given(data, n)
  BY <1>1, <1>2 DEF Given, Filled
<1>4. Given(data, n) \in Seq(Seq(AllTexts))
  BY <1>1, GivenIs
<1> QED BY <1>3, <1>4, DigestOfEmpty DEF data, n

(* One more line changes only the data of the last group, or begins        *)
(* another.                                                                *)
LEMMA DataOneMore ==
    ASSUME NEW lines \in Seq(AllTexts), NEW line \in AllTexts
    PROVE  Grows(DataIn(lines), DataIn(Append(lines, line)))
<1> DEFINE old == DataIn(lines)
           new == DataIn(Append(lines, line))
<1>1. old \in NonEmpty(AllTexts)
  BY DigestIs
<1>2. CASE line = <<>>
  <2>1. new = Append(old, <<>>)
    BY <1>2, DataInSplits
  <2> HIDE DEF old, new
  <2> QED BY <1>1, <2>1, AppendGrows DEF old, new
<1>3. CASE line # <<>>
  <2>1. IF IsData(line) THEN LastGrows(old, new, Tail(line)) ELSE new = old
    BY <1>3, DataInGrows
  <2> HIDE DEF old, new
  <2>2. Grows(old, new)
    BY <1>1, <2>1, TailIs, LastGrowsGrows, GrowsIsOrder
  <2> QED BY <2>2 DEF old, new
<1> QED BY <1>2, <1>3

(* The data of lines is still there when more lines follow.                *)
LEMMA DataInTaken ==
    ASSUME NEW lines \in Seq(AllTexts), NEW n \in 0 .. Len(lines)
    PROVE  Grows(DataIn(Taken(lines, n)), DataIn(lines))
<1> DEFINE first == DataIn(Taken(lines, n))
           S == {d \in Nat : n + d <= Len(lines) => Grows(first, DataIn(Taken(lines, n + d)))}
<1>1. /\ n \in Nat /\ Len(lines) \in Nat
      /\ \A k \in 0 .. Len(lines) : /\ Taken(lines, k) \in Seq(AllTexts)
                                    /\ DataIn(Taken(lines, k)) \in NonEmpty(AllTexts)
  BY TakenIs, DigestIs
<1>2. first \in NonEmpty(AllTexts)
  BY <1>1
<1> HIDE DEF first
<1>3. 0 \in S
  <2>1. n + 0 = n
    BY <1>1
  <2>2. Grows(first, first)
    BY <1>2, GrowsIsOrder
  <2> QED BY <2>1, <2>2 DEF first
<1>4. ASSUME NEW d \in Nat, d \in S PROVE d + 1 \in S
  <2> SUFFICES ASSUME n + (d + 1) <= Len(lines)
               PROVE  Grows(first, DataIn(Taken(lines, n + (d + 1))))
    OBVIOUS
  <2> DEFINE k == n + d
             now == Taken(lines, k)
             next == Taken(lines, k + 1)
  <2>1. k \in 0 .. Len(lines) /\ k < Len(lines) /\ k + 1 \in 0 .. Len(lines) /\ n + (d + 1) = k + 1
    BY <1>1
  <2> HIDE DEF k
  <2>2. next = Append(now, lines[k + 1]) /\ lines[k + 1] \in AllTexts
    BY <1>1, <2>1, TakenIs
  <2>3. /\ now \in Seq(AllTexts) /\ DataIn(now) \in NonEmpty(AllTexts)
        /\ DataIn(next) \in NonEmpty(AllTexts)
    BY <1>1, <2>1
  <2>4. Grows(first, DataIn(now))
    BY <1>4, <2>1 DEF k
  <2> HIDE DEF now, next
  <2>5. Grows(DataIn(now), DataIn(next))
    BY <2>2, <2>3, DataOneMore
  <2>6. Grows(first, DataIn(next))
    BY <1>2, <2>3, <2>4, <2>5, GrowsIsOrder
  <2> QED BY <2>1, <2>6 DEF next
<1>5. Nat \subseteq S
  <2> HIDE DEF S
  <2> QED BY <1>3, <1>4, InductiveSet
<1>6. Len(lines) - n \in Nat /\ n + (Len(lines) - n) = Len(lines)
  BY <1>1
<1>7. Grows(first, DataIn(Taken(lines, Len(lines))))
  <2>1. Len(lines) - n \in S
    <3> HIDE DEF S
    <3> QED BY <1>5, <1>6
  <2> QED BY <1>1, <1>6, <2>1
<1>8. Taken(lines, Len(lines)) = lines
  BY <1>1, TakenIs
<1> QED BY <1>7, <1>8 DEF first

(* What some lines yield is yielded first when more follow, and what they  *)
(* collect is the beginning of an event.                                   *)
LEMMA DoneStays ==
    ASSUME NEW lines \in Seq(AllTexts), NEW n \in 0 .. Len(lines)
    PROVE  /\ Starts(Done(Taken(lines, n)), EventsIn(lines))
           /\ Pending(Taken(lines, n)) # <<>> =>
                 \E i \in DOMAIN EventsIn(lines) :
                    Starts(Pending(Taken(lines, n)), EventsIn(lines)[i])
<1> DEFINE first == DataIn(Taken(lines, n))
           data == DataIn(lines)
           l == Len(first)
           m == Len(data)
           W == Seq(AllTexts)
<1>1. Taken(lines, n) \in Seq(AllTexts)
  BY TakenIs
<1>2. l \in Nat \ {0} /\ m \in Nat \ {0} /\ data \in Seq(W)
  BY <1>1, DigestIs
<1>3. Grows(first, data)
  BY DataInTaken
<1> HIDE DEF first, data
<1>4. l <= m /\ (\A k \in 1 .. l - 1 : data[k] = first[k]) /\ Starts(first[l], data[l])
  BY <1>3 DEF Grows
<1>5. EventsIn(lines) = Given(data, m)
  BY EventsAre DEF data
<1> HIDE DEF l, m
<1>6. l - 1 \in Nat /\ l - 1 \in 0 .. m /\ m \in (l - 1) .. m /\ m \in 0 .. m /\ l \in 1 .. m
  BY <1>2, <1>4
<1>7. Given(data, l - 1) = Given(first, l - 1)
  <2> DEFINE j == l - 1
  <2>1. j \in Nat /\ \A k \in 1 .. j : data[k] = first[k]
    BY <1>4, <1>6
  <2> HIDE DEF j
  <2>2. Given(data, j) = Given(first, j)
    BY <2>1, GivenSame
  <2> QED BY <2>2 DEF j
<1>8. Starts(Given(data, l - 1), Given(data, m))
  <2> DEFINE j == l - 1
  <2>1. j \in 0 .. Len(data) /\ m \in j .. Len(data)
    BY <1>6 DEF m
  <2> HIDE DEF j
  <2>2. Starts(Given(data, j), Given(data, m))
    BY <1>2, <2>1, GivenStarts DEF W
  <2> QED BY <2>2 DEF j
<1>9. ASSUME first[l] # <<>>
      PROVE  \E i \in DOMAIN EventsIn(lines) : Starts(first[l], EventsIn(lines)[i])
  <2>1. data[l] # <<>>
    <3>1. first[l] \in W
      BY <1>1, DigestIs DEF Pending, first, l
    <3>2. data[l] \in W
      BY <1>2, <1>6 DEF m
    <3>3. Len(first[l]) \in Nat /\ Len(first[l]) # 0
      BY <1>9, <3>1
    <3>4. Len(first[l]) <= Len(data[l])
      BY <1>4 DEF Starts
    <3> QED BY <3>2, <3>3, <3>4
  <2>2. \E i \in DOMAIN Given(data, m) : Given(data, m)[i] = data[l]
    <3>1. m \in 0 .. Len(data)
      BY <1>6 DEF m
    <3> QED BY <1>2, <1>6, <2>1, <3>1, GivenHas DEF W
  <2> QED BY <1>4, <1>5, <2>2
<1> QED BY <1>5, <1>7, <1>8, <1>9 DEF Done, Pending, first, l

-----------------------------------------------------------------------------
(* Folds                                                                   *)

(* What a fold of a list of length n recurs on: its sets of places.        *)
FoldsBy(f, base, step, n) ==
    f = [s \in SUBSET (1 .. n) |->
            IF s = {} THEN base ELSE step[Max(s)][f[s \ {Max(s)}]]]

(* The last of the first n + 1 numbers is n + 1.                           *)
LEMMA MaxOfInterval ==
    ASSUME NEW n \in Nat, NEW s \in SUBSET (1 .. n + 1), n + 1 \in s
    PROVE  Max(s) = n + 1
<1>1. \A y \in s : y \in 1 .. n + 1 /\ n + 1 >= y
  OBVIOUS
<1>2. \E x \in s : \A y \in s : x >= y
  BY <1>1
<1>3. Max(s) \in s /\ \A y \in s : Max(s) >= y
  BY <1>2, Zenon DEF Max
<1>4. Max(s) \in 1 .. n + 1 /\ Max(s) >= n + 1
  BY <1>1, <1>3, Zenon
<1> QED BY <1>4

(* A set of places has a last one.                                         *)
LEMMA MaxIsIn ==
    ASSUME NEW n \in Nat, NEW s \in SUBSET (1 .. n), s # {}
    PROVE  Max(s) \in s /\ \A y \in s : Max(s) >= y
<1> DEFINE P(t) == \E x \in t : \A y \in t : x >= y
           S == {k \in Nat : \A t \in SUBSET (1 .. k) : t # {} => P(t)}
<1>1. 0 \in S
  <2>1. \A t \in SUBSET (1 .. 0) : t = {}
    OBVIOUS
  <2> QED BY <2>1
<1>2. ASSUME NEW k \in Nat, k \in S PROVE k + 1 \in S
  <2> SUFFICES ASSUME NEW t \in SUBSET (1 .. k + 1), t # {} PROVE P(t)
    OBVIOUS
  <2>1. CASE k + 1 \in t
    <3>1. \A y \in t : k + 1 >= y
      OBVIOUS
    <3> QED BY <2>1, <3>1
  <2>2. CASE k + 1 \notin t
    <3>1. \A y \in 1 .. k + 1 : y # k + 1 => y \in 1 .. k
      OBVIOUS
    <3>2. t \in SUBSET (1 .. k)
      BY <2>2, <3>1
    <3> HIDE DEF P
    <3> QED BY <1>2, <3>2
  <2> QED BY <2>1, <2>2
<1>3. Nat \subseteq S
  <2> HIDE DEF S
  <2> QED BY <1>1, <1>2, InductiveSet
<1>4. n \in S
  <2> HIDE DEF S
  <2> QED BY <1>3
<1>5. P(s)
  BY <1>4
<1> QED BY <1>5, Zenon DEF Max

(* The numbers up to n + 1, without the greatest, are the numbers up to n. *)
LEMMA IntervalMore ==
    ASSUME NEW n \in Nat
    PROVE  /\ Max(1 .. n + 1) = n + 1 /\ 1 .. n + 1 # {}
           /\ (1 .. n + 1) \ {n + 1} = 1 .. n
<1>1. 1 .. n + 1 \in SUBSET (1 .. n + 1) /\ n + 1 \in 1 .. n + 1
  OBVIOUS
<1>2. Max(1 .. n + 1) = n + 1
  BY <1>1, MaxOfInterval
<1>3. (1 .. n + 1) \ {n + 1} = 1 .. n
  OBVIOUS
<1> QED BY <1>1, <1>2, <1>3

(* A function that folds the sets of numbers up to n extends to one for n  *)
(* + 1.                                                                    *)
LEMMA FoldExtends ==
    ASSUME NEW V, NEW base \in V, NEW n \in Nat, NEW step,
           \A v \in V : \A i \in 1 .. n + 1 : step[i][v] \in V,
           NEW f \in [SUBSET (1 .. n) -> V], FoldsBy(f, base, step, n)
    PROVE  \E g \in [SUBSET (1 .. n + 1) -> V] : FoldsBy(g, base, step, n + 1)
<1> DEFINE g == [s \in SUBSET (1 .. n + 1) |->
                   IF n + 1 \in s THEN step[n + 1][f[s \ {n + 1}]] ELSE f[s]]
<1>0. \A s \in SUBSET (1 .. n + 1) : /\ s \ {n + 1} \in SUBSET (1 .. n)
                                     /\ n + 1 \notin s => s \in SUBSET (1 .. n)
  <2>1. \A y \in 1 .. n + 1 : y # n + 1 => y \in 1 .. n
    OBVIOUS
  <2> QED BY <2>1, Zenon
<1>1. ASSUME NEW s \in SUBSET (1 .. n + 1)
      PROVE  g[s] = IF s = {} THEN base ELSE step[Max(s)][g[s \ {Max(s)}]]
  <2>1. CASE n + 1 \in s
    <3>1. Max(s) = n + 1
      BY <2>1, MaxOfInterval
    <3>2. s \ {n + 1} \in SUBSET (1 .. n + 1) /\ n + 1 \notin s \ {n + 1}
      OBVIOUS
    <3>3. g[s \ {n + 1}] = f[s \ {n + 1}]
      BY <3>2
    <3>4. g[s] = step[n + 1][f[s \ {n + 1}]] /\ s # {}
      BY <2>1
    <3> HIDE DEF g
    <3> QED BY <3>1, <3>3, <3>4
  <2>2. CASE n + 1 \notin s
    <3>1. s \in SUBSET (1 .. n)
      BY <1>0, <2>2
    <3>2. s \ {Max(s)} \in SUBSET (1 .. n + 1) /\ n + 1 \notin s \ {Max(s)}
      BY <2>2
    <3>3. g[s] = f[s] /\ g[s \ {Max(s)}] = f[s \ {Max(s)}]
      BY <2>2, <3>2
    <3>4. f[s] = IF s = {} THEN base ELSE step[Max(s)][f[s \ {Max(s)}]]
      BY <3>1, Zenon DEF FoldsBy
    <3> HIDE DEF g
    <3> QED BY <3>3, <3>4
  <2> QED BY <2>1, <2>2
<1>2. g \in [SUBSET (1 .. n + 1) -> V]
  <2>1. \A s \in SUBSET (1 .. n + 1) : n + 1 \in s => step[n + 1][f[s \ {n + 1}]] \in V
    <3>1. n + 1 \in 1 .. n + 1
      OBVIOUS
    <3>2. \A s \in SUBSET (1 .. n + 1) : f[s \ {n + 1}] \in V
      BY <1>0, Zenon
    <3> QED BY <3>1, <3>2, Zenon
  <2>2. \A s \in SUBSET (1 .. n + 1) : n + 1 \notin s => f[s] \in V
    BY <1>0, Zenon
  <2> QED BY <2>1, <2>2
<1>3. FoldsBy(g, base, step, n + 1)
  <2> HIDE DEF g
  <2> DEFINE h == [s \in SUBSET (1 .. n + 1) |->
                     IF s = {} THEN base ELSE step[Max(s)][g[s \ {Max(s)}]]]
  <2>1. \A s \in SUBSET (1 .. n + 1) : g[s] = h[s]
    BY <1>1
  <2>2. DOMAIN g = SUBSET (1 .. n + 1) /\ g = [s \in DOMAIN g |-> g[s]]
    BY <1>2
  <2>3. g = h
    BY <2>1, <2>2
  <2> QED BY <2>3 DEF FoldsBy
<1> QED BY <1>2, <1>3

(* A fold whose steps stay in a set has a value in it.                     *)
LEMMA FoldExists ==
    ASSUME NEW V, NEW base \in V, NEW n \in Nat, NEW step,
           \A v \in V : \A i \in 1 .. n : step[i][v] \in V
    PROVE  \E f \in [SUBSET (1 .. n) -> V] : FoldsBy(f, base, step, n)
<1> DEFINE Q(k) == \E f \in [SUBSET (1 .. k) -> V] : FoldsBy(f, base, step, k)
           S == {k \in Nat : k <= n => Q(k)}
<1>1. 0 \in S
  <2> DEFINE f == [s \in SUBSET (1 .. 0) |-> base]
  <2>1. f \in [SUBSET (1 .. 0) -> V]
    OBVIOUS
  <2>2. \A s \in SUBSET (1 .. 0) : s = {}
    OBVIOUS
  <2>3. FoldsBy(f, base, step, 0)
    BY <2>2 DEF FoldsBy
  <2> HIDE DEF f
  <2>4. Q(0)
    BY <2>1, <2>3
  <2> HIDE DEF Q
  <2> QED BY <2>4
<1>2. ASSUME NEW k \in Nat, k \in S PROVE k + 1 \in S
  <2> HIDE DEF Q
  <2> SUFFICES ASSUME k + 1 <= n PROVE Q(k + 1)
    OBVIOUS
  <2>1. k <= n /\ Q(k)
    BY <1>2
  <2> USE DEF Q
  <2>2. PICK f \in [SUBSET (1 .. k) -> V] : FoldsBy(f, base, step, k)
    BY <2>1
  <2>3. \A v \in V : \A i \in 1 .. k + 1 : step[i][v] \in V
    <3>1. \A i \in 1 .. k + 1 : i \in 1 .. n
      OBVIOUS
    <3> QED BY <3>1
  <2> HIDE DEF S
  <2> QED BY <2>2, <2>3, FoldExtends
<1>3. Nat \subseteq S
  <2> HIDE DEF S
  <2> QED BY <1>1, <1>2, InductiveSet
<1>4. Q(n)
  <2> HIDE DEF Q
  <2> QED BY <1>3
<1> QED BY <1>4

-----------------------------------------------------------------------------
(* How many bytes data lines have                                          *)

(* A running count of the bytes of a list of lines.                        *)
Counts(h, lines) ==
    /\ h \in [0 .. Len(lines) -> Nat]
    /\ h[0] = 0
    /\ \A k \in 0 .. Len(lines) - 1 : h[k + 1] = h[k] + Len(lines[k + 1]) + 1

(* Bytes counts line after line: the recursion of the fold, written as a   *)
(* function.                                                               *)
LEMMA BytesIs ==
    ASSUME NEW lines \in Seq(AllTexts)
    PROVE  \E h : Counts(h, lines) /\ Bytes(lines) = h[Len(lines)]
<1> DEFINE n == Len(lines)
           P(f) == f = [s \in SUBSET (1 .. n) |->
                          IF s = {} THEN 0 ELSE f[s \ {Max(s)}] + Len(lines[Max(s)]) + 1]
           f0 == CHOOSE f : P(f)
<1>1. n \in Nat /\ DOMAIN lines = 1 .. n /\ \A k \in 1 .. n : Len(lines[k]) \in Nat
  BY DEF AllTexts
<1>2. \E f : P(f)
  <2> DEFINE step == [i \in 1 .. n |-> [v \in Nat |-> v + Len(lines[i]) + 1]]
  <2>1. \A v \in Nat : \A i \in 1 .. n : step[i][v] = v + Len(lines[i]) + 1
    OBVIOUS
  <2>2. \A v \in Nat : \A i \in 1 .. n : v + Len(lines[i]) + 1 \in Nat
    BY <1>1
  <2> HIDE DEF step, n
  <2>3. \A v \in Nat : \A i \in 1 .. n : step[i][v] \in Nat
    BY <2>1, <2>2, Zenon
  <2>4. PICK f \in [SUBSET (1 .. n) -> Nat] : FoldsBy(f, 0, step, n)
    BY <1>1, <2>3, FoldExists
  <2>5. ASSUME NEW s \in SUBSET (1 .. n), s # {}
        PROVE  /\ Max(s) \in 1 .. n
               /\ step[Max(s)][f[s \ {Max(s)}]] = f[s \ {Max(s)}] + Len(lines[Max(s)]) + 1
    <3>1. Max(s) \in s
      BY <1>1, <2>5, MaxIsIn
    <3>2. s \ {Max(s)} \in SUBSET (1 .. n)
      OBVIOUS
    <3>3. f[s \ {Max(s)}] \in Nat /\ Max(s) \in 1 .. n
      BY <3>1, <3>2, Zenon
    <3> QED BY <2>1, <3>3, Zenon
  <2>6. P(f)
    BY <2>4, <2>5 DEF FoldsBy
  <2> QED BY <2>6
<1>3. P(f0)
  BY <1>2, Zenon
<1>4. Bytes(lines) = f0[1 .. n]
  BY <1>1 DEF Bytes, FoldLeft, MapThenFoldSet
<1>5. \A s \in SUBSET (1 .. n) :
         f0[s] = IF s = {} THEN 0 ELSE f0[s \ {Max(s)}] + Len(lines[Max(s)]) + 1
  <2> HIDE DEF f0
  <2> QED BY <1>3, Zenon
<1> DEFINE h == [k \in 0 .. n |-> f0[1 .. k]]
           S == {k \in Nat : k <= n => f0[1 .. k] \in Nat}
<1> HIDE DEF f0, n
<1>6. f0[1 .. 0] = 0
  <2>1. 1 .. 0 = {} /\ 1 .. 0 \in SUBSET (1 .. n)
    OBVIOUS
  <2> QED BY <1>5, <2>1
<1>7. ASSUME NEW k \in 0 .. n - 1
      PROVE  f0[1 .. k + 1] = f0[1 .. k] + Len(lines[k + 1]) + 1
  <2>1. k \in Nat /\ 1 .. k + 1 \in SUBSET (1 .. n)
    BY <1>1
  <2>2. Max(1 .. k + 1) = k + 1 /\ 1 .. k + 1 # {} /\ (1 .. k + 1) \ {k + 1} = 1 .. k
    BY <2>1, IntervalMore
  <2> QED BY <1>5, <2>1, <2>2
<1>8. \A k \in 0 .. n : f0[1 .. k] \in Nat
  <2>1. 0 \in S
    BY <1>6
  <2>2. ASSUME NEW k \in Nat, k \in S PROVE k + 1 \in S
    <3> SUFFICES ASSUME k + 1 <= n PROVE f0[1 .. k + 1] \in Nat
      OBVIOUS
    <3>1. k \in 0 .. n - 1 /\ k + 1 \in 1 .. n /\ k <= n
      BY <1>1
    <3>2. f0[1 .. k] \in Nat /\ Len(lines[k + 1]) \in Nat
      BY <1>1, <2>2, <3>1
    <3> QED BY <1>7, <3>1, <3>2
  <2>3. Nat \subseteq S
    <3> HIDE DEF S
    <3> QED BY <2>1, <2>2, InductiveSet
  <2> QED BY <1>1, <2>3
<1>9. h[0] = 0 /\ h[n] = f0[1 .. n] /\ h \in [0 .. n -> Nat]
  BY <1>1, <1>6, <1>8
<1>10. \A k \in 0 .. n - 1 : h[k + 1] = h[k] + Len(lines[k + 1]) + 1
  <2>1. \A k \in 0 .. n - 1 : k \in 0 .. n /\ k + 1 \in 0 .. n
    BY <1>1
  <2>2. \A k \in 0 .. n : h[k] = f0[1 .. k]
    OBVIOUS
  <2> HIDE DEF h
  <2> QED BY <1>7, <2>1, <2>2
<1> HIDE DEF h
<1>11. Counts(h, lines)
  BY <1>9, <1>10 DEF Counts, n
<1> QED BY <1>4, <1>9, <1>11 DEF n

(* A list that begins with another has no fewer bytes.                     *)
LEMMA BytesGrow ==
    ASSUME NEW a \in Seq(AllTexts), NEW b \in Seq(AllTexts), Starts(a, b)
    PROVE  Bytes(a) \in Nat /\ Bytes(b) \in Nat /\ Bytes(a) <= Bytes(b)
<1> DEFINE m == Len(a)
           n == Len(b)
<1>1. /\ m \in Nat /\ n \in Nat /\ m <= n
      /\ \A k \in 1 .. m : b[k] = a[k]
      /\ \A k \in 1 .. n : Len(b[k]) \in Nat
  BY DEF Starts, AllTexts
<1>2. PICK g : Counts(g, a) /\ Bytes(a) = g[m]
  BY BytesIs
<1>3. PICK h : Counts(h, b) /\ Bytes(b) = h[n]
  BY BytesIs
<1> HIDE DEF m, n
<1>4. /\ g \in [0 .. m -> Nat] /\ g[0] = 0
      /\ \A k \in 0 .. m - 1 : g[k + 1] = g[k] + Len(a[k + 1]) + 1
  BY <1>2 DEF Counts, m
<1>5. /\ h \in [0 .. n -> Nat] /\ h[0] = 0
      /\ \A k \in 0 .. n - 1 : h[k + 1] = h[k] + Len(b[k + 1]) + 1
  BY <1>3 DEF Counts, n
<1> DEFINE S == {k \in Nat : k <= n => IF k <= m THEN h[k] = g[k] ELSE g[m] <= h[k]}
<1>6. 0 \in S
  BY <1>1, <1>4, <1>5
<1>7. ASSUME NEW k \in Nat, k \in S PROVE k + 1 \in S
  <2> SUFFICES ASSUME k + 1 <= n
               PROVE  IF k + 1 <= m THEN h[k + 1] = g[k + 1] ELSE g[m] <= h[k + 1]
    OBVIOUS
  <2>1. /\ k \in 0 .. n - 1 /\ k \in 0 .. n /\ k + 1 \in 0 .. n /\ k + 1 \in 1 .. n /\ k <= n
        /\ k < m => k \in 0 .. m - 1 /\ k + 1 \in 1 .. m /\ k + 1 \in 0 .. m
    BY <1>1
  <2>2. /\ h[k + 1] = h[k] + Len(b[k + 1]) + 1 /\ h[k] \in Nat /\ h[k + 1] \in Nat
        /\ Len(b[k + 1]) \in Nat /\ g[m] \in Nat
    BY <1>1, <1>4, <1>5, <2>1
  <2>3. k < m => h[k] = g[k] /\ g[k + 1] = g[k] + Len(a[k + 1]) + 1 /\ b[k + 1] = a[k + 1]
    BY <1>1, <1>4, <1>7, <2>1
  <2>4. k >= m => g[m] <= h[k]
    BY <1>1, <1>7, <2>1, <2>2
  <2>5. CASE k < m
    <3>1. k + 1 <= m
      BY <1>1, <2>5
    <3> QED BY <2>2, <2>3, <2>5, <3>1
  <2>6. CASE ~ (k < m)
    <3>1. ~ (k + 1 <= m) /\ k >= m
      BY <1>1, <2>6
    <3>2. g[m] <= h[k + 1]
      BY <2>2, <2>4, <3>1
    <3> QED BY <3>1, <3>2
  <2> QED BY <2>5, <2>6
<1>8. Nat \subseteq S
  <2> HIDE DEF S
  <2> QED BY <1>6, <1>7, InductiveSet
<1>9. n \in S
  <2> HIDE DEF S
  <2> QED BY <1>1, <1>8
<1>10. g[m] \in Nat /\ h[n] \in Nat /\ (m = n \/ ~ (n <= m))
  BY <1>1, <1>4, <1>5
<1>11. g[m] <= h[n]
  BY <1>1, <1>9, <1>10
<1> QED BY <1>2, <1>3, <1>10, <1>11

-----------------------------------------------------------------------------
(* Where the lines of a text are                                           *)

(* A set of places has a first one.                                        *)
LEMMA MinIsIn ==
    ASSUME NEW n \in Nat, NEW s \in SUBSET (1 .. n), s # {}
    PROVE  Min(s) \in s /\ \A y \in s : Min(s) <= y
<1> DEFINE P(t) == \E x \in t : \A y \in t : x <= y
           S == {k \in Nat : \A t \in SUBSET (1 .. k) : t # {} => P(t)}
<1>1. 0 \in S
  <2>1. \A t \in SUBSET (1 .. 0) : t = {}
    OBVIOUS
  <2> QED BY <2>1
<1>2. ASSUME NEW k \in Nat, k \in S PROVE k + 1 \in S
  <2> SUFFICES ASSUME NEW t \in SUBSET (1 .. k + 1), t # {} PROVE P(t)
    OBVIOUS
  <2> DEFINE u == t \ {k + 1}
  <2>1. u \in SUBSET (1 .. k) /\ \A y \in t : y = k + 1 \/ y \in u
    <3>1. \A y \in 1 .. k + 1 : y # k + 1 => y \in 1 .. k
      OBVIOUS
    <3> QED BY <3>1
  <2>2. CASE u = {}
    <3>1. \A y \in t : y = k + 1
      BY <2>1, <2>2
    <3>2. PICK x \in t : TRUE
      OBVIOUS
    <3>3. x = k + 1 /\ k + 1 <= k + 1
      BY <3>1
    <3> QED BY <3>1, <3>2, <3>3
  <2>3. CASE u # {}
    <3>1. P(u)
      <4> HIDE DEF P, u
      <4> QED BY <1>2, <2>1, <2>3
    <3>2. PICK x \in u : \A y \in u : x <= y
      BY <3>1
    <3>3. x \in t /\ x <= k + 1
      BY <2>1
    <3> HIDE DEF u
    <3> QED BY <2>1, <3>2, <3>3
  <2> QED BY <2>2, <2>3
<1>3. Nat \subseteq S
  <2> HIDE DEF S
  <2> QED BY <1>1, <1>2, InductiveSet
<1>4. n \in S
  <2> HIDE DEF S
  <2> QED BY <1>3
<1>5. P(s)
  BY <1>4
<1> QED BY <1>5, Zenon DEF Min

(* The first break of a buffer, and what the code finds by it.             *)
BreakAt(buffer) == SelectInSeq(buffer, IsBreak)

(* Where the first break of a buffer is, 0 when there is none.             *)
LEMMA BreakIs ==
    ASSUME NEW buffer \in AllTexts
    PROVE  /\ BreakAt(buffer) \in 0 .. Len(buffer)
           /\ BreakAt(buffer) = 0 => \A j \in 1 .. Len(buffer) : ~ IsBreak(buffer[j])
           /\ BreakAt(buffer) # 0 => /\ IsBreak(buffer[BreakAt(buffer)])
                                     /\ \A j \in 1 .. BreakAt(buffer) - 1 : ~ IsBreak(buffer[j])
<1> DEFINE n == Len(buffer)
           I == {i \in 1 .. n : IsBreak(buffer[i])}
<1>1. n \in Nat /\ I \in SUBSET (1 .. n)
  BY DEF AllTexts
<1>2. BreakAt(buffer) = IF I # {} THEN Min(I) ELSE 0
  BY DEF BreakAt, SelectInSeq
<1> HIDE DEF n
<1>3. CASE I = {}
  <2>1. BreakAt(buffer) = 0 /\ \A j \in 1 .. n : ~ IsBreak(buffer[j])
    BY <1>2, <1>3
  <2>2. 0 \in 0 .. n
    BY <1>1
  <2> QED BY <2>1, <2>2 DEF n
<1>4. CASE I # {}
  <2> DEFINE m == Min(I)
  <2>1. m \in I /\ \A y \in I : m <= y
    <3> HIDE DEF I
    <3> QED BY <1>1, <1>4, MinIsIn
  <2>2. BreakAt(buffer) = m
    BY <1>2, <1>4
  <2> HIDE DEF m
  <2>3. m \in 1 .. n /\ IsBreak(buffer[m])
    BY <2>1
  <2>4. \A j \in 1 .. m - 1 : j \in 1 .. n /\ ~ (m <= j)
    BY <1>1, <2>3
  <2>5. \A j \in 1 .. m - 1 : ~ IsBreak(buffer[j])
    BY <2>1, <2>4
  <2>6. m \in 0 .. n /\ m # 0
    BY <1>1, <2>3
  <2> QED BY <2>2, <2>3, <2>5, <2>6 DEF n
<1> QED BY <1>3, <1>4

(* The next j symbols after the first c.                                   *)
Piece(text, c, j) == SubSeq(text, c + 1, c + j)

(* The j symbols of a text after its first c.                              *)
LEMMA PieceIs ==
    ASSUME NEW text \in AllTexts, NEW c \in Nat, NEW j \in Nat, c + j <= Len(text)
    PROVE  /\ Piece(text, c, j) \in AllTexts /\ Len(Piece(text, c, j)) = j
           /\ \A i \in 1 .. j : Piece(text, c, j)[i] = text[c + i]
BY DEF Piece, AllTexts

(* No symbols are the empty piece.                                         *)
LEMMA PieceOfNothing ==
    ASSUME NEW text \in AllTexts, NEW c \in 0 .. Len(text)
    PROVE  Piece(text, c, 0) = <<>>
BY DEF Piece, AllTexts

(* A piece that is one longer has the next symbol of the text as well.     *)
LEMMA PieceMore ==
    ASSUME NEW text \in AllTexts, NEW c \in Nat, NEW j \in Nat, c + j < Len(text)
    PROVE  /\ Piece(text, c, j + 1) = Append(Piece(text, c, j), text[c + j + 1])
           /\ text[c + j + 1] \in Symbols
<1> DEFINE a == Piece(text, c, j)
           b == Piece(text, c, j + 1)
           x == text[c + j + 1]
           k == j + 1
<1>1. Len(text) \in Nat /\ text \in Seq(Symbols) /\ DOMAIN text = 1 .. Len(text)
  BY DEF AllTexts
<1>2. /\ c + j <= Len(text) /\ c + k <= Len(text) /\ k \in Nat /\ c + k = c + j + 1
      /\ c + j + 1 \in 1 .. Len(text)
  BY <1>1
<1>3. x \in Symbols
  BY <1>1, <1>2
<1> HIDE DEF x, k
<1>4. a \in AllTexts /\ Len(a) = j /\ \A i \in 1 .. j : a[i] = text[c + i]
  BY <1>2, PieceIs
<1>5. b \in AllTexts /\ Len(b) = k /\ \A i \in 1 .. k : b[i] = text[c + i]
  BY <1>2, PieceIs DEF k
<1> HIDE DEF a, b
<1>6. k \in 1 .. k /\ \A i \in 1 .. j : i \in 1 .. k
  BY DEF k
<1>7. b[k] = x /\ \A i \in 1 .. j : b[i] = a[i]
  BY <1>2, <1>4, <1>5, <1>6 DEF x
<1>8. b = Append(a, x)
  <2>1. a \in Seq(Symbols) /\ b \in Seq(Symbols) /\ Len(b) = j + 1 /\ b[j + 1] = x
    BY <1>4, <1>5, <1>7 DEF AllTexts, k
  <2> QED BY <1>3, <1>4, <1>7, <2>1, AppendIs
<1> QED BY <1>3, <1>8 DEF a, b, x

-----------------------------------------------------------------------------
(* After the first c symbols the text has some lines, and is in another.   *)
LinesAt(text, c, before, line) == LinesOf(Taken(text, c)) = Append(before, line)

(* The first c symbols of a text, and whether they end in a CR.            *)
LEMMA TakenText ==
    ASSUME NEW text \in AllTexts, NEW c \in 0 .. Len(text)
    PROVE  /\ Taken(text, c) \in AllTexts /\ Len(Taken(text, c)) = c
           /\ AfterCr(Taken(text, c)) <=> (c # 0 /\ text[c] = "cr")
           /\ c < Len(text) => /\ Taken(text, c + 1) = Append(Taken(text, c), text[c + 1])
                               /\ text[c + 1] \in Symbols /\ c + 1 \in 0 .. Len(text)
           /\ Taken(text, Len(text)) = text
<1> DEFINE a == Taken(text, c)
<1>1. text \in Seq(Symbols)
  BY DEF AllTexts
<1>2. /\ a \in Seq(Symbols) /\ Len(a) = c /\ (\A i \in 1 .. c : a[i] = text[i])
      /\ c < Len(text) => Taken(text, c + 1) = Append(a, text[c + 1]) /\ text[c + 1] \in Symbols
      /\ Taken(text, Len(text)) = text
  BY <1>1, TakenIs
<1> HIDE DEF a
<1>3. a # <<>> <=> c # 0
  BY <1>2
<1>4. c \in Nat /\ (c # 0 => c \in 1 .. c) /\ (c < Len(text) => c + 1 \in 0 .. Len(text))
  BY <1>1
<1>5. AfterCr(a) <=> (c # 0 /\ text[c] = "cr")
  BY <1>2, <1>3, <1>4 DEF AfterCr
<1> QED BY <1>2, <1>4, <1>5 DEF a, AllTexts

(* Symbols that are no breaks go on with the line.                         *)
LEMMA InLine ==
    ASSUME NEW text \in AllTexts, NEW c \in 0 .. Len(text), NEW before \in Seq(AllTexts),
           LinesAt(text, c, before, <<>>),
           NEW j \in Nat, c + j <= Len(text),
           \A i \in 1 .. j : ~ IsBreak(text[c + i])
    PROVE  LinesAt(text, c + j, before, Piece(text, c, j))
<1> DEFINE S == {k \in Nat : k <= j => LinesAt(text, c + k, before, Piece(text, c, k))}
<1>1. Len(text) \in Nat /\ c \in Nat
  BY DEF AllTexts
<1>2. 0 \in S
  <2>1. c + 0 = c /\ Piece(text, c, 0) = <<>>
    BY <1>1, PieceOfNothing
  <2> QED BY <2>1
<1>3. ASSUME NEW k \in Nat, k \in S PROVE k + 1 \in S
  <2> SUFFICES ASSUME k + 1 <= j
               PROVE  LinesAt(text, c + (k + 1), before, Piece(text, c, k + 1))
    OBVIOUS
  <2> DEFINE d == c + k
             line == Piece(text, c, k)
             x == text[d + 1]
             old == LinesOf(Taken(text, d))
             new == LinesOf(Taken(text, d + 1))
             n == Len(before) + 1
  <2>1. /\ d \in 0 .. Len(text) /\ d < Len(text) /\ k <= j /\ c + (k + 1) = d + 1
        /\ d \in Nat /\ c + k < Len(text) /\ c + k <= Len(text) /\ d + 1 \in 0 .. Len(text)
        /\ k + 1 \in 1 .. j
    BY <1>1
  <2>2. LinesAt(text, d, before, line)
    BY <1>3, <2>1
  <2>3. ~ IsBreak(x)
    BY <2>1
  <2>4. Piece(text, c, k + 1) = Append(line, x) /\ line \in AllTexts /\ x \in Symbols
    BY <1>1, <2>1, PieceMore, PieceIs
  <2> HIDE DEF d, line
  <2>5. Taken(text, d + 1) = Append(Taken(text, d), x) /\ Taken(text, d) \in AllTexts
    BY <2>1, TakenText
  <2> HIDE DEF x
  <2>6. LastGrows(old, new, x)
    BY <2>3, <2>4, <2>5, LinesGrow
  <2>7. old = Append(before, line)
    BY <2>2 DEF LinesAt
  <2>8. new \in Seq(AllTexts)
    <3>1. Taken(text, d + 1) \in AllTexts
      BY <2>1, TakenText
    <3> QED BY <3>1, LinesAre
  <2> HIDE DEF old, new
  <2>9. /\ n \in Nat /\ Len(before) \in Nat /\ Len(old) = n /\ old[n] = line /\ n - 1 = Len(before)
        /\ \A i \in 1 .. Len(before) : old[i] = before[i]
    BY <2>4, <2>7
  <2>10. /\ Len(new) = n /\ new[n] = Append(line, x)
         /\ \A i \in 1 .. Len(before) : new[i] = before[i]
    BY <2>6, <2>9 DEF LastGrows
  <2>11. Append(line, x) \in AllTexts
    BY <2>4 DEF AllTexts
  <2> DEFINE longer == Append(line, x)
             m == Len(before)
  <2>12. /\ m \in Nat /\ Len(new) = m + 1 /\ new[m + 1] = longer
         /\ \A i \in 1 .. m : new[i] = before[i]
    BY <2>9, <2>10
  <2> HIDE DEF longer, n, m
  <2>13. longer \in AllTexts /\ Len(before) = m
    BY <2>11 DEF longer, m
  <2>14. new = Append(before, longer)
    BY <2>8, <2>12, <2>13, AppendIs
  <2> QED BY <2>1, <2>4, <2>14 DEF LinesAt, new, longer
<1>4. Nat \subseteq S
  <2> HIDE DEF S
  <2> QED BY <1>2, <1>3, InductiveSet
<1>5. j \in S
  <2> HIDE DEF S
  <2> QED BY <1>4
<1> QED BY <1>5

(* A break ends the line; the LF of a CRLF is part of the break.           *)
LEMMA AtBreak ==
    ASSUME NEW text \in AllTexts, NEW c \in 0 .. Len(text), c < Len(text),
           NEW before, NEW line, LinesAt(text, c, before, line)
    PROVE  /\ (text[c + 1] = "cr" \/ (text[c + 1] = "lf" /\ ~ AfterCr(Taken(text, c))))
                 => LinesAt(text, c + 1, Append(before, line), <<>>)
           /\ (text[c + 1] = "lf" /\ AfterCr(Taken(text, c)))
                 => LinesAt(text, c + 1, before, line)
<1> DEFINE old == Taken(text, c)
           new == Taken(text, c + 1)
           x == text[c + 1]
<1>1. new = Append(old, x) /\ old \in AllTexts /\ x \in Symbols
  BY TakenText
<1>2. LinesOf(old) = Append(before, line)
  BY DEF LinesAt
<1> HIDE DEF old, new, x
<1>3. Ends(old, x) => LinesOf(new) = Append(Append(before, line), <<>>)
  BY <1>1, <1>2, LinesSplit
<1>4. x = "lf" /\ AfterCr(old) => LinesOf(new) = Append(before, line)
  BY <1>1, <1>2, LinesStay
<1> QED BY <1>3, <1>4 DEF LinesAt, Ends, old, new, x

(* Lines that are complete stay, and the line a text is in may go on.      *)
LEMMA LinesAtStay ==
    ASSUME NEW text \in AllTexts, NEW c \in 0 .. Len(text),
           NEW before \in Seq(AllTexts), NEW line \in AllTexts, LinesAt(text, c, before, line)
    PROVE  /\ Len(before) + 1 \in 1 .. Len(LinesOf(text))
           /\ before = Taken(LinesOf(text), Len(before))
           /\ Starts(line, LinesOf(text)[Len(before) + 1])
<1> DEFINE m == Len(before)
           old == LinesOf(Taken(text, c))
           new == LinesOf(text)
<1>1. new \in Seq(AllTexts) /\ Grows(old, new)
  BY LinesAre, LinesOfTaken DEF AllTexts
<1>2. old = Append(before, line)
  BY DEF LinesAt
<1> HIDE DEF old, new
<1>3. /\ m \in Nat /\ Len(old) = m + 1 /\ old[m + 1] = line
      /\ \A k \in 1 .. m : old[k] = before[k]
  BY <1>2
<1>4. /\ m + 1 <= Len(new) /\ (\A k \in 1 .. m : new[k] = before[k])
      /\ Starts(line, new[m + 1])
  <2>1. m + 1 - 1 = m
    BY <1>3
  <2> QED BY <1>1, <1>3, <2>1 DEF Grows
<1>5. Len(new) \in Nat /\ m + 1 \in 1 .. Len(new) /\ m \in 0 .. Len(new)
  BY <1>1, <1>3, <1>4
<1>6. before = Taken(new, m)
  <2> DEFINE first == Taken(new, m)
  <2> HIDE DEF m
  <2>1. first \in Seq(AllTexts) /\ Len(first) = m /\ \A k \in 1 .. m : first[k] = new[k]
    BY <1>1, <1>5, TakenIs
  <2> HIDE DEF first
  <2>2. Len(before) = m /\ \A k \in 1 .. m : first[k] = before[k]
    BY <1>4, <2>1 DEF m
  <2>3. first = before
    BY <2>1, <2>2
  <2> QED BY <2>3 DEF first
<1> QED BY <1>4, <1>5, <1>6 DEF new

-----------------------------------------------------------------------------
(* A buffer                                                                *)

(* Where the buffer of a text begins, and that it is the rest of the text. *)
From(text, buffer) == Len(text) - Len(buffer)
Remains(text, buffer) ==
    /\ Len(buffer) <= Len(text)
    /\ \A i \in 1 .. Len(buffer) : buffer[i] = text[From(text, buffer) + i]

(* The buffer does not begin within a CRLF; and it is not known yet if it  *)
(* does.                                                                   *)
NoLfAhead(text, buffer) ==
    AfterCr(Taken(text, From(text, buffer))) /\ buffer # <<>> => buffer[1] # "lf"
CrAtEnd(text, buffer) == AfterCr(Taken(text, From(text, buffer))) /\ buffer = <<>>

NoBreaks(line) == \A i \in DOMAIN line : ~ IsBreak(line[i])

(* Where in the text a buffer begins that is the end of it.                *)
LEMMA FromIs ==
    ASSUME NEW text \in AllTexts, NEW buffer \in AllTexts, Remains(text, buffer)
    PROVE  /\ Len(text) \in Nat /\ Len(buffer) \in Nat
           /\ From(text, buffer) \in 0 .. Len(text) /\ From(text, buffer) \in Nat
           /\ From(text, buffer) + Len(buffer) = Len(text)
<1>1. Len(text) \in Nat /\ Len(buffer) \in Nat
  BY DEF AllTexts
<1> QED BY <1>1 DEF From, Remains

(* The code finds the next line: it is the piece of the text up to the     *)
(* break.                                                                  *)
LEMMA FirstLineIs ==
    ASSUME NEW text \in AllTexts, NEW buffer \in AllTexts, Remains(text, buffer)
    PROVE  /\ FirstLine(buffer) \in AllTexts /\ NoBreaks(FirstLine(buffer))
           /\ BreakAt(buffer) # 0 =>
                 /\ BreakAt(buffer) - 1 \in Nat
                 /\ FirstLine(buffer) = Piece(text, From(text, buffer), BreakAt(buffer) - 1)
                 /\ \A i \in 1 .. BreakAt(buffer) - 1 : ~ IsBreak(text[From(text, buffer) + i])
           /\ BreakAt(buffer) = 0 =>
                 /\ FirstLine(buffer) = Piece(text, From(text, buffer), Len(buffer))
                 /\ \A i \in 1 .. Len(buffer) : ~ IsBreak(text[From(text, buffer) + i])
<1> DEFINE b == BreakAt(buffer)
           c == From(text, buffer)
           line == FirstLine(buffer)
<1>1. /\ c \in Nat /\ Len(buffer) \in Nat /\ c + Len(buffer) = Len(text)
      /\ \A i \in 1 .. Len(buffer) : buffer[i] = text[c + i]
  BY FromIs DEF Remains
<1>2. /\ b \in 0 .. Len(buffer)
      /\ b = 0 => \A j \in 1 .. Len(buffer) : ~ IsBreak(buffer[j])
      /\ b # 0 => IsBreak(buffer[b]) /\ \A j \in 1 .. b - 1 : ~ IsBreak(buffer[j])
  BY BreakIs
<1>3. line = IF b = 0 THEN buffer ELSE SubSeq(buffer, 1, b - 1)
  BY DEF FirstLine, BreakAt
<1> HIDE DEF b, c, line
<1> DEFINE n == IF b = 0 THEN Len(buffer) ELSE b - 1
           piece == Piece(text, c, n)
<1>4. n \in Nat /\ n <= Len(buffer) /\ c + n <= Len(text) /\ \A i \in 1 .. n : i \in 1 .. Len(buffer)
  BY <1>1, <1>2
<1>5. piece \in AllTexts /\ Len(piece) = n /\ \A i \in 1 .. n : piece[i] = text[c + i]
  BY <1>1, <1>4, PieceIs
<1>6. line \in AllTexts /\ Len(line) = n /\ \A i \in 1 .. n : line[i] = buffer[i]
  <2>1. CASE b = 0
    BY <1>3, <2>1
  <2>2. CASE b # 0
    <3>1. buffer \in Seq(Symbols) /\ b - 1 \in 0 .. Len(buffer) /\ n = b - 1
      BY <1>1, <1>2, <2>2 DEF AllTexts
    <3>2. line = Taken(buffer, b - 1)
      BY <1>3, <2>2 DEF Taken
    <3> QED BY <3>1, <3>2, TakenIs DEF AllTexts
  <2> QED BY <2>1, <2>2
<1>7. \A i \in 1 .. n : ~ IsBreak(buffer[i])
  BY <1>2
<1> HIDE DEF n, piece
<1>8. \A i \in 1 .. n : ~ IsBreak(text[c + i]) /\ ~ IsBreak(line[i]) /\ line[i] = piece[i]
  BY <1>1, <1>4, <1>5, <1>6, <1>7
<1>9. line = piece
  BY <1>5, <1>6, <1>8 DEF AllTexts
<1>10. NoBreaks(line)
  <2>1. DOMAIN line = 1 .. n
    BY <1>6 DEF AllTexts
  <2> QED BY <1>8, <2>1 DEF NoBreaks
<1>11. CASE b = 0
  <2>1. n = Len(buffer)
    BY <1>11 DEF n
  <2> QED BY <1>6, <1>8, <1>9, <1>10, <1>11, <2>1 DEF piece, b, c, line
<1>12. CASE b # 0
  <2>1. n = b - 1 /\ b - 1 \in Nat
    BY <1>4, <1>12 DEF n
  <2> QED BY <1>6, <1>8, <1>9, <1>10, <1>12, <2>1 DEF piece, b, c, line
<1> QED BY <1>11, <1>12

(* What is left when the line and its break are taken.                     *)
TwoAt(buffer, i) == i < Len(buffer) /\ buffer[i] = "cr" /\ buffer[i + 1] = "lf"
Skipped(buffer) == IF TwoAt(buffer, BreakAt(buffer)) THEN BreakAt(buffer) + 1 ELSE BreakAt(buffer)

(* What is left of a buffer after its first line is the end of the text    *)
(* again, and is shorter.                                                  *)
LEMMA RestIs ==
    ASSUME NEW text \in AllTexts, NEW buffer \in AllTexts, Remains(text, buffer), BreakAt(buffer) # 0
    PROVE  /\ Skipped(buffer) \in 1 .. Len(buffer)
           /\ Rest(buffer) \in AllTexts /\ Remains(text, Rest(buffer))
           /\ Len(Rest(buffer)) < Len(buffer)
           /\ Rest(buffer) # <<>> <=> Skipped(buffer) < Len(buffer)
           /\ Rest(buffer) # <<>> => Rest(buffer)[1] = buffer[Skipped(buffer) + 1]
           /\ From(text, Rest(buffer)) = From(text, buffer) + Skipped(buffer)
<1> DEFINE b == BreakAt(buffer)
           c == From(text, buffer)
           k == Skipped(buffer)
           n == Len(buffer)
           rest == Rest(buffer)
<1>1. /\ c \in Nat /\ n \in Nat /\ c + n = Len(text) /\ Len(text) \in Nat
      /\ \A i \in 1 .. n : buffer[i] = text[c + i]
  BY FromIs DEF Remains
<1>2. b \in 0 .. n /\ b # 0
  BY BreakIs
<1>3. rest = SubSeq(buffer, b + (IF TwoAt(buffer, b) THEN 2 ELSE 1), n)
  BY <1>2 DEF Rest, BreakAt, TwoAt
<1>4. k = IF TwoAt(buffer, b) THEN b + 1 ELSE b
  BY DEF Skipped
<1>5. TwoAt(buffer, b) => b < n
  BY DEF TwoAt
<1> HIDE DEF b, c, k, n, rest
<1>6. k \in 1 .. n
  BY <1>1, <1>2, <1>4, <1>5
<1>7. rest = SubSeq(buffer, k + 1, n)
  <2>1. b + (IF TwoAt(buffer, b) THEN 2 ELSE 1) = k + 1
    BY <1>1, <1>2, <1>4
  <2> QED BY <1>3, <2>1
<1>8. rest \in AllTexts /\ Len(rest) = n - k /\ \A i \in 1 .. n - k : rest[i] = buffer[k + i]
  <2>1. buffer \in Seq(Symbols) /\ Len(buffer) = n
    BY DEF AllTexts, n
  <2> QED BY <1>1, <1>6, <1>7, <2>1 DEF AllTexts
<1>9. Len(text) - (n - k) = c + k /\ n - k <= Len(text) /\ n - k < n
  BY <1>1, <1>6
<1>10. From(text, rest) = c + k
  BY <1>8, <1>9 DEF From
<1>11. \A i \in 1 .. n - k : rest[i] = text[(c + k) + i]
  <2>1. \A i \in 1 .. n - k : k + i \in 1 .. n /\ c + (k + i) = (c + k) + i
    BY <1>1, <1>6
  <2> QED BY <1>1, <1>8, <2>1
<1>12. Remains(text, rest)
  BY <1>8, <1>9, <1>10, <1>11 DEF Remains
<1>13. rest # <<>> <=> k < n
  BY <1>1, <1>6, <1>8 DEF AllTexts
<1>14. rest # <<>> => rest[1] = buffer[k + 1]
  <2>1. k < n => 1 \in 1 .. n - k
    BY <1>1, <1>6
  <2> QED BY <1>8, <1>13, <2>1
<1> QED BY <1>6, <1>8, <1>9, <1>10, <1>12, <1>13, <1>14 DEF b, c, k, n, rest

(* A line that ends with a break: with it one more line is read.           *)
LEMMA LineWithBreak ==
    ASSUME NEW text \in AllTexts, NEW buffer \in AllTexts, Remains(text, buffer),
           NoLfAhead(text, buffer),
           NEW before \in Seq(AllTexts), LinesAt(text, From(text, buffer), before, <<>>),
           BreakAt(buffer) # 0
    PROVE  /\ LinesAt(text, From(text, Rest(buffer)), Append(before, FirstLine(buffer)), <<>>)
           /\ NoLfAhead(text, Rest(buffer))
           /\ HasLine(buffer, FALSE) => ~ CrAtEnd(text, Rest(buffer))
<1> DEFINE b == BreakAt(buffer)
           c == From(text, buffer)
           k == Skipped(buffer)
           n == Len(buffer)
           rest == Rest(buffer)
           line == FirstLine(buffer)
           two == TwoAt(buffer, b)
           d == c + (b - 1)
<1>1. /\ c \in Nat /\ c \in 0 .. Len(text) /\ n \in Nat /\ c + n = Len(text) /\ Len(text) \in Nat
      /\ \A i \in 1 .. n : buffer[i] = text[c + i]
  BY FromIs DEF Remains
<1>2. b \in 1 .. n /\ IsBreak(buffer[b]) /\ \A j \in 1 .. b - 1 : ~ IsBreak(buffer[j])
  <2>1. b \in 0 .. n /\ b # 0
    BY BreakIs
  <2>2. b \in 1 .. n
    BY <1>1, <2>1
  <2> QED BY <2>2, BreakIs
<1>3. /\ line \in AllTexts /\ b - 1 \in Nat /\ line = Piece(text, c, b - 1)
      /\ \A i \in 1 .. b - 1 : ~ IsBreak(text[c + i])
  BY FirstLineIs
<1>4. /\ k \in 1 .. n /\ rest \in AllTexts /\ (rest # <<>> <=> k < n)
      /\ rest # <<>> => rest[1] = buffer[k + 1]
      /\ From(text, rest) = c + k
  BY RestIs
<1>5. /\ k = IF two THEN b + 1 ELSE b
      /\ two <=> b < n /\ buffer[b] = "cr" /\ buffer[b + 1] = "lf"
  BY DEF Skipped, TwoAt
<1>6. HasLine(buffer, FALSE) => buffer[b] = "lf" \/ b < n
  BY <1>2 DEF HasLine, BreakAt
<1>7. AfterCr(Taken(text, c)) /\ buffer # <<>> => buffer[1] # "lf"
  BY DEF NoLfAhead
<1>8. buffer # <<>>
  BY <1>1, <1>2
<1> HIDE DEF b, c, k, n, rest, line, two
<1>9. /\ d \in 0 .. Len(text) /\ d < Len(text) /\ d + 1 = c + b /\ c + (b - 1) <= Len(text)
      /\ c + b \in 0 .. Len(text)
  BY <1>1, <1>2
<1>10. LinesAt(text, d, before, line)
  <2> DEFINE j == b - 1
  <2> HIDE DEF j
  <2>1. /\ j \in Nat /\ c + j <= Len(text) /\ \A i \in 1 .. j : ~ IsBreak(text[c + i])
        /\ LinesAt(text, c, before, <<>>)
    BY <1>3, <1>9 DEF c, j
  <2>2. LinesAt(text, c + j, before, Piece(text, c, j))
    BY <1>1, <2>1, InLine
  <2> QED BY <1>3, <2>2 DEF j
<1>11. text[d + 1] = buffer[b] /\ buffer[b] \in {"cr", "lf"}
  BY <1>1, <1>2, <1>9 DEF IsBreak
<1>12. buffer[b] = "lf" => ~ AfterCr(Taken(text, d))
  <2>1. CASE b = 1
    <3>1. d = c
      BY <1>1, <2>1
    <3> QED BY <1>7, <1>8, <2>1, <3>1
  <2>2. CASE b # 1
    <3>1. b - 1 \in 1 .. b - 1 /\ d = c + (b - 1)
      BY <1>1, <1>2, <2>2
    <3>2. ~ IsBreak(text[d])
      BY <1>3, <3>1
    <3> QED BY <1>9, <3>2, TakenText DEF IsBreak
  <2> QED BY <2>1, <2>2
<1> HIDE DEF d
<1>13. LinesAt(text, c + b, Append(before, line), <<>>)
  <2>1. LinesAt(text, d + 1, Append(before, line), <<>>)
    BY <1>9, <1>10, <1>11, <1>12, AtBreak
  <2> QED BY <1>9, <2>1
<1>14. AfterCr(Taken(text, c + b)) <=> buffer[b] = "cr"
  <2> DEFINE e == c + b
  <2>1. e \in 0 .. Len(text) /\ e # 0 /\ text[e] = buffer[b]
    BY <1>1, <1>2, <1>9, <1>11
  <2> HIDE DEF e
  <2>2. AfterCr(Taken(text, e)) <=> buffer[b] = "cr"
    BY <2>1, TakenText
  <2> QED BY <2>2 DEF e
<1>15. CASE two
  <2> DEFINE e == c + b
  <2>1. /\ e \in 0 .. Len(text) /\ e < Len(text) /\ e + 1 = c + k /\ c + k \in 0 .. Len(text)
        /\ c + k # 0
    BY <1>1, <1>2, <1>5, <1>15
  <2>2. text[e + 1] = buffer[b + 1] /\ buffer[b + 1] = "lf" /\ buffer[b] = "cr"
    <3>1. b + 1 \in 1 .. n /\ c + (b + 1) = e + 1
      BY <1>1, <1>2, <1>5, <1>15
    <3> QED BY <1>1, <1>5, <1>15, <3>1
  <2>3. LinesAt(text, e, Append(before, line), <<>>) /\ AfterCr(Taken(text, e))
    BY <1>13, <1>14, <2>2
  <2> HIDE DEF e
  <2>4. LinesAt(text, c + k, Append(before, line), <<>>)
    BY <2>1, <2>2, <2>3, AtBreak
  <2>5. ~ AfterCr(Taken(text, c + k))
    <3> DEFINE f == c + k
    <3>1. f \in 0 .. Len(text) /\ text[f] = "lf"
      BY <2>1, <2>2
    <3> HIDE DEF f
    <3>2. ~ AfterCr(Taken(text, f))
      BY <3>1, TakenText
    <3> QED BY <3>2 DEF f
  <2> QED BY <1>4, <2>4, <2>5 DEF NoLfAhead, CrAtEnd, c, k, rest, line
<1>16. CASE ~ two
  <2>1. k = b
    BY <1>5, <1>16
  <2>2. LinesAt(text, From(text, rest), Append(before, line), <<>>)
    BY <1>4, <1>13, <2>1
  <2>3. buffer[b] = "cr" /\ rest # <<>> => rest[1] # "lf"
    BY <1>4, <1>5, <1>16, <2>1
  <2>4. HasLine(buffer, FALSE) /\ buffer[b] = "cr" => rest # <<>>
    BY <1>4, <1>6, <2>1
  <2>5. AfterCr(Taken(text, From(text, rest))) <=> buffer[b] = "cr"
    BY <1>4, <1>14, <2>1
  <2> QED BY <2>2, <2>3, <2>4, <2>5 DEF NoLfAhead, CrAtEnd, rest, line
<1> QED BY <1>15, <1>16

(* The last line needs no break.                                           *)
LEMMA LineWithoutBreak ==
    ASSUME NEW text \in AllTexts, NEW buffer \in AllTexts, Remains(text, buffer),
           NEW before \in Seq(AllTexts), LinesAt(text, From(text, buffer), before, <<>>),
           BreakAt(buffer) = 0
    PROVE  /\ Rest(buffer) = <<>>
           /\ FirstLine(buffer) = buffer
           /\ LinesAt(text, Len(text), before, FirstLine(buffer))
<1> DEFINE c == From(text, buffer)
           j == Len(buffer)
<1>1. /\ c \in 0 .. Len(text) /\ c + j = Len(text) /\ j \in Nat /\ Len(text) \in Nat
  BY FromIs
<1>2. /\ FirstLine(buffer) = Piece(text, c, j)
      /\ \A i \in 1 .. j : ~ IsBreak(text[c + i])
  BY FirstLineIs
<1>3. Rest(buffer) = <<>> /\ FirstLine(buffer) = buffer
  BY DEF Rest, FirstLine, BreakAt
<1> HIDE DEF c, j
<1>4. c + j <= Len(text) /\ LinesAt(text, c, before, <<>>)
  BY <1>1 DEF c
<1>5. LinesAt(text, c + j, before, Piece(text, c, j))
  BY <1>1, <1>2, <1>4, InLine
<1> QED BY <1>1, <1>2, <1>3, <1>5

-----------------------------------------------------------------------------
(* The parser                                                              *)

Phases == {"reading", "failed", "completed", "stopped"}

(* The record the parser is.                                               *)
Parser == [phase : Phases, text : AllTexts, buffer : AllTexts, lines : Seq(AllTexts),
           events : Seq(Seq(AllTexts))]

(* The parser has what some lines yield and collect.                       *)
Digest(s, lines) == s.lines = Pending(lines) /\ s.events = Done(lines)

(* It is at the beginning of a line, or has read all of the last one.      *)
AtLine(s) ==
    /\ Remains(s.text, s.buffer)
    /\ NoLfAhead(s.text, s.buffer)
    /\ \E before \in Seq(AllTexts) :
          LinesAt(s.text, From(s.text, s.buffer), before, <<>>) /\ Digest(s, before)

AtEnd(s) == s.buffer = <<>> /\ Digest(s, LinesOf(s.text))

(* It has refused an event that is too long.                               *)
TooMuchData(text) == \E i \in DOMAIN EventsOf(text) : Bytes(EventsOf(text)[i]) > MaxData
Refused(s) ==
    s.phase = "failed" /\ Starts(s.events, EventsOf(s.text)) /\ TooMuchData(s.text)

(* The lines are the first of the lines of a text.                         *)
Within(lines, text) == \E n \in 0 .. Len(LinesOf(text)) : lines = Taken(LinesOf(text), n)

(* What the first lines of a text leave behind is the beginning of what    *)
(* all of it yields, and data that is too much for one of its events is    *)
(* too much for the text.                                                  *)
LEMMA WithinIs ==
    ASSUME NEW text \in AllTexts, NEW lines \in Seq(AllTexts), Within(lines, text)
    PROVE  /\ Starts(Done(lines), EventsOf(text))
           /\ Pending(lines) # <<>> /\ Bytes(Pending(lines)) > MaxData => TooMuchData(text)
<1> DEFINE all == LinesOf(text)
           events == EventsOf(text)
<1>1. all \in Seq(AllTexts)
  BY LinesAre
<1>2. PICK n \in 0 .. Len(all) : lines = Taken(all, n)
  BY DEF Within
<1>3. events = EventsIn(all) /\ events \in Seq(Seq(AllTexts))
  BY <1>1, EventsAre DEF EventsOf
<1> HIDE DEF all, events
<1>4. /\ Starts(Done(lines), events)
      /\ Pending(lines) # <<>> => \E i \in DOMAIN events : Starts(Pending(lines), events[i])
  BY <1>1, <1>2, <1>3, DoneStays
<1>5. ASSUME Pending(lines) # <<>>, Bytes(Pending(lines)) > MaxData
      PROVE  \E i \in DOMAIN events : Bytes(events[i]) > MaxData
  <2>1. PICK i \in DOMAIN events : Starts(Pending(lines), events[i])
    BY <1>4, <1>5
  <2>2. events[i] \in Seq(AllTexts) /\ Pending(lines) \in Seq(AllTexts)
    BY <1>3, DigestIs
  <2>3. Bytes(Pending(lines)) \in Nat /\ Bytes(events[i]) \in Nat
        /\ Bytes(Pending(lines)) <= Bytes(events[i])
    BY <2>1, <2>2, BytesGrow
  <2>4. MaxData \in Nat
    BY SseLimitsAssumption
  <2>5. Bytes(events[i]) > MaxData
    BY <1>5, <2>3, <2>4
  <2> QED BY <2>5
<1> QED BY <1>4, <1>5 DEF TooMuchData, events

(* The lines of the beginning of a text, without the last, are first lines *)
(* of the whole text.                                                      *)
LEMMA AppendWithin ==
    ASSUME NEW text \in AllTexts, NEW c \in 0 .. Len(text), NEW before \in Seq(AllTexts),
           NEW line \in AllTexts, LinesAt(text, c, before, line)
    PROVE  /\ Within(before, text)
           /\ c = Len(text) => /\ LinesOf(text) = Append(before, line)
                               /\ Within(Append(before, line), text)
<1> DEFINE all == LinesOf(text)
           m == Len(before)
           more == Append(before, line)
<1>1. m + 1 \in 1 .. Len(all) /\ before = Taken(all, m) /\ m \in Nat
  BY LinesAtStay
<1> HIDE DEF m
<1>2. all \in Seq(AllTexts) /\ Len(all) \in Nat
  BY LinesAre
<1> HIDE DEF all
<1>3. m \in 0 .. Len(all)
  BY <1>1, <1>2
<1>4. Within(before, text)
  BY <1>1, <1>3 DEF Within, all
<1>5. ASSUME c = Len(text) PROVE all = more /\ Within(more, text)
  <2>1. Taken(text, c) = text
    BY <1>5, TakenText
  <2>2. all = more
    BY <2>1 DEF LinesAt, all
  <2> HIDE DEF more
  <2>3. more = Taken(all, Len(all)) /\ Len(all) \in 0 .. Len(all)
    BY <1>2, <2>2, TakenIs
  <2> QED BY <2>2, <2>3 DEF Within, all
<1> QED BY <1>4, <1>5 DEF all, more

(* consumeLine keeps the digest, or finds the event too long.              *)
LEMMA ConsumedIs ==
    ASSUME NEW s \in Parser, NEW lines \in Seq(AllTexts), Digest(s, lines),
           NEW line \in AllTexts, NoBreaks(line)
    PROVE  /\ Consumed(s, line) \in Parser
           /\ Consumed(s, line).text = s.text /\ Consumed(s, line).buffer = s.buffer
           /\ \/ Consumed(s, line).phase = s.phase /\ Digest(Consumed(s, line), Append(lines, line))
              \/ /\ Consumed(s, line).phase = "failed"
                 /\ Consumed(s, line).events = Done(Append(lines, line))
                 /\ Pending(Append(lines, line)) # <<>>
                 /\ Bytes(Pending(Append(lines, line))) > MaxData
<1> DEFINE u == Consumed(s, line)
           more == Append(lines, line)
           longer == Append(s.lines, Tail(line))
<1>1. /\ s.phase \in Phases /\ s.text \in AllTexts /\ s.buffer \in AllTexts /\ s.lines \in Seq(AllTexts)
      /\ s.events \in Seq(Seq(AllTexts))
  BY DEF Parser
<1>2. s.lines = Pending(lines) /\ s.events = Done(lines)
  BY DEF Digest
<1>3. CASE line = <<>>
  <2>1. Pending(more) = <<>> /\ Done(more) = IF Pending(lines) = <<>> THEN Done(lines)
                                             ELSE Append(Done(lines), Pending(lines))
    BY <1>3, DigestOfEmpty
  <2> HIDE DEF more
  <2>2. CASE s.lines = <<>>
    <3>1. u = s
      BY <1>3, <2>2 DEF Consumed
    <3>2. Digest(s, more)
      BY <1>2, <2>1, <2>2 DEF Digest
    <3> HIDE DEF u
    <3> QED BY <3>1, <3>2 DEF u, more
  <2>3. CASE s.lines # <<>>
    <3>1. u = [s EXCEPT !.events = Append(s.events, s.lines), !.lines = <<>>]
      BY <1>3, <2>3 DEF Consumed
    <3> HIDE DEF u
    <3>2. Append(s.events, s.lines) \in Seq(Seq(AllTexts)) /\ <<>> \in Seq(AllTexts)
      BY <1>1
    <3>3. u \in Parser /\ u.text = s.text /\ u.buffer = s.buffer /\ u.phase = s.phase
          /\ u.lines = <<>> /\ u.events = Append(s.events, s.lines)
      BY <3>1, <3>2 DEF Parser
    <3>4. Digest(u, more)
      BY <1>2, <2>1, <2>3, <3>3 DEF Digest
    <3> QED BY <3>3, <3>4 DEF u, more
  <2> QED BY <2>2, <2>3
<1>4. CASE line # <<>>
  <2>1. Done(more) = Done(lines) /\ Pending(more) = IF IsData(line)
                                                    THEN Append(Pending(lines), Tail(line))
                                                    ELSE Pending(lines)
    BY <1>4, DigestOfLine
  <2>2. Head(line) = "x" \/ Head(line) = "data"
    <3>1. 1 \in DOMAIN line /\ line[1] \in Symbols /\ Head(line) = line[1]
      BY <1>4 DEF AllTexts
    <3>2. ~ IsBreak(line[1])
      BY <3>1 DEF NoBreaks
    <3> QED BY <3>1, <3>2 DEF Symbols, IsBreak
  <2> HIDE DEF more
  <2>3. CASE Head(line) = "x"
    <3>1. u = s
      BY <1>4, <2>3 DEF Consumed
    <3>2. ~ IsData(line)
      BY <2>3 DEF IsData
    <3>3. Digest(s, more)
      BY <1>2, <2>1, <3>2 DEF Digest
    <3> HIDE DEF u
    <3> QED BY <3>1, <3>3 DEF u, more
  <2>4. CASE Head(line) = "data"
    <3>1. IsData(line)
      BY <1>4, <2>4 DEF IsData
    <3>2. Tail(line) \in AllTexts
      BY <3>1, TailIs
    <3>3. longer = Pending(more) /\ longer \in Seq(AllTexts) /\ longer # <<>>
      <4> DEFINE a == s.lines
                 x == Tail(line)
      <4>1. a \in Seq(AllTexts) /\ x \in AllTexts
        BY <1>1, <3>2
      <4>2. Append(a, x) = Pending(more)
        BY <1>2, <2>1, <3>1
      <4> HIDE DEF a, x
      <4>3. Append(a, x) \in Seq(AllTexts) /\ Append(a, x) # <<>>
        BY <4>1
      <4> QED BY <4>2, <4>3 DEF a, x
    <3>4. u = IF Bytes(longer) > MaxData THEN [s EXCEPT !.phase = "failed"]
              ELSE [s EXCEPT !.lines = longer]
      BY <1>4, <2>4 DEF Consumed
    <3> HIDE DEF u, longer
    <3>5. CASE Bytes(longer) > MaxData
      <4>1. u \in Parser /\ u.text = s.text /\ u.buffer = s.buffer /\ u.phase = "failed"
            /\ u.events = s.events
        BY <3>4, <3>5 DEF Parser, Phases
      <4> QED BY <1>2, <2>1, <3>3, <3>5, <4>1 DEF u, more
    <3>6. CASE ~ (Bytes(longer) > MaxData)
      <4>1. u \in Parser /\ u.text = s.text /\ u.buffer = s.buffer /\ u.phase = s.phase
            /\ u.events = s.events /\ u.lines = longer
        BY <3>3, <3>4, <3>6 DEF Parser
      <4>2. Digest(u, more)
        BY <1>2, <2>1, <3>3, <4>1 DEF Digest
      <4> QED BY <4>1, <4>2 DEF u, more
    <3> QED BY <3>5, <3>6
  <2> QED BY <2>2, <2>3, <2>4
<1> QED BY <1>3, <1>4

-----------------------------------------------------------------------------
(* The inner loop                                                          *)

(* One turn of it, and when there is one.                                  *)
LineRead(s) == Consumed([s EXCEPT !.buffer = Rest(@)], FirstLine(s.buffer))
Busy(s, final) == s.phase = "reading" /\ HasLine(s.buffer, final)

(* What holds before and after a turn.                                     *)
DrainInv(s, final) ==
    \/ Refused(s)
    \/ s.phase = "reading" /\ AtLine(s) /\ (final \/ ~ CrAtEnd(s.text, s.buffer))
    \/ s.phase = "reading" /\ AtEnd(s) /\ final

(* One pass of the inner loop keeps the invariant and shortens the buffer. *)
LEMMA LineReadKeeps ==
    ASSUME NEW s \in Parser, NEW final \in BOOLEAN, DrainInv(s, final), Busy(s, final)
    PROVE  /\ LineRead(s) \in Parser /\ LineRead(s).text = s.text
           /\ Len(LineRead(s).buffer) < Len(s.buffer)
           /\ DrainInv(LineRead(s), final)
<1> DEFINE text == s.text
           buffer == s.buffer
           rest == Rest(buffer)
           line == FirstLine(buffer)
           t == [s EXCEPT !.buffer = rest]
           u == LineRead(s)
           b == BreakAt(buffer)
<1>1. text \in AllTexts /\ buffer \in AllTexts /\ s.phase = "reading" /\ HasLine(buffer, final)
  BY DEF Parser, Busy
<1>2. buffer # <<>>
  <2>1. b \in 0 .. Len(buffer)
    BY <1>1, BreakIs
  <2>2. Len(<<>>) = 0
    OBVIOUS
  <2> HIDE DEF b
  <2>3. b = 0 => buffer # <<>>
    BY <1>1 DEF HasLine, BreakAt, b
  <2> HIDE DEF buffer
  <2>4. b # 0 => Len(buffer) # 0
    BY <1>1, <2>1 DEF AllTexts
  <2> QED BY <2>2, <2>3, <2>4
<1>3. AtLine(s) /\ (final \/ ~ CrAtEnd(text, buffer))
  BY <1>1, <1>2 DEF DrainInv, Refused, AtEnd
<1>4. PICK before \in Seq(AllTexts) :
         LinesAt(text, From(text, buffer), before, <<>>) /\ Digest(s, before)
  BY <1>3 DEF AtLine
<1>5. Remains(text, buffer) /\ NoLfAhead(text, buffer)
  BY <1>3 DEF AtLine
<1> DEFINE more == Append(before, line)
<1>6. /\ line \in AllTexts /\ NoBreaks(line) /\ rest \in AllTexts /\ Len(rest) < Len(buffer)
      /\ more \in Seq(AllTexts) /\ Within(more, text)
      /\ \/ /\ Remains(text, rest) /\ NoLfAhead(text, rest)
            /\ LinesAt(text, From(text, rest), more, <<>>)
            /\ final \/ ~ CrAtEnd(text, rest)
         \/ final /\ rest = <<>> /\ LinesOf(text) = more
  <2> HIDE DEF text, buffer
  <2>1. line \in AllTexts /\ NoBreaks(line)
    BY <1>1, <1>5, FirstLineIs
  <2>2. more \in Seq(AllTexts)
    BY <2>1
  <2>3. CASE b # 0
    <3>1. rest \in AllTexts /\ Remains(text, rest) /\ Len(rest) < Len(buffer)
      BY <1>1, <1>5, <2>3, RestIs
    <3>2. /\ LinesAt(text, From(text, rest), more, <<>>) /\ NoLfAhead(text, rest)
          /\ HasLine(buffer, FALSE) => ~ CrAtEnd(text, rest)
      BY <1>1, <1>4, <1>5, <2>3, LineWithBreak
    <3>3. final \/ ~ CrAtEnd(text, rest)
      BY <1>1, <3>2
    <3>4. Within(more, text)
      <4> DEFINE c == From(text, rest)
      <4>1. c \in 0 .. Len(text)
        BY <1>1, <3>1, FromIs
      <4>2. <<>> \in AllTexts /\ LinesAt(text, c, more, <<>>)
        BY <3>2 DEF AllTexts
      <4> HIDE DEF c, more
      <4> QED BY <1>1, <2>2, <4>1, <4>2, AppendWithin
    <3> QED BY <2>1, <2>2, <3>1, <3>2, <3>3, <3>4
  <2>4. CASE b = 0
    <3>1. rest = <<>> /\ line = buffer /\ LinesAt(text, Len(text), before, line)
      BY <1>1, <1>4, <1>5, <2>4, LineWithoutBreak
    <3>2. Len(text) \in 0 .. Len(text)
      <4>1. Len(text) \in Nat
        BY <1>1 DEF AllTexts
      <4> QED BY <4>1
    <3>3. LinesOf(text) = more /\ Within(more, text)
      BY <1>1, <2>1, <3>1, <3>2, AppendWithin
    <3>4. final
      BY <1>1, <2>4 DEF HasLine, BreakAt
    <3>5. rest \in AllTexts /\ Len(rest) < Len(buffer)
      BY <1>1, <1>2, <3>1 DEF AllTexts
    <3> QED BY <2>1, <2>2, <3>1, <3>3, <3>4, <3>5
  <2> QED BY <2>3, <2>4
<1> HIDE DEF line, rest
<1>7. t \in Parser /\ t.text = text /\ t.buffer = rest /\ t.phase = "reading" /\ Digest(t, before)
  BY <1>1, <1>4, <1>6 DEF Parser, Digest
<1>8. u = Consumed(t, line)
  BY DEF LineRead, line, rest
<1> HIDE DEF t, u, text, buffer
<1>9. /\ u \in Parser /\ u.text = text /\ u.buffer = rest
      /\ \/ u.phase = "reading" /\ Digest(u, more)
         \/ /\ u.phase = "failed" /\ u.events = Done(more)
            /\ Pending(more) # <<>> /\ Bytes(Pending(more)) > MaxData
  BY <1>6, <1>7, <1>8, ConsumedIs
<1> HIDE DEF more
<1>10. CASE u.phase = "failed" /\ u.events = Done(more)
            /\ Pending(more) # <<>> /\ Bytes(Pending(more)) > MaxData
  <2>1. Starts(Done(more), EventsOf(text)) /\ TooMuchData(text)
    BY <1>1, <1>6, <1>10, WithinIs
  <2>2. Refused(u)
    BY <1>9, <1>10, <2>1 DEF Refused
  <2> QED BY <1>6, <1>9, <2>2 DEF DrainInv, u, text, buffer
<1>11. CASE u.phase = "reading" /\ Digest(u, more)
  <2>1. CASE /\ Remains(text, rest) /\ NoLfAhead(text, rest)
             /\ LinesAt(text, From(text, rest), more, <<>>)
             /\ final \/ ~ CrAtEnd(text, rest)
    <3>1. AtLine(u) /\ (final \/ ~ CrAtEnd(u.text, u.buffer))
      BY <1>6, <1>9, <1>11, <2>1 DEF AtLine
    <3> QED BY <1>6, <1>9, <1>11, <3>1 DEF DrainInv, u, text, buffer
  <2>2. CASE final /\ rest = <<>> /\ LinesOf(text) = more
    <3>1. AtEnd(u)
      BY <1>9, <1>11, <2>2 DEF AtEnd
    <3> QED BY <1>6, <1>9, <1>11, <2>2, <3>1 DEF DrainInv, u, text, buffer
  <2> QED BY <1>6, <2>1, <2>2
<1> QED BY <1>9, <1>10, <1>11

(* The loop keeps what its turns keep, and ends.                           *)
LEMMA DrainedIs ==
    ASSUME NEW s \in Parser, NEW final \in BOOLEAN, DrainInv(s, final)
    PROVE  /\ Drained(s, final) \in Parser /\ Drained(s, final).text = s.text
           /\ DrainInv(Drained(s, final), final)
           /\ ~ Busy(Drained(s, final), final)
<1> DEFINE V == {u \in Parser : u.text = s.text /\ DrainInv(u, final)}
           Turn(u) == IF Busy(u, final) THEN LineRead(u) ELSE u
           n == Len(s.buffer)
           P(f) == f = [p \in SUBSET (1 .. n) |-> IF p = {} THEN s ELSE Turn(f[p \ {Max(p)}])]
           f0 == CHOOSE f : P(f)
<1>1. s.buffer \in AllTexts /\ n \in Nat /\ DOMAIN s.buffer = 1 .. n /\ s \in V
  BY DEF Parser, AllTexts
<1>2. \A u \in V : Turn(u) \in V
  BY LineReadKeeps
<1>3. \A u \in V : /\ Len(u.buffer) \in Nat
                   /\ Busy(u, final) => Len(Turn(u).buffer) < Len(u.buffer)
                   /\ ~ Busy(u, final) => Turn(u) = u
                   /\ Len(u.buffer) = 0 => ~ Busy(u, final)
  <2>1. \A u \in V : u.buffer \in AllTexts /\ Len(u.buffer) \in Nat
    BY DEF Parser, AllTexts
  <2>2. \A u \in V : Busy(u, final) => Len(Turn(u).buffer) < Len(u.buffer)
    BY LineReadKeeps
  <2>3. ASSUME NEW u \in V, Len(u.buffer) = 0 PROVE ~ Busy(u, final)
    <3>1. \A buffer \in AllTexts : BreakAt(buffer) \in 0 .. Len(buffer)
      BY BreakIs
    <3>2. BreakAt(u.buffer) = 0
      BY <2>1, <2>3, <3>1
    <3>3. u.buffer = <<>>
      BY <2>1, <2>3 DEF AllTexts
    <3> QED BY <3>2, <3>3 DEF Busy, HasLine, BreakAt
  <2> QED BY <2>1, <2>2, <2>3
<1>4. Drained(s, final) = f0[1 .. n]
  BY <1>1 DEF Drained, FoldLeft, MapThenFoldSet, Busy, LineRead
<1> HIDE DEF V, Turn, n
<1>5. \E f : P(f)
  <2> DEFINE step == [i \in 1 .. n |-> [u \in V |-> Turn(u)]]
  <2>1. \A u \in V : \A i \in 1 .. n : step[i][u] = Turn(u)
    OBVIOUS
  <2> HIDE DEF step
  <2>2. \A u \in V : \A i \in 1 .. n : step[i][u] \in V
    BY <1>2, <2>1, Zenon
  <2>3. PICK f \in [SUBSET (1 .. n) -> V] : FoldsBy(f, s, step, n)
    BY <1>1, <2>2, FoldExists
  <2>4. ASSUME NEW p \in SUBSET (1 .. n), p # {}
        PROVE  step[Max(p)][f[p \ {Max(p)}]] = Turn(f[p \ {Max(p)}])
    <3>1. Max(p) \in p
      BY <1>1, <2>4, MaxIsIn
    <3>2. p \ {Max(p)} \in SUBSET (1 .. n)
      OBVIOUS
    <3>3. f[p \ {Max(p)}] \in V /\ Max(p) \in 1 .. n
      BY <3>1, <3>2, Zenon
    <3> QED BY <2>1, <3>3, Zenon
  <2>5. P(f)
    BY <2>3, <2>4 DEF FoldsBy
  <2> QED BY <2>5
<1>6. P(f0)
  BY <1>5, Zenon
<1>7. \A p \in SUBSET (1 .. n) : f0[p] = IF p = {} THEN s ELSE Turn(f0[p \ {Max(p)}])
  <2> HIDE DEF f0
  <2> QED BY <1>6, Zenon
<1> HIDE DEF f0
<1>8. f0[1 .. 0] = s
  <2>1. 1 .. 0 = {} /\ 1 .. 0 \in SUBSET (1 .. n)
    OBVIOUS
  <2> QED BY <1>7, <2>1
<1>9. ASSUME NEW k \in 0 .. n - 1
      PROVE  f0[1 .. k + 1] = Turn(f0[1 .. k])
  <2>1. k \in Nat /\ 1 .. k + 1 \in SUBSET (1 .. n)
    BY <1>1
  <2>2. Max(1 .. k + 1) = k + 1 /\ 1 .. k + 1 # {} /\ (1 .. k + 1) \ {k + 1} = 1 .. k
    BY <2>1, IntervalMore
  <2> QED BY <1>7, <2>1, <2>2
<1> DEFINE Good(k) == /\ f0[1 .. k] \in V
                      /\ Busy(f0[1 .. k], final) => Len(f0[1 .. k].buffer) + k <= n
           S == {k \in Nat : k <= n => Good(k)}
<1>10. 0 \in S
  <2>1. Len(s.buffer) + 0 <= n
    BY <1>1 DEF n
  <2>2. Good(0)
    BY <1>1, <1>8, <2>1
  <2> HIDE DEF Good
  <2> QED BY <2>2
<1>11. ASSUME NEW k \in Nat, k \in S PROVE k + 1 \in S
  <2> HIDE DEF Good
  <2> SUFFICES ASSUME k + 1 <= n PROVE Good(k + 1)
    OBVIOUS
  <2>0. k <= n /\ Good(k)
    BY <1>1, <1>11
  <2> USE DEF Good
  <2> DEFINE u == f0[1 .. k]
             v == f0[1 .. k + 1]
  <2>1. k <= n /\ k \in 0 .. n - 1
    BY <1>1
  <2>2. u \in V /\ (Busy(u, final) => Len(u.buffer) + k <= n)
    BY <2>0
  <2>3. v = Turn(u)
    BY <1>9, <2>1
  <2> HIDE DEF u, v
  <2>4. v \in V /\ Len(u.buffer) \in Nat /\ Len(v.buffer) \in Nat
    BY <1>2, <1>3, <2>2, <2>3
  <2>5. CASE Busy(u, final)
    <3>1. Len(v.buffer) < Len(u.buffer) /\ Len(u.buffer) + k <= n
      BY <1>3, <2>2, <2>3, <2>5
    <3>2. Len(v.buffer) + (k + 1) <= n
      <4> DEFINE i == Len(u.buffer)
                 j == Len(v.buffer)
      <4>1. i \in Nat /\ j \in Nat /\ j < i /\ i + k <= n
        BY <2>4, <3>1
      <4> HIDE DEF i, j
      <4>2. j + (k + 1) <= n
        BY <1>1, <4>1
      <4> QED BY <4>2 DEF j
    <3> QED BY <2>4, <3>2 DEF v
  <2>6. CASE ~ Busy(u, final)
    <3>1. v = u
      BY <1>3, <2>2, <2>3, <2>6
    <3> QED BY <2>4, <2>6, <3>1 DEF v
  <2> QED BY <2>5, <2>6
<1>12. Nat \subseteq S
  <2> HIDE DEF S
  <2> QED BY <1>10, <1>11, InductiveSet
<1>13. Good(n)
  <2> HIDE DEF Good
  <2> QED BY <1>1, <1>12
<1> DEFINE w == f0[1 .. n]
<1>14. w \in V /\ (Busy(w, final) => Len(w.buffer) + n <= n)
  BY <1>13
<1> HIDE DEF w
<1>15. ~ Busy(w, final)
  <2>1. Len(w.buffer) \in Nat /\ (Len(w.buffer) = 0 => ~ Busy(w, final))
    BY <1>3, <1>14
  <2>2. Busy(w, final) => Len(w.buffer) = 0
    BY <1>1, <1>14, <2>1
  <2> QED BY <2>1, <2>2
<1> QED BY <1>4, <1>14, <1>15 DEF V, w

-----------------------------------------------------------------------------
(* The invariant of the parser                                             *)

(* ChunksDoNotMatter, of a record.                                         *)
LongLine(text) ==
    \E i \in DOMAIN LinesOf(text) : Len(LinesOf(text)[i]) + 1 > MaxBuffer - MaxChunk

Sound(s) ==
    /\ IsPrefix(s.events, EventsOf(s.text))
    /\ s.phase = "completed" => s.events = EventsOf(s.text)
    /\ s.phase = "failed" => TooMuchData(s.text) \/ LongLine(s.text)

(* The inductive invariant: while it reads it has consumed the lines that  *)
(* end in what it has taken from the buffer, whose end may still be the    *)
(* first half of a break.                                                  *)
ParserInv(s) ==
    /\ s \in Parser
    /\ s.phase = "reading" =>
          AtLine(s) /\ ~ CrAtEnd(s.text, s.buffer) /\ ~ HasLine(s.buffer, FALSE)
    /\ s.phase # "reading" => Sound(s)

(* To be the beginning of a list is to be its prefix.                      *)
LEMMA StartsIsPrefix ==
    ASSUME NEW V, NEW a \in Seq(V), NEW b \in Seq(V), Starts(a, b)
    PROVE  IsPrefix(a, b)
<1> DEFINE n == Len(a)
<1>1. n \in Nat /\ Len(b) \in Nat /\ n <= Len(b) /\ \A i \in 1 .. n : b[i] = a[i]
  BY DEF Starts
<1>2. n \in 0 .. Len(a) /\ n \in 0 .. Len(b)
  BY <1>1
<1> HIDE DEF n
<1> DEFINE x == Taken(a, n)
           y == Taken(b, n)
<1>3. x \in Seq(V) /\ Len(x) = n /\ \A i \in 1 .. n : x[i] = a[i]
  BY <1>2, TakenIs
<1>4. y \in Seq(V) /\ Len(y) = n /\ \A i \in 1 .. n : y[i] = b[i]
  BY <1>2, TakenIs
<1> HIDE DEF x, y
<1>5. x = y
  BY <1>1, <1>3, <1>4
<1> QED BY <1>1, <1>5 DEF IsPrefix, Taken, x, y, n

(* The events of a text are what its lines and one empty line leave        *)
(* behind.                                                                 *)
LEMMA EventsOfIs ==
    ASSUME NEW text \in AllTexts
    PROVE  /\ EventsOf(text) \in Seq(Seq(AllTexts))
           /\ EventsOf(text) = Done(Append(LinesOf(text), <<>>))
           /\ IsPrefix(EventsOf(text), EventsOf(text))
<1> DEFINE lines == LinesOf(text)
           events == EventsOf(text)
           W == Seq(AllTexts)
<1>1. lines \in Seq(AllTexts)
  BY LinesAre
<1> HIDE DEF lines
<1>2. events = EventsIn(lines)
  BY DEF EventsOf, lines
<1> HIDE DEF events, W
<1>3. events \in Seq(W) /\ events = Done(Append(lines, <<>>))
  BY <1>1, <1>2, EventsAre DEF W
<1>4. IsPrefix(events, events)
  BY <1>3, StartsIsOrder, StartsIsPrefix
<1> QED BY <1>3, <1>4 DEF events, W, lines

(* What the parser has yielded is a prefix of the events of the text.      *)
LEMMA DoneIsPrefix ==
    ASSUME NEW s \in Parser, Starts(s.events, EventsOf(s.text))
    PROVE  IsPrefix(s.events, EventsOf(s.text))
<1> DEFINE a == s.events
           b == EventsOf(s.text)
           W == Seq(AllTexts)
<1>1. a \in Seq(W) /\ b \in Seq(W) /\ Starts(a, b)
  BY EventsOfIs DEF Parser
<1> HIDE DEF a, b, W
<1>2. IsPrefix(a, b)
  BY <1>1, StartsIsPrefix
<1> QED BY <1>2 DEF a, b

(* What is yielded before the end is the beginning of the events.          *)
LEMMA AtLineIsSound ==
    ASSUME NEW s \in Parser, AtLine(s)
    PROVE  IsPrefix(s.events, EventsOf(s.text))
<1> DEFINE c == From(s.text, s.buffer)
<1>1. s.text \in AllTexts /\ s.buffer \in AllTexts /\ Remains(s.text, s.buffer)
  BY DEF Parser, AtLine
<1>2. c \in 0 .. Len(s.text)
  BY <1>1, FromIs
<1>3. PICK before \in Seq(AllTexts) : LinesAt(s.text, c, before, <<>>) /\ Digest(s, before)
  BY DEF AtLine
<1>4. <<>> \in AllTexts
  BY DEF AllTexts
<1> HIDE DEF c
<1>5. Within(before, s.text)
  BY <1>1, <1>2, <1>3, <1>4, AppendWithin
<1>6. Starts(Done(before), EventsOf(s.text))
  BY <1>1, <1>5, WithinIs
<1> QED BY <1>3, <1>6, DoneIsPrefix DEF Digest

(* An inner loop that is not the last keeps the invariant.                 *)
LEMMA DrainKeeps ==
    ASSUME NEW s \in Parser, DrainInv(s, FALSE)
    PROVE  ParserInv(Drained(s, FALSE))
<1> DEFINE u == Drained(s, FALSE)
<1>1. u \in Parser /\ DrainInv(u, FALSE) /\ ~ Busy(u, FALSE)
  BY DrainedIs
<1> HIDE DEF u
<1>2. CASE Refused(u)
  <2>1. u.phase = "failed" /\ TooMuchData(u.text) /\ Starts(u.events, EventsOf(u.text))
    BY <1>2 DEF Refused
  <2>2. Sound(u)
    BY <1>1, <2>1, DoneIsPrefix DEF Sound
  <2> QED BY <1>1, <2>1, <2>2 DEF ParserInv, u
<1>3. CASE u.phase = "reading" /\ AtLine(u) /\ ~ CrAtEnd(u.text, u.buffer)
  BY <1>1, <1>3 DEF ParserInv, Busy, u
<1> QED BY <1>1, <1>2, <1>3 DEF DrainInv

-----------------------------------------------------------------------------
(* A chunk                                                                 *)

(* A chunk that is added to the text and to the buffer leaves the buffer   *)
(* where it begins.                                                        *)
LEMMA LongerText ==
    ASSUME NEW text \in AllTexts, NEW buffer \in AllTexts, Remains(text, buffer),
           NEW chunk \in AllTexts
    PROVE  /\ text \o chunk \in AllTexts /\ buffer \o chunk \in AllTexts
           /\ Remains(text \o chunk, buffer \o chunk)
           /\ From(text \o chunk, buffer \o chunk) = From(text, buffer)
           /\ Taken(text \o chunk, From(text, buffer)) = Taken(text, From(text, buffer))
           /\ Len(buffer \o chunk) = Len(buffer) + Len(chunk)
           /\ buffer # <<>> => (buffer \o chunk)[1] = buffer[1]
<1> DEFINE c == From(text, buffer)
           m == Len(text)
           n == Len(buffer)
           k == Len(chunk)
           t == text \o chunk
           b == buffer \o chunk
<1>1. /\ c \in 0 .. m /\ c \in Nat /\ m \in Nat /\ n \in Nat /\ c + n = m
      /\ \A i \in 1 .. n : buffer[i] = text[c + i]
  BY FromIs DEF Remains
<1>2. k \in Nat
  BY DEF AllTexts
<1>3. t \in AllTexts /\ Len(t) = m + k /\ (\A i \in 1 .. m : t[i] = text[i])
      /\ \A i \in 1 .. k : t[m + i] = chunk[i]
  BY DEF AllTexts
<1>4. b \in AllTexts /\ Len(b) = n + k /\ (\A i \in 1 .. n : b[i] = buffer[i])
      /\ \A i \in 1 .. k : b[n + i] = chunk[i]
  BY DEF AllTexts
<1>5. buffer # <<>> => 1 \in 1 .. n
  BY <1>1 DEF AllTexts
<1> HIDE DEF c, t, b, m, n, k
<1>6. From(t, b) = c
  BY <1>1, <1>2, <1>3, <1>4 DEF From
<1>7. \A i \in 1 .. n + k : b[i] = t[c + i]
  <2> SUFFICES ASSUME NEW i \in 1 .. n + k PROVE b[i] = t[c + i]
    OBVIOUS
  <2>1. CASE i <= n
    <3>1. i \in 1 .. n /\ c + i \in 1 .. m
      BY <1>1, <2>1
    <3> QED BY <1>1, <1>3, <1>4, <3>1
  <2>2. CASE ~ (i <= n)
    <3> DEFINE j == i - n
    <3>1. j \in 1 .. k /\ n + j = i /\ m + j = c + i
      BY <1>1, <1>2, <2>2
    <3> HIDE DEF j
    <3> QED BY <1>3, <1>4, <3>1
  <2> QED BY <2>1, <2>2
<1>8. Remains(t, b)
  <2>1. n + k <= m + k
    BY <1>1, <1>2
  <2> QED BY <1>3, <1>4, <1>6, <1>7, <2>1 DEF Remains
<1>9. Taken(t, c) = Taken(text, c)
  <2> DEFINE x == Taken(t, c)
             y == Taken(text, c)
  <2>1. t \in Seq(Symbols) /\ text \in Seq(Symbols) /\ c \in 0 .. Len(t) /\ c \in 0 .. Len(text)
        /\ \A i \in 1 .. c : i \in 1 .. m
    BY <1>1, <1>2, <1>3 DEF AllTexts, m
  <2>2. x \in Seq(Symbols) /\ Len(x) = c /\ \A i \in 1 .. c : x[i] = t[i]
    BY <2>1, TakenIs
  <2>3. y \in Seq(Symbols) /\ Len(y) = c /\ \A i \in 1 .. c : y[i] = text[i]
    BY <2>1, TakenIs
  <2> HIDE DEF x, y
  <2>4. \A i \in 1 .. c : x[i] = y[i]
    BY <1>3, <2>1, <2>2, <2>3
  <2>5. x = y
    BY <2>2, <2>3, <2>4
  <2> QED BY <2>5 DEF x, y
<1>10. buffer # <<>> => b[1] = buffer[1]
  BY <1>4, <1>5
<1> QED BY <1>3, <1>4, <1>6, <1>8, <1>9, <1>10 DEF c, t, b, n, k

(* A chunk arrives: the buffer still begins at the beginning of a line.    *)
LEMMA ChunkArrives ==
    ASSUME NEW s \in Parser, s.phase = "reading", AtLine(s), ~ CrAtEnd(s.text, s.buffer),
           NEW chunk \in AllTexts, chunk # <<>>,
           NEW t, t = [s EXCEPT !.text = @ \o chunk, !.buffer = @ \o chunk]
    PROVE  /\ t \in Parser /\ t.phase = "reading" /\ t.events = s.events
           /\ t.text = s.text \o chunk
           /\ Len(t.buffer) = Len(s.buffer) + Len(chunk)
           /\ AtLine(t) /\ DrainInv(t, FALSE)
<1> DEFINE text == s.text
           buffer == s.buffer
           c == From(text, buffer)
           x == text \o chunk
           y == buffer \o chunk
<1>1. text \in AllTexts /\ buffer \in AllTexts /\ Remains(text, buffer) /\ NoLfAhead(text, buffer)
  BY DEF Parser, AtLine
<1>2. PICK before \in Seq(AllTexts) : LinesAt(text, c, before, <<>>) /\ Digest(s, before)
  BY DEF AtLine
<1>3. t = [s EXCEPT !.text = x, !.buffer = y]
  OBVIOUS
<1> HIDE DEF text, buffer
<1>4. /\ x \in AllTexts /\ y \in AllTexts /\ Remains(x, y) /\ From(x, y) = c
      /\ Taken(x, c) = Taken(text, c) /\ Len(y) = Len(buffer) + Len(chunk)
      /\ buffer # <<>> => y[1] = buffer[1]
  BY <1>1, LongerText
<1>5. y # <<>>
  <2>1. Len(chunk) \in Nat /\ Len(chunk) # 0 /\ Len(buffer) \in Nat
    BY <1>1 DEF AllTexts
  <2>2. Len(y) # 0
    BY <1>4, <2>1
  <2> HIDE DEF y
  <2> QED BY <2>2
<1>6. AfterCr(Taken(text, c)) => buffer # <<>> /\ buffer[1] # "lf"
  BY <1>1 DEF NoLfAhead, CrAtEnd, text, buffer
<1> HIDE DEF x, y, c
<1>7. t \in Parser /\ t.phase = "reading" /\ t.events = s.events /\ t.text = x /\ t.buffer = y
      /\ t.lines = s.lines
  BY <1>3, <1>4 DEF Parser
<1>8. NoLfAhead(x, y) /\ ~ CrAtEnd(x, y)
  BY <1>4, <1>5, <1>6 DEF NoLfAhead, CrAtEnd
<1>9. LinesAt(x, From(x, y), before, <<>>) /\ Digest(t, before)
  BY <1>2, <1>4, <1>7 DEF LinesAt, Digest
<1>10. AtLine(t)
  BY <1>4, <1>7, <1>8, <1>9 DEF AtLine
<1>11. DrainInv(t, FALSE)
  BY <1>7, <1>8, <1>10 DEF DrainInv
<1> QED BY <1>4, <1>7, <1>10, <1>11 DEF x, y, text, buffer

(* A buffer without a line in it is all of a line, but for a CR.           *)
LEMMA WaitingLine ==
    ASSUME NEW text \in AllTexts, NEW buffer \in AllTexts, Remains(text, buffer),
           NEW before \in Seq(AllTexts), LinesAt(text, From(text, buffer), before, <<>>),
           NEW j \in 0 .. Len(buffer), \A i \in 1 .. j : ~ IsBreak(buffer[i])
    PROVE  \E i \in DOMAIN LinesOf(text) : j <= Len(LinesOf(text)[i]) /\ Len(LinesOf(text)[i]) \in Nat
<1> DEFINE c == From(text, buffer)
           all == LinesOf(text)
           k == Len(before) + 1
           d == c + j
           line == Piece(text, c, j)
<1>1. /\ c \in Nat /\ c \in 0 .. Len(text) /\ Len(buffer) \in Nat /\ c + Len(buffer) = Len(text)
      /\ \A i \in 1 .. Len(buffer) : buffer[i] = text[c + i]
  BY FromIs DEF Remains
<1>2. all \in Seq(AllTexts)
  BY LinesAre
<1>3. LinesAt(text, c, before, <<>>)
  OBVIOUS
<1> HIDE DEF c, all, k
<1>4. j \in Nat /\ c + j <= Len(text) /\ d \in 0 .. Len(text)
      /\ \A i \in 1 .. j : i \in 1 .. Len(buffer)
  BY <1>1
<1>5. \A i \in 1 .. j : ~ IsBreak(text[c + i])
  BY <1>1, <1>4
<1>6. LinesAt(text, d, before, line) /\ line \in AllTexts /\ Len(line) = j
  BY <1>1, <1>3, <1>4, <1>5, InLine, PieceIs
<1> HIDE DEF d, line
<1>7. k \in 1 .. Len(all) /\ Starts(line, all[k])
  BY <1>4, <1>6, LinesAtStay DEF all, k
<1>8. k \in DOMAIN all /\ all[k] \in AllTexts
  BY <1>2, <1>7
<1>9. j <= Len(all[k]) /\ Len(all[k]) \in Nat
  BY <1>6, <1>7, <1>8 DEF Starts, AllTexts
<1> QED BY <1>8, <1>9 DEF all

(* A buffer that is full holds a line that is too long.                    *)
LEMMA FullBuffer ==
    ASSUME NEW s \in Parser, s.phase = "reading", AtLine(s), ~ CrAtEnd(s.text, s.buffer),
           ~ HasLine(s.buffer, FALSE),
           NEW chunk \in AllTexts, chunk # <<>>, Len(chunk) <= MaxChunk,
           NEW t, t = [s EXCEPT !.text = @ \o chunk, !.buffer = @ \o chunk],
           Len(t.buffer) > MaxBuffer
    PROVE  LongLine(t.text)
<1> DEFINE buffer == s.buffer
           b == BreakAt(buffer)
           j == IF b = 0 THEN Len(buffer) ELSE b - 1
           x == t.buffer
<1>1. /\ t \in Parser /\ AtLine(t) /\ Len(x) = Len(buffer) + Len(chunk)
  BY ChunkArrives
<1>2. buffer \in AllTexts /\ x \in AllTexts /\ t.text \in AllTexts /\ x = buffer \o chunk
  BY <1>1 DEF Parser
<1>3. /\ Remains(t.text, x)
      /\ \E before \in Seq(AllTexts) : LinesAt(t.text, From(t.text, x), before, <<>>)
  BY <1>1 DEF AtLine
<1>4. /\ b \in 0 .. Len(buffer)
      /\ b = 0 => \A i \in 1 .. Len(buffer) : ~ IsBreak(buffer[i])
      /\ b # 0 => IsBreak(buffer[b]) /\ \A i \in 1 .. b - 1 : ~ IsBreak(buffer[i])
  BY <1>2, BreakIs
<1>5. b # 0 => ~ (b < Len(buffer))
  BY DEF HasLine, BreakAt
<1>6. Len(buffer) \in Nat /\ Len(chunk) \in Nat /\ \A i \in 1 .. Len(buffer) : x[i] = buffer[i]
  BY <1>2 DEF AllTexts
<1> HIDE DEF buffer, b, x
<1>7. j \in 0 .. Len(buffer) /\ j + 1 >= Len(buffer)
  BY <1>4, <1>5, <1>6
<1>8. \A i \in 1 .. j : ~ IsBreak(buffer[i])
  BY <1>4
<1> HIDE DEF j
<1>9. j \in 0 .. Len(x) /\ \A i \in 1 .. j : i \in 1 .. Len(buffer)
  BY <1>1, <1>6, <1>7
<1>10. \A i \in 1 .. j : ~ IsBreak(x[i])
  BY <1>6, <1>8, <1>9
<1>11. PICK i \in DOMAIN LinesOf(t.text) :
          j <= Len(LinesOf(t.text)[i]) /\ Len(LinesOf(t.text)[i]) \in Nat
  BY <1>2, <1>3, <1>9, <1>10, WaitingLine
<1> DEFINE l == Len(LinesOf(t.text)[i])
<1>12. l \in Nat /\ j <= l
  BY <1>11
<1>13. Len(x) > MaxBuffer
  BY DEF x
<1> HIDE DEF l
<1>14. l + 1 > MaxBuffer - MaxChunk
  <2>1. MaxBuffer \in Nat /\ MaxChunk \in Nat
    BY SseLimitsAssumption
  <2> QED BY <1>1, <1>6, <1>7, <1>12, <1>13, <2>1
<1> QED BY <1>11, <1>14 DEF LongLine, l

-----------------------------------------------------------------------------
(* The end of the body                                                     *)

(* An empty buffer begins at the end of the text.                          *)
LEMMA FromTheEnd ==
    ASSUME NEW text \in AllTexts
    PROVE  From(text, <<>>) = Len(text) /\ Len(text) \in 0 .. Len(text)
<1>1. Len(text) \in Nat /\ Len(<<>>) = 0
  BY DEF AllTexts
<1> QED BY <1>1 DEF From

(* The body ends: what has been yielded then is all the events of the      *)
(* text.                                                                   *)
LEMMA EndIsSound ==
    ASSUME NEW s \in Parser, ParserInv(s), s.phase = "reading",
           NEW last, last = Drained(s, TRUE),
           NEW u, u = IF last.phase = "failed" THEN last
                      ELSE [Consumed(last, <<>>) EXCEPT !.phase = "completed"]
    PROVE  u \in Parser /\ u.phase # "reading" /\ Sound(u)
<1> DEFINE L == LinesOf(last.text)
           w == Consumed(last, <<>>)
<1>1. DrainInv(s, TRUE)
  BY DEF ParserInv, DrainInv
<1>2. last \in Parser /\ DrainInv(last, TRUE) /\ ~ Busy(last, TRUE)
  BY <1>1, DrainedIs
<1>3. last.text \in AllTexts /\ last.buffer \in AllTexts /\ L \in Seq(AllTexts) /\ <<>> \in AllTexts
  <2>1. last.text \in AllTexts /\ last.buffer \in AllTexts
    BY <1>2 DEF Parser
  <2>2. <<>> \in AllTexts
    BY DEF AllTexts
  <2> QED BY <2>1, <2>2, LinesAre
<1>4. CASE Refused(last)
  <2>1. last.phase = "failed" /\ TooMuchData(last.text) /\ Starts(last.events, EventsOf(last.text))
    BY <1>4 DEF Refused
  <2>2. u = last
    BY <2>1
  <2>3. Sound(last)
    BY <1>2, <2>1, DoneIsPrefix DEF Sound
  <2> QED BY <1>2, <2>1, <2>2, <2>3
<1>5. CASE last.phase = "reading"
  <2>1. last.buffer = <<>>
    BY <1>2, <1>5 DEF Busy, HasLine
  <2>2. u = [w EXCEPT !.phase = "completed"]
    BY <1>5
  <2>3. \E lines \in Seq(AllTexts) : /\ Digest(last, lines)
                                  /\ Done(Append(lines, <<>>)) = EventsOf(last.text)
    <3>1. CASE AtLine(last)
      <4> DEFINE c == From(last.text, last.buffer)
      <4>1. PICK before \in Seq(AllTexts) : LinesAt(last.text, c, before, <<>>) /\ Digest(last, before)
        BY <3>1 DEF AtLine
      <4>2. c = Len(last.text) /\ c \in 0 .. Len(last.text)
        BY <1>3, <2>1, FromTheEnd
      <4> HIDE DEF c
      <4> DEFINE more == Append(before, <<>>)
      <4>3. L = more
        <5> HIDE DEF Digest
        <5>1. LinesOf(last.text) = Append(before, <<>>)
          BY <1>3, <4>1, <4>2, AppendWithin, ZenonT(30)
        <5> QED BY <5>1
      <4>4. Pending(more) = <<>>
        BY DigestOfEmpty
      <4> HIDE DEF more, L
      <4>5. Done(Append(L, <<>>)) = Done(L)
        BY <1>3, <4>3, <4>4, DigestOfEmpty
      <4>6. EventsOf(last.text) = Done(Append(L, <<>>))
        BY <1>3, EventsOfIs DEF L
      <4>7. Done(more) = EventsOf(last.text)
        BY <4>3, <4>5, <4>6
      <4> QED BY <4>1, <4>7 DEF more
    <3>2. CASE AtEnd(last)
      <4>1. Digest(last, L)
        BY <3>2 DEF AtEnd
      <4>2. EventsOf(last.text) = Done(Append(L, <<>>))
        BY <1>3, EventsOfIs
      <4> QED BY <1>3, <4>1, <4>2
    <3> QED BY <1>2, <1>5, <3>1, <3>2 DEF DrainInv, Refused
  <2>4. PICK lines \in Seq(AllTexts) : /\ Digest(last, lines)
                                    /\ Done(Append(lines, <<>>)) = EventsOf(last.text)
    BY <2>3
  <2> HIDE DEF w
  <2>5. w \in Parser /\ w.text = last.text /\ w.events = EventsOf(last.text)
    <3>1. NoBreaks(<<>>)
      BY DEF NoBreaks
    <3>2. /\ w \in Parser /\ w.text = last.text
          /\ \/ Digest(w, Append(lines, <<>>))
             \/ Pending(Append(lines, <<>>)) # <<>>
      BY <1>2, <1>3, <2>4, <3>1, ConsumedIs, ZenonT(30) DEF w
    <3>3. Pending(Append(lines, <<>>)) = <<>>
      BY DigestOfEmpty
    <3> QED BY <2>4, <3>2, <3>3 DEF Digest
  <2>6. u \in Parser /\ u.phase = "completed" /\ u.text = last.text /\ u.events = EventsOf(u.text)
    BY <2>2, <2>5 DEF Parser, Phases
  <2>7. Sound(u)
    BY <1>3, <2>6, EventsOfIs DEF Sound
  <2> QED BY <2>6, <2>7
<1> QED BY <1>2, <1>4, <1>5 DEF DrainInv

-----------------------------------------------------------------------------
(* The steps of the parser                                                 *)

(* Nothing has been read and nothing yielded.                              *)
LEMMA ParserStarts == SseInit => ParserInv(sse)
<1> SUFFICES ASSUME SseInit PROVE ParserInv(sse)
  OBVIOUS
<1>1. /\ sse.phase = "reading" /\ sse.text = <<>> /\ sse.buffer = <<>>
      /\ sse.lines = <<>> /\ sse.events = <<>>
  BY DEF SseInit
<1>2. sse \in Parser
  BY DEF SseInit, Parser, Phases, AllTexts
<1>3. From(<<>>, <<>>) = 0 /\ <<>> \in AllTexts /\ Len(<<>>) = 0
  BY DEF From, AllTexts
<1>4. ~ AfterCr(Taken(<<>>, 0))
  BY <1>3, TakenText
<1>5. Remains(<<>>, <<>>) /\ NoLfAhead(<<>>, <<>>) /\ ~ CrAtEnd(<<>>, <<>>)
  BY <1>3, <1>4 DEF Remains, NoLfAhead, CrAtEnd
<1>6. LinesAt(<<>>, 0, <<>>, <<>>)
  <2>1. Taken(<<>>, 0) = <<>>
    BY <1>3, TakenText
  <2>2. Append(<<>>, <<>>) = << <<>> >>
    OBVIOUS
  <2> QED BY <2>1, <2>2, LinesOfNothing DEF LinesAt
<1>7. Digest(sse, <<>>) /\ <<>> \in Seq(AllTexts)
  BY <1>1, DigestOfNothing DEF Digest
<1>8. AtLine(sse)
  BY <1>1, <1>3, <1>5, <1>6, <1>7 DEF AtLine
<1>9. ~ HasLine(<<>>, FALSE)
  <2>1. BreakAt(<<>>) = 0
    BY <1>3, BreakIs
  <2> QED BY <2>1 DEF HasLine, BreakAt
<1> QED BY <1>1, <1>2, <1>5, <1>8, <1>9 DEF ParserInv

(* Every chunk keeps the invariant.                                        *)
LEMMA ReadChunkKeeps ==
    ASSUME ParserInv(sse), ReadChunk
    PROVE  ParserInv(sse')
<1>1. sse.phase = "reading"
  BY DEF ReadChunk
<1>2. PICK n \in 1 .. MaxChunk : \E chunk \in [1 .. n -> Symbols] :
         LET next == [sse EXCEPT !.text = @ \o chunk, !.buffer = @ \o chunk]
         IN  sse' = IF Len(next.buffer) > MaxBuffer THEN [next EXCEPT !.phase = "failed"]
                                                    ELSE Drained(next, FALSE)
  BY DEF ReadChunk
<1>0. PICK chunk \in [1 .. n -> Symbols] :
         LET next == [sse EXCEPT !.text = @ \o chunk, !.buffer = @ \o chunk]
         IN  sse' = IF Len(next.buffer) > MaxBuffer THEN [next EXCEPT !.phase = "failed"]
                                                    ELSE Drained(next, FALSE)
  BY <1>2
<1> DEFINE next == [sse EXCEPT !.text = @ \o chunk, !.buffer = @ \o chunk]
<1>3. sse' = IF Len(next.buffer) > MaxBuffer THEN [next EXCEPT !.phase = "failed"]
                                             ELSE Drained(next, FALSE)
  BY <1>0
<1>4. chunk \in AllTexts /\ chunk # <<>> /\ Len(chunk) <= MaxChunk
  <2>1. MaxChunk \in Nat
    BY SseLimitsAssumption
  <2>2. n \in Nat /\ n # 0 /\ n <= MaxChunk
    BY <2>1
  <2>3. chunk \in Seq(Symbols) /\ Len(chunk) = n
    BY <2>2
  <2> QED BY <2>2, <2>3 DEF AllTexts
<1>5. sse \in Parser /\ AtLine(sse) /\ ~ CrAtEnd(sse.text, sse.buffer)
      /\ ~ HasLine(sse.buffer, FALSE)
  BY <1>1 DEF ParserInv
<1>6. next \in Parser /\ next.phase = "reading" /\ AtLine(next) /\ DrainInv(next, FALSE)
  BY <1>1, <1>4, <1>5, ChunkArrives
<1>7. Len(next.buffer) > MaxBuffer => LongLine(next.text)
  BY <1>1, <1>4, <1>5, FullBuffer
<1> HIDE DEF next
<1>8. CASE Len(next.buffer) > MaxBuffer
  <2>1. /\ sse' \in Parser /\ sse'.phase = "failed" /\ sse'.text = next.text
        /\ sse'.events = next.events
    BY <1>3, <1>6, <1>8 DEF Parser, Phases
  <2>2. IsPrefix(next.events, EventsOf(next.text))
    BY <1>6, AtLineIsSound
  <2>3. Sound(sse')
    BY <1>7, <1>8, <2>1, <2>2 DEF Sound
  <2> QED BY <2>1, <2>3 DEF ParserInv
<1>9. CASE ~ (Len(next.buffer) > MaxBuffer)
  <2>1. sse' = Drained(next, FALSE)
    BY <1>3, <1>9
  <2> QED BY <1>6, <2>1, DrainKeeps
<1> QED BY <1>8, <1>9

(* So does the end of the body.                                            *)
LEMMA ReadEndKeeps ==
    ASSUME ParserInv(sse), ReadEnd
    PROVE  ParserInv(sse')
<1> DEFINE last == Drained(sse, TRUE)
<1>1. /\ sse.phase = "reading"
      /\ sse' = IF last.phase = "failed" THEN last
                ELSE [Consumed(last, <<>>) EXCEPT !.phase = "completed"]
  BY DEF ReadEnd
<1>2. sse \in Parser
  BY DEF ParserInv
<1>3. sse' \in Parser /\ sse'.phase # "reading" /\ Sound(sse')
  BY <1>1, <1>2, EndIsSound
<1> QED BY <1>3 DEF ParserInv

(* So does a stop before it.                                               *)
LEMMA StopReadingKeeps ==
    ASSUME ParserInv(sse), StopReading
    PROVE  ParserInv(sse')
<1>1. sse.phase = "reading" /\ sse' = [sse EXCEPT !.phase = "stopped"]
  BY DEF StopReading
<1>2. sse \in Parser /\ AtLine(sse)
  BY <1>1 DEF ParserInv
<1>3. IsPrefix(sse.events, EventsOf(sse.text))
  BY <1>2, AtLineIsSound
<1>4. /\ sse' \in Parser /\ sse'.phase = "stopped" /\ sse'.text = sse.text
      /\ sse'.events = sse.events
  BY <1>1, <1>2 DEF Parser, Phases
<1> QED BY <1>3, <1>4 DEF ParserInv, Sound

(* And so every step of the parser.                                        *)
LEMMA ParserKeeps ==
    ASSUME ParserInv(sse), [SseNext]_sse
    PROVE  ParserInv(sse')
<1>1. CASE SseNext
  BY <1>1, ReadChunkKeeps, ReadEndKeeps, StopReadingKeeps DEF SseNext
<1>2. CASE sse' = sse
  BY <1>2
<1> QED BY <1>1, <1>2

(* The invariant says that the chunks do not matter.                       *)
LEMMA ParserIsSound ==
    ASSUME ParserInv(sse)
    PROVE  ChunksDoNotMatter
<1>1. Sound(sse)
  <2>1. CASE sse.phase = "reading"
    <3>1. IsPrefix(sse.events, EventsOf(sse.text))
      BY <2>1, AtLineIsSound DEF ParserInv
    <3> QED BY <2>1, <3>1 DEF Sound
  <2>2. CASE sse.phase # "reading"
    BY <2>2 DEF ParserInv
  <2> QED BY <2>1, <2>2
<1> QED BY <1>1 DEF Sound, TooMuchData, LongLine, ChunksDoNotMatter

=============================================================================
