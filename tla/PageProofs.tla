------------------------------ MODULE PageProofs ------------------------------
(* Pages of every size with rows and keys of every length: what free_space    *)
(* lets in can be written and read back, a page that has to be split can be,  *)
(* with room in both halves, and a page that can neither stay nor merge can   *)
(* borrow.  All of it is about sums of sizes, so the first part is on sums.   *)
EXTENDS PageCodec, SequenceTheorems, WellFoundedInduction, TLAPS

(* Pages as the tree makes them.                                              *)
IsLeafPage(pg) ==
    /\ is_leaf(pg) /\ pg.keys \in Seq(Key)
    /\ pg.next \in Nat \cup {Nil} /\ pg.prev \in Nat \cup {Nil}
    /\ pg = leaf(pg.keys, pg.next, pg.prev)
IsInternalPage(pg) ==
    /\ is_internal(pg) /\ pg.keys \in Seq(Key) /\ pg.children \in Seq(Nat)
    /\ Len(pg.children) = Len(pg.keys) + 1
    /\ pg = internal(pg.keys, pg.children)
IsFreePage(pg) ==
    is_free(pg) /\ pg.next \in Nat \cup {Nil} /\ pg = free(pg.next)

(* Pages with entries.                                                        *)
Holds(pg) == (is_leaf(pg) \/ is_internal(pg)) /\ pg.keys \in Seq(Key)
USABLE(pg) == IF is_leaf(pg) THEN LEAF_USABLE ELSE INTERNAL_USABLE
MAX_ENTRY_SIZE(pg) == USABLE(pg) \div 4

-----------------------------------------------------------------------------
(* Induction on natural numbers, for a set.                                   *)

LEMMA LeastNumber ==
    ASSUME NEW T \in SUBSET Nat, T # {}
    PROVE  \E n \in T : \A m \in T : n <= m
<1> DEFINE R == {ss \in Nat \X Nat : ss[1] < ss[2]}
<1>1. IsWellFoundedOn(R, Nat)
  BY NatLessThanWellFounded DEF OpToRel
<1> HIDE DEF R
<1>2. \E x \in T : \A y \in T : ~ (<<y, x>> \in R)
  BY <1>1, WFMin, Zenon
<1>3. ASSUME NEW x \in Nat, NEW y \in Nat, <<y, x>> \notin R
      PROVE  x <= y
  BY <1>3 DEF R
<1> QED BY <1>2, <1>3

LEMMA SetInduction ==
    ASSUME NEW S, 0 \in S, \A n \in Nat : n \in S => n + 1 \in S
    PROVE  Nat \subseteq S
<1> SUFFICES ASSUME Nat \ S # {} PROVE FALSE
  OBVIOUS
<1>1. PICK n \in Nat \ S : \A m \in Nat \ S : n <= m
  BY LeastNumber
<1>2. n # 0 /\ n - 1 \in Nat
  BY <1>1
<1>3. n - 1 \in S
  BY <1>1, <1>2
<1> QED BY <1>1, <1>2, <1>3

-----------------------------------------------------------------------------
(* Sizes.                                                                     *)

LEMMA Usable ==
    ASSUME NEW k \in Key
    PROVE  /\ LEAF_USABLE \in Nat /\ INTERNAL_USABLE \in Nat
           /\ LEAF_USABLE >= 28 /\ INTERNAL_USABLE >= 56
           /\ RowSize[k] \in 7 .. LEAF_USABLE \div 4
           /\ KeySize[k] \in 14 .. INTERNAL_USABLE \div 4
BY SizeAssumption DEF SLOT_ENTRY_SIZE, MIN_ROW_ENCODED_SIZE, MIN_KEY_ENCODED_SIZE,
   MAX_LEAF_ENTRY_SIZE, MAX_INTERNAL_ENTRY_SIZE, LEAF_USABLE, INTERNAL_USABLE, PAGE_ID_SIZE,
   MAX_LEAF_HEADER_SIZE, MAX_INTERNAL_HEADER_SIZE

LEMMA EntryBounds ==
    ASSUME NEW pg, Holds(pg), NEW n \in 1 .. Len(pg.keys)
    PROVE  LET size == EntrySize(pg, pg.keys[n])
           IN /\ pg.keys[n] \in Key
              /\ size \in Nat
              /\ size >= IF is_leaf(pg) THEN 7 ELSE 14
              /\ size <= MAX_ENTRY_SIZE(pg)
<1>1. pg.keys[n] \in Key
  BY ElementOfSeq DEF Holds
<1> QED
  BY <1>1, Usable, SMTT(30) DEF EntrySize, MAX_ENTRY_SIZE, USABLE

(* The sums exist: by induction on how far they are defined.                  *)
IsSum(pg, s, m) ==
    s = [n \in 0 .. m |-> IF n = 0 THEN 0 ELSE s[n - 1] + EntrySize(pg, pg.keys[n])]

LEMMA SumExists ==
    ASSUME NEW pg, NEW m \in Nat
    PROVE  \E s : IsSum(pg, s, m)
<1> DEFINE S == {i \in Nat : \E s : IsSum(pg, s, i)}
<1>1. 0 \in S
  <2> DEFINE s == [n \in 0 .. 0 |-> 0]
  <2>1. IsSum(pg, s, 0)
    BY DEF IsSum
  <2> QED BY <2>1
<1>2. ASSUME NEW i \in Nat, i \in S PROVE i + 1 \in S
  <2>1. PICK s : IsSum(pg, s, i)
    BY <1>2
  <2> DEFINE r == [n \in 0 .. i + 1 |-> IF n = i + 1 THEN s[i] + EntrySize(pg, pg.keys[n]) ELSE s[n]]
  <2>2. ASSUME NEW n \in 0 .. i + 1
        PROVE  r[n] = IF n = 0 THEN 0 ELSE r[n - 1] + EntrySize(pg, pg.keys[n])
    <3>1. CASE n = i + 1
      BY <3>1
    <3>2. CASE n \in 0 .. i
      <4>1. r[n] = s[n]
        BY <3>2
      <4>2. n # 0 => n - 1 \in 0 .. i + 1 /\ n - 1 # i + 1
        BY <3>2
      <4>3. n # 0 => r[n - 1] = s[n - 1]
        BY <4>2
      <4> QED BY <2>1, <3>2, <4>1, <4>3 DEF IsSum
    <3> QED BY <3>1, <3>2
  <2>3. IsSum(pg, r, i + 1)
    <3> HIDE DEF r
    <3>1. r = [n \in 0 .. i + 1 |-> r[n]]
      BY DEF r
    <3> QED BY <2>2, <3>1 DEF IsSum
  <2> QED BY <2>3
<1> QED BY <1>1, <1>2, SetInduction

(* What the sums are.                                                         *)
LEMMA PrefixSums ==
    ASSUME NEW pg, Holds(pg)
    PROVE  LET s == PrefixSize(pg)
           IN /\ s[0] = 0
              /\ \A n \in 1 .. Len(pg.keys) : s[n] = s[n - 1] + EntrySize(pg, pg.keys[n])
              /\ \A n \in 0 .. Len(pg.keys) : s[n] \in Nat
<1> DEFINE s == PrefixSize(pg)
           m == Len(pg.keys)
<1>1. m \in Nat
  BY DEF Holds
<1>2. IsSum(pg, s, m)
  <2>1. s = CHOOSE r : IsSum(pg, r, m)
    BY DEF PrefixSize, IsSum
  <2> QED BY <1>1, <2>1, SumExists
<1> HIDE DEF s
<1>3. s[0] = 0 /\ \A n \in 1 .. m : s[n] = s[n - 1] + EntrySize(pg, pg.keys[n])
  BY <1>1, <1>2 DEF IsSum
<1> DEFINE S == {n \in Nat : n <= m => s[n] \in Nat}
<1>4. 0 \in S
  BY <1>3
<1>5. ASSUME NEW n \in Nat, n \in S PROVE n + 1 \in S
  <2> SUFFICES ASSUME n + 1 <= m PROVE s[n + 1] \in Nat
    OBVIOUS
  <2>1. n + 1 \in 1 .. m /\ (n + 1) - 1 = n /\ s[n] \in Nat
    BY <1>1, <1>5
  <2>2. EntrySize(pg, pg.keys[n + 1]) \in Nat
    BY <2>1, EntryBounds
  <2> QED BY <1>3, <2>1, <2>2
<1>6. Nat \subseteq S
  BY <1>4, <1>5, SetInduction
<1>7. \A n \in 0 .. m : s[n] \in Nat
  BY <1>1, <1>6
<1> QED BY <1>3, <1>7 DEF s

(* Sums grow by an entry a step, and so by the size of the smallest one.      *)
LEMMA SumStep ==
    ASSUME NEW pg, Holds(pg), NEW n \in 1 .. Len(pg.keys)
    PROVE  /\ PrefixSize(pg)[n - 1] \in Nat /\ PrefixSize(pg)[n] \in Nat
           /\ PrefixSize(pg)[n] = PrefixSize(pg)[n - 1] + EntrySize(pg, pg.keys[n])
           /\ PrefixSize(pg)[n] >= PrefixSize(pg)[n - 1] + (IF is_leaf(pg) THEN 7 ELSE 14)
           /\ PrefixSize(pg)[n] <= PrefixSize(pg)[n - 1] + MAX_ENTRY_SIZE(pg)
<1>1. Len(pg.keys) \in Nat
  BY DEF Holds
<1>2. n - 1 \in 0 .. Len(pg.keys)
  BY <1>1
<1>3. MAX_ENTRY_SIZE(pg) \in Nat
  BY ElementOfSeq, Usable DEF Holds, MAX_ENTRY_SIZE, USABLE
<1> QED BY <1>1, <1>2, <1>3, PrefixSums, EntryBounds

LEMMA SumsGrow ==
    ASSUME NEW pg, Holds(pg), NEW n \in 0 .. Len(pg.keys), NEW d \in Nat, n + d <= Len(pg.keys)
    PROVE  PrefixSize(pg)[n + d] >= PrefixSize(pg)[n] + d * (IF is_leaf(pg) THEN 7 ELSE 14)
<1> DEFINE m == Len(pg.keys)
           s == PrefixSize(pg)
           S == {i \in Nat : n + i <= m => s[n + i] >= s[n] + i * (IF is_leaf(pg) THEN 7 ELSE 14)}
<1>1. m \in Nat
  BY DEF Holds
<1>2. \A i \in 0 .. m : s[i] \in Nat
  BY PrefixSums
<1> HIDE DEF s
<1>3. 0 \in S
  BY <1>1, <1>2
<1>4. ASSUME NEW i \in Nat, i \in S PROVE i + 1 \in S
  <2> SUFFICES ASSUME n + (i + 1) <= m
               PROVE  s[n + (i + 1)] >= s[n] + (i + 1) * (IF is_leaf(pg) THEN 7 ELSE 14)
    OBVIOUS
  <2>1. /\ n + (i + 1) \in 1 .. m /\ (n + (i + 1)) - 1 = n + i /\ n + i \in 0 .. m
        /\ s[n] \in Nat /\ s[n + i] \in Nat
        /\ s[n + i] >= s[n] + i * (IF is_leaf(pg) THEN 7 ELSE 14)
    BY <1>1, <1>2, <1>4
  <2>2. /\ s[n + (i + 1)] \in Nat
        /\ s[n + (i + 1)] >= s[n + i] + (IF is_leaf(pg) THEN 7 ELSE 14)
    BY <2>1, SumStep DEF s
  <2> QED BY <2>1, <2>2, SMTT(30)
<1>5. d \in S
  BY <1>3, <1>4, SetInduction
<1> QED BY <1>5 DEF s
-----------------------------------------------------------------------------
(* The image of a page: after the header the children, and then a cell and a  *)
(* slot for each entry.                                                       *)

Overhead(pg) == IF is_leaf(pg) THEN 4 ELSE 12
Offset(pg, n) == PAGE_SIZE - PrefixSize(pg)[n] + Overhead(pg) * n

LEMMA OffsetOf ==
    ASSUME NEW pg, NEW n
    PROVE  /\ is_leaf(pg) => Offset(pg, n) = PAGE_SIZE - PrefixSize(pg)[n] + 4 * n
           /\ ~is_leaf(pg) => Offset(pg, n) = PAGE_SIZE - PrefixSize(pg)[n] + 12 * n
BY DEF Offset, Overhead

LEMMA OffsetStep ==
    ASSUME NEW pg, Holds(pg), NEW n \in 1 .. Len(pg.keys)
    PROVE  /\ Offset(pg, n) \in Int /\ Offset(pg, n - 1) \in Int
           /\ CellSize(pg, n) \in Nat \ {0}
           /\ Offset(pg, n) = Offset(pg, n - 1) - CellSize(pg, n)
<1>1. Len(pg.keys) \in Nat
  BY DEF Holds
<1>2. is_leaf(pg) <=> ~is_internal(pg)
  BY DEF Holds, is_leaf, is_internal
<1>3. CellSize(pg, n) = EntrySize(pg, pg.keys[n]) - Overhead(pg)
  BY <1>2, EntryBounds DEF CellSize, Overhead, SLOT_ENTRY_SIZE, PAGE_ID_SIZE
<1>4. CellSize(pg, n) \in Nat \ {0}
  BY <1>3, EntryBounds DEF Overhead
<1>5. PAGE_SIZE \in Nat
  BY SizeAssumption
<1>6. /\ n \in Nat /\ n - 1 \in Nat
      /\ EntrySize(pg, pg.keys[n]) \in Nat
      /\ PrefixSize(pg)[n - 1] \in Nat
      /\ PrefixSize(pg)[n] = PrefixSize(pg)[n - 1] + EntrySize(pg, pg.keys[n])
  BY <1>1, SumStep, EntryBounds
<1>7. PICK c \in {4, 12} : /\ CellSize(pg, n) = EntrySize(pg, pg.keys[n]) - c
                          /\ Offset(pg, n) = PAGE_SIZE - PrefixSize(pg)[n] + c * n
                          /\ Offset(pg, n - 1) = PAGE_SIZE - PrefixSize(pg)[n - 1] + c * (n - 1)
  BY <1>3 DEF Offset, Overhead
<1> DEFINE e == EntrySize(pg, pg.keys[n])
           a == PrefixSize(pg)[n - 1]
           x == Offset(pg, n)
           y == Offset(pg, n - 1)
<1>8. /\ e \in Nat /\ a \in Nat /\ PAGE_SIZE \in Nat /\ n \in Nat
      /\ CellSize(pg, n) = e - c
      /\ x = PAGE_SIZE - (a + e) + c * n
      /\ y = PAGE_SIZE - a + c * (n - 1)
  BY <1>5, <1>6, <1>7
<1> HIDE DEF e, a, x, y
<1>9. x \in Int /\ y \in Int /\ x = y - CellSize(pg, n)
  <2>1. CASE c = 4
    BY <1>8, <2>1
  <2>2. CASE c = 12
    BY <1>8, <2>2
  <2> QED BY <2>1, <2>2
<1> QED BY <1>4, <1>9 DEF x, y

(* data_offset is what is left when the cells so far are taken from the page. *)
LEMMA DataOffsets ==
    ASSUME NEW pg, Holds(pg), NEW n \in 0 .. Len(pg.keys)
    PROVE  data_offset(pg)[n] = Offset(pg, n) /\ Offset(pg, n) \in Int
<1> DEFINE m == Len(pg.keys)
           f == [i \in 0 .. m |-> Offset(pg, i)]
           IsOffset(o) == o = [i \in 0 .. m |-> IF i = 0 THEN PAGE_SIZE ELSE o[i - 1] - CellSize(pg, i)]
           o == data_offset(pg)
<1>1. m \in Nat /\ num_items(pg) = m
  BY DEF Holds, num_items, is_free, is_leaf, is_internal
<1>2. Offset(pg, 0) = PAGE_SIZE /\ PAGE_SIZE \in Nat
  BY PrefixSums, SizeAssumption DEF Offset, Overhead
<1>3. \A i \in 1 .. m : Offset(pg, i) = Offset(pg, i - 1) - CellSize(pg, i) /\ Offset(pg, i) \in Int
  BY OffsetStep
<1>4. IsOffset(f)
  <2>1. \A i \in 1 .. m : i - 1 \in 0 .. m
    BY <1>1
  <2> QED BY <1>1, <1>2, <1>3, <2>1
<1>5. IsOffset(o)
  <2>1. o = CHOOSE g : IsOffset(g)
    BY <1>1 DEF data_offset
  <2> HIDE DEF IsOffset, f, o
  <2> QED BY <1>4, <2>1
<1> HIDE DEF o
<1> DEFINE S == {i \in Nat : i <= m => o[i] = Offset(pg, i)}
<1>6. 0 \in S
  BY <1>1, <1>2, <1>5
<1>7. ASSUME NEW i \in Nat, i \in S PROVE i + 1 \in S
  <2> SUFFICES ASSUME i + 1 <= m PROVE o[i + 1] = Offset(pg, i + 1)
    OBVIOUS
  <2>1. i + 1 \in 1 .. m /\ i + 1 \in 0 .. m /\ (i + 1) - 1 = i /\ i + 1 # 0 /\ i <= m
    BY <1>1
  <2>2. o[i + 1] = o[i] - CellSize(pg, i + 1)
    BY <1>5, <2>1
  <2> QED BY <1>3, <1>7, <2>1, <2>2
<1>8. n \in S
  <2>1. Nat \subseteq S
    BY <1>6, <1>7, SetInduction
  <2> QED BY <1>1, <2>1
<1> QED BY <1>1, <1>2, <1>3, <1>8 DEF o

(* Later cells are lower; after all of them the slots still have their place. *)
LEMMA OffsetsFall ==
    ASSUME NEW pg, Holds(pg), NEW i \in 0 .. Len(pg.keys), NEW j \in i .. Len(pg.keys)
    PROVE  Offset(pg, j) <= Offset(pg, i)
<1>1. Len(pg.keys) \in Nat /\ PAGE_SIZE \in Nat
  BY SizeAssumption DEF Holds
<1>2. j - i \in Nat /\ i + (j - i) = j /\ i \in Nat /\ j \in Nat /\ j \in 0 .. Len(pg.keys)
  BY <1>1
<1>3. PrefixSize(pg)[i] \in Nat /\ PrefixSize(pg)[j] \in Nat
  BY <1>2, PrefixSums
<1>4. PrefixSize(pg)[j] >= PrefixSize(pg)[i] + (j - i) * (IF is_leaf(pg) THEN 7 ELSE 14)
  <2>1. PICK d \in Nat : d = j - i
    BY <1>2
  <2>2. j = i + d /\ i + d <= Len(pg.keys)
    BY <1>1, <1>2, <2>1
  <2>3. PrefixSize(pg)[i + d] >= PrefixSize(pg)[i] + d * (IF is_leaf(pg) THEN 7 ELSE 14)
    BY <2>2, SumsGrow
  <2> QED BY <2>1, <2>2, <2>3
<1> DEFINE a == PrefixSize(pg)[i]
           b == PrefixSize(pg)[j]
           x == Offset(pg, i)
           y == Offset(pg, j)
<1>5. /\ a \in Nat /\ b \in Nat
      /\ is_leaf(pg) => /\ b >= a + (j - i) * 7
                        /\ x = PAGE_SIZE - a + 4 * i /\ y = PAGE_SIZE - b + 4 * j
      /\ ~is_leaf(pg) => /\ b >= a + (j - i) * 14
                         /\ x = PAGE_SIZE - a + 12 * i /\ y = PAGE_SIZE - b + 12 * j
  <2>1. CASE is_leaf(pg)
    <3>1. b >= a + (j - i) * 7
      BY <1>4, <2>1
    <3>2. x = PAGE_SIZE - a + 4 * i /\ y = PAGE_SIZE - b + 4 * j
      BY <2>1, OffsetOf
    <3> QED BY <1>3, <2>1, <3>1, <3>2
  <2>2. CASE ~is_leaf(pg)
    <3>1. b >= a + (j - i) * 14
      BY <1>4, <2>2
    <3>2. x = PAGE_SIZE - a + 12 * i /\ y = PAGE_SIZE - b + 12 * j
      BY <2>2, OffsetOf
    <3> QED BY <1>3, <2>2, <3>1, <3>2
  <2> QED BY <2>1, <2>2
<1> HIDE DEF a, b, x, y
<1>6. y <= x
  BY <1>1, <1>2, <1>5
<1> QED BY <1>6 DEF x, y

LEMMA OffsetsRoom ==
    ASSUME NEW pg, Holds(pg), free_space(pg) >= 0, NEW n \in 0 .. Len(pg.keys)
    PROVE  /\ Offset(pg, n) <= PAGE_SIZE
           /\ is_leaf(pg) => Offset(pg, n) >= 41 + 4 * Len(pg.keys)
           /\ is_internal(pg) => Offset(pg, n) >= 31 + 12 * Len(pg.keys)
<1> DEFINE m == Len(pg.keys)
<1>1. m \in Nat /\ PAGE_SIZE \in Nat
  BY SizeAssumption DEF Holds
<1>2. is_leaf(pg) <=> ~is_internal(pg)
  BY DEF Holds, is_leaf, is_internal
<1>3. ~is_free(pg) /\ PrefixSize(pg)[m] \in Nat
  BY <1>1, PrefixSums DEF Holds, is_leaf, is_internal, is_free
<1>4. Offset(pg, n) >= Offset(pg, m) /\ Offset(pg, n) <= Offset(pg, 0)
  BY <1>1, OffsetsFall
<1>5. Offset(pg, 0) = PAGE_SIZE /\ Offset(pg, m) \in Int /\ Offset(pg, n) \in Int
  <2>1. PrefixSize(pg)[0] = 0 /\ (Offset(pg, 0) = PAGE_SIZE - 0 + 4 * 0 \/ Offset(pg, 0) = PAGE_SIZE - 0 + 12 * 0)
    BY PrefixSums, OffsetOf
  <2> QED BY <1>1, <2>1, DataOffsets
<1> DEFINE a == PrefixSize(pg)[m]
           x == Offset(pg, m)
<1>6. /\ a \in Nat
      /\ is_leaf(pg) => x = PAGE_SIZE - a + 4 * m /\ PAGE_SIZE - 41 - a >= 0
      /\ is_internal(pg) => x = PAGE_SIZE - a + 12 * m /\ PAGE_SIZE - 23 - 8 - a >= 0
  <2>1. entries_size(pg) = a
    BY <1>3 DEF entries_size
  <2>2. CASE is_leaf(pg)
    <3>1. x = PAGE_SIZE - a + 4 * m
      BY <2>2, OffsetOf
    <3>2. PAGE_SIZE - 41 - a >= 0
      BY <2>1, <2>2 DEF free_space, LEAF_USABLE, MAX_LEAF_HEADER_SIZE
    <3> QED BY <1>2, <1>3, <2>2, <3>1, <3>2
  <2>3. CASE is_internal(pg)
    <3>1. x = PAGE_SIZE - a + 12 * m
      BY <1>2, <2>3, OffsetOf
    <3>2. PAGE_SIZE - 23 - 8 - a >= 0
      BY <1>2, <2>1, <2>3 DEF free_space, INTERNAL_USABLE, MAX_INTERNAL_HEADER_SIZE, PAGE_ID_SIZE
    <3> QED BY <1>2, <1>3, <2>3, <3>1, <3>2
  <2> QED BY <2>2, <2>3 DEF Holds
<1> HIDE DEF a, x, m
<1>7. /\ is_leaf(pg) => x >= 41 + 4 * m
      /\ is_internal(pg) => x >= 31 + 12 * m
  BY <1>1, <1>6
<1> QED BY <1>1, <1>4, <1>5, <1>7 DEF x, m

(* Sequences given as functions on 1 .. n.                                    *)
LEMMA IsSequence ==
    ASSUME NEW n \in Nat, NEW s, s = [i \in 1 .. n |-> s[i]],
           NEW S, \A i \in 1 .. n : s[i] \in S
    PROVE  s \in Seq(S) /\ Len(s) = n
<1>1. s \in [1 .. n -> S]
  BY Zenon
<1>2. s \in Seq(S)
  BY <1>1, SeqDef
<1>3. DOMAIN s = 1 .. n /\ Len(s) \in Nat /\ DOMAIN s = 1 .. Len(s)
  BY <1>1, <1>2, LenProperties
<1> QED BY <1>2, <1>3

LEMMA Concat ==
    ASSUME NEW m \in Nat, NEW a, a = [i \in 1 .. m |-> a[i]],
           NEW n \in Nat, NEW b, b = [i \in 1 .. n |-> b[i]]
    PROVE  /\ a \o b = [i \in 1 .. m + n |-> (a \o b)[i]]
           /\ Len(a) = m /\ Len(b) = n /\ Len(a \o b) = m + n
           /\ \A i \in 1 .. m : (a \o b)[i] = a[i]
           /\ \A i \in 1 .. n : (a \o b)[m + i] = b[i]
<1> DEFINE S == {a[i] : i \in 1 .. m} \cup {b[i] : i \in 1 .. n}
           c == a \o b
<1>1. a \in Seq(S) /\ Len(a) = m
  <2>1. \A i \in 1 .. m : a[i] \in S
    OBVIOUS
  <2> HIDE DEF S
  <2> QED BY <2>1, IsSequence, Zenon
<1>2. b \in Seq(S) /\ Len(b) = n
  <2>1. \A i \in 1 .. n : b[i] \in S
    OBVIOUS
  <2> HIDE DEF S
  <2> QED BY <2>1, IsSequence, Zenon
<1> HIDE DEF S
<1>3. /\ c \in Seq(S) /\ Len(c) = m + n
      /\ \A i \in 1 .. m + n : c[i] = IF i <= m THEN a[i] ELSE b[i - m]
  <2>1. /\ c \in Seq(S) /\ Len(c) = Len(a) + Len(b)
        /\ \A i \in 1 .. Len(a) + Len(b) : c[i] = IF i <= Len(a) THEN a[i] ELSE b[i - Len(a)]
    BY <1>1, <1>2, ConcatProperties
  <2> QED BY <1>1, <1>2, <2>1
<1> HIDE DEF c
<1>4. c = [i \in 1 .. m + n |-> c[i]]
  <2>1. c \in [1 .. Len(c) -> S]
    BY <1>3, LenProperties
  <2>2. c = [i \in 1 .. Len(c) |-> c[i]]
    BY <2>1
  <2> QED BY <1>3, <2>2
<1>5. \A i \in 1 .. m : c[i] = a[i]
  <2>1. \A i \in 1 .. m : i \in 1 .. m + n /\ i <= m
    OBVIOUS
  <2> QED BY <1>3, <2>1
<1>6. \A i \in 1 .. n : c[m + i] = b[i]
  <2> TAKE i \in 1 .. n
  <2>1. m + i \in 1 .. m + n /\ ~(m + i <= m) /\ (m + i) - m = i
    OBVIOUS
  <2> QED BY <1>3, <2>1
<1> QED BY <1>1, <1>2, <1>3, <1>4, <1>5, <1>6 DEF c

(* A value is intact if nothing else was written where it is.                 *)
LEMMA ReadIntact ==
    ASSUME NEW image, DOMAIN image \subseteq Nat, NEW i \in DOMAIN image,
           \A j \in DOMAIN image : image[j].at \in Nat /\ image[j].len \in Nat \ {0},
           \A j \in DOMAIN image \ {i} : \/ image[j].at + image[j].len <= image[i].at
                                         \/ image[i].at + image[i].len <= image[j].at
    PROVE  ReadAt(image, image[i].at, image[i].len) = image[i].what
<1> DEFINE at == image[i].at
           len == image[i].len
           touching == {j \in DOMAIN image : image[j].at < at + len /\ at < image[j].at + image[j].len}
           last == CHOOSE j \in touching : \A k \in touching : k <= j
<1>1. touching = {i}
  OBVIOUS
<1>2. last = i
  <2>1. last = CHOOSE j \in {i} : \A k \in {i} : k <= j
    BY <1>1
  <2> HIDE DEF last
  <2>2. i <= i
    OBVIOUS
  <2> QED BY <2>1, <2>2
<1>3. ReadAt(image, at, len) =
        IF touching # {} /\ image[last].at = at /\ image[last].len = len THEN image[last].what ELSE Nil
  BY DEF ReadAt
<1> HIDE DEF last, touching
<1> QED BY <1>1, <1>2, <1>3

-----------------------------------------------------------------------------
(* Where everything is in the image of a leaf or an internal page.            *)

Kids(pg) == IF is_leaf(pg) THEN 0 ELSE Len(pg.keys) + 1
CellOf(pg, m) == Write(Offset(pg, m), CellSize(pg, m), pg.keys[m])
SlotOf(pg, m) == Write(SlotAt(pg, m), SLOT_ENTRY_SIZE, [offset |-> Offset(pg, m), length |-> CellSize(pg, m)])
ChildOf(pg, i) == Write(header_end(pg) + PAGE_ID_SIZE * (i - 1), PAGE_ID_SIZE, pg.children[i])
IsPage(pg) == IsLeafPage(pg) \/ IsInternalPage(pg)

LEMMA PageHolds ==
    ASSUME NEW pg, IsPage(pg)
    PROVE  /\ Holds(pg) /\ Len(pg.keys) \in Nat /\ Kids(pg) \in Nat
           /\ is_leaf(pg) <=> ~is_internal(pg)
           /\ ~is_free(pg) /\ num_items(pg) = Len(pg.keys)
BY DEF IsPage, IsLeafPage, IsInternalPage, Holds, Kids, is_leaf, is_internal, is_free, num_items

LEMMA Entries ==
    ASSUME NEW pg, IsPage(pg), NEW e,
           e = [j \in 1 .. 2 * Len(pg.keys) |->
                   IF j % 2 = 1 THEN CellOf(pg, (j + 1) \div 2) ELSE SlotOf(pg, j \div 2)],
           NEW m \in 1 .. Len(pg.keys)
    PROVE  e[2 * m - 1] = CellOf(pg, m) /\ e[2 * m] = SlotOf(pg, m)
<1>1. Len(pg.keys) \in Nat
  BY PageHolds
<1>2. /\ 2 * m - 1 \in 1 .. 2 * Len(pg.keys) /\ 2 * m \in 1 .. 2 * Len(pg.keys)
      /\ (2 * m - 1) % 2 = 1 /\ ((2 * m - 1) + 1) \div 2 = m
      /\ (2 * m) % 2 = 0 /\ (2 * m) \div 2 = m
  BY <1>1
<1> QED BY <1>2

LEMMA ImageParts ==
    ASSUME NEW pg, IsPage(pg)
    PROVE  LET image == as_raw_page(pg)
               n == Len(pg.keys)
           IN /\ DOMAIN image = 1 .. 1 + (Kids(pg) + 2 * n)
              /\ image[1] = write_header(pg)
              /\ \A i \in 1 .. Kids(pg) : image[1 + i] = ChildOf(pg, i)
              /\ \A m \in 1 .. n : /\ image[1 + (Kids(pg) + (2 * m - 1))] = CellOf(pg, m)
                                   /\ image[1 + (Kids(pg) + 2 * m)] = SlotOf(pg, m)
<1> DEFINE n == Len(pg.keys)
           entries == [j \in 1 .. 2 * n |->
                          IF j % 2 = 1 THEN CellOf(pg, (j + 1) \div 2) ELSE SlotOf(pg, j \div 2)]
           kids == [i \in 1 .. Kids(pg) |-> ChildOf(pg, i)]
           header == <<write_header(pg)>>
           body == write_body(pg)
           image == as_raw_page(pg)
<1>1. n \in Nat /\ Kids(pg) \in Nat /\ Holds(pg) /\ num_items(pg) = n
  BY PageHolds
<1>2. entries = [j \in 1 .. 2 * num_items(pg) |->
                    IF j % 2 = 1
                    THEN Write(data_offset(pg)[(j + 1) \div 2], CellSize(pg, (j + 1) \div 2), pg.keys[(j + 1) \div 2])
                    ELSE Write(SlotAt(pg, j \div 2), SLOT_ENTRY_SIZE,
                               [offset |-> data_offset(pg)[j \div 2], length |-> CellSize(pg, j \div 2)])]
  <2>1. \A j \in 1 .. 2 * n : /\ j % 2 = 1 => (j + 1) \div 2 \in 0 .. n
                              /\ j % 2 # 1 => j \div 2 \in 0 .. n
    BY <1>1
  <2>2. \A i \in 0 .. n : data_offset(pg)[i] = Offset(pg, i)
    BY <1>1, DataOffsets
  <2> QED BY <1>1, <2>1, <2>2 DEF CellOf, SlotOf
<1>3. is_leaf(pg) => Kids(pg) = 0 /\ body = entries
  <2> SUFFICES ASSUME is_leaf(pg) PROVE body = entries
    BY DEF Kids
  <2>1. ~is_internal(pg) /\ ~is_free(pg)
    BY PageHolds
  <2> QED BY <1>2, <2>1 DEF write_body
<1>4. is_internal(pg) => body = kids \o entries
  <2> SUFFICES ASSUME is_internal(pg) PROVE body = kids \o entries
    OBVIOUS
  <2>1. ~is_leaf(pg) /\ ~is_free(pg) /\ DOMAIN pg.children = 1 .. Kids(pg)
    <3>1. IsInternalPage(pg)
      BY PageHolds DEF IsPage, IsLeafPage
    <3> QED BY <3>1, PageHolds, LenProperties DEF IsInternalPage, Kids
  <2> QED BY <1>2, <2>1 DEF write_body, ChildOf
<1> HIDE DEF entries, kids, body
<1>5. /\ entries = [j \in 1 .. 2 * n |-> entries[j]]
      /\ kids = [i \in 1 .. Kids(pg) |-> kids[i]]
      /\ header = [i \in 1 .. 1 |-> header[i]]
  BY DEF entries, kids
<1>6. /\ body = [j \in 1 .. Kids(pg) + 2 * n |-> body[j]]
      /\ \A i \in 1 .. Kids(pg) : body[i] = ChildOf(pg, i)
      /\ \A j \in 1 .. 2 * n : body[Kids(pg) + j] = entries[j]
  <2>1. CASE is_leaf(pg)
    BY <1>1, <1>3, <1>5, <2>1
  <2>2. CASE is_internal(pg)
    <3>1. \A i \in 1 .. Kids(pg) : kids[i] = ChildOf(pg, i)
      BY DEF kids
    <3>2. 2 * n \in Nat
      BY <1>1
    <3>3. body = kids \o entries
      BY <1>4, <2>2
    <3>4. /\ kids \o entries = [i \in 1 .. Kids(pg) + 2 * n |-> (kids \o entries)[i]]
          /\ \A i \in 1 .. Kids(pg) : (kids \o entries)[i] = kids[i]
          /\ \A i \in 1 .. 2 * n : (kids \o entries)[Kids(pg) + i] = entries[i]
      <4>1. /\ Kids(pg) \in Nat /\ 2 * n \in Nat
            /\ kids = [i \in 1 .. Kids(pg) |-> kids[i]] /\ entries = [j \in 1 .. 2 * n |-> entries[j]]
        BY <1>1, <1>5, <3>2
      <4> HIDE DEF n
      <4> QED BY <4>1, Concat, SMTT(30)
    <3> QED BY <3>1, <3>3, <3>4
  <2> QED BY <2>1, <2>2, PageHolds
<1>7. image = header \o body
  BY DEF as_raw_page, body
<1> HIDE DEF header, image
<1>8. /\ image = [i \in 1 .. 1 + (Kids(pg) + 2 * n) |-> image[i]]
      /\ \A i \in 1 .. 1 : image[i] = header[i]
      /\ \A i \in 1 .. Kids(pg) + 2 * n : image[1 + i] = body[i]
  <2>1. Kids(pg) + 2 * n \in Nat /\ 1 \in Nat
    BY <1>1
  <2> QED BY <1>5, <1>6, <1>7, <2>1, Concat
<1>9. image[1] = write_header(pg)
  BY <1>8 DEF header
<1>10. \A i \in 1 .. Kids(pg) : image[1 + i] = ChildOf(pg, i)
  <2>1. \A i \in 1 .. Kids(pg) : i \in 1 .. Kids(pg) + 2 * n
    BY <1>1
  <2> QED BY <1>6, <1>8, <2>1
<1>11. \A m \in 1 .. n : /\ image[1 + (Kids(pg) + (2 * m - 1))] = CellOf(pg, m)
                         /\ image[1 + (Kids(pg) + 2 * m)] = SlotOf(pg, m)
  <2> TAKE m \in 1 .. n
  <2>1. entries[2 * m - 1] = CellOf(pg, m) /\ entries[2 * m] = SlotOf(pg, m)
    BY Entries DEF entries
  <2>2. /\ 2 * m - 1 \in 1 .. 2 * n /\ 2 * m \in 1 .. 2 * n
        /\ Kids(pg) + (2 * m - 1) \in 1 .. Kids(pg) + 2 * n
        /\ Kids(pg) + 2 * m \in 1 .. Kids(pg) + 2 * n
    BY <1>1
  <2> QED BY <1>6, <1>8, <2>1, <2>2
<1>12. DOMAIN image = 1 .. 1 + (Kids(pg) + 2 * n)
  BY <1>8
<1> QED BY <1>9, <1>10, <1>11, <1>12 DEF image

(* Header, children and slots one after the other, and the cells above them.  *)
LEMMA Places ==
    ASSUME NEW pg, IsPage(pg), free_space(pg) >= 0
    PROVE  LET h == header_end(pg)
               S == SlotsAt(pg)
               n == Len(pg.keys)
           IN /\ h \in Nat \ {0} /\ S = h + 8 * Kids(pg) /\ S \in Nat
              /\ write_header(pg).at = 0 /\ write_header(pg).len = h
              /\ \A i \in 1 .. Kids(pg) : ChildOf(pg, i).at = h + 8 * (i - 1) /\ ChildOf(pg, i).len = 8
              /\ \A m \in 1 .. n : SlotOf(pg, m).at = S + 4 * (m - 1) /\ SlotOf(pg, m).len = 4
              /\ \A m \in 1 .. n : /\ CellOf(pg, m).at = Offset(pg, m) /\ CellOf(pg, m).len = CellSize(pg, m)
                                   /\ Offset(pg, m) \in Nat /\ CellSize(pg, m) \in Nat \ {0}
                                   /\ Offset(pg, m) + CellSize(pg, m) = Offset(pg, m - 1)
                                   /\ S + 4 * n <= Offset(pg, m) /\ Offset(pg, m - 1) <= PAGE_SIZE
<1> DEFINE h == header_end(pg)
           S == SlotsAt(pg)
           n == Len(pg.keys)
<1>1. Holds(pg) /\ n \in Nat /\ Kids(pg) \in Nat /\ (is_leaf(pg) <=> ~is_internal(pg)) /\ ~is_free(pg)
  BY PageHolds
<1>2. h \in 23 .. 41 /\ (is_internal(pg) => h = 23)
  BY <1>1 DEF header_end, OptionSize, CHECKSUM_OFFSET, PAGE_ID_SIZE
<1>3. S = h + 8 * Kids(pg) /\ (is_leaf(pg) => Kids(pg) = 0) /\ (is_internal(pg) => Kids(pg) = n + 1)
  <2>1. CASE is_leaf(pg)
    BY <1>1, <1>2, <2>1 DEF SlotsAt, Kids
  <2>2. CASE is_internal(pg)
    <3>1. Len(pg.children) = n + 1
      BY <1>1, <2>2 DEF IsPage, IsInternalPage, IsLeafPage
    <3> QED BY <1>1, <1>2, <2>2, <3>1 DEF SlotsAt, Kids, PAGE_ID_SIZE
  <2> QED BY <1>1, <2>1, <2>2
<1>4. write_header(pg).at = 0 /\ write_header(pg).len = h
  BY DEF write_header, Write
<1>5. \A i \in 1 .. Kids(pg) : ChildOf(pg, i).at = h + 8 * (i - 1) /\ ChildOf(pg, i).len = 8
  BY DEF ChildOf, Write, PAGE_ID_SIZE
<1>6. \A m \in 1 .. n : SlotOf(pg, m).at = S + 4 * (m - 1) /\ SlotOf(pg, m).len = 4
  BY DEF SlotOf, SlotAt, Write, SLOT_ENTRY_SIZE
<1>7. \A m \in 1 .. n : CellOf(pg, m).at = Offset(pg, m) /\ CellOf(pg, m).len = CellSize(pg, m)
  BY DEF CellOf, Write
<1>8. ASSUME NEW m \in 1 .. n
      PROVE  /\ Offset(pg, m) \in Nat /\ CellSize(pg, m) \in Nat \ {0}
             /\ Offset(pg, m) + CellSize(pg, m) = Offset(pg, m - 1)
             /\ S + 4 * n <= Offset(pg, m) /\ Offset(pg, m - 1) <= PAGE_SIZE
  <2>1. m \in 0 .. n /\ m - 1 \in 0 .. n
    BY <1>1
  <2>2. /\ Offset(pg, m - 1) <= PAGE_SIZE
        /\ is_leaf(pg) => Offset(pg, m) >= 41 + 4 * n
        /\ is_internal(pg) => Offset(pg, m) >= 31 + 12 * n
    BY <1>1, <2>1, OffsetsRoom
  <2>3. /\ Offset(pg, m) \in Int /\ Offset(pg, m - 1) \in Int /\ CellSize(pg, m) \in Nat \ {0}
        /\ Offset(pg, m) = Offset(pg, m - 1) - CellSize(pg, m)
    BY <1>1, OffsetStep
  <2> DEFINE x == Offset(pg, m)
  <2>4. /\ is_leaf(pg) => x >= 41 + 4 * n
        /\ is_internal(pg) => x >= 31 + 12 * n
    BY <2>2
  <2>5. x \in Int
    BY <2>3
  <2> HIDE DEF x, n, h, S
  <2>6. x \in Nat /\ S + 4 * n <= x
    <3>1. CASE is_leaf(pg)
      BY <1>1, <1>2, <1>3, <2>4, <2>5, <3>1
    <3>2. CASE is_internal(pg)
      BY <1>1, <1>2, <1>3, <2>4, <2>5, <3>2
    <3> QED BY <1>1, <3>1, <3>2
  <2>7. Offset(pg, m) + CellSize(pg, m) = Offset(pg, m - 1)
    BY <2>3
  <2> QED BY <2>2, <2>3, <2>6, <2>7 DEF x
<1>9. h \in Nat \ {0} /\ S \in Nat
  <2>1. h \in Nat \ {0} /\ h + 8 * Kids(pg) \in Nat
    <3> HIDE DEF h
    <3> QED BY <1>1, <1>2
  <2> QED BY <1>3, <2>1
<1> QED BY <1>3, <1>4, <1>5, <1>6, <1>7, <1>8, <1>9

(* Every write is one of these.                                               *)
LEMMA PartOf ==
    ASSUME NEW pg, IsPage(pg), NEW j \in DOMAIN as_raw_page(pg)
    PROVE  \/ j = 1
           \/ \E i \in 1 .. Kids(pg) : j = 1 + i
           \/ \E m \in 1 .. Len(pg.keys) : j = 1 + (Kids(pg) + (2 * m - 1))
           \/ \E m \in 1 .. Len(pg.keys) : j = 1 + (Kids(pg) + 2 * m)
<1> DEFINE K == Kids(pg)
           n == Len(pg.keys)
<1>1. K \in Nat /\ n \in Nat /\ j \in 1 .. 1 + (K + 2 * n)
  BY PageHolds, ImageParts
<1> HIDE DEF K, n
<1>2. CASE j <= 1 + K
  <2>1. j = 1 \/ (j - 1 \in 1 .. K /\ j = 1 + (j - 1))
    BY <1>1, <1>2
  <2> QED BY <2>1 DEF K
<1>3. CASE j > 1 + K
  <2> DEFINE i == j - 1 - K
  <2>1. i \in 1 .. 2 * n /\ j = 1 + (K + i)
    BY <1>1, <1>3
  <2> HIDE DEF i
  <2>2. \/ i \div 2 \in 1 .. n /\ i = 2 * (i \div 2)
        \/ (i + 1) \div 2 \in 1 .. n /\ i = 2 * ((i + 1) \div 2) - 1
    BY <1>1, <2>1
  <2> QED BY <2>1, <2>2 DEF K, n
<1> QED BY <1>1, <1>2, <1>3

(* No two of them meet.                                                       *)
LEMMA WritesApart ==
    ASSUME NEW pg, IsPage(pg), free_space(pg) >= 0
    PROVE  LET image == as_raw_page(pg)
           IN \A i \in DOMAIN image :
                 /\ image[i].at \in Nat /\ image[i].len \in Nat \ {0}
                 /\ \A j \in DOMAIN image \ {i} : \/ image[j].at + image[j].len <= image[i].at
                                                  \/ image[i].at + image[i].len <= image[j].at
<1> DEFINE image == as_raw_page(pg)
           K == Kids(pg)
           n == Len(pg.keys)
           h == header_end(pg)
           S == SlotsAt(pg)
           off(m) == Offset(pg, m)
           HeaderPart(j) == j = 1 /\ image[j].at = 0 /\ image[j].len = h
           Kid(j, i) == j = 1 + i /\ image[j].at = h + 8 * (i - 1) /\ image[j].len = 8
           Cell(j, m) == j = 1 + (K + (2 * m - 1)) /\ image[j].at = off(m) /\ image[j].len = CellSize(pg, m)
           Slot(j, m) == j = 1 + (K + 2 * m) /\ image[j].at = S + 4 * (m - 1) /\ image[j].len = 4
           Under(i, j) == image[i].at + image[i].len <= image[j].at
<1>1. K \in Nat /\ n \in Nat /\ h \in Nat \ {0} /\ S = h + 8 * K /\ S \in Nat /\ Holds(pg)
  BY PageHolds, Places
<1>2. ASSUME NEW j \in DOMAIN image
      PROVE  \/ HeaderPart(j) \/ \E i \in 1 .. K : Kid(j, i)
             \/ \E m \in 1 .. n : Cell(j, m)
             \/ \E m \in 1 .. n : Slot(j, m)
  <2>1. CASE j = 1
    <3>1. image[1] = write_header(pg) /\ write_header(pg).at = 0 /\ write_header(pg).len = h
      BY ImageParts, Places
    <3> QED BY <2>1, <3>1
  <2>2. ASSUME NEW i \in 1 .. K, j = 1 + i PROVE Kid(j, i)
    <3>1. image[1 + i] = ChildOf(pg, i) /\ ChildOf(pg, i).at = h + 8 * (i - 1) /\ ChildOf(pg, i).len = 8
      BY ImageParts, Places
    <3> QED BY <2>2, <3>1
  <2>3. ASSUME NEW m \in 1 .. n, j = 1 + (K + (2 * m - 1)) PROVE Cell(j, m)
    <3>1. /\ image[1 + (K + (2 * m - 1))] = CellOf(pg, m)
          /\ CellOf(pg, m).at = off(m) /\ CellOf(pg, m).len = CellSize(pg, m)
      BY ImageParts, Places
    <3> QED BY <2>3, <3>1
  <2>4. ASSUME NEW m \in 1 .. n, j = 1 + (K + 2 * m) PROVE Slot(j, m)
    <3>1. /\ image[1 + (K + 2 * m)] = SlotOf(pg, m)
          /\ SlotOf(pg, m).at = S + 4 * (m - 1) /\ SlotOf(pg, m).len = 4
      BY ImageParts, Places
    <3> QED BY <2>4, <3>1
  <2>5. \/ j = 1 \/ \E i \in 1 .. K : j = 1 + i
        \/ \E m \in 1 .. n : j = 1 + (K + (2 * m - 1))
        \/ \E m \in 1 .. n : j = 1 + (K + 2 * m)
    BY PartOf
  <2> HIDE DEF HeaderPart, Kid, Cell, Slot, image, K, n
  <2> QED BY <2>1, <2>2, <2>3, <2>4, <2>5
<1>3. ASSUME NEW m \in 1 .. n
      PROVE  /\ off(m) \in Nat /\ off(m - 1) \in Nat /\ CellSize(pg, m) \in Nat \ {0}
             /\ off(m) + CellSize(pg, m) = off(m - 1)
             /\ S + 4 * n <= off(m)
  <2>1. /\ off(m) \in Nat /\ CellSize(pg, m) \in Nat \ {0}
        /\ off(m) + CellSize(pg, m) = off(m - 1)
        /\ S + 4 * n <= off(m)
    BY Places
  <2> HIDE DEF off
  <2> QED BY <2>1
<1>4. \A k, m \in 1 .. n : k < m => off(m - 1) <= off(k)
  <2> SUFFICES ASSUME NEW k \in 1 .. n, NEW m \in 1 .. n, k < m PROVE off(m - 1) <= off(k)
    OBVIOUS
  <2>1. k \in 0 .. n /\ m - 1 \in k .. n
    BY <1>1
  <2> QED BY <1>1, <2>1, OffsetsFall
<1> HIDE DEF image, K, n, h, S, off
<1>5. \A j \in DOMAIN image : image[j].at \in Nat /\ image[j].len \in Nat \ {0}
  <2> TAKE j \in DOMAIN image
  <2>1. CASE HeaderPart(j)
    BY <1>1, <2>1
  <2>2. ASSUME NEW i \in 1 .. K, Kid(j, i) PROVE image[j].at \in Nat /\ image[j].len \in Nat \ {0}
    BY <1>1, <2>2
  <2>3. ASSUME NEW m \in 1 .. n, Cell(j, m) PROVE image[j].at \in Nat /\ image[j].len \in Nat \ {0}
    BY <1>3, <2>3
  <2>4. ASSUME NEW m \in 1 .. n, Slot(j, m) PROVE image[j].at \in Nat /\ image[j].len \in Nat \ {0}
    BY <1>1, <2>4
  <2> HIDE DEF HeaderPart, Kid, Cell, Slot
  <2> QED BY <1>2, <2>1, <2>2, <2>3, <2>4
<1>6. ASSUME NEW j, HeaderPart(j)
      PROVE  /\ \A k : HeaderPart(k) => k = j
             /\ \A k, i : i \in 1 .. K /\ Kid(k, i) => Under(j, k)
             /\ \A k, m : m \in 1 .. n /\ Slot(k, m) => Under(j, k)
             /\ \A k, m : m \in 1 .. n /\ Cell(k, m) => Under(j, k)
  <2>1. \A k, i : i \in 1 .. K /\ Kid(k, i) => Under(j, k)
    BY <1>1, <1>6
  <2>2. \A k, m : m \in 1 .. n /\ Slot(k, m) => Under(j, k)
    BY <1>1, <1>6
  <2>3. \A k, m : m \in 1 .. n /\ Cell(k, m) => Under(j, k)
    BY <1>1, <1>3, <1>6
  <2> QED BY <1>6, <2>1, <2>2, <2>3
<1>7. ASSUME NEW j, NEW i \in 1 .. K, Kid(j, i)
      PROVE  /\ \A k, l : l \in 1 .. K /\ Kid(k, l) /\ k # j => Under(j, k) \/ Under(k, j)
             /\ \A k, m : m \in 1 .. n /\ Slot(k, m) => Under(j, k)
             /\ \A k, m : m \in 1 .. n /\ Cell(k, m) => Under(j, k)
  <2>1. \A k, l : l \in 1 .. K /\ Kid(k, l) /\ k # j => Under(j, k) \/ Under(k, j)
    BY <1>1, <1>7
  <2>2. \A k, m : m \in 1 .. n /\ Slot(k, m) => Under(j, k)
    BY <1>1, <1>7
  <2>3. \A k, m : m \in 1 .. n /\ Cell(k, m) => Under(j, k)
    BY <1>1, <1>3, <1>7
  <2> QED BY <2>1, <2>2, <2>3
<1>8. ASSUME NEW j, NEW m \in 1 .. n, Slot(j, m)
      PROVE  /\ \A k, l : l \in 1 .. n /\ Slot(k, l) /\ k # j => Under(j, k) \/ Under(k, j)
             /\ \A k, l : l \in 1 .. n /\ Cell(k, l) => Under(j, k)
  <2>1. \A k, l : l \in 1 .. n /\ Slot(k, l) /\ k # j => Under(j, k) \/ Under(k, j)
    BY <1>1, <1>8
  <2>2. \A k, l : l \in 1 .. n /\ Cell(k, l) => Under(j, k)
    BY <1>1, <1>3, <1>8
  <2> QED BY <2>1, <2>2
<1>9. ASSUME NEW j, NEW m \in 1 .. n, Cell(j, m), NEW k, NEW l \in 1 .. n, Cell(k, l), k # j
      PROVE  Under(j, k) \/ Under(k, j)
  <2>1. l # m
    BY <1>9
  <2>2. CASE l < m
    BY <1>1, <1>3, <1>4, <1>9, <2>2
  <2>3. CASE m < l
    BY <1>1, <1>3, <1>4, <1>9, <2>3
  <2> QED BY <1>1, <2>1, <2>2, <2>3
<1>10. \A i \in DOMAIN image : \A j \in DOMAIN image \ {i} : Under(j, i) \/ Under(i, j)
  <2> HIDE DEF HeaderPart, Kid, Cell, Slot, Under
  <2> TAKE i \in DOMAIN image
  <2> TAKE j \in DOMAIN image \ {i}
  <2>1. CASE HeaderPart(i)
    BY <1>2, <1>6, <2>1
  <2>2. CASE \E l \in 1 .. K : Kid(i, l)
    BY <1>2, <1>6, <1>7, <2>2
  <2>3. CASE \E m \in 1 .. n : Slot(i, m)
    BY <1>2, <1>6, <1>7, <1>8, <2>3
  <2>4. CASE \E m \in 1 .. n : Cell(i, m)
    BY <1>2, <1>6, <1>7, <1>8, <1>9, <2>4
  <2> QED BY <1>2, <2>1, <2>2, <2>3, <2>4
<1> QED BY <1>5, <1>10 DEF image

-----------------------------------------------------------------------------
(* Reading it back.                                                           *)

LEMMA Intact ==
    ASSUME NEW pg, IsPage(pg), free_space(pg) >= 0
    PROVE  LET image == as_raw_page(pg)
           IN /\ ReadAt(image, 0, header_end(pg)) = write_header(pg).what
              /\ \A i \in 1 .. Kids(pg) :
                    ReadAt(image, header_end(pg) + PAGE_ID_SIZE * (i - 1), PAGE_ID_SIZE) = pg.children[i]
              /\ \A m \in 1 .. Len(pg.keys) :
                    /\ ReadAt(image, SlotsAt(pg) + SLOT_ENTRY_SIZE * (m - 1), SLOT_ENTRY_SIZE)
                          = [offset |-> Offset(pg, m), length |-> CellSize(pg, m)]
                    /\ ReadAt(image, Offset(pg, m), CellSize(pg, m)) = pg.keys[m]
<1> DEFINE image == as_raw_page(pg)
           K == Kids(pg)
           n == Len(pg.keys)
<1>1. ASSUME NEW i \in DOMAIN image
      PROVE  ReadAt(image, image[i].at, image[i].len) = image[i].what
  <2>1. DOMAIN image \subseteq Nat
    <3>1. K \in Nat /\ n \in Nat /\ DOMAIN image = 1 .. 1 + (K + 2 * n)
      BY PageHolds, ImageParts
    <3> QED BY <3>1
  <2>2. /\ \A j \in DOMAIN image : image[j].at \in Nat /\ image[j].len \in Nat \ {0}
        /\ \A j \in DOMAIN image \ {i} : \/ image[j].at + image[j].len <= image[i].at
                                         \/ image[i].at + image[i].len <= image[j].at
    BY WritesApart
  <2> HIDE DEF image
  <2> QED BY <2>1, <2>2, ReadIntact
<1>2. K \in Nat /\ n \in Nat /\ DOMAIN image = 1 .. 1 + (K + 2 * n)
  BY PageHolds, ImageParts
<1>3. ReadAt(image, 0, header_end(pg)) = write_header(pg).what
  <2>1. /\ 1 \in DOMAIN image /\ image[1] = write_header(pg)
        /\ write_header(pg).at = 0 /\ write_header(pg).len = header_end(pg)
    BY <1>2, ImageParts, Places
  <2> HIDE DEF image
  <2> QED BY <1>1, <2>1
<1>4. ASSUME NEW i \in 1 .. K
      PROVE  ReadAt(image, header_end(pg) + PAGE_ID_SIZE * (i - 1), PAGE_ID_SIZE) = pg.children[i]
  <2>1. 1 + i \in DOMAIN image
    BY <1>2
  <2>2. image[1 + i] = ChildOf(pg, i)
    BY ImageParts
  <2> HIDE DEF image
  <2> QED BY <1>1, <2>1, <2>2 DEF ChildOf, Write
<1>5. ASSUME NEW m \in 1 .. n
      PROVE  /\ ReadAt(image, SlotsAt(pg) + SLOT_ENTRY_SIZE * (m - 1), SLOT_ENTRY_SIZE)
                   = [offset |-> Offset(pg, m), length |-> CellSize(pg, m)]
             /\ ReadAt(image, Offset(pg, m), CellSize(pg, m)) = pg.keys[m]
  <2>1. 1 + (K + 2 * m) \in DOMAIN image /\ 1 + (K + (2 * m - 1)) \in DOMAIN image
    BY <1>2
  <2>2. image[1 + (K + 2 * m)] = SlotOf(pg, m) /\ image[1 + (K + (2 * m - 1))] = CellOf(pg, m)
    BY ImageParts
  <2> HIDE DEF image
  <2>3. ReadAt(image, SlotsAt(pg) + SLOT_ENTRY_SIZE * (m - 1), SLOT_ENTRY_SIZE)
                   = [offset |-> Offset(pg, m), length |-> CellSize(pg, m)]
    BY <1>1, <2>1, <2>2 DEF SlotOf, SlotAt, Write
  <2>4. ReadAt(image, Offset(pg, m), CellSize(pg, m)) = pg.keys[m]
    BY <1>1, <2>1, <2>2 DEF CellOf, Write
  <2> QED BY <2>3, <2>4
<1> QED BY <1>3, <1>4, <1>5

(* The number of items is within what deserialize allows.                     *)
LEMMA ItemsFit ==
    ASSUME NEW pg, IsPage(pg), free_space(pg) >= 0
    PROVE  Len(pg.keys) <= MAX_ITEMS(pg.kind)
<1> DEFINE n == Len(pg.keys)
           a == PrefixSize(pg)[n]
<1>1. Holds(pg) /\ n \in Nat /\ (is_leaf(pg) <=> ~is_internal(pg)) /\ ~is_free(pg) /\ PAGE_SIZE \in Nat
  BY PageHolds, SizeAssumption
<1>2. a \in Nat /\ a >= n * (IF is_leaf(pg) THEN 7 ELSE 14)
  <2>1. PrefixSize(pg)[0] = 0 /\ a \in Nat
    BY <1>1, PrefixSums
  <2>2. 0 \in 0 .. n /\ 0 + n <= n /\ 0 + n = n
    BY <1>1
  <2>3. PrefixSize(pg)[0 + n] >= PrefixSize(pg)[0] + n * (IF is_leaf(pg) THEN 7 ELSE 14)
    BY <1>1, <2>2, SumsGrow
  <2>4. a >= 0 + n * (IF is_leaf(pg) THEN 7 ELSE 14)
    BY <2>1, <2>2, <2>3
  <2> HIDE DEF a, n
  <2> QED BY <1>1, <2>1, <2>4
<1>3. entries_size(pg) = a
  BY <1>1 DEF entries_size
<1> HIDE DEF a, n
<1>4. CASE is_leaf(pg)
  <2>1. PAGE_SIZE - 41 - a >= 0 /\ a >= n * 7
    BY <1>2, <1>3, <1>4 DEF free_space, LEAF_USABLE, MAX_LEAF_HEADER_SIZE
  <2>2. n <= (PAGE_SIZE - 25) \div 7
    BY <1>1, <1>2, <2>1
  <2>3. MAX_ITEMS(pg.kind) = (PAGE_SIZE - (41 - 2 * 8)) \div (4 + (1 + 2))
    BY <1>4 DEF MAX_ITEMS, is_leaf, MAX_LEAF_HEADER_SIZE, PAGE_ID_SIZE, SLOT_ENTRY_SIZE,
       MIN_ROW_ENCODED_SIZE, MIN_KEY_ENCODED_SIZE
  <2>4. MAX_ITEMS(pg.kind) = (PAGE_SIZE - 25) \div 7
    BY <2>3
  <2> QED BY <2>2, <2>4 DEF n
<1>5. CASE is_internal(pg)
  <2>1. PAGE_SIZE - 31 - a >= 0 /\ a >= n * 14
    BY <1>1, <1>2, <1>3, <1>5 DEF free_space, INTERNAL_USABLE, MAX_INTERNAL_HEADER_SIZE, PAGE_ID_SIZE
  <2>2. n <= (PAGE_SIZE - 31) \div 14
    BY <1>1, <1>2, <2>1
  <2>3. MAX_ITEMS(pg.kind) = (PAGE_SIZE - 23 - 8) \div (4 + 8 + 2)
    BY <1>5 DEF MAX_ITEMS, is_internal, INTERNAL_USABLE, MAX_INTERNAL_HEADER_SIZE, PAGE_ID_SIZE,
       SLOT_ENTRY_SIZE, MIN_KEY_ENCODED_SIZE
  <2>4. MAX_ITEMS(pg.kind) = (PAGE_SIZE - 31) \div 14
    BY <1>1, <2>3
  <2> QED BY <2>2, <2>4 DEF n
<1> QED BY <1>1, <1>4, <1>5

(* The slots pass read_slot_ranges.                                           *)
LEMMA SlotsAreValid ==
    ASSUME NEW pg, IsPage(pg), free_space(pg) >= 0
    PROVE  ValidRanges([m \in 1 .. Len(pg.keys) |-> [offset |-> Offset(pg, m), length |-> CellSize(pg, m)]],
                       SlotsAt(pg) + SLOT_ENTRY_SIZE * Len(pg.keys))
<1> DEFINE n == Len(pg.keys)
           off(m) == Offset(pg, m)
           len(m) == CellSize(pg, m)
           slots == [m \in 1 .. n |-> [offset |-> off(m), length |-> len(m)]]
           start == SlotsAt(pg) + SLOT_ENTRY_SIZE * n
<1>1. n \in Nat /\ Holds(pg) /\ SlotsAt(pg) \in Nat /\ PAGE_SIZE \in Nat
  BY PageHolds, Places, SizeAssumption
<1>2. start \in Nat /\ start = SlotsAt(pg) + 4 * n
  BY <1>1 DEF SLOT_ENTRY_SIZE
<1>3. ASSUME NEW m \in 1 .. n
      PROVE  /\ off(m) \in Nat /\ len(m) \in Nat \ {0} /\ off(m) + len(m) = off(m - 1)
             /\ start <= off(m) /\ off(m - 1) <= PAGE_SIZE
  BY <1>2, Places
<1>4. \A k, m \in 1 .. n : k < m => off(m - 1) <= off(k)
  <2> SUFFICES ASSUME NEW k \in 1 .. n, NEW m \in 1 .. n, k < m PROVE off(m - 1) <= off(k)
    OBVIOUS
  <2>1. k \in 0 .. n /\ m - 1 \in k .. n
    BY <1>1
  <2> QED BY <1>1, <2>1, OffsetsFall
<1> HIDE DEF n, off, len, start
<1>5. ASSUME NEW m \in 1 .. n
      PROVE  /\ slots[m] # Nil /\ slots[m].length > 0
             /\ start <= slots[m].offset /\ slots[m].offset + slots[m].length <= PAGE_SIZE
  <2>1. slots[m] = [offset |-> off(m), length |-> len(m)]
    OBVIOUS
  <2>2. slots[m] \in [offset : Nat, length : Nat]
    BY <1>3, <2>1
  <2>3. slots[m] # Nil
    BY <2>2, NilAssumption
  <2> QED BY <1>3, <2>1, <2>3
<1>6. ASSUME NEW k \in 1 .. n, NEW m \in 1 .. n, k # m
      PROVE  \/ slots[k].offset + slots[k].length <= slots[m].offset
             \/ slots[m].offset + slots[m].length <= slots[k].offset
  <2>1. /\ slots[k].offset = off(k) /\ slots[k].offset + slots[k].length = off(k - 1)
        /\ slots[m].offset = off(m) /\ slots[m].offset + slots[m].length = off(m - 1)
    BY <1>3
  <2>2. k < m \/ m < k
    BY <1>1, <1>6
  <2> QED BY <1>4, <2>1, <2>2
<1>7. DOMAIN slots = 1 .. n
  OBVIOUS
<1> HIDE DEF slots
<1>8. ValidRanges(slots, start)
  BY <1>5, <1>6, <1>7 DEF ValidRanges
<1> QED BY <1>8 DEF slots, start, n, off, len

(* A sequence is what its elements are.                                       *)
LEMMA SameSequence ==
    ASSUME NEW S, NEW s \in Seq(S)
    PROVE  s = [i \in 1 .. Len(s) |-> s[i]]
<1>1. s \in [1 .. Len(s) -> S]
  BY LenProperties
<1> QED BY <1>1

LEMMA ReadsBackAs ==
    ASSUME NEW pg, IsPage(pg), free_space(pg) >= 0
    PROVE  deserialize(as_raw_page(pg)) = pg
<1> DEFINE image == as_raw_page(pg)
           n == Len(pg.keys)
           len == image[1].len
           header == ReadAt(image, 0, len)
           children == [i \in 1 .. header.items + 1 |->
                           ReadAt(image, len + PAGE_ID_SIZE * (i - 1), PAGE_ID_SIZE)]
           first_slot == len + (IF header.kind = "internal" THEN PAGE_ID_SIZE * Len(children) ELSE 0)
           slots == [m \in 1 .. header.items |->
                        ReadAt(image, first_slot + SLOT_ENTRY_SIZE * (m - 1), SLOT_ENTRY_SIZE)]
           keys == [m \in 1 .. header.items |-> ReadAt(image, slots[m].offset, slots[m].length)]
<1>1. deserialize(image) =
        IF header = Nil THEN Nil
        ELSE IF header.items > MAX_ITEMS(header.kind) THEN Nil
        ELSE IF header.kind = "free" THEN free(ReadAt(image, len, image[2].len))
        ELSE IF ~ValidRanges(slots, first_slot + SLOT_ENTRY_SIZE * header.items) THEN Nil
        ELSE IF header.kind = "leaf" THEN leaf(keys, header.next, header.prev)
        ELSE internal(keys, children)
  BY DEF deserialize
<1>2. n \in Nat /\ Kids(pg) \in Nat /\ (is_leaf(pg) <=> ~is_internal(pg)) /\ pg.keys \in Seq(Key)
  BY PageHolds DEF Holds
<1>3. len = header_end(pg)
  <2>1. image[1] = write_header(pg) /\ write_header(pg).len = header_end(pg)
    BY ImageParts, Places
  <2> HIDE DEF image
  <2> QED BY <2>1
<1>4. header = write_header(pg).what
  BY <1>3, Intact
<1>5. /\ header # Nil /\ header.kind = pg.kind /\ header.items = n
      /\ is_leaf(pg) => header.next = pg.next /\ header.prev = pg.prev
  <2> HIDE DEF header
  <2>1. CASE is_leaf(pg)
    <3>1. header = [kind |-> "leaf", items |-> n, next |-> pg.next, prev |-> pg.prev]
      BY <1>4, <2>1 DEF write_header, Write, is_leaf
    <3>2. pg.next \in Nat \cup {Nil} /\ pg.prev \in Nat \cup {Nil}
      BY <2>1 DEF IsPage, IsLeafPage, IsInternalPage, is_leaf, is_internal
    <3>3. header \in [kind : {"leaf"}, items : Nat, next : Nat \cup {Nil}, prev : Nat \cup {Nil}]
      BY <1>2, <3>1, <3>2
    <3> QED BY <2>1, <3>1, <3>3, NilAssumption DEF is_leaf
  <2>2. CASE is_internal(pg)
    <3>1. header = [kind |-> "internal", items |-> n]
      BY <1>2, <1>4, <2>2, PageHolds DEF write_header, Write, is_internal
    <3>2. header \in [kind : {"internal", "free"}, items : Nat]
      BY <1>2, <3>1
    <3> QED BY <1>2, <2>2, <3>1, <3>2, NilAssumption DEF is_internal
  <2> QED BY <1>2, <2>1, <2>2
<1> HIDE DEF header
<1>6. is_internal(pg) => children = pg.children
  <2> SUFFICES ASSUME is_internal(pg) PROVE children = pg.children
    OBVIOUS
  <2>1. IsInternalPage(pg) /\ Kids(pg) = n + 1
    BY <1>2 DEF IsPage, IsLeafPage, Kids
  <2>2. \A i \in 1 .. n + 1 : ReadAt(image, len + PAGE_ID_SIZE * (i - 1), PAGE_ID_SIZE) = pg.children[i]
    BY <1>3, <2>1, Intact
  <2>3. pg.children = [i \in 1 .. n + 1 |-> pg.children[i]]
    BY <2>1, SameSequence DEF IsInternalPage
  <2> QED BY <1>5, <2>2, <2>3
<1>7. first_slot = SlotsAt(pg)
  <2>1. CASE is_leaf(pg)
    BY <1>2, <1>3, <1>5, <2>1 DEF SlotsAt, is_leaf
  <2>2. CASE is_internal(pg)
    BY <1>2, <1>3, <1>5, <1>6, <2>2 DEF SlotsAt, is_internal
  <2> QED BY <1>2, <2>1, <2>2
<1> HIDE DEF len, children, first_slot
<1>8. slots = [m \in 1 .. n |-> [offset |-> Offset(pg, m), length |-> CellSize(pg, m)]]
  BY <1>5, <1>7, Intact
<1>9. keys = pg.keys
  <2> HIDE DEF slots
  <2>1. \A m \in 1 .. n : ReadAt(image, slots[m].offset, slots[m].length) = pg.keys[m]
    BY <1>8, Intact
  <2>2. pg.keys = [m \in 1 .. n |-> pg.keys[m]]
    BY <1>2, SameSequence
  <2> QED BY <1>5, <2>1, <2>2
<1>10. ValidRanges(slots, first_slot + SLOT_ENTRY_SIZE * header.items)
  <2> HIDE DEF slots
  <2> QED BY <1>5, <1>7, <1>8, SlotsAreValid
<1>11. ~(header.items > MAX_ITEMS(header.kind))
  <2>1. n <= MAX_ITEMS(pg.kind)
    BY ItemsFit
  <2>2. MAX_ITEMS(pg.kind) \in Int
    <3>1. PAGE_SIZE \in Nat
      BY SizeAssumption
    <3> QED BY <3>1 DEF MAX_ITEMS, MAX_LEAF_HEADER_SIZE, PAGE_ID_SIZE, SLOT_ENTRY_SIZE, MIN_ROW_ENCODED_SIZE,
               MIN_KEY_ENCODED_SIZE, INTERNAL_USABLE, MAX_INTERNAL_HEADER_SIZE
  <2> QED BY <1>2, <1>5, <2>1, <2>2
<1> HIDE DEF slots, keys
<1>12. CASE is_leaf(pg)
  <2>1. deserialize(image) = leaf(keys, header.next, header.prev)
    BY <1>1, <1>5, <1>10, <1>11, <1>12 DEF is_leaf
  <2>2. pg = leaf(pg.keys, pg.next, pg.prev)
    BY <1>2, <1>12 DEF IsPage, IsLeafPage, IsInternalPage
  <2> QED BY <1>5, <1>9, <1>12, <2>1, <2>2
<1>13. CASE is_internal(pg)
  <2>1. deserialize(image) = internal(keys, children)
    BY <1>1, <1>5, <1>10, <1>11, <1>13 DEF is_internal
  <2>2. pg = internal(pg.keys, pg.children)
    BY <1>2, <1>13 DEF IsPage, IsLeafPage, IsInternalPage
  <2> QED BY <1>6, <1>9, <1>13, <2>1, <2>2
<1> QED BY <1>2, <1>12, <1>13

LEMMA FreeReadsBack ==
    ASSUME NEW pg, IsFreePage(pg)
    PROVE  deserialize(as_raw_page(pg)) = pg
<1> DEFINE image == as_raw_page(pg)
           head == <<write_header(pg)>>
           body == <<Write(header_end(pg), OptionSize(pg.next), pg.next)>>
           h == header_end(pg)
           header == ReadAt(image, 0, h)
<1>1. is_free(pg) /\ ~is_leaf(pg) /\ ~is_internal(pg)
  BY DEF IsFreePage, is_free, is_leaf, is_internal
<1>2. image = head \o body
  BY <1>1 DEF as_raw_page, write_body
<1>3. h = 23 /\ OptionSize(pg.next) \in {1, 9}
  BY <1>1 DEF header_end, OptionSize, CHECKSUM_OFFSET, PAGE_ID_SIZE
<1>4. head = [i \in 1 .. 1 |-> head[i]] /\ body = [i \in 1 .. 1 |-> body[i]]
  OBVIOUS
<1>5. /\ image = [i \in 1 .. 1 + 1 |-> image[i]]
      /\ \A i \in 1 .. 1 : image[i] = head[i]
      /\ \A i \in 1 .. 1 : image[1 + i] = body[i]
  <2> HIDE DEF head, body, image
  <2> QED BY <1>2, <1>4, Concat
<1>6. DOMAIN image = {1, 2} /\ image[1] = head[1] /\ image[2] = body[1]
  <2> HIDE DEF head, body, image
  <2>1. DOMAIN image = 1 .. 1 + 1
    BY <1>5
  <2>2. 1 .. 1 + 1 = {1, 2} /\ 1 + 1 = 2 /\ 1 \in 1 .. 1
    OBVIOUS
  <2> QED BY <1>5, <2>1, <2>2
<1>7. /\ image[1].at = 0 /\ image[1].len = h /\ image[1].what = [kind |-> "free", items |-> 0]
      /\ image[2].at = h /\ image[2].len = OptionSize(pg.next) /\ image[2].what = pg.next
  <2>1. head[1] = write_header(pg)
    OBVIOUS
  <2>2. write_header(pg) = Write(0, h, [kind |-> "free", items |-> 0])
    BY <1>1 DEF write_header, num_items, is_free
  <2>3. body[1] = Write(h, OptionSize(pg.next), pg.next)
    OBVIOUS
  <2> HIDE DEF head, body, image, h
  <2> QED BY <1>6, <2>1, <2>2, <2>3 DEF Write
<1> HIDE DEF image, h
<1>8. ASSUME NEW i \in DOMAIN image
      PROVE  ReadAt(image, image[i].at, image[i].len) = image[i].what
  <2>1. DOMAIN image \subseteq Nat
    BY <1>6
  <2>2. \A j \in DOMAIN image : image[j].at \in Nat /\ image[j].len \in Nat \ {0}
    BY <1>3, <1>6, <1>7
  <2>3. \A j \in DOMAIN image \ {i} : \/ image[j].at + image[j].len <= image[i].at
                                      \/ image[i].at + image[i].len <= image[j].at
    BY <1>3, <1>6, <1>7
  <2> QED BY <2>1, <2>2, <2>3, ReadIntact
<1>9. header = [kind |-> "free", items |-> 0] /\ ReadAt(image, h, image[2].len) = pg.next
  BY <1>6, <1>7, <1>8
<1>10. header # Nil
  BY <1>9, NilAssumption
<1>11. MAX_ITEMS("free") = 0
  BY DEF MAX_ITEMS
<1>12. deserialize(image) = free(ReadAt(image, h, image[2].len))
  <2> HIDE DEF header
  <2>1. header.kind = "free" /\ header.items = 0
    BY <1>9
  <2>2. ~(header.items > MAX_ITEMS(header.kind))
    BY <1>11, <2>1
  <2> QED BY <1>7, <1>10, <2>1, <2>2 DEF deserialize, header
<1> QED BY <1>9, <1>12 DEF IsFreePage, image

(* Every page that passes its own check is read back as it was: for every     *)
(* page size and every number and size of rows, whether or not a leaf has     *)
(* neighbours, cells and slots do not meet, and deserialize refuses nothing.  *)
THEOREM FittingPagesReadBack ==
    ASSUME NEW pg, IsPage(pg) \/ IsFreePage(pg), check_invariants(pg)
    PROVE  ReadsBack(pg)
<1>1. free_space(pg) >= 0
  BY DEF check_invariants
<1> QED BY <1>1, ReadsBackAs, FreeReadsBack DEF ReadsBack

-----------------------------------------------------------------------------
(* Parts of a page, and their sizes.                                          *)

LEMMA Parts ==
    ASSUME NEW S, NEW s \in Seq(S), NEW n \in 0 .. Len(s)
    PROVE  /\ Len(s) \in Nat /\ n \in Nat
           /\ Upto(n, s) \in Seq(S) /\ Len(Upto(n, s)) = n
           /\ \A i \in 1 .. n : Upto(n, s)[i] = s[i]
           /\ After(n, s) \in Seq(S) /\ Len(After(n, s)) = Len(s) - n
           /\ \A i \in 1 .. Len(s) - n : After(n, s)[i] = s[n + i]
<1>1. Len(s) \in Nat /\ n \in Nat
  OBVIOUS
<1>2. \A i \in 1 .. Len(s) : s[i] \in S
  BY ElementOfSeq
<1>3. /\ Upto(n, s) \in Seq(S) /\ Len(Upto(n, s)) = n
      /\ \A i \in 1 .. n : Upto(n, s)[i] = s[i]
  <2>1. \A i \in 1 .. n : s[i] \in S
    BY <1>1, <1>2
  <2>2. /\ SubSeq(s, 1, n) \in Seq(S)
        /\ Len(SubSeq(s, 1, n)) = IF 1 <= n THEN n - 1 + 1 ELSE 0
        /\ \A i \in 1 .. n - 1 + 1 : SubSeq(s, 1, n)[i] = s[1 + i - 1]
    BY <1>1, <2>1, SubSeqProperties
  <2> QED BY <1>1, <2>2 DEF Upto
<1>4. /\ After(n, s) \in Seq(S) /\ Len(After(n, s)) = Len(s) - n
      /\ \A i \in 1 .. Len(s) - n : After(n, s)[i] = s[n + i]
  <2>1. \A i \in n + 1 .. Len(s) : s[i] \in S
    BY <1>1, <1>2
  <2>2. /\ SubSeq(s, n + 1, Len(s)) \in Seq(S)
        /\ Len(SubSeq(s, n + 1, Len(s))) = IF n + 1 <= Len(s) THEN Len(s) - (n + 1) + 1 ELSE 0
        /\ \A i \in 1 .. Len(s) - (n + 1) + 1 : SubSeq(s, n + 1, Len(s))[i] = s[(n + 1) + i - 1]
    BY <1>1, <2>1, SubSeqProperties
  <2>3. Len(s) - (n + 1) + 1 = Len(s) - n /\ \A i \in 1 .. Len(s) - n : (n + 1) + i - 1 = n + i
    BY <1>1
  <2>4. Len(After(n, s)) = Len(s) - n
    BY <1>1, <2>2 DEF After
  <2>5. \A i \in 1 .. Len(s) - n : After(n, s)[i] = s[n + i]
    BY <2>2, <2>3 DEF After
  <2> QED BY <2>2, <2>4, <2>5 DEF After
<1> QED BY <1>1, <1>3, <1>4

(* The entries of p are those of w from the d-th on.                          *)
LiesAt(d, p, w) ==
    /\ Holds(p) /\ Holds(w) /\ (is_leaf(p) <=> is_leaf(w))
    /\ d \in Nat /\ d + Len(p.keys) <= Len(w.keys)
    /\ \A i \in 1 .. Len(p.keys) : p.keys[i] = w.keys[d + i]

(* They then have the same sums.                                              *)
LEMMA SumsAgree ==
    ASSUME NEW p, NEW w, NEW d, LiesAt(d, p, w), NEW m \in 0 .. Len(p.keys)
    PROVE  PrefixSize(p)[m] = PrefixSize(w)[d + m] - PrefixSize(w)[d]
<1> DEFINE a == PrefixSize(p)
           b == PrefixSize(w)
           S == {i \in Nat : i <= Len(p.keys) => a[i] = b[d + i] - b[d]}
<1>1. /\ Holds(p) /\ Holds(w) /\ (is_leaf(p) <=> is_leaf(w))
      /\ Len(p.keys) \in Nat /\ Len(w.keys) \in Nat /\ d \in Nat
      /\ d + Len(p.keys) <= Len(w.keys) /\ d \in 0 .. Len(w.keys)
  BY DEF Holds, LiesAt
<1>2. a[0] = 0 /\ b[d] \in Nat
  BY <1>1, PrefixSums
<1>3. 0 \in S
  BY <1>1, <1>2
<1>4. ASSUME NEW i \in Nat, i \in S PROVE i + 1 \in S
  <2> SUFFICES ASSUME i + 1 <= Len(p.keys) PROVE a[i + 1] = b[d + (i + 1)] - b[d]
    OBVIOUS
  <2>1. /\ i + 1 \in 1 .. Len(p.keys) /\ (i + 1) - 1 = i /\ i <= Len(p.keys)
        /\ d + (i + 1) \in 1 .. Len(w.keys) /\ (d + (i + 1)) - 1 = d + i
    BY <1>1
  <2>2. EntrySize(p, p.keys[i + 1]) = EntrySize(w, w.keys[d + (i + 1)])
    BY <1>1, <2>1 DEF EntrySize, LiesAt
  <2>3. EntrySize(p, p.keys[i + 1]) \in Nat
    BY <1>1, <2>1, EntryBounds
  <2>4. a[i + 1] = a[i] + EntrySize(p, p.keys[i + 1])
    BY <1>1, <2>1, SumStep
  <2>5. b[d + (i + 1)] = b[d + i] + EntrySize(w, w.keys[d + (i + 1)]) /\ b[d + i] \in Nat
    BY <1>1, <2>1, SumStep
  <2>6. a[i] = b[d + i] - b[d]
    BY <1>4, <2>1
  <2> HIDE DEF a, b
  <2> QED BY <1>2, <2>2, <2>3, <2>4, <2>5, <2>6
<1>5. m \in S
  <2>1. Nat \subseteq S
    BY <1>3, <1>4, SetInduction
  <2> QED BY <1>1, <2>1
<1> QED BY <1>1, <1>5

LEMMA PartSize ==
    ASSUME NEW p, NEW w, NEW d, LiesAt(d, p, w)
    PROVE  entries_size(p) = PrefixSize(w)[d + Len(p.keys)] - PrefixSize(w)[d]
<1>1. entries_size(p) = PrefixSize(p)[Len(p.keys)]
  BY DEF entries_size, LiesAt, Holds, is_free, is_leaf, is_internal
<1>2. Len(p.keys) \in Nat
  BY DEF LiesAt, Holds
<1>3. PICK m \in 0 .. Len(p.keys) : m = Len(p.keys)
  BY <1>2
<1>4. PrefixSize(p)[m] = PrefixSize(w)[d + m] - PrefixSize(w)[d]
  BY SumsAgree
<1> QED BY <1>1, <1>3, <1>4

LEMMA UptoSize ==
    ASSUME NEW p, NEW w, Holds(p), Holds(w), is_leaf(p) <=> is_leaf(w),
           NEW n \in 0 .. Len(w.keys), p.keys = Upto(n, w.keys)
    PROVE  entries_size(p) = PrefixSize(w)[n] /\ Len(p.keys) = n
<1>1. Len(p.keys) = n /\ Len(w.keys) \in Nat /\ n \in Nat /\ \A i \in 1 .. n : p.keys[i] = w.keys[i]
  <2>1. w.keys \in Seq(Key)
    BY DEF Holds
  <2>2. /\ Len(Upto(n, w.keys)) = n /\ Len(w.keys) \in Nat /\ n \in Nat
        /\ \A i \in 1 .. n : Upto(n, w.keys)[i] = w.keys[i]
    BY <2>1, Parts, ZenonT(60)
  <2> QED BY <2>2
<1>2. LiesAt(0, p, w)
  BY <1>1 DEF LiesAt
<1>3. entries_size(p) = PrefixSize(w)[0 + Len(p.keys)] - PrefixSize(w)[0]
  BY <1>2, PartSize
<1>4. PrefixSize(w)[0] = 0 /\ PrefixSize(w)[n] \in Nat
  BY PrefixSums
<1> QED BY <1>1, <1>3, <1>4

LEMMA AfterSize ==
    ASSUME NEW p, NEW w, Holds(p), Holds(w), is_leaf(p) <=> is_leaf(w),
           NEW n \in 0 .. Len(w.keys), p.keys = After(n, w.keys)
    PROVE  /\ entries_size(p) = PrefixSize(w)[Len(w.keys)] - PrefixSize(w)[n]
           /\ Len(p.keys) = Len(w.keys) - n
<1>1. w.keys \in Seq(Key)
  BY DEF Holds
<1>2. /\ Len(p.keys) = Len(w.keys) - n /\ Len(w.keys) \in Nat /\ n \in Nat
      /\ \A i \in 1 .. Len(w.keys) - n : p.keys[i] = w.keys[n + i]
  BY <1>1, Parts, ZenonT(60)
<1>3. n + Len(p.keys) = Len(w.keys)
  BY <1>2
<1>4. LiesAt(n, p, w)
  BY <1>2, <1>3 DEF LiesAt
<1>5. entries_size(p) = PrefixSize(w)[n + Len(p.keys)] - PrefixSize(w)[n]
  BY <1>4, PartSize
<1> QED BY <1>2, <1>3, <1>5, Zenon

-----------------------------------------------------------------------------
(* Splitting.                                                                 *)

LEMMA FreeSpace ==
    ASSUME NEW pg, Holds(pg)
    PROVE  /\ free_space(pg) = USABLE(pg) - PrefixSize(pg)[Len(pg.keys)]
           /\ entries_size(pg) = PrefixSize(pg)[Len(pg.keys)]
           /\ Len(pg.keys) \in Nat /\ PrefixSize(pg)[Len(pg.keys)] \in Nat
           /\ USABLE(pg) \in Int /\ MAX_ENTRY_SIZE(pg) = USABLE(pg) \div 4
<1>1. Len(pg.keys) \in Nat /\ Len(pg.keys) \in 0 .. Len(pg.keys)
  BY DEF Holds
<1>2. PrefixSize(pg)[Len(pg.keys)] \in Nat
  BY <1>1, PrefixSums
<1>3. entries_size(pg) = PrefixSize(pg)[Len(pg.keys)]
  BY DEF entries_size, Holds, is_free, is_leaf, is_internal
<1>4. free_space(pg) = USABLE(pg) - entries_size(pg)
  BY DEF free_space, USABLE
<1>5. USABLE(pg) \in Int
  BY SizeAssumption DEF USABLE, LEAF_USABLE, INTERNAL_USABLE, PAGE_ID_SIZE, MAX_LEAF_HEADER_SIZE, MAX_INTERNAL_HEADER_SIZE
<1> QED BY <1>1, <1>2, <1>3, <1>4, <1>5 DEF MAX_ENTRY_SIZE

LEMMA SumsRise ==
    ASSUME NEW pg, Holds(pg), NEW i \in 0 .. Len(pg.keys), NEW j \in 0 .. Len(pg.keys), i <= j
    PROVE  PrefixSize(pg)[i] <= PrefixSize(pg)[j]
<1>1. Len(pg.keys) \in Nat /\ i \in Nat /\ j \in Nat
  BY DEF Holds
<1>2. PICK d \in Nat : j = i + d
  <2>1. j - i \in Nat /\ j = i + (j - i)
    BY <1>1
  <2> QED BY <2>1
<1>3. PrefixSize(pg)[i + d] >= PrefixSize(pg)[i] + d * (IF is_leaf(pg) THEN 7 ELSE 14)
  <2>1. i + d <= Len(pg.keys)
    BY <1>2
  <2> QED BY <2>1, SumsGrow
<1>4. PrefixSize(pg)[i] \in Nat /\ PrefixSize(pg)[j] \in Nat
  BY PrefixSums
<1> QED BY <1>2, <1>3, <1>4

(* Where split_page cuts: before it less than half of the entries, but for    *)
(* one, and after it no more than half, unless it stops for the right page.   *)
LEMMA SplitPoint ==
    ASSUME NEW pg, Holds(pg), Len(pg.keys) >= 3
    PROVE  LET n == SplitOff(pg)
               s == PrefixSize(pg)
               half == s[Len(pg.keys)] \div 2
               last == Len(pg.keys) - (IF is_leaf(pg) THEN 1 ELSE 2)
           IN /\ n \in 1 .. last
              /\ n = 1 \/ s[n - 1] < half
              /\ n = last \/ s[n] >= half
<1> DEFINE m == Len(pg.keys)
           s == PrefixSize(pg)
           half == s[m] \div 2
           last == m - (IF is_leaf(pg) THEN 1 ELSE 2)
           T == {n \in 1 .. m : s[n] >= half}
           reached == CHOOSE n \in 1 .. m : s[n] >= half /\ (n = 1 \/ s[n - 1] < half)
<1>1. m \in Nat /\ m >= 3 /\ s[m] \in Nat /\ entries_size(pg) = s[m]
  BY FreeSpace
<1>2. \A n \in 0 .. m : s[n] \in Nat
  BY PrefixSums
<1> HIDE DEF s
<1>3. PICK n \in T : \A i \in T : n <= i
  <2>1. m \in T /\ T \subseteq Nat
    BY <1>1
  <2> QED BY <2>1, LeastNumber
<1>4. n = 1 \/ s[n - 1] < half
  <2> SUFFICES ASSUME n # 1 PROVE s[n - 1] < half
    OBVIOUS
  <2>1. n - 1 \in 1 .. m /\ ~(n <= n - 1)
    BY <1>1, <1>3
  <2>2. ~(s[n - 1] >= half)
    BY <1>3, <2>1
  <2>3. s[n - 1] \in Nat /\ half \in Nat
    BY <1>1, <1>2, <2>1
  <2> QED BY <2>2, <2>3
<1>5. reached \in 1 .. m /\ s[reached] >= half /\ (reached = 1 \/ s[reached - 1] < half)
  BY <1>3, <1>4
<1>6. SplitOff(pg) = IF reached > last THEN last ELSE reached
  BY <1>1 DEF SplitOff, s
<1>7. last \in 1 .. m - 1
  <2>1. m - 1 \in 1 .. m - 1 /\ m - 2 \in 1 .. m - 1
    BY <1>1
  <2> QED BY <2>1, Zenon
<1> HIDE DEF reached, last, m, T
<1>8. CASE reached > last
  <2>1. last \in 0 .. m /\ reached - 1 \in 0 .. m
    BY <1>1, <1>5, <1>7
  <2>2. last = 1 \/ s[last - 1] < half
    <3> SUFFICES ASSUME last # 1 PROVE s[last - 1] < half
      OBVIOUS
    <3>2. reached # 1 /\ last - 1 \in 0 .. m /\ reached - 1 \in 0 .. m /\ last - 1 <= reached - 1
      BY <1>1, <1>5, <1>7, <1>8
    <3>3. s[last - 1] <= s[reached - 1]
      BY <3>2, SumsRise DEF s, m
    <3>4. s[last - 1] \in Nat /\ s[reached - 1] \in Nat /\ half \in Nat
      BY <1>1, <1>2, <3>2
    <3>5. s[reached - 1] < half
      BY <1>5, <3>2
    <3> HIDE DEF half
    <3> QED BY <3>3, <3>4, <3>5
  <2>3. SplitOff(pg) = last
    BY <1>6, <1>8
  <2>4. last \in 1 .. last
    BY <1>1, <1>7
  <2> HIDE DEF half
  <2>5. /\ SplitOff(pg) \in 1 .. last
        /\ SplitOff(pg) = 1 \/ s[SplitOff(pg) - 1] < half
        /\ SplitOff(pg) = last \/ s[SplitOff(pg)] >= half
    BY <2>2, <2>3, <2>4, Zenon
  <2> QED BY <2>5, Zenon DEF s, m, last, half
<1>9. CASE ~(reached > last)
  <2>1. reached \in 1 .. last
    BY <1>5, <1>7, <1>9
  <2>2. SplitOff(pg) = reached
    BY <1>6, <1>9
  <2> QED BY <1>1, <1>5, <2>1, <2>2 DEF s, m, last
<1> QED BY <1>8, <1>9

(* A page an entry does not fit in has at least four, and neither half of it  *)
(* is too large for that entry, or nearly empty.                              *)
LEMMA SplitSizes ==
    ASSUME NEW pg, Holds(pg), free_space(pg) >= 0, free_space(pg) < MAX_ENTRY_SIZE(pg)
    PROVE  LET n == SplitOff(pg)
               s == PrefixSize(pg)
               m == Len(pg.keys)
               U == USABLE(pg)
               M == MAX_ENTRY_SIZE(pg)
           IN /\ m >= 4 /\ n \in 1 .. m - (IF is_leaf(pg) THEN 1 ELSE 2)
              /\ s[n] + M <= U /\ (s[m] - s[n]) + M <= U
              /\ is_leaf(pg) => /\ 2 * (s[n] + M) > U - M
                                /\ 2 * ((s[m] - s[n]) + M) > U - M
<1> DEFINE n == SplitOff(pg)
           s == PrefixSize(pg)
           m == Len(pg.keys)
           U == USABLE(pg)
           M == MAX_ENTRY_SIZE(pg)
           half == s[m] \div 2
           last == m - (IF is_leaf(pg) THEN 1 ELSE 2)
<1>1. /\ m \in Nat /\ s[m] \in Nat /\ U \in Int /\ M = U \div 4
      /\ s[m] <= U /\ s[m] > U - M
  <2>1. free_space(pg) = U - s[m] /\ m \in Nat /\ s[m] \in Nat /\ U \in Int /\ M = U \div 4
    BY FreeSpace
  <2> HIDE DEF s, m, U
  <2> QED BY <2>1
<1>2. s[0] = 0 /\ \A i \in 0 .. m : s[i] \in Nat
  BY PrefixSums
<1>3. \A i \in 1 .. m : s[i] <= s[i - 1] + M
  BY SumStep
<1>4. m >= 1 => U >= 28
  <2> SUFFICES ASSUME m >= 1 PROVE U >= 28
    OBVIOUS
  <2>1. PICK k \in Key : TRUE
    <3>1. pg.keys[1] \in Key
      BY <1>1, ElementOfSeq DEF Holds
    <3> QED BY <3>1
  <2> QED BY <2>1, Usable DEF USABLE
<1>5. m >= 4
  <2> HIDE DEF s, m, U, M
  <2> SUFFICES ASSUME ~(m >= 4) PROVE FALSE
    OBVIOUS
  <2>5. m = 0 \/ m = 1 \/ m = 2 \/ m = 3
    BY <1>1
  <2>1. CASE m = 0
    BY <1>1, <1>2, <2>1
  <2>2. CASE m = 1
    <3>1. s[1] <= s[0] + M
      BY <1>3, <2>2
    <3> QED BY <1>1, <1>2, <1>4, <2>2, <3>1
  <2>3. CASE m = 2
    <3>1. s[1] <= s[0] + M /\ s[2] <= s[1] + M /\ s[1] \in Nat
      BY <1>2, <1>3, <2>3
    <3> QED BY <1>1, <1>2, <1>4, <2>3, <3>1
  <2>4. CASE m = 3
    <3>1. s[1] <= s[0] + M /\ s[2] <= s[1] + M /\ s[3] <= s[2] + M /\ s[1] \in Nat /\ s[2] \in Nat
      BY <1>2, <1>3, <2>4
    <3> QED BY <1>1, <1>2, <1>4, <2>4, <3>1
  <2> QED BY <2>1, <2>2, <2>3, <2>4, <2>5
<1>6. /\ n \in 1 .. last
      /\ n = 1 \/ s[n - 1] < half
      /\ n = last \/ s[n] >= half
  <2>1. Len(pg.keys) >= 3
    BY <1>1, <1>5
  <2> QED BY <2>1, SplitPoint, Zenon
<1>7. last \in {m - 1, m - 2} /\ (is_leaf(pg) => last = m - 1)
  BY Zenon
<1> HIDE DEF n, last
<1>8. /\ n \in 1 .. m /\ n \in Nat /\ n - 1 \in 0 .. m /\ n <= last
      /\ s[n] \in Nat /\ s[n - 1] \in Nat /\ s[n] <= s[n - 1] + M
  <2>1. n \in 1 .. m /\ n \in Nat /\ n - 1 \in 0 .. m /\ n \in 0 .. m /\ n <= last
    <3>1. m \in Nat /\ m >= 4
      BY <1>1, <1>5
    <3> HIDE DEF m
    <3> QED BY <3>1, <1>6, <1>7
  <2>2. s[n] \in Nat /\ s[n - 1] \in Nat
    BY <1>2, <2>1
  <2>3. s[n] <= s[n - 1] + M
    BY <1>3, <2>1
  <2> QED BY <2>1, <2>2, <2>3
<1>9. s[n] <= half + M
  <2> HIDE DEF s, m, U, M
  <2>1. CASE n = 1
    BY <1>1, <1>2, <1>4, <1>5, <1>8, <2>1
  <2>2. CASE s[n - 1] < half
    BY <1>1, <1>8, <2>2
  <2> QED BY <1>6, <2>1, <2>2
<1>10. n = last => s[m] - s[n] <= (IF is_leaf(pg) THEN M ELSE 2 * M)
  <2> SUFFICES ASSUME n = last PROVE s[m] - s[n] <= (IF is_leaf(pg) THEN M ELSE 2 * M)
    OBVIOUS
  <2>1. m \in 1 .. m /\ m - 1 \in 1 .. m /\ m - 1 \in 0 .. m /\ (m - 1) - 1 = m - 2
    BY <1>1, <1>5
  <2>2. s[m] <= s[m - 1] + M /\ s[m - 1] <= s[m - 2] + M /\ s[m - 1] \in Nat
    BY <1>2, <1>3, <2>1
  <2>3. CASE n = m - 1 /\ is_leaf(pg)
    <3> HIDE DEF s, m, U, M
    <3> QED BY <1>1, <1>8, <2>2, <2>3
  <2>4. CASE ~is_leaf(pg)
    <3>1. s[m] - s[n] <= 2 * M
      <4> HIDE DEF s, m, U, M
      <4> QED BY <1>1, <1>4, <1>5, <1>7, <1>8, <2>2
    <3> QED BY <2>4, <3>1
  <2> QED BY <1>7, <2>3, <2>4
<1>11. half \in Nat /\ 2 * half <= s[m] /\ s[m] <= 2 * half + 1
  <2> HIDE DEF s, m
  <2> QED BY <1>1
<1>12. U >= 28 /\ M >= 7 /\ M \in Nat /\ 4 * M <= U
  <2> HIDE DEF s, m, U, M
  <2> QED BY <1>1, <1>4, <1>5
<1>13. s[n] + M <= U
  <2> HIDE DEF s, m, U, M, half
  <2> QED BY <1>1, <1>8, <1>9, <1>11, <1>12
<1>14. (s[m] - s[n]) + M <= U
  <2> HIDE DEF s, m, U, M, half
  <2>1. CASE n = last
    BY <1>1, <1>8, <1>10, <1>12, <2>1
  <2>2. CASE s[n] >= half
    BY <1>1, <1>8, <1>11, <1>12, <2>2
  <2> QED BY <1>6, <2>1, <2>2
<1>15. is_leaf(pg) => 2 * (s[n] + M) > U - M /\ 2 * ((s[m] - s[n]) + M) > U - M
  <2> SUFFICES ASSUME is_leaf(pg) PROVE 2 * (s[n] + M) > U - M /\ 2 * ((s[m] - s[n]) + M) > U - M
    OBVIOUS
  <2> HIDE DEF s, m, U, M, half
  <2>1. 2 * (s[n] + M) > U - M
    <3>1. CASE n = last
      BY <1>1, <1>8, <1>10, <1>12, <3>1
    <3>2. CASE s[n] >= half
      BY <1>1, <1>8, <1>11, <1>12, <3>2
    <3> QED BY <1>6, <3>1, <3>2
  <2>2. 2 * ((s[m] - s[n]) + M) > U - M
    BY <1>1, <1>8, <1>9, <1>11, <1>12
  <2> QED BY <2>1, <2>2
<1> QED BY <1>5, <1>6, <1>13, <1>14, <1>15, Zenon DEF n, last

LEMMA SortedPair ==
    ASSUME NEW s \in Seq(Key), Increasing(s), NEW i \in 1 .. Len(s), NEW j \in 1 .. Len(s), i < j
    PROVE  s[i] < s[j]
<1> DEFINE S == {d \in Nat : i + 1 + d <= Len(s) => s[i] < s[i + 1 + d]}
<1>1. Len(s) \in Nat /\ i \in Nat /\ j \in Nat
  OBVIOUS
<1>2. \A n \in 1 .. Len(s) : s[n] \in Nat
  BY SizeAssumption, ElementOfSeq
<1>3. \A n \in 1 .. Len(s) - 1 : s[n] < s[n + 1]
  BY DEF Increasing
<1>4. 0 \in S
  BY <1>1, <1>3
<1>5. ASSUME NEW d \in Nat, d \in S PROVE d + 1 \in S
  <2> SUFFICES ASSUME i + 1 + (d + 1) <= Len(s) PROVE s[i] < s[i + 1 + (d + 1)]
    OBVIOUS
  <2>1. /\ i + 1 + d \in 1 .. Len(s) - 1 /\ i + 1 + d \in 1 .. Len(s)
        /\ i + 1 + (d + 1) \in 1 .. Len(s) /\ i + 1 + (d + 1) = (i + 1 + d) + 1
    BY <1>1
  <2>2. s[i] < s[i + 1 + d] /\ s[i + 1 + d] < s[i + 1 + (d + 1)]
    BY <1>3, <1>5, <2>1
  <2>3. s[i] \in Nat /\ s[i + 1 + d] \in Nat /\ s[i + 1 + (d + 1)] \in Nat
    BY <1>2, <2>1
  <2> QED BY <2>2, <2>3
<1>6. PICK d \in Nat : j = i + 1 + d
  <2>1. j - i - 1 \in Nat /\ j = i + 1 + (j - i - 1)
    BY <1>1
  <2> QED BY <2>1
<1>7. d \in S
  BY <1>4, <1>5, SetInduction
<1> QED BY <1>6, <1>7

(* A part of a page whose keys are in order passes its check, if it fits.     *)
LEMMA PartChecks ==
    ASSUME NEW p, NEW w, NEW d, LiesAt(d, p, w), Increasing(w.keys), free_space(p) >= 0,
           is_internal(p) => Len(p.children) = Len(p.keys) + 1
    PROVE  check_invariants(p)
<1>1. /\ Holds(p) /\ Holds(w) /\ (is_leaf(p) <=> is_leaf(w))
      /\ Len(p.keys) \in Nat /\ Len(w.keys) \in Nat /\ d \in Nat
      /\ d + Len(p.keys) <= Len(w.keys)
      /\ \A i \in 1 .. Len(p.keys) : p.keys[i] = w.keys[d + i]
  BY DEF Holds, LiesAt
<1>2. Increasing(w.keys)
  OBVIOUS
<1>3. Increasing(p.keys)
  <2> SUFFICES ASSUME NEW i \in 1 .. Len(p.keys) - 1 PROVE p.keys[i] < p.keys[i + 1]
    BY DEF Increasing
  <2>1. /\ i \in 1 .. Len(p.keys) /\ i + 1 \in 1 .. Len(p.keys)
        /\ d + i \in 1 .. Len(w.keys) - 1 /\ d + (i + 1) = (d + i) + 1
    BY <1>1, SMTT(30)
  <2>2. w.keys[d + i] < w.keys[(d + i) + 1]
    BY <1>2, <2>1 DEF Increasing
  <2>3. p.keys[i] = w.keys[d + i] /\ p.keys[i + 1] = w.keys[(d + i) + 1]
    <3>1. p.keys[i + 1] = w.keys[d + (i + 1)]
      BY <1>1, <2>1, Zenon
    <3> QED BY <1>1, <2>1, <3>1
  <2> QED BY <2>2, <2>3
<1>4. \A k \in KeySet(p) : /\ RowSize[k] <= MAX_LEAF_ENTRY_SIZE
                           /\ KeySize[k] <= MAX_INTERNAL_ENTRY_SIZE
  <2> SUFFICES ASSUME NEW k \in KeySet(p)
               PROVE  RowSize[k] <= MAX_LEAF_ENTRY_SIZE /\ KeySize[k] <= MAX_INTERNAL_ENTRY_SIZE
    OBVIOUS
  <2>1. k \in Key
    <3>1. \A i \in 1 .. Len(p.keys) : p.keys[i] \in Key
      BY <1>1, EntryBounds
    <3>2. DOMAIN p.keys = 1 .. Len(p.keys)
      BY <1>1 DEF Holds
    <3> QED BY <1>1, <3>1, <3>2 DEF KeySet, Holds, is_free, is_leaf, is_internal
  <2> QED BY <2>1, Usable DEF MAX_LEAF_ENTRY_SIZE, MAX_INTERNAL_ENTRY_SIZE
<1> QED BY <1>3, <1>4 DEF check_invariants

LEMMA KeysOf ==
    ASSUME NEW pg, Holds(pg)
    PROVE  \A k : k \in KeySet(pg) <=> \E i \in 1 .. Len(pg.keys) : k = pg.keys[i]
<1>1. DOMAIN pg.keys = 1 .. Len(pg.keys)
  BY DEF Holds
<1> QED BY <1>1 DEF KeySet, Holds, is_free, is_leaf, is_internal

(* What a split may leave of a leaf: more than half of what all rows but one  *)
(* of the largest size would fill.                                            *)
NotTooEmpty(pg) == 2 * (entries_size(pg) + MAX_LEAF_ENTRY_SIZE) > LEAF_USABLE - MAX_LEAF_ENTRY_SIZE

(* insert_into_leaf of tree.rs splits a leaf the row does not fit in: this is *)
(* possible, both halves have room for the row, neither is nearly empty, both *)
(* can be written at once and read back, and the separator is between them.   *)
THEOREM LeafSplitLeavesRoom ==
    ASSUME NEW pg, IsLeafPage(pg), check_invariants(pg), NEW k \in Key, ~can_insert(pg, k),
           NEW self \in Nat, NEW new \in Nat
    PROVE  LET halves == split_page(pg, self, new)
           IN /\ CanSplit(pg)
              /\ \A h \in {halves.left, halves.right} :
                    ReadsBack(h) /\ can_insert(h, k) /\ NotTooEmpty(h)
              /\ \A i \in KeySet(halves.left) : i < halves.sep
              /\ \A i \in KeySet(halves.right) : i >= halves.sep
<1> DEFINE n == SplitOff(pg)
           m == Len(pg.keys)
           s == PrefixSize(pg)
           l == leaf(Upto(n, pg.keys), new, pg.prev)
           r == leaf(After(n, pg.keys), pg.next, self)
           M == MAX_LEAF_ENTRY_SIZE
           U == LEAF_USABLE
<1>1. Holds(pg) /\ is_leaf(pg) /\ m \in Nat /\ pg.keys \in Seq(Key)
  BY DEF IsLeafPage, Holds
<1>2. USABLE(pg) = U /\ MAX_ENTRY_SIZE(pg) = M
  BY <1>1 DEF USABLE, MAX_ENTRY_SIZE, MAX_LEAF_ENTRY_SIZE
<1>3. RowSize[k] \in Nat /\ RowSize[k] <= M /\ M \in Nat /\ U \in Nat
  BY Usable DEF MAX_LEAF_ENTRY_SIZE
<1>4. free_space(pg) >= 0 /\ free_space(pg) < MAX_ENTRY_SIZE(pg)
  <2>1. free_space(pg) \in Int
    BY <1>1, FreeSpace
  <2>2. free_space(pg) >= 0 /\ ~(RowSize[k] <= free_space(pg))
    BY <1>1 DEF check_invariants, can_insert
  <2> QED BY <1>2, <1>3, <2>1, <2>2
<1>5. /\ m >= 4 /\ n \in 1 .. m - 1
      /\ s[n] + M <= U /\ (s[m] - s[n]) + M <= U
      /\ 2 * (s[n] + M) > U - M /\ 2 * ((s[m] - s[n]) + M) > U - M
  BY <1>1, <1>2, <1>4, SplitSizes
<1> HIDE DEF n
<1>6. /\ n \in 0 .. m /\ n \in Nat
      /\ Upto(n, pg.keys) \in Seq(Key) /\ Len(Upto(n, pg.keys)) = n
      /\ \A i \in 1 .. n : Upto(n, pg.keys)[i] = pg.keys[i]
      /\ After(n, pg.keys) \in Seq(Key) /\ Len(After(n, pg.keys)) = m - n
      /\ \A i \in 1 .. m - n : After(n, pg.keys)[i] = pg.keys[n + i]
  <2>1. n \in 0 .. m
    BY <1>1, <1>5
  <2> QED BY <1>1, <2>1, Parts
<1>7. /\ l.keys = Upto(n, pg.keys) /\ r.keys = After(n, pg.keys)
      /\ IsLeafPage(l) /\ IsLeafPage(r) /\ is_leaf(l) /\ is_leaf(r)
      /\ Holds(l) /\ Holds(r)
  BY <1>6 DEF leaf, IsLeafPage, is_leaf, Holds
<1>8. split_page(pg, self, new) = [left |-> l, right |-> r, sep |-> pg.keys[n + 1]]
  BY <1>1 DEF split_page, n
<1> HIDE DEF l, r
<1>9. entries_size(l) = s[n] /\ entries_size(r) = s[m] - s[n]
  BY <1>1, <1>6, <1>7, UptoSize, AfterSize
<1>10. s[n] \in Nat /\ s[m] \in Nat
  BY <1>1, <1>6, FreeSpace, PrefixSums
<1>11. LiesAt(0, l, pg) /\ LiesAt(n, r, pg)
  <2>1. LiesAt(0, l, pg)
    BY <1>1, <1>6, <1>7 DEF LiesAt
  <2>2. LiesAt(n, r, pg)
    BY <1>1, <1>6, <1>7 DEF LiesAt
  <2> QED BY <2>1, <2>2
<1>13. Increasing(pg.keys) /\ n + 1 \in 1 .. m
  <2>1. Increasing(pg.keys)
    BY <1>1 DEF check_invariants
  <2> QED BY <1>1, <1>5, <2>1
<1>12. ASSUME NEW h \in {l, r}
       PROVE  ReadsBack(h) /\ can_insert(h, k) /\ NotTooEmpty(h)
  <2>1. PICK e \in Nat : /\ entries_size(h) = e /\ e + M <= U /\ 2 * (e + M) > U - M
    <3> HIDE DEF s, m, U, M
    <3>1. CASE h = l
      BY <1>5, <1>9, <1>10, <3>1
    <3>2. CASE h = r
      <4>1. s[m] - s[n] \in Nat
        <5>1. m \in 0 .. m /\ n <= m
          BY <1>1, <1>6 DEF m
        <5>2. s[n] <= s[m]
          BY <1>1, <1>6, <5>1, SumsRise DEF s, m
        <5> QED BY <1>10, <5>2
      <4> QED BY <1>5, <1>9, <3>2, <4>1
    <3> QED BY <3>1, <3>2
  <2>2. IsLeafPage(h) /\ is_leaf(h) /\ ~is_internal(h) /\ (LiesAt(0, h, pg) \/ LiesAt(n, h, pg))
    BY <1>7, <1>11 DEF is_leaf, is_internal
  <2>3. free_space(h) = U - e
    BY <2>1, <2>2 DEF free_space
  <2>4. free_space(h) >= 0 /\ RowSize[k] <= free_space(h)
    <3> HIDE DEF U, M
    <3> QED BY <1>3, <2>1, <2>3
  <2>5. check_invariants(h)
    BY <1>13, <2>2, <2>4, PartChecks
  <2>6. ReadsBack(h)
    BY <2>2, <2>5, FittingPagesReadBack DEF IsPage
  <2> QED BY <2>1, <2>2, <2>4, <2>6 DEF can_insert, NotTooEmpty
<1>14. ASSUME NEW i \in KeySet(l) PROVE i < pg.keys[n + 1]
  <2>1. PICK j \in 1 .. n : i = pg.keys[j]
    BY <1>6, <1>7, KeysOf
  <2>2. j \in 1 .. m /\ j < n + 1
    BY <1>6
  <2> QED BY <1>1, <1>13, <2>1, <2>2, SortedPair
<1>15. ASSUME NEW i \in KeySet(r) PROVE i >= pg.keys[n + 1]
  <2>1. PICK j \in 1 .. m - n : i = pg.keys[n + j]
    <3>1. PICK j \in 1 .. Len(r.keys) : i = r.keys[j]
      BY <1>7, KeysOf
    <3>2. j \in 1 .. m - n /\ i = pg.keys[n + j]
      BY <1>6, <1>7, <3>1
    <3> QED BY <3>2
  <2>2. n + j \in 1 .. m /\ n + 1 <= n + j
    BY <1>1, <1>6
  <2>3. \A x \in 1 .. m : pg.keys[x] \in Nat
    BY <1>1, ElementOfSeq, SizeAssumption
  <2>4. CASE n + j = n + 1
    BY <1>13, <2>1, <2>3, <2>4
  <2>5. CASE n + 1 < n + j
    <3>1. pg.keys[n + 1] < pg.keys[n + j]
      BY <1>1, <1>13, <2>2, <2>5, SortedPair
    <3> QED BY <1>13, <2>1, <2>2, <2>3, <3>1
  <2> QED BY <1>6, <2>2, <2>4, <2>5
<1>16. CanSplit(pg)
  BY <1>1, <1>5 DEF CanSplit
<1> QED BY <1>8, <1>12, <1>14, <1>15, <1>16

(* split_and_insert splits an internal page a separator does not fit in: this *)
(* is possible, a separator goes up, both halves have one left and room for   *)
(* the new one, and both can be written at once and read back.                *)
THEOREM InternalSplitLeavesRoom ==
    ASSUME NEW pg, IsInternalPage(pg), check_invariants(pg),
           NEW k \in Key, ~can_insert_separator(pg, k),
           NEW self \in Nat, NEW new \in Nat
    PROVE  LET halves == split_page(pg, self, new)
           IN /\ CanSplit(pg)
              /\ \A h \in {halves.left, halves.right} :
                    ReadsBack(h) /\ can_insert_separator(h, k) /\ num_items(h) > 0
              /\ \A i \in KeySet(halves.left) : i < halves.sep
              /\ \A i \in KeySet(halves.right) : i > halves.sep
<1> DEFINE n == SplitOff(pg)
           m == Len(pg.keys)
           s == PrefixSize(pg)
           l == internal(Upto(n, pg.keys), Upto(n + 1, pg.children))
           r == internal(After(n + 1, pg.keys), After(n + 1, pg.children))
           M == MAX_INTERNAL_ENTRY_SIZE
           U == INTERNAL_USABLE
<1>1. /\ Holds(pg) /\ is_internal(pg) /\ ~is_leaf(pg) /\ m \in Nat /\ pg.keys \in Seq(Key)
      /\ pg.children \in Seq(Nat) /\ Len(pg.children) = m + 1
  BY DEF IsInternalPage, Holds, is_leaf, is_internal
<1>2. USABLE(pg) = U /\ MAX_ENTRY_SIZE(pg) = M
  BY <1>1 DEF USABLE, MAX_ENTRY_SIZE, MAX_INTERNAL_ENTRY_SIZE
<1>3. KeySize[k] \in Nat /\ KeySize[k] <= M /\ M \in Nat /\ U \in Nat
  BY Usable DEF MAX_INTERNAL_ENTRY_SIZE
<1>4. free_space(pg) >= 0 /\ free_space(pg) < MAX_ENTRY_SIZE(pg)
  <2>1. free_space(pg) \in Int
    BY <1>1, FreeSpace
  <2>2. free_space(pg) >= 0 /\ ~(KeySize[k] <= free_space(pg))
    BY <1>1 DEF check_invariants, can_insert_separator
  <2> QED BY <1>2, <1>3, <2>1, <2>2
<1>5. m >= 4 /\ n \in 1 .. m - 2 /\ s[n] + M <= U /\ (s[m] - s[n]) + M <= U
  BY <1>1, <1>2, <1>4, SplitSizes
<1> HIDE DEF n
<1>6. /\ n \in 0 .. m /\ n \in Nat /\ n >= 1 /\ n + 1 \in 0 .. m /\ n + 1 \in Nat
      /\ n + 1 \in 0 .. Len(pg.children) /\ n + 1 \in 1 .. m
  BY <1>1, <1>5
<1>7. /\ Upto(n, pg.keys) \in Seq(Key) /\ Len(Upto(n, pg.keys)) = n
      /\ \A i \in 1 .. n : Upto(n, pg.keys)[i] = pg.keys[i]
      /\ After(n + 1, pg.keys) \in Seq(Key) /\ Len(After(n + 1, pg.keys)) = m - (n + 1)
      /\ \A i \in 1 .. m - (n + 1) : After(n + 1, pg.keys)[i] = pg.keys[(n + 1) + i]
  <2>1. /\ Upto(n, pg.keys) \in Seq(Key) /\ Len(Upto(n, pg.keys)) = n
        /\ \A i \in 1 .. n : Upto(n, pg.keys)[i] = pg.keys[i]
    BY <1>1, <1>6, Parts, ZenonT(60)
  <2>2. ASSUME NEW d \in 0 .. m
        PROVE  /\ After(d, pg.keys) \in Seq(Key) /\ Len(After(d, pg.keys)) = m - d
               /\ \A i \in 1 .. m - d : After(d, pg.keys)[i] = pg.keys[d + i]
    <3>1. pg.keys \in Seq(Key) /\ d \in 0 .. Len(pg.keys)
      BY <1>1
    <3> QED BY <3>1, Parts, ZenonT(60)
  <2> QED BY <1>6, <2>1, <2>2, Zenon
<1>8. /\ Upto(n + 1, pg.children) \in Seq(Nat) /\ Len(Upto(n + 1, pg.children)) = n + 1
      /\ After(n + 1, pg.children) \in Seq(Nat) /\ Len(After(n + 1, pg.children)) = (m + 1) - (n + 1)
  <2>1. pg.children \in Seq(Nat)
    BY <1>1
  <2>2. ASSUME NEW d \in 0 .. Len(pg.children)
        PROVE  /\ Upto(d, pg.children) \in Seq(Nat) /\ Len(Upto(d, pg.children)) = d
               /\ After(d, pg.children) \in Seq(Nat) /\ Len(After(d, pg.children)) = Len(pg.children) - d
    <3>1. PICK c \in Seq(Nat) : c = pg.children
      BY <2>1
    <3>2. d \in 0 .. Len(c)
      BY <3>1
    <3>3. /\ Upto(d, c) \in Seq(Nat) /\ Len(Upto(d, c)) = d
          /\ After(d, c) \in Seq(Nat) /\ Len(After(d, c)) = Len(c) - d
      BY <3>2, Parts, ZenonT(60)
    <3> QED BY <3>1, <3>3, Zenon
  <2> QED BY <1>1, <1>6, <2>2, Zenon
<1>9. (m + 1) - (n + 1) = (m - (n + 1)) + 1 /\ m - (n + 1) >= 1
  BY <1>1, <1>5, <1>6
<1>10. /\ l.keys = Upto(n, pg.keys) /\ r.keys = After(n + 1, pg.keys)
       /\ l.children = Upto(n + 1, pg.children) /\ r.children = After(n + 1, pg.children)
       /\ is_internal(l) /\ is_internal(r) /\ ~is_leaf(l) /\ ~is_leaf(r)
       /\ l = internal(l.keys, l.children) /\ r = internal(r.keys, r.children)
  BY DEF internal, is_leaf, is_internal
<1>11. split_page(pg, self, new) = [left |-> l, right |-> r, sep |-> pg.keys[n + 1]]
  BY <1>1 DEF split_page, n
<1> HIDE DEF l, r
<1>12. /\ IsInternalPage(l) /\ IsInternalPage(r) /\ Holds(l) /\ Holds(r)
       /\ Len(l.keys) = n /\ Len(r.keys) = m - (n + 1)
  BY <1>7, <1>8, <1>9, <1>10 DEF IsInternalPage, Holds
<1>13. entries_size(l) = s[n]
  BY <1>1, <1>6, <1>10, <1>12, UptoSize
<1>14. entries_size(r) = s[m] - s[n + 1] /\ s[n + 1] >= s[n] /\ s[n] \in Nat /\ s[n + 1] \in Nat
  <2>1. PICK d \in 0 .. m : d = n + 1
    BY <1>6
  <2>2. r.keys = After(d, pg.keys)
    BY <1>10, <2>1
  <2>3. entries_size(r) = s[m] - s[d]
    BY <1>1, <1>10, <1>12, <2>2, AfterSize
  <2>4. s[n] <= s[d] /\ s[n] \in Nat /\ s[d] \in Nat
    <3>1. n <= d
      BY <1>6, <2>1
    <3>2. s[n] <= s[d]
      BY <1>1, <1>6, <3>1, SumsRise
    <3>3. s[n] \in Nat /\ s[d] \in Nat
      BY <1>1, <1>6, PrefixSums
    <3> QED BY <3>2, <3>3
  <2> QED BY <2>1, <2>3, <2>4
<1>15. LiesAt(0, l, pg) /\ LiesAt(n + 1, r, pg)
  <2>1. LiesAt(0, l, pg)
    BY <1>1, <1>6, <1>7, <1>10, <1>12 DEF LiesAt
  <2>2. (n + 1) + Len(r.keys) <= m
    <3> HIDE DEF m
    <3> QED BY <1>1, <1>6, <1>12
  <2>4. \A i \in 1 .. Len(r.keys) : r.keys[i] = pg.keys[(n + 1) + i]
    BY <1>7, <1>10, <1>12, Zenon
  <2>3. LiesAt(n + 1, r, pg)
    BY <1>1, <1>6, <1>10, <1>12, <2>2, <2>4, Zenon DEF LiesAt
  <2> QED BY <2>1, <2>3
<1>16. s[m] \in Nat /\ s[n + 1] <= s[m]
  <2>1. m \in 0 .. m /\ n + 1 <= m
    BY <1>1, <1>6
  <2>2. PICK d \in 0 .. m : d = n + 1
    BY <1>6
  <2>3. s[m] \in Nat /\ s[d] <= s[m]
    BY <1>1, <2>1, <2>2, SumsRise, FreeSpace
  <2> QED BY <2>2, <2>3
<1>18. Increasing(pg.keys)
  BY <1>1 DEF check_invariants
<1>17. ASSUME NEW h \in {l, r}
       PROVE  ReadsBack(h) /\ can_insert_separator(h, k) /\ num_items(h) > 0
  <2>1. PICK e \in Nat : entries_size(h) = e /\ e + M <= U
    <3> HIDE DEF s, m, U, M
    <3>1. CASE h = l
      BY <1>5, <1>13, <1>14, <3>1
    <3>2. CASE h = r
      <4>1. s[m] - s[n + 1] \in Nat /\ (s[m] - s[n + 1]) + M <= U
        BY <1>3, <1>5, <1>14, <1>16
      <4> QED BY <1>14, <3>2, <4>1
    <3> QED BY <3>1, <3>2
  <2>2. IsInternalPage(h) /\ is_internal(h) /\ ~is_leaf(h) /\ (LiesAt(0, h, pg) \/ LiesAt(n + 1, h, pg))
    BY <1>10, <1>12, <1>15
  <2>3. free_space(h) = U - e
    BY <2>1, <2>2 DEF free_space
  <2>4. free_space(h) >= 0 /\ KeySize[k] <= free_space(h)
    <3> HIDE DEF U, M
    <3> QED BY <1>3, <2>1, <2>3
  <2>5. check_invariants(h)
    BY <1>18, <2>2, <2>4, PartChecks DEF IsInternalPage
  <2>6. ReadsBack(h)
    BY <2>2, <2>5, FittingPagesReadBack DEF IsPage
  <2>7. num_items(h) > 0
    <3>1. num_items(h) = Len(h.keys)
      BY <2>2, PageHolds DEF IsPage
    <3> QED BY <1>6, <1>9, <1>12, <3>1
  <2> QED BY <2>2, <2>4, <2>6, <2>7 DEF can_insert_separator
<1>19. ASSUME NEW i \in KeySet(l) PROVE i < pg.keys[n + 1]
  <2>1. PICK j \in 1 .. n : i = pg.keys[j]
    <3>1. PICK j \in 1 .. Len(l.keys) : i = l.keys[j]
      BY <1>12, KeysOf
    <3>2. j \in 1 .. n /\ i = pg.keys[j]
      BY <1>7, <1>10, <1>12, <3>1
    <3> QED BY <3>2
  <2>2. j \in 1 .. m /\ j < n + 1
    BY <1>6
  <2> QED BY <1>1, <1>6, <1>18, <2>1, <2>2, SortedPair
<1>20. ASSUME NEW i \in KeySet(r) PROVE i > pg.keys[n + 1]
  <2>1. PICK j \in 1 .. m - (n + 1) : i = pg.keys[(n + 1) + j]
    <3>1. PICK j \in 1 .. Len(r.keys) : i = r.keys[j]
      BY <1>12, KeysOf
    <3>2. j \in 1 .. m - (n + 1) /\ i = pg.keys[(n + 1) + j]
      BY <1>7, <1>10, <1>12, <3>1
    <3> QED BY <3>2
  <2>2. (n + 1) + j \in 1 .. m /\ n + 1 < (n + 1) + j
    BY <1>1, <1>6
  <2>3. \A x \in 1 .. m : pg.keys[x] \in Nat
    BY <1>1, ElementOfSeq, SizeAssumption
  <2>4. pg.keys[n + 1] < pg.keys[(n + 1) + j]
    BY <1>1, <1>6, <1>18, <2>2, SortedPair
  <2> QED BY <1>6, <2>1, <2>2, <2>3, <2>4
<1>21. CanSplit(pg)
  BY <1>1, <1>5 DEF CanSplit
<1> QED BY <1>11, <1>17, <1>19, <1>20, <1>21

-----------------------------------------------------------------------------
(* Borrowing.  The taker's and the donor's size after j moves are A[j] and    *)
(* B[j], and X[j] is what the next move would add; the donor has J entries    *)
(* and must have least of them to give one.                                   *)

Stops(U, J, A, B, X, least, j) == A[j] >= B[j] \/ ~(J - j >= least /\ A[j] + X[j] <= U)
FirstStop(U, J, A, B, X, least, j) ==
    Stops(U, J, A, B, X, least, j) /\ \A i \in 1 .. j - 1 : ~Stops(U, J, A, B, X, least, i)

Moves(U, M, J, A, B, X, least, gap) ==
    /\ U \in Nat /\ U >= 28 /\ M = U \div 4 /\ M \in Nat /\ J \in Nat
    /\ least \in {1, 2} /\ gap \in 0 .. M /\ (least = 2 => gap = 0)
    /\ \A j \in 0 .. J : A[j] \in Nat /\ B[j] \in Nat /\ B[j] <= B[0]
    /\ B[J] = 0 /\ (J >= 1 => B[J - 1] <= M) /\ B[0] <= U
    /\ \A j \in 0 .. J - 1 :
           /\ X[j] \in Nat /\ X[j] <= M /\ A[j + 1] = A[j] + X[j]
           /\ A[j] + B[j] + (IF least = 1 THEN X[j] ELSE 0) = A[0] + B[0] + gap
    /\ A[0] + B[0] + gap > U
    /\ 2 * A[0] < (IF least = 1 THEN U - M ELSE U)

Evens(U, M, J, A, B, X, least) ==
    /\ J >= least /\ A[0] + X[0] <= U
    /\ \E j \in 1 .. J : FirstStop(U, J, A, B, X, least, j)
    /\ \A j \in 1 .. J : FirstStop(U, J, A, B, X, least, j) =>
         /\ j < J /\ A[j] <= U /\ B[j] <= U
         /\ least = 2 => 2 * (A[j] + M) > U - M /\ 2 * (B[j] + M) > U - M

LEMMA Balance ==
    ASSUME NEW U, NEW M, NEW J, NEW A, NEW B, NEW X, NEW least, NEW gap,
           Moves(U, M, J, A, B, X, least, gap)
    PROVE  Evens(U, M, J, A, B, X, least)
<1> USE DEF Moves
<1>1. A[0] \in Nat /\ B[0] \in Nat /\ A[0] < B[0] /\ 4 * M <= U /\ M >= 7
  <2>1. A[0] \in Nat /\ B[0] \in Nat
    OBVIOUS
  <2> QED BY <2>1
<1>2. J >= 2
  <2> SUFFICES ASSUME ~(J >= 2) PROVE FALSE
    OBVIOUS
  <2>1. CASE J = 0
    BY <1>1, <2>1
  <2>2. CASE J = 1
    <3>1. B[0] <= M
      BY <2>2
    <3> QED BY <1>1, <3>1
  <2> QED BY <2>1, <2>2
<1>3. J >= least /\ A[0] + X[0] <= U
  <2>1. X[0] \in Nat /\ X[0] <= M
    BY <1>2
  <2> QED BY <1>1, <1>2, <2>1
<1>4. \E j \in 1 .. J : FirstStop(U, J, A, B, X, least, j)
  <2> DEFINE T == {j \in 1 .. J : Stops(U, J, A, B, X, least, j)}
  <2>1. J \in T /\ T \subseteq Nat
    BY <1>2 DEF Stops
  <2>2. PICK j \in T : \A i \in T : j <= i
    BY <2>1, LeastNumber
  <2>3. ASSUME NEW i \in 1 .. j - 1 PROVE ~Stops(U, J, A, B, X, least, i)
    <3>1. i \in 1 .. J /\ ~(j <= i)
      BY <2>2
    <3> QED BY <2>2, <3>1
  <2> QED BY <2>2, <2>3 DEF FirstStop
<1>5. ASSUME NEW j \in 1 .. J, FirstStop(U, J, A, B, X, least, j)
      PROVE  /\ j < J /\ A[j] <= U /\ B[j] <= U
             /\ least = 2 => 2 * (A[j] + M) > U - M /\ 2 * (B[j] + M) > U - M
  <2> PICK i \in 0 .. J - 1 : j = i + 1
    <3>1. j - 1 \in 0 .. J - 1 /\ j = (j - 1) + 1
      OBVIOUS
    <3> QED BY <3>1
  <2>1. A[i] < B[i] /\ J - i >= least /\ A[i] + X[i] <= U
    <3>1. CASE i = 0
      BY <1>1, <1>3, <3>1
    <3>2. CASE i \in 1 .. J
      <4>1. ~Stops(U, J, A, B, X, least, i)
        BY <1>5, <3>2 DEF FirstStop
      <4>2. A[i] \in Nat /\ B[i] \in Nat
        BY <3>2
      <4> QED BY <4>1, <4>2 DEF Stops
    <3> QED BY <3>1, <3>2
  <2>2. /\ A[i] \in Nat /\ B[i] \in Nat /\ X[i] \in Nat /\ X[i] <= M
        /\ A[j] = A[i] + X[i] /\ A[j] \in Nat /\ B[j] \in Nat /\ B[j] <= B[0]
        /\ A[i] + B[i] + (IF least = 1 THEN X[i] ELSE 0) = A[0] + B[0] + gap
    OBVIOUS
  <2>3. j < J
    <3> SUFFICES ASSUME j = J PROVE FALSE
      OBVIOUS
    <3>1. i = J - 1 /\ least = 1 /\ B[i] <= M
      BY <1>2, <2>1
    <3> QED BY <1>1, <2>1, <2>2, <3>1
  <2>4. A[j] <= U /\ B[j] <= U
    BY <1>1, <2>1, <2>2
  <2>5. ASSUME least = 2 PROVE 2 * (A[j] + M) > U - M /\ 2 * (B[j] + M) > U - M
    <3>1. A[i] + B[i] > U /\ A[j] + B[j] = A[i] + B[i]
      BY <1>1, <2>2, <2>3, <2>5
    <3>2. 2 * (B[j] + M) > U - M
      BY <1>1, <2>1, <2>2, <3>1
    <3>3. 2 * (A[j] + M) > U - M
      <4>1. CASE A[j] >= B[j]
        BY <1>1, <2>2, <3>1, <4>1
      <4>2. CASE ~(J - j >= 2)
        <5>1. B[j] <= M
          BY <2>3, <4>2
        <5> QED BY <1>1, <2>2, <3>1, <5>1
      <4>3. CASE ~(A[j] + X[j] <= U)
        <5>1. X[j] \in Nat /\ X[j] <= M
          BY <2>3
        <5> QED BY <1>1, <2>2, <4>3, <5>1
      <4> QED BY <1>5, <2>5, <4>1, <4>2, <4>3 DEF FirstStop, Stops
    <3> QED BY <3>2, <3>3
  <2> QED BY <2>3, <2>4, <2>5
<1> QED BY <1>3, <1>4, <1>5 DEF Evens

(* The rows of two neighbouring leaves in one sequence, and a cut through it. *)
JoinedRows(l, r) == leaf(l.keys \o r.keys, Nil, Nil)

LEMMA Joined ==
    ASSUME NEW S, NEW a \in Seq(S), NEW b \in Seq(S)
    PROVE  /\ a \o b \in Seq(S) /\ Len(a \o b) = Len(a) + Len(b)
           /\ Len(a) \in Nat /\ Len(b) \in Nat
           /\ \A i \in 1 .. Len(a) : (a \o b)[i] = a[i]
           /\ \A i \in 1 .. Len(b) : (a \o b)[Len(a) + i] = b[i]
<1>1. a \o b \in Seq(S) /\ Len(a \o b) = Len(a) + Len(b) /\ Len(a) \in Nat /\ Len(b) \in Nat
  BY ConcatProperties
<1>2. ASSUME NEW i \in 1 .. Len(a) PROVE (a \o b)[i] = a[i]
  BY <1>1, ConcatProperties
<1>3. ASSUME NEW i \in 1 .. Len(b) PROVE (a \o b)[Len(a) + i] = b[i]
  <2>1. Len(a) + i \in 1 .. Len(a) + Len(b) /\ ~(Len(a) + i <= Len(a)) /\ (Len(a) + i) - Len(a) = i
    BY <1>1
  <2> QED BY <2>1, ConcatProperties
<1> QED BY <1>1, <1>2, <1>3

LEMMA LiesFirst ==
    ASSUME NEW p, NEW w, Holds(p), Holds(w), is_leaf(p) <=> is_leaf(w), Len(p.keys) <= Len(w.keys),
           \A i \in 1 .. Len(p.keys) : p.keys[i] = w.keys[i]
    PROVE  LiesAt(0, p, w)
<1>1. Len(p.keys) \in Nat
  BY DEF Holds
<1>2. 0 + Len(p.keys) <= Len(w.keys)
  BY <1>1
<1>3. \A i \in 1 .. Len(p.keys) : p.keys[i] = w.keys[0 + i]
  BY <1>1
<1> QED BY <1>2, <1>3 DEF LiesAt

LEMMA RowsOf ==
    ASSUME NEW l, NEW r, IsLeafPage(l), IsLeafPage(r)
    PROVE  /\ Holds(JoinedRows(l, r)) /\ is_leaf(JoinedRows(l, r)) /\ JoinedRows(l, r).keys = l.keys \o r.keys
           /\ Len(JoinedRows(l, r).keys) = Len(l.keys) + Len(r.keys)
           /\ Len(l.keys) \in Nat /\ Len(r.keys) \in Nat
           /\ LiesAt(0, l, JoinedRows(l, r)) /\ LiesAt(Len(l.keys), r, JoinedRows(l, r))
<1>1. l.keys \in Seq(Key) /\ r.keys \in Seq(Key) /\ is_leaf(l) /\ is_leaf(r) /\ Holds(l) /\ Holds(r)
  BY DEF IsLeafPage, Holds
<1>2. /\ l.keys \o r.keys \in Seq(Key) /\ Len(l.keys \o r.keys) = Len(l.keys) + Len(r.keys)
      /\ Len(l.keys) \in Nat /\ Len(r.keys) \in Nat
      /\ \A i \in 1 .. Len(l.keys) : (l.keys \o r.keys)[i] = l.keys[i]
      /\ \A i \in 1 .. Len(r.keys) : (l.keys \o r.keys)[Len(l.keys) + i] = r.keys[i]
  <2>1. PICK a \in Seq(Key), b \in Seq(Key) : a = l.keys /\ b = r.keys
    BY <1>1
  <2>2. /\ a \o b \in Seq(Key) /\ Len(a \o b) = Len(a) + Len(b)
        /\ Len(a) \in Nat /\ Len(b) \in Nat
        /\ \A i \in 1 .. Len(a) : (a \o b)[i] = a[i]
        /\ \A i \in 1 .. Len(b) : (a \o b)[Len(a) + i] = b[i]
    BY Joined
  <2> QED BY <2>1, <2>2, Zenon
<1>3. JoinedRows(l, r).keys = l.keys \o r.keys /\ is_leaf(JoinedRows(l, r)) /\ Holds(JoinedRows(l, r))
  BY <1>2 DEF JoinedRows, leaf, is_leaf, Holds
<1>4. Len(l.keys) <= Len(JoinedRows(l, r).keys) /\ Len(l.keys) + Len(r.keys) <= Len(JoinedRows(l, r).keys)
  <2>1. \A a, b \in Nat : a <= a + b /\ a + b <= a + b
    OBVIOUS
  <2> QED BY <1>2, <1>3, <2>1, Zenon
<1>5. LiesAt(0, l, JoinedRows(l, r))
  <2>1. \A i \in 1 .. Len(l.keys) : l.keys[i] = JoinedRows(l, r).keys[i]
    BY <1>2, <1>3, Zenon
  <2> QED BY <1>1, <1>3, <1>4, <2>1, LiesFirst, Zenon
<1>6. LiesAt(Len(l.keys), r, JoinedRows(l, r))
  <2>1. \A i \in 1 .. Len(r.keys) : r.keys[i] = JoinedRows(l, r).keys[Len(l.keys) + i]
    BY <1>2, <1>3, Zenon
  <2> QED BY <1>1, <1>2, <1>3, <1>4, <2>1, Zenon DEF LiesAt
<1> QED BY <1>2, <1>3, <1>5, <1>6, Zenon

LEMMA CutFits ==
    ASSUME NEW m \in Nat, NEW n \in 0 .. m
    PROVE  /\ n \in Nat /\ n <= m /\ n + (m - n) <= m /\ n + (m - n) = m
           /\ n > 0 => n \in 1 .. n
           /\ n < m => 1 \in 1 .. m - n
OBVIOUS

IsCut(p, w, n) ==
    LET s == PrefixSize(w)
        m == Len(w.keys)
    IN /\ LiesAt(0, p.left, w) /\ LiesAt(n, p.right, w)
       /\ Len(p.left.keys) = n /\ Len(p.right.keys) = m - n
       /\ entries_size(p.left) = s[n] /\ entries_size(p.right) = s[m] - s[n]
       /\ p.sep = w.keys[n + 1]
       /\ n < m => p.right.keys[1] = w.keys[n + 1]
       /\ n > 0 => p.left.keys[n] = w.keys[n]

LEMMA LeafCut ==
    ASSUME NEW l, NEW r, IsLeafPage(l), IsLeafPage(r), NEW sep,
           NEW n \in 0 .. Len(JoinedRows(l, r).keys)
    PROVE  LET p == Redistributed(l, r, sep, n)
           IN IsLeafPage(p.left) /\ IsLeafPage(p.right) /\ IsCut(p, JoinedRows(l, r), n)
<1> DEFINE p == Redistributed(l, r, sep, n)
           w == JoinedRows(l, r)
           m == Len(w.keys)
           all == l.keys \o r.keys
<1>1. /\ Holds(w) /\ is_leaf(w) /\ w.keys = all
      /\ w.keys \in Seq(Key) /\ m \in Nat /\ n \in 0 .. m /\ n \in Nat
  <2>1. Holds(w) /\ is_leaf(w) /\ w.keys = all
    BY RowsOf, Zenon
  <2>2. Holds(w)
    BY RowsOf
  <2>3. w.keys \in Seq(Key) /\ m \in Nat
    BY <2>2 DEF Holds
  <2>4. n \in 0 .. m /\ n \in Nat
    BY <2>3, CutFits
  <2> QED BY <2>1, <2>3, <2>4, Zenon
<1>2. /\ Upto(n, w.keys) \in Seq(Key) /\ Len(Upto(n, w.keys)) = n
      /\ \A i \in 1 .. n : Upto(n, w.keys)[i] = w.keys[i]
      /\ After(n, w.keys) \in Seq(Key) /\ Len(After(n, w.keys)) = m - n
      /\ \A i \in 1 .. m - n : After(n, w.keys)[i] = w.keys[n + i]
  <2> HIDE DEF w
  <2>1. w.keys \in Seq(Key) /\ n \in 0 .. Len(w.keys)
    BY <1>1
  <2> QED BY <2>1, Parts
<1>3. /\ p.left = [l EXCEPT !.keys = Upto(n, w.keys)] /\ p.right = [r EXCEPT !.keys = After(n, w.keys)]
      /\ p.sep = w.keys[n + 1]
  BY <1>1 DEF Redistributed, IsLeafPage
<1>4. /\ p.left.keys = Upto(n, w.keys) /\ p.right.keys = After(n, w.keys)
      /\ IsLeafPage(p.left) /\ IsLeafPage(p.right)
      /\ is_leaf(p.left) /\ is_leaf(p.right) /\ Holds(p.left) /\ Holds(p.right)
  <2>1. ASSUME NEW h, IsLeafPage(h), NEW ks \in Seq(Key), NEW g, g = [h EXCEPT !.keys = ks]
        PROVE  g.keys = ks /\ IsLeafPage(g) /\ is_leaf(g) /\ Holds(g)
    BY <2>1 DEF IsLeafPage, leaf, is_leaf, Holds
  <2> HIDE DEF p, w
  <2>2. Upto(n, w.keys) \in Seq(Key) /\ After(n, w.keys) \in Seq(Key)
    BY <1>2
  <2>3. p.left.keys = Upto(n, w.keys) /\ IsLeafPage(p.left) /\ is_leaf(p.left) /\ Holds(p.left)
    BY <1>3, <2>1, <2>2
  <2>4. p.right.keys = After(n, w.keys) /\ IsLeafPage(p.right) /\ is_leaf(p.right) /\ Holds(p.right)
    BY <1>3, <2>1, <2>2
  <2> QED BY <2>3, <2>4
<1> HIDE DEF p, w
<1>5. entries_size(p.left) = PrefixSize(w)[n]
  BY <1>1, <1>4, UptoSize, Zenon
<1>7. /\ n <= m /\ n + (m - n) <= m /\ n + (m - n) = m
      /\ n > 0 => n \in 1 .. n
      /\ n < m => 1 \in 1 .. m - n
  BY <1>1, CutFits, Zenon
<1>8. LiesAt(0, p.left, w)
  <2>1. Len(p.left.keys) <= Len(w.keys)
    BY <1>2, <1>4, <1>7, Zenon
  <2>2. \A i \in 1 .. Len(p.left.keys) : p.left.keys[i] = w.keys[i]
    BY <1>2, <1>4, Zenon
  <2> QED BY <1>1, <1>4, <2>1, <2>2, LiesFirst, Zenon
<1>9. LiesAt(n, p.right, w)
  <2>1. n + Len(p.right.keys) <= Len(w.keys)
    BY <1>2, <1>4, <1>7, Zenon
  <2>2. \A i \in 1 .. Len(p.right.keys) : p.right.keys[i] = w.keys[n + i]
    BY <1>2, <1>4, Zenon
  <2> QED BY <1>1, <1>4, <2>1, <2>2, Zenon DEF LiesAt
<1>6. entries_size(p.right) = PrefixSize(w)[m] - PrefixSize(w)[n]
  <2>1. entries_size(p.right) = PrefixSize(w)[n + Len(p.right.keys)] - PrefixSize(w)[n]
    BY <1>9, PartSize, Zenon
  <2> QED BY <1>2, <1>4, <1>7, <2>1, Zenon
<1>10. n < m => p.right.keys[1] = w.keys[n + 1]
  BY <1>2, <1>4, <1>7, Zenon
<1>11. n > 0 => p.left.keys[n] = w.keys[n]
  BY <1>2, <1>4, <1>7, Zenon
<1>12. Len(p.left.keys) = n /\ Len(p.right.keys) = m - n
  BY <1>2, <1>4, Zenon
<1> QED BY <1>3, <1>4, <1>5, <1>6, <1>8, <1>9, <1>10, <1>11, <1>12, Zenon DEF p, w, IsCut

(* What a borrow leaves: two pages that can be written at once and read back, *)
(* with entries, and the separator between them.                              *)
Shared(b) ==
    /\ \A h \in {b.left, b.right} : ReadsBack(h) /\ num_items(h) > 0 /\ (is_leaf(h) => NotTooEmpty(h))
    /\ \A i \in KeySet(b.left) : i < b.sep
    /\ \A i \in KeySet(b.right) : IF is_leaf(b.right) THEN i >= b.sep ELSE i > b.sep

LEMMA LeafCutBalanced ==
    ASSUME NEW l, NEW r, IsLeafPage(l), IsLeafPage(r), Increasing(l.keys \o r.keys), NEW sep,
           NEW n \in 0 .. Len(JoinedRows(l, r).keys), n > 0, n < Len(JoinedRows(l, r).keys),
           \A h \in {Redistributed(l, r, sep, n).left, Redistributed(l, r, sep, n).right} :
               free_space(h) >= 0 /\ NotTooEmpty(h)
    PROVE  Shared(Redistributed(l, r, sep, n))
<1> DEFINE p == Redistributed(l, r, sep, n)
           w == JoinedRows(l, r)
           m == Len(w.keys)
<1>1. /\ IsLeafPage(p.left) /\ IsLeafPage(p.right)
      /\ LiesAt(0, p.left, w) /\ LiesAt(n, p.right, w)
      /\ Len(p.left.keys) = n /\ Len(p.right.keys) = m - n
      /\ p.sep = w.keys[n + 1]
  <2>1. IsLeafPage(p.left) /\ IsLeafPage(p.right) /\ IsCut(p, w, n)
    BY LeafCut, Zenon
  <2> QED BY <2>1, Zenon DEF IsCut
<1>2. Increasing(w.keys) /\ Holds(w)
  BY RowsOf, Zenon
<1>3. /\ w.keys \in Seq(Key) /\ m \in Nat /\ n \in Nat /\ \A i \in 1 .. m : w.keys[i] \in Nat
  <2> HIDE DEF w
  <2>1. w.keys \in Seq(Key) /\ m \in Nat
    BY <1>2 DEF Holds
  <2>2. n \in Nat
    BY <2>1, CutFits DEF w
  <2>3. \A i \in 1 .. m : w.keys[i] \in Nat
    BY <2>1, ElementOfSeq, SizeAssumption
  <2> QED BY <2>1, <2>2, <2>3
<1>4. \A h \in {p.left, p.right} : free_space(h) >= 0 /\ NotTooEmpty(h)
  OBVIOUS
<1> HIDE DEF p, w
<1>5. n \in 1 .. m - 1
  <2> HIDE DEF m
  <2> QED BY <1>3 DEF m, w
<1>6. ASSUME NEW h \in {p.left, p.right}
      PROVE  ReadsBack(h) /\ num_items(h) > 0 /\ (is_leaf(h) => NotTooEmpty(h))
  <2>1. /\ IsLeafPage(h) /\ is_leaf(h) /\ ~is_internal(h)
        /\ LiesAt(0, h, w) \/ LiesAt(n, h, w)
    BY <1>1 DEF IsLeafPage, is_leaf, is_internal
  <2>2. check_invariants(h)
    BY <1>2, <1>4, <2>1, PartChecks
  <2>3. ReadsBack(h)
    BY <2>1, <2>2, FittingPagesReadBack DEF IsPage
  <2>4. num_items(h) = Len(h.keys)
    BY <2>1, PageHolds DEF IsPage
  <2>5. Len(h.keys) > 0
    <3> HIDE DEF m
    <3> QED BY <1>1, <1>3, <1>5
  <2> QED BY <1>4, <2>3, <2>4, <2>5
<1>7. n + 1 \in 1 .. m
  <2> HIDE DEF m
  <2> QED BY <1>3, <1>5
<1>8. ASSUME NEW i \in KeySet(p.left) PROVE i < p.sep
  <2>1. Holds(p.left)
    BY <1>1 DEF LiesAt
  <2>2. PICK j \in 1 .. n : i = p.left.keys[j]
    BY <1>1, <2>1, KeysOf, ZenonT(60)
  <2>3. i = w.keys[j]
    <3>1. 0 + j = j
      OBVIOUS
    <3> QED BY <1>1, <2>2, <3>1, Zenon DEF LiesAt
  <2>4. j \in 1 .. m /\ j < n + 1
    <3> HIDE DEF m
    <3> QED BY <1>3, <1>5
  <2> QED BY <1>1, <1>2, <1>3, <1>7, <2>3, <2>4, SortedPair
<1>9. ASSUME NEW i \in KeySet(p.right) PROVE i >= p.sep
  <2>1. Holds(p.right)
    BY <1>1 DEF LiesAt
  <2>2. PICK j \in 1 .. m - n : i = p.right.keys[j]
    <3>1. \E j \in 1 .. Len(p.right.keys) : i = p.right.keys[j]
      BY <2>1, KeysOf, Zenon
    <3> QED BY <1>1, <3>1, Zenon
  <2>3. i = w.keys[n + j]
    BY <1>1, <2>2, Zenon DEF LiesAt
  <2>4. /\ n + j \in 1 .. m
        /\ n + j = n + 1 \/ n + 1 < n + j
    <3> HIDE DEF m
    <3> QED BY <1>3, <1>5
  <2>5. CASE n + j = n + 1
    BY <1>1, <1>3, <1>7, <2>3, <2>5
  <2>6. CASE n + 1 < n + j
    <3>1. w.keys[n + 1] < w.keys[n + j]
      BY <1>2, <1>3, <1>7, <2>4, <2>6, SortedPair
    <3> QED BY <1>1, <1>3, <1>7, <2>3, <2>4, <3>1
  <2> QED BY <2>4, <2>5, <2>6
<1>10. is_leaf(p.right)
  BY <1>1 DEF IsLeafPage
<1> QED BY <1>6, <1>8, <1>9, <1>10 DEF Shared, p

LEMMA Giving ==
    ASSUME NEW taker, NEW donor, is_leaf(taker) <=> is_leaf(donor),
           NEW k \in Key, NEW U \in Int, NEW a \in Nat, free_space(taker) = U - a,
           NEW c \in Nat, Len(donor.keys) = c, NEW x, x = EntrySize(taker, k)
    PROVE  CanBorrow(taker, donor, k) <=> (c >= (IF is_leaf(taker) THEN 2 ELSE 1) /\ a + x <= U)
<1>1. x \in Nat
  BY Usable DEF EntrySize
<1>2. U - a >= x <=> a + x <= U
  BY <1>1
<1>3. CanBorrow(taker, donor, k) <=> c >= (IF is_leaf(donor) THEN 2 ELSE 1) /\ U - a >= x
  BY DEF CanBorrow
<1> QED BY <1>2, <1>3, Zenon

(* What two neighbouring leaves have to be for delete to come to a borrow.    *)
LeavesToBalance(l, r, sep) ==
    /\ IsLeafPage(l) /\ IsLeafPage(r) /\ check_invariants(l) /\ check_invariants(r)
    /\ Increasing(l.keys \o r.keys) /\ ~can_merge_with(l, r, sep)

SumFacts(w, n, J, U, M) ==
    LET s == PrefixSize(w)
        m == Len(w.keys)
    IN /\ n \in Nat /\ J \in Nat /\ m = n + J /\ m \in Nat
       /\ U \in Nat /\ U >= 28 /\ M \in Nat /\ M = U \div 4
       /\ s[m] > U /\ s[n] <= U /\ s[m] - s[n] <= U
       /\ s[0] = 0 /\ \A i \in 0 .. m : s[i] \in Nat
       /\ \A i, j \in 0 .. m : i <= j => s[i] <= s[j]
       /\ \A i \in 1 .. m : /\ w.keys[i] \in Key /\ RowSize[w.keys[i]] \in Nat
                             /\ RowSize[w.keys[i]] <= M
                             /\ s[i] = s[i - 1] + RowSize[w.keys[i]]

LEMMA LeafSums ==
    ASSUME NEW l, NEW r, NEW sep, LeavesToBalance(l, r, sep)
    PROVE  /\ SumFacts(JoinedRows(l, r), Len(l.keys), Len(r.keys), LEAF_USABLE, MAX_LEAF_ENTRY_SIZE)
           /\ entries_size(l) = PrefixSize(JoinedRows(l, r))[Len(l.keys)]
           /\ entries_size(r) = PrefixSize(JoinedRows(l, r))[Len(JoinedRows(l, r).keys)] - PrefixSize(JoinedRows(l, r))[Len(l.keys)]
<1> DEFINE w == JoinedRows(l, r)
           s == PrefixSize(w)
           n == Len(l.keys)
           m == Len(w.keys)
           U == LEAF_USABLE
           M == MAX_LEAF_ENTRY_SIZE
<1>1. IsLeafPage(l) /\ IsLeafPage(r) /\ is_leaf(l) /\ is_leaf(r)
  BY DEF LeavesToBalance, IsLeafPage
<1>2. /\ Holds(w) /\ is_leaf(w) /\ n \in Nat /\ Len(r.keys) \in Nat /\ m = n + Len(r.keys)
      /\ LiesAt(0, l, w) /\ LiesAt(n, r, w)
  BY <1>1, RowsOf, Zenon
<1> HIDE DEF w
<1>3. m \in Nat
  <2>1. Holds(w)
    BY <1>2
  <2> QED BY <2>1 DEF Holds
<1>4. s[0] = 0 /\ \A i \in 0 .. m : s[i] \in Nat
  BY <1>2, PrefixSums
<1>5. \A i, j \in 0 .. m : i <= j => s[i] <= s[j]
  BY <1>2, SumsRise
<1>6. \A i \in 1 .. m : /\ w.keys[i] \in Key /\ RowSize[w.keys[i]] \in Nat
                        /\ RowSize[w.keys[i]] <= M /\ s[i] = s[i - 1] + RowSize[w.keys[i]]
  <2> SUFFICES ASSUME NEW i \in 1 .. m
               PROVE  /\ w.keys[i] \in Key /\ RowSize[w.keys[i]] \in Nat
                      /\ RowSize[w.keys[i]] <= M /\ s[i] = s[i - 1] + RowSize[w.keys[i]]
    OBVIOUS
  <2>1. w.keys[i] \in Key /\ s[i] = s[i - 1] + EntrySize(w, w.keys[i])
    BY <1>2, EntryBounds, SumStep
  <2>2. EntrySize(w, w.keys[i]) = RowSize[w.keys[i]]
    BY <1>2 DEF EntrySize
  <2> QED BY <2>1, <2>2, Usable DEF MAX_LEAF_ENTRY_SIZE
<1>7. entries_size(l) = s[0 + n] - s[0] /\ entries_size(r) = s[n + Len(r.keys)] - s[n]
  BY <1>2, PartSize, Zenon
<1>8. n \in 0 .. m /\ m \in 0 .. m /\ s[n] \in Nat /\ s[m] \in Nat
  <2>1. n \in 0 .. m /\ m \in 0 .. m
    <3> HIDE DEF m, n
    <3> QED BY <1>2, <1>3
  <2> QED BY <1>4, <2>1
<1>9. entries_size(l) = s[n] /\ entries_size(r) = s[m] - s[n]
  <2>1. 0 + n = n
    BY <1>2
  <2>2. s[n] - 0 = s[n]
    BY <1>8
  <2> QED BY <1>2, <1>4, <1>7, <2>1, <2>2, Zenon
<1>10. free_space(l) = U - s[n] /\ free_space(r) = U - (s[m] - s[n]) /\ U \in Int
  BY <1>1, <1>9, SizeAssumption DEF free_space, LEAF_USABLE, MAX_LEAF_HEADER_SIZE
<1>11. U - s[n] >= 0 /\ U - (s[m] - s[n]) >= 0 /\ ~(U - s[n] >= s[m] - s[n])
  <2>1. free_space(l) >= 0 /\ free_space(r) >= 0 /\ ~can_merge_with(l, r, sep)
    BY DEF LeavesToBalance, check_invariants
  <2>2. ~(free_space(l) >= entries_size(r) + 0)
    BY <1>1, <2>1 DEF can_merge_with, SameKind, is_leaf, is_internal, is_free
  <2> HIDE DEF s, m, n, U
  <2> QED BY <1>8, <1>9, <1>10, <2>1, <2>2
<1>12. s[m] > U /\ s[n] <= U /\ s[m] - s[n] <= U
  <2> HIDE DEF s, U, m, n
  <2> QED BY <1>8, <1>10, <1>11
<1>13. U \in Nat /\ U >= 28 /\ M \in Nat /\ M = U \div 4
  <2>1. m >= 1
    <3> SUFFICES ASSUME m = 0 PROVE FALSE
      BY <1>3
    <3> HIDE DEF s, U, m, n
    <3>1. s[m] = 0 /\ s[n] = 0
      BY <1>2, <1>3, <1>4, <1>8
    <3> QED BY <1>10, <1>12, <3>1
  <2>2. PICK k \in Key : TRUE
    BY <1>3, <1>6, <2>1
  <2> QED BY <2>2, Usable DEF MAX_LEAF_ENTRY_SIZE
<1> QED BY <1>2, <1>3, <1>4, <1>5, <1>6, <1>9, <1>12, <1>13, Zenon DEF w, SumFacts

LEMMA LeavesFromRight ==
    ASSUME NEW l, NEW r, NEW sep, LeavesToBalance(l, r, sep), is_underfull(l)
    PROVE  /\ CanBorrowFromRight([left |-> l, right |-> r, sep |-> sep])
           /\ Shared(bulk_borrow_from_right(l, r, sep))
<1> DEFINE w == JoinedRows(l, r)
           s == PrefixSize(w)
           n == Len(l.keys)
           m == Len(w.keys)
           J == Len(r.keys)
           U == LEAF_USABLE
           M == MAX_LEAF_ENTRY_SIZE
           A == [j \in 0 .. J |-> s[n + j]]
           B == [j \in 0 .. J |-> s[m] - s[n + j]]
           X == [j \in 0 .. J - 1 |-> RowSize[w.keys[(n + j) + 1]]]
           R(j) == Redistributed(l, r, sep, n + j)
           D(j) == entries_size(R(j).left) >= entries_size(R(j).right) \/ ~CanBorrowFromRight(R(j))
           I(j) == D(j) /\ \A i \in 1 .. j - 1 : ~D(i)
<1>1. /\ IsLeafPage(l) /\ IsLeafPage(r) /\ Increasing(l.keys \o r.keys)
      /\ is_leaf(l) /\ is_leaf(r) /\ ~is_internal(l) /\ ~is_internal(r)
  BY DEF LeavesToBalance, IsLeafPage, is_leaf, is_internal
<1>2. /\ n \in Nat /\ J \in Nat /\ m = n + J /\ m \in Nat
      /\ U \in Nat /\ U >= 28 /\ M \in Nat /\ M = U \div 4
      /\ entries_size(l) = s[n] /\ entries_size(r) = s[m] - s[n]
      /\ s[m] > U /\ s[n] <= U /\ s[m] - s[n] <= U
      /\ s[0] = 0 /\ \A i \in 0 .. m : s[i] \in Nat
      /\ \A i, j \in 0 .. m : i <= j => s[i] <= s[j]
      /\ \A i \in 1 .. m : /\ w.keys[i] \in Key /\ RowSize[w.keys[i]] \in Nat
                            /\ RowSize[w.keys[i]] <= M
                            /\ s[i] = s[i - 1] + RowSize[w.keys[i]]
  <2>1. SumFacts(JoinedRows(l, r), Len(l.keys), Len(r.keys), LEAF_USABLE, MAX_LEAF_ENTRY_SIZE)
    BY LeafSums
  <2>2. entries_size(l) = s[n] /\ entries_size(r) = s[m] - s[n]
    BY LeafSums, Zenon
  <2> QED BY <2>1, <2>2, Zenon DEF SumFacts
<1>3. 2 * s[n] < U
  <2>1. s[n] < U \div 2
    BY <1>1, <1>2 DEF is_underfull, LEAF_UNDERFULL_BYTES
  <2>2. s[n] \in Nat
    <3>1. n \in 0 .. m
      <4> HIDE DEF n, m, J
      <4> QED BY <1>2
    <3> QED BY <1>2, <3>1
  <2> HIDE DEF s, n, U
  <2> QED BY <1>2, <2>1, <2>2
<1>4. ASSUME NEW j \in 0 .. J
      PROVE  n + j \in 0 .. m /\ (j < J => (n + j) + 1 \in 1 .. m /\ ((n + j) + 1) - 1 = n + j)
  <2> HIDE DEF n, m, J
  <2> QED BY <1>2
<1>5. ASSUME NEW j \in 0 .. J
      PROVE  A[j] = s[n + j] /\ B[j] = s[m] - s[n + j] /\ A[j] \in Nat /\ B[j] \in Nat /\ B[j] <= B[0]
  <2>1. A[j] = s[n + j] /\ B[j] = s[m] - s[n + j]
    OBVIOUS
  <2>2. n + j \in 0 .. m /\ n \in 0 .. m /\ m \in 0 .. m /\ n <= n + j /\ n + j <= m
    <3> HIDE DEF n, m, J
    <3> QED BY <1>2
  <2>3. s[n + j] \in Nat /\ s[m] \in Nat /\ s[n] \in Nat /\ s[n] <= s[n + j] /\ s[n + j] <= s[m]
    <3> HIDE DEF n, m, J, s
    <3> QED BY <1>2, <2>2, Zenon
  <2>4. B[0] = s[m] - s[n]
    <3>1. 0 \in 0 .. J /\ n + 0 = n
      <4> HIDE DEF n, J
      <4> QED BY <1>2
    <3> QED BY <3>1, Zenon
  <2> HIDE DEF A, B, s, n, m
  <2> QED BY <2>1, <2>3, <2>4
<1>6. ASSUME NEW j \in 0 .. J - 1
      PROVE  /\ X[j] = RowSize[w.keys[(n + j) + 1]] /\ w.keys[(n + j) + 1] \in Key
             /\ X[j] \in Nat /\ X[j] <= M /\ A[j + 1] = A[j] + X[j]
  <2>1. j \in 0 .. J /\ j + 1 \in 0 .. J /\ j < J /\ n + (j + 1) = (n + j) + 1
    <3> HIDE DEF n, J
    <3> QED BY <1>2
  <2>2. (n + j) + 1 \in 1 .. m /\ ((n + j) + 1) - 1 = n + j
    BY <1>4, <2>1
  <2>3. X[j] = RowSize[w.keys[(n + j) + 1]]
    OBVIOUS
  <2>4. A[j + 1] = s[(n + j) + 1] /\ A[j] = s[n + j]
    <3> HIDE DEF A, s, n, J
    <3>1. A[j + 1] = s[n + (j + 1)]
      BY <1>5, <2>1, Zenon
    <3> QED BY <1>5, <2>1, <3>1, Zenon
  <2> HIDE DEF A, X, s, n, m, J, w, M
  <2> QED BY <1>2, <2>2, <2>3, <2>4, Zenon
<1>7. /\ A[0] = s[n] /\ B[0] = s[m] - s[n] /\ B[J] = 0 /\ (J >= 1 => B[J - 1] <= M)
      /\ s[n] \in Nat /\ s[m] \in Nat
  <2>1. /\ n + 0 = n /\ n + J = m /\ 0 \in 0 .. J /\ J \in 0 .. J /\ n \in 0 .. m /\ m \in 0 .. m
    <3> HIDE DEF n, m, J
    <3> QED BY <1>2
  <2> HIDE DEF n, m, J, s, A, B, w
  <2>2. A[0] = s[n] /\ B[0] = s[m] - s[n] /\ B[J] = s[m] - s[m] /\ s[m] \in Nat /\ s[n] \in Nat
    BY <1>2, <1>5, <2>1, Zenon
  <2>3. ASSUME J >= 1 PROVE B[J - 1] <= M
    <3>1. J - 1 \in 0 .. J /\ m \in 1 .. m /\ n + (J - 1) = m - 1 /\ m - 1 \in 0 .. m
      BY <1>2, <2>3
    <3>2. B[J - 1] = s[m] - s[m - 1]
      BY <1>5, <3>1, Zenon
    <3>3. s[m] = s[m - 1] + RowSize[w.keys[m]] /\ RowSize[w.keys[m]] <= M /\ RowSize[w.keys[m]] \in Nat /\ s[m - 1] \in Nat
      BY <1>2, <3>1, Zenon
    <3> HIDE DEF M
    <3> QED BY <1>2, <3>2, <3>3
  <2> QED BY <2>2, <2>3
<1>8. \A j \in 0 .. J - 1 : A[j] + B[j] + 0 = A[0] + B[0] + 0
  <2> SUFFICES ASSUME NEW j \in 0 .. J - 1 PROVE A[j] + B[j] + 0 = A[0] + B[0] + 0
    OBVIOUS
  <2>1. j \in 0 .. J /\ n + j \in 0 .. m
    <3> HIDE DEF n, m, J
    <3> QED BY <1>2
  <2> HIDE DEF n, m, J, s, A, B, w
  <2> QED BY <1>2, <1>5, <1>7, <2>1
<1> HIDE DEF n, m, J, s, A, B, X, w, U, M
<1>9. /\ J >= 2 /\ A[0] + X[0] <= U
      /\ \E j \in 1 .. J : FirstStop(U, J, A, B, X, 2, j)
      /\ \A j \in 1 .. J : FirstStop(U, J, A, B, X, 2, j) =>
           /\ j < J /\ A[j] <= U /\ B[j] <= U
           /\ 2 * (A[j] + M) > U - M /\ 2 * (B[j] + M) > U - M
  <2>1. \A j \in 0 .. J : A[j] \in Nat /\ B[j] \in Nat /\ B[j] <= B[0]
    BY <1>5
  <2>2. \A j \in 0 .. J - 1 :
               /\ X[j] \in Nat /\ X[j] <= M /\ A[j + 1] = A[j] + X[j]
               /\ A[j] + B[j] + 0 = A[0] + B[0] + 0
    BY <1>6, <1>8, Zenon
  <2>3. A[0] + B[0] + 0 > U /\ 2 * A[0] < U /\ B[0] <= U
    BY <1>2, <1>3, <1>7
  <2>4. 0 \in 0 .. M
    BY <1>2
  <2>5. PICK least \in {1, 2} : least = 2
    OBVIOUS
  <2>6. \A j \in 0 .. J - 1 :
               /\ X[j] \in Nat /\ X[j] <= M /\ A[j + 1] = A[j] + X[j]
               /\ A[j] + B[j] + (IF least = 1 THEN X[j] ELSE 0) = A[0] + B[0] + 0
    <3>1. least # 1
      BY <2>5
    <3> QED BY <2>2, <3>1, Zenon
  <2>7. 2 * A[0] < (IF least = 1 THEN U - M ELSE U)
    BY <2>3, <2>5
  <2>8. Moves(U, M, J, A, B, X, least, 0)
    BY <1>2, <1>7, <2>1, <2>3, <2>4, <2>6, <2>7, Zenon DEF Moves
  <2>9. Evens(U, M, J, A, B, X, least)
    BY <2>8, Balance
  <2> QED BY <2>5, <2>9, Zenon DEF Evens
<1>10. ASSUME NEW j \in 0 .. J
       PROVE  /\ IsLeafPage(R(j).left) /\ IsLeafPage(R(j).right)
              /\ entries_size(R(j).left) = A[j] /\ entries_size(R(j).right) = B[j]
              /\ Len(R(j).right.keys) = J - j
              /\ j < J => R(j).right.keys[1] = w.keys[(n + j) + 1]
  <2> DEFINE p == R(j)
  <2>1. n + j \in 0 .. Len(JoinedRows(l, r).keys)
    BY <1>4 DEF m, w
  <2>2. /\ IsLeafPage(p.left) /\ IsLeafPage(p.right)
        /\ Len(p.right.keys) = m - (n + j)
        /\ entries_size(p.left) = s[n + j] /\ entries_size(p.right) = s[m] - s[n + j]
        /\ n + j < m => p.right.keys[1] = w.keys[(n + j) + 1]
    <3>1. IsLeafPage(p.left) /\ IsLeafPage(p.right) /\ IsCut(p, JoinedRows(l, r), n + j)
      BY <1>1, <2>1, LeafCut, Zenon
    <3> QED BY <3>1, Zenon DEF IsCut, s, m, w
  <2>3. m - (n + j) = J - j /\ (j < J => n + j < m)
    BY <1>2
  <2>4. entries_size(p.left) = A[j] /\ entries_size(p.right) = B[j]
    BY <1>5, <2>2, Zenon
  <2> HIDE DEF p
  <2>5. /\ IsLeafPage(p.left) /\ IsLeafPage(p.right)
        /\ entries_size(p.left) = A[j] /\ entries_size(p.right) = B[j]
        /\ Len(p.right.keys) = J - j
        /\ j < J => p.right.keys[1] = w.keys[(n + j) + 1]
    BY <2>2, <2>3, <2>4, Zenon
  <2> QED BY <2>5, Zenon DEF p
<1>11. ASSUME NEW j \in 1 .. J
       PROVE  D(j) <=> Stops(U, J, A, B, X, 2, j)
  <2> DEFINE p == R(j)
  <2>1. j \in 0 .. J /\ J - j \in Nat
    BY <1>2
  <2>2. /\ IsLeafPage(p.left) /\ IsLeafPage(p.right)
        /\ entries_size(p.left) = A[j] /\ entries_size(p.right) = B[j]
        /\ Len(p.right.keys) = J - j
        /\ j < J => p.right.keys[1] = w.keys[(n + j) + 1]
    BY <1>10, <2>1, Zenon
  <2> HIDE DEF p
  <2>3. is_leaf(p.left) /\ is_leaf(p.right)
    BY <2>2 DEF IsLeafPage
  <2>4. CanBorrowFromRight(p) <=> J - j >= 2 /\ A[j] + X[j] <= U
    <3>1. CASE j < J
      <4>1. /\ j \in 0 .. J - 1 /\ A[j] \in Nat /\ w.keys[(n + j) + 1] \in Key
            /\ X[j] = RowSize[w.keys[(n + j) + 1]]
        <5>1. j \in 0 .. J - 1
          BY <1>2, <3>1
        <5> QED BY <1>5, <1>6, <2>1, <5>1, Zenon
      <4>2. free_space(p.left) = U - A[j]
        BY <2>2, <2>3 DEF free_space, U
      <4>3. X[j] = EntrySize(p.left, w.keys[(n + j) + 1])
        BY <2>3, <4>1 DEF EntrySize
      <4>4. CanBorrow(p.left, p.right, w.keys[(n + j) + 1])
              <=> (J - j >= (IF is_leaf(p.left) THEN 2 ELSE 1) /\ A[j] + X[j] <= U)
        <5>1. U \in Int
          BY <1>2
        <5> QED BY <2>1, <2>2, <2>3, <4>1, <4>2, <4>3, <5>1, Giving, Zenon
      <4> QED BY <2>2, <2>3, <3>1, <4>4, Zenon DEF CanBorrowFromRight
    <3>2. CASE j = J
      <4>1. ~(J - j >= 2)
        BY <1>2, <3>2
      <4> QED BY <2>2, <2>3, <4>1, Zenon DEF CanBorrowFromRight, CanBorrow
    <3> QED BY <1>2, <3>1, <3>2
  <2> QED BY <2>2, <2>4, Zenon DEF Stops, p
<1>12. CanBorrowFromRight([left |-> l, right |-> r, sep |-> sep])
  <2>1. 0 \in 0 .. J - 1 /\ 1 \in 1 .. J /\ (n + 0) + 1 = n + 1
    BY <1>2, <1>9
  <2>2. r.keys[1] = w.keys[n + 1]
    <3>1. LiesAt(n, r, w)
      BY <1>1, RowsOf DEF n, w
    <3> QED BY <2>1, <3>1, Zenon DEF LiesAt, J
  <2>3. X[0] = RowSize[r.keys[1]] /\ r.keys[1] \in Key
    BY <1>6, <2>1, <2>2, Zenon
  <2>4. CanBorrow(l, r, r.keys[1])
    <3>1. A[0] \in Nat /\ free_space(l) = U - A[0] /\ U \in Int /\ X[0] = EntrySize(l, r.keys[1])
      BY <1>1, <1>2, <1>7, <2>3 DEF free_space, U, EntrySize
    <3>2. Len(r.keys) = J /\ J \in Nat
      BY <1>2 DEF J
    <3>3. J >= (IF is_leaf(l) THEN 2 ELSE 1) /\ A[0] + X[0] <= U
      BY <1>1, <1>9
    <3> QED BY <1>1, <2>3, <3>1, <3>2, <3>3, Giving, Zenon
  <2> QED BY <1>1, <2>4 DEF CanBorrowFromRight
<1>13. bulk_borrow_from_right(l, r, sep) = R(CHOOSE j \in 1 .. J : I(j))
  BY Zenon DEF bulk_borrow_from_right, n, J
<1>14. PICK c \in 1 .. J : bulk_borrow_from_right(l, r, sep) = R(c) /\ FirstStop(U, J, A, B, X, 2, c)
  <2>1. \A j \in 1 .. J : I(j) <=> FirstStop(U, J, A, B, X, 2, j)
    <3> SUFFICES ASSUME NEW j \in 1 .. J PROVE I(j) <=> FirstStop(U, J, A, B, X, 2, j)
      OBVIOUS
    <3>1. \A i \in 1 .. j - 1 : i \in 1 .. J
      BY <1>2
    <3> HIDE DEF D
    <3> QED BY <1>11, <3>1, Zenon DEF FirstStop
  <2> HIDE DEF I, R
  <2>2. PICK j \in 1 .. J : I(j)
    BY <1>9, <2>1, Zenon
  <2>3. PICK c \in 1 .. J : c = (CHOOSE i \in 1 .. J : I(i)) /\ I(c)
    BY <2>2
  <2> QED BY <1>13, <2>1, <2>3, Zenon
<1>15. Shared(R(c))
  <2>1. c \in 0 .. J /\ c < J /\ n + c > 0 /\ n + c < m /\ n + c \in 0 .. m
    BY <1>2, <1>9, <1>14
  <2>2. A[c] \in Nat /\ B[c] \in Nat /\ A[c] <= U /\ B[c] <= U
        /\ 2 * (A[c] + M) > U - M /\ 2 * (B[c] + M) > U - M
    BY <1>5, <1>9, <1>14, <2>1
  <2>3. ASSUME NEW h \in {R(c).left, R(c).right} PROVE free_space(h) >= 0 /\ NotTooEmpty(h)
    <3>1. IsLeafPage(h) /\ (entries_size(h) = A[c] \/ entries_size(h) = B[c])
      BY <1>10, <2>1, Zenon
    <3>2. free_space(h) = U - entries_size(h)
      BY <3>1 DEF free_space, IsLeafPage, U
    <3> QED BY <1>2, <2>2, <3>1, <3>2 DEF NotTooEmpty, U, M
  <2> QED BY <1>1, <2>1, <2>3, LeafCutBalanced DEF m, w
<1> QED BY <1>12, <1>14, <1>15, Zenon

LEMMA LeavesFromLeft ==
    ASSUME NEW l, NEW r, NEW sep, LeavesToBalance(l, r, sep), is_underfull(r)
    PROVE  /\ CanBorrowFromLeft([left |-> l, right |-> r, sep |-> sep])
           /\ Shared(bulk_borrow_from_left(l, r, sep))
<1> DEFINE w == JoinedRows(l, r)
           s == PrefixSize(w)
           n == Len(l.keys)
           m == Len(w.keys)
           J == Len(l.keys)
           U == LEAF_USABLE
           M == MAX_LEAF_ENTRY_SIZE
           A == [j \in 0 .. J |-> s[m] - s[n - j]]
           B == [j \in 0 .. J |-> s[n - j]]
           X == [j \in 0 .. J - 1 |-> RowSize[w.keys[n - j]]]
           R(j) == Redistributed(l, r, sep, n - j)
           D(j) == entries_size(R(j).right) >= entries_size(R(j).left) \/ ~CanBorrowFromLeft(R(j))
           I(j) == D(j) /\ \A i \in 1 .. j - 1 : ~D(i)
<1>1. /\ IsLeafPage(l) /\ IsLeafPage(r) /\ Increasing(l.keys \o r.keys)
      /\ is_leaf(l) /\ is_leaf(r) /\ ~is_internal(l) /\ ~is_internal(r)
  BY DEF LeavesToBalance, IsLeafPage, is_leaf, is_internal
<1>2. /\ n \in Nat /\ J = n /\ n <= m /\ m \in Nat
      /\ U \in Nat /\ U >= 28 /\ M \in Nat /\ M = U \div 4
      /\ entries_size(l) = s[n] /\ entries_size(r) = s[m] - s[n]
      /\ s[m] > U /\ s[n] <= U /\ s[m] - s[n] <= U
      /\ s[0] = 0 /\ \A i \in 0 .. m : s[i] \in Nat
      /\ \A i, j \in 0 .. m : i <= j => s[i] <= s[j]
      /\ \A i \in 1 .. m : /\ w.keys[i] \in Key /\ RowSize[w.keys[i]] \in Nat
                            /\ RowSize[w.keys[i]] <= M
                            /\ s[i] = s[i - 1] + RowSize[w.keys[i]]
  <2>1. SumFacts(JoinedRows(l, r), Len(l.keys), Len(r.keys), LEAF_USABLE, MAX_LEAF_ENTRY_SIZE)
    BY LeafSums
  <2>2. entries_size(l) = s[n] /\ entries_size(r) = s[m] - s[n]
    BY LeafSums, Zenon
  <2>3. n <= m
    <3> HIDE DEF n, m
    <3>1. n \in Nat /\ Len(r.keys) \in Nat /\ m = n + Len(r.keys)
      BY <2>1, Zenon DEF SumFacts, n, m
    <3> QED BY <3>1
  <2> QED BY <2>1, <2>2, <2>3, Zenon DEF SumFacts
<1>3. 2 * (s[m] - s[n]) < U
  <2>1. s[m] - s[n] < U \div 2
    BY <1>1, <1>2 DEF is_underfull, LEAF_UNDERFULL_BYTES
  <2>2. s[n] \in Nat /\ s[m] \in Nat
    <3>1. n \in 0 .. m /\ m \in 0 .. m
      <4> HIDE DEF n, m
      <4> QED BY <1>2
    <3> QED BY <1>2, <3>1
  <2> HIDE DEF s, n, m, U
  <2> QED BY <1>2, <2>1, <2>2
<1>4. ASSUME NEW j \in 0 .. J
      PROVE  n - j \in 0 .. m /\ (j < J => n - j \in 1 .. m)
  <2> HIDE DEF n, m, J
  <2> QED BY <1>2
<1>5. ASSUME NEW j \in 0 .. J
      PROVE  A[j] = s[m] - s[n - j] /\ B[j] = s[n - j] /\ A[j] \in Nat /\ B[j] \in Nat /\ B[j] <= B[0]
  <2>1. A[j] = s[m] - s[n - j] /\ B[j] = s[n - j]
    OBVIOUS
  <2>2. n - j \in 0 .. m /\ n \in 0 .. m /\ m \in 0 .. m /\ n - j <= n /\ n - j <= m
    <3> HIDE DEF n, m, J
    <3> QED BY <1>2
  <2>3. s[n - j] \in Nat /\ s[m] \in Nat /\ s[n - j] <= s[n] /\ s[n - j] <= s[m]
    <3> HIDE DEF n, m, J, s
    <3> QED BY <1>2, <2>2, Zenon
  <2>4. B[0] = s[n]
    <3>1. 0 \in 0 .. J /\ n - 0 = n
      <4> HIDE DEF n, J
      <4> QED BY <1>2
    <3> QED BY <3>1, Zenon
  <2> HIDE DEF A, B, s, n, m
  <2> QED BY <2>1, <2>3, <2>4
<1>6. ASSUME NEW j \in 0 .. J - 1
      PROVE  /\ X[j] = RowSize[w.keys[n - j]] /\ w.keys[n - j] \in Key
             /\ X[j] \in Nat /\ X[j] <= M /\ A[j + 1] = A[j] + X[j]
  <2>1. /\ j \in 0 .. J /\ j + 1 \in 0 .. J /\ j < J /\ n - (j + 1) = (n - j) - 1
        /\ n - j \in 1 .. m /\ n - j \in 0 .. m /\ (n - j) - 1 \in 0 .. m /\ m \in 0 .. m
    <3> HIDE DEF n, m, J
    <3> QED BY <1>2
  <2>2. X[j] = RowSize[w.keys[n - j]]
    OBVIOUS
  <2>3. A[j + 1] = s[m] - s[(n - j) - 1] /\ A[j] = s[m] - s[n - j]
    <3> HIDE DEF A, s, n, J
    <3>1. A[j + 1] = s[m] - s[n - (j + 1)]
      BY <1>5, <2>1, Zenon
    <3> QED BY <1>5, <2>1, <3>1, Zenon
  <2> HIDE DEF A, X, s, n, m, J, w, M
  <2>4. /\ w.keys[n - j] \in Key /\ RowSize[w.keys[n - j]] \in Nat /\ RowSize[w.keys[n - j]] <= M
        /\ s[n - j] = s[(n - j) - 1] + RowSize[w.keys[n - j]]
        /\ s[n - j] \in Nat /\ s[(n - j) - 1] \in Nat /\ s[m] \in Nat
    BY <1>2, <2>1, Zenon
  <2>5. A[j + 1] = A[j] + X[j]
    BY <2>2, <2>3, <2>4
  <2> QED BY <2>2, <2>4, <2>5, Zenon
<1>7. /\ A[0] = s[m] - s[n] /\ B[0] = s[n] /\ B[J] = 0 /\ (J >= 1 => B[J - 1] <= M)
      /\ s[n] \in Nat /\ s[m] \in Nat
  <2>1. /\ n - 0 = n /\ n - J = 0 /\ 0 \in 0 .. J /\ J \in 0 .. J /\ n \in 0 .. m /\ m \in 0 .. m
    <3> HIDE DEF n, m, J
    <3> QED BY <1>2
  <2> HIDE DEF n, m, J, s, A, B, w
  <2>2. A[0] = s[m] - s[n] /\ B[0] = s[n] /\ B[J] = 0 /\ s[m] \in Nat /\ s[n] \in Nat
    BY <1>2, <1>5, <2>1, Zenon
  <2>3. ASSUME J >= 1 PROVE B[J - 1] <= M
    <3>1. J - 1 \in 0 .. J /\ 1 \in 1 .. m /\ n - (J - 1) = 1 /\ 1 - 1 = 0
      BY <1>2, <2>3
    <3>2. B[J - 1] = s[1]
      BY <1>5, <3>1, Zenon
    <3>3. s[1] = 0 + RowSize[w.keys[1]] /\ RowSize[w.keys[1]] <= M /\ RowSize[w.keys[1]] \in Nat
      BY <1>2, <3>1, Zenon
    <3> HIDE DEF M
    <3> QED BY <1>2, <3>2, <3>3
  <2> QED BY <2>2, <2>3
<1>8. \A j \in 0 .. J - 1 : A[j] + B[j] + 0 = A[0] + B[0] + 0
  <2> SUFFICES ASSUME NEW j \in 0 .. J - 1 PROVE A[j] + B[j] + 0 = A[0] + B[0] + 0
    OBVIOUS
  <2>1. j \in 0 .. J /\ n - j \in 0 .. m
    <3> HIDE DEF n, m, J
    <3> QED BY <1>2
  <2> HIDE DEF n, m, J, s, A, B, w
  <2> QED BY <1>2, <1>5, <1>7, <2>1
<1> HIDE DEF n, m, J, s, A, B, X, w, U, M
<1>9. /\ J >= 2 /\ A[0] + X[0] <= U
      /\ \E j \in 1 .. J : FirstStop(U, J, A, B, X, 2, j)
      /\ \A j \in 1 .. J : FirstStop(U, J, A, B, X, 2, j) =>
           /\ j < J /\ A[j] <= U /\ B[j] <= U
           /\ 2 * (A[j] + M) > U - M /\ 2 * (B[j] + M) > U - M
  <2>1. \A j \in 0 .. J : A[j] \in Nat /\ B[j] \in Nat /\ B[j] <= B[0]
    BY <1>5
  <2>2. \A j \in 0 .. J - 1 :
               /\ X[j] \in Nat /\ X[j] <= M /\ A[j + 1] = A[j] + X[j]
               /\ A[j] + B[j] + 0 = A[0] + B[0] + 0
    BY <1>6, <1>8, Zenon
  <2>3. A[0] + B[0] + 0 > U /\ 2 * A[0] < U /\ B[0] <= U
    BY <1>2, <1>3, <1>7
  <2>4. 0 \in 0 .. M
    BY <1>2
  <2>5. PICK least \in {1, 2} : least = 2
    OBVIOUS
  <2>6. \A j \in 0 .. J - 1 :
               /\ X[j] \in Nat /\ X[j] <= M /\ A[j + 1] = A[j] + X[j]
               /\ A[j] + B[j] + (IF least = 1 THEN X[j] ELSE 0) = A[0] + B[0] + 0
    <3>1. least # 1
      BY <2>5
    <3> QED BY <2>2, <3>1, Zenon
  <2>7. 2 * A[0] < (IF least = 1 THEN U - M ELSE U)
    BY <2>3, <2>5
  <2>8. Moves(U, M, J, A, B, X, least, 0)
    BY <1>2, <1>7, <2>1, <2>3, <2>4, <2>6, <2>7, Zenon DEF Moves
  <2>9. Evens(U, M, J, A, B, X, least)
    BY <2>8, Balance
  <2> QED BY <2>5, <2>9, Zenon DEF Evens
<1>10. ASSUME NEW j \in 0 .. J
       PROVE  /\ IsLeafPage(R(j).left) /\ IsLeafPage(R(j).right)
              /\ entries_size(R(j).right) = A[j] /\ entries_size(R(j).left) = B[j]
              /\ Len(R(j).left.keys) = J - j
              /\ j < J => R(j).left.keys[J - j] = w.keys[n - j]
  <2> DEFINE p == R(j)
  <2>1. n - j \in 0 .. Len(JoinedRows(l, r).keys)
    BY <1>4 DEF m, w
  <2>2. /\ IsLeafPage(p.left) /\ IsLeafPage(p.right)
        /\ Len(p.left.keys) = n - j
        /\ entries_size(p.left) = s[n - j] /\ entries_size(p.right) = s[m] - s[n - j]
        /\ n - j > 0 => p.left.keys[n - j] = w.keys[n - j]
    <3>1. IsLeafPage(p.left) /\ IsLeafPage(p.right) /\ IsCut(p, JoinedRows(l, r), n - j)
      BY <1>1, <2>1, LeafCut, Zenon
    <3> QED BY <3>1, Zenon DEF IsCut, s, m, w
  <2>3. n - j = J - j /\ (j < J => n - j > 0)
    BY <1>2
  <2>4. entries_size(p.right) = A[j] /\ entries_size(p.left) = B[j]
    BY <1>5, <2>2, Zenon
  <2> HIDE DEF p
  <2>5. /\ IsLeafPage(p.left) /\ IsLeafPage(p.right)
        /\ entries_size(p.right) = A[j] /\ entries_size(p.left) = B[j]
        /\ Len(p.left.keys) = J - j
        /\ j < J => p.left.keys[J - j] = w.keys[n - j]
    BY <2>2, <2>3, <2>4, Zenon
  <2> QED BY <2>5, Zenon DEF p
<1>11. ASSUME NEW j \in 1 .. J
       PROVE  D(j) <=> Stops(U, J, A, B, X, 2, j)
  <2> DEFINE p == R(j)
  <2>1. j \in 0 .. J /\ J - j \in Nat
    BY <1>2
  <2>2. /\ IsLeafPage(p.left) /\ IsLeafPage(p.right)
        /\ entries_size(p.right) = A[j] /\ entries_size(p.left) = B[j]
        /\ Len(p.left.keys) = J - j
        /\ j < J => p.left.keys[J - j] = w.keys[n - j]
    BY <1>10, <2>1, Zenon
  <2> HIDE DEF p
  <2>3. is_leaf(p.left) /\ is_leaf(p.right)
    BY <2>2 DEF IsLeafPage
  <2>4. CanBorrowFromLeft(p) <=> J - j >= 2 /\ A[j] + X[j] <= U
    <3>1. CASE j < J
      <4>1. /\ j \in 0 .. J - 1 /\ A[j] \in Nat /\ w.keys[n - j] \in Key
            /\ X[j] = RowSize[w.keys[n - j]]
        <5>1. j \in 0 .. J - 1
          BY <1>2, <3>1
        <5> QED BY <1>5, <1>6, <2>1, <5>1, Zenon
      <4>2. free_space(p.right) = U - A[j]
        BY <2>2, <2>3 DEF free_space, U
      <4>3. X[j] = EntrySize(p.right, w.keys[n - j])
        BY <2>3, <4>1 DEF EntrySize
      <4>4. CanBorrow(p.right, p.left, w.keys[n - j])
              <=> (J - j >= (IF is_leaf(p.right) THEN 2 ELSE 1) /\ A[j] + X[j] <= U)
        <5>1. U \in Int
          BY <1>2
        <5> QED BY <2>1, <2>2, <2>3, <4>1, <4>2, <4>3, <5>1, Giving, Zenon
      <4> QED BY <2>2, <2>3, <3>1, <4>4, Zenon DEF CanBorrowFromLeft
    <3>2. CASE j = J
      <4>1. ~(J - j >= 2)
        BY <1>2, <3>2
      <4> QED BY <2>2, <2>3, <4>1, Zenon DEF CanBorrowFromLeft, CanBorrow
    <3> QED BY <1>2, <3>1, <3>2
  <2> QED BY <2>2, <2>4, Zenon DEF Stops, p
<1>12. CanBorrowFromLeft([left |-> l, right |-> r, sep |-> sep])
  <2>1. 0 \in 0 .. J - 1 /\ n \in 1 .. n /\ n - 0 = n
    BY <1>2, <1>9
  <2>2. l.keys[n] = w.keys[n]
    <3>1. LiesAt(0, l, w)
      BY <1>1, RowsOf DEF w
    <3>2. 0 + n = n
      BY <2>1
    <3> QED BY <2>1, <3>1, <3>2, Zenon DEF LiesAt, n
  <2>3. X[0] = RowSize[l.keys[n]] /\ l.keys[n] \in Key
    BY <1>6, <2>1, <2>2, Zenon
  <2>4. CanBorrow(r, l, l.keys[n])
    <3>1. A[0] \in Nat /\ free_space(r) = U - A[0] /\ U \in Int /\ X[0] = EntrySize(r, l.keys[n])
      <4>1. A[0] \in Nat
        <5>1. 0 \in 0 .. J
          BY <1>2
        <5> QED BY <1>5, <5>1, Zenon
      <4> QED BY <1>1, <1>2, <1>7, <2>3, <4>1 DEF free_space, U, EntrySize
    <3>2. Len(l.keys) = J /\ J \in Nat
      BY <1>2 DEF J
    <3>3. J >= (IF is_leaf(r) THEN 2 ELSE 1) /\ A[0] + X[0] <= U
      BY <1>1, <1>9
    <3> QED BY <1>1, <2>3, <3>1, <3>2, <3>3, Giving, Zenon
  <2> QED BY <1>1, <2>4 DEF CanBorrowFromLeft, n
<1>13. bulk_borrow_from_left(l, r, sep) = R(CHOOSE j \in 1 .. J : I(j))
  BY Zenon DEF bulk_borrow_from_left, n, J
<1>14. PICK c \in 1 .. J : bulk_borrow_from_left(l, r, sep) = R(c) /\ FirstStop(U, J, A, B, X, 2, c)
  <2>1. \A j \in 1 .. J : I(j) <=> FirstStop(U, J, A, B, X, 2, j)
    <3> SUFFICES ASSUME NEW j \in 1 .. J PROVE I(j) <=> FirstStop(U, J, A, B, X, 2, j)
      OBVIOUS
    <3>1. \A i \in 1 .. j - 1 : i \in 1 .. J
      BY <1>2
    <3> HIDE DEF D
    <3> QED BY <1>11, <3>1, Zenon DEF FirstStop
  <2> HIDE DEF I, R
  <2>2. PICK j \in 1 .. J : I(j)
    BY <1>9, <2>1, Zenon
  <2>3. PICK c \in 1 .. J : c = (CHOOSE i \in 1 .. J : I(i)) /\ I(c)
    BY <2>2
  <2> QED BY <1>13, <2>1, <2>3, Zenon
<1>15. Shared(R(c))
  <2>1. c \in 0 .. J /\ c < J /\ n - c > 0 /\ n - c < m /\ n - c \in 0 .. m
    BY <1>2, <1>9, <1>14
  <2>2. A[c] \in Nat /\ B[c] \in Nat /\ A[c] <= U /\ B[c] <= U
        /\ 2 * (A[c] + M) > U - M /\ 2 * (B[c] + M) > U - M
    BY <1>5, <1>9, <1>14, <2>1
  <2>3. ASSUME NEW h \in {R(c).left, R(c).right} PROVE free_space(h) >= 0 /\ NotTooEmpty(h)
    <3>1. IsLeafPage(h) /\ (entries_size(h) = A[c] \/ entries_size(h) = B[c])
      BY <1>10, <2>1, Zenon
    <3>2. free_space(h) = U - entries_size(h)
      BY <3>1 DEF free_space, IsLeafPage, U
    <3> QED BY <1>2, <2>2, <3>1, <3>2 DEF NotTooEmpty, U, M
  <2> QED BY <1>1, <2>1, <2>3, LeafCutBalanced DEF m, w
<1> QED BY <1>12, <1>14, <1>15, Zenon

(* delete comes to a borrow when a leaf is underfull and does not fit in one  *)
(* page with its neighbour.  The borrow is then never refused, whatever the   *)
(* sizes of the rows, and both leaves are readable and far enough from empty. *)
THEOREM UnderfullLeavesCanBorrow ==
    ASSUME NEW l, NEW r, NEW sep, LeavesToBalance(l, r, sep)
    PROVE  /\ is_underfull(l) => /\ CanBorrowFromRight([left |-> l, right |-> r, sep |-> sep])
                                 /\ Shared(bulk_borrow_from_right(l, r, sep))
           /\ is_underfull(r) => /\ CanBorrowFromLeft([left |-> l, right |-> r, sep |-> sep])
                                 /\ Shared(bulk_borrow_from_left(l, r, sep))
BY LeavesFromRight, LeavesFromLeft, Zenon
=============================================================================
