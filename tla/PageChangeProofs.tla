-------------------------- MODULE PageChangeProofs --------------------------
(* What the operations on pages leave behind: whatever rows and keys there    *)
(* are, inserting, removing, merging, borrowing, splitting and vacuum's bulk  *)
(* load turn pages that can be written into pages that can be written.        *)
(* And what a search finds on them and beside their separator, before and     *)
(* after.                                                                     *)
EXTENDS BulkLoad, PageProofs

(* A page as the tree has it, and the page numbers it refers to.              *)
GoodPage(pg) == (IsPage(pg) \/ IsFreePage(pg)) /\ check_invariants(pg)
Links(pg) ==
    IF is_internal(pg) THEN {pg.children[i] : i \in DOMAIN pg.children}
    ELSE (IF is_leaf(pg) THEN {pg.next, pg.prev} ELSE {pg.next}) \ {Nil}

-----------------------------------------------------------------------------
(* Places.                                                                    *)

LEMMA KeysAreNumbers ==
    ASSUME NEW keys \in Seq(Key)
    PROVE  Len(keys) \in Nat /\ \A i \in 1 .. Len(keys) : keys[i] \in Key /\ keys[i] \in Nat
<1>1. \A i \in 1 .. Len(keys) : keys[i] \in Key
  BY ElementOfSeq
<1>2. \A k \in Key : k \in Nat
  BY SizeAssumption, Zenon
<1>3. Len(keys) \in Nat
  OBVIOUS
<1> QED
  BY <1>1, <1>2, <1>3, Zenon

(* A search ends at one place, sorted or not.                                 *)
LEMMA BelowIsPlace ==
    ASSUME NEW keys \in Seq(Key), NEW k \in Key
    PROVE  LET n == Below(keys, k)
           IN /\ n \in 0 .. Len(keys)
              /\ n > 0 => keys[n] < k
              /\ n < Len(keys) => k <= keys[n + 1]
<1> DEFINE T == {i \in 0 .. Len(keys) : i < Len(keys) => k <= keys[i + 1]}
           IsPlace(n) == (n > 0 => keys[n] < k) /\ (n < Len(keys) => k <= keys[n + 1])
<1>1. Len(keys) \in Nat /\ \A i \in 1 .. Len(keys) : keys[i] \in Nat
  BY KeysAreNumbers
<1>2. T \in SUBSET Nat /\ Len(keys) \in T
  BY <1>1
<1>3. PICK n \in T : \A m \in T : n <= m
  BY <1>2, LeastNumber
<1>4. ASSUME n > 0 PROVE keys[n] < k
  <2>1. n - 1 \in 0 .. Len(keys) /\ ~(n <= n - 1) /\ n - 1 < Len(keys) /\ n \in 1 .. Len(keys)
    BY <1>1, <1>3, <1>4
  <2>2. ~(k <= keys[(n - 1) + 1])
    BY <1>3, <2>1
  <2> QED
    BY <1>1, <2>1, <2>2, SizeAssumption
<1>5. n \in 0 .. Len(keys) /\ IsPlace(n)
  BY <1>3, <1>4
<1>6. Below(keys, k) = CHOOSE i \in 0 .. Len(keys) : IsPlace(i)
  BY DEF Below
<1>7. LET c == CHOOSE i \in 0 .. Len(keys) : IsPlace(i)
      IN c \in 0 .. Len(keys) /\ IsPlace(c)
  <2> HIDE DEF IsPlace
  <2> QED
    BY <1>5, Zenon
<1> QED
  BY <1>6, <1>7

(* On sorted keys it is the only one: k is there exactly when it comes next.  *)
LEMMA PlaceOfKey ==
    ASSUME NEW pg, Holds(pg), Increasing(pg.keys), NEW k \in Key
    PROVE  LET n == Below(pg.keys, k)
           IN /\ HasKey(pg, k) <=> n < Len(pg.keys) /\ pg.keys[n + 1] = k
              /\ \A i \in 1 .. n : pg.keys[i] < k
              /\ \A i \in n + 1 .. Len(pg.keys) : k <= pg.keys[i]
<1> DEFINE n == Below(pg.keys, k)
           m == Len(pg.keys)
<1>1. /\ pg.keys \in Seq(Key) /\ m \in Nat /\ \A i \in 1 .. m : pg.keys[i] \in Nat
      /\ k \in Nat
  BY KeysAreNumbers, SizeAssumption DEF Holds
<1>2. n \in 0 .. m /\ (n > 0 => pg.keys[n] < k) /\ (n < m => k <= pg.keys[n + 1])
  BY <1>1, BelowIsPlace
<1>3. \A i, j \in 1 .. m : i < j => pg.keys[i] < pg.keys[j]
  BY <1>1, SortedPair
<1> HIDE DEF n
<1>4. \A i \in 1 .. n : pg.keys[i] < k
  BY <1>1, <1>2, <1>3
<1>5. \A i \in n + 1 .. m : k <= pg.keys[i]
  <2> SUFFICES ASSUME NEW i \in n + 1 .. m PROVE k <= pg.keys[i]
    OBVIOUS
  <2>1. n + 1 \in 1 .. m /\ i \in 1 .. m /\ n < m
    BY <1>1, <1>2
  <2>2. CASE i = n + 1
    BY <1>2, <2>1, <2>2
  <2>3. CASE n + 1 < i
    <3>1. pg.keys[n + 1] < pg.keys[i]
      BY <1>3, <2>1, <2>3
    <3> QED
      BY <1>1, <1>2, <2>1, <3>1
  <2> QED
    BY <1>2, <2>1, <2>2, <2>3
<1>6. HasKey(pg, k) <=> \E i \in 1 .. m : k = pg.keys[i]
  BY KeysOf, Zenon DEF HasKey
<1>7. HasKey(pg, k) <=> n < m /\ pg.keys[n + 1] = k
  <2>1. ASSUME NEW i \in 1 .. m, k = pg.keys[i] PROVE n < m /\ pg.keys[n + 1] = k
    <3>1. i \notin 1 .. n
      BY <1>1, <1>4, <2>1
    <3>2. n + 1 \in 1 .. m /\ n < m /\ i >= n + 1
      BY <1>1, <1>2, <3>1
    <3>3. ~(n + 1 < i)
      BY <1>1, <1>2, <1>3, <2>1, <3>2
    <3> QED
      BY <1>2, <2>1, <3>2, <3>3
  <2>2. n < m => n + 1 \in 1 .. m
    BY <1>1, <1>2
  <2> QED
    BY <1>6, <2>1, <2>2
<1> QED
  BY <1>4, <1>5, <1>7 DEF n

-----------------------------------------------------------------------------
(* Sequences put together.                                                    *)

(* w is a followed by b; s up to n and after d; the same with x in between.   *)
IsJoin(S, a, b, w) ==
    /\ w \in Seq(S) /\ Len(w) = Len(a) + Len(b)
    /\ Len(a) \in Nat /\ Len(b) \in Nat
    /\ \A i \in 1 .. Len(a) : w[i] = a[i]
    /\ \A i \in 1 .. Len(b) : w[Len(a) + i] = b[i]
IsLeftOut(S, s, n, d, w) ==
    /\ w \in Seq(S) /\ Len(w) = n + (Len(s) - d)
    /\ \A i \in 1 .. n : w[i] = s[i]
    /\ \A i \in 1 .. Len(s) - d : w[n + i] = s[d + i]
IsPutIn(S, s, n, x, d, w) ==
    /\ w \in Seq(S) /\ Len(w) = n + 1 + (Len(s) - d)
    /\ \A i \in 1 .. n : w[i] = s[i]
    /\ w[n + 1] = x
    /\ \A i \in 1 .. Len(s) - d : w[n + 1 + i] = s[d + i]

LEMMA JoinedAs ==
    ASSUME NEW S, NEW a \in Seq(S), NEW b \in Seq(S)
    PROVE  IsJoin(S, a, b, a \o b)
BY Joined DEF IsJoin

LEMMA LeftOut ==
    ASSUME NEW S, NEW s \in Seq(S), NEW n \in 0 .. Len(s), NEW d \in 0 .. Len(s)
    PROVE  IsLeftOut(S, s, n, d, Upto(n, s) \o After(d, s))
<1> DEFINE u == Upto(n, s)
           v == After(d, s)
           w == u \o v
<1>1. u \in Seq(S) /\ Len(u) = n /\ \A i \in 1 .. n : u[i] = s[i]
  BY Parts, ZenonT(30)
<1>2. v \in Seq(S) /\ Len(v) = Len(s) - d /\ \A i \in 1 .. Len(s) - d : v[i] = s[d + i]
  BY Parts, ZenonT(30)
<1> HIDE DEF u, v
<1>3. IsJoin(S, u, v, w)
  BY <1>1, <1>2, JoinedAs
<1> HIDE DEF w
<1>4. IsLeftOut(S, s, n, d, w)
  BY <1>1, <1>2, <1>3 DEF IsJoin, IsLeftOut
<1> QED
  BY <1>4, Zenon DEF u, v, w

LEMMA PutIn ==
    ASSUME NEW S, NEW s \in Seq(S), NEW x \in S, NEW n \in 0 .. Len(s), NEW d \in 0 .. Len(s)
    PROVE  IsPutIn(S, s, n, x, d, Upto(n, s) \o <<x>> \o After(d, s))
<1> DEFINE u == Upto(n, s)
           v == After(d, s)
           one == <<x>>
           ux == u \o one
           w == ux \o v
<1>0. n \in Nat /\ Len(s) \in Nat /\ d \in Nat /\ Len(s) - d \in Nat
  OBVIOUS
<1>1. u \in Seq(S) /\ Len(u) = n /\ \A i \in 1 .. n : u[i] = s[i]
  BY Parts, ZenonT(30)
<1>2. v \in Seq(S) /\ Len(v) = Len(s) - d /\ \A i \in 1 .. Len(s) - d : v[i] = s[d + i]
  BY Parts, ZenonT(30)
<1>3. one \in Seq(S) /\ Len(one) = 1 /\ one[1] = x /\ 1 \in 1 .. 1
  OBVIOUS
<1> HIDE DEF u, v, one
<1>4. IsJoin(S, u, one, ux)
  BY <1>1, <1>3, JoinedAs
<1> HIDE DEF ux
<1>5. /\ ux \in Seq(S) /\ Len(ux) = n + 1
      /\ \A i \in 1 .. n : ux[i] = s[i]
      /\ ux[n + 1] = x
  BY <1>1, <1>3, <1>4, Zenon DEF IsJoin
<1>6. IsJoin(S, ux, v, w)
  BY <1>2, <1>5, JoinedAs
<1> HIDE DEF w
<1>7. /\ \A i \in 1 .. n : i \in 1 .. n + 1
      /\ n + 1 \in 1 .. n + 1
  BY <1>0
<1>8. /\ w \in Seq(S) /\ Len(w) = n + 1 + Len(v)
      /\ \A i \in 1 .. n + 1 : w[i] = ux[i]
      /\ \A i \in 1 .. Len(v) : w[n + 1 + i] = v[i]
  BY <1>5, <1>6, Zenon DEF IsJoin
<1>9. IsPutIn(S, s, n, x, d, w)
  BY <1>2, <1>5, <1>7, <1>8, Zenon DEF IsPutIn
<1> QED
  BY <1>9, Zenon DEF u, v, one, ux, w

(* A place among m keys, from both sides.                                     *)
LEMMA PlaceNumbers ==
    ASSUME NEW m \in Nat, NEW n \in 0 .. m
    PROVE  /\ n \in Nat /\ m - n \in Nat /\ n + (m - n) <= m /\ n + (m - n) <= m + 1
           /\ m - (m - n) = n /\ (m + 1) - (m - n) = n + 1 /\ n + 1 + (m - n) = m + 1
           /\ n + 1 \in 1 .. m + 1 /\ (n + 1) - 1 = n /\ m + 1 \in Nat
           /\ n + 1 \in 0 .. m + 1
           /\ (n + 1) + 1 + ((m + 1) - (n + 1)) = (n + 1 + (m - n)) + 1
OBVIOUS

(* The keys of a page once k is inserted.                                     *)
LEMMA WithKeyIs ==
    ASSUME NEW pg, Holds(pg), NEW k \in Key
    PROVE  LET n == Below(pg.keys, k)
           IN /\ n \in 0 .. Len(pg.keys) /\ Len(pg.keys) \in Nat
              /\ IsPutIn(Key, pg.keys, n, k, n, WithKey(pg, k))
<1> DEFINE n == Below(pg.keys, k)
<1>1. pg.keys \in Seq(Key) /\ Len(pg.keys) \in Nat
  BY DEF Holds
<1>2. n \in 0 .. Len(pg.keys)
  BY <1>1, BelowIsPlace
<1>3. WithKey(pg, k) = Upto(n, pg.keys) \o <<k>> \o After(n, pg.keys)
  BY DEF WithKey
<1> HIDE DEF n
<1>4. IsPutIn(Key, pg.keys, n, k, n, WithKey(pg, k))
  BY <1>1, <1>2, <1>3, PutIn
<1> QED
  BY <1>1, <1>2, <1>4 DEF n

-----------------------------------------------------------------------------
(* Sizes.                                                                     *)

(* What the keys s take on a page of pg's kind.                               *)
Like(pg, s) == [kind |-> pg.kind, keys |-> s]
Bytes(pg, s) == entries_size(Like(pg, s))

LEMMA LikeHolds ==
    ASSUME NEW pg, is_leaf(pg) \/ is_internal(pg), NEW s \in Seq(Key)
    PROVE  /\ Holds(Like(pg, s)) /\ Like(pg, s).keys = s
           /\ is_leaf(Like(pg, s)) <=> is_leaf(pg)
           /\ Len(s) \in Nat /\ Bytes(pg, s) \in Nat
           /\ Bytes(pg, s) = PrefixSize(Like(pg, s))[Len(s)]
<1>1. /\ Holds(Like(pg, s)) /\ Like(pg, s).keys = s
      /\ is_leaf(Like(pg, s)) <=> is_leaf(pg)
  BY DEF Like, Holds, is_leaf, is_internal
<1> QED
  BY <1>1, FreeSpace DEF Bytes

LEMMA BytesOf ==
    ASSUME NEW pg, Holds(pg), NEW q, Holds(q), is_leaf(q) <=> is_leaf(pg)
    PROVE  entries_size(q) = Bytes(pg, q.keys)
<1> DEFINE p == Like(pg, q.keys)
<1>1. /\ q.keys \in Seq(Key) /\ Len(q.keys) \in Nat
      /\ Holds(p) /\ p.keys = q.keys /\ (is_leaf(p) <=> is_leaf(pg))
  BY LikeHolds DEF Holds
<1> HIDE DEF p
<1>2. LiesAt(0, p, q)
  BY <1>1 DEF LiesAt
<1>3. entries_size(p) = PrefixSize(q)[0 + Len(q.keys)] - PrefixSize(q)[0]
  BY <1>1, <1>2, PartSize
<1>4. PrefixSize(q)[0] = 0 /\ PrefixSize(q)[Len(q.keys)] \in Nat
  BY <1>1, PrefixSums
<1>5. entries_size(q) = PrefixSize(q)[Len(q.keys)]
  BY FreeSpace
<1> QED
  BY <1>1, <1>3, <1>4, <1>5 DEF p, Bytes

LEMMA BytesOfOne ==
    ASSUME NEW pg, is_leaf(pg) \/ is_internal(pg), NEW k \in Key
    PROVE  Bytes(pg, <<k>>) = EntrySize(pg, k)
<1> DEFINE p == Like(pg, <<k>>)
<1>1. /\ <<k>> \in Seq(Key) /\ Len(<<k>>) = 1 /\ <<k>>[1] = k
      /\ 1 \in 1 .. 1 /\ 1 - 1 = 0
  OBVIOUS
<1>2. /\ Holds(p) /\ p.keys = <<k>> /\ (is_leaf(p) <=> is_leaf(pg))
      /\ Bytes(pg, <<k>>) = PrefixSize(p)[Len(<<k>>)]
  BY <1>1, LikeHolds
<1> HIDE DEF p
<1>3. PrefixSize(p)[1] = PrefixSize(p)[1 - 1] + EntrySize(p, p.keys[1])
  BY <1>1, <1>2, SumStep
<1>4. PrefixSize(p)[0] = 0
  BY <1>2, PrefixSums
<1>5. EntrySize(p, k) = EntrySize(pg, k) /\ EntrySize(p, k) \in Nat
  <2>1. EntrySize(p, p.keys[1]) \in Nat
    BY <1>1, <1>2, EntryBounds
  <2> QED
    BY <1>1, <1>2, <2>1 DEF EntrySize
<1> QED
  BY <1>1, <1>2, <1>3, <1>4, <1>5

LEMMA BytesAdd ==
    ASSUME NEW pg, is_leaf(pg) \/ is_internal(pg), NEW a \in Seq(Key), NEW b \in Seq(Key)
    PROVE  Bytes(pg, a \o b) = Bytes(pg, a) + Bytes(pg, b)
<1> DEFINE w == Like(pg, a \o b)
           p == Like(pg, a)
           q == Like(pg, b)
           ab == a \o b
<1>1. IsJoin(Key, a, b, ab)
  BY JoinedAs
<1> HIDE DEF ab
<1>2. /\ ab \in Seq(Key) /\ Len(ab) = Len(a) + Len(b) /\ Len(a) \in Nat /\ Len(b) \in Nat
  BY <1>1 DEF IsJoin
<1>3. /\ Holds(p) /\ p.keys = a /\ (is_leaf(p) <=> is_leaf(pg))
      /\ Holds(q) /\ q.keys = b /\ (is_leaf(q) <=> is_leaf(pg))
  BY LikeHolds
<1>4. Holds(w) /\ w.keys = ab /\ (is_leaf(w) <=> is_leaf(pg))
  BY <1>2, LikeHolds DEF ab
<1> HIDE DEF w, p, q
<1>5. LiesAt(0, p, w) /\ LiesAt(Len(a), q, w)
  <2>1. \A i \in 1 .. Len(p.keys) : p.keys[i] = w.keys[0 + i]
    BY <1>1, <1>3, <1>4 DEF IsJoin
  <2>2. \A i \in 1 .. Len(q.keys) : q.keys[i] = w.keys[Len(a) + i]
    BY <1>1, <1>3, <1>4 DEF IsJoin
  <2>3. 0 + Len(p.keys) <= Len(w.keys) /\ Len(a) + Len(q.keys) <= Len(w.keys)
    BY <1>2, <1>3, <1>4
  <2> QED
    BY <1>2, <1>3, <1>4, <2>1, <2>2, <2>3 DEF LiesAt
<1>6. /\ entries_size(p) = PrefixSize(w)[0 + Len(p.keys)] - PrefixSize(w)[0]
      /\ entries_size(q) = PrefixSize(w)[Len(a) + Len(q.keys)] - PrefixSize(w)[Len(a)]
  BY <1>5, PartSize
<1>7. /\ PrefixSize(w)[0] = 0 /\ PrefixSize(w)[Len(a)] \in Nat
      /\ PrefixSize(w)[Len(ab)] \in Nat /\ entries_size(w) = PrefixSize(w)[Len(ab)]
  <2>1. Len(a) \in 0 .. Len(w.keys) /\ Len(ab) \in 0 .. Len(w.keys)
    BY <1>2, <1>4
  <2> QED
    BY <1>4, <2>1, PrefixSums, FreeSpace
<1>8. entries_size(w) = entries_size(p) + entries_size(q)
  BY <1>2, <1>3, <1>6, <1>7
<1> QED
  BY <1>8 DEF w, p, q, Bytes

(* The parts before and after an entry, and the entry.                        *)
LEMMA BytesCut ==
    ASSUME NEW pg, is_leaf(pg) \/ is_internal(pg), NEW s \in Seq(Key), NEW n \in 0 .. Len(s)
    PROVE  /\ Bytes(pg, s) = Bytes(pg, Upto(n, s)) + Bytes(pg, After(n, s))
           /\ n < Len(s) => /\ Bytes(pg, Upto(n + 1, s)) = Bytes(pg, Upto(n, s)) + EntrySize(pg, s[n + 1])
                            /\ Bytes(pg, After(n, s)) = EntrySize(pg, s[n + 1]) + Bytes(pg, After(n + 1, s))
           /\ Bytes(pg, Upto(n, s)) \in Nat /\ Bytes(pg, After(n, s)) \in Nat /\ Bytes(pg, s) \in Nat
<1> DEFINE w == Like(pg, s)
<1>1. /\ Holds(w) /\ w.keys = s /\ (is_leaf(w) <=> is_leaf(pg))
      /\ Bytes(pg, s) = PrefixSize(w)[Len(s)]
      /\ Len(s) \in Nat /\ Bytes(pg, s) \in Nat
  BY LikeHolds
<1> HIDE DEF w
<1>2. ASSUME NEW j \in 0 .. Len(s)
      PROVE  /\ Bytes(pg, Upto(j, s)) = PrefixSize(w)[j] /\ PrefixSize(w)[j] \in Nat
             /\ Bytes(pg, After(j, s)) = PrefixSize(w)[Len(s)] - PrefixSize(w)[j]
             /\ Bytes(pg, After(j, s)) \in Nat
  <2>1. Upto(j, s) \in Seq(Key) /\ After(j, s) \in Seq(Key)
    BY Parts, ZenonT(30)
  <2> DEFINE u == Like(pg, Upto(j, s))
             v == Like(pg, After(j, s))
  <2>2. /\ Holds(u) /\ u.keys = Upto(j, s) /\ (is_leaf(u) <=> is_leaf(pg))
        /\ Holds(v) /\ v.keys = After(j, s) /\ (is_leaf(v) <=> is_leaf(pg))
        /\ Bytes(pg, After(j, s)) \in Nat
    BY <2>1, LikeHolds
  <2> HIDE DEF u, v
  <2>3. entries_size(u) = PrefixSize(w)[j] /\ PrefixSize(w)[j] \in Nat
    BY <1>1, <2>2, UptoSize, PrefixSums
  <2>4. entries_size(v) = PrefixSize(w)[Len(s)] - PrefixSize(w)[j]
    BY <1>1, <2>2, AfterSize
  <2> QED
    BY <2>2, <2>3, <2>4 DEF u, v, Bytes
<1>3. n < Len(s) => PrefixSize(w)[n + 1] = PrefixSize(w)[n] + EntrySize(pg, s[n + 1])
  <2> SUFFICES ASSUME n < Len(s)
               PROVE  PrefixSize(w)[n + 1] = PrefixSize(w)[n] + EntrySize(pg, s[n + 1])
    OBVIOUS
  <2>1. n + 1 \in 1 .. Len(w.keys) /\ (n + 1) - 1 = n
    BY <1>1
  <2>2. PrefixSize(w)[n + 1] = PrefixSize(w)[(n + 1) - 1] + EntrySize(w, w.keys[n + 1])
    BY <1>1, <2>1, SumStep
  <2> QED
    BY <1>1, <2>1, <2>2 DEF EntrySize
<1>4. n < Len(s) => EntrySize(pg, s[n + 1]) \in Nat /\ n + 1 \in 0 .. Len(s)
  <2> SUFFICES ASSUME n < Len(s) PROVE EntrySize(pg, s[n + 1]) \in Nat /\ n + 1 \in 0 .. Len(s)
    OBVIOUS
  <2>1. n + 1 \in 1 .. Len(w.keys) /\ n + 1 \in 0 .. Len(s)
    BY <1>1
  <2>2. EntrySize(w, w.keys[n + 1]) \in Nat
    BY <1>1, <2>1, EntryBounds
  <2> QED
    BY <1>1, <2>1, <2>2 DEF EntrySize
<1>5. Len(s) \in 0 .. Len(s)
  BY <1>1
<1>6. /\ Bytes(pg, Upto(n, s)) = PrefixSize(w)[n] /\ PrefixSize(w)[n] \in Nat
      /\ Bytes(pg, After(n, s)) = PrefixSize(w)[Len(s)] - PrefixSize(w)[n]
      /\ Bytes(pg, Upto(n, s)) \in Nat /\ Bytes(pg, After(n, s)) \in Nat
      /\ PrefixSize(w)[Len(s)] \in Nat
  BY <1>2, <1>5
<1>7. n < Len(s) => /\ Bytes(pg, Upto(n + 1, s)) = PrefixSize(w)[n + 1] /\ PrefixSize(w)[n + 1] \in Nat
                    /\ Bytes(pg, After(n + 1, s)) = PrefixSize(w)[Len(s)] - PrefixSize(w)[n + 1]
  BY <1>2, <1>4
<1> QED
  BY <1>1, <1>3, <1>4, <1>6, <1>7

LEMMA WithKeySize ==
    ASSUME NEW pg, Holds(pg), NEW k \in Key
    PROVE  Bytes(pg, WithKey(pg, k)) = Bytes(pg, pg.keys) + EntrySize(pg, k)
<1> DEFINE n == Below(pg.keys, k)
           u == Upto(n, pg.keys)
           v == After(n, pg.keys)
<1>1. /\ pg.keys \in Seq(Key) /\ (is_leaf(pg) \/ is_internal(pg))
      /\ n \in 0 .. Len(pg.keys) /\ <<k>> \in Seq(Key)
  BY WithKeyIs DEF Holds
<1> HIDE DEF n
<1>2. u \in Seq(Key) /\ v \in Seq(Key) /\ u \o <<k>> \in Seq(Key)
  BY <1>1, Parts, ConcatProperties, Zenon
<1>3. Bytes(pg, pg.keys) = Bytes(pg, u) + Bytes(pg, v) /\ Bytes(pg, u) \in Nat /\ Bytes(pg, v) \in Nat
  BY <1>1, BytesCut
<1> HIDE DEF u, v
<1>4. Bytes(pg, u \o <<k>> \o v) = Bytes(pg, u) + EntrySize(pg, k) + Bytes(pg, v)
  <2>1. Bytes(pg, (u \o <<k>>) \o v) = Bytes(pg, u \o <<k>>) + Bytes(pg, v)
    BY <1>1, <1>2, BytesAdd, Zenon
  <2>2. Bytes(pg, u \o <<k>>) = Bytes(pg, u) + Bytes(pg, <<k>>)
    BY <1>1, <1>2, BytesAdd, Zenon
  <2>3. Bytes(pg, <<k>>) = EntrySize(pg, k)
    BY <1>1, BytesOfOne
  <2> QED
    BY <2>1, <2>2, <2>3
<1>5. EntrySize(pg, k) \in Nat
  BY <1>1, BytesOfOne, LikeHolds
<1>6. WithKey(pg, k) = u \o <<k>> \o v
  BY DEF WithKey, u, v, n
<1> QED
  BY <1>3, <1>4, <1>5, <1>6

-----------------------------------------------------------------------------
(* Order.                                                                     *)

LEMMA PartsIncrease ==
    ASSUME NEW s \in Seq(Key), Increasing(s), NEW n \in 0 .. Len(s)
    PROVE  Increasing(Upto(n, s)) /\ Increasing(After(n, s))
<1> DEFINE u == Upto(n, s)
           v == After(n, s)
<1>1. Len(s) \in Nat /\ \A i \in 1 .. Len(s) - 1 : s[i] < s[i + 1]
  BY DEF Increasing
<1>2. Len(u) = n /\ \A i \in 1 .. n : u[i] = s[i]
  BY Parts, ZenonT(30)
<1>3. Len(v) = Len(s) - n /\ \A i \in 1 .. Len(s) - n : v[i] = s[n + i]
  BY Parts, ZenonT(30)
<1> HIDE DEF u, v
<1>4. ASSUME NEW i \in 1 .. n - 1 PROVE u[i] < u[i + 1]
  <2>1. i \in 1 .. n /\ i + 1 \in 1 .. n /\ i \in 1 .. Len(s) - 1
    BY <1>1
  <2> QED
    BY <1>1, <1>2, <2>1
<1>5. ASSUME NEW i \in 1 .. (Len(s) - n) - 1 PROVE v[i] < v[i + 1]
  <2>1. /\ i \in 1 .. Len(s) - n /\ i + 1 \in 1 .. Len(s) - n /\ n + i \in 1 .. Len(s) - 1
        /\ n + (i + 1) = (n + i) + 1
    BY <1>1
  <2>2. v[i] = s[n + i] /\ v[i + 1] = s[(n + i) + 1]
    BY <1>3, <2>1
  <2> QED
    BY <1>1, <2>1, <2>2
<1>6. Increasing(u)
  BY <1>2, <1>4 DEF Increasing
<1>7. Increasing(v)
  BY <1>3, <1>5 DEF Increasing
<1> QED
  BY <1>6, <1>7 DEF u, v

LEMMA JoinIncreases ==
    ASSUME NEW a \in Seq(Key), NEW b \in Seq(Key), Increasing(a), Increasing(b), Ascends(a, b)
    PROVE  Increasing(a \o b)
<1> DEFINE w == a \o b
           m == Len(a)
           n == Len(b)
<1>1. /\ IsJoin(Key, a, b, w)
  BY JoinedAs
<1> HIDE DEF w
<1>2. /\ Len(w) = m + n /\ m \in Nat /\ n \in Nat
      /\ \A i \in 1 .. m : w[i] = a[i]
      /\ \A i \in 1 .. n : w[m + i] = b[i]
  BY <1>1 DEF IsJoin
<1>3. m > 0 /\ n > 0 => a[m] < b[1]
  BY DEF Ascends
<1>4. /\ \A i \in 1 .. m - 1 : a[i] < a[i + 1]
      /\ \A i \in 1 .. n - 1 : b[i] < b[i + 1]
  BY DEF Increasing
<1> HIDE DEF m, n
<1>5. ASSUME NEW i \in 1 .. (m + n) - 1 PROVE w[i] < w[i + 1]
  <2>1. CASE i < m
    <3>1. i \in 1 .. m /\ i + 1 \in 1 .. m /\ i \in 1 .. m - 1
      BY <1>2, <2>1
    <3> QED
      BY <1>2, <1>4, <3>1
  <2>2. CASE i = m
    <3>1. i \in 1 .. m /\ 1 \in 1 .. n /\ m > 0 /\ n > 0
      BY <1>2, <2>2
    <3> QED
      BY <1>2, <1>3, <2>2, <3>1
  <2>3. CASE i > m
    <3> DEFINE j == i - m
    <3>1. j \in 1 .. n - 1 /\ j \in 1 .. n /\ j + 1 \in 1 .. n /\ m + j = i /\ m + (j + 1) = i + 1
      BY <1>2, <2>3
    <3> HIDE DEF j
    <3>2. w[i] = b[j] /\ w[i + 1] = b[j + 1] /\ b[j] < b[j + 1]
      BY <1>2, <1>4, <3>1
    <3> QED
      BY <3>2
  <2> QED
    BY <1>2, <2>1, <2>2, <2>3
<1>6. Increasing(w)
  BY <1>2, <1>5 DEF Increasing
<1> QED
  BY <1>6 DEF w

LEMMA OneIncreases ==
    ASSUME NEW k
    PROVE  Increasing(<<k>>) /\ Len(<<k>>) = 1 /\ <<k>>[1] = k
BY DEF Increasing

LEMMA WithKeyIncreases ==
    ASSUME NEW pg, Holds(pg), Increasing(pg.keys), NEW k \in Key, ~HasKey(pg, k)
    PROVE  Increasing(WithKey(pg, k))
<1> DEFINE n == Below(pg.keys, k)
           u == Upto(n, pg.keys)
           v == After(n, pg.keys)
           uk == u \o <<k>>
<1>1. /\ pg.keys \in Seq(Key) /\ Len(pg.keys) \in Nat
      /\ n \in 0 .. Len(pg.keys) /\ <<k>> \in Seq(Key) /\ k \in Nat
  BY WithKeyIs, SizeAssumption DEF Holds
<1>2. /\ n > 0 => pg.keys[n] < k
      /\ n < Len(pg.keys) => k <= pg.keys[n + 1] /\ pg.keys[n + 1] # k
  BY <1>1, BelowIsPlace, PlaceOfKey
<1>3. n < Len(pg.keys) => k < pg.keys[n + 1]
  <2>1. n < Len(pg.keys) => pg.keys[n + 1] \in Nat
    BY <1>1, KeysAreNumbers
  <2> QED
    BY <1>1, <1>2, <2>1
<1> HIDE DEF n
<1>p. pg.keys \in Seq(Key) /\ n \in 0 .. Len(pg.keys)
  BY <1>1
<1>4. /\ u \in Seq(Key) /\ Len(u) = n /\ \A i \in 1 .. n : u[i] = pg.keys[i]
  BY <1>p, Parts, ZenonT(30)
<1>5. /\ v \in Seq(Key) /\ Len(v) = Len(pg.keys) - n
      /\ \A i \in 1 .. Len(pg.keys) - n : v[i] = pg.keys[n + i]
  BY <1>p, Parts, ZenonT(30)
<1>6. Increasing(u) /\ Increasing(v)
  BY <1>1, PartsIncrease
<1> HIDE DEF u, v
<1>7. Ascends(u, <<k>>)
  <2>1. u # <<>> => n \in 1 .. n /\ n > 0
    BY <1>1, <1>4, EmptySeq
  <2> QED
    BY <1>2, <1>4, <2>1, OneIncreases DEF Ascends
<1>8. IsJoin(Key, u, <<k>>, uk)
  BY <1>1, <1>4, JoinedAs
<1>9. Increasing(uk) /\ uk \in Seq(Key)
  <2>1. Increasing(<<k>>)
    BY OneIncreases
  <2>2. Increasing(uk)
    BY <1>1, <1>4, <1>6, <1>7, <2>1, JoinIncreases, Zenon
  <2> QED
    BY <1>8, <2>2 DEF IsJoin
<1> HIDE DEF uk
<1>10. Ascends(uk, v)
  <2>1. Len(uk) = n + 1 /\ uk[n + 1] = k
    <3>1. 1 \in 1 .. Len(<<k>>)
      BY OneIncreases
    <3> QED
      BY <1>4, <1>8, <3>1, OneIncreases, Zenon DEF IsJoin
  <2>2. v # <<>> => n < Len(pg.keys) /\ v[1] = pg.keys[n + 1]
    <3>1. ASSUME v # <<>> PROVE n < Len(pg.keys) /\ 1 \in 1 .. Len(pg.keys) - n
      BY <1>1, <1>5, <3>1, EmptySeq
    <3> QED
      BY <1>5, <3>1
  <2> QED
    BY <1>3, <2>1, <2>2 DEF Ascends
<1>11. Increasing(uk \o v)
  BY <1>5, <1>6, <1>9, <1>10, JoinIncreases
<1> QED
  BY <1>11 DEF WithKey, uk, u, v, n

-----------------------------------------------------------------------------
(* Pages.                                                                     *)

LEMMA PageFits ==
    ASSUME NEW pg, IsPage(pg)
    PROVE  /\ Holds(pg) /\ pg.keys \in Seq(Key) /\ Len(pg.keys) \in Nat
           /\ free_space(pg) = USABLE(pg) - Bytes(pg, pg.keys)
           /\ entries_size(pg) = Bytes(pg, pg.keys) /\ Bytes(pg, pg.keys) \in Nat
           /\ USABLE(pg) \in Int
<1>1. Holds(pg) /\ pg.keys \in Seq(Key)
  BY PageHolds DEF Holds
<1>2. entries_size(pg) = Bytes(pg, pg.keys)
  BY <1>1, BytesOf
<1> QED
  BY <1>1, <1>2, FreeSpace

(* What is free on a page says what is free on one with other keys.           *)
LEMMA FreeAfter ==
    ASSUME NEW pg, IsPage(pg), NEW q, IsPage(q), is_leaf(q) <=> is_leaf(pg)
    PROVE  /\ free_space(q) = free_space(pg) + Bytes(pg, pg.keys) - Bytes(pg, q.keys)
           /\ free_space(pg) \in Int /\ Bytes(pg, pg.keys) \in Nat /\ Bytes(pg, q.keys) \in Nat
<1> DEFINE a == Bytes(pg, pg.keys)
           b == Bytes(pg, q.keys)
           U == USABLE(pg)
<1>1. Holds(pg) /\ free_space(pg) = U - a /\ a \in Nat /\ U \in Int
  BY PageFits
<1>2. Holds(q) /\ free_space(q) = USABLE(q) - Bytes(q, q.keys) /\ Bytes(q, q.keys) \in Nat
  BY PageFits
<1>3. Bytes(q, q.keys) = b
  BY <1>1, <1>2, PageFits, BytesOf
<1>4. USABLE(q) = U
  BY DEF USABLE
<1> HIDE DEF a, b, U
<1> QED
  BY <1>1, <1>2, <1>3, <1>4 DEF a, b

LEMMA Checked ==
    ASSUME NEW pg, IsPage(pg), Increasing(pg.keys), free_space(pg) >= 0
    PROVE  check_invariants(pg) /\ GoodPage(pg)
<1>1. Holds(pg) /\ pg.keys \in Seq(Key) /\ Len(pg.keys) \in Nat
  BY PageFits
<1>2. LiesAt(0, pg, pg)
  BY <1>1 DEF LiesAt
<1>3. is_internal(pg) => Len(pg.children) = Len(pg.keys) + 1
  BY DEF IsPage, IsLeafPage, IsInternalPage, is_leaf, is_internal
<1>4. check_invariants(pg)
  BY <1>2, <1>3, PartChecks
<1> QED
  BY <1>4 DEF GoodPage

LEMMA GoodPages ==
    ASSUME NEW pg, GoodPage(pg)
    PROVE  /\ is_leaf(pg) => IsLeafPage(pg) /\ IsPage(pg)
           /\ is_internal(pg) => IsInternalPage(pg) /\ IsPage(pg)
           /\ is_free(pg) => IsFreePage(pg)
           /\ is_leaf(pg) \/ is_internal(pg) \/ is_free(pg)
           /\ ~is_free(pg) => Increasing(pg.keys) /\ pg.keys \in Seq(Key) /\ Holds(pg)
           /\ free_space(pg) >= 0
BY PageHolds DEF GoodPage, IsPage, IsLeafPage, IsInternalPage, IsFreePage, check_invariants,
                 is_leaf, is_internal, is_free, Holds

(* A row that fits goes in; sorted or not, the page is one.                   *)
LEMMA RowFits ==
    ASSUME NEW pg, IsLeafPage(pg), NEW k \in Key, can_insert(pg, k)
    PROVE  /\ IsLeafPage(leaf_insert(pg, k)) /\ free_space(leaf_insert(pg, k)) >= 0
           /\ leaf_insert(pg, k).keys = WithKey(pg, k)
           /\ leaf_insert(pg, k).next = pg.next /\ leaf_insert(pg, k).prev = pg.prev
<1> DEFINE q == leaf_insert(pg, k)
<1>1. IsPage(pg) /\ Holds(pg) /\ is_leaf(pg)
  BY PageHolds DEF IsPage, IsLeafPage
<1>2. WithKey(pg, k) \in Seq(Key)
  BY <1>1, WithKeyIs DEF IsPutIn
<1>3. /\ IsLeafPage(q) /\ q.keys = WithKey(pg, k) /\ q.next = pg.next /\ q.prev = pg.prev
  BY <1>2 DEF IsLeafPage, leaf_insert, leaf, is_leaf
<1> HIDE DEF q
<1>4. IsPage(q) /\ is_leaf(q)
  BY <1>3 DEF IsPage, IsLeafPage
<1>5. Bytes(pg, q.keys) = Bytes(pg, pg.keys) + EntrySize(pg, k)
  BY <1>1, <1>3, WithKeySize
<1>6. EntrySize(pg, k) = RowSize[k] /\ RowSize[k] \in Nat /\ RowSize[k] <= free_space(pg)
  BY <1>1, Usable DEF EntrySize, can_insert
<1>7. /\ free_space(q) = free_space(pg) + Bytes(pg, pg.keys) - Bytes(pg, q.keys)
      /\ free_space(pg) \in Int /\ Bytes(pg, pg.keys) \in Nat
  BY <1>1, <1>4, FreeAfter
<1>8. free_space(q) >= 0
  BY <1>5, <1>6, <1>7
<1> QED
  BY <1>3, <1>8 DEF q

(* Page::leaf_insert of a row the page takes: the page can be written out   *)
(* and read back, and its neighbours are the same.                          *)
THEOREM RowInserted ==
    ASSUME NEW pg, GoodPage(pg), NEW k \in Key, TakesRow(pg, k)
    PROVE  /\ GoodPage(leaf_insert(pg, k)) /\ is_leaf(leaf_insert(pg, k))
           /\ leaf_insert(pg, k).next = pg.next /\ leaf_insert(pg, k).prev = pg.prev
<1> DEFINE q == leaf_insert(pg, k)
<1>1. IsLeafPage(pg) /\ can_insert(pg, k) /\ Increasing(pg.keys) /\ Holds(pg) /\ ~HasKey(pg, k)
  BY GoodPages DEF TakesRow, can_insert, is_leaf, is_free
<1>2. /\ IsLeafPage(q) /\ free_space(q) >= 0 /\ q.keys = WithKey(pg, k)
      /\ q.next = pg.next /\ q.prev = pg.prev
  BY <1>1, RowFits
<1>3. Increasing(WithKey(pg, k))
  BY <1>1, WithKeyIncreases
<1> HIDE DEF q
<1>4. IsPage(q) /\ is_leaf(q)
  BY <1>2 DEF IsPage, IsLeafPage
<1>5. GoodPage(q)
  BY <1>2, <1>3, <1>4, Checked
<1> QED
  BY <1>2, <1>4, <1>5 DEF q

LEMMA ChildrenAre ==
    ASSUME NEW pg, IsInternalPage(pg), NEW C \in SUBSET Nat, Links(pg) \subseteq C
    PROVE  /\ pg.children \in Seq(C) /\ Len(pg.children) = Len(pg.keys) + 1
           /\ pg.keys \in Seq(Key) /\ Len(pg.keys) \in Nat
<1>1. /\ pg.children \in Seq(Nat) /\ Len(pg.children) = Len(pg.keys) + 1
      /\ pg.keys \in Seq(Key) /\ Len(pg.keys) \in Nat /\ is_internal(pg)
  BY DEF IsInternalPage
<1>2. \A i \in 1 .. Len(pg.children) : pg.children[i] \in C
  BY <1>1 DEF Links
<1>3. pg.children = [i \in 1 .. Len(pg.children) |-> pg.children[i]]
  BY <1>1, SameSequence
<1>4. pg.children \in Seq(C)
  <2>1. Len(pg.children) \in Nat
    BY <1>1
  <2> QED
    BY <1>2, <1>3, <2>1, IsSequence, Zenon
<1> QED
  BY <1>1, <1>4

LEMMA InternalMade ==
    ASSUME NEW keys \in Seq(Key), NEW C \in SUBSET Nat, NEW ch \in Seq(C), Len(ch) = Len(keys) + 1
    PROVE  LET q == internal(keys, ch)
           IN /\ IsInternalPage(q) /\ IsPage(q) /\ is_internal(q) /\ ~is_leaf(q) /\ Links(q) \subseteq C
              /\ q.keys = keys /\ q.children = ch /\ USABLE(q) = INTERNAL_USABLE
<1> DEFINE q == internal(keys, ch)
<1>1. q.keys = keys /\ q.children = ch /\ is_internal(q) /\ ~is_leaf(q) /\ q = internal(q.keys, q.children)
  BY DEF internal, is_internal, is_leaf
<1> HIDE DEF q
<1>2. \A i \in 1 .. Len(ch) : ch[i] \in C
  BY ElementOfSeq
<1>3. ch \in Seq(Nat) /\ DOMAIN ch = 1 .. Len(ch)
  <2>1. ch = [i \in 1 .. Len(ch) |-> ch[i]] /\ Len(ch) \in Nat
    BY SameSequence
  <2>2. \A i \in 1 .. Len(ch) : ch[i] \in Nat
    BY <1>2
  <2> QED
    BY <2>1, <2>2, IsSequence
<1>4. IsInternalPage(q) /\ IsPage(q)
  BY <1>1, <1>3 DEF IsInternalPage, IsPage
<1>5. Links(q) \subseteq C
  BY <1>1, <1>2, <1>3 DEF Links
<1> QED
  BY <1>1, <1>4, <1>5 DEF q, USABLE

LEMMA SeparatorFits ==
    ASSUME NEW pg, IsInternalPage(pg), NEW sep \in Key, can_insert_separator(pg, sep),
           NEW C \in SUBSET Nat, Links(pg) \subseteq C, NEW right \in C
    PROVE  LET q == internal_insert(pg, sep, right)
           IN /\ IsInternalPage(q) /\ IsPage(q) /\ is_internal(q) /\ free_space(q) >= 0
              /\ Links(q) \subseteq C /\ q.keys = WithKey(pg, sep)
<1> DEFINE n == Below(pg.keys, sep)
           ch == Upto(n + 1, pg.children) \o <<right>> \o After(n + 1, pg.children)
           q == internal_insert(pg, sep, right)
<1>1. /\ IsPage(pg) /\ Holds(pg) /\ is_internal(pg) /\ ~is_leaf(pg) /\ pg.keys \in Seq(Key)
      /\ USABLE(pg) = INTERNAL_USABLE
  BY PageHolds DEF IsPage, IsInternalPage, USABLE
<1>2. /\ pg.children \in Seq(C) /\ Len(pg.children) = Len(pg.keys) + 1 /\ Len(pg.keys) \in Nat
  BY ChildrenAre
<1>3. n \in 0 .. Len(pg.keys) /\ IsPutIn(Key, pg.keys, n, sep, n, WithKey(pg, sep))
  BY <1>1, WithKeyIs
<1>q. q = internal(WithKey(pg, sep), ch)
  BY DEF internal_insert
<1> HIDE DEF n, q
<1>4. n + 1 \in 0 .. Len(pg.children)
  BY <1>2, <1>3
<1>5. IsPutIn(C, pg.children, n + 1, right, n + 1, ch)
  BY <1>2, <1>4, PutIn
<1> HIDE DEF ch
<1>6. /\ WithKey(pg, sep) \in Seq(Key) /\ ch \in Seq(C)
      /\ Len(WithKey(pg, sep)) = n + 1 + (Len(pg.keys) - n)
      /\ Len(ch) = (n + 1) + 1 + (Len(pg.children) - (n + 1))
  BY <1>3, <1>5 DEF IsPutIn
<1>7. Len(ch) = Len(WithKey(pg, sep)) + 1
  <2> DEFINE m == Len(pg.keys)
             a == Len(ch)
             b == Len(WithKey(pg, sep))
  <2>1. /\ m \in Nat /\ n \in 0 .. m
        /\ a = (n + 1) + 1 + ((m + 1) - (n + 1)) /\ b = n + 1 + (m - n)
    BY <1>2, <1>3, <1>6
  <2> HIDE DEF m, a, b
  <2>2. a = b + 1
    BY <2>1
  <2> QED
    BY <2>2 DEF a, b
<1>8. /\ IsInternalPage(q) /\ IsPage(q) /\ is_internal(q) /\ ~is_leaf(q) /\ Links(q) \subseteq C
      /\ q.keys = WithKey(pg, sep) /\ USABLE(q) = INTERNAL_USABLE
  BY <1>6, <1>7, <1>q, InternalMade
<1>9. Bytes(pg, q.keys) = Bytes(pg, pg.keys) + EntrySize(pg, sep)
  BY <1>1, <1>8, WithKeySize
<1>10. EntrySize(pg, sep) = KeySize[sep] /\ KeySize[sep] \in Nat /\ KeySize[sep] <= free_space(pg)
  BY <1>1, Usable DEF EntrySize, can_insert_separator
<1>11. /\ free_space(q) = free_space(pg) + Bytes(pg, pg.keys) - Bytes(pg, q.keys)
       /\ free_space(pg) \in Int /\ Bytes(pg, pg.keys) \in Nat
  BY <1>1, <1>8, FreeAfter
<1>12. free_space(q) >= 0
  BY <1>9, <1>10, <1>11
<1> QED
  BY <1>8, <1>12 DEF q

(* Page::internal_insert of a separator the page takes, with the child to     *)
(* its right: every child is an old one or the new one.                       *)
THEOREM SeparatorInserted ==
    ASSUME NEW pg, GoodPage(pg), NEW sep \in Key, TakesSeparator(pg, sep), NEW right \in Nat
    PROVE  LET q == internal_insert(pg, sep, right)
           IN GoodPage(q) /\ is_internal(q) /\ Links(q) \subseteq Links(pg) \cup {right}
<1> DEFINE q == internal_insert(pg, sep, right)
           C == Links(pg) \cup {right}
<1>1. /\ IsInternalPage(pg) /\ can_insert_separator(pg, sep) /\ Increasing(pg.keys) /\ Holds(pg)
      /\ ~HasKey(pg, sep)
  BY GoodPages DEF TakesSeparator, can_insert_separator, is_internal, is_free
<1>2. C \in SUBSET Nat /\ Links(pg) \subseteq C /\ right \in C
  <2>1. \A i \in DOMAIN pg.children : pg.children[i] \in Nat
    BY <1>1, ElementOfSeq DEF IsInternalPage
  <2> QED
    BY <1>1, <2>1 DEF Links, IsInternalPage
<1> HIDE DEF C
<1>3. /\ IsPage(q) /\ is_internal(q) /\ free_space(q) >= 0
      /\ Links(q) \subseteq C /\ q.keys = WithKey(pg, sep)
  BY <1>1, <1>2, SeparatorFits
<1>4. Increasing(WithKey(pg, sep))
  BY <1>1, WithKeyIncreases
<1> HIDE DEF q
<1>5. GoodPage(q)
  BY <1>3, <1>4, Checked
<1> QED
  BY <1>3, <1>5 DEF q, C

(* The keys without one of them.                                              *)
LEMMA WithoutKeyIs ==
    ASSUME NEW pg, Holds(pg), Increasing(pg.keys), NEW k \in Key, HasKey(pg, k)
    PROVE  LET n == Below(pg.keys, k)
           IN /\ n \in 0 .. Len(pg.keys) - 1 /\ n + 1 \in 0 .. Len(pg.keys)
              /\ IsLeftOut(Key, pg.keys, n, n + 1, WithoutKey(pg, k))
              /\ Increasing(WithoutKey(pg, k))
              /\ Bytes(pg, pg.keys) = Bytes(pg, WithoutKey(pg, k)) + EntrySize(pg, k)
              /\ Bytes(pg, WithoutKey(pg, k)) \in Nat /\ EntrySize(pg, k) \in Nat
<1> DEFINE n == Below(pg.keys, k)
           d == n + 1
           m == Len(pg.keys)
           u == Upto(n, pg.keys)
           v == After(d, pg.keys)
<1>1. /\ pg.keys \in Seq(Key) /\ m \in Nat /\ (is_leaf(pg) \/ is_internal(pg))
      /\ n \in 0 .. m /\ n < m /\ pg.keys[n + 1] = k
      /\ k \in Nat
  BY WithKeyIs, PlaceOfKey, SizeAssumption DEF Holds
<1>w. WithoutKey(pg, k) = u \o v
  BY DEF WithoutKey
<1> HIDE DEF n
<1>2. d \in 0 .. m /\ n \in 0 .. m - 1 /\ d \in Nat /\ d \in 1 .. m
  BY <1>1
<1>3. IsLeftOut(Key, pg.keys, n, d, u \o v)
  BY <1>1, <1>2, LeftOut
<1>p. pg.keys \in Seq(Key) /\ n \in 0 .. m /\ d \in 0 .. m
  BY <1>1, <1>2
<1>4. /\ u \in Seq(Key) /\ Len(u) = n /\ \A i \in 1 .. n : u[i] = pg.keys[i]
  BY <1>p, Parts, ZenonT(30)
<1>5. /\ v \in Seq(Key) /\ Len(v) = m - d /\ \A i \in 1 .. m - d : v[i] = pg.keys[d + i]
  BY <1>p, Parts, ZenonT(30)
<1>6. Increasing(u) /\ Increasing(v)
  BY <1>1, <1>2, PartsIncrease
<1>7. /\ Bytes(pg, pg.keys) = Bytes(pg, u) + Bytes(pg, After(n, pg.keys))
      /\ Bytes(pg, After(n, pg.keys)) = EntrySize(pg, k) + Bytes(pg, v)
      /\ Bytes(pg, u) \in Nat
  BY <1>1, BytesCut
<1> HIDE DEF u, v
<1>8. Ascends(u, v)
  <2> SUFFICES ASSUME u # <<>>, v # <<>> PROVE u[Len(u)] < v[1]
    BY DEF Ascends
  <2>1. n > 0 /\ m - d > 0
    BY <1>1, <1>2, <1>4, <1>5, EmptySeq
  <2>2. n \in 1 .. n /\ n \in 1 .. m /\ 1 \in 1 .. m - d /\ d + 1 \in 1 .. m /\ n < d + 1
    BY <1>1, <1>2, <2>1
  <2>3. pg.keys[n] < pg.keys[d + 1]
    BY <1>1, <2>2, SortedPair
  <2> QED
    BY <1>4, <1>5, <2>2, <2>3
<1>9. Increasing(u \o v)
  BY <1>4, <1>5, <1>6, <1>8, JoinIncreases
<1>10. Bytes(pg, u \o v) = Bytes(pg, u) + Bytes(pg, v)
  BY <1>1, <1>4, <1>5, BytesAdd
<1>11. Bytes(pg, v) \in Nat /\ EntrySize(pg, k) \in Nat
  <2>1. <<k>> \in Seq(Key)
    OBVIOUS
  <2>2. Bytes(pg, <<k>>) \in Nat /\ Bytes(pg, <<k>>) = EntrySize(pg, k)
    BY <1>1, <2>1, LikeHolds, BytesOfOne
  <2> QED
    BY <1>1, <1>5, <2>2, LikeHolds
<1>12. /\ Bytes(pg, pg.keys) = Bytes(pg, u \o v) + EntrySize(pg, k)
       /\ Bytes(pg, u \o v) \in Nat
  BY <1>7, <1>10, <1>11
<1> QED
  BY <1>w, <1>2, <1>3, <1>9, <1>11, <1>12 DEF n

(* Page::leaf_remove, whether the row is there or not.                      *)
THEOREM RowRemoved ==
    ASSUME NEW pg, GoodPage(pg), is_leaf(pg), NEW k \in Key
    PROVE  /\ GoodPage(leaf_remove(pg, k)) /\ is_leaf(leaf_remove(pg, k))
           /\ leaf_remove(pg, k).next = pg.next /\ leaf_remove(pg, k).prev = pg.prev
<1>1. CASE ~HasKey(pg, k)
  BY <1>1 DEF leaf_remove
<1>2. CASE HasKey(pg, k)
  <2> DEFINE q == leaf_remove(pg, k)
  <2>1. IsLeafPage(pg) /\ IsPage(pg) /\ Increasing(pg.keys) /\ Holds(pg) /\ free_space(pg) >= 0
    BY GoodPages DEF is_leaf, is_free
  <2>2. /\ WithoutKey(pg, k) \in Seq(Key) /\ Increasing(WithoutKey(pg, k))
        /\ Bytes(pg, pg.keys) = Bytes(pg, WithoutKey(pg, k)) + EntrySize(pg, k)
        /\ Bytes(pg, WithoutKey(pg, k)) \in Nat /\ EntrySize(pg, k) \in Nat
    BY <1>2, <2>1, WithoutKeyIs DEF IsLeftOut
  <2>3. /\ IsLeafPage(q) /\ q.keys = WithoutKey(pg, k) /\ q.next = pg.next /\ q.prev = pg.prev
    BY <1>2, <2>1, <2>2 DEF IsLeafPage, leaf_remove, leaf, is_leaf
  <2> HIDE DEF q
  <2>4. IsPage(q) /\ is_leaf(q) /\ is_leaf(pg)
    BY <2>3 DEF IsPage, IsLeafPage
  <2>5. /\ free_space(q) = free_space(pg) + Bytes(pg, pg.keys) - Bytes(pg, q.keys)
        /\ free_space(pg) \in Int
    BY <2>1, <2>4, FreeAfter
  <2>6. free_space(q) >= 0
    BY <2>1, <2>2, <2>3, <2>5
  <2>7. GoodPage(q)
    BY <2>2, <2>3, <2>4, <2>6, Checked
  <2> QED
    BY <2>3, <2>4, <2>7 DEF q
<1> QED
  BY <1>1, <1>2

LEMMA LinksAreNumbers ==
    ASSUME NEW pg, GoodPage(pg)
    PROVE  Links(pg) \subseteq Nat
<1>1. CASE is_internal(pg)
  <2>1. pg.children \in Seq(Nat)
    BY <1>1, GoodPages DEF IsInternalPage
  <2>2. \A i \in 1 .. Len(pg.children) : pg.children[i] \in Nat
    BY <2>1, ElementOfSeq
  <2> QED
    BY <1>1, <2>1, <2>2 DEF Links
<1>2. CASE ~is_internal(pg)
  BY <1>2, GoodPages DEF Links, IsLeafPage, IsFreePage
<1> QED
  BY <1>1, <1>2

(* Page::internal_remove, of a separator and the child to its right, whether*)
(* the separator is there or not.                                           *)
THEOREM SeparatorRemoved ==
    ASSUME NEW pg, GoodPage(pg), is_internal(pg), NEW sep \in Key
    PROVE  LET q == internal_remove(pg, sep)
           IN GoodPage(q) /\ is_internal(q) /\ Links(q) \subseteq Links(pg)
<1>1. CASE ~HasKey(pg, sep)
  BY <1>1 DEF internal_remove
<1>2. CASE HasKey(pg, sep)
  <2> DEFINE n == Below(pg.keys, sep)
             C == Links(pg)
             ch == Upto(n + 1, pg.children) \o After(n + 2, pg.children)
             q == internal_remove(pg, sep)
             keys == WithoutKey(pg, sep)
  <2>1. /\ IsInternalPage(pg) /\ IsPage(pg) /\ Increasing(pg.keys) /\ Holds(pg) /\ free_space(pg) >= 0
        /\ C \in SUBSET Nat /\ ~is_leaf(pg) /\ USABLE(pg) = INTERNAL_USABLE
    BY GoodPages, LinksAreNumbers DEF is_internal, is_free, is_leaf, USABLE
  <2>2. /\ n \in 0 .. Len(pg.keys) - 1
        /\ IsLeftOut(Key, pg.keys, n, n + 1, keys)
        /\ Increasing(keys)
        /\ Bytes(pg, pg.keys) = Bytes(pg, keys) + EntrySize(pg, sep)
        /\ Bytes(pg, keys) \in Nat /\ EntrySize(pg, sep) \in Nat
    BY <1>2, <2>1, WithoutKeyIs
  <2>3. /\ pg.children \in Seq(C) /\ Len(pg.children) = Len(pg.keys) + 1 /\ Len(pg.keys) \in Nat
    BY <2>1, ChildrenAre
  <2>q. q = internal(keys, ch)
    BY <1>2 DEF internal_remove
  <2> HIDE DEF n, C, q, keys
  <2>4. n + 1 \in 0 .. Len(pg.children) /\ n + 2 \in 0 .. Len(pg.children)
    BY <2>2, <2>3
  <2>5. IsLeftOut(C, pg.children, n + 1, n + 2, ch)
    BY <2>3, <2>4, LeftOut
  <2> HIDE DEF ch
  <2>6. /\ keys \in Seq(Key) /\ ch \in Seq(C)
        /\ Len(keys) = n + (Len(pg.keys) - (n + 1))
        /\ Len(ch) = (n + 1) + (Len(pg.children) - (n + 2))
    BY <2>2, <2>5 DEF IsLeftOut
  <2>7. Len(ch) = Len(keys) + 1
    <3> DEFINE m == Len(pg.keys)
               a == Len(ch)
               b == Len(keys)
    <3>1. /\ m \in Nat /\ n \in 0 .. m - 1
          /\ a = (n + 1) + ((m + 1) - (n + 2)) /\ b = n + (m - (n + 1))
      BY <2>2, <2>3, <2>6
    <3> HIDE DEF m, a, b
    <3>2. a = b + 1
      BY <3>1
    <3> QED
      BY <3>2 DEF a, b
  <2>8. /\ IsInternalPage(q) /\ IsPage(q) /\ is_internal(q) /\ ~is_leaf(q) /\ Links(q) \subseteq C
        /\ q.keys = keys /\ USABLE(q) = INTERNAL_USABLE
    BY <2>1, <2>6, <2>7, <2>q, InternalMade
  <2>9. /\ free_space(q) = free_space(pg) + Bytes(pg, pg.keys) - Bytes(pg, q.keys)
        /\ free_space(pg) \in Int
    BY <2>1, <2>8, FreeAfter
  <2>10. free_space(q) >= 0
    BY <2>1, <2>2, <2>8, <2>9
  <2>11. GoodPage(q)
    BY <2>2, <2>8, <2>10, Checked
  <2> QED
    BY <2>8, <2>11 DEF q, C
<1> QED
  BY <1>1, <1>2

(* Page::internal_replace_key, when its tests let it: the new separator may *)
(* be larger than the old one, and the page still has room for it.          *)
THEOREM KeyReplaced ==
    ASSUME NEW pg, GoodPage(pg), is_internal(pg), NEW old \in Key, NEW new \in Key,
           CanReplace(pg, old, new)
    PROVE  LET q == internal_replace_key(pg, old, new)
           IN GoodPage(q) /\ is_internal(q) /\ Links(q) = Links(pg)
<1> DEFINE b == Below(pg.keys, old)
           n == b + 1
           m == Len(pg.keys)
           q == internal_replace_key(pg, old, new)
           u == Upto(b, pg.keys)
           v == After(n, pg.keys)
           w == u \o <<new>> \o v
           r == [pg.keys EXCEPT ![n] = new]
<1>1. /\ IsInternalPage(pg) /\ IsPage(pg) /\ Increasing(pg.keys) /\ Holds(pg) /\ free_space(pg) >= 0
      /\ ~is_leaf(pg) /\ pg.keys \in Seq(Key) /\ m \in Nat
  BY GoodPages DEF is_internal, is_free, is_leaf, IsInternalPage
<1>2. /\ HasKey(pg, old) /\ (n = 1 \/ pg.keys[n - 1] < new) /\ (n = m \/ new < pg.keys[n + 1])
      /\ free_space(pg) + KeySize[old] >= KeySize[new]
  BY DEF CanReplace
<1>3. b \in 0 .. m /\ b < m /\ pg.keys[b + 1] = old
  BY <1>1, <1>2, WithKeyIs, PlaceOfKey
<1>4. q = [pg EXCEPT !.keys = r]
  BY DEF internal_replace_key
<1> HIDE DEF b, q
<1>5. n \in 1 .. m /\ n \in 0 .. m /\ n - 1 = b /\ b \in 0 .. m
  BY <1>1, <1>3
<1>6. /\ r \in Seq(Key) /\ Len(r) = m /\ r[n] = new
      /\ \A i \in 1 .. m : i # n => r[i] = pg.keys[i]
  BY <1>1, <1>5, ExceptSeq
<1>7. r = w
  <2>1. IsPutIn(Key, pg.keys, b, new, n, w)
    BY <1>1, <1>5, PutIn
  <2> HIDE DEF r, w
  <2>2. /\ w \in Seq(Key) /\ Len(w) = b + 1 + (m - n)
        /\ \A i \in 1 .. b : w[i] = pg.keys[i]
        /\ w[b + 1] = new
        /\ \A i \in 1 .. m - n : w[b + 1 + i] = pg.keys[n + i]
    BY <2>1 DEF IsPutIn
  <2> HIDE DEF m
  <2>3. Len(w) = m
    BY <1>1, <1>5, <2>2
  <2>4. ASSUME NEW i \in 1 .. m PROVE w[i] = r[i]
    <3>1. CASE i < n
      <4>1. i \in 1 .. b /\ i # n
        BY <1>1, <1>5, <3>1
      <4> QED
        BY <1>6, <2>2, <4>1
    <3>2. CASE i = n
      BY <1>6, <2>2, <3>2
    <3>3. CASE i > n
      <4>1. i - n \in 1 .. m - n /\ b + 1 + (i - n) = i /\ n + (i - n) = i /\ i # n
        BY <1>1, <1>5, <3>3
      <4> QED
        BY <1>6, <2>2, <4>1
    <3> QED
      BY <1>1, <1>5, <3>1, <3>2, <3>3
  <2> QED
    BY <1>6, <2>2, <2>3, <2>4, SeqEqual
<1> HIDE DEF r
<1>8. Increasing(r)
  <2> SUFFICES ASSUME NEW i \in 1 .. m - 1 PROVE r[i] < r[i + 1]
    BY <1>6 DEF Increasing
  <2>1. /\ i \in 1 .. m /\ i + 1 \in 1 .. m
    BY <1>1
  <2>2. pg.keys[i] < pg.keys[i + 1]
    BY <1>1 DEF Increasing
  <2>3. CASE i = n
    <3>1. n # m /\ i + 1 # n
      BY <1>1, <1>5, <2>3
    <3> QED
      BY <1>2, <1>6, <2>1, <2>3, <3>1
  <2>4. CASE i + 1 = n
    <3>1. n # 1 /\ n - 1 = i /\ i # n
      BY <1>1, <1>5, <2>4
    <3> QED
      BY <1>2, <1>6, <2>1, <2>4, <3>1
  <2>5. CASE i # n /\ i + 1 # n
    BY <1>6, <2>1, <2>2, <2>5
  <2> QED
    BY <2>3, <2>4, <2>5
<1>9. Bytes(pg, r) = Bytes(pg, pg.keys) + KeySize[new] - KeySize[old]
  <2>0. <<new>> \in Seq(Key)
    OBVIOUS
  <2>1. u \in Seq(Key) /\ v \in Seq(Key) /\ <<new>> \in Seq(Key)
    BY <1>1, <1>5, <2>0, Parts, ZenonT(30)
  <2>2. /\ Bytes(pg, pg.keys) = Bytes(pg, u) + Bytes(pg, After(b, pg.keys))
        /\ Bytes(pg, After(b, pg.keys)) = EntrySize(pg, old) + Bytes(pg, v)
        /\ Bytes(pg, u) \in Nat /\ Bytes(pg, pg.keys) \in Nat
    BY <1>1, <1>3, <1>5, BytesCut DEF Holds
  <2> HIDE DEF u, v
  <2>3. is_leaf(pg) \/ is_internal(pg)
    OBVIOUS
  <2>4. u \o <<new>> \in Seq(Key)
    BY <2>1, ConcatProperties
  <2>5. Bytes(pg, w) = Bytes(pg, u \o <<new>>) + Bytes(pg, v)
    BY <2>1, <2>3, <2>4, BytesAdd, Zenon
  <2>6. Bytes(pg, u \o <<new>>) = Bytes(pg, u) + Bytes(pg, <<new>>)
    BY <2>1, <2>3, BytesAdd, Zenon
  <2>7. Bytes(pg, <<new>>) = EntrySize(pg, new)
    BY <2>3, BytesOfOne
  <2>8. /\ EntrySize(pg, new) = KeySize[new] /\ EntrySize(pg, old) = KeySize[old]
        /\ KeySize[new] \in Nat /\ KeySize[old] \in Nat
    BY <1>1, Usable DEF EntrySize
  <2>9. Bytes(pg, v) \in Nat
    BY <2>1, <2>3, LikeHolds
  <2> HIDE DEF w
  <2> QED
    BY <1>7, <2>2, <2>5, <2>6, <2>7, <2>8, <2>9
<1>10. /\ IsInternalPage(q) /\ q.keys = r /\ q.children = pg.children
  BY <1>1, <1>4, <1>6 DEF IsInternalPage, internal, is_internal
<1>11. IsPage(q) /\ is_internal(q) /\ ~is_leaf(q)
  BY <1>10 DEF IsPage, IsInternalPage, is_internal, is_leaf
<1>12. Links(q) = Links(pg)
  BY <1>10, <1>11 DEF Links
<1>13. /\ free_space(q) = free_space(pg) + Bytes(pg, pg.keys) - Bytes(pg, q.keys)
       /\ free_space(pg) \in Int /\ Bytes(pg, pg.keys) \in Nat
  BY <1>1, <1>11, FreeAfter
<1>14. KeySize[new] \in Nat /\ KeySize[old] \in Nat
  BY Usable
<1>15. free_space(q) >= 0
  BY <1>2, <1>9, <1>10, <1>13, <1>14
<1>16. GoodPage(q)
  BY <1>8, <1>10, <1>11, <1>15, Checked
<1> QED
  BY <1>11, <1>12, <1>16 DEF q

-----------------------------------------------------------------------------
(* Two pages.                                                                 *)

(* The keys of two internal pages with the separator between them.            *)
LEMMA Threaded ==
    ASSUME NEW a \in Seq(Key), NEW b \in Seq(Key), NEW sep \in Key
    PROVE  LET w == a \o <<sep>> \o b
           IN /\ w \in Seq(Key) /\ Len(w) = Len(a) + 1 + Len(b)
              /\ Len(a) \in Nat /\ Len(b) \in Nat
              /\ Increasing(a) /\ Increasing(b) /\ Ascends(a, <<sep>>) /\ Ascends(<<sep>>, b)
                    => Increasing(w)
              /\ \A pg : ~is_leaf(pg) /\ is_internal(pg)
                    => Bytes(pg, w) = Bytes(pg, a) + KeySize[sep] + Bytes(pg, b)
<1> DEFINE one == <<sep>>
           ao == a \o one
           w == ao \o b
<1>1. one \in Seq(Key) /\ Len(one) = 1 /\ one[1] = sep /\ 1 \in 1 .. 1 /\ one # <<>>
  OBVIOUS
<1>2. Increasing(one)
  BY OneIncreases
<1>3. \A pg : is_leaf(pg) \/ is_internal(pg) => Bytes(pg, one) = EntrySize(pg, sep)
  BY BytesOfOne
<1>4. Ascends(a, <<sep>>) = Ascends(a, one) /\ Ascends(<<sep>>, b) = Ascends(one, b)
  OBVIOUS
<1>5. one[Len(one)] = sep
  BY <1>1
<1> HIDE DEF one
<1>6. IsJoin(Key, a, one, ao)
  BY <1>1, JoinedAs
<1>7. Increasing(a) /\ Ascends(a, one) => Increasing(ao)
  BY <1>1, <1>2, JoinIncreases
<1>8. \A pg : is_leaf(pg) \/ is_internal(pg) => Bytes(pg, ao) = Bytes(pg, a) + Bytes(pg, one)
  BY <1>1, BytesAdd
<1> HIDE DEF ao
<1>9. /\ ao \in Seq(Key) /\ Len(ao) = Len(a) + 1 /\ ao[Len(ao)] = sep /\ Len(a) \in Nat
  BY <1>1, <1>6 DEF IsJoin
<1>10. Ascends(one, b) => Ascends(ao, b)
  BY <1>1, <1>5, <1>9 DEF Ascends
<1>11. IsJoin(Key, ao, b, w)
  BY <1>9, JoinedAs
<1>12. Increasing(ao) /\ Increasing(b) /\ Ascends(ao, b) => Increasing(w)
  BY <1>9, JoinIncreases
<1>13. \A pg : is_leaf(pg) \/ is_internal(pg) => Bytes(pg, w) = Bytes(pg, ao) + Bytes(pg, b)
  BY <1>9, BytesAdd
<1> HIDE DEF w
<1>14. w \in Seq(Key) /\ Len(w) = Len(a) + 1 + Len(b) /\ Len(b) \in Nat
  BY <1>9, <1>11 DEF IsJoin
<1>15. ASSUME NEW pg, ~is_leaf(pg), is_internal(pg)
       PROVE  Bytes(pg, w) = Bytes(pg, a) + KeySize[sep] + Bytes(pg, b)
  <2>1. EntrySize(pg, sep) = KeySize[sep]
    BY <1>15 DEF EntrySize
  <2>2. Bytes(pg, w) = (Bytes(pg, a) + Bytes(pg, one)) + Bytes(pg, b)
    BY <1>8, <1>13, <1>15
  <2> QED
    BY <1>3, <1>15, <2>1, <2>2
<1>16. w = a \o <<sep>> \o b
  BY DEF w, ao, one
<1> QED
  BY <1>4, <1>7, <1>9, <1>10, <1>12, <1>14, <1>15, <1>16

LEMMA ChildrenJoined ==
    ASSUME NEW l, NEW r, IsInternalPage(l), IsInternalPage(r),
           NEW C \in SUBSET Nat, Links(l) \cup Links(r) \subseteq C
    PROVE  /\ l.children \o r.children \in Seq(C)
           /\ Len(l.children \o r.children) = Len(l.keys) + 1 + Len(r.keys) + 1
           /\ Len(l.keys) \in Nat /\ Len(r.keys) \in Nat
<1>1. /\ l.children \in Seq(C) /\ Len(l.children) = Len(l.keys) + 1 /\ Len(l.keys) \in Nat
      /\ r.children \in Seq(C) /\ Len(r.children) = Len(r.keys) + 1 /\ Len(r.keys) \in Nat
  BY ChildrenAre
<1> DEFINE ch == l.children \o r.children
<1>2. IsJoin(C, l.children, r.children, ch)
  BY <1>1, JoinedAs
<1> HIDE DEF ch
<1>3. ch \in Seq(C) /\ Len(ch) = Len(l.children) + Len(r.children)
  BY <1>2 DEF IsJoin
<1>4. Len(ch) = Len(l.keys) + 1 + Len(r.keys) + 1
  <2> DEFINE a == Len(l.keys)
             b == Len(r.keys)
             c == Len(ch)
  <2>1. a \in Nat /\ b \in Nat /\ c = (a + 1) + (b + 1)
    BY <1>1, <1>3
  <2> HIDE DEF a, b, c
  <2>2. c = a + 1 + b + 1
    BY <2>1
  <2> QED
    BY <2>2 DEF a, b, c
<1> QED
  BY <1>1, <1>3, <1>4 DEF ch

(* The page numbers an internal page refers to.                               *)
LEMMA InternalLinks ==
    ASSUME NEW pg, IsInternalPage(pg)
    PROVE  Links(pg) \in SUBSET Nat
<1>1. \A i \in DOMAIN pg.children : pg.children[i] \in Nat
  BY ElementOfSeq DEF IsInternalPage
<1> QED
  BY <1>1 DEF Links, IsInternalPage

(* Page::merge_from_right, of a pair that can_merge_with says fits one page *)
(* and whose keys are in order.                                             *)
THEOREM Merged ==
    ASSUME NEW l, NEW r, GoodPage(l), GoodPage(r), NEW sep \in Key,
           can_merge_with(l, r, sep), InOrder(l, r, sep)
    PROVE  LET q == merge_from_right(l, r, sep)
           IN /\ GoodPage(q) /\ (is_leaf(q) <=> is_leaf(l)) /\ ~is_free(q)
              /\ Links(q) \subseteq Links(l) \cup Links(r)
<1> DEFINE q == merge_from_right(l, r, sep)
<1>1. /\ SameKind(l, r) /\ ~is_free(l) /\ l.kind = r.kind
      /\ free_space(l) >= entries_size(r) + (IF is_internal(l) THEN KeySize[sep] ELSE 0)
  BY DEF can_merge_with, SameKind
<1>2. is_leaf(l) \/ is_internal(l)
  BY <1>1, GoodPages
<1>3. CASE is_leaf(l)
  <2> DEFINE all == l.keys \o r.keys
  <2>1. /\ is_leaf(r) /\ IsLeafPage(l) /\ IsLeafPage(r) /\ IsPage(l) /\ IsPage(r) /\ ~is_internal(l)
        /\ Increasing(l.keys) /\ Increasing(r.keys) /\ l.keys \in Seq(Key) /\ r.keys \in Seq(Key)
        /\ ~is_free(r) /\ ~is_internal(r)
    BY <1>1, <1>3, GoodPages DEF is_leaf, is_free, is_internal
  <2>2. q = leaf(all, r.next, l.prev)
    BY <1>3 DEF merge_from_right
  <2>3. IsJoin(Key, l.keys, r.keys, all)
    BY <2>1, JoinedAs
  <2>4. Increasing(all)
    BY <1>3, <2>1, JoinIncreases DEF InOrder
  <2>5. Bytes(l, all) = Bytes(l, l.keys) + Bytes(l, r.keys)
    BY <1>3, <2>1, BytesAdd
  <2> HIDE DEF all
  <2>6. /\ IsLeafPage(q) /\ q.keys = all /\ q.next = r.next /\ q.prev = l.prev
        /\ IsPage(q) /\ is_leaf(q) /\ ~is_free(q) /\ ~is_internal(q)
    BY <2>1, <2>2, <2>3 DEF IsJoin, IsLeafPage, IsPage, leaf, is_leaf, is_free, is_internal
  <2> HIDE DEF q
  <2>7. Bytes(l, r.keys) = entries_size(r) /\ entries_size(r) \in Nat
    BY <1>3, <2>1, PageFits, BytesOf
  <2>8. /\ free_space(q) = free_space(l) + Bytes(l, l.keys) - Bytes(l, q.keys)
        /\ free_space(l) \in Int /\ Bytes(l, l.keys) \in Nat
    BY <1>3, <2>1, <2>6, FreeAfter
  <2>9. free_space(q) >= 0
    BY <1>1, <2>1, <2>5, <2>6, <2>7, <2>8
  <2>10. GoodPage(q)
    BY <2>4, <2>6, <2>9, Checked
  <2>11. Links(q) \subseteq Links(l) \cup Links(r)
    BY <1>3, <2>1, <2>6 DEF Links
  <2> QED
    BY <1>3, <2>6, <2>10, <2>11 DEF q
<1>4. CASE is_internal(l)
  <2> DEFINE all == l.keys \o <<sep>> \o r.keys
             ch == l.children \o r.children
             C == Links(l) \cup Links(r)
  <2>1. /\ is_internal(r) /\ IsInternalPage(l) /\ IsInternalPage(r) /\ IsPage(l) /\ IsPage(r) /\ ~is_leaf(l)
        /\ Increasing(l.keys) /\ Increasing(r.keys) /\ l.keys \in Seq(Key) /\ r.keys \in Seq(Key)
        /\ ~is_leaf(r)
    BY <1>1, <1>4, GoodPages DEF is_leaf, is_free, is_internal
  <2>2. q = internal(all, ch)
    BY <2>1 DEF merge_from_right
  <2>3. /\ all \in Seq(Key) /\ Len(all) = Len(l.keys) + 1 + Len(r.keys)
        /\ Increasing(all)
        /\ Bytes(l, all) = Bytes(l, l.keys) + KeySize[sep] + Bytes(l, r.keys)
    <3>1. Ascends(l.keys, <<sep>>) /\ Ascends(<<sep>>, r.keys)
      BY <2>1 DEF InOrder
    <3> QED
      BY <1>4, <2>1, <3>1, Threaded
  <2>4. C \in SUBSET Nat
    BY <2>1, InternalLinks
  <2> HIDE DEF C, all
  <2>5. /\ ch \in Seq(C) /\ Len(ch) = Len(l.keys) + 1 + Len(r.keys) + 1
        /\ Len(l.keys) \in Nat /\ Len(r.keys) \in Nat
    BY <2>1, <2>4, ChildrenJoined DEF C
  <2> HIDE DEF ch
  <2>6. Len(ch) = Len(all) + 1
    BY <2>3, <2>5
  <2> HIDE DEF q
  <2>7. /\ IsPage(q) /\ is_internal(q) /\ ~is_leaf(q) /\ Links(q) \subseteq C /\ q.keys = all
    BY <2>2, <2>3, <2>4, <2>5, <2>6, InternalMade
  <2>8. Bytes(l, r.keys) = entries_size(r) /\ entries_size(r) \in Nat
    BY <2>1, PageFits, BytesOf
  <2>9. /\ free_space(q) = free_space(l) + Bytes(l, l.keys) - Bytes(l, q.keys)
        /\ free_space(l) \in Int /\ Bytes(l, l.keys) \in Nat
    BY <2>1, <2>7, FreeAfter
  <2>10. KeySize[sep] \in Nat
    BY Usable
  <2>11. free_space(q) >= 0
    BY <1>1, <1>4, <2>3, <2>7, <2>8, <2>9, <2>10
  <2>12. GoodPage(q)
    BY <2>3, <2>7, <2>11, Checked
  <2>13. ~is_free(q)
    BY <2>7 DEF is_free, is_internal
  <2> QED
    BY <2>1, <2>7, <2>12, <2>13 DEF q, C
<1> QED
  BY <1>2, <1>3, <1>4

(* Two neighbours that may borrow from each other; what they share; how many  *)
(* entries of it are on neither of them.                                      *)
IsPair(l, r, sep) ==
    GoodPage(l) /\ GoodPage(r) /\ SameKind(l, r) /\ InOrder(l, r, sep) /\ sep \in Key
Pool(l, r, sep) == IF is_leaf(l) THEN l.keys \o r.keys ELSE l.keys \o <<sep>> \o r.keys
Gap(l) == IF is_leaf(l) THEN 0 ELSE 1

(* p: the first n of w on the left, the rest but the gap on the right.        *)
IsDivided(l, p, w, n) ==
    /\ IsPage(p.left) /\ IsPage(p.right)
    /\ is_leaf(p.left) <=> is_leaf(l)
    /\ is_leaf(p.right) <=> is_leaf(l)
    /\ p.left.keys = Upto(n, w) /\ p.right.keys = After(n + Gap(l), w)
    /\ ~is_leaf(l) => p.sep = w[n + 1]

LEMMA PairKinds ==
    ASSUME NEW l, NEW r, NEW sep, IsPair(l, r, sep)
    PROVE  /\ sep \in Key /\ IsPage(l) /\ IsPage(r) /\ Increasing(l.keys) /\ Increasing(r.keys)
           /\ l.keys \in Seq(Key) /\ r.keys \in Seq(Key)
           /\ Len(l.keys) \in Nat /\ Len(r.keys) \in Nat
           /\ free_space(l) >= 0 /\ free_space(r) >= 0
           /\ is_leaf(l) => IsLeafPage(l) /\ IsLeafPage(r) /\ is_leaf(r) /\ ~is_internal(l) /\ ~is_internal(r)
           /\ ~is_leaf(l) => /\ IsInternalPage(l) /\ IsInternalPage(r) /\ ~is_leaf(r)
                             /\ is_internal(l) /\ is_internal(r)
<1>1. GoodPage(l) /\ GoodPage(r) /\ l.kind = r.kind /\ ~is_free(l) /\ sep \in Key
  BY DEF IsPair, SameKind
<1>2. is_leaf(l) \/ is_internal(l)
  BY <1>1, GoodPages
<1>3. ~is_free(r) /\ (is_leaf(l) <=> is_leaf(r)) /\ (is_internal(l) <=> is_internal(r))
      /\ (is_leaf(l) <=> ~is_internal(l))
  BY <1>1, <1>2 DEF is_leaf, is_internal, is_free
<1>4. IsPage(l) /\ IsPage(r)
  BY <1>1, <1>2, <1>3, GoodPages
<1>5. Len(l.keys) \in Nat /\ Len(r.keys) \in Nat
  BY <1>4, PageFits
<1>6. /\ Increasing(l.keys) /\ Increasing(r.keys)
      /\ l.keys \in Seq(Key) /\ r.keys \in Seq(Key)
      /\ free_space(l) >= 0 /\ free_space(r) >= 0
  BY <1>1, <1>3, GoodPages
<1>7. is_leaf(l) => IsLeafPage(l) /\ IsLeafPage(r)
  BY <1>1, <1>3, GoodPages
<1>8. ~is_leaf(l) => IsInternalPage(l) /\ IsInternalPage(r)
  BY <1>1, <1>2, <1>3, GoodPages
<1> QED
  BY <1>1, <1>3, <1>4, <1>5, <1>6, <1>7, <1>8

LEMMA GapSum ==
    ASSUME NEW a \in Nat, NEW b \in Nat, NEW c, NEW g,
           (g = 0 /\ c = a + b) \/ (g = 1 /\ c = a + 1 + b)
    PROVE  c = a + g + b /\ c \in Nat
OBVIOUS

LEMMA Pooled ==
    ASSUME NEW l, NEW r, NEW sep, IsPair(l, r, sep)
    PROVE  LET w == Pool(l, r, sep)
           IN /\ w \in Seq(Key) /\ Increasing(w) /\ Len(w) \in Nat
              /\ Len(w) = Len(l.keys) + Gap(l) + Len(r.keys)
              /\ Gap(l) \in 0 .. 1 /\ (Gap(l) = 0 <=> is_leaf(l))
<1> DEFINE w == Pool(l, r, sep)
<1>1. /\ Increasing(l.keys) /\ Increasing(r.keys) /\ sep \in Key
      /\ l.keys \in Seq(Key) /\ r.keys \in Seq(Key)
      /\ Len(l.keys) \in Nat /\ Len(r.keys) \in Nat
  BY PairKinds
<1>2. Gap(l) \in 0 .. 1 /\ (Gap(l) = 0 <=> is_leaf(l))
  BY DEF Gap
<1>3. CASE is_leaf(l)
  <2>1. w = l.keys \o r.keys
    BY <1>3 DEF Pool
  <2>2. IsJoin(Key, l.keys, r.keys, w)
    BY <1>1, <2>1, JoinedAs
  <2>3. Ascends(l.keys, r.keys)
    BY <1>3 DEF IsPair, InOrder
  <2>4. Increasing(w)
    BY <1>1, <2>1, <2>3, JoinIncreases
  <2> HIDE DEF w
  <2>5. w \in Seq(Key) /\ Len(w) = Len(l.keys) + Len(r.keys) /\ Gap(l) = 0
    BY <1>2, <1>3, <2>2 DEF IsJoin
  <2>6. Len(w) = Len(l.keys) + Gap(l) + Len(r.keys) /\ Len(w) \in Nat
    BY <1>1, <2>5, GapSum
  <2> QED
    BY <1>2, <2>4, <2>5, <2>6 DEF w
<1>4. CASE ~is_leaf(l)
  <2>1. w = l.keys \o <<sep>> \o r.keys
    BY <1>4 DEF Pool
  <2>2. Ascends(l.keys, <<sep>>) /\ Ascends(<<sep>>, r.keys)
    BY <1>4 DEF IsPair, InOrder
  <2>3. w \in Seq(Key) /\ Increasing(w) /\ Len(w) = Len(l.keys) + 1 + Len(r.keys)
    BY <1>1, <2>1, <2>2, Threaded
  <2>4. Gap(l) = 1
    BY <1>4 DEF Gap
  <2> HIDE DEF w
  <2>5. Len(w) = Len(l.keys) + Gap(l) + Len(r.keys) /\ Len(w) \in Nat
    BY <1>1, <2>3, <2>4, GapSum
  <2> QED
    BY <1>2, <2>3, <2>5 DEF w
<1> QED
  BY <1>3, <1>4

(* The pair as it is.                                                         *)
LEMMA PairDivided ==
    ASSUME NEW l, NEW r, NEW sep, IsPair(l, r, sep)
    PROVE  IsDivided(l, [left |-> l, right |-> r, sep |-> sep], Pool(l, r, sep), Len(l.keys))
<1> DEFINE w == Pool(l, r, sep)
           n == Len(l.keys)
           m == Len(r.keys)
           g == Gap(l)
<1>1. /\ l.keys \in Seq(Key) /\ r.keys \in Seq(Key) /\ sep \in Key /\ IsPage(l) /\ IsPage(r)
      /\ n \in Nat /\ m \in Nat /\ (is_leaf(l) <=> is_leaf(r))
  BY PairKinds
<1>2. w \in Seq(Key) /\ Len(w) = n + g + m /\ g \in 0 .. 1 /\ Len(w) \in Nat
  BY Pooled
<1>3. /\ \A i \in 1 .. n : w[i] = l.keys[i]
      /\ \A i \in 1 .. m : w[n + g + i] = r.keys[i]
      /\ ~is_leaf(l) => w[n + 1] = sep
  <2>1. CASE is_leaf(l)
    <3>1. w = l.keys \o r.keys /\ g = 0
      BY <2>1 DEF Pool, Gap
    <3>2. IsJoin(Key, l.keys, r.keys, w)
      BY <1>1, <3>1, JoinedAs
    <3>3. /\ \A i \in 1 .. n : w[i] = l.keys[i]
          /\ \A i \in 1 .. m : w[n + i] = r.keys[i]
      BY <3>2 DEF IsJoin
    <3>4. n + g = n
      BY <1>1, <3>1
    <3> HIDE DEF w, g
    <3> QED
      BY <2>1, <3>3, <3>4
  <2>2. CASE ~is_leaf(l)
    <3> DEFINE one == <<sep>>
               a == l.keys \o one
    <3>1. w = a \o r.keys /\ g = 1
      BY <2>2 DEF Pool, Gap
    <3>2. one \in Seq(Key) /\ Len(one) = 1 /\ one[1] = sep /\ 1 \in 1 .. 1
      BY <1>1
    <3> HIDE DEF one
    <3>3. IsJoin(Key, l.keys, one, a)
      BY <1>1, <3>2, JoinedAs
    <3> HIDE DEF a, n, m
    <3>4. /\ a \in Seq(Key) /\ Len(a) = n + 1 /\ a[n + 1] = sep
          /\ \A i \in 1 .. n : a[i] = l.keys[i]
      BY <3>2, <3>3 DEF IsJoin, n
    <3>5. IsJoin(Key, a, r.keys, w)
      BY <1>1, <3>1, <3>4, JoinedAs
    <3> HIDE DEF w, g
    <3>6. /\ \A i \in 1 .. n + 1 : w[i] = a[i]
          /\ \A i \in 1 .. m : w[n + 1 + i] = r.keys[i]
      BY <3>4, <3>5 DEF IsJoin, m
    <3>7. n + 1 \in 1 .. n + 1 /\ \A i \in 1 .. n : i \in 1 .. n + 1
      BY <1>1
    <3> QED
      BY <2>2, <3>1, <3>4, <3>6, <3>7
  <2> QED
    BY <2>1, <2>2
<1> HIDE DEF w, g
<1> DEFINE u == Upto(n, w)
           v == After(n + g, w)
<1>4. n \in 0 .. Len(w) /\ n + g \in 0 .. Len(w) /\ Len(w) - (n + g) = m
  <2> HIDE DEF n, m
  <2> QED
    BY <1>1, <1>2
<1>p. w \in Seq(Key) /\ n \in 0 .. Len(w) /\ n + g \in 0 .. Len(w)
  BY <1>2, <1>4
<1>5. u \in Seq(Key) /\ Len(u) = n /\ \A i \in 1 .. n : u[i] = w[i]
  BY <1>p, Parts, ZenonT(30)
<1>6. v \in Seq(Key) /\ Len(v) = Len(w) - (n + g) /\ \A i \in 1 .. Len(w) - (n + g) : v[i] = w[n + g + i]
  BY <1>p, Parts, ZenonT(30)
<1> HIDE DEF u, v
<1>7. l.keys = u
  BY <1>1, <1>3, <1>5, SeqEqual
<1>8. r.keys = v
  BY <1>1, <1>3, <1>4, <1>6, SeqEqual
<1> QED
  BY <1>1, <1>3, <1>7, <1>8 DEF IsDivided, u, v, w, g

(* The links of both halves together.                                         *)
LinksOf(p) == Links(p.left) \cup Links(p.right)

(* The pair with the cut elsewhere.                                           *)
LEMMA CutDivided ==
    ASSUME NEW l, NEW r, NEW sep, IsPair(l, r, sep), NEW n \in Nat, n < Len(Pool(l, r, sep))
    PROVE  LET p == Redistributed(l, r, sep, n)
           IN /\ IsDivided(l, p, Pool(l, r, sep), n)
              /\ p.sep = Pool(l, r, sep)[n + 1] /\ p.sep \in Key
              /\ LinksOf(p) \subseteq Links(l) \cup Links(r)
              /\ is_leaf(l) => Links(p.left) = Links(l) /\ Links(p.right) = Links(r)
<1> DEFINE w == Pool(l, r, sep)
           g == Gap(l)
           u == Upto(n, w)
           v == After(n + g, w)
           p == Redistributed(l, r, sep, n)
<1>1. /\ IsPage(l) /\ IsPage(r) /\ Len(l.keys) \in Nat /\ Len(r.keys) \in Nat
      /\ is_leaf(l) => IsLeafPage(l) /\ IsLeafPage(r) /\ is_leaf(r) /\ ~is_internal(l) /\ ~is_internal(r)
      /\ ~is_leaf(l) => IsInternalPage(l) /\ IsInternalPage(r) /\ ~is_leaf(r)
  BY PairKinds
<1>2. /\ w \in Seq(Key) /\ Len(w) \in Nat /\ g \in 0 .. 1 /\ (g = 0 <=> is_leaf(l))
      /\ Len(w) = Len(l.keys) + g + Len(r.keys)
  BY Pooled
<1>3. n \in 0 .. Len(w) /\ n + g \in 0 .. Len(w) /\ n + 1 \in 1 .. Len(w)
  <2> DEFINE m == Len(w)
  <2>1. m \in Nat /\ n < m
    BY <1>2
  <2> HIDE DEF m, g
  <2>2. n \in 0 .. m /\ n + g \in 0 .. m /\ n + 1 \in 1 .. m
    BY <1>2, <2>1
  <2> QED
    BY <2>2 DEF m, g
<1>4. w[n + 1] \in Key
  BY <1>2, <1>3, ElementOfSeq
<1> HIDE DEF g
<1>5. u \in Seq(Key) /\ Len(u) = n
  BY <1>2, <1>3, Parts, ZenonT(30)
<1>6. v \in Seq(Key) /\ Len(v) = Len(w) - (n + g)
  BY <1>2, <1>3, Parts, ZenonT(30)
<1>7. CASE is_leaf(l)
  <2>1. w = l.keys \o r.keys
    BY <1>7 DEF Pool
  <2>2. p = [left |-> [l EXCEPT !.keys = Upto(n, w)], right |-> [r EXCEPT !.keys = After(n, w)], sep |-> w[n + 1]]
    BY <1>7, <2>1 DEF Redistributed
  <2>a. n + g = n
    BY <1>2, <1>7
  <2> HIDE DEF w, p
  <2>b. p = [left |-> [l EXCEPT !.keys = u], right |-> [r EXCEPT !.keys = v], sep |-> w[n + 1]]
    BY <2>2, <2>a
  <2> HIDE DEF u, v
  <2>3. p.left = [l EXCEPT !.keys = u] /\ p.right = [r EXCEPT !.keys = v] /\ p.sep = w[n + 1]
    BY <2>b
  <2>4. /\ IsPage(p.left) /\ is_leaf(p.left) /\ ~is_internal(p.left) /\ p.left.keys = u
        /\ Links(p.left) = Links(l)
    BY <1>1, <1>5, <1>7, <2>3 DEF IsLeafPage, IsPage, leaf, is_leaf, is_internal, Links
  <2>5. /\ IsPage(p.right) /\ is_leaf(p.right) /\ ~is_internal(p.right) /\ p.right.keys = v
        /\ Links(p.right) = Links(r)
    BY <1>1, <1>6, <1>7, <2>3 DEF IsLeafPage, IsPage, leaf, is_leaf, is_internal, Links
  <2>6. IsDivided(l, p, w, n)
    BY <1>7, <2>4, <2>5 DEF IsDivided, u, v, g
  <2> QED
    BY <1>4, <1>7, <2>3, <2>4, <2>5, <2>6 DEF LinksOf, p, w
<1>8. CASE ~is_leaf(l)
  <2> DEFINE C == Links(l) \cup Links(r)
             ch == l.children \o r.children
             x == Upto(n + 1, ch)
             y == After(n + 1, ch)
  <2>0. w = l.keys \o <<sep>> \o r.keys
    BY <1>8 DEF Pool
  <2>1. n + g = n + 1 /\ g = 1
    BY <1>2, <1>8
  <2>2. p = [left |-> internal(Upto(n, w), x), right |-> internal(After(n + 1, w), y), sep |-> w[n + 1]]
    BY <1>8, <2>0 DEF Redistributed
  <2>4. C \in SUBSET Nat
    BY <1>1, <1>8, InternalLinks
  <2> HIDE DEF C, w, p, x, y
  <2>b. p = [left |-> internal(u, x), right |-> internal(v, y), sep |-> w[n + 1]]
    BY <2>1, <2>2
  <2> HIDE DEF u, v
  <2>3. p.left = internal(u, x) /\ p.right = internal(v, y) /\ p.sep = w[n + 1]
    BY <2>b
  <2>5. ch \in Seq(C) /\ Len(ch) = Len(l.keys) + 1 + Len(r.keys) + 1
    BY <1>1, <1>8, <2>4, ChildrenJoined DEF C
  <2> HIDE DEF ch
  <2> DEFINE a == Len(l.keys)
             b == Len(r.keys)
             m == Len(w)
             c == Len(ch)
  <2>6. /\ a \in Nat /\ b \in Nat /\ m = a + 1 + b /\ c = a + 1 + b + 1 /\ n < m
    BY <1>1, <1>2, <2>1, <2>5 DEF w
  <2> HIDE DEF a, b, m, c
  <2>7. n + 1 \in 0 .. c /\ c - (n + 1) = (m - (n + 1)) + 1
    BY <2>6
  <2>8. x \in Seq(C) /\ Len(x) = n + 1
    BY <2>5, <2>7, Parts, ZenonT(30) DEF c, x
  <2>9. y \in Seq(C) /\ Len(y) = c - (n + 1)
    BY <2>5, <2>7, Parts, ZenonT(30) DEF c, y
  <2>10. Len(x) = Len(u) + 1 /\ Len(y) = Len(v) + 1
    BY <1>5, <1>6, <2>1, <2>7, <2>8, <2>9 DEF m
  <2>11. /\ IsPage(p.left) /\ is_internal(p.left) /\ ~is_leaf(p.left) /\ Links(p.left) \subseteq C
         /\ p.left.keys = u
    BY <1>5, <2>3, <2>4, <2>8, <2>10, InternalMade
  <2>12. /\ IsPage(p.right) /\ is_internal(p.right) /\ ~is_leaf(p.right) /\ Links(p.right) \subseteq C
         /\ p.right.keys = v
    BY <1>6, <2>3, <2>4, <2>9, <2>10, InternalMade
  <2>13. IsDivided(l, p, w, n)
    BY <1>8, <2>3, <2>11, <2>12 DEF IsDivided, u, v, g
  <2> QED
    BY <1>4, <1>8, <2>3, <2>11, <2>12, <2>13 DEF LinksOf, p, w, C
<1> QED
  BY <1>7, <1>8

(* The longer the part, the more it takes.                                    *)
LEMMA BytesShrink ==
    ASSUME NEW pg, is_leaf(pg) \/ is_internal(pg), NEW s \in Seq(Key),
           NEW i \in 0 .. Len(s), NEW j \in 0 .. Len(s), i <= j
    PROVE  /\ Bytes(pg, Upto(i, s)) <= Bytes(pg, Upto(j, s))
           /\ Bytes(pg, After(j, s)) <= Bytes(pg, After(i, s))
<1> DEFINE w == Like(pg, s)
<1>1. /\ Holds(w) /\ w.keys = s /\ (is_leaf(w) <=> is_leaf(pg)) /\ Len(s) \in Nat
  BY LikeHolds
<1> HIDE DEF w
<1>2. PrefixSize(w)[i] <= PrefixSize(w)[j]
  BY <1>1, SumsRise
<1>3. ASSUME NEW n \in 0 .. Len(s)
      PROVE  /\ Bytes(pg, Upto(n, s)) = PrefixSize(w)[n] /\ PrefixSize(w)[n] \in Nat
             /\ Bytes(pg, After(n, s)) = PrefixSize(w)[Len(s)] - PrefixSize(w)[n]
  <2>1. Upto(n, s) \in Seq(Key) /\ After(n, s) \in Seq(Key)
    BY Parts, ZenonT(30)
  <2> DEFINE u == Like(pg, Upto(n, s))
             v == Like(pg, After(n, s))
  <2>2. /\ Holds(u) /\ u.keys = Upto(n, s) /\ (is_leaf(u) <=> is_leaf(pg))
        /\ Holds(v) /\ v.keys = After(n, s) /\ (is_leaf(v) <=> is_leaf(pg))
    BY <2>1, LikeHolds
  <2> HIDE DEF u, v
  <2>3. entries_size(u) = PrefixSize(w)[n] /\ PrefixSize(w)[n] \in Nat
    BY <1>1, <2>2, UptoSize, PrefixSums
  <2>4. entries_size(v) = PrefixSize(w)[Len(s)] - PrefixSize(w)[n]
    BY <1>1, <2>2, AfterSize
  <2> QED
    BY <2>3, <2>4 DEF u, v, Bytes
<1>4. PrefixSize(w)[Len(s)] \in Nat
  BY <1>1, PrefixSums
<1> QED
  BY <1>2, <1>3, <1>4

(* What a half holds and has left; what it takes for the neighbour to give.   *)
LEMMA DividedFits ==
    ASSUME NEW l, NEW r, NEW sep, IsPair(l, r, sep), NEW n \in Nat,
           n + Gap(l) <= Len(Pool(l, r, sep)),
           NEW p, IsDivided(l, p, Pool(l, r, sep), n)
    PROVE  LET w == Pool(l, r, sep)
               e == n + Gap(l)
           IN /\ n \in 0 .. Len(w) /\ e \in 0 .. Len(w)
              /\ p.left.keys = Upto(n, w) /\ Len(p.left.keys) = n /\ Increasing(p.left.keys)
              /\ p.right.keys = After(e, w) /\ Len(p.right.keys) = Len(w) - e /\ Increasing(p.right.keys)
              /\ free_space(p.left) = USABLE(l) - Bytes(l, Upto(n, w))
              /\ free_space(p.right) = USABLE(l) - Bytes(l, After(e, w))
              /\ USABLE(l) \in Int /\ Bytes(l, Upto(n, w)) \in Nat /\ Bytes(l, After(e, w)) \in Nat
<1> DEFINE w == Pool(l, r, sep)
           e == n + Gap(l)
           m == Len(w)
<1>1. w \in Seq(Key) /\ Increasing(w) /\ m \in Nat /\ Gap(l) \in 0 .. 1
  BY Pooled
<1>2. n \in 0 .. m /\ e \in 0 .. m
  <2> HIDE DEF m
  <2> QED
    BY <1>1 DEF m
<1>3. /\ IsPage(p.left) /\ IsPage(p.right)
      /\ is_leaf(p.left) <=> is_leaf(l)
      /\ is_leaf(p.right) <=> is_leaf(l)
      /\ p.left.keys = Upto(n, w) /\ p.right.keys = After(e, w)
  BY DEF IsDivided
<1>4. IsPage(l)
  BY PairKinds
<1> HIDE DEF w, e, m
<1>5. /\ Len(Upto(n, w)) = n
      /\ Len(After(e, w)) = Len(w) - e
  BY <1>1, <1>2, Parts, ZenonT(30) DEF m
<1>6. Increasing(Upto(n, w)) /\ Increasing(After(e, w))
  BY <1>1, <1>2, PartsIncrease DEF m
<1>7. ASSUME NEW h \in {p.left, p.right}
      PROVE  /\ free_space(h) = USABLE(l) - Bytes(l, h.keys)
             /\ USABLE(l) \in Int /\ Bytes(l, h.keys) \in Nat
  <2>1. IsPage(h) /\ (is_leaf(h) <=> is_leaf(l))
    BY <1>3
  <2>2. /\ free_space(h) = free_space(l) + Bytes(l, l.keys) - Bytes(l, h.keys)
        /\ free_space(l) \in Int /\ Bytes(l, l.keys) \in Nat /\ Bytes(l, h.keys) \in Nat
    BY <1>4, <2>1, FreeAfter
  <2>3. free_space(l) = USABLE(l) - Bytes(l, l.keys) /\ USABLE(l) \in Int
    BY <1>4, PageFits
  <2> QED
    BY <2>2, <2>3
<1>8. /\ free_space(p.left) = USABLE(l) - Bytes(l, p.left.keys) /\ Bytes(l, p.left.keys) \in Nat
      /\ free_space(p.right) = USABLE(l) - Bytes(l, p.right.keys) /\ Bytes(l, p.right.keys) \in Nat
      /\ USABLE(l) \in Int
  BY <1>7
<1> QED
  BY <1>2, <1>3, <1>5, <1>6, <1>8 DEF w, e, m

LEMMA RightGives ==
    ASSUME NEW l, NEW r, NEW sep, IsPair(l, r, sep), NEW n \in Nat,
           n + Gap(l) <= Len(Pool(l, r, sep)),
           NEW p, IsDivided(l, p, Pool(l, r, sep), n), CanBorrowFromRight(p)
    PROVE  LET w == Pool(l, r, sep)
           IN /\ n + 2 <= Len(w)
              /\ free_space(p.left) >= EntrySize(l, w[n + 1])
<1> DEFINE w == Pool(l, r, sep)
           e == n + Gap(l)
           m == Len(w)
           d == Len(p.right.keys)
           k == IF is_leaf(p.left) THEN p.right.keys[1] ELSE p.sep
<1>1. /\ w \in Seq(Key) /\ m \in Nat /\ Gap(l) \in 0 .. 1 /\ (Gap(l) = 0 <=> is_leaf(l))
  BY Pooled
<1>2. /\ n \in 0 .. m /\ e \in 0 .. m /\ p.right.keys = After(e, w) /\ d = m - e
  BY DividedFits
<1>3. (is_leaf(p.left) <=> is_leaf(l)) /\ (is_leaf(p.right) <=> is_leaf(l)) /\ (~is_leaf(l) => p.sep = w[n + 1])
  BY DEF IsDivided
<1>4. d >= (IF is_leaf(p.right) THEN 2 ELSE 1) /\ free_space(p.left) >= EntrySize(p.left, k)
  BY Zenon DEF CanBorrowFromRight, CanBorrow
<1> HIDE DEF w, m, d
<1>5. n + 2 <= m /\ (is_leaf(l) => 1 \in 1 .. m - e /\ e + 1 = n + 1 /\ e = n)
  BY <1>1, <1>2, <1>3, <1>4
<1>6. k = w[n + 1]
  <2>1. CASE is_leaf(l)
    <3>1. k = After(e, w)[1]
      BY <1>2, <1>3, <2>1
    <3> HIDE DEF k, e
    <3>2. After(e, w)[1] = w[e + 1]
      BY <1>1, <1>2, <1>5, <2>1, Parts, ZenonT(30) DEF m
    <3> QED
      BY <1>5, <2>1, <3>1, <3>2
  <2> QED
    BY <1>3, <2>1
<1> HIDE DEF k
<1>7. EntrySize(p.left, k) = EntrySize(l, k)
  BY <1>3 DEF EntrySize
<1> QED
  BY <1>4, <1>5, <1>6, <1>7 DEF w, m

LEMMA LeftGives ==
    ASSUME NEW l, NEW r, NEW sep, IsPair(l, r, sep), NEW n \in Nat,
           n + Gap(l) <= Len(Pool(l, r, sep)),
           NEW p, IsDivided(l, p, Pool(l, r, sep), n), CanBorrowFromLeft(p)
    PROVE  LET w == Pool(l, r, sep)
           IN /\ n + Gap(l) >= 2
              /\ free_space(p.right) >= EntrySize(l, w[n + Gap(l)])
<1> DEFINE w == Pool(l, r, sep)
           e == n + Gap(l)
           m == Len(w)
           d == Len(p.left.keys)
           k == IF is_leaf(p.left) THEN p.left.keys[d] ELSE p.sep
<1>1. /\ w \in Seq(Key) /\ m \in Nat /\ Gap(l) \in 0 .. 1 /\ (Gap(l) = 0 <=> is_leaf(l))
  BY Pooled
<1>2. /\ n \in 0 .. m /\ e \in 0 .. m /\ p.left.keys = Upto(n, w) /\ d = n
  BY DividedFits
<1>3. (is_leaf(p.left) <=> is_leaf(l)) /\ (is_leaf(p.right) <=> is_leaf(l)) /\ (~is_leaf(l) => p.sep = w[n + 1])
  BY DEF IsDivided
<1>4. d >= (IF is_leaf(p.left) THEN 2 ELSE 1) /\ free_space(p.right) >= EntrySize(p.right, k)
  BY Zenon DEF CanBorrowFromLeft, CanBorrow
<1> HIDE DEF w, m, d
<1>5. e >= 2 /\ (is_leaf(l) => n \in 1 .. n /\ e = n) /\ (~is_leaf(l) => e = n + 1)
  BY <1>1, <1>2, <1>3, <1>4
<1>6. k = w[e]
  <2>1. CASE is_leaf(l)
    <3>1. k = Upto(n, w)[n]
      BY <1>2, <1>3, <2>1
    <3> HIDE DEF k, e
    <3>2. Upto(n, w)[n] = w[n]
      BY <1>1, <1>2, <1>5, <2>1, Parts, ZenonT(30) DEF m
    <3> QED
      BY <1>5, <2>1, <3>1, <3>2
  <2> QED
    BY <1>3, <1>5, <2>1
<1> HIDE DEF k
<1>7. EntrySize(p.right, k) = EntrySize(l, k)
  BY <1>3 DEF EntrySize
<1> QED
  BY <1>4, <1>5, <1>6, <1>7 DEF w, m, e

(* What a borrow leaves.                                                      *)
Borrowed(l, r, b) ==
    /\ GoodPage(b.left) /\ GoodPage(b.right) /\ b.sep \in Key
    /\ is_leaf(b.left) <=> is_leaf(l)
    /\ is_leaf(b.right) <=> is_leaf(l)
    /\ ~is_free(b.left) /\ ~is_free(b.right)
    /\ LinksOf(b) \subseteq Links(l) \cup Links(r)

LEMMA BorrowedWhen ==
    ASSUME NEW l, NEW r, NEW sep, IsPair(l, r, sep), NEW n \in Nat, n < Len(Pool(l, r, sep)),
           free_space(Redistributed(l, r, sep, n).left) >= 0,
           free_space(Redistributed(l, r, sep, n).right) >= 0
    PROVE  Borrowed(l, r, Redistributed(l, r, sep, n))
<1> DEFINE w == Pool(l, r, sep)
           b == Redistributed(l, r, sep, n)
           m == Len(w)
<1>1. /\ IsDivided(l, b, w, n) /\ b.sep \in Key /\ LinksOf(b) \subseteq Links(l) \cup Links(r)
  BY CutDivided
<1>2. n + Gap(l) <= m
  <2>1. m \in Nat /\ n < m /\ Gap(l) \in 0 .. 1
    BY Pooled
  <2> HIDE DEF m
  <2> QED
    BY <2>1
<1>3. Increasing(b.left.keys) /\ Increasing(b.right.keys)
  BY <1>1, <1>2, DividedFits
<1> HIDE DEF b, w, m
<1>4. /\ IsPage(b.left) /\ IsPage(b.right)
      /\ is_leaf(b.left) <=> is_leaf(l)
      /\ is_leaf(b.right) <=> is_leaf(l)
  BY <1>1 DEF IsDivided
<1>5. GoodPage(b.left) /\ GoodPage(b.right)
  BY <1>3, <1>4, Checked DEF b
<1>6. ~is_free(b.left) /\ ~is_free(b.right)
  BY <1>4, PageHolds
<1> QED
  BY <1>1, <1>4, <1>5, <1>6 DEF Borrowed, b

(* The first j of 1 .. K at which a borrow stops is at most J, when it does   *)
(* stop at J.                                                                 *)
FirstOf(S, K) == CHOOSE j \in 1 .. K : j \in S /\ \A i \in 1 .. j - 1 : i \notin S

LEMMA FirstDone ==
    ASSUME NEW S, NEW J \in Nat, J \in S, J >= 1, NEW K \in Nat, J <= K, NEW c,
           c = FirstOf(S, K)
    PROVE  c \in 1 .. J /\ c \in Nat /\ \A i \in 1 .. c - 1 : i \notin S
<1> DEFINE T == {j \in 1 .. J : j \in S}
           IsFirst(j) == j \in S /\ \A i \in 1 .. j - 1 : i \notin S
<1>1. T \in SUBSET Nat /\ J \in T
  OBVIOUS
<1>2. PICK n \in T : \A i \in T : n <= i
  BY <1>1, LeastNumber
<1>3. n \in 1 .. K /\ IsFirst(n)
  BY <1>2
<1>4. c \in 1 .. K /\ IsFirst(c)
  <2>1. c = CHOOSE j \in 1 .. K : IsFirst(j)
    BY DEF FirstOf
  <2> HIDE DEF IsFirst
  <2> QED
    BY <1>3, <2>1, Zenon
<1>5. c <= J
  <2>1. ASSUME J < c PROVE FALSE
    <3>1. J \in 1 .. c - 1
      BY <1>4, <2>1
    <3> QED
      BY <1>4, <3>1
  <2> QED
    BY <1>4, <2>1
<1> QED
  BY <1>4, <1>5

LEMMA BorrowedFromRight ==
    ASSUME NEW l, NEW r, NEW sep, IsPair(l, r, sep),
           CanBorrowFromRight([left |-> l, right |-> r, sep |-> sep])
    PROVE  LET b == bulk_borrow_from_right(l, r, sep)
           IN /\ Borrowed(l, r, b)
              /\ \E i \in Nat : i < Len(Pool(l, r, sep)) /\ b = Redistributed(l, r, sep, i)
<1> DEFINE w == Pool(l, r, sep)
           g == Gap(l)
           m == Len(w)
           n == Len(l.keys)
           K == Len(r.keys)
           J == m - 1 - n
           pair == [left |-> l, right |-> r, sep |-> sep]
           after(j) == Redistributed(l, r, sep, n + j)
           done(j) == \/ entries_size(after(j).left) >= entries_size(after(j).right)
                      \/ ~CanBorrowFromRight(after(j))
           S == {j \in Nat : done(j)}
           c == CHOOSE j \in 1 .. K : done(j) /\ \A i \in 1 .. j - 1 : ~done(i)
<1>1. /\ w \in Seq(Key) /\ m \in Nat /\ g \in 0 .. 1 /\ m = n + g + K /\ (g = 0 <=> is_leaf(l))
      /\ n \in Nat /\ K \in Nat /\ free_space(l) >= 0 /\ free_space(r) >= 0 /\ IsPage(l)
  BY Pooled, PairKinds
<1>2. IsDivided(l, pair, w, n)
  BY PairDivided
<1> HIDE DEF w, g, m, n, K
<1>3. n + g <= m
  BY <1>1
<1>4. n + 2 <= m /\ free_space(pair.left) >= EntrySize(l, w[n + 1])
  BY <1>1, <1>2, <1>3, RightGives DEF w, m, g
<1>5. J \in Nat /\ J >= 1 /\ J <= K
  BY <1>1, <1>4
<1>6. ASSUME NEW j \in 1 .. J
      PROVE  /\ n + j \in Nat /\ n + j < m /\ n + j + g <= m
             /\ IsDivided(l, after(j), w, n + j)
  <2>1. n + j \in Nat /\ n + j < m /\ n + j + g <= m
    BY <1>1
  <2>2. IsDivided(l, after(j), w, n + j)
    BY <2>1, CutDivided DEF w, m
  <2> QED
    BY <2>1, <2>2
<1>7. done(J)
  <2>1. ~CanBorrowFromRight(after(J))
    <3>1. n + J + 2 > m /\ J \in 1 .. J
      BY <1>1, <1>5
    <3> HIDE DEF J
    <3>2. /\ n + J \in Nat /\ n + J + g <= m /\ IsDivided(l, after(J), w, n + J)
      BY <1>6, <3>1
    <3> HIDE DEF after
    <3>3. ~(n + J + 2 <= m)
      BY <1>1, <1>5, <3>1
    <3> QED
      BY <3>2, <3>3, RightGives DEF w, m, g
  <2> QED
    BY <2>1
<1> HIDE DEF J
<1>8. c \in 1 .. J /\ c \in Nat /\ \A i \in 1 .. c - 1 : ~done(i)
  <2> HIDE DEF done
  <2>1. J \in S
    BY <1>5, <1>7
  <2>2. \A j \in 1 .. K : done(j) <=> j \in S
    OBVIOUS
  <2>3. \A j \in 1 .. K : \A i \in 1 .. j - 1 : ~done(i) <=> i \notin S
    BY <1>1
  <2> HIDE DEF S
  <2>4. c = FirstOf(S, K)
    BY <2>2, <2>3 DEF FirstOf
  <2> HIDE DEF c
  <2>6. c \in 1 .. J /\ c \in Nat /\ \A i \in 1 .. c - 1 : i \notin S
    BY <1>1, <1>5, <2>1, <2>4, FirstDone, Zenon
  <2>7. \A i \in 1 .. c - 1 : i \in 1 .. K /\ i \in Nat
    BY <1>1, <1>5, <2>6
  <2> QED
    BY <2>2, <2>6, <2>7
<1>9. bulk_borrow_from_right(l, r, sep) = after(c)
  BY Zenon DEF bulk_borrow_from_right, n, K
<1> HIDE DEF c
<1> DEFINE e == n + c
<1>10. /\ e \in Nat /\ e < m /\ e + g <= m /\ e \in 1 .. m /\ e - 1 \in 0 .. m /\ e - 1 < m
       /\ (e - 1) + 1 = e /\ IsDivided(l, after(c), w, e)
       /\ n + g \in 0 .. m /\ e + g \in 0 .. m /\ n + g <= e + g
  BY <1>1, <1>3, <1>6, <1>8
<1>11. USABLE(l) - Bytes(l, Upto(e - 1, w)) >= EntrySize(l, w[e])
  <2>1. CASE c = 1
    <3>1. e - 1 = n /\ n + 1 = e
      BY <1>1, <2>1
    <3>2. free_space(pair.left) = USABLE(l) - Bytes(l, Upto(n, w))
      BY <1>1, <1>2, <1>3, DividedFits DEF w, m, g
    <3>3. USABLE(l) - Bytes(l, Upto(n, w)) >= EntrySize(l, w[n + 1])
      BY <1>4, <3>2
    <3> HIDE DEF e
    <3> QED
      BY <3>1, <3>3
  <2>2. CASE c # 1
    <3> DEFINE i == c - 1
    <3>1. i \in 1 .. c - 1 /\ i \in 1 .. J /\ n + i = e - 1
      BY <1>1, <1>5, <1>8, <2>2
    <3> HIDE DEF i
    <3>2. CanBorrowFromRight(after(i))
      BY <1>8, <3>1
    <3>3. n + i \in Nat /\ n + i + g <= m /\ IsDivided(l, after(i), w, n + i)
      BY <1>6, <3>1
    <3> HIDE DEF after, e
    <3>4. free_space(after(i).left) >= EntrySize(l, w[n + i + 1])
      BY <3>2, <3>3, RightGives DEF w, m, g
    <3>5. free_space(after(i).left) = USABLE(l) - Bytes(l, Upto(n + i, w))
      BY <3>3, DividedFits DEF w, m, g
    <3>6. n + i + 1 = e
      BY <1>10, <3>1
    <3> QED
      BY <3>1, <3>4, <3>5, <3>6
  <2> QED
    BY <2>1, <2>2
<1> HIDE DEF e, after
<1>12. /\ free_space(after(c).left) = USABLE(l) - Bytes(l, Upto(e, w))
       /\ free_space(after(c).right) = USABLE(l) - Bytes(l, After(e + g, w))
       /\ USABLE(l) \in Int /\ Bytes(l, Upto(e, w)) \in Nat /\ Bytes(l, After(e + g, w)) \in Nat
  BY <1>10, DividedFits DEF w, m, g
<1>13. is_leaf(l) \/ is_internal(l)
  BY <1>1, PageHolds
<1>14. /\ Bytes(l, Upto(e, w)) = Bytes(l, Upto(e - 1, w)) + EntrySize(l, w[e])
       /\ Bytes(l, Upto(e - 1, w)) \in Nat
  <2> DEFINE f == e - 1
  <2>1. f \in 0 .. Len(w) /\ f < Len(w) /\ f + 1 = e
    BY <1>10 DEF m
  <2> HIDE DEF f
  <2>2. /\ Bytes(l, Upto(f + 1, w)) = Bytes(l, Upto(f, w)) + EntrySize(l, w[f + 1])
        /\ Bytes(l, Upto(f, w)) \in Nat
    BY <1>1, <1>13, <2>1, BytesCut
  <2> QED
    BY <2>1, <2>2 DEF f
<1>15. free_space(after(c).left) >= 0
  <2> DEFINE x == EntrySize(l, w[e])
             y == Bytes(l, Upto(e - 1, w))
             z == Bytes(l, Upto(e, w))
             U == USABLE(l)
  <2>1. U \in Int /\ y \in Nat /\ z \in Nat /\ U - y >= x /\ z = y + x
    BY <1>11, <1>12, <1>14
  <2>2. x \in Int
    <3>1. w[e] \in Key
      BY <1>1, <1>10, ElementOfSeq DEF m
    <3>2. RowSize[w[e]] \in Nat /\ KeySize[w[e]] \in Nat
      BY <3>1, Usable
    <3> QED
      BY <3>2 DEF EntrySize
  <2> HIDE DEF x, y, z, U
  <2>3. U - z >= 0
    BY <2>1, <2>2
  <2> QED
    BY <1>12, <2>3 DEF U, z
<1>16. free_space(after(c).right) >= 0
  <2>1. Bytes(l, After(e + g, w)) <= Bytes(l, After(n + g, w))
    BY <1>1, <1>10, <1>13, BytesShrink DEF m
  <2>2. /\ free_space(pair.right) = USABLE(l) - Bytes(l, After(n + g, w))
        /\ Bytes(l, After(n + g, w)) \in Nat
    BY <1>1, <1>2, <1>3, DividedFits DEF w, m, g
  <2>3. free_space(pair.right) >= 0
    BY <1>1
  <2> QED
    BY <1>12, <2>1, <2>2, <2>3
<1>17. Borrowed(l, r, after(c))
  BY <1>10, <1>15, <1>16, BorrowedWhen DEF after, e, m, w
<1>18. e \in Nat /\ e < Len(Pool(l, r, sep)) /\ after(c) = Redistributed(l, r, sep, e)
  BY <1>10 DEF after, e, m, w
<1> QED
  BY <1>9, <1>17, <1>18

LEMMA BorrowedFromLeft ==
    ASSUME NEW l, NEW r, NEW sep, IsPair(l, r, sep),
           CanBorrowFromLeft([left |-> l, right |-> r, sep |-> sep])
    PROVE  LET b == bulk_borrow_from_left(l, r, sep)
           IN /\ Borrowed(l, r, b)
              /\ \E i \in Nat : i < Len(Pool(l, r, sep)) /\ b = Redistributed(l, r, sep, i)
<1> DEFINE w == Pool(l, r, sep)
           g == Gap(l)
           m == Len(w)
           n == Len(l.keys)
           K == Len(l.keys)
           L == Len(r.keys)
           J == n + g - 1
           pair == [left |-> l, right |-> r, sep |-> sep]
           after(j) == Redistributed(l, r, sep, n - j)
           done(j) == \/ entries_size(after(j).right) >= entries_size(after(j).left)
                      \/ ~CanBorrowFromLeft(after(j))
           S == {j \in Nat : done(j)}
           c == CHOOSE j \in 1 .. K : done(j) /\ \A i \in 1 .. j - 1 : ~done(i)
<1>1. /\ w \in Seq(Key) /\ m \in Nat /\ g \in 0 .. 1 /\ m = n + g + L /\ (g = 0 <=> is_leaf(l))
      /\ n \in Nat /\ L \in Nat /\ K = n /\ free_space(l) >= 0 /\ free_space(r) >= 0 /\ IsPage(l)
  BY Pooled, PairKinds
<1>2. IsDivided(l, pair, w, n)
  BY PairDivided
<1> HIDE DEF w, g, m, n, K, L
<1>3. n + g <= m
  BY <1>1
<1>4. n + g >= 2 /\ free_space(pair.right) >= EntrySize(l, w[n + g])
  BY <1>1, <1>2, <1>3, LeftGives DEF w, m, g
<1>5. J \in Nat /\ J >= 1 /\ J <= K /\ K \in Nat
  BY <1>1, <1>4
<1>6. ASSUME NEW j \in 1 .. J
      PROVE  /\ n - j \in Nat /\ n - j < m /\ n - j + g <= m
             /\ IsDivided(l, after(j), w, n - j)
  <2>1. n - j \in Nat /\ n - j < m /\ n - j + g <= m
    BY <1>1, <1>3, <1>4
  <2>2. IsDivided(l, after(j), w, n - j)
    BY <2>1, CutDivided DEF w, m
  <2> QED
    BY <2>1, <2>2
<1>7. done(J)
  <2>1. ~CanBorrowFromLeft(after(J))
    <3>1. n - J + g = 1 /\ J \in 1 .. J
      BY <1>1, <1>5
    <3> HIDE DEF J
    <3>2. /\ n - J \in Nat /\ n - J + g <= m /\ IsDivided(l, after(J), w, n - J)
      BY <1>6, <3>1
    <3> HIDE DEF after
    <3>3. ~(n - J + g >= 2)
      BY <3>1
    <3> QED
      BY <3>2, <3>3, LeftGives DEF w, m, g
  <2> QED
    BY <2>1
<1> HIDE DEF J
<1>8. c \in 1 .. J /\ c \in Nat /\ \A i \in 1 .. c - 1 : ~done(i)
  <2> HIDE DEF done
  <2>1. J \in S
    BY <1>5, <1>7
  <2>2. \A j \in 1 .. K : done(j) <=> j \in S
    BY <1>1
  <2>3. \A j \in 1 .. K : \A i \in 1 .. j - 1 : ~done(i) <=> i \notin S
    BY <1>1
  <2> HIDE DEF S
  <2>4. c = FirstOf(S, K)
    BY <2>2, <2>3 DEF FirstOf
  <2> HIDE DEF c
  <2>6. c \in 1 .. J /\ c \in Nat /\ \A i \in 1 .. c - 1 : i \notin S
    BY <1>5, <2>1, <2>4, FirstDone, Zenon
  <2>7. \A i \in 1 .. c - 1 : i \in 1 .. K /\ i \in Nat
    BY <1>1, <1>5, <2>6
  <2> QED
    BY <2>2, <2>6, <2>7
<1>9. bulk_borrow_from_left(l, r, sep) = after(c)
  BY Zenon DEF bulk_borrow_from_left, n, K
<1> HIDE DEF c
<1> DEFINE e == n - c
           f == e + g
<1>10. /\ e \in Nat /\ e < m /\ e + g <= m /\ f \in 0 .. m /\ f < m /\ f + 1 \in 1 .. m /\ e \in 0 .. m
       /\ f + 1 \in 0 .. m /\ IsDivided(l, after(c), w, e)
       /\ n \in 0 .. m /\ e <= n
  BY <1>1, <1>3, <1>5, <1>6, <1>8
<1>11. USABLE(l) - Bytes(l, After(f + 1, w)) >= EntrySize(l, w[f + 1])
  <2>1. CASE c = 1
    <3>1. f + 1 = n + g
      BY <1>1, <2>1
    <3>2. free_space(pair.right) = USABLE(l) - Bytes(l, After(n + g, w))
      BY <1>1, <1>2, <1>3, DividedFits DEF w, m, g
    <3>3. USABLE(l) - Bytes(l, After(n + g, w)) >= EntrySize(l, w[n + g])
      BY <1>4, <3>2
    <3> HIDE DEF f
    <3> QED
      BY <3>1, <3>3
  <2>2. CASE c # 1
    <3> DEFINE i == c - 1
    <3>1. i \in 1 .. c - 1 /\ i \in 1 .. J /\ n - i + g = f + 1
      BY <1>1, <1>5, <1>8, <2>2
    <3> HIDE DEF i
    <3>2. CanBorrowFromLeft(after(i))
      BY <1>8, <3>1
    <3>3. n - i \in Nat /\ n - i + g <= m /\ IsDivided(l, after(i), w, n - i)
      BY <1>6, <3>1
    <3> HIDE DEF after, f
    <3>4. free_space(after(i).right) >= EntrySize(l, w[n - i + g])
      BY <3>2, <3>3, LeftGives DEF w, m, g
    <3>5. free_space(after(i).right) = USABLE(l) - Bytes(l, After(n - i + g, w))
      BY <3>3, DividedFits DEF w, m, g
    <3> QED
      BY <3>1, <3>4, <3>5
  <2> QED
    BY <2>1, <2>2
<1> HIDE DEF after
<1>12. /\ free_space(after(c).left) = USABLE(l) - Bytes(l, Upto(e, w))
       /\ free_space(after(c).right) = USABLE(l) - Bytes(l, After(f, w))
       /\ USABLE(l) \in Int /\ Bytes(l, Upto(e, w)) \in Nat /\ Bytes(l, After(f, w)) \in Nat
  <2> HIDE DEF e
  <2> QED
    BY <1>10, DividedFits DEF w, m, g
<1> HIDE DEF e, f
<1>13. is_leaf(l) \/ is_internal(l)
  BY <1>1, PageHolds
<1>14. /\ Bytes(l, After(f, w)) = EntrySize(l, w[f + 1]) + Bytes(l, After(f + 1, w))
       /\ Bytes(l, After(f + 1, w)) \in Nat
  <2>1. f \in 0 .. Len(w) /\ f < Len(w) /\ f + 1 \in 0 .. Len(w)
    BY <1>10 DEF m
  <2>2. Bytes(l, After(f, w)) = EntrySize(l, w[f + 1]) + Bytes(l, After(f + 1, w))
    BY <1>1, <1>13, <2>1, BytesCut
  <2>3. Bytes(l, After(f + 1, w)) \in Nat
    BY <1>1, <1>13, <2>1, BytesCut
  <2> QED
    BY <2>2, <2>3
<1>15. free_space(after(c).right) >= 0
  <2> DEFINE x == EntrySize(l, w[f + 1])
             y == Bytes(l, After(f + 1, w))
             z == Bytes(l, After(f, w))
             U == USABLE(l)
  <2>1. U \in Int /\ y \in Nat /\ z \in Nat /\ U - y >= x /\ z = x + y
    BY <1>11, <1>12, <1>14
  <2>2. x \in Int
    <3>1. w[f + 1] \in Key
      BY <1>1, <1>10, ElementOfSeq DEF m
    <3>2. RowSize[w[f + 1]] \in Nat /\ KeySize[w[f + 1]] \in Nat
      BY <3>1, Usable
    <3> QED
      BY <3>2 DEF EntrySize
  <2> HIDE DEF x, y, z, U
  <2>3. U - z >= 0
    BY <2>1, <2>2
  <2> QED
    BY <1>12, <2>3 DEF U, z
<1>16. free_space(after(c).left) >= 0
  <2>1. Bytes(l, Upto(e, w)) <= Bytes(l, Upto(n, w))
    BY <1>1, <1>10, <1>13, BytesShrink DEF m
  <2>2. /\ free_space(pair.left) = USABLE(l) - Bytes(l, Upto(n, w))
        /\ Bytes(l, Upto(n, w)) \in Nat
    BY <1>1, <1>2, <1>3, DividedFits DEF w, m, g
  <2>3. free_space(pair.left) >= 0
    BY <1>1
  <2> QED
    BY <1>12, <2>1, <2>2, <2>3
<1>17. Borrowed(l, r, after(c))
  BY <1>10, <1>15, <1>16, BorrowedWhen DEF after, e, m, w
<1>18. e \in Nat /\ e < Len(Pool(l, r, sep)) /\ after(c) = Redistributed(l, r, sep, e)
  BY <1>10 DEF after, e, m, w
<1> QED
  BY <1>9, <1>17, <1>18

(* Page::bulk_borrow_from_right and _from_left: once the first move succeeds*)
(* they stop, both pages can be written, and the separator between them is  *)
(* one of the pair's keys.                                                  *)
THEOREM BorrowKeepsPages ==
    ASSUME NEW l, NEW r, NEW sep, IsPair(l, r, sep)
    PROVE  LET pair == [left |-> l, right |-> r, sep |-> sep]
           IN /\ CanBorrowFromRight(pair) => Borrowed(l, r, bulk_borrow_from_right(l, r, sep))
              /\ CanBorrowFromLeft(pair) => Borrowed(l, r, bulk_borrow_from_left(l, r, sep))
BY BorrowedFromRight, BorrowedFromLeft, Zenon

-----------------------------------------------------------------------------
(* Splitting.                                                                 *)

(* A page to which an entry is refused for want of room.                      *)
IsFull(pg) ==
    \/ is_leaf(pg) /\ \E k \in Key : ~can_insert(pg, k)
    \/ is_internal(pg) /\ \E k \in Key : ~can_insert_separator(pg, k)

LEMMA FullPages ==
    ASSUME NEW pg, GoodPage(pg), IsFull(pg)
    PROVE  /\ IsPage(pg) /\ Holds(pg) /\ Increasing(pg.keys) /\ pg.keys \in Seq(Key) /\ ~is_free(pg)
           /\ (is_leaf(pg) <=> ~is_internal(pg))
           /\ Len(pg.keys) \in Nat
           /\ SplitOff(pg) \in 1 .. Len(pg.keys) - (IF is_leaf(pg) THEN 1 ELSE 2)
           /\ free_space(pg) >= 0 /\ CanSplit(pg)
<1>1. is_leaf(pg) \/ is_internal(pg)
  BY DEF IsFull
<1>2. IsPage(pg) /\ free_space(pg) >= 0
  BY <1>1, GoodPages
<1>3. /\ Holds(pg) /\ (is_leaf(pg) <=> ~is_internal(pg)) /\ ~is_free(pg) /\ Len(pg.keys) \in Nat
      /\ pg.keys \in Seq(Key)
  BY <1>2, PageHolds DEF Holds
<1>4. Increasing(pg.keys)
  BY <1>3, GoodPages
<1>5. free_space(pg) < MAX_ENTRY_SIZE(pg)
  <2>1. free_space(pg) \in Int
    BY <1>3, FreeSpace
  <2>2. CASE is_leaf(pg)
    <3>1. PICK k \in Key : ~can_insert(pg, k)
      BY <1>3, <2>2 DEF IsFull
    <3>2. ~(RowSize[k] <= free_space(pg))
      BY <2>2, <3>1 DEF can_insert
    <3>3. RowSize[k] \in Nat /\ RowSize[k] <= MAX_ENTRY_SIZE(pg) /\ MAX_ENTRY_SIZE(pg) \in Nat
      BY <2>2, Usable DEF MAX_ENTRY_SIZE, USABLE
    <3> QED
      BY <2>1, <3>2, <3>3
  <2>3. CASE is_internal(pg)
    <3>1. PICK k \in Key : ~can_insert_separator(pg, k)
      BY <1>3, <2>3 DEF IsFull
    <3>2. ~(KeySize[k] <= free_space(pg))
      BY <2>3, <3>1 DEF can_insert_separator
    <3>3. KeySize[k] \in Nat /\ KeySize[k] <= MAX_ENTRY_SIZE(pg) /\ MAX_ENTRY_SIZE(pg) \in Nat
      <4>1. MAX_ENTRY_SIZE(pg) = INTERNAL_USABLE \div 4
        BY <1>3, <2>3 DEF MAX_ENTRY_SIZE, USABLE
      <4> QED
        BY <4>1, Usable
    <3> QED
      BY <2>1, <3>2, <3>3
  <2> QED
    BY <1>1, <2>2, <2>3
<1>6. Len(pg.keys) >= 4 /\ SplitOff(pg) \in 1 .. Len(pg.keys) - (IF is_leaf(pg) THEN 1 ELSE 2)
  BY <1>2, <1>3, <1>5, SplitSizes
<1>7. CanSplit(pg)
  BY <1>3, <1>6 DEF CanSplit
<1> QED
  BY <1>2, <1>3, <1>4, <1>6, <1>7

(* A page with part of the keys has room for them.                            *)
LEMMA PartFits ==
    ASSUME NEW pg, IsPage(pg), free_space(pg) >= 0, Increasing(pg.keys),
           NEW n \in 0 .. Len(pg.keys), NEW q, IsPage(q), is_leaf(q) <=> is_leaf(pg),
           q.keys = Upto(n, pg.keys) \/ q.keys = After(n, pg.keys)
    PROVE  GoodPage(q)
<1>1. Holds(pg) /\ pg.keys \in Seq(Key)
  BY PageFits
<1>2. /\ Bytes(pg, pg.keys) = Bytes(pg, Upto(n, pg.keys)) + Bytes(pg, After(n, pg.keys))
      /\ Bytes(pg, Upto(n, pg.keys)) \in Nat /\ Bytes(pg, After(n, pg.keys)) \in Nat
  BY <1>1, BytesCut DEF Holds
<1>3. Increasing(q.keys)
  BY <1>1, PartsIncrease
<1>4. /\ free_space(q) = free_space(pg) + Bytes(pg, pg.keys) - Bytes(pg, q.keys)
      /\ free_space(pg) \in Int
  BY FreeAfter
<1>5. free_space(q) >= 0
  <2> DEFINE x == Bytes(pg, q.keys)
  <2>1. x = Bytes(pg, Upto(n, pg.keys)) \/ x = Bytes(pg, After(n, pg.keys))
    OBVIOUS
  <2> HIDE DEF x
  <2>2. free_space(q) = free_space(pg) + Bytes(pg, pg.keys) - x
    BY <1>4 DEF x
  <2> QED
    BY <1>2, <1>4, <2>1, <2>2
<1> QED
  BY <1>3, <1>5, Checked

(* Page::split_page of a full page: both halves can be written, and they are*)
(* of its kind.                                                             *)
THEOREM SplitKeepsPages ==
    ASSUME NEW pg, GoodPage(pg), IsFull(pg), NEW self \in Nat, NEW new \in Nat
    PROVE  LET s == split_page(pg, self, new)
           IN /\ GoodPage(s.left) /\ GoodPage(s.right) /\ s.sep \in Key
              /\ is_leaf(pg) => is_leaf(s.left) /\ is_leaf(s.right)
              /\ is_internal(pg) => is_internal(s.left) /\ is_internal(s.right)
              /\ LinksOf(s) \subseteq Links(pg) \cup {self, new}
              /\ is_leaf(pg) => s.right.next = pg.next
<1> DEFINE s == split_page(pg, self, new)
           n == SplitOff(pg)
           m == Len(pg.keys)
           u == Upto(n, pg.keys)
<1>1. /\ IsPage(pg) /\ Holds(pg) /\ Increasing(pg.keys) /\ pg.keys \in Seq(Key)
      /\ (is_leaf(pg) <=> ~is_internal(pg)) /\ m \in Nat
      /\ n \in 1 .. m - (IF is_leaf(pg) THEN 1 ELSE 2)
      /\ free_space(pg) >= 0
  BY FullPages
<1> HIDE DEF n
<1>2. n \in 0 .. m /\ n + 1 \in 1 .. m /\ n + 1 \in 0 .. m
  <2> HIDE DEF m
  <2> QED
    BY <1>1
<1>3. pg.keys[n + 1] \in Key
  BY <1>1, <1>2, ElementOfSeq
<1>4. u \in Seq(Key) /\ Len(u) = n
  BY <1>1, <1>2, Parts, ZenonT(30)
<1>5. CASE is_leaf(pg)
  <2> DEFINE v == After(n, pg.keys)
  <2>1. v \in Seq(Key)
    BY <1>1, <1>2, Parts, ZenonT(30)
  <2>2. s = [left |-> leaf(u, new, pg.prev), right |-> leaf(v, pg.next, self), sep |-> pg.keys[n + 1]]
    BY <1>5 DEF split_page, n
  <2>3. pg.next \in Nat \cup {Nil} /\ pg.prev \in Nat \cup {Nil}
    BY <1>1, <1>5 DEF IsPage, IsLeafPage, IsInternalPage
  <2> HIDE DEF s, u, v
  <2>4. /\ IsPage(s.left) /\ is_leaf(s.left) /\ ~is_internal(s.left) /\ s.left.keys = u
        /\ s.left.next = new /\ s.left.prev = pg.prev
    BY <1>4, <2>2, <2>3 DEF IsPage, IsLeafPage, leaf, is_leaf, is_internal
  <2>5. /\ IsPage(s.right) /\ is_leaf(s.right) /\ ~is_internal(s.right) /\ s.right.keys = v
        /\ s.right.next = pg.next /\ s.right.prev = self
    BY <2>1, <2>2, <2>3 DEF IsPage, IsLeafPage, leaf, is_leaf, is_internal
  <2>6. s.sep = pg.keys[n + 1]
    BY <2>2
  <2>7. GoodPage(s.left)
    BY <1>1, <1>2, <1>5, <2>4, PartFits DEF u
  <2>8. GoodPage(s.right)
    BY <1>1, <1>2, <1>5, <2>5, PartFits DEF v
  <2>9. Links(pg) = {pg.next, pg.prev} \ {Nil} /\ Links(s.left) = {new, pg.prev} \ {Nil}
        /\ Links(s.right) = {pg.next, self} \ {Nil}
    BY <1>1, <1>5, <2>4, <2>5 DEF Links
  <2>10. LinksOf(s) \subseteq Links(pg) \cup {self, new}
    BY <2>9 DEF LinksOf
  <2> QED
    BY <1>1, <1>3, <1>5, <2>4, <2>5, <2>6, <2>7, <2>8, <2>10 DEF s
<1>6. CASE is_internal(pg)
  <2> DEFINE v == After(n + 1, pg.keys)
             C == Links(pg)
             x == Upto(n + 1, pg.children)
             y == After(n + 1, pg.children)
  <2>1. v \in Seq(Key) /\ Len(v) = m - (n + 1)
    BY <1>1, <1>2, Parts, ZenonT(30)
  <2>2. s = [left |-> internal(u, x), right |-> internal(v, y), sep |-> pg.keys[n + 1]]
    BY <1>1, <1>6 DEF split_page, n
  <2>3. IsInternalPage(pg) /\ C \in SUBSET Nat
    BY <1>6, GoodPages, InternalLinks
  <2>4. pg.children \in Seq(C) /\ Len(pg.children) = m + 1
    BY <2>3, ChildrenAre
  <2> HIDE DEF C, m
  <2>5. n + 1 \in 0 .. m + 1 /\ (m + 1) - (n + 1) = (m - (n + 1)) + 1
    BY <1>1, <1>2
  <2>6. x \in Seq(C) /\ Len(x) = n + 1
    BY <2>4, <2>5, Parts, ZenonT(30)
  <2>7. y \in Seq(C) /\ Len(y) = (m + 1) - (n + 1)
    <3>1. n + 1 \in 0 .. Len(pg.children)
      BY <2>4, <2>5
    <3>2. y \in Seq(C) /\ Len(y) = Len(pg.children) - (n + 1)
      BY <2>4, <3>1, Parts, ZenonT(30)
    <3> QED
      BY <2>4, <3>2
  <2> HIDE DEF s, u, v, x, y
  <2>8. Len(x) = Len(u) + 1 /\ Len(y) = Len(v) + 1
    BY <1>4, <2>1, <2>5, <2>6, <2>7
  <2>9. s.left = internal(u, x) /\ s.right = internal(v, y) /\ s.sep = pg.keys[n + 1]
    BY <2>2
  <2>10. /\ IsPage(s.left) /\ is_internal(s.left) /\ ~is_leaf(s.left) /\ Links(s.left) \subseteq C
         /\ s.left.keys = u
    BY <1>4, <2>3, <2>6, <2>8, <2>9, InternalMade
  <2>11. /\ IsPage(s.right) /\ is_internal(s.right) /\ ~is_leaf(s.right) /\ Links(s.right) \subseteq C
         /\ s.right.keys = v
    BY <2>1, <2>3, <2>7, <2>8, <2>9, InternalMade
  <2>12. GoodPage(s.left)
    BY <1>1, <1>2, <1>6, <2>10, PartFits DEF u, m
  <2>13. GoodPage(s.right)
    BY <1>1, <1>2, <1>6, <2>11, PartFits DEF v, m
  <2> QED
    BY <1>1, <1>3, <1>6, <2>9, <2>10, <2>11, <2>12, <2>13 DEF s, C, LinksOf
<1> QED
  BY <1>1, <1>5, <1>6

-----------------------------------------------------------------------------
(* Searching.                                                                 *)

LEMMA ChildFound ==
    ASSUME NEW pg, IsInternalPage(pg), NEW i \in 0 .. Len(pg.keys)
    PROVE  child_at(pg, i) \in Links(pg)
<1> DEFINE m == Len(pg.keys)
<1>1. m \in Nat /\ Len(pg.children) = m + 1 /\ is_internal(pg) /\ DOMAIN pg.children = 1 .. Len(pg.children)
  BY DEF IsInternalPage
<1> HIDE DEF m
<1>2. i \in 0 .. Len(pg.children) - 1 /\ i + 1 \in 1 .. Len(pg.children)
  BY <1>1 DEF m
<1> QED
  BY <1>1, <1>2 DEF child_at, Links

LEMMA ChildPosition ==
    ASSUME NEW pg, Holds(pg), Increasing(pg.keys), NEW k \in Key
    PROVE  find_child_index(pg, k) \in 0 .. Len(pg.keys)
<1> DEFINE m == Len(pg.keys)
           n == Below(pg.keys, k)
<1>1. n \in 0 .. m /\ m \in Nat
  BY WithKeyIs
<1>2. HasKey(pg, k) => n < m
  BY PlaceOfKey
<1>3. find_child_index(pg, k) = n + (IF HasKey(pg, k) THEN 1 ELSE 0)
  BY DEF find_child_index
<1> HIDE DEF m, n
<1>4. find_child_index(pg, k) \in 0 .. m
  BY <1>1, <1>2, <1>3
<1> QED
  BY <1>4 DEF m

LEMMA SiblingPicked ==
    ASSUME NEW pg, IsInternalPage(pg), NEW i \in 0 .. Len(pg.keys)
    PROVE  LET sib == pick_sibling(pg, i)
           IN \/ sib = NoSibling
              \/ sib.id \in Links(pg) /\ sib.sep \in Key /\ sib.side \in {"left", "right"}
<1> DEFINE m == Len(pg.keys)
           sib == pick_sibling(pg, i)
<1>1. m \in Nat /\ i \in Nat /\ i <= m /\ Len(pg.children) = m + 1 /\ pg.keys \in Seq(Key)
  BY DEF IsInternalPage
<1> HIDE DEF m
<1>2. CASE child_at(pg, i + 1) # Nil
  <2>1. i + 1 \in 0 .. Len(pg.children) - 1
    BY <1>2 DEF child_at
  <2>2. i + 1 \in 0 .. m /\ i + 1 \in 1 .. m
    BY <1>1, <2>1
  <2>3. child_at(pg, i + 1) \in Links(pg) /\ pg.keys[i + 1] \in Key
    BY <1>1, <2>2, ChildFound, ElementOfSeq DEF m
  <2>4. sib = [id |-> child_at(pg, i + 1), sep |-> pg.keys[i + 1], side |-> "right"]
    BY <1>2 DEF pick_sibling
  <2> QED
    BY <2>3, <2>4
<1>3. CASE ~(child_at(pg, i + 1) # Nil) /\ i > 0
  <2>1. i - 1 \in 0 .. m /\ i \in 1 .. m
    BY <1>1, <1>3
  <2>2. child_at(pg, i - 1) \in Links(pg) /\ pg.keys[i] \in Key
    BY <1>1, <2>1, ChildFound, ElementOfSeq DEF m
  <2>3. sib = [id |-> child_at(pg, i - 1), sep |-> pg.keys[i], side |-> "left"]
    BY <1>3 DEF pick_sibling
  <2> QED
    BY <2>2, <2>3
<1>4. CASE ~(child_at(pg, i + 1) # Nil) /\ ~(i > 0)
  BY <1>4 DEF pick_sibling
<1> QED
  BY <1>2, <1>3, <1>4

-----------------------------------------------------------------------------
(* Vacuum's bulk load.                                                        *)

(* Pages in the making, and what they are made from.                          *)
LeafMade == [low : Key,
             page : {pg \in [kind : {"leaf"}, keys : Seq(Key), next : {Nil}, prev : {Nil}] :
                        free_space(pg) >= 0 /\ pg.keys # <<>>}]
InternalMadeOf(C) == [low : Key,
                      page : {pg \in [kind : {"internal"}, keys : Seq(Key), children : Seq(C)] :
                                 free_space(pg) >= 0 /\ Len(pg.children) = Len(pg.keys) + 1}]
Made(kind, C) == IF kind = "leaf" THEN LeafMade ELSE InternalMadeOf(C)
Items(kind, C) == IF kind = "leaf" THEN [low : Key] ELSE [low : Key, id : C]

LEMMA NoBytes ==
    ASSUME NEW pg, is_leaf(pg) \/ is_internal(pg)
    PROVE  Bytes(pg, <<>>) = 0
<1> DEFINE e == <<>>
           p == Like(pg, e)
<1>1. e \in Seq(Key) /\ Len(e) = 0
  OBVIOUS
<1> HIDE DEF e
<1>2. Holds(p) /\ Bytes(pg, e) = PrefixSize(p)[Len(e)]
  BY <1>1, LikeHolds
<1> HIDE DEF p
<1>3. Bytes(pg, e) = 0
  BY <1>1, <1>2, PrefixSums
<1> QED
  BY <1>3 DEF e

LEMMA LeafMadeIs ==
    ASSUME NEW x \in LeafMade
    PROVE  /\ x.low \in Key /\ IsLeafPage(x.page) /\ is_leaf(x.page) /\ ~is_internal(x.page)
           /\ free_space(x.page) >= 0 /\ x.page.keys # <<>> /\ x.page.keys \in Seq(Key)
           /\ x.page.next = Nil /\ x.page.prev = Nil
           /\ x = [low |-> x.low, page |-> x.page]
BY DEF LeafMade, IsLeafPage, is_leaf, is_internal, leaf

LEMMA InternalMadeIs ==
    ASSUME NEW C \in SUBSET Nat, NEW x \in InternalMadeOf(C)
    PROVE  /\ x.low \in Key /\ IsInternalPage(x.page) /\ is_internal(x.page) /\ ~is_leaf(x.page)
           /\ free_space(x.page) >= 0 /\ Links(x.page) \subseteq C
           /\ x = [low |-> x.low, page |-> x.page]
<1>1. /\ x.low \in Key /\ x.page.keys \in Seq(Key) /\ x.page.children \in Seq(C)
      /\ Len(x.page.children) = Len(x.page.keys) + 1 /\ free_space(x.page) >= 0
      /\ x.page = internal(x.page.keys, x.page.children)
      /\ x = [low |-> x.low, page |-> x.page]
  BY DEF InternalMadeOf, internal
<1> QED
  BY <1>1, InternalMade

(* The first entry of a page fits.                                            *)
LEMMA Started ==
    ASSUME NEW C \in SUBSET Nat, NEW kind \in {"leaf", "internal"}, NEW item \in Items(kind, C)
    PROVE  [low |-> item.low, page |-> StartPage(kind, item)] \in Made(kind, C)
<1> DEFINE pg == StartPage(kind, item)
           k == item.low
<1>1. k \in Key
  BY DEF Items
<1>2. CASE kind = "leaf"
  <2> DEFINE one == <<k>>
  <2>1. one \in Seq(Key) /\ one # <<>>
    BY <1>1
  <2>2. pg = leaf(one, Nil, Nil)
    BY <1>2 DEF StartPage
  <2>3. \A q : is_leaf(q) \/ is_internal(q) => Bytes(q, one) = EntrySize(q, k)
    BY <1>1, BytesOfOne
  <2> HIDE DEF one, pg
  <2>4. /\ IsLeafPage(pg) /\ IsPage(pg) /\ is_leaf(pg) /\ pg.keys = one
        /\ pg \in [kind : {"leaf"}, keys : Seq(Key), next : {Nil}, prev : {Nil}]
    BY <2>1, <2>2 DEF IsLeafPage, IsPage, is_leaf, leaf
  <2>5. free_space(pg) = USABLE(pg) - EntrySize(pg, k)
    BY <2>3, <2>4, PageFits
  <2>6. USABLE(pg) = LEAF_USABLE /\ EntrySize(pg, k) = RowSize[k]
    BY <2>4 DEF USABLE, EntrySize
  <2>7. free_space(pg) >= 0
    BY <1>1, <2>5, <2>6, Usable
  <2>8. [low |-> k, page |-> pg] \in LeafMade
    BY <1>1, <2>1, <2>4, <2>7 DEF LeafMade
  <2> QED
    BY <1>2, <2>8 DEF Made, pg
<1>3. CASE kind = "internal"
  <2> DEFINE e == <<>>
             ch == <<item.id>>
  <2>1. item.id \in C
    BY <1>3 DEF Items
  <2>2. e \in Seq(Key) /\ ch \in Seq(C) /\ Len(ch) = Len(e) + 1
    BY <2>1
  <2>3. pg = internal(e, ch)
    BY <1>3 DEF StartPage
  <2>4. \A q : is_leaf(q) \/ is_internal(q) => Bytes(q, e) = 0
    BY NoBytes
  <2> HIDE DEF e, ch, pg
  <2>5. IsPage(pg) /\ is_internal(pg) /\ pg.keys = e /\ pg.children = ch /\ USABLE(pg) = INTERNAL_USABLE
    BY <2>2, <2>3, InternalMade
  <2>6. free_space(pg) = USABLE(pg) - 0
    BY <2>4, <2>5, PageFits
  <2>7. free_space(pg) >= 0
    BY <1>1, <2>5, <2>6, Usable
  <2>8. pg \in [kind : {"internal"}, keys : Seq(Key), children : Seq(C)]
    BY <2>2, <2>3 DEF internal
  <2>9. [low |-> k, page |-> pg] \in InternalMadeOf(C)
    BY <1>1, <2>2, <2>5, <2>7, <2>8 DEF InternalMadeOf
  <2> QED
    BY <1>3, <2>9 DEF Made, pg
<1> QED
  BY <1>2, <1>3

(* The next one goes in when it fits.                                         *)
LEMMA PutKeepsMade ==
    ASSUME NEW C \in SUBSET Nat, NEW kind \in {"leaf", "internal"}, NEW item \in Items(kind, C),
           NEW x \in Made(kind, C), Takes(x.page, item)
    PROVE  [x EXCEPT !.page = Put(@, item)] \in Made(kind, C)
<1> DEFINE pg == x.page
           k == item.low
           q == Put(pg, item)
<1>1. k \in Key
  BY DEF Items
<1>2. CASE kind = "leaf"
  <2>1. /\ x.low \in Key /\ IsLeafPage(pg) /\ is_leaf(pg) /\ ~is_internal(pg) /\ pg.next = Nil /\ pg.prev = Nil
        /\ x = [low |-> x.low, page |-> pg]
    BY <1>2, LeafMadeIs DEF Made
  <2>2. can_insert(pg, k) /\ q = leaf_insert(pg, k)
    BY <2>1 DEF Takes, Put, can_insert_separator
  <2>3. /\ IsLeafPage(q) /\ free_space(q) >= 0 /\ q.keys = WithKey(pg, k) /\ q.next = Nil /\ q.prev = Nil
    BY <1>1, <2>1, <2>2, RowFits
  <2>4. q.keys # <<>>
    <3>1. Holds(pg)
      BY <2>1, PageHolds DEF IsPage
    <3> DEFINE n == Below(pg.keys, k)
    <3>2. n \in 0 .. Len(pg.keys) /\ Len(pg.keys) \in Nat /\ IsPutIn(Key, pg.keys, n, k, n, WithKey(pg, k))
      BY <1>1, <3>1, WithKeyIs
    <3> HIDE DEF n
    <3>3. Len(WithKey(pg, k)) = n + 1 + (Len(pg.keys) - n)
      BY <3>2 DEF IsPutIn
    <3>4. Len(WithKey(pg, k)) > 0
      <4> DEFINE a == Len(WithKey(pg, k))
                 m == Len(pg.keys)
      <4>1. m \in Nat /\ n \in 0 .. m /\ a = n + 1 + (m - n)
        BY <3>2, <3>3
      <4> HIDE DEF a, m
      <4>2. a > 0
        BY <4>1
      <4> QED
        BY <4>2 DEF a
    <3>5. Len(<<>>) = 0
      OBVIOUS
    <3> QED
      BY <2>3, <3>4, <3>5
  <2> HIDE DEF q
  <2>5. q \in [kind : {"leaf"}, keys : Seq(Key), next : {Nil}, prev : {Nil}]
    BY <2>3 DEF IsLeafPage, leaf
  <2>6. [x EXCEPT !.page = q] = [low |-> x.low, page |-> q]
    BY <2>1
  <2>7. [low |-> x.low, page |-> q] \in LeafMade
    BY <2>1, <2>3, <2>4, <2>5 DEF LeafMade
  <2> QED
    BY <1>2, <2>6, <2>7 DEF Made, q
<1>3. CASE kind = "internal"
  <2>1. /\ x.low \in Key /\ IsInternalPage(pg) /\ is_internal(pg) /\ ~is_leaf(pg) /\ Links(pg) \subseteq C
        /\ x = [low |-> x.low, page |-> pg]
    BY <1>3, InternalMadeIs DEF Made
  <2>2. item.id \in C
    BY <1>3 DEF Items
  <2>3. can_insert_separator(pg, k) /\ q = internal_insert(pg, k, item.id)
    BY <2>1 DEF Takes, Put, can_insert
  <2>4. IsInternalPage(q) /\ free_space(q) >= 0 /\ Links(q) \subseteq C
    BY <1>1, <2>1, <2>2, <2>3, SeparatorFits
  <2> HIDE DEF q
  <2>5. q.children \in Seq(C) /\ Len(q.children) = Len(q.keys) + 1 /\ q.keys \in Seq(Key)
    BY <2>4, ChildrenAre
  <2>6. q \in [kind : {"internal"}, keys : Seq(Key), children : Seq(C)]
    BY <2>4, <2>5 DEF IsInternalPage, internal
  <2>7. [x EXCEPT !.page = q] = [low |-> x.low, page |-> q]
    BY <2>1
  <2>8. [low |-> x.low, page |-> q] \in InternalMadeOf(C)
    BY <2>1, <2>4, <2>5, <2>6 DEF InternalMadeOf
  <2> QED
    BY <1>3, <2>7, <2>8 DEF Made, q
<1> QED
  BY <1>2, <1>3

(* One more item packed: the last page grows or another is started.           *)
LEMMA PackKeepsMade ==
    ASSUME NEW C \in SUBSET Nat, NEW kind \in {"leaf", "internal"}, NEW item \in Items(kind, C),
           NEW done \in Seq(Made(kind, C))
    PROVE  /\ Pack(kind, done, item) \in Seq(Made(kind, C))
           /\ Len(done) \in Nat /\ Len(Pack(kind, done, item)) \in {Len(done), Len(done) + 1}
           /\ Pack(kind, done, item) # <<>>
<1> DEFINE M == Made(kind, C)
           n == Len(done)
           new == Pack(kind, done, item)
<1>1. n \in Nat
  OBVIOUS
<1>2. CASE done # <<>> /\ Takes(done[n].page, item)
  <2>1. n \in 1 .. n /\ done[n] \in M
    BY <1>1, <1>2, EmptySeq, ElementOfSeq
  <2> DEFINE x == [done[n] EXCEPT !.page = Put(@, item)]
  <2>2. x \in M
    BY <1>2, <2>1, PutKeepsMade
  <2>3. new = [done EXCEPT ![n] = x]
    BY <1>2 DEF Pack
  <2> HIDE DEF x, M, n, new
  <2>4. new \in Seq(M) /\ Len(new) = n
    BY <2>1, <2>2, <2>3, ExceptSeq DEF M, n
  <2>5. new # <<>>
    BY <2>1, <2>4, EmptySeq
  <2> QED
    BY <1>1, <2>4, <2>5 DEF M, n, new
<1>3. CASE ~(done # <<>> /\ Takes(done[n].page, item))
  <2> DEFINE x == [low |-> item.low, page |-> StartPage(kind, item)]
  <2>1. x \in M
    BY Started
  <2>2. new = Append(done, x)
    BY <1>3 DEF Pack
  <2> HIDE DEF x, M, new
  <2>3. new \in Seq(M) /\ Len(new) = n + 1
    BY <2>1, <2>2, AppendProperties DEF M
  <2>4. new # <<>>
    BY <1>1, <2>3, EmptySeq
  <2> QED
    BY <1>1, <2>3, <2>4 DEF M, new
<1> QED
  BY <1>2, <1>3

IsBuilt(kind, items, m, b) ==
    b = [n \in 0 .. m |-> IF n = 0 THEN <<>> ELSE Pack(kind, b[n - 1], items[n])]

LEMMA BuiltExists ==
    ASSUME NEW kind, NEW items, NEW m \in Nat
    PROVE  \E b : IsBuilt(kind, items, m, b)
<1> DEFINE S == {i \in Nat : \E b : IsBuilt(kind, items, i, b)}
<1>1. 0 \in S
  <2> DEFINE b == [n \in 0 .. 0 |-> <<>>]
  <2>1. IsBuilt(kind, items, 0, b)
    BY DEF IsBuilt
  <2> QED
    BY <2>1
<1>2. ASSUME NEW i \in Nat, i \in S PROVE i + 1 \in S
  <2>1. PICK b : IsBuilt(kind, items, i, b)
    BY <1>2
  <2> DEFINE r == [n \in 0 .. i + 1 |-> IF n = i + 1 THEN Pack(kind, b[i], items[n]) ELSE b[n]]
  <2>2. ASSUME NEW n \in 0 .. i + 1
        PROVE  r[n] = IF n = 0 THEN <<>> ELSE Pack(kind, r[n - 1], items[n])
    <3>1. CASE n = i + 1
      BY <3>1
    <3>2. CASE n \in 0 .. i
      <4>1. r[n] = b[n]
        BY <3>2
      <4>2. n # 0 => n - 1 \in 0 .. i + 1 /\ n - 1 # i + 1
        BY <3>2
      <4>3. n # 0 => r[n - 1] = b[n - 1]
        BY <4>2
      <4> QED
        BY <2>1, <3>2, <4>1, <4>3 DEF IsBuilt
    <3> QED
      BY <3>1, <3>2
  <2>3. IsBuilt(kind, items, i + 1, r)
    <3> HIDE DEF r
    <3>1. r = [n \in 0 .. i + 1 |-> r[n]]
      BY DEF r
    <3> QED
      BY <2>2, <3>1 DEF IsBuilt
  <2> QED
    BY <2>3
<1> QED
  BY <1>1, <1>2, SetInduction

(* All items packed: between one page and one for each.                       *)
LEMMA PackedMade ==
    ASSUME NEW C \in SUBSET Nat, NEW kind \in {"leaf", "internal"},
           NEW items \in Seq(Items(kind, C)), items # <<>>
    PROVE  /\ Packed(kind, items) \in Seq(Made(kind, C)) /\ Packed(kind, items) # <<>>
           /\ Len(Packed(kind, items)) \in 1 .. Len(items)
<1> DEFINE m == Len(items)
           M == Made(kind, C)
           b == CHOOSE f : IsBuilt(kind, items, m, f)
<1>1. m \in Nat /\ m # 0
  BY EmptySeq
<1>2. Packed(kind, items) = b[m]
  BY DEF Packed, IsBuilt
<1>3. IsBuilt(kind, items, m, b)
  BY <1>1, BuiltExists
<1> HIDE DEF b, m, M
<1>4. b[0] = <<>> /\ \A n \in 1 .. m : b[n] = Pack(kind, b[n - 1], items[n])
  BY <1>1, <1>3 DEF IsBuilt
<1> DEFINE S == {n \in Nat : n <= m => /\ b[n] \in Seq(M) /\ Len(b[n]) \in 0 .. n
                                       /\ n > 0 => b[n] # <<>>}
<1>5. 0 \in S
  <2>1. <<>> \in Seq(M) /\ Len(<<>>) = 0
    OBVIOUS
  <2>2. b[0] \in Seq(M) /\ Len(b[0]) = 0
    BY <1>4, <2>1, Zenon
  <2> QED
    BY <2>2
<1>6. ASSUME NEW n \in Nat, n \in S PROVE n + 1 \in S
  <2> SUFFICES ASSUME n + 1 <= m
               PROVE  b[n + 1] \in Seq(M) /\ Len(b[n + 1]) \in 0 .. n + 1 /\ b[n + 1] # <<>>
    OBVIOUS
  <2>1. /\ n + 1 \in 1 .. m /\ (n + 1) - 1 = n
        /\ b[n] \in Seq(M) /\ Len(b[n]) \in 0 .. n
    BY <1>1, <1>6
  <2>2. items[n + 1] \in Items(kind, C)
    BY <2>1, ElementOfSeq DEF m
  <2>3. b[n + 1] = Pack(kind, b[n], items[n + 1])
    BY <1>4, <2>1
  <2>4. /\ b[n + 1] \in Seq(M) /\ b[n + 1] # <<>>
        /\ Len(b[n + 1]) \in {Len(b[n]), Len(b[n]) + 1}
    BY <2>1, <2>2, <2>3, PackKeepsMade DEF M
  <2>5. Len(b[n + 1]) \in 0 .. n + 1
    <3> DEFINE x == Len(b[n])
               y == Len(b[n + 1])
    <3>1. x \in 0 .. n /\ y \in {x, x + 1}
      BY <2>1, <2>4
    <3> HIDE DEF x, y
    <3>2. y \in 0 .. n + 1
      BY <3>1
    <3> QED
      BY <3>2 DEF y
  <2> QED
    BY <2>4, <2>5
<1>7. Nat \subseteq S
  BY <1>5, <1>6, SetInduction
<1>8. b[m] \in Seq(M) /\ Len(b[m]) \in 0 .. m /\ b[m] # <<>>
  BY <1>1, <1>7
<1>9. Len(b[m]) # 0
  BY <1>8, EmptySeq
<1>10. Len(b[m]) \in 1 .. m
  <2> DEFINE x == Len(b[m])
  <2>1. x \in 0 .. m /\ x # 0
    BY <1>8, <1>9
  <2> HIDE DEF x
  <2>2. x \in 1 .. m
    BY <1>1, <2>1
  <2> QED
    BY <2>2 DEF x
<1> QED
  BY <1>2, <1>8, <1>10 DEF m, M

(* The pages of the new file so far, and the topmost level of them.           *)
BuiltPages == {pg \in [kind : {"leaf"}, keys : Seq(Key), next : Nat \cup {Nil}, prev : Nat \cup {Nil}]
                         \cup [kind : {"internal"}, keys : Seq(Key), children : Seq(Nat)] :
                  IsPage(pg) /\ free_space(pg) >= 0}
IsLevel(x) ==
    /\ x.pages \in Seq(BuiltPages) /\ x.pages # <<>>
    /\ \A i \in 1 .. Len(x.pages) : Links(x.pages[i]) \subseteq 1 .. Len(x.pages)
    /\ x.level \in Seq([low : Key, id : 1 .. Len(x.pages)]) /\ x.level # <<>>

LEMMA MadeIsBuilt ==
    ASSUME NEW C \in SUBSET Nat, NEW x \in InternalMadeOf(C)
    PROVE  x.page \in BuiltPages /\ Links(x.page) \subseteq C /\ x.low \in Key
<1>1. IsInternalPage(x.page) /\ free_space(x.page) >= 0 /\ Links(x.page) \subseteq C /\ x.low \in Key
  BY InternalMadeIs
<1>2. x.page \in [kind : {"internal"}, keys : Seq(Key), children : Seq(Nat)]
  BY <1>1 DEF IsInternalPage, internal
<1> QED
  BY <1>1, <1>2 DEF BuiltPages, IsPage

(* The leaves, linked both ways.                                              *)
LEMMA LeavesBuilt ==
    ASSUME NEW rows \in Seq(Key), rows # <<>>
    PROVE  LET leaves == Leaves(rows)
           IN /\ leaves \in Seq(BuiltPages) /\ leaves # <<>>
              /\ \A i \in 1 .. Len(leaves) : /\ Links(leaves[i]) \subseteq 1 .. Len(leaves)
                                             /\ leaves[i].keys[1] \in Key
<1> DEFINE items == [i \in DOMAIN rows |-> [low |-> rows[i]]]
           built == Packed("leaf", items)
           m == Len(built)
           leaves == Leaves(rows)
           nextOf(i) == IF i < m THEN i + 1 ELSE Nil
<1>1. items \in Seq([low : Key]) /\ items # <<>>
  <2>1. DOMAIN rows = 1 .. Len(rows) /\ Len(rows) \in Nat /\ Len(rows) # 0
    BY EmptySeq
  <2>2. \A i \in 1 .. Len(rows) : rows[i] \in Key
    BY ElementOfSeq
  <2>3. items = [i \in 1 .. Len(rows) |-> [low |-> rows[i]]]
    BY <2>1
  <2>4. \A i \in 1 .. Len(rows) : items[i] \in [low : Key]
    BY <2>2, <2>3
  <2>5. items = [i \in 1 .. Len(rows) |-> items[i]]
    BY <2>3
  <2> HIDE DEF items
  <2>6. items \in Seq([low : Key]) /\ Len(items) = Len(rows)
    BY <2>1, <2>4, <2>5, IsSequence
  <2> QED
    BY <2>1, <2>6, EmptySeq
<1> HIDE DEF items
<1>2. /\ built \in Seq(LeafMade) /\ built # <<>> /\ m \in Nat /\ m # 0
      /\ DOMAIN built = 1 .. m
  <2>1. items \in Seq(Items("leaf", {})) /\ {} \in SUBSET Nat
    BY <1>1 DEF Items
  <2>2. built \in Seq(Made("leaf", {})) /\ built # <<>>
    BY <1>1, <2>1, PackedMade
  <2>3. Made("leaf", {}) = LeafMade
    BY DEF Made
  <2> HIDE DEF built
  <2>4. built \in Seq(LeafMade)
    BY <2>2, <2>3
  <2> QED
    BY <2>2, <2>4, EmptySeq
<1>3. leaves = [i \in 1 .. m |-> leaf(built[i].page.keys, nextOf(i), PrevOf(i))]
  <2>1. leaves = [i \in DOMAIN built |-> leaf(built[i].page.keys, nextOf(i), PrevOf(i))]
    BY DEF Leaves, items
  <2> HIDE DEF leaves, built, m
  <2> QED
    BY <1>2, <2>1
<1> HIDE DEF built, m, leaves, nextOf
<1>4. ASSUME NEW i \in 1 .. m
      PROVE  /\ leaves[i] \in BuiltPages /\ Links(leaves[i]) \subseteq 1 .. m
             /\ leaves[i].keys[1] \in Key
  <2> DEFINE q == leaves[i]
             p == built[i].page
  <2>1. nextOf(i) \in (1 .. m) \cup {Nil} /\ PrevOf(i) \in (1 .. m) \cup {Nil}
    BY <1>2 DEF nextOf, PrevOf
  <2>2. built[i] \in LeafMade
    BY <1>2, ElementOfSeq DEF m
  <2>3. IsLeafPage(p) /\ is_leaf(p) /\ free_space(p) >= 0 /\ p.keys # <<>> /\ p.keys \in Seq(Key)
    BY <2>2, LeafMadeIs
  <2>4. q = leaf(p.keys, nextOf(i), PrevOf(i))
    BY <1>3
  <2> HIDE DEF q, p
  <2>5. /\ q \in [kind : {"leaf"}, keys : Seq(Key), next : Nat \cup {Nil}, prev : Nat \cup {Nil}]
        /\ IsPage(q) /\ IsLeafPage(q) /\ is_leaf(q) /\ ~is_internal(q) /\ q.keys = p.keys
        /\ q.next = nextOf(i) /\ q.prev = PrevOf(i)
    BY <1>2, <2>1, <2>3, <2>4 DEF IsPage, IsLeafPage, is_leaf, is_internal, leaf
  <2>6. IsPage(p)
    BY <2>3 DEF IsPage
  <2>7. free_space(q) = free_space(p) + Bytes(p, p.keys) - Bytes(p, q.keys)
        /\ free_space(p) \in Int /\ Bytes(p, p.keys) \in Nat
    BY <2>3, <2>5, <2>6, FreeAfter
  <2>8. free_space(q) >= 0
    BY <2>3, <2>5, <2>7
  <2>9. q \in BuiltPages
    BY <2>5, <2>8 DEF BuiltPages
  <2>10. Links(q) \subseteq 1 .. m
    BY <2>1, <2>5 DEF Links
  <2>11. q.keys[1] \in Key
    <3>1. 1 \in 1 .. Len(p.keys)
      BY <2>3, EmptySeq
    <3> QED
      BY <2>3, <2>5, <3>1, ElementOfSeq
  <2> QED
    BY <2>9, <2>10, <2>11 DEF q
<1>5. leaves \in Seq(BuiltPages) /\ Len(leaves) = m
  <2>1. leaves = [i \in 1 .. m |-> leaves[i]]
    BY <1>3
  <2> QED
    BY <1>2, <1>4, <2>1, IsSequence
<1>6. leaves # <<>>
  BY <1>2, <1>5, EmptySeq
<1> QED
  BY <1>4, <1>5, <1>6 DEF leaves

(* One more level of internal pages over the topmost.                         *)
LEMMA LevelBuilt ==
    ASSUME NEW x, IsLevel(x)
    PROVE  IsLevel(build_internal_level(x.pages, x.level))
<1> DEFINE n == Len(x.pages)
           C == 1 .. n
           built == Packed("internal", x.level)
           m == Len(built)
           b == [i \in 1 .. m |-> built[i].page]
           z == [i \in 1 .. m |-> [low |-> LowOf(built[i]), id |-> n + i]]
           p == x.pages
           w == p \o b
           y == build_internal_level(x.pages, x.level)
<1>1. /\ p \in Seq(BuiltPages) /\ p # <<>> /\ n \in Nat
      /\ \A i \in 1 .. n : Links(p[i]) \subseteq 1 .. n
      /\ x.level \in Seq([low : Key, id : C]) /\ x.level # <<>>
  BY DEF IsLevel
<1>2. /\ built \in Seq(InternalMadeOf(C)) /\ built # <<>> /\ m \in Nat /\ m # 0
      /\ DOMAIN built = 1 .. m
  <2>1. x.level \in Seq(Items("internal", C)) /\ C \in SUBSET Nat
    BY <1>1 DEF Items
  <2>2. built \in Seq(Made("internal", C)) /\ built # <<>>
    BY <1>1, <2>1, PackedMade
  <2>3. Made("internal", C) = InternalMadeOf(C)
    BY DEF Made
  <2> HIDE DEF built
  <2>4. built \in Seq(InternalMadeOf(C))
    BY <2>2, <2>3
  <2> QED
    BY <2>2, <2>4, EmptySeq
<1>3. y = [pages |-> w, level |-> z]
  <2>1. y = [pages |-> p \o [i \in DOMAIN built |-> built[i].page],
             level |-> [i \in DOMAIN built |-> [low |-> LowOf(built[i]), id |-> n + i]]]
    BY DEF build_internal_level
  <2> HIDE DEF built, m, p, n
  <2> QED
    BY <1>2, <2>1
<1>4. ASSUME NEW i \in 1 .. m
      PROVE  /\ b[i] \in BuiltPages /\ Links(b[i]) \subseteq 1 .. n
             /\ z[i] \in [low : Key, id : 1 .. n + m]
  <2>1. built[i] \in InternalMadeOf(C)
    BY <1>2, ElementOfSeq
  <2>2. /\ built[i].page \in BuiltPages /\ Links(built[i].page) \subseteq C /\ built[i].low \in Key
    <3> DEFINE e == built[i]
    <3>1. C \in SUBSET Nat /\ e \in InternalMadeOf(C)
      BY <2>1
    <3> HIDE DEF C, e
    <3>2. e.page \in BuiltPages /\ Links(e.page) \subseteq C /\ e.low \in Key
      BY <3>1, MadeIsBuilt
    <3> QED
      BY <3>2 DEF e
  <2> HIDE DEF built, m, n
  <2>3. n + i \in 1 .. n + m
    BY <1>1, <1>2
  <2> QED
    BY <2>2, <2>3 DEF LowOf
<1> HIDE DEF built, m, y
<1>5. b \in Seq(BuiltPages) /\ Len(b) = m
  <2>1. b = [i \in 1 .. m |-> b[i]]
    OBVIOUS
  <2> HIDE DEF b, n, z
  <2> QED
    BY <1>2, <1>4, <2>1, IsSequence
<1>6. z \in Seq([low : Key, id : 1 .. n + m]) /\ Len(z) = m
  <2>1. z = [i \in 1 .. m |-> z[i]]
    OBVIOUS
  <2> HIDE DEF b, n, z
  <2> QED
    BY <1>2, <1>4, <2>1, IsSequence
<1> HIDE DEF b, z, p
<1>7. /\ w \in Seq(BuiltPages) /\ Len(w) = n + m
      /\ \A i \in 1 .. n + m : w[i] = IF i <= n THEN p[i] ELSE b[i - n]
  <2>1. Len(p) = n
    BY DEF p
  <2> HIDE DEF n
  <2> QED
    BY <1>1, <1>5, <2>1, ConcatProperties
<1> HIDE DEF w, n
<1>8. ASSUME NEW i \in 1 .. n + m PROVE Links(w[i]) \subseteq 1 .. n + m
  <2>1. 1 .. n \subseteq 1 .. n + m
    BY <1>1, <1>2
  <2>2. CASE i <= n
    <3>1. i \in 1 .. n /\ w[i] = p[i]
      BY <1>1, <1>7, <2>2
    <3> QED
      BY <1>1, <2>1, <3>1
  <2>3. CASE ~(i <= n)
    <3>1. i - n \in 1 .. m /\ w[i] = b[i - n]
      BY <1>1, <1>2, <1>7, <2>3
    <3> QED
      BY <1>4, <2>1, <3>1
  <2> QED
    BY <2>2, <2>3
<1>9. w # <<>> /\ z # <<>>
  <2>1. n + m # 0
    BY <1>1, <1>2
  <2> QED
    BY <1>2, <1>6, <1>7, <2>1, EmptySeq
<1> QED
  <2>1. y.pages = w /\ y.level = z
    BY <1>3
  <2> QED
    BY <1>6, <1>7, <1>8, <1>9, <2>1 DEF IsLevel, y

(* The levels up to the n-th.                                                 *)
IsTower(base, m, f) ==
    f = [n \in 0 .. m |->
            IF n = 0 THEN base
            ELSE IF Len(f[n - 1].level) = 1 THEN f[n - 1]
            ELSE build_internal_level(f[n - 1].pages, f[n - 1].level)]

LEMMA TowerExists ==
    ASSUME NEW base, NEW m \in Nat
    PROVE  \E f : IsTower(base, m, f)
<1> DEFINE S == {i \in Nat : \E f : IsTower(base, i, f)}
           Over(x) == IF Len(x.level) = 1 THEN x ELSE build_internal_level(x.pages, x.level)
<1>1. 0 \in S
  <2> DEFINE f == [n \in 0 .. 0 |-> base]
  <2>1. IsTower(base, 0, f)
    BY DEF IsTower
  <2> QED
    BY <2>1
<1>2. ASSUME NEW i \in Nat, i \in S PROVE i + 1 \in S
  <2>1. PICK f : IsTower(base, i, f)
    BY <1>2
  <2>2. f = [n \in 0 .. i |-> IF n = 0 THEN base ELSE Over(f[n - 1])]
    BY <2>1 DEF IsTower
  <2> HIDE DEF Over
  <2> DEFINE r == [n \in 0 .. i + 1 |-> IF n = i + 1 THEN Over(f[i]) ELSE f[n]]
  <2>3. ASSUME NEW n \in 0 .. i + 1
        PROVE  r[n] = IF n = 0 THEN base ELSE Over(r[n - 1])
    <3>1. CASE n = i + 1
      BY <3>1
    <3>2. CASE n \in 0 .. i
      <4>1. r[n] = f[n]
        BY <3>2
      <4>2. n # 0 => n - 1 \in 0 .. i + 1 /\ n - 1 # i + 1
        BY <3>2
      <4>3. n # 0 => r[n - 1] = f[n - 1]
        BY <4>2
      <4> QED
        BY <2>2, <3>2, <4>1, <4>3
    <3> QED
      BY <3>1, <3>2
  <2>4. IsTower(base, i + 1, r)
    <3> HIDE DEF r
    <3>1. r = [n \in 0 .. i + 1 |-> r[n]]
      BY DEF r
    <3>2. r = [n \in 0 .. i + 1 |-> IF n = 0 THEN base ELSE Over(r[n - 1])]
      BY <2>3, <3>1
    <3> QED
      BY <3>2 DEF IsTower, Over
  <2> QED
    BY <2>4
<1> QED
  BY <1>1, <1>2, SetInduction

LEMMA TowerLevels ==
    ASSUME NEW base, IsLevel(base), NEW m \in Nat, NEW f, IsTower(base, m, f)
    PROVE  IsLevel(f[m])
<1> DEFINE S == {n \in Nat : n <= m => IsLevel(f[n])}
<1>1. f[0] = base /\ \A n \in 1 .. m : \/ f[n] = f[n - 1]
                                       \/ f[n] = build_internal_level(f[n - 1].pages, f[n - 1].level)
  BY DEF IsTower
<1>2. 0 \in S
  BY <1>1
<1>3. ASSUME NEW n \in Nat, n \in S PROVE n + 1 \in S
  <2> SUFFICES ASSUME n + 1 <= m PROVE IsLevel(f[n + 1])
    OBVIOUS
  <2>1. n + 1 \in 1 .. m /\ (n + 1) - 1 = n /\ IsLevel(f[n])
    BY <1>3
  <2>2. IsLevel(build_internal_level(f[n].pages, f[n].level))
    BY <2>1, LevelBuilt
  <2>3. f[n + 1] = f[n] \/ f[n + 1] = build_internal_level(f[n].pages, f[n].level)
    BY <1>1, <2>1
  <2> QED
    BY <2>1, <2>2, <2>3
<1> HIDE DEF S
<1>4. m \in S
  BY <1>2, <1>3, SetInduction
<1> QED
  BY <1>4 DEF S

(* Table::vacuum with build_internal_level, as long as it meets no key      *)
(* twice: the pages it writes can be read back, are tied to each other only,*)
(* and have the root among them.                                            *)
THEOREM BulkLoadMakesPages ==
    ASSUME NEW rows \in Seq(Key), rows # <<>>, Loads(rows)
    PROVE  LET new == bulk_load(rows)
               n == Len(new.pages)
           IN /\ n \in Nat \ {0} /\ DOMAIN new.pages = 1 .. n /\ new.root \in 1 .. n
              /\ \A i \in 1 .. n : /\ GoodPage(new.pages[i]) /\ ~is_free(new.pages[i])
                                   /\ Links(new.pages[i]) \subseteq 1 .. n
<1> DEFINE leaves == Leaves(rows)
           m == Len(leaves)
           level == [i \in DOMAIN leaves |-> [low |-> leaves[i].keys[1], id |-> i]]
           base == [pages |-> leaves, level |-> level]
           up == CHOOSE f : IsTower(base, m, f)
           top == up[m]
           new == bulk_load(rows)
           n == Len(new.pages)
<1>1. /\ leaves \in Seq(BuiltPages) /\ leaves # <<>> /\ m \in Nat /\ m # 0
      /\ DOMAIN leaves = 1 .. m
      /\ \A i \in 1 .. m : /\ Links(leaves[i]) \subseteq 1 .. m
                           /\ leaves[i].keys[1] \in Key
  <2>1. /\ leaves \in Seq(BuiltPages) /\ leaves # <<>>
        /\ \A i \in 1 .. m : Links(leaves[i]) \subseteq 1 .. m /\ leaves[i].keys[1] \in Key
    BY LeavesBuilt
  <2> HIDE DEF leaves
  <2> QED
    BY <2>1, EmptySeq
<1>2. new = [pages |-> top.pages, root |-> top.level[1].id]
  BY DEF bulk_load, IsTower
<1> HIDE DEF leaves, new
<1>3. level \in Seq([low : Key, id : 1 .. m]) /\ level # <<>>
  <2>1. level = [i \in 1 .. m |-> [low |-> leaves[i].keys[1], id |-> i]]
    BY <1>1
  <2> HIDE DEF level, m
  <2>2. \A i \in 1 .. m : level[i] \in [low : Key, id : 1 .. m]
    BY <1>1, <2>1
  <2>3. level = [i \in 1 .. m |-> level[i]]
    BY <2>1
  <2>4. level \in Seq([low : Key, id : 1 .. m]) /\ Len(level) = m
    BY <1>1, <2>2, <2>3, IsSequence
  <2> QED
    BY <1>1, <2>4, EmptySeq
<1>4. IsLevel(base)
  <2>1. base.pages = leaves /\ base.level = level
    OBVIOUS
  <2> HIDE DEF base, level
  <2> QED
    BY <1>1, <1>3, <2>1 DEF IsLevel
<1> HIDE DEF m, base
<1>5. IsTower(base, m, up)
  BY <1>1, TowerExists
<1> HIDE DEF up
<1>6. IsLevel(top)
  BY <1>1, <1>4, <1>5, TowerLevels
<1> HIDE DEF top
<1>7. /\ new.pages = top.pages /\ new.root = top.level[1].id
      /\ new.pages \in Seq(BuiltPages) /\ new.pages # <<>>
      /\ \A i \in 1 .. n : Links(new.pages[i]) \subseteq 1 .. n
  BY <1>2, <1>6 DEF IsLevel
<1>8. n \in Nat \ {0} /\ DOMAIN new.pages = 1 .. n
  BY <1>7, EmptySeq
<1>9. new.root \in 1 .. n
  <2> DEFINE s == top.level
  <2>1. s \in Seq([low : Key, id : 1 .. n]) /\ s # <<>>
    BY <1>6, <1>7 DEF IsLevel
  <2> HIDE DEF s, n
  <2>2. 1 \in 1 .. Len(s)
    BY <2>1, EmptySeq
  <2>3. s[1] \in [low : Key, id : 1 .. n]
    BY <2>1, <2>2, ElementOfSeq
  <2>4. s[1].id \in 1 .. n
    BY <2>3
  <2> QED
    BY <1>7, <2>4 DEF s
<1>10. ASSUME NEW i \in 1 .. n PROVE GoodPage(new.pages[i]) /\ ~is_free(new.pages[i])
  <2>1. new.pages[i] \in BuiltPages
    BY <1>7, ElementOfSeq
  <2>2. Increasing(new.pages[i].keys)
    BY <1>8 DEF Loads, new
  <2>3. IsPage(new.pages[i]) /\ free_space(new.pages[i]) >= 0
    BY <2>1 DEF BuiltPages
  <2>4. ~is_free(new.pages[i])
    BY <2>1 DEF BuiltPages, is_free
  <2> QED
    BY <2>2, <2>3, <2>4, Checked
<1> QED
  BY <1>7, <1>8, <1>9, <1>10 DEF new

-----------------------------------------------------------------------------
(* Searches.                                                                  *)

(* What a search finds on a page: the row, or the child to go to; and on one  *)
(* of two pages with a separator between them.                                *)
Finds(pg, k) == IF is_leaf(pg) THEN HasKey(pg, k) ELSE find_child(pg, k)
PairFinds(l, r, sep, k) == Finds(IF k < sep THEN l ELSE r, k)

(* The separator is where the keys of both pages say.                         *)
Separates(l, r, sep) ==
    /\ \A i \in DOMAIN l.keys : l.keys[i] < sep
    /\ \A i \in DOMAIN r.keys : sep <= r.keys[i]

LEMMA ChildPlace ==
    ASSUME NEW pg, Holds(pg), Increasing(pg.keys), NEW k \in Key
    PROVE  LET n == find_child_index(pg, k)
           IN /\ n \in 0 .. Len(pg.keys)
              /\ \A i \in 1 .. n : pg.keys[i] <= k
              /\ \A i \in n + 1 .. Len(pg.keys) : k < pg.keys[i]
<1> DEFINE b == Below(pg.keys, k)
           m == Len(pg.keys)
           n == find_child_index(pg, k)
<1>1. /\ pg.keys \in Seq(Key) /\ m \in Nat /\ b \in 0 .. m /\ k \in Nat
      /\ \A i \in 1 .. m : pg.keys[i] \in Nat
  BY WithKeyIs, KeysAreNumbers, SizeAssumption DEF Holds
<1>2. /\ HasKey(pg, k) <=> b < m /\ pg.keys[b + 1] = k
      /\ \A i \in 1 .. b : pg.keys[i] < k
      /\ \A i \in b + 1 .. m : k <= pg.keys[i]
  BY PlaceOfKey
<1>3. n = IF HasKey(pg, k) THEN b + 1 ELSE b
  BY <1>1 DEF find_child_index
<1> HIDE DEF b, n
<1>4. CASE HasKey(pg, k)
  <2>1. n = b + 1 /\ b < m /\ pg.keys[n] = k /\ n \in 1 .. m
    BY <1>1, <1>2, <1>3, <1>4
  <2>2. ASSUME NEW i \in 1 .. n PROVE pg.keys[i] <= k
    BY <1>1, <1>2, <2>1
  <2>3. ASSUME NEW i \in n + 1 .. m PROVE k < pg.keys[i]
    <3>1. i \in 1 .. m /\ n < i
      BY <2>1
    <3> QED
      BY <1>1, <2>1, <3>1, SortedPair
  <2> QED
    BY <2>1, <2>2, <2>3 DEF n
<1>5. CASE ~HasKey(pg, k)
  <2>1. n = b
    BY <1>3, <1>5
  <2>2. ASSUME NEW i \in 1 .. n PROVE pg.keys[i] <= k
    <3>1. i \in 1 .. b /\ i \in 1 .. m
      BY <1>1, <2>1
    <3>2. pg.keys[i] < k /\ pg.keys[i] \in Nat
      BY <1>1, <1>2, <3>1
    <3> QED
      BY <1>1, <3>2
  <2>3. ASSUME NEW i \in n + 1 .. m PROVE k < pg.keys[i]
    <3>1. i \in b + 1 .. m /\ i \in 1 .. m
      BY <1>1, <2>1
    <3>2. k # pg.keys[i]
      BY <1>5, <3>1, KeysOf DEF HasKey
    <3> QED
      BY <1>1, <1>2, <3>1, <3>2
  <2> QED
    BY <1>1, <2>1, <2>2, <2>3 DEF n
<1> QED
  BY <1>4, <1>5

(* There is no other such place.                                              *)
LEMMA ChildIs ==
    ASSUME NEW pg, IsInternalPage(pg), Increasing(pg.keys), NEW k \in Key,
           NEW n \in 0 .. Len(pg.keys),
           n > 0 => pg.keys[n] <= k, n < Len(pg.keys) => k < pg.keys[n + 1]
    PROVE  /\ find_child_index(pg, k) = n
           /\ find_child(pg, k) = pg.children[n + 1] /\ Finds(pg, k) = pg.children[n + 1]
<1> DEFINE m == Len(pg.keys)
           j == find_child_index(pg, k)
<1>1. /\ Holds(pg) /\ pg.keys \in Seq(Key) /\ m \in Nat /\ Len(pg.children) = m + 1 /\ ~is_leaf(pg)
      /\ k \in Nat
      /\ \A i \in 1 .. m : pg.keys[i] \in Nat
  BY KeysAreNumbers, SizeAssumption DEF Holds, IsInternalPage, is_leaf, is_internal
<1>2. /\ j \in 0 .. m
      /\ \A i \in 1 .. j : pg.keys[i] <= k
      /\ \A i \in j + 1 .. m : k < pg.keys[i]
  BY <1>1, ChildPlace
<1> HIDE DEF j
<1>3. ~(j < n)
  <2> SUFFICES ASSUME j < n PROVE FALSE
    OBVIOUS
  <2>1. n \in j + 1 .. m /\ n > 0 /\ n \in 1 .. m
    BY <1>1, <1>2
  <2> QED
    BY <1>1, <1>2, <2>1
<1>4. ~(n < j)
  <2> SUFFICES ASSUME n < j PROVE FALSE
    OBVIOUS
  <2>1. n + 1 \in 1 .. j /\ n < m /\ n + 1 \in 1 .. m
    BY <1>1, <1>2
  <2> QED
    BY <1>1, <1>2, <2>1
<1>5. j = n
  BY <1>1, <1>2, <1>3, <1>4
<1>6. n \in 0 .. Len(pg.children) - 1
  BY <1>1
<1> QED
  BY <1>1, <1>5, <1>6 DEF j, find_child, child_at, Finds

(* An internal page cut in two, the separator in between taken out.           *)
LEMMA CutFinds ==
    ASSUME NEW pg, IsInternalPage(pg), Increasing(pg.keys), NEW n \in Nat, n < Len(pg.keys),
           NEW l, IsInternalPage(l), l.keys = Upto(n, pg.keys), l.children = Upto(n + 1, pg.children),
           NEW r, IsInternalPage(r), r.keys = After(n + 1, pg.keys), r.children = After(n + 1, pg.children),
           NEW k \in Key
    PROVE  PairFinds(l, r, pg.keys[n + 1], k) = Finds(pg, k)
<1> DEFINE m == Len(pg.keys)
           i == find_child_index(pg, k)
           sep == pg.keys[n + 1]
<1>1. /\ Holds(pg) /\ pg.keys \in Seq(Key) /\ m \in Nat /\ pg.children \in Seq(Nat) /\ Len(pg.children) = m + 1
      /\ k \in Nat
      /\ \A j \in 1 .. m : pg.keys[j] \in Nat
  BY KeysAreNumbers, SizeAssumption DEF Holds, IsInternalPage, is_leaf, is_internal
<1>2. /\ i \in 0 .. m
      /\ \A j \in 1 .. i : pg.keys[j] <= k
      /\ \A j \in i + 1 .. m : k < pg.keys[j]
  BY <1>1, ChildPlace
<1> HIDE DEF i, m
<1>3. Finds(pg, k) = pg.children[i + 1]
  <2>1. i > 0 => pg.keys[i] <= k
    BY <1>1, <1>2
  <2>2. i < m => k < pg.keys[i + 1]
    BY <1>1, <1>2
  <2> QED
    BY <1>2, <2>1, <2>2, ChildIs DEF m
<1>4. n \in 0 .. m /\ n + 1 \in 0 .. m /\ n + 1 \in 1 .. m /\ n + 1 \in 0 .. m + 1
  BY <1>1 DEF m
<1>5. /\ Len(l.keys) = n /\ \A j \in 1 .. n : l.keys[j] = pg.keys[j]
      /\ Len(r.keys) = m - (n + 1) /\ \A j \in 1 .. m - (n + 1) : r.keys[j] = pg.keys[n + 1 + j]
  <2>0. pg.keys \in Seq(Key)
    BY <1>1
  <2>1. n \in 0 .. Len(pg.keys) /\ n + 1 \in 0 .. Len(pg.keys)
    BY <1>4 DEF m
  <2> DEFINE u == Upto(n, pg.keys)
             v == After(n + 1, pg.keys)
  <2>2. Len(u) = n /\ \A j \in 1 .. n : u[j] = pg.keys[j]
    BY <2>0, <2>1, Parts, ZenonT(30)
  <2>3. /\ Len(v) = Len(pg.keys) - (n + 1)
        /\ \A j \in 1 .. Len(pg.keys) - (n + 1) : v[j] = pg.keys[n + 1 + j]
    BY <2>0, <2>1, Parts, ZenonT(30)
  <2>4. l.keys = u /\ r.keys = v
    OBVIOUS
  <2> HIDE DEF u, v
  <2> QED
    BY <2>2, <2>3, <2>4 DEF m
<1>6. /\ \A j \in 1 .. n + 1 : l.children[j] = pg.children[j]
      /\ \A j \in 1 .. (m + 1) - (n + 1) : r.children[j] = pg.children[n + 1 + j]
  <2>1. pg.children \in Seq(Nat) /\ n + 1 \in 0 .. Len(pg.children)
    BY <1>1, <1>4
  <2>2. \A j \in 1 .. n + 1 : l.children[j] = pg.children[j]
    BY <2>1, Parts, ZenonT(30)
  <2>3. \A j \in 1 .. Len(pg.children) - (n + 1) : r.children[j] = pg.children[n + 1 + j]
    BY <2>1, Parts, ZenonT(30)
  <2> QED
    BY <1>1, <2>2, <2>3
<1>7. Increasing(l.keys) /\ Increasing(r.keys)
  BY <1>1, <1>4, PartsIncrease DEF m
<1>8. CASE k < sep
  <2>1. i \in 0 .. n /\ i + 1 \in 1 .. n + 1
    <3>1. n + 1 \notin 1 .. i
      BY <1>1, <1>2, <1>4, <1>8
    <3> QED
      BY <1>1, <1>2, <3>1
  <2>2. i > 0 => l.keys[i] <= k
    <3>1. ASSUME i > 0 PROVE i \in 1 .. n /\ i \in 1 .. i
      BY <1>4, <2>1, <3>1
    <3> QED
      BY <1>2, <1>5, <3>1
  <2>3. i < n => k < l.keys[i + 1]
    <3>1. ASSUME i < n PROVE i + 1 \in 1 .. n /\ i + 1 \in i + 1 .. m
      BY <1>1, <1>4, <2>1, <3>1, SMT
    <3> QED
      BY <1>2, <1>5, <3>1
  <2>4. Finds(l, k) = l.children[i + 1]
    BY <1>5, <1>7, <2>1, <2>2, <2>3, ChildIs
  <2> QED
    BY <1>3, <1>6, <1>8, <2>1, <2>4 DEF PairFinds
<1>9. CASE ~(k < sep)
  <2> DEFINE j == i - (n + 1)
  <2>1. i >= n + 1
    BY <1>1, <1>2, <1>4, <1>9
  <2>2. j \in 0 .. m - (n + 1) /\ n + 1 + j = i /\ j + 1 \in 1 .. (m + 1) - (n + 1) /\ n + 1 + (j + 1) = i + 1
    BY <1>1, <1>2, <1>4, <2>1
  <2> HIDE DEF j
  <2>3. j > 0 => r.keys[j] <= k
    <3>1. ASSUME j > 0 PROVE j \in 1 .. m - (n + 1) /\ i \in 1 .. i
      BY <1>2, <2>1, <2>2, <3>1
    <3> QED
      BY <1>2, <1>5, <2>2, <3>1
  <2>4. j < m - (n + 1) => k < r.keys[j + 1]
    <3>1. ASSUME j < m - (n + 1) PROVE j + 1 \in 1 .. m - (n + 1) /\ i + 1 \in i + 1 .. m
      BY <1>1, <1>2, <1>4, <2>2, <3>1
    <3> QED
      BY <1>2, <1>5, <2>2, <3>1
  <2>5. Finds(r, k) = r.children[j + 1]
    BY <1>5, <1>7, <2>2, <2>3, <2>4, ChildIs
  <2> QED
    BY <1>3, <1>6, <1>9, <2>2, <2>5 DEF PairFinds
<1> QED
  BY <1>8, <1>9

(* Two sequences put together and taken apart again.                          *)
LEMMA PartsOfJoin ==
    ASSUME NEW S, NEW a \in Seq(S), NEW b \in Seq(S)
    PROVE  /\ Upto(Len(a), a \o b) = a /\ After(Len(a), a \o b) = b
           /\ a \o b \in Seq(S) /\ Len(a \o b) = Len(a) + Len(b) /\ Len(a) \in Nat /\ Len(b) \in Nat
<1> DEFINE w == a \o b
           n == Len(a)
           u == Upto(n, w)
           v == After(n, w)
<1>1. IsJoin(S, a, b, w)
  BY JoinedAs
<1> HIDE DEF w
<1>2. /\ w \in Seq(S) /\ Len(w) = n + Len(b) /\ n \in Nat /\ Len(b) \in Nat
      /\ \A i \in 1 .. n : w[i] = a[i]
      /\ \A i \in 1 .. Len(b) : w[n + i] = b[i]
  BY <1>1 DEF IsJoin
<1>3. n \in 0 .. Len(w) /\ Len(w) - n = Len(b)
  BY <1>2
<1>4. u \in Seq(S) /\ Len(u) = n /\ \A i \in 1 .. n : u[i] = w[i]
  <2>1. w \in Seq(S)
    BY <1>2
  <2> QED
    BY <1>3, <2>1, Parts, ZenonT(30)
<1>5. v \in Seq(S) /\ Len(v) = Len(w) - n /\ \A i \in 1 .. Len(w) - n : v[i] = w[n + i]
  <2>1. w \in Seq(S)
    BY <1>2
  <2> QED
    BY <1>3, <2>1, Parts, ZenonT(30)
<1> HIDE DEF u, v
<1>6. u = a
  BY <1>2, <1>4, SeqEqual
<1>7. v = b
  BY <1>2, <1>3, <1>5, SeqEqual
<1> QED
  BY <1>2, <1>6, <1>7 DEF u, v, w, n

(* Rows in order, divided anywhere, by what separates them.                   *)
LEMMA LeafCutFinds ==
    ASSUME NEW w \in Seq(Key), NEW n \in 0 .. Len(w), NEW sep \in Key, NEW k \in Key,
           NEW l, Holds(l), is_leaf(l), l.keys = Upto(n, w),
           NEW r, Holds(r), is_leaf(r), r.keys = After(n, w),
           Separates(l, r, sep)
    PROVE  PairFinds(l, r, sep, k) <=> \E i \in 1 .. Len(w) : k = w[i]
<1> DEFINE u == Upto(n, w)
           v == After(n, w)
           m == Len(w)
<1>1. m \in Nat /\ n \in 0 .. m /\ k \in Nat /\ sep \in Nat
  BY SizeAssumption
<1>2. Len(u) = n /\ \A i \in 1 .. n : u[i] = w[i]
  BY Parts, ZenonT(30)
<1>3. Len(v) = m - n /\ \A i \in 1 .. m - n : v[i] = w[n + i]
  BY Parts, ZenonT(30)
<1>4. l.keys = u /\ r.keys = v
  OBVIOUS
<1> HIDE DEF u, v, m
<1>5. /\ HasKey(l, k) <=> \E i \in 1 .. n : k = w[i]
      /\ HasKey(r, k) <=> \E i \in 1 .. m - n : k = w[n + i]
  <2>1. HasKey(l, k) <=> \E i \in 1 .. n : k = u[i]
    BY <1>2, <1>4, KeysOf DEF HasKey
  <2>2. HasKey(r, k) <=> \E i \in 1 .. m - n : k = v[i]
    BY <1>3, <1>4, KeysOf DEF HasKey
  <2> QED
    BY <1>2, <1>3, <2>1, <2>2
<1>6. /\ \A i \in 1 .. n : w[i] < sep
      /\ \A i \in 1 .. m - n : sep <= w[n + i]
  <2>1. DOMAIN l.keys = 1 .. Len(l.keys) /\ DOMAIN r.keys = 1 .. Len(r.keys)
    BY DEF Holds
  <2>2. \A i \in 1 .. n : l.keys[i] < sep
    BY <1>2, <1>4, <2>1 DEF Separates
  <2>3. \A i \in 1 .. m - n : sep <= r.keys[i]
    BY <1>3, <1>4, <2>1 DEF Separates
  <2> QED
    BY <1>2, <1>3, <1>4, <2>2, <2>3
<1>7. PairFinds(l, r, sep, k) <=> IF k < sep THEN HasKey(l, k) ELSE HasKey(r, k)
  BY Zenon DEF PairFinds, Finds
<1>8. ASSUME NEW i \in 1 .. m, k = w[i] PROVE IF k < sep THEN HasKey(l, k) ELSE HasKey(r, k)
  <2>1. CASE i <= n
    <3>1. i \in 1 .. n
      BY <1>1, <2>1
    <3> QED
      BY <1>5, <1>6, <1>8, <3>1
  <2>2. CASE ~(i <= n)
    <3> DEFINE j == i - n
    <3>1. j \in 1 .. m - n /\ n + j = i
      BY <1>1, <2>2
    <3> HIDE DEF j
    <3>2. sep <= k /\ HasKey(r, k)
      BY <1>5, <1>6, <1>8, <3>1
    <3> QED
      BY <1>1, <3>2
  <2> QED
    BY <2>1, <2>2
<1>9. ASSUME HasKey(l, k) \/ HasKey(r, k) PROVE \E i \in 1 .. m : k = w[i]
  <2>1. CASE HasKey(l, k)
    <3>1. PICK i \in 1 .. n : k = w[i]
      BY <1>5, <2>1
    <3>2. i \in 1 .. m
      BY <1>1
    <3> QED
      BY <3>1, <3>2
  <2>2. CASE HasKey(r, k)
    <3>1. PICK i \in 1 .. m - n : k = w[n + i]
      BY <1>5, <2>2
    <3>2. n + i \in 1 .. m
      BY <1>1
    <3> QED
      BY <3>1, <3>2
  <2> QED
    BY <1>9, <2>1, <2>2
<1> QED
  BY <1>7, <1>8, <1>9 DEF m

(* Keys in order, divided anywhere, are separated by the next one.            *)
LEMMA PartsSeparate ==
    ASSUME NEW w \in Seq(Key), Increasing(w), NEW n \in Nat, n < Len(w), NEW g \in 0 .. 1,
           NEW l, NEW r, l.keys = Upto(n, w), r.keys = After(n + g, w)
    PROVE  Separates(l, r, w[n + 1]) /\ w[n + 1] \in Key
<1> DEFINE u == Upto(n, w)
           v == After(n + g, w)
           m == Len(w)
<1>1. m \in Nat /\ n \in 0 .. m /\ n + g \in 0 .. m /\ n + 1 \in 1 .. m /\ n < m
  OBVIOUS
<1>2. u \in Seq(Key) /\ Len(u) = n /\ \A i \in 1 .. n : u[i] = w[i]
  BY <1>1, Parts, ZenonT(30)
<1>3. v \in Seq(Key) /\ Len(v) = m - (n + g) /\ \A i \in 1 .. m - (n + g) : v[i] = w[n + g + i]
  BY <1>1, Parts, ZenonT(30)
<1>4. l.keys = u /\ r.keys = v
  OBVIOUS
<1>5. \A i \in 1 .. m : w[i] \in Key /\ w[i] \in Nat
  BY KeysAreNumbers
<1> HIDE DEF u, v, m
<1>6. ASSUME NEW i \in 1 .. n PROVE w[i] < w[n + 1]
  <2>1. i \in 1 .. m /\ i < n + 1
    BY <1>1
  <2> QED
    BY <1>1, <2>1, SortedPair DEF m
<1>7. ASSUME NEW i \in 1 .. m - (n + g) PROVE w[n + 1] <= w[n + g + i]
  <2> DEFINE j == n + g + i
  <2>1. j \in 1 .. m /\ (j = n + 1 \/ n + 1 < j)
    BY <1>1
  <2> HIDE DEF j
  <2>2. n + 1 < j => w[n + 1] < w[j]
    BY <1>1, <2>1, SortedPair DEF m
  <2>3. w[n + 1] \in Nat /\ w[j] \in Nat
    BY <1>1, <1>5, <2>1
  <2>4. w[n + 1] <= w[j]
    BY <2>1, <2>2, <2>3
  <2> QED
    BY <2>4 DEF j
<1>8. DOMAIN l.keys = 1 .. n /\ DOMAIN r.keys = 1 .. m - (n + g)
  BY <1>2, <1>3, <1>4
<1> QED
  BY <1>1, <1>2, <1>3, <1>4, <1>5, <1>6, <1>7, <1>8 DEF Separates

(* Two internal pages and the separator between them, as one page.            *)
IsPooled(l, r, sep, q) ==
    /\ IsInternalPage(q) /\ Increasing(q.keys)
    /\ q.keys = Pool(l, r, sep) /\ q.children = l.children \o r.children
    /\ l.children = Upto(Len(l.keys) + 1, q.children) /\ r.children = After(Len(l.keys) + 1, q.children)

LEMMA PooledPage ==
    ASSUME NEW l, NEW r, NEW sep, IsPair(l, r, sep), ~is_leaf(l)
    PROVE  IsPooled(l, r, sep, merge_from_right(l, r, sep))
<1> DEFINE w == Pool(l, r, sep)
           ch == l.children \o r.children
           q == merge_from_right(l, r, sep)
           C == Links(l) \cup Links(r)
<1>1. IsInternalPage(l) /\ IsInternalPage(r) /\ is_internal(l)
  BY PairKinds
<1>2. C \in SUBSET Nat
  BY <1>1, InternalLinks
<1>3. w \in Seq(Key) /\ Increasing(w) /\ Len(w) = Len(l.keys) + 1 + Len(r.keys)
  <2>1. w \in Seq(Key) /\ Increasing(w) /\ Len(w) = Len(l.keys) + Gap(l) + Len(r.keys)
    BY Pooled
  <2>2. Gap(l) = 1
    BY DEF Gap
  <2> QED
    BY <2>1, <2>2
<1>4. ch \in Seq(C) /\ Len(ch) = Len(l.keys) + 1 + Len(r.keys) + 1
  BY <1>1, <1>2, ChildrenJoined
<1>5. q = internal(w, ch)
  BY DEF merge_from_right, Pool
<1>6. Upto(Len(l.children), ch) = l.children /\ After(Len(l.children), ch) = r.children
  <2>1. l.children \in Seq(Nat) /\ r.children \in Seq(Nat)
    BY <1>1 DEF IsInternalPage
  <2> QED
    BY <2>1, PartsOfJoin
<1>7. Len(l.children) = Len(l.keys) + 1
  BY <1>1 DEF IsInternalPage
<1> HIDE DEF w, ch, q, C
<1>8. Len(ch) = Len(w) + 1
  BY <1>3, <1>4
<1>9. IsInternalPage(q) /\ q.keys = w /\ q.children = ch
  BY <1>2, <1>3, <1>4, <1>5, <1>8, InternalMade
<1>10. l.children = Upto(Len(l.keys) + 1, ch) /\ r.children = After(Len(l.keys) + 1, ch)
  BY <1>6, <1>7
<1>11. IsPooled(l, r, sep, q)
  BY <1>3, <1>9, <1>10 DEF IsPooled, w, ch
<1> QED
  BY <1>11 DEF q

(* A search beside a separator finds what one on the pages' union does,       *)
(* wherever between their entries the separator is.                           *)
LEMMA CutOfPairFinds ==
    ASSUME NEW l, NEW r, NEW sep, IsPair(l, r, sep), NEW p, NEW n \in Nat,
           IsDivided(l, p, Pool(l, r, sep), n), n + Gap(l) <= Len(Pool(l, r, sep)),
           ~is_leaf(l) => /\ p.left.children = Upto(n + 1, l.children \o r.children)
                          /\ p.right.children = After(n + 1, l.children \o r.children),
           p.sep \in Key, Separates(p.left, p.right, p.sep), NEW k \in Key
    PROVE  PairFinds(p.left, p.right, p.sep, k) = Finds(merge_from_right(l, r, sep), k)
<1> DEFINE w == Pool(l, r, sep)
           q == merge_from_right(l, r, sep)
           g == Gap(l)
<1>1. /\ w \in Seq(Key) /\ Increasing(w) /\ Len(w) \in Nat /\ (g = 0 <=> is_leaf(l)) /\ g \in 0 .. 1
  BY Pooled
<1>2. /\ IsPage(p.left) /\ IsPage(p.right) /\ (is_leaf(p.left) <=> is_leaf(l))
      /\ (is_leaf(p.right) <=> is_leaf(l))
      /\ p.left.keys = Upto(n, w) /\ p.right.keys = After(n + g, w)
      /\ ~is_leaf(l) => p.sep = w[n + 1]
  BY DEF IsDivided
<1> HIDE DEF g
<1>3. CASE is_leaf(l)
  <2>1. g = 0 /\ n + g = n /\ n \in 0 .. Len(w)
    BY <1>1, <1>3 DEF g
  <2>2. q = leaf(w, r.next, l.prev)
    BY <1>3 DEF merge_from_right, Pool
  <2> HIDE DEF w, q
  <2>3. is_leaf(q) /\ q.keys = w /\ Holds(q)
    BY <1>1, <2>2 DEF leaf, is_leaf, Holds
  <2>4. Holds(p.left) /\ Holds(p.right)
    BY <1>2, PageHolds
  <2>5. PairFinds(p.left, p.right, p.sep, k) <=> \E i \in 1 .. Len(w) : k = w[i]
    <3>1. p.right.keys = After(n, w)
      BY <1>2, <2>1
    <3> QED
      BY <1>1, <1>2, <1>3, <2>1, <2>4, <3>1, LeafCutFinds
  <2>6. HasKey(q, k) <=> \E i \in 1 .. Len(w) : k = w[i]
    BY <2>3, KeysOf DEF HasKey
  <2> DEFINE t == IF k < p.sep THEN p.left ELSE p.right
  <2>7. PairFinds(p.left, p.right, p.sep, k) = (k \in KeySet(t)) /\ Finds(q, k) = (k \in KeySet(q))
    <3>1. is_leaf(t)
      BY <1>2, <1>3
    <3>2. PairFinds(p.left, p.right, p.sep, k) = Finds(t, k)
      BY DEF PairFinds
    <3> HIDE DEF t
    <3>3. Finds(t, k) = (k \in KeySet(t))
      BY <3>1, Zenon DEF Finds, HasKey
    <3>4. Finds(q, k) = (k \in KeySet(q))
      BY <2>3, Zenon DEF Finds, HasKey
    <3> QED
      BY <3>2, <3>3, <3>4, Zenon
  <2> HIDE DEF t
  <2>8. k \in KeySet(t) <=> k \in KeySet(q)
    BY <2>5, <2>6, <2>7, Zenon DEF HasKey
  <2>9. (k \in KeySet(t)) = (k \in KeySet(q))
    BY <2>8
  <2> QED
    BY <2>7, <2>9 DEF q
<1>4. CASE ~is_leaf(l)
  <2> DEFINE ch == l.children \o r.children
  <2>1. IsInternalPage(q) /\ q.keys = w /\ q.children = ch /\ Increasing(q.keys)
    <3>1. IsPooled(l, r, sep, q)
      BY <1>4, PooledPage
    <3> HIDE DEF q
    <3> QED
      BY <3>1 DEF IsPooled
  <2>2. IsInternalPage(p.left) /\ IsInternalPage(p.right)
    BY <1>2, <1>4 DEF IsPage, IsLeafPage
  <2>3. p.left.children = Upto(n + 1, ch) /\ p.right.children = After(n + 1, ch) /\ p.sep = w[n + 1]
    BY <1>2, <1>4
  <2>4. g = 1 /\ n + g = n + 1 /\ n < Len(w)
    BY <1>1, <1>4 DEF g
  <2>5. p.left.keys = Upto(n, w) /\ p.right.keys = After(n + 1, w)
    BY <1>2, <2>4
  <2> HIDE DEF w, q, ch
  <2>6. PairFinds(p.left, p.right, q.keys[n + 1], k) = Finds(q, k)
    BY <2>1, <2>2, <2>3, <2>4, <2>5, CutFinds
  <2> QED
    BY <2>1, <2>3, <2>6 DEF q
<1> QED
  BY <1>3, <1>4

(* Page::merge_from_right: a search in the merged page finds what it found    *)
(* beside the separator.                                                      *)
THEOREM MergeKeepsSearches ==
    ASSUME NEW l, NEW r, NEW sep, IsPair(l, r, sep), Separates(l, r, sep), NEW k \in Key
    PROVE  Finds(merge_from_right(l, r, sep), k) = PairFinds(l, r, sep, k)
<1> DEFINE p == [left |-> l, right |-> r, sep |-> sep]
           n == Len(l.keys)
           w == Pool(l, r, sep)
<1>1. IsDivided(l, p, w, n) /\ p.left = l /\ p.right = r /\ p.sep = sep
  BY PairDivided
<1>2. n \in Nat /\ sep \in Key /\ Len(r.keys) \in Nat
  BY PairKinds
<1>3. n + Gap(l) <= Len(w)
  <2>1. Len(w) = n + Gap(l) + Len(r.keys) /\ Gap(l) \in 0 .. 1
    BY Pooled
  <2> QED
    BY <1>2, <2>1
<1>4. ~is_leaf(l) => /\ p.left.children = Upto(n + 1, l.children \o r.children)
                     /\ p.right.children = After(n + 1, l.children \o r.children)
  <2>1. ~is_leaf(l) => IsPooled(l, r, sep, merge_from_right(l, r, sep))
    BY PooledPage
  <2> QED
    BY <1>1, <2>1 DEF IsPooled
<1> HIDE DEF p, n
<1>5. PairFinds(p.left, p.right, p.sep, k) = Finds(merge_from_right(l, r, sep), k)
  BY <1>1, <1>2, <1>3, <1>4, CutOfPairFinds
<1> QED
  BY <1>1, <1>5

LEMMA RedistributedFinds ==
    ASSUME NEW l, NEW r, NEW sep, IsPair(l, r, sep), Separates(l, r, sep),
           NEW n \in Nat, n < Len(Pool(l, r, sep)), NEW k \in Key
    PROVE  LET p == Redistributed(l, r, sep, n)
           IN /\ Separates(p.left, p.right, p.sep)
              /\ PairFinds(p.left, p.right, p.sep, k) = PairFinds(l, r, sep, k)
<1> DEFINE p == Redistributed(l, r, sep, n)
           w == Pool(l, r, sep)
           g == Gap(l)
<1>1. IsDivided(l, p, w, n) /\ p.sep = w[n + 1] /\ p.sep \in Key
  BY CutDivided
<1>2. w \in Seq(Key) /\ Increasing(w) /\ Len(w) \in Nat /\ g \in 0 .. 1
  BY Pooled
<1>3. ~is_leaf(l) => /\ p.left.children = Upto(n + 1, l.children \o r.children)
                     /\ p.right.children = After(n + 1, l.children \o r.children)
  BY DEF Redistributed, internal
<1>4. p.left.keys = Upto(n, w) /\ p.right.keys = After(n + g, w)
  BY <1>1 DEF IsDivided
<1> HIDE DEF p, w, g
<1>5. Separates(p.left, p.right, p.sep)
  <2>1. n < Len(w)
    BY DEF w
  <2>2. Separates(p.left, p.right, w[n + 1])
    BY <1>2, <1>4, <2>1, PartsSeparate
  <2> QED
    BY <1>1, <2>2
<1>6. n + g <= Len(w)
  <2>1. n < Len(w)
    BY DEF w
  <2> QED
    BY <1>2, <2>1
<1>7. PairFinds(p.left, p.right, p.sep, k) = Finds(merge_from_right(l, r, sep), k)
  BY <1>1, <1>3, <1>5, <1>6, CutOfPairFinds DEF w, g
<1>8. Finds(merge_from_right(l, r, sep), k) = PairFinds(l, r, sep, k)
  BY MergeKeepsSearches
<1> QED
  BY <1>5, <1>7, <1>8 DEF p

(* Page::bulk_borrow_from_right and _from_left: every search beside the       *)
(* separator finds what it found before the entries moved.                    *)
THEOREM BorrowKeepsSearches ==
    ASSUME NEW l, NEW r, NEW sep, IsPair(l, r, sep), Separates(l, r, sep), NEW k \in Key
    PROVE  LET pair == [left |-> l, right |-> r, sep |-> sep]
               fromRight == bulk_borrow_from_right(l, r, sep)
               fromLeft == bulk_borrow_from_left(l, r, sep)
           IN /\ CanBorrowFromRight(pair) =>
                     /\ Separates(fromRight.left, fromRight.right, fromRight.sep)
                     /\ PairFinds(fromRight.left, fromRight.right, fromRight.sep, k) = PairFinds(l, r, sep, k)
              /\ CanBorrowFromLeft(pair) =>
                     /\ Separates(fromLeft.left, fromLeft.right, fromLeft.sep)
                     /\ PairFinds(fromLeft.left, fromLeft.right, fromLeft.sep, k) = PairFinds(l, r, sep, k)
<1> DEFINE pair == [left |-> l, right |-> r, sep |-> sep]
           fromRight == bulk_borrow_from_right(l, r, sep)
           fromLeft == bulk_borrow_from_left(l, r, sep)
           Kept(b) == /\ Separates(b.left, b.right, b.sep)
                      /\ PairFinds(b.left, b.right, b.sep, k) = PairFinds(l, r, sep, k)
<1>1. ASSUME NEW i \in Nat, i < Len(Pool(l, r, sep)) PROVE Kept(Redistributed(l, r, sep, i))
  BY <1>1, RedistributedFinds
<1>2. CanBorrowFromRight(pair) =>
          \E i \in Nat : i < Len(Pool(l, r, sep)) /\ fromRight = Redistributed(l, r, sep, i)
  BY BorrowedFromRight, Zenon
<1>3. CanBorrowFromLeft(pair) =>
          \E i \in Nat : i < Len(Pool(l, r, sep)) /\ fromLeft = Redistributed(l, r, sep, i)
  BY BorrowedFromLeft, Zenon
<1> HIDE DEF Kept, pair, fromRight, fromLeft
<1>4. (CanBorrowFromRight(pair) => Kept(fromRight)) /\ (CanBorrowFromLeft(pair) => Kept(fromLeft))
  BY <1>1, <1>2, <1>3, Zenon
<1> QED
  BY <1>4, Zenon DEF Kept, pair, fromRight, fromLeft

(* Page::split_page: the separator it hands up parts the halves' keys, and    *)
(* every search beside it finds what it found on the page.                    *)
THEOREM SplitKeepsSearches ==
    ASSUME NEW pg, GoodPage(pg), IsFull(pg), NEW self \in Nat, NEW new \in Nat, NEW k \in Key
    PROVE  LET s == split_page(pg, self, new)
           IN /\ Separates(s.left, s.right, s.sep)
              /\ PairFinds(s.left, s.right, s.sep, k) = Finds(pg, k)
<1> DEFINE s == split_page(pg, self, new)
           n == SplitOff(pg)
           m == Len(pg.keys)
<1>1. /\ IsPage(pg) /\ Holds(pg) /\ Increasing(pg.keys) /\ pg.keys \in Seq(Key) /\ ~is_free(pg)
      /\ (is_leaf(pg) <=> ~is_internal(pg)) /\ m \in Nat
      /\ n \in 1 .. m - (IF is_leaf(pg) THEN 1 ELSE 2)
  BY FullPages
<1>2. /\ GoodPage(s.left) /\ GoodPage(s.right)
      /\ is_leaf(pg) => is_leaf(s.left) /\ is_leaf(s.right)
      /\ is_internal(pg) => is_internal(s.left) /\ is_internal(s.right)
  BY SplitKeepsPages
<1>3. /\ s.sep = pg.keys[n + 1] /\ s.left.keys = Upto(n, pg.keys)
      /\ s.right.keys = After(n + (IF is_leaf(pg) THEN 0 ELSE 1), pg.keys)
      /\ ~is_leaf(pg) => /\ s.left.children = Upto(n + 1, pg.children)
                         /\ s.right.children = After(n + 1, pg.children)
  <2>1. CASE is_leaf(pg)
    <3>1. n + 0 = n
      BY <1>1
    <3>2. s = [left |-> leaf(Upto(n, pg.keys), new, pg.prev),
               right |-> leaf(After(n, pg.keys), pg.next, self),
               sep |-> pg.keys[n + 1]]
      BY <2>1 DEF split_page
    <3> HIDE DEF s, n
    <3> QED
      BY <2>1, <3>1, <3>2 DEF leaf
  <2>2. CASE ~is_leaf(pg)
    <3>1. s = [left |-> internal(Upto(n, pg.keys), Upto(n + 1, pg.children)),
               right |-> internal(After(n + 1, pg.keys), After(n + 1, pg.children)),
               sep |-> pg.keys[n + 1]]
      BY <2>2 DEF split_page
    <3> HIDE DEF s, n
    <3> QED
      BY <2>2, <3>1 DEF internal
  <2> QED
    BY <2>1, <2>2
<1> HIDE DEF s, n
<1>4. n \in Nat /\ n < m /\ n \in 0 .. m
  BY <1>1
<1>5. Separates(s.left, s.right, s.sep) /\ s.sep \in Key
  <2> DEFINE g == IF is_leaf(pg) THEN 0 ELSE 1
  <2>1. g \in 0 .. 1 /\ s.right.keys = After(n + g, pg.keys)
    BY <1>3
  <2> HIDE DEF g
  <2>2. Separates(s.left, s.right, pg.keys[n + 1]) /\ pg.keys[n + 1] \in Key
    BY <1>1, <1>3, <1>4, <2>1, PartsSeparate
  <2> QED
    BY <1>3, <2>2
<1>6. CASE is_leaf(pg)
  <2>1. s.right.keys = After(n, pg.keys)
    BY <1>3, <1>4, <1>6
  <2>2. /\ Holds(s.left) /\ Holds(s.right) /\ is_leaf(s.left) /\ is_leaf(s.right)
    BY <1>2, <1>6, GoodPages, PageHolds
  <2>3. PairFinds(s.left, s.right, s.sep, k) <=> \E i \in 1 .. m : k = pg.keys[i]
    BY <1>1, <1>3, <1>4, <1>5, <2>1, <2>2, LeafCutFinds
  <2>4. k \in KeySet(pg) <=> \E i \in 1 .. m : k = pg.keys[i]
    BY <1>1, KeysOf
  <2> DEFINE t == IF k < s.sep THEN s.left ELSE s.right
  <2>5. PairFinds(s.left, s.right, s.sep, k) = (k \in KeySet(t)) /\ Finds(pg, k) = (k \in KeySet(pg))
    <3>1. is_leaf(t)
      BY <2>2
    <3>2. PairFinds(s.left, s.right, s.sep, k) = Finds(t, k)
      BY DEF PairFinds
    <3> HIDE DEF t
    <3>3. Finds(t, k) = (k \in KeySet(t))
      BY <3>1, Zenon DEF Finds, HasKey
    <3>4. Finds(pg, k) = (k \in KeySet(pg))
      BY <1>6, Zenon DEF Finds, HasKey
    <3> QED
      BY <3>2, <3>3, <3>4, Zenon
  <2> HIDE DEF t
  <2>6. k \in KeySet(t) <=> k \in KeySet(pg)
    BY <2>3, <2>4, <2>5, Zenon
  <2>7. (k \in KeySet(t)) = (k \in KeySet(pg))
    BY <2>6
  <2> QED
    BY <1>5, <2>5, <2>7 DEF s
<1>7. CASE ~is_leaf(pg)
  <2>1. IsInternalPage(pg) /\ IsInternalPage(s.left) /\ IsInternalPage(s.right)
    BY <1>1, <1>2, <1>7, GoodPages
  <2>2. s.right.keys = After(n + 1, pg.keys)
    BY <1>3, <1>7
  <2>3. PairFinds(s.left, s.right, pg.keys[n + 1], k) = Finds(pg, k)
    BY <1>1, <1>3, <1>4, <1>7, <2>1, <2>2, CutFinds
  <2> QED
    BY <1>3, <1>5, <2>3 DEF s
<1> QED
  BY <1>6, <1>7

(* Where a search goes on an internal page, in numbers.                       *)
LEMMA RouteIs ==
    ASSUME NEW pg, IsInternalPage(pg), Increasing(pg.keys), NEW k \in Key
    PROVE  LET i == find_child_index(pg, k)
               m == Len(pg.keys)
           IN /\ pg.keys \in Seq(Key) /\ m \in Nat /\ i \in 0 .. m /\ i \in Nat /\ k \in Nat
              /\ \A j \in 1 .. m : pg.keys[j] \in Nat
              /\ i > 0 => pg.keys[i] <= k
              /\ i < m => k < pg.keys[i + 1]
              /\ find_child(pg, k) = pg.children[i + 1]
              /\ pg.children \in Seq(Nat) /\ Len(pg.children) = m + 1
<1> DEFINE i == find_child_index(pg, k)
           m == Len(pg.keys)
<1>1. /\ Holds(pg) /\ pg.keys \in Seq(Key) /\ m \in Nat /\ k \in Nat
      /\ pg.children \in Seq(Nat) /\ Len(pg.children) = m + 1
      /\ \A j \in 1 .. m : pg.keys[j] \in Nat
  BY KeysAreNumbers, SizeAssumption DEF Holds, IsInternalPage, is_leaf, is_internal
<1>2. /\ i \in 0 .. m
      /\ \A j \in 1 .. i : pg.keys[j] <= k
      /\ \A j \in i + 1 .. m : k < pg.keys[j]
  BY <1>1, ChildPlace
<1> HIDE DEF i, m
<1>3. i > 0 => pg.keys[i] <= k
  BY <1>1, <1>2
<1>4. i < m => k < pg.keys[i + 1]
  BY <1>1, <1>2
<1>5. i \in 0 .. Len(pg.children) - 1
  BY <1>1, <1>2
<1>6. find_child(pg, k) = pg.children[i + 1]
  BY <1>5 DEF find_child, child_at, i
<1>7. i \in Nat
  BY <1>1, <1>2
<1> QED
  BY <1>1, <1>2, <1>3, <1>4, <1>6, <1>7, Zenon DEF i, m

(* Page::internal_insert: the keys that went to the child beside the new      *)
(* separator go to the new child from the separator on; no others move.       *)
THEOREM InsertReroutes ==
    ASSUME NEW pg, GoodPage(pg), NEW sep \in Key, TakesSeparator(pg, sep), NEW right \in Nat,
           NEW k \in Key
    PROVE  find_child(internal_insert(pg, sep, right), k) =
               IF sep <= k /\ find_child_index(pg, k) = find_child_index(pg, sep) THEN right
               ELSE find_child(pg, k)
<1> DEFINE q == internal_insert(pg, sep, right)
           n == Below(pg.keys, sep)
           m == Len(pg.keys)
           i == find_child_index(pg, k)
           ch == Upto(n + 1, pg.children) \o <<right>> \o After(n + 1, pg.children)
           w == WithKey(pg, sep)
<1>1. /\ IsInternalPage(pg) /\ Increasing(pg.keys) /\ Holds(pg) /\ ~HasKey(pg, sep)
  BY GoodPages DEF TakesSeparator, can_insert_separator, is_internal, is_free
<1>2. find_child_index(pg, sep) = n
  <2>1. n \in Nat
    BY <1>1, WithKeyIs
  <2> QED
    BY <1>1, <2>1 DEF find_child_index
<1>3. q = internal(w, ch) /\ q.keys = w /\ q.children = ch
  BY DEF internal_insert, internal
<1>4. /\ pg.keys \in Seq(Key) /\ m \in Nat /\ i \in 0 .. m /\ i \in Nat /\ k \in Nat
      /\ \A j \in 1 .. m : pg.keys[j] \in Nat
      /\ i > 0 => pg.keys[i] <= k
      /\ i < m => k < pg.keys[i + 1]
      /\ find_child(pg, k) = pg.children[i + 1]
      /\ pg.children \in Seq(Nat) /\ Len(pg.children) = m + 1
  BY <1>1, RouteIs
<1>5. n \in 0 .. m /\ IsPutIn(Key, pg.keys, n, sep, n, w)
  BY <1>1, WithKeyIs
<1>6. /\ \A j \in 1 .. n : pg.keys[j] <= sep
      /\ \A j \in n + 1 .. m : sep < pg.keys[j]
  BY <1>1, <1>2, ChildPlace
<1>7. GoodPage(q) /\ is_internal(q)
  BY SeparatorInserted
<1> HIDE DEF n, i, m, w, q
<1>8. n + 1 \in 0 .. Len(pg.children) /\ n \in Nat /\ sep \in Nat
  BY <1>4, <1>5, SizeAssumption
<1>9. IsPutIn(Nat, pg.children, n + 1, right, n + 1, ch)
  BY <1>4, <1>8, PutIn
<1> HIDE DEF ch
<1>10. IsInternalPage(q) /\ Increasing(q.keys)
  BY <1>7, GoodPages DEF is_internal, is_free
<1>11. /\ Len(q.keys) = m + 1
       /\ \A j \in 1 .. n : q.keys[j] = pg.keys[j]
       /\ q.keys[n + 1] = sep
       /\ \A j \in 1 .. m - n : q.keys[n + 1 + j] = pg.keys[n + j]
  <2>1. /\ Len(w) = n + 1 + (m - n)
        /\ \A j \in 1 .. n : w[j] = pg.keys[j]
        /\ w[n + 1] = sep
        /\ \A j \in 1 .. m - n : w[n + 1 + j] = pg.keys[n + j]
    BY <1>5, Zenon DEF IsPutIn, m
  <2>2. n + 1 + (m - n) = m + 1
    BY <1>4, <1>5
  <2> QED
    BY <1>3, <2>1, <2>2
<1>t. i \in Nat /\ n \in Nat /\ m \in Nat /\ i <= m /\ n <= m /\ Len(q.keys) = m + 1
  BY <1>4, <1>5, <1>11
<1>12. /\ \A j \in 1 .. n + 1 : q.children[j] = pg.children[j]
       /\ q.children[(n + 1) + 1] = right
       /\ \A j \in 1 .. (m + 1) - (n + 1) : q.children[(n + 1) + 1 + j] = pg.children[(n + 1) + j]
  <2>1. /\ \A j \in 1 .. n + 1 : ch[j] = pg.children[j]
        /\ ch[(n + 1) + 1] = right
        /\ \A j \in 1 .. Len(pg.children) - (n + 1) : ch[(n + 1) + 1 + j] = pg.children[(n + 1) + j]
    BY <1>9, Zenon DEF IsPutIn
  <2> QED
    BY <1>3, <1>4, <2>1
<1>13. CASE k < sep
  <2>1. i <= n
    <3>1. ASSUME n < i PROVE FALSE
      <4>1. i \in n + 1 .. m /\ i > 0 /\ i \in 1 .. m
        BY <1>t, <3>1
      <4> QED
        <5>1. pg.keys[i] <= k /\ sep < pg.keys[i]
          BY <1>4, <1>6, <4>1, Zenon
        <5>2. pg.keys[i] \in Nat /\ k \in Nat /\ sep \in Nat
          BY <1>4, <1>8, <4>1, Zenon
        <5> QED
          BY <1>13, <5>1, <5>2
    <3> QED
      BY <1>t, <3>1
  <2>2. i \in 0 .. Len(q.keys) /\ i + 1 \in 1 .. n + 1
    BY <1>t, <2>1
  <2>3. i > 0 => q.keys[i] <= k
    <3>1. i > 0 => i \in 1 .. n
      BY <1>t, <2>1
    <3> QED
      BY <1>4, <1>11, <3>1
  <2>4. i < Len(q.keys) => k < q.keys[i + 1]
    <3>1. CASE i = n
      <4>1. q.keys[n + 1] = sep
        BY <1>11
      <4>2. k < q.keys[n + 1]
        BY <1>13, <4>1
      <4>3. q.keys[i + 1] = q.keys[n + 1]
        BY <3>1
      <4> QED
        BY <4>2, <4>3, Zenon
    <3>2. CASE i # n
      <4>0. i \in Nat /\ n \in Nat /\ m \in Nat /\ n <= m
        BY <1>4, <1>5, <1>8
      <4>1. i + 1 \in 1 .. n /\ i < m
        BY <2>1, <3>2, <4>0
      <4> QED
        BY <1>4, <1>11, <4>1
    <3> QED
      BY <3>1, <3>2
  <2>5. find_child(q, k) = q.children[i + 1]
    BY <1>10, <2>2, <2>3, <2>4, ChildIs
  <2>6. ~(sep <= k)
    BY <1>4, <1>8, <1>13
  <2>7. find_child(q, k) = find_child(pg, k)
    BY <1>4, <1>12, <2>2, <2>5
  <2> QED
    BY <2>6, <2>7 DEF q
<1>14. CASE ~(k < sep)
  <2>1. n <= i
    <3>1. ASSUME i < n PROVE FALSE
      <4>1. i + 1 \in 1 .. n /\ i < m /\ i + 1 \in 1 .. m
        BY <1>t, <3>1
      <4> QED
        <5>1. k < pg.keys[i + 1] /\ pg.keys[i + 1] <= sep
          BY <1>4, <1>6, <4>1, Zenon
        <5>2. pg.keys[i + 1] \in Nat /\ k \in Nat /\ sep \in Nat
          BY <1>4, <1>8, <4>1, Zenon
        <5> QED
          BY <1>14, <5>1, <5>2
    <3> QED
      BY <1>t, <3>1
  <2> DEFINE d == i - n
  <2>2. /\ d \in 0 .. m - n /\ d \in Nat /\ n + d = i /\ n + 1 + d = i + 1 /\ i + 1 \in 0 .. Len(q.keys)
        /\ n + (d + 1) = i + 1 /\ n + 1 + (d + 1) = (i + 1) + 1
        /\ (n + 1) + 1 + d = (i + 1) + 1 /\ (n + 1) + d = i + 1
    BY <1>t, <2>1
  <2> HIDE DEF d
  <2>3. q.keys[i + 1] <= k
    <3>1. CASE d = 0
      <4>1. i + 1 = n + 1 /\ sep <= k
        BY <1>4, <1>8, <1>14, <2>2, <3>1
      <4> QED
        BY <1>11, <4>1
    <3>2. CASE d # 0
      <4>1. d \in 1 .. m - n /\ i > 0
        BY <1>t, <2>2, <3>2
      <4>2. q.keys[i + 1] = pg.keys[i]
        BY <1>11, <2>2, <4>1
      <4> QED
        BY <1>4, <4>1, <4>2
    <3> QED
      BY <3>1, <3>2
  <2>4. i + 1 < Len(q.keys) => k < q.keys[(i + 1) + 1]
    <3>1. ASSUME i + 1 < Len(q.keys) PROVE i < m /\ d + 1 \in 1 .. m - n
      BY <1>t, <2>2, <3>1
    <3>2. ASSUME i + 1 < Len(q.keys) PROVE q.keys[(i + 1) + 1] = pg.keys[i + 1]
      BY <1>11, <2>2, <3>1, <3>2
    <3> QED
      BY <1>4, <3>1, <3>2
  <2>5. find_child(q, k) = q.children[(i + 1) + 1]
    BY <1>10, <2>2, <2>3, <2>4, ChildIs
  <2>6. sep <= k
    BY <1>4, <1>8, <1>14
  <2>7. CASE d = 0
    <3>1. i = n /\ (i + 1) + 1 = (n + 1) + 1
      BY <1>t, <2>2, <2>7
    <3>2. find_child(q, k) = right
      BY <1>12, <2>5, <3>1
    <3> QED
      BY <1>2, <2>6, <3>1, <3>2 DEF q, i
  <2>8. CASE d # 0
    <3>1. i # n /\ d \in 1 .. (m + 1) - (n + 1)
      BY <1>t, <2>2, <2>8
    <3>2. q.children[(i + 1) + 1] = pg.children[i + 1]
      BY <1>12, <2>2, <3>1
    <3>3. find_child(q, k) = find_child(pg, k)
      BY <1>4, <2>5, <3>2
    <3> QED
      BY <1>2, <3>1, <3>3 DEF q, i
  <2> QED
    BY <2>7, <2>8
<1> QED
  BY <1>13, <1>14

(* Page::internal_remove: the keys that went to the child right of the        *)
(* separator go to the one left of it; no others move.                        *)
THEOREM RemoveReroutes ==
    ASSUME NEW pg, GoodPage(pg), is_internal(pg), NEW sep \in Key, HasKey(pg, sep), NEW k \in Key
    PROVE  LET n == find_child_index(pg, sep)
           IN /\ n \in 1 .. Len(pg.keys)
              /\ find_child(internal_remove(pg, sep), k) =
                     IF find_child_index(pg, k) = n THEN child_at(pg, n - 1) ELSE find_child(pg, k)
<1> DEFINE q == internal_remove(pg, sep)
           n == Below(pg.keys, sep)
           m == Len(pg.keys)
           i == find_child_index(pg, k)
           ch == Upto(n + 1, pg.children) \o After(n + 2, pg.children)
           w == WithoutKey(pg, sep)
<1>1. IsInternalPage(pg) /\ Increasing(pg.keys) /\ Holds(pg)
  BY GoodPages, PageHolds DEF is_internal, is_free, IsPage
<1>2. find_child_index(pg, sep) = n + 1
  BY DEF find_child_index
<1>3. q = internal(w, ch) /\ q.keys = w /\ q.children = ch
  BY DEF internal_remove, internal
<1>4. /\ pg.keys \in Seq(Key) /\ m \in Nat /\ i \in 0 .. m /\ i \in Nat /\ k \in Nat
      /\ \A j \in 1 .. m : pg.keys[j] \in Nat
      /\ i > 0 => pg.keys[i] <= k
      /\ i < m => k < pg.keys[i + 1]
      /\ find_child(pg, k) = pg.children[i + 1]
      /\ pg.children \in Seq(Nat) /\ Len(pg.children) = m + 1
  BY <1>1, RouteIs
<1>5. n \in 0 .. m - 1 /\ IsLeftOut(Key, pg.keys, n, n + 1, w)
  BY <1>1, WithoutKeyIs
<1>6. GoodPage(q) /\ is_internal(q)
  BY SeparatorRemoved
<1>7. child_at(pg, n) = pg.children[n + 1] /\ n \in Nat
  <2> HIDE DEF n
  <2>1. n \in 0 .. Len(pg.children) - 1
    BY <1>4, <1>5
  <2> QED
    BY <2>1 DEF child_at
<1> HIDE DEF n, i, m, w, q
<1>8. n + 1 \in 0 .. Len(pg.children) /\ n + 2 \in 0 .. Len(pg.children) /\ n + 1 \in 1 .. m
  BY <1>4, <1>5
<1>s. \A a \in 1 .. m : \A b \in 1 .. m : a < b => pg.keys[a] < pg.keys[b]
  BY <1>1, <1>4, SortedPair DEF m
<1>9. IsLeftOut(Nat, pg.children, n + 1, n + 2, ch)
  BY <1>4, <1>8, LeftOut
<1> HIDE DEF ch
<1>10. IsInternalPage(q) /\ Increasing(q.keys)
  BY <1>6, GoodPages DEF is_internal, is_free
<1>11. /\ Len(q.keys) = m - 1
       /\ \A j \in 1 .. n : q.keys[j] = pg.keys[j]
       /\ \A j \in 1 .. m - (n + 1) : q.keys[n + j] = pg.keys[(n + 1) + j]
  <2>1. /\ Len(w) = n + (m - (n + 1))
        /\ \A j \in 1 .. n : w[j] = pg.keys[j]
        /\ \A j \in 1 .. m - (n + 1) : w[n + j] = pg.keys[(n + 1) + j]
    BY <1>5, Zenon DEF IsLeftOut, m
  <2>2. n + (m - (n + 1)) = m - 1
    BY <1>4, <1>5
  <2> QED
    BY <1>3, <2>1, <2>2
<1>t. i \in Nat /\ n \in Nat /\ m \in Nat /\ i <= m /\ n + 1 <= m /\ Len(q.keys) = m - 1
  BY <1>4, <1>5, <1>7, <1>11
<1>12. /\ \A j \in 1 .. n + 1 : q.children[j] = pg.children[j]
       /\ \A j \in 1 .. (m + 1) - (n + 2) : q.children[(n + 1) + j] = pg.children[(n + 2) + j]
  <2>1. /\ \A j \in 1 .. n + 1 : ch[j] = pg.children[j]
        /\ \A j \in 1 .. Len(pg.children) - (n + 2) : ch[(n + 1) + j] = pg.children[(n + 2) + j]
    BY <1>9, Zenon DEF IsLeftOut
  <2> QED
    BY <1>3, <1>4, <2>1
<1>13. CASE i <= n
  <2>1. i \in 0 .. Len(q.keys) /\ i + 1 \in 1 .. n + 1 /\ i # n + 1
    BY <1>t, <1>13
  <2>2. i > 0 => q.keys[i] <= k
    <3>1. i > 0 => i \in 1 .. n
      BY <1>t, <1>13
    <3> QED
      BY <1>4, <1>11, <3>1
  <2>3. i < Len(q.keys) => k < q.keys[i + 1]
    <3>1. i < m /\ k < pg.keys[i + 1]
      <4>1. i < m
        BY <1>t, <1>13
      <4> QED
        BY <1>4, <4>1
    <3>2. CASE i < n
      <4>1. i + 1 \in 1 .. n
        BY <1>t, <3>2
      <4> QED
        BY <1>11, <3>1, <4>1
    <3>3. CASE ~(i < n)
      <4>1. ASSUME i < Len(q.keys) PROVE i = n /\ 1 \in 1 .. m - (n + 1) /\ (n + 1) + 1 \in 1 .. m /\ i + 1 \in 1 .. m
        BY <1>t, <1>13, <3>3, <4>1
      <4>2. ASSUME i < Len(q.keys) PROVE q.keys[i + 1] = pg.keys[(n + 1) + 1]
        BY <1>11, <4>1, <4>2
      <4>3. ASSUME i < Len(q.keys) PROVE pg.keys[i + 1] < pg.keys[(n + 1) + 1]
        <5>1. i + 1 < (n + 1) + 1
          BY <1>t, <4>1, <4>3
        <5> QED
          BY <1>s, <4>1, <4>3, <5>1
      <4>4. ASSUME i < Len(q.keys) PROVE k < pg.keys[(n + 1) + 1]
        <5>1. pg.keys[i + 1] \in Nat /\ pg.keys[(n + 1) + 1] \in Nat
          BY <1>4, <4>1, <4>4
        <5>2. k \in Nat /\ k < pg.keys[i + 1] /\ pg.keys[i + 1] < pg.keys[(n + 1) + 1]
          BY <1>4, <3>1, <4>3, <4>4
        <5> QED
          BY <5>1, <5>2
      <4> QED
        BY <4>2, <4>4
    <3> QED
      BY <3>2, <3>3
  <2>4. find_child(q, k) = q.children[i + 1]
    BY <1>10, <2>1, <2>2, <2>3, ChildIs
  <2>5. find_child(q, k) = find_child(pg, k)
    BY <1>4, <1>12, <2>1, <2>4
  <2> QED
    BY <1>2, <1>8, <2>1, <2>5 DEF q, i, m
<1>14. CASE n < i
  <2> DEFINE d == i - (n + 1)
  <2>1. /\ d \in 0 .. m - (n + 1) /\ d \in Nat /\ n + d = i - 1 /\ (n + 1) + d = i
        /\ n + (d + 1) = i /\ (n + 1) + (d + 1) = i + 1 /\ (n + 2) + d = i + 1
        /\ i - 1 \in 0 .. Len(q.keys) /\ (i - 1) + 1 = i
    BY <1>t, <1>14
  <2> HIDE DEF d
  <2>2. i - 1 > 0 => q.keys[i - 1] <= k
    <3>1. CASE d = 0
      <4>1. i - 1 = n /\ i = n + 1
        BY <1>t, <2>1, <3>1
      <4>2. ASSUME n > 0 PROVE n \in 1 .. n /\ n \in 1 .. m /\ n + 1 \in 1 .. m /\ n < n + 1
        <5>1. n \in Nat /\ m \in Nat /\ n + 1 \in 1 .. m
          BY <1>4, <1>7, <1>8
        <5> QED
          BY <4>2, <5>1
      <4>3. ASSUME n > 0 PROVE q.keys[n] = pg.keys[n] /\ pg.keys[n] < pg.keys[n + 1]
        BY <1>11, <1>s, <4>2, <4>3
      <4>4. ASSUME n > 0 PROVE q.keys[n] <= k
        <5>1. pg.keys[n] \in Nat /\ pg.keys[n + 1] \in Nat
          BY <1>4, <4>2, <4>4
        <5>2. pg.keys[n + 1] <= k
          BY <1>4, <1>7, <4>1
        <5> QED
          BY <1>4, <4>3, <4>4, <5>1, <5>2
      <4> QED
        BY <4>1, <4>4
    <3>2. CASE d # 0
      <4>1. d \in 1 .. m - (n + 1) /\ i > 0
        BY <1>t, <2>1, <3>2
      <4>2. q.keys[i - 1] = pg.keys[i]
        BY <1>11, <2>1, <4>1
      <4> QED
        BY <1>4, <4>1, <4>2
    <3> QED
      BY <3>1, <3>2
  <2>3. i - 1 < Len(q.keys) => k < q.keys[(i - 1) + 1]
    <3>1. ASSUME i - 1 < Len(q.keys) PROVE i < m /\ d + 1 \in 1 .. m - (n + 1)
      BY <1>t, <2>1, <3>1
    <3>2. ASSUME i - 1 < Len(q.keys) PROVE q.keys[(i - 1) + 1] = pg.keys[i + 1]
      BY <1>11, <2>1, <3>1, <3>2
    <3> QED
      BY <1>4, <3>1, <3>2
  <2>4. find_child(q, k) = q.children[(i - 1) + 1]
    BY <1>10, <2>1, <2>2, <2>3, ChildIs
  <2>5. CASE d = 0
    <3>1. i = n + 1 /\ (n + 1) - 1 = n /\ n + 1 \in 1 .. n + 1
      BY <1>t, <2>1, <2>5
    <3>2. q.children[(i - 1) + 1] = pg.children[n + 1]
      <4>1. (i - 1) + 1 = n + 1
        BY <2>1, <3>1
      <4> QED
        BY <1>12, <3>1, <4>1
    <3> QED
      BY <1>2, <1>7, <1>8, <2>4, <3>1, <3>2 DEF q, i, m
  <2>6. CASE d # 0
    <3>1. i # n + 1 /\ d \in 1 .. (m + 1) - (n + 2)
      BY <1>t, <2>1, <2>6
    <3>2. q.children[i] = pg.children[i + 1]
      BY <1>12, <2>1, <3>1
    <3>3. find_child(q, k) = find_child(pg, k)
      BY <1>4, <2>1, <2>4, <3>2
    <3> QED
      BY <1>2, <1>8, <3>1, <3>3 DEF q, i, m
  <2> QED
    BY <2>5, <2>6
<1> QED
  BY <1>4, <1>7, <1>13, <1>14

(* Page::internal_replace_key: the keys between the old and the new separator *)
(* change to the child on its other side; no others move.                     *)
THEOREM ReplaceReroutes ==
    ASSUME NEW pg, GoodPage(pg), is_internal(pg), NEW old \in Key, NEW new \in Key,
           CanReplace(pg, old, new), NEW k \in Key
    PROVE  LET n == find_child_index(pg, old)
           IN /\ n \in 1 .. Len(pg.keys)
              /\ find_child(internal_replace_key(pg, old, new), k) =
                     IF find_child_index(pg, k) \in {n - 1, n}
                     THEN child_at(pg, IF k < new THEN n - 1 ELSE n)
                     ELSE find_child(pg, k)
<1> DEFINE q == internal_replace_key(pg, old, new)
           n == Below(pg.keys, old) + 1
           m == Len(pg.keys)
           i == find_child_index(pg, k)
<1>1. IsInternalPage(pg) /\ Increasing(pg.keys) /\ Holds(pg)
  BY GoodPages, PageHolds DEF is_internal, is_free, IsPage
<1>2. /\ HasKey(pg, old) /\ (n = 1 \/ pg.keys[n - 1] < new) /\ (n = m \/ new < pg.keys[n + 1])
  BY DEF CanReplace
<1>3. find_child_index(pg, old) = n
  BY <1>2 DEF find_child_index
<1>4. /\ pg.keys \in Seq(Key) /\ m \in Nat /\ i \in 0 .. m /\ i \in Nat /\ k \in Nat
      /\ \A j \in 1 .. m : pg.keys[j] \in Nat
      /\ i > 0 => pg.keys[i] <= k
      /\ i < m => k < pg.keys[i + 1]
      /\ find_child(pg, k) = pg.children[i + 1]
      /\ pg.children \in Seq(Nat) /\ Len(pg.children) = m + 1
  BY <1>1, RouteIs
<1>5. n \in 1 .. m /\ pg.keys[n] = old
  <2>1. /\ Below(pg.keys, old) \in 0 .. m /\ Below(pg.keys, old) < m
        /\ pg.keys[Below(pg.keys, old) + 1] = old
    BY <1>1, <1>2, WithKeyIs, PlaceOfKey
  <2>2. m \in Nat
    BY <1>4
  <2> HIDE DEF m
  <2> QED
    BY <2>1, <2>2
<1>6. q.children = pg.children /\ q.keys = [pg.keys EXCEPT ![n] = new]
  BY <1>1 DEF internal_replace_key, IsInternalPage, internal
<1>7. GoodPage(q) /\ is_internal(q)
  BY KeyReplaced
<1> HIDE DEF n, i, m, q
<1>8. /\ Len(q.keys) = m /\ q.keys[n] = new
      /\ \A j \in 1 .. m : j # n => q.keys[j] = pg.keys[j]
  <2>1. new \in Key /\ n \in 1 .. Len(pg.keys) /\ pg.keys \in Seq(Key)
    BY <1>4, <1>5 DEF m
  <2> DEFINE t == [pg.keys EXCEPT ![n] = new]
  <2>2. /\ Len(t) = Len(pg.keys) /\ t[n] = new
        /\ \A j \in 1 .. Len(pg.keys) : j # n => t[j] = pg.keys[j]
    BY <2>1, ExceptSeq
  <2> HIDE DEF t
  <2>3. q.keys = t
    BY <1>6 DEF t
  <2> QED
    BY <2>2, <2>3 DEF m
<1>s. \A a \in 1 .. m : \A b \in 1 .. m : a < b => pg.keys[a] < pg.keys[b]
  BY <1>1, <1>4, SortedPair DEF m
<1>9. IsInternalPage(q) /\ Increasing(q.keys)
  BY <1>7, GoodPages DEF is_internal, is_free
<1>10. /\ n \in Nat /\ n - 1 \in 0 .. m /\ n \in 0 .. m /\ (n - 1) + 1 = n /\ new \in Nat
       /\ child_at(pg, n - 1) = pg.children[n] /\ child_at(pg, n) = pg.children[n + 1]
  <2>1. n - 1 \in 0 .. Len(pg.children) - 1 /\ n \in 0 .. Len(pg.children) - 1 /\ (n - 1) + 1 = n
    BY <1>4, <1>5
  <2> QED
    BY <1>4, <1>5, <2>1, SizeAssumption DEF child_at
<1>11. CASE i \in {n - 1, n}
  <2> DEFINE c == IF k < new THEN n - 1 ELSE n
  <2>1. c \in 0 .. m /\ c \in Nat
    BY <1>10
  <2>2. c > 0 => q.keys[c] <= k
    <3>1. CASE k < new
      <4>1. ASSUME n - 1 > 0 PROVE n - 1 \in 1 .. m /\ n - 1 # n /\ n \in 1 .. m /\ n - 1 < n
        BY <1>4, <1>5, <4>1
      <4>2. ASSUME n - 1 > 0 PROVE pg.keys[n - 1] <= k
        <5>1. CASE i = n - 1
          BY <1>4, <4>2, <5>1
        <5>2. CASE i = n
          <6>1. pg.keys[n - 1] < pg.keys[n]
            BY <1>s, <4>1, <4>2
          <6>2. pg.keys[n] <= k
            <7>1. i > 0
              BY <1>5, <5>2
            <7> QED
              BY <1>4, <5>2, <7>1, Zenon
          <6>3. pg.keys[n - 1] \in Nat /\ pg.keys[n] \in Nat /\ k \in Nat
            BY <1>4, <4>1, <4>2
          <6> QED
            BY <6>1, <6>2, <6>3, SMTT(30)
        <5> QED
          BY <1>11, <5>1, <5>2
      <4> QED
        BY <1>8, <3>1, <4>1, <4>2
    <3>2. CASE ~(k < new)
      <4>1. c = n /\ new <= k
        BY <1>4, <1>10, <3>2
      <4> QED
        BY <1>8, <4>1
    <3> QED
      BY <3>1, <3>2
  <2>3. c < m => k < q.keys[c + 1]
    <3>1. CASE k < new
      BY <1>8, <1>10, <3>1
    <3>2. CASE ~(k < new)
      <4>1. ASSUME n < m PROVE n + 1 \in 1 .. m /\ n + 1 # n /\ n < n + 1
        BY <1>4, <1>5, <4>1
      <4>2. ASSUME n < m PROVE k < pg.keys[n + 1]
        <5>1. CASE i = n
          BY <1>4, <4>2, <5>1
        <5>2. CASE i = n - 1
          <6>1. pg.keys[n] < pg.keys[n + 1]
            BY <1>5, <1>s, <4>1, <4>2
          <6>2. k < pg.keys[n]
            <7>1. i < m /\ i + 1 = n
              BY <1>4, <1>5, <1>10, <5>2
            <7> QED
              BY <1>4, <7>1
          <6>3. pg.keys[n + 1] \in Nat /\ pg.keys[n] \in Nat /\ k \in Nat
            BY <1>4, <1>5, <4>1, <4>2
          <6> QED
            BY <6>1, <6>2, <6>3
        <5> QED
          BY <1>11, <5>1, <5>2
      <4> QED
        BY <1>8, <3>2, <4>1, <4>2
    <3> QED
      BY <3>1, <3>2
  <2>4. c \in 0 .. Len(q.keys) /\ (c < Len(q.keys) => k < q.keys[c + 1])
    BY <1>8, <2>1, <2>3
  <2> HIDE DEF c
  <2>5. find_child(q, k) = q.children[c + 1]
    BY <1>9, <2>2, <2>4, ChildIs
  <2>6. child_at(pg, c) = pg.children[c + 1]
    BY <1>10 DEF c
  <2> QED
    BY <1>3, <1>5, <1>6, <1>11, <2>5, <2>6 DEF c, q, i, m
<1>12. CASE i \notin {n - 1, n}
  <2>1. i # n /\ i + 1 # n
    BY <1>4, <1>10, <1>12
  <2>2. i > 0 => q.keys[i] <= k
    <3>1. i > 0 => i \in 1 .. m
      BY <1>4
    <3> QED
      BY <1>4, <1>8, <2>1, <3>1
  <2>3. i < Len(q.keys) => k < q.keys[i + 1]
    <3>1. i < m => i + 1 \in 1 .. m
      BY <1>4
    <3> QED
      BY <1>4, <1>8, <2>1, <3>1
  <2>4. i \in 0 .. Len(q.keys)
    BY <1>4, <1>8
  <2>5. find_child(q, k) = q.children[i + 1]
    BY <1>9, <2>2, <2>3, <2>4, ChildIs
  <2> QED
    BY <1>3, <1>4, <1>5, <1>6, <1>12, <2>5 DEF q, i, m
<1> QED
  BY <1>11, <1>12

(* Page::leaf_insert and leaf_remove: every other row is found as before.     *)
THEOREM RowsFound ==
    ASSUME NEW pg, GoodPage(pg), is_leaf(pg), NEW k \in Key
    PROVE  /\ TakesRow(pg, k) => KeySet(leaf_insert(pg, k)) = KeySet(pg) \cup {k}
           /\ KeySet(leaf_remove(pg, k)) = KeySet(pg) \ {k}
<1> DEFINE n == Below(pg.keys, k)
           m == Len(pg.keys)
           s == pg.keys
           w == WithKey(pg, k)
           v == WithoutKey(pg, k)
<1>1. IsLeafPage(pg) /\ Holds(pg) /\ Increasing(s) /\ s \in Seq(Key) /\ m \in Nat /\ DOMAIN s = 1 .. m
      /\ ~is_free(pg)
  BY GoodPages, PageHolds DEF is_leaf, is_free, IsPage, Holds
<1>2. \A x : x \in KeySet(pg) <=> \E i \in 1 .. m : x = s[i]
  BY <1>1, KeysOf
<1>3. n \in 0 .. m /\ n \in Nat /\ IsPutIn(Key, s, n, k, n, w)
  BY <1>1, WithKeyIs
<1>4. KeySet(leaf_insert(pg, k)) = KeySet(pg) \cup {k}
  <2> DEFINE q == leaf_insert(pg, k)
  <2>1. Holds(q) /\ q.keys = w
    BY <1>1, <1>3 DEF leaf_insert, Holds, is_leaf, is_internal, IsLeafPage, leaf, IsPutIn
  <2> HIDE DEF q, w, s, m, n
  <2>2. /\ Len(w) = n + 1 + (m - n)
        /\ \A i \in 1 .. n : w[i] = s[i]
        /\ w[n + 1] = k
        /\ \A i \in 1 .. m - n : w[n + 1 + i] = s[n + i]
    BY <1>3, Zenon DEF IsPutIn, m, s
  <2>3. Len(w) = m + 1
    BY <1>1, <1>3, <2>2
  <2>4. \A x : x \in KeySet(q) <=> \E i \in 1 .. m + 1 : x = w[i]
    BY <2>1, <2>3, KeysOf
  <2>5. ASSUME NEW i \in 1 .. m + 1 PROVE w[i] = k \/ \E j \in 1 .. m : w[i] = s[j]
    <3>1. CASE i <= n
      <4>1. i \in 1 .. n /\ i \in 1 .. m
        BY <1>1, <1>3, <3>1
      <4> QED
        BY <2>2, <4>1
    <3>2. CASE i = n + 1
      BY <2>2, <3>2
    <3>3. CASE n + 1 < i
      <4> DEFINE j == i - (n + 1)
      <4>1. j \in 1 .. m - n /\ n + 1 + j = i /\ n + j \in 1 .. m
        BY <1>1, <1>3, <3>3
      <4> HIDE DEF j
      <4> QED
        BY <2>2, <4>1
    <3> QED
      BY <1>3, <3>1, <3>2, <3>3
  <2>6. ASSUME NEW j \in 1 .. m PROVE \E i \in 1 .. m + 1 : w[i] = s[j]
    <3>1. CASE j <= n
      <4>1. j \in 1 .. n /\ j \in 1 .. m + 1
        BY <1>1, <1>3, <3>1
      <4> QED
        BY <2>2, <4>1
    <3>2. CASE n < j
      <4> DEFINE i == j - n
      <4>1. i \in 1 .. m - n /\ n + 1 + i \in 1 .. m + 1 /\ n + i = j
        BY <1>1, <1>3, <3>2
      <4> HIDE DEF i
      <4> QED
        BY <2>2, <4>1
    <3> QED
      BY <1>3, <3>1, <3>2
  <2>7. n + 1 \in 1 .. m + 1
    BY <1>1, <1>3
  <2>8. \A x : x \in KeySet(q) <=> x = k \/ x \in KeySet(pg)
    BY <1>2, <2>2, <2>4, <2>5, <2>6, <2>7
  <2> QED
    BY <2>8 DEF q
<1>5. CASE ~HasKey(pg, k)
  BY <1>4, <1>5 DEF leaf_remove, HasKey
<1>6. CASE HasKey(pg, k)
  <2> DEFINE q == leaf_remove(pg, k)
  <2>1. n \in 0 .. m - 1 /\ IsLeftOut(Key, s, n, n + 1, v)
    BY <1>1, <1>6, WithoutKeyIs
  <2>2. s[n + 1] = k
    BY <1>1, <1>6, PlaceOfKey
  <2>3. Holds(q) /\ q.keys = v
    BY <1>1, <1>6, <2>1 DEF leaf_remove, Holds, is_leaf, is_internal, IsLeafPage, leaf, IsLeftOut
  <2> HIDE DEF q, v, s, m, n
  <2>4. /\ Len(v) = n + (m - (n + 1))
        /\ \A i \in 1 .. n : v[i] = s[i]
        /\ \A i \in 1 .. m - (n + 1) : v[n + i] = s[(n + 1) + i]
    BY <2>1, Zenon DEF IsLeftOut, m, s
  <2>5. Len(v) = m - 1
    BY <1>1, <1>3, <2>1, <2>4
  <2>6. \A x : x \in KeySet(q) <=> \E i \in 1 .. m - 1 : x = v[i]
    BY <2>3, <2>5, KeysOf
  <2>7. n + 1 \in 1 .. m
    BY <1>1, <2>1
  <2>8. ASSUME NEW i \in 1 .. m - 1 PROVE \E j \in 1 .. m : j # n + 1 /\ v[i] = s[j]
    <3>1. CASE i <= n
      <4>1. i \in 1 .. n /\ i \in 1 .. m /\ i # n + 1
        BY <1>1, <1>3, <3>1
      <4> QED
        BY <2>4, <4>1
    <3>2. CASE n < i
      <4> DEFINE j == i - n
      <4>1. j \in 1 .. m - (n + 1) /\ n + j = i /\ (n + 1) + j \in 1 .. m /\ (n + 1) + j # n + 1
        BY <1>1, <1>3, <3>2
      <4> HIDE DEF j
      <4> QED
        BY <2>4, <4>1
    <3> QED
      BY <1>3, <3>1, <3>2
  <2>9. ASSUME NEW j \in 1 .. m, j # n + 1 PROVE \E i \in 1 .. m - 1 : v[i] = s[j]
    <3>1. CASE j <= n
      <4>1. j \in 1 .. n /\ j \in 1 .. m - 1
        BY <1>1, <1>3, <2>7, <3>1
      <4> QED
        BY <2>4, <4>1
    <3>2. CASE ~(j <= n)
      <4> DEFINE i == j - (n + 1)
      <4>1. i \in 1 .. m - (n + 1) /\ n + i \in 1 .. m - 1 /\ (n + 1) + i = j
        BY <1>1, <1>3, <2>9, <3>2
      <4> HIDE DEF i
      <4> QED
        BY <2>4, <4>1
    <3> QED
      BY <3>1, <3>2
  <2>10. ASSUME NEW j \in 1 .. m, j # n + 1 PROVE s[j] # k
    <3>1. j < n + 1 \/ n + 1 < j
      BY <1>3, <2>10
    <3>2. s[j] < s[n + 1] \/ s[n + 1] < s[j]
      BY <1>1, <2>7, <3>1, SortedPair DEF m
    <3>3. s[j] \in Nat /\ s[n + 1] \in Nat
      BY <1>1, <2>7, KeysAreNumbers DEF m
    <3> QED
      BY <2>2, <3>2, <3>3
  <2>11. \A x : x \in KeySet(q) <=> x \in KeySet(pg) /\ x # k
    BY <1>2, <2>2, <2>6, <2>8, <2>9, <2>10
  <2>12. KeySet(q) = KeySet(pg) \ {k}
    BY <2>11
  <2> QED
    BY <1>4, <2>12 DEF q
<1> QED
  BY <1>5, <1>6
=============================================================================
