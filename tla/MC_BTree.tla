------------------------------ MODULE MC_BTree -------------------------------
(* Instances of BTree.  A page has 141 bytes: a leaf 100 for its rows, an     *)
(* internal page 110 for its separators.  Keys up to 27 have the largest rows *)
(* and separators that are allowed, so a page takes four; the keys from 31 on *)
(* have other sizes.                                                          *)
EXTENDS BTree, TLC

CONSTANTS t1, t2, t3

Ops(ops, keys) == {Op(o, k) : o \in ops, k \in keys}
Calls(op, keys) == [i \in DOMAIN keys |-> Op(op, keys[i])]
Inserts(keys) == Calls("insert", keys)
Ascending(n) == Inserts([i \in 1 .. n |-> i])
(* Every leaf is split when it holds two rows of its four and filled later;   *)
(* key 3 is left out.                                                         *)
InFours(n) == LET early(k) == k % 4 \in {1, 2}
                  all == [i \in 1 .. n |-> i]
              IN Inserts(SelectSeq(all, early) \o SelectSeq(all, LAMBDA k : ~early(k) /\ k # 3))
Descending(n) == Inserts([i \in 1 .. n |-> n + 1 - i])

Sizes == 31 :> 7 @@ 32 :> 25 @@ 33 :> 13 @@ 34 :> 25 @@ 35 :> 19 @@ 36 :> 25 @@ 37 :> 7 @@ 38 :> 25 @@ 39 :> 19
MC_RowSize == [k \in Key |-> IF k < 31 THEN 25 ELSE Sizes[k]]
(* Larger where the key is most of the row.                                   *)
MC_KeySize == [k \in Key |-> IF MC_RowSize[k] > 20 THEN 27 ELSE MC_RowSize[k] + 7]

(* Separators of different sizes: the root is full, and a borrow below it     *)
(* replaces a small separator by a larger one.                                *)
LargeKeys == [k \in Key |-> IF k \in {9, 11} THEN 14 ELSE 27]

Vacuum == {Op("vacuum", Nil)}
PairOps == Ops({"insert"}, {11, 13}) \cup Ops({"delete"}, {2, 6, 12}) \cup Ops({"get"}, {6, 12})
               \cup Ops({"scan"}, {Nil, 5})

(* small: one thread, small trees, any order of operations.                   *)
(* deep: one thread, from a tree of three levels whose last, or first,        *)
(* internal page is full.                                                     *)
(* pair: two threads on three leaves, the last or the middle one full; it     *)
(* splits while its neighbours merge with it or borrow from it.               *)
(* root: three threads around a root that is a leaf, then internal, then a    *)
(* leaf again, and calls that read the root id before or after each change.   *)
(* uneven: one thread, rows and separators of all sizes.                      *)
(* mixed: the same, packed by a vacuum.                                       *)
(* packed: one thread changes the full pages a vacuum has written, of two or  *)
(* of three levels, and vacuums again.                                        *)
(* readers: a vacuum that moves the root to another page, or cuts the file    *)
(* below the old one, among readers.                                          *)
(* writer: a vacuum and an insert.                                            *)
(* window: an insert that splits a full internal root while another thread    *)
(* searches.                                                                  *)
(* stale: a delete that shrinks the tree, an insert that takes the freed root *)
(* page from the free list, and a thread that still goes for the old root.    *)
(* large: a delete that makes a leaf borrow.                                  *)
(* lonely: 21 rows, which a vacuum packs into six leaves, five below one page *)
(* and one below another; then a delete in any of them.                       *)
(* empty: a vacuum of a table whose rows may have been deleted.               *)
MC_Prologue ==
    [small |-> {<<>>, Ascending(6)},
     deep |-> {Ascending(17), Descending(17)},
     pair |-> {Inserts(<<2, 4, 6, 8, 10, 12, 14, 11>>), Inserts(<<2, 4, 6, 8, 12, 14, 7, 9>>)},
     root |-> {Ascending(4)},
     uneven |-> {Inserts(<<32, 34, 36, 38>>)},
     mixed |-> {Inserts(<<32, 34, 36, 38>>)},
     packed |-> {Ascending(9) \o <<Op("vacuum", Nil)>>, InFours(27) \o <<Op("vacuum", Nil)>>},
     readers |-> {Ascending(5) \o <<Op("delete", 5)>>, Ascending(9)},
     writer |-> {Ascending(3)},
     window |-> {Ascending(12)},
     stale |-> {Ascending(5)},
     large |-> {Ascending(14)},
     lonely |-> {InFours(22) \o <<Op("vacuum", Nil)>>},
     empty |-> {Ascending(2)}]

Each(m1, m2, m3) == t1 :> m1 @@ t2 :> m2 @@ t3 :> m3

MC_Menu ==
    [small |-> Each(Ops({"insert", "delete"}, 1 .. 7), {}, {}),
     deep |-> Each(Ops({"delete"}, 1 .. 5 \cup 13 .. 17), {}, {}),
     pair |-> Each(PairOps, PairOps, {}),
     root |-> Each(Ops({"insert"}, {5, 6}),
                   Ops({"delete"}, {1, 3, 4}),
                   Ops({"get"}, {2, 4}) \cup Ops({"scan"}, {Nil, 3}) \cup Ops({"insert"}, {4})),
     uneven |-> Each(Ops({"insert"}, {31, 33, 35, 37, 39}) \cup Ops({"delete"}, {31, 32, 34, 36, 38}), {}, {}),
     mixed |-> Each(Ops({"insert"}, {31, 33, 35, 37}) \cup Ops({"delete"}, {32, 38}) \cup Vacuum, {}, {}),
     packed |-> Each(Ops({"delete"}, {1, 2, 5, 9, 18, 26, 27}) \cup Ops({"insert"}, {3}) \cup Vacuum, {}, {}),
     readers |-> Each(Vacuum, Ops({"get"}, {4}) \cup Ops({"scan"}, {Nil}) \cup Vacuum, Ops({"get"}, {2})),
     writer |-> Each(Vacuum, Ops({"insert"}, {4}), {}),
     window |-> Each(Ops({"insert"}, {13}), Ops({"get"}, {2, 12}), {}),
     stale |-> Each({Op("delete", 1), Op("insert", 6)}, Ops({"get"}, {3}), {}),
     large |-> Each(Ops({"delete"}, Key), {}, {}),
     lonely |-> Each(Ops({"delete"}, {1, 9, 18, 22}), {}, {}),
     empty |-> Each(Ops({"delete"}, {1, 2}) \cup Vacuum, {}, {})]

MC_Budget ==
    [small |-> Each(5, 0, 0), deep |-> Each(4, 0, 0), pair |-> Each(2, 1, 0),
     root |-> Each(1, 2, 1), uneven |-> Each(5, 0, 0), mixed |-> Each(5, 0, 0), packed |-> Each(3, 0, 0),
     readers |-> Each(1, 2, 1), writer |-> Each(1, 1, 0), window |-> Each(1, 1, 0),
     stale |-> Each(2, 1, 0), large |-> Each(1, 0, 0),
     lonely |-> Each(2, 0, 0), empty |-> Each(3, 0, 0)]
=============================================================================
