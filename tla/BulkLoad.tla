------------------------------- MODULE BulkLoad -------------------------------
(* The tree that Table::vacuum writes into a new file: rows in the order they *)
(* were read packed into leaves from page 1 on, then level upon level of      *)
(* internal pages until one page is left, the root.  Page numbers follow each *)
(* other, so the pages are one sequence.                                      *)
EXTENDS PageCodec

(* What is packed: rows by their key, or the pages below with the first key   *)
(* below each, low.  An internal page does not store that of its first child. *)
StartPage(kind, item) ==
    IF kind = "leaf" THEN leaf(<<item.low>>, Nil, Nil) ELSE internal(<<>>, <<item.id>>)
Takes(pg, item) == can_insert(pg, item.low) \/ can_insert_separator(pg, item.low)
Put(pg, item) ==
    IF is_leaf(pg) THEN leaf_insert(pg, item.low) ELSE internal_insert(pg, item.low, item.id)

(* The page under construction is the last; when the next item does not fit,  *)
(* another one is started.                                                    *)
Pack(kind, done, item) ==
    IF done # <<>> /\ Takes(done[Len(done)].page, item)
    THEN [done EXCEPT ![Len(done)].page = Put(@, item)]
    ELSE Append(done, [low |-> item.low, page |-> StartPage(kind, item)])

Packed(kind, items) ==
    LET built[n \in 0 .. Len(items)] ==
            IF n = 0 THEN <<>> ELSE Pack(kind, built[n - 1], items[n])
    IN built[Len(items)]

Bug_NoPrev(i) == Nil
PrevOf(i) == IF i > 1 THEN i - 1 ELSE Nil

(* One leaf at least is built; an empty one makes first_key panic.            *)
Leaves(rows) ==
    LET built == Packed("leaf", [i \in DOMAIN rows |-> [low |-> rows[i]]])
    IN [i \in DOMAIN built |->
           leaf(built[i].page.keys, IF i < Len(built) THEN i + 1 ELSE Nil, PrevOf(i))]

Bug_FirstSeparator(built) == IF built.page.keys = <<>> THEN built.low ELSE built.page.keys[1]
LowOf(built) == built.low

build_internal_level(pages, level) ==
    LET built == Packed("internal", level)
    IN [pages |-> pages \o [i \in DOMAIN built |-> built[i].page],
        level |-> [i \in DOMAIN built |-> [low |-> LowOf(built[i]), id |-> Len(pages) + i]]]

(* The pages of the new file beside the meta page, and the root among them.   *)
bulk_load(rows) ==
    LET leaves == Leaves(rows)
        up[n \in 0 .. Len(leaves)] ==
            IF n = 0 THEN [pages |-> leaves,
                           level |-> [i \in DOMAIN leaves |-> [low |-> leaves[i].keys[1], id |-> i]]]
            ELSE IF Len(up[n - 1].level) = 1 THEN up[n - 1]
            ELSE build_internal_level(up[n - 1].pages, up[n - 1].level)
        top == up[Len(leaves)]
    IN [pages |-> top.pages, root |-> top.level[1].id]

(* leaf_insert and internal_insert refuse a key the page has already: then no *)
(* page built has one twice, or vacuum returns the error.                     *)
Loads(rows) ==
    LET new == bulk_load(rows) IN \A i \in DOMAIN new.pages : Increasing(new.pages[i].keys)
=============================================================================
