------------------------------- MODULE PageOps -------------------------------
(* The pages of a B+tree and the operations of src/page on them, as pure      *)
(* operators.  A leaf is the sequence of its rows' keys with its neighbours,  *)
(* an internal page its separators and children, a free page its link.  Bytes *)
(* are kept as sizes: RowSize[k] and KeySize[k] are what leaf_entry_size and  *)
(* internal_entry_size return.                                                *)
EXTENDS Integers, Sequences

CONSTANTS Key, RowSize, KeySize, PAGE_SIZE,
          Nil                                    \* Option::None

PAGE_ID_SIZE == 8
SLOT_ENTRY_SIZE == 4
MAX_LEAF_HEADER_SIZE == 41
MAX_INTERNAL_HEADER_SIZE == 23
MIN_KEY_ENCODED_SIZE == 2
MIN_ROW_ENCODED_SIZE == 1 + MIN_KEY_ENCODED_SIZE
LEAF_USABLE == PAGE_SIZE - MAX_LEAF_HEADER_SIZE
INTERNAL_USABLE == PAGE_SIZE - MAX_INTERNAL_HEADER_SIZE - PAGE_ID_SIZE

MAX_LEAF_ENTRY_SIZE == LEAF_USABLE \div 4
MAX_INTERNAL_ENTRY_SIZE == INTERNAL_USABLE \div 4
LEAF_UNDERFULL_BYTES == LEAF_USABLE \div 2
INTERNAL_UNDERFULL_BYTES == (INTERNAL_USABLE - MAX_INTERNAL_ENTRY_SIZE) \div 2

(* validate_row refuses rows and keys that are too large for their page, and  *)
(* a row holds at least its key.                                              *)
ASSUME SizeAssumption ==
    /\ Key \subseteq Nat /\ PAGE_SIZE \in Nat /\ PAGE_SIZE >= MAX_LEAF_HEADER_SIZE
    /\ RowSize \in [Key -> SLOT_ENTRY_SIZE + MIN_ROW_ENCODED_SIZE .. MAX_LEAF_ENTRY_SIZE]
    /\ KeySize \in [Key -> SLOT_ENTRY_SIZE + PAGE_ID_SIZE + MIN_KEY_ENCODED_SIZE .. MAX_INTERNAL_ENTRY_SIZE]
    /\ \A k \in Key : RowSize[k] > KeySize[k] - PAGE_ID_SIZE

leaf(keys, next, prev) == [kind |-> "leaf", keys |-> keys, next |-> next, prev |-> prev]
internal(keys, children) == [kind |-> "internal", keys |-> keys, children |-> children]
free(next) == [kind |-> "free", next |-> next]

is_leaf(pg) == pg.kind = "leaf"
is_internal(pg) == pg.kind = "internal"
is_free(pg) == pg.kind = "free"

num_items(pg) == IF is_free(pg) THEN 0 ELSE Len(pg.keys)
KeySet(pg) == IF is_free(pg) THEN {} ELSE {pg.keys[i] : i \in DOMAIN pg.keys}

Upto(n, s) == SubSeq(s, 1, n)
After(n, s) == SubSeq(s, n + 1, Len(s))

-----------------------------------------------------------------------------
(* Sizes.                                                                     *)

EntrySize(pg, k) == IF is_leaf(pg) THEN RowSize[k] ELSE KeySize[k]

(* sum[n]: the size of the first n entries.                                   *)
PrefixSize(pg) ==
    LET sum[n \in 0 .. Len(pg.keys)] ==
            IF n = 0 THEN 0 ELSE sum[n - 1] + EntrySize(pg, pg.keys[n])
    IN sum
entries_size(pg) == IF is_free(pg) THEN 0 ELSE PrefixSize(pg)[Len(pg.keys)]

(* Whatever neighbours a leaf has, room for two is reserved.  Negative where  *)
(* free_space returns None: every test on it then fails.                      *)
Bug_HeaderAsItIs(pg) ==
    (IF is_leaf(pg)
     THEN LEAF_USABLE + (IF pg.next = Nil THEN PAGE_ID_SIZE ELSE 0) + (IF pg.prev = Nil THEN PAGE_ID_SIZE ELSE 0)
     ELSE INTERNAL_USABLE) - entries_size(pg)
free_space(pg) == (IF is_leaf(pg) THEN LEAF_USABLE ELSE INTERNAL_USABLE) - entries_size(pg)

can_insert(pg, k) == is_leaf(pg) /\ RowSize[k] <= free_space(pg)
can_insert_separator(pg, k) == is_internal(pg) /\ KeySize[k] <= free_space(pg)
is_split_safe(pg) == is_internal(pg) /\ MAX_INTERNAL_ENTRY_SIZE <= free_space(pg)

is_underfull(pg) ==
    \/ is_leaf(pg) /\ entries_size(pg) < LEAF_UNDERFULL_BYTES
    \/ is_internal(pg) /\ entries_size(pg) < INTERNAL_UNDERFULL_BYTES

is_delete_safe(pg) ==
    \/ /\ is_internal(pg)
       /\ free_space(pg) >= MAX_INTERNAL_ENTRY_SIZE
       /\ entries_size(pg) >= INTERNAL_UNDERFULL_BYTES + MAX_INTERNAL_ENTRY_SIZE
    \/ is_leaf(pg) /\ entries_size(pg) >= LEAF_UNDERFULL_BYTES + MAX_LEAF_ENTRY_SIZE

-----------------------------------------------------------------------------
(* Search and single-entry changes.                                           *)

(* binary_search on sorted keys: how many are below k, and whether k is there.*)
Below(keys, k) == CHOOSE n \in 0 .. Len(keys) :
                      /\ n > 0 => keys[n] < k
                      /\ n < Len(keys) => k <= keys[n + 1]
HasKey(pg, k) == k \in KeySet(pg)

(* The position, counted from 0, of the child to descend into: a key equal to *)
(* a separator goes right of it.                                              *)
Bug_EqualGoesLeft(pg, k) == Below(pg.keys, k)
find_child_index(pg, k) == Below(pg.keys, k) + (IF HasKey(pg, k) THEN 1 ELSE 0)
child_at(pg, i) == IF i \in 0 .. Len(pg.children) - 1 THEN pg.children[i + 1] ELSE Nil
find_child(pg, k) == child_at(pg, find_child_index(pg, k))

(* An insertion finds its place; a key that is there already, or does not fit,*)
(* is an error.                                                               *)
TakesRow(pg, k) == can_insert(pg, k) /\ ~HasKey(pg, k)
TakesSeparator(pg, k) == can_insert_separator(pg, k) /\ ~HasKey(pg, k)

WithKey(pg, k) ==
    LET n == Below(pg.keys, k)
    IN Upto(n, pg.keys) \o <<k>> \o After(n, pg.keys)
leaf_insert(pg, k) == [pg EXCEPT !.keys = WithKey(pg, k)]
WithoutKey(pg, k) ==
    LET n == Below(pg.keys, k)
    IN Upto(n, pg.keys) \o After(n + 1, pg.keys)
leaf_remove(pg, k) == IF HasKey(pg, k) THEN [pg EXCEPT !.keys = WithoutKey(pg, k)] ELSE pg

internal_insert(pg, sep, right) ==
    LET n == Below(pg.keys, sep)
    IN internal(WithKey(pg, sep), Upto(n + 1, pg.children) \o <<right>> \o After(n + 1, pg.children))

internal_remove(pg, sep) ==
    LET n == Below(pg.keys, sep)
    IN IF HasKey(pg, sep)
       THEN internal(WithoutKey(pg, sep), Upto(n + 1, pg.children) \o After(n + 2, pg.children))
       ELSE pg

(* The replacement must keep the order and fit; otherwise it is an error.     *)
CanReplace(pg, old, new) ==
    LET n == Below(pg.keys, old) + 1
    IN /\ HasKey(pg, old)
       /\ n = 1 \/ pg.keys[n - 1] < new
       /\ n = Len(pg.keys) \/ new < pg.keys[n + 1]
       /\ free_space(pg) + KeySize[old] >= KeySize[new]
internal_replace_key(pg, old, new) ==
    [pg EXCEPT !.keys[Below(pg.keys, old) + 1] = new]

-----------------------------------------------------------------------------
(* split_page: cut where the entries reach half their size, keeping an entry  *)
(* (for an internal page also the one to promote) for the right page.         *)

SplitOff(pg) ==
    LET size == PrefixSize(pg)
        half == entries_size(pg) \div 2
        reached == CHOOSE n \in 1 .. Len(pg.keys) :
                       /\ size[n] >= half
                       /\ n = 1 \/ size[n - 1] < half
        last == Len(pg.keys) - (IF is_leaf(pg) THEN 1 ELSE 2)
    IN IF reached > last THEN last ELSE reached

CanSplit(pg) == Len(pg.keys) >= (IF is_leaf(pg) THEN 2 ELSE 3)

(* The left page, the right page with id new, and the separator between them. *)
split_page(pg, self, new) ==
    LET n == SplitOff(pg)
    IN IF is_leaf(pg)
       THEN [left |-> leaf(Upto(n, pg.keys), new, pg.prev),
             right |-> leaf(After(n, pg.keys), pg.next, self),
             sep |-> pg.keys[n + 1]]
       ELSE [left |-> internal(Upto(n, pg.keys), Upto(n + 1, pg.children)),
             right |-> internal(After(n + 1, pg.keys), After(n + 1, pg.children)),
             sep |-> pg.keys[n + 1]]

-----------------------------------------------------------------------------
(* Merging and borrowing between neighbours l and r with separator sep.       *)

SameKind(l, r) == l.kind = r.kind /\ ~is_free(l)
can_merge_with(l, r, sep) ==
    /\ SameKind(l, r)
    /\ free_space(l) >= entries_size(r) + (IF is_internal(l) THEN KeySize[sep] ELSE 0)

(* A pair whose keys are out of order is an error; so is a separator that is  *)
(* not between them, which only internal pages look at.                       *)
Ascends(a, b) == a = <<>> \/ b = <<>> \/ a[Len(a)] < b[1]
InOrder(l, r, sep) ==
    IF is_leaf(l) THEN Ascends(l.keys, r.keys)
    ELSE Ascends(l.keys, <<sep>>) /\ Ascends(<<sep>>, r.keys)

merge_from_right(l, r, sep) ==
    IF is_leaf(l) THEN leaf(l.keys \o r.keys, r.next, l.prev)
    ELSE internal(l.keys \o <<sep>> \o r.keys, l.children \o r.children)

(* The pair with n entries on the left: the rows of two leaves are one        *)
(* sequence, and so are the keys of two internal pages with the separator     *)
(* between them; borrowing shifts the cut.                                    *)
Redistributed(l, r, sep, n) ==
    IF is_leaf(l)
    THEN LET all == l.keys \o r.keys
         IN [left |-> [l EXCEPT !.keys = Upto(n, all)],
             right |-> [r EXCEPT !.keys = After(n, all)],
             sep |-> all[n + 1]]
    ELSE LET all == l.keys \o <<sep>> \o r.keys
             children == l.children \o r.children
         IN [left |-> internal(Upto(n, all), Upto(n + 1, children)),
             right |-> internal(After(n + 1, all), After(n + 1, children)),
             sep |-> all[n + 1]]

(* One borrow is refused when the donor would be left empty (a leaf) or has   *)
(* nothing to give (an internal page), or when the entry does not fit.        *)
CanBorrow(taker, donor, k) ==
    /\ Len(donor.keys) >= (IF is_leaf(donor) THEN 2 ELSE 1)
    /\ free_space(taker) >= EntrySize(taker, k)

(* bulk_borrow: the first move must succeed, then moves go on until the taker *)
(* is as large as the donor or a move is refused.                             *)
CanBorrowFromRight(p) ==
    CanBorrow(p.left, p.right, IF is_leaf(p.left) THEN p.right.keys[1] ELSE p.sep)
CanBorrowFromLeft(p) ==
    CanBorrow(p.right, p.left, IF is_leaf(p.left) THEN p.left.keys[Len(p.left.keys)] ELSE p.sep)

bulk_borrow_from_right(l, r, sep) ==
    LET after(j) == Redistributed(l, r, sep, Len(l.keys) + j)
        done(j) == \/ entries_size(after(j).left) >= entries_size(after(j).right)
                   \/ ~CanBorrowFromRight(after(j))
    IN after(CHOOSE j \in 1 .. Len(r.keys) : done(j) /\ \A i \in 1 .. j - 1 : ~done(i))

bulk_borrow_from_left(l, r, sep) ==
    LET after(j) == Redistributed(l, r, sep, Len(l.keys) - j)
        done(j) == \/ entries_size(after(j).right) >= entries_size(after(j).left)
                   \/ ~CanBorrowFromLeft(after(j))
    IN after(CHOOSE j \in 1 .. Len(l.keys) : done(j) /\ \A i \in 1 .. j - 1 : ~done(i))

(* pick_sibling: the right neighbour, else the left one, else none.           *)
NoSibling == [id |-> Nil, sep |-> Nil, side |-> "none"]
pick_sibling(parent, i) ==
    IF child_at(parent, i + 1) # Nil
    THEN [id |-> child_at(parent, i + 1), sep |-> parent.keys[i + 1], side |-> "right"]
    ELSE IF i > 0
    THEN [id |-> child_at(parent, i - 1), sep |-> parent.keys[i], side |-> "left"]
    ELSE NoSibling
=============================================================================
