------------------------------ MODULE PageCodec ------------------------------
(* A page as bytes (src/page/codec.rs).  The slots, one for each entry, grow  *)
(* upward from the header, and from an internal page's children; the entries  *)
(* themselves, the cells, grow downward from the end of the page.  The header *)
(* is as long as its two optional pointers make it; only free_space's reserve *)
(* for the longest keeps slots and cells apart.  An image is the writes that  *)
(* made it, in their order; a value is kept with its place and length instead *)
(* of as bytes.                                                               *)
EXTENDS PageOps

(* No header and no slot is the absent value.                                 *)
ASSUME NilAssumption ==
    /\ Nil \notin [kind : {"leaf"}, items : Nat, next : Nat \cup {Nil}, prev : Nat \cup {Nil}]
    /\ Nil \notin [kind : {"internal", "free"}, items : Nat]
    /\ Nil \notin [offset : Nat, length : Nat]

CHECKSUM_OFFSET == 17
OptionSize(p) == IF p = Nil THEN 1 ELSE 1 + PAGE_ID_SIZE

(* Tag, page id, LSN, checksum, a leaf's neighbours, the number of items.     *)
header_end(pg) ==
    CHECKSUM_OFFSET + 4 + 2 + (IF is_leaf(pg) THEN OptionSize(pg.next) + OptionSize(pg.prev) ELSE 0)

(* Bytes of the n-th row or key: its entry without its slot and child.        *)
CellSize(pg, n) ==
    EntrySize(pg, pg.keys[n]) - SLOT_ENTRY_SIZE - (IF is_internal(pg) THEN PAGE_ID_SIZE ELSE 0)

Write(at, len, what) == [at |-> at, len |-> len, what |-> what]

SlotsAt(pg) == header_end(pg) + (IF is_internal(pg) THEN PAGE_ID_SIZE * Len(pg.children) ELSE 0)

write_header(pg) ==
    Write(0, header_end(pg),
          IF is_leaf(pg) THEN [kind |-> pg.kind, items |-> Len(pg.keys), next |-> pg.next, prev |-> pg.prev]
          ELSE [kind |-> pg.kind, items |-> num_items(pg)])

(* write_body: the children of an internal page, then cell and slot of each   *)
(* entry; the link of a free page.                                            *)
Bug_SlotsFromMaxHeader(pg, n) == MAX_LEAF_HEADER_SIZE + SLOT_ENTRY_SIZE * (n - 1)
SlotAt(pg, n) == SlotsAt(pg) + SLOT_ENTRY_SIZE * (n - 1)

data_offset(pg) ==
    LET offset[n \in 0 .. num_items(pg)] ==
            IF n = 0 THEN PAGE_SIZE ELSE offset[n - 1] - CellSize(pg, n)
    IN offset

write_body(pg) ==
    LET offset == data_offset(pg)
        cell(n) == Write(offset[n], CellSize(pg, n), pg.keys[n])
        slot(n) == Write(SlotAt(pg, n), SLOT_ENTRY_SIZE, [offset |-> offset[n], length |-> CellSize(pg, n)])
        child(i) == Write(header_end(pg) + PAGE_ID_SIZE * (i - 1), PAGE_ID_SIZE, pg.children[i])
        entries == [j \in 1 .. 2 * num_items(pg) |->
                       IF j % 2 = 1 THEN cell((j + 1) \div 2) ELSE slot(j \div 2)]
    IN CASE is_leaf(pg) -> entries
         [] is_internal(pg) -> [i \in DOMAIN pg.children |-> child(i)] \o entries
         [] is_free(pg) -> <<Write(header_end(pg), OptionSize(pg.next), pg.next)>>

Increasing(keys) == \A i \in 1 .. Len(keys) - 1 : keys[i] < keys[i + 1]

check_invariants(pg) ==
    /\ free_space(pg) >= 0
    /\ is_leaf(pg) => /\ Increasing(pg.keys)
                      /\ \A k \in KeySet(pg) : /\ RowSize[k] <= MAX_LEAF_ENTRY_SIZE
                                               /\ KeySize[k] <= MAX_INTERNAL_ENTRY_SIZE
    /\ is_internal(pg) => /\ Increasing(pg.keys)
                          /\ Len(pg.children) = Len(pg.keys) + 1
                          /\ \A k \in KeySet(pg) : KeySize[k] <= MAX_INTERNAL_ENTRY_SIZE

as_raw_page(pg) == <<write_header(pg)>> \o write_body(pg)

(* What len bytes from at on hold: the last write that touches them, if it    *)
(* wrote just these; otherwise they decode to nothing.                        *)
ReadAt(image, at, len) ==
    LET touching == {i \in DOMAIN image : image[i].at < at + len /\ at < image[i].at + image[i].len}
        last == CHOOSE i \in touching : \A j \in touching : j <= i
    IN IF touching # {} /\ image[last].at = at /\ image[last].len = len THEN image[last].what ELSE Nil

MAX_ITEMS(kind) ==
    CASE kind = "leaf" -> (PAGE_SIZE - (MAX_LEAF_HEADER_SIZE - 2 * PAGE_ID_SIZE))
                              \div (SLOT_ENTRY_SIZE + MIN_ROW_ENCODED_SIZE)
      [] kind = "internal" -> INTERNAL_USABLE \div (SLOT_ENTRY_SIZE + PAGE_ID_SIZE + MIN_KEY_ENCODED_SIZE)
      [] OTHER -> 0

(* read_slot_ranges: every cell is in the data area, and no two overlap.      *)
ValidRanges(slots, data_start) ==
    LET end(n) == slots[n].offset + slots[n].length
    IN /\ \A n \in DOMAIN slots : /\ slots[n] # Nil /\ slots[n].length > 0
                                  /\ data_start <= slots[n].offset /\ end(n) <= PAGE_SIZE
       /\ \A m, n \in DOMAIN slots : m # n => end(m) <= slots[n].offset \/ end(n) <= slots[m].offset

(* The page that is read back, or Nil for Corrupt.                            *)
deserialize(image) ==
    LET len == image[1].len
        header == ReadAt(image, 0, len)
        children == [i \in 1 .. header.items + 1 |->
                        ReadAt(image, len + PAGE_ID_SIZE * (i - 1), PAGE_ID_SIZE)]
        first_slot == len + (IF header.kind = "internal" THEN PAGE_ID_SIZE * Len(children) ELSE 0)
        slots == [n \in 1 .. header.items |->
                     ReadAt(image, first_slot + SLOT_ENTRY_SIZE * (n - 1), SLOT_ENTRY_SIZE)]
        keys == [n \in 1 .. header.items |-> ReadAt(image, slots[n].offset, slots[n].length)]
    IN IF header = Nil THEN Nil
       ELSE IF header.items > MAX_ITEMS(header.kind) THEN Nil
       ELSE IF header.kind = "free" THEN free(ReadAt(image, len, image[2].len))
       ELSE IF ~ValidRanges(slots, first_slot + SLOT_ENTRY_SIZE * header.items) THEN Nil
       ELSE IF header.kind = "leaf" THEN leaf(keys, header.next, header.prev)
       ELSE internal(keys, children)

(* The page can be written, by an eviction or a flush, and read back.         *)
ReadsBack(pg) ==
    check_invariants(pg) /\ deserialize(as_raw_page(pg)) = pg
=============================================================================
