-------------------------------- MODULE BTree --------------------------------
(* The B+tree (src/btree) with the page allocator and the vacuum of src/table,*)
(* one latch acquisition at a time.  Threads descend with latch crabbing: writers *)
(* keep the write latches of the ancestors a split or merge may still reach,  *)
(* readers hold a page until they have the next.  The buffer pool is taken at *)
(* its promise, PageStore: a latch per page that fetch_read and fetch_write   *)
(* wait for, and frames enough.  What a thread does between two waits touches *)
(* only pages it has latched, so it is one step.                              *)
EXTENDS BulkLoad, FiniteSets

CONSTANTS Threads,
          MaxPages,      \* bound: pages of the table beside the meta page
          Plans,         \* names of what the threads may do
          Prologue,      \* Prologue[plan]: operations, one of these sequences, that
                         \* thread First does before anybody else starts
          First,
          Menu,          \* Menu[plan][t]: operations t may choose from afterwards
          Budget         \* bound: Budget[plan][t], how many of them it does

ASSUME ThreadAssumption == First \in Threads /\ Nil \notin Threads /\ MaxPages \in Nat \ {0}

Op(op, key) == [op |-> op, key |-> key]

(* What Table's methods are called with: a key, but for get_range's lower     *)
(* bound, which may be none, and vacuum.                                      *)
Operations == [op : {"insert", "delete", "get", "scan"}, key : Key]
                 \cup {Op("scan", Nil), Op("vacuum", Nil)}

ASSUME PlanAssumption ==
    \A pl \in Plans :
        /\ \A s \in Prologue[pl] : s \in Seq(Operations)
        /\ \A t \in Threads : Menu[pl][t] \subseteq Operations
        /\ Budget[pl] \in [Threads -> Nat]

Meta == 0                \* the meta page's number
PageNums == 1 .. MaxPages
AllPages == {Meta} \cup PageNums

VARIABLES
    pages,               \* pages[p]: the content of page p
    meta,                \* root, page count and free list head of the meta page
    writer, readers,     \* the latches: writer[p] a thread or Nil, readers[p] a set
    th,                  \* th[t]: program counter and locals of thread t
    answer,              \* answer[t]: what t's insert, delete or get found, Nil until then
    must, may,           \* keys present all through, or at some time in, t's scan
    poisoned,            \* a thread panicked while holding big_dumb_lock
    plan, script, budget \* the plan; what is left of its prologue and budget

vars == <<pages, meta, writer, readers, th, answer, must, may, poisoned, plan, script, budget>>

(* page, next, fresh, parent, left and right are the guards a call holds or   *)
(* is about to take; why is what the page under allocation is for.            *)
Idle == [pc |-> "idle", op |-> "none", key |-> Nil, page |-> Nil, next |-> Nil,
         stack |-> <<>>, why |-> "none", fresh |-> Nil, parent |-> Nil,
         left |-> Nil, right |-> Nil, sep |-> Nil, side |-> "none", seen |-> <<>>]

Rows == UNION {KeySet(pages[p]) : p \in {q \in PageNums : is_leaf(pages[q])}}

(* create: an empty leaf as root, two pages.                                  *)
Init ==
    /\ pages = [p \in PageNums |-> IF p = 1 THEN leaf(<<>>, Nil, Nil) ELSE free(Nil)]
    /\ meta = [root |-> 1, page_count |-> 2, free_list_head |-> Nil]
    /\ writer = [p \in AllPages |-> Nil]
    /\ readers = [p \in AllPages |-> {}]
    /\ th = [t \in Threads |-> Idle]
    /\ answer = [t \in Threads |-> Nil]
    /\ must = [t \in Threads |-> {}]
    /\ may = [t \in Threads |-> {}]
    /\ poisoned = FALSE
    /\ plan \in Plans
    /\ script \in Prologue[plan]
    /\ budget = Budget[plan]

-----------------------------------------------------------------------------
(* Latches.                                                                   *)

CanRead(p) == writer[p] = Nil
CanWrite(p) == writer[p] = Nil /\ readers[p] = {}

Writes(t) == th[t].op \in {"insert", "delete"}
CanLatch(t, p) == IF Writes(t) THEN CanWrite(p) ELSE CanRead(p)

(* Thread t takes the latches of add and drops those of drop.                 *)
Latch(t, add, drop) ==
    /\ writer' = [p \in AllPages |->
                    IF Writes(t) /\ p \in add THEN t
                    ELSE IF p \in drop /\ writer[p] = t THEN Nil ELSE writer[p]]
    /\ readers' = [p \in AllPages |->
                    IF ~Writes(t) /\ p \in add THEN readers[p] \cup {t}
                    ELSE IF p \in drop THEN readers[p] \ {t} ELSE readers[p]]

KeepLatches == UNCHANGED <<writer, readers>>
KeepTable == UNCHANGED <<pages, meta>>
Silent == UNCHANGED answer

(* A call's answer stands until the thread's next call begins.                *)
Asks(t) == answer' = [answer EXCEPT ![t] = Nil]
Says(t, res) == answer' = [answer EXCEPT ![t] =
                             [op |-> th[t].op, key |-> th[t].key, res |-> res]]

(* Every step notes what the scans under way must and may report; only Begin  *)
(* touches the plan.                                                          *)
History ==
    /\ must' = [t \in Threads |-> IF th'[t].op # "scan" THEN {}
                                  ELSE IF th[t].op # "scan" THEN Rows'
                                  ELSE must[t] \cap Rows']
    /\ may' = [t \in Threads |-> IF th'[t].op # "scan" THEN {} ELSE may[t] \cup Rows']
KeepPlan == UNCHANGED <<poisoned, plan, script, budget>> /\ History

(* The call returns: every guard of t is dropped.                             *)
Return(t) == th' = [th EXCEPT ![t] = Idle] /\ Latch(t, {}, AllPages)

(* An Err after changes were made, and an expect that fails.                  *)
Fails(t) == Says(t, "error") /\ Return(t)
Panics(t) == /\ th' = [th EXCEPT ![t] = [Idle EXCEPT !.pc = "panicked"]]
             /\ Latch(t, {}, AllPages)
             /\ Silent

(* Page numbers are handed out in order, and a freed page stays in the file.  *)
Exists(p) == p < meta.page_count

StackPages(t) == {th[t].stack[i].page : i \in DOMAIN th[t].stack}
Top(t) == th[t].stack[Len(th[t].stack)]
Popped(t) == Upto(Len(th[t].stack) - 1, th[t].stack)

-----------------------------------------------------------------------------
(* A call begins with get_root_write or get_root_read: read the root id, latch*)
(* that page, read the id again, and start over if it has changed.            *)

Begin(t) ==
    /\ th[t].pc = "idle"
    /\ \/ /\ t = First /\ script # <<>>
          /\ th' = [th EXCEPT ![t] = [Idle EXCEPT !.pc = "root_id", !.op = Head(script).op,
                                                  !.key = Head(script).key]]
          /\ script' = Tail(script)
          /\ UNCHANGED budget
       \/ /\ script = <<>> /\ budget[t] > 0
          /\ budget = Budget[plan] => th[First].pc = "idle"
          /\ \E o \in Menu[plan][t] :
                th' = [th EXCEPT ![t] = [Idle EXCEPT !.pc = "root_id", !.op = o.op, !.key = o.key]]
          /\ budget' = [budget EXCEPT ![t] = @ - 1]
          /\ UNCHANGED script
    /\ UNCHANGED <<poisoned, plan>> /\ KeepTable /\ KeepLatches /\ Asks(t) /\ History

ReadRootId(t) ==
    /\ th[t].pc = "root_id" /\ CanRead(Meta)
    /\ th' = [th EXCEPT ![t].pc = "root", ![t].page = meta.root]
    /\ KeepTable /\ KeepLatches /\ Silent /\ KeepPlan

LatchRoot(t) ==
    /\ th[t].pc = "root" /\ Exists(th[t].page) /\ CanLatch(t, th[t].page)
    /\ Latch(t, {th[t].page}, {})
    /\ th' = [th EXCEPT ![t].pc = "check"]
    /\ KeepTable /\ Silent /\ KeepPlan

(* A vacuum since then may have cut the file below that page: NotFound, before*)
(* anything was changed.                                                      *)
RootGone(t) ==
    /\ th[t].pc = "root" /\ ~Exists(th[t].page)
    /\ Return(t)
    /\ KeepTable /\ Silent /\ KeepPlan

Bug_NoRecheck(t) == TRUE
StillRoot(t) == meta.root = th[t].page

CheckRoot(t) ==
    /\ th[t].pc = "check" /\ CanRead(Meta)
    /\ \/ /\ StillRoot(t)
          /\ th' = [th EXCEPT ![t].pc = "at"]
          /\ KeepLatches
       \/ /\ ~StillRoot(t)
          /\ th' = [th EXCEPT ![t].pc = "root_id"]
          /\ Latch(t, {}, {th[t].page})
    /\ KeepTable /\ Silent /\ KeepPlan

-----------------------------------------------------------------------------
(* The descent.                                                               *)

(* A scan without a lower bound goes to the first child.                      *)
ChildPos(t, pg) == IF th[t].key = Nil THEN 0 ELSE find_child_index(pg, th[t].key)

(* delete drops the guards above a page that a delete below cannot disturb.   *)
Bug_DropAboveTooSoon(t, pg) == TRUE
DropsAbove(t, pg) == th[t].op = "delete" /\ is_delete_safe(pg)

Descend(t) ==
    LET pg == pages[th[t].page]
        kept == IF DropsAbove(t, pg) THEN <<>> ELSE th[t].stack
    IN /\ th[t].pc = "at" /\ is_internal(pg)
       /\ th' = [th EXCEPT ![t].pc = "child",
                           ![t].next = child_at(pg, ChildPos(t, pg)),
                           ![t].stack = IF Writes(t)
                                        THEN Append(kept, [page |-> th[t].page, idx |-> ChildPos(t, pg)])
                                        ELSE <<>>]
       /\ Latch(t, {}, IF DropsAbove(t, pg) THEN StackPages(t) ELSE {})
       /\ KeepTable /\ Silent /\ KeepPlan

(* insert drops every guard above a page that will not split; get and         *)
(* get_range drop the parent once they have the child.                        *)
Bug_DropAboveAlways(t, pg) == th[t].op = "insert"
StopsHere(t, pg) == th[t].op = "insert" /\ (is_split_safe(pg) \/ can_insert(pg, th[t].key))

LatchChild(t) ==
    LET n == th[t].next
        clear == StopsHere(t, pages[n])
    IN /\ th[t].pc = "child" /\ CanLatch(t, n)
       /\ th' = [th EXCEPT ![t].pc = "at", ![t].page = n, ![t].next = Nil,
                           ![t].stack = IF clear THEN <<>> ELSE @]
       /\ Latch(t, {n}, IF ~Writes(t) THEN {th[t].page} ELSE IF clear THEN StackPages(t) ELSE {})
       /\ KeepTable /\ Silent /\ KeepPlan

(* The descent ends at a leaf.  A page of another type would be an error.     *)
AtLeaf(t, op) == th[t].pc = "at" /\ th[t].op = op /\ ~is_internal(pages[th[t].page])
Answers(t, res) == Says(t, IF is_leaf(pages[th[t].page]) THEN res ELSE "error")

Get(t) ==
    /\ AtLeaf(t, "get")
    /\ Answers(t, IF HasKey(pages[th[t].page], th[t].key) THEN "row" ELSE "none")
    /\ Return(t)
    /\ KeepTable /\ KeepPlan

(* get_range collects the leaf's rows from the lower bound on (they are in    *)
(* order), then latches the next leaf before it drops this one; it expects a  *)
(* leaf.  The upper bound ends the loop early and is left out.                *)
Bug_DropLeafFirst(t) == {th[t].page}
DropsWhileWaiting(t) == {}

InRange(t, keys) == IF th[t].key = Nil THEN keys ELSE After(Below(keys, th[t].key), keys)

Collect(t) ==
    LET pg == pages[th[t].page]
    IN /\ AtLeaf(t, "scan") \/ AtLeaf(t, "vacuum")
       /\ IF is_leaf(pg)
          THEN /\ th' = [th EXCEPT ![t].seen = @ \o InRange(t, pg.keys), ![t].next = pg.next,
                                   ![t].pc = IF pg.next = Nil THEN "scanned" ELSE "child"]
               /\ Latch(t, {}, DropsWhileWaiting(t)) /\ Silent
          ELSE Panics(t)
       /\ KeepTable /\ KeepPlan

EndScan(t) ==
    /\ th[t].pc = "scanned" /\ th[t].op = "scan"
    /\ Return(t)
    /\ KeepTable /\ Silent /\ KeepPlan

-----------------------------------------------------------------------------
(* insert.                                                                    *)

InsertDuplicate(t) ==
    /\ AtLeaf(t, "insert")
    /\ HasKey(pages[th[t].page], th[t].key) \/ is_free(pages[th[t].page])
    /\ Answers(t, "duplicate") /\ Return(t)
    /\ KeepTable /\ KeepPlan

InsertFits(t) ==
    LET p == th[t].page
    IN /\ AtLeaf(t, "insert") /\ TakesRow(pages[p], th[t].key)
       /\ pages' = [pages EXCEPT ![p] = leaf_insert(@, th[t].key)]
       /\ Says(t, "ok") /\ Return(t)
       /\ UNCHANGED meta /\ KeepPlan

InsertSplits(t) ==
    LET pg == pages[th[t].page]
    IN /\ AtLeaf(t, "insert") /\ is_leaf(pg) /\ ~HasKey(pg, th[t].key) /\ ~can_insert(pg, th[t].key)
       /\ th' = [th EXCEPT ![t].pc = "alloc", ![t].why = "leaf"]
       /\ KeepTable /\ KeepLatches /\ Silent /\ KeepPlan

(* allocate, under the meta page's latch: the head of the free list, or a page*)
(* number never used, which new_page refuses if it is cached already.         *)
AllocNew(t) ==
    LET new == meta.page_count
    IN /\ th[t].pc = "alloc" /\ CanWrite(Meta) /\ meta.free_list_head = Nil
       /\ new <= MaxPages /\ CanWrite(new)
       /\ meta' = [meta EXCEPT !.page_count = @ + 1]
       /\ pages' = [pages EXCEPT ![new] = free(Nil)]
       /\ Latch(t, {new}, {})
       /\ th' = [th EXCEPT ![t].pc = "fresh", ![t].fresh = new]
       /\ Silent /\ KeepPlan

AllocHead(t) ==
    /\ th[t].pc = "alloc" /\ CanWrite(Meta) /\ meta.free_list_head # Nil
    /\ Latch(t, {Meta}, {})
    /\ th' = [th EXCEPT ![t].pc = "pop", ![t].fresh = meta.free_list_head]
    /\ KeepTable /\ Silent /\ KeepPlan

(* free_list_pop; its error makes allocate fail and the caller panic.         *)
AfterPop(pg) == pg.next

AllocPop(t) ==
    LET head == th[t].fresh
    IN /\ th[t].pc = "pop" /\ CanWrite(head)
       /\ IF is_free(pages[head])
          THEN /\ meta' = [meta EXCEPT !.free_list_head = AfterPop(pages[head])]
               /\ pages' = [pages EXCEPT ![head] = free(Nil)]
               /\ Latch(t, {head}, {Meta})
               /\ th' = [th EXCEPT ![t].pc = "fresh"]
               /\ Silent
          ELSE Panics(t) /\ KeepTable
       /\ KeepPlan

(* split_and_insert: the leaf, its old right neighbour's prev, the new row.   *)
SplitLeaf(t) ==
    LET p == th[t].page
        s == split_page(pages[p], p, th[t].fresh)
    IN /\ th[t].pc = "fresh" /\ th[t].why = "leaf"
       /\ pages' = [pages EXCEPT ![p] = s.left, ![th[t].fresh] = s.right]
       /\ th' = [th EXCEPT ![t].pc = IF s.right.next = Nil THEN "place" ELSE "relink",
                           ![t].next = s.right.next, ![t].left = p,
                           ![t].right = th[t].fresh, ![t].sep = s.sep]
       /\ UNCHANGED meta /\ KeepLatches /\ Silent /\ KeepPlan

Bug_NoRelink(p, to) == pages
WithPrev(p, to) == [pages EXCEPT ![p].prev = to]

(* set_prev refuses a page that is no leaf.                                   *)
Relink(t) ==
    /\ th[t].pc = "relink" /\ CanWrite(th[t].next)
    /\ IF is_leaf(pages[th[t].next])
       THEN /\ pages' = WithPrev(th[t].next, th[t].right)
            /\ th' = [th EXCEPT ![t].pc = "place"]
            /\ KeepLatches /\ Silent
       ELSE Fails(t) /\ UNCHANGED pages
    /\ UNCHANGED meta /\ KeepPlan

Bug_PlaceLeft(k, sep) == TRUE
GoesLeft(k, sep) == k <= sep

Place(t) ==
    LET home == IF GoesLeft(th[t].key, th[t].sep) THEN th[t].left ELSE th[t].right
    IN /\ th[t].pc = "place"
       /\ IF TakesRow(pages[home], th[t].key)
          THEN /\ pages' = [pages EXCEPT ![home] = leaf_insert(@, th[t].key)]
               /\ th' = [th EXCEPT ![t].pc = "up"]
               /\ Says(t, "ok") /\ KeepLatches
          ELSE Fails(t) /\ UNCHANGED pages
       /\ UNCHANGED meta /\ KeepPlan

(* The separator goes to the parent when it fits.                             *)
InsertSeparator(t) ==
    LET p == Top(t).page
    IN /\ th[t].pc = "up" /\ th[t].stack # <<>>
       /\ can_insert_separator(pages[p], th[t].sep)
       /\ IF TakesSeparator(pages[p], th[t].sep)
          THEN /\ pages' = [pages EXCEPT ![p] = internal_insert(@, th[t].sep, th[t].right)]
               /\ Return(t) /\ Silent
          ELSE Fails(t) /\ UNCHANGED pages
       /\ UNCHANGED meta /\ KeepPlan

(* Otherwise the parent splits, or a new root is needed: a page is allocated. *)
ParentFull(t) ==
    /\ th[t].pc = "up" /\ th[t].stack # <<>>
    /\ ~can_insert_separator(pages[Top(t).page], th[t].sep)
    /\ th' = [th EXCEPT ![t].pc = "alloc", ![t].why = "internal",
                        ![t].parent = Top(t).page, ![t].stack = Popped(t)]
    /\ KeepTable /\ KeepLatches /\ Silent /\ KeepPlan

NoParent(t) ==
    /\ th[t].pc = "up" /\ th[t].stack = <<>>
    /\ th' = [th EXCEPT ![t].pc = "alloc", ![t].why = "root"]
    /\ KeepTable /\ KeepLatches /\ Silent /\ KeepPlan

(* The guards of both halves drop at the end of the iteration, before the     *)
(* separator between them is anywhere in the tree.                            *)
Bug_SeparatorLeft(sep, promoted) == FALSE
GoesRight(sep, promoted) == sep > promoted

SplitInternal(t) ==
    LET p == th[t].parent
        s == split_page(pages[p], p, th[t].fresh)
        split == [pages EXCEPT ![p] = s.left, ![th[t].fresh] = s.right]
        home == IF GoesRight(th[t].sep, s.sep) THEN th[t].fresh ELSE p
    IN /\ th[t].pc = "fresh" /\ th[t].why = "internal"
       /\ IF TakesSeparator(split[home], th[t].sep)
          THEN /\ pages' = [split EXCEPT ![home] = internal_insert(@, th[t].sep, th[t].right)]
               /\ th' = [th EXCEPT ![t].pc = "up", ![t].left = p, ![t].right = th[t].fresh, ![t].sep = s.sep]
               /\ Latch(t, {}, {p, th[t].fresh}) /\ Silent
          ELSE pages' = split /\ Fails(t)
       /\ UNCHANGED meta /\ KeepPlan

(* new_root and set_root_id.                                                  *)
NewRoot(t) ==
    /\ th[t].pc = "fresh" /\ th[t].why = "root" /\ CanWrite(Meta)
    /\ pages' = [pages EXCEPT ![th[t].fresh] = internal(<<th[t].sep>>, <<th[t].left, th[t].right>>)]
    /\ meta' = [meta EXCEPT !.root = th[t].fresh]
    /\ Return(t)
    /\ Silent /\ KeepPlan

-----------------------------------------------------------------------------
(* delete.                                                                    *)

DeleteNothing(t) ==
    /\ AtLeaf(t, "delete") /\ ~HasKey(pages[th[t].page], th[t].key)
    /\ Answers(t, "none") /\ Return(t)
    /\ KeepTable /\ KeepPlan

DeleteRow(t) ==
    LET p == th[t].page
    IN /\ AtLeaf(t, "delete") /\ HasKey(pages[p], th[t].key)
       /\ pages' = [pages EXCEPT ![p] = leaf_remove(@, th[t].key)]
       /\ th' = [th EXCEPT ![t].pc = "balance"]
       /\ Says(t, "row")
       /\ UNCHANGED meta /\ KeepLatches /\ KeepPlan

(* rebalance: an underfull page is joined with a sibling under the parent on  *)
(* top of the stack.                                                          *)
Bug_JoinLeavesOnly(t) == is_underfull(pages[th[t].page]) /\ is_leaf(pages[th[t].page]) /\ th[t].stack # <<>>
Bug_JoinWhenEmpty(t) == num_items(pages[th[t].page]) = 0 /\ th[t].stack # <<>>
NeedsJoin(t) == is_underfull(pages[th[t].page]) /\ th[t].stack # <<>>

Balanced(t) ==
    /\ th[t].pc = "balance" /\ ~NeedsJoin(t)
    /\ th' = [th EXCEPT ![t].pc = "shrink"]
    /\ KeepTable /\ KeepLatches /\ Silent /\ KeepPlan

(* The page is the left of the pair and waits for the right one.              *)
JoinRight(t) ==
    LET sib == pick_sibling(pages[Top(t).page], Top(t).idx)
    IN /\ th[t].pc = "balance" /\ NeedsJoin(t)
       /\ sib.side = "right"
       /\ th' = [th EXCEPT ![t].pc = "right", ![t].parent = Top(t).page, ![t].stack = Popped(t),
                           ![t].left = th[t].page, ![t].right = sib.id,
                           ![t].sep = sib.sep, ![t].side = "right"]
       /\ KeepTable /\ KeepLatches /\ Silent /\ KeepPlan

(* Latches are taken left to right, so the page is dropped and latched again. *)
(* "non-root has a sibling" panics on a parent with a single child.           *)
Bug_KeepsPage(t) == {}
Bug_DropsParent(t) == {th[t].page, Top(t).page}
DropsPage(t) == {th[t].page}

JoinLeft(t) ==
    LET sib == pick_sibling(pages[Top(t).page], Top(t).idx)
    IN /\ th[t].pc = "balance" /\ NeedsJoin(t)
       /\ sib.side # "right"
       /\ IF sib = NoSibling THEN Panics(t)
          ELSE /\ th' = [th EXCEPT ![t].pc = "left", ![t].parent = Top(t).page, ![t].stack = Popped(t),
                                   ![t].left = sib.id, ![t].right = th[t].page,
                                   ![t].sep = sib.sep, ![t].side = "left"]
               /\ Latch(t, {}, DropsPage(t))
               /\ Silent
       /\ KeepTable /\ KeepPlan

LatchLeft(t) ==
    /\ th[t].pc = "left" /\ CanWrite(th[t].left)
    /\ Latch(t, {th[t].left}, {})
    /\ th' = [th EXCEPT ![t].pc = "right"]
    /\ KeepTable /\ Silent /\ KeepPlan

LatchRight(t) ==
    /\ th[t].pc = "right" /\ CanWrite(th[t].right)
    /\ Latch(t, {th[t].right}, {})
    /\ th' = [th EXCEPT ![t].pc = "join"]
    /\ KeepTable /\ Silent /\ KeepPlan

(* A pair that is out of order or not linked is an error.                     *)
Merge(t) ==
    LET l == pages[th[t].left]  r == pages[th[t].right]
    IN /\ th[t].pc = "join" /\ can_merge_with(l, r, th[t].sep)
       /\ IF InOrder(l, r, th[t].sep) /\ (is_leaf(l) => l.next = th[t].right)
          THEN /\ pages' = [pages EXCEPT ![th[t].left] = merge_from_right(l, r, th[t].sep),
                                         ![th[t].right] = free(Nil),
                                         ![th[t].parent] = internal_remove(@, th[t].sep)]
               /\ th' = [th EXCEPT ![t].pc = IF is_leaf(l) /\ r.next # Nil THEN "unlink" ELSE "free",
                                   ![t].next = IF is_leaf(l) THEN r.next ELSE Nil]
               /\ KeepLatches /\ Silent
          ELSE Fails(t) /\ UNCHANGED pages
       /\ UNCHANGED meta /\ KeepPlan

(* The leaf after the merged pair points back to the left one.                *)
Unlink(t) ==
    /\ th[t].pc = "unlink" /\ CanWrite(th[t].next)
    /\ IF is_leaf(pages[th[t].next])
       THEN /\ pages' = WithPrev(th[t].next, th[t].left)
            /\ th' = [th EXCEPT ![t].pc = "free"]
            /\ KeepLatches /\ Silent
       ELSE Fails(t) /\ UNCHANGED pages
    /\ UNCHANGED meta /\ KeepPlan

(* free_list_push, under the meta page's latch.                               *)
Bug_ForgetTail(p) == [pages EXCEPT ![p] = free(Nil)]
Pushed(p) == [pages EXCEPT ![p] = free(meta.free_list_head)]

FreeRight(t) ==
    LET p == th[t].right
    IN /\ th[t].pc = "free" /\ CanWrite(Meta)
       /\ pages' = Pushed(p)
       /\ meta' = [meta EXCEPT !.free_list_head = p]
       /\ Latch(t, {}, {p, th[t].left})
       /\ th' = [th EXCEPT ![t].pc = "balance", ![t].page = th[t].parent]
       /\ Silent /\ KeepPlan

(* Too much for one page: entries move over, and the parent's separator is    *)
(* replaced last.  When that fails the rows have moved already.               *)
Borrow(t) ==
    LET l == pages[th[t].left]  r == pages[th[t].right]
        pair == [left |-> l, right |-> r, sep |-> th[t].sep]
        can == /\ SameKind(l, r) /\ InOrder(l, r, th[t].sep)
               /\ IF th[t].side = "right"
                  THEN CanBorrowFromRight(pair) /\ (is_leaf(l) => l.next = th[t].right)
                  ELSE CanBorrowFromLeft(pair) /\ (is_leaf(l) => r.prev = th[t].left)
        b == IF th[t].side = "right" THEN bulk_borrow_from_right(l, r, th[t].sep)
             ELSE bulk_borrow_from_left(l, r, th[t].sep)
        moved == [pages EXCEPT ![th[t].left] = b.left, ![th[t].right] = b.right]
    IN /\ th[t].pc = "join" /\ ~can_merge_with(l, r, th[t].sep)
       /\ IF ~can THEN Fails(t) /\ UNCHANGED pages
          ELSE IF ~CanReplace(pages[th[t].parent], th[t].sep, b.sep)
               THEN pages' = moved /\ Fails(t)
               ELSE /\ pages' = [moved EXCEPT ![th[t].parent] =
                                    internal_replace_key(@, th[t].sep, b.sep)]
                    /\ Return(t) /\ Silent
       /\ UNCHANGED meta /\ KeepPlan

(* A root without keys hands over to its only child and is freed, its latch   *)
(* held throughout.                                                           *)
IsLonelyRoot(p) == meta.root = p /\ is_internal(pages[p]) /\ num_items(pages[p]) = 0

Shrink(t) ==
    /\ th[t].pc = "shrink" /\ CanRead(Meta)
    /\ \/ /\ IsLonelyRoot(th[t].page)
          /\ th' = [th EXCEPT ![t].pc = "new_root"]
          /\ KeepLatches
       \/ /\ ~IsLonelyRoot(th[t].page)
          /\ Return(t)
    /\ KeepTable /\ Silent /\ KeepPlan

Bug_SecondChild(pg) == child_at(pg, 1)
OnlyChild(pg) == child_at(pg, 0)

SetRoot(t) ==
    LET p == th[t].page
    IN /\ th[t].pc = "new_root" /\ CanWrite(Meta)
       /\ meta' = [meta EXCEPT !.root = OnlyChild(pages[p])]
       /\ pages' = [pages EXCEPT ![p] = free(Nil)]
       /\ th' = [th EXCEPT ![t].pc = "free_root"]
       /\ KeepLatches /\ Silent /\ KeepPlan

FreeRoot(t) ==
    /\ th[t].pc = "free_root" /\ CanWrite(Meta)
    /\ pages' = Pushed(th[t].page)
    /\ meta' = [meta EXCEPT !.free_list_head = th[t].page]
    /\ Return(t)
    /\ Silent /\ KeepPlan

-----------------------------------------------------------------------------
(* vacuum: get_all, as a scan above, then the new tree is built in memory and *)
(* swap_file replaces the file and empties the frames under big_dumb_lock.    *)

VacuumBuilds(t) ==
    /\ th[t].pc = "scanned" /\ th[t].op = "vacuum"
    /\ IF th[t].seen = <<>> THEN Panics(t)       \* first_key: "has first row"
       ELSE IF Loads(th[t].seen)
       THEN /\ th' = [th EXCEPT ![t].pc = "swap"]
            /\ Latch(t, {}, AllPages) /\ Silent
       ELSE Return(t) /\ Silent
    /\ KeepTable /\ KeepPlan

(* The program counters at which a thread is in fetch_read, fetch_write,      *)
(* new_page or swap_file.                                                     *)
AboutToFetch(t) ==
    \/ th[t].pc \in {"root_id", "root", "check", "child", "alloc", "pop", "relink", "left",
                     "right", "unlink", "free", "shrink", "new_root", "free_root", "swap"}
    \/ th[t].pc = "fresh" /\ th[t].why = "root"

HoldsGuard(t) == \E p \in AllPages : writer[p] = t \/ t \in readers[p]

SwapFile(t) ==
    LET new == bulk_load(th[t].seen)
    IN /\ th[t].pc = "swap" /\ \A u \in Threads : ~HoldsGuard(u)
       /\ Len(new.pages) <= MaxPages
       /\ pages' = [p \in PageNums |-> IF p \in DOMAIN new.pages THEN new.pages[p] ELSE free(Nil)]
       /\ meta' = [root |-> new.root, page_count |-> Len(new.pages) + 1, free_list_head |-> Nil]
       /\ Return(t)
       /\ Silent /\ KeepPlan

(* assert!(!frame.is_pinned()), under the mutex and with the file replaced:   *)
(* some other thread has a guard, or has pinned the page it is about to latch.*)
(* pages and meta are what guards see, and a guard's frame keeps its old page:*)
(* the frames emptied before the assertion are unpinned ones.  The mutex is   *)
(* poisoned, so nobody fetches a page of the new file.  What becomes of the   *)
(* old frames over it is ClearPanics in TableFile.                            *)
SwapPanics(t) ==
    /\ th[t].pc = "swap"
    /\ \E u \in Threads \ {t} : HoldsGuard(u) \/ AboutToFetch(u)
    /\ Panics(t)
    /\ poisoned' = TRUE
    /\ UNCHANGED <<plan, script, budget>> /\ KeepTable /\ History

-----------------------------------------------------------------------------
(* The steps that fetch no page ...                                           *)
Local(t) ==
    \/ Descend(t) \/ Get(t) \/ Collect(t) \/ EndScan(t)
    \/ InsertDuplicate(t) \/ InsertFits(t) \/ InsertSplits(t)
    \/ SplitLeaf(t) \/ Place(t) \/ InsertSeparator(t)
    \/ ParentFull(t) \/ NoParent(t) \/ SplitInternal(t)
    \/ DeleteNothing(t) \/ DeleteRow(t) \/ Balanced(t)
    \/ JoinRight(t) \/ JoinLeft(t) \/ Merge(t) \/ Borrow(t)
    \/ VacuumBuilds(t)

(* ... and those that do, or take big_dumb_lock: on a poisoned mutex they     *)
(* panic.                                                                     *)
Fetching(t) ==
    \/ ReadRootId(t) \/ LatchRoot(t) \/ RootGone(t) \/ CheckRoot(t) \/ LatchChild(t)
    \/ AllocNew(t) \/ AllocHead(t) \/ AllocPop(t) \/ Relink(t) \/ NewRoot(t)
    \/ LatchLeft(t) \/ LatchRight(t) \/ Unlink(t) \/ FreeRight(t)
    \/ Shrink(t) \/ SetRoot(t) \/ FreeRoot(t)
    \/ SwapFile(t) \/ SwapPanics(t)

FetchPoisoned(t) ==
    /\ AboutToFetch(t)
    /\ Panics(t)
    /\ KeepTable /\ KeepPlan

Resume(t) == \/ Local(t)
             \/ ~poisoned /\ Fetching(t)
             \/ poisoned /\ FetchPoisoned(t)

Next == \E t \in Threads : Begin(t) \/ Resume(t)

Spec == Init /\ [][Next]_vars

(* The scheduler runs every thread; a thread waiting for a latch gets it when *)
(* it is free again and again.                                                *)
FairSpec == Spec /\ \A t \in Threads : SF_vars(Resume(t))

-----------------------------------------------------------------------------
(* Properties.                                                                *)

Quiet == \A t \in Threads : th[t].pc = "idle"

(* What the plan does to the table.                                           *)
Vacuums ==
    \/ \E t \in Threads : Op("vacuum", Nil) \in Menu[plan][t]
    \/ \E s \in Prologue[plan] : \E i \in DOMAIN s : s[i] = Op("vacuum", Nil)
MenuKeys == Key \cap UNION {{o.key : o \in Menu[plan][t]} : t \in Threads}
EvenSizes == \A k, l \in MenuKeys : RowSize[k] = RowSize[l]

MapOp == [op : {"insert", "delete", "get"}, key : Key,
          res : {"ok", "duplicate", "row", "none", "error"}]

TypeOK ==
    /\ \A p \in PageNums : free_space(pages[p]) >= 0
    /\ \A p \in PageNums :
          \/ is_leaf(pages[p]) /\ {pages[p].next, pages[p].prev} \subseteq PageNums \cup {Nil}
          \/ is_internal(pages[p]) /\ \A i \in DOMAIN pages[p].children : pages[p].children[i] \in PageNums
          \/ is_free(pages[p]) /\ pages[p].next \in PageNums \cup {Nil}
    /\ meta.root \in PageNums /\ meta.page_count \in 2 .. MaxPages + 1
    /\ meta.free_list_head \in PageNums \cup {Nil}
    /\ writer \in [AllPages -> Threads \cup {Nil}]
    /\ readers \in [AllPages -> SUBSET Threads]
    /\ answer \in [Threads -> MapOp \cup {Nil}]

(* Where a search for key k ends.                                             *)
LeafOf(k) ==
    LET down[p \in PageNums, fuel \in 0 .. MaxPages] ==
            IF fuel > 0 /\ is_internal(pages[p]) THEN down[find_child(pages[p], k), fuel - 1] ELSE p
    IN down[meta.root, MaxPages]

(* Every insert, delete and get takes effect at once, at some moment of its   *)
(* call, as on a single map: no thread misses or doubles a row another one is *)
(* moving by a split, a merge or a borrow.                                    *)
Map == INSTANCE KVMap WITH map <- Rows, NoAnswer <- Nil
ImplementsKVMap == Map!Spec

(* Nobody descends, or follows a leaf's next pointer, into a page that was    *)
(* freed meanwhile: the parent or the left leaf is latched until the page is, *)
(* and the root is checked again once it is latched.                          *)
ReachedPageInUse == \A t \in Threads : th[t].pc = "at" => ~is_free(pages[th[t].page])

(* get_range returns, in order and each once, every row that was there from   *)
(* the beginning to the end of the scan and none that never was, whatever     *)
(* moved meanwhile.                                                           *)
ScanIsConsistent ==
    \A t \in Threads : th[t].op = "scan" =>
        LET seen == th[t].seen
            in_range(k) == th[t].key = Nil \/ k >= th[t].key
        IN /\ \A i, j \in DOMAIN seen : i < j => seen[i] < seen[j]
           /\ \A i \in DOMAIN seen : seen[i] \in may[t] /\ in_range(seen[i])
           /\ th[t].pc = "scanned" => \A k \in must[t] : in_range(k) => \E i \in DOMAIN seen : seen[i] = k

(* Between calls every row is where a search for its key ends: the separators *)
(* on every level are right.                                                  *)
EveryRowFound == Quiet => \A k \in Rows : HasKey(pages[LeafOf(k)], k)

(* check_space_accounting: every page is the meta page, in the tree, or on    *)
(* the free list, and only one of these.                                      *)
InTree ==
    LET from[p \in PageNums, fuel \in 0 .. MaxPages] ==
            IF fuel > 0 /\ is_internal(pages[p])
            THEN {p} \cup UNION {from[pages[p].children[i], fuel - 1] : i \in DOMAIN pages[p].children}
            ELSE {p}
    IN from[meta.root, MaxPages]

FreeList ==
    LET list[p \in PageNums \cup {Nil}, fuel \in 0 .. MaxPages] ==
            IF p = Nil \/ fuel = 0 THEN <<>>
            ELSE <<p>> \o list[IF is_free(pages[p]) THEN pages[p].next ELSE Nil, fuel - 1]
    IN list[meta.free_list_head, MaxPages]

SpaceAccounted ==
    Quiet => LET list == FreeList
                 freed == {list[i] : i \in DOMAIN list}
             IN /\ InTree \cap freed = {}
                /\ InTree \cup freed = 1 .. meta.page_count - 1
                /\ \A i, j \in DOMAIN list : list[i] = list[j] => i = j

(* Between calls the leaves of the tree form one chain in key order, linked   *)
(* both ways: get_range walks it by next, borrowing checks prev.              *)
LeafChainMatchesTree ==
    Quiet => LET leaves == {p \in InTree : is_leaf(pages[p])}
             IN /\ Cardinality({p \in leaves : pages[p].next = Nil}) = 1
                /\ Cardinality({p \in leaves : pages[p].prev = Nil}) = 1
                /\ \A p \in leaves : pages[p].next # Nil =>
                      /\ pages[p].next \in leaves
                      /\ pages[pages[p].next].prev = p
                      /\ Ascends(pages[p].keys, pages[pages[p].next].keys)

(* Between calls, however many splits and deletes there were, a leaf that is  *)
(* not the root is not underfull, or, where rows differ in size, holds no less*)
(* than a split before a row that does not fit may leave; an internal page    *)
(* keeps a separator.  (A split may leave an internal page with a single large*)
(* one, and vacuum packs the last page of a level with what is left.)         *)
NoPageTooEmpty ==
    Quiet /\ ~Vacuums => \A p \in InTree \ {meta.root} :
        IF is_internal(pages[p]) THEN num_items(pages[p]) > 0
        ELSE IF EvenSizes THEN ~is_underfull(pages[p])
        ELSE 2 * (entries_size(pages[p]) + MAX_LEAF_ENTRY_SIZE) > LEAF_USABLE - MAX_LEAF_ENTRY_SIZE

(* What a call changes can be written out the moment its latch is dropped, by *)
(* an eviction or a flush, and comes back the same: whatever sizes and however*)
(* long the header has become, cells and slots do not meet, keys are in order *)
(* and the free list's head is a page.                                        *)
PagesReadBack ==
    [][/\ \A p \in PageNums : pages'[p] # pages[p] => ReadsBack(pages'[p])
       /\ meta'.free_list_head # Nil => meta'.free_list_head < meta'.page_count]_<<pages, meta>>

(* The pages a call has looked at and still counts on, by its place in it: the*)
(* path above, and the page, the pair with its parent, or the page to split   *)
(* and the new one.                                                           *)
Splitting(t) == CASE th[t].why = "leaf" -> {th[t].page}
                  [] th[t].why = "internal" -> {th[t].parent}
                  [] OTHER -> {}
Working(t) ==
    LET l == th[t]
    IN CASE l.pc \in {"check", "at", "balance", "shrink", "new_root", "free_root"} -> {l.page}
         [] l.pc = "child" /\ ~Writes(t) -> {l.page}
         [] l.pc = "alloc" -> Splitting(t)
         [] l.pc = "pop" -> Splitting(t) \cup {Meta}
         [] l.pc = "fresh" -> Splitting(t) \cup {l.fresh}
         [] l.pc \in {"relink", "place"} -> {l.left, l.right}
         [] l.pc = "left" -> {l.parent}
         [] l.pc = "right" -> {l.parent, l.left}
         [] l.pc \in {"join", "unlink", "free"} -> {l.parent, l.left, l.right}
         [] OTHER -> {}
InHand(t) == (Working(t) \cup StackPages(t)) \cap AllPages
Content(p) == IF p = Meta THEN meta ELSE pages[p]

(* What a call has decided on stays true until it acts on it, although it     *)
(* takes its latches one by one and gives some back early: nobody else changes*)
(* a page it has in hand.                                                     *)
PagesInHandStay ==
    [][\A t \in Threads : th'[t] = th[t] =>
          \A p \in InHand(t) : Content(p)' = Content(p)]_vars

(* rebalance drops a page to latch its left sibling first.  Nobody changes the*)
(* page before it is latched again.                                           *)
DroppedPageStays ==
    [][\A t \in Threads :
          th[t].side = "left" /\ th[t].pc \in {"left", "right"} /\ th'[t] = th[t]
             => pages'[th[t].right] = pages[th[t].right]]_vars

(* No thread gets stuck: every call returns.                                  *)
OpsEnd == \A t \in Threads : (th[t].pc # "idle") ~> (th[t].pc = "idle")

(* When an expect or an assertion fails.  Where no vacuum has been, none does:*)
(* among others "non-root has a sibling" holds after any splits, merges and   *)
(* borrows, on every level.  A vacuum of a table without rows fails "has first*)
(* row", and one may give the last page of a level a single child: a later    *)
(* delete below it then fails "non-root has a sibling".  Apart from these     *)
(* nobody panics but for swap_file's pinned frames and the mutex they poison. *)
VacuumFoundNoRow(t) == th[t].op = "vacuum" /\ th[t].pc = "scanned" /\ th[t].seen = <<>>
JoinsOnlyChild(t) == th[t].pc = "balance" /\ Len(pages[Top(t).page].children) = 1
NoPanic ==
    [][\A t \in Threads : th[t].pc # "panicked" /\ th'[t].pc = "panicked" =>
          \/ poisoned'
          \/ Vacuums /\ (VacuumFoundNoRow(t) \/ JoinsOnlyChild(t))]_vars
=============================================================================
