--------------------------- MODULE BTreePageProofs ---------------------------
(* The pages of BTree: whatever keys there are and whatever the threads do,   *)
(* every page can be written out and read back, and the numbers in it and in  *)
(* the calls under way are those of pages.  What a call has looked at it may  *)
(* count on because nobody else changes a page it has in hand (LatchStep);    *)
(* what each operation does to a page is proved in PageChangeProofs.          *)
EXTENDS BTreeLatchProofs, PageChangeProofs

(* The content pg of page p of a table of n pages.  A tree's page may refer to*)
(* one that a vacuum has cut off, the free list only to pages in the file.    *)
InPlace(pg, p, n) ==
    /\ GoodPage(pg) /\ Links(pg) \subseteq PageNums
    /\ IF is_free(pg) THEN Links(pg) \subseteq 1 .. n - 1 ELSE p \in 1 .. n - 1

Used == 1 .. meta.page_count - 1

TableOK ==
    /\ meta \in [root : PageNums, page_count : 2 .. MaxPages + 1, free_list_head : PageNums \cup {Nil}]
    /\ meta.free_list_head \in Used \cup {Nil}
    /\ \A p \in PageNums : InPlace(pages[p], p, meta.page_count)

LatchesOK ==
    /\ writer \in [AllPages -> Threads \cup {Nil}]
    /\ readers \in [AllPages -> SUBSET Threads]

PlanOK == plan \in Plans /\ script \in Seq(Operations)
AnswersOK == answer \in [Threads -> MapOp \cup {Nil}]

(* What a call was asked to do, and what a scan has read.                     *)
Calls == {"insert", "delete", "get", "scan", "vacuum"}
Asked(l) ==
    /\ l.op \in Calls \/ (l.op = "none" /\ l.pc \in {"idle", "panicked"})
    /\ l.op \in {"insert", "delete", "get"} => l.key \in Key
    /\ l.op = "scan" => l.key \in Key \cup {Nil}
    /\ l.op = "vacuum" => l.key = Nil
    /\ l.seen \in Seq(Key)

(* The path it came: internal pages, and the child taken.                     *)
PathOK(l) ==
    \A i \in DOMAIN l.stack :
        /\ l.stack[i].page \in PageNums /\ is_internal(pages[l.stack[i].page])
        /\ l.stack[i].idx \in 0 .. Len(pages[l.stack[i].page].keys)

(* The page it is at or goes to.                                              *)
PageOK(l) ==
    /\ l.pc \in {"root", "check", "at", "balance", "shrink", "new_root"} => l.page \in PageNums
    /\ l.pc \in {"child", "relink", "unlink"} => l.next \in PageNums
    /\ l.pc = "new_root" => is_internal(pages[l.page])
    /\ l.pc = "free_root" => l.page \in Used

(* A split: what is full, the page for the other half, and the halves.        *)
HalvesOK(l) == l.left \in PageNums /\ l.right \in PageNums /\ l.sep \in Key
FullOK(l) ==
    \/ /\ l.why = "leaf" /\ l.page \in PageNums /\ is_leaf(pages[l.page])
       /\ ~can_insert(pages[l.page], l.key)
    \/ /\ l.why = "internal" /\ l.parent \in PageNums /\ is_internal(pages[l.parent])
       /\ ~can_insert_separator(pages[l.parent], l.sep)
       /\ HalvesOK(l)
    \/ l.why = "root" /\ HalvesOK(l)
SplitOK(l) ==
    /\ l.pc \in {"alloc", "pop", "fresh"} => FullOK(l)
    /\ l.pc \in {"pop", "fresh"} => l.fresh \in Used
    /\ l.pc \in {"relink", "place", "up"} => HalvesOK(l)

(* A join: the pair and its parent, and the page to be freed.                 *)
JoinOK(l) ==
    /\ l.pc \in {"left", "right", "join"} =>
          HalvesOK(l) /\ l.parent \in PageNums /\ is_internal(pages[l.parent])
    /\ l.pc \in {"unlink", "free"} =>
          l.left \in PageNums /\ l.parent \in PageNums /\ l.right \in Used

(* Vacuum builds a tree only from rows it can load.                           *)
SwapOK(l) == l.pc = "swap" => l.seen # <<>> /\ Loads(l.seen)

CallOK(l) == Asked(l) /\ PathOK(l) /\ PageOK(l) /\ SplitOK(l) /\ JoinOK(l) /\ SwapOK(l)

PageInv ==
    /\ TableOK /\ LatchesOK /\ PlanOK /\ AnswersOK
    /\ \A t \in Threads : CallOK(th[t])

-----------------------------------------------------------------------------
(* What every step shares.                                                    *)

LEMMA PageNumbers ==
    /\ PageNums \subseteq AllPages /\ PageNums \subseteq Nat /\ MaxPages \in Nat
    /\ \A p \in PageNums : p # Meta
BY ThreadAssumption DEF PageNums, AllPages, Meta

LEMMA TableIs ==
    ASSUME TableOK
    PROVE  /\ meta.page_count \in 2 .. MaxPages + 1 /\ meta.page_count \in Nat /\ meta.root \in PageNums
           /\ Used \subseteq PageNums
           /\ \A p \in PageNums : /\ GoodPage(pages[p]) /\ Links(pages[p]) \subseteq PageNums
                                  /\ is_free(pages[p]) => Links(pages[p]) \subseteq Used
                                  /\ ~is_free(pages[p]) => p \in Used
BY ThreadAssumption DEF TableOK, InPlace, Used, PageNums

(* Pages change, or the file grows.                                           *)
LEMMA TableChanges ==
    ASSUME TableOK,
           meta' \in [root : PageNums, page_count : 2 .. MaxPages + 1, free_list_head : PageNums \cup {Nil}],
           meta.page_count <= meta'.page_count,
           meta'.free_list_head \in Used' \cup {Nil},
           \A p \in PageNums : pages'[p] = pages[p] \/ InPlace(pages'[p], p, meta'.page_count)
    PROVE  TableOK' /\ Used \subseteq Used'
<1> DEFINE n == meta.page_count
           m == meta'.page_count
<1>1. n \in Nat /\ m \in Nat /\ n <= m
  BY ThreadAssumption DEF TableOK
<1>2. Used = 1 .. n - 1 /\ Used' = 1 .. m - 1
  BY DEF Used
<1>3. \A p \in PageNums : InPlace(pages[p], p, n)
  BY DEF TableOK
<1> HIDE DEF n, m
<1>4. 1 .. n - 1 \subseteq 1 .. m - 1
  BY <1>1
<1>5. \A p \in PageNums : InPlace(pages'[p], p, m)
  <2>1. \A p \in PageNums : pages'[p] = pages[p] \/ InPlace(pages'[p], p, m)
    BY DEF m
  <2>2. \A p \in PageNums : InPlace(pages[p], p, m)
    BY <1>3, <1>4 DEF InPlace
  <2> QED
    BY <2>1, <2>2
<1> QED
  BY <1>2, <1>4, <1>5 DEF TableOK, m

LEMMA TableStays ==
    ASSUME TableOK, KeepTable
    PROVE  TableOK' /\ Used' = Used
BY DEF TableOK, KeepTable, Used

LEMMA LatchesTyped ==
    ASSUME NEW t \in Threads, LatchesOK, NEW add, NEW drop, Latch(t, add, drop)
    PROVE  LatchesOK'
<1>1. ASSUME NEW p \in AllPages
      PROVE  /\ (IF Writes(t) /\ p \in add THEN t
                 ELSE IF p \in drop /\ writer[p] = t THEN Nil ELSE writer[p]) \in Threads \cup {Nil}
             /\ (IF ~Writes(t) /\ p \in add THEN readers[p] \cup {t}
                 ELSE IF p \in drop THEN readers[p] \ {t} ELSE readers[p]) \in SUBSET Threads
  BY DEF LatchesOK
<1> QED
  BY <1>1 DEF Latch, LatchesOK

(* What another call counts on is still there: it has it in hand.             *)
LEMMA OtherCallStays ==
    ASSUME NEW u \in Threads, LatchInv, TableOK, CallOK(th[u]), th'[u] = th[u], HandsKept,
           Used \subseteq Used' \/ InHand(u) = {}
    PROVE  CallOK(th[u])'
<1> DEFINE l == th[u]
<1>1. ASSUME NEW p \in PageNums, p \in Working(u) \cup StackPages(u)
      PROVE  p \in InHand(u) /\ pages'[p] = pages[p]
  <2>1. p \in InHand(u)
    BY <1>1, PageNumbers DEF InHand
  <2>2. Content(p)' = Content(p)
    BY <2>1 DEF HandsKept
  <2> QED
    BY <2>1, <2>2, PageNumbers DEF Content
<1>2. ASSUME NEW p \in Used, p \in Working(u) PROVE p \in Used'
  BY <1>1, <1>2, TableIs
<1>3. OpFits(u)
  BY DEF LatchInv, CallShape
<1>4. /\ l.pc = "new_root" => l.page \in Working(u)
      /\ l.pc = "free_root" => l.page \in Working(u)
      /\ l.pc \in {"alloc", "pop", "fresh"} /\ l.why = "leaf" => l.page \in Working(u)
      /\ l.pc \in {"alloc", "pop", "fresh"} /\ l.why = "internal" => l.parent \in Working(u)
      /\ l.pc = "pop" => Meta \in InHand(u)
      /\ l.pc = "fresh" => l.fresh \in Working(u)
      /\ l.pc \in {"left", "right", "join"} => l.parent \in Working(u)
      /\ l.pc \in {"unlink", "free"} => l.right \in Working(u)
  BY DEF Working, Splitting, InHand, AllPages
<1>5. Asked(th'[u])
  BY DEF CallOK
<1>6. PathOK(th[u])'
  <2>1. ASSUME NEW i \in DOMAIN l.stack
        PROVE  /\ l.stack[i].page \in PageNums /\ is_internal(pages'[l.stack[i].page])
               /\ l.stack[i].idx \in 0 .. Len(pages'[l.stack[i].page].keys)
    <3>1. /\ l.stack[i].page \in PageNums /\ is_internal(pages[l.stack[i].page])
          /\ l.stack[i].idx \in 0 .. Len(pages[l.stack[i].page].keys)
      BY DEF CallOK, PathOK
    <3>2. l.stack[i].page \in StackPages(u)
      BY DEF StackPages
    <3>3. pages'[l.stack[i].page] = pages[l.stack[i].page]
      BY <1>1, <3>1, <3>2
    <3> QED
      BY <3>1, <3>3
  <2> HIDE DEF l
  <2>2. l = th[u]
    BY DEF l
  <2> QED
    BY <2>1, <2>2 DEF PathOK
<1>7. PageOK(th[u])'
  <2>1. l.pc = "new_root" => is_internal(pages'[l.page])
    BY <1>1, <1>4 DEF CallOK, PageOK
  <2>2. l.pc = "free_root" => l.page \in Used'
    BY <1>2, <1>4 DEF CallOK, PageOK
  <2> QED
    BY <2>1, <2>2 DEF CallOK, PageOK
<1>8. SplitOK(th[u])'
  <2>1. ASSUME l.pc \in {"alloc", "pop", "fresh"} PROVE FullOK(th[u])'
    <3>1. FullOK(l)
      BY <2>1 DEF CallOK, SplitOK
    <3>2. /\ l.why = "leaf" /\ l.page \in PageNums => pages'[l.page] = pages[l.page]
          /\ l.why = "internal" /\ l.parent \in PageNums => pages'[l.parent] = pages[l.parent]
      BY <1>1, <1>4, <2>1
    <3> QED
      BY <3>1, <3>2 DEF FullOK, HalvesOK
  <2>2. l.pc \in {"pop", "fresh"} => l.fresh \in Used'
    <3>1. l.pc = "pop" => InHand(u) # {}
      BY <1>4
    <3>2. l.pc \in {"pop", "fresh"} => l.fresh \in Used
      BY DEF CallOK, SplitOK
    <3> QED
      BY <1>2, <1>4, <3>1, <3>2
  <2>3. l.pc \in {"relink", "place", "up"} => HalvesOK(l)
    BY DEF CallOK, SplitOK
  <2> QED
    BY <2>1, <2>2, <2>3 DEF SplitOK, HalvesOK
<1>9. JoinOK(th[u])'
  <2>1. JoinOK(l)
    BY DEF CallOK
  <2>2. l.pc \in {"left", "right", "join"} => is_internal(pages'[l.parent])
    BY <1>1, <1>4, <2>1 DEF JoinOK
  <2>3. l.pc \in {"unlink", "free"} => l.right \in Used'
    BY <1>2, <1>4, <2>1 DEF JoinOK
  <2> QED
    BY <2>1, <2>2, <2>3 DEF JoinOK, HalvesOK
<1>10. SwapOK(th[u])'
  BY DEF CallOK, SwapOK
<1> QED
  <2>1. Asked(th[u])'
    BY <1>5 DEF Asked
  <2> QED
    BY <2>1, <1>6, <1>7, <1>8, <1>9, <1>10 DEF CallOK

(* A step, told from the view of the call that takes it.                      *)
LEMMA StepTaken ==
    ASSUME NEW t \in Threads, LatchInv, PageInv, HandsKept,
           \A u \in Threads \ {t} : th'[u] = th[u],
           Used \subseteq Used' \/ \A u \in Threads : InHand(u) = {},
           TableOK', LatchesOK', PlanOK', AnswersOK', CallOK(th[t])'
    PROVE  PageInv'
<1>1. ASSUME NEW u \in Threads \ {t} PROVE CallOK(th[u])'
  BY OtherCallStays DEF PageInv
<1> QED
  BY <1>1 DEF PageInv

(* The call returns or panics.                                                *)
LEMMA CallEnded ==
    ASSUME NEW t \in Threads, LatchInv, PageInv, HandsKept, Return(t) \/ Panics(t),
           Used \subseteq Used' \/ \A u \in Threads : InHand(u) = {},
           TableOK', PlanOK', AnswersOK'
    PROVE  PageInv'
<1>1. /\ \A u \in Threads \ {t} : th'[u] = th[u]
      /\ Latch(t, {}, AllPages)
      /\ th'[t] = Idle \/ th'[t] = [Idle EXCEPT !.pc = "panicked"]
  BY DEF Return, Panics, LatchInv
<1>2. /\ th'[t].pc \in {"idle", "panicked"} /\ th'[t].op = "none"
      /\ th'[t].stack = <<>> /\ th'[t].seen = <<>>
  BY <1>1 DEF Idle
<1>3. CallOK(th[t])'
  <2>1. <<>> \in Seq(Key) /\ DOMAIN <<>> = {}
    OBVIOUS
  <2>2. Asked(th[t])' /\ PathOK(th[t])'
    BY <1>2, <2>1 DEF Asked, PathOK
  <2>3. PageOK(th[t])' /\ SplitOK(th[t])' /\ JoinOK(th[t])' /\ SwapOK(th[t])'
    BY <1>2 DEF PageOK, SplitOK, JoinOK, SwapOK
  <2> QED
    BY <2>2, <2>3 DEF CallOK
<1>4. LatchesOK'
  BY <1>1, LatchesTyped DEF PageInv
<1> QED
  BY <1>1, <1>3, <1>4, StepTaken

(* The call goes on.                                                          *)
LEMMA CallWentOn ==
    ASSUME NEW t \in Threads, LatchInv, PageInv, HandsKept,
           \A u \in Threads \ {t} : th'[u] = th[u],
           KeepLatches \/ \E add, drop : Latch(t, add, drop),
           Used \subseteq Used', TableOK', PlanOK', AnswersOK', CallOK(th[t])'
    PROVE  PageInv'
<1>1. LatchesOK'
  <2>1. LatchesOK
    BY DEF PageInv
  <2> QED
    BY <2>1, LatchesTyped DEF KeepLatches, LatchesOK
<1> QED
  BY <1>1, StepTaken

LEMMA PlanKept ==
    ASSUME PlanOK, KeepPlan
    PROVE  PlanOK'
BY DEF PlanOK, KeepPlan

LEMMA AnswerKept ==
    ASSUME AnswersOK, Silent
    PROVE  AnswersOK'
BY DEF AnswersOK, Silent

LEMMA AnswerForgotten ==
    ASSUME AnswersOK, NEW t \in Threads, Asks(t)
    PROVE  AnswersOK'
BY DEF AnswersOK, Asks

Results == {"ok", "duplicate", "row", "none", "error"}

LEMMA AnswerGiven ==
    ASSUME NEW t \in Threads, PageInv, NEW res \in Results, Says(t, res),
           th[t].op \in {"insert", "delete", "get"}
    PROVE  AnswersOK'
<1>1. th[t].key \in Key
  BY DEF PageInv, CallOK, Asked
<1>2. [op |-> th[t].op, key |-> th[t].key, res |-> res] \in MapOp
  BY <1>1 DEF MapOp, Results
<1> QED
  BY <1>2 DEF AnswersOK, Says, PageInv

(* The path, when the pages on it are left alone.                             *)
LEMMA PathKept ==
    ASSUME NEW t \in Threads, PageInv, th'[t].stack = th[t].stack,
           \A p \in PageNums \cap StackPages(t) : pages'[p] = pages[p]
    PROVE  PathOK(th[t])'
<1>1. ASSUME NEW i \in DOMAIN th[t].stack
      PROVE  /\ th[t].stack[i].page \in PageNums /\ is_internal(pages'[th[t].stack[i].page])
             /\ th[t].stack[i].idx \in 0 .. Len(pages'[th[t].stack[i].page].keys)
  <2>1. /\ th[t].stack[i].page \in PageNums /\ is_internal(pages[th[t].stack[i].page])
        /\ th[t].stack[i].idx \in 0 .. Len(pages[th[t].stack[i].page].keys)
    BY DEF PageInv, CallOK, PathOK
  <2>2. pages'[th[t].stack[i].page] = pages[th[t].stack[i].page]
    BY <2>1 DEF StackPages
  <2> QED
    BY <2>1, <2>2
<1> QED
  BY <1>1 DEF PathOK

LEMMA AskedStays ==
    ASSUME NEW t \in Threads, PageInv, th'[t].op = th[t].op, th'[t].key = th[t].key,
           th'[t].seen = th[t].seen, th[t].pc \notin {"idle", "panicked"}
    PROVE  Asked(th[t])'
BY DEF PageInv, CallOK, Asked

(* Places at which no split, join or swap is under way.                       *)
LEMMA OnTheWay ==
    ASSUME NEW t \in Threads,
           th'[t].pc \in {"root_id", "root", "check", "at", "child", "scanned", "balance",
                          "shrink", "new_root", "free_root"},
           Asked(th[t])', PathOK(th[t])', PageOK(th[t])'
    PROVE  CallOK(th[t])'
<1>1. SplitOK(th[t])' /\ JoinOK(th[t])' /\ SwapOK(th[t])'
  BY DEF SplitOK, JoinOK, SwapOK
<1> QED
  BY <1>1 DEF CallOK

(* A step that changes nothing but its own call.                              *)
LEMMA OnlyTheCall ==
    ASSUME NEW t \in Threads, LatchInv, PageInv, KeepTable, Silent, KeepPlan,
           \A u \in Threads \ {t} : th'[u] = th[u],
           KeepLatches \/ \E add, drop : Latch(t, add, drop),
           CallOK(th[t])'
    PROVE  PageInv'
<1>1. HandsKept
  BY TableKept
<1>2. TableOK' /\ Used \subseteq Used' /\ PlanOK' /\ AnswersOK'
  BY TableStays, PlanKept, AnswerKept DEF PageInv
<1> QED
  BY <1>1, <1>2, CallWentOn

(* A step that ends the call and changes no page.                             *)
LEMMA OnlyTheEnd ==
    ASSUME NEW t \in Threads, LatchInv, PageInv, KeepTable, Return(t) \/ Panics(t), PlanOK', AnswersOK'
    PROVE  PageInv'
<1>1. HandsKept
  BY TableKept
<1>2. TableOK' /\ Used \subseteq Used'
  BY TableStays DEF PageInv
<1> QED
  BY <1>1, <1>2, CallEnded

-----------------------------------------------------------------------------
(* The steps of a descent.                                                    *)

LEMMA ReadRootId_Pages ==
    ASSUME NEW t \in Threads, LatchInv, PageInv, ReadRootId(t)
    PROVE  PageInv'
<1>1. /\ th[t].pc = "root_id" /\ th'[t].pc = "root" /\ th'[t].page = meta.root
      /\ th'[t].op = th[t].op /\ th'[t].key = th[t].key /\ th'[t].seen = th[t].seen
      /\ th'[t].stack = th[t].stack /\ \A u \in Threads \ {t} : th'[u] = th[u]
  BY DEF ReadRootId, LatchInv, CallShape, Fields
<1>2. KeepTable /\ pages' = pages /\ meta.root \in PageNums
  BY TableIs DEF ReadRootId, KeepTable, PageInv
<1>3. PageOK(th[t])'
  BY <1>1, <1>2 DEF PageOK
<1>4. CallOK(th[t])'
  BY <1>1, <1>2, <1>3, AskedStays, PathKept, OnTheWay
<1> QED
  BY <1>1, <1>4, OnlyTheCall DEF ReadRootId

LEMMA LatchRoot_Pages ==
    ASSUME NEW t \in Threads, LatchInv, PageInv, LatchRoot(t)
    PROVE  PageInv'
<1>1. /\ th[t].pc = "root" /\ th'[t].pc = "check" /\ th'[t].page = th[t].page
      /\ th'[t].op = th[t].op /\ th'[t].key = th[t].key /\ th'[t].seen = th[t].seen
      /\ th'[t].stack = th[t].stack /\ \A u \in Threads \ {t} : th'[u] = th[u]
  BY DEF LatchRoot, LatchInv, CallShape, Fields
<1>2. KeepTable /\ pages' = pages /\ th[t].page \in PageNums
  BY <1>1 DEF LatchRoot, KeepTable, PageInv, CallOK, PageOK
<1>3. PageOK(th[t])'
  BY <1>1, <1>2 DEF PageOK
<1>4. CallOK(th[t])'
  BY <1>1, <1>2, <1>3, AskedStays, PathKept, OnTheWay
<1> QED
  BY <1>1, <1>4, OnlyTheCall DEF LatchRoot

LEMMA CheckRoot_Pages ==
    ASSUME NEW t \in Threads, LatchInv, PageInv, CheckRoot(t)
    PROVE  PageInv'
<1>1. /\ th[t].pc = "check" /\ th'[t].pc \in {"at", "root_id"} /\ th'[t].page = th[t].page
      /\ th'[t].op = th[t].op /\ th'[t].key = th[t].key /\ th'[t].seen = th[t].seen
      /\ th'[t].stack = th[t].stack /\ \A u \in Threads \ {t} : th'[u] = th[u]
  BY DEF CheckRoot, LatchInv, CallShape, Fields
<1>2. KeepTable /\ pages' = pages /\ th[t].page \in PageNums
  BY <1>1 DEF CheckRoot, KeepTable, PageInv, CallOK, PageOK
<1>3. PageOK(th[t])'
  BY <1>1, <1>2 DEF PageOK
<1>4. CallOK(th[t])'
  BY <1>1, <1>2, <1>3, AskedStays, PathKept, OnTheWay
<1>5. KeepLatches \/ \E add, drop : Latch(t, add, drop)
  BY DEF CheckRoot
<1> QED
  BY <1>1, <1>4, <1>5, OnlyTheCall DEF CheckRoot

(* Where the search goes on in an internal page.                              *)
LEMMA ChildChosen ==
    ASSUME NEW pg, GoodPage(pg), is_internal(pg), NEW t \in Threads, Asked(th[t]),
           th[t].op \in Calls
    PROVE  /\ ChildPos(t, pg) \in 0 .. Len(pg.keys)
           /\ child_at(pg, ChildPos(t, pg)) \in Links(pg)
<1>1. IsInternalPage(pg) /\ Holds(pg) /\ Increasing(pg.keys) /\ Len(pg.keys) \in Nat
  BY GoodPages, PageFits DEF is_free, is_internal
<1>2. ChildPos(t, pg) \in 0 .. Len(pg.keys)
  <2>1. CASE th[t].key = Nil
    BY <1>1, <2>1 DEF ChildPos
  <2>2. CASE th[t].key # Nil
    <3>1. th[t].key \in Key
      BY <2>2 DEF Asked, Calls
    <3> QED
      BY <1>1, <2>2, <3>1, ChildPosition DEF ChildPos
  <2> QED
    BY <2>1, <2>2
<1> QED
  BY <1>1, <1>2, ChildFound

(* Paths that grow and shrink at the end.                                     *)
LEMMA Appended ==
    ASSUME NEW s, IsPath(s), NEW e, NEW i \in DOMAIN Append(s, e)
    PROVE  Append(s, e)[i] = e \/ \E j \in DOMAIN s : Append(s, e)[i] = s[j]
<1> DEFINE S == {s[j] : j \in DOMAIN s} \cup {e}
           a == Append(s, e)
<1>1. s \in Seq(S) /\ DOMAIN s = 1 .. Len(s) /\ Len(s) \in Nat
  <2>1. s \in Seq({s[j] : j \in DOMAIN s})
    BY DEF IsPath
  <2>2. \A j \in 1 .. Len(s) : s[j] \in S
    BY <2>1
  <2> QED
    BY <2>1, <2>2, SMT
<1> HIDE DEF S
<1>2. /\ Len(a) = Len(s) + 1 /\ DOMAIN a = 1 .. Len(a)
      /\ \A j \in 1 .. Len(s) : a[j] = s[j]
      /\ a[Len(s) + 1] = e
  <2>1. e \in S
    BY DEF S
  <2> QED
    BY <1>1, <2>1, AppendProperties
<1> HIDE DEF a
<1>3. i \in 1 .. Len(s) \/ i = Len(s) + 1
  <2>1. i \in 1 .. Len(s) + 1
    BY <1>2 DEF a
  <2> QED
    BY <1>1, <2>1
<1>4. a[i] = e \/ \E j \in DOMAIN s : a[i] = s[j]
  BY <1>1, <1>2, <1>3
<1> QED
  BY <1>4 DEF a

LEMMA CutOff ==
    ASSUME NEW s, IsPath(s), s # <<>>
    PROVE  /\ Len(s) \in DOMAIN s
           /\ \A i \in DOMAIN Upto(Len(s) - 1, s) :
                 \E j \in DOMAIN s : Upto(Len(s) - 1, s)[i] = s[j]
<1> DEFINE S == {s[i] : i \in DOMAIN s}
           rest == Upto(Len(s) - 1, s)
<1>1. s \in Seq(S) /\ Len(s) \in Nat \ {0} /\ DOMAIN s = 1 .. Len(s)
  BY EmptySeq, SMT DEF IsPath
<1>2. /\ DOMAIN rest = 1 .. Len(s) - 1
      /\ \A i \in 1 .. Len(s) - 1 : rest[i] = s[i]
  <2> HIDE DEF S
  <2> QED
    BY <1>1, SMT DEF Upto
<1> HIDE DEF rest, S
<1>3. Len(s) \in DOMAIN s /\ 1 .. Len(s) - 1 \subseteq DOMAIN s
  BY <1>1
<1> QED
  BY <1>2, <1>3 DEF rest

LEMMA Descend_Pages ==
    ASSUME NEW t \in Threads, LatchInv, PageInv, Descend(t)
    PROVE  PageInv'
<1> DEFINE p == th[t].page
           pg == pages[p]
           pos == ChildPos(t, pg)
           entry == [page |-> p, idx |-> pos]
           kept == IF DropsAbove(t, pg) THEN <<>> ELSE th[t].stack
<1>1. /\ th[t].pc = "at" /\ th'[t].pc = "child" /\ th'[t].next = child_at(pg, pos)
      /\ th'[t].op = th[t].op /\ th'[t].key = th[t].key /\ th'[t].seen = th[t].seen
      /\ th'[t].stack = IF Writes(t) THEN Append(kept, entry) ELSE <<>>
      /\ \A u \in Threads \ {t} : th'[u] = th[u]
      /\ is_internal(pg)
  BY DEF Descend, LatchInv, CallShape, Fields
<1>2. KeepTable /\ pages' = pages /\ p \in PageNums /\ CallOK(th[t])
  BY <1>1 DEF Descend, KeepTable, PageInv, CallOK, PageOK
<1>3. GoodPage(pg) /\ Links(pg) \subseteq PageNums
  BY <1>2, TableIs DEF PageInv
<1>4. pos \in 0 .. Len(pg.keys) /\ child_at(pg, pos) \in Links(pg)
  <2>1. Asked(th[t]) /\ th[t].op \in Calls
    BY <1>1, <1>2 DEF CallOK, Asked
  <2> QED
    BY <1>1, <1>3, <2>1, ChildChosen
<1>5. PageOK(th[t])'
  BY <1>1, <1>3, <1>4 DEF PageOK
<1>6. PathOK(th[t])'
  <2>1. IsPath(kept)
    BY EmptyPath DEF LatchInv, CallShape
  <2>2. \A j \in DOMAIN kept : /\ kept[j].page \in PageNums /\ is_internal(pages[kept[j].page])
                               /\ kept[j].idx \in 0 .. Len(pages[kept[j].page].keys)
    <3>1. CASE DropsAbove(t, pg)
      <4>1. kept = <<>> /\ DOMAIN <<>> = {}
        BY <3>1
      <4> QED
        BY <4>1
    <3>2. CASE ~DropsAbove(t, pg)
      BY <1>2, <3>2 DEF CallOK, PathOK
    <3> QED
      BY <3>1, <3>2
  <2>3. entry.page = p /\ entry.idx = pos
    OBVIOUS
  <2> HIDE DEF kept, entry, pos
  <2>4. \A i \in DOMAIN Append(kept, entry) :
           /\ Append(kept, entry)[i].page \in PageNums
           /\ is_internal(pages[Append(kept, entry)[i].page])
           /\ Append(kept, entry)[i].idx \in 0 .. Len(pages[Append(kept, entry)[i].page].keys)
    <3> SUFFICES ASSUME NEW i \in DOMAIN Append(kept, entry)
                 PROVE  LET e == Append(kept, entry)[i]
                        IN /\ e.page \in PageNums /\ is_internal(pages[e.page])
                           /\ e.idx \in 0 .. Len(pages[e.page].keys)
      OBVIOUS
    <3>1. Append(kept, entry)[i] = entry \/ \E j \in DOMAIN kept : Append(kept, entry)[i] = kept[j]
      BY <2>1, Appended
    <3> QED
      BY <1>1, <1>2, <1>4, <2>2, <2>3, <3>1
  <2>5. CASE Writes(t)
    BY <1>1, <1>2, <2>4, <2>5 DEF PathOK
  <2>6. CASE ~Writes(t)
    <3>1. th'[t].stack = <<>> /\ DOMAIN <<>> = {}
      BY <1>1, <2>6
    <3> QED
      BY <3>1 DEF PathOK
  <2> QED
    BY <2>5, <2>6
<1> HIDE DEF pg, pos, entry, kept
<1>7. CallOK(th[t])'
  BY <1>1, <1>2, <1>5, <1>6, AskedStays, OnTheWay
<1> QED
  BY <1>1, <1>7, OnlyTheCall DEF Descend

LEMMA LatchChild_Pages ==
    ASSUME NEW t \in Threads, LatchInv, PageInv, LatchChild(t)
    PROVE  PageInv'
<1>1. /\ th[t].pc = "child" /\ th'[t].pc = "at" /\ th'[t].page = th[t].next
      /\ th'[t].op = th[t].op /\ th'[t].key = th[t].key /\ th'[t].seen = th[t].seen
      /\ th'[t].stack = <<>> \/ th'[t].stack = th[t].stack
      /\ \A u \in Threads \ {t} : th'[u] = th[u]
  BY DEF LatchChild, LatchInv, CallShape, Fields
<1>2. KeepTable /\ pages' = pages /\ th[t].next \in PageNums
  BY <1>1 DEF LatchChild, KeepTable, PageInv, CallOK, PageOK
<1>3. PageOK(th[t])'
  BY <1>1, <1>2 DEF PageOK
<1>4. PathOK(th[t])'
  <2>1. DOMAIN <<>> = {}
    OBVIOUS
  <2>2. th'[t].stack = <<>> => PathOK(th[t])'
    BY <2>1 DEF PathOK
  <2> QED
    BY <1>1, <1>2, <2>2, PathKept
<1>5. CallOK(th[t])'
  BY <1>1, <1>2, <1>3, <1>4, AskedStays, OnTheWay
<1>6. \E add, drop : Latch(t, add, drop)
  BY DEF LatchChild
<1> QED
  BY <1>1, <1>5, <1>6, OnlyTheCall DEF LatchChild

LEMMA Collect_Pages ==
    ASSUME NEW t \in Threads, LatchInv, PageInv, Collect(t)
    PROVE  PageInv'
<1> DEFINE pg == pages[th[t].page]
<1>0. KeepTable /\ KeepPlan /\ th[t].pc = "at" /\ th[t].op \in {"scan", "vacuum"}
  BY Zenon DEF Collect, AtLeaf
<1>1. CASE ~is_leaf(pg)
  <2>1. Panics(t) /\ Silent
    BY <1>1 DEF Collect, Panics
  <2> QED
    BY <1>0, <2>1, OnlyTheEnd, PlanKept, AnswerKept DEF PageInv
<1>2. CASE is_leaf(pg)
  <2> DEFINE read == InRange(t, pg.keys)
  <2>1. /\ th' = [th EXCEPT ![t].seen = @ \o read, ![t].next = pg.next,
                            ![t].pc = IF pg.next = Nil THEN "scanned" ELSE "child"]
        /\ \E add, drop : Latch(t, add, drop)
        /\ Silent
    BY <1>2, Zenon DEF Collect
  <2>2. CallOK(th[t]) /\ th[t].page \in PageNums
    BY <1>0 DEF PageInv, CallOK, PageOK
  <2>3. GoodPage(pg) /\ Links(pg) \subseteq PageNums
    BY <2>2, TableIs DEF PageInv
  <2>4. pg.keys \in Seq(Key)
    BY <1>2, <2>3, GoodPages DEF is_leaf, is_free
  <2>5. read \in Seq(Key)
    <3>1. CASE th[t].key = Nil
      BY <2>4, <3>1 DEF InRange
    <3>2. CASE th[t].key # Nil
      <4> DEFINE s == pg.keys
                 n == Below(s, th[t].key)
      <4>1. th[t].key \in Key
        BY <1>0, <2>2, <3>2 DEF CallOK, Asked
      <4>2. n \in 0 .. Len(s)
        BY <2>4, <4>1, BelowIsPlace
      <4>3. read = After(n, s)
        BY <3>2 DEF InRange
      <4> HIDE DEF s, n, read
      <4>4. s \in Seq(Key)
        BY <2>4 DEF s
      <4>5. After(n, s) \in Seq(Key)
        BY <4>2, <4>4, Parts
      <4> QED
        BY <4>3, <4>5
    <3> QED
      BY <3>1, <3>2
  <2>6. pg.next # Nil => pg.next \in PageNums
    BY <1>2, <2>3 DEF Links, is_leaf, is_internal
  <2> HIDE DEF read
  <2>7. /\ th'[t].pc \in {"scanned", "child"}
        /\ th'[t].pc = "child" => th'[t].next \in PageNums
        /\ th'[t].op = th[t].op /\ th'[t].key = th[t].key /\ th'[t].seen = th[t].seen \o read
        /\ th'[t].stack = th[t].stack /\ \A u \in Threads \ {t} : th'[u] = th[u]
    <3> HIDE DEF pg
    <3> QED
      BY <2>1, <2>6 DEF LatchInv, CallShape, Fields
  <2>8. th[t].seen \o read \in Seq(Key)
    BY <2>2, <2>5, ConcatProperties DEF CallOK, Asked
  <2>9. Asked(th[t])'
    BY <1>0, <2>2, <2>7, <2>8 DEF CallOK, Asked, Calls
  <2>10. PageOK(th[t])'
    BY <2>7 DEF PageOK
  <2>11. PathOK(th[t])'
    BY <1>0, <2>7, PathKept DEF KeepTable
  <2>12. CallOK(th[t])'
    BY <2>7, <2>9, <2>10, <2>11, OnTheWay
  <2> HIDE DEF pg
  <2> QED
    BY <1>0, <2>1, <2>7, <2>12, OnlyTheCall
<1> QED
  BY <1>1, <1>2

LEMMA FreePage ==
    ASSUME NEW next \in Nat \cup {Nil}
    PROVE  /\ GoodPage(free(next)) /\ is_free(free(next)) /\ ~is_leaf(free(next)) /\ ~is_internal(free(next))
           /\ Links(free(next)) = {next} \ {Nil}
<1> DEFINE q == free(next)
<1>1. q.kind = "free" /\ q.next = next /\ q = free(q.next)
  BY DEF free
<1>2. IsFreePage(q) /\ is_free(q) /\ ~is_leaf(q) /\ ~is_internal(q)
  BY <1>1 DEF IsFreePage, is_free, is_leaf, is_internal
<1>3. check_invariants(q)
  <2>1. INTERNAL_USABLE \in Int /\ INTERNAL_USABLE >= 0
    BY SizeAssumption DEF INTERNAL_USABLE, MAX_LEAF_HEADER_SIZE, MAX_INTERNAL_HEADER_SIZE, PAGE_ID_SIZE
  <2>2. free_space(q) = INTERNAL_USABLE - 0
    BY <1>2 DEF free_space, entries_size
  <2> QED
    BY <1>2, <2>1, <2>2 DEF check_invariants
<1>4. Links(q) = {next} \ {Nil}
  BY <1>1, <1>2 DEF Links
<1> QED
  BY <1>2, <1>3, <1>4 DEF GoodPage

(* Calls that end, with nothing changed.                                      *)
LEMMA Returning_Pages ==
    ASSUME NEW t \in Threads, LatchInv, PageInv,
           \/ RootGone(t) \/ Get(t) \/ EndScan(t) \/ InsertDuplicate(t) \/ DeleteNothing(t)
           \/ SwapPanics(t) \/ FetchPoisoned(t)
    PROVE  PageInv'
<1>1. KeepTable /\ (Return(t) \/ Panics(t))
  BY DEF RootGone, Get, EndScan, InsertDuplicate, DeleteNothing, SwapPanics, FetchPoisoned
<1>2. PlanOK'
  <2>1. KeepPlan \/ UNCHANGED <<plan, script, budget>>
    BY DEF RootGone, Get, EndScan, InsertDuplicate, DeleteNothing, SwapPanics, FetchPoisoned
  <2> QED
    BY <2>1 DEF PageInv, PlanOK, KeepPlan
<1>3. AnswersOK'
  <2>1. CASE RootGone(t) \/ EndScan(t) \/ SwapPanics(t) \/ FetchPoisoned(t)
    <3>1. Silent
      BY <2>1 DEF RootGone, EndScan, SwapPanics, FetchPoisoned, Panics
    <3> QED
      BY <3>1, AnswerKept DEF PageInv
  <2>2. CASE Get(t) \/ InsertDuplicate(t) \/ DeleteNothing(t)
    <3>1. \E res \in Results : Says(t, res)
      BY <2>2 DEF Get, InsertDuplicate, DeleteNothing, Answers, Results
    <3>2. th[t].op \in {"insert", "delete", "get"}
      BY <2>2 DEF Get, InsertDuplicate, DeleteNothing, AtLeaf
    <3> QED
      BY <3>1, <3>2, AnswerGiven
  <2> QED
    BY <2>1, <2>2
<1> QED
  BY <1>1, <1>2, <1>3, OnlyTheEnd

LEMMA Begin_Pages ==
    ASSUME NEW t \in Threads, LatchInv, PageInv, Begin(t)
    PROVE  PageInv'
<1>1. KeepTable /\ KeepLatches /\ Asks(t) /\ plan' = plan
  BY DEF Begin
<1> DEFINE Starts(o) == th' = [th EXCEPT ![t] = [Idle EXCEPT !.pc = "root_id", !.op = o.op, !.key = o.key]]
<1>2. PICK o \in Operations : Starts(o) /\ script' \in Seq(Operations)
  <2>1. script \in Seq(Operations) /\ plan \in Plans
    BY DEF PageInv, PlanOK
  <2>2. CASE script # <<>> /\ Starts(Head(script)) /\ script' = Tail(script)
    <3>1. Head(script) \in Operations /\ Tail(script) \in Seq(Operations)
      BY <2>1, <2>2
    <3> QED
      BY <2>2, <3>1
  <2>3. CASE script' = script /\ \E o \in Menu[plan][t] : Starts(o)
    BY <2>1, <2>3, PlanAssumption
  <2> QED
    BY <2>2, <2>3, Zenon DEF Begin
<1>3. /\ th'[t].pc = "root_id" /\ th'[t].op = o.op /\ th'[t].key = o.key
      /\ th'[t].seen = <<>> /\ th'[t].stack = <<>>
      /\ \A u \in Threads \ {t} : th'[u] = th[u]
  BY <1>2 DEF LatchInv, Idle
<1>4. Asked(th[t])'
  <2>1. /\ o.op \in Calls
        /\ o.op \in {"insert", "delete", "get"} => o.key \in Key
        /\ o.op = "scan" => o.key \in Key \cup {Nil}
        /\ o.op = "vacuum" => o.key = Nil
    BY DEF Operations, Op, Calls
  <2>2. th'[t].seen \in Seq(Key)
    BY <1>3
  <2> QED
    BY <1>3, <2>1, <2>2 DEF Asked
<1>5. PathOK(th[t])' /\ PageOK(th[t])'
  <2>1. DOMAIN <<>> = {}
    OBVIOUS
  <2> QED
    BY <1>3, <2>1 DEF PathOK, PageOK
<1>6. CallOK(th[t])'
  BY <1>3, <1>4, <1>5, OnTheWay
<1>7. TableOK' /\ Used \subseteq Used' /\ AnswersOK' /\ HandsKept
  <2>1. AnswersOK'
    BY <1>1, AnswerForgotten DEF PageInv
  <2> QED
    BY <1>1, <2>1, TableStays, TableKept DEF PageInv
<1>8. PlanOK'
  BY <1>1, <1>2 DEF PlanOK, PageInv
<1> QED
  BY <1>1, <1>3, <1>6, <1>7, <1>8, CallWentOn

(* The last page of the scan is read; vacuum's tree is built in memory.       *)
LEMMA VacuumBuilds_Pages ==
    ASSUME NEW t \in Threads, LatchInv, PageInv, VacuumBuilds(t)
    PROVE  PageInv'
<1>1. KeepTable /\ KeepPlan /\ th[t].pc = "scanned"
  BY DEF VacuumBuilds
<1>2. CASE (Return(t) /\ Silent) \/ Panics(t)
  <2>1. Silent /\ (Return(t) \/ Panics(t))
    BY <1>2 DEF Panics
  <2> QED
    BY <1>1, <2>1, OnlyTheEnd, PlanKept, AnswerKept DEF PageInv
<1>3. CASE /\ th[t].seen # <<>> /\ Loads(th[t].seen) /\ Silent
           /\ th' = [th EXCEPT ![t].pc = "swap"] /\ Latch(t, {}, AllPages)
  <2>1. /\ th'[t].pc = "swap"
        /\ th'[t].op = th[t].op /\ th'[t].key = th[t].key /\ th'[t].seen = th[t].seen
        /\ th'[t].stack = th[t].stack /\ \A u \in Threads \ {t} : th'[u] = th[u]
    BY <1>3 DEF LatchInv, CallShape, Fields
  <2>2. Asked(th[t])' /\ PathOK(th[t])'
    BY <1>1, <2>1, AskedStays, PathKept DEF KeepTable
  <2>3. PageOK(th[t])' /\ SplitOK(th[t])' /\ JoinOK(th[t])'
    BY <2>1 DEF PageOK, SplitOK, JoinOK
  <2>4. SwapOK(th[t])'
    BY <1>3, <2>1 DEF SwapOK
  <2>5. CallOK(th[t])'
    BY <2>2, <2>3, <2>4 DEF CallOK
  <2> QED
    BY <1>1, <1>3, <2>1, <2>5, OnlyTheCall
<1> QED
  BY <1>2, <1>3 DEF VacuumBuilds

(* swap_file replaces all pages when nobody has one.                          *)
LEMMA SwapFile_Pages ==
    ASSUME NEW t \in Threads, LatchInv, PageInv, SwapFile(t)
    PROVE  PageInv'
<1> DEFINE rows == th[t].seen
           new == bulk_load(rows)
           n == Len(new.pages)
<1>1. /\ Return(t) /\ Silent /\ KeepPlan /\ n <= MaxPages /\ th[t].pc = "swap"
      /\ pages' = [p \in PageNums |-> IF p \in DOMAIN new.pages THEN new.pages[p] ELSE free(Nil)]
      /\ meta' = [root |-> new.root, page_count |-> n + 1, free_list_head |-> Nil]
      /\ \A u \in Threads : InHand(u) = {}
  BY DEF SwapFile, HoldsGuard, LatchInv, InHand, Has
<1>2. rows \in Seq(Key) /\ rows # <<>> /\ Loads(rows)
  BY <1>1 DEF PageInv, CallOK, Asked, SwapOK
<1>3. /\ n \in Nat \ {0} /\ DOMAIN new.pages = 1 .. n /\ new.root \in 1 .. n
      /\ \A i \in 1 .. n : /\ GoodPage(new.pages[i]) /\ ~is_free(new.pages[i])
                           /\ Links(new.pages[i]) \subseteq 1 .. n
  BY <1>2, BulkLoadMakesPages
<1> HIDE DEF new, rows
<1>4. 1 .. n \subseteq PageNums /\ n + 1 \in 2 .. MaxPages + 1 /\ (n + 1) - 1 = n
  BY <1>1, <1>3, PageNumbers DEF PageNums
<1>5. ASSUME NEW p \in PageNums PROVE InPlace(pages'[p], p, n + 1)
  <2>1. CASE p \in 1 .. n
    <3>1. pages'[p] = new.pages[p]
      BY <1>1, <1>3, <2>1
    <3> QED
      BY <1>3, <1>4, <2>1, <3>1 DEF InPlace
  <2>2. CASE p \notin 1 .. n
    <3>1. pages'[p] = free(Nil)
      BY <1>1, <1>3, <2>2
    <3> QED
      BY <3>1, FreePage DEF InPlace
  <2> QED
    BY <2>1, <2>2
<1>6. TableOK'
  BY <1>1, <1>3, <1>4, <1>5 DEF TableOK
<1>7. HandsKept
  BY <1>1 DEF HandsKept
<1> QED
  BY <1>1, <1>6, <1>7, CallEnded, PlanKept, AnswerKept DEF PageInv

-----------------------------------------------------------------------------
(* Changes to pages in the file.                                              *)

LEMMA PagesChange ==
    ASSUME TableOK, meta' = meta,
           \A p \in PageNums : pages'[p] = pages[p] \/ InPlace(pages'[p], p, meta.page_count)
    PROVE  TableOK' /\ Used \subseteq Used'
<1>1. /\ meta' \in [root : PageNums, page_count : 2 .. MaxPages + 1, free_list_head : PageNums \cup {Nil}]
      /\ meta'.free_list_head \in Used' \cup {Nil}
      /\ meta.page_count <= meta'.page_count
      /\ \A p \in PageNums : pages'[p] = pages[p] \/ InPlace(pages'[p], p, meta'.page_count)
  BY ThreadAssumption DEF TableOK, Used
<1> QED
  BY <1>1, TableChanges

LEMMA OneChanges ==
    ASSUME LatchInv, PageInv, meta' = meta, NEW p \in PageNums, NEW q,
           pages' = [pages EXCEPT ![p] = q], InPlace(q, p, meta.page_count)
    PROVE  TableOK' /\ Used \subseteq Used' /\ \A r \in PageNums \ {p} : pages'[r] = pages[r]
<1>1. DOMAIN pages = PageNums /\ TableOK
  BY DEF LatchInv, PageInv
<1>2. pages'[p] = q /\ \A r \in PageNums \ {p} : pages'[r] = pages[r]
  BY <1>1
<1>3. \A r \in PageNums : pages'[r] = pages[r] \/ InPlace(pages'[r], r, meta.page_count)
  BY <1>2
<1>4. TableOK' /\ Used \subseteq Used'
  BY <1>1, <1>3, PagesChange
<1> QED
  BY <1>2, <1>4

LEMMA TreePageInPlace ==
    ASSUME NEW p \in Used, NEW q, GoodPage(q), is_leaf(q) \/ is_internal(q), Links(q) \subseteq PageNums
    PROVE  InPlace(q, p, meta.page_count)
BY DEF InPlace, Used, is_free, is_leaf, is_internal

LEMMA FreePageInPlace ==
    ASSUME TableOK, NEW next \in Used \cup {Nil}, NEW p
    PROVE  InPlace(free(next), p, meta.page_count)
<1>1. Used \subseteq PageNums /\ PageNums \subseteq Nat /\ Used = 1 .. meta.page_count - 1
  BY TableIs, PageNumbers DEF Used
<1>2. /\ GoodPage(free(next)) /\ is_free(free(next))
      /\ Links(free(next)) = {next} \ {Nil}
  BY <1>1, FreePage
<1> QED
  BY <1>1, <1>2 DEF InPlace

(* A row more, or one less, in a leaf of the table.                           *)
LEMMA RowsInPlace ==
    ASSUME PageInv, NEW p \in PageNums, NEW k \in Key
    PROVE  /\ TakesRow(pages[p], k) => InPlace(leaf_insert(pages[p], k), p, meta.page_count)
           /\ is_leaf(pages[p]) => InPlace(leaf_remove(pages[p], k), p, meta.page_count)
<1> DEFINE pg == pages[p]
<1>1. GoodPage(pg) /\ Links(pg) \subseteq PageNums /\ (~is_free(pg) => p \in Used)
  BY TableIs DEF PageInv
<1> HIDE DEF pg
<1>2. ASSUME NEW q, GoodPage(q), is_leaf(q), q.next = pg.next, q.prev = pg.prev, is_leaf(pg)
      PROVE  InPlace(q, p, meta.page_count)
  <2>1. Links(q) = Links(pg)
    BY <1>2 DEF Links, is_leaf, is_internal
  <2>2. p \in Used
    BY <1>1, <1>2 DEF is_leaf, is_free
  <2> QED
    BY <1>1, <1>2, <2>1, <2>2, TreePageInPlace
<1>3. TakesRow(pg, k) => InPlace(leaf_insert(pg, k), p, meta.page_count)
  <2>1. TakesRow(pg, k) => is_leaf(pg)
    BY DEF TakesRow, can_insert
  <2> QED
    BY <1>1, <1>2, <2>1, RowInserted
<1>4. is_leaf(pg) => InPlace(leaf_remove(pg, k), p, meta.page_count)
  BY <1>1, <1>2, RowRemoved
<1> QED
  BY <1>3, <1>4 DEF pg

(* A leaf with another left neighbour.                                        *)
LEMMA PrevInPlace ==
    ASSUME PageInv, NEW p \in PageNums, is_leaf(pages[p]), NEW to \in PageNums
    PROVE  InPlace([pages[p] EXCEPT !.prev = to], p, meta.page_count)
<1> DEFINE pg == pages[p]
           q == [pg EXCEPT !.prev = to]
<1>1. GoodPage(pg) /\ Links(pg) \subseteq PageNums /\ (~is_free(pg) => p \in Used)
  BY TableIs DEF PageInv
<1>2. /\ IsLeafPage(pg) /\ IsPage(pg) /\ is_leaf(pg) /\ ~is_free(pg)
      /\ Increasing(pg.keys) /\ free_space(pg) >= 0
  BY <1>1, GoodPages DEF is_leaf, is_free
<1> HIDE DEF pg
<1>3. /\ q = leaf(pg.keys, pg.next, to) /\ q.keys = pg.keys /\ q.next = pg.next /\ q.prev = to
      /\ is_leaf(q)
  BY <1>2 DEF IsLeafPage, leaf, is_leaf
<1> HIDE DEF q
<1>4. IsLeafPage(q) /\ IsPage(q)
  BY <1>2, <1>3, PageNumbers DEF IsLeafPage, IsPage
<1>5. free_space(q) >= 0
  <2>1. /\ free_space(q) = free_space(pg) + Bytes(pg, pg.keys) - Bytes(pg, q.keys)
        /\ free_space(pg) \in Int /\ Bytes(pg, pg.keys) \in Nat
    BY <1>2, <1>3, <1>4, FreeAfter
  <2> QED
    BY <1>2, <1>3, <2>1
<1>6. GoodPage(q)
  BY <1>2, <1>3, <1>4, <1>5, Checked
<1>7. Links(q) \subseteq PageNums
  BY <1>1, <1>2, <1>3 DEF Links, is_leaf, is_internal
<1> QED
  BY <1>1, <1>2, <1>3, <1>6, <1>7, TreePageInPlace DEF q, pg

(* A new root above two pages.                                                *)
LEMMA RootInPlace ==
    ASSUME NEW p \in Used, NEW sep \in Key, NEW left \in PageNums, NEW right \in PageNums
    PROVE  InPlace(internal(<<sep>>, <<left, right>>), p, meta.page_count)
<1> DEFINE keys == <<sep>>
           ch == <<left, right>>
           q == internal(keys, ch)
<1>1. keys \in Seq(Key) /\ ch \in Seq(PageNums) /\ Len(ch) = Len(keys) + 1
  OBVIOUS
<1>2. Increasing(keys)
  BY DEF Increasing
<1>3. \A x : is_leaf(x) \/ is_internal(x) => Bytes(x, keys) = EntrySize(x, sep)
  BY BytesOfOne
<1> HIDE DEF keys, ch, q
<1>4. /\ IsPage(q) /\ is_internal(q) /\ ~is_leaf(q) /\ Links(q) \subseteq PageNums
      /\ q.keys = keys /\ USABLE(q) = INTERNAL_USABLE
  BY <1>1, PageNumbers, InternalMade DEF q
<1>5. free_space(q) = USABLE(q) - KeySize[sep]
  BY <1>3, <1>4, PageFits DEF EntrySize
<1>6. free_space(q) >= 0
  BY <1>4, <1>5, Usable
<1>7. GoodPage(q)
  BY <1>2, <1>4, <1>6, Checked
<1> QED
  BY <1>4, <1>7, TreePageInPlace DEF q, keys, ch

(* A full page split: both halves.                                            *)
LEMMA SplitInPlace ==
    ASSUME PageInv, NEW p \in PageNums, IsFull(pages[p]), NEW new \in Used
    PROVE  LET s == split_page(pages[p], p, new)
           IN /\ InPlace(s.left, p, meta.page_count) /\ InPlace(s.right, new, meta.page_count)
              /\ s.sep \in Key /\ GoodPage(s.left) /\ GoodPage(s.right)
              /\ is_leaf(pages[p]) => s.right.next \in PageNums \cup {Nil}
              /\ is_internal(pages[p]) => is_internal(s.left) /\ is_internal(s.right)
              /\ Links(s.left) \subseteq PageNums /\ Links(s.right) \subseteq PageNums
              /\ p \in Used
<1> DEFINE pg == pages[p]
           s == split_page(pg, p, new)
<1>1. /\ GoodPage(pg) /\ Links(pg) \subseteq PageNums /\ (~is_free(pg) => p \in Used)
      /\ new \in PageNums
  BY TableIs DEF PageInv
<1>2. ~is_free(pg) /\ (is_leaf(pg) \/ is_internal(pg))
  BY DEF IsFull, is_leaf, is_internal, is_free
<1> HIDE DEF pg
<1>3. /\ GoodPage(s.left) /\ GoodPage(s.right) /\ s.sep \in Key
      /\ is_leaf(pg) => is_leaf(s.left) /\ is_leaf(s.right)
      /\ is_internal(pg) => is_internal(s.left) /\ is_internal(s.right)
      /\ LinksOf(s) \subseteq Links(pg) \cup {p, new}
      /\ is_leaf(pg) => s.right.next = pg.next
  <2>1. IsFull(pg) /\ p \in Nat /\ new \in Nat
    BY <1>1, PageNumbers DEF pg
  <2> QED
    BY <1>1, <2>1, SplitKeepsPages
<1> HIDE DEF s
<1>4. Links(s.left) \subseteq PageNums /\ Links(s.right) \subseteq PageNums
  BY <1>1, <1>3 DEF LinksOf
<1>5. InPlace(s.left, p, meta.page_count) /\ InPlace(s.right, new, meta.page_count)
  BY <1>1, <1>2, <1>3, <1>4, TreePageInPlace
<1>6. is_leaf(pg) => s.right.next \in PageNums \cup {Nil}
  BY <1>1, <1>3 DEF Links, is_leaf, is_internal
<1> QED
  BY <1>1, <1>2, <1>3, <1>4, <1>5, <1>6 DEF s, pg

-----------------------------------------------------------------------------
(* The steps of an insert.                                                    *)

LEMMA InsertFits_Pages ==
    ASSUME NEW t \in Threads, LatchInv, PageInv, HandsKept, InsertFits(t)
    PROVE  PageInv'
<1> DEFINE p == th[t].page
           k == th[t].key
           q == leaf_insert(pages[p], k)
<1>1. /\ th[t].pc = "at" /\ th[t].op = "insert" /\ TakesRow(pages[p], k)
      /\ pages' = [pages EXCEPT ![p] = q] /\ meta' = meta
      /\ Says(t, "ok") /\ Return(t) /\ KeepPlan
  BY DEF InsertFits, AtLeaf
<1>2. p \in PageNums /\ k \in Key
  BY <1>1 DEF PageInv, CallOK, Asked, PageOK
<1>3. InPlace(q, p, meta.page_count)
  BY <1>1, <1>2, RowsInPlace
<1> HIDE DEF p, k, q
<1>4. TableOK' /\ Used \subseteq Used'
  BY <1>1, <1>2, <1>3, OneChanges
<1>5. AnswersOK'
  BY <1>1, AnswerGiven DEF Results
<1> QED
  BY <1>1, <1>4, <1>5, CallEnded, PlanKept DEF PageInv

LEMMA InsertSplits_Pages ==
    ASSUME NEW t \in Threads, LatchInv, PageInv, InsertSplits(t)
    PROVE  PageInv'
<1>1. /\ th[t].pc = "at" /\ th'[t].pc = "alloc" /\ th'[t].why = "leaf"
      /\ th'[t].op = th[t].op /\ th'[t].key = th[t].key /\ th'[t].seen = th[t].seen
      /\ th'[t].stack = th[t].stack /\ th'[t].page = th[t].page
      /\ \A u \in Threads \ {t} : th'[u] = th[u]
      /\ is_leaf(pages[th[t].page]) /\ ~can_insert(pages[th[t].page], th[t].key)
  BY DEF InsertSplits, AtLeaf, LatchInv, CallShape, Fields
<1>2. KeepTable /\ pages' = pages /\ th[t].page \in PageNums
  BY <1>1 DEF InsertSplits, KeepTable, PageInv, CallOK, PageOK
<1>3. Asked(th[t])' /\ PathOK(th[t])'
  BY <1>1, <1>2, AskedStays, PathKept
<1>4. SplitOK(th[t])'
  BY <1>1, <1>2 DEF SplitOK, FullOK
<1>5. PageOK(th[t])' /\ JoinOK(th[t])' /\ SwapOK(th[t])'
  BY <1>1 DEF PageOK, JoinOK, SwapOK
<1>6. CallOK(th[t])'
  BY <1>3, <1>4, <1>5 DEF CallOK
<1> QED
  BY <1>1, <1>6, OnlyTheCall DEF InsertSplits

(* What is full stays so while a page is allocated for its other half.        *)
LEMMA FullStays ==
    ASSUME NEW t \in Threads, FullOK(th[t]),
           th'[t].op = th[t].op, th'[t].key = th[t].key, th'[t].why = th[t].why,
           th'[t].page = th[t].page, th'[t].parent = th[t].parent, th'[t].left = th[t].left,
           th'[t].right = th[t].right, th'[t].sep = th[t].sep,
           \A p \in PageNums \cap Splitting(t) : pages'[p] = pages[p]
    PROVE  FullOK(th[t])'
<1>1. /\ th[t].why = "leaf" /\ th[t].page \in PageNums => pages'[th[t].page] = pages[th[t].page]
      /\ th[t].why = "internal" /\ th[t].parent \in PageNums => pages'[th[t].parent] = pages[th[t].parent]
  BY DEF Splitting
<1> QED
  BY <1>1 DEF FullOK, HalvesOK

LEMMA AllocNew_Pages ==
    ASSUME NEW t \in Threads, LatchInv, PageInv, HandsKept, AllocNew(t)
    PROVE  PageInv'
<1> DEFINE new == meta.page_count
<1>1. /\ th[t].pc = "alloc" /\ th'[t].pc = "fresh" /\ th'[t].fresh = new
      /\ th'[t].op = th[t].op /\ th'[t].key = th[t].key /\ th'[t].seen = th[t].seen
      /\ th'[t].stack = th[t].stack /\ th'[t].why = th[t].why
      /\ th'[t].page = th[t].page /\ th'[t].parent = th[t].parent /\ th'[t].left = th[t].left
      /\ th'[t].right = th[t].right /\ th'[t].sep = th[t].sep
      /\ \A u \in Threads \ {t} : th'[u] = th[u]
      /\ Latch(t, {new}, {}) /\ CanWrite(new) /\ new <= MaxPages /\ meta.free_list_head = Nil
      /\ pages' = [pages EXCEPT ![new] = free(Nil)]
      /\ meta' = [meta EXCEPT !.page_count = @ + 1]
      /\ Silent /\ KeepPlan
  BY DEF AllocNew, LatchInv, CallShape, Fields
<1>2. /\ new \in PageNums /\ new + 1 \in 2 .. MaxPages + 1 /\ new <= new + 1
      /\ new \in 1 .. (new + 1) - 1
  BY <1>1, ThreadAssumption, TableIs DEF PageInv, PageNums
<1>3. /\ meta'.page_count = new + 1 /\ meta'.free_list_head = Nil
      /\ meta' \in [root : PageNums, page_count : 2 .. MaxPages + 1, free_list_head : PageNums \cup {Nil}]
  <2> HIDE DEF new
  <2>1. meta \in [root : PageNums, page_count : 2 .. MaxPages + 1, free_list_head : PageNums \cup {Nil}]
    BY DEF PageInv, TableOK
  <2> QED
    BY <1>1, <1>2, <2>1 DEF new
<1> HIDE DEF new
<1>4. pages'[new] = free(Nil) /\ \A p \in PageNums \ {new} : pages'[p] = pages[p]
  BY <1>1, <1>2 DEF LatchInv
<1>5. TableOK' /\ Used \subseteq Used'
  <2>1. InPlace(free(Nil), new, meta'.page_count)
    BY FreePage DEF InPlace
  <2>2. \A p \in PageNums : pages'[p] = pages[p] \/ InPlace(pages'[p], p, meta'.page_count)
    BY <1>4, <2>1
  <2>3. meta.page_count <= meta'.page_count
    BY <1>2, <1>3 DEF new
  <2> QED
    BY <1>3, <2>2, <2>3, TableChanges DEF PageInv
<1>6. CallOK(th[t]) /\ Writes(t) /\ Working(t) = Splitting(t)
  BY <1>1 DEF PageInv, LatchInv, CallShape, OpFits, Writes, Working
<1>7. \A p \in PageNums \cap (Splitting(t) \cup StackPages(t)) : pages'[p] = pages[p]
  <2>1. new \in AllPages /\ new \notin InHand(t)
    BY <1>1, <1>2, <1>6, PageNumbers, HandsDisjoint
  <2> QED
    BY <1>4, <1>6, <2>1 DEF InHand
<1>8. Asked(th[t])' /\ PathOK(th[t])'
  BY <1>1, <1>7, AskedStays, PathKept
<1>9. SplitOK(th[t])'
  <2>1. FullOK(th[t])'
    BY <1>1, <1>6, <1>7, FullStays DEF CallOK, SplitOK
  <2>2. new \in Used'
    BY <1>2, <1>3 DEF Used
  <2> QED
    BY <1>1, <2>1, <2>2 DEF SplitOK
<1>10. PageOK(th[t])' /\ JoinOK(th[t])' /\ SwapOK(th[t])'
  BY <1>1 DEF PageOK, JoinOK, SwapOK
<1>11. CallOK(th[t])'
  BY <1>8, <1>9, <1>10 DEF CallOK
<1> QED
  BY <1>1, <1>5, <1>11, CallWentOn, PlanKept, AnswerKept DEF PageInv

LEMMA AllocHead_Pages ==
    ASSUME NEW t \in Threads, LatchInv, PageInv, AllocHead(t)
    PROVE  PageInv'
<1>1. /\ th[t].pc = "alloc" /\ th'[t].pc = "pop" /\ th'[t].fresh = meta.free_list_head
      /\ th'[t].op = th[t].op /\ th'[t].key = th[t].key /\ th'[t].seen = th[t].seen
      /\ th'[t].stack = th[t].stack /\ th'[t].why = th[t].why
      /\ th'[t].page = th[t].page /\ th'[t].parent = th[t].parent /\ th'[t].left = th[t].left
      /\ th'[t].right = th[t].right /\ th'[t].sep = th[t].sep
      /\ \A u \in Threads \ {t} : th'[u] = th[u]
      /\ meta.free_list_head # Nil
  BY DEF AllocHead, LatchInv, CallShape, Fields
<1>2. KeepTable /\ pages' = pages /\ CallOK(th[t]) /\ meta.free_list_head \in Used'
  BY <1>1, TableStays DEF AllocHead, KeepTable, PageInv, TableOK
<1>3. Asked(th[t])' /\ PathOK(th[t])'
  BY <1>1, <1>2, AskedStays, PathKept
<1>4. SplitOK(th[t])'
  <2>1. FullOK(th[t])'
    BY <1>1, <1>2, FullStays DEF CallOK, SplitOK
  <2> QED
    BY <1>1, <1>2, <2>1 DEF SplitOK
<1>5. PageOK(th[t])' /\ JoinOK(th[t])' /\ SwapOK(th[t])'
  BY <1>1 DEF PageOK, JoinOK, SwapOK
<1>6. CallOK(th[t])'
  BY <1>3, <1>4, <1>5 DEF CallOK
<1> QED
  BY <1>1, <1>6, OnlyTheCall DEF AllocHead

LEMMA AllocPop_Pages ==
    ASSUME NEW t \in Threads, LatchInv, PageInv, HandsKept, AllocPop(t)
    PROVE  PageInv'
<1> DEFINE head == th[t].fresh
<1>1. CASE ~is_free(pages[head])
  <2>1. Panics(t) /\ KeepTable /\ KeepPlan /\ Silent
    BY <1>1 DEF AllocPop, Panics
  <2> QED
    BY <2>1, OnlyTheEnd, PlanKept, AnswerKept DEF PageInv
<1>2. CASE is_free(pages[head])
  <2>1. /\ th[t].pc = "pop" /\ th'[t].pc = "fresh" /\ th'[t].fresh = head
        /\ th'[t].op = th[t].op /\ th'[t].key = th[t].key /\ th'[t].seen = th[t].seen
        /\ th'[t].stack = th[t].stack /\ th'[t].why = th[t].why
        /\ th'[t].page = th[t].page /\ th'[t].parent = th[t].parent /\ th'[t].left = th[t].left
        /\ th'[t].right = th[t].right /\ th'[t].sep = th[t].sep
        /\ \A u \in Threads \ {t} : th'[u] = th[u]
        /\ Latch(t, {head}, {Meta}) /\ CanWrite(head)
        /\ pages' = [pages EXCEPT ![head] = free(Nil)]
        /\ meta' = [meta EXCEPT !.free_list_head = pages[head].next]
        /\ Silent /\ KeepPlan
    BY <1>2 DEF AllocPop, AfterPop, LatchInv, CallShape, Fields
  <2> HIDE DEF head
  <2>2. CallOK(th[t]) /\ Writes(t) /\ Working(t) = Splitting(t) \cup {Meta} /\ head \in Used /\ head \in PageNums
    BY <2>1, TableIs DEF PageInv, LatchInv, CallShape, OpFits, Writes, Working, CallOK, SplitOK, head
  <2>3. pages[head].next \in Used \cup {Nil}
    <3>1. Links(pages[head]) \subseteq Used
      BY <1>2, <2>2, TableIs DEF PageInv
    <3> QED
      BY <1>2, <3>1 DEF Links, is_free, is_leaf, is_internal
  <2>4. pages'[head] = free(Nil) /\ \A p \in PageNums \ {head} : pages'[p] = pages[p]
    BY <2>1, <2>2 DEF LatchInv
  <2>5. TableOK' /\ Used \subseteq Used'
    <3>1. /\ meta' \in [root : PageNums, page_count : 2 .. MaxPages + 1, free_list_head : PageNums \cup {Nil}]
          /\ meta'.page_count = meta.page_count /\ meta'.free_list_head = pages[head].next
      BY <2>1, <2>3, TableIs DEF PageInv, TableOK
    <3>2. Used' = Used /\ meta.page_count \in Nat
      BY <3>1, TableIs DEF Used, PageInv
    <3>3. InPlace(free(Nil), head, meta'.page_count)
      BY FreePage DEF InPlace
    <3>4. \A p \in PageNums : pages'[p] = pages[p] \/ InPlace(pages'[p], p, meta'.page_count)
      BY <2>4, <3>3
    <3>5. meta.page_count <= meta'.page_count
      BY <3>1, <3>2
    <3> QED
      BY <2>3, <3>1, <3>2, <3>4, <3>5, TableChanges DEF PageInv
  <2>6. \A p \in PageNums \cap (Splitting(t) \cup StackPages(t)) : pages'[p] = pages[p]
    <3>1. head \in AllPages /\ head \notin InHand(t)
      BY <2>1, <2>2, PageNumbers, HandsDisjoint
    <3> QED
      BY <2>2, <2>4, <3>1 DEF InHand
  <2>7. Asked(th[t])' /\ PathOK(th[t])'
    BY <2>1, <2>6, AskedStays, PathKept
  <2>8. SplitOK(th[t])'
    <3>1. FullOK(th[t])'
      BY <2>1, <2>2, <2>6, FullStays DEF CallOK, SplitOK
    <3> QED
      BY <2>1, <2>2, <2>5, <3>1 DEF SplitOK
  <2>9. PageOK(th[t])' /\ JoinOK(th[t])' /\ SwapOK(th[t])'
    BY <2>1 DEF PageOK, JoinOK, SwapOK
  <2>10. CallOK(th[t])'
    BY <2>7, <2>8, <2>9 DEF CallOK
  <2> QED
    BY <2>1, <2>5, <2>10, CallWentOn, PlanKept, AnswerKept DEF PageInv
<1> QED
  BY <1>1, <1>2

LEMMA SplitLeaf_Pages ==
    ASSUME NEW t \in Threads, LatchInv, PageInv, HandsKept, SplitLeaf(t)
    PROVE  PageInv'
<1> DEFINE p == th[t].page
           new == th[t].fresh
           s == split_page(pages[p], p, new)
<1>0. /\ th[t].pc = "fresh" /\ th[t].why = "leaf"
      /\ pages' = [pages EXCEPT ![p] = s.left, ![new] = s.right]
      /\ th' = [th EXCEPT ![t].pc = IF s.right.next = Nil THEN "place" ELSE "relink",
                          ![t].next = s.right.next, ![t].left = p,
                          ![t].right = new, ![t].sep = s.sep]
      /\ meta' = meta /\ KeepLatches /\ Silent /\ KeepPlan
  BY Zenon DEF SplitLeaf
<1> HIDE DEF s
<1>1. /\ th[t].pc = "fresh" /\ th[t].why = "leaf"
      /\ th'[t].pc = IF s.right.next = Nil THEN "place" ELSE "relink"
      /\ th'[t].next = s.right.next /\ th'[t].left = p /\ th'[t].right = new /\ th'[t].sep = s.sep
      /\ th'[t].op = th[t].op /\ th'[t].key = th[t].key /\ th'[t].seen = th[t].seen
      /\ th'[t].stack = th[t].stack /\ \A u \in Threads \ {t} : th'[u] = th[u]
      /\ pages' = [pages EXCEPT ![p] = s.left, ![new] = s.right]
      /\ meta' = meta /\ KeepLatches /\ Silent /\ KeepPlan
  BY <1>0 DEF LatchInv, CallShape, Fields
<1>2. CallOK(th[t]) /\ CallShape(t) /\ Working(t) = {p, new}
  BY <1>1 DEF PageInv, LatchInv, Working, Splitting
<1>3. /\ p \in PageNums /\ new \in Used /\ new \in PageNums /\ is_leaf(pages[p])
      /\ IsFull(pages[p])
  <2>1. /\ p \in PageNums /\ new \in Used /\ is_leaf(pages[p]) /\ ~can_insert(pages[p], th[t].key)
    BY <1>1, <1>2 DEF CallOK, SplitOK, FullOK
  <2>2. th[t].key \in Key
    BY <1>1, <1>2 DEF CallOK, Asked, CallShape, OpFits
  <2> QED
    BY <2>1, <2>2, TableIs DEF IsFull, PageInv
<1>4. /\ InPlace(s.left, p, meta.page_count) /\ InPlace(s.right, new, meta.page_count)
      /\ s.sep \in Key /\ s.right.next \in PageNums \cup {Nil}
  BY <1>3, SplitInPlace DEF s
<1> HIDE DEF p, new
<1>5. \A q \in PageNums : \/ q \notin {p, new} /\ pages'[q] = pages[q]
                          \/ InPlace(pages'[q], q, meta.page_count)
  BY <1>1, <1>3, <1>4 DEF LatchInv
<1>6. TableOK' /\ Used \subseteq Used'
  BY <1>1, <1>5, PagesChange DEF PageInv
<1>7. \A q \in PageNums \cap StackPages(t) : pages'[q] = pages[q]
  <2>1. \A q \in PageNums \cap StackPages(t) : q \notin {p, new}
    BY <1>2, PageNumbers DEF CallShape, Apart
  <2>2. \A q \in PageNums \ {p, new} : pages'[q] = pages[q]
    BY <1>1, <1>3 DEF LatchInv
  <2> QED
    BY <2>1, <2>2
<1>8. Asked(th[t])' /\ PathOK(th[t])'
  BY <1>1, <1>7, AskedStays, PathKept
<1>9. SplitOK(th[t])'
  BY <1>1, <1>3, <1>4 DEF SplitOK, HalvesOK
<1>10. PageOK(th[t])'
  BY <1>1, <1>4 DEF PageOK
<1>11. JoinOK(th[t])' /\ SwapOK(th[t])'
  BY <1>1 DEF JoinOK, SwapOK
<1>12. CallOK(th[t])'
  BY <1>8, <1>9, <1>10, <1>11 DEF CallOK
<1> QED
  BY <1>1, <1>6, <1>12, CallWentOn, PlanKept, AnswerKept DEF PageInv

(* An error after changes were made: the call returns.                        *)
LEMMA Failing_Pages ==
    ASSUME NEW t \in Threads, LatchInv, PageInv, HandsKept, Fails(t), KeepPlan,
           th[t].op \in {"insert", "delete"}, TableOK', Used \subseteq Used'
    PROVE  PageInv'
<1>1. AnswersOK'
  <2>1. AnswersOK
    BY DEF PageInv
  <2>2. Says(t, "error")
    BY DEF Fails
  <2> QED
    BY <2>1, <2>2, AnswerGiven DEF Results
<1> QED
  BY <1>1, CallEnded, PlanKept DEF PageInv, Fails

LEMMA Relink_Pages ==
    ASSUME NEW t \in Threads, LatchInv, PageInv, HandsKept, Relink(t)
    PROVE  PageInv'
<1> DEFINE p == th[t].next
           q == [pages[p] EXCEPT !.prev = th[t].right]
<1>0. /\ th[t].pc = "relink" /\ CanWrite(p) /\ meta' = meta /\ KeepPlan
      /\ CallOK(th[t]) /\ CallShape(t) /\ th[t].op = "insert"
  BY DEF Relink, PageInv, LatchInv, CallShape, OpFits
<1>1. CASE ~is_leaf(pages[p])
  <2>1. Fails(t) /\ KeepTable
    BY <1>1 DEF Relink, KeepTable
  <2> QED
    BY <1>0, <2>1, Failing_Pages, TableStays DEF PageInv
<1>2. CASE is_leaf(pages[p])
  <2>1. /\ th'[t].pc = "place" /\ th'[t].left = th[t].left /\ th'[t].right = th[t].right
        /\ th'[t].sep = th[t].sep
        /\ th'[t].op = th[t].op /\ th'[t].key = th[t].key /\ th'[t].seen = th[t].seen
        /\ th'[t].stack = th[t].stack /\ \A u \in Threads \ {t} : th'[u] = th[u]
        /\ pages' = WithPrev(p, th[t].right)
        /\ KeepLatches /\ Silent
    BY <1>2 DEF Relink, LatchInv, CallShape, Fields
  <2>2. p \in PageNums /\ HalvesOK(th[t])
    BY <1>0 DEF CallOK, PageOK, SplitOK
  <2>3. pages' = [pages EXCEPT ![p] = q]
    BY <2>1, <2>2 DEF LatchInv, WithPrev
  <2>4. InPlace(q, p, meta.page_count)
    BY <1>2, <2>2, PrevInPlace DEF HalvesOK
  <2> HIDE DEF p, q
  <2>5. TableOK' /\ Used \subseteq Used' /\ \A r \in PageNums \ {p} : pages'[r] = pages[r]
    BY <1>0, <2>2, <2>3, <2>4, OneChanges
  <2>6. \A r \in PageNums \cap StackPages(t) : pages'[r] = pages[r]
    <3>1. p \notin InHand(t)
      BY <1>0, <2>2, PageNumbers, HandsDisjoint DEF Writes
    <3> QED
      BY <2>2, <2>5, <3>1, PageNumbers DEF InHand
  <2>7. Asked(th[t])' /\ PathOK(th[t])'
    BY <1>0, <2>1, <2>6, AskedStays, PathKept
  <2>8. SplitOK(th[t])'
    BY <2>1, <2>2 DEF SplitOK, HalvesOK
  <2>9. PageOK(th[t])' /\ JoinOK(th[t])' /\ SwapOK(th[t])'
    BY <2>1 DEF PageOK, JoinOK, SwapOK
  <2>10. CallOK(th[t])'
    BY <2>7, <2>8, <2>9 DEF CallOK
  <2> QED
    BY <1>0, <2>1, <2>5, <2>10, CallWentOn, PlanKept, AnswerKept DEF PageInv
<1> QED
  BY <1>1, <1>2

LEMMA Place_Pages ==
    ASSUME NEW t \in Threads, LatchInv, PageInv, HandsKept, Place(t)
    PROVE  PageInv'
<1> DEFINE k == th[t].key
           home == IF GoesLeft(k, th[t].sep) THEN th[t].left ELSE th[t].right
           q == leaf_insert(pages[home], k)
<1>0. /\ th[t].pc = "place" /\ meta' = meta /\ KeepPlan
      /\ CallOK(th[t]) /\ CallShape(t) /\ th[t].op = "insert"
  BY DEF Place, PageInv, LatchInv, CallShape, OpFits
<1>1. /\ home \in PageNums /\ k \in Key /\ HalvesOK(th[t]) /\ home \in Working(t)
  BY <1>0 DEF CallOK, SplitOK, HalvesOK, Asked, Working
<1>2. CASE ~TakesRow(pages[home], k)
  <2>1. Fails(t) /\ KeepTable
    BY <1>2 DEF Place, KeepTable
  <2> QED
    BY <1>0, <2>1, Failing_Pages, TableStays DEF PageInv
<1>3. CASE TakesRow(pages[home], k)
  <2>1. /\ th'[t].pc = "up" /\ th'[t].left = th[t].left /\ th'[t].right = th[t].right
        /\ th'[t].sep = th[t].sep
        /\ th'[t].op = th[t].op /\ th'[t].key = th[t].key /\ th'[t].seen = th[t].seen
        /\ th'[t].stack = th[t].stack /\ \A u \in Threads \ {t} : th'[u] = th[u]
        /\ pages' = [pages EXCEPT ![home] = q]
        /\ Says(t, "ok") /\ KeepLatches
    BY <1>3 DEF Place, LatchInv, CallShape, Fields
  <2>2. InPlace(q, home, meta.page_count)
    BY <1>1, <1>3, RowsInPlace
  <2> HIDE DEF home, q, k
  <2>3. TableOK' /\ Used \subseteq Used' /\ \A r \in PageNums \ {home} : pages'[r] = pages[r]
    BY <1>0, <1>1, <2>1, <2>2, OneChanges
  <2>4. \A r \in PageNums \cap StackPages(t) : pages'[r] = pages[r]
    BY <1>0, <1>1, <2>3, PageNumbers DEF CallShape, Apart
  <2>5. Asked(th[t])' /\ PathOK(th[t])'
    BY <1>0, <2>1, <2>4, AskedStays, PathKept
  <2>6. SplitOK(th[t])'
    BY <1>1, <2>1 DEF SplitOK, HalvesOK
  <2>7. PageOK(th[t])' /\ JoinOK(th[t])' /\ SwapOK(th[t])'
    BY <2>1 DEF PageOK, JoinOK, SwapOK
  <2>8. CallOK(th[t])'
    BY <2>5, <2>6, <2>7 DEF CallOK
  <2>9. AnswersOK'
    BY <1>0, <2>1, AnswerGiven DEF Results
  <2> QED
    BY <1>0, <2>1, <2>3, <2>8, <2>9, CallWentOn, PlanKept DEF PageInv
<1> QED
  BY <1>2, <1>3

(* The page on top of the path, and the rest of it.                           *)
LEMMA TopOfPath ==
    ASSUME NEW t \in Threads, LatchInv, PageInv, th[t].stack # <<>>
    PROVE  /\ Top(t).page \in PageNums /\ is_internal(pages[Top(t).page]) /\ Top(t).page \in Used
           /\ Top(t).idx \in 0 .. Len(pages[Top(t).page].keys)
           /\ GoodPage(pages[Top(t).page]) /\ Links(pages[Top(t).page]) \subseteq PageNums
           /\ Top(t).page \in StackPages(t)
           /\ \A i \in DOMAIN Popped(t) :
                 /\ Popped(t)[i].page \in PageNums /\ is_internal(pages[Popped(t)[i].page])
                 /\ Popped(t)[i].idx \in 0 .. Len(pages[Popped(t)[i].page].keys)
<1> DEFINE s == th[t].stack
<1>1. IsPath(s) /\ PathOK(th[t])
  BY DEF LatchInv, CallShape, PageInv, CallOK
<1>2. /\ Len(s) \in DOMAIN s
      /\ \A i \in DOMAIN Popped(t) : \E j \in DOMAIN s : Popped(t)[i] = s[j]
  BY <1>1, CutOff DEF Popped
<1>3. \A j \in DOMAIN s : /\ s[j].page \in PageNums /\ is_internal(pages[s[j].page])
                          /\ s[j].idx \in 0 .. Len(pages[s[j].page].keys)
  BY <1>1 DEF PathOK
<1>4. Top(t) = s[Len(s)]
  BY DEF Top
<1>5. /\ Top(t).page \in PageNums /\ is_internal(pages[Top(t).page])
      /\ Top(t).idx \in 0 .. Len(pages[Top(t).page].keys) /\ Top(t).page \in StackPages(t)
  BY <1>2, <1>3, <1>4 DEF StackPages
<1>6. ASSUME NEW i \in DOMAIN Popped(t)
      PROVE  /\ Popped(t)[i].page \in PageNums /\ is_internal(pages[Popped(t)[i].page])
             /\ Popped(t)[i].idx \in 0 .. Len(pages[Popped(t)[i].page].keys)
  <2>1. PICK j \in DOMAIN s : Popped(t)[i] = s[j]
    BY <1>2
  <2> QED
    BY <1>3, <2>1
<1>7. /\ GoodPage(pages[Top(t).page]) /\ Links(pages[Top(t).page]) \subseteq PageNums
      /\ Top(t).page \in Used
  BY <1>5, TableIs DEF PageInv, is_internal, is_free
<1> QED
  BY <1>5, <1>6, <1>7

(* A separator more in an internal page of the table.                         *)
LEMMA SeparatorInPlace ==
    ASSUME NEW pg, GoodPage(pg), Links(pg) \subseteq PageNums, NEW p \in Used,
           NEW sep \in Key, TakesSeparator(pg, sep), NEW right \in PageNums
    PROVE  LET q == internal_insert(pg, sep, right)
           IN InPlace(q, p, meta.page_count) /\ is_internal(q)
<1> DEFINE q == internal_insert(pg, sep, right)
<1>1. right \in Nat
  BY PageNumbers
<1>2. GoodPage(q) /\ is_internal(q) /\ Links(q) \subseteq Links(pg) \cup {right}
  BY <1>1, SeparatorInserted
<1> HIDE DEF q
<1>3. Links(q) \subseteq PageNums
  BY <1>2
<1>4. InPlace(q, p, meta.page_count)
  BY <1>2, <1>3, TreePageInPlace
<1> QED
  BY <1>2, <1>4 DEF q

LEMMA InsertSeparator_Pages ==
    ASSUME NEW t \in Threads, LatchInv, PageInv, HandsKept, InsertSeparator(t)
    PROVE  PageInv'
<1> DEFINE p == Top(t).page
           sep == th[t].sep
           right == th[t].right
           q == internal_insert(pages[p], sep, right)
<1>0. /\ th[t].pc = "up" /\ th[t].stack # <<>> /\ meta' = meta /\ KeepPlan
      /\ CallOK(th[t]) /\ th[t].op = "insert"
  BY Zenon DEF InsertSeparator, PageInv, LatchInv, CallShape, OpFits
<1>1. /\ p \in PageNums /\ p \in Used /\ GoodPage(pages[p]) /\ Links(pages[p]) \subseteq PageNums
      /\ sep \in Key /\ right \in PageNums
  BY <1>0, TopOfPath DEF CallOK, SplitOK, HalvesOK
<1>2. CASE ~TakesSeparator(pages[p], sep)
  <2>1. Fails(t) /\ KeepTable
    BY <1>2 DEF InsertSeparator, KeepTable
  <2> QED
    BY <1>0, <2>1, Failing_Pages, TableStays DEF PageInv
<1>3. CASE TakesSeparator(pages[p], sep)
  <2>1. pages' = [pages EXCEPT ![p] = q] /\ Return(t) /\ Silent
    BY <1>3 DEF InsertSeparator
  <2>2. InPlace(q, p, meta.page_count)
    BY <1>1, <1>3, SeparatorInPlace
  <2> HIDE DEF p, q
  <2>3. TableOK' /\ Used \subseteq Used'
    BY <1>0, <1>1, <2>1, <2>2, OneChanges
  <2> QED
    BY <1>0, <2>1, <2>3, CallEnded, PlanKept, AnswerKept DEF PageInv
<1> QED
  BY <1>2, <1>3

LEMMA ParentFull_Pages ==
    ASSUME NEW t \in Threads, LatchInv, PageInv, ParentFull(t)
    PROVE  PageInv'
<1>1. /\ th[t].pc = "up" /\ th'[t].pc = "alloc" /\ th'[t].why = "internal"
      /\ th'[t].parent = Top(t).page /\ th'[t].stack = Popped(t)
      /\ th'[t].left = th[t].left /\ th'[t].right = th[t].right /\ th'[t].sep = th[t].sep
      /\ th'[t].op = th[t].op /\ th'[t].key = th[t].key /\ th'[t].seen = th[t].seen
      /\ \A u \in Threads \ {t} : th'[u] = th[u]
      /\ th[t].stack # <<>> /\ ~can_insert_separator(pages[Top(t).page], th[t].sep)
  BY DEF ParentFull, LatchInv, CallShape, Fields
<1>2. KeepTable /\ pages' = pages /\ CallOK(th[t])
  BY DEF ParentFull, KeepTable, PageInv
<1>3. PathOK(th[t])'
  BY <1>1, <1>2, TopOfPath DEF PathOK
<1>4. Asked(th[t])'
  BY <1>1, AskedStays
<1>5. SplitOK(th[t])'
  <2>1. HalvesOK(th[t])
    BY <1>1, <1>2 DEF CallOK, SplitOK
  <2>2. FullOK(th[t])'
    BY <1>1, <1>2, <2>1, TopOfPath DEF FullOK, HalvesOK
  <2> QED
    BY <1>1, <2>2 DEF SplitOK
<1>6. PageOK(th[t])' /\ JoinOK(th[t])' /\ SwapOK(th[t])'
  BY <1>1 DEF PageOK, JoinOK, SwapOK
<1>7. CallOK(th[t])'
  BY <1>3, <1>4, <1>5, <1>6 DEF CallOK
<1> QED
  BY <1>1, <1>7, OnlyTheCall DEF ParentFull

LEMMA NoParent_Pages ==
    ASSUME NEW t \in Threads, LatchInv, PageInv, NoParent(t)
    PROVE  PageInv'
<1>1. /\ th[t].pc = "up" /\ th'[t].pc = "alloc" /\ th'[t].why = "root"
      /\ th'[t].left = th[t].left /\ th'[t].right = th[t].right /\ th'[t].sep = th[t].sep
      /\ th'[t].op = th[t].op /\ th'[t].key = th[t].key /\ th'[t].seen = th[t].seen
      /\ th'[t].stack = th[t].stack /\ \A u \in Threads \ {t} : th'[u] = th[u]
  BY DEF NoParent, LatchInv, CallShape, Fields
<1>2. KeepTable /\ pages' = pages /\ CallOK(th[t])
  BY DEF NoParent, KeepTable, PageInv
<1>3. Asked(th[t])' /\ PathOK(th[t])'
  BY <1>1, <1>2, AskedStays, PathKept
<1>4. SplitOK(th[t])'
  BY <1>1, <1>2 DEF CallOK, SplitOK, FullOK, HalvesOK
<1>5. PageOK(th[t])' /\ JoinOK(th[t])' /\ SwapOK(th[t])'
  BY <1>1 DEF PageOK, JoinOK, SwapOK
<1>6. CallOK(th[t])'
  BY <1>3, <1>4, <1>5 DEF CallOK
<1> QED
  BY <1>1, <1>6, OnlyTheCall DEF NoParent

LEMMA SplitInternal_Pages ==
    ASSUME NEW t \in Threads, LatchInv, PageInv, HandsKept, SplitInternal(t)
    PROVE  PageInv'
<1> DEFINE p == th[t].parent
           new == th[t].fresh
           sep == th[t].sep
           s == split_page(pages[p], p, new)
           split == [pages EXCEPT ![p] = s.left, ![new] = s.right]
           home == IF GoesRight(sep, s.sep) THEN new ELSE p
           q == internal_insert(split[home], sep, th[t].right)
<1>0. /\ th[t].pc = "fresh" /\ th[t].why = "internal" /\ meta' = meta /\ KeepPlan
      /\ IF TakesSeparator(split[home], sep)
         THEN /\ pages' = [split EXCEPT ![home] = q]
              /\ th' = [th EXCEPT ![t].pc = "up", ![t].left = p, ![t].right = new, ![t].sep = s.sep]
              /\ Latch(t, {}, {p, new}) /\ Silent
         ELSE pages' = split /\ Fails(t)
  <2>1. /\ th[t].pc = "fresh" /\ th[t].why = "internal" /\ UNCHANGED meta /\ KeepPlan
        /\ IF TakesSeparator(split[home], sep)
           THEN /\ pages' = [split EXCEPT ![home] = internal_insert(@, sep, th[t].right)]
                /\ th' = [th EXCEPT ![t].pc = "up", ![t].left = p, ![t].right = new, ![t].sep = s.sep]
                /\ Latch(t, {}, {p, new}) /\ Silent
           ELSE pages' = split /\ Fails(t)
    BY Zenon DEF SplitInternal
  <2> HIDE DEF split, home, s
  <2> QED
    BY <2>1
<1>1. CallOK(th[t]) /\ CallShape(t) /\ Working(t) = {p, new} /\ th[t].op = "insert"
  BY <1>0 DEF PageInv, LatchInv, CallShape, OpFits, Working, Splitting
<1>2. /\ p \in PageNums /\ new \in Used /\ new \in PageNums /\ is_internal(pages[p])
      /\ IsFull(pages[p]) /\ HalvesOK(th[t]) /\ sep \in Key
  <2>1. /\ p \in PageNums /\ new \in Used /\ is_internal(pages[p]) /\ HalvesOK(th[t])
        /\ ~can_insert_separator(pages[p], sep)
    <3>1. FullOK(th[t]) /\ new \in Used
      BY <1>0, <1>1 DEF CallOK, SplitOK
    <3> QED
      BY <1>0, <3>1 DEF FullOK
  <2> QED
    BY <2>1, TableIs DEF IsFull, HalvesOK, PageInv
<1>3. /\ InPlace(s.left, p, meta.page_count) /\ InPlace(s.right, new, meta.page_count)
      /\ s.sep \in Key /\ GoodPage(s.left) /\ GoodPage(s.right)
      /\ Links(s.left) \subseteq PageNums /\ Links(s.right) \subseteq PageNums /\ p \in Used
  BY <1>2, SplitInPlace
<1> HIDE DEF s
<1>4. DOMAIN pages = PageNums
  BY DEF LatchInv
<1>5. /\ \A x \in PageNums \ {p, new} : split[x] = pages[x]
      /\ split[new] = s.right /\ DOMAIN split = PageNums
      /\ split[p] \in {s.left, s.right}
  BY <1>2, <1>4
<1>6. \A x \in PageNums : split[x] = pages[x] \/ InPlace(split[x], x, meta.page_count)
  BY <1>2, <1>3, <1>4
<1>7. CASE ~TakesSeparator(split[home], sep)
  <2>1. pages' = split /\ Fails(t)
    BY <1>0, <1>7
  <2>2. TableOK' /\ Used \subseteq Used'
    BY <1>0, <1>6, <2>1, PagesChange DEF PageInv
  <2> QED
    BY <1>0, <1>1, <2>1, <2>2, Failing_Pages
<1>8. CASE TakesSeparator(split[home], sep)
  <2>1. /\ pages' = [split EXCEPT ![home] = q] /\ Silent
        /\ th' = [th EXCEPT ![t].pc = "up", ![t].left = p, ![t].right = new, ![t].sep = s.sep]
        /\ Latch(t, {}, {p, new})
    BY <1>0, <1>8
  <2>2. home \in {p, new} /\ home \in Used /\ home \in PageNums
    BY <1>2, <1>3
  <2> HIDE DEF home
  <2>3. GoodPage(split[home]) /\ Links(split[home]) \subseteq PageNums
    BY <1>3, <1>5, <2>2
  <2> HIDE DEF split
  <2>4. InPlace(q, home, meta.page_count)
    BY <1>2, <1>8, <2>2, <2>3, SeparatorInPlace DEF HalvesOK
  <2> HIDE DEF q
  <2>5. \A x \in PageNums : pages'[x] = pages[x] \/ InPlace(pages'[x], x, meta.page_count)
    <3>1. pages'[home] = q /\ \A x \in PageNums \ {home} : pages'[x] = split[x]
      BY <1>5, <2>1, <2>2
    <3> QED
      BY <1>6, <2>4, <3>1
  <2>6. \A x \in PageNums \ {p, new} : pages'[x] = pages[x]
    BY <1>5, <2>1, <2>2
  <2> HIDE DEF p, new, sep
  <2>7. TableOK' /\ Used \subseteq Used'
    BY <1>0, <2>5, PagesChange DEF PageInv
  <2>8. /\ th'[t].pc = "up" /\ th'[t].left = p /\ th'[t].right = new /\ th'[t].sep = s.sep
        /\ th'[t].op = th[t].op /\ th'[t].key = th[t].key /\ th'[t].seen = th[t].seen
        /\ th'[t].stack = th[t].stack /\ \A u \in Threads \ {t} : th'[u] = th[u]
    BY <2>1 DEF LatchInv, CallShape, Fields
  <2>9. \A x \in PageNums \cap StackPages(t) : pages'[x] = pages[x]
    <3>1. \A x \in PageNums \cap StackPages(t) : x \notin {p, new}
      BY <1>1, PageNumbers DEF CallShape, Apart
    <3> QED
      BY <2>6, <3>1
  <2>10. Asked(th[t])' /\ PathOK(th[t])'
    BY <1>0, <2>8, <2>9, AskedStays, PathKept
  <2>11. SplitOK(th[t])'
    BY <1>2, <1>3, <2>8 DEF SplitOK, HalvesOK
  <2>12. PageOK(th[t])' /\ JoinOK(th[t])' /\ SwapOK(th[t])'
    BY <2>8 DEF PageOK, JoinOK, SwapOK
  <2>13. CallOK(th[t])'
    BY <2>10, <2>11, <2>12 DEF CallOK
  <2> QED
    BY <1>0, <2>1, <2>7, <2>8, <2>13, CallWentOn, PlanKept, AnswerKept DEF PageInv
<1> QED
  BY <1>7, <1>8

LEMMA NewRoot_Pages ==
    ASSUME NEW t \in Threads, LatchInv, PageInv, HandsKept, NewRoot(t)
    PROVE  PageInv'
<1> DEFINE p == th[t].fresh
           q == internal(<<th[t].sep>>, <<th[t].left, th[t].right>>)
<1>0. /\ th[t].pc = "fresh" /\ th[t].why = "root" /\ Return(t) /\ Silent /\ KeepPlan
      /\ pages' = [pages EXCEPT ![p] = q]
      /\ meta' = [meta EXCEPT !.root = p]
  BY DEF NewRoot
<1>1. CallOK(th[t])
  BY DEF PageInv
<1>2. HalvesOK(th[t]) /\ p \in Used /\ p \in PageNums
  <2>1. FullOK(th[t]) /\ p \in Used
    BY <1>0, <1>1 DEF CallOK, SplitOK
  <2> QED
    BY <1>0, <2>1, TableIs DEF FullOK, PageInv
<1>3. InPlace(q, p, meta.page_count)
  BY <1>2, RootInPlace DEF HalvesOK
<1> HIDE DEF p, q
<1>4. /\ meta' \in [root : PageNums, page_count : 2 .. MaxPages + 1, free_list_head : PageNums \cup {Nil}]
      /\ meta'.page_count = meta.page_count /\ meta'.free_list_head = meta.free_list_head
  BY <1>0, <1>2 DEF PageInv, TableOK
<1>5. TableOK' /\ Used \subseteq Used'
  <2>1. Used' = Used /\ meta.page_count <= meta'.page_count
    BY <1>4, TableIs DEF Used, PageInv
  <2>2. \A x \in PageNums : pages'[x] = pages[x] \/ InPlace(pages'[x], x, meta'.page_count)
    BY <1>0, <1>2, <1>3, <1>4 DEF LatchInv
  <2>3. meta'.free_list_head \in Used' \cup {Nil}
    BY <1>4, <2>1 DEF PageInv, TableOK
  <2> QED
    BY <1>4, <2>1, <2>2, <2>3, TableChanges DEF PageInv
<1> QED
  BY <1>0, <1>5, CallEnded, PlanKept, AnswerKept DEF PageInv

-----------------------------------------------------------------------------
(* The steps of a delete.                                                     *)

LEMMA DeleteRow_Pages ==
    ASSUME NEW t \in Threads, LatchInv, PageInv, HandsKept, DeleteRow(t)
    PROVE  PageInv'
<1> DEFINE p == th[t].page
           k == th[t].key
           q == leaf_remove(pages[p], k)
<1>1. /\ th[t].pc = "at" /\ th[t].op = "delete" /\ ~is_internal(pages[p]) /\ HasKey(pages[p], k)
      /\ pages' = [pages EXCEPT ![p] = q] /\ meta' = meta
      /\ Says(t, "row") /\ KeepLatches /\ KeepPlan
      /\ th'[t].pc = "balance" /\ th'[t].page = p
      /\ th'[t].op = th[t].op /\ th'[t].key = th[t].key /\ th'[t].seen = th[t].seen
      /\ th'[t].stack = th[t].stack /\ \A u \in Threads \ {t} : th'[u] = th[u]
  BY DEF DeleteRow, AtLeaf, LatchInv, CallShape, Fields
<1>2. p \in PageNums /\ k \in Key /\ CallShape(t) /\ Working(t) = {p}
  BY <1>1 DEF PageInv, CallOK, Asked, PageOK, LatchInv, Working
<1>3. is_leaf(pages[p])
  <2>1. GoodPage(pages[p])
    BY <1>2, TableIs DEF PageInv
  <2>2. ~is_free(pages[p])
    BY <1>1 DEF HasKey, KeySet
  <2> QED
    BY <1>1, <2>1, <2>2, GoodPages
<1>4. InPlace(q, p, meta.page_count)
  BY <1>2, <1>3, RowsInPlace
<1> HIDE DEF p, k, q
<1>5. TableOK' /\ Used \subseteq Used' /\ \A x \in PageNums \ {p} : pages'[x] = pages[x]
  BY <1>1, <1>2, <1>4, OneChanges
<1>6. \A x \in PageNums \cap StackPages(t) : pages'[x] = pages[x]
  BY <1>2, <1>5, PageNumbers DEF CallShape, Apart
<1>7. Asked(th[t])' /\ PathOK(th[t])' /\ PageOK(th[t])'
  BY <1>1, <1>2, <1>6, AskedStays, PathKept DEF PageOK
<1>8. CallOK(th[t])'
  BY <1>1, <1>7, OnTheWay
<1>9. AnswersOK'
  BY <1>1, AnswerGiven DEF Results
<1> QED
  BY <1>1, <1>5, <1>8, <1>9, CallWentOn, PlanKept DEF PageInv

LEMMA Balanced_Pages ==
    ASSUME NEW t \in Threads, LatchInv, PageInv, Balanced(t)
    PROVE  PageInv'
<1>1. /\ th[t].pc = "balance" /\ th'[t].pc = "shrink" /\ th'[t].page = th[t].page
      /\ th'[t].op = th[t].op /\ th'[t].key = th[t].key /\ th'[t].seen = th[t].seen
      /\ th'[t].stack = th[t].stack /\ \A u \in Threads \ {t} : th'[u] = th[u]
  BY DEF Balanced, LatchInv, CallShape, Fields
<1>2. KeepTable /\ pages' = pages /\ th[t].page \in PageNums
  BY <1>1 DEF Balanced, KeepTable, PageInv, CallOK, PageOK
<1>3. Asked(th[t])' /\ PathOK(th[t])' /\ PageOK(th[t])'
  BY <1>1, <1>2, AskedStays, PathKept DEF PageOK
<1>4. CallOK(th[t])'
  BY <1>1, <1>3, OnTheWay
<1> QED
  BY <1>1, <1>4, OnlyTheCall DEF Balanced

(* The sibling of the page under the top of the path.                         *)
LEMMA SiblingIs ==
    ASSUME NEW t \in Threads, LatchInv, PageInv, th[t].stack # <<>>
    PROVE  LET sib == pick_sibling(pages[Top(t).page], Top(t).idx)
           IN \/ sib = NoSibling
              \/ sib.id \in PageNums /\ sib.sep \in Key /\ sib.side \in {"left", "right"}
<1> DEFINE pg == pages[Top(t).page]
           i == Top(t).idx
<1>1. /\ is_internal(pg) /\ i \in 0 .. Len(pg.keys) /\ GoodPage(pg) /\ Links(pg) \subseteq PageNums
  BY TopOfPath
<1> HIDE DEF pg, i
<1>2. IsInternalPage(pg)
  BY <1>1, GoodPages
<1>3. LET sib == pick_sibling(pg, i)
      IN \/ sib = NoSibling
         \/ sib.id \in Links(pg) /\ sib.sep \in Key /\ sib.side \in {"left", "right"}
  BY <1>1, <1>2, SiblingPicked
<1> QED
  BY <1>1, <1>3 DEF pg, i

(* The call turns to a page and its sibling, with their parent.               *)
LEMMA PairTaken ==
    ASSUME NEW t \in Threads, LatchInv, PageInv, KeepTable, th[t].stack # <<>>,
           th[t].pc = "balance", th'[t].pc \in {"left", "right"},
           th'[t].parent = Top(t).page, th'[t].stack = Popped(t),
           th'[t].left \in PageNums, th'[t].right \in PageNums, th'[t].sep \in Key,
           th'[t].op = th[t].op, th'[t].key = th[t].key, th'[t].seen = th[t].seen
    PROVE  CallOK(th[t])'
<1>1. pages' = pages
  BY DEF KeepTable
<1>2. Asked(th[t])' /\ PathOK(th[t])'
  BY <1>1, AskedStays, TopOfPath DEF PathOK
<1>3. JoinOK(th[t])'
  BY <1>1, TopOfPath DEF JoinOK, HalvesOK
<1>4. PageOK(th[t])' /\ SplitOK(th[t])' /\ SwapOK(th[t])'
  BY DEF PageOK, SplitOK, SwapOK
<1> QED
  BY <1>2, <1>3, <1>4 DEF CallOK

LEMMA JoinRight_Pages ==
    ASSUME NEW t \in Threads, LatchInv, PageInv, JoinRight(t)
    PROVE  PageInv'
<1> DEFINE sib == pick_sibling(pages[Top(t).page], Top(t).idx)
<1>0. /\ th[t].pc = "balance" /\ th[t].stack # <<>> /\ sib.side = "right"
      /\ KeepTable /\ KeepLatches /\ Silent /\ KeepPlan
  BY Zenon DEF JoinRight, NeedsJoin
<1>5. th' = [th EXCEPT ![t].pc = "right", ![t].parent = Top(t).page, ![t].stack = Popped(t),
                     ![t].left = th[t].page, ![t].right = sib.id,
                     ![t].sep = sib.sep, ![t].side = "right"]
  BY Zenon DEF JoinRight
<1>1. sib.id \in PageNums /\ sib.sep \in Key
  BY <1>0, SiblingIs DEF NoSibling
<1> HIDE DEF sib
<1>2. /\ th'[t].pc = "right" /\ th'[t].parent = Top(t).page /\ th'[t].stack = Popped(t)
      /\ th'[t].left = th[t].page /\ th'[t].right = sib.id /\ th'[t].sep = sib.sep
      /\ th'[t].op = th[t].op /\ th'[t].key = th[t].key /\ th'[t].seen = th[t].seen
      /\ \A u \in Threads \ {t} : th'[u] = th[u]
  BY <1>5 DEF LatchInv, CallShape, Fields
<1>3. th[t].page \in PageNums
  BY <1>0 DEF PageInv, CallOK, PageOK
<1>4. CallOK(th[t])'
  BY <1>0, <1>1, <1>2, <1>3, PairTaken
<1> QED
  BY <1>0, <1>2, <1>4, OnlyTheCall

LEMMA JoinLeft_Pages ==
    ASSUME NEW t \in Threads, LatchInv, PageInv, JoinLeft(t)
    PROVE  PageInv'
<1> DEFINE sib == pick_sibling(pages[Top(t).page], Top(t).idx)
<1>0. /\ th[t].pc = "balance" /\ th[t].stack # <<>> /\ KeepTable /\ KeepPlan
  BY Zenon DEF JoinLeft, NeedsJoin
<1>1. CASE sib = NoSibling
  <2>1. Panics(t) /\ Silent
    BY <1>1 DEF JoinLeft, Panics
  <2> QED
    BY <1>0, <2>1, OnlyTheEnd, PlanKept, AnswerKept DEF PageInv
<1>2. CASE sib # NoSibling
  <2>1. th' = [th EXCEPT ![t].pc = "left", ![t].parent = Top(t).page, ![t].stack = Popped(t),
                         ![t].left = sib.id, ![t].right = th[t].page,
                         ![t].sep = sib.sep, ![t].side = "left"]
    BY <1>2, Zenon DEF JoinLeft
  <2>6. Latch(t, {}, DropsPage(t)) /\ Silent
    BY <1>2, Zenon DEF JoinLeft
  <2>2. sib.id \in PageNums /\ sib.sep \in Key
    BY <1>0, <1>2, SiblingIs
  <2> HIDE DEF sib
  <2>3. /\ th'[t].pc = "left" /\ th'[t].parent = Top(t).page /\ th'[t].stack = Popped(t)
        /\ th'[t].left = sib.id /\ th'[t].right = th[t].page /\ th'[t].sep = sib.sep
        /\ th'[t].op = th[t].op /\ th'[t].key = th[t].key /\ th'[t].seen = th[t].seen
        /\ \A u \in Threads \ {t} : th'[u] = th[u]
    BY <2>1 DEF LatchInv, CallShape, Fields
  <2>4. th[t].page \in PageNums
    BY <1>0 DEF PageInv, CallOK, PageOK
  <2>5. CallOK(th[t])'
    BY <1>0, <2>2, <2>3, <2>4, PairTaken
  <2> QED
    BY <1>0, <2>3, <2>5, <2>6, OnlyTheCall
<1> QED
  BY <1>1, <1>2

LEMMA LatchPair_Pages ==
    ASSUME NEW t \in Threads, LatchInv, PageInv, LatchLeft(t) \/ LatchRight(t)
    PROVE  PageInv'
<1>1. /\ th[t].pc \in {"left", "right"} /\ th'[t].pc \in {"right", "join"}
      /\ th'[t].parent = th[t].parent /\ th'[t].left = th[t].left /\ th'[t].right = th[t].right
      /\ th'[t].sep = th[t].sep /\ th'[t].stack = th[t].stack
      /\ th'[t].op = th[t].op /\ th'[t].key = th[t].key /\ th'[t].seen = th[t].seen
      /\ \A u \in Threads \ {t} : th'[u] = th[u]
  BY DEF LatchLeft, LatchRight, LatchInv, CallShape, Fields
<1>2. KeepTable /\ pages' = pages /\ CallOK(th[t])
  BY DEF LatchLeft, LatchRight, KeepTable, PageInv
<1>3. Asked(th[t])' /\ PathOK(th[t])'
  BY <1>1, <1>2, AskedStays, PathKept
<1>4. JoinOK(th[t])'
  BY <1>1, <1>2 DEF CallOK, JoinOK, HalvesOK
<1>5. PageOK(th[t])' /\ SplitOK(th[t])' /\ SwapOK(th[t])'
  BY <1>1 DEF PageOK, SplitOK, SwapOK
<1>6. CallOK(th[t])'
  BY <1>3, <1>4, <1>5 DEF CallOK
<1>7. \E add, drop : Latch(t, add, drop)
  BY DEF LatchLeft, LatchRight
<1> QED
  BY <1>1, <1>6, <1>7, OnlyTheCall DEF LatchLeft, LatchRight

(* A pair about to be joined, under its parent.                               *)
LEMMA PairInHand ==
    ASSUME NEW t \in Threads, LatchInv, PageInv, th[t].pc = "join"
    PROVE  /\ th[t].op = "delete" /\ th[t].sep \in Key
           /\ {th[t].left, th[t].right, th[t].parent} \subseteq PageNums
           /\ th[t].parent \in Used /\ th[t].parent \notin {th[t].left, th[t].right}
           /\ is_internal(pages[th[t].parent])
           /\ \A p \in {th[t].left, th[t].right, th[t].parent} :
                 /\ GoodPage(pages[p]) /\ Links(pages[p]) \subseteq PageNums
                 /\ ~is_free(pages[p]) => p \in Used
                 /\ p \notin StackPages(t)
<1>1. CallOK(th[t]) /\ CallShape(t)
  BY DEF PageInv, LatchInv
<1>2. /\ th[t].sep \in Key /\ {th[t].left, th[t].right, th[t].parent} \subseteq PageNums
      /\ is_internal(pages[th[t].parent])
  BY <1>1 DEF CallOK, JoinOK, HalvesOK
<1>3. \A p \in {th[t].left, th[t].right, th[t].parent} :
          /\ GoodPage(pages[p]) /\ Links(pages[p]) \subseteq PageNums
          /\ ~is_free(pages[p]) => p \in Used
  BY <1>2, TableIs DEF PageInv
<1>4. th[t].parent \in Used
  BY <1>2, <1>3 DEF is_internal, is_free
<1>5. /\ th[t].parent \notin {th[t].left, th[t].right}
      /\ \A p \in {th[t].left, th[t].right, th[t].parent} : p \notin StackPages(t)
  <2>1. Working(t) = {th[t].parent, th[t].left, th[t].right}
    BY DEF Working
  <2> QED
    BY <1>1, <1>2, <2>1, PageNumbers DEF CallShape, Apart
<1> QED
  BY <1>1, <1>2, <1>3, <1>4, <1>5 DEF CallShape, OpFits

LEMMA Merge_Pages ==
    ASSUME NEW t \in Threads, LatchInv, PageInv, HandsKept, Merge(t)
    PROVE  PageInv'
<1> DEFINE left == th[t].left
           right == th[t].right
           parent == th[t].parent
           sep == th[t].sep
           l == pages[left]
           r == pages[right]
           fits == InOrder(l, r, sep) /\ (is_leaf(l) => l.next = right)
           q == merge_from_right(l, r, sep)
           above == internal_remove(pages[parent], sep)
<1>0. /\ th[t].pc = "join" /\ meta' = meta /\ KeepPlan /\ can_merge_with(l, r, sep)
  BY Zenon DEF Merge
<1>1. CASE ~fits
  <2>1. Fails(t) /\ KeepTable
    BY <1>1 DEF Merge, KeepTable
  <2> QED
    BY <1>0, <2>1, Failing_Pages, TableStays, PairInHand DEF PageInv
<1>2. CASE fits
  <2>1. /\ left \in PageNums /\ right \in PageNums /\ parent \in PageNums
        /\ left \in Used /\ right \in Used /\ parent \in Used /\ parent \notin {left, right}
        /\ GoodPage(l) /\ GoodPage(r) /\ GoodPage(pages[parent]) /\ is_internal(pages[parent])
        /\ Links(l) \subseteq PageNums /\ Links(r) \subseteq PageNums
        /\ Links(pages[parent]) \subseteq PageNums
        /\ sep \in Key /\ SameKind(l, r)
    <3>1. SameKind(l, r) /\ ~is_free(l) /\ ~is_free(r)
      BY <1>0 DEF can_merge_with, SameKind, is_free
    <3> QED
      BY <1>0, <3>1, PairInHand
  <2>2. InPlace(q, left, meta.page_count)
    <3>1. GoodPage(q) /\ ~is_free(q) /\ Links(q) \subseteq Links(l) \cup Links(r)
      BY <1>0, <1>2, <2>1, Merged
    <3> HIDE DEF q
    <3>2. (is_leaf(q) \/ is_internal(q)) /\ Links(q) \subseteq PageNums
      BY <2>1, <3>1, GoodPages
    <3> QED
      BY <2>1, <3>1, <3>2, TreePageInPlace
  <2>3. InPlace(above, parent, meta.page_count)
    <3>1. GoodPage(above) /\ is_internal(above) /\ Links(above) \subseteq Links(pages[parent])
      BY <2>1, SeparatorRemoved
    <3> HIDE DEF above
    <3>2. Links(above) \subseteq PageNums
      BY <2>1, <3>1
    <3> QED
      BY <2>1, <3>1, <3>2, TreePageInPlace
  <2>4. InPlace(free(Nil), right, meta.page_count)
    BY FreePageInPlace DEF PageInv
  <2>5. /\ pages' = [pages EXCEPT ![left] = q, ![right] = free(Nil),
                                  ![parent] = internal_remove(@, sep)]
        /\ KeepLatches /\ Silent
    BY <1>2, Zenon DEF Merge
  <2>6. th' = [th EXCEPT ![t].pc = IF is_leaf(l) /\ r.next # Nil THEN "unlink" ELSE "free",
                         ![t].next = IF is_leaf(l) THEN r.next ELSE Nil]
    BY <1>2, Zenon DEF Merge
  <2>7. is_leaf(l) /\ r.next # Nil => r.next \in PageNums
    BY <2>1 DEF SameKind, Links, is_leaf, is_internal
  <2> DEFINE free_page == free(Nil)
  <2> HIDE DEF q
  <2>8. /\ pages'[parent] = above /\ pages'[right] = free_page
        /\ pages'[left] \in {q, free_page} /\ (left # right => pages'[left] = q)
        /\ \A x \in PageNums \ {left, right, parent} : pages'[x] = pages[x]
    <3> HIDE DEF free_page
    <3>1. pages' = [pages EXCEPT ![left] = q, ![right] = free_page,
                                 ![parent] = internal_remove(@, sep)]
      BY <2>5 DEF free_page
    <3>2. DOMAIN pages = PageNums
      BY DEF LatchInv
    <3> HIDE DEF left, right, parent, sep, l, r
    <3>3. parent \in PageNums /\ left \in PageNums /\ right \in PageNums /\ parent \notin {left, right}
      BY <2>1
    <3> QED
      BY <3>1, <3>2, <3>3
  <2> HIDE DEF above
  <2>9. \A x \in PageNums : pages'[x] = pages[x] \/ InPlace(pages'[x], x, meta.page_count)
    <3>1. \A x \in PageNums : x = right => InPlace(pages'[x], x, meta.page_count)
      BY <2>4, <2>8 DEF free_page
    <3> HIDE DEF free_page, left, right, parent, l, r
    <3>2. ASSUME NEW x \in PageNums PROVE pages'[x] = pages[x] \/ InPlace(pages'[x], x, meta.page_count)
      <4>1. CASE x = right
        BY <3>1, <4>1
      <4>2. CASE x = left /\ x # right
        BY <2>2, <2>8, <4>2
      <4>3. CASE x = parent
        BY <2>3, <2>8, <4>3
      <4> QED
        BY <2>8, <4>1, <4>2, <4>3
    <3> QED
      BY <3>2
  <2>10. TableOK' /\ Used' = Used
    <3>1. Used' = Used
      BY <1>0 DEF Used
    <3> QED
      BY <1>0, <2>9, <3>1, PagesChange DEF PageInv
  <2> DEFINE linked == is_leaf(l) /\ r.next # Nil
             after == IF is_leaf(l) THEN r.next ELSE Nil
  <2>11. linked => after \in PageNums
    BY <2>7
  <2>12. th' = [th EXCEPT ![t].pc = IF linked THEN "unlink" ELSE "free", ![t].next = after]
    BY <2>6
  <2> HIDE DEF linked, after
  <2>13. /\ th'[t].pc = (IF linked THEN "unlink" ELSE "free") /\ th'[t].next = after
         /\ th'[t].left = left /\ th'[t].right = right /\ th'[t].parent = parent
         /\ th'[t].op = th[t].op /\ th'[t].key = th[t].key /\ th'[t].seen = th[t].seen
         /\ th'[t].stack = th[t].stack /\ \A u \in Threads \ {t} : th'[u] = th[u]
    BY <2>12 DEF LatchInv, CallShape, Fields
  <2>14. \A x \in PageNums \cap StackPages(t) : pages'[x] = pages[x]
    <3>1. \A x \in PageNums \cap StackPages(t) : x \notin {left, right, parent}
      BY <1>0, PairInHand
    <3> QED
      BY <2>8, <3>1
  <2>15. Asked(th[t])' /\ PathOK(th[t])'
    BY <1>0, <2>13, <2>14, AskedStays, PathKept
  <2>16. JoinOK(th[t])' /\ PageOK(th[t])'
    BY <2>1, <2>10, <2>11, <2>13 DEF JoinOK, PageOK
  <2>17. SplitOK(th[t])' /\ SwapOK(th[t])'
    BY <2>13 DEF SplitOK, SwapOK
  <2>18. CallOK(th[t])'
    BY <2>15, <2>16, <2>17 DEF CallOK
  <2> QED
    BY <1>0, <2>5, <2>10, <2>13, <2>18, CallWentOn, PlanKept, AnswerKept DEF PageInv
<1> QED
  BY <1>1, <1>2

LEMMA Unlink_Pages ==
    ASSUME NEW t \in Threads, LatchInv, PageInv, HandsKept, Unlink(t)
    PROVE  PageInv'
<1> DEFINE p == th[t].next
           q == [pages[p] EXCEPT !.prev = th[t].left]
<1>0. /\ th[t].pc = "unlink" /\ CanWrite(p) /\ meta' = meta /\ KeepPlan
      /\ CallOK(th[t]) /\ CallShape(t) /\ th[t].op = "delete"
  BY DEF Unlink, PageInv, LatchInv, CallShape, OpFits
<1>1. CASE ~is_leaf(pages[p])
  <2>1. Fails(t) /\ KeepTable
    BY <1>1 DEF Unlink, KeepTable
  <2> QED
    BY <1>0, <2>1, Failing_Pages, TableStays DEF PageInv
<1>2. CASE is_leaf(pages[p])
  <2>1. /\ th'[t].pc = "free" /\ th'[t].left = th[t].left /\ th'[t].right = th[t].right
        /\ th'[t].parent = th[t].parent
        /\ th'[t].op = th[t].op /\ th'[t].key = th[t].key /\ th'[t].seen = th[t].seen
        /\ th'[t].stack = th[t].stack /\ \A u \in Threads \ {t} : th'[u] = th[u]
        /\ pages' = WithPrev(p, th[t].left)
        /\ KeepLatches /\ Silent
    BY <1>2 DEF Unlink, LatchInv, CallShape, Fields
  <2>2. p \in PageNums /\ JoinOK(th[t]) /\ th[t].left \in PageNums
    BY <1>0 DEF CallOK, PageOK, JoinOK
  <2>3. pages' = [pages EXCEPT ![p] = q]
    BY <2>1, <2>2 DEF LatchInv, WithPrev
  <2>4. InPlace(q, p, meta.page_count)
    BY <1>2, <2>2, PrevInPlace
  <2> HIDE DEF p, q
  <2>5. TableOK' /\ Used \subseteq Used' /\ \A r \in PageNums \ {p} : pages'[r] = pages[r]
    BY <1>0, <2>2, <2>3, <2>4, OneChanges
  <2>6. \A r \in PageNums \cap StackPages(t) : pages'[r] = pages[r]
    <3>1. p \notin InHand(t)
      BY <1>0, <2>2, PageNumbers, HandsDisjoint DEF Writes
    <3> QED
      BY <2>2, <2>5, <3>1, PageNumbers DEF InHand
  <2>7. Asked(th[t])' /\ PathOK(th[t])'
    BY <1>0, <2>1, <2>6, AskedStays, PathKept
  <2>8. JoinOK(th[t])'
    BY <1>0, <2>1, <2>2, <2>5 DEF JoinOK
  <2>9. PageOK(th[t])' /\ SplitOK(th[t])' /\ SwapOK(th[t])'
    BY <2>1 DEF PageOK, SplitOK, SwapOK
  <2>10. CallOK(th[t])'
    BY <2>7, <2>8, <2>9 DEF CallOK
  <2> QED
    BY <1>0, <2>1, <2>5, <2>10, CallWentOn, PlanKept, AnswerKept DEF PageInv
<1> QED
  BY <1>1, <1>2

(* A page goes to the head of the free list.                                  *)
LEMMA PushedInPlace ==
    ASSUME LatchInv, PageInv, NEW p \in Used, pages' = Pushed(p),
           meta' = [meta EXCEPT !.free_list_head = p]
    PROVE  TableOK' /\ Used \subseteq Used' /\ \A r \in PageNums \ {p} : pages'[r] = pages[r]
<1>1. TableOK /\ p \in PageNums /\ meta.free_list_head \in Used \cup {Nil}
  BY TableIs DEF PageInv, TableOK
<1>2. pages'[p] = free(meta.free_list_head) /\ \A r \in PageNums \ {p} : pages'[r] = pages[r]
  BY <1>1 DEF Pushed, LatchInv
<1>3. InPlace(pages'[p], p, meta.page_count)
  BY <1>1, <1>2, FreePageInPlace
<1>4. /\ meta' \in [root : PageNums, page_count : 2 .. MaxPages + 1, free_list_head : PageNums \cup {Nil}]
      /\ meta'.page_count = meta.page_count /\ meta'.free_list_head = p
  BY <1>1 DEF TableOK
<1>5. Used' = Used /\ meta.page_count <= meta'.page_count
  BY <1>1, <1>4, TableIs DEF Used
<1>6. \A r \in PageNums : pages'[r] = pages[r] \/ InPlace(pages'[r], r, meta'.page_count)
  BY <1>2, <1>3, <1>4
<1>7. TableOK' /\ Used \subseteq Used'
  BY <1>1, <1>4, <1>5, <1>6, TableChanges
<1> QED
  BY <1>2, <1>7

LEMMA FreeRight_Pages ==
    ASSUME NEW t \in Threads, LatchInv, PageInv, HandsKept, FreeRight(t)
    PROVE  PageInv'
<1> DEFINE p == th[t].right
<1>1. /\ th[t].pc = "free" /\ th'[t].pc = "balance" /\ th'[t].page = th[t].parent
      /\ th'[t].op = th[t].op /\ th'[t].key = th[t].key /\ th'[t].seen = th[t].seen
      /\ th'[t].stack = th[t].stack /\ \A u \in Threads \ {t} : th'[u] = th[u]
      /\ pages' = Pushed(p) /\ meta' = [meta EXCEPT !.free_list_head = p]
      /\ Latch(t, {}, {p, th[t].left}) /\ Silent /\ KeepPlan
  BY DEF FreeRight, LatchInv, CallShape, Fields
<1>2. CallShape(t) /\ Working(t) = {th[t].parent, th[t].left, p} /\ p \in Used /\ th[t].parent \in PageNums
  BY <1>1 DEF PageInv, CallOK, JoinOK, LatchInv, Working
<1> HIDE DEF p
<1>3. TableOK' /\ Used \subseteq Used' /\ \A r \in PageNums \ {p} : pages'[r] = pages[r]
  BY <1>1, <1>2, PushedInPlace
<1>4. \A x \in PageNums \cap StackPages(t) : pages'[x] = pages[x]
  BY <1>2, <1>3, PageNumbers DEF CallShape, Apart
<1>5. Asked(th[t])' /\ PathOK(th[t])' /\ PageOK(th[t])'
  BY <1>1, <1>2, <1>4, AskedStays, PathKept DEF PageOK
<1>6. CallOK(th[t])'
  BY <1>1, <1>5, OnTheWay
<1> QED
  BY <1>1, <1>3, <1>6, CallWentOn, PlanKept, AnswerKept DEF PageInv

LEMMA Shrink_Pages ==
    ASSUME NEW t \in Threads, LatchInv, PageInv, Shrink(t)
    PROVE  PageInv'
<1>0. th[t].pc = "shrink" /\ KeepTable /\ Silent /\ KeepPlan /\ pages' = pages
  BY DEF Shrink, KeepTable
<1>1. CASE ~IsLonelyRoot(th[t].page)
  <2>1. Return(t)
    BY <1>1 DEF Shrink
  <2> QED
    BY <1>0, <2>1, OnlyTheEnd, PlanKept, AnswerKept DEF PageInv
<1>2. CASE IsLonelyRoot(th[t].page)
  <2>1. /\ th'[t].pc = "new_root" /\ th'[t].page = th[t].page
        /\ th'[t].op = th[t].op /\ th'[t].key = th[t].key /\ th'[t].seen = th[t].seen
        /\ th'[t].stack = th[t].stack /\ \A u \in Threads \ {t} : th'[u] = th[u]
        /\ KeepLatches
    BY <1>2 DEF Shrink, LatchInv, CallShape, Fields
  <2>2. th[t].page \in PageNums /\ is_internal(pages[th[t].page])
    BY <1>0, <1>2 DEF PageInv, CallOK, PageOK, IsLonelyRoot
  <2>3. Asked(th[t])' /\ PathOK(th[t])' /\ PageOK(th[t])'
    BY <1>0, <2>1, <2>2, AskedStays, PathKept DEF PageOK
  <2>4. CallOK(th[t])'
    BY <2>1, <2>3, OnTheWay
  <2> QED
    BY <1>0, <2>1, <2>4, OnlyTheCall
<1> QED
  BY <1>1, <1>2

LEMMA SetRoot_Pages ==
    ASSUME NEW t \in Threads, LatchInv, PageInv, HandsKept, SetRoot(t)
    PROVE  PageInv'
<1> DEFINE p == th[t].page
           child == OnlyChild(pages[p])
<1>1. /\ th[t].pc = "new_root" /\ th'[t].pc = "free_root" /\ th'[t].page = p
      /\ th'[t].op = th[t].op /\ th'[t].key = th[t].key /\ th'[t].seen = th[t].seen
      /\ th'[t].stack = th[t].stack /\ \A u \in Threads \ {t} : th'[u] = th[u]
      /\ pages' = [pages EXCEPT ![p] = free(Nil)] /\ meta' = [meta EXCEPT !.root = child]
      /\ KeepLatches /\ Silent /\ KeepPlan
  BY DEF SetRoot, LatchInv, CallShape, Fields
<1>2. CallShape(t) /\ Working(t) = {p} /\ p \in PageNums /\ is_internal(pages[p])
  BY <1>1 DEF PageInv, CallOK, PageOK, LatchInv, Working
<1>3. p \in Used /\ child \in PageNums
  <2>1. GoodPage(pages[p]) /\ Links(pages[p]) \subseteq PageNums /\ p \in Used
    BY <1>2, TableIs DEF PageInv, is_internal, is_free
  <2>2. IsInternalPage(pages[p])
    BY <1>2, <2>1, GoodPages
  <2>3. 0 \in 0 .. Len(pages[p].keys)
    BY <1>2, <2>1, GoodPages DEF is_internal, is_free
  <2>4. child_at(pages[p], 0) \in Links(pages[p])
    BY <2>2, <2>3, ChildFound
  <2> QED
    BY <2>1, <2>4 DEF OnlyChild
<1> HIDE DEF p, child
<1>4. /\ meta' \in [root : PageNums, page_count : 2 .. MaxPages + 1, free_list_head : PageNums \cup {Nil}]
      /\ meta'.page_count = meta.page_count /\ meta'.free_list_head = meta.free_list_head
  BY <1>1, <1>3 DEF PageInv, TableOK
<1>5. pages'[p] = free(Nil) /\ \A x \in PageNums \ {p} : pages'[x] = pages[x]
  BY <1>1, <1>2 DEF LatchInv
<1>6. TableOK' /\ Used' = Used
  <2>1. Used' = Used /\ meta.page_count <= meta'.page_count
    BY <1>4, TableIs DEF Used, PageInv
  <2>2. InPlace(free(Nil), p, meta.page_count)
    BY FreePageInPlace DEF PageInv
  <2>3. \A x \in PageNums : pages'[x] = pages[x] \/ InPlace(pages'[x], x, meta'.page_count)
    BY <1>4, <1>5, <2>2
  <2>4. meta'.free_list_head \in Used' \cup {Nil}
    BY <1>4, <2>1 DEF PageInv, TableOK
  <2> QED
    BY <1>4, <2>1, <2>3, <2>4, TableChanges DEF PageInv
<1>7. \A x \in PageNums \cap StackPages(t) : pages'[x] = pages[x]
  BY <1>2, <1>5, PageNumbers DEF CallShape, Apart
<1>8. Asked(th[t])' /\ PathOK(th[t])' /\ PageOK(th[t])'
  BY <1>1, <1>3, <1>6, <1>7, AskedStays, PathKept DEF PageOK
<1>9. CallOK(th[t])'
  BY <1>1, <1>8, OnTheWay
<1> QED
  BY <1>1, <1>6, <1>9, CallWentOn, PlanKept, AnswerKept DEF PageInv

LEMMA FreeRoot_Pages ==
    ASSUME NEW t \in Threads, LatchInv, PageInv, HandsKept, FreeRoot(t)
    PROVE  PageInv'
<1>1. /\ th[t].pc = "free_root" /\ Return(t) /\ Silent /\ KeepPlan
      /\ pages' = Pushed(th[t].page) /\ meta' = [meta EXCEPT !.free_list_head = th[t].page]
  BY DEF FreeRoot
<1>2. th[t].page \in Used
  BY <1>1 DEF PageInv, CallOK, PageOK
<1>3. TableOK' /\ Used \subseteq Used'
  BY <1>1, <1>2, PushedInPlace
<1> QED
  BY <1>1, <1>3, CallEnded, PlanKept, AnswerKept DEF PageInv

LEMMA Borrow_Pages ==
    ASSUME NEW t \in Threads, LatchInv, PageInv, HandsKept, Borrow(t)
    PROVE  PageInv'
<1> DEFINE left == th[t].left
           right == th[t].right
           parent == th[t].parent
           sep == th[t].sep
           l == pages[left]
           r == pages[right]
           pair == [left |-> l, right |-> r, sep |-> sep]
           can == /\ SameKind(l, r) /\ InOrder(l, r, sep)
                  /\ IF th[t].side = "right"
                     THEN CanBorrowFromRight(pair) /\ (is_leaf(l) => l.next = right)
                     ELSE CanBorrowFromLeft(pair) /\ (is_leaf(l) => r.prev = left)
           b == IF th[t].side = "right" THEN bulk_borrow_from_right(l, r, sep)
                ELSE bulk_borrow_from_left(l, r, sep)
           moved == [pages EXCEPT ![left] = b.left, ![right] = b.right]
           above == internal_replace_key(moved[parent], sep, b.sep)
<1>0. /\ th[t].pc = "join" /\ meta' = meta /\ KeepPlan
      /\ ~can => Fails(t) /\ KeepTable
      /\ can => IF ~CanReplace(pages[parent], sep, b.sep)
                THEN pages' = moved /\ Fails(t)
                ELSE /\ pages' = [moved EXCEPT ![parent] = internal_replace_key(@, sep, b.sep)]
                     /\ Return(t) /\ Silent
  BY Zenon DEF Borrow, KeepTable
<1>1. /\ th[t].op = "delete" /\ sep \in Key
      /\ left \in PageNums /\ right \in PageNums /\ parent \in PageNums
      /\ parent \in Used /\ parent \notin {left, right} /\ is_internal(pages[parent])
      /\ GoodPage(l) /\ GoodPage(r) /\ GoodPage(pages[parent])
      /\ Links(l) \subseteq PageNums /\ Links(r) \subseteq PageNums
      /\ Links(pages[parent]) \subseteq PageNums
      /\ ~is_free(l) => left \in Used
      /\ ~is_free(r) => right \in Used
  BY <1>0, PairInHand
<1>2. CASE ~can
  BY <1>0, <1>1, <1>2, Failing_Pages, TableStays DEF PageInv
<1>3. CASE can
  <2>1. /\ left \in Used /\ right \in Used /\ IsPair(l, r, sep)
        /\ IF th[t].side = "right" THEN CanBorrowFromRight(pair) ELSE CanBorrowFromLeft(pair)
    BY <1>1, <1>3 DEF SameKind, is_free, IsPair
  <2>2. Borrowed(l, r, b)
    BY <2>1, BorrowKeepsPages
  <2>3. IF ~CanReplace(pages[parent], sep, b.sep)
        THEN pages' = moved /\ Fails(t)
        ELSE /\ pages' = [moved EXCEPT ![parent] = internal_replace_key(@, sep, b.sep)]
             /\ Return(t) /\ Silent
    BY <1>0, <1>3
  <2> HIDE DEF b, can, pair
  <2>4. InPlace(b.left, left, meta.page_count) /\ InPlace(b.right, right, meta.page_count) /\ b.sep \in Key
    <3>1. /\ GoodPage(b.left) /\ ~is_free(b.left) /\ GoodPage(b.right) /\ ~is_free(b.right)
          /\ b.sep \in Key /\ LinksOf(b) \subseteq Links(l) \cup Links(r)
      BY <2>2 DEF Borrowed
    <3>2. Links(b.left) \subseteq PageNums /\ Links(b.right) \subseteq PageNums
      BY <1>1, <3>1 DEF LinksOf
    <3>3. /\ is_leaf(b.left) \/ is_internal(b.left)
          /\ is_leaf(b.right) \/ is_internal(b.right)
      BY <3>1, GoodPages
    <3> QED
      BY <2>1, <3>1, <3>2, <3>3, TreePageInPlace
  <2>5. DOMAIN pages = PageNums
    BY DEF LatchInv
  <2> HIDE DEF l, r
  <2>6. /\ moved[parent] = pages[parent] /\ DOMAIN moved = PageNums
        /\ \A x \in PageNums : moved[x] = pages[x] \/ InPlace(moved[x], x, meta.page_count)
    <3> HIDE DEF left, right, parent, sep
    <3> QED
      BY <1>1, <2>4, <2>5
  <2> HIDE DEF moved
  <2>7. CASE ~CanReplace(pages[parent], sep, b.sep)
    <3>1. pages' = moved /\ Fails(t)
      BY <2>3, <2>7
    <3>2. TableOK' /\ Used \subseteq Used'
      BY <1>0, <2>6, <3>1, PagesChange DEF PageInv
    <3> QED
      BY <1>0, <1>1, <3>1, <3>2, Failing_Pages
  <2>8. CASE CanReplace(pages[parent], sep, b.sep)
    <3>1. /\ pages' = [moved EXCEPT ![parent] = internal_replace_key(@, sep, b.sep)]
          /\ Return(t) /\ Silent
      BY <2>3, <2>8
    <3>2. InPlace(above, parent, meta.page_count)
      <4>1. GoodPage(above) /\ is_internal(above) /\ Links(above) = Links(pages[parent])
        BY <1>1, <2>4, <2>6, <2>8, KeyReplaced
      <4> HIDE DEF above
      <4> QED
        BY <1>1, <4>1, TreePageInPlace
    <3>3. \A x \in PageNums : pages'[x] = pages[x] \/ InPlace(pages'[x], x, meta.page_count)
      <4>1. pages'[parent] = above /\ \A x \in PageNums \ {parent} : pages'[x] = moved[x]
        BY <1>1, <2>6, <3>1
      <4> HIDE DEF above, parent
      <4> QED
        BY <2>6, <3>2, <4>1
    <3>4. TableOK' /\ Used \subseteq Used'
      BY <1>0, <3>3, PagesChange DEF PageInv
    <3> QED
      BY <1>0, <3>1, <3>4, CallEnded, PlanKept, AnswerKept DEF PageInv
  <2> QED
    BY <2>7, <2>8
<1> QED
  BY <1>2, <1>3

-----------------------------------------------------------------------------
(* The invariant.                                                             *)

LEMMA PageInit == Init => PageInv
<1> SUFFICES ASSUME Init PROVE PageInv
  OBVIOUS
<1>1. TableOK
  <2>1. /\ meta = [root |-> 1, page_count |-> 2, free_list_head |-> Nil]
        /\ pages = [p \in PageNums |-> IF p = 1 THEN leaf(<<>>, Nil, Nil) ELSE free(Nil)]
    BY DEF Init
  <2>2. 1 \in PageNums /\ 2 \in 2 .. MaxPages + 1 /\ 1 \in 1 .. 2 - 1
    BY ThreadAssumption DEF PageNums
  <2>3. meta \in [root : PageNums, page_count : 2 .. MaxPages + 1, free_list_head : PageNums \cup {Nil}]
    BY <2>1, <2>2
  <2> DEFINE q == leaf(<<>>, Nil, Nil)
  <2>4. InPlace(q, 1, 2)
    <3>1. <<>> \in Seq(Key) /\ Len(<<>>) = 0 /\ Increasing(<<>>)
      BY DEF Increasing
    <3>2. is_leaf(q) /\ ~is_free(q) /\ ~is_internal(q) /\ IsLeafPage(q) /\ IsPage(q) /\ q.keys = <<>>
      BY <3>1 DEF leaf, is_leaf, is_free, is_internal, IsLeafPage, IsPage
    <3>3. Bytes(q, q.keys) = 0
      BY <3>2, NoBytes
    <3>4. free_space(q) >= 0
      <4>1. LEAF_USABLE \in Int /\ LEAF_USABLE >= 0
        BY SizeAssumption DEF LEAF_USABLE, MAX_LEAF_HEADER_SIZE, PAGE_ID_SIZE
      <4>2. free_space(q) = LEAF_USABLE - 0
        BY <3>2, <3>3, PageFits DEF USABLE
      <4> QED
        BY <4>1, <4>2
    <3>5. GoodPage(q)
      BY <3>1, <3>2, <3>4, Checked
    <3>6. Links(q) = {}
      BY <3>2 DEF Links, leaf
    <3> QED
      BY <2>2, <3>2, <3>5, <3>6 DEF InPlace
  <2>5. InPlace(free(Nil), 2, 2) /\ \A p : InPlace(free(Nil), p, 2)
    BY FreePage DEF InPlace
  <2> HIDE DEF q
  <2>6. \A p \in PageNums : InPlace(pages[p], p, meta.page_count)
    BY <2>1, <2>4, <2>5 DEF q
  <2>7. meta.free_list_head \in Used \cup {Nil}
    BY <2>1
  <2> QED
    BY <2>3, <2>6, <2>7 DEF TableOK
<1>2. LatchesOK /\ AnswersOK
  BY DEF Init, LatchesOK, AnswersOK
<1>3. PlanOK
  BY PlanAssumption DEF Init, PlanOK
<1>4. ASSUME NEW t \in Threads PROVE CallOK(th[t])
  <2>1. /\ th[t].pc = "idle" /\ th[t].op = "none" /\ th[t].stack = <<>> /\ th[t].seen = <<>>
    BY DEF Init, Idle
  <2>2. <<>> \in Seq(Key) /\ DOMAIN <<>> = {}
    OBVIOUS
  <2>3. Asked(th[t]) /\ PathOK(th[t])
    BY <2>1, <2>2 DEF Asked, PathOK
  <2>4. PageOK(th[t]) /\ SplitOK(th[t]) /\ JoinOK(th[t]) /\ SwapOK(th[t])
    BY <2>1 DEF PageOK, SplitOK, JoinOK, SwapOK
  <2> QED
    BY <2>3, <2>4 DEF CallOK
<1> QED
  BY <1>1, <1>2, <1>3, <1>4 DEF PageInv

LEMMA PageStep == LatchInv /\ PageInv /\ [Next]_vars => PageInv'
<1> SUFFICES ASSUME LatchInv, PageInv, [Next]_vars
             PROVE  PageInv'
  OBVIOUS
<1>1. HandsKept
  BY LatchStep
<1>2. CASE UNCHANGED vars
  <2>1. /\ th' = th /\ pages' = pages /\ meta' = meta /\ writer' = writer /\ readers' = readers
        /\ plan' = plan /\ script' = script /\ answer' = answer
    BY <1>2 DEF vars
  <2>2. TableOK' /\ Used' = Used
    BY <2>1, TableStays DEF PageInv, KeepTable
  <2>3. LatchesOK' /\ PlanOK' /\ AnswersOK'
    BY <2>1 DEF PageInv, LatchesOK, PlanOK, AnswersOK
  <2>4. ASSUME NEW t \in Threads PROVE CallOK(th[t])'
    BY <1>1, <2>1, <2>2, OtherCallStays DEF PageInv
  <2> QED
    BY <2>2, <2>3, <2>4 DEF PageInv
<1>3. CASE Next
  <2>1. PICK t \in Threads : Begin(t) \/ Resume(t)
    BY <1>3 DEF Next
  <2>2. CASE Begin(t)
    BY <2>2, Begin_Pages
  <2>3. CASE Local(t)
    BY <1>1, <2>3, Descend_Pages, Returning_Pages, Collect_Pages, InsertFits_Pages,
       InsertSplits_Pages, SplitLeaf_Pages, Place_Pages, InsertSeparator_Pages, ParentFull_Pages,
       NoParent_Pages, SplitInternal_Pages, DeleteRow_Pages, Balanced_Pages, JoinRight_Pages,
       JoinLeft_Pages, Merge_Pages, Borrow_Pages, VacuumBuilds_Pages
    DEF Local
  <2>4. CASE Fetching(t)
    BY <1>1, <2>4, ReadRootId_Pages, LatchRoot_Pages, Returning_Pages, CheckRoot_Pages,
       LatchChild_Pages, AllocNew_Pages, AllocHead_Pages, AllocPop_Pages, Relink_Pages,
       NewRoot_Pages, LatchPair_Pages, Unlink_Pages, FreeRight_Pages, Shrink_Pages,
       SetRoot_Pages, FreeRoot_Pages, SwapFile_Pages
    DEF Fetching
  <2>5. CASE FetchPoisoned(t)
    BY <2>5, Returning_Pages
  <2> QED
    BY <2>1, <2>2, <2>3, <2>4, <2>5 DEF Resume
<1> QED
  BY <1>2, <1>3

(* Whatever rows are put in, taken out and moved, by how many threads ever:   *)
(* every page can be written out and read back, every number in it is that of *)
(* a page, a free page's that of a page in the file, and what a call is about *)
(* to split, join, free or hand over is what it must be for that.             *)
THEOREM PagesWellFormed == Spec => []PageInv
<1>1. Init => LatchInv /\ PageInv
  BY LatchInit, PageInit
<1>2. LatchInv /\ PageInv /\ [Next]_vars => LatchInv' /\ PageInv'
  BY LatchStep, PageStep
<1> QED
  BY <1>1, <1>2, PTL DEF Spec

(* The types of BTree, for every number of keys, threads and pages: no page   *)
(* ever takes more than it holds, no root, child, neighbour or free list link *)
(* names a page outside the table, and every answer is one of the API's.      *)
THEOREM TypesHold == Spec => []TypeOK
<1>1. PageInv => TypeOK
  <2> SUFFICES ASSUME PageInv PROVE TypeOK
    OBVIOUS
  <2>1. TableOK
    BY DEF PageInv
  <2>2. ASSUME NEW p \in PageNums
        PROVE  /\ free_space(pages[p]) >= 0
               /\ \/ is_leaf(pages[p]) /\ {pages[p].next, pages[p].prev} \subseteq PageNums \cup {Nil}
                  \/ is_internal(pages[p]) /\ \A i \in DOMAIN pages[p].children : pages[p].children[i] \in PageNums
                  \/ is_free(pages[p]) /\ pages[p].next \in PageNums \cup {Nil}
    <3>1. GoodPage(pages[p]) /\ Links(pages[p]) \subseteq PageNums
      BY <2>1, TableIs
    <3>2. free_space(pages[p]) >= 0
      BY <3>1, GoodPages
    <3>3. CASE is_leaf(pages[p])
      BY <3>1, <3>2, <3>3 DEF Links, is_leaf, is_internal
    <3>4. CASE is_internal(pages[p])
      BY <3>1, <3>2, <3>4 DEF Links
    <3>5. CASE is_free(pages[p])
      BY <3>1, <3>2, <3>5 DEF Links, is_free, is_leaf, is_internal
    <3> QED
      BY <3>1, <3>3, <3>4, <3>5, GoodPages
  <2> QED
    BY <2>1, <2>2 DEF TypeOK, TableOK, PageInv, LatchesOK, AnswersOK
<1> QED
  BY <1>1, PagesWellFormed, PTL

(* Whatever a call puts on a page can be written out the moment the latch is  *)
(* dropped and is read back the same, and the free list's head is in the file.*)
THEOREM WrittenPagesReadBack == Spec => PagesReadBack
<1>1. PageInv' =>
        [/\ \A p \in PageNums : pages'[p] # pages[p] => ReadsBack(pages'[p])
         /\ meta'.free_list_head # Nil => meta'.free_list_head < meta'.page_count]_<<pages, meta>>
  <2> SUFFICES ASSUME PageInv'
               PROVE  /\ \A p \in PageNums : ReadsBack(pages'[p])
                      /\ meta'.free_list_head # Nil => meta'.free_list_head < meta'.page_count
    OBVIOUS
  <2>1. /\ \A p \in PageNums : InPlace(pages'[p], p, meta'.page_count)
        /\ meta'.free_list_head \in 1 .. meta'.page_count - 1 \cup {Nil}
        /\ meta'.page_count \in 2 .. MaxPages + 1
    BY DEF PageInv, TableOK, Used
  <2>2. ASSUME NEW p \in PageNums PROVE ReadsBack(pages'[p])
    BY <2>1, FittingPagesReadBack DEF InPlace, GoodPage
  <2>3. meta'.free_list_head # Nil => meta'.free_list_head < meta'.page_count
    BY <2>1, ThreadAssumption
  <2> QED
    BY <2>2, <2>3
<1> QED
  BY <1>1, PagesWellFormed, PTL DEF Spec, PagesReadBack
=============================================================================
