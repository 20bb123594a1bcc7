-------------------------- MODULE BTreeLatchProofs --------------------------
(* The latches of BTree: whatever the pages hold and whatever the threads are *)
(* asked to do, a call has latched every page it counts on, in the mode it    *)
(* needs, and so nobody else changes one of them.  Nothing is assumed about   *)
(* the shape of the tree: a page number may even be one that does not exist.  *)
EXTENDS BTree, SequenceTheorems, TLAPS

Fields == {"pc", "op", "key", "page", "next", "stack", "why", "fresh", "parent",
           "left", "right", "sep", "side", "seen"}

PagesOn(s) == {s[i].page : i \in DOMAIN s}
IsPath(s) ==
    /\ s \in Seq({s[i] : i \in DOMAIN s})
    /\ \A i, j \in DOMAIN s : s[i].page = s[j].page /\ s[i].page \in AllPages => i = j

(* What a call may be doing at each place.                                    *)
OpFits(t) ==
    /\ th[t].pc \in {"alloc", "pop", "fresh", "relink", "place", "up"} => th[t].op = "insert"
    /\ th[t].pc \in {"balance", "left", "right", "join", "unlink", "free",
                     "shrink", "new_root", "free_root"} => th[t].op = "delete"

(* The pages in hand are different pages: dropping one keeps the others.      *)
Apart(t) ==
    /\ Working(t) \cap StackPages(t) \cap AllPages = {}
    /\ th[t].pc = "pop" => Meta \notin Splitting(t)
    /\ th[t].parent \in AllPages =>
          /\ th[t].pc = "right" => th[t].parent # th[t].left
          /\ th[t].pc \in {"join", "unlink", "free"} => th[t].parent \notin {th[t].left, th[t].right}

CallShape(t) ==
    /\ DOMAIN th[t] = Fields
    /\ OpFits(t)
    /\ IsPath(th[t].stack)
    /\ ~Writes(t) => th[t].stack = <<>>
    /\ Apart(t)

Has(t, p) == IF Writes(t) THEN writer[p] = t ELSE t \in readers[p]

(* A latch has one writer or some readers.                                    *)
Exclusive == \A p \in AllPages : writer[p] # Nil => readers[p] = {}

LatchInv ==
    /\ DOMAIN th = Threads /\ DOMAIN pages = PageNums
    /\ Exclusive
    /\ \A t \in Threads : CallShape(t) /\ \A p \in InHand(t) : Has(t, p)

(* What PagesInHandStay says of one step.                                     *)
HandsKept == \A u \in Threads : th'[u] = th[u] =>
                 \A p \in InHand(u) : Content(p)' = Content(p)

-----------------------------------------------------------------------------
(* Paths.                                                                     *)

LEMMA EmptyPath == IsPath(<<>>) /\ PagesOn(<<>>) = {}
BY SMT DEF IsPath, PagesOn

LEMMA PathPushed ==
    ASSUME NEW s, NEW r, IsPath(s), r.page \in PagesOn(s) => r.page \notin AllPages
    PROVE  /\ IsPath(Append(s, r))
           /\ PagesOn(Append(s, r)) = PagesOn(s) \cup {r.page}
<1> DEFINE S == {s[i] : i \in DOMAIN s}
           a == Append(s, r)
<1>1. s \in Seq(S \cup {r}) /\ Len(s) \in Nat /\ DOMAIN s = 1 .. Len(s)
  <2>1. s \in Seq(S)
    BY DEF IsPath
  <2>2. \A i \in 1 .. Len(s) : s[i] \in S
    BY <2>1, ElementOfSeq
  <2> QED
    BY <2>1, <2>2, SMT
<1>2. /\ a \in Seq(S \cup {r}) /\ Len(a) = Len(s) + 1
      /\ \A i \in 1 .. Len(s) : a[i] = s[i]
      /\ a[Len(s) + 1] = r
  BY <1>1, AppendProperties
<1>3. DOMAIN a = 1 .. Len(s) + 1
  BY <1>1, <1>2, SMT
<1> HIDE DEF a
<1>4. PagesOn(a) = PagesOn(s) \cup {r.page}
  BY <1>1, <1>2, <1>3, SMT DEF PagesOn
<1>5. a \in Seq({a[i] : i \in DOMAIN a})
  <2>1. a = [i \in 1 .. Len(a) |-> a[i]]
    BY <1>2, SeqDef, SMT
  <2> QED
    BY <2>1, <1>1, <1>2, <1>3, SMT
<1>6. \A i, j \in DOMAIN a : a[i].page = a[j].page /\ a[i].page \in AllPages => i = j
  <2> HIDE DEF S
  <2> QED
    BY <1>1, <1>2, <1>3, SMT DEF IsPath, PagesOn
<1> QED
  BY <1>4, <1>5, <1>6 DEF IsPath, a

LEMMA PathPopped ==
    ASSUME NEW s, IsPath(s), s # <<>>
    PROVE  LET rest == Upto(Len(s) - 1, s)
               top == s[Len(s)].page
           IN /\ IsPath(rest)
              /\ PagesOn(s) = PagesOn(rest) \cup {top}
              /\ top \in PagesOn(rest) => top \notin AllPages
<1> DEFINE rest == Upto(Len(s) - 1, s)
           top == s[Len(s)].page
           S == {s[i] : i \in DOMAIN s}
<1>1. s \in Seq(S) /\ Len(s) \in Nat \ {0} /\ DOMAIN s = 1 .. Len(s)
  BY EmptySeq, SMT DEF IsPath
<1>2. /\ rest \in Seq(S) /\ DOMAIN rest = 1 .. Len(s) - 1
      /\ \A i \in 1 .. Len(s) - 1 : rest[i] = s[i]
  <2> HIDE DEF S
  <2> QED
    BY <1>1, SMT DEF Upto
<1> HIDE DEF rest, S
<1>3. rest \in Seq({rest[i] : i \in DOMAIN rest})
  BY <1>1, <1>2, SeqDef, SMT
<1>4. \A i, j \in DOMAIN rest : rest[i].page = rest[j].page /\ rest[i].page \in AllPages => i = j
  BY <1>1, <1>2, SMTT(30) DEF IsPath
<1>5. PagesOn(s) = PagesOn(rest) \cup {top}
  BY <1>1, <1>2, SMT DEF PagesOn
<1>6. ASSUME top \in PagesOn(rest), top \in AllPages
      PROVE  FALSE
  <2>1. PICK i \in 1 .. Len(s) - 1 : s[i].page = top
    BY <1>2, <1>6 DEF PagesOn
  <2>2. ASSUME NEW n \in Nat \ {0}, NEW j \in 1 .. n - 1
        PROVE  j \in 1 .. n /\ n \in 1 .. n /\ j # n
    OBVIOUS
  <2>3. i \in DOMAIN s /\ Len(s) \in DOMAIN s /\ i # Len(s)
    BY <1>1, <2>2, Zenon
  <2> QED
    BY <2>1, <2>3, <1>6, Zenon DEF IsPath
<1> QED
  BY <1>3, <1>4, <1>5, <1>6 DEF IsPath, rest
-----------------------------------------------------------------------------
(* What every step shares.                                                    *)

LEMMA HandsDisjoint ==
    ASSUME NEW t \in Threads, LatchInv, NEW p \in AllPages, Writes(t), CanWrite(p)
    PROVE  p \notin InHand(t)
BY ThreadAssumption DEF LatchInv, Has, CanWrite

(* t takes latches that are free and drops some of its own: no other call     *)
(* notices, and t has what it kept and what it took.                          *)
LEMMA LatchesMove ==
    ASSUME NEW t \in Threads, LatchInv, NEW add, NEW drop,
           Latch(t, add, drop), \A p \in add \cap AllPages : CanLatch(t, p)
    PROVE  /\ Exclusive'
           /\ \A u \in Threads \ {t}, p \in AllPages :
                 /\ writer[p] = u => writer'[p] = u
                 /\ u \in readers[p] => u \in readers'[p]
           /\ \A p \in AllPages : p \in add \/ (Has(t, p) /\ p \notin drop) =>
                 IF Writes(t) THEN writer'[p] = t ELSE t \in readers'[p]
<1>1. ASSUME NEW p \in AllPages
      PROVE  /\ writer'[p] = IF Writes(t) /\ p \in add THEN t
                             ELSE IF p \in drop /\ writer[p] = t THEN Nil ELSE writer[p]
             /\ readers'[p] = IF ~Writes(t) /\ p \in add THEN readers[p] \cup {t}
                              ELSE IF p \in drop THEN readers[p] \ {t} ELSE readers[p]
  BY Zenon DEF Latch
<1>2. \A p \in add \cap AllPages : writer[p] = Nil /\ (Writes(t) => readers[p] = {})
  BY DEF CanLatch, CanWrite, CanRead
<1>3. \A p \in AllPages : writer[p] # Nil => readers[p] = {}
  BY DEF LatchInv, Exclusive
<1>4. Exclusive'
  BY <1>1, <1>2, <1>3 DEF Exclusive
<1> QED
  BY <1>1, <1>2, <1>4, ThreadAssumption DEF Has

(* So whoever does not move keeps its part of the invariant.                  *)
LEMMA OthersStay ==
    ASSUME NEW t \in Threads, LatchInv, NEW add, NEW drop,
           \/ Latch(t, add, drop) /\ \A p \in add \cap AllPages : CanLatch(t, p)
           \/ KeepLatches /\ add = {} /\ drop = {},
           \A u \in Threads \ {t} : th'[u] = th[u]
    PROVE  /\ Exclusive'
           /\ \A u \in Threads \ {t} : CallShape(u)' /\ \A p \in InHand(u)' : Has(u, p)'
           /\ \A p \in AllPages : p \in add \/ (Has(t, p) /\ p \notin drop) =>
                 IF Writes(t) THEN writer'[p] = t ELSE t \in readers'[p]
<1>1. /\ Exclusive'
      /\ \A u \in Threads \ {t}, p \in AllPages :
            /\ writer[p] = u => writer'[p] = u
            /\ u \in readers[p] => u \in readers'[p]
      /\ \A p \in AllPages : p \in add \/ (Has(t, p) /\ p \notin drop) =>
            IF Writes(t) THEN writer'[p] = t ELSE t \in readers'[p]
  <2>1. CASE Latch(t, add, drop) /\ \A p \in add \cap AllPages : CanLatch(t, p)
    BY <2>1, LatchesMove
  <2>2. CASE KeepLatches /\ add = {} /\ drop = {}
    BY <2>2 DEF KeepLatches, LatchInv, Exclusive, Has
  <2> QED
    BY <2>1, <2>2
<1>2. ASSUME NEW u \in Threads \ {t}
      PROVE  CallShape(u)' /\ \A p \in InHand(u)' : Has(u, p)'
  <2>1. th'[u] = th[u]
    OBVIOUS
  <2>2. CallShape(u) /\ \A p \in InHand(u) : Has(u, p)
    BY DEF LatchInv
  <2>3. CallShape(u)'
    BY <2>1, <2>2, SMTT(30) DEF CallShape, OpFits, Apart, Working, Splitting, StackPages, Writes
  <2>4. InHand(u)' = InHand(u) /\ (Writes(u)' <=> Writes(u))
    BY <2>1 DEF InHand, Working, Splitting, StackPages, Writes
  <2> QED
    BY <2>2, <2>3, <2>4, <1>1 DEF Has, InHand
<1> QED
  BY <1>1, <1>2

(* The step of a call that goes on, told from its own view.                   *)
LEMMA CallMoves ==
    ASSUME NEW t \in Threads, LatchInv, NEW add, NEW drop,
           \/ Latch(t, add, drop) /\ \A p \in add \cap AllPages : CanLatch(t, p)
           \/ KeepLatches /\ add = {} /\ drop = {},
           DOMAIN th' = Threads, \A u \in Threads \ {t} : th'[u] = th[u],
           DOMAIN pages' = PageNums,
           CallShape(t)',
           Writes(t)' <=> Writes(t),
           \A p \in InHand(t)' : p \in add \/ (p \in InHand(t) /\ p \notin drop)
    PROVE  LatchInv'
<1>1. /\ Exclusive'
      /\ \A u \in Threads \ {t} : CallShape(u)' /\ \A p \in InHand(u)' : Has(u, p)'
      /\ \A p \in AllPages : p \in add \/ (Has(t, p) /\ p \notin drop) =>
            IF Writes(t) THEN writer'[p] = t ELSE t \in readers'[p]
  BY OthersStay
<1>2. ASSUME NEW p \in InHand(t)'
      PROVE  Has(t, p)'
  <2>1. p \in AllPages
    BY <1>2 DEF InHand
  <2>2. p \in add \/ (Has(t, p) /\ p \notin drop)
    BY <1>2 DEF LatchInv
  <2> QED
    BY <2>1, <2>2, <1>1 DEF Has
<1> QED
  BY <1>1, <1>2 DEF LatchInv

(* The same, for a step that takes no latch and drops none.                   *)
LEMMA CallKeeps ==
    ASSUME NEW t \in Threads, LatchInv, KeepLatches,
           DOMAIN th' = Threads, \A u \in Threads \ {t} : th'[u] = th[u],
           DOMAIN pages' = PageNums,
           CallShape(t)',
           Writes(t)' <=> Writes(t),
           InHand(t)' \subseteq InHand(t)
    PROVE  LatchInv'
<1> DEFINE none == {}
<1>1. KeepLatches /\ none = {} /\ \A p \in InHand(t)' : p \in none \/ (p \in InHand(t) /\ p \notin none)
  OBVIOUS
<1> HIDE DEF none
<1> QED
  BY <1>1, CallMoves, Zenon

LEMMA CallReturns ==
    ASSUME NEW t \in Threads, LatchInv, Return(t) \/ Panics(t), DOMAIN pages' = PageNums
    PROVE  LatchInv'
<1>1. /\ DOMAIN th' = Threads /\ \A u \in Threads \ {t} : th'[u] = th[u]
      /\ Latch(t, {}, AllPages)
      /\ th'[t] = Idle \/ th'[t] = [Idle EXCEPT !.pc = "panicked"]
  BY DEF Return, Panics, LatchInv
<1>2. /\ DOMAIN th'[t] = Fields /\ th'[t].pc \in {"idle", "panicked"}
      /\ th'[t].op = "none" /\ th'[t].stack = <<>>
  BY <1>1 DEF Idle, Fields
<1>3. InHand(t)' = {} /\ Working(t)' = {} /\ ~Writes(t)'
  BY <1>2 DEF InHand, Working, Splitting, StackPages, Writes
<1>4. CallShape(t)'
  BY <1>2, <1>3, EmptyPath DEF CallShape, OpFits, Apart
<1>5. /\ Exclusive'
      /\ \A u \in Threads \ {t} : CallShape(u)' /\ \A p \in InHand(u)' : Has(u, p)'
  BY <1>1, OthersStay
<1> QED
  BY <1>1, <1>3, <1>4, <1>5 DEF LatchInv

(* A step that changes only pages nobody else has, if any.                    *)
LEMMA OwnPagesOnly ==
    ASSUME NEW t \in Threads, LatchInv, NEW changed,
           \A p \in PageNums \ changed : pages'[p] = pages[p],
           Meta \in changed \/ meta' = meta,
           \A p \in changed \cap AllPages : writer[p] = t \/ CanWrite(p),
           changed = {} \/ th'[t] # th[t]
    PROVE  HandsKept
<1> SUFFICES ASSUME NEW u \in Threads, th'[u] = th[u], NEW p \in InHand(u)
             PROVE  Content(p)' = Content(p)
  BY DEF HandsKept
<1>1. p \in AllPages /\ Has(u, p)
  BY DEF LatchInv, InHand
<1>2. p \notin changed
  BY <1>1, ThreadAssumption DEF Has, CanWrite, LatchInv, Exclusive
<1> QED
  BY <1>1, <1>2 DEF Content, AllPages
-----------------------------------------------------------------------------
(* The steps, in the order of BTree.                                          *)

LEMMA TableKept ==
    ASSUME NEW t \in Threads, LatchInv, KeepTable
    PROVE  DOMAIN pages' = PageNums /\ HandsKept
BY DEF KeepTable, LatchInv, HandsKept, Content

LEMMA ReadRootId_Inv ==
    ASSUME NEW t \in Threads, LatchInv, ReadRootId(t)
    PROVE  LatchInv' /\ HandsKept
<1>1. CallShape(t) /\ DOMAIN th = Threads
  BY DEF LatchInv
<1>2. /\ th[t].pc = "root_id" /\ th'[t].pc = "root"
      /\ th'[t].op = th[t].op /\ th'[t].stack = th[t].stack
      /\ DOMAIN th'[t] = Fields /\ DOMAIN th' = Threads
      /\ \A u \in Threads \ {t} : th'[u] = th[u]
  BY <1>1 DEF ReadRootId, CallShape, Fields
<1>3. CallShape(t)' /\ InHand(t)' = InHand(t) /\ (Writes(t)' <=> Writes(t))
  BY <1>1, <1>2 DEF CallShape, OpFits, Apart, InHand, Working, Splitting, StackPages, Writes
<1>4. LatchInv'
  BY <1>2, <1>3, TableKept, CallKeeps DEF ReadRootId
<1> QED
  BY <1>4, TableKept DEF ReadRootId

LEMMA LatchRoot_Inv ==
    ASSUME NEW t \in Threads, LatchInv, LatchRoot(t)
    PROVE  LatchInv' /\ HandsKept
<1> DEFINE p == th[t].page
<1>1. CallShape(t) /\ DOMAIN th = Threads
  BY DEF LatchInv
<1>2. /\ th[t].pc = "root" /\ th'[t].pc = "check" /\ th'[t].page = p
      /\ th'[t].op = th[t].op /\ th'[t].stack = th[t].stack
      /\ DOMAIN th'[t] = Fields /\ DOMAIN th' = Threads
      /\ \A u \in Threads \ {t} : th'[u] = th[u]
  BY <1>1 DEF LatchRoot, CallShape, Fields
<1>3. (Writes(t)' <=> Writes(t)) /\ Working(t)' = {p} /\ StackPages(t)' = StackPages(t)
  BY <1>2 DEF Working, Splitting, StackPages, Writes
<1>4. p \notin StackPages(t) \/ p \notin AllPages
  BY <1>1, HandsDisjoint DEF LatchRoot, CanLatch, CallShape, StackPages, InHand
<1>5. CallShape(t)'
  BY <1>1, <1>2, <1>3, <1>4 DEF CallShape, OpFits, Apart, Writes
<1>6. LatchInv'
  BY <1>2, <1>3, <1>5, TableKept, CallMoves DEF LatchRoot, InHand
<1> QED
  BY <1>6, TableKept DEF LatchRoot

(* Calls that end, with nothing changed.                                      *)
LEMMA Returning_Inv ==
    ASSUME NEW t \in Threads, LatchInv,
           \/ RootGone(t) \/ Get(t) \/ EndScan(t) \/ InsertDuplicate(t) \/ DeleteNothing(t)
           \/ SwapPanics(t) \/ FetchPoisoned(t)
    PROVE  LatchInv' /\ HandsKept
<1>1. KeepTable /\ (Return(t) \/ Panics(t))
  BY DEF RootGone, Get, EndScan, InsertDuplicate, DeleteNothing, SwapPanics, FetchPoisoned
<1> QED
  BY <1>1, TableKept, CallReturns

LEMMA Begin_Inv ==
    ASSUME NEW t \in Threads, LatchInv, Begin(t)
    PROVE  LatchInv' /\ HandsKept
<1>1. KeepTable /\ KeepLatches
  BY DEF Begin
<1>2. /\ DOMAIN th' = Threads /\ \A u \in Threads \ {t} : th'[u] = th[u]
      /\ DOMAIN th'[t] = Fields /\ th'[t].pc = "root_id" /\ th'[t].stack = <<>>
  <2>1. DOMAIN th = Threads
    BY DEF LatchInv
  <2>2. ASSUME NEW o, NEW k, th' = [th EXCEPT ![t] = [Idle EXCEPT !.pc = "root_id", !.op = o, !.key = k]]
        PROVE  /\ DOMAIN th' = Threads /\ \A u \in Threads \ {t} : th'[u] = th[u]
               /\ DOMAIN th'[t] = Fields /\ th'[t].pc = "root_id" /\ th'[t].stack = <<>>
    BY <2>1, <2>2 DEF Idle, Fields
  <2> QED
    BY <2>2, Zenon DEF Begin
<1>3. InHand(t)' = {} /\ CallShape(t)'
  BY <1>2, EmptyPath DEF InHand, Working, StackPages, PagesOn, CallShape, OpFits, Apart
<1>4. /\ Exclusive'
      /\ \A u \in Threads \ {t} : CallShape(u)' /\ \A p \in InHand(u)' : Has(u, p)'
  <2> DEFINE none == {}
  <2>1. KeepLatches /\ none = {}
    BY <1>1
  <2> HIDE DEF none
  <2> QED
    BY <2>1, <1>2, OthersStay
<1> QED
  BY <1>1, <1>2, <1>3, <1>4, TableKept DEF LatchInv

LEMMA CheckRoot_Inv ==
    ASSUME NEW t \in Threads, LatchInv, CheckRoot(t)
    PROVE  LatchInv' /\ HandsKept
<1> DEFINE p == th[t].page
<1>1. CallShape(t) /\ DOMAIN th = Threads /\ DOMAIN pages' = PageNums
  BY TableKept DEF LatchInv, CheckRoot
<1>2. /\ th[t].pc = "check" /\ th'[t].page = p
      /\ th'[t].op = th[t].op /\ th'[t].stack = th[t].stack
      /\ DOMAIN th'[t] = Fields /\ DOMAIN th' = Threads
      /\ \A u \in Threads \ {t} : th'[u] = th[u]
      /\ \/ th'[t].pc = "at" /\ KeepLatches
         \/ th'[t].pc = "root_id" /\ Latch(t, {}, {p})
  BY <1>1 DEF CheckRoot, CallShape, Fields
<1>3. (Writes(t)' <=> Writes(t)) /\ StackPages(t)' = StackPages(t) /\ Working(t) = {p}
  BY <1>2 DEF Writes, StackPages, Working
<1>4. CASE th'[t].pc = "at" /\ KeepLatches
  <2>1. InHand(t)' = InHand(t) /\ CallShape(t)'
    BY <1>1, <1>2, <1>3, <1>4 DEF CallShape, OpFits, Apart, InHand, Working, Writes
  <2> QED
    BY <1>1, <1>2, <1>3, <1>4, <2>1, CallKeeps, TableKept DEF CheckRoot
<1>5. CASE th'[t].pc = "root_id" /\ Latch(t, {}, {p})
  <2>1. Working(t)' = {} /\ p \notin StackPages(t) \cap AllPages
    BY <1>1, <1>3, <1>5 DEF Working, CallShape, Apart
  <2>2. CallShape(t)'
    BY <1>1, <1>2, <1>3, <1>5, <2>1 DEF CallShape, OpFits, Apart, Writes
  <2>3. LatchInv'
    BY <1>1, <1>2, <1>3, <1>5, <2>1, <2>2, CallMoves DEF InHand
  <2> QED
    BY <2>3, TableKept DEF CheckRoot
<1> QED
  BY <1>2, <1>4, <1>5

LEMMA Descend_Inv ==
    ASSUME NEW t \in Threads, LatchInv, Descend(t)
    PROVE  LatchInv' /\ HandsKept
<1> DEFINE p == th[t].page
           pg == pages[p]
           above == DropsAbove(t, pg)
           entry == [page |-> p, idx |-> ChildPos(t, pg)]
           drop == IF above THEN StackPages(t) ELSE {}
<1>1. CallShape(t) /\ DOMAIN th = Threads /\ DOMAIN pages' = PageNums
  BY TableKept DEF LatchInv, Descend
<1>2. /\ th[t].pc = "at" /\ th'[t].pc = "child" /\ th'[t].page = p
      /\ th'[t].op = th[t].op
      /\ th'[t].stack = IF Writes(t) THEN Append(IF above THEN <<>> ELSE th[t].stack, entry) ELSE <<>>
      /\ DOMAIN th'[t] = Fields /\ DOMAIN th' = Threads
      /\ \A u \in Threads \ {t} : th'[u] = th[u]
      /\ Latch(t, {}, drop)
  BY <1>1 DEF Descend, CallShape, Fields
<1> HIDE DEF pg, above, drop
<1>3. /\ (Writes(t)' <=> Writes(t)) /\ StackPages(t) = PagesOn(th[t].stack)
      /\ StackPages(t)' = PagesOn(th'[t].stack) /\ Working(t) = {p}
      /\ Working(t)' = IF Writes(t) THEN {} ELSE {p}
  BY <1>2 DEF Writes, StackPages, PagesOn, Working
<1>4. /\ entry.page = p /\ p \notin StackPages(t) \cap AllPages
      /\ IsPath(th[t].stack)
  BY <1>1, <1>3 DEF CallShape, Apart
<1>5. CASE Writes(t)
  <2> DEFINE kept == IF above THEN <<>> ELSE th[t].stack
  <2>1. IsPath(kept) /\ PagesOn(kept) \subseteq StackPages(t)
    BY <1>3, <1>4, EmptyPath
  <2>2. entry.page \in PagesOn(kept) => entry.page \notin AllPages
    BY <1>4, <2>1
  <2> HIDE DEF entry, kept
  <2>3. IsPath(Append(kept, entry)) /\ PagesOn(Append(kept, entry)) = PagesOn(kept) \cup {p}
    BY <1>4, <2>1, <2>2, PathPushed
  <2>4. IsPath(th'[t].stack) /\ PagesOn(th'[t].stack) = PagesOn(kept) \cup {p}
    BY <1>2, <1>5, <2>3 DEF kept
  <2>5. CallShape(t)'
    BY <1>2, <1>3, <1>5, <2>4 DEF CallShape, OpFits, Apart, Writes
  <2>6. \A q \in InHand(t)' : q \in InHand(t) /\ q \notin drop
    BY <1>3, <1>4, <1>5, <2>4, EmptyPath DEF InHand, drop, kept
  <2> HIDE DEF entry
  <2>7. LatchInv'
    BY <1>1, <1>2, <1>3, <2>5, <2>6, CallMoves
  <2> QED
    BY <2>7, TableKept DEF Descend
<1>6. CASE ~Writes(t)
  <2>1. StackPages(t) = {} /\ StackPages(t)' = {}
    BY <1>1, <1>2, <1>3, <1>6, EmptyPath DEF CallShape
  <2>2. CallShape(t)'
    BY <1>2, <1>3, <1>6, <2>1, EmptyPath DEF CallShape, OpFits, Apart, Writes
  <2>3. \A q \in InHand(t)' : q \in InHand(t) /\ q \notin drop
    BY <1>3, <1>6, <2>1 DEF InHand, drop
  <2> HIDE DEF entry
  <2>4. LatchInv'
    BY <1>1, <1>2, <1>3, <2>2, <2>3, CallMoves
  <2> QED
    BY <2>4, TableKept DEF Descend
<1> QED
  BY <1>5, <1>6

LEMMA LatchChild_Inv ==
    ASSUME NEW t \in Threads, LatchInv, LatchChild(t)
    PROVE  LatchInv' /\ HandsKept
<1> DEFINE n == th[t].next
           clear == StopsHere(t, pages[n])
           drop == IF ~Writes(t) THEN {th[t].page} ELSE IF clear THEN StackPages(t) ELSE {}
<1>1. CallShape(t) /\ DOMAIN th = Threads /\ DOMAIN pages' = PageNums
  BY TableKept DEF LatchInv, LatchChild
<1>2. /\ th[t].pc = "child" /\ th'[t].pc = "at" /\ th'[t].page = n
      /\ th'[t].op = th[t].op
      /\ th'[t].stack = IF clear THEN <<>> ELSE th[t].stack
      /\ DOMAIN th'[t] = Fields /\ DOMAIN th' = Threads
      /\ \A u \in Threads \ {t} : th'[u] = th[u]
      /\ CanLatch(t, n) /\ Latch(t, {n}, drop)
  BY <1>1 DEF LatchChild, CallShape, Fields
<1> HIDE DEF clear, drop
<1>3. /\ (Writes(t)' <=> Writes(t)) /\ StackPages(t) = PagesOn(th[t].stack)
      /\ StackPages(t)' = PagesOn(th'[t].stack) /\ Working(t)' = {n}
  BY <1>2 DEF Writes, StackPages, PagesOn, Working
<1>4. /\ n \notin StackPages(t) \/ n \notin AllPages
      /\ ~Writes(t) => StackPages(t) = {}
  BY <1>1, <1>2, <1>3, HandsDisjoint, EmptyPath DEF CanLatch, InHand, CallShape
<1>5. StackPages(t)' = IF clear THEN {} ELSE StackPages(t)
  BY <1>2, <1>3, EmptyPath
<1>6. CallShape(t)'
  BY <1>1, <1>2, <1>3, <1>4, <1>5, EmptyPath DEF CallShape, OpFits, Apart, Writes
<1>7. \A q \in InHand(t)' : q \in {n} \/ (q \in InHand(t) /\ q \notin drop)
  BY <1>3, <1>4, <1>5 DEF InHand, drop
<1>8. LatchInv'
  BY <1>1, <1>2, <1>3, <1>6, <1>7, CallMoves
<1> QED
  BY <1>8, TableKept DEF LatchChild

LEMMA Collect_Inv ==
    ASSUME NEW t \in Threads, LatchInv, Collect(t)
    PROVE  LatchInv' /\ HandsKept
<1>0. KeepTable
  BY Zenon DEF Collect
<1>1. CallShape(t) /\ DOMAIN th = Threads /\ DOMAIN pages' = PageNums
  BY <1>0, TableKept DEF LatchInv
<1>2. CASE ~is_leaf(pages[th[t].page])
  <2>1. Panics(t)
    BY <1>2 DEF Collect
  <2> QED
    BY <2>1, TableKept, CallReturns DEF Collect
<1>3. CASE is_leaf(pages[th[t].page])
  <2>1. /\ th[t].pc = "at" /\ th'[t].pc \in {"scanned", "child"}
        /\ th'[t].op = th[t].op /\ th'[t].stack = th[t].stack /\ th'[t].page = th[t].page
        /\ DOMAIN th'[t] = Fields /\ DOMAIN th' = Threads
        /\ \A u \in Threads \ {t} : th'[u] = th[u]
        /\ Latch(t, {}, {}) /\ ~Writes(t)
    <3> DEFINE pg == pages[th[t].page]
    <3>1. /\ th[t].pc = "at" /\ th[t].op \in {"scan", "vacuum"}
          /\ Latch(t, {}, {})
      BY <1>3, Zenon DEF Collect, AtLeaf, DropsWhileWaiting
    <3>2. th' = [th EXCEPT ![t].seen = @ \o InRange(t, pg.keys), ![t].next = pg.next,
                           ![t].pc = IF pg.next = Nil THEN "scanned" ELSE "child"]
      BY <1>3, Zenon DEF Collect
    <3>3. ~Writes(t)
      BY <3>1 DEF Writes
    <3> HIDE DEF pg
    <3>4. DOMAIN th[t] = Fields
      BY <1>1 DEF CallShape
    <3> QED
      BY <1>1, <3>1, <3>2, <3>3, <3>4 DEF Fields
  <2>2. /\ (Writes(t)' <=> Writes(t)) /\ StackPages(t)' = StackPages(t) /\ StackPages(t) = {}
        /\ Working(t)' \subseteq {th[t].page} /\ Working(t) = {th[t].page}
    BY <1>1, <2>1 DEF Writes, StackPages, Working, CallShape
  <2>3. CallShape(t)'
    BY <1>1, <2>1, <2>2 DEF CallShape, OpFits, Apart, Writes
  <2>4. LatchInv'
    BY <1>1, <2>1, <2>2, <2>3, CallMoves DEF InHand
  <2> QED
    BY <2>4, TableKept DEF Collect
<1> QED
  BY <1>2, <1>3

LEMMA HandsWritten ==
    ASSUME NEW t \in Threads, LatchInv, Writes(t), NEW p \in AllPages,
           p \in Working(t) \cup StackPages(t)
    PROVE  writer[p] = t
BY DEF LatchInv, InHand, Has

LEMMA InsertFits_Inv ==
    ASSUME NEW t \in Threads, LatchInv, InsertFits(t)
    PROVE  LatchInv' /\ HandsKept
<1> DEFINE p == th[t].page
<1>1. DOMAIN th = Threads /\ DOMAIN pages = PageNums
  BY DEF LatchInv
<1>2. /\ th[t].pc = "at" /\ Writes(t) /\ Return(t) /\ meta' = meta
      /\ DOMAIN pages' = PageNums /\ \A q \in PageNums \ {p} : pages'[q] = pages[q]
  BY <1>1 DEF InsertFits, AtLeaf, Writes
<1>3. \A q \in {p} \cap AllPages : writer[q] = t
  BY <1>2, HandsWritten DEF Working
<1>4. th'[t] # th[t]
  BY <1>1, <1>2 DEF Return, Idle
<1>5. LatchInv'
  BY <1>2, CallReturns
<1>6. HandsKept
  BY <1>2, <1>3, <1>4, OwnPagesOnly
<1> QED
  BY <1>5, <1>6

LEMMA InsertSplits_Inv ==
    ASSUME NEW t \in Threads, LatchInv, InsertSplits(t)
    PROVE  LatchInv' /\ HandsKept
<1>1. CallShape(t) /\ DOMAIN th = Threads
  BY DEF LatchInv
<1>2. /\ th[t].pc = "at" /\ th'[t].pc = "alloc" /\ th'[t].why = "leaf"
      /\ th[t].op = "insert" /\ th'[t].op = "insert"
      /\ th'[t].stack = th[t].stack /\ th'[t].page = th[t].page
      /\ DOMAIN th'[t] = Fields /\ DOMAIN th' = Threads
      /\ \A u \in Threads \ {t} : th'[u] = th[u]
  BY <1>1 DEF InsertSplits, AtLeaf, CallShape, Fields
<1>3. CallShape(t)' /\ InHand(t)' = InHand(t) /\ (Writes(t)' <=> Writes(t))
  BY <1>1, <1>2 DEF CallShape, OpFits, Apart, InHand, Working, Splitting, StackPages, Writes
<1>4. LatchInv'
  BY <1>2, <1>3, TableKept, CallKeeps DEF InsertSplits
<1> QED
  BY <1>4, TableKept DEF InsertSplits

LEMMA AllocNew_Inv ==
    ASSUME NEW t \in Threads, LatchInv, AllocNew(t)
    PROVE  LatchInv' /\ HandsKept
<1> DEFINE new == meta.page_count
<1>1. CallShape(t) /\ DOMAIN th = Threads /\ DOMAIN pages = PageNums
  BY DEF LatchInv
<1>2. /\ th[t].pc = "alloc" /\ th'[t].pc = "fresh" /\ th'[t].fresh = new
      /\ th'[t].op = th[t].op /\ th'[t].stack = th[t].stack /\ th'[t].why = th[t].why
      /\ th'[t].page = th[t].page /\ th'[t].parent = th[t].parent
      /\ DOMAIN th'[t] = Fields /\ DOMAIN th' = Threads
      /\ \A u \in Threads \ {t} : th'[u] = th[u]
      /\ Latch(t, {new}, {}) /\ CanWrite(new) /\ CanWrite(Meta)
      /\ DOMAIN pages' = PageNums /\ \A q \in PageNums \ {new} : pages'[q] = pages[q]
  BY <1>1 DEF AllocNew, CallShape, Fields
<1> HIDE DEF new
<1>3. /\ Writes(t) /\ Writes(t)' /\ StackPages(t)' = StackPages(t)
      /\ Working(t)' = Working(t) \cup {new} /\ CanLatch(t, new)
  BY <1>1, <1>2 DEF Writes, StackPages, Working, Splitting, CallShape, OpFits, CanLatch
<1>4. new \notin StackPages(t) \/ new \notin AllPages
  BY <1>2, <1>3, HandsDisjoint DEF InHand
<1>5. CallShape(t)'
  BY <1>1, <1>2, <1>3, <1>4 DEF CallShape, OpFits, Apart, Writes
<1>6. \A q \in InHand(t)' : q \in {new} \/ (q \in InHand(t) /\ q \notin {})
  BY <1>3 DEF InHand
<1>7. LatchInv'
  BY <1>2, <1>3, <1>5, <1>6, CallMoves
<1>8. HandsKept
  <2>1. \A q \in {new, Meta} \cap AllPages : CanWrite(q)
    BY <1>2
  <2> QED
    BY <1>2, <2>1, OwnPagesOnly, ZenonT(60)
<1> QED
  BY <1>7, <1>8

LEMMA AllocHead_Inv ==
    ASSUME NEW t \in Threads, LatchInv, AllocHead(t)
    PROVE  LatchInv' /\ HandsKept
<1>1. CallShape(t) /\ DOMAIN th = Threads /\ DOMAIN pages' = PageNums
  BY TableKept DEF LatchInv, AllocHead
<1>2. /\ th[t].pc = "alloc" /\ th'[t].pc = "pop"
      /\ th'[t].op = th[t].op /\ th'[t].stack = th[t].stack /\ th'[t].why = th[t].why
      /\ th'[t].page = th[t].page /\ th'[t].parent = th[t].parent
      /\ DOMAIN th'[t] = Fields /\ DOMAIN th' = Threads
      /\ \A u \in Threads \ {t} : th'[u] = th[u]
      /\ Latch(t, {Meta}, {}) /\ CanWrite(Meta)
  BY <1>1 DEF AllocHead, CallShape, Fields
<1>3. /\ Writes(t) /\ Writes(t)' /\ StackPages(t)' = StackPages(t)
      /\ Working(t) = Splitting(t) /\ Splitting(t)' = Splitting(t)
      /\ Working(t)' = Splitting(t) \cup {Meta}
      /\ Meta \in AllPages /\ CanLatch(t, Meta)
  BY <1>1, <1>2 DEF Writes, StackPages, Working, Splitting, CallShape, OpFits, CanLatch, AllPages
<1>4. Meta \notin StackPages(t) \cup Splitting(t)
  BY <1>2, <1>3, HandsDisjoint DEF InHand
<1>5. CallShape(t)'
  BY <1>1, <1>2, <1>3, <1>4 DEF CallShape, OpFits, Apart, Writes
<1>6. \A q \in InHand(t)' : q \in {Meta} \/ (q \in InHand(t) /\ q \notin {})
  BY <1>3 DEF InHand
<1>7. LatchInv'
  BY <1>1, <1>2, <1>3, <1>5, <1>6, CallMoves
<1> QED
  BY <1>7, TableKept DEF AllocHead

LEMMA AllocPop_Inv ==
    ASSUME NEW t \in Threads, LatchInv, AllocPop(t)
    PROVE  LatchInv' /\ HandsKept
<1> DEFINE head == th[t].fresh
<1>1. CallShape(t) /\ DOMAIN th = Threads /\ DOMAIN pages = PageNums
  BY DEF LatchInv
<1>2. CASE ~is_free(pages[head])
  <2>1. Panics(t) /\ KeepTable
    BY <1>2 DEF AllocPop
  <2> QED
    BY <2>1, TableKept, CallReturns
<1>3. CASE is_free(pages[head])
  <2>1. /\ th[t].pc = "pop" /\ th'[t].pc = "fresh" /\ th'[t].fresh = head
        /\ th'[t].op = th[t].op /\ th'[t].stack = th[t].stack /\ th'[t].why = th[t].why
        /\ th'[t].page = th[t].page /\ th'[t].parent = th[t].parent
        /\ DOMAIN th'[t] = Fields /\ DOMAIN th' = Threads
        /\ \A u \in Threads \ {t} : th'[u] = th[u]
        /\ Latch(t, {head}, {Meta}) /\ CanWrite(head)
        /\ DOMAIN pages' = PageNums /\ \A q \in PageNums \ {head} : pages'[q] = pages[q]
    BY <1>1, <1>3 DEF AllocPop, CallShape, Fields
  <2> HIDE DEF head
  <2>2. /\ Writes(t) /\ Writes(t)' /\ StackPages(t)' = StackPages(t)
        /\ Working(t) = Splitting(t) \cup {Meta} /\ Splitting(t)' = Splitting(t)
        /\ Working(t)' = Splitting(t) \cup {head}
        /\ Meta \in AllPages /\ CanLatch(t, head)
    BY <1>1, <2>1 DEF Writes, StackPages, Working, Splitting, CallShape, OpFits, CanLatch, AllPages
  <2>3. /\ head \notin StackPages(t) \/ head \notin AllPages
        /\ Meta \notin Splitting(t) \cup StackPages(t)
    BY <1>1, <2>1, <2>2, HandsDisjoint DEF InHand, CallShape, Apart
  <2>4. CallShape(t)'
    BY <1>1, <2>1, <2>2, <2>3 DEF CallShape, OpFits, Apart, Writes
  <2>5. \A q \in InHand(t)' : q \in {head} \/ (q \in InHand(t) /\ q \notin {Meta})
    BY <2>2, <2>3 DEF InHand
  <2>6. LatchInv'
    BY <2>1, <2>2, <2>4, <2>5, CallMoves
  <2>7. HandsKept
    <3>1. \A q \in {head, Meta} \cap AllPages : writer[q] = t \/ CanWrite(q)
      BY <2>1, <2>2, HandsWritten
    <3> QED
      BY <2>1, <3>1, OwnPagesOnly, ZenonT(60)
  <2> QED
    BY <2>6, <2>7
<1> QED
  BY <1>2, <1>3

LEMMA SplitLeaf_Inv ==
    ASSUME NEW t \in Threads, LatchInv, SplitLeaf(t)
    PROVE  LatchInv' /\ HandsKept
<1> DEFINE p == th[t].page
           new == th[t].fresh
<1>1. CallShape(t) /\ DOMAIN th = Threads /\ DOMAIN pages = PageNums
  BY DEF LatchInv
<1>2. /\ th[t].pc = "fresh" /\ th[t].why = "leaf" /\ th'[t].pc \in {"place", "relink"}
      /\ th'[t].left = p /\ th'[t].right = new
      /\ th'[t].op = th[t].op /\ th'[t].stack = th[t].stack
      /\ DOMAIN th'[t] = Fields /\ DOMAIN th' = Threads
      /\ \A u \in Threads \ {t} : th'[u] = th[u]
      /\ DOMAIN pages' = PageNums /\ \A q \in PageNums \ {p, new} : pages'[q] = pages[q]
      /\ meta' = meta /\ KeepLatches
  BY <1>1 DEF SplitLeaf, CallShape, Fields
<1> HIDE DEF p, new
<1>3. /\ Writes(t) /\ Writes(t)' /\ StackPages(t)' = StackPages(t)
      /\ Working(t) = {p, new} /\ Working(t)' = {p, new}
  BY <1>1, <1>2 DEF Writes, StackPages, Working, Splitting, CallShape, OpFits, p, new
<1>4. CallShape(t)' /\ InHand(t)' = InHand(t)
  BY <1>1, <1>2, <1>3 DEF CallShape, OpFits, Apart, Writes, InHand
<1>5. LatchInv'
  BY <1>2, <1>3, <1>4, CallKeeps
<1>6. HandsKept
  <2>1. \A q \in {p, new} \cap AllPages : writer[q] = t
    BY <1>3, HandsWritten
  <2>2. th'[t] # th[t]
    BY <1>2
  <2> QED
    BY <1>2, <2>1, <2>2, OwnPagesOnly, ZenonT(60)
<1> QED
  BY <1>5, <1>6

LEMMA Relink_Inv ==
    ASSUME NEW t \in Threads, LatchInv, Relink(t)
    PROVE  LatchInv' /\ HandsKept
<1> DEFINE n == th[t].next
<1>1. CallShape(t) /\ DOMAIN th = Threads /\ DOMAIN pages = PageNums
  BY DEF LatchInv
<1>2. CASE ~is_leaf(pages[n])
  <2>1. Return(t) /\ KeepTable
    BY <1>2 DEF Relink, Fails, KeepTable
  <2> QED
    BY <2>1, TableKept, CallReturns
<1>3. CASE is_leaf(pages[n])
  <2>1. /\ th[t].pc = "relink" /\ th'[t].pc = "place"
        /\ th'[t].left = th[t].left /\ th'[t].right = th[t].right
        /\ th'[t].op = th[t].op /\ th'[t].stack = th[t].stack
        /\ DOMAIN th'[t] = Fields /\ DOMAIN th' = Threads
        /\ \A u \in Threads \ {t} : th'[u] = th[u]
        /\ DOMAIN pages' = PageNums /\ \A q \in PageNums \ {n} : pages'[q] = pages[q]
        /\ meta' = meta /\ KeepLatches /\ CanWrite(n)
    BY <1>1, <1>3 DEF Relink, WithPrev, CallShape, Fields
  <2>2. CallShape(t)' /\ InHand(t)' = InHand(t) /\ (Writes(t)' <=> Writes(t))
    BY <1>1, <2>1 DEF CallShape, OpFits, Apart, Working, StackPages, Writes, InHand
  <2>3. LatchInv'
    BY <2>1, <2>2, CallKeeps
  <2>4. HandsKept
    <3>1. th'[t] # th[t] /\ \A q \in {n} \cap AllPages : CanWrite(q)
      BY <2>1
    <3> QED
      BY <2>1, <3>1, OwnPagesOnly
  <2> QED
    BY <2>3, <2>4
<1> QED
  BY <1>2, <1>3

LEMMA Place_Inv ==
    ASSUME NEW t \in Threads, LatchInv, Place(t)
    PROVE  LatchInv' /\ HandsKept
<1> DEFINE home == IF GoesLeft(th[t].key, th[t].sep) THEN th[t].left ELSE th[t].right
<1>1. CallShape(t) /\ DOMAIN th = Threads /\ DOMAIN pages = PageNums
  BY DEF LatchInv
<1>2. CASE ~TakesRow(pages[home], th[t].key)
  <2>1. Return(t) /\ KeepTable
    BY <1>2 DEF Place, Fails, KeepTable
  <2> QED
    BY <2>1, TableKept, CallReturns
<1>3. CASE TakesRow(pages[home], th[t].key)
  <2>1. /\ th[t].pc = "place" /\ th'[t].pc = "up" /\ home \in {th[t].left, th[t].right}
        /\ th'[t].op = th[t].op /\ th'[t].stack = th[t].stack
        /\ DOMAIN th'[t] = Fields /\ DOMAIN th' = Threads
        /\ \A u \in Threads \ {t} : th'[u] = th[u]
        /\ DOMAIN pages' = PageNums /\ \A q \in PageNums \ {home} : pages'[q] = pages[q]
        /\ meta' = meta /\ KeepLatches
    BY <1>1, <1>3 DEF Place, CallShape, Fields
  <2> HIDE DEF home
  <2>2. /\ Writes(t) /\ Writes(t)' /\ StackPages(t)' = StackPages(t)
        /\ home \in Working(t) /\ Working(t)' = {}
    BY <1>1, <2>1 DEF Writes, StackPages, Working, CallShape, OpFits
  <2>3. CallShape(t)' /\ InHand(t)' \subseteq InHand(t)
    BY <1>1, <2>1, <2>2 DEF CallShape, OpFits, Apart, Writes, InHand
  <2>4. LatchInv'
    BY <2>1, <2>2, <2>3, CallKeeps
  <2>5. HandsKept
    <3>1. th'[t] # th[t] /\ \A q \in {home} \cap AllPages : writer[q] = t
      BY <2>1, <2>2, HandsWritten
    <3> QED
      BY <2>1, <3>1, OwnPagesOnly
  <2> QED
    BY <2>4, <2>5
<1> QED
  BY <1>2, <1>3

(* The page on top of the stack, and the path without it.                     *)
LEMMA TopInHand ==
    ASSUME NEW t \in Threads, CallShape(t), th[t].stack # <<>>
    PROVE  /\ IsPath(Popped(t))
           /\ StackPages(t) = PagesOn(Popped(t)) \cup {Top(t).page}
           /\ Top(t).page \in PagesOn(Popped(t)) => Top(t).page \notin AllPages
<1>1. IsPath(th[t].stack) /\ StackPages(t) = PagesOn(th[t].stack)
  BY DEF CallShape, StackPages, PagesOn
<1> QED
  BY <1>1, PathPopped DEF Popped, Top

LEMMA InsertSeparator_Inv ==
    ASSUME NEW t \in Threads, LatchInv, InsertSeparator(t)
    PROVE  LatchInv' /\ HandsKept
<1> DEFINE p == Top(t).page
<1>1. CallShape(t) /\ DOMAIN th = Threads /\ DOMAIN pages = PageNums
  BY DEF LatchInv
<1>2. /\ th[t].pc = "up" /\ Return(t) /\ meta' = meta /\ th[t].stack # <<>>
      /\ DOMAIN pages' = PageNums /\ \A q \in PageNums \ {p} : pages'[q] = pages[q]
  BY <1>1 DEF InsertSeparator, Fails
<1>3. p \in StackPages(t) /\ Writes(t)
  BY <1>1, <1>2, TopInHand DEF CallShape, OpFits, Writes
<1> HIDE DEF p
<1>4. \A q \in {p} \cap AllPages : writer[q] = t
  BY <1>3, HandsWritten
<1>5. th'[t] # th[t]
  BY <1>1, <1>2 DEF Return, Idle
<1>6. LatchInv'
  BY <1>2, CallReturns
<1>7. HandsKept
  BY <1>2, <1>4, <1>5, OwnPagesOnly
<1> QED
  BY <1>6, <1>7

LEMMA ParentFull_Inv ==
    ASSUME NEW t \in Threads, LatchInv, ParentFull(t)
    PROVE  LatchInv' /\ HandsKept
<1>1. CallShape(t) /\ DOMAIN th = Threads
  BY DEF LatchInv
<1>2. /\ th[t].pc = "up" /\ th'[t].pc = "alloc" /\ th'[t].why = "internal"
      /\ th[t].stack # <<>> /\ th'[t].stack = Popped(t) /\ th'[t].parent = Top(t).page
      /\ th'[t].op = th[t].op
      /\ DOMAIN th'[t] = Fields /\ DOMAIN th' = Threads
      /\ \A u \in Threads \ {t} : th'[u] = th[u]
  BY <1>1 DEF ParentFull, CallShape, Fields
<1>3. /\ Writes(t) /\ Writes(t)' /\ StackPages(t)' = PagesOn(Popped(t))
      /\ Working(t)' = {Top(t).page}
  BY <1>1, <1>2 DEF Writes, StackPages, PagesOn, Working, Splitting, CallShape, OpFits
<1>4. /\ IsPath(Popped(t))
      /\ StackPages(t) = PagesOn(Popped(t)) \cup {Top(t).page}
      /\ Top(t).page \in PagesOn(Popped(t)) => Top(t).page \notin AllPages
  BY <1>1, <1>2, TopInHand
<1>5. CallShape(t)' /\ InHand(t)' \subseteq InHand(t)
  <2> DEFINE p == Top(t).page
             rest == Popped(t)
  <2> HIDE DEF p, rest
  <2>1. /\ IsPath(rest) /\ StackPages(t) = PagesOn(rest) \cup {p}
        /\ p \notin PagesOn(rest) \cap AllPages
        /\ th'[t].stack = rest /\ StackPages(t)' = PagesOn(rest) /\ Working(t)' = {p}
    BY <1>2, <1>3, <1>4 DEF p, rest
  <2>2. Apart(t)'
    BY <1>2, <2>1 DEF Apart
  <2>3. OpFits(t)'
    BY <1>1, <1>2 DEF OpFits, CallShape
  <2> QED
    BY <1>2, <1>3, <2>1, <2>2, <2>3 DEF CallShape, InHand
<1>6. LatchInv'
  BY <1>2, <1>3, <1>5, TableKept, CallKeeps DEF ParentFull
<1> QED
  BY <1>6, TableKept DEF ParentFull

LEMMA NoParent_Inv ==
    ASSUME NEW t \in Threads, LatchInv, NoParent(t)
    PROVE  LatchInv' /\ HandsKept
<1>1. CallShape(t) /\ DOMAIN th = Threads
  BY DEF LatchInv
<1>2. /\ th[t].pc = "up" /\ th'[t].pc = "alloc" /\ th'[t].why = "root"
      /\ th'[t].op = th[t].op /\ th'[t].stack = th[t].stack
      /\ DOMAIN th'[t] = Fields /\ DOMAIN th' = Threads
      /\ \A u \in Threads \ {t} : th'[u] = th[u]
  BY <1>1 DEF NoParent, CallShape, Fields
<1>3. Working(t)' = {} /\ StackPages(t)' = StackPages(t) /\ (Writes(t)' <=> Writes(t))
  BY <1>2 DEF Working, Splitting, StackPages, Writes
<1>4. CallShape(t)' /\ InHand(t)' \subseteq InHand(t)
  BY <1>1, <1>2, <1>3 DEF CallShape, OpFits, Apart, InHand
<1>5. LatchInv'
  BY <1>2, <1>3, <1>4, TableKept, CallKeeps DEF NoParent
<1> QED
  BY <1>5, TableKept DEF NoParent

LEMMA SplitInternal_Inv ==
    ASSUME NEW t \in Threads, LatchInv, SplitInternal(t)
    PROVE  LatchInv' /\ HandsKept
<1> DEFINE p == th[t].parent
           new == th[t].fresh
<1>1. CallShape(t) /\ DOMAIN th = Threads /\ DOMAIN pages = PageNums
  BY DEF LatchInv
<1>2. /\ th[t].pc = "fresh" /\ th[t].why = "internal"
      /\ DOMAIN pages' = PageNums /\ \A q \in PageNums \ {p, new} : pages'[q] = pages[q]
      /\ meta' = meta
  BY <1>1 DEF SplitInternal, Fails
<1>3. \/ Return(t)
      \/ /\ th'[t].pc = "up" /\ th'[t].op = th[t].op /\ th'[t].stack = th[t].stack
         /\ DOMAIN th'[t] = Fields /\ DOMAIN th' = Threads
         /\ \A u \in Threads \ {t} : th'[u] = th[u]
         /\ Latch(t, {}, {p, new})
  BY <1>1 DEF SplitInternal, Fails, CallShape, Fields
<1> HIDE DEF p, new
<1>4. Writes(t) /\ Working(t) = {p, new}
  BY <1>1, <1>2 DEF Writes, Working, Splitting, CallShape, OpFits, p, new
<1>5. LatchInv' /\ th'[t] # th[t]
  <2>1. CASE Return(t)
    <3>1. LatchInv'
      BY <1>2, <2>1, CallReturns
    <3>2. th'[t].pc = "idle"
      BY <1>1, <2>1 DEF Return, Idle
    <3> QED
      BY <1>2, <3>1, <3>2
  <2>2. CASE ~Return(t)
    <3>1. Writes(t)' /\ StackPages(t)' = StackPages(t) /\ Working(t)' = {}
      BY <1>3, <1>4, <2>2 DEF Writes, StackPages, Working
    <3>2. CallShape(t)'
      BY <1>1, <1>2, <1>3, <2>2, <3>1 DEF CallShape, OpFits, Apart
    <3>3. \A q \in InHand(t)' : q \in {} \/ (q \in InHand(t) /\ q \notin {p, new})
      BY <1>1, <1>4, <3>1 DEF CallShape, Apart, InHand
    <3>4. LatchInv'
      BY <1>2, <1>3, <1>4, <2>2, <3>1, <3>2, <3>3, CallMoves
    <3> QED
      BY <1>2, <1>3, <2>2, <3>4
  <2> QED
    BY <2>1, <2>2
<1>6. HandsKept
  <2>1. \A q \in {p, new} \cap AllPages : writer[q] = t
    BY <1>4, HandsWritten
  <2> QED
    BY <1>2, <1>5, <2>1, OwnPagesOnly
<1> QED
  BY <1>5, <1>6

LEMMA NewRoot_Inv ==
    ASSUME NEW t \in Threads, LatchInv, NewRoot(t)
    PROVE  LatchInv' /\ HandsKept
<1> DEFINE new == th[t].fresh
<1>1. CallShape(t) /\ DOMAIN th = Threads /\ DOMAIN pages = PageNums
  BY DEF LatchInv
<1>2. /\ th[t].pc = "fresh" /\ Return(t) /\ CanWrite(Meta)
      /\ DOMAIN pages' = PageNums /\ \A q \in PageNums \ {new} : pages'[q] = pages[q]
  BY <1>1 DEF NewRoot
<1>3. new \in Working(t) /\ Writes(t)
  BY <1>1, <1>2 DEF CallShape, OpFits, Writes, Working
<1> HIDE DEF new
<1>4. \A q \in {new, Meta} \cap AllPages : writer[q] = t \/ CanWrite(q)
  BY <1>2, <1>3, HandsWritten
<1>5. th'[t] # th[t]
  BY <1>1, <1>2 DEF Return, Idle
<1>6. LatchInv'
  BY <1>2, CallReturns
<1>7. HandsKept
  BY <1>2, <1>4, <1>5, OwnPagesOnly
<1> QED
  BY <1>6, <1>7

LEMMA DeleteRow_Inv ==
    ASSUME NEW t \in Threads, LatchInv, DeleteRow(t)
    PROVE  LatchInv' /\ HandsKept
<1> DEFINE p == th[t].page
<1>1. CallShape(t) /\ DOMAIN th = Threads /\ DOMAIN pages = PageNums
  BY DEF LatchInv
<1>2. /\ th[t].pc = "at" /\ th'[t].pc = "balance" /\ th'[t].page = p
      /\ th[t].op = "delete" /\ th'[t].op = "delete" /\ th'[t].stack = th[t].stack
      /\ DOMAIN th'[t] = Fields /\ DOMAIN th' = Threads
      /\ \A u \in Threads \ {t} : th'[u] = th[u]
      /\ DOMAIN pages' = PageNums /\ \A q \in PageNums \ {p} : pages'[q] = pages[q]
      /\ meta' = meta /\ KeepLatches
  BY <1>1 DEF DeleteRow, AtLeaf, CallShape, Fields
<1> HIDE DEF p
<1>3. /\ Writes(t) /\ Writes(t)' /\ StackPages(t)' = StackPages(t)
      /\ Working(t) = {p} /\ Working(t)' = {p}
  BY <1>2 DEF Writes, StackPages, Working, p
<1>4. CallShape(t)' /\ InHand(t)' = InHand(t)
  BY <1>1, <1>2, <1>3 DEF CallShape, OpFits, Apart, InHand
<1>5. LatchInv'
  BY <1>2, <1>3, <1>4, CallKeeps
<1>6. HandsKept
  <2>1. th'[t] # th[t] /\ \A q \in {p} \cap AllPages : writer[q] = t
    BY <1>2, <1>3, HandsWritten
  <2> QED
    BY <1>2, <2>1, OwnPagesOnly, ZenonT(60)
<1> QED
  BY <1>5, <1>6

LEMMA Balanced_Inv ==
    ASSUME NEW t \in Threads, LatchInv, Balanced(t)
    PROVE  LatchInv' /\ HandsKept
<1>1. CallShape(t) /\ DOMAIN th = Threads
  BY DEF LatchInv
<1>2. /\ th[t].pc = "balance" /\ th'[t].pc = "shrink" /\ th'[t].page = th[t].page
      /\ th'[t].op = th[t].op /\ th'[t].stack = th[t].stack
      /\ DOMAIN th'[t] = Fields /\ DOMAIN th' = Threads
      /\ \A u \in Threads \ {t} : th'[u] = th[u]
  BY <1>1 DEF Balanced, CallShape, Fields
<1>3. CallShape(t)' /\ InHand(t)' = InHand(t) /\ (Writes(t)' <=> Writes(t))
  BY <1>1, <1>2 DEF CallShape, OpFits, Apart, InHand, Working, StackPages, Writes
<1>4. LatchInv'
  BY <1>2, <1>3, TableKept, CallKeeps DEF Balanced
<1> QED
  BY <1>4, TableKept DEF Balanced

(* The page and the parent above it become the hands of a join.               *)
LEMMA JoinHands ==
    ASSUME NEW t \in Threads, CallShape(t), th[t].pc = "balance", NeedsJoin(t)
    PROVE  LET page == th[t].page
               parent == Top(t).page
               rest == Popped(t)
           IN /\ Writes(t) /\ IsPath(rest) /\ Working(t) = {page}
              /\ StackPages(t) = PagesOn(rest) \cup {parent}
              /\ parent \notin PagesOn(rest) \cap AllPages
              /\ page \notin (PagesOn(rest) \cup {parent}) \cap AllPages
<1>1. Writes(t) /\ Working(t) = {th[t].page}
  BY DEF CallShape, OpFits, Writes, Working
<1>2. th[t].stack # <<>>
  BY DEF NeedsJoin
<1>3. th[t].page \notin StackPages(t) \cap AllPages
  BY <1>1 DEF CallShape, Apart
<1> QED
  BY <1>1, <1>2, <1>3, TopInHand

LEMMA JoinRight_Inv ==
    ASSUME NEW t \in Threads, LatchInv, JoinRight(t)
    PROVE  LatchInv' /\ HandsKept
<1> DEFINE page == th[t].page
           parent == Top(t).page
           rest == Popped(t)
<1>1. CallShape(t) /\ DOMAIN th = Threads
  BY DEF LatchInv
<1>2. /\ th[t].pc = "balance" /\ th'[t].pc = "right" /\ NeedsJoin(t)
      /\ th'[t].parent = parent /\ th'[t].left = page
      /\ th'[t].op = th[t].op /\ th'[t].stack = rest
      /\ DOMAIN th'[t] = Fields /\ DOMAIN th' = Threads
      /\ \A u \in Threads \ {t} : th'[u] = th[u]
  BY <1>1 DEF JoinRight, CallShape, Fields
<1>3. /\ Writes(t) /\ IsPath(rest) /\ Working(t) = {page}
      /\ StackPages(t) = PagesOn(rest) \cup {parent}
      /\ parent \notin PagesOn(rest) \cap AllPages
      /\ page \notin (PagesOn(rest) \cup {parent}) \cap AllPages
  BY <1>1, <1>2, JoinHands
<1> HIDE DEF page, parent, rest
<1>4. Writes(t)' /\ StackPages(t)' = PagesOn(rest) /\ Working(t)' = {parent, page}
  BY <1>2, <1>3 DEF Writes, StackPages, PagesOn, Working
<1>5. Apart(t)'
  BY <1>2, <1>3, <1>4 DEF Apart
<1>6. CallShape(t)' /\ InHand(t)' \subseteq InHand(t)
  BY <1>1, <1>2, <1>3, <1>4, <1>5 DEF CallShape, OpFits, InHand
<1>7. LatchInv'
  BY <1>2, <1>3, <1>4, <1>6, TableKept, CallKeeps DEF JoinRight
<1> QED
  BY <1>7, TableKept DEF JoinRight

LEMMA JoinLeft_Inv ==
    ASSUME NEW t \in Threads, LatchInv, JoinLeft(t)
    PROVE  LatchInv' /\ HandsKept
<1> DEFINE page == th[t].page
           parent == Top(t).page
           rest == Popped(t)
           sib == pick_sibling(pages[Top(t).page], Top(t).idx)
<1>1. CallShape(t) /\ DOMAIN th = Threads /\ DOMAIN pages' = PageNums
  BY TableKept DEF LatchInv, JoinLeft
<1>2. CASE sib = NoSibling
  <2>1. Panics(t)
    BY <1>2 DEF JoinLeft
  <2> QED
    BY <2>1, TableKept, CallReturns DEF JoinLeft
<1>3. CASE sib # NoSibling
  <2>1. /\ th[t].pc = "balance" /\ th'[t].pc = "left" /\ NeedsJoin(t)
        /\ th'[t].parent = parent
        /\ th'[t].op = th[t].op /\ th'[t].stack = rest
        /\ DOMAIN th'[t] = Fields /\ DOMAIN th' = Threads
        /\ \A u \in Threads \ {t} : th'[u] = th[u]
        /\ Latch(t, {}, {page})
    BY <1>1, <1>3 DEF JoinLeft, CallShape, Fields, DropsPage
  <2>2. /\ Writes(t) /\ IsPath(rest) /\ Working(t) = {page}
        /\ StackPages(t) = PagesOn(rest) \cup {parent}
        /\ parent \notin PagesOn(rest) \cap AllPages
        /\ page \notin (PagesOn(rest) \cup {parent}) \cap AllPages
    BY <1>1, <2>1, JoinHands
  <2> HIDE DEF page, parent, rest
  <2>3. Writes(t)' /\ StackPages(t)' = PagesOn(rest) /\ Working(t)' = {parent}
    BY <2>1, <2>2 DEF Writes, StackPages, PagesOn, Working
  <2>4. Apart(t)'
    BY <2>1, <2>2, <2>3 DEF Apart
  <2>5. CallShape(t)'
    BY <1>1, <2>1, <2>2, <2>3, <2>4 DEF CallShape, OpFits
  <2>6. \A q \in InHand(t)' : q \in {} \/ (q \in InHand(t) /\ q \notin {page})
    BY <2>2, <2>3 DEF InHand
  <2>7. LatchInv'
    BY <1>1, <2>1, <2>2, <2>3, <2>5, <2>6, CallMoves
  <2> QED
    BY <2>7, TableKept DEF JoinLeft
<1> QED
  BY <1>2, <1>3

LEMMA LatchLeft_Inv ==
    ASSUME NEW t \in Threads, LatchInv, LatchLeft(t)
    PROVE  LatchInv' /\ HandsKept
<1> DEFINE l == th[t].left
<1>1. CallShape(t) /\ DOMAIN th = Threads /\ DOMAIN pages' = PageNums
  BY TableKept DEF LatchInv, LatchLeft
<1>2. /\ th[t].pc = "left" /\ th'[t].pc = "right"
      /\ th'[t].parent = th[t].parent /\ th'[t].left = l
      /\ th'[t].op = th[t].op /\ th'[t].stack = th[t].stack
      /\ DOMAIN th'[t] = Fields /\ DOMAIN th' = Threads
      /\ \A u \in Threads \ {t} : th'[u] = th[u]
      /\ Latch(t, {l}, {}) /\ CanWrite(l)
  BY <1>1 DEF LatchLeft, CallShape, Fields
<1> HIDE DEF l
<1>3. /\ Writes(t) /\ Writes(t)' /\ StackPages(t)' = StackPages(t) /\ CanLatch(t, l)
      /\ Working(t) = {th[t].parent} /\ Working(t)' = {th[t].parent, l}
  BY <1>1, <1>2 DEF Writes, StackPages, Working, CallShape, OpFits, CanLatch
<1>4. l \notin StackPages(t) \cup {th[t].parent} \/ l \notin AllPages
  BY <1>2, <1>3, HandsDisjoint DEF InHand
<1>5. CallShape(t)'
  BY <1>1, <1>2, <1>3, <1>4 DEF CallShape, OpFits, Apart
<1>6. \A q \in InHand(t)' : q \in {l} \/ (q \in InHand(t) /\ q \notin {})
  BY <1>3 DEF InHand
<1>7. LatchInv'
  BY <1>1, <1>2, <1>3, <1>5, <1>6, CallMoves
<1> QED
  BY <1>7, TableKept DEF LatchLeft

LEMMA LatchRight_Inv ==
    ASSUME NEW t \in Threads, LatchInv, LatchRight(t)
    PROVE  LatchInv' /\ HandsKept
<1> DEFINE r == th[t].right
<1>1. CallShape(t) /\ DOMAIN th = Threads /\ DOMAIN pages' = PageNums
  BY TableKept DEF LatchInv, LatchRight
<1>2. /\ th[t].pc = "right" /\ th'[t].pc = "join"
      /\ th'[t].parent = th[t].parent /\ th'[t].left = th[t].left /\ th'[t].right = r
      /\ th'[t].op = th[t].op /\ th'[t].stack = th[t].stack
      /\ DOMAIN th'[t] = Fields /\ DOMAIN th' = Threads
      /\ \A u \in Threads \ {t} : th'[u] = th[u]
      /\ Latch(t, {r}, {}) /\ CanWrite(r)
  BY <1>1 DEF LatchRight, CallShape, Fields
<1> HIDE DEF r
<1>3. /\ Writes(t) /\ Writes(t)' /\ StackPages(t)' = StackPages(t) /\ CanLatch(t, r)
      /\ Working(t) = {th[t].parent, th[t].left}
      /\ Working(t)' = {th[t].parent, th[t].left, r}
  BY <1>1, <1>2 DEF Writes, StackPages, Working, CallShape, OpFits, CanLatch
<1>4. r \notin StackPages(t) \cup {th[t].parent} \/ r \notin AllPages
  BY <1>2, <1>3, HandsDisjoint DEF InHand
<1>5. CallShape(t)'
  BY <1>1, <1>2, <1>3, <1>4 DEF CallShape, OpFits, Apart
<1>6. \A q \in InHand(t)' : q \in {r} \/ (q \in InHand(t) /\ q \notin {})
  BY <1>3 DEF InHand
<1>7. LatchInv'
  BY <1>1, <1>2, <1>3, <1>5, <1>6, CallMoves
<1> QED
  BY <1>7, TableKept DEF LatchRight

LEMMA Merge_Inv ==
    ASSUME NEW t \in Threads, LatchInv, Merge(t)
    PROVE  LatchInv' /\ HandsKept
<1> DEFINE l == th[t].left
           r == th[t].right
           parent == th[t].parent
           ordered == InOrder(pages[l], pages[r], th[t].sep) /\ (is_leaf(pages[l]) => pages[l].next = r)
<1>1. CallShape(t) /\ DOMAIN th = Threads /\ DOMAIN pages = PageNums
  BY DEF LatchInv
<1>2. CASE ~ordered
  <2>1. Return(t) /\ KeepTable
    BY <1>2 DEF Merge, Fails, KeepTable
  <2> QED
    BY <2>1, TableKept, CallReturns
<1>3. CASE ordered
  <2>1. /\ th[t].pc = "join" /\ th'[t].pc \in {"unlink", "free"}
        /\ th'[t].parent = parent /\ th'[t].left = l /\ th'[t].right = r
        /\ th'[t].op = th[t].op /\ th'[t].stack = th[t].stack
        /\ DOMAIN th'[t] = Fields /\ DOMAIN th' = Threads
        /\ \A u \in Threads \ {t} : th'[u] = th[u]
        /\ DOMAIN pages' = PageNums
        /\ \A q \in PageNums \ {l, r, parent} : pages'[q] = pages[q]
        /\ meta' = meta /\ KeepLatches
    BY <1>1, <1>3 DEF Merge, CallShape, Fields
  <2> HIDE DEF l, r, parent
  <2>2. /\ Writes(t) /\ Writes(t)' /\ StackPages(t)' = StackPages(t)
        /\ Working(t) = {l, r, parent} /\ Working(t)' = Working(t)
    BY <1>1, <2>1 DEF Writes, StackPages, Working, CallShape, OpFits, l, r, parent
  <2>3. Apart(t)'
    BY <1>1, <2>1, <2>2 DEF CallShape, Apart, l, r, parent
  <2>4. CallShape(t)' /\ InHand(t)' = InHand(t)
    BY <1>1, <2>1, <2>2, <2>3 DEF CallShape, OpFits, InHand
  <2>5. LatchInv'
    BY <2>1, <2>2, <2>4, CallKeeps
  <2>6. HandsKept
    <3>1. th'[t] # th[t] /\ \A q \in {l, r, parent} \cap AllPages : writer[q] = t
      BY <2>1, <2>2, HandsWritten
    <3> QED
      BY <2>1, <3>1, OwnPagesOnly, ZenonT(60)
  <2> QED
    BY <2>5, <2>6
<1> QED
  BY <1>2, <1>3

LEMMA Unlink_Inv ==
    ASSUME NEW t \in Threads, LatchInv, Unlink(t)
    PROVE  LatchInv' /\ HandsKept
<1> DEFINE n == th[t].next
<1>1. CallShape(t) /\ DOMAIN th = Threads /\ DOMAIN pages = PageNums
  BY DEF LatchInv
<1>2. CASE ~is_leaf(pages[n])
  <2>1. Return(t) /\ KeepTable
    BY <1>2 DEF Unlink, Fails, KeepTable
  <2> QED
    BY <2>1, TableKept, CallReturns
<1>3. CASE is_leaf(pages[n])
  <2>1. /\ th[t].pc = "unlink" /\ th'[t].pc = "free" /\ th'[t].parent = th[t].parent
        /\ th'[t].left = th[t].left /\ th'[t].right = th[t].right
        /\ th'[t].op = th[t].op /\ th'[t].stack = th[t].stack
        /\ DOMAIN th'[t] = Fields /\ DOMAIN th' = Threads
        /\ \A u \in Threads \ {t} : th'[u] = th[u]
        /\ DOMAIN pages' = PageNums /\ \A q \in PageNums \ {n} : pages'[q] = pages[q]
        /\ meta' = meta /\ KeepLatches /\ CanWrite(n)
    BY <1>1, <1>3 DEF Unlink, WithPrev, CallShape, Fields
  <2>2. CallShape(t)' /\ InHand(t)' = InHand(t) /\ (Writes(t)' <=> Writes(t))
    BY <1>1, <2>1 DEF CallShape, OpFits, Apart, Working, StackPages, Writes, InHand
  <2>3. LatchInv'
    BY <2>1, <2>2, CallKeeps
  <2>4. HandsKept
    <3>1. th'[t] # th[t] /\ \A q \in {n} \cap AllPages : CanWrite(q)
      BY <2>1
    <3> QED
      BY <2>1, <3>1, OwnPagesOnly
  <2> QED
    BY <2>3, <2>4
<1> QED
  BY <1>2, <1>3

LEMMA FreeRight_Inv ==
    ASSUME NEW t \in Threads, LatchInv, FreeRight(t)
    PROVE  LatchInv' /\ HandsKept
<1> DEFINE l == th[t].left
           r == th[t].right
           parent == th[t].parent
<1>1. CallShape(t) /\ DOMAIN th = Threads /\ DOMAIN pages = PageNums
  BY DEF LatchInv
<1>2. /\ th[t].pc = "free" /\ th'[t].pc = "balance" /\ th'[t].page = parent
      /\ th'[t].op = th[t].op /\ th'[t].stack = th[t].stack
      /\ DOMAIN th'[t] = Fields /\ DOMAIN th' = Threads
      /\ \A u \in Threads \ {t} : th'[u] = th[u]
      /\ DOMAIN pages' = PageNums /\ \A q \in PageNums \ {r} : pages'[q] = pages[q]
      /\ Latch(t, {}, {r, l}) /\ CanWrite(Meta)
  BY <1>1 DEF FreeRight, Pushed, CallShape, Fields
<1>3. /\ Writes(t) /\ Writes(t)' /\ StackPages(t)' = StackPages(t)
      /\ Working(t) = {parent, l, r} /\ Working(t)' = {parent}
      /\ parent \in AllPages => parent \notin {r, l}
      /\ Working(t) \cap StackPages(t) \cap AllPages = {}
  BY <1>1, <1>2 DEF Writes, StackPages, Working, CallShape, OpFits, Apart
<1> HIDE DEF l, r, parent
<1>4. CallShape(t)'
  BY <1>1, <1>2, <1>3 DEF CallShape, OpFits, Apart
<1>5. \A q \in InHand(t)' : q \in {} \/ (q \in InHand(t) /\ q \notin {r, l})
  BY <1>3 DEF InHand
<1>6. LatchInv'
  BY <1>2, <1>3, <1>4, <1>5, CallMoves
<1>7. HandsKept
  <2>1. th'[t] # th[t] /\ \A q \in {r, Meta} \cap AllPages : writer[q] = t \/ CanWrite(q)
    BY <1>2, <1>3, HandsWritten
  <2> QED
    BY <1>2, <2>1, OwnPagesOnly
<1> QED
  BY <1>6, <1>7

LEMMA Borrow_Inv ==
    ASSUME NEW t \in Threads, LatchInv, Borrow(t)
    PROVE  LatchInv' /\ HandsKept
<1> DEFINE l == th[t].left
           r == th[t].right
           parent == th[t].parent
<1>1. CallShape(t) /\ DOMAIN th = Threads /\ DOMAIN pages = PageNums
  BY DEF LatchInv
<1>2. th[t].pc = "join" /\ Return(t) /\ meta' = meta
  BY DEF Borrow, Fails
<1>3. /\ DOMAIN pages' = PageNums
      /\ \A q \in PageNums \ {l, r, parent} : pages'[q] = pages[q]
  BY <1>1 DEF Borrow, Fails
<1>4. Writes(t) /\ Working(t) = {l, r, parent}
  BY <1>1, <1>2 DEF Writes, Working, CallShape, OpFits
<1> HIDE DEF l, r, parent
<1>5. \A q \in {l, r, parent} \cap AllPages : writer[q] = t
  BY <1>4, HandsWritten
<1>6. th'[t] # th[t]
  BY <1>1, <1>2 DEF Return, Idle
<1>7. LatchInv'
  BY <1>2, <1>3, CallReturns
<1>8. HandsKept
  BY <1>2, <1>3, <1>5, <1>6, OwnPagesOnly
<1> QED
  BY <1>7, <1>8

LEMMA Shrink_Inv ==
    ASSUME NEW t \in Threads, LatchInv, Shrink(t)
    PROVE  LatchInv' /\ HandsKept
<1>1. CallShape(t) /\ DOMAIN th = Threads
  BY DEF LatchInv
<1>2. CASE IsLonelyRoot(th[t].page)
  <2>1. /\ th[t].pc = "shrink" /\ th'[t].pc = "new_root" /\ th'[t].page = th[t].page
        /\ th'[t].op = th[t].op /\ th'[t].stack = th[t].stack
        /\ DOMAIN th'[t] = Fields /\ DOMAIN th' = Threads
        /\ \A u \in Threads \ {t} : th'[u] = th[u]
        /\ KeepLatches
    BY <1>1, <1>2 DEF Shrink, CallShape, Fields
  <2>2. CallShape(t)' /\ InHand(t)' = InHand(t) /\ (Writes(t)' <=> Writes(t))
    BY <1>1, <2>1 DEF CallShape, OpFits, Apart, InHand, Working, StackPages, Writes
  <2>3. LatchInv'
    BY <2>1, <2>2, TableKept, CallKeeps DEF Shrink
  <2> QED
    BY <2>3, TableKept DEF Shrink
<1>3. CASE ~IsLonelyRoot(th[t].page)
  <2>1. Return(t) /\ KeepTable
    BY <1>3 DEF Shrink
  <2> QED
    BY <2>1, TableKept, CallReturns
<1> QED
  BY <1>2, <1>3

LEMMA SetRoot_Inv ==
    ASSUME NEW t \in Threads, LatchInv, SetRoot(t)
    PROVE  LatchInv' /\ HandsKept
<1> DEFINE p == th[t].page
<1>1. CallShape(t) /\ DOMAIN th = Threads /\ DOMAIN pages = PageNums
  BY DEF LatchInv
<1>2. /\ th[t].pc = "new_root" /\ th'[t].pc = "free_root" /\ th'[t].page = p
      /\ th'[t].op = th[t].op /\ th'[t].stack = th[t].stack
      /\ DOMAIN th'[t] = Fields /\ DOMAIN th' = Threads
      /\ \A u \in Threads \ {t} : th'[u] = th[u]
      /\ DOMAIN pages' = PageNums /\ \A q \in PageNums \ {p} : pages'[q] = pages[q]
      /\ KeepLatches /\ CanWrite(Meta)
  BY <1>1 DEF SetRoot, CallShape, Fields
<1> HIDE DEF p
<1>3. /\ Writes(t) /\ Writes(t)' /\ StackPages(t)' = StackPages(t)
      /\ Working(t) = {p} /\ Working(t)' = {p}
  BY <1>1, <1>2 DEF Writes, StackPages, Working, CallShape, OpFits, p
<1>4. CallShape(t)' /\ InHand(t)' = InHand(t)
  BY <1>1, <1>2, <1>3 DEF CallShape, OpFits, Apart, InHand
<1>5. LatchInv'
  BY <1>2, <1>3, <1>4, CallKeeps
<1>6. HandsKept
  <2>1. th'[t] # th[t] /\ \A q \in {p, Meta} \cap AllPages : writer[q] = t \/ CanWrite(q)
    BY <1>2, <1>3, HandsWritten
  <2> QED
    BY <1>2, <2>1, OwnPagesOnly
<1> QED
  BY <1>5, <1>6

LEMMA FreeRoot_Inv ==
    ASSUME NEW t \in Threads, LatchInv, FreeRoot(t)
    PROVE  LatchInv' /\ HandsKept
<1> DEFINE p == th[t].page
<1>1. CallShape(t) /\ DOMAIN th = Threads /\ DOMAIN pages = PageNums
  BY DEF LatchInv
<1>2. /\ th[t].pc = "free_root" /\ Return(t) /\ CanWrite(Meta)
      /\ DOMAIN pages' = PageNums /\ \A q \in PageNums \ {p} : pages'[q] = pages[q]
  BY <1>1 DEF FreeRoot, Pushed
<1>3. p \in Working(t) /\ Writes(t)
  BY <1>1, <1>2 DEF CallShape, OpFits, Writes, Working
<1> HIDE DEF p
<1>4. \A q \in {p, Meta} \cap AllPages : writer[q] = t \/ CanWrite(q)
  BY <1>2, <1>3, HandsWritten
<1>5. th'[t] # th[t]
  BY <1>1, <1>2 DEF Return, Idle
<1>6. LatchInv'
  BY <1>2, CallReturns
<1>7. HandsKept
  BY <1>2, <1>4, <1>5, OwnPagesOnly
<1> QED
  BY <1>6, <1>7

LEMMA VacuumBuilds_Inv ==
    ASSUME NEW t \in Threads, LatchInv, VacuumBuilds(t)
    PROVE  LatchInv' /\ HandsKept
<1>1. CallShape(t) /\ DOMAIN th = Threads /\ DOMAIN pages' = PageNums
  BY TableKept DEF LatchInv, VacuumBuilds
<1>2. CASE Panics(t) \/ Return(t)
  BY <1>2, TableKept, CallReturns DEF VacuumBuilds
<1>3. CASE th[t].seen # <<>> /\ Loads(th[t].seen)
  <2>1. /\ th'[t].pc = "swap" /\ th[t].op = "vacuum" /\ th'[t].op = "vacuum"
        /\ th'[t].stack = th[t].stack
        /\ DOMAIN th'[t] = Fields /\ DOMAIN th' = Threads
        /\ \A u \in Threads \ {t} : th'[u] = th[u]
        /\ Latch(t, {}, AllPages)
    BY <1>1, <1>3 DEF VacuumBuilds, CallShape, Fields
  <2>2. /\ ~Writes(t) /\ ~Writes(t)' /\ th'[t].stack = <<>>
        /\ StackPages(t)' = {} /\ Working(t)' = {}
    BY <1>1, <2>1 DEF Writes, CallShape, StackPages, Working
  <2>3. CallShape(t)' /\ InHand(t)' = {}
    BY <2>1, <2>2, EmptyPath DEF CallShape, OpFits, Apart, InHand
  <2>4. LatchInv'
    BY <1>1, <2>1, <2>2, <2>3, CallMoves
  <2> QED
    BY <2>4, TableKept DEF VacuumBuilds
<1> QED
  BY <1>2, <1>3 DEF VacuumBuilds

(* swap_file replaces all pages when nobody has one.                          *)
LEMMA SwapFile_Inv ==
    ASSUME NEW t \in Threads, LatchInv, SwapFile(t)
    PROVE  LatchInv' /\ HandsKept
<1>1. Return(t) /\ DOMAIN pages' = PageNums
  BY DEF SwapFile
<1>2. LatchInv'
  BY <1>1, CallReturns
<1>3. \A u \in Threads : InHand(u) = {}
  BY DEF SwapFile, HoldsGuard, LatchInv, InHand, Has
<1> QED
  BY <1>2, <1>3 DEF HandsKept

-----------------------------------------------------------------------------
(* The theorems.                                                              *)

LEMMA LatchInit == Init => LatchInv
<1> SUFFICES ASSUME Init PROVE LatchInv
  OBVIOUS
<1>1. DOMAIN th = Threads /\ DOMAIN pages = PageNums /\ Exclusive
  BY DEF Init, Exclusive
<1>2. ASSUME NEW t \in Threads
      PROVE  CallShape(t) /\ InHand(t) = {}
  <2>1. /\ DOMAIN th[t] = Fields /\ th[t].pc = "idle" /\ th[t].stack = <<>>
    BY DEF Init, Idle, Fields
  <2> QED
    BY <2>1, EmptyPath DEF CallShape, OpFits, Apart, InHand, Working, StackPages
<1> QED
  BY <1>1, <1>2 DEF LatchInv

LEMMA LatchStep == LatchInv /\ [Next]_vars => LatchInv' /\ HandsKept
<1> SUFFICES ASSUME LatchInv, [Next]_vars
             PROVE  LatchInv' /\ HandsKept
  OBVIOUS
<1>1. CASE UNCHANGED vars
  <2>1. /\ th' = th /\ pages' = pages /\ meta' = meta /\ writer' = writer /\ readers' = readers
    BY <1>1 DEF vars
  <2>2. Exclusive' = Exclusive
    BY <2>1 DEF Exclusive
  <2>3. \A t : CallShape(t)' = CallShape(t)
    BY <2>1 DEF CallShape, OpFits, Apart, Writes, Working, Splitting, StackPages
  <2>4. \A t : InHand(t)' = InHand(t)
    BY <2>1 DEF InHand, Working, Splitting, StackPages
  <2>5. \A t, p : Has(t, p)' = Has(t, p)
    BY <2>1 DEF Has, Writes
  <2>6. LatchInv'
    BY <2>1, <2>2, <2>3, <2>4, <2>5 DEF LatchInv
  <2>7. HandsKept
    BY <2>1 DEF HandsKept, Content
  <2> QED BY <2>6, <2>7
<1>2. CASE Next
  <2>1. PICK t \in Threads : Begin(t) \/ Resume(t)
    BY <1>2 DEF Next
  <2>2. CASE Begin(t)
    BY <2>2, Begin_Inv
  <2>3. CASE Local(t)
    BY <2>3, Descend_Inv, Returning_Inv, Collect_Inv, InsertFits_Inv, InsertSplits_Inv,
       SplitLeaf_Inv, Place_Inv, InsertSeparator_Inv, ParentFull_Inv, NoParent_Inv,
       SplitInternal_Inv, DeleteRow_Inv, Balanced_Inv, JoinRight_Inv, JoinLeft_Inv,
       Merge_Inv, Borrow_Inv, VacuumBuilds_Inv
    DEF Local
  <2>4. CASE Fetching(t)
    BY <2>4, ReadRootId_Inv, LatchRoot_Inv, Returning_Inv, CheckRoot_Inv, LatchChild_Inv,
       AllocNew_Inv, AllocHead_Inv, AllocPop_Inv, Relink_Inv, NewRoot_Inv, LatchLeft_Inv,
       LatchRight_Inv, Unlink_Inv, FreeRight_Inv, Shrink_Inv, SetRoot_Inv, FreeRoot_Inv,
       SwapFile_Inv
    DEF Fetching
  <2>5. CASE FetchPoisoned(t)
    BY <2>5, Returning_Inv
  <2> QED
    BY <2>1, <2>2, <2>3, <2>4, <2>5 DEF Resume
<1> QED
  BY <1>1, <1>2

(* Wherever a call is, it holds the latch of every page it counts on, a write *)
(* latch when it is an insert or a delete, and no latch has a writer beside   *)
(* anybody else.                                                              *)
THEOREM LatchDiscipline == Spec => []LatchInv
<1>1. Init => LatchInv
  BY LatchInit
<1>2. LatchInv /\ [Next]_vars => LatchInv'
  BY LatchStep
<1> QED
  BY <1>1, <1>2, PTL DEF Spec

(* Nobody changes a page that a call of another thread counts on: the latches *)
(* are enough for what insert, delete, get, get_range and vacuum decide.      *)
THEOREM HandsAreKept == Spec => PagesInHandStay
<1>1. LatchInv /\ [Next]_vars =>
        [\A t \in Threads : th'[t] = th[t] => \A p \in InHand(t) : Content(p)' = Content(p)]_vars
  BY LatchStep DEF HandsKept
<1> QED
  BY <1>1, LatchDiscipline, PTL DEF Spec, PagesInHandStay
=============================================================================
