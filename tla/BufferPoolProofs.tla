-------------------------- MODULE BufferPoolProofs --------------------------
(* Theorems about BufferPool for any number of guards, flushers, pages and    *)
(* frames, as long as the file holds a single table (OneTable).  Inv is the   *)
(* inductive invariant: the properties of BufferPool say what a guard may     *)
(* rely on, the other conjuncts what claim_frame and load_page rely on while  *)
(* they hold the big dumb lock.                                               *)
EXTENDS BufferPool, FiniteSetTheorems, TLAPS

(* Two page ids never share a slot of the file.                               *)
OneTable == \A p, q \in PageIds : OffsetOf[p] = OffsetOf[q] => p = q

(* The lock is held from the miss to the fill, and by nobody else.            *)
LockInv ==
    /\ \A c \in Clients : pc[c] \in {"claim", "fill"} <=> lock = c
    /\ lock # None => ~poisoned

(* What the locals of a client stand for.                                     *)
LocalsInv ==
    \A c \in Clients :
        /\ pc[c] \in {"claim", "fill", "latch", "hold", "unpin"} => want[c] \in PageIds
        /\ pc[c] \in {"fill", "latch", "hold", "unpin"} => frame[c] \in Frames
        /\ pc[c] \in {"claim", "fill"} =>
              /\ buf[c] \in Page
              /\ buf[c].id = want[c]
              /\ page_table[want[c]] = NoFrame
        /\ pc[c] = "fill" =>
              /\ frame[c] \notin free_frames
              /\ \A p \in PageIds : page_table[p] # frame[c]
              /\ content[frame[c]].id # want[c]
        /\ pc[c] = "latch" => mode[c] # "new"

(* A page in the file lies in its own slot.                                   *)
DiskInv == \A o \in Offsets : disk[o] # NoPage =>
              disk[o].id \in PageIds /\ OffsetOf[disk[o].id] = o

(* A frame is free and empty, or it is the frame its page is mapped to; the   *)
(* claimed frame, and after a panic any frame, may hold an unmapped page.     *)
FrameInv ==
    /\ \A f \in free_frames : content[f] = NoPage
    /\ \A f \in Frames, p \in PageIds :
          content[f].id = p => page_table[p] \in {f, NoFrame}
    /\ ~poisoned => \A f \in Frames \ free_frames :
          \/ content[f].id \in PageIds /\ page_table[content[f].id] = f
          \/ \E c \in Clients : pc[c] = "fill" /\ frame[c] = f

(* Who holds a latch, and how.                                                *)
LatchInv ==
    /\ \A f \in Frames : writer[f] # None =>
          /\ pc[writer[f]] = "hold" /\ frame[writer[f]] = f /\ mode[writer[f]] # "read"
          /\ readers[f] = {}
    /\ \A f \in Frames, c \in Clients : c \in readers[f] =>
          pc[c] = "hold" /\ frame[c] = f /\ mode[c] = "read"
    /\ \A c \in Clients : pc[c] = "hold" =>
          IF mode[c] = "read" THEN c \in readers[frame[c]] ELSE writer[frame[c]] = c
    /\ \A f \in Frames, t \in Flushers :
          t \in readers[f] <=> fpc[t] = "write" /\ fidx[t] = f

(* What load_page read is still what the file holds when the frame is filled. *)
CleanInv ==
    /\ CleanFrameMatchesDisk
    /\ \A c \in Clients : pc[c] \in {"claim", "fill"} /\ mode[c] # "new" =>
          buf[c] = disk[OffsetOf[want[c]]]

Inv ==
    /\ TypeOK
    /\ LockInv
    /\ LocalsInv
    /\ DiskInv
    /\ FrameInv
    /\ LatchInv
    /\ MappedFrameHoldsItsPage
    /\ GuardKeepsItsPage
    /\ PinsMatchGuards
    /\ CleanInv

(* Frame numbers, and that no frame is the unmapped mark.                     *)
LEMMA FrameFacts ==
    /\ NoFrame \notin Frames
    /\ 0 \in Frames
    /\ \A i \in Frames : i + 1 # PoolSize => i + 1 \in Frames
BY PoolSizeAssumption DEF Frames, NoFrame

(* None is nobody and nothing.                                                *)
LEMMA NoneFacts ==
    /\ None \notin Clients /\ None \notin Flushers /\ None \notin PageIds
    /\ Clients \cap Flushers = {}
    /\ NoPage \notin Page
BY ActorAssumption DEF NoPage, Page

LEMMA UsersFinite == \A f : IsFiniteSet(Using(f))
BY ActorAssumption, FS_Subset DEF Using

(* The version a page has is a number, 0 if it exists nowhere.                *)
LEMMA CurrentType == ASSUME TypeOK PROVE \A p \in PageIds : Current(p) \in Nat
BY OffsetAssumption, FrameFacts DEF TypeOK, Current, Page, NoPage

(* The three ways a step may change who uses a frame: nobody comes or goes,   *)
(* a client pins one frame, a client gives its pin back.                      *)
LEMMA SameUsers ==
    ASSUME PinsMatchGuards, pin_count' = pin_count,
           \A c \in Clients : \/ frame'[c] = frame[c]
                             \/ {pc[c], pc'[c]} \cap {"latch", "hold", "unpin"} = {},
           \A c \in Clients : pc[c] \in {"latch", "hold", "unpin"}
                                <=> pc'[c] \in {"latch", "hold", "unpin"}
    PROVE  PinsMatchGuards'
<1>1. \A f \in Frames : Using(f)' = Using(f)
  BY Zenon DEF Using
<1> QED BY <1>1 DEF PinsMatchGuards

LEMMA UserAdded ==
    ASSUME TypeOK, PinsMatchGuards, NEW c \in Clients, NEW g \in Frames,
           pin_count' = pin_frame(g), c \notin Using(g),
           \A f \in Frames : Using(f)' = IF f = g THEN Using(f) \cup {c} ELSE Using(f)
    PROVE  PinsMatchGuards'
<1>1. Cardinality(Using(g) \cup {c}) = Cardinality(Using(g)) + 1
  BY UsersFinite, FS_AddElement
<1> QED BY <1>1 DEF TypeOK, PinsMatchGuards, pin_frame

LEMMA UserRemoved ==
    ASSUME TypeOK, PinsMatchGuards, NEW c \in Clients, NEW g \in Frames,
           pin_count' = unpin_frame(g), c \in Using(g),
           \A f \in Frames : Using(f)' = IF f = g THEN Using(f) \ {c} ELSE Using(f)
    PROVE  PinsMatchGuards'
<1>1. Cardinality(Using(g) \ {c}) = Cardinality(Using(g)) - 1
  BY UsersFinite, FS_RemoveElement
<1> QED BY <1>1 DEF TypeOK, PinsMatchGuards, unpin_frame

(* A frame some guard uses is pinned.                                         *)
LEMMA UsedIsPinned ==
    ASSUME TypeOK, PinsMatchGuards, NEW c \in Clients, frame[c] \in Frames,
           pc[c] \in {"latch", "hold", "unpin"}
    PROVE  pin_count[frame[c]] \in Nat \ {0}
<1>1. c \in Using(frame[c])
  BY DEF Using
<1>2. Cardinality(Using(frame[c])) # 0
  BY <1>1, UsersFinite, FS_EmptySet
<1> QED BY <1>2 DEF TypeOK, PinsMatchGuards

(* checkout_page pins a frame under the lock: one more user of that frame.    *)
LEMMA FetchHit_Inv ==
    ASSUME OneTable, Inv, NEW c \in Clients, NEW p \in PageIds,
           NEW m \in {"read", "write"}, FetchHit(c, p, m)
    PROVE  Inv'
<1>1. TypeOK'
  BY DEF Inv, FetchHit, TypeOK, ClientPcs, FlushPcs, Modes, MayEnter, pin_frame,
         poolVars, flushVars
<1>2. LockInv'
  BY DEF Inv, FetchHit, LockInv, MayEnter, pin_frame, poolVars, flushVars
<1>3. LocalsInv'
  BY DEF Inv, FetchHit, TypeOK, LocalsInv, MayEnter, pin_frame, poolVars, flushVars
<1>4. FrameInv'
  BY DEF Inv, FetchHit, FrameInv, MayEnter, pin_frame, poolVars, flushVars
<1>5. LatchInv'
  BY DEF Inv, FetchHit, LatchInv, MayEnter, pin_frame, poolVars, flushVars
<1>6. GuardKeepsItsPage'
  BY NoneFacts, FrameFacts, OffsetAssumption DEF Inv, FetchHit, OneTable, TypeOK,
       GuardKeepsItsPage, LockInv, LocalsInv, FrameInv, MappedFrameHoldsItsPage,
       MayEnter, pin_frame, poolVars, flushVars, Page, NoPage
<1>7. PinsMatchGuards'
  <2>1. page_table[p] \in Frames /\ c \notin Using(page_table[p])
    BY DEF Inv, FetchHit, MayEnter, TypeOK, Using
  <2>2. \A f \in Frames : Using(f)' = IF f = page_table[p] THEN Using(f) \cup {c} ELSE Using(f)
    BY DEF Inv, FetchHit, MayEnter, TypeOK, Using
  <2> QED BY <2>1, <2>2, UserAdded DEF Inv, FetchHit
<1>8. CleanInv'
  BY DEF Inv, FetchHit, CleanInv, CleanFrameMatchesDisk, MayEnter, pin_frame,
         poolVars, flushVars
<1>9. DiskInv' /\ MappedFrameHoldsItsPage'
  BY DEF Inv, FetchHit, DiskInv, MappedFrameHoldsItsPage, MayEnter, pin_frame,
         poolVars, flushVars
<1> QED BY <1>1, <1>2, <1>3, <1>4, <1>5, <1>6, <1>7, <1>8, <1>9 DEF Inv

(* load_page takes the lock and reads the file; the page is mapped nowhere.   *)
LEMMA FetchMiss_Inv ==
    ASSUME OneTable, Inv, NEW c \in Clients, NEW p \in PageIds,
           NEW m \in {"read", "write"}, FetchMiss(c, p, m)
    PROVE  Inv'
<1>1. TypeOK'
  BY NoneFacts, FrameFacts, OffsetAssumption DEF Inv, FetchMiss, OneTable, TypeOK,
       ClientPcs, FlushPcs, Modes, LockInv, LocalsInv, FrameInv,
       MappedFrameHoldsItsPage, GuardKeepsItsPage, MayEnter, frameVars, flushVars,
       Page, NoPage
<1>2. LockInv'
  BY NoneFacts DEF Inv, FetchMiss, TypeOK, LockInv, MayEnter, frameVars, flushVars
<1>3. LocalsInv'
  BY NoneFacts, FrameFacts, OffsetAssumption DEF Inv, FetchMiss, OneTable, TypeOK,
       DiskInv, LatchInv, LocalsInv, LockInv, FrameInv, MappedFrameHoldsItsPage,
       GuardKeepsItsPage, MayEnter, frameVars, flushVars, Page, NoPage, CleanInv,
       CleanFrameMatchesDisk
<1>4. FrameInv'
  BY DEF Inv, FetchMiss, FrameInv, MayEnter, frameVars, flushVars
<1>5. LatchInv'
  BY DEF Inv, FetchMiss, LatchInv, MayEnter, frameVars, flushVars
<1>6. GuardKeepsItsPage'
  BY DEF Inv, FetchMiss, GuardKeepsItsPage, MayEnter, frameVars, flushVars
<1>7. PinsMatchGuards'
  BY DEF Inv, FetchMiss, PinsMatchGuards, Using, MayEnter, frameVars, flushVars
<1>8. CleanInv'
  BY DEF Inv, FetchMiss, TypeOK, CleanInv, CleanFrameMatchesDisk, MayEnter,
         frameVars, flushVars
<1>9. DiskInv' /\ MappedFrameHoldsItsPage'
  BY DEF Inv, FetchMiss, DiskInv, MappedFrameHoldsItsPage, MayEnter, frameVars,
         flushVars
<1> QED BY <1>1, <1>2, <1>3, <1>4, <1>5, <1>6, <1>7, <1>8, <1>9 DEF Inv

(* new_page takes the lock for a page number that exists nowhere yet.         *)
LEMMA NewPage_Inv ==
    ASSUME OneTable, Inv, NEW c \in Clients, NEW p \in PageIds, NewPage(c, p)
    PROVE  Inv'
<1>1. TypeOK'
  BY FrameFacts DEF Inv, NewPage, TypeOK, ClientPcs, FlushPcs, Modes, MayEnter,
                    NotYetUsed, frameVars, flushVars, Page, NoPage
<1>2. LockInv'
  BY NoneFacts DEF Inv, NewPage, TypeOK, LockInv, MayEnter, NotYetUsed, frameVars,
                   flushVars
<1>3. LocalsInv'
  BY FrameFacts DEF Inv, NewPage, TypeOK, LocalsInv, MayEnter, NotYetUsed, frameVars,
                    flushVars, Page, NoPage
<1>4. FrameInv'
  BY DEF Inv, NewPage, FrameInv, MayEnter, NotYetUsed, frameVars, flushVars
<1>5. LatchInv'
  BY DEF Inv, NewPage, LatchInv, MayEnter, NotYetUsed, frameVars, flushVars
<1>6. GuardKeepsItsPage'
  BY DEF Inv, NewPage, GuardKeepsItsPage, MayEnter, NotYetUsed, frameVars, flushVars
<1>7. PinsMatchGuards'
  BY DEF Inv, NewPage, PinsMatchGuards, Using, MayEnter, NotYetUsed, frameVars,
         flushVars
<1>8. CleanInv'
  BY DEF Inv, NewPage, TypeOK, CleanInv, CleanFrameMatchesDisk, MayEnter, NotYetUsed,
         frameVars, flushVars
<1>9. DiskInv' /\ MappedFrameHoldsItsPage'
  BY DEF Inv, NewPage, DiskInv, MappedFrameHoldsItsPage, MayEnter, NotYetUsed,
         frameVars, flushVars
<1> QED BY <1>1, <1>2, <1>3, <1>4, <1>5, <1>6, <1>7, <1>8, <1>9 DEF Inv

(* A poisoned lock only stops the caller.                                     *)
LEMMA EnterPoisoned_Inv ==
    ASSUME OneTable, Inv, NEW c \in Clients, EnterPoisoned(c)
    PROVE  Inv'
<1>1. TypeOK'
  BY DEF Inv, EnterPoisoned, TypeOK, ClientPcs, FlushPcs, Modes, MayEnter, poolVars,
         frameVars, flushVars
<1>2. LockInv'
  BY DEF Inv, EnterPoisoned, LockInv, MayEnter, poolVars, frameVars, flushVars
<1>3. LocalsInv'
  BY DEF Inv, EnterPoisoned, LocalsInv, MayEnter, poolVars, frameVars, flushVars
<1>4. FrameInv'
  BY DEF Inv, EnterPoisoned, FrameInv, MayEnter, poolVars, frameVars, flushVars
<1>5. LatchInv'
  BY DEF Inv, EnterPoisoned, LatchInv, MayEnter, poolVars, frameVars, flushVars
<1>6. GuardKeepsItsPage'
  BY DEF Inv, EnterPoisoned, GuardKeepsItsPage, MayEnter, poolVars, frameVars, flushVars
<1>7. PinsMatchGuards'
  BY DEF Inv, EnterPoisoned, PinsMatchGuards, Using, MayEnter, poolVars, frameVars,
         flushVars
<1>8. CleanInv'
  BY DEF Inv, EnterPoisoned, CleanInv, CleanFrameMatchesDisk, MayEnter, poolVars,
         frameVars, flushVars
<1>9. DiskInv' /\ MappedFrameHoldsItsPage'
  BY DEF Inv, EnterPoisoned, DiskInv, MappedFrameHoldsItsPage, MayEnter, poolVars,
         frameVars, flushVars
<1> QED BY <1>1, <1>2, <1>3, <1>4, <1>5, <1>6, <1>7, <1>8, <1>9 DEF Inv

(* claim_frame takes a free frame, which holds no page and is mapped to none. *)
LEMMA ClaimFree_Inv ==
    ASSUME OneTable, Inv, NEW c \in Clients, ClaimFree(c)
    PROVE  Inv'
<1>1. TypeOK'
  BY DEF Inv, ClaimFree, TypeOK, ClientPcs, FlushPcs, Modes, frameVars, flushVars
<1>2. LockInv'
  BY DEF Inv, ClaimFree, LockInv, frameVars, flushVars
<1>3. LocalsInv'
  BY NoneFacts, FrameFacts, OffsetAssumption DEF Inv, ClaimFree, OneTable, TypeOK,
       LocalsInv, LockInv, FrameInv, MappedFrameHoldsItsPage, GuardKeepsItsPage,
       frameVars, flushVars, Page, NoPage
<1>4. FrameInv'
  BY DEF Inv, ClaimFree, TypeOK, FrameInv, frameVars, flushVars
<1>5. LatchInv'
  BY DEF Inv, ClaimFree, LatchInv, frameVars, flushVars
<1>6. GuardKeepsItsPage'
  BY DEF Inv, ClaimFree, GuardKeepsItsPage, frameVars, flushVars
<1>7. PinsMatchGuards'
  BY DEF Inv, ClaimFree, PinsMatchGuards, Using, frameVars, flushVars
<1>8. CleanInv'
  BY DEF Inv, ClaimFree, CleanInv, CleanFrameMatchesDisk, frameVars, flushVars
<1>9. DiskInv' /\ MappedFrameHoldsItsPage'
  BY DEF Inv, ClaimFree, DiskInv, MappedFrameHoldsItsPage, frameVars, flushVars
<1> QED BY <1>1, <1>2, <1>3, <1>4, <1>5, <1>6, <1>7, <1>8, <1>9 DEF Inv

(* claim_frame evicts: the victim has no users, so no guard loses its page.   *)
LEMMA Evict_Inv ==
    ASSUME OneTable, Inv, NEW c \in Clients, Evict(c)
    PROVE  Inv'
<1>1. TypeOK'
  <2> PICK f \in Frames : /\ disk' = WrittenBack(f)
                          /\ page_table' = Unmapped(content[f].id)
                          /\ frame' = [frame EXCEPT ![c] = f]
    BY DEF Evict
  <2>1. disk' \in [Offsets -> Page \cup {NoPage}]
    BY DEF Inv, TypeOK, WrittenBack, Written
  <2>2. page_table' \in [PageIds -> Frames \cup {NoFrame}]
    BY DEF Inv, TypeOK, Unmapped
  <2>3. pc' \in [Clients -> ClientPcs] /\ frame' \in [Clients -> Frames \cup {NoFrame}]
    BY DEF Inv, TypeOK, Evict, ClientPcs
  <2> QED BY <2>1, <2>2, <2>3 DEF Inv, TypeOK, Evict, frameVars, flushVars
<1>2. LockInv'
  BY DEF Inv, Evict, LockInv, is_pinned, LatchFree, WrittenBack, Written, Unmapped,
         frameVars, flushVars
<1>3. LocalsInv'
  BY NoneFacts, FrameFacts, OffsetAssumption DEF Inv, Evict, OneTable, TypeOK,
       LocalsInv, LockInv, FrameInv, MappedFrameHoldsItsPage, GuardKeepsItsPage,
       is_pinned, LatchFree, WrittenBack, Written, Unmapped, frameVars, flushVars,
       Page, NoPage
<1>4. DiskInv'
  BY FrameFacts DEF Inv, Evict, TypeOK, DiskInv, is_pinned, LatchFree, WrittenBack,
                    Written, Unmapped, frameVars, flushVars, Page, NoPage
<1>5. FrameInv'
  BY DEF Inv, Evict, TypeOK, FrameInv, is_pinned, LatchFree, WrittenBack, Written,
         Unmapped, frameVars, flushVars
<1>6. LatchInv'
  BY DEF Inv, Evict, LatchInv, is_pinned, LatchFree, WrittenBack, Written, Unmapped,
         frameVars, flushVars
<1>7. MappedFrameHoldsItsPage'
  BY DEF Inv, Evict, MappedFrameHoldsItsPage, is_pinned, LatchFree, WrittenBack,
         Written, Unmapped, frameVars, flushVars
<1>8. GuardKeepsItsPage'
  <2> PICK f \in Frames : ~is_pinned(f) /\ page_table' = Unmapped(content[f].id)
    BY DEF Evict
  <2> SUFFICES ASSUME NEW d \in Clients, pc[d] \in {"latch", "hold"}
               PROVE  page_table'[want[d]] = frame[d] /\ content[frame[d]].id = want[d]
    <3>1. \A d \in Clients : pc'[d] \in {"latch", "hold"} => pc[d] \in {"latch", "hold"}
      BY DEF Evict, Inv, TypeOK
    <3>2. \A d \in Clients : pc[d] \in {"latch", "hold"} => frame'[d] = frame[d]
      BY DEF Evict, Inv, TypeOK
    <3> QED BY <3>1, <3>2 DEF Evict, frameVars, GuardKeepsItsPage
  <2>1. want[d] \in PageIds /\ frame[d] \in Frames /\ page_table[want[d]] = frame[d]
        /\ content[frame[d]].id = want[d]
    BY DEF Inv, LocalsInv, GuardKeepsItsPage
  <2>2. frame[d] # f
    BY <2>1, UsedIsPinned DEF Inv, is_pinned
  <2>3. content[f].id # want[d]
    BY <2>1, <2>2, FrameFacts DEF Inv, FrameInv
  <2> QED BY <2>1, <2>3 DEF Unmapped, Inv, TypeOK
<1>9. PinsMatchGuards'
  <2>1. pin_count' = pin_count /\ \A d \in Clients : d # c => pc'[d] = pc[d] /\ frame'[d] = frame[d]
    BY DEF Inv, TypeOK, Evict, frameVars, pin_frame
  <2>2. {pc[c], pc'[c]} \cap {"latch", "hold", "unpin"} = {}
    BY DEF Inv, TypeOK, Evict
  <2> QED BY <2>1, <2>2, SameUsers DEF Inv
<1>10. CleanInv'
  BY NoneFacts, FrameFacts, OffsetAssumption DEF Inv, Evict, OneTable, TypeOK,
       CleanInv, CleanFrameMatchesDisk, LockInv, LocalsInv, FrameInv,
       MappedFrameHoldsItsPage, GuardKeepsItsPage, is_pinned, LatchFree, WrittenBack,
       Written, Unmapped, frameVars, flushVars, Page, NoPage
<1> QED BY <1>1, <1>2, <1>3, <1>4, <1>5, <1>6, <1>7, <1>8, <1>9, <1>10 DEF Inv

(* claim_frame gives up and releases the lock.                                *)
LEMMA NoFreeFrames_Inv ==
    ASSUME OneTable, Inv, NEW c \in Clients, NoFreeFrames(c)
    PROVE  Inv'
<1>1. TypeOK'
  BY DEF Inv, NoFreeFrames, TypeOK, ClientPcs, FlushPcs, Modes, Forget, is_pinned,
         LatchFree, frameVars, flushVars
<1>2. LockInv'
  BY NoneFacts DEF Inv, NoFreeFrames, TypeOK, LockInv, Forget, is_pinned, LatchFree,
                   frameVars, flushVars
<1>3. LocalsInv'
  BY DEF Inv, NoFreeFrames, TypeOK, LocalsInv, Forget, is_pinned, LatchFree,
         frameVars, flushVars
<1>4. FrameInv'
  BY DEF Inv, NoFreeFrames, FrameInv, Forget, is_pinned, LatchFree, frameVars, flushVars
<1>5. LatchInv'
  BY DEF Inv, NoFreeFrames, LatchInv, Forget, is_pinned, LatchFree, frameVars, flushVars
<1>6. GuardKeepsItsPage'
  BY DEF Inv, NoFreeFrames, GuardKeepsItsPage, Forget, is_pinned, LatchFree,
         frameVars, flushVars
<1>7. PinsMatchGuards'
  BY DEF Inv, NoFreeFrames, PinsMatchGuards, Using, Forget, is_pinned, LatchFree,
         frameVars, flushVars
<1>8. CleanInv'
  BY DEF Inv, NoFreeFrames, TypeOK, CleanInv, CleanFrameMatchesDisk, Forget,
         is_pinned, LatchFree, frameVars, flushVars
<1>9. DiskInv' /\ MappedFrameHoldsItsPage'
  BY DEF Inv, NoFreeFrames, DiskInv, MappedFrameHoldsItsPage, Forget, is_pinned,
         LatchFree, frameVars, flushVars
<1> QED BY <1>1, <1>2, <1>3, <1>4, <1>5, <1>6, <1>7, <1>8, <1>9 DEF Inv

(* A failed write-back leaves the victim mapped.                              *)
LEMMA EvictIoError_Inv ==
    ASSUME OneTable, Inv, NEW c \in Clients, EvictIoError(c)
    PROVE  Inv'
<1>1. TypeOK'
  BY DEF Inv, EvictIoError, TypeOK, ClientPcs, FlushPcs, Modes, Forget, is_pinned,
         LatchFree, frameVars, flushVars
<1>2. LockInv'
  BY NoneFacts DEF Inv, EvictIoError, TypeOK, LockInv, Forget, is_pinned, LatchFree,
                   frameVars, flushVars
<1>3. LocalsInv'
  BY DEF Inv, EvictIoError, TypeOK, LocalsInv, Forget, is_pinned, LatchFree,
         frameVars, flushVars
<1>4. FrameInv'
  BY DEF Inv, EvictIoError, FrameInv, Forget, is_pinned, LatchFree, frameVars, flushVars
<1>5. LatchInv'
  BY DEF Inv, EvictIoError, LatchInv, Forget, is_pinned, LatchFree, frameVars, flushVars
<1>6. GuardKeepsItsPage'
  BY DEF Inv, EvictIoError, GuardKeepsItsPage, Forget, is_pinned, LatchFree,
         frameVars, flushVars
<1>7. PinsMatchGuards'
  <2>1. pin_count' = pin_count /\ \A d \in Clients : d # c => pc'[d] = pc[d] /\ frame'[d] = frame[d]
    BY DEF Inv, TypeOK, EvictIoError, Forget, frameVars, pin_frame
  <2>2. {pc[c], pc'[c]} \cap {"latch", "hold", "unpin"} = {}
    BY DEF Inv, TypeOK, EvictIoError, Forget
  <2> QED BY <2>1, <2>2, SameUsers DEF Inv
<1>8. CleanInv'
  BY DEF Inv, EvictIoError, TypeOK, CleanInv, CleanFrameMatchesDisk, Forget,
         is_pinned, LatchFree, frameVars, flushVars
<1>9. DiskInv' /\ MappedFrameHoldsItsPage'
  BY DEF Inv, EvictIoError, DiskInv, MappedFrameHoldsItsPage, Forget, is_pinned,
         LatchFree, frameVars, flushVars
<1> QED BY <1>1, <1>2, <1>3, <1>4, <1>5, <1>6, <1>7, <1>8, <1>9 DEF Inv

(* load_page and new_page fill the claimed frame, map it and pin it.          *)
LEMMA Fill_Inv ==
    ASSUME OneTable, Inv, NEW c \in Clients, Fill(c)
    PROVE  Inv'
<1>1. TypeOK'
  <2>1. frame[c] \in Frames /\ want[c] \in PageIds /\ buf[c] \in Page
    BY DEF Inv, Fill, LocalsInv
  <2>2. pin_count' \in [Frames -> Nat]
    BY <2>1 DEF Inv, TypeOK, Fill, pin_frame
  <2>3. page_table' \in [PageIds -> Frames \cup {NoFrame}]
        /\ content' \in [Frames -> Page \cup {NoPage}]
        /\ dirty' \in [Frames -> BOOLEAN]
    BY <2>1 DEF Inv, TypeOK, Fill, DirtyWhenFilled
  <2>4. writer' \in [Frames -> Clients \cup {None}] /\ pc' \in [Clients -> ClientPcs]
    <3>1. writer' \in [Frames -> Clients \cup {None}]
      BY <2>1 DEF Inv, TypeOK, Fill
    <3>2. pc' \in [Clients -> ClientPcs]
      BY DEF Inv, TypeOK, Fill, ClientPcs
    <3> QED BY <3>1, <3>2
  <2>5. buf' \in [Clients -> Page \cup {NoPage}] /\ lock' \in Clients \cup {None}
    BY DEF Inv, TypeOK, Fill
  <2> QED BY <2>2, <2>3, <2>4, <2>5 DEF Inv, TypeOK, Fill, flushVars
<1>2. LockInv'
  <2>1. \A d \in Clients \ {c} : pc'[d] = pc[d] /\ pc[d] \notin {"claim", "fill"}
    BY DEF Inv, TypeOK, LockInv, Fill
  <2>2. pc'[c] \notin {"claim", "fill"} /\ lock' = None
    BY DEF Inv, TypeOK, Fill
  <2> QED BY <2>1, <2>2, NoneFacts DEF LockInv
<1>3. LocalsInv'
  BY NoneFacts, FrameFacts DEF Inv, Fill, TypeOK, LocalsInv, LockInv, LatchFree,
       pin_frame, DirtyWhenFilled, flushVars
<1>4. FrameInv'
  BY NoneFacts, FrameFacts, OffsetAssumption DEF Inv, Fill, OneTable, TypeOK,
       FrameInv, LockInv, LocalsInv, MappedFrameHoldsItsPage, GuardKeepsItsPage,
       LatchFree, pin_frame, DirtyWhenFilled, flushVars, Page, NoPage
<1>5. LatchInv'
  <2>1. frame[c] \in Frames /\ writer[frame[c]] = None /\ readers[frame[c]] = {}
    BY DEF Inv, LocalsInv, Fill, LatchFree
  <2>2. pc[c] = "fill" /\ frame' = frame /\ mode' = mode /\ readers' = readers
        /\ fpc' = fpc /\ fidx' = fidx /\ \A d \in Clients \ {c} : pc'[d] = pc[d]
    BY DEF Inv, TypeOK, Fill, flushVars
  <2>3. CASE mode[c] = "new"
    <3>1. pc'[c] = "hold" /\ \A f \in Frames : writer'[f] = (IF f = frame[c] THEN c ELSE writer[f])
      BY <2>3, <2>1 DEF Inv, TypeOK, Fill
    <3>2. \A f \in Frames : writer[f] \in Clients \cup {None}
      BY DEF Inv, TypeOK
    <3>3. \A f \in Frames : writer'[f] # None =>
            /\ pc'[writer'[f]] = "hold" /\ frame[writer'[f]] = f /\ mode[writer'[f]] # "read"
            /\ readers[f] = {}
      BY <2>1, <2>2, <2>3, <3>1, <3>2 DEF Inv, LatchInv
    <3>4. \A d \in Clients : pc'[d] = "hold" =>
            IF mode[d] = "read" THEN d \in readers[frame[d]] ELSE writer'[frame[d]] = d
      BY <2>1, <2>2, <2>3, <3>1, NoneFacts DEF Inv, LocalsInv, LatchInv
    <3>5. \A f \in Frames, d \in Clients : d \in readers[f] =>
            pc'[d] = "hold" /\ frame[d] = f /\ mode[d] = "read"
      BY <2>2, <3>1 DEF Inv, LatchInv
    <3> QED BY <2>2, <3>3, <3>4, <3>5 DEF Inv, LatchInv
  <2>4. CASE mode[c] # "new"
    <3>1. pc'[c] = "latch" /\ writer' = writer
      BY <2>4 DEF Inv, TypeOK, Fill
    <3> QED BY <2>1, <2>2, <2>4, <3>1, NoneFacts DEF Inv, TypeOK, LatchInv
  <2> QED BY <2>3, <2>4
<1>6. MappedFrameHoldsItsPage'
  BY DEF Inv, Fill, TypeOK, MappedFrameHoldsItsPage, LocalsInv, LatchFree, pin_frame,
         DirtyWhenFilled, flushVars
<1>7. GuardKeepsItsPage'
  BY NoneFacts, FrameFacts DEF Inv, Fill, TypeOK, GuardKeepsItsPage, LockInv,
       LocalsInv, LatchFree, pin_frame, DirtyWhenFilled, flushVars
<1>8. PinsMatchGuards'
  <2>1. frame[c] \in Frames /\ c \notin Using(frame[c])
    BY DEF Inv, Fill, LocalsInv, Using
  <2>2. \A f \in Frames : Using(f)' = IF f = frame[c] THEN Using(f) \cup {c} ELSE Using(f)
    BY DEF Inv, Fill, TypeOK, Using
  <2> QED BY <2>1, <2>2, UserAdded DEF Inv, Fill
<1>9. CleanInv'
  <2>1. frame[c] \in Frames /\ want[c] \in PageIds /\ page_table[want[c]] = NoFrame
        /\ \A p \in PageIds : page_table[p] # frame[c]
    BY DEF Inv, Fill, LocalsInv
  <2>2. \A p \in PageIds : page_table'[p] = (IF p = want[c] THEN frame[c] ELSE page_table[p])
    BY <2>1 DEF Inv, TypeOK, Fill
  <2>3. \A f \in Frames : /\ content'[f] = (IF f = frame[c] THEN buf[c] ELSE content[f])
                          /\ dirty'[f] = (IF f = frame[c] THEN mode[c] = "new" ELSE dirty[f])
    BY <2>1 DEF Inv, TypeOK, Fill, DirtyWhenFilled
  <2>4. mode[c] # "new" => buf[c] = disk[OffsetOf[want[c]]]
    BY DEF Inv, CleanInv, Fill
  <2>5. CleanFrameMatchesDisk'
    <3> SUFFICES ASSUME NEW p \in PageIds, page_table'[p] # NoFrame, ~dirty'[page_table'[p]]
                 PROVE  disk[OffsetOf[p]] = content'[page_table'[p]]
      BY DEF Fill, CleanFrameMatchesDisk
    <3>1. CASE p = want[c]
      BY <3>1, <2>1, <2>2, <2>3, <2>4
    <3>2. CASE p # want[c]
      BY <3>2, <2>1, <2>2, <2>3 DEF Inv, TypeOK, CleanInv, CleanFrameMatchesDisk
    <3> QED BY <3>1, <3>2
  <2>6. \A d \in Clients : pc'[d] \in {"claim", "fill"} => pc[d] = pc'[d]
        /\ buf'[d] = buf[d]
    BY DEF Inv, TypeOK, Fill
  <2> QED BY <2>5, <2>6 DEF Inv, CleanInv, Fill
<1>10. DiskInv'
  BY DEF Inv, Fill, DiskInv, LatchFree, pin_frame, DirtyWhenFilled, flushVars
<1> QED BY <1>1, <1>2, <1>3, <1>4, <1>5, <1>6, <1>7, <1>8, <1>9, <1>10 DEF Inv

(* The expect of load_page and new_page poisons the lock; the frame it had   *)
(* claimed stays unmapped.                                                   *)
LEMMA FillPanic_Inv ==
    ASSUME OneTable, Inv, NEW c \in Clients, FillPanic(c)
    PROVE  Inv'
<1>1. TypeOK'
  BY DEF Inv, FillPanic, TypeOK, ClientPcs, FlushPcs, Modes, LatchFree, frameVars,
         flushVars
<1>2. LockInv'
  BY NoneFacts DEF Inv, FillPanic, TypeOK, LockInv, LatchFree, frameVars, flushVars
<1>3. LocalsInv'
  BY DEF Inv, FillPanic, LocalsInv, LatchFree, frameVars, flushVars
<1>4. FrameInv'
  BY DEF Inv, FillPanic, FrameInv, LatchFree, frameVars, flushVars
<1>5. LatchInv'
  BY DEF Inv, FillPanic, LatchInv, LatchFree, frameVars, flushVars
<1>6. GuardKeepsItsPage'
  BY DEF Inv, FillPanic, GuardKeepsItsPage, LatchFree, frameVars, flushVars
<1>7. PinsMatchGuards'
  <2>1. pin_count' = pin_count /\ \A d \in Clients : d # c => pc'[d] = pc[d] /\ frame'[d] = frame[d]
    BY DEF Inv, TypeOK, FillPanic, frameVars, pin_frame
  <2>2. {pc[c], pc'[c]} \cap {"latch", "hold", "unpin"} = {}
    BY DEF Inv, TypeOK, FillPanic
  <2> QED BY <2>1, <2>2, SameUsers DEF Inv
<1>8. CleanInv'
  BY DEF Inv, FillPanic, CleanInv, CleanFrameMatchesDisk, LatchFree, frameVars,
         flushVars
<1>9. DiskInv' /\ MappedFrameHoldsItsPage'
  BY DEF Inv, FillPanic, DiskInv, MappedFrameHoldsItsPage, LatchFree, frameVars,
         flushVars
<1> QED BY <1>1, <1>2, <1>3, <1>4, <1>5, <1>6, <1>7, <1>8, <1>9 DEF Inv

(* fetch_read gets its latch.                                                 *)
LEMMA LatchRead_Inv ==
    ASSUME OneTable, Inv, NEW c \in Clients, LatchRead(c)
    PROVE  Inv'
<1>1. TypeOK'
  BY DEF Inv, LatchRead, TypeOK, ClientPcs, FlushPcs, Modes, poolVars, flushVars
<1>2. LockInv'
  BY DEF Inv, LatchRead, LockInv, poolVars, flushVars
<1>3. LocalsInv'
  BY DEF Inv, LatchRead, LocalsInv, poolVars, flushVars
<1>4. FrameInv'
  BY DEF Inv, LatchRead, FrameInv, poolVars, flushVars
<1>5. LatchInv'
  BY NoneFacts, FrameFacts DEF Inv, LatchRead, TypeOK, LatchInv, LockInv, LocalsInv,
       poolVars, flushVars
<1>6. GuardKeepsItsPage'
  BY DEF Inv, LatchRead, GuardKeepsItsPage, poolVars, flushVars
<1>7. PinsMatchGuards'
  BY DEF Inv, LatchRead, PinsMatchGuards, Using, poolVars, flushVars
<1>8. CleanInv'
  BY DEF Inv, LatchRead, CleanInv, CleanFrameMatchesDisk, poolVars, flushVars
<1>9. DiskInv' /\ MappedFrameHoldsItsPage'
  BY DEF Inv, LatchRead, DiskInv, MappedFrameHoldsItsPage, poolVars, flushVars
<1> QED BY <1>1, <1>2, <1>3, <1>4, <1>5, <1>6, <1>7, <1>8, <1>9 DEF Inv

(* fetch_write gets its latch: nobody else holds one.                         *)
LEMMA LatchWrite_Inv ==
    ASSUME OneTable, Inv, NEW c \in Clients, LatchWrite(c)
    PROVE  Inv'
<1>1. TypeOK'
  BY DEF Inv, LatchWrite, TypeOK, ClientPcs, FlushPcs, Modes, LatchFree, poolVars,
         flushVars
<1>2. LockInv'
  BY DEF Inv, LatchWrite, LockInv, LatchFree, poolVars, flushVars
<1>3. LocalsInv'
  BY DEF Inv, LatchWrite, LocalsInv, LatchFree, poolVars, flushVars
<1>4. FrameInv'
  BY DEF Inv, LatchWrite, FrameInv, LatchFree, poolVars, flushVars
<1>5. LatchInv'
  BY NoneFacts, FrameFacts DEF Inv, LatchWrite, TypeOK, LatchInv, LockInv, LocalsInv,
       LatchFree, poolVars, flushVars
<1>6. GuardKeepsItsPage'
  BY DEF Inv, LatchWrite, GuardKeepsItsPage, LatchFree, poolVars, flushVars
<1>7. PinsMatchGuards'
  BY DEF Inv, LatchWrite, PinsMatchGuards, Using, LatchFree, poolVars, flushVars
<1>8. CleanInv'
  BY DEF Inv, LatchWrite, CleanInv, CleanFrameMatchesDisk, LatchFree, poolVars,
         flushVars
<1>9. DiskInv' /\ MappedFrameHoldsItsPage'
  BY DEF Inv, LatchWrite, DiskInv, MappedFrameHoldsItsPage, LatchFree, poolVars,
         flushVars
<1> QED BY <1>1, <1>2, <1>3, <1>4, <1>5, <1>6, <1>7, <1>8, <1>9 DEF Inv

(* With one table in the file a pinned frame never holds another page.        *)
LEMMA WrongPage_Inv ==
    ASSUME OneTable, Inv, NEW c \in Clients, WrongPage(c)
    PROVE  Inv'
<1>1. TypeOK'
  BY DEF Inv, WrongPage, TypeOK, ClientPcs, FlushPcs, Modes, Forget, LatchFree,
         poolVars, frameVars, flushVars
<1>2. LockInv'
  BY DEF Inv, WrongPage, LockInv, Forget, LatchFree, poolVars, frameVars, flushVars
<1>3. LocalsInv'
  BY DEF Inv, WrongPage, TypeOK, LocalsInv, Forget, LatchFree, poolVars, frameVars,
         flushVars
<1>4. FrameInv'
  BY DEF Inv, WrongPage, FrameInv, Forget, LatchFree, poolVars, frameVars, flushVars
<1>5. LatchInv'
  BY DEF Inv, WrongPage, LatchInv, Forget, LatchFree, poolVars, frameVars, flushVars
<1>6. GuardKeepsItsPage'
  BY DEF Inv, WrongPage, GuardKeepsItsPage, Forget, LatchFree, poolVars, frameVars,
         flushVars
<1>7. PinsMatchGuards'
  BY NoneFacts DEF Inv, WrongPage, TypeOK, PinsMatchGuards, Using, LockInv,
                   LocalsInv, GuardKeepsItsPage, Forget, LatchFree, poolVars,
                   frameVars, flushVars
<1>8. CleanInv'
  BY DEF Inv, WrongPage, CleanInv, CleanFrameMatchesDisk, Forget, LatchFree,
         poolVars, frameVars, flushVars
<1>9. DiskInv' /\ MappedFrameHoldsItsPage'
  BY DEF Inv, WrongPage, DiskInv, MappedFrameHoldsItsPage, Forget, LatchFree,
         poolVars, frameVars, flushVars
<1> QED BY <1>1, <1>2, <1>3, <1>4, <1>5, <1>6, <1>7, <1>8, <1>9 DEF Inv

(* deref_mut: the frame's only writer changes the page and marks it dirty.    *)
LEMMA Mutate_Inv ==
    ASSUME OneTable, Inv, NEW c \in Clients, Mutate(c)
    PROVE  Inv'
<1>1. TypeOK'
  BY NoneFacts, FrameFacts, OffsetAssumption DEF Inv, Mutate, OneTable, TypeOK,
       ClientPcs, FlushPcs, Modes, LockInv, LocalsInv, FrameInv,
       MappedFrameHoldsItsPage, GuardKeepsItsPage, poolVars, clientVars, flushVars,
       Page, NoPage
<1>2. LocalsInv'
  BY DEF Inv, Mutate, LocalsInv, poolVars, clientVars, flushVars
<1>3. FrameInv'
  BY NoneFacts, FrameFacts, OffsetAssumption DEF Inv, Mutate, OneTable, TypeOK,
       FrameInv, LockInv, LocalsInv, MappedFrameHoldsItsPage, GuardKeepsItsPage,
       poolVars, clientVars, flushVars, Page, NoPage
<1>4. MappedFrameHoldsItsPage'
  BY DEF Inv, Mutate, MappedFrameHoldsItsPage, poolVars, clientVars, flushVars
<1>5. GuardKeepsItsPage'
  BY DEF Inv, Mutate, GuardKeepsItsPage, poolVars, clientVars, flushVars
<1>6. CleanInv'
  BY DEF Inv, Mutate, TypeOK, CleanInv, CleanFrameMatchesDisk, poolVars, clientVars,
         flushVars
<1>7. LockInv' /\ DiskInv' /\ LatchInv' /\ PinsMatchGuards'
  BY DEF Inv, Mutate, LockInv, DiskInv, LatchInv, PinsMatchGuards, Using, poolVars,
         clientVars, flushVars
<1> QED BY <1>1, <1>2, <1>3, <1>4, <1>5, <1>6, <1>7 DEF Inv

(* A guard's drop lets go of the latch and keeps the pin.                     *)
LEMMA DropLatch_Inv ==
    ASSUME OneTable, Inv, NEW c \in Clients, DropLatch(c)
    PROVE  Inv'
<1>1. TypeOK'
  BY DEF Inv, DropLatch, TypeOK, ClientPcs, FlushPcs, Modes, ReadersWithout,
         WriterWithout, poolVars, flushVars
<1>2. LockInv'
  BY DEF Inv, DropLatch, LockInv, ReadersWithout, WriterWithout, poolVars, flushVars
<1>3. LocalsInv'
  BY DEF Inv, DropLatch, LocalsInv, ReadersWithout, WriterWithout, poolVars, flushVars
<1>4. FrameInv'
  BY DEF Inv, DropLatch, FrameInv, ReadersWithout, WriterWithout, poolVars, flushVars
<1>5. LatchInv'
  BY NoneFacts DEF Inv, DropLatch, TypeOK, LatchInv, ReadersWithout, WriterWithout,
                   poolVars, flushVars
<1>6. GuardKeepsItsPage'
  BY DEF Inv, DropLatch, GuardKeepsItsPage, ReadersWithout, WriterWithout, poolVars,
         flushVars
<1>7. PinsMatchGuards'
  BY DEF Inv, DropLatch, PinsMatchGuards, Using, ReadersWithout, WriterWithout,
         poolVars, flushVars
<1>8. CleanInv'
  BY DEF Inv, DropLatch, CleanInv, CleanFrameMatchesDisk, ReadersWithout,
         WriterWithout, poolVars, flushVars
<1>9. DiskInv' /\ MappedFrameHoldsItsPage'
  BY DEF Inv, DropLatch, DiskInv, MappedFrameHoldsItsPage, ReadersWithout,
         WriterWithout, poolVars, flushVars
<1> QED BY <1>1, <1>2, <1>3, <1>4, <1>5, <1>6, <1>7, <1>8, <1>9 DEF Inv

(* A guard's drop gives the pin back: one user less of that frame.            *)
LEMMA Unpin_Inv ==
    ASSUME OneTable, Inv, NEW c \in Clients, Unpin(c)
    PROVE  Inv'
<1>1. TypeOK'
  <2>1. pin_count[frame[c]] \in Nat \ {0}
    BY UsedIsPinned DEF Inv, Unpin, LocalsInv
  <2>2. pin_count' \in [Frames -> Nat]
    <3>1. pin_count[frame[c]] - 1 \in Nat
      BY <2>1
    <3>2. pin_count \in [Frames -> Nat]
          /\ pin_count' = [pin_count EXCEPT ![frame[c]] = @ - 1]
      BY DEF Inv, TypeOK, Unpin, unpin_frame
    <3> QED BY <3>1, <3>2
  <2>3. pc' \in [Clients -> ClientPcs] /\ mode' \in [Clients -> Modes]
        /\ want' \in [Clients -> PageIds \cup {None}]
           /\ buf' \in [Clients -> Page \cup {NoPage}]
        /\ frame' \in [Clients -> Frames \cup {NoFrame}]
    BY DEF Inv, TypeOK, Unpin, Forget, ClientPcs, Modes
  <2> QED BY <2>2, <2>3 DEF Inv, TypeOK, Unpin, poolVars, flushVars
<1>2. LockInv'
  BY DEF Inv, Unpin, LockInv, Forget, unpin_frame, poolVars, flushVars
<1>3. LocalsInv'
  BY DEF Inv, Unpin, TypeOK, LocalsInv, Forget, unpin_frame, poolVars, flushVars
<1>4. FrameInv'
  BY DEF Inv, Unpin, FrameInv, Forget, unpin_frame, poolVars, flushVars
<1>5. LatchInv'
  BY DEF Inv, Unpin, LatchInv, Forget, unpin_frame, poolVars, flushVars
<1>6. GuardKeepsItsPage'
  BY DEF Inv, Unpin, GuardKeepsItsPage, Forget, unpin_frame, poolVars, flushVars
<1>7. PinsMatchGuards'
  <2>1. frame[c] \in Frames /\ c \in Using(frame[c])
    BY DEF Inv, Unpin, LocalsInv, Using
  <2>2. \A f \in Frames : Using(f)' = IF f = frame[c] THEN Using(f) \ {c} ELSE Using(f)
    BY DEF Inv, Unpin, Forget, TypeOK, Using
  <2> QED BY <2>1, <2>2, UserRemoved DEF Inv, Unpin
<1>8. CleanInv'
  BY DEF Inv, Unpin, CleanInv, CleanFrameMatchesDisk, Forget, unpin_frame, poolVars,
         flushVars
<1>9. DiskInv' /\ MappedFrameHoldsItsPage'
  BY DEF Inv, Unpin, DiskInv, MappedFrameHoldsItsPage, Forget, unpin_frame, poolVars,
         flushVars
<1> QED BY <1>1, <1>2, <1>3, <1>4, <1>5, <1>6, <1>7, <1>8, <1>9 DEF Inv

(* flush_all starts.                                                          *)
LEMMA FlushBegin_Inv ==
    ASSUME OneTable, Inv, NEW t \in Flushers, FlushBegin(t)
    PROVE  Inv'
<1>1. TypeOK'
  <2>1. [p \in PageIds |-> Current(p)] \in [PageIds -> Nat]
    BY CurrentType DEF Inv
  <2>2. fpc' \in [Flushers -> FlushPcs] /\ fidx' \in [Flushers -> Frames]
        /\ floor' \in [Flushers -> [PageIds -> Nat]]
    BY <2>1, FrameFacts DEF Inv, TypeOK, FlushBegin, FlushPcs
  <2> QED BY <2>2 DEF Inv, TypeOK, FlushBegin, poolVars, frameVars, clientVars
<1>2. LatchInv'
  BY DEF Inv, FlushBegin, LatchInv, poolVars, frameVars, clientVars
<1>3. LockInv' /\ LocalsInv' /\ DiskInv' /\ FrameInv' /\ MappedFrameHoldsItsPage'
      /\ GuardKeepsItsPage'
  BY DEF Inv, FlushBegin, LockInv, LocalsInv, DiskInv, FrameInv,
         MappedFrameHoldsItsPage, GuardKeepsItsPage, poolVars, frameVars, clientVars
<1>4. PinsMatchGuards' /\ CleanInv'
  BY DEF Inv, FlushBegin, PinsMatchGuards, Using, CleanInv, CleanFrameMatchesDisk,
         poolVars, frameVars, clientVars
<1> QED BY <1>1, <1>2, <1>3, <1>4 DEF Inv

(* flush_all latches a frame no writer holds.                                 *)
LEMMA FlushLatch_Inv ==
    ASSUME OneTable, Inv, NEW t \in Flushers, FlushLatch(t)
    PROVE  Inv'
<1>1. TypeOK'
  BY DEF Inv, FlushLatch, TypeOK, ClientPcs, FlushPcs, Modes, poolVars, clientVars
<1>2. LatchInv'
  BY NoneFacts DEF Inv, FlushLatch, TypeOK, LatchInv, poolVars, clientVars
<1>3. LockInv' /\ LocalsInv' /\ DiskInv' /\ FrameInv' /\ MappedFrameHoldsItsPage'
      /\ GuardKeepsItsPage'
  BY DEF Inv, FlushLatch, LockInv, LocalsInv, DiskInv, FrameInv,
         MappedFrameHoldsItsPage, GuardKeepsItsPage, poolVars, clientVars
<1>4. PinsMatchGuards' /\ CleanInv'
  BY DEF Inv, FlushLatch, PinsMatchGuards, Using, CleanInv, CleanFrameMatchesDisk,
         poolVars, clientVars
<1> QED BY <1>1, <1>2, <1>3, <1>4 DEF Inv

(* flush_all writes the frame's page, which no writer can change, and clears *)
(* its dirty bit; no load under way has read that page.                      *)
LEMMA FlushFrame_Inv ==
    ASSUME OneTable, Inv, NEW t \in Flushers, FlushFrame(t)
    PROVE  Inv'
<1>1. TypeOK'
  <2>1. fidx[t] \in Frames
    BY DEF Inv, TypeOK
  <2>2. disk' \in [Offsets -> Page \cup {NoPage}]
    BY <2>1, OffsetAssumption DEF Inv, TypeOK, FlushFrame, NeedsFlush, Written, Page,
         NoPage
  <2>3. fpc' \in [Flushers -> FlushPcs] /\ fidx' \in [Flushers -> Frames]
    <3>1. fpc' \in [Flushers -> FlushPcs]
      BY DEF Inv, TypeOK, FlushFrame, FlushPcs
    <3>2. ~LastFrame(t) => fidx[t] + 1 \in Frames
      BY <2>1, FrameFacts DEF LastFrame
    <3>3. fidx' \in [Flushers -> Frames]
      BY <3>2 DEF Inv, TypeOK, FlushFrame
    <3> QED BY <3>1, <3>3
  <2>4. readers' \in [Frames -> SUBSET (Clients \cup Flushers)]
        /\ dirty' \in [Frames -> BOOLEAN]
    BY <2>1 DEF Inv, TypeOK, FlushFrame, ReadersWithout
  <2> QED BY <2>2, <2>3, <2>4 DEF Inv, TypeOK, FlushFrame, poolVars, clientVars
<1>2. DiskInv'
  BY FrameFacts DEF Inv, FlushFrame, TypeOK, DiskInv, ReadersWithout, Written,
                    NeedsFlush, LastFrame, poolVars, clientVars, Page, NoPage
<1>3. LatchInv'
  BY NoneFacts DEF Inv, FlushFrame, TypeOK, LatchInv, ReadersWithout, Written,
                   NeedsFlush, LastFrame, poolVars, clientVars
<1>4. CleanInv'
  <2> DEFINE f == fidx[t]
  <2>1. f \in Frames
    BY DEF Inv, TypeOK
  <2>2. \A p \in PageIds : page_table[p] = f => content[f].id = p
    BY <2>1, FrameFacts DEF Inv, MappedFrameHoldsItsPage
  <2>3. \A g \in Frames : dirty'[g] = (g # f /\ dirty[g])
    BY <2>1 DEF Inv, TypeOK, FlushFrame
  <2>4. ASSUME NEW p \in PageIds, content[f].id # p
        PROVE  disk'[OffsetOf[p]] = disk[OffsetOf[p]]
    BY <2>1, <2>4, OffsetAssumption DEF OneTable, Inv, TypeOK, FlushFrame,
         NeedsFlush, Written, Page, NoPage
  <2>5. ASSUME NEW p \in PageIds, page_table[p] = f
        PROVE  disk'[OffsetOf[p]] = content[f]
    <3>1. content[f] \in Page /\ content[f].id = p
      BY <2>1, <2>2, <2>5, NoneFacts DEF Inv, TypeOK, NoPage
    <3>2. CASE dirty[f]
      BY <3>1, <3>2, <2>1, NoneFacts, OffsetAssumption DEF Inv, TypeOK, FlushFrame,
           NeedsFlush, Written
    <3>3. CASE ~dirty[f]
      BY <3>1, <3>3, <2>1, <2>5, FrameFacts DEF Inv, FlushFrame, NeedsFlush,
           CleanInv, CleanFrameMatchesDisk
    <3> QED BY <3>2, <3>3
  <2>6. CleanFrameMatchesDisk'
    <3> SUFFICES ASSUME NEW p \in PageIds, page_table[p] # NoFrame, ~dirty'[page_table[p]]
                 PROVE  disk'[OffsetOf[p]] = content[page_table[p]]
      BY DEF FlushFrame, poolVars, CleanFrameMatchesDisk
    <3>1. CASE page_table[p] = f
      BY <3>1, <2>5
    <3>2. CASE page_table[p] # f
      <4>1. page_table[p] \in Frames /\ ~dirty[page_table[p]]
        BY <3>2, <2>3 DEF Inv, TypeOK
      <4>2. content[f].id # p
        BY <3>2, <2>1 DEF Inv, FrameInv
      <4> QED BY <4>1, <4>2, <2>4 DEF Inv, CleanInv, CleanFrameMatchesDisk
    <3> QED BY <3>1, <3>2
  <2>7. ASSUME NEW c \in Clients, pc[c] \in {"claim", "fill"}, mode[c] # "new"
        PROVE  buf[c] = disk'[OffsetOf[want[c]]]
    <3>1. want[c] \in PageIds /\ buf[c] \in Page /\ buf[c] = disk[OffsetOf[want[c]]]
          /\ page_table[want[c]] = NoFrame
      BY <2>7 DEF Inv, LocalsInv, CleanInv
    <3>2. content[f].id # want[c]
      <4> SUFFICES ASSUME content[f].id = want[c] PROVE FALSE
        OBVIOUS
      <4>1. lock = c /\ ~poisoned
        BY <2>7, NoneFacts DEF Inv, LockInv
      <4>2. f \notin free_frames
        BY <3>1, NoneFacts DEF Inv, FrameInv, NoPage
      <4>3. page_table[want[c]] # f
        BY <2>1, <3>1, FrameFacts
      <4>4. PICK d \in Clients : pc[d] = "fill" /\ frame[d] = f
        BY <2>1, <4>1, <4>2, <4>3 DEF Inv, FrameInv
      <4>5. d = c
        BY <4>1, <4>4 DEF Inv, LockInv
      <4> QED BY <4>4, <4>5 DEF Inv, LocalsInv
    <3> QED BY <3>1, <3>2, <2>4
  <2> QED BY <2>6, <2>7 DEF FlushFrame, clientVars, CleanInv
<1>5. LockInv' /\ LocalsInv' /\ FrameInv'
  BY DEF Inv, FlushFrame, LockInv, LocalsInv, FrameInv, poolVars, clientVars
<1>6. MappedFrameHoldsItsPage' /\ GuardKeepsItsPage'
  BY DEF Inv, FlushFrame, MappedFrameHoldsItsPage, GuardKeepsItsPage, poolVars, clientVars
<1>7. PinsMatchGuards'
  BY SameUsers DEF Inv, FlushFrame, clientVars
<1> QED BY <1>1, <1>2, <1>3, <1>4, <1>5, <1>6, <1>7 DEF Inv

(* flush_all fails and leaves the frame dirty.                                *)
LEMMA FlushIoError_Inv ==
    ASSUME OneTable, Inv, NEW t \in Flushers, FlushIoError(t)
    PROVE  Inv'
<1>1. TypeOK'
  BY DEF Inv, FlushIoError, TypeOK, ClientPcs, FlushPcs, Modes, ReadersWithout,
         NeedsFlush, poolVars, clientVars
<1>2. LatchInv'
  BY NoneFacts DEF Inv, FlushIoError, TypeOK, LatchInv, ReadersWithout, NeedsFlush,
                   poolVars, clientVars
<1>3. LockInv' /\ LocalsInv' /\ DiskInv' /\ FrameInv' /\ MappedFrameHoldsItsPage'
      /\ GuardKeepsItsPage'
  BY DEF Inv, FlushIoError, LockInv, LocalsInv, DiskInv, FrameInv,
         MappedFrameHoldsItsPage, GuardKeepsItsPage, ReadersWithout, NeedsFlush,
         poolVars, clientVars
<1>4. PinsMatchGuards' /\ CleanInv'
  BY DEF Inv, FlushIoError, PinsMatchGuards, Using, CleanInv, CleanFrameMatchesDisk,
         ReadersWithout, NeedsFlush, poolVars, clientVars
<1> QED BY <1>1, <1>2, <1>3, <1>4 DEF Inv

(* flush_all returns.                                                         *)
LEMMA FlushSync_Inv ==
    ASSUME OneTable, Inv, NEW t \in Flushers, FlushSync(t)
    PROVE  Inv'
<1>1. TypeOK'
  BY DEF Inv, FlushSync, TypeOK, ClientPcs, FlushPcs, Modes, poolVars, frameVars,
         clientVars
<1>2. LatchInv'
  BY DEF Inv, FlushSync, LatchInv, poolVars, frameVars, clientVars
<1>3. LockInv' /\ LocalsInv' /\ DiskInv' /\ FrameInv' /\ MappedFrameHoldsItsPage'
      /\ GuardKeepsItsPage'
  BY DEF Inv, FlushSync, LockInv, LocalsInv, DiskInv, FrameInv,
         MappedFrameHoldsItsPage, GuardKeepsItsPage, poolVars, frameVars, clientVars
<1>4. PinsMatchGuards' /\ CleanInv'
  BY DEF Inv, FlushSync, PinsMatchGuards, Using, CleanInv, CleanFrameMatchesDisk,
         poolVars, frameVars, clientVars
<1> QED BY <1>1, <1>2, <1>3, <1>4 DEF Inv

(* close begins its flush_all.                                                *)
LEMMA Close_Inv ==
    ASSUME OneTable, Inv, NEW t \in Flushers, Close(t)
    PROVE  Inv'
<1>1. TypeOK'
  <2>1. [p \in PageIds |-> Current(p)] \in [PageIds -> Nat]
    BY CurrentType DEF Inv
  <2>2. fpc' \in [Flushers -> FlushPcs] /\ fidx' \in [Flushers -> Frames]
        /\ floor' \in [Flushers -> [PageIds -> Nat]]
    BY <2>1, FrameFacts DEF Inv, TypeOK, Close, FlushPcs
  <2> QED BY <2>2 DEF Inv, TypeOK, Close, poolVars, frameVars, clientVars
<1>2. LatchInv'
  BY DEF Inv, Close, LatchInv, poolVars, frameVars, clientVars
<1>3. LockInv' /\ LocalsInv' /\ DiskInv' /\ FrameInv' /\ MappedFrameHoldsItsPage'
      /\ GuardKeepsItsPage'
  BY DEF Inv, Close, LockInv, LocalsInv, DiskInv, FrameInv, MappedFrameHoldsItsPage,
         GuardKeepsItsPage, poolVars, frameVars, clientVars
<1>4. PinsMatchGuards' /\ CleanInv'
  BY DEF Inv, Close, PinsMatchGuards, Using, CleanInv, CleanFrameMatchesDisk,
         poolVars, frameVars, clientVars
<1> QED BY <1>1, <1>2, <1>3, <1>4 DEF Inv

-----------------------------------------------------------------------------
(* The pool starts with every frame free and empty.                           *)
LEMMA Init_Inv == ASSUME OneTable, Init PROVE Inv
<1>1. TypeOK
  BY FrameFacts, NoneFacts, InitialAssumption DEF Init, TypeOK, ClientPcs, FlushPcs,
       Modes, Page, NoPage
<1>2. DiskInv
  BY NoneFacts, InitialAssumption DEF Init, DiskInv, NoPage
<1>3. PinsMatchGuards
  <2>1. \A f \in Frames : Using(f) = {}
    BY DEF Init, Using
  <2> QED BY <2>1, FS_EmptySet DEF Init, PinsMatchGuards
<1>4. FrameInv /\ LatchInv
  BY NoneFacts, FrameFacts DEF Init, FrameInv, LatchInv, NoPage
<1>5. LockInv /\ LocalsInv /\ CleanInv /\ MappedFrameHoldsItsPage /\ GuardKeepsItsPage
  BY NoneFacts DEF Init, LockInv, LocalsInv, CleanInv, CleanFrameMatchesDisk,
                   MappedFrameHoldsItsPage, GuardKeepsItsPage
<1> QED BY <1>1, <1>2, <1>3, <1>4, <1>5 DEF Inv

(* A stuttering step keeps the invariant.                                     *)
LEMMA Stutter_Inv == ASSUME Inv, UNCHANGED vars PROVE Inv'
<1> USE DEF vars, poolVars, frameVars, clientVars, flushVars
<1>1. TypeOK' /\ LockInv' /\ LocalsInv' /\ DiskInv' /\ FrameInv'
  BY DEF Inv, TypeOK, LockInv, LocalsInv, DiskInv, FrameInv
<1>2. LatchInv' /\ MappedFrameHoldsItsPage' /\ GuardKeepsItsPage' /\ CleanInv'
  BY DEF Inv, LatchInv, MappedFrameHoldsItsPage, GuardKeepsItsPage, CleanInv,
         CleanFrameMatchesDisk
<1>3. PinsMatchGuards'
  BY SameUsers DEF Inv
<1> QED BY <1>1, <1>2, <1>3 DEF Inv

(* No step of any thread breaks the invariant.                                *)
LEMMA Next_Inv == ASSUME OneTable, Inv, [Next]_vars PROVE Inv'
<1>1. ASSUME NEW c \in Clients, ClientStep(c) PROVE Inv'
  <2>1. ASSUME NEW p \in PageIds, NEW m \in {"read", "write"}, FetchHit(c, p, m) PROVE Inv'
    BY <2>1, FetchHit_Inv
  <2>2. ASSUME NEW p \in PageIds, NEW m \in {"read", "write"}, FetchMiss(c, p, m) PROVE Inv'
    BY <2>2, FetchMiss_Inv
  <2>3. ASSUME NEW p \in PageIds, NewPage(c, p) PROVE Inv'
    BY <2>3, NewPage_Inv
  <2>4. CASE EnterPoisoned(c)
    BY <2>4, EnterPoisoned_Inv
  <2>5. CASE ClaimFree(c)
    BY <2>5, ClaimFree_Inv
  <2>6. CASE Evict(c)
    BY <2>6, Evict_Inv
  <2>7. CASE NoFreeFrames(c)
    BY <2>7, NoFreeFrames_Inv
  <2>8. CASE EvictIoError(c)
    BY <2>8, EvictIoError_Inv
  <2>9. CASE Fill(c)
    BY <2>9, Fill_Inv
  <2>10. CASE FillPanic(c)
    BY <2>10, FillPanic_Inv
  <2>11. CASE LatchRead(c)
    BY <2>11, LatchRead_Inv
  <2>12. CASE LatchWrite(c)
    BY <2>12, LatchWrite_Inv
  <2>13. CASE WrongPage(c)
    BY <2>13, WrongPage_Inv
  <2>14. CASE Mutate(c)
    BY <2>14, Mutate_Inv
  <2>15. CASE DropLatch(c)
    BY <2>15, DropLatch_Inv
  <2>16. CASE Unpin(c)
    BY <2>16, Unpin_Inv
  <2> QED BY <1>1, <2>1, <2>2, <2>3, <2>4, <2>5, <2>6, <2>7, <2>8, <2>9, <2>10,
       <2>11, <2>12, <2>13, <2>14, <2>15, <2>16 DEF ClientStep
<1>2. ASSUME NEW t \in Flushers, FlushStep(t) PROVE Inv'
  <2>1. CASE FlushBegin(t)
    BY <2>1, FlushBegin_Inv
  <2>2. CASE FlushLatch(t)
    BY <2>2, FlushLatch_Inv
  <2>3. CASE FlushFrame(t)
    BY <2>3, FlushFrame_Inv
  <2>4. CASE FlushIoError(t)
    BY <2>4, FlushIoError_Inv
  <2>5. CASE FlushSync(t)
    BY <2>5, FlushSync_Inv
  <2>6. CASE Close(t)
    BY <2>6, Close_Inv
  <2> QED BY <1>2, <2>1, <2>2, <2>3, <2>4, <2>5, <2>6 DEF FlushStep
<1>3. CASE UNCHANGED vars
  BY <1>3, Stutter_Inv
<1> QED BY <1>1, <1>2, <1>3 DEF Next

(* Every reachable state of the pool satisfies the invariant.                 *)
THEOREM Invariance == ASSUME OneTable PROVE Spec => []Inv
<1>1. Init => Inv
  BY Init_Inv
<1>2. Inv /\ [Next]_vars => Inv'
  BY Next_Inv
<1> QED BY <1>1, <1>2, PTL DEF Spec

(* The frames, the page table and every thread's locals keep their types: in  *)
(* particular a pin count never drops below zero and no version is lost.      *)
THEOREM TypeCorrect == ASSUME OneTable PROVE Spec => []TypeOK
<1>1. Inv => TypeOK
  BY DEF Inv
<1> QED BY <1>1, Invariance, PTL

(* checkout_page may trust the page table: a mapped frame holds its page.     *)
THEOREM PageTableCorrect == ASSUME OneTable PROVE Spec => []MappedFrameHoldsItsPage
<1>1. Inv => MappedFrameHoldsItsPage
  BY DEF Inv
<1> QED BY <1>1, Invariance, PTL

(* From the pin taken under the lock to the drop of the guard, claim_frame    *)
(* never gives the frame of a guard to another page.                          *)
THEOREM GuardsKeepTheirPages == ASSUME OneTable PROVE Spec => []GuardKeepsItsPage
<1>1. Inv => GuardKeepsItsPage
  BY DEF Inv
<1> QED BY <1>1, Invariance, PTL

(* pin_frame and unpin_frame balance: no pin leaks and none is given twice.   *)
THEOREM PinsBalance == ASSUME OneTable PROVE Spec => []PinsMatchGuards
<1>1. Inv => PinsMatchGuards
  BY DEF Inv
<1> QED BY <1>1, Invariance, PTL

(* A frame with a guard's latch is pinned: find_victim never proposes it.     *)
THEOREM LatchesInsidePins == ASSUME OneTable PROVE Spec => []LatchInsidePin
<1>1. Inv => LatchInsidePin
  <2> SUFFICES ASSUME Inv, NEW f \in Frames, writer[f] # None \/ readers[f] \cap Clients # {}
               PROVE  is_pinned(f)
    BY DEF LatchInsidePin
  <2>1. PICK c \in Clients : pc[c] = "hold" /\ frame[c] = f
    BY DEF Inv, TypeOK, LatchInv
  <2> QED BY <2>1, UsedIsPinned DEF Inv, is_pinned
<1> QED BY <1>1, Invariance, PTL

(* Evicting a clean frame without writing it loses nothing: the file holds    *)
(* the same version of its page.                                              *)
THEOREM CleanFramesAreSaved == ASSUME OneTable PROVE Spec => []CleanFrameMatchesDisk
<1>1. Inv => CleanFrameMatchesDisk
  BY DEF Inv, CleanInv
<1> QED BY <1>1, Invariance, PTL
=============================================================================
