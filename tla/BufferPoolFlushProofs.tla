------------------------ MODULE BufferPoolFlushProofs ------------------------
(* Theorems about what BufferPool writes to the file: no version ever goes    *)
(* over a newer one, flush_all saves what it found, and close leaves nothing  *)
(* behind.  WriteInv strengthens Inv by what eviction, flush_all and the two  *)
(* kinds of load know about the versions in the file.  From it follows, last, *)
(* that BufferPool implements PageStore.                                      *)
EXTENDS BufferPoolProofs

(* A page that exists has a version above 0, wherever it is; a new one has 1. *)
VersionInv ==
    /\ \A f \in Frames : content[f].id \in PageIds => content[f].ver > 0
    /\ \A o \in Offsets : disk[o] # NoPage => disk[o].ver > 0
    /\ \A c \in Clients : pc[c] \in {"claim", "fill"} =>
          buf[c].ver > 0 /\ (mode[c] = "new" => buf[c].ver = 1)

(* The file is never ahead of a cached page; a page that left the page table  *)
(* and still lies in its frame is in the file as it is; and a page about to   *)
(* be created is not in the file.                                             *)
StoredInv ==
    /\ \A p \in PageIds : page_table[p] # NoFrame =>
          disk[OffsetOf[p]].ver <= content[page_table[p]].ver
    /\ \A f \in Frames, p \in PageIds :
          content[f].id = p /\ page_table[p] = NoFrame => disk[OffsetOf[p]] = content[f]
    /\ \A c \in Clients : pc[c] \in {"claim", "fill"} /\ mode[c] = "new" =>
          disk[OffsetOf[want[c]]] = NoPage

(* The version of p that t's flush_all has promised is in the file, or in a   *)
(* dirty frame that t has yet to visit.                                       *)
Saved(t, p) == disk[OffsetOf[p]].ver >= floor[t][p]
Ahead(t, p) ==
    /\ page_table[p] # NoFrame
    /\ page_table[p] >= fidx[t]
    /\ dirty[page_table[p]]
    /\ content[page_table[p]].ver >= floor[t][p]

CoverInv ==
    \A t \in Flushers, p \in PageIds :
        /\ fpc[t] \in {"latch", "write"} => Saved(t, p) \/ Ahead(t, p)
        /\ fpc[t] = "sync" => Saved(t, p)

(* Once close has been called no guard exists, and the frames its flush_all   *)
(* has visited stay clean.                                                    *)
CloseInv ==
    /\ closing => \A c \in Clients : pc[c] = "idle"
    /\ \A t \in Flushers :
          /\ closing /\ fpc[t] \in {"latch", "write"} =>
                \A f \in Frames : f < fidx[t] => ~dirty[f]
          /\ closing /\ fpc[t] = "sync" => \A f \in Frames : ~dirty[f]
          /\ fpc[t] = "closed" => closing /\ \A f \in Frames : ~dirty[f]

WriteInv == Inv /\ VersionInv /\ StoredInv /\ CoverInv /\ CloseInv

-----------------------------------------------------------------------------
(* A step that leaves pages, page table, dirty bits, file and flushers alone  *)
(* and begins no load keeps all that WriteInv adds to Inv.                    *)
SameStore == UNCHANGED <<content, page_table, dirty, disk, flushVars>>
NoNewLoad ==
    \A d \in Clients : pc'[d] \in {"claim", "fill"} =>
        /\ pc[d] \in {"claim", "fill"}
        /\ mode'[d] = mode[d] /\ want'[d] = want[d] /\ buf'[d] = buf[d]

LEMMA QuietStep ==
    ASSUME WriteInv, SameStore, NoNewLoad,
           NEW c \in Clients, pc[c] # "idle" \/ ~closing,
           \A d \in Clients : d # c => pc'[d] = pc[d]
    PROVE  VersionInv' /\ StoredInv' /\ CoverInv' /\ CloseInv'
<1>1. VersionInv' /\ StoredInv'
  BY DEF WriteInv, SameStore, NoNewLoad, VersionInv, StoredInv
<1>2. CoverInv'
  BY DEF WriteInv, SameStore, flushVars, CoverInv, Saved, Ahead
<1>3. ~closing
  BY DEF WriteInv, CloseInv
<1>4. CloseInv'
  BY <1>3 DEF WriteInv, SameStore, flushVars, CloseInv
<1> QED BY <1>1, <1>2, <1>4

(* The steps of a guard that touch neither pages nor file.                    *)
LEMMA QuietClient ==
    ASSUME WriteInv, NEW c \in Clients,
           \/ \E p \in PageIds, m \in {"read", "write"} : FetchHit(c, p, m)
           \/ EnterPoisoned(c) \/ ClaimFree(c) \/ NoFreeFrames(c) \/ EvictIoError(c)
           \/ FillPanic(c) \/ LatchRead(c) \/ LatchWrite(c) \/ WrongPage(c)
           \/ DropLatch(c) \/ Unpin(c)
    PROVE  VersionInv' /\ StoredInv' /\ CoverInv' /\ CloseInv'
<1> DEFINE Quiet == /\ SameStore /\ NoNewLoad
                    /\ pc[c] # "idle" \/ ~closing
                    /\ \A d \in Clients : d # c => pc'[d] = pc[d]
<1>0. TypeOK
  BY DEF WriteInv, Inv
<1> USE DEF TypeOK, SameStore, NoNewLoad, poolVars, frameVars, flushVars
<1>1. ASSUME NEW p \in PageIds, NEW m \in {"read", "write"}, FetchHit(c, p, m) PROVE Quiet
  BY <1>0, <1>1 DEF FetchHit, MayEnter
<1>2. ASSUME EnterPoisoned(c) PROVE Quiet
  BY <1>0, <1>2 DEF EnterPoisoned, MayEnter
<1>3. ASSUME ClaimFree(c) PROVE Quiet
  BY <1>0, <1>3 DEF ClaimFree
<1>4. ASSUME NoFreeFrames(c) PROVE Quiet
  BY <1>0, <1>4 DEF NoFreeFrames, Forget
<1>5. ASSUME EvictIoError(c) PROVE Quiet
  BY <1>0, <1>5 DEF EvictIoError, Forget
<1>6. ASSUME FillPanic(c) PROVE Quiet
  BY <1>0, <1>6 DEF FillPanic
<1>7. ASSUME LatchRead(c) \/ LatchWrite(c) PROVE Quiet
  BY <1>0, <1>7 DEF LatchRead, LatchWrite
<1>8. ASSUME WrongPage(c) \/ DropLatch(c) \/ Unpin(c) PROVE Quiet
  BY <1>0, <1>8 DEF WrongPage, DropLatch, Unpin, Forget
<1>9. Quiet
  BY <1>1, <1>2, <1>3, <1>4, <1>5, <1>6, <1>7, <1>8
<1> QED BY <1>9, QuietStep

(* load_page has read a page of the file, which has a version above 0.        *)
LEMMA FetchMiss_Write ==
    ASSUME WriteInv, NEW c \in Clients, NEW p \in PageIds,
           NEW m \in {"read", "write"}, FetchMiss(c, p, m)
    PROVE  VersionInv' /\ StoredInv' /\ CoverInv' /\ CloseInv'
<1> USE DEF WriteInv, FetchMiss, MayEnter, frameVars, flushVars
<1>1. VersionInv'
  BY OffsetAssumption DEF Inv, TypeOK, VersionInv
<1>2. StoredInv'
  BY DEF Inv, TypeOK, StoredInv
<1>3. CoverInv'
  BY DEF CoverInv, Saved, Ahead
<1>4. CloseInv'
  BY DEF CloseInv
<1> QED BY <1>1, <1>2, <1>3, <1>4

(* new_page creates version 1 of a page whose slot of the file is empty.      *)
LEMMA NewPage_Write ==
    ASSUME WriteInv, NEW c \in Clients, NEW p \in PageIds, NewPage(c, p)
    PROVE  VersionInv' /\ StoredInv' /\ CoverInv' /\ CloseInv'
<1> USE DEF WriteInv, NewPage, NotYetUsed, MayEnter, frameVars, flushVars
<1>1. VersionInv'
  BY DEF Inv, TypeOK, VersionInv
<1>2. StoredInv'
  BY DEF Inv, TypeOK, StoredInv
<1>3. CoverInv'
  BY DEF CoverInv, Saved, Ahead
<1>4. CloseInv'
  BY DEF CloseInv
<1> QED BY <1>1, <1>2, <1>3, <1>4

(* What a write-back of frame f does to the file: the page in f, which is     *)
(* there with its own id, goes to its slot, over no newer version.            *)
WroteFrame(f) ==
    /\ content[f].id \in PageIds
    /\ \A o \in Offsets :
          disk'[o] = IF o = OffsetOf[content[f].id] THEN content[f] ELSE disk[o]
    /\ disk[OffsetOf[content[f].id]].ver <= content[f].ver

LEMMA WriteBack ==
    ASSUME WriteInv, NEW f \in Frames, content[f] # NoPage, disk' = Written(f)
    PROVE  WroteFrame(f)
<1>1. content[f] \in Page
  BY DEF WriteInv, Inv, TypeOK
<1>2. content[f].id \in PageIds /\ OffsetOf[content[f].id] \in Offsets /\ content[f].ver \in Nat
  BY <1>1, OffsetAssumption DEF Page
<1>3. disk[OffsetOf[content[f].id]].ver <= content[f].ver
  <2>1. page_table[content[f].id] \in {f, NoFrame}
    BY <1>2 DEF WriteInv, Inv, FrameInv
  <2> QED BY <1>2, <2>1, FrameFacts DEF WriteInv, StoredInv
<1> QED BY <1>2, <1>3 DEF WriteInv, Inv, TypeOK, Written, WroteFrame

(* A write-back keeps what the file is known to hold of pages and loads.      *)
LEMMA WriteBack_Versions ==
    ASSUME OneTable, WriteInv, NEW f \in Frames, WroteFrame(f)
    PROVE  /\ \A o \in Offsets : disk'[o].ver >= disk[o].ver
           /\ \A o \in Offsets : disk'[o] # NoPage => disk'[o].ver > 0
           /\ \A p \in PageIds : page_table[p] # NoFrame =>
                 disk'[OffsetOf[p]].ver <= content[page_table[p]].ver
           /\ \A g \in Frames, p \in PageIds :
                 content[g].id = p /\ page_table[p] = NoFrame => disk'[OffsetOf[p]] = content[g]
           /\ \A c \in Clients : pc[c] \in {"claim", "fill"} /\ mode[c] = "new" =>
                 disk'[OffsetOf[want[c]]] = NoPage
<1> DEFINE q == content[f].id
<1>1. q \in PageIds /\ OffsetOf[q] \in Offsets /\ page_table[q] \in {f, NoFrame}
  BY OffsetAssumption DEF WroteFrame, WriteInv, Inv, FrameInv
<1>2. \A p \in PageIds : OffsetOf[p] \in Offsets /\ (p # q => OffsetOf[p] # OffsetOf[q])
  BY <1>1, OffsetAssumption DEF OneTable
<1>3. \A o \in Offsets : disk[o].ver \in Nat
  BY DEF WriteInv, Inv, TypeOK, Page, NoPage
<1>4. \A g \in Frames : content[g].ver \in Nat
  BY DEF WriteInv, Inv, TypeOK, Page, NoPage
<1>5. \A o \in Offsets : disk'[o].ver >= disk[o].ver
  BY <1>1, <1>3, <1>4 DEF WroteFrame
<1>6. \A o \in Offsets : disk'[o] # NoPage => disk'[o].ver > 0
  BY <1>1 DEF WroteFrame, WriteInv, VersionInv
<1>7. ASSUME NEW p \in PageIds, page_table[p] # NoFrame
      PROVE  disk'[OffsetOf[p]].ver <= content[page_table[p]].ver
  <2>1. CASE p = q
    BY <1>1, <1>4, <1>7, <2>1 DEF WroteFrame
  <2>2. CASE p # q
    BY <1>2, <1>7, <2>2 DEF WroteFrame, WriteInv, StoredInv
  <2> QED BY <2>1, <2>2
<1>8. ASSUME NEW g \in Frames, NEW p \in PageIds, content[g].id = p, page_table[p] = NoFrame
      PROVE  disk'[OffsetOf[p]] = content[g]
  <2>1. CASE p = q
    <3>1. disk[OffsetOf[p]] = content[g] /\ disk[OffsetOf[p]] = content[f]
      BY <1>8, <2>1 DEF WriteInv, StoredInv
    <3> QED BY <1>1, <2>1, <3>1 DEF WroteFrame
  <2>2. CASE p # q
    BY <1>2, <1>8, <2>2 DEF WroteFrame, WriteInv, StoredInv
  <2> QED BY <2>1, <2>2
<1>9. ASSUME NEW c \in Clients, pc[c] \in {"claim", "fill"}, mode[c] = "new"
      PROVE  disk'[OffsetOf[want[c]]] = NoPage
  <2>1. want[c] \in PageIds /\ page_table[want[c]] = NoFrame /\ disk[OffsetOf[want[c]]] = NoPage
    BY <1>9 DEF WriteInv, Inv, LocalsInv, StoredInv
  <2>2. want[c] # q
    <3> SUFFICES ASSUME want[c] = q PROVE FALSE
      OBVIOUS
    <3>1. content[f] = NoPage
      BY <2>1 DEF WriteInv, StoredInv
    <3> QED BY <1>1, <3>1, NoneFacts DEF NoPage
  <2> QED BY <1>2, <2>1, <2>2 DEF WroteFrame
<1> QED BY <1>5, <1>6, <1>7, <1>8, <1>9

(* What claim_frame does to the file: nothing, or the write-back of a dirty   *)
(* victim; either way the victim's page is then in the file as it is.         *)
LEMMA EvictedIsWritten ==
    ASSUME OneTable, WriteInv, NEW c \in Clients, Evict(c), NEW f \in Frames,
           ~is_pinned(f), disk' = WrittenBack(f)
    PROVE  /\ disk' = disk \/ WroteFrame(f)
           /\ content[f].id \in PageIds
           /\ page_table[content[f].id] = f
           /\ disk'[OffsetOf[content[f].id]] = content[f]
<1>1. content[f].id \in PageIds /\ page_table[content[f].id] = f
  <2>1. lock = c /\ ~poisoned /\ free_frames = {}
    BY NoneFacts DEF WriteInv, Inv, LockInv, Evict
  <2>2. \A d \in Clients : pc[d] # "fill"
    BY <2>1 DEF WriteInv, Inv, LockInv, Evict
  <2> QED BY <2>1, <2>2 DEF WriteInv, Inv, FrameInv
<1>2. content[f] # NoPage
  BY <1>1, NoneFacts DEF NoPage
<1>3. CASE dirty[f]
  <2>1. WroteFrame(f)
    BY <1>2, <1>3, WriteBack DEF WrittenBack
  <2> QED BY <1>1, <2>1, OffsetAssumption DEF WroteFrame
<1>4. CASE ~dirty[f]
  BY <1>1, <1>4, FrameFacts DEF WrittenBack, WriteInv, Inv, CleanInv, CleanFrameMatchesDisk
<1> QED BY <1>3, <1>4

(* claim_frame evicts.                                                        *)
LEMMA Evict_Write ==
    ASSUME OneTable, WriteInv, NEW c \in Clients, Evict(c)
    PROVE  /\ VersionInv' /\ StoredInv' /\ CoverInv' /\ CloseInv'
           /\ \A o \in Offsets : disk'[o].ver >= disk[o].ver
<1> PICK f \in Frames : /\ ~is_pinned(f)
                        /\ disk' = WrittenBack(f)
                        /\ page_table' = Unmapped(content[f].id)
  BY DEF Evict
<1> DEFINE q == content[f].id
<1>1. /\ disk' = disk \/ WroteFrame(f)
      /\ q \in PageIds /\ page_table[q] = f
      /\ disk'[OffsetOf[q]] = content[f]
  BY EvictedIsWritten
<1>2. \A p \in PageIds : page_table'[p] = IF p = q THEN NoFrame ELSE page_table[p]
  BY <1>1 DEF Unmapped, WriteInv, Inv, TypeOK
<1>3. /\ \A o \in Offsets : disk'[o].ver >= disk[o].ver
      /\ \A o \in Offsets : disk'[o] # NoPage => disk'[o].ver > 0
      /\ \A p \in PageIds : page_table[p] # NoFrame =>
            disk'[OffsetOf[p]].ver <= content[page_table[p]].ver
      /\ \A g \in Frames, p \in PageIds :
            content[g].id = p /\ page_table[p] = NoFrame => disk'[OffsetOf[p]] = content[g]
      /\ \A d \in Clients : pc[d] \in {"claim", "fill"} /\ mode[d] = "new" =>
            disk'[OffsetOf[want[d]]] = NoPage
  <2>1. CASE disk' = disk
    <3>1. \A o \in Offsets : disk[o].ver \in Nat
      BY DEF WriteInv, Inv, TypeOK, Page, NoPage
    <3>2. \A o \in Offsets : disk'[o].ver >= disk[o].ver
      BY <2>1, <3>1
    <3> QED BY <2>1, <3>2 DEF WriteInv, VersionInv, StoredInv
  <2>2. CASE WroteFrame(f)
    BY <2>2, WriteBack_Versions
  <2> QED BY <1>1, <2>1, <2>2
<1>4. \A d \in Clients : pc'[d] \in {"claim", "fill"} => pc[d] \in {"claim", "fill"}
  BY DEF Evict, WriteInv, Inv, TypeOK
<1>5. UNCHANGED <<content, dirty, mode, want, buf, flushVars>>
  BY DEF Evict, frameVars
<1>6. VersionInv'
  BY <1>3, <1>4, <1>5 DEF WriteInv, VersionInv
<1>7. StoredInv'
  <2>1. ASSUME NEW g \in Frames, NEW p \in PageIds, content[g].id = p, page_table'[p] = NoFrame
        PROVE  disk'[OffsetOf[p]] = content[g]
    <3>1. CASE p = q
      <4>1. g = f
        BY <1>1, <2>1, <3>1, FrameFacts DEF WriteInv, Inv, FrameInv
      <4> QED BY <1>1, <3>1, <4>1
    <3>2. CASE p # q
      BY <1>2, <1>3, <2>1, <3>2
    <3> QED BY <3>1, <3>2
  <2> QED BY <1>2, <1>3, <1>4, <1>5, <2>1 DEF StoredInv
<1>8. CoverInv'
  <2> SUFFICES ASSUME NEW t \in Flushers, NEW p \in PageIds
               PROVE  /\ fpc[t] \in {"latch", "write"} => Saved(t, p)' \/ Ahead(t, p)'
                      /\ fpc[t] = "sync" => Saved(t, p)'
    BY <1>5 DEF CoverInv, flushVars
  <2>1. floor[t][p] \in Nat /\ OffsetOf[p] \in Offsets
        /\ disk[OffsetOf[p]].ver \in Nat /\ disk'[OffsetOf[p]].ver \in Nat
    <3>1. floor[t][p] \in Nat /\ OffsetOf[p] \in Offsets
      BY OffsetAssumption DEF WriteInv, Inv, TypeOK
    <3>2. disk[OffsetOf[p]].ver \in Nat
      BY <3>1 DEF WriteInv, Inv, TypeOK, Page, NoPage
    <3>3. disk'[OffsetOf[p]].ver \in Nat
      <4>1. Inv'
        BY Evict_Inv DEF WriteInv
      <4> QED BY <3>1, <4>1 DEF Inv, TypeOK, Page, NoPage
    <3> QED BY <3>1, <3>2, <3>3
  <2>2. Saved(t, p) => Saved(t, p)'
    BY <1>3, <1>5, <2>1 DEF Saved, flushVars
  <2>3. ASSUME Ahead(t, p) PROVE Saved(t, p)' \/ Ahead(t, p)'
    <3>1. CASE p = q
      BY <1>1, <1>5, <2>3, <3>1 DEF Ahead, Saved, flushVars
    <3>2. CASE p # q
      BY <1>2, <1>5, <2>3, <3>2 DEF Ahead, flushVars
    <3> QED BY <3>1, <3>2
  <2> QED BY <2>2, <2>3 DEF WriteInv, CoverInv
<1>9. CloseInv'
  <2>1. ~closing
    BY DEF WriteInv, CloseInv, Evict
  <2> QED BY <1>5, <2>1 DEF CloseInv, flushVars, WriteInv
<1> QED BY <1>3, <1>6, <1>7, <1>8, <1>9

(* The claimed frame receives the page of the load, which the file holds as   *)
(* it is, or the first version of a new page, which the file does not hold.   *)
LEMMA Fill_Write ==
    ASSUME OneTable, WriteInv, NEW c \in Clients, Fill(c)
    PROVE  VersionInv' /\ StoredInv' /\ CoverInv' /\ CloseInv'
<1> DEFINE f == frame[c]
           q == want[c]
<1>1. /\ f \in Frames /\ q \in PageIds /\ buf[c] \in Page /\ buf[c].id = q
      /\ page_table[q] = NoFrame /\ \A p \in PageIds : page_table[p] # f
  BY DEF Fill, WriteInv, Inv, LocalsInv
<1>2. /\ \A p \in PageIds : page_table'[p] = (IF p = q THEN f ELSE page_table[p])
      /\ content'[f] = buf[c]
      /\ \A g \in Frames \ {f} : content'[g] = content[g] /\ dirty'[g] = dirty[g]
  BY <1>1 DEF Fill, DirtyWhenFilled, WriteInv, Inv, TypeOK
<1>3. UNCHANGED <<disk, mode, want, frame, flushVars>>
  BY DEF Fill
<1>4. \A d \in Clients : pc'[d] \in {"claim", "fill"} => pc[d] \in {"claim", "fill"} /\ buf'[d] = buf[d]
  BY DEF Fill, WriteInv, Inv, TypeOK
<1>5. buf[c].ver > 0 /\ disk[OffsetOf[q]].ver <= buf[c].ver /\ buf[c].ver \in Nat
  <2>1. buf[c].ver > 0 /\ buf[c].ver \in Nat
    BY <1>1 DEF WriteInv, VersionInv, Fill, Page
  <2>2. CASE mode[c] = "new"
    BY <2>1, <2>2 DEF WriteInv, StoredInv, Fill, NoPage
  <2>3. CASE mode[c] # "new"
    BY <2>1, <2>3 DEF WriteInv, Inv, CleanInv, Fill
  <2> QED BY <2>1, <2>2, <2>3
<1>6. VersionInv'
  BY <1>2, <1>3, <1>4, <1>5 DEF WriteInv, VersionInv
<1>7. StoredInv'
  <2>1. ASSUME NEW p \in PageIds, page_table'[p] # NoFrame
        PROVE  disk[OffsetOf[p]].ver <= content'[page_table'[p]].ver
    <3>1. CASE p = q
      BY <1>1, <1>2, <1>5, <3>1
    <3>2. CASE p # q
      <4>1. page_table'[p] = page_table[p] /\ page_table[p] \in Frames \ {f}
        BY <1>1, <1>2, <2>1, <3>2 DEF WriteInv, Inv, TypeOK
      <4> QED BY <1>2, <2>1, <4>1 DEF WriteInv, StoredInv
    <3> QED BY <3>1, <3>2
  <2>2. ASSUME NEW g \in Frames, NEW p \in PageIds, content'[g].id = p, page_table'[p] = NoFrame
        PROVE  disk[OffsetOf[p]] = content'[g]
    <3>1. p # q /\ page_table[p] = NoFrame
      BY <1>1, <1>2, <2>2, FrameFacts
    <3>2. g # f
      BY <1>1, <1>2, <2>2, <3>1
    <3> QED BY <1>2, <2>2, <3>1, <3>2 DEF WriteInv, StoredInv
  <2> QED BY <1>3, <1>4, <2>1, <2>2 DEF WriteInv, StoredInv
<1>8. CoverInv'
  <2> SUFFICES ASSUME NEW t \in Flushers, NEW p \in PageIds, Ahead(t, p)
               PROVE  Ahead(t, p)'
    BY <1>3 DEF CoverInv, Saved, flushVars, WriteInv
  <2>1. page_table'[p] = page_table[p] /\ page_table[p] \in Frames \ {f}
    BY <1>1, <1>2 DEF Ahead, WriteInv, Inv, TypeOK
  <2> QED BY <1>2, <1>3, <2>1 DEF Ahead, flushVars
<1>9. CloseInv'
  <2>1. ~closing
    BY DEF WriteInv, CloseInv, Fill
  <2> QED BY <1>3, <2>1 DEF CloseInv, flushVars, WriteInv
<1> QED BY <1>6, <1>7, <1>8, <1>9

(* deref_mut: the cached page gets ahead of the file, and its frame is dirty. *)
LEMMA Mutate_Write ==
    ASSUME OneTable, WriteInv, NEW c \in Clients, Mutate(c)
    PROVE  VersionInv' /\ StoredInv' /\ CoverInv' /\ CloseInv'
<1> DEFINE f == frame[c]
           q == want[c]
<1>1. /\ f \in Frames /\ q \in PageIds /\ page_table[q] = f /\ content[f].id = q
      /\ content[f].ver \in Nat
  <2>1. f \in Frames /\ q \in PageIds /\ page_table[q] = f /\ content[f].id = q
    BY DEF Mutate, WriteInv, Inv, LocalsInv, GuardKeepsItsPage
  <2> QED BY <2>1 DEF WriteInv, Inv, TypeOK, Page, NoPage
<1>2. /\ \A g \in Frames \ {f} : content'[g] = content[g] /\ dirty'[g] = dirty[g]
      /\ content'[f].id = q /\ content'[f].ver = content[f].ver + 1 /\ dirty'[f]
  <2>1. content'[f] = [content[f] EXCEPT !.ver = @ + 1]
    BY <1>1 DEF Mutate, WriteInv, Inv, TypeOK
  <2>2. content'[f].id = q /\ content'[f].ver = content[f].ver + 1
    BY <1>1, <2>1 DEF WriteInv, Inv, TypeOK, Page, NoPage
  <2> QED BY <1>1, <2>2 DEF Mutate, WriteInv, Inv, TypeOK
<1>3. UNCHANGED <<page_table, disk, pc, mode, want, buf, frame, flushVars>>
  BY DEF Mutate, poolVars, clientVars
<1>4. VersionInv'
  BY <1>1, <1>2, <1>3 DEF WriteInv, VersionInv
<1>5. \A p \in PageIds : page_table[p] # NoFrame => content'[page_table[p]].ver >= content[page_table[p]].ver
  <2> SUFFICES ASSUME NEW p \in PageIds, page_table[p] # NoFrame
               PROVE  content'[page_table[p]].ver >= content[page_table[p]].ver
    OBVIOUS
  <2>1. page_table[p] \in Frames
    BY DEF WriteInv, Inv, TypeOK
  <2>2. content[page_table[p]].ver \in Nat
    BY <2>1 DEF WriteInv, Inv, TypeOK, Page, NoPage
  <2> QED BY <1>1, <1>2, <2>1, <2>2
<1>6. StoredInv'
  <2>1. ASSUME NEW p \in PageIds, page_table[p] # NoFrame
        PROVE  disk[OffsetOf[p]].ver <= content'[page_table[p]].ver
    <3>1. page_table[p] \in Frames /\ OffsetOf[p] \in Offsets
      BY <2>1, OffsetAssumption DEF WriteInv, Inv, TypeOK
    <3>2. disk[OffsetOf[p]].ver \in Nat /\ content[page_table[p]].ver \in Nat
      <4>1. /\ disk[OffsetOf[p]] \in Page \cup {NoPage}
            /\ content[page_table[p]] \in Page \cup {NoPage}
        BY <3>1 DEF WriteInv, Inv, TypeOK
      <4> QED BY <4>1 DEF Page, NoPage
    <3>3. content'[page_table[p]].ver \in Nat
      BY <1>1, <1>2, <3>1, <3>2
    <3>4. disk[OffsetOf[p]].ver <= content[page_table[p]].ver
      BY <2>1 DEF WriteInv, StoredInv
    <3> QED BY <1>5, <2>1, <3>2, <3>3, <3>4
  <2>2. ASSUME NEW g \in Frames, NEW p \in PageIds, content'[g].id = p, page_table[p] = NoFrame
        PROVE  disk[OffsetOf[p]] = content'[g]
    <3>1. g # f
      BY <1>1, <1>2, <2>2, FrameFacts
    <3> QED BY <1>2, <2>2, <3>1 DEF WriteInv, StoredInv
  <2> QED BY <1>3, <2>1, <2>2 DEF WriteInv, StoredInv
<1>7. CoverInv'
  <2> SUFFICES ASSUME NEW t \in Flushers, NEW p \in PageIds, Ahead(t, p)
               PROVE  Ahead(t, p)'
    BY <1>3 DEF CoverInv, Saved, flushVars, WriteInv
  <2>1. page_table[p] \in Frames /\ floor[t][p] \in Nat
    BY DEF Ahead, WriteInv, Inv, TypeOK
  <2>2. content[page_table[p]].ver \in Nat
    BY <2>1 DEF WriteInv, Inv, TypeOK, Page, NoPage
  <2>3. dirty'[page_table[p]]
    BY <1>2, <2>1 DEF Ahead
  <2>4. content'[page_table[p]].ver >= floor[t][p]
    BY <1>1, <1>2, <2>1, <2>2 DEF Ahead
  <2> QED BY <1>3, <2>3, <2>4 DEF Ahead, flushVars
<1>8. CloseInv'
  <2>1. ~closing
    BY DEF WriteInv, CloseInv, Mutate
  <2> QED BY <1>3, <2>1 DEF CloseInv, flushVars, WriteInv
<1> QED BY <1>4, <1>6, <1>7, <1>8

(* flush_all writes what the frame holds if it is dirty; then it is clean.    *)
LEMMA FlushFrame_Write ==
    ASSUME OneTable, WriteInv, NEW t \in Flushers, FlushFrame(t)
    PROVE  /\ VersionInv' /\ StoredInv' /\ CoverInv' /\ CloseInv'
           /\ \A o \in Offsets : disk'[o].ver >= disk[o].ver
<1> DEFINE f == fidx[t]
<1>1. f \in Frames
  BY DEF WriteInv, Inv, TypeOK
<1>2. UNCHANGED <<content, page_table, pc, mode, want, buf, floor, closing>>
  BY DEF FlushFrame, poolVars, clientVars
<1>3. ~dirty'[f] /\ \A g \in Frames \ {f} : dirty'[g] = dirty[g]
  BY <1>1 DEF FlushFrame, WriteInv, Inv, TypeOK
<1>5. NeedsFlush(f) => WroteFrame(f)
  BY <1>1, WriteBack DEF FlushFrame, NeedsFlush
<1>6. ~NeedsFlush(f) => disk' = disk
  BY DEF FlushFrame
<1>7. /\ \A o \in Offsets : disk'[o].ver >= disk[o].ver
      /\ \A o \in Offsets : disk'[o] # NoPage => disk'[o].ver > 0
      /\ StoredInv'
  <2>1. CASE ~NeedsFlush(f)
    <3>1. \A o \in Offsets : disk[o].ver \in Nat
      BY DEF WriteInv, Inv, TypeOK, Page, NoPage
    <3>2. \A o \in Offsets : disk'[o].ver >= disk[o].ver
      BY <1>6, <2>1, <3>1
    <3> QED BY <1>2, <1>6, <2>1, <3>2 DEF WriteInv, VersionInv, StoredInv
  <2>2. CASE NeedsFlush(f)
    BY <1>1, <1>2, <1>5, <2>2, WriteBack_Versions DEF StoredInv
  <2> QED BY <2>1, <2>2
<1>8. VersionInv'
  BY <1>2, <1>7 DEF WriteInv, VersionInv
<1>0. \A u \in Flushers, p \in PageIds : Saved(u, p) => Saved(u, p)'
  <2> SUFFICES ASSUME NEW u \in Flushers, NEW p \in PageIds, Saved(u, p) PROVE Saved(u, p)'
    OBVIOUS
  <2>1. Inv'
    BY FlushFrame_Inv DEF WriteInv
  <2>2. OffsetOf[p] \in Offsets /\ floor[u][p] \in Nat
    BY OffsetAssumption DEF WriteInv, Inv, TypeOK
  <2>3. disk[OffsetOf[p]].ver \in Nat
    BY <2>2 DEF WriteInv, Inv, TypeOK, Page, NoPage
  <2>4. disk'[OffsetOf[p]].ver \in Nat
    BY <2>1, <2>2 DEF Inv, TypeOK, Page, NoPage
  <2> QED BY <1>2, <1>7, <2>2, <2>3, <2>4 DEF Saved
<1>9. CoverInv'
  <2> SUFFICES ASSUME NEW u \in Flushers, NEW p \in PageIds, fpc[u] \in {"latch", "write"},
                      fpc'[u] \in {"latch", "write", "sync"}
               PROVE  Saved(u, p)' \/ (fpc'[u] # "sync" /\ Ahead(u, p)')
    <3>1. \A u \in Flushers : fpc'[u] \in {"latch", "write"} => fpc[u] \in {"latch", "write"}
      BY DEF FlushFrame, WriteInv, Inv, TypeOK
    <3>2. \A u \in Flushers : fpc'[u] = "sync" => fpc[u] \in {"latch", "write", "sync"}
      BY DEF FlushFrame, WriteInv, Inv, TypeOK
    <3>3. ASSUME NEW u \in Flushers, NEW p \in PageIds, fpc[u] = "sync" PROVE Saved(u, p)'
      BY <1>0, <3>3 DEF WriteInv, CoverInv
    <3> QED BY <3>1, <3>2, <3>3 DEF CoverInv
  <2>1. floor[u][p] \in Nat /\ OffsetOf[p] \in Offsets
    BY OffsetAssumption DEF WriteInv, Inv, TypeOK
  <2>2. CASE Saved(u, p)
    BY <1>0, <2>2 DEF Saved
  <2>3. CASE Ahead(u, p)
    <3>1. page_table[p] \in Frames
      BY <2>3 DEF Ahead, WriteInv, Inv, TypeOK
    <3>2. CASE page_table[p] = f
      <4>1. content[f].id = p /\ dirty[f] /\ content[f].ver >= floor[u][p]
        BY <2>3, <3>2 DEF Ahead, WriteInv, Inv, MappedFrameHoldsItsPage
      <4>2. NeedsFlush(f)
        BY <4>1, NoneFacts DEF NeedsFlush, NoPage
      <4> QED BY <1>2, <1>5, <2>1, <3>2, <4>1, <4>2 DEF WroteFrame, Saved
    <3>3. CASE page_table[p] # f
      <4>1. dirty'[page_table[p]]
        BY <1>3, <2>3, <3>1, <3>3 DEF Ahead
      <4>2. CASE u # t
        BY <1>2, <2>3, <4>1, <4>2 DEF FlushFrame, Ahead, WriteInv, Inv, TypeOK
      <4>3. CASE u = t
        <5>1. page_table[p] > f
          BY <1>1, <2>3, <3>1, <3>3, <4>3 DEF Ahead, Frames
        <5>2. ~LastFrame(t)
          BY <1>1, <3>1, <5>1, PoolSizeAssumption DEF LastFrame, Frames
        <5>3. fidx'[t] = f + 1 /\ fpc'[t] = "latch"
          BY <5>2 DEF FlushFrame, WriteInv, Inv, TypeOK
        <5>4. page_table[p] >= f + 1
          BY <1>1, <3>1, <5>1 DEF Frames
        <5> QED BY <1>2, <2>3, <4>1, <4>3, <5>3, <5>4 DEF Ahead
      <4> QED BY <4>2, <4>3
    <3> QED BY <3>2, <3>3
  <2> QED BY <2>2, <2>3 DEF WriteInv, CoverInv
<1>10. CloseInv'
  <2>1. \A g \in Frames : ~dirty[g] => ~dirty'[g]
    BY <1>3
  <2>2. ASSUME closing, fpc[t] \in {"latch", "write"}
        PROVE  /\ fpc'[t] \in {"latch", "write"} => \A g \in Frames : g < fidx'[t] => ~dirty'[g]
               /\ fpc'[t] = "sync" => \A g \in Frames : ~dirty'[g]
    <3>1. \A g \in Frames : g < f => ~dirty'[g]
      BY <2>1, <2>2 DEF WriteInv, CloseInv
    <3>2. \A g \in Frames : g < f + 1 => ~dirty'[g]
      <4> SUFFICES ASSUME NEW g \in Frames, g < f + 1 PROVE ~dirty'[g]
        OBVIOUS
      <4>1. g < f \/ g = f
        BY <1>1 DEF Frames
      <4> QED BY <1>3, <3>1, <4>1
    <3>3. LastFrame(t) => \A g \in Frames : g < f + 1
      BY <1>1, PoolSizeAssumption DEF LastFrame, Frames
    <3>4. /\ fpc'[t] = "sync" => LastFrame(t)
          /\ fpc'[t] \in {"latch", "write"} => fidx'[t] = f + 1
      BY DEF FlushFrame, WriteInv, Inv, TypeOK
    <3> QED BY <3>2, <3>3, <3>4
  <2>3. fpc[t] = "write" /\ fpc'[t] \in {"latch", "sync"}
    BY DEF FlushFrame, WriteInv, Inv, TypeOK
  <2>4. \A u \in Flushers \ {t} : fpc'[u] = fpc[u] /\ fidx'[u] = fidx[u]
    BY DEF FlushFrame, WriteInv, Inv, TypeOK
  <2> QED BY <1>2, <2>1, <2>2, <2>3, <2>4 DEF WriteInv, CloseInv
<1> QED BY <1>7, <1>8, <1>9, <1>10

(* When flush_all begins, every current version is in the file or in a dirty  *)
(* frame, and all frames are ahead of it.                                     *)
LEMMA FlushStarts ==
    ASSUME OneTable, WriteInv, NEW t \in Flushers,
           UNCHANGED <<content, page_table, dirty, disk>>,
           fpc' = [fpc EXCEPT ![t] = "latch"],
           fidx' = [fidx EXCEPT ![t] = 0],
           floor' = [floor EXCEPT ![t] = [p \in PageIds |-> Current(p)]]
    PROVE  CoverInv'
<1>1. fpc'[t] = "latch" /\ fidx'[t] = 0 /\ \A p \in PageIds : floor'[t][p] = Current(p)
  BY DEF WriteInv, Inv, TypeOK
<1>2. ASSUME NEW p \in PageIds PROVE Saved(t, p)' \/ Ahead(t, p)'
  <2>1. OffsetOf[p] \in Offsets /\ disk[OffsetOf[p]].ver \in Nat
    <3>1. OffsetOf[p] \in Offsets
      BY OffsetAssumption
    <3> QED BY <3>1 DEF WriteInv, Inv, TypeOK, Page, NoPage
  <2>2. CASE page_table[p] = NoFrame
    BY <1>1, <2>1, <2>2 DEF Saved, Current
  <2>3. CASE page_table[p] # NoFrame
    <3>1. page_table[p] \in Frames /\ page_table[p] >= 0
      BY <2>3 DEF WriteInv, Inv, TypeOK, Frames
    <3>2. content[page_table[p]].ver \in Nat
      BY <3>1 DEF WriteInv, Inv, TypeOK, Page, NoPage
    <3>3. Current(p) = content[page_table[p]].ver
      BY <2>3 DEF Current
    <3>4. CASE dirty[page_table[p]]
      BY <1>1, <2>3, <3>1, <3>2, <3>3, <3>4 DEF Ahead
    <3>5. CASE ~dirty[page_table[p]]
      BY <1>1, <2>3, <3>2, <3>3, <3>5 DEF Saved, WriteInv, Inv, CleanInv, CleanFrameMatchesDisk
    <3> QED BY <3>4, <3>5
  <2> QED BY <2>2, <2>3
<1>3. ASSUME NEW u \in Flushers, u # t PROVE fpc'[u] = fpc[u] /\ fidx'[u] = fidx[u] /\ floor'[u] = floor[u]
  BY <1>3 DEF WriteInv, Inv, TypeOK
<1>4. ASSUME NEW u \in Flushers, u # t, NEW p \in PageIds
      PROVE  /\ fpc'[u] \in {"latch", "write"} => Saved(u, p)' \/ Ahead(u, p)'
             /\ fpc'[u] = "sync" => Saved(u, p)'
  BY <1>3, <1>4 DEF WriteInv, CoverInv, Saved, Ahead
<1> QED BY <1>1, <1>2, <1>4 DEF CoverInv

LEMMA FlushBegin_Write ==
    ASSUME OneTable, WriteInv, NEW t \in Flushers, FlushBegin(t)
    PROVE  VersionInv' /\ StoredInv' /\ CoverInv' /\ CloseInv'
<1> USE DEF FlushBegin, poolVars, frameVars, clientVars
<1>1. VersionInv' /\ StoredInv'
  BY DEF WriteInv, VersionInv, StoredInv
<1>2. CoverInv'
  BY FlushStarts
<1>3. CloseInv'
  BY DEF WriteInv, Inv, TypeOK, CloseInv
<1> QED BY <1>1, <1>2, <1>3

(* close begins its flush_all when no call runs.                              *)
LEMMA Close_Write ==
    ASSUME OneTable, WriteInv, NEW t \in Flushers, Close(t)
    PROVE  VersionInv' /\ StoredInv' /\ CoverInv' /\ CloseInv'
<1> USE DEF Close, poolVars, frameVars, clientVars
<1>1. VersionInv' /\ StoredInv'
  BY DEF WriteInv, VersionInv, StoredInv
<1>2. CoverInv'
  BY FlushStarts
<1>3. \A u \in Flushers : fpc'[u] = IF u = t THEN "latch" ELSE "idle"
  BY DEF WriteInv, Inv, TypeOK
<1>4. fidx'[t] = 0 /\ \A f \in Frames : ~(f < 0)
  BY DEF WriteInv, Inv, TypeOK, Frames
<1>5. CloseInv'
  BY <1>3, <1>4 DEF CloseInv
<1> QED BY <1>1, <1>2, <1>5

(* The steps of flush_all that neither read nor write a page.                 *)
LEMMA QuietFlusher ==
    ASSUME WriteInv, NEW t \in Flushers, FlushLatch(t) \/ FlushIoError(t) \/ FlushSync(t)
    PROVE  VersionInv' /\ StoredInv' /\ CoverInv' /\ CloseInv'
<1> USE DEF FlushLatch, FlushIoError, FlushSync, poolVars, frameVars, clientVars
<1>1. VersionInv' /\ StoredInv'
  BY DEF WriteInv, VersionInv, StoredInv
<1>2. UNCHANGED <<content, page_table, dirty, disk, pc, fidx, floor, closing>>
  OBVIOUS
<1>3. /\ \A u \in Flushers : fpc'[u] \in {"latch", "write"} => fpc[u] \in {"latch", "write"}
      /\ \A u \in Flushers : fpc'[u] = "sync" => fpc[u] = "sync"
      /\ \A u \in Flushers : fpc'[u] = "closed" => fpc[u] = "closed" \/ (fpc[u] = "sync" /\ closing)
  BY DEF WriteInv, Inv, TypeOK
<1>4. CoverInv'
  BY <1>2, <1>3 DEF WriteInv, CoverInv, Saved, Ahead
<1>5. CloseInv'
  BY <1>2, <1>3 DEF WriteInv, CloseInv
<1> QED BY <1>1, <1>4, <1>5

-----------------------------------------------------------------------------
(* The initial pages are in the file in their first version.                  *)
LEMMA Init_WriteInv == ASSUME OneTable, Init PROVE WriteInv
<1>1. Inv
  BY Init_Inv
<1>2. VersionInv /\ StoredInv
  BY NoneFacts DEF Init, VersionInv, StoredInv, NoPage
<1>3. CoverInv /\ CloseInv
  BY DEF Init, CoverInv, CloseInv
<1> QED BY <1>1, <1>2, <1>3 DEF WriteInv

(* No step breaks WriteInv, and none puts an older version over a newer one.  *)
LEMMA Next_WriteInv ==
    ASSUME OneTable, WriteInv, [Next]_vars
    PROVE  /\ WriteInv'
           /\ \A o \in Offsets : disk'[o].ver >= disk[o].ver
<1> DEFINE Kept == VersionInv' /\ StoredInv' /\ CoverInv' /\ CloseInv'
           Grown == \A o \in Offsets : disk'[o].ver >= disk[o].ver
<1>1. Inv'
  BY Next_Inv DEF WriteInv
<1>2. disk' = disk => Grown
  <2>1. \A o \in Offsets : disk[o].ver \in Nat
    BY DEF WriteInv, Inv, TypeOK, Page, NoPage
  <2> QED BY <2>1
<1>3. ASSUME NEW c \in Clients, ClientStep(c) PROVE Kept /\ Grown
  <2>1. ASSUME NEW p \in PageIds, NEW m \in {"read", "write"}, FetchHit(c, p, m) PROVE Kept /\ Grown
    BY <1>2, <2>1, QuietClient DEF FetchHit
  <2>2. ASSUME NEW p \in PageIds, NEW m \in {"read", "write"}, FetchMiss(c, p, m) PROVE Kept /\ Grown
    BY <1>2, <2>2, FetchMiss_Write DEF FetchMiss
  <2>3. ASSUME NEW p \in PageIds, NewPage(c, p) PROVE Kept /\ Grown
    BY <1>2, <2>3, NewPage_Write DEF NewPage
  <2>4. CASE EnterPoisoned(c) \/ ClaimFree(c) \/ NoFreeFrames(c) \/ EvictIoError(c) \/ FillPanic(c)
    <3>1. disk' = disk
      BY <2>4 DEF EnterPoisoned, ClaimFree, NoFreeFrames, EvictIoError, FillPanic
    <3> QED BY <1>2, <2>4, <3>1, QuietClient
  <2>5. CASE Evict(c)
    BY <2>5, Evict_Write
  <2>6. CASE Fill(c)
    BY <1>2, <2>6, Fill_Write DEF Fill
  <2>7. CASE LatchRead(c) \/ LatchWrite(c) \/ WrongPage(c) \/ DropLatch(c) \/ Unpin(c)
    <3>1. disk' = disk
      BY <2>7 DEF LatchRead, LatchWrite, WrongPage, DropLatch, Unpin
    <3> QED BY <1>2, <2>7, <3>1, QuietClient
  <2>8. CASE Mutate(c)
    BY <1>2, <2>8, Mutate_Write DEF Mutate
  <2> QED BY <1>3, <2>1, <2>2, <2>3, <2>4, <2>5, <2>6, <2>7, <2>8 DEF ClientStep
<1>4. ASSUME NEW t \in Flushers, FlushStep(t) PROVE Kept /\ Grown
  <2>1. CASE FlushBegin(t)
    BY <1>2, <2>1, FlushBegin_Write DEF FlushBegin
  <2>2. CASE FlushLatch(t) \/ FlushIoError(t) \/ FlushSync(t)
    BY <1>2, <2>2, QuietFlusher DEF FlushLatch, FlushIoError, FlushSync
  <2>3. CASE FlushFrame(t)
    BY <2>3, FlushFrame_Write
  <2>4. CASE Close(t)
    BY <1>2, <2>4, Close_Write DEF Close
  <2> QED BY <1>4, <2>1, <2>2, <2>3, <2>4 DEF FlushStep
<1>5. ASSUME UNCHANGED vars PROVE Kept /\ Grown
  <2> USE <1>5 DEF vars, poolVars, frameVars, clientVars, flushVars
  <2>1. VersionInv' /\ StoredInv'
    BY DEF WriteInv, VersionInv, StoredInv
  <2>2. CoverInv'
    BY DEF WriteInv, CoverInv, Saved, Ahead
  <2>3. CloseInv'
    BY DEF WriteInv, CloseInv
  <2>4. Grown
    BY <1>2
  <2> QED BY <2>1, <2>2, <2>3, <2>4
<1>6. Kept /\ Grown
  BY <1>3, <1>4, <1>5 DEF Next
<1> QED BY <1>1, <1>6 DEF WriteInv

(* Every reachable state of the pool satisfies the invariant.                 *)
THEOREM WriteInvariance == ASSUME OneTable PROVE Spec => []WriteInv
<1>1. Init => WriteInv
  BY Init_WriteInv
<1>2. WriteInv /\ [Next]_vars => WriteInv'
  BY Next_WriteInv
<1> QED BY <1>1, <1>2, PTL DEF Spec

(* Whoever writes a page back, claim_frame or flush_all, and however late:    *)
(* what the file holds of a page is never replaced by an older version.       *)
THEOREM FileNeverRegresses == ASSUME OneTable PROVE Spec => DiskNeverRegresses
<1>1. WriteInv /\ [Next]_vars => [\A o \in Offsets : disk'[o].ver >= disk[o].ver]_disk
  BY Next_WriteInv
<1> QED BY <1>1, WriteInvariance, PTL DEF Spec, DiskNeverRegresses

(* A flush_all that gets to its sync has in the file every version that was   *)
(* current when it began, whichever frames it found the pages in.             *)
THEOREM FlushSavesWhatItFound == ASSUME OneTable PROVE Spec => []FlushCoversItsStart
<1>1. WriteInv => FlushCoversItsStart
  BY DEF WriteInv, CoverInv, Saved, FlushCoversItsStart
<1> QED BY <1>1, WriteInvariance, PTL

(* After close no frame is dirty and the file has every page's current        *)
(* version, so nothing is lost when drop finds nothing to flush.              *)
THEOREM CloseSavesEverything == ASSUME OneTable PROVE Spec => []CloseLeavesNothingDirty
<1>1. WriteInv => CloseLeavesNothingDirty
  <2> SUFFICES ASSUME WriteInv, NEW t \in Flushers, fpc[t] = "closed"
               PROVE  /\ \A f \in Frames : ~dirty[f]
                      /\ \A p \in PageIds : disk[OffsetOf[p]].ver = Current(p)
    BY DEF CloseLeavesNothingDirty
  <2>1. \A f \in Frames : ~dirty[f]
    BY DEF WriteInv, CloseInv
  <2>2. ASSUME NEW p \in PageIds PROVE disk[OffsetOf[p]].ver = Current(p)
    <3>1. CASE page_table[p] # NoFrame
      <4>1. page_table[p] \in Frames
        BY <3>1 DEF WriteInv, Inv, TypeOK
      <4> QED BY <2>1, <3>1, <4>1 DEF WriteInv, Inv, CleanInv, CleanFrameMatchesDisk, Current
    <3>2. CASE page_table[p] = NoFrame
      <4>1. disk[OffsetOf[p]] = NoPage \/ disk[OffsetOf[p]].id = p
        BY OffsetAssumption DEF OneTable, WriteInv, Inv, DiskInv
      <4> QED BY <3>2, <4>1, NoneFacts DEF Current, NoPage
    <3> QED BY <3>1, <3>2
  <2> QED BY <2>1, <2>2
<1> QED BY <1>1, WriteInvariance, PTL

-----------------------------------------------------------------------------
(* The refinement: what the tree above sees of the pool is one current version*)
(* per page and one readers-writer lock per page.  StoreBar and GuardBar name *)
(* the two state functions that BufferPool's Store puts for PageStore's       *)
(* variables.                                                                 *)

StoreBar == [p \in PageIds |-> Current(p)]
GuardOf(c) == [page |-> want[c], mode |-> IF mode[c] = "read" THEN "read" ELSE "write"]
GuardBar == [c \in Clients |-> IF pc[c] = "hold" THEN GuardOf(c) ELSE None]

(* The two state functions are those of the instance.                         *)
LEMMA Mapping == /\ Store!vars = <<StoreBar, GuardBar>>
                 /\ Store!vars' = <<StoreBar', GuardBar'>>
BY DEF Store!vars, StoreBar, GuardBar, GuardOf

(* A guard is on a page, which None is not.                                   *)
LEMMA GuardIsNotAbsent ==
    ASSUME WriteInv, NEW c \in Clients
    PROVE  /\ pc[c] = "hold" <=> GuardBar[c] # None
           /\ pc[c] = "hold" => GuardBar[c] = GuardOf(c)
<1>1. pc[c] = "hold" => GuardOf(c) \in [page : PageIds, mode : {"read", "write"}]
  BY DEF WriteInv, Inv, LocalsInv, GuardOf
<1> QED BY <1>1, GuardAssumption DEF GuardBar

-----------------------------------------------------------------------------
(* What a step does to the versions seen from outside.                        *)

LEMMA SameVersions ==
    ASSUME UNCHANGED <<content, page_table, disk>>
    PROVE  StoreBar' = StoreBar
BY DEF StoreBar, Current

(* claim_frame: the victim's page is afterwards read from the file.           *)
LEMMA Evict_Versions ==
    ASSUME OneTable, WriteInv, NEW c \in Clients, Evict(c)
    PROVE  StoreBar' = StoreBar
<1> PICK f \in Frames : /\ ~is_pinned(f)
                        /\ disk' = WrittenBack(f)
                        /\ page_table' = Unmapped(content[f].id)
  BY DEF Evict
<1> DEFINE q == content[f].id
<1>1. /\ disk' = disk \/ WroteFrame(f)
      /\ q \in PageIds /\ page_table[q] = f /\ disk'[OffsetOf[q]] = content[f]
  BY EvictedIsWritten
<1>2. \A p \in PageIds : page_table'[p] = IF p = q THEN NoFrame ELSE page_table[p]
  BY <1>1 DEF Unmapped, WriteInv, Inv, TypeOK
<1>3. content' = content
  BY DEF Evict, frameVars
<1>4. ASSUME NEW p \in PageIds PROVE StoreBar'[p] = StoreBar[p]
  <2>1. CASE p = q
    BY <1>1, <1>2, <2>1, FrameFacts DEF StoreBar, Current
  <2>2. CASE p # q
    <3>1. disk'[OffsetOf[p]] = disk[OffsetOf[p]]
      BY <1>1, <2>2, OffsetAssumption DEF OneTable, WroteFrame
    <3> QED BY <1>2, <1>3, <2>2, <3>1 DEF StoreBar, Current
  <2> QED BY <2>1, <2>2
<1> QED BY <1>4 DEF StoreBar

(* flush_all writes what is cached, or what the file has already.             *)
LEMMA FlushFrame_Versions ==
    ASSUME OneTable, WriteInv, NEW t \in Flushers, FlushFrame(t)
    PROVE  StoreBar' = StoreBar
<1> DEFINE f == fidx[t]
           q == content[f].id
<1>1. f \in Frames /\ UNCHANGED <<content, page_table>>
  BY DEF FlushFrame, poolVars, WriteInv, Inv, TypeOK
<1>2. CASE ~NeedsFlush(f)
  BY <1>1, <1>2, SameVersions DEF FlushFrame
<1>3. CASE NeedsFlush(f)
  <2>1. WroteFrame(f)
    BY <1>1, <1>3, WriteBack DEF FlushFrame, NeedsFlush
  <2>2. ASSUME NEW p \in PageIds PROVE StoreBar'[p] = StoreBar[p]
    <3>1. CASE p = q /\ page_table[p] = NoFrame
      <4>1. disk[OffsetOf[p]] = content[f] /\ disk'[OffsetOf[p]] = content[f]
        BY <1>1, <2>1, <3>1, OffsetAssumption DEF WriteInv, StoredInv, WroteFrame
      <4> QED BY <1>1, <3>1, <4>1 DEF StoreBar, Current
    <3>2. CASE page_table[p] # NoFrame
      BY <1>1, <3>2 DEF StoreBar, Current
    <3>3. CASE p # q
      <4>1. disk'[OffsetOf[p]] = disk[OffsetOf[p]]
        BY <2>1, <3>3, OffsetAssumption DEF OneTable, WroteFrame
      <4> QED BY <1>1, <4>1 DEF StoreBar, Current
    <3> QED BY <3>1, <3>2, <3>3
  <2> QED BY <2>2 DEF StoreBar
<1> QED BY <1>2, <1>3

(* A load does not change its page, and new_page gives it its first version.  *)
LEMMA Fill_Versions ==
    ASSUME OneTable, WriteInv, NEW c \in Clients, Fill(c)
    PROVE  /\ mode[c] # "new" => StoreBar' = StoreBar
           /\ mode[c] = "new" => /\ StoreBar[want[c]] = 0
                                 /\ StoreBar' = [StoreBar EXCEPT ![want[c]] = 1]
<1> DEFINE f == frame[c]
           q == want[c]
<1>1. /\ f \in Frames /\ q \in PageIds /\ buf[c] \in Page /\ buf[c].id = q
      /\ page_table[q] = NoFrame /\ \A p \in PageIds : page_table[p] # f
  BY DEF Fill, WriteInv, Inv, LocalsInv
<1>2. /\ \A p \in PageIds : page_table'[p] = (IF p = q THEN f ELSE page_table[p])
      /\ content'[f] = buf[c]
      /\ \A g \in Frames \ {f} : content'[g] = content[g]
      /\ disk' = disk
  BY <1>1 DEF Fill, WriteInv, Inv, TypeOK
<1>3. ASSUME NEW p \in PageIds, p # q PROVE StoreBar'[p] = StoreBar[p]
  <2>1. page_table[p] # NoFrame => page_table[p] \in Frames \ {f}
    BY <1>1 DEF WriteInv, Inv, TypeOK
  <2> QED BY <1>2, <1>3, <2>1 DEF StoreBar, Current
<1>4. StoreBar'[q] = buf[c].ver
  BY <1>1, <1>2, FrameFacts DEF StoreBar, Current
<1>5. CASE mode[c] = "new"
  <2>1. disk[OffsetOf[q]] = NoPage
    BY <1>5 DEF Fill, WriteInv, StoredInv
  <2>2. StoreBar[q] = 0
    BY <1>1, <2>1, NoneFacts DEF StoreBar, Current, NoPage
  <2>3. buf[c].ver = 1
    BY <1>5 DEF Fill, WriteInv, VersionInv
  <2>4. StoreBar' = [StoreBar EXCEPT ![q] = 1]
    BY <1>1, <1>3, <1>4, <2>3 DEF StoreBar
  <2> QED BY <1>5, <2>2, <2>4
<1>6. CASE mode[c] # "new"
  <2>1. buf[c] = disk[OffsetOf[q]]
    BY <1>6 DEF Fill, WriteInv, Inv, CleanInv
  <2>2. StoreBar[q] = buf[c].ver
    BY <1>1, <2>1 DEF StoreBar, Current
  <2> QED BY <1>3, <1>4, <1>6, <2>2 DEF StoreBar
<1> QED BY <1>5, <1>6

(* A mutation is seen at once, and only on its page.                          *)
LEMMA Mutate_Versions ==
    ASSUME WriteInv, NEW c \in Clients, Mutate(c)
    PROVE  StoreBar' = [StoreBar EXCEPT ![want[c]] = @ + 1]
<1> DEFINE f == frame[c]
           q == want[c]
<1>1. f \in Frames /\ q \in PageIds /\ page_table[q] = f /\ content[f].id = q
  BY DEF Mutate, WriteInv, Inv, LocalsInv, GuardKeepsItsPage
<1>2. /\ \A g \in Frames \ {f} : content'[g] = content[g]
      /\ content'[f] = [content[f] EXCEPT !.ver = @ + 1]
      /\ UNCHANGED <<page_table, disk>>
  BY <1>1 DEF Mutate, poolVars, WriteInv, Inv, TypeOK
<1>3. content[f] \in Page \cup {NoPage}
  BY <1>1 DEF WriteInv, Inv, TypeOK
<1>4. content'[f].ver = content[f].ver + 1
  BY <1>2, <1>3 DEF Page, NoPage
<1>5. StoreBar'[q] = StoreBar[q] + 1
  BY <1>1, <1>2, <1>4, FrameFacts DEF StoreBar, Current
<1>6. ASSUME NEW p \in PageIds, p # q PROVE StoreBar'[p] = StoreBar[p]
  <2>1. page_table[p] # f
    BY <1>1, <1>6, FrameFacts DEF WriteInv, Inv, MappedFrameHoldsItsPage
  <2>2. page_table[p] # NoFrame => page_table[p] \in Frames \ {f}
    BY <2>1 DEF WriteInv, Inv, TypeOK
  <2> QED BY <1>2, <2>2 DEF StoreBar, Current
<1> QED BY <1>1, <1>5, <1>6 DEF StoreBar

-----------------------------------------------------------------------------
(* What a step does to the guards seen from outside.                          *)

LEMMA SameGuards ==
    ASSUME \A d \in Clients : pc'[d] = "hold" <=> pc[d] = "hold",
           \A d \in Clients : pc[d] = "hold" => want'[d] = want[d] /\ mode'[d] = mode[d]
    PROVE  GuardBar' = GuardBar
<1>1. \A d \in Clients : GuardBar'[d] = GuardBar[d]
  BY DEF GuardBar, GuardOf
<1> QED BY <1>1 DEF GuardBar

LEMMA GuardTaken ==
    ASSUME NEW c \in Clients, pc'[c] = "hold", want' = want, mode' = mode,
           \A d \in Clients \ {c} : pc'[d] = pc[d]
    PROVE  GuardBar' = [GuardBar EXCEPT ![c] = GuardOf(c)]
<1>1. GuardBar'[c] = GuardOf(c) /\ \A d \in Clients \ {c} : GuardBar'[d] = GuardBar[d]
  BY DEF GuardBar, GuardOf
<1> QED BY <1>1 DEF GuardBar

LEMMA GuardGone ==
    ASSUME NEW c \in Clients, pc'[c] # "hold", want' = want, mode' = mode,
           \A d \in Clients \ {c} : pc'[d] = pc[d]
    PROVE  GuardBar' = [GuardBar EXCEPT ![c] = None]
<1>1. GuardBar'[c] = None /\ \A d \in Clients \ {c} : GuardBar'[d] = GuardBar[d]
  BY DEF GuardBar, GuardOf
<1> QED BY <1>1 DEF GuardBar

(* Guards on one page use one frame, whose latch keeps writers apart.         *)
LEMMA LatchExcludes ==
    ASSUME WriteInv, NEW c \in Clients, pc[c] = "latch", writer[frame[c]] = None,
           NEW d \in Clients, pc[d] = "hold", want[d] = want[c]
    PROVE  mode[d] = "read" /\ readers[frame[c]] # {}
<1>1. frame[d] = frame[c] /\ frame[c] \in Frames
  BY DEF WriteInv, Inv, GuardKeepsItsPage, LocalsInv
<1>2. mode[d] = "read"
  BY <1>1, NoneFacts DEF WriteInv, Inv, LatchInv
<1>3. d \in readers[frame[c]]
  BY <1>1, <1>2 DEF WriteInv, Inv, LatchInv
<1> QED BY <1>2, <1>3

(* A page a guard is about to latch exists.                                   *)
LEMMA LatchedPageExists ==
    ASSUME WriteInv, NEW c \in Clients, pc[c] = "latch"
    PROVE  want[c] \in PageIds /\ StoreBar[want[c]] > 0
<1>1. /\ want[c] \in PageIds /\ frame[c] \in Frames
      /\ page_table[want[c]] = frame[c] /\ content[frame[c]].id = want[c]
  BY DEF WriteInv, Inv, GuardKeepsItsPage, LocalsInv
<1> QED BY <1>1, FrameFacts DEF StoreBar, Current, WriteInv, VersionInv

-----------------------------------------------------------------------------
(* The four steps of the pool that are steps of PageStore.                    *)

(* The latch of fetch_read or fetch_write is PageStore's Acquire.             *)
LEMMA Latch_Simulates ==
    ASSUME WriteInv, NEW c \in Clients, LatchRead(c) \/ LatchWrite(c)
    PROVE  Store!Next
<1> DEFINE m == IF mode[c] = "read" THEN "read" ELSE "write"
<1>1. /\ pc[c] = "latch" /\ writer[frame[c]] = None
      /\ mode[c] # "read" => readers[frame[c]] = {}
  BY DEF LatchRead, LatchWrite, LatchFree
<1>2. /\ pc'[c] = "hold" /\ \A d \in Clients \ {c} : pc'[d] = pc[d]
      /\ UNCHANGED <<want, mode, content, page_table, disk>>
  BY DEF LatchRead, LatchWrite, poolVars, WriteInv, Inv, TypeOK
<1>3. GuardBar' = [GuardBar EXCEPT ![c] = [page |-> want[c], mode |-> m]]
  BY <1>2, GuardTaken DEF GuardOf
<1>4. GuardBar[c] = None
  BY <1>1 DEF GuardBar
<1>5. StoreBar' = StoreBar
  BY <1>2, SameVersions
<1>6. want[c] \in PageIds /\ StoreBar[want[c]] > 0
  BY <1>1, LatchedPageExists
<1>7. ASSUME NEW d \in Clients
      PROVE  /\ GuardBar[d] # [page |-> want[c], mode |-> "write"]
             /\ m = "write" => GuardBar[d] # [page |-> want[c], mode |-> "read"]
  <2>1. CASE pc[d] # "hold"
    BY <2>1, <1>6, GuardAssumption DEF GuardBar
  <2>2. CASE pc[d] = "hold" /\ want[d] # want[c]
    BY <2>2 DEF GuardBar, GuardOf
  <2>3. CASE pc[d] = "hold" /\ want[d] = want[c]
    BY <1>1, <2>3, LatchExcludes DEF GuardBar, GuardOf
  <2> QED BY <2>1, <2>2, <2>3
<1>8. GuardBar[c] # GuardBar'[c]
  BY <1>3, <1>4, <1>6, GuardAssumption DEF GuardBar
<1>9. \E p \in PageIds : \E k \in Store!Modes : Store!Acquire(c, p, k)
  <2> PICK p \in PageIds : p = want[c]
    BY <1>6
  <2> PICK k \in Store!Modes : k = m
    BY DEF Store!Modes
  <2>1. Store!Acquire(c, p, k)
    BY <1>3, <1>4, <1>5, <1>6, <1>7
    DEF Store!Acquire, Store!Holding, StoreBar, GuardBar, GuardOf
  <2> QED BY <2>1
<1> QED BY <1>8, <1>9 DEF Store!Next, GuardBar, GuardOf

(* The fill of new_page, which keeps its latch, is PageStore's Create.        *)
LEMMA Fill_Simulates ==
    ASSUME OneTable, WriteInv, NEW c \in Clients, Fill(c), mode[c] = "new"
    PROVE  Store!Next
<1>1. /\ pc[c] = "fill" /\ pc'[c] = "hold" /\ \A d \in Clients \ {c} : pc'[d] = pc[d]
      /\ UNCHANGED <<want, mode>>
  BY DEF Fill, WriteInv, Inv, TypeOK
<1>2. want[c] \in PageIds /\ page_table[want[c]] = NoFrame
  BY <1>1 DEF WriteInv, Inv, LocalsInv
<1>3. GuardBar' = [GuardBar EXCEPT ![c] = [page |-> want[c], mode |-> "write"]]
  BY <1>1, GuardTaken DEF GuardOf
<1>4. GuardBar[c] = None
  BY <1>1 DEF GuardBar
<1>5. StoreBar[want[c]] = 0 /\ StoreBar' = [StoreBar EXCEPT ![want[c]] = 1]
  BY Fill_Versions
<1>6. ASSUME NEW d \in Clients PROVE GuardBar[d] = None \/ GuardBar[d].page # want[c]
  <2>1. CASE pc[d] = "hold"
    <3>1. page_table[want[d]] # NoFrame
      BY <2>1, FrameFacts DEF WriteInv, Inv, GuardKeepsItsPage, LocalsInv
    <3> QED BY <1>2, <2>1, <3>1 DEF GuardBar, GuardOf
  <2>2. CASE pc[d] # "hold"
    BY <2>2 DEF GuardBar
  <2> QED BY <2>1, <2>2
<1>7. GuardBar[c] # GuardBar'[c]
  BY <1>2, <1>3, <1>4, GuardAssumption DEF GuardBar
<1>8. \E p \in PageIds : Store!Create(c, p)
  <2> PICK p \in PageIds : p = want[c]
    BY <1>2
  <2>1. Store!Create(c, p)
    BY <1>3, <1>4, <1>5, <1>6 DEF Store!Create, StoreBar, GuardBar, GuardOf
  <2> QED BY <2>1
<1> QED BY <1>7, <1>8 DEF Store!Next, GuardBar, GuardOf

(* A mutation is PageStore's Update.                                          *)
LEMMA Mutate_Simulates ==
    ASSUME OneTable, WriteInv, NEW c \in Clients, Mutate(c)
    PROVE  Store!Next
<1>1. pc[c] = "hold" /\ mode[c] # "read" /\ UNCHANGED <<pc, mode, want>>
  BY DEF Mutate, clientVars
<1>2. want[c] \in PageIds
  BY <1>1 DEF WriteInv, Inv, LocalsInv
<1>3. GuardBar[c] = [page |-> want[c], mode |-> "write"]
  BY <1>1 DEF GuardBar, GuardOf
<1>4. GuardBar' = GuardBar
  BY <1>1, SameGuards
<1>5. StoreBar' = [StoreBar EXCEPT ![want[c]] = @ + 1]
  BY Mutate_Versions
<1>6. Store!Update(c, want[c])
  BY <1>3, <1>4, <1>5 DEF Store!Update, Store!Holding, StoreBar, GuardBar, GuardOf
<1> QED BY <1>2, <1>6 DEF Store!Next

(* The drop of a guard's latch is PageStore's Release.                        *)
LEMMA DropLatch_Simulates ==
    ASSUME OneTable, WriteInv, NEW c \in Clients, DropLatch(c)
    PROVE  Store!Next
<1>1. /\ pc[c] = "hold" /\ pc'[c] # "hold" /\ \A d \in Clients \ {c} : pc'[d] = pc[d]
      /\ UNCHANGED <<want, mode, content, page_table, disk>>
  BY DEF DropLatch, poolVars, WriteInv, Inv, TypeOK
<1>2. GuardBar[c] # None
  BY <1>1, GuardIsNotAbsent
<1>3. GuardBar' = [GuardBar EXCEPT ![c] = None]
  BY <1>1, GuardGone
<1>4. StoreBar' = StoreBar
  BY <1>1, SameVersions
<1>5. Store!Release(c)
  BY <1>2, <1>3, <1>4 DEF Store!Release, StoreBar, GuardBar, GuardOf
<1> QED BY <1>5 DEF Store!Next
-----------------------------------------------------------------------------
(* Every other step of the pool is invisible.                                 *)

(* A client that neither enters nor leaves "hold".                            *)
LEMMA QuietClient_Stutters ==
    ASSUME NEW c \in Clients, pc[c] # "hold", pc'[c] # "hold",
           \A d \in Clients \ {c} :
              pc'[d] = pc[d] /\ want'[d] = want[d] /\ mode'[d] = mode[d],
           StoreBar' = StoreBar
    PROVE  UNCHANGED Store!vars
<1>1. GuardBar' = GuardBar
  BY SameGuards
<1> QED BY <1>1, Mapping

LEMMA ClientStep_Simulates ==
    ASSUME OneTable, WriteInv, NEW c \in Clients, ClientStep(c)
    PROVE  Store!Next \/ UNCHANGED Store!vars
<1> DEFINE others == \A d \in Clients \ {c} :
                        pc'[d] = pc[d] /\ want'[d] = want[d] /\ mode'[d] = mode[d]
           same == UNCHANGED <<content, page_table, disk>>
<1> USE DEF WriteInv, Inv, TypeOK
<1>1. CASE \E p \in PageIds : \E m \in {"read", "write"} : FetchHit(c, p, m)
  <2>1. pc[c] # "hold" /\ pc'[c] # "hold" /\ others /\ same
    BY <1>1 DEF FetchHit, MayEnter, poolVars
  <2> QED BY <2>1, SameVersions, QuietClient_Stutters
<1>2. CASE \E p \in PageIds : \E m \in {"read", "write"} : FetchMiss(c, p, m)
  <2>1. pc[c] # "hold" /\ pc'[c] # "hold" /\ others /\ same
    BY <1>2 DEF FetchMiss, MayEnter, frameVars
  <2> QED BY <2>1, SameVersions, QuietClient_Stutters
<1>3. CASE \E p \in PageIds : NewPage(c, p)
  <2>1. pc[c] # "hold" /\ pc'[c] # "hold" /\ others /\ same
    BY <1>3 DEF NewPage, MayEnter, frameVars
  <2> QED BY <2>1, SameVersions, QuietClient_Stutters
<1>4. CASE EnterPoisoned(c) \/ ClaimFree(c) \/ FillPanic(c)
  <2>1. pc[c] # "hold" /\ pc'[c] # "hold" /\ others /\ same
    BY <1>4 DEF EnterPoisoned, ClaimFree, FillPanic, MayEnter, poolVars, frameVars
  <2> QED BY <2>1, SameVersions, QuietClient_Stutters
<1>5. CASE Evict(c)
  <2>1. pc[c] # "hold" /\ pc'[c] # "hold" /\ others
    BY <1>5 DEF Evict
  <2> QED BY <1>5, <2>1, Evict_Versions, QuietClient_Stutters
<1>6. CASE NoFreeFrames(c) \/ EvictIoError(c) \/ WrongPage(c) \/ Unpin(c)
  <2>1. pc[c] # "hold" /\ pc'[c] # "hold" /\ others /\ same
    BY <1>6 DEF NoFreeFrames, EvictIoError, WrongPage, Unpin, Forget, poolVars, frameVars
  <2> QED BY <2>1, SameVersions, QuietClient_Stutters
<1>7. CASE Fill(c)
  <2>1. CASE mode[c] = "new"
    BY <1>7, <2>1, Fill_Simulates
  <2>2. CASE mode[c] # "new"
    <3>1. pc[c] # "hold" /\ pc'[c] # "hold" /\ others
      BY <1>7, <2>2 DEF Fill
    <3> QED BY <1>7, <2>2, <3>1, Fill_Versions, QuietClient_Stutters
  <2> QED BY <2>1, <2>2
<1>8. CASE LatchRead(c) \/ LatchWrite(c)
  BY <1>8, Latch_Simulates
<1>9. CASE Mutate(c)
  BY <1>9, Mutate_Simulates
<1>10. CASE DropLatch(c)
  BY <1>10, DropLatch_Simulates
<1> QED
  BY <1>1, <1>2, <1>3, <1>4, <1>5, <1>6, <1>7, <1>8, <1>9, <1>10 DEF ClientStep

LEMMA FlushStep_Simulates ==
    ASSUME OneTable, WriteInv, NEW t \in Flushers, FlushStep(t)
    PROVE  UNCHANGED Store!vars
<1>1. GuardBar' = GuardBar
  <2>1. UNCHANGED <<pc, want, mode>>
    BY DEF FlushStep, FlushBegin, FlushLatch, FlushFrame, FlushIoError, FlushSync, Close,
           clientVars
  <2> QED BY <2>1, SameGuards
<1>2. StoreBar' = StoreBar
  <2>1. CASE FlushFrame(t)
    BY <2>1, FlushFrame_Versions
  <2>2. CASE ~FlushFrame(t)
    <3>1. UNCHANGED <<content, page_table, disk>>
      BY <2>2 DEF FlushStep, FlushBegin, FlushLatch, FlushIoError, FlushSync, Close,
                  poolVars, frameVars
    <3> QED BY <3>1, SameVersions
  <2> QED BY <2>1, <2>2
<1> QED BY <1>1, <1>2, Mapping

(* Every step of the pool is a step of PageStore or changes nothing it sees.  *)
LEMMA Next_Simulates ==
    ASSUME OneTable, WriteInv, [Next]_vars
    PROVE  [Store!Next]_(Store!vars)
<1>1. CASE UNCHANGED vars
  <2>1. UNCHANGED <<content, page_table, disk, pc, want, mode>>
    BY <1>1 DEF vars, poolVars, frameVars, clientVars
  <2>2. StoreBar' = StoreBar /\ GuardBar' = GuardBar
    BY <2>1, SameVersions, SameGuards
  <2> QED BY <2>2, Mapping
<1> QED BY <1>1, ClientStep_Simulates, FlushStep_Simulates DEF Next

LEMMA Init_Simulates == ASSUME Init PROVE Store!Init
<1> DEFINE At(o) == CHOOSE p \in InitialPages : OffsetOf[p] = o
<1>1. ASSUME NEW p \in PageIds
      PROVE  StoreBar[p] = IF p \in InitialPages THEN 1 ELSE 0
  <2> DEFINE o == OffsetOf[p]
  <2>1. o \in Offsets /\ StoreBar[p] = IF disk[o].id = p THEN disk[o].ver ELSE 0
    BY OffsetAssumption DEF Init, StoreBar, Current
  <2>2. CASE \E q \in InitialPages : OffsetOf[q] = o
    <3>1. At(o) \in InitialPages /\ OffsetOf[At(o)] = o
      BY <2>2
    <3>2. disk[o] = [id |-> At(o), ver |-> 1]
      BY <2>1, <2>2 DEF Init
    <3>3. p \in InitialPages => At(o) = p
      BY <3>1, InitialAssumption
    <3> HIDE DEF At
    <3> QED BY <2>1, <3>1, <3>2, <3>3
  <2>3. CASE ~\E q \in InitialPages : OffsetOf[q] = o
    <3>1. disk[o] = NoPage
      BY <2>1, <2>3 DEF Init
    <3> QED BY <2>1, <2>3, <3>1, NoneFacts DEF NoPage
  <2> QED BY <2>2, <2>3
<1> HIDE DEF At
<1>2. GuardBar = [c \in Clients |-> None]
  BY DEF Init, GuardBar
<1>3. StoreBar = [p \in PageIds |-> IF p \in InitialPages THEN 1 ELSE 0]
  BY <1>1 DEF StoreBar
<1> QED BY <1>2, <1>3 DEF Store!Init, StoreBar, GuardBar, GuardOf

(* Seen through its guards the pool is PageStore, for any number of frames,   *)
(* clients, flushers and pages: neither eviction nor write-back nor a failed  *)
(* call loses an update or lets a writer in beside another guard.             *)
THEOREM PoolImplementsPageStore == ASSUME OneTable PROVE Spec => ImplementsPageStore
<1>1. Init => Store!Init
  BY Init_Simulates
<1>2. WriteInv /\ [Next]_vars => [Store!Next]_(Store!vars)
  BY Next_Simulates
<1> QED BY <1>1, <1>2, WriteInvariance, PTL DEF Spec, ImplementsPageStore, Store!Spec
=============================================================================
