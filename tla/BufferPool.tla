----------------------------- MODULE BufferPool -----------------------------
(* The buffer pool manager (src/bpm): fixed frames caching the pages of a     *)
(* file, one RwLock latch per frame, pin counts that keep a frame from being  *)
(* evicted while a guard is alive, and one mutex, the big dumb lock, around   *)
(* the page table and the free list.                                          *)
(*                                                                            *)
(* A client is one fetch-to-drop lifetime of a guard: a thread that holds two *)
(* guards is two clients.  A flusher is one call of flush_all.  The eviction  *)
(* policy is taken at its contract (any unpinned frame, or none when every    *)
(* frame is pinned); ClockSweep checks it.  The content of a page is          *)
(* its id and a version that each mutation increments.                        *)
EXTENDS Integers, FiniteSets

CONSTANTS Clients, Flushers,
          PageIds,          \* page ids a caller may ask for
          Offsets,          \* page-sized slots of the file
          OffsetOf,         \* OffsetOf[p]: where read_page and write_page go for p
          InitialPages,     \* pages the file holds at the start
          PoolSize,         \* number of frames
          MaxVersion,       \* bound: mutations of one page
          MaxPins,          \* bound: pins of one frame, leaked ones included
          None              \* no page, no frame, no client

ASSUME PoolSizeAssumption == PoolSize \in Nat \ {0}
ASSUME OffsetAssumption == OffsetOf \in [PageIds -> Offsets]
ASSUME InitialAssumption ==
    /\ InitialPages \subseteq PageIds
    /\ \A p, q \in InitialPages : OffsetOf[p] = OffsetOf[q] => p = q
ASSUME ActorAssumption ==
    /\ IsFiniteSet(Clients)
    /\ Clients \cap Flushers = {}
    /\ MaxVersion \in Nat \ {0} /\ MaxPins \in Nat \ {0}
    /\ None \notin Clients \cup Flushers \cup PageIds
ASSUME GuardAssumption ==      \* nor is None a guard, see Store below
    None \notin [page : PageIds, mode : {"read", "write"}]

Frames == 0 .. (PoolSize - 1)
Page == [id : PageIds, ver : Nat]
NoPage == [id |-> None, ver |-> 0]
NoFrame == -1
Modes == {"read", "write", "new"}

VARIABLES
    lock,         \* holder of big_dumb_lock, or None
    poisoned,     \* a thread panicked while holding big_dumb_lock
    page_table,   \* page_table[p]: frame p is mapped to, or NoFrame
    free_frames,  \* frames never used yet
    content,      \* content[f]: the page in frame f, or NoPage
    readers,      \* readers[f]: actors holding f's latch for reading
    writer,       \* writer[f]: the client holding f's latch for writing, or None
    pin_count,
    dirty,
    disk,         \* disk[o]: the page stored in the file at o, or NoPage
    pc, mode, want, buf, frame,  \* the clients' program counters and locals
    fpc, fidx, floor,            \* the flushers'; floor is a history variable
    closing       \* close() has been called: no client exists any more

poolVars == <<lock, poisoned, page_table, free_frames>>
frameVars == <<content, readers, writer, pin_count, dirty>>
clientVars == <<pc, mode, want, buf, frame>>
flushVars == <<fpc, fidx, floor, closing>>
vars == <<poolVars, frameVars, disk, clientVars, flushVars>>

ClientPcs == {"idle", "claim", "fill", "latch", "hold", "unpin", "panicked"}
FlushPcs == {"idle", "latch", "write", "sync", "closed"}

TypeOK ==
    /\ lock \in Clients \cup {None}
    /\ poisoned \in BOOLEAN
    /\ page_table \in [PageIds -> Frames \cup {NoFrame}]
    /\ free_frames \subseteq Frames
    /\ content \in [Frames -> Page \cup {NoPage}]
    /\ readers \in [Frames -> SUBSET (Clients \cup Flushers)]
    /\ writer \in [Frames -> Clients \cup {None}]
    /\ pin_count \in [Frames -> Nat]
    /\ dirty \in [Frames -> BOOLEAN]
    /\ disk \in [Offsets -> Page \cup {NoPage}]
    /\ pc \in [Clients -> ClientPcs]
    /\ mode \in [Clients -> Modes]
    /\ want \in [Clients -> PageIds \cup {None}]
    /\ buf \in [Clients -> Page \cup {NoPage}]
    /\ frame \in [Clients -> Frames \cup {NoFrame}]
    /\ fpc \in [Flushers -> FlushPcs]
    /\ fidx \in [Flushers -> Frames]
    /\ floor \in [Flushers -> [PageIds -> Nat]]
    /\ closing \in BOOLEAN

(* The current version of p, seen from outside: the cached copy wins over the *)
(* file's, and a page that exists nowhere has version 0.                      *)
Current(p) ==
    IF page_table[p] # NoFrame THEN content[page_table[p]].ver
    ELSE IF disk[OffsetOf[p]].id = p THEN disk[OffsetOf[p]].ver
    ELSE 0

Init ==
    /\ lock = None
    /\ poisoned = FALSE
    /\ page_table = [p \in PageIds |-> NoFrame]
    /\ free_frames = Frames
    /\ content = [f \in Frames |-> NoPage]
    /\ readers = [f \in Frames |-> {}]
    /\ writer = [f \in Frames |-> None]
    /\ pin_count = [f \in Frames |-> 0]
    /\ dirty = [f \in Frames |-> FALSE]
    /\ disk = [o \in Offsets |->
                 IF \E p \in InitialPages : OffsetOf[p] = o
                 THEN [id |-> CHOOSE p \in InitialPages : OffsetOf[p] = o, ver |-> 1]
                 ELSE NoPage]
    /\ pc = [c \in Clients |-> "idle"]
    /\ mode = [c \in Clients |-> "read"]
    /\ want = [c \in Clients |-> None]
    /\ buf = [c \in Clients |-> NoPage]
    /\ frame = [c \in Clients |-> NoFrame]
    /\ fpc = [t \in Flushers |-> "idle"]
    /\ fidx = [t \in Flushers |-> 0]
    /\ floor = [t \in Flushers |-> [p \in PageIds |-> 0]]
    /\ closing = FALSE

-----------------------------------------------------------------------------
(* Helpers.  A definition named Bug_... is a plausible mistake in the one     *)
(* that follows it: with it, a property below must fail.                      *)

Bug_PinnedTwice(f) == pin_count[f] > 1
is_pinned(f) == pin_count[f] # 0

LatchFree(f) == readers[f] = {} /\ writer[f] = None

(* The call returns and its client may start another: locals forgotten.       *)
Forget(c) ==
    /\ pc' = [pc EXCEPT ![c] = "idle"]
    /\ mode' = [mode EXCEPT ![c] = "read"]
    /\ want' = [want EXCEPT ![c] = None]
    /\ buf' = [buf EXCEPT ![c] = NoPage]
    /\ frame' = [frame EXCEPT ![c] = NoFrame]

pin_frame(f) == [pin_count EXCEPT ![f] = @ + 1]
Bug_KeepPin(f) == pin_count
Bug_UnpinTwice(f) == [pin_count EXCEPT ![f] = @ - 2]
unpin_frame(f) == [pin_count EXCEPT ![f] = @ - 1]

(* The latches after c's guard let go of frame f.                             *)
Bug_KeepReaders(f, c) == readers
ReadersWithout(f, c) == [readers EXCEPT ![f] = @ \ {c}]
Bug_KeepWriter(f, c) == writer
WriterWithout(f, c) == [writer EXCEPT ![f] = IF @ = c THEN None ELSE @]

(* write_page of what frame f holds.                                          *)
Written(f) == [disk EXCEPT ![OffsetOf[content[f].id]] = content[f]]

(* The victim's page in the file and the page table after claim_frame.        *)
Bug_NoWriteBack(f) == disk
WrittenBack(f) == IF dirty[f] THEN Written(f) ELSE disk
Bug_KeepMapping(p) == page_table
Unmapped(p) == [page_table EXCEPT ![p] = NoFrame]

(* A loaded page is clean; a new one is dirty, though the comment on the line *)
(* reads "make sure the frame isn't marked dirty".                            *)
Bug_NewPageClean(c) == FALSE
DirtyWhenFilled(c) == mode[c] = "new"

(* flush_all writes a frame only if it is dirty, and visits every frame.      *)
Bug_SkipPinned(f) == dirty[f] /\ content[f] # NoPage /\ ~is_pinned(f)
NeedsFlush(f) == dirty[f] /\ content[f] # NoPage
Bug_StopEarly(t) == fidx[t] + 2 >= PoolSize
LastFrame(t) == fidx[t] + 1 = PoolSize

Bug_NoExistsCheck(p) == disk[OffsetOf[p]] = NoPage
NotYetUsed(p) == page_table[p] = NoFrame /\ disk[OffsetOf[p]] = NoPage

(* A call that reaches lock().unwrap() while the mutex is free.               *)
MayEnter(c) == pc[c] = "idle" /\ lock = None /\ ~closing

-----------------------------------------------------------------------------
(* fetch_read and fetch_write.                                                *)

(* checkout_page, page already mapped: pin it and release the lock.  The pin  *)
(* is taken under the lock, so no sweep can run in between.                   *)
FetchHit(c, p, m) ==
    /\ MayEnter(c) /\ ~poisoned
    /\ page_table[p] # NoFrame
    /\ pin_count[page_table[p]] < MaxPins
    /\ pc' = [pc EXCEPT ![c] = "latch"]
    /\ mode' = [mode EXCEPT ![c] = m]
    /\ want' = [want EXCEPT ![c] = p]
    /\ frame' = [frame EXCEPT ![c] = page_table[p]]
    /\ pin_count' = pin_frame(page_table[p])
    /\ UNCHANGED <<poolVars, content, readers, writer, dirty, disk, buf, flushVars>>

(* load_page reads the file before it claims a frame.  A page the file does   *)
(* not hold is an Io error, which changes nothing and is no action.           *)
FetchMiss(c, p, m) ==
    /\ MayEnter(c) /\ ~poisoned
    /\ page_table[p] = NoFrame
    /\ disk[OffsetOf[p]] # NoPage
    /\ lock' = c
    /\ pc' = [pc EXCEPT ![c] = "claim"]
    /\ mode' = [mode EXCEPT ![c] = m]
    /\ want' = [want EXCEPT ![c] = p]
    /\ buf' = [buf EXCEPT ![c] = disk[OffsetOf[p]]]
    /\ UNCHANGED <<poisoned, page_table, free_frames, frameVars, disk, frame, flushVars>>

(* new_page.  Table::allocate hands out page numbers never used before, so    *)
(* the file's slot is empty.  A mapped id returns AlreadyExists unchanged.    *)
NewPage(c, p) ==
    /\ MayEnter(c) /\ ~poisoned
    /\ NotYetUsed(p)
    /\ lock' = c
    /\ pc' = [pc EXCEPT ![c] = "claim"]
    /\ mode' = [mode EXCEPT ![c] = "new"]
    /\ want' = [want EXCEPT ![c] = p]
    /\ buf' = [buf EXCEPT ![c] = [id |-> p, ver |-> 1]]
    /\ UNCHANGED <<poisoned, page_table, free_frames, frameVars, disk, frame, flushVars>>

(* lock().unwrap() on a poisoned mutex panics.                                *)
EnterPoisoned(c) ==
    /\ MayEnter(c) /\ poisoned
    /\ pc' = [pc EXCEPT ![c] = "panicked"]
    /\ UNCHANGED <<poolVars, frameVars, disk, mode, want, buf, frame, flushVars>>

-----------------------------------------------------------------------------
(* claim_frame, under the lock.                                               *)

ClaimFree(c) ==
    /\ pc[c] = "claim"
    /\ \E f \in free_frames :
          /\ free_frames' = free_frames \ {f}
          /\ frame' = [frame EXCEPT ![c] = f]
    /\ pc' = [pc EXCEPT ![c] = "fill"]
    /\ UNCHANGED <<lock, poisoned, page_table, frameVars, disk, mode, want, buf, flushVars>>

(* A victim no guard pins and whose latch try_write gets: written back when   *)
(* dirty, then unmapped under the id it holds.  The dirty bit stays set.      *)
Evict(c) ==
    /\ pc[c] = "claim"
    /\ free_frames = {}
    /\ \E f \in Frames :
          /\ ~is_pinned(f)
          /\ LatchFree(f)
          /\ disk' = WrittenBack(f)
          /\ page_table' = Unmapped(content[f].id)
          /\ frame' = [frame EXCEPT ![c] = f]
    /\ pc' = [pc EXCEPT ![c] = "fill"]
    /\ UNCHANGED <<lock, poisoned, free_frames, frameVars, mode, want, buf, flushVars>>

(* find_victim has None to offer.                                             *)
Bug_LooksAgain == FALSE
AllPinned == \A f \in Frames : is_pinned(f)

(* NoFreeFrames: every frame is pinned, or try_write on the victim fails.     *)
NoFreeFrames(c) ==
    /\ pc[c] = "claim"
    /\ free_frames = {}
    /\ \/ AllPinned
       \/ \E f \in Frames : ~is_pinned(f) /\ ~LatchFree(f)
    /\ lock' = None
    /\ Forget(c)
    /\ UNCHANGED <<poisoned, page_table, free_frames, frameVars, disk, flushVars>>

(* write_page of a dirty victim fails: the error is returned before the page  *)
(* is unmapped, so the frame keeps the only copy.                             *)
EvictIoError(c) ==
    /\ pc[c] = "claim"
    /\ free_frames = {}
    /\ \E f \in Frames : ~is_pinned(f) /\ LatchFree(f) /\ dirty[f]
    /\ lock' = None
    /\ Forget(c)
    /\ UNCHANGED <<poisoned, page_table, free_frames, frameVars, disk, flushVars>>

-----------------------------------------------------------------------------
(* The claimed frame receives its page: load_page or new_page after           *)
(* claim_frame, still under the lock.                                         *)

Fill(c) ==
    /\ pc[c] = "fill"
    /\ LatchFree(frame[c])
    /\ content' = [content EXCEPT ![frame[c]] = buf[c]]
    /\ dirty' = [dirty EXCEPT ![frame[c]] = DirtyWhenFilled(c)]
    /\ page_table' = [page_table EXCEPT ![want[c]] = frame[c]]
    /\ pin_count' = pin_frame(frame[c])
    /\ lock' = None
    /\ \/ /\ mode[c] = "new"        \* the latch of new_page becomes its guard
          /\ writer' = [writer EXCEPT ![frame[c]] = c]
          /\ pc' = [pc EXCEPT ![c] = "hold"]
       \/ /\ mode[c] # "new"
          /\ UNCHANGED writer
          /\ pc' = [pc EXCEPT ![c] = "latch"]
    /\ buf' = [buf EXCEPT ![c] = NoPage]
    /\ UNCHANGED <<poisoned, free_frames, readers, disk, mode, want, frame, flushVars>>

(* try_write().expect("unpinned, unmapped frame has no readers") fails: the   *)
(* thread panics with the mutex in its hands and poisons it.                  *)
FillPanic(c) ==
    /\ pc[c] = "fill"
    /\ ~LatchFree(frame[c])
    /\ poisoned' = TRUE
    /\ lock' = None
    /\ pc' = [pc EXCEPT ![c] = "panicked"]
    /\ UNCHANGED <<page_table, free_frames, frameVars, disk, mode, want, buf, frame, flushVars>>

-----------------------------------------------------------------------------
(* Latching and using the page, without the lock.                             *)

(* The frame's latch for the page asked for; a frame that holds another page  *)
(* is WrongPage, see below.                                                   *)
LatchRead(c) ==
    /\ pc[c] = "latch" /\ mode[c] = "read"
    /\ writer[frame[c]] = None
    /\ content[frame[c]].id \in {want[c], None}
    /\ readers' = [readers EXCEPT ![frame[c]] = @ \cup {c}]
    /\ pc' = [pc EXCEPT ![c] = "hold"]
    /\ UNCHANGED <<poolVars, content, writer, pin_count, dirty, disk,
                   mode, want, buf, frame, flushVars>>

LatchWrite(c) ==
    /\ pc[c] = "latch" /\ mode[c] = "write"
    /\ LatchFree(frame[c])
    /\ content[frame[c]].id \in {want[c], None}
    /\ writer' = [writer EXCEPT ![frame[c]] = c]
    /\ pc' = [pc EXCEPT ![c] = "hold"]
    /\ UNCHANGED <<poolVars, content, readers, pin_count, dirty, disk,
                   mode, want, buf, frame, flushVars>>

(* The raw latch guard is dropped with the error; no page guard was built, so *)
(* nothing gives the pin back.                                                *)
WrongPage(c) ==
    /\ pc[c] = "latch"
    /\ IF mode[c] = "read" THEN writer[frame[c]] = None ELSE LatchFree(frame[c])
    /\ content[frame[c]].id \notin {want[c], None}
    /\ Forget(c)
    /\ UNCHANGED <<poolVars, frameVars, disk, flushVars>>

(* deref_mut marks the frame dirty, the caller changes the page.              *)
Mutate(c) ==
    /\ pc[c] = "hold" /\ mode[c] # "read"
    /\ content[frame[c]].ver < MaxVersion
    /\ dirty' = [dirty EXCEPT ![frame[c]] = TRUE]
    /\ content' = [content EXCEPT ![frame[c]].ver = @ + 1]
    /\ UNCHANGED <<poolVars, readers, writer, pin_count, disk, clientVars, flushVars>>

(* drop of a guard: first the latch, then the pin.                            *)
Bug_UnpinFirst(c) ==
    /\ pc[c] = "hold"
    /\ pin_count' = unpin_frame(frame[c])
    /\ pc' = [pc EXCEPT ![c] = "unpin"]
    /\ UNCHANGED <<poolVars, content, readers, writer, dirty, disk,
                   mode, want, buf, frame, flushVars>>
DropLatch(c) ==
    /\ pc[c] = "hold"
    /\ readers' = ReadersWithout(frame[c], c)
    /\ writer' = WriterWithout(frame[c], c)
    /\ pc' = [pc EXCEPT ![c] = "unpin"]
    /\ UNCHANGED <<poolVars, content, pin_count, dirty, disk,
                   mode, want, buf, frame, flushVars>>

Unpin(c) ==
    /\ pc[c] = "unpin"
    /\ pin_count' = unpin_frame(frame[c])
    /\ Forget(c)
    /\ UNCHANGED <<poolVars, content, readers, writer, dirty, disk, flushVars>>

-----------------------------------------------------------------------------
(* flush_all: frame by frame under its read latch, without pin or lock.       *)

FlushBegin(t) ==
    /\ fpc[t] = "idle" /\ ~closing
    /\ fpc' = [fpc EXCEPT ![t] = "latch"]
    /\ fidx' = [fidx EXCEPT ![t] = 0]
    /\ floor' = [floor EXCEPT ![t] = [p \in PageIds |-> Current(p)]]
    /\ UNCHANGED <<poolVars, frameVars, disk, clientVars, closing>>

FlushLatch(t) ==
    /\ fpc[t] = "latch"
    /\ writer[fidx[t]] = None
    /\ readers' = [readers EXCEPT ![fidx[t]] = @ \cup {t}]
    /\ fpc' = [fpc EXCEPT ![t] = "write"]
    /\ UNCHANGED <<poolVars, content, writer, pin_count, dirty, disk,
                   clientVars, fidx, floor, closing>>

(* One frame written back if dirty and occupied, its latch dropped.           *)
FlushFrame(t) ==
    /\ fpc[t] = "write"
    /\ disk' = IF NeedsFlush(fidx[t]) THEN Written(fidx[t]) ELSE disk
    /\ dirty' = [dirty EXCEPT ![fidx[t]] = FALSE]
    /\ readers' = ReadersWithout(fidx[t], t)
    /\ \/ /\ LastFrame(t)
          /\ fpc' = [fpc EXCEPT ![t] = "sync"]
          /\ UNCHANGED fidx
       \/ /\ ~LastFrame(t)
          /\ fpc' = [fpc EXCEPT ![t] = "latch"]
          /\ fidx' = [fidx EXCEPT ![t] = @ + 1]
    /\ UNCHANGED <<poolVars, content, writer, pin_count, clientVars, floor, closing>>

(* write_page fails: flush_all returns early, the frame stays dirty.          *)
FlushIoError(t) ==
    /\ fpc[t] = "write"
    /\ NeedsFlush(fidx[t])
    /\ readers' = ReadersWithout(fidx[t], t)
    /\ fpc' = [fpc EXCEPT ![t] = "idle"]
    /\ UNCHANGED <<poolVars, content, writer, pin_count, dirty, disk,
                   clientVars, fidx, floor, closing>>

(* sync, and flush_all returns Ok.                                            *)
FlushSync(t) ==
    /\ fpc[t] = "sync"
    /\ fpc' = [fpc EXCEPT ![t] = IF closing THEN "closed" ELSE "idle"]
    /\ UNCHANGED <<poolVars, frameVars, disk, clientVars, fidx, floor, closing>>

(* close(self) takes the pool by value, so no guard is alive and no other     *)
(* call runs; its flush_all is the last.                                      *)
Close(t) ==
    /\ fpc[t] = "idle" /\ ~closing
    /\ \A c \in Clients : pc[c] = "idle"
    /\ \A u \in Flushers : fpc[u] = "idle"
    /\ closing' = TRUE
    /\ fpc' = [fpc EXCEPT ![t] = "latch"]
    /\ fidx' = [fidx EXCEPT ![t] = 0]
    /\ floor' = [floor EXCEPT ![t] = [p \in PageIds |-> Current(p)]]
    /\ UNCHANGED <<poolVars, frameVars, disk, clientVars>>

-----------------------------------------------------------------------------
ClientStep(c) ==
    \/ \E p \in PageIds : \/ \E m \in {"read", "write"} : FetchHit(c, p, m) \/ FetchMiss(c, p, m)
                          \/ NewPage(c, p)
    \/ EnterPoisoned(c)
    \/ ClaimFree(c) \/ Evict(c) \/ NoFreeFrames(c) \/ EvictIoError(c)
    \/ Fill(c) \/ FillPanic(c)
    \/ LatchRead(c) \/ LatchWrite(c) \/ WrongPage(c)
    \/ Mutate(c) \/ DropLatch(c) \/ Unpin(c)

FlushStep(t) ==
    \/ FlushBegin(t) \/ FlushLatch(t) \/ FlushFrame(t) \/ FlushIoError(t)
    \/ FlushSync(t) \/ Close(t)

Next == \/ \E c \in Clients : ClientStep(c)
        \/ \E t \in Flushers : FlushStep(t)

Spec == Init /\ [][Next]_vars

(* The scheduler runs every thread; a latch or mutex that is free again and   *)
(* again is eventually got; a caller drops its guard.  Nothing makes a client *)
(* call, mutate, or the file fail.                                            *)
Claimed(c) == ClaimFree(c) \/ Evict(c) \/ NoFreeFrames(c) \/ EvictIoError(c)
Latched(c) == LatchRead(c) \/ LatchWrite(c) \/ WrongPage(c)

Fairness ==
    /\ \A c \in Clients : /\ WF_vars(Claimed(c))
                          /\ WF_vars(Fill(c) \/ FillPanic(c))
                          /\ SF_vars(Latched(c))
                          /\ WF_vars(DropLatch(c))
                          /\ WF_vars(Unpin(c))
    /\ \A t \in Flushers : /\ SF_vars(FlushLatch(t))
                           /\ WF_vars(FlushFrame(t))
                           /\ WF_vars(FlushSync(t))

FairSpec == Spec /\ Fairness

-----------------------------------------------------------------------------
(* Properties.                                                                *)

Using(f) == {c \in Clients : frame[c] = f /\ pc[c] \in {"latch", "hold", "unpin"}}

(* A page-table entry leads to a frame that holds that page (checkout_page    *)
(* relies on it), whatever evictions, loads and failures came before.         *)
MappedFrameHoldsItsPage ==
    \A p \in PageIds : page_table[p] # NoFrame => content[page_table[p]].id = p

(* A live guard's frame holds the guard's page and is still the one the page  *)
(* table names: the pin taken under the lock keeps every sweep away from it   *)
(* until the guard's drop, also between releasing the lock and latching.      *)
GuardKeepsItsPage ==
    \A c \in Clients : pc[c] \in {"latch", "hold"} =>
        /\ page_table[want[c]] = frame[c]
        /\ content[frame[c]].id = want[c]

(* With one table behind the pool every pin belongs to a client that will give*)
(* it back when it drops its guard, also after calls that failed for want of a*)
(* frame or of the file.                                                      *)
PinsMatchGuards == \A f \in Frames : pin_count[f] = Cardinality(Using(f))

(* With two tables a fetch can also fail with WrongPage, after it has pinned  *)
(* the frame.  "No need for an explicit unpin call since the guard will drop  *)
(* here on error", say fetch_read and fetch_write, but there is no guard yet: *)
(* each such fetch leaves one pin that nobody will give back, no other step   *)
(* does, and the frame keeps its page from then on.                           *)
Unowned(f) == pin_count[f] - Cardinality(Using(f))
EndsInWrongPage(f) ==
    {c \in Clients : frame[c] = f /\ pc[c] = "latch" /\ pc'[c] = "idle"}
OnlyWrongPageKeepsAPin ==
    [][\A f \in Frames : /\ Unowned(f)' = Unowned(f) + Cardinality(EndsInWrongPage(f))
                         /\ Unowned(f) > 0 => content'[f].id = content[f].id]_vars

(* A client's latch lies inside its pin, at the drop of a guard too: so       *)
(* find_victim's choice of an unpinned frame never meets a guard's latch, and *)
(* only flush_all can make the try_write calls fail.                          *)
LatchInsidePin ==
    \A f \in Frames :
        (writer[f] # None \/ readers[f] \cap Clients # {}) => is_pinned(f)

(* A mapped frame whose dirty bit is clear can be dropped without a write:    *)
(* the file has the same version.  The bit is set by deref_mut and new_page,  *)
(* cleared by load_page and by flush_all under a read latch.                  *)
CleanFrameMatchesDisk ==
    \A p \in PageIds :
        page_table[p] # NoFrame /\ ~dirty[page_table[p]]
            => disk[OffsetOf[p]] = content[page_table[p]]

(* When flush_all reaches its sync, every version current when it began is in *)
(* the file, though frames were evicted, reloaded and remapped in front of    *)
(* and behind the frame it had reached.                                       *)
FlushCoversItsStart ==
    \A t \in Flushers : fpc[t] = "sync" =>
        \A p \in PageIds : disk[OffsetOf[p]].ver >= floor[t][p]

(* close: "Drop runs afterwards, but finds nothing dirty", and the file holds *)
(* the current version of every page.                                         *)
CloseLeavesNothingDirty ==
    \A t \in Flushers : fpc[t] = "closed" =>
        /\ \A f \in Frames : ~dirty[f]
        /\ \A p \in PageIds : disk[OffsetOf[p]].ver = Current(p)

(* No write to the file puts an older version over a newer one, whichever of  *)
(* eviction and flush_all gets there first.                                   *)
DiskNeverRegresses == [][\A o \in Offsets : disk'[o].ver >= disk[o].ver]_disk

(* load_page and new_page: "unpinned, unmapped frame has no readers".         *)
ClaimedFrameHasNoReaders ==
    \A c \in Clients : pc[c] = "fill" => readers[frame[c]] = {}

(* Seen through its guards the pool is one lock and one current version per   *)
(* page: caching, eviction and write-back lose no update and hand no page to  *)
(* a reader and a writer at once.                                             *)
Store == INSTANCE PageStore WITH
           store <- [p \in PageIds |-> Current(p)],
           guard <- [c \in Clients |->
                       IF pc[c] = "hold"
                       THEN [page |-> want[c],
                             mode |-> IF mode[c] = "read" THEN "read" ELSE "write"]
                       ELSE None],
           Absent <- None
ImplementsPageStore == Store!Spec

WaitsToWrite(c) == pc[c] = "latch" /\ mode[c] = "write"

(* Every fetch and new_page returns, with a guard or an error, whether it is  *)
(* claiming a frame, filling it, or waiting to read, and every guard drop     *)
(* ends: the holder of the mutex never waits for a latch or a pin, and a latch*)
(* is waited for without the mutex.  A fetch_write gets as far as its latch,  *)
(* which WriterGetsLatch is about.                                            *)
CallsReturn ==
    \A c \in Clients :
        (pc[c] \in {"claim", "fill", "latch", "unpin"})
            ~> (pc[c] \in {"idle", "hold", "panicked"} \/ WaitsToWrite(c))

(* fetch_write gets its latch too, unless readers, flush_all among them, keep *)
(* arriving for ever: std's RwLock promises no preference for writers.        *)
WriterGetsLatch ==
    \/ []<><<\/ \E c \in Clients : LatchRead(c)
             \/ \E t \in Flushers : FlushLatch(t)>>_vars
    \/ \A c \in Clients : WaitsToWrite(c) ~> (pc[c] \in {"idle", "hold"})

(* flush_all ends although clients keep latching the frames in front of it.   *)
FlushReturns ==
    \A t \in Flushers : (fpc[t] # "idle") ~> (fpc[t] \in {"idle", "closed"})
=============================================================================
