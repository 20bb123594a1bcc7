------------------------------ MODULE TableFile -------------------------------
(* A table's file through its life: FileDisk, what the buffer pool writes and *)
(* syncs, create and open, and the steps by which vacuum replaces the file,   *)
(* with I/O errors, a killed process and a crash of the machine between any   *)
(* two of them.  The operating system keeps what is written in its cache;     *)
(* sync_all on a file, or on its directory, makes it durable; after a crash   *)
(* any part of the rest may have got there too, page by page.                 *)
(*                                                                            *)
(* A row is an element of Row, a page a set of rows and the generation of the *)
(* layout it belongs to: vacuum moves rows to other pages.  Rows are inserted *)
(* in one step (BTree has the steps) and not while a vacuum runs, which does  *)
(* not stand it (BTree again).                                                *)
EXTENDS Naturals, FiniteSets

CONSTANTS Threads, Row,
          Inode,         \* files; bound: those the steps below can need at once
          Page,          \* page numbers
          Home,          \* Home[g][r]: the page that has row r in generation g
          MayFail,       \* the system calls that may return an error
          RenameSettles, \* a rename by a killed process is durable before the next start
          None

Meta == 0
Root == 1                \* the leaf that create makes
Gens == DOMAIN Home      \* bound: generations of the layout, one per vacuum

ASSUME LayoutAssumption ==
    /\ {Meta, Root} \subseteq Page /\ Page \subseteq Nat /\ None \notin Page
    /\ RenameSettles \in BOOLEAN
    /\ 0 \in Gens /\ Gens \subseteq Nat
    /\ Home \in [Gens -> [Row -> Page \ {Meta}]]
    /\ \A r \in Row : Home[0][r] = Root
ASSUME NoneAssumption ==     \* None is no file, no thread and no page body
    None \notin Inode \cup Threads \cup [gen : Gens, rows : SUBSET Row]

VARIABLES
    cached, durable,     \* cached[i][p], durable[i][p]: page p of file i as the system
                         \* has it, and on the disk; None where nothing was written
    main,                \* the file the table's path names
    perhaps,             \* the files it may name after a crash
    temp,                \* the file vacuum is writing, or None
    handle,              \* the file FileDisk has open
    running,             \* the process has the table open
    frame, dirty,        \* the buffer pool: frame[p] a page or None, and the dirty ones
    lock, poisoned,      \* big_dumb_lock: the thread in swap_file, or None
    pc, job,             \* pc[t] in call job[t] of thread t
    todo,                \* todo[t]: the frames t's flush_all has not visited
    scanned,             \* scanned[t]: the rows there were when t's call began
    gen,                 \* gen[t]: the generation t's vacuum builds
    inserted,            \* rows whose insert returned, or that were there at the start
    saved,               \* rows that a flush_all, close or vacuum promised to keep
    founded              \* create has returned Ok

files == <<cached, durable, main, perhaps, temp, handle>>
pool == <<frame, dirty, lock, poisoned>>
calls == <<pc, job, todo, scanned, gen>>
ghosts == <<inserted, saved, founded>>
vars == <<files, running, pool, calls, ghosts>>

Empty == [p \in Page |-> None]
Body(g, rows) == [gen |-> g, rows |-> rows]

PagesOf(g) == {Meta, Root} \cup {Home[g][r] : r \in Row}
(* The meta page says which layout the file has.                              *)
Layout(g, rows) ==
    [p \in Page |-> IF p \in PagesOf(g) THEN Body(g, {r \in rows : Home[g][r] = p}) ELSE None]

(* The rows a search finds in the pages of content.                           *)
RowsIn(content) ==
    IF content[Meta] = None THEN {}
    ELSE LET g == content[Meta].gen
             leaf(r) == content[Home[g][r]]
         IN {r \in Row : leaf(r) # None /\ leaf(r).gen = g /\ r \in leaf(r).rows}

Whole(content) ==
    /\ content[Meta] # None
    /\ \A p \in PagesOf(content[Meta].gen) : content[p] # None /\ content[p].gen = content[Meta].gen

(* A fetch finds the page in its frame, else in the open file.                *)
Fetched == [p \in Page |-> IF frame[p] # None THEN frame[p] ELSE cached[handle][p]]

Init ==                  \* FileDisk::new has made an empty file
    /\ \E i \in Inode : main = i /\ perhaps = {i} /\ handle = i
    /\ cached = [i \in Inode |-> Empty] /\ durable = [i \in Inode |-> Empty]
    /\ temp = None /\ running = FALSE
    /\ frame = Empty /\ dirty = {} /\ lock = None /\ poisoned = FALSE
    /\ pc = [t \in Threads |-> "idle"] /\ job = [t \in Threads |-> "none"]
    /\ todo = [t \in Threads |-> {}] /\ scanned = [t \in Threads |-> {}]
    /\ gen = [t \in Threads |-> 0]
    /\ inserted = {} /\ saved = {} /\ founded = FALSE

-----------------------------------------------------------------------------
(* The process starts and ends.                                               *)

(* The table is opened: there is a meta page.  Nobody syncs the directory, so *)
(* without RenameSettles a crash may undo the rename of an earlier process    *)
(* with all that has been written, and synced, since.                         *)
Open ==
    /\ ~running /\ cached[main][Meta] # None
    /\ running' = TRUE /\ handle' = main
    /\ inserted' = RowsIn(cached[main])
    /\ frame' = [Empty EXCEPT ![Meta] = cached[main][Meta]]
    /\ perhaps' = IF RenameSettles THEN {main} ELSE perhaps
    /\ UNCHANGED <<cached, durable, main, temp, dirty, lock, poisoned, calls, saved, founded>>

(* The file is empty: new_page twice, then flush_all.  A file that has another*)
(* page but no meta page can be neither opened nor created.                   *)
Create(t) ==
    /\ ~running /\ \A p \in Page : cached[main][p] = None
    /\ running' = TRUE /\ handle' = main
    /\ frame' = [p \in Page |-> IF p \in {Meta, Root} THEN Body(0, {}) ELSE None]
    /\ dirty' = {Meta, Root}
    /\ pc' = [pc EXCEPT ![t] = "flush"] /\ job' = [job EXCEPT ![t] = "create"]
    /\ todo' = [todo EXCEPT ![t] = Page]
    /\ UNCHANGED <<cached, durable, main, perhaps, temp, lock, poisoned, scanned, gen, ghosts>>

(* What the process had in memory is gone.                                    *)
Gone ==
    /\ running' = FALSE
    /\ frame' = Empty /\ dirty' = {} /\ lock' = None /\ poisoned' = FALSE
    /\ pc' = [t \in Threads |-> "idle"] /\ job' = [t \in Threads |-> "none"]
    /\ todo' = [t \in Threads |-> {}] /\ scanned' = [t \in Threads |-> {}]
    /\ gen' = [t \in Threads |-> 0]
    /\ temp' = None
    /\ inserted' = {}

(* Files that nobody can reach any more.                                      *)
Cleared(f) == [i \in Inode |-> IF i \in perhaps THEN f[i] ELSE Empty]

Kill ==
    /\ running
    /\ Gone /\ handle' = main
    /\ cached' = Cleared(cached) /\ durable' = Cleared(durable)
    /\ UNCHANGED <<main, perhaps, saved, founded>>

(* The machine crashes: of what was not synced, any pages may be durable, and *)
(* of the renames any may have happened.                                      *)
Crash ==
    /\ \E i \in perhaps : \E kept \in SUBSET {p \in Page : cached[i][p] # durable[i][p]} :
          LET left == [p \in Page |-> IF p \in kept THEN cached[i][p] ELSE durable[i][p]]
          IN /\ main' = i /\ perhaps' = {i} /\ handle' = i
             /\ cached' = [[j \in Inode |-> Empty] EXCEPT ![i] = left]
             /\ durable' = cached'
    /\ Gone
    /\ UNCHANGED <<saved, founded>>

-----------------------------------------------------------------------------
(* Calls.                                                                     *)

Quitting == \E t \in Threads : job[t] \in {"close", "drop"}
Vacuuming == \E t \in Threads : job[t] = "vacuum"
(* fetches, evictions and swap_file exclude each other.                       *)
CanFetch == running /\ lock = None /\ ~poisoned /\ ~Quitting

Insert(r) ==
    /\ CanFetch /\ ~Vacuuming /\ r \notin inserted
    /\ Fetched[Meta] # None
    /\ LET p == Home[Fetched[Meta].gen][r]
       IN /\ Fetched[p] # None
          /\ frame' = [frame EXCEPT ![p] = [Fetched[p] EXCEPT !.rows = @ \cup {r}]]
          /\ dirty' = dirty \cup {p}
    /\ inserted' = inserted \cup {r}
    /\ UNCHANGED <<files, running, lock, poisoned, calls, saved, founded>>

(* Another thread reads a page.                                               *)
Load(p) ==
    /\ CanFetch /\ frame[p] = None /\ Fetched[p] # None
    /\ frame' = [frame EXCEPT ![p] = Fetched[p]]
    /\ UNCHANGED <<files, running, dirty, lock, poisoned, calls, ghosts>>

Written(p) == [cached EXCEPT ![handle][p] = frame[p]]

(* claim_frame takes the frame of p for another page.                         *)
Bug_KeepDirty(p) == dirty
NowClean(p) == dirty \ {p}

Evict(p) ==
    /\ CanFetch /\ frame[p] # None
    /\ cached' = IF p \in dirty THEN Written(p) ELSE cached
    /\ frame' = [frame EXCEPT ![p] = None]
    /\ dirty' = NowClean(p)
    /\ UNCHANGED <<durable, main, perhaps, temp, handle, running, lock, poisoned, calls, ghosts>>

(* Table::vacuum scans; its rows become the pages of the next generation.     *)
(* close and drop own the pool: nobody else is in a call then.                *)
Begin(t, call) ==
    /\ running /\ ~Quitting /\ pc[t] = "idle"
    /\ IF call \in {"close", "drop"}
       THEN \A u \in Threads : pc[u] \in {"idle", "panicked", "asserted"} ELSE TRUE
    /\ IF call = "vacuum"
       THEN /\ CanFetch /\ Whole(Fetched) /\ Fetched[Meta].gen + 1 \in Gens
            /\ gen' = [gen EXCEPT ![t] = Fetched[Meta].gen + 1]
       ELSE UNCHANGED gen
    /\ pc' = [pc EXCEPT ![t] = "flush"] /\ job' = [job EXCEPT ![t] = call]
    /\ todo' = [todo EXCEPT ![t] = Page]
    /\ scanned' = [scanned EXCEPT ![t] = IF call = "vacuum" THEN RowsIn(Fetched) ELSE inserted]
    /\ UNCHANGED <<files, running, pool, ghosts>>

To(t, next) == pc' = [pc EXCEPT ![t] = next] /\ UNCHANGED <<job, todo, scanned, gen>>

Returned(t) ==
    /\ pc' = [pc EXCEPT ![t] = "idle"] /\ job' = [job EXCEPT ![t] = "none"]
    /\ todo' = [todo EXCEPT ![t] = {}] /\ scanned' = [scanned EXCEPT ![t] = {}]
    /\ gen' = [gen EXCEPT ![t] = 0]

Promise(t) == /\ saved' = saved \cup scanned[t]
              /\ founded' = (founded \/ job[t] = "create")
              /\ UNCHANGED inserted

(* A call that fails returns its error, and a failed close or drop ends the   *)
(* pool: close is followed by drop, which tries to flush once more.           *)
GivesUp(t) ==
    IF job[t] = "drop"
    THEN /\ Gone /\ handle' = main /\ UNCHANGED <<cached, durable, main, perhaps, saved, founded>>
    ELSE /\ IF job[t] = "close"
            THEN /\ pc' = [pc EXCEPT ![t] = "flush"] /\ job' = [job EXCEPT ![t] = "drop"]
                 /\ todo' = [todo EXCEPT ![t] = Page]
                 /\ UNCHANGED <<scanned, gen>>
            ELSE Returned(t)
         /\ lock' = IF lock = t THEN None ELSE lock
         /\ UNCHANGED <<files, running, frame, dirty, poisoned, ghosts>>

-----------------------------------------------------------------------------
(* flush_all.                                                                 *)

FlushFrame(t, p) ==
    /\ pc[t] = "flush" /\ p \in todo[t] /\ \A q \in todo[t] : p <= q
    /\ cached' = IF p \in dirty /\ frame[p] # None THEN Written(p) ELSE cached
    /\ dirty' = NowClean(p)
    /\ todo' = [todo EXCEPT ![t] = @ \ {p}]
    /\ UNCHANGED <<durable, main, perhaps, temp, handle, running, frame, lock, poisoned,
                   pc, job, scanned, gen, ghosts>>

FlushFails(t) ==
    /\ pc[t] = "flush"
    /\ \/ "write" \in MayFail /\ todo[t] \cap dirty # {}
       \/ "sync" \in MayFail /\ todo[t] = {}
    /\ GivesUp(t)

Bug_NoSync(i) == durable
Synced(i) == [durable EXCEPT ![i] = cached[i]]

FlushSync(t) ==
    /\ pc[t] = "flush" /\ todo[t] = {}
    /\ durable' = Synced(handle)
    /\ CASE job[t] \in {"create", "flush"} ->
               Returned(t) /\ Promise(t) /\ UNCHANGED <<cached, main, perhaps, temp, handle, running, pool>>
         [] job[t] = "vacuum" ->
               To(t, "lock") /\ UNCHANGED <<cached, main, perhaps, temp, handle, running, pool, ghosts>>
         [] OTHER ->     \* close, drop
               /\ Gone /\ handle' = main /\ UNCHANGED <<cached, main, perhaps>>
               /\ saved' = IF job[t] = "close" THEN saved \cup scanned[t] ELSE saved
               /\ UNCHANGED founded

-----------------------------------------------------------------------------
(* swap_file.                                                                 *)

TakeLock(t) ==
    /\ pc[t] = "lock" /\ lock = None
    /\ IF poisoned THEN To(t, "panicked") /\ UNCHANGED lock
       ELSE To(t, "create") /\ lock' = t
    /\ UNCHANGED <<files, running, frame, dirty, poisoned, ghosts>>

CreateTemp(t) ==
    /\ pc[t] = "create"
    /\ \E i \in Inode \ ({handle} \cup perhaps) :
          /\ temp' = i
          /\ cached' = [cached EXCEPT ![i] = Empty]
          /\ durable' = [durable EXCEPT ![i] = Empty]
    /\ To(t, "write")
    /\ UNCHANGED <<main, perhaps, handle, running, pool, ghosts>>

(* Nobody opens the file by this name, so its pages are written in one step.  *)
WriteTemp(t) ==
    /\ pc[t] = "write"
    /\ cached' = [cached EXCEPT ![temp] = Layout(gen[t], scanned[t])]
    /\ To(t, "sync")
    /\ UNCHANGED <<durable, main, perhaps, temp, handle, running, pool, ghosts>>

(* "write failed" panics with the mutex held.                                 *)
WritePanics(t) ==
    /\ pc[t] = "write" /\ "write" \in MayFail
    /\ To(t, "panicked")
    /\ poisoned' = TRUE /\ lock' = None
    /\ UNCHANGED <<files, running, frame, dirty, ghosts>>

Bug_TempNotSynced(i) == durable
TempSynced(i) == Synced(i)

SyncTemp(t) ==
    /\ pc[t] = "sync"
    /\ durable' = TempSynced(temp)
    /\ To(t, "rename")
    /\ UNCHANGED <<cached, main, perhaps, temp, handle, running, pool, ghosts>>

Rename(t) ==
    /\ pc[t] = "rename"
    /\ main' = temp /\ perhaps' = perhaps \cup {temp} /\ temp' = None
    /\ To(t, "dirsync")
    /\ UNCHANGED <<cached, durable, handle, running, pool, ghosts>>

Bug_DirNotSynced == perhaps
DirSynced == {main}

SyncDir(t) ==
    /\ pc[t] = "dirsync"
    /\ perhaps' = DirSynced
    /\ To(t, "reopen")
    /\ UNCHANGED <<cached, durable, main, temp, handle, running, pool, ghosts>>

Bug_OldHandle == handle
Reopened == main

Reopen(t) ==
    /\ pc[t] = "reopen"
    /\ handle' = Reopened
    /\ To(t, "clear")
    /\ UNCHANGED <<cached, durable, main, perhaps, temp, running, pool, ghosts>>

(* An error of any of these leaves at once.                                   *)
SwapFails(t) ==
    /\ pc[t] \in {"create", "sync", "rename", "dirsync", "reopen"} \cap MayFail
    /\ GivesUp(t)

Bug_FramesKept == frame
FramesCleared == Empty

Clear(t) ==
    /\ pc[t] = "clear"
    /\ frame' = FramesCleared /\ dirty' = {} /\ lock' = None
    /\ Promise(t) /\ Returned(t)
    /\ UNCHANGED <<files, running, poisoned>>

(* assert!(!frame.is_pinned()): a reader still has a guard on one of kept, the*)
(* frames not yet emptied, and they stay, pages of the old file over the new. *)
ClearPanics(t) ==
    /\ pc[t] = "clear"
    /\ \E kept \in (SUBSET {p \in Page : frame[p] # None}) \ {{}} :
          /\ frame' = [p \in Page |-> IF p \in kept THEN frame[p] ELSE None]
          /\ dirty' = dirty \cap kept
    /\ To(t, "asserted")
    /\ poisoned' = TRUE /\ lock' = None
    /\ UNCHANGED <<files, running, ghosts>>

-----------------------------------------------------------------------------
Step(t) ==
    \/ Create(t) \/ \E call \in {"flush", "close", "drop", "vacuum"} : Begin(t, call)
    \/ \E p \in Page : FlushFrame(t, p)
    \/ FlushFails(t) \/ FlushSync(t)
    \/ TakeLock(t) \/ CreateTemp(t) \/ WriteTemp(t) \/ WritePanics(t) \/ SyncTemp(t)
    \/ Rename(t) \/ SyncDir(t) \/ Reopen(t) \/ SwapFails(t) \/ Clear(t) \/ ClearPanics(t)

Next ==
    \/ Open \/ Kill \/ Crash
    \/ \E r \in Row : Insert(r)
    \/ \E p \in Page : Load(p) \/ Evict(p)
    \/ \E t \in Threads : Step(t)

Spec == Init /\ [][Next]_vars

-----------------------------------------------------------------------------
(* Properties.                                                                *)

Bodies == [gen : Gens, rows : SUBSET Row] \cup {None}

TypeOK ==
    /\ cached \in [Inode -> [Page -> Bodies]] /\ durable \in [Inode -> [Page -> Bodies]]
    /\ main \in perhaps /\ perhaps \subseteq Inode /\ handle \in Inode
    /\ temp \in (Inode \ ({handle} \cup perhaps)) \cup {None}
    /\ frame \in [Page -> Bodies] /\ dirty \subseteq {p \in Page : frame[p] # None}
    /\ lock \in Threads \cup {None}
    /\ inserted \subseteq Row /\ saved \subseteq Row

(* Whatever fails, and whenever the process or the machine stops, the rows    *)
(* that a flush_all, close or vacuum has answered Ok for are in the file that *)
(* the next open finds.                                                       *)
SavedRowsSurvive == ~running => saved \subseteq RowsIn(cached[main])

(* Once create has returned Ok, the path names a file with all pages of one   *)
(* layout, now and after a crash: never a half-written one, never a mixture.  *)
FileIsWhole ==
    founded => /\ Whole(cached[main])
               /\ \A i \in perhaps : Whole(cached[i]) /\ Whole(durable[i])

(* While the process lives, an inserted row is found, vacuum or not: frames   *)
(* and file are of one layout, whoever flushed, evicted or failed meanwhile.  *)
InsertedRowsFound == running /\ lock = None /\ ~poisoned => inserted \subseteq RowsIn(Fetched)

(* The file and the pool together behave as a table that is saved and         *)
(* restarted: no row is lost but unsaved ones at a restart, and none appears. *)
Durable == INSTANCE DurableTable WITH rows <- IF running THEN inserted ELSE RowsIn(cached[main])
ImplementsDurableTable == Durable!Spec
=============================================================================
