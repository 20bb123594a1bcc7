# A TLA+ model of rust-db

rust-db is a small storage engine: a B+tree of rows in 4 KiB pages, a buffer
pool that caches the pages of one file, a table on top with a free list of
pages, and a REPL. Several threads may share one table: `Table` takes `&self`
everywhere and the tests in `src/table/tests.rs` run it from several threads.
This directory holds the model of it: what each part promises, how the code
keeps the promise, what TLC checks on small instances and what TLAPS proves for
all of them. Paths below are relative to the repository.

## 1. Inventory

| Component | State | Operations | Talks to |
|---|---|---|---|
| Buffer pool (`src/bpm/manager.rs`, `frame.rs`, `guards.rs`) | per frame: latch (`RwLock<Option<Page>>`), `pin_count`, `dirty`, `referenced`; under one mutex (`big_dumb_lock`): page table, free frames, evictor | `fetch_read`, `fetch_write`, `new_page`, guard drop, `deref_mut`, `flush_all`, `swap_file`, `close`, `drop` | evictor and disk manager, called with the mutex held; callers through guards |
| Eviction (`src/bpm/eviction.rs`) | the clock hand | `find_victim` of `ClockEvictor` and `Replacer` | reads the frames' atomics, which guards and `flush_all` change without the mutex |
| B+tree (`src/btree`) | none of its own: pages and the meta page | `insert`, `delete`, `get`, `get_range`, `get_all` | pages through guards; `allocate`, `free`, `root_id`, `set_root_id` of the table |
| Page contents (`src/page`) | rows, separators and children, sibling links, the free-list link, the meta page | search, insert, remove, split, merge, borrow, free list, size tests | pure |
| Page encoding (`src/page/codec.rs`) | bytes | serialise, deserialise with corruption checks | pure |
| Table (`src/table/mod.rs`) | the meta page: root id, `page_count`, free-list head | `create`, `open`, `allocate`, `free`, `vacuum`, `check_space_accounting`, row operations | B+tree and pool |
| Disk manager (`src/disk/mod.rs`) | the file and its handle | `read_page`, `write_page`, `sync`, `swap_file` | the operating system |
| Schema and keys (`src/schema`, `src/types`) | columns | validate, encode, compare | pure |
| REPL (`src/bin/repl.rs`) | none | one thread of text in and out | table |

What makes each of them correct, and what makes that hard:

* **Pool.** A guard keeps its page until it is dropped; a cached page is never
  older than the file's; `flush_all` and `close` leave everything in the file.
  Hard because three kinds of code touch a frame under different protection:
  fetches under the mutex, guards under the frame's latch, and `flush_all` under
  the latch but with neither pin nor mutex. Pins are released with no lock, and
  the read from the file and the eviction happen before a frame is filled.
* **Eviction.** `None` means that every frame is pinned, and an idle frame is
  found in the end. Hard because the sweep reads atomics one by one while they
  change.
* **B+tree.** Concurrent calls look like operations on one map; between calls
  every row is where a search for it ends, no page is underfull, the leaf chain
  is that of the tree. Hard because a split or a merge touches up to three
  levels and a neighbouring leaf, latched one at a time; because ancestors are
  released early; because a join with the left sibling drops the page and takes
  it again; and because the root id is read before the root is latched.
* **Table.** Every page is in the tree or on the free list, exactly once. Hard
  because a page number is taken and given back under the meta page's latch
  while tree latches are held, in both orders.
* **Page encoding.** What fits by `free_space` is written without cells and slots
  meeting, and read back the same. Hard because the header grows when a leaf gets
  neighbours, after the rows were put in.
* **Disk, vacuum.** Saved rows are in the file the next start finds, whichever
  step fails or is the last; while the process lives, frames and file are of one
  layout. Hard because the swap is a sequence of system calls, each durable at its
  own time, because `flush_all` and evictions write beside it, and because vacuum
  keeps nobody out.

`PROJECT.json` lists the hazards one by one with their lines and the properties
that cover them, and says of the uncovered ones why.

## 2. Modules

    PageStore  <-- implements --  BufferPool  <-- contract of --  ClockSweep
        |
        | what BTree builds on
        v
    BTree  -- implements -->  KVMap          TableFile  -- implements -->  DurableTable
      | EXTENDS                              (the same table, seen from its file)
    BulkLoad, PageCodec, PageOps

The proofs (section 5) are in modules of their own:

| Module | About | EXTENDS |
|---|---|---|
| `BufferPoolProofs` | pins, latches, page table | BufferPool |
| `BufferPoolFlushProofs` | what is written back, and when; the pool implements PageStore | BufferPoolProofs |
| `ClockSweepProofs` | `find_victim` | ClockSweep |
| `TableFileProofs` | calls in progress, types; files, crashes, DurableTable | TableFile |
| `BTreeLatchProofs` | the latch discipline | BTree |
| `PageProofs` | layout, split, borrow | PageCodec |
| `PageChangeProofs` | what every operation on pages, and the bulk load, leaves | BulkLoad, PageProofs |
| `BTreePageProofs` | the pages of the tree under all interleavings | BTreeLatchProofs, PageChangeProofs |

`PageStore`, `KVMap` and `DurableTable` are abstract specifications: what the pool
promises the tree, what the tree promises its callers, and what the table's file
promises across restarts. Every `MC_*` module instantiates
a component for TLC and holds nothing but constants. Definitions called
`Bug_...` stand next to the definition in which they would be a plausible
mistake; no behaviour uses them. They document what each property is able to
notice.

### PageStore

A map from page ids to versions and one readers-writer lock per page, as
`fetch_read`, `fetch_write`, `new_page` and the guards look to the tree. The
content of a page is a version number that each `deref_mut` increments: enough
to tell a lost or resurrected update from a good one.

### BufferPool

A *client* is the life of one guard from fetch to drop (a thread that holds two
guards is two clients), a *flusher* is one call of `flush_all`.

| Code | Action |
|---|---|
| `fetch_*` / `checkout_page`, page cached | `FetchHit`: mutex, lookup, pin, unlock, one step, as nothing else looks at the page table |
| `load_page` | `FetchMiss` (mutex taken, file read), `ClaimFree` / `Evict` / `NoFreeFrames` / `EvictIoError` (`claim_frame`), `Fill` / `FillPanic` (the `try_write().expect`) |
| `new_page` | `NewPage`, the same `claim_frame`, `Fill` |
| waiting for the frame's latch | `LatchRead`, `LatchWrite`, `WrongPage` |
| `deref_mut` | `Mutate` |
| guard drop | `DropLatch` then `Unpin`: two steps, in the order `guards.rs` takes pains over |
| `flush_all`, `close` | `FlushBegin` or `Close`, then `FlushLatch` / `FlushFrame` or `FlushIoError` per frame, `FlushSync` |
| mutex poisoned by a panic | `EnterPoisoned` |

`flush_all` writes a frame and clears its bit in one step: it holds the frame's
read latch all the while, and whoever reads the bit to decide anything
(`claim_frame`) or sets it has the write latch. The lock is modelled as held from
the miss to the fill, so that flushers and guard drops interleave with every
part of a load. The file is a function from slots to pages. A slot depends on
the page *number* only, as in `FileDisk::read_page`, so two tables behind one
pool can meet in a slot (run `pool_live`). The evictor is taken at its
contract: any unpinned frame, or none when all are pinned.

### ClockSweep

`find_victim` of both policies with one step per atomic access, against guards
that are dropped, frames that are dirtied and `flush_all` clearing bits. It
checks the contract that BufferPool assumes.

### PageOps, PageCodec, BulkLoad, BTree, KVMap

`PageOps` has the pages and their operations as pure operators. A leaf is the
sequence of its keys, an internal page has separators and children, and bytes
are kept as sizes: every threshold of `src/page/mod.rs`, the split point and the
bulk borrow are computed from `PAGE_SIZE`, `RowSize` and `KeySize`, with the
code's own sizes of headers, slots and page ids. `PageCodec` is the layout of a
page in its bytes: a page is written as a sequence of writes with their places and
lengths, and read back as `Page::deserialize` does, a value being intact if no
later write touched it. `BulkLoad` is the tree vacuum writes: rows, in the order
its scan has read them, packed into leaves, and leaves into levels (`Pack` puts an
item on the last page or starts another). A scan beside writers might read a key
twice; then `leaf_insert` or `internal_insert` refuses it (`Loads` is false) and
vacuum returns the error.

`BTree` runs the calls of several threads over it, one latch acquisition a step.
The pool is taken at `PageStore`'s promise, with the meta page as one more
latched page. A thread's program counter names the latch it waits for; the
guards it holds are in `writer` and `readers`, its `ancestors` vector is
`stack`.

| Code | Actions |
|---|---|
| `get_root_read`, `get_root_write` | `ReadRootId`, `LatchRoot`, `CheckRoot` |
| descent of `insert`, `delete`, `get`, `get_range` | `Descend`, `LatchChild` with `StopsHere` and `DropsAbove` for the release of ancestors |
| `get`, `get_range` on the leaves | `Get`; `Collect`, `LatchChild`, `EndScan` |
| `insert`, `split_and_insert` | `InsertDuplicate`, `InsertFits`, `InsertSplits`, `SplitLeaf`, `Relink`, `Place`, `InsertSeparator`, `ParentFull`, `SplitInternal`, `NoParent`, `NewRoot` |
| `Table::allocate` | `AllocNew`, `AllocHead`, `AllocPop` |
| `Table::vacuum` | `Collect` (its `get_all`), `VacuumBuilds`, `SwapFile`, or `SwapPanics` when the assertion on pinned frames fails; `FetchPoisoned` for every fetch after that |
| a fetch beyond the shortened file | `RootGone` |
| `delete`, `rebalance` | `DeleteNothing`, `DeleteRow`, `Balanced`, `JoinRight`, `JoinLeft`, `LatchLeft`, `LatchRight`, `Merge`, `Unlink`, `FreeRight`, `Borrow`, `Shrink`, `SetRoot`, `FreeRoot` |

`Table::free` is `FreeRight` and `FreeRoot`. An `Err` after a page was changed is
the answer "error", and a failing `expect` ends the thread in "panicked". `must`
and `may` are history variables for scans. `get_range` has no upper bound here:
the bound only ends the loop early. The row filter is left out for the same reason. Every test that the code makes on the way is there, also those that
are true as long as the tree is one: a leaf where the code expects a leaf
(`Answers`, `Panics`), a sibling in order, a separator in the parent (`Fails`).
Where findings 2 to 5 have damaged a tree, these are what a call meets. `KVMap`
answers insert, delete and get atomically on a set of keys;
`ImplementsKVMap` maps its `map` to the keys on all leaves. A call that begins
forgets the thread's last answer, in both, so that the same answer twice is two steps
of `KVMap` and not one. `PagesReadBack` says of
every page a step changes that it may be written at once and read back the same.
`PagesInHandStay` says that nobody else changes a page a call has read and still
counts on: its path, the two siblings it balances, the page it splits.
`DroppedPageStays` says the same of the one page a call counts on without a latch,
the page `rebalance` drops to latch its left sibling first.

### TableFile, DurableTable

`TableFile` is the same table from below: what of it is where. A page is a set of
rows and the generation of the layout it belongs to; each vacuum starts a new
generation, in which rows are on other pages (`Home`). Every file has its cached
and its durable pages, `main` is the file the path names, `perhaps` those it may
name after a crash of the machine, `handle` the one `FileDisk` has open.

| Code | Actions |
|---|---|
| the start of the REPL: `FileDisk::new`, `Table::open` or `create` | `Open`, `Create` |
| inserts, reads, evictions | `Insert` (one step), `Load`, `Evict` |
| `flush_all`, `close`, `drop` | `Begin`, `FlushFrame` page by page, `FlushSync`; `FlushFails`, after which `close` goes on with `drop` |
| `Table::vacuum`, `BufferPoolManager::swap_file` | `Begin` (scan), flush, `TakeLock`, the steps of the file, `Clear`, or `ClearPanics` when a reader has pinned a frame |
| `FileDisk::swap_file` | `CreateTemp`, `WriteTemp` or `WritePanics`, `SyncTemp`, `Rename`, `SyncDir`, `Reopen`; `SwapFails` at each of them |
| external | `Kill` (the process ends; the system's cache stays), `Crash` (of what is not synced any pages may be on the disk, of renames not synced any may have happened) |

The assertion in `swap_file` that no frame is pinned comes after the file has been
replaced. When it fails (`ClearPanics`), the mutex is poisoned and any of the old
file's frames stay over the new one for good: nobody fetches any more, but
`flush_all`, `close` and `drop` still go over them.

`DurableTable` is a set of rows of which some are saved: inserts add rows, saves
promise those present, a restart may lose only rows that were not saved.

## 3. Runs

| Run | Instance | What it shows |
|---|---|---|
| `pool` | 2 clients, 1 flusher, 3 pages (one not yet created), 2 frames | pins, page table, latches, dirty bits, `flush_all`, `close`, no version ever written over a newer one; the pool implements `PageStore` |
| `pool_live` | 1 frame, two tables (3 pages, two in one slot), fairness | whatever holds the mutex ends (`claim`, `fill`), and so do a wait to read, a guard's drop and `flush_all`, even after `WrongPage` has leaked pins; each such fetch leaks one pin for good and no other step does; a writer gets its latch, unless readers never cease |
| `pool_flushrace` | with a flusher | **violated**: the `expect` fires (finding 1) |
| `clock` | both policies, 3 frames, 1 pin a frame | the contract of `find_victim`, clean frames first, no frame cached for ever |
| `tree` | ten plans, below | the tree against the map; separators, chain, space and fill after every call; scans; pages that read back; no call changes a page another counts on; nobody panics but in the ways `NoPanic` names |
| `tree_live` | plan `root` with fairness | every call ends, whatever the root becomes meanwhile |
| `tree_window` | a get during the split of an internal root | **violated**: a present row is not found (finding 2) |
| `tree_staleroot` | a stale root id against `allocate` | **violated**: two calls wait for each other (finding 3) |
| `tree_largekeys` | separators of two sizes | **violated**: rows become unreachable (finding 4) |
| `tree_vacuum` | a vacuum and an insert | **violated**: an acknowledged row is lost (finding 5) |
| `files` | 2 threads, 2 rows, 3 pages, 3 generations, 2 files, kill, crash, errors up to the rename | saved rows survive, the file is whole, frames and file are of one layout; the file implements `DurableTable` |
| `files_error` | errors of the directory's sync | **violated**: saved rows are lost (finding 6) |

The plans of `tree`, each a set of first operations (the *prologue*, done by one
thread before anybody else moves) and a menu for each thread:

| Plan | What happens |
|---|---|
| `small` | 1 thread, any 5 inserts and deletes of 7 keys, from an empty tree and from one of 6 rows |
| `deep` | 1 thread, 4 deletes from a tree of three levels with a full internal page at either end: merges and borrows of internal pages |
| `pair` | 2 threads on three leaves of which one is full: it splits while its neighbours merge with it or borrow from it |
| `root` | 3 threads while the root is a leaf, then internal, then a leaf: the retry loop of `get_root_*` |
| `uneven` | 1 thread, rows and separators from the smallest to the largest |
| `mixed` | the same on the leaves a vacuum has filled |
| `packed` | 1 thread on the full pages of two and three levels a vacuum has written, and another vacuum |
| `readers` | a vacuum that moves the root, or shortens the file below the old one, among gets, scans and a second vacuum |
| `lonely` | 1 thread, 2 deletes around the page with a single child that a vacuum of 21 rows has written |
| `empty` | 1 thread, deletes and vacuums of two rows, and of none |

**Bounds and why they are enough.** Two frames and three pages are the least
with an eviction, a hit and a page that is created. With a single frame
(`pool_live`) every fetch waits for the same latch, evicts, or finds the only
frame pinned. Two guards and a flusher give every pair of the three kinds of code
that touch a frame. `MaxVersion = 2` gives a page an old and a new version, and
one more would add no comparison. `MaxPins = 3` bounds the pins of a frame, which
two guards reach only where `WrongPage` leaks some: in `pool` it never disables a
fetch.

`PAGE_SIZE = 141` instead of 4096 leaves 100 bytes for rows and 110 for
separators; headers, slots and page ids keep their sizes. A leaf of four of the
largest rows and an internal page of four of the largest separators are the
fewest that `MAX_LEAF_ENTRY_SIZE` and `MAX_INTERNAL_ENTRY_SIZE` (a quarter of a
page) allow, so splits, merges and borrows happen with single rows; in `uneven`
and `mixed` rows go down to the seven bytes of the smallest one. Larger
trees are built by prologues and are therefore trees the code itself builds.
`MaxPages = 13` never stops a call in `tree`: the same states are reached with 15
pages. `Budget` bounds the operations of a thread, and `MaxPins` in ClockSweep
the guards on a frame.

`files` has three layouts of two rows: both on one page, on two pages, and on two
pages the other way round, so that a page of one generation in the file of
another always loses or moves a row. Two files at once are all a vacuum needs;
files nobody can reach any more are reused. `MayFail` names the system calls that
may return an error. Errors after the rename are left to `files_error`.
`RenameSettles` assumes that the rename of a process that was killed is durable
when the next one starts; without it `SavedRowsSurvive` fails (section 6).
`FlushFrame` visits pages in their order. Evictions may write any page at any
moment, so a flush reaches every set of written pages.

`CHECK_DEADLOCK FALSE` is set where the system may stop: budgets are used up, a
pool is closed, rows or generations are used up, or `panicked` threads are all
that is left. `clock`, which has no such end, checks for deadlock. Client
symmetry is used in `pool`, and that of files and threads in `files`: they are
interchangeable in Init, Next and the properties, which there are all safety
properties.

**Fairness.** Each thread keeps running (weak fairness of the steps that never
wait), and a thread that waits for a latch gets it if it is free again and again
(strong fairness). std's `RwLock` documents no order among waiters; strong
fairness stands for its implementation, which queues and wakes waiters. It does
not follow that a writer overtakes an endless stream of readers, and
`WriterGetsLatch` excludes that case in its statement. No fairness makes a client
start a call, change a page, fail or flush. In BTree the fairness is per thread
(`SF_vars(Resume(t))`): at each moment a thread waits at one place. `tree_staleroot`
uses the same assumption, and its counterexample is a state in which
neither thread can move at all.

**Single-threaded plans** are worth their time because the algorithms, not the
interleavings, are at stake there: the split point, the thresholds, the separators
and the layout after hundreds of thousands of sequences.

## 4. Findings

1. `flush_all` latches frames with neither pin nor mutex, so it can hold the
   latch of the frame `load_page` or `new_page` has just claimed; their
   `try_write().expect("unpinned, unmapped frame has no readers")`
   (`manager.rs:64`, `200`) panics and poisons the mutex of the pool.
   `Table::create` calls `flush_all` on a live pool.
2. `split_and_insert` releases both halves of an internal root it has split
   before the new root is allocated and published (`tree.rs:134-157`, `122-128`).
   A search in this window begins at the left half, passes the second check of the
   root id and misses the right half.
3. A call that latched a page whose id was the root's and that has since been
   freed goes on to read the meta page. `allocate` holds the meta page while it
   waits for that page, by now the head of the free list. Both wait for ever.
4. `bulk_borrow` moves the rows before `internal_replace_key` finds that the
   parent has no room for a larger separator; `delete` returns an error and the
   moved rows are behind the wrong separator.
5. `vacuum` keeps no writer out between its scan and the swap of the file: an
   insert or a delete that returned Ok in between is undone.
6. An error of `swap_file` after the rename leaves the handle on the file the path
   no longer names. vacuum returns the error, everything after it returns Ok, and
   is gone with the process. For a database path without a directory part
   (`repl foo.db`) this is what happens: its parent is the empty path, and
   `File::open("")` fails.

The passing runs stay clear of these: `pair` and `root` have no full internal
root; the menu of `root` does not let a freed root be allocated again while a
stale reader waits; separators that differ in size meet a full parent only in
`tree_largekeys`; vacuum has readers but no writers beside it in `readers`, and no
inserts beside it in `files`; and `pool` lets the panic of finding 1 happen and
checks that nothing else breaks.

Also seen, and no violation runs. Passing runs reach the first three, and their
properties say exactly when they happen:

* `fetch_read` and `fetch_write` return `WrongPage` after `pin_frame`, before the
  guard that unpins exists. The comment at `manager.rs:90` and `113`, "no need for an
  explicit unpin call since the guard will drop here on error", is wrong: the guard
  dropped is the raw latch guard, and the pin is never given back. It takes pages
  of two tables in one slot of the file, since `FileDisk` places a page by its number
  alone. `pool` has one table and `PinsMatchGuards`; `pool_live` has two and
  `OnlyWrongPageKeepsAPin`: one pin for each such fetch, none from any other step, and
  a frame that is never evicted again. Its calls end all the same. The proofs assume
  `OneTable`.
* vacuum may start the last page of a level for a single child, a page without a
  separator (`table/mod.rs:175-186`). With four rows a leaf and five children an
  internal page, 21 rows do so (plan `lonely`), and the next delete below that page
  that needs a sibling panics at `tree.rs:261`, "non-root has a sibling".
* vacuum of an empty table (plan `empty`) panics at `first_key` (`table/mod.rs:197`),
  "has first row".
* A process killed between the rename and the directory's sync leaves a rename
  that a later crash of the machine may undo, with all that the next process has
  saved: `FileDisk::new` does not sync the directory.

`NoPanic` allows for the second and the third by name, only where there has been a
vacuum, and for one more: `swap_file` asserts under the mutex that no frame is pinned,
which any other thread in a call makes false (`SwapPanics`). The mutex is then
poisoned, and what `readers` shows is that nobody gets a wrong answer after it.
Without the exception for a single child, or the one for no rows, `tree` fails.

## 5. Proofs

TLAPS proves the following for every value of the constants that meets the named
assumptions below. Where a theorem states a property of section 3, the run shows
it on the instance, with a mutant of the code that breaks it.

**Pool**, for any number of clients, flushers, pages and frames, under `OneTable`
(no two page ids share a slot of the file, which is what a file with a single table
means; without it `WrongPage` refutes `PinsMatchGuards`):

| Theorem | Property |
|---|---|
| `TypeCorrect` | `TypeOK` |
| `PageTableCorrect` | `MappedFrameHoldsItsPage` |
| `GuardsKeepTheirPages` | `GuardKeepsItsPage` |
| `PinsBalance` | `PinsMatchGuards` |
| `LatchesInsidePins` | `LatchInsidePin` |
| `CleanFramesAreSaved` | `CleanFrameMatchesDisk` |
| `FileNeverRegresses` | `DiskNeverRegresses` |
| `FlushSavesWhatItFound` | `FlushCoversItsStart` |
| `CloseSavesEverything` | `CloseLeavesNothingDirty` |
| `PoolImplementsPageStore` | `ImplementsPageStore` |

The first six follow from `Invariance`, `Spec => []Inv`. `Inv` strengthens them to
something inductive:

* `LockInv`: the client between its miss and its fill holds the mutex, so there
  is at most one, and a panic leaves the mutex unheld.
* `LocalsInv`: the page in the buffer is the one wanted and is mapped nowhere; a
  claimed frame is neither free nor mapped, and does not hold the wanted page.
* `DiskInv`, `FrameInv`: a slot of the file holds only a page that belongs there;
  a frame that holds a page is mapped by it, unless it is the claimed one; free
  frames are empty.
* `LatchInv`: who holds which latch, read off the program counters, with
  readers and a writer excluding each other.
* `CleanInv`: besides `CleanFrameMatchesDisk`, what `load_page` has read is still
  what the file holds. This is the heart of it: `FlushFrame` and `Evict` may write
  the file between the read and the fill, and only `FrameInv` and `OneTable` say
  that they write other slots.

The next three follow from `WriteInvariance`, `Spec => []WriteInv`, which adds what
write-back relies on:

* `StoredInv`: the file is never ahead of a cached page; a page that an eviction
  has unmapped and that is still in its frame is in the file as it is; a page about
  to be created is not in the file. `VersionInv` tells created pages from others.
* `CoverInv`: a version `flush_all` found when it began is in the file, or in a
  dirty frame it has still to visit. An eviction in between may move a page out of
  reach of the sweep, but not without writing it, and a page loaded into a frame
  already visited comes from the file.
* `CloseInv`: from the call of `close` on there is no guard, so frames it has
  visited stay clean.

The refinement maps PageStore's pages to `Current(p)`, the version in the frame that
caches the page or else in the file, and its guards to the clients that hold one.
Every step keeps both, `Mutate` and the steps that give or return a guard apart;
eviction and load are stutters because of `StoredInv` and `CleanInv`.

There is one lemma per action (`<Action>_Inv`) with one step per conjunct the
action can disturb. The pin count is a cardinality, so `SameUsers`, `UserAdded`
and `UserRemoved` state once how `Using(f)` and its cardinality change.

**Eviction**, for both policies, any number of frames and of pins, with no
assumption beyond that frames exist:

| Theorem | Property |
|---|---|
| `SweepTypeCorrect` | `TypeOK` |
| `VictimsAreUnpinned` | `VictimIsUnpinned` |
| `GivesUpOnlyIfAllPinned` | `NoneMeansAllWerePinned` |
| `CleanFramesGoFirst` | `CleanFirst` |

`SweepInv` says what is left of the state in which the sweep began (`StartInv`:
under the mutex nobody pins a frame, so unpinned frames stay so, quiet ones stay
unreferenced, clean ones clean), what is known of the frame in view between two of
its atomics (`LookInv`), and what a pass has done (`PassInv`: the frames the first
pass has gone by are pinned or have lost their reference bit, and none of them was
both idle and clean). It is `PassInv` that makes two passes enough wherever the hand
stood.

**Table file**, for any number of threads, rows, pages, files and layouts:

| Theorem | Property | Under |
|---|---|---|
| `TableFileTypeCorrect` | `TypeOK` | |
| `FilesStayWhole` | `FileIsWhole` | |
| `InsertedRowsAreFound` | `InsertedRowsFound` | |
| `SavedRowsAreKept` | `SavedRowsSurvive` | `Reliable` |
| `TableImplementsDurableTable` | `ImplementsDurableTable` | `Reliable` |

`CallInv` is about the calls in progress: whoever is in `swap_file` is one vacuum and
holds the mutex, `close` is alone, and a process that does not run has nothing in
memory. `PoisonInv` says that nobody is in `swap_file` with the mutex poisoned, and
that it is when frames of an old file have stayed. `SwapInv` adds, for every step of the swap and whatever fails:

* `FileInv`: every file that path or handle can reach is of one layout, what is
  durable of it is not ahead of what is cached, and it is whole or create's.
* `WholeInv`: from create's return on, and as soon as the path may name two files,
  what is durable of every such file is whole. It is why vacuum syncs its file
  before the rename.
* `NameInv`, `RowInv` (under `Reliable`): which file path and handle name, and that
  saved rows are durable in each file a crash may leave, none of which has others
  than inserted rows.
* `FrameInv`: frames are of the layout of the handle's file, but from the new handle
  until the frames are cleared, which after a panic they never are (`Stale`); a clean
  frame is as in the file.
* `ThreadInv`: what each flush has still to write, what a vacuum has scanned and
  flushed, what is in its new file.

`Reliable` is the weakest assumption found: no error of the directory's sync or of
the reopen after the rename (with either, finding 6), and `RenameSettles` (without
it, the last item of "Also seen"). TLC refutes `SavedRowsSurvive` without the one or
the other. The three theorems without `Reliable` hold in those states as well.

**Latches of the tree**, for any threads, pages, plans and row sizes: `HandsAreKept`
proves `PagesInHandStay`. `LatchDiscipline` proves the `LatchInv` it follows from:
no page has a writer and readers; every page a call has in hand is latched by it in
its mode; a path never names a page twice, and siblings, parent and path are
different pages (`IsPath`, `Apart`). Without the last part dropping one page could
drop the latch that another entry of the path relies on. A page not in hand need
not be what it was: that is where findings 2 to 4 are.

**The pages of the tree**, for any threads, pages, plans and row sizes, in every
reachable state, those of the findings included:

| Theorem | Property |
|---|---|
| `TypesHold` | `TypeOK` |
| `WrittenPagesReadBack` | `PagesReadBack` |

Both follow from `PagesWellFormed`, `Spec => []PageInv`. `PageInv` has

* `TableOK`: every page passes `check_invariants` (`GoodPage`: keys in order, room to
  spare, a child more than separators), its children and neighbours are pages of the
  table, and the free list stays below `page_count`. A page of the tree may still
  name one that a vacuum has cut off.
* `CallOK` of each thread, what it knows between two latches: it was called with a
  key where it uses one (`Asked`); its path is of internal pages, with the place it
  went down (`PathOK`); what is full is still full while a page is allocated for the
  other half (`FullOK`, which `SplitKeepsPages` needs); the pair it joins and their
  parent, with the page it will free (`JoinOK`); the rows vacuum will write
  (`SwapOK`).

That a thread's own knowledge is right after its own step is what the theorems on
pages below say, one operation at a time. That it stays right when others step is
`OtherCallStays`: it is all about pages the thread has in hand, and `LatchStep`, from
which `HandsAreKept` follows too, says that nobody else changes these. That is also why the
invariant is not inductive without `LatchInv`. It says nothing of the shape of the
tree, so findings 2 to 5 do not refute it: a tree they have damaged has lost rows or
pages, but each page of it is sound and no later call makes one that is not.

**Pages**, for every page size and all sizes of rows and keys within the code's
limits (`SizeAssumption`), and pages of any length:

| Theorem | What it says |
|---|---|
| `FittingPagesReadBack` | a page that passes `check_invariants` is written without cells and slots meeting, and `deserialize` returns it |
| `LeafSplitLeavesRoom` | a leaf a row does not fit in can be split; both halves take the row, read back and are far enough from empty; the separator is between them |
| `InternalSplitLeavesRoom` | the same of an internal page and a separator, each half keeping one |
| `UnderfullLeavesCanBorrow` | an underfull leaf that cannot merge with its neighbour, left or right, can borrow; afterwards both pass the checks, read back, and the new separator is between them |
| `RowInserted`, `SeparatorInserted`, `RowRemoved`, `SeparatorRemoved`, `KeyReplaced` | a change of one entry that its own tests admit turns a `GoodPage` into one, with no links but the old ones and the new child |
| `Merged` | so does a merge that `can_merge_with` and the order of the keys admit |
| `SplitKeepsPages`, `BorrowKeepsPages` | so do a split and a borrow, for leaves and internal pages, either side giving; the separator is a key of the pages |
| `RowsFound` | an insert or a removal on a leaf changes its rows by that one |
| `SplitKeepsSearches`, `MergeKeepsSearches`, `BorrowKeepsSearches` | a search guided by the separator ends, before and after, at the same row or child; the new separator parts the keys of the two pages |
| `InsertReroutes`, `RemoveReroutes`, `ReplaceReroutes` | what the parent's change makes of `find_child`, for every key: only the keys of the two children beside the separator may move, and they part at it |
| `BulkLoadMakesPages` | vacuum builds such pages from any rows without duplicates; their links stay among them, and the root is one of them |

The hypotheses of the first four are the states in which `split_and_insert` and
`rebalance` come to these functions: the page passes `check_invariants`, its keys increase, the row does
not fit, or `can_merge_with` is false. They are arithmetic about sums of
entry sizes, which the model defines as recursive functions. `SetInduction` (a set
of numbers with 0 and each successor is all of `Nat`, from the well-foundedness of
`<` and without an operator parameter) gives `SumStep` and `SumsRise`; a part of a
page has the difference of two sums (`PartSize`), and the split point is
where the sums pass one half, missed by at most the largest entry, a quarter of a
page (`SplitPoint`, `SplitSizes`). The borrow is stated on the two sequences of
sizes alone: the loop of `bulk_borrow` stops, at a place where both pages fit and
neither is nearly empty. On internal pages the separator that comes down may be
larger than the one that goes up; `BorrowedWhen` shows that each page has room
all the same, the one because every move was tested, the other because it only
gives. `BulkLoadMakesPages` is two inductions of the same kind over recursive
functions: one over the items packed, one over the levels, each a set of good pages
whose links are numbers of pages below.

The theorems on searches fit together: after a split, `InsertReroutes` sends a key of
the split child to the half that `SplitKeepsSearches` says has what the child had;
after a merge or a borrow, `RemoveReroutes` or `ReplaceReroutes` does it with the
other two. `CutOfPairFinds` is what they share: two neighbours and the separator are
one sequence of keys (`Pool`), and wherever it is cut, a search beside the cut finds
what it finds on the whole. For two leaves they assume that the separator parts the
keys (`Separates`), which the code never tests; a page change that keeps to its parent's
change keeps it true. Finding 4 is a borrow whose `internal_replace_key` fails: the
pages change and the parent does not. This is the part of `EveryRowFound` that is about
two pages and their parent; that the steps of all threads put it together for the
whole tree is model-checked.

**Assumptions on constants**, each next to the constants it is about and evaluated
by TLC in every run of its component:

| Assumption | Says |
|---|---|
| `PoolSizeAssumption`, `SweepAssumption` | there is a frame, as `BufferPoolManager::new` asserts |
| `OffsetAssumption`, `InitialAssumption` | every page id has a slot, initial pages do not share one |
| `ActorAssumption` | clients are finitely many, no flusher is one; the bounds are positive |
| `GuardAssumption`, `NoneAssumption`, `NilAssumption`, `ThreadAssumption` | the value for "none" is none of the values it stands beside, which is `Option` in the code |
| `LayoutAssumption` | every layout puts each row on a page |
| `SizeAssumption` | rows and keys are not smaller than their encodings nor larger than `MAX_LEAF_ENTRY_SIZE`, `MAX_INTERNAL_ENTRY_SIZE`; a row is longer than its key; a page has room for a header |
| `PlanAssumption` | prologues and menus are made of calls of `Table`'s methods |

**Only model-checked:**

* The properties of the whole tree: `EveryRowFound`, `SpaceAccounted`,
  `LeafChainMatchesTree`, `NoPageTooEmpty`, `NoPanic`, `ScanIsConsistent`,
  `ReachedPageInUse` and `ImplementsKVMap`. For arbitrary plans the findings refute
  them, some only in company: two inserts that split the same root in the window of
  finding 2 both make a new root, one page has then two parents and another
  none; and a vacuum may swap the file while an insert
  holds no guard and is about to allocate the new root. A theorem would have to
  name the plans that are clear of them, and its invariant is an induction over the
  shape of the tree (`InTree`, `FreeList` are recursive), which the prover cannot do.
* `DroppedPageStays`: nothing latches the page meanwhile. It stays because whoever
  would change it needs its parent or a neighbour first, which is again the shape of
  the tree.
* All liveness, as fairness and ENABLED are beyond the prover.

## 6. Not modelled, and why

* **Writers beside vacuum** in TableFile: they are in BTree, which shows that they
  lose rows. A writer that holds a guard when `swap_file` panics would add to it: it
  dirties a page of the old file, which a later `flush_all` or `close` writes into the
  new one. With readers only the frames that stay are clean (`ClearPanics`).
* **Fetches that fail inside the tree** (I/O errors, `NoFreeFrames`): BTree has
  PageStore's unlimited frames. BufferPool has these errors.
* **A crash between the pages of one call**, a split for instance: the code has no
  log and claims no recovery. TableFile's rows are inserted in one step on one page.
* **Pages the system drops after a failed sync**: a failed `sync_all` in TableFile
  keeps what was written for the next one.
* **A rename undone two processes later**: excluded by `RenameSettles`, see above.
* **Two creators of one table**, and a create that a crash interrupts: TableFile has
  one creator, and promises nothing before create has returned.
* **The bytes of values, the checksum, the meta page's encoding, schema, REPL
  commands**: pure conversions and text, see `PROJECT.json`.
* **Page and LSN counters that overflow** (`u32`, `u64`): `page_count` would
  need 2^32 pages of 4 KiB; LSNs are stored and never compared.
* **Relaxed memory order**: the atomics that decide anything are read under the
  mutex or the latch; ClockSweep's hints are single loads, interleaved.

## 7. Plan

Done: PageStore, BufferPool, ClockSweep, PageOps, PageCodec, BulkLoad, BTree, KVMap,
TableFile, DurableTable; the proofs of section 5, which state every safety property
and refinement of the pool, the eviction and the table's file, and of the tree what
does not depend on its shape. What could follow, in this order:

1. **`DroppedPageStays`** from an invariant that ties a page's latch to its
   parent's and its neighbours', which the proof would share with `ReachedPageInUse`,
   for plans without finding 2 and without vacuum.
2. **BTree with failing fetches**: `allocate` and `split_and_insert` when
   `new_page` or `fetch_write` returns an error; `SpaceAccounted` and
   `EveryRowFound` say what is lost.
3. **Two creators** of a table over BufferPool.
