---------------------------- MODULE TableFileProofs ----------------------------
(* What TableFile keeps through errors, killed processes and crashes, proved  *)
(* for any number of threads, files, pages, rows and generations.  Whatever   *)
(* may fail, types are correct, the file vacuum writes is never one the path  *)
(* or the handle may name, a dirty page is in a frame, the file stays whole   *)
(* and inserted rows are found; and, if what follows vacuum's rename does not *)
(* fail, saved rows survive and the table implements DurableTable.            *)
EXTENDS TableFile, TLAPS

Pcs == {"idle", "flush", "lock", "create", "write", "sync", "rename", "dirsync", "reopen",
        "clear", "panicked", "asserted"}
Jobs == {"none", "create", "flush", "close", "drop", "vacuum"}

Swapping(t) == pc[t] \in {"create", "write", "sync", "rename", "dirsync", "reopen", "clear"}

CallsType ==
    /\ pc \in [Threads -> Pcs] /\ job \in [Threads -> Jobs]
    /\ todo \in [Threads -> SUBSET Page] /\ scanned \in [Threads -> SUBSET Row]
    /\ gen \in [Threads -> Gens]
    /\ running \in BOOLEAN /\ founded \in BOOLEAN

(* Calls: swap_file belongs to vacuum and holds big_dumb_lock, and a call     *)
(* that owns the pool is alone.                                               *)
CallsInv ==
    /\ \A t \in Threads :
          /\ pc[t] = "idle" <=> job[t] = "none"
          /\ pc[t] \notin {"idle", "flush"} => job[t] = "vacuum"
          /\ lock = t <=> Swapping(t)
          /\ pc[t] \in {"write", "sync", "rename"} => temp # None
          /\ job[t] \in {"close", "drop"} =>
                \A u \in Threads \ {t} : pc[u] \in {"idle", "panicked", "asserted"}
    /\ ~running => /\ frame = Empty /\ dirty = {} /\ handle = main /\ inserted = {}
                   /\ \A t \in Threads : pc[t] = "idle"

CallInv == TypeOK /\ CallsType /\ CallsInv

-----------------------------------------------------------------------------
(* Pages and files.                                                           *)

LEMMA PageFacts == Meta \in Page /\ Root \in Page /\ Meta # Root
BY LayoutAssumption DEF Meta, Root

LEMMA Bodily ==
    ASSUME NEW b \in Bodies, b # None
    PROVE  /\ b \in [gen : Gens, rows : SUBSET Row]
           /\ b.gen \in Gens /\ b.rows \subseteq Row
           /\ b = Body(b.gen, b.rows)
BY DEF Bodies, Body

LEMMA BodyType ==
    ASSUME NEW g \in Gens, NEW R \in SUBSET Row
    PROVE  Body(g, R) \in Bodies /\ Body(g, R) # None
BY NoneAssumption DEF Bodies, Body

LEMMA LayoutType ==
    ASSUME NEW g \in Gens, NEW R \in SUBSET Row
    PROVE  Layout(g, R) \in [Page -> Bodies]
<1>1. \A p \in Page : {r \in R : Home[g][r] = p} \in SUBSET Row
  OBVIOUS
<1>2. \A p \in Page : Body(g, {r \in R : Home[g][r] = p}) \in Bodies
  BY <1>1, BodyType
<1>3. None \in Bodies
  BY DEF Bodies
<1> QED BY <1>2, <1>3 DEF Layout

LEMMA EmptyType == Empty \in [Page -> Bodies] /\ \A p \in Page : Empty[p] = None
BY DEF Empty, Bodies

LEMMA FetchedType == ASSUME TypeOK PROVE Fetched \in [Page -> Bodies]
BY DEF Fetched, TypeOK

LEMMA RowsInType == ASSUME NEW c PROVE RowsIn(c) \subseteq Row
BY DEF RowsIn

LEMMA WrittenType ==
    ASSUME TypeOK, NEW p \in Page
    PROVE  /\ Written(p) \in [Inode -> [Page -> Bodies]]
           /\ \A i \in Inode : \A q \in Page :
                Written(p)[i][q] = IF i = handle /\ q = p THEN frame[p] ELSE cached[i][q]
<1>1. handle \in Inode /\ frame[p] \in Bodies /\ cached \in [Inode -> [Page -> Bodies]]
  BY DEF TypeOK
<1>2. [cached[handle] EXCEPT ![p] = frame[p]] \in [Page -> Bodies]
  BY <1>1
<1> QED BY <1>1, <1>2 DEF Written

LEMMA SyncedType ==
    ASSUME TypeOK, NEW i \in Inode
    PROVE  Synced(i) \in [Inode -> [Page -> Bodies]]
BY DEF Synced, TypeOK

(* A thread that holds the lock is alone in swap_file.                        *)
LEMMA OneSwap ==
    ASSUME CallInv, NEW t \in Threads, NEW u \in Threads, Swapping(t), Swapping(u)
    PROVE  t = u
BY DEF CallInv, CallsInv

-----------------------------------------------------------------------------
(* The process starts and ends.                                               *)

LEMMA Open_CallInv == ASSUME CallInv, Open PROVE CallInv'
<1>1. main \in Inode /\ Meta \in Page /\ cached[main][Meta] \in Bodies
  BY PageFacts DEF CallInv, TypeOK
<1>2. frame' \in [Page -> Bodies] /\ RowsIn(cached[main]) \subseteq Row
  BY <1>1, EmptyType, RowsInType DEF Open
<1>3. dirty = {} /\ handle = main /\ \A t \in Threads : pc[t] = "idle"
  BY DEF Open, CallInv, CallsInv
<1>4. main \in perhaps' /\ perhaps' \subseteq perhaps
  BY DEF Open, CallInv, TypeOK
<1>5. TypeOK'
  BY <1>1, <1>2, <1>3, <1>4 DEF Open, CallInv, TypeOK
<1>6. CallsType' /\ CallsInv'
  BY <1>3 DEF Open, calls, CallInv, CallsType, CallsInv, Swapping
<1> QED BY <1>5, <1>6 DEF CallInv

LEMMA Create_CallInv ==
    ASSUME CallInv, NEW t \in Threads, Create(t)
    PROVE  CallInv'
<1>1. handle = main /\ \A u \in Threads : pc[u] = "idle"
  BY DEF Create, CallInv, CallsInv
<1>2. /\ frame' \in [Page -> Bodies]
      /\ dirty' \subseteq {p \in Page : frame'[p] # None}
  BY BodyType, LayoutAssumption DEF Create, Bodies
<1>3. TypeOK'
  BY <1>1, <1>2 DEF Create, ghosts, CallInv, TypeOK
<1>4. CallsType'
  BY DEF Create, ghosts, CallInv, CallsType, Pcs, Jobs
<1>5. CallsInv'
  BY <1>1 DEF Create, ghosts, CallInv, CallsType, CallsInv, Swapping
<1> QED BY <1>3, <1>4, <1>5 DEF CallInv

(* However the process ends.                                                  *)
LEMMA Gone_CallInv ==
    ASSUME CallInv, Gone, handle' = main', main' \in perhaps', perhaps' \subseteq Inode,
           cached' \in [Inode -> [Page -> Bodies]], durable' \in [Inode -> [Page -> Bodies]],
           saved' \subseteq Row, founded' \in BOOLEAN
    PROVE  CallInv'
<1>1. TypeOK'
  BY EmptyType DEF Gone, TypeOK
<1>2. CallsType'
  BY LayoutAssumption DEF Gone, CallsType, Pcs, Jobs
<1>3. CallsInv'
  BY NoneAssumption DEF Gone, CallsInv, Swapping
<1> QED BY <1>1, <1>2, <1>3 DEF CallInv

LEMMA Kill_CallInv == ASSUME CallInv, Kill PROVE CallInv'
<1>1. /\ Cleared(cached) \in [Inode -> [Page -> Bodies]]
      /\ Cleared(durable) \in [Inode -> [Page -> Bodies]]
  BY EmptyType DEF Cleared, CallInv, TypeOK
<1> QED BY <1>1, Gone_CallInv DEF Kill, CallInv, TypeOK, CallsType

LEMMA Crash_CallInv == ASSUME CallInv, Crash PROVE CallInv'
<1> PICK i \in perhaps : \E kept \in SUBSET {p \in Page : cached[i][p] # durable[i][p]} :
       LET left == [p \in Page |-> IF p \in kept THEN cached[i][p] ELSE durable[i][p]]
       IN /\ main' = i /\ perhaps' = {i} /\ handle' = i
          /\ cached' = [[j \in Inode |-> Empty] EXCEPT ![i] = left]
          /\ durable' = cached'
  BY DEF Crash
<1> PICK kept \in SUBSET Page :
       LET left == [p \in Page |-> IF p \in kept THEN cached[i][p] ELSE durable[i][p]]
       IN /\ main' = i /\ perhaps' = {i} /\ handle' = i
          /\ cached' = [[j \in Inode |-> Empty] EXCEPT ![i] = left]
          /\ durable' = cached'
  OBVIOUS
<1> DEFINE left == [p \in Page |-> IF p \in kept THEN cached[i][p] ELSE durable[i][p]]
<1>1. i \in Inode /\ left \in [Page -> Bodies]
  BY DEF CallInv, TypeOK
<1>2. cached' \in [Inode -> [Page -> Bodies]] /\ durable' = cached'
  BY <1>1, EmptyType
<1> QED BY <1>1, <1>2, Gone_CallInv DEF Crash, CallInv, TypeOK, CallsType

-----------------------------------------------------------------------------
(* Rows and frames.                                                           *)

LEMMA Insert_CallInv ==
    ASSUME CallInv, NEW r \in Row, Insert(r)
    PROVE  CallInv'
<1> DEFINE p == Home[Fetched[Meta].gen][r]
<1>1. /\ Fetched[Meta] # None /\ Fetched[p] # None
      /\ frame' = [frame EXCEPT ![p] = [Fetched[p] EXCEPT !.rows = @ \cup {r}]]
      /\ dirty' = dirty \cup {p}
      /\ inserted' = inserted \cup {r} /\ running
  BY DEF Insert, CanFetch
<1>2. p \in Page
  BY <1>1, FetchedType, Bodily, LayoutAssumption DEF CallInv
<1>3. Fetched[p] \in [gen : Gens, rows : SUBSET Row]
  BY <1>1, <1>2, FetchedType, Bodily DEF CallInv
<1>4. [Fetched[p] EXCEPT !.rows = @ \cup {r}] \in [gen : Gens, rows : SUBSET Row]
  BY <1>3
<1> DEFINE b == [Fetched[p] EXCEPT !.rows = @ \cup {r}]
<1>5. b \in Bodies /\ b # None
  BY <1>4, NoneAssumption DEF Bodies
<1> HIDE DEF p, b
<1>6. frame' = [frame EXCEPT ![p] = b] /\ dirty' = dirty \cup {p} /\ p \in Page
  BY <1>1, <1>2 DEF p, b
<1>7. /\ frame' \in [Page -> Bodies]
      /\ dirty' \subseteq {q \in Page : frame'[q] # None}
  BY <1>5, <1>6 DEF CallInv, TypeOK
<1>8. TypeOK'
  BY <1>1, <1>7 DEF Insert, files, CallInv, TypeOK
<1>9. CallsType' /\ CallsInv'
  BY <1>1 DEF Insert, files, calls, CallInv, CallsType, CallsInv, Swapping
<1> QED BY <1>8, <1>9 DEF CallInv

LEMMA Load_CallInv ==
    ASSUME CallInv, NEW p \in Page, Load(p)
    PROVE  CallInv'
<1>1. Fetched[p] \in Bodies /\ Fetched[p] # None /\ frame[p] = None
  BY FetchedType DEF Load, CallInv
<1>2. TypeOK'
  BY <1>1 DEF Load, files, ghosts, CallInv, TypeOK
<1>3. CallsType' /\ CallsInv'
  BY DEF Load, CanFetch, files, calls, ghosts, CallInv, CallsType, CallsInv, Swapping
<1> QED BY <1>2, <1>3 DEF CallInv

LEMMA Evict_CallInv ==
    ASSUME CallInv, NEW p \in Page, Evict(p)
    PROVE  CallInv'
<1>1. cached' \in [Inode -> [Page -> Bodies]]
  BY WrittenType DEF Evict, CallInv, TypeOK
<1>2. frame' \in [Page -> Bodies] /\ dirty' \subseteq {q \in Page : frame'[q] # None}
  BY DEF Evict, NowClean, CallInv, TypeOK, Bodies
<1>3. TypeOK'
  BY <1>1, <1>2 DEF Evict, ghosts, CallInv, TypeOK
<1>4. CallsType' /\ CallsInv'
  BY DEF Evict, CanFetch, calls, ghosts, CallInv, CallsType, CallsInv, Swapping
<1> QED BY <1>3, <1>4 DEF CallInv

-----------------------------------------------------------------------------
(* Calls.                                                                     *)

LEMMA Begin_CallInv ==
    ASSUME CallInv, NEW t \in Threads, NEW call \in {"flush", "close", "drop", "vacuum"},
           Begin(t, call)
    PROVE  CallInv'
<1>1. /\ running /\ pc[t] = "idle"
      /\ \A u \in Threads : job[u] \notin {"close", "drop"}
      /\ call \in {"close", "drop"} => \A u \in Threads : pc[u] \in {"idle", "panicked", "asserted"}
      /\ pc' = [pc EXCEPT ![t] = "flush"] /\ job' = [job EXCEPT ![t] = call]
      /\ UNCHANGED <<files, running, pool, ghosts>>
  BY DEF Begin, Quitting
<1>2. TypeOK'
  BY <1>1 DEF files, pool, ghosts, CallInv, TypeOK
<1>3. CallsType'
  <2>1. RowsIn(Fetched) \subseteq Row /\ inserted \subseteq Row
    BY RowsInType DEF CallInv, TypeOK
  <2>2. gen' \in [Threads -> Gens]
    BY DEF Begin, CallInv, CallsType
  <2>3. pc' \in [Threads -> Pcs] /\ job' \in [Threads -> Jobs]
    BY <1>1 DEF CallInv, CallsType, Pcs, Jobs
  <2>4. todo' \in [Threads -> SUBSET Page] /\ scanned' \in [Threads -> SUBSET Row]
    BY <2>1 DEF Begin, CallInv, CallsType
  <2> QED BY <1>1, <2>2, <2>3, <2>4 DEF ghosts, CallInv, CallsType
<1>4. CallsInv'
  BY <1>1 DEF files, pool, ghosts, CallInv, CallsType, CallsInv, Swapping
<1> QED BY <1>2, <1>3, <1>4 DEF CallInv

(* A call that returns gives the lock back if it has it.                      *)
LEMMA Returned_CallInv ==
    ASSUME CallInv, NEW t \in Threads, Returned(t), TypeOK',
           running, running' = running, founded' \in BOOLEAN, UNCHANGED temp,
           lock' = IF lock = t THEN None ELSE lock
    PROVE  CallInv'
<1>1. CallsType'
  BY LayoutAssumption DEF Returned, CallInv, CallsType, Pcs, Jobs
<1>2. CallsInv'
  BY <1>1, NoneAssumption DEF Returned, CallInv, CallsType, CallsInv, Swapping
<1> QED BY <1>1, <1>2 DEF CallInv

LEMMA GivesUp_CallInv ==
    ASSUME CallInv, NEW t \in Threads, pc[t] # "idle", GivesUp(t)
    PROVE  CallInv'
<1>1. CASE job[t] = "drop"
  BY <1>1, Gone_CallInv DEF GivesUp, CallInv, TypeOK, CallsType
<1>2. CASE job[t] # "drop"
  <2>1. /\ lock' = IF lock = t THEN None ELSE lock
        /\ UNCHANGED <<files, running, frame, dirty, poisoned, ghosts>>
    BY <1>2 DEF GivesUp
  <2>2. TypeOK'
    BY <2>1 DEF files, ghosts, CallInv, TypeOK
  <2>3. running
    BY DEF CallInv, CallsInv
  <2>4. CASE job[t] # "close"
    <3>1. Returned(t)
      BY <1>2, <2>4 DEF GivesUp
    <3> QED BY <2>1, <2>2, <2>3, <3>1, Returned_CallInv DEF files, ghosts, CallInv, CallsType
  <2>5. CASE job[t] = "close"
    <3>1. /\ pc' = [pc EXCEPT ![t] = "flush"] /\ job' = [job EXCEPT ![t] = "drop"]
          /\ todo' = [todo EXCEPT ![t] = Page] /\ UNCHANGED <<scanned, gen>>
      BY <1>2, <2>5 DEF GivesUp
    <3>2. lock' = lock /\ ~Swapping(t)
      BY <2>1, <2>5 DEF CallInv, CallsInv, Swapping
    <3>3. CallsType'
      BY <2>1, <3>1 DEF ghosts, CallInv, CallsType, Pcs, Jobs
    <3>4. CallsInv'
      BY <2>1, <2>3, <2>5, <3>1, <3>2
      DEF files, ghosts, CallInv, CallsType, CallsInv, Swapping
    <3> QED BY <2>2, <3>3, <3>4 DEF CallInv
  <2> QED BY <2>4, <2>5
<1> QED BY <1>1, <1>2

LEMMA FlushFrame_CallInv ==
    ASSUME CallInv, NEW t \in Threads, NEW p \in Page, FlushFrame(t, p)
    PROVE  CallInv'
<1>1. cached' \in [Inode -> [Page -> Bodies]]
  BY WrittenType DEF FlushFrame, CallInv, TypeOK
<1>2. TypeOK'
  BY <1>1 DEF FlushFrame, NowClean, ghosts, CallInv, TypeOK
<1>3. CallsType'
  BY DEF FlushFrame, ghosts, CallInv, CallsType
<1>4. CallsInv'
  BY DEF FlushFrame, NowClean, ghosts, CallInv, CallsInv, Swapping
<1> QED BY <1>2, <1>3, <1>4 DEF CallInv

LEMMA FlushSync_CallInv ==
    ASSUME CallInv, NEW t \in Threads, FlushSync(t)
    PROVE  CallInv'
<1>1. /\ pc[t] = "flush" /\ running
      /\ job[t] \in {"create", "flush", "vacuum", "close", "drop"}
      /\ ~Swapping(t) /\ lock # t
      /\ durable' = Synced(handle) /\ durable' \in [Inode -> [Page -> Bodies]]
      /\ scanned[t] \subseteq Row
  BY SyncedType DEF FlushSync, CallInv, TypeOK, CallsType, CallsInv, Jobs, Swapping
<1>2. CASE job[t] \in {"create", "flush"}
  <2>1. /\ Returned(t) /\ Promise(t)
        /\ UNCHANGED <<cached, main, perhaps, temp, handle, running, pool>>
    BY <1>2 DEF FlushSync
  <2>2. TypeOK'
    BY <1>1, <2>1 DEF Promise, pool, CallInv, TypeOK
  <2> QED BY <1>1, <2>1, <2>2, Returned_CallInv DEF Promise, pool, CallInv, CallsType
<1>3. CASE job[t] = "vacuum"
  <2>1. /\ To(t, "lock")
        /\ UNCHANGED <<cached, main, perhaps, temp, handle, running, pool, ghosts>>
    BY <1>3 DEF FlushSync
  <2>2. TypeOK'
    BY <1>1, <2>1 DEF pool, ghosts, CallInv, TypeOK
  <2>3. CallsType'
    BY <2>1 DEF To, ghosts, CallInv, CallsType, Pcs
  <2>4. CallsInv'
    BY <1>1, <1>3, <2>1 DEF To, pool, ghosts, CallInv, CallsType, CallsInv, Swapping
  <2> QED BY <2>2, <2>3, <2>4 DEF CallInv
<1>4. CASE job[t] \in {"close", "drop"}
  <2>1. /\ Gone /\ handle' = main /\ UNCHANGED <<cached, main, perhaps>>
        /\ saved' = IF job[t] = "close" THEN saved \cup scanned[t] ELSE saved
        /\ UNCHANGED founded
    BY <1>4 DEF FlushSync
  <2> QED BY <1>1, <2>1, Gone_CallInv DEF CallInv, TypeOK, CallsType
<1> QED BY <1>1, <1>2, <1>3, <1>4

-----------------------------------------------------------------------------
(* swap_file.                                                                 *)

(* A step of swap_file that keeps the lock, or one that takes it or lets it   *)
(* go in a panic.                                                             *)
LEMMA Swap_CallInv ==
    ASSUME CallInv, NEW t \in Threads, NEW next \in Pcs \ {"idle", "flush"},
           pc[t] \notin {"idle", "flush", "panicked", "asserted"}, To(t, next),
           UNCHANGED <<running, founded>>, TypeOK',
           lock' = IF next \in {"lock", "panicked", "asserted"} THEN IF lock = t THEN None ELSE lock ELSE t,
           lock \in {t, None} \/ next = "panicked",
           next \in {"write", "sync", "rename"} => temp' # None,
           temp' = temp \/ Swapping(t)
    PROVE  CallInv'
<1>1. running /\ job[t] = "vacuum"
  BY DEF CallInv, CallsInv
<1>2. CallsType'
  BY DEF To, CallInv, CallsType
<1>3. CallsInv'
  <2>1. ASSUME NEW u \in Threads, u # t
        PROVE  /\ pc'[u] = pc[u] /\ job'[u] = job[u]
               /\ lock = u <=> lock' = u
               /\ pc[u] \in {"write", "sync", "rename"} => temp' # None
    <3>1. pc'[u] = pc[u] /\ job'[u] = job[u]
      BY <2>1 DEF To, CallInv, CallsType
    <3>2. lock = u <=> lock' = u
      BY <2>1, NoneAssumption
    <3>3. pc[u] \in {"write", "sync", "rename"} => temp' # None
      BY <2>1, OneSwap DEF CallInv, CallsInv, Swapping
    <3> QED BY <3>1, <3>2, <3>3
  <2>2. pc'[t] = next /\ job'[t] = "vacuum"
    BY <1>1 DEF To, CallInv, CallsType
  <2>3. lock' = t <=> Swapping(t)'
    BY <2>2, NoneAssumption DEF Swapping, Pcs
  <2>4. running'
    BY <1>1
  <2> QED
    <3>1. /\ pc'[t] \notin {"idle", "flush"} /\ job'[t] \notin {"none", "close", "drop"}
          /\ pc'[t] \in {"write", "sync", "rename"} => temp' # None
      BY <2>2 DEF Pcs
    <3>2. \A u \in Threads \ {t} : job[u] \notin {"close", "drop"}
      BY DEF CallInv, CallsInv
    <3>3. ASSUME NEW u \in Threads, u # t
          PROVE  /\ pc'[u] = "idle" <=> job'[u] = "none"
                 /\ pc'[u] \notin {"idle", "flush"} => job'[u] = "vacuum"
                 /\ lock' = u <=> Swapping(u)'
                 /\ pc'[u] \in {"write", "sync", "rename"} => temp' # None
                 /\ job'[u] \notin {"close", "drop"}
      BY <2>1, <3>2, <3>3 DEF CallInv, CallsInv, Swapping
    <3> QED
      BY <2>2, <2>3, <2>4, <3>1, <3>3 DEF CallsInv
<1> QED BY <1>2, <1>3 DEF CallInv

LEMMA TakeLock_CallInv ==
    ASSUME CallInv, NEW t \in Threads, TakeLock(t)
    PROVE  CallInv'
<1>1. /\ pc[t] = "lock" /\ lock = None
      /\ UNCHANGED <<files, running, frame, dirty, poisoned, ghosts>>
      /\ \/ To(t, "panicked") /\ UNCHANGED lock
         \/ To(t, "create") /\ lock' = t
  BY DEF TakeLock
<1>2. TypeOK'
  BY <1>1 DEF files, ghosts, CallInv, TypeOK
<1>3. CASE To(t, "panicked") /\ UNCHANGED lock
  BY <1>1, <1>2, <1>3, Swap_CallInv DEF files, ghosts, Pcs
<1>4. CASE To(t, "create") /\ lock' = t
  BY <1>1, <1>2, <1>4, Swap_CallInv DEF files, ghosts, Pcs
<1> QED BY <1>1, <1>3, <1>4

(* The lock is held from here to the end of swap_file.                        *)
LEMMA SwapHoldsLock ==
    ASSUME CallInv, NEW t \in Threads, Swapping(t)
    PROVE  /\ lock = t /\ pc[t] \notin {"idle", "flush", "panicked", "asserted"}
           /\ running /\ job[t] = "vacuum"
           /\ pc[t] \in {"write", "sync", "rename"} =>
                temp \in Inode /\ temp \notin perhaps /\ temp # handle
BY DEF CallInv, TypeOK, CallsInv, Swapping

LEMMA CreateTemp_CallInv ==
    ASSUME CallInv, NEW t \in Threads, CreateTemp(t)
    PROVE  CallInv'
<1> PICK i \in Inode \ ({handle} \cup perhaps) :
       /\ temp' = i
       /\ cached' = [cached EXCEPT ![i] = Empty]
       /\ durable' = [durable EXCEPT ![i] = Empty]
  BY DEF CreateTemp
<1>1. Swapping(t)
  BY DEF CreateTemp, Swapping
<1>2. TypeOK'
  BY EmptyType DEF CreateTemp, pool, ghosts, CallInv, TypeOK
<1> QED
  BY <1>1, <1>2, SwapHoldsLock, Swap_CallInv, NoneAssumption DEF CreateTemp, pool, ghosts, Pcs

LEMMA WriteTemp_CallInv ==
    ASSUME CallInv, NEW t \in Threads, WriteTemp(t)
    PROVE  CallInv'
<1>1. Swapping(t) /\ pc[t] = "write"
  BY DEF WriteTemp, Swapping
<1>2. temp \in Inode /\ Layout(gen[t], scanned[t]) \in [Page -> Bodies]
  BY <1>1, SwapHoldsLock, LayoutType DEF CallInv, CallsType
<1>3. TypeOK'
  BY <1>2 DEF WriteTemp, pool, ghosts, CallInv, TypeOK
<1> QED
  BY <1>1, <1>2, <1>3, SwapHoldsLock, Swap_CallInv, NoneAssumption
  DEF WriteTemp, pool, ghosts, Pcs

LEMMA WritePanics_CallInv ==
    ASSUME CallInv, NEW t \in Threads, WritePanics(t)
    PROVE  CallInv'
<1>1. Swapping(t) /\ lock' = None
  BY DEF WritePanics, Swapping
<1>2. TypeOK'
  BY <1>1 DEF WritePanics, files, ghosts, CallInv, TypeOK
<1> QED
  BY <1>1, <1>2, SwapHoldsLock, Swap_CallInv DEF WritePanics, files, ghosts, Pcs

LEMMA SyncTemp_CallInv ==
    ASSUME CallInv, NEW t \in Threads, SyncTemp(t)
    PROVE  CallInv'
<1>1. Swapping(t) /\ pc[t] = "sync"
  BY DEF SyncTemp, Swapping
<1>2. temp \in Inode
  BY <1>1, SwapHoldsLock
<1>3. TypeOK'
  BY <1>2, SyncedType DEF SyncTemp, TempSynced, pool, ghosts, CallInv, TypeOK
<1> QED
  BY <1>1, <1>2, <1>3, SwapHoldsLock, Swap_CallInv, NoneAssumption
  DEF SyncTemp, pool, ghosts, Pcs

LEMMA Rename_CallInv ==
    ASSUME CallInv, NEW t \in Threads, Rename(t)
    PROVE  CallInv'
<1>1. Swapping(t) /\ pc[t] = "rename"
  BY DEF Rename, Swapping
<1>2. temp \in Inode
  BY <1>1, SwapHoldsLock
<1>3. TypeOK'
  BY <1>2 DEF Rename, pool, ghosts, CallInv, TypeOK
<1> QED
  BY <1>1, <1>3, SwapHoldsLock, Swap_CallInv DEF Rename, pool, ghosts, Pcs

LEMMA SyncDir_CallInv ==
    ASSUME CallInv, NEW t \in Threads, SyncDir(t)
    PROVE  CallInv'
<1>1. Swapping(t)
  BY DEF SyncDir, Swapping
<1>2. TypeOK'
  BY DEF SyncDir, DirSynced, pool, ghosts, CallInv, TypeOK
<1> QED
  BY <1>1, <1>2, SwapHoldsLock, Swap_CallInv DEF SyncDir, pool, ghosts, Pcs

LEMMA Reopen_CallInv ==
    ASSUME CallInv, NEW t \in Threads, Reopen(t)
    PROVE  CallInv'
<1>1. Swapping(t)
  BY DEF Reopen, Swapping
<1>2. TypeOK'
  BY DEF Reopen, Reopened, pool, ghosts, CallInv, TypeOK
<1> QED
  BY <1>1, <1>2, SwapHoldsLock, Swap_CallInv DEF Reopen, pool, ghosts, Pcs

LEMMA Clear_CallInv ==
    ASSUME CallInv, NEW t \in Threads, Clear(t)
    PROVE  CallInv'
<1>1. Swapping(t)
  BY DEF Clear, Swapping
<1>2. lock = t /\ running /\ scanned[t] \subseteq Row
  BY <1>1, SwapHoldsLock DEF CallInv, CallsType
<1>3. TypeOK'
  BY <1>2, EmptyType DEF Clear, FramesCleared, Promise, files, CallInv, TypeOK
<1> QED
  BY <1>2, <1>3, Returned_CallInv DEF Clear, Promise, files, CallInv, CallsType

LEMMA ClearPanics_CallInv ==
    ASSUME CallInv, NEW t \in Threads, ClearPanics(t)
    PROVE  CallInv'
<1>1. Swapping(t) /\ lock' = None /\ To(t, "asserted")
      /\ UNCHANGED <<files, running, ghosts>>
  BY DEF ClearPanics, Swapping
<1>2. TypeOK'
  <2>1. PICK kept \in SUBSET {p \in Page : frame[p] # None} :
           /\ frame' = [p \in Page |-> IF p \in kept THEN frame[p] ELSE None]
           /\ dirty' = dirty \cap kept
    BY DEF ClearPanics
  <2>2. frame' \in [Page -> Bodies] /\ \A p \in kept : p \in Page /\ frame'[p] # None
    BY <2>1 DEF CallInv, TypeOK, Bodies
  <2> QED BY <1>1, <2>1, <2>2 DEF files, ghosts, CallInv, TypeOK
<1> QED
  BY <1>1, <1>2, SwapHoldsLock, Swap_CallInv DEF files, ghosts, Pcs

-----------------------------------------------------------------------------
LEMMA Init_CallInv == ASSUME Init PROVE CallInv
<1>1. TypeOK
  BY EmptyType DEF Init, TypeOK
<1>2. CallsType
  BY LayoutAssumption DEF Init, CallsType, Pcs, Jobs
<1>3. CallsInv
  BY NoneAssumption DEF Init, CallsInv, Swapping
<1> QED BY <1>1, <1>2, <1>3 DEF CallInv

LEMMA Step_CallInv ==
    ASSUME CallInv, NEW t \in Threads, Step(t)
    PROVE  CallInv'
<1>1. CASE Create(t) \/ \E call \in {"flush", "close", "drop", "vacuum"} : Begin(t, call)
  BY <1>1, Create_CallInv, Begin_CallInv
<1>2. CASE \/ \E p \in Page : FlushFrame(t, p)
           \/ FlushFails(t) \/ FlushSync(t)
  BY <1>2, FlushFrame_CallInv, FlushSync_CallInv, GivesUp_CallInv DEF FlushFails
<1>3. CASE \/ TakeLock(t) \/ CreateTemp(t) \/ WriteTemp(t) \/ WritePanics(t)
           \/ SyncTemp(t) \/ Rename(t)
  BY <1>3, TakeLock_CallInv, CreateTemp_CallInv, WriteTemp_CallInv, WritePanics_CallInv,
     SyncTemp_CallInv, Rename_CallInv
<1>4. CASE SyncDir(t) \/ Reopen(t) \/ SwapFails(t) \/ Clear(t) \/ ClearPanics(t)
  BY <1>4, SyncDir_CallInv, Reopen_CallInv, Clear_CallInv, ClearPanics_CallInv, GivesUp_CallInv
  DEF SwapFails
<1> QED BY <1>1, <1>2, <1>3, <1>4 DEF Step

LEMMA Stutter_CallInv == ASSUME CallInv, UNCHANGED vars PROVE CallInv'
BY DEF vars, files, pool, calls, ghosts, CallInv, TypeOK, CallsType, CallsInv, Swapping

LEMMA Next_CallInv == ASSUME CallInv, [Next]_vars PROVE CallInv'
BY Open_CallInv, Kill_CallInv, Crash_CallInv, Insert_CallInv, Load_CallInv, Evict_CallInv,
   Step_CallInv, Stutter_CallInv
DEF Next

(* Whatever fails and whenever the process ends.                              *)
THEOREM CallInvariance == Spec => []CallInv
<1>1. Init => CallInv
  BY Init_CallInv
<1>2. CallInv /\ [Next]_vars => CallInv'
  BY Next_CallInv
<1> QED BY <1>1, <1>2, PTL DEF Spec

(* The new file of a vacuum is never one that the path, after a crash too, or *)
(* the handle names, and the frames hold what the dirty bits speak of.        *)
THEOREM TableFileTypeCorrect == Spec => []TypeOK
<1>1. CallInv => TypeOK
  BY DEF CallInv
<1> QED BY <1>1, CallInvariance, PTL

-----------------------------------------------------------------------------
(* Files and rows.                                                            *)

(* The system calls vacuum makes after the rename do not fail, and a rename   *)
(* by a killed process is durable before the next one starts.                 *)
Reliable == MayFail \cap {"dirsync", "reopen"} = {} /\ RenameSettles

(* The generation of a file: a file without a meta page is create's.          *)
GenOf(content) == IF content[Meta] = None THEN 0 ELSE content[Meta].gen
OneLayout(content) == \A p \in Page : content[p] # None => content[p].gen = GenOf(content)

(* Pages appear and rows are added, neither goes away.                        *)
Behind(old, new) ==
    \A p \in Page : old[p] # None => /\ new[p] # None
                                     /\ new[p].gen = old[p].gen
                                     /\ old[p].rows \subseteq new[p].rows

Reachable == perhaps \cup {handle}
TableRows == IF running THEN inserted ELSE RowsIn(cached[main])

(* A file is of one layout; only create's may be incomplete.                  *)
FileInv ==
    \A i \in Reachable : /\ OneLayout(cached[i])
                         /\ Behind(durable[i], cached[i])
                         /\ Whole(durable[i]) \/ GenOf(cached[i]) = 0

(* Who has founded the table, or given its path another file, has made every  *)
(* file in reach durable.                                                     *)
WholeInv == founded \/ Reachable # {main} => \A i \in Reachable : Whole(durable[i])

(* Which file the path, the handle and a crash name, if nothing fails between *)
(* the rename and the new handle.                                             *)
NameInv ==
    Reliable =>
       /\ running /\ (\A t \in Threads : pc[t] \notin {"dirsync", "reopen"}) => Reachable = {main}
       /\ \A t \in Threads : /\ pc[t] = "dirsync" => perhaps = {handle, main}
                             /\ pc[t] = "reopen" => perhaps = {main}

(* From reopen until they are cleared the frames are those of the old file,   *)
(* for good when clear finds one pinned.                                      *)
Stale == \E t \in Threads : pc[t] \in {"clear", "asserted"}

(* That panic leaves the mutex poisoned, and nobody enters a poisoned one.    *)
PoisonInv ==
    \A t \in Threads : /\ pc[t] = "asserted" => poisoned
                       /\ Swapping(t) => ~poisoned

(* Otherwise frames and file are of one layout; a clean frame holds what the  *)
(* file has, a dirty one at least as many rows.                               *)
FrameInv ==
    running /\ ~Stale =>
       /\ Fetched[Meta] # None
       /\ \A p \in Page : frame[p] # None =>
             /\ frame[p].gen = GenOf(cached[handle])
             /\ cached[handle][p] # None => cached[handle][p].rows \subseteq frame[p].rows
             /\ p \notin dirty => frame[p] = cached[handle][p]
       /\ RowsIn(Fetched) = inserted

(* Saved rows are durable in every file a crash may leave, and no such file   *)
(* has a row the table has not.                                               *)
RowInv ==
    Reliable => \A i \in perhaps : /\ saved \subseteq RowsIn(durable[i])
                                   /\ RowsIn(cached[i]) \subseteq TableRows

(* The open file has row r on r's page.                                       *)
PageOf(r) == Home[GenOf(cached[handle])][r]
InFile(r) == cached[handle][PageOf(r)] # None /\ r \in cached[handle][PageOf(r)].rows

(* flush_all: what it found and has passed is in the file.                    *)
FlushOk(t) ==
    /\ pc[t] = "idle" => scanned[t] = {}
    /\ pc[t] = "flush" =>
          /\ scanned[t] \subseteq inserted
          /\ job[t] \in {"close", "drop"} => scanned[t] = inserted
          /\ Meta \in todo[t] \/ cached[handle][Meta] # None
          /\ job[t] = "create" => /\ Root \in todo[t] \/ cached[handle][Root] # None
                                  /\ Stale \/ Fetched[Root] # None
          /\ \A r \in scanned[t] : PageOf(r) \in todo[t] \/ InFile(r)

(* vacuum: nothing is inserted meanwhile, so that after its flush_all every   *)
(* row is durable in the open file, and after its rename in the new one too.  *)
Durably(i) == Whole(durable[i]) /\ inserted \subseteq RowsIn(durable[i])

VacuumOk(t) ==
    job[t] = "vacuum" /\ pc[t] # "panicked" =>
       /\ scanned[t] = inserted
       /\ pc[t] = "flush" => dirty \subseteq todo[t] /\ (Stale \/ Whole(Fetched))
       /\ pc[t] # "flush" => dirty = {} /\ Durably(handle)
       /\ pc[t] \in {"dirsync", "reopen"} => Durably(main) /\ RowsIn(cached[main]) \subseteq inserted
       /\ pc[t] \in {"clear", "asserted"} => RowsIn(cached[handle]) \subseteq inserted

(* The file vacuum writes is the new layout before its rename, on the disk.   *)
TempOk(t) ==
    /\ pc[t] \in {"sync", "rename"} => cached[temp] = Layout(gen[t], scanned[t])
    /\ pc[t] = "rename" => durable[temp] = Layout(gen[t], scanned[t])

ThreadInv == \A t \in Threads : FlushOk(t) /\ VacuumOk(t) /\ TempOk(t)

SwapInv == CallInv /\ FileInv /\ WholeInv /\ NameInv /\ FrameInv /\ RowInv /\ ThreadInv

-----------------------------------------------------------------------------
(* Contents of files.                                                         *)

Content == [Page -> Bodies]

LEMMA ContentFacts ==
    ASSUME NEW c \in Content, NEW p \in Page, c[p] # None
    PROVE  c[p].gen \in Gens /\ c[p].rows \subseteq Row
BY Bodily DEF Content

LEMMA Homes ==
    ASSUME NEW g \in Gens
    PROVE  /\ \A r \in Row : Home[g][r] \in Page
           /\ PagesOf(g) \subseteq Page /\ Meta \in PagesOf(g) /\ Root \in PagesOf(g)
BY LayoutAssumption, PageFacts DEF PagesOf

LEMMA GenType == ASSUME NEW c \in Content PROVE GenOf(c) \in Gens
BY ContentFacts, PageFacts, LayoutAssumption DEF GenOf

(* Where a search looks.                                                      *)
LEMMA RowFound ==
    ASSUME NEW c \in Content, OneLayout(c), NEW r \in Row
    PROVE  r \in RowsIn(c) <=> /\ c[Meta] # None
                               /\ c[Home[GenOf(c)][r]] # None
                               /\ r \in c[Home[GenOf(c)][r]].rows
<1>1. Home[GenOf(c)][r] \in Page
  BY GenType, Homes
<1> QED BY <1>1 DEF RowsIn, OneLayout, GenOf

LEMMA BehindRows ==
    ASSUME NEW c \in Content, NEW d \in Content, Behind(c, d)
    PROVE  RowsIn(c) \subseteq RowsIn(d)
<1> SUFFICES ASSUME NEW r \in RowsIn(c) PROVE r \in RowsIn(d)
  OBVIOUS
<1> DEFINE g == c[Meta].gen
<1>1. /\ c[Meta] # None /\ r \in Row
      /\ c[Home[g][r]] # None /\ c[Home[g][r]].gen = g /\ r \in c[Home[g][r]].rows
  BY DEF RowsIn
<1>2. Home[g][r] \in Page
  BY <1>1, ContentFacts, PageFacts, Homes
<1>3. d[Meta] # None /\ d[Meta].gen = g
  BY <1>1, PageFacts DEF Behind
<1>4. d[Home[g][r]] # None /\ d[Home[g][r]].gen = g /\ r \in d[Home[g][r]].rows
  BY <1>1, <1>2 DEF Behind
<1> QED BY <1>1, <1>3, <1>4 DEF RowsIn

LEMMA BehindWhole ==
    ASSUME NEW c \in Content, NEW d \in Content, Behind(c, d), Whole(c)
    PROVE  Whole(d)
<1>1. c[Meta] # None /\ d[Meta] # None /\ d[Meta].gen = c[Meta].gen
  BY PageFacts DEF Behind, Whole
<1>2. PagesOf(c[Meta].gen) \subseteq Page
  BY <1>1, ContentFacts, PageFacts, Homes
<1> QED BY <1>1, <1>2 DEF Behind, Whole

LEMMA BehindSelf == ASSUME NEW c PROVE Behind(c, c)
BY DEF Behind

LEMMA BehindOn ==
    ASSUME NEW c, NEW d, NEW e, Behind(c, d), Behind(d, e)
    PROVE  Behind(c, e)
BY DEF Behind

(* A new file is whole and has the rows it was made of.                       *)
LEMMA LayoutFacts ==
    ASSUME NEW g \in Gens, NEW R \in SUBSET Row
    PROVE  /\ Layout(g, R) \in Content
           /\ Whole(Layout(g, R)) /\ OneLayout(Layout(g, R)) /\ RowsIn(Layout(g, R)) = R
<1> DEFINE c == Layout(g, R)
<1>1. \A p \in Page : c[p] = IF p \in PagesOf(g) THEN Body(g, {r \in R : Home[g][r] = p}) ELSE None
  BY DEF Layout
<1>2. c \in Content
  BY LayoutType DEF Content
<1>3. \A p \in PagesOf(g) : p \in Page /\ c[p] # None /\ c[p].gen = g
                            /\ c[p].rows = {r \in R : Home[g][r] = p}
  <2> SUFFICES ASSUME NEW p \in PagesOf(g)
               PROVE  p \in Page /\ c[p] # None /\ c[p].gen = g
                      /\ c[p].rows = {r \in R : Home[g][r] = p}
    OBVIOUS
  <2> DEFINE S == {r \in R : Home[g][r] = p}
  <2>1. p \in Page /\ S \in SUBSET Row /\ c[p] = Body(g, S)
    BY <1>1, Homes
  <2> HIDE DEF S, c
  <2>2. Body(g, S) # None
    BY <2>1, BodyType
  <2>3. c[p].gen = g /\ c[p].rows = S
    BY <2>1 DEF Body
  <2> QED BY <2>1, <2>2, <2>3 DEF S
<1>4. \A p \in Page \ PagesOf(g) : c[p] = None
  BY <1>1
<1> HIDE DEF c
<1>5. c[Meta] # None /\ GenOf(c) = g /\ c[Meta].gen = g
  BY <1>3, Homes DEF GenOf
<1>6. Whole(c) /\ OneLayout(c)
  BY <1>3, <1>4, <1>5 DEF Whole, OneLayout
<1>7. \A r \in Row : Home[g][r] \in PagesOf(g)
  BY DEF PagesOf
<1>8. \A r \in Row : r \in RowsIn(c) <=> r \in R
  BY <1>2, <1>3, <1>5, <1>6, <1>7, RowFound
<1>9. RowsIn(c) = R
  BY <1>8, RowsInType
<1> QED BY <1>2, <1>6, <1>9 DEF c

-----------------------------------------------------------------------------
(* What holds in a state.                                                     *)

LEMMA StateTypes ==
    ASSUME SwapInv
    PROVE  /\ handle \in Inode /\ main \in perhaps /\ perhaps \subseteq Inode
           /\ \A i \in Inode : cached[i] \in Content /\ durable[i] \in Content
           /\ frame \in Content /\ Fetched \in Content
           /\ \A p \in dirty : p \in Page /\ frame[p] # None
           /\ inserted \subseteq Row
BY FetchedType DEF SwapInv, CallInv, TypeOK, Content

LEMMA FetchedAt ==
    ASSUME NEW p \in Page
    PROVE  Fetched[p] = IF frame[p] # None THEN frame[p] ELSE cached[handle][p]
BY DEF Fetched

LEMMA FetchedFacts ==
    ASSUME SwapInv, running, ~Stale
    PROVE  /\ Fetched[Meta] # None /\ OneLayout(Fetched)
           /\ GenOf(Fetched) = GenOf(cached[handle])
           /\ Behind(cached[handle], Fetched)
<1>1. OneLayout(cached[handle]) /\ Fetched[Meta] # None
  BY DEF SwapInv, FileInv, FrameInv, Reachable
<1>2. \A p \in Page : Fetched[p] # None => Fetched[p].gen = GenOf(cached[handle])
  BY <1>1, FetchedAt DEF SwapInv, FrameInv, OneLayout
<1>3. GenOf(Fetched) = GenOf(cached[handle])
  BY <1>1, <1>2, PageFacts DEF GenOf
<1>4. Behind(cached[handle], Fetched)
  <2> SUFFICES ASSUME NEW p \in Page, cached[handle][p] # None
               PROVE  /\ Fetched[p] # None /\ Fetched[p].gen = cached[handle][p].gen
                      /\ cached[handle][p].rows \subseteq Fetched[p].rows
    BY DEF Behind
  <2>1. cached[handle][p].gen = GenOf(cached[handle])
    BY <1>1 DEF OneLayout
  <2>2. CASE frame[p] = None
    BY <2>2, FetchedAt
  <2>3. CASE frame[p] # None
    BY <2>1, <2>3, FetchedAt DEF SwapInv, FrameInv
  <2> QED BY <2>2, <2>3
<1> QED BY <1>1, <1>2, <1>3, <1>4 DEF OneLayout

LEMMA Unlocked ==
    ASSUME SwapInv, PoisonInv, lock = None, ~poisoned
    PROVE  ~Stale
BY NoneAssumption DEF SwapInv, CallInv, CallsInv, PoisonInv, Swapping, Stale

(* While the frames are stale there is nothing to write.                      *)
LEMMA StaleIsClean == ASSUME SwapInv, Stale PROVE dirty = {}
BY DEF SwapInv, CallInv, CallsInv, ThreadInv, VacuumOk, Stale

LEMMA StaleFacts ==
    ASSUME SwapInv, Stale
    PROVE  Whole(cached[handle]) /\ inserted \subseteq RowsIn(cached[handle])
<1> PICK t \in Threads : pc[t] \in {"clear", "asserted"}
  BY DEF Stale
<1>1. Whole(durable[handle]) /\ inserted \subseteq RowsIn(durable[handle])
  BY DEF SwapInv, CallInv, CallsInv, ThreadInv, VacuumOk, Durably
<1>2. Behind(durable[handle], cached[handle])
  BY DEF SwapInv, FileInv, Reachable
<1> QED BY <1>1, <1>2, StateTypes, BehindWhole, BehindRows

(* Every inserted row is on its page, in a frame or in the file.              *)
LEMMA InsertedRows ==
    ASSUME SwapInv, running, NEW r \in inserted
    PROVE  /\ PageOf(r) \in Page
           /\ Stale => InFile(r)
           /\ ~Stale => Fetched[PageOf(r)] # None /\ r \in Fetched[PageOf(r)].rows
<1>1. r \in Row /\ cached[handle] \in Content /\ Fetched \in Content
  BY StateTypes
<1>2. PageOf(r) \in Page
  BY <1>1, GenType, Homes DEF PageOf
<1>3. CASE Stale
  <2>1. OneLayout(cached[handle]) /\ r \in RowsIn(cached[handle])
    BY <1>3, StaleFacts DEF SwapInv, FileInv, Reachable
  <2> QED BY <1>1, <1>2, <1>3, <2>1, RowFound DEF InFile, PageOf
<1>4. CASE ~Stale
  <2>1. OneLayout(Fetched) /\ GenOf(Fetched) = GenOf(cached[handle])
    BY <1>4, FetchedFacts
  <2>2. r \in RowsIn(Fetched)
    BY <1>4 DEF SwapInv, FrameInv
  <2> QED BY <1>1, <1>2, <1>4, <2>1, <2>2, RowFound DEF PageOf
<1> QED BY <1>3, <1>4

(* write_page of a dirty frame brings the file closer to the frames.          *)
LEMMA WritePage ==
    ASSUME SwapInv, running, NEW p \in dirty
    PROVE  /\ \A i \in Inode \ {handle} : Written(p)[i] = cached[i]
           /\ Written(p)[handle] \in Content
           /\ \A q \in Page :
                Written(p)[handle][q] = IF q = p THEN frame[p] ELSE cached[handle][q]
           /\ Behind(cached[handle], Written(p)[handle])
           /\ Behind(Written(p)[handle], Fetched)
           /\ OneLayout(Written(p)[handle])
           /\ GenOf(Written(p)[handle]) = GenOf(cached[handle])
<1> DEFINE c == cached[handle]
           d == Written(p)[handle]
<1>1. p \in Page /\ frame[p] # None /\ handle \in Inode /\ ~Stale /\ c \in Content
  BY StateTypes, StaleIsClean
<1>2. Written(p) \in [Inode -> [Page -> Bodies]] /\ d \in Content
      /\ \A q \in Page : d[q] = IF q = p THEN frame[p] ELSE c[q]
  BY <1>1, WrittenType DEF SwapInv, CallInv, Content
<1>3. \A i \in Inode \ {handle} : Written(p)[i] = cached[i]
  BY <1>1 DEF Written, SwapInv, CallInv, TypeOK
<1>4. OneLayout(c) /\ frame[p].gen = GenOf(c) /\ (c[p] # None => c[p].rows \subseteq frame[p].rows)
  BY <1>1 DEF SwapInv, FileInv, FrameInv, Reachable
<1> HIDE DEF c, d
<1>5. GenOf(d) = GenOf(c)
  BY <1>1, <1>2, <1>4, PageFacts DEF GenOf
<1>6. OneLayout(d)
  BY <1>1, <1>2, <1>4, <1>5 DEF OneLayout
<1>7. Behind(c, d)
  BY <1>1, <1>2, <1>4 DEF Behind, OneLayout
<1>8. Behind(d, Fetched)
  <2>1. Behind(c, Fetched)
    BY <1>1, FetchedFacts DEF c
  <2>2. Fetched[p] = frame[p]
    BY <1>1, FetchedAt
  <2> QED BY <1>1, <1>2, <2>1, <2>2 DEF Behind
<1> QED BY <1>2, <1>3, <1>5, <1>6, <1>7, <1>8 DEF c, d

-----------------------------------------------------------------------------
(* Steps of one kind.                                                         *)

(* The process is gone; the files and their names are given.                  *)
LEMMA GoneStep ==
    ASSUME CallInv', Gone, handle' = main',
           \A i \in perhaps' : /\ OneLayout(cached'[i])
                               /\ Behind(durable'[i], cached'[i])
                               /\ Whole(durable'[i]) \/ GenOf(cached'[i]) = 0
                               /\ founded' \/ perhaps' # {main'} => Whole(durable'[i])
                               /\ Reliable => /\ saved' \subseteq RowsIn(durable'[i])
                                              /\ RowsIn(cached'[i]) \subseteq RowsIn(cached'[main'])
    PROVE  SwapInv'
<1>1. /\ ~running' /\ main' \in perhaps' /\ Reachable' = perhaps'
      /\ \A t \in Threads : /\ pc'[t] = "idle" /\ job'[t] = "none"
                             /\ todo'[t] = {} /\ scanned'[t] = {}
  BY DEF Gone, CallInv, TypeOK, Reachable
<1>2. FileInv' /\ WholeInv'
  BY <1>1 DEF FileInv, WholeInv
<1>3. NameInv' /\ FrameInv'
  BY <1>1 DEF NameInv, FrameInv
<1>4. RowInv'
  BY <1>1 DEF RowInv, TableRows
<1>5. ThreadInv'
  BY <1>1 DEF ThreadInv, FlushOk, VacuumOk, TempOk
<1> QED BY <1>2, <1>3, <1>4, <1>5 DEF SwapInv

(* One thread's call goes on, outside the window in which vacuum changes the  *)
(* names of the files.                                                        *)
LEMMA CallStep ==
    ASSUME SwapInv, CallInv', NEW t \in Threads,
           UNCHANGED <<cached, durable, main, perhaps, temp, handle, running, frame, dirty, ghosts>>,
           \A u \in Threads \ {t} :
              /\ pc'[u] = pc[u] /\ job'[u] = job[u] /\ todo'[u] = todo[u]
              /\ scanned'[u] = scanned[u] /\ gen'[u] = gen[u],
           Reliable => pc[t] \notin {"dirsync", "reopen"}, pc[t] \notin {"clear", "asserted"},
           pc'[t] \notin {"dirsync", "reopen", "clear", "asserted"},
           FlushOk(t)', VacuumOk(t)', TempOk(t)'
    PROVE  SwapInv'
<1>1. Stale' = Stale
  BY DEF Stale
<1>2. Fetched' = Fetched
  BY DEF Fetched
<1>3. UNCHANGED <<inserted, saved, founded>>
  BY DEF ghosts
<1>4. FileInv' /\ WholeInv' /\ RowInv'
  BY <1>3 DEF SwapInv, FileInv, WholeInv, RowInv, TableRows, Reachable
<1>5. NameInv'
  BY DEF SwapInv, NameInv, Reachable
<1>6. FrameInv'
  BY <1>1, <1>2, <1>3 DEF SwapInv, FrameInv
<1>7. ASSUME NEW u \in Threads, u # t PROVE FlushOk(u)' /\ VacuumOk(u)' /\ TempOk(u)'
  <2>1. FlushOk(u)'
    BY <1>1, <1>2, <1>3, <1>7 DEF SwapInv, ThreadInv, FlushOk, PageOf, InFile
  <2>2. VacuumOk(u)'
    BY <1>1, <1>2, <1>3, <1>7 DEF SwapInv, ThreadInv, VacuumOk, Durably
  <2>3. TempOk(u)'
    BY <1>7 DEF SwapInv, ThreadInv, TempOk
  <2> QED BY <2>1, <2>2, <2>3
<1> QED BY <1>4, <1>5, <1>6, <1>7 DEF SwapInv, ThreadInv

(* The pages written reach the file, nothing else changes but a frame that is *)
(* given up: eviction and flush_all.                                          *)
LEMMA WriteStep ==
    ASSUME SwapInv, CallInv', running, NEW p \in Page,
           cached' = IF p \in dirty THEN Written(p) ELSE cached,
           dirty' = dirty \ {p},
           \/ frame' = frame
           \/ ~Stale /\ frame' = [frame EXCEPT ![p] = None],
           UNCHANGED <<durable, main, perhaps, temp, handle, running, pc, job, scanned, gen, ghosts>>,
           \A u \in Threads : /\ todo'[u] \subseteq todo[u]
                              /\ todo[u] \ todo'[u] \subseteq {p}
    PROVE  SwapInv' /\ (~Stale => Fetched' = Fetched)
<1> DEFINE c == cached[handle]
           d == cached'[handle]
<1>1. UNCHANGED <<inserted, saved, founded>> /\ Stale' = Stale /\ handle \in Inode
  BY StateTypes DEF ghosts, Stale
<1>2. /\ \A i \in Inode \ {handle} : cached'[i] = cached[i]
      /\ d \in Content /\ Behind(c, d) /\ OneLayout(d) /\ GenOf(d) = GenOf(c)
      /\ ~Stale => Behind(d, Fetched)
      /\ \A q \in Page : d[q] = IF q = p /\ p \in dirty THEN frame[p] ELSE c[q]
  <2>1. CASE p \in dirty
    BY <1>1, <2>1, WritePage
  <2>2. CASE p \notin dirty
    BY <1>1, <2>2, StateTypes, BehindSelf, FetchedFacts DEF SwapInv, FileInv, Reachable
  <2> QED BY <2>1, <2>2
<1>3. ~Stale => Fetched' = Fetched
  <2> SUFFICES ASSUME ~Stale, NEW q \in Page PROVE Fetched'[q] = Fetched[q]
    BY DEF Fetched
  <2>1. Fetched'[q] = IF frame'[q] # None THEN frame'[q] ELSE d[q]
    BY DEF Fetched
  <2>2. frame[q] # None /\ q \notin dirty => frame[q] = c[q]
    BY DEF SwapInv, FrameInv
  <2>3. frame'[q] = frame[q] \/ (q = p /\ frame'[q] = None)
    BY StateTypes DEF Content
  <2>4. q \in dirty => frame[q] # None
    BY StateTypes
  <2> QED BY <1>2, <2>1, <2>2, <2>3, <2>4, FetchedAt
<1>4. ~Stale => d[p] = Fetched[p]
  <2>1. frame[p] # None /\ p \notin dirty /\ ~Stale => frame[p] = c[p]
    BY DEF SwapInv, FrameInv
  <2>2. p \in dirty => frame[p] # None
    BY StateTypes
  <2> QED BY <1>2, <2>1, <2>2, FetchedAt
<1>5. Stale => d = c
  BY StaleIsClean
<1>6. FileInv'
  <2>1. OneLayout(d) /\ Behind(durable[handle], d) /\ (Whole(durable[handle]) \/ GenOf(d) = 0)
    <3>1. Behind(durable[handle], c) /\ (Whole(durable[handle]) \/ GenOf(c) = 0)
      BY DEF SwapInv, FileInv, Reachable
    <3> QED BY <1>2, <3>1, BehindOn
  <2>2. Reachable \subseteq Inode
    BY StateTypes DEF Reachable
  <2> QED BY <1>2, <2>1, <2>2 DEF SwapInv, FileInv, Reachable
<1>7. WholeInv' /\ NameInv'
  BY <1>1 DEF SwapInv, WholeInv, NameInv, Reachable
<1>8. FrameInv'
  <2> SUFFICES ASSUME ~Stale PROVE FrameInv'
    BY <1>1 DEF FrameInv
  <2>1. Fetched'[Meta] # None /\ RowsIn(Fetched') = inserted'
    BY <1>1, <1>3 DEF SwapInv, FrameInv
  <2>2. ASSUME NEW q \in Page, frame'[q] # None
        PROVE  /\ frame'[q].gen = GenOf(d)
               /\ d[q] # None => d[q].rows \subseteq frame'[q].rows
               /\ q \notin dirty' => frame'[q] = d[q]
    <3>1. frame'[q] = frame[q]
      BY <2>2, StateTypes DEF Content
    <3>2. /\ frame[q].gen = GenOf(c)
          /\ c[q] # None => c[q].rows \subseteq frame[q].rows
          /\ q \notin dirty => frame[q] = c[q]
      BY <2>2, <3>1 DEF SwapInv, FrameInv
    <3> QED BY <1>2, <3>1, <3>2
  <2> QED BY <2>1, <2>2 DEF FrameInv
<1>9. RowInv'
  <2>1. Reliable /\ handle \in perhaps => RowsIn(d) \subseteq inserted
    <3>1. CASE Stale
      BY <1>5, <3>1 DEF SwapInv, RowInv, TableRows
    <3>2. CASE ~Stale
      BY <1>2, <3>2, StateTypes, BehindRows DEF SwapInv, FrameInv
    <3> QED BY <3>1, <3>2
  <2>2. \A i \in perhaps \ {handle} : cached'[i] = cached[i]
    BY <1>2, StateTypes
  <2> QED BY <1>1, <2>1, <2>2 DEF SwapInv, RowInv, TableRows
<1>10. ASSUME NEW u \in Threads PROVE FlushOk(u)'
  <2> SUFFICES ASSUME pc[u] = "flush" PROVE FlushOk(u)'
    BY DEF SwapInv, ThreadInv, FlushOk
  <2>1. /\ scanned[u] \subseteq inserted
        /\ job[u] \in {"close", "drop"} => scanned[u] = inserted
        /\ Meta \in todo[u] \/ c[Meta] # None
        /\ job[u] = "create" => /\ Root \in todo[u] \/ c[Root] # None
                                /\ Stale \/ Fetched[Root] # None
        /\ \A r \in scanned[u] : PageOf(r) \in todo[u] \/ InFile(r)
    BY DEF SwapInv, ThreadInv, FlushOk
  <2>2. Meta \in todo'[u] \/ d[Meta] # None
    <3>1. Stale => c[Meta] # None
      BY StaleFacts DEF Whole
    <3>2. ~Stale => Fetched[Meta] # None
      BY DEF SwapInv, FrameInv
    <3> QED BY <1>2, <1>4, <1>5, <2>1, <3>1, <3>2, PageFacts DEF Behind
  <2>3. job[u] = "create" => Root \in todo'[u] \/ d[Root] # None
    <3>1. Stale => c[Root] # None
      BY StaleFacts, StateTypes, ContentFacts, PageFacts, Homes DEF Whole
    <3>2. c[Root] # None => d[Root] # None
      BY <1>2, PageFacts DEF Behind
    <3>3. Root \in todo[u] /\ Root \notin todo'[u] => p = Root
      OBVIOUS
    <3>4. job[u] = "create" /\ p = Root => d[Root] # None
      BY <1>4, <1>5, <2>1, <3>1
    <3> QED BY <2>1, <3>2, <3>3, <3>4
  <2>4. job[u] = "create" => Stale \/ Fetched'[Root] # None
    BY <1>3, <2>1
  <2>5. ASSUME NEW r \in scanned[u], PageOf(r) \notin todo'[u]
        PROVE  d[PageOf(r)] # None /\ r \in d[PageOf(r)].rows
    <3>1. r \in inserted /\ PageOf(r) \in Page
      BY <2>1, InsertedRows
    <3>2. CASE InFile(r)
      BY <1>2, <3>1, <3>2 DEF InFile, Behind
    <3>3. CASE ~InFile(r)
      <4>1. PageOf(r) = p /\ ~Stale
        BY <2>1, <2>5, <3>1, <3>3, InsertedRows
      <4> QED BY <1>4, <3>1, <4>1, InsertedRows
    <3> QED BY <3>2, <3>3
  <2>6. \A r \in scanned[u] : PageOf(r)' = PageOf(r)
    BY <1>2 DEF PageOf
  <2> QED BY <1>1, <2>1, <2>2, <2>3, <2>4, <2>5, <2>6 DEF FlushOk, InFile
<1>11. ASSUME NEW u \in Threads PROVE VacuumOk(u)'
  <2>1. dirty = {} => cached' = cached
    OBVIOUS
  <2> QED BY <1>1, <1>3, <2>1 DEF SwapInv, ThreadInv, VacuumOk, Durably
<1>12. ASSUME NEW u \in Threads PROVE TempOk(u)'
  <2>1. pc[u] \in {"sync", "rename"} => cached'[temp] = cached[temp]
    BY <1>2, SwapHoldsLock DEF SwapInv, Swapping
  <2> QED BY <2>1 DEF SwapInv, ThreadInv, TempOk
<1> QED BY <1>3, <1>6, <1>7, <1>8, <1>9, <1>10, <1>11, <1>12 DEF SwapInv, ThreadInv

(* The open file is synced, by the flush_all of t.                            *)
LEMMA SyncFacts ==
    ASSUME SwapInv, durable' = Synced(handle)
    PROVE  /\ durable'[handle] = cached[handle]
           /\ \A i \in Inode \ {handle} : durable'[i] = durable[i]
           /\ \A i \in Reachable : Behind(durable[i], durable'[i]) /\ durable'[i] \in Content
<1>1. durable'[handle] = cached[handle] /\ \A i \in Inode \ {handle} : durable'[i] = durable[i]
  BY DEF Synced, SwapInv, CallInv, TypeOK
<1>2. Reachable \subseteq Inode
  BY StateTypes DEF Reachable
<1>3. ASSUME NEW i \in Reachable PROVE Behind(durable[i], durable'[i]) /\ durable'[i] \in Content
  <2>1. CASE i = handle
    BY <1>1, <2>1, StateTypes DEF SwapInv, FileInv
  <2>2. CASE i # handle
    BY <1>1, <1>2, <2>2, StateTypes, BehindSelf
  <2> QED BY <2>1, <2>2
<1> QED BY <1>1, <1>3

LEMMA SyncStep ==
    ASSUME SwapInv, CallInv', NEW t \in Threads, pc[t] = "flush", pc'[t] \in {"idle", "lock"},
           durable' = Synced(handle),
           UNCHANGED <<cached, main, perhaps, temp, handle, running, frame, dirty, inserted>>,
           \A u \in Threads \ {t} :
              /\ pc'[u] = pc[u] /\ job'[u] = job[u] /\ todo'[u] = todo[u]
              /\ scanned'[u] = scanned[u] /\ gen'[u] = gen[u],
           \A i \in Reachable : founded' => Whole(durable'[i]),
           Reliable => \A i \in perhaps : saved' \subseteq RowsIn(durable'[i]),
           FlushOk(t)', VacuumOk(t)', TempOk(t)'
    PROVE  SwapInv'
<1>1. /\ Stale' = Stale /\ Fetched' = Fetched /\ Reachable' = Reachable
      /\ Reachable \subseteq Inode /\ handle \in Reachable /\ main \in Reachable
  BY StateTypes DEF Stale, Fetched, Reachable
<1>2. FileInv'
  <2>1. ASSUME NEW i \in Reachable
        PROVE  Behind(durable'[i], cached[i]) /\ (Whole(durable'[i]) \/ GenOf(cached[i]) = 0)
    <3>1. Whole(durable[i]) => Whole(durable'[i])
      BY <1>1, StateTypes, SyncFacts, BehindWhole
    <3>2. Behind(durable'[i], cached[i])
      BY <1>1, SyncFacts, BehindSelf DEF SwapInv, FileInv
    <3> QED BY <3>1, <3>2 DEF SwapInv, FileInv
  <2> QED BY <1>1, <2>1 DEF SwapInv, FileInv
<1>3. WholeInv' /\ NameInv'
  <2>1. \A i \in Reachable : Whole(durable[i]) => Whole(durable'[i])
    BY <1>1, StateTypes, SyncFacts, BehindWhole
  <2> QED BY <1>1, <2>1 DEF SwapInv, WholeInv, NameInv
<1>4. FrameInv'
  BY <1>1 DEF SwapInv, FrameInv
<1>5. RowInv'
  BY DEF SwapInv, RowInv, TableRows
<1>6. ASSUME NEW u \in Threads, u # t PROVE FlushOk(u)' /\ VacuumOk(u)' /\ TempOk(u)'
  <2>1. FlushOk(u)'
    BY <1>1, <1>6 DEF SwapInv, ThreadInv, FlushOk, PageOf, InFile
  <2>2. VacuumOk(u)'
    <3>1. ASSUME NEW i \in Reachable, Durably(i) PROVE Durably(i)'
      BY <1>1, <3>1, StateTypes, SyncFacts, BehindWhole, BehindRows DEF Durably
    <3> QED BY <1>1, <1>6, <3>1 DEF SwapInv, ThreadInv, VacuumOk, Durably
  <2>3. TempOk(u)'
    <3>1. pc[u] = "rename" => durable'[temp] = durable[temp]
      BY SyncFacts, SwapHoldsLock DEF SwapInv, Swapping
    <3> QED BY <1>6, <3>1 DEF SwapInv, ThreadInv, TempOk
  <2> QED BY <2>1, <2>2, <2>3
<1> QED BY <1>2, <1>3, <1>4, <1>5, <1>6 DEF SwapInv, ThreadInv

(* A step of vacuum on the file nobody else reaches.                          *)
LEMMA TempStep ==
    ASSUME SwapInv, CallInv', NEW t \in Threads,
           pc[t] \in {"create", "write", "sync", "rename"},
           pc'[t] \in {"create", "write", "sync", "rename"},
           \A i \in Reachable : cached'[i] = cached[i] /\ durable'[i] = durable[i],
           UNCHANGED <<main, perhaps, handle, running, frame, dirty, ghosts>>,
           UNCHANGED <<job, todo, scanned, gen>>,
           \A u \in Threads \ {t} : pc'[u] = pc[u],
           TempOk(t)'
    PROVE  SwapInv'
<1>1. UNCHANGED <<inserted, saved, founded>> /\ job[t] = "vacuum"
  BY DEF ghosts, SwapInv, CallInv, CallsInv
<1>2. /\ Stale' = Stale /\ Fetched' = Fetched /\ Reachable' = Reachable
      /\ cached'[handle] = cached[handle] /\ cached'[main] = cached[main]
      /\ durable'[main] = durable[main]
  BY StateTypes DEF Stale, Fetched, Reachable
<1>3. FileInv' /\ WholeInv' /\ NameInv'
  BY <1>1, <1>2 DEF SwapInv, FileInv, WholeInv, NameInv
<1>4. FrameInv'
  BY <1>1, <1>2 DEF SwapInv, FrameInv
<1>5. RowInv'
  BY <1>1, <1>2 DEF SwapInv, RowInv, TableRows, Reachable
<1>6. ASSUME NEW u \in Threads PROVE FlushOk(u)'
  BY <1>1, <1>2 DEF SwapInv, ThreadInv, FlushOk, PageOf, InFile
<1>7. ASSUME NEW u \in Threads PROVE VacuumOk(u)'
  <2>1. pc'[u] = "flush" <=> pc[u] = "flush"
    OBVIOUS
  <2>2. pc'[u] = "panicked" <=> pc[u] = "panicked"
    OBVIOUS
  <2>3. durable'[handle] = durable[handle]
    BY DEF Reachable
  <2> QED BY <1>1, <1>2, <2>1, <2>2, <2>3 DEF SwapInv, ThreadInv, VacuumOk, Durably
<1>8. ASSUME NEW u \in Threads, u # t PROVE TempOk(u)'
  BY <1>8, OneSwap DEF SwapInv, Swapping, TempOk
<1> QED BY <1>3, <1>4, <1>5, <1>6, <1>7, <1>8 DEF SwapInv, ThreadInv

-----------------------------------------------------------------------------
(* The process starts and ends.                                               *)

LEMMA EmptyFile ==
    ASSUME NEW c \in Content, \A p \in Page : c[p] = None
    PROVE  /\ OneLayout(c) /\ GenOf(c) = 0 /\ ~Whole(c) /\ RowsIn(c) = {}
           /\ \A d : Behind(c, d)
BY PageFacts DEF OneLayout, GenOf, Whole, RowsIn, Behind

LEMMA Init_SwapInv == ASSUME Init PROVE SwapInv
<1>1. CallInv
  BY Init_CallInv
<1>2. /\ Empty \in Content /\ \A p \in Page : Empty[p] = None
      /\ perhaps = {main} /\ handle = main /\ main \in Inode /\ ~running
      /\ cached[main] = Empty /\ durable[main] = Empty
  BY EmptyType DEF Init, Content
<1>3. FileInv
  BY <1>2, EmptyFile DEF FileInv, Reachable
<1>4. WholeInv /\ NameInv /\ FrameInv
  BY <1>2 DEF Init, WholeInv, NameInv, FrameInv, Reachable
<1>5. RowInv
  BY <1>2 DEF Init, RowInv, TableRows
<1>6. ThreadInv
  BY DEF Init, ThreadInv, FlushOk, VacuumOk, TempOk
<1> QED BY <1>1, <1>3, <1>4, <1>5, <1>6 DEF SwapInv

LEMMA Open_SwapInv == ASSUME SwapInv, Open PROVE SwapInv'
<1>1. /\ ~running /\ running' /\ handle = main /\ handle' = main /\ main' = main
      /\ perhaps' = (IF RenameSettles THEN {main} ELSE perhaps) /\ main \in perhaps
      /\ inserted' = RowsIn(cached[main]) /\ cached[main][Meta] # None
      /\ frame' = [Empty EXCEPT ![Meta] = cached[main][Meta]]
      /\ UNCHANGED <<cached, durable, dirty, calls, saved, founded>>
      /\ \A t \in Threads : pc'[t] = "idle"
  BY DEF Open, SwapInv, CallInv, CallsInv, TypeOK, calls
<1>2. \A p \in Page : frame'[p] = IF p = Meta THEN cached[main][Meta] ELSE None
  BY <1>1, EmptyType
<1>3. Fetched' = cached[main]
  <2>1. cached[main] \in Content
    BY StateTypes
  <2>2. Fetched' = [p \in Page |-> IF frame'[p] # None THEN frame'[p] ELSE cached[main][p]]
    BY <1>1 DEF Fetched
  <2>3. \A p \in Page : Fetched'[p] = cached[main][p]
    BY <1>2, <2>2
  <2> QED BY <2>1, <2>2, <2>3 DEF Content
<1>4. CallInv'
  BY Open_CallInv DEF SwapInv
<1>5. FileInv' /\ WholeInv'
  BY <1>1 DEF SwapInv, FileInv, WholeInv, Reachable
<1>6. NameInv'
  BY <1>1 DEF NameInv, Reliable, Reachable
<1>7. FrameInv'
  <2>1. OneLayout(cached[main])
    BY <1>1 DEF SwapInv, FileInv, Reachable
  <2> QED BY <1>1, <1>2, <1>3, <2>1, PageFacts DEF FrameInv, OneLayout
<1>8. RowInv'
  BY <1>1 DEF SwapInv, RowInv, TableRows
<1>9. ThreadInv'
  BY <1>1, <1>4 DEF SwapInv, CallInv, CallsInv, ThreadInv, FlushOk, VacuumOk, TempOk, calls
<1> QED BY <1>4, <1>5, <1>6, <1>7, <1>8, <1>9 DEF SwapInv

LEMMA Create_SwapInv ==
    ASSUME SwapInv, NEW t \in Threads, Create(t)
    PROVE  SwapInv'
<1> DEFINE c == cached[main]
<1>1. /\ ~running /\ running' /\ handle = main /\ handle' = main /\ inserted = {}
      /\ main \in perhaps /\ c \in Content /\ \A p \in Page : c[p] = None
      /\ dirty' = {Meta, Root} /\ pc' = [pc EXCEPT ![t] = "flush"]
      /\ job' = [job EXCEPT ![t] = "create"] /\ todo' = [todo EXCEPT ![t] = Page]
      /\ UNCHANGED <<cached, durable, main, perhaps, scanned, ghosts>>
      /\ \A u \in Threads : pc[u] = "idle"
  BY StateTypes DEF Create, SwapInv, CallInv, CallsInv
<1>2. \A p \in Page : frame'[p] = IF p \in {Meta, Root} THEN Body(0, {}) ELSE None
  BY DEF Create
<1>3. Body(0, {}) # None /\ Body(0, {}).gen = 0 /\ Body(0, {}).rows = {}
  BY BodyType, LayoutAssumption DEF Body
<1>4. OneLayout(c) /\ GenOf(c) = 0 /\ ~Whole(c) /\ RowsIn(c) = {}
  BY <1>1, EmptyFile
<1>5. ~Whole(durable[main])
  BY <1>1, <1>4, StateTypes, BehindWhole DEF SwapInv, FileInv, Reachable
<1>6. Reachable = {main} /\ perhaps = {main} /\ ~founded
  BY <1>1, <1>5 DEF SwapInv, WholeInv, Reachable
<1>7. \A p \in Page : Fetched'[p] = frame'[p]
  BY <1>1, <1>2 DEF Fetched
<1>8. CallInv'
  BY Create_CallInv DEF SwapInv
<1>9. FileInv' /\ WholeInv'
  BY <1>1, <1>6 DEF SwapInv, FileInv, WholeInv, Reachable, ghosts
<1>10. NameInv'
  BY <1>1, <1>6 DEF NameInv, Reachable
<1>11. RowsIn(Fetched') = {}
  <2> SUFFICES ASSUME NEW r \in RowsIn(Fetched') PROVE FALSE
    OBVIOUS
  <2>1. Fetched'[Meta].gen = 0
    BY <1>2, <1>3, <1>7, PageFacts
  <2>2. r \in Row /\ r \in Fetched'[Home[0][r]].rows /\ Home[0][r] = Root
    BY <2>1, LayoutAssumption DEF RowsIn
  <2> QED BY <1>2, <1>3, <1>7, <2>2, PageFacts
<1>12. FrameInv'
  <2>1. Fetched'[Meta] # None /\ RowsIn(Fetched') = inserted'
    BY <1>1, <1>2, <1>3, <1>7, <1>11, PageFacts DEF ghosts
  <2> QED BY <1>1, <1>2, <1>3, <1>4, <2>1 DEF FrameInv
<1>13. RowInv'
  BY <1>1, <1>4, <1>6 DEF SwapInv, RowInv, TableRows, ghosts
<1>14. ThreadInv'
  <2>1. ASSUME NEW u \in Threads, u # t PROVE pc'[u] = "idle" /\ job'[u] = "none" /\ scanned'[u] = {}
    BY <1>1, <2>1 DEF SwapInv, CallInv, CallsInv, CallsType, ThreadInv, FlushOk
  <2>2. /\ pc'[t] = "flush" /\ job'[t] = "create" /\ todo'[t] = Page /\ scanned'[t] = {}
    BY <1>1 DEF SwapInv, CallInv, CallsType, ThreadInv, FlushOk
  <2>3. FlushOk(t)'
    BY <1>2, <1>3, <1>7, <2>2, PageFacts DEF FlushOk
  <2> QED BY <2>1, <2>2, <2>3 DEF ThreadInv, FlushOk, VacuumOk, TempOk
<1> QED BY <1>8, <1>9, <1>10, <1>12, <1>13, <1>14 DEF SwapInv

(* In the window, every inserted row is durable in the file now named.        *)
LEMMA MainHasMost ==
    ASSUME Reliable, SwapInv, running, NEW i \in perhaps
    PROVE  RowsIn(cached[i]) \subseteq RowsIn(cached[main])
<1>1. CASE i = main
  BY <1>1
<1>2. CASE i # main
  <2> PICK u \in Threads : pc[u] \in {"dirsync", "reopen"}
    BY <1>2 DEF SwapInv, NameInv, Reachable
  <2>1. inserted \subseteq RowsIn(durable[main])
    BY DEF SwapInv, CallInv, CallsInv, ThreadInv, VacuumOk, Durably
  <2>2. RowsIn(durable[main]) \subseteq RowsIn(cached[main])
    BY StateTypes, BehindRows DEF SwapInv, FileInv, Reachable
  <2>3. RowsIn(cached[i]) \subseteq inserted
    BY DEF SwapInv, RowInv, TableRows
  <2> QED BY <2>1, <2>2, <2>3
<1> QED BY <1>1, <1>2

LEMMA Kill_SwapInv == ASSUME SwapInv, Kill PROVE SwapInv'
<1>1. /\ Gone /\ handle' = main' /\ running
      /\ UNCHANGED <<main, perhaps, saved, founded>>
      /\ \A i \in perhaps : cached'[i] = cached[i] /\ durable'[i] = durable[i]
      /\ main \in perhaps
  BY StateTypes DEF Kill, Cleared
<1>2. CallInv'
  BY Kill_CallInv DEF SwapInv
<1>3. ASSUME NEW i \in perhaps
      PROVE  /\ OneLayout(cached'[i])
             /\ Behind(durable'[i], cached'[i])
             /\ Whole(durable'[i]) \/ GenOf(cached'[i]) = 0
             /\ founded' \/ perhaps' # {main'} => Whole(durable'[i])
             /\ Reliable => /\ saved' \subseteq RowsIn(durable'[i])
                            /\ RowsIn(cached'[i]) \subseteq RowsIn(cached'[main'])
  BY <1>1, MainHasMost DEF SwapInv, FileInv, WholeInv, RowInv, Reachable
<1> QED BY <1>1, <1>2, <1>3, GoneStep

(* Any part of what was not synced.                                           *)
LEMMA MixedFile ==
    ASSUME NEW c \in Content, NEW d \in Content, Behind(d, c),
           OneLayout(c), Whole(d) \/ GenOf(c) = 0, NEW m \in Content,
           \A p \in Page : m[p] \in {c[p], d[p]}
    PROVE  /\ OneLayout(m) /\ (Whole(m) \/ GenOf(m) = 0)
           /\ Behind(d, m) /\ Behind(m, c)
<1>1. Behind(d, m) /\ Behind(m, c)
  BY DEF Behind
<1>2. Whole(d) => Whole(m)
  BY <1>1, BehindWhole
<1>3. \A p \in Page : m[p] # None => m[p].gen = GenOf(c)
  BY <1>1 DEF Behind, OneLayout
<1>4. m[Meta] # None => GenOf(m) = GenOf(c)
  BY <1>3, PageFacts DEF GenOf
<1>5. m[Meta] = None => GenOf(m) = 0 /\ ~Whole(m)
  BY DEF GenOf, Whole
<1> QED BY <1>1, <1>2, <1>3, <1>4, <1>5 DEF OneLayout

LEMMA Crash_SwapInv == ASSUME SwapInv, Crash PROVE SwapInv'
<1> PICK i \in perhaps : \E kept \in SUBSET {p \in Page : cached[i][p] # durable[i][p]} :
       LET left == [p \in Page |-> IF p \in kept THEN cached[i][p] ELSE durable[i][p]]
       IN /\ main' = i /\ perhaps' = {i} /\ handle' = i
          /\ cached' = [[j \in Inode |-> Empty] EXCEPT ![i] = left]
          /\ durable' = cached'
  BY DEF Crash
<1> PICK kept \in SUBSET Page :
       LET left == [p \in Page |-> IF p \in kept THEN cached[i][p] ELSE durable[i][p]]
       IN /\ main' = i /\ perhaps' = {i} /\ handle' = i
          /\ cached' = [[j \in Inode |-> Empty] EXCEPT ![i] = left]
          /\ durable' = cached'
  OBVIOUS
<1> DEFINE m == [p \in Page |-> IF p \in kept THEN cached[i][p] ELSE durable[i][p]]
<1>1. /\ i \in Inode /\ cached[i] \in Content /\ durable[i] \in Content
      /\ main' = i /\ perhaps' = {i} /\ handle' = i
      /\ cached'[i] = m /\ durable'[i] = m
  BY StateTypes
<1>2. m \in Content /\ \A p \in Page : m[p] \in {cached[i][p], durable[i][p]}
  BY <1>1 DEF Content
<1> HIDE DEF m
<1>3. /\ OneLayout(m) /\ (Whole(m) \/ GenOf(m) = 0)
      /\ Behind(durable[i], m)
  BY <1>1, <1>2, MixedFile DEF SwapInv, FileInv, Reachable
<1>4. (Reliable => saved \subseteq RowsIn(m)) /\ (founded => Whole(m))
  BY <1>1, <1>2, <1>3, BehindRows, BehindWhole DEF SwapInv, WholeInv, RowInv, Reachable
<1>5. Gone /\ UNCHANGED <<saved, founded>>
  BY DEF Crash
<1>6. CallInv'
  BY Crash_CallInv DEF SwapInv
<1>7. ASSUME NEW j \in perhaps'
      PROVE  /\ OneLayout(cached'[j])
             /\ Behind(durable'[j], cached'[j])
             /\ Whole(durable'[j]) \/ GenOf(cached'[j]) = 0
             /\ founded' \/ perhaps' # {main'} => Whole(durable'[j])
             /\ Reliable => /\ saved' \subseteq RowsIn(durable'[j])
                            /\ RowsIn(cached'[j]) \subseteq RowsIn(cached'[main'])
  <2>1. j = i /\ Behind(m, m)
    BY <1>1, BehindSelf
  <2> QED BY <1>1, <1>3, <1>4, <1>5, <2>1
<1>8. handle' = main'
  BY <1>1
<1> QED BY <1>5, <1>6, <1>7, <1>8, GoneStep

-----------------------------------------------------------------------------
(* Rows and frames.                                                           *)

LEMMA Insert_SwapInv ==
    ASSUME SwapInv, PoisonInv, NEW r \in Row, Insert(r)
    PROVE  SwapInv'
<1> DEFINE p == Home[Fetched[Meta].gen][r]
           b == [Fetched[p] EXCEPT !.rows = @ \cup {r}]
           g == GenOf(cached[handle])
<1>1. /\ running /\ ~Stale /\ lock = None /\ ~Quitting /\ ~Vacuuming
      /\ Fetched[p] # None /\ frame' = [frame EXCEPT ![p] = b] /\ dirty' = dirty \cup {p}
      /\ inserted' = inserted \cup {r}
      /\ UNCHANGED <<cached, durable, main, perhaps, temp, handle, running, calls, saved, founded>>
  BY Unlocked DEF Insert, CanFetch, files
<1>2. /\ Fetched[Meta] # None /\ OneLayout(Fetched) /\ GenOf(Fetched) = g /\ Fetched \in Content
      /\ Fetched[Meta].gen = g /\ Behind(cached[handle], Fetched)
  BY <1>1, FetchedFacts, StateTypes DEF GenOf
<1>3. p \in Page /\ p = Home[g][r]
  BY <1>2, GenType, Homes
<1>4. /\ b # None /\ b.gen = g /\ b.rows = Fetched[p].rows \cup {r}
      /\ b \in [gen : Gens, rows : SUBSET Row]
  <2>1. Fetched[p] \in [gen : Gens, rows : SUBSET Row] /\ Fetched[p].gen = g
    BY <1>1, <1>2, <1>3, Bodily DEF Content, OneLayout
  <2>2. b \in [gen : Gens, rows : SUBSET Row] /\ b.gen = g /\ b.rows = Fetched[p].rows \cup {r}
    BY <2>1
  <2> QED BY <2>2, NoneAssumption
<1> HIDE DEF p, b, g
<1>5. /\ \A q \in Page : frame'[q] = IF q = p THEN b ELSE frame[q]
      /\ \A q \in Page : Fetched'[q] = IF q = p THEN b ELSE Fetched[q]
  BY <1>1, <1>3, <1>4, StateTypes DEF Fetched, Content
<1>6. CallInv' /\ Fetched' \in Content
  <2>1. CallInv'
    BY Insert_CallInv DEF SwapInv
  <2>2. \A q \in Page : Fetched'[q] \in Bodies
    BY <1>2, <1>4, <1>5 DEF Content, Bodies
  <2> QED BY <2>1, <2>2 DEF Content, Fetched
<1>7. Stale' = Stale /\ Reachable' = Reachable
  BY <1>1 DEF Stale, Reachable, calls
<1>8. FileInv' /\ WholeInv' /\ NameInv'
  BY <1>1, <1>7 DEF SwapInv, FileInv, WholeInv, NameInv, calls
<1>9. RowsIn(Fetched') = inserted'
  <2>1. /\ Fetched'[Meta] # None /\ OneLayout(Fetched') /\ GenOf(Fetched') = g
    BY <1>2, <1>4, <1>5, PageFacts DEF OneLayout, GenOf
  <2>2. RowsIn(Fetched) = inserted
    BY <1>1 DEF SwapInv, FrameInv
  <2>3. ASSUME NEW s \in Row PROVE s \in RowsIn(Fetched') <=> s \in inserted \/ s = r
    <3> DEFINE q == Home[g][s]
    <3>1. q \in Page
      BY <1>2, GenType, Homes DEF g
    <3>2. s \in RowsIn(Fetched') <=> Fetched'[q] # None /\ s \in Fetched'[q].rows
      BY <1>6, <2>1, RowFound
    <3>3. s \in inserted <=> Fetched[q] # None /\ s \in Fetched[q].rows
      BY <1>2, <2>2, RowFound
    <3>4. s = r => q = p
      BY <1>3
    <3> HIDE DEF q
    <3> QED BY <1>1, <1>4, <1>5, <3>1, <3>2, <3>3, <3>4
  <2> QED BY <1>1, <2>3, RowsInType, StateTypes
<1>10. FrameInv'
  <2>1. Fetched'[Meta] # None
    BY <1>2, <1>4, <1>5, PageFacts
  <2>2. ASSUME NEW q \in Page, frame'[q] # None
        PROVE  /\ frame'[q].gen = g
               /\ cached[handle][q] # None => cached[handle][q].rows \subseteq frame'[q].rows
               /\ q \notin dirty' => frame'[q] = cached[handle][q]
    <3>1. CASE q = p
      BY <1>1, <1>2, <1>4, <1>5, <3>1 DEF Behind
    <3>2. CASE q # p
      BY <1>1, <1>5, <2>2, <3>2 DEF SwapInv, FrameInv, g
    <3> QED BY <3>1, <3>2
  <2> QED BY <1>1, <1>9, <2>1, <2>2 DEF FrameInv, g
<1>11. RowInv'
  BY <1>1 DEF SwapInv, RowInv, TableRows
<1>12. ASSUME NEW u \in Threads PROVE FlushOk(u)' /\ VacuumOk(u)' /\ TempOk(u)'
  <2>1. job[u] \notin {"close", "drop", "vacuum"}
    BY <1>1 DEF Quitting, Vacuuming
  <2>2. Stale \/ Fetched[Root] # None => Stale' \/ Fetched'[Root] # None
    BY <1>4, <1>5, <1>7, PageFacts
  <2>3. FlushOk(u)'
    BY <1>1, <2>1, <2>2 DEF SwapInv, ThreadInv, FlushOk, PageOf, InFile, calls
  <2>4. VacuumOk(u)' /\ TempOk(u)'
    BY <1>1, <2>1 DEF SwapInv, CallInv, CallsInv, ThreadInv, VacuumOk, TempOk, calls
  <2> QED BY <2>3, <2>4
<1> QED BY <1>6, <1>8, <1>10, <1>11, <1>12 DEF SwapInv, ThreadInv

LEMMA Load_SwapInv ==
    ASSUME SwapInv, PoisonInv, NEW p \in Page, Load(p)
    PROVE  SwapInv' /\ UNCHANGED <<files, running, calls, ghosts>>
<1>1. /\ running /\ ~Stale /\ frame[p] = None /\ Fetched[p] # None
      /\ frame' = [frame EXCEPT ![p] = Fetched[p]]
      /\ UNCHANGED <<cached, durable, main, perhaps, temp, handle, running, dirty, pc, job, todo,
                     scanned, gen, inserted, saved, founded>>
  BY Unlocked DEF Load, CanFetch, files, calls, ghosts
<1>2. Fetched[p] = cached[handle][p]
  BY <1>1, FetchedAt
<1>3. \A q \in Page : frame'[q] = IF q = p THEN cached[handle][p] ELSE frame[q]
  BY <1>1, <1>2, StateTypes DEF Content
<1>4. Fetched' = Fetched
  BY <1>1, <1>2, <1>3 DEF Fetched
<1>5. Stale' = Stale /\ Reachable' = Reachable
  BY <1>1 DEF Stale, Reachable
<1>6. CallInv'
  BY Load_CallInv DEF SwapInv
<1>7. FileInv' /\ WholeInv' /\ NameInv' /\ RowInv'
  BY <1>1, <1>5 DEF SwapInv, FileInv, WholeInv, NameInv, RowInv, TableRows
<1>8. FrameInv'
  <2>1. OneLayout(cached[handle])
    BY DEF SwapInv, FileInv, Reachable
  <2>2. cached[handle][p] # None
    BY <1>1, <1>2
  <2> QED BY <1>1, <1>3, <1>4, <1>5, <2>1, <2>2 DEF SwapInv, FrameInv, OneLayout
<1>9. ThreadInv'
  <2>1. ASSUME NEW u \in Threads PROVE FlushOk(u)'
    BY <1>1, <1>4, <1>5 DEF SwapInv, ThreadInv, FlushOk, PageOf, InFile
  <2>2. ASSUME NEW u \in Threads PROVE VacuumOk(u)' /\ TempOk(u)'
    BY <1>1, <1>4, <1>5 DEF SwapInv, ThreadInv, VacuumOk, Durably, TempOk
  <2> QED BY <2>1, <2>2 DEF ThreadInv
<1>10. UNCHANGED <<files, running, calls, ghosts>>
  BY DEF Load
<1> QED BY <1>6, <1>7, <1>8, <1>9, <1>10 DEF SwapInv

LEMMA Evict_SwapInv ==
    ASSUME SwapInv, PoisonInv, NEW p \in Page, Evict(p)
    PROVE  SwapInv'
<1>1. running /\ ~Stale
  BY Unlocked DEF Evict, CanFetch
<1>2. CallInv'
  BY Evict_CallInv DEF SwapInv
<1> QED BY <1>1, <1>2, WriteStep DEF Evict, NowClean, calls

-----------------------------------------------------------------------------
(* Calls.                                                                     *)

LEMMA Begin_SwapInv ==
    ASSUME SwapInv, PoisonInv, NEW t \in Threads, NEW call \in {"flush", "close", "drop", "vacuum"},
           Begin(t, call)
    PROVE  SwapInv'
<1>1. /\ running /\ pc[t] = "idle"
      /\ pc' = [pc EXCEPT ![t] = "flush"] /\ job' = [job EXCEPT ![t] = call]
      /\ todo' = [todo EXCEPT ![t] = Page]
      /\ scanned' = [scanned EXCEPT ![t] = IF call = "vacuum" THEN RowsIn(Fetched) ELSE inserted]
      /\ call = "vacuum" => CanFetch /\ Whole(Fetched)
      /\ UNCHANGED <<files, running, pool, ghosts>>
  BY DEF Begin
<1>2. CallInv'
  BY Begin_CallInv DEF SwapInv
<1>3. /\ pc'[t] = "flush" /\ job'[t] = call /\ todo'[t] = Page /\ scanned'[t] = inserted
      /\ inserted' = inserted /\ Stale' = Stale /\ Fetched' = Fetched
      /\ UNCHANGED <<cached, handle, dirty>>
  <2>1. call = "vacuum" => RowsIn(Fetched) = inserted
    BY <1>1, Unlocked DEF CanFetch, SwapInv, FrameInv
  <2> QED
    BY <1>1, <2>1 DEF files, pool, ghosts, SwapInv, CallInv, CallsType, Stale, Fetched
<1>4. FlushOk(t)'
  <2>1. \A r \in inserted : PageOf(r)' \in Page
    BY <1>1, <1>3, InsertedRows DEF PageOf
  <2> QED BY <1>3, <2>1, PageFacts DEF FlushOk
<1>5. VacuumOk(t)'
  <2>1. dirty \subseteq Page
    BY StateTypes
  <2> QED BY <1>1, <1>3, <2>1 DEF VacuumOk
<1>6. TempOk(t)'
  BY <1>3 DEF TempOk
<1>7. \A u \in Threads \ {t} :
         /\ pc'[u] = pc[u] /\ job'[u] = job[u] /\ todo'[u] = todo[u]
         /\ scanned'[u] = scanned[u] /\ gen'[u] = gen[u]
  BY DEF Begin, SwapInv, CallInv, CallsType
<1> QED BY <1>1, <1>2, <1>3, <1>4, <1>5, <1>6, <1>7, CallStep DEF files, pool

(* A call returns without a change to files or rows.                          *)
LEMMA Back ==
    ASSUME CallInv, NEW t \in Threads, Returned(t)
    PROVE  /\ pc'[t] = "idle" /\ job'[t] = "none" /\ scanned'[t] = {}
           /\ FlushOk(t)' /\ VacuumOk(t)' /\ TempOk(t)'
           /\ \A u \in Threads \ {t} :
                 /\ pc'[u] = pc[u] /\ job'[u] = job[u] /\ todo'[u] = todo[u]
                 /\ scanned'[u] = scanned[u] /\ gen'[u] = gen[u]
<1>1. pc'[t] = "idle" /\ job'[t] = "none" /\ scanned'[t] = {}
  BY DEF Returned, CallInv, CallsType
<1>2. FlushOk(t)' /\ VacuumOk(t)' /\ TempOk(t)'
  BY <1>1 DEF FlushOk, VacuumOk, TempOk
<1> QED BY <1>1, <1>2 DEF Returned, CallInv, CallsType

LEMMA GivesUp_SwapInv ==
    ASSUME SwapInv, NEW t \in Threads, GivesUp(t),
           pc[t] \in {"flush", "create", "sync", "rename", "dirsync", "reopen"},
           Reliable => pc[t] \notin {"dirsync", "reopen"}
    PROVE  SwapInv'
<1>1. CallInv'
  BY GivesUp_CallInv DEF SwapInv
<1>2. CASE job[t] = "drop"
  <2>1. /\ Gone /\ handle' = main'
        /\ UNCHANGED <<cached, durable, main, perhaps, saved, founded>>
    BY <1>2 DEF GivesUp
  <2>2. running
    BY DEF SwapInv, CallInv, CallsInv
  <2>3. \A i \in perhaps :
           /\ OneLayout(cached'[i])
           /\ Behind(durable'[i], cached'[i])
           /\ Whole(durable'[i]) \/ GenOf(cached'[i]) = 0
           /\ founded' \/ perhaps' # {main'} => Whole(durable'[i])
           /\ Reliable => /\ saved' \subseteq RowsIn(durable'[i])
                          /\ RowsIn(cached'[i]) \subseteq RowsIn(cached'[main'])
    BY <2>1, <2>2, MainHasMost DEF SwapInv, FileInv, WholeInv, RowInv, Reachable
  <2> QED BY <1>1, <2>1, <2>3, GoneStep
<1>3. CASE job[t] # "drop"
  <2>1. UNCHANGED <<cached, durable, main, perhaps, temp, handle, running, frame, dirty, ghosts>>
    BY <1>3 DEF GivesUp, files
  <2>2. CASE job[t] # "close"
    <3>1. Returned(t)
      BY <1>3, <2>2 DEF GivesUp
    <3> QED BY <1>1, <2>1, <3>1, Back, CallStep DEF SwapInv
  <2>3. CASE job[t] = "close"
    <3>1. /\ pc[t] = "flush"
          /\ pc' = [pc EXCEPT ![t] = "flush"] /\ job' = [job EXCEPT ![t] = "drop"]
          /\ todo' = [todo EXCEPT ![t] = Page] /\ UNCHANGED <<scanned, gen>>
      BY <1>3, <2>3 DEF GivesUp, SwapInv, CallInv, CallsInv
    <3>2. /\ pc'[t] = "flush" /\ job'[t] = "drop" /\ todo'[t] = Page
          /\ scanned'[t] = inserted /\ inserted' = inserted
          /\ \A u \in Threads \ {t} :
                /\ pc'[u] = pc[u] /\ job'[u] = job[u] /\ todo'[u] = todo[u]
                /\ scanned'[u] = scanned[u] /\ gen'[u] = gen[u]
      BY <2>1, <2>3, <3>1 DEF SwapInv, CallInv, CallsType, ThreadInv, FlushOk, ghosts
    <3>3. FlushOk(t)'
      <4>1. running
        BY <3>1 DEF SwapInv, CallInv, CallsInv
      <4>2. \A r \in inserted : PageOf(r)' \in Page
        BY <2>1, <4>1, InsertedRows DEF PageOf
      <4> QED BY <3>2, <4>2, PageFacts DEF FlushOk
    <3>4. VacuumOk(t)' /\ TempOk(t)'
      BY <3>2 DEF VacuumOk, TempOk
    <3> QED BY <1>1, <2>1, <3>1, <3>2, <3>3, <3>4, CallStep
  <2> QED BY <2>2, <2>3
<1> QED BY <1>2, <1>3

LEMMA FlushFrame_SwapInv ==
    ASSUME SwapInv, NEW t \in Threads, NEW p \in Page, FlushFrame(t, p)
    PROVE  SwapInv'
<1>1. running
  BY DEF FlushFrame, SwapInv, CallInv, CallsInv
<1>2. CallInv'
  BY FlushFrame_CallInv DEF SwapInv
<1>3. cached' = IF p \in dirty THEN Written(p) ELSE cached
  BY StateTypes DEF FlushFrame
<1>4. \A u \in Threads : todo'[u] \subseteq todo[u] /\ todo[u] \ todo'[u] \subseteq {p}
  BY DEF FlushFrame, SwapInv, CallInv, CallsType
<1> QED BY <1>1, <1>2, <1>3, <1>4, WriteStep DEF FlushFrame, NowClean

(* If nothing fails after a rename, a file in reach that is not open is the   *)
(* one vacuum has just made of all rows.                                      *)
LEMMA OtherFiles ==
    ASSUME Reliable, SwapInv, running, NEW i \in Reachable, i # handle
    PROVE  Durably(i)
<1>1. PICK u \in Threads : pc[u] \in {"dirsync", "reopen"}
  BY StateTypes DEF SwapInv, NameInv, Reachable
<1>2. Durably(main)
  BY <1>1 DEF SwapInv, CallInv, CallsInv, ThreadInv, VacuumOk
<1>3. i = main
  BY <1>1 DEF SwapInv, NameInv, Reachable
<1> QED BY <1>2, <1>3

(* When flush_all reaches its sync, the file has what it found.               *)
LEMMA Flushed ==
    ASSUME SwapInv, NEW t \in Threads, pc[t] = "flush", todo[t] = {}
    PROVE  /\ cached[handle][Meta] # None
           /\ scanned[t] \subseteq RowsIn(cached[handle]) /\ scanned[t] \subseteq inserted
           /\ job[t] = "create" => Whole(cached[handle])
           /\ job[t] = "vacuum" => Whole(cached[handle]) /\ dirty = {} /\ scanned[t] = inserted
<1> DEFINE c == cached[handle]
<1>1. /\ running /\ c \in Content /\ OneLayout(c) /\ Behind(durable[handle], c)
      /\ Whole(durable[handle]) \/ GenOf(c) = 0
  BY StateTypes DEF SwapInv, CallInv, CallsInv, FileInv, Reachable
<1>2. /\ c[Meta] # None /\ scanned[t] \subseteq inserted
      /\ job[t] = "create" => c[Root] # None
      /\ \A r \in scanned[t] : InFile(r)
  BY DEF SwapInv, ThreadInv, FlushOk
<1>3. scanned[t] \subseteq RowsIn(c)
  BY <1>1, <1>2, StateTypes, RowFound DEF InFile, PageOf
<1>4. job[t] = "create" => Whole(c)
  <2>1. Whole(durable[handle]) => Whole(c)
    BY <1>1, StateTypes, BehindWhole
  <2>2. GenOf(c) = 0 /\ job[t] = "create" => Whole(c)
    <3>1. PagesOf(0) = {Meta, Root}
      BY LayoutAssumption DEF PagesOf
    <3> QED BY <1>1, <1>2, <3>1, PageFacts DEF Whole, OneLayout, GenOf
  <2> QED BY <1>1, <2>1, <2>2
<1>5. job[t] = "vacuum" => Whole(c) /\ dirty = {} /\ scanned[t] = inserted
  <2> SUFFICES ASSUME job[t] = "vacuum" PROVE Whole(c) /\ dirty = {} /\ scanned[t] = inserted
    OBVIOUS
  <2>1. dirty = {} /\ scanned[t] = inserted /\ (Stale \/ Whole(Fetched))
    BY DEF SwapInv, ThreadInv, VacuumOk
  <2>2. CASE Stale
    BY <2>1, <2>2, StaleFacts
  <2>3. CASE ~Stale
    <3>1. \A p \in Page : Fetched[p] = c[p]
      BY <1>1, <2>1, <2>3, FetchedAt DEF SwapInv, FrameInv
    <3>2. Behind(Fetched, c)
      BY <3>1 DEF Behind
    <3> QED BY <1>1, <2>1, <2>3, <3>2, StateTypes, BehindWhole
  <2> QED BY <2>2, <2>3
<1> QED BY <1>2, <1>3, <1>4, <1>5

(* What the sync makes durable, in every file a crash may leave.              *)
LEMMA SavedNow ==
    ASSUME SwapInv, NEW t \in Threads, pc[t] = "flush", todo[t] = {},
           durable' = Synced(handle)
    PROVE  /\ scanned[t] \subseteq RowsIn(durable'[handle])
           /\ job[t] = "vacuum" => Whole(durable'[handle])
           /\ \A i \in Reachable :
                 /\ founded \/ job[t] = "create" => Whole(durable'[i])
                 /\ Reliable /\ i \in perhaps => saved \cup scanned[t] \subseteq RowsIn(durable'[i])
<1>1. /\ scanned[t] \subseteq RowsIn(durable'[handle])
      /\ job[t] \in {"create", "vacuum"} => Whole(durable'[handle])
  BY SyncFacts, Flushed
<1>2. running /\ handle \in Reachable /\ main \in Reachable
  BY DEF SwapInv, CallInv, TypeOK, CallsInv, Reachable
<1>3. ASSUME NEW i \in Reachable
      PROVE  /\ founded \/ job[t] = "create" => Whole(durable'[i])
             /\ Reliable /\ i \in perhaps => saved \cup scanned[t] \subseteq RowsIn(durable'[i])
  <2>1. i \in Inode
    BY StateTypes DEF Reachable
  <2>2. RowsIn(durable[i]) \subseteq RowsIn(durable'[i]) /\ (Whole(durable[i]) => Whole(durable'[i]))
    BY <2>1, StateTypes, SyncFacts, BehindRows, BehindWhole
  <2>3. founded => Whole(durable'[i])
    BY <2>2 DEF SwapInv, WholeInv
  <2>4. Reliable /\ i \in perhaps => saved \subseteq RowsIn(durable'[i])
    BY <2>2 DEF SwapInv, RowInv
  <2>5. CASE i = handle
    BY <1>1, <2>3, <2>4, <2>5
  <2>6. CASE i # handle
    <3>1. Whole(durable[i])
      BY <1>2, <2>6 DEF SwapInv, WholeInv
    <3>2. Reliable => scanned[t] \subseteq RowsIn(durable'[i])
      BY <1>2, <2>2, <2>6, OtherFiles, Flushed DEF Durably
    <3> QED BY <2>2, <2>4, <3>1, <3>2
  <2> QED BY <2>5, <2>6
<1> QED BY <1>1, <1>3

LEMMA FlushSync_SwapInv ==
    ASSUME SwapInv, NEW t \in Threads, FlushSync(t)
    PROVE  SwapInv'
<1>1. /\ pc[t] = "flush" /\ todo[t] = {} /\ durable' = Synced(handle) /\ running
      /\ job[t] \in {"create", "flush", "vacuum", "close", "drop"}
      /\ perhaps \subseteq Reachable /\ handle \in Reachable
  BY DEF FlushSync, SwapInv, CallInv, CallsType, CallsInv, Jobs, Reachable
<1>2. CallInv'
  BY FlushSync_CallInv DEF SwapInv
<1>3. CASE job[t] \in {"create", "flush"}
  <2>1. /\ Returned(t) /\ saved' = saved \cup scanned[t]
        /\ founded' = (founded \/ job[t] = "create")
        /\ UNCHANGED <<cached, main, perhaps, temp, handle, running, frame, dirty, inserted>>
    BY <1>3 DEF FlushSync, Promise, pool
  <2>2. \A i \in Reachable : founded' => Whole(durable'[i])
    BY <1>1, <2>1, SavedNow
  <2>3. Reliable => \A i \in perhaps : saved' \subseteq RowsIn(durable'[i])
    BY <1>1, <2>1, SavedNow
  <2> QED BY <1>1, <1>2, <2>1, <2>2, <2>3, Back, SyncStep DEF SwapInv
<1>4. CASE job[t] = "vacuum"
  <2>1. /\ To(t, "lock")
        /\ UNCHANGED <<cached, main, perhaps, temp, handle, running, frame, dirty, inserted,
                       saved, founded>>
    BY <1>4 DEF FlushSync, pool, ghosts
  <2>2. /\ pc'[t] = "lock" /\ job'[t] = "vacuum" /\ scanned'[t] = scanned[t]
        /\ \A u \in Threads \ {t} :
              /\ pc'[u] = pc[u] /\ job'[u] = job[u] /\ todo'[u] = todo[u]
              /\ scanned'[u] = scanned[u] /\ gen'[u] = gen[u]
    BY <1>4, <2>1 DEF To, SwapInv, CallInv, CallsType
  <2>3. \A i \in Reachable : founded' => Whole(durable'[i])
    BY <1>1, <2>1, SavedNow
  <2>4. Reliable => \A i \in perhaps : saved' \subseteq RowsIn(durable'[i])
    BY <1>1, <2>1, SavedNow
  <2>5. VacuumOk(t)'
    <3>1. /\ dirty = {} /\ scanned[t] = inserted
          /\ Whole(durable'[handle]) /\ inserted \subseteq RowsIn(durable'[handle])
      BY <1>1, <1>4, SavedNow, Flushed
    <3> QED BY <2>1, <2>2, <3>1 DEF VacuumOk, Durably
  <2>6. FlushOk(t)' /\ TempOk(t)'
    BY <2>2 DEF FlushOk, TempOk
  <2> QED BY <1>1, <1>2, <2>1, <2>2, <2>3, <2>4, <2>5, <2>6, SyncStep
<1>5. CASE job[t] \in {"close", "drop"}
  <2>1. /\ Gone /\ handle' = main' /\ UNCHANGED <<cached, main, perhaps, founded>>
        /\ saved' \in {saved, saved \cup scanned[t]}
    BY <1>5 DEF FlushSync
  <2>2. Reliable => Reachable = {main} /\ handle = main
    BY <1>1, <1>5 DEF SwapInv, CallInv, CallsInv, NameInv, Reachable
  <2>3. ASSUME NEW i \in perhaps
        PROVE  /\ OneLayout(cached'[i])
               /\ Behind(durable'[i], cached'[i])
               /\ Whole(durable'[i]) \/ GenOf(cached'[i]) = 0
               /\ founded' \/ perhaps' # {main'} => Whole(durable'[i])
               /\ Reliable => /\ saved' \subseteq RowsIn(durable'[i])
                              /\ RowsIn(cached'[i]) \subseteq RowsIn(cached'[main'])
    <3>1. i \in Reachable /\ i \in Inode /\ cached' = cached
      BY <1>1, <2>1, StateTypes
    <3>2. OneLayout(cached[i]) /\ Behind(durable'[i], cached[i])
      BY <1>1, <3>1, SyncFacts, BehindSelf DEF SwapInv, FileInv
    <3>3. Whole(durable[i]) => Whole(durable'[i])
      BY <1>1, <3>1, SyncFacts, BehindWhole, StateTypes
    <3>4. Whole(durable'[i]) \/ GenOf(cached[i]) = 0
      BY <3>1, <3>3 DEF SwapInv, FileInv
    <3>5. founded' \/ perhaps' # {main'} => Whole(durable'[i])
      <4>1. perhaps' # {main'} => Reachable # {main}
        BY <2>1, StateTypes DEF Reachable
      <4> QED BY <2>1, <3>1, <3>3, <4>1 DEF SwapInv, WholeInv
    <3>6. Reliable => saved' \subseteq RowsIn(durable'[i])
      BY <1>1, <2>1, <3>1, SavedNow
    <3>7. Reliable => RowsIn(cached'[i]) \subseteq RowsIn(cached'[main'])
      BY <2>1, <2>2, <3>1
    <3> QED BY <3>1, <3>2, <3>4, <3>5, <3>6, <3>7
  <2> QED BY <1>2, <2>1, <2>3, GoneStep
<1> QED BY <1>1, <1>3, <1>4, <1>5

-----------------------------------------------------------------------------
(* swap_file.                                                                 *)

LEMMA Goes ==
    ASSUME CallInv, NEW t \in Threads, NEW next, To(t, next)
    PROVE  /\ pc'[t] = next /\ UNCHANGED <<job, todo, scanned, gen>>
           /\ \A u \in Threads \ {t} : pc'[u] = pc[u]
BY DEF To, CallInv, CallsType

LEMMA TakeLock_SwapInv ==
    ASSUME SwapInv, NEW t \in Threads, TakeLock(t)
    PROVE  SwapInv'
<1> PICK next \in {"create", "panicked"} : To(t, next)
  BY DEF TakeLock
<1>1. /\ pc[t] = "lock" /\ pc'[t] = next /\ UNCHANGED <<job, todo, scanned, gen>>
      /\ UNCHANGED <<cached, durable, main, perhaps, temp, handle, running, frame, dirty, ghosts>>
      /\ \A u \in Threads \ {t} : pc'[u] = pc[u]
  BY Goes DEF TakeLock, files, SwapInv
<1>2. CallInv'
  BY TakeLock_CallInv DEF SwapInv
<1>3. FlushOk(t)' /\ TempOk(t)'
  BY <1>1 DEF FlushOk, TempOk
<1>4. VacuumOk(t)'
  BY <1>1 DEF SwapInv, ThreadInv, VacuumOk, Durably, ghosts
<1> QED BY <1>1, <1>2, <1>3, <1>4, CallStep

LEMMA WritePanics_SwapInv ==
    ASSUME SwapInv, NEW t \in Threads, WritePanics(t)
    PROVE  SwapInv'
<1>1. /\ pc[t] = "write" /\ pc'[t] = "panicked" /\ UNCHANGED <<job, todo, scanned, gen>>
      /\ UNCHANGED <<cached, durable, main, perhaps, temp, handle, running, frame, dirty, ghosts>>
      /\ \A u \in Threads \ {t} : pc'[u] = pc[u]
  BY Goes DEF WritePanics, files, SwapInv
<1>2. CallInv'
  BY WritePanics_CallInv DEF SwapInv
<1>3. FlushOk(t)' /\ VacuumOk(t)' /\ TempOk(t)'
  BY <1>1 DEF FlushOk, VacuumOk, TempOk
<1> QED BY <1>1, <1>2, <1>3, CallStep

LEMMA CreateTemp_SwapInv ==
    ASSUME SwapInv, NEW t \in Threads, CreateTemp(t)
    PROVE  SwapInv'
<1>1. /\ pc[t] = "create" /\ pc'[t] = "write" /\ UNCHANGED <<job, todo, scanned, gen>>
      /\ UNCHANGED <<main, perhaps, handle, running, frame, dirty, ghosts>>
      /\ \A u \in Threads \ {t} : pc'[u] = pc[u]
  BY Goes DEF CreateTemp, pool, SwapInv
<1>2. CallInv'
  BY CreateTemp_CallInv DEF SwapInv
<1>3. \A i \in Reachable : cached'[i] = cached[i] /\ durable'[i] = durable[i]
  BY StateTypes DEF CreateTemp, Reachable, SwapInv, CallInv, TypeOK
<1>4. TempOk(t)'
  BY <1>1 DEF TempOk
<1> QED BY <1>1, <1>2, <1>3, <1>4, TempStep

LEMMA WriteTemp_SwapInv ==
    ASSUME SwapInv, NEW t \in Threads, WriteTemp(t)
    PROVE  SwapInv'
<1>1. /\ pc[t] = "write" /\ pc'[t] = "sync" /\ UNCHANGED <<job, todo, scanned, gen>>
      /\ UNCHANGED <<durable, main, perhaps, temp, handle, running, frame, dirty, ghosts>>
      /\ cached' = [cached EXCEPT ![temp] = Layout(gen[t], scanned[t])]
      /\ \A u \in Threads \ {t} : pc'[u] = pc[u]
  BY Goes DEF WriteTemp, pool, SwapInv
<1>2. CallInv'
  BY WriteTemp_CallInv DEF SwapInv
<1>3. temp \in Inode /\ temp \notin Reachable
  BY <1>1, SwapHoldsLock DEF SwapInv, Swapping, Reachable
<1>4. \A i \in Reachable : cached'[i] = cached[i] /\ durable'[i] = durable[i]
  BY <1>1, <1>3
<1>5. cached'[temp] = Layout(gen[t], scanned[t])
  BY <1>1, <1>3 DEF SwapInv, CallInv, TypeOK
<1>6. TempOk(t)'
  BY <1>1, <1>5 DEF TempOk, Layout
<1> QED BY <1>1, <1>2, <1>4, <1>6, TempStep

LEMMA SyncTemp_SwapInv ==
    ASSUME SwapInv, NEW t \in Threads, SyncTemp(t)
    PROVE  SwapInv'
<1>1. /\ pc[t] = "sync" /\ pc'[t] = "rename" /\ UNCHANGED <<job, todo, scanned, gen>>
      /\ UNCHANGED <<cached, main, perhaps, temp, handle, running, frame, dirty, ghosts>>
      /\ durable' = [durable EXCEPT ![temp] = cached[temp]]
      /\ \A u \in Threads \ {t} : pc'[u] = pc[u]
  BY Goes DEF SyncTemp, TempSynced, Synced, pool, SwapInv
<1>2. CallInv'
  BY SyncTemp_CallInv DEF SwapInv
<1>3. temp \in Inode /\ temp \notin Reachable
  BY <1>1, SwapHoldsLock DEF SwapInv, Swapping, Reachable
<1>4. \A i \in Reachable : cached'[i] = cached[i] /\ durable'[i] = durable[i]
  BY <1>1, <1>3
<1>5. durable'[temp] = cached[temp]
  BY <1>1, <1>3 DEF SwapInv, CallInv, TypeOK
<1>6. TempOk(t)'
  BY <1>1, <1>5, SMTT(30) DEF SwapInv, ThreadInv, TempOk, Layout
<1> QED BY <1>1, <1>2, <1>4, <1>6, TempStep

LEMMA SavedInRows == ASSUME Reliable, SwapInv PROVE saved \subseteq TableRows
<1>1. /\ main \in perhaps /\ saved \subseteq RowsIn(durable[main])
      /\ RowsIn(cached[main]) \subseteq TableRows
  BY DEF SwapInv, CallInv, TypeOK, RowInv
<1>2. Behind(durable[main], cached[main])
  BY <1>1 DEF SwapInv, FileInv, Reachable
<1> QED BY <1>1, <1>2, StateTypes, BehindRows

(* Who is in swap_file is alone there.                                        *)
LEMMA Alone ==
    ASSUME SwapInv, PoisonInv, NEW t \in Threads, Swapping(t)
    PROVE  /\ running /\ job[t] = "vacuum" /\ lock = t
           /\ \A u \in Threads \ {t} : ~Swapping(u)
           /\ \A u \in Threads \ {t} : pc[u] \notin {"clear", "asserted"}
           /\ pc[t] # "clear" => ~Stale
BY OneSwap DEF SwapInv, CallInv, CallsInv, PoisonInv, Swapping, Stale

LEMMA Rename_SwapInv ==
    ASSUME SwapInv, PoisonInv, NEW t \in Threads, Rename(t)
    PROVE  SwapInv'
<1> DEFINE new == Layout(gen[t], scanned[t])
<1>1. /\ pc[t] = "rename" /\ pc'[t] = "dirsync" /\ UNCHANGED <<job, todo, scanned, gen>>
      /\ main' = temp /\ perhaps' = perhaps \cup {temp} /\ temp' = None
      /\ UNCHANGED <<cached, durable, handle, running, frame, dirty, inserted, saved, founded>>
      /\ \A u \in Threads \ {t} : pc'[u] = pc[u]
  BY Goes DEF Rename, pool, ghosts, SwapInv
<1>2. CallInv'
  BY Rename_CallInv DEF SwapInv
<1>3. /\ running /\ job[t] = "vacuum" /\ ~Stale
      /\ \A u \in Threads \ {t} : ~Swapping(u)
      /\ temp \in Inode /\ temp \notin perhaps
  BY <1>1, Alone, SwapHoldsLock DEF SwapInv, Swapping
<1>4. /\ scanned[t] = inserted /\ dirty = {} /\ Durably(handle)
      /\ main \in Reachable /\ handle \in Reachable
  BY <1>1, <1>3, StateTypes DEF SwapInv, ThreadInv, VacuumOk, Reachable
<1>5. cached[temp] = new /\ durable[temp] = new
  BY <1>1 DEF SwapInv, ThreadInv, TempOk
<1>6. Whole(new) /\ OneLayout(new) /\ RowsIn(new) = inserted /\ Behind(new, new)
  BY <1>4, LayoutFacts, BehindSelf DEF SwapInv, CallInv, CallsType
<1> HIDE DEF new
<1>7. Stale' = Stale /\ Fetched' = Fetched /\ Reachable' = Reachable \cup {temp}
  BY <1>1, <1>3 DEF Stale, Fetched, Reachable
<1>8. FileInv'
  BY <1>1, <1>5, <1>6, <1>7 DEF SwapInv, FileInv
<1>9. WholeInv'
  <2>1. \A i \in Reachable : Whole(durable[i])
    <3>1. CASE Reachable = {main}
      BY <1>4, <3>1 DEF Durably
    <3>2. CASE Reachable # {main}
      BY <3>2 DEF SwapInv, WholeInv
    <3> QED BY <3>1, <3>2
  <2> QED BY <1>1, <1>5, <1>6, <1>7, <2>1 DEF WholeInv
<1>10. Reliable => perhaps = {main} /\ handle = main
  <2>1. Reliable => Reachable = {main}
    BY <1>1, <1>3 DEF SwapInv, NameInv, Swapping
  <2> QED BY <2>1, StateTypes DEF Reachable
<1>11. NameInv'
  BY <1>1, <1>3, <1>10 DEF NameInv, Swapping
<1>12. FrameInv'
  BY <1>1, <1>7 DEF SwapInv, FrameInv
<1>13. RowInv'
  <2> SUFFICES ASSUME Reliable PROVE RowInv'
    BY DEF RowInv
  <2>1. perhaps = {main} /\ saved \subseteq inserted
    BY <1>3, <1>10, StateTypes, SavedInRows DEF TableRows, Reachable
  <2> QED BY <1>1, <1>3, <1>5, <1>6, <2>1 DEF SwapInv, RowInv, TableRows
<1>14. ASSUME NEW u \in Threads PROVE FlushOk(u)'
  BY <1>1, <1>7 DEF SwapInv, ThreadInv, FlushOk, PageOf, InFile
<1>15. ASSUME NEW u \in Threads PROVE VacuumOk(u)'
  <2>1. Durably(main)' /\ Durably(handle)' /\ RowsIn(cached'[main']) \subseteq inserted'
    BY <1>1, <1>4, <1>5, <1>6 DEF Durably
  <2> QED BY <1>1, <1>4, <1>7, <2>1 DEF SwapInv, ThreadInv, VacuumOk
<1>16. ASSUME NEW u \in Threads PROVE TempOk(u)'
  BY <1>1, <1>3 DEF TempOk, Swapping
<1> QED
  BY <1>2, <1>8, <1>9, <1>11, <1>12, <1>13, <1>14, <1>15, <1>16 DEF SwapInv, ThreadInv

LEMMA SyncDir_SwapInv ==
    ASSUME SwapInv, PoisonInv, NEW t \in Threads, SyncDir(t)
    PROVE  SwapInv'
<1>1. /\ pc[t] = "dirsync" /\ pc'[t] = "reopen" /\ UNCHANGED <<job, todo, scanned, gen>>
      /\ perhaps' = {main}
      /\ UNCHANGED <<cached, durable, main, temp, handle, running, frame, dirty,
                     inserted, saved, founded>>
      /\ \A u \in Threads \ {t} : pc'[u] = pc[u]
  BY Goes DEF SyncDir, DirSynced, pool, ghosts, SwapInv
<1>2. CallInv'
  BY SyncDir_CallInv DEF SwapInv
<1>3. job[t] = "vacuum" /\ \A u \in Threads \ {t} : ~Swapping(u)
  BY <1>1, Alone DEF Swapping
<1>4. /\ Stale' = Stale /\ Fetched' = Fetched /\ Reachable' \subseteq Reachable
      /\ main \in perhaps
  BY <1>1, StateTypes DEF Stale, Fetched, Reachable
<1>5. FileInv' /\ WholeInv'
  BY <1>1, <1>4 DEF SwapInv, FileInv, WholeInv, Reachable
<1>6. NameInv'
  BY <1>1, <1>3 DEF NameInv, Swapping
<1>7. FrameInv'
  BY <1>1, <1>4 DEF SwapInv, FrameInv
<1>8. RowInv'
  BY <1>1, <1>4 DEF SwapInv, RowInv, TableRows
<1>9. ASSUME NEW u \in Threads PROVE FlushOk(u)'
  BY <1>1, <1>4 DEF SwapInv, ThreadInv, FlushOk, PageOf, InFile
<1>10. ASSUME NEW u \in Threads PROVE VacuumOk(u)'
  BY <1>1, <1>4 DEF SwapInv, ThreadInv, VacuumOk, Durably
<1>11. ASSUME NEW u \in Threads PROVE TempOk(u)'
  BY <1>1, <1>3 DEF TempOk, Swapping
<1> QED BY <1>2, <1>5, <1>6, <1>7, <1>8, <1>9, <1>10, <1>11 DEF SwapInv, ThreadInv

LEMMA Reopen_SwapInv ==
    ASSUME SwapInv, PoisonInv, NEW t \in Threads, Reopen(t)
    PROVE  SwapInv'
<1> DEFINE c == cached[main]
<1>1. /\ pc[t] = "reopen" /\ pc'[t] = "clear" /\ UNCHANGED <<job, todo, scanned, gen>>
      /\ handle' = main
      /\ UNCHANGED <<cached, durable, main, perhaps, temp, running, frame, dirty,
                     inserted, saved, founded>>
      /\ \A u \in Threads \ {t} : pc'[u] = pc[u]
  BY Goes DEF Reopen, Reopened, pool, ghosts, SwapInv
<1>2. CallInv'
  BY Reopen_CallInv DEF SwapInv
<1>3. job[t] = "vacuum" /\ \A u \in Threads \ {t} : ~Swapping(u)
  BY <1>1, Alone DEF Swapping
<1>4. Stale' /\ Reachable' \subseteq Reachable /\ main \in Reachable
  BY <1>1, StateTypes DEF Stale, Reachable
<1>5. /\ Whole(durable[main]) /\ inserted \subseteq RowsIn(durable[main]) /\ dirty = {}
      /\ RowsIn(c) \subseteq inserted
  BY <1>1, <1>3 DEF SwapInv, ThreadInv, VacuumOk, Durably
<1>6. /\ c \in Content /\ OneLayout(c) /\ Whole(c) /\ inserted \subseteq RowsIn(c)
  <2>1. /\ c \in Content /\ durable[main] \in Content /\ Behind(durable[main], c) /\ OneLayout(c)
    BY <1>4, StateTypes DEF SwapInv, FileInv
  <2> QED BY <1>5, <2>1, BehindWhole, BehindRows
<1>7. c[Meta] # None /\ c[Root] # None
  BY <1>6, ContentFacts, PageFacts, Homes DEF Whole
<1>8. FileInv' /\ WholeInv'
  BY <1>1, <1>4 DEF SwapInv, FileInv, WholeInv, Reachable
<1>9. NameInv' /\ FrameInv'
  BY <1>1, <1>3, <1>4 DEF SwapInv, NameInv, FrameInv, Swapping, Reachable
<1>10. RowInv'
  BY <1>1 DEF SwapInv, RowInv, TableRows
<1>11. ASSUME NEW u \in Threads PROVE FlushOk(u)'
  <2> SUFFICES ASSUME pc[u] = "flush" PROVE FlushOk(u)'
    BY <1>1 DEF SwapInv, ThreadInv, FlushOk
  <2>1. /\ pc'[u] = "flush" /\ scanned[u] \subseteq inserted
        /\ job[u] \in {"close", "drop"} => scanned[u] = inserted
    BY <1>1 DEF SwapInv, ThreadInv, FlushOk
  <2>2. \A r \in scanned[u] : InFile(r)'
    <3> SUFFICES ASSUME NEW r \in scanned[u] PROVE InFile(r)'
      OBVIOUS
    <3>1. r \in RowsIn(c) /\ r \in Row
      BY <1>6, <2>1, StateTypes
    <3> QED BY <1>1, <1>6, <3>1, RowFound DEF InFile, PageOf
  <2> QED BY <1>1, <1>4, <1>7, <2>1, <2>2 DEF FlushOk
<1>12. ASSUME NEW u \in Threads PROVE VacuumOk(u)'
  <2>1. Durably(handle)' /\ RowsIn(cached'[handle']) \subseteq inserted'
    BY <1>1, <1>5 DEF Durably
  <2>2. u # t => pc'[u] \notin {"dirsync", "reopen"}
    BY <1>1, <1>3 DEF Swapping
  <2> QED BY <1>1, <1>4, <1>5, <2>1, <2>2 DEF SwapInv, ThreadInv, VacuumOk
<1>13. ASSUME NEW u \in Threads PROVE TempOk(u)'
  BY <1>1, <1>3 DEF TempOk, Swapping
<1> QED BY <1>2, <1>8, <1>9, <1>10, <1>11, <1>12, <1>13 DEF SwapInv, ThreadInv

LEMMA Clear_SwapInv ==
    ASSUME SwapInv, PoisonInv, NEW t \in Threads, Clear(t)
    PROVE  SwapInv'
<1> DEFINE c == cached[handle]
<1>1. /\ pc[t] = "clear" /\ Returned(t)
      /\ frame' = Empty /\ dirty' = {}
      /\ saved' = saved \cup scanned[t] /\ founded' = (founded \/ job[t] = "create")
      /\ UNCHANGED <<cached, durable, main, perhaps, temp, handle, running, inserted>>
  BY DEF Clear, FramesCleared, Promise, files
<1>2. CallInv'
  BY Clear_CallInv DEF SwapInv
<1>3. /\ running /\ job[t] = "vacuum" /\ Stale
      /\ \A u \in Threads \ {t} : ~Swapping(u) /\ pc[u] # "asserted"
  BY <1>1, Alone DEF Swapping, Stale
<1>4. /\ pc'[t] = "idle" /\ job'[t] = "none" /\ scanned'[t] = {}
      /\ FlushOk(t)' /\ VacuumOk(t)' /\ TempOk(t)'
      /\ \A u \in Threads \ {t} :
            /\ pc'[u] = pc[u] /\ job'[u] = job[u] /\ todo'[u] = todo[u]
            /\ scanned'[u] = scanned[u] /\ gen'[u] = gen[u]
  BY <1>1, Back DEF SwapInv
<1>5. ~Stale' /\ Reachable' = Reachable
  BY <1>1, <1>3, <1>4 DEF Stale, Reachable, Swapping
<1>6. scanned[t] = inserted /\ Durably(handle) /\ RowsIn(c) \subseteq inserted
  BY <1>1, <1>3 DEF SwapInv, ThreadInv, VacuumOk
<1>7. Fetched' = c
  <2>1. \A p \in Page : frame'[p] = None
    BY <1>1, EmptyType
  <2>2. Fetched' = [p \in Page |-> IF frame'[p] # None THEN frame'[p] ELSE c[p]]
    BY <1>1 DEF Fetched
  <2>3. c \in Content
    BY StateTypes
  <2> QED BY <2>1, <2>2, <2>3 DEF Content
<1>8. /\ Whole(c) /\ inserted \subseteq RowsIn(c) /\ RowsIn(c) \subseteq inserted
      /\ c[Meta] # None /\ c[Root] # None
  <2>1. Whole(c) /\ inserted \subseteq RowsIn(c)
    BY <1>3, StaleFacts
  <2> QED BY <1>6, <2>1, StateTypes, ContentFacts, PageFacts, Homes DEF Whole
<1>9. FileInv' /\ WholeInv' /\ NameInv'
  BY <1>1, <1>3, <1>4, <1>5 DEF SwapInv, FileInv, WholeInv, NameInv, Swapping
<1>10. FrameInv'
  <2>1. \A p \in Page : frame'[p] = None
    BY <1>1, EmptyType
  <2> QED BY <1>1, <1>7, <1>8, <2>1 DEF FrameInv
<1>11. RowInv'
  <2>1. Reliable => perhaps = {handle}
    BY <1>1, <1>3, StateTypes DEF SwapInv, NameInv, Swapping, Reachable
  <2> QED BY <1>1, <1>3, <1>6, <2>1 DEF SwapInv, RowInv, TableRows, Durably
<1>12. ASSUME NEW u \in Threads, u # t PROVE FlushOk(u)' /\ VacuumOk(u)' /\ TempOk(u)'
  <2>1. FlushOk(u)'
    BY <1>1, <1>4, <1>7, <1>8, <1>12 DEF SwapInv, ThreadInv, FlushOk, PageOf, InFile
  <2>2. VacuumOk(u)'
    BY <1>1, <1>4, <1>5, <1>7, <1>8, <1>12 DEF SwapInv, ThreadInv, VacuumOk, Durably
  <2>3. TempOk(u)'
    BY <1>3, <1>4, <1>12 DEF TempOk, Swapping
  <2> QED BY <2>1, <2>2, <2>3
<1> QED BY <1>2, <1>4, <1>9, <1>10, <1>11, <1>12 DEF SwapInv, ThreadInv

LEMMA ClearPanics_SwapInv ==
    ASSUME SwapInv, NEW t \in Threads, ClearPanics(t)
    PROVE  SwapInv'
<1>1. /\ pc[t] = "clear" /\ pc'[t] = "asserted" /\ UNCHANGED <<job, todo, scanned, gen>>
      /\ UNCHANGED <<cached, durable, main, perhaps, temp, handle, running,
                     inserted, saved, founded>>
      /\ dirty' \subseteq dirty
      /\ \A u \in Threads \ {t} : pc'[u] = pc[u]
  BY Goes DEF ClearPanics, files, ghosts, SwapInv
<1>2. CallInv'
  BY ClearPanics_CallInv DEF SwapInv
<1>3. Stale /\ Stale' /\ Reachable' = Reachable /\ dirty = {}
  BY <1>1, StaleIsClean DEF Stale, Reachable
<1>4. FileInv' /\ WholeInv' /\ NameInv' /\ FrameInv' /\ RowInv'
  BY <1>1, <1>3
  DEF SwapInv, FileInv, WholeInv, NameInv, FrameInv, RowInv, TableRows
<1>5. ASSUME NEW u \in Threads PROVE FlushOk(u)'
  BY <1>1, <1>3 DEF SwapInv, ThreadInv, FlushOk, PageOf, InFile
<1>6. ASSUME NEW u \in Threads PROVE VacuumOk(u)'
  BY <1>1, <1>3 DEF SwapInv, ThreadInv, VacuumOk, Durably
<1>7. ASSUME NEW u \in Threads PROVE TempOk(u)'
  BY <1>1 DEF SwapInv, ThreadInv, TempOk
<1> QED BY <1>2, <1>4, <1>5, <1>6, <1>7 DEF SwapInv, ThreadInv

-----------------------------------------------------------------------------
(* The poisoned mutex.                                                        *)

LEMMA PoisonKept ==
    ASSUME PoisonInv, poisoned' = poisoned,
           \A t \in Threads : /\ pc'[t] = "asserted" => pc[t] = "asserted"
                              /\ Swapping(t)' => Swapping(t)
    PROVE  PoisonInv'
BY DEF PoisonInv

LEMMA Returned_Poison ==
    ASSUME CallInv, PoisonInv, NEW t \in Threads, Returned(t), poisoned' = poisoned
    PROVE  PoisonInv'
BY PoisonKept DEF Returned, CallInv, CallsType, Swapping

LEMMA Gone_Poison == ASSUME Gone PROVE PoisonInv'
BY DEF Gone, PoisonInv, Swapping

(* A panic with the lock in hand: nobody else has it.                         *)
LEMMA Panics_Poison ==
    ASSUME CallInv, NEW t \in Threads, Swapping(t), NEW next \in {"panicked", "asserted"},
           To(t, next), poisoned' = TRUE
    PROVE  PoisonInv'
BY OneSwap, Goes DEF PoisonInv, Swapping

LEMMA GivesUp_Poison ==
    ASSUME CallInv, PoisonInv, NEW t \in Threads, GivesUp(t)
    PROVE  PoisonInv'
<1>1. CASE job[t] = "drop"
  BY <1>1, Gone_Poison DEF GivesUp
<1>2. CASE job[t] = "close"
  BY <1>2, PoisonKept DEF GivesUp, CallInv, CallsType, Swapping
<1>3. CASE job[t] \notin {"close", "drop"}
  BY <1>3, Returned_Poison DEF GivesUp
<1> QED BY <1>1, <1>2, <1>3

LEMMA Step_Poison ==
    ASSUME CallInv, PoisonInv, NEW t \in Threads, Step(t)
    PROVE  PoisonInv'
<1>1. CASE Create(t) \/ \E call \in {"flush", "close", "drop", "vacuum"} : Begin(t, call)
  BY <1>1, PoisonKept DEF Create, Begin, pool, CallInv, CallsType, Swapping
<1>2. CASE \E p \in Page : FlushFrame(t, p)
  BY <1>2, PoisonKept DEF FlushFrame, Swapping
<1>3. CASE FlushFails(t) \/ SwapFails(t)
  BY <1>3, GivesUp_Poison DEF FlushFails, SwapFails
<1>4. CASE FlushSync(t)
  <2>1. CASE job[t] \in {"create", "flush"}
    BY <1>4, <2>1, Returned_Poison DEF FlushSync, pool
  <2>2. CASE job[t] = "vacuum"
    BY <1>4, <2>2, Goes, PoisonKept DEF FlushSync, pool, Swapping
  <2>3. CASE job[t] \notin {"create", "flush", "vacuum"}
    BY <1>4, <2>3, Gone_Poison DEF FlushSync
  <2> QED BY <2>1, <2>2, <2>3
<1>5. CASE TakeLock(t)
  BY <1>5, Goes DEF TakeLock, PoisonInv, Swapping
<1>6. CASE WritePanics(t)
  BY <1>6, Panics_Poison DEF WritePanics, Swapping
<1>7. CASE ClearPanics(t)
  BY <1>7, Panics_Poison DEF ClearPanics, Swapping
<1>8. CASE CreateTemp(t) \/ WriteTemp(t) \/ SyncTemp(t) \/ Rename(t) \/ SyncDir(t) \/ Reopen(t)
  BY <1>8, Goes, PoisonKept
  DEF CreateTemp, WriteTemp, SyncTemp, Rename, SyncDir, Reopen, pool, Swapping
<1>9. CASE Clear(t)
  BY <1>9, Returned_Poison DEF Clear
<1> QED BY <1>1, <1>2, <1>3, <1>4, <1>5, <1>6, <1>7, <1>8, <1>9 DEF Step

LEMMA Next_Poison == ASSUME CallInv, PoisonInv, [Next]_vars PROVE PoisonInv'
<1>1. CASE Open \/ UNCHANGED vars
  BY <1>1, PoisonKept DEF Open, vars, pool, calls, Swapping
<1>2. CASE Kill \/ Crash
  BY <1>2, Gone_Poison DEF Kill, Crash
<1>3. CASE \/ \E r \in Row : Insert(r)
           \/ \E p \in Page : Load(p) \/ Evict(p)
  BY <1>3, PoisonKept DEF Insert, Load, Evict, calls, Swapping
<1>4. CASE \E t \in Threads : Step(t)
  BY <1>4, Step_Poison
<1> QED BY <1>1, <1>2, <1>3, <1>4 DEF Next

-----------------------------------------------------------------------------
(* Every step.                                                                *)

LEMMA Step_SwapInv ==
    ASSUME SwapInv, PoisonInv, NEW t \in Threads, Step(t)
    PROVE  SwapInv'
<1>1. CASE Create(t)
  BY <1>1, Create_SwapInv
<1>2. CASE \E call \in {"flush", "close", "drop", "vacuum"} : Begin(t, call)
  BY <1>2, Begin_SwapInv
<1>3. CASE \E p \in Page : FlushFrame(t, p)
  BY <1>3, FlushFrame_SwapInv
<1>4. CASE FlushFails(t)
  BY <1>4, GivesUp_SwapInv DEF FlushFails
<1>5. CASE FlushSync(t)
  BY <1>5, FlushSync_SwapInv
<1>6. CASE TakeLock(t) \/ CreateTemp(t) \/ WriteTemp(t) \/ WritePanics(t) \/ SyncTemp(t)
  BY <1>6, TakeLock_SwapInv, CreateTemp_SwapInv, WriteTemp_SwapInv, WritePanics_SwapInv,
     SyncTemp_SwapInv
<1>7. CASE Rename(t) \/ SyncDir(t) \/ Reopen(t) \/ Clear(t) \/ ClearPanics(t)
  BY <1>7, Rename_SwapInv, SyncDir_SwapInv, Reopen_SwapInv, Clear_SwapInv, ClearPanics_SwapInv
<1>8. CASE SwapFails(t)
  <2>1. /\ GivesUp(t) /\ pc[t] \in {"create", "sync", "rename", "dirsync", "reopen"}
        /\ Reliable => pc[t] \notin {"dirsync", "reopen"}
    BY <1>8 DEF SwapFails, Reliable
  <2> QED BY <2>1, GivesUp_SwapInv
<1> QED BY <1>1, <1>2, <1>3, <1>4, <1>5, <1>6, <1>7, <1>8 DEF Step

LEMMA Stutter_SwapInv == ASSUME SwapInv, UNCHANGED vars PROVE SwapInv'
<1>1. /\ UNCHANGED <<cached, durable, main, perhaps, temp, handle, running, frame, dirty,
                     inserted, saved, founded, pc, job, todo, scanned, gen>>
      /\ Fetched' = Fetched /\ Stale' = Stale /\ Reachable' = Reachable
  BY DEF vars, files, pool, calls, ghosts, Fetched, Stale, Reachable
<1>2. CallInv'
  BY Stutter_CallInv DEF SwapInv
<1>3. FileInv' /\ WholeInv' /\ NameInv' /\ FrameInv' /\ RowInv'
  BY <1>1 DEF SwapInv, FileInv, WholeInv, NameInv, FrameInv, RowInv, TableRows
<1>4. ASSUME NEW t \in Threads PROVE FlushOk(t)'
  BY <1>1 DEF SwapInv, ThreadInv, FlushOk, PageOf, InFile
<1>5. ASSUME NEW t \in Threads PROVE VacuumOk(t)' /\ TempOk(t)'
  BY <1>1 DEF SwapInv, ThreadInv, VacuumOk, Durably, TempOk
<1> QED BY <1>2, <1>3, <1>4, <1>5 DEF SwapInv, ThreadInv

LEMMA Next_SwapInv == ASSUME SwapInv, PoisonInv, [Next]_vars PROVE SwapInv'
<1>1. CASE UNCHANGED vars
  BY <1>1, Stutter_SwapInv
<1>2. CASE Open \/ Kill \/ Crash
  BY <1>2, Open_SwapInv, Kill_SwapInv, Crash_SwapInv
<1>3. CASE \E r \in Row : Insert(r)
  BY <1>3, Insert_SwapInv
<1>4. CASE \E p \in Page : Load(p) \/ Evict(p)
  BY <1>4, Load_SwapInv, Evict_SwapInv
<1>5. CASE \E t \in Threads : Step(t)
  BY <1>5, Step_SwapInv
<1> QED BY <1>1, <1>2, <1>3, <1>4, <1>5 DEF Next

(* Files, frames and the calls in progress agree throughout, whatever fails.  *)
THEOREM SwapInvariance == Spec => [](SwapInv /\ PoisonInv)
<1>1. Init => SwapInv /\ PoisonInv
  BY Init_SwapInv DEF Init, PoisonInv, Swapping
<1>2. (SwapInv /\ PoisonInv) /\ [Next]_vars => (SwapInv /\ PoisonInv)'
  BY Next_SwapInv, Next_Poison DEF SwapInv
<1> QED BY <1>1, <1>2, PTL DEF Spec

-----------------------------------------------------------------------------
(* What it is for.                                                            *)

(* Once create has returned Ok, a crash or a kill at any step leaves a whole  *)
(* file at the table's path, vacuum or not (swap_file writes and syncs the    *)
(* new file before its rename).                                               *)
THEOREM FilesStayWhole == Spec => []FileIsWhole
<1>1. SwapInv => FileIsWhole
  <2> SUFFICES ASSUME SwapInv, founded PROVE FileIsWhole
    BY DEF FileIsWhole
  <2>1. ASSUME NEW i \in perhaps PROVE Whole(cached[i]) /\ Whole(durable[i])
    <3>1. Whole(durable[i])
      BY DEF SwapInv, WholeInv, Reachable
    <3>2. Behind(durable[i], cached[i])
      BY DEF SwapInv, FileInv, Reachable
    <3> QED BY <3>1, <3>2, StateTypes, BehindWhole
  <2> QED BY <2>1, StateTypes DEF FileIsWhole
<1> QED BY <1>1, SwapInvariance, PTL

(* A row that a flush_all, close or vacuum answered Ok for is in the file the *)
(* next open finds, whatever failed and whenever the process or the machine   *)
(* stopped (flush_all syncs after its last write; vacuum copies what it kept).*)
THEOREM SavedRowsAreKept ==
    ASSUME Reliable
    PROVE  Spec => []SavedRowsSurvive
<1>1. Reliable /\ SwapInv => SavedRowsSurvive
  <2> SUFFICES ASSUME SwapInv, Reliable PROVE saved \subseteq RowsIn(cached[main])
    BY DEF SavedRowsSurvive
  <2>1. main \in perhaps /\ saved \subseteq RowsIn(durable[main])
    BY DEF SwapInv, CallInv, TypeOK, RowInv
  <2>2. Behind(durable[main], cached[main])
    BY <2>1 DEF SwapInv, FileInv, Reachable
  <2> QED BY <2>1, <2>2, StateTypes, BehindRows
<1> QED BY <1>1, SwapInvariance, PTL

(* While nobody is in swap_file, frames and file together have every inserted *)
(* row: vacuum clears the frames of the old layout before it lets go of the   *)
(* lock, and an eviction writes what it drops.                                *)
THEOREM InsertedRowsAreFound == Spec => []InsertedRowsFound
<1>1. SwapInv /\ PoisonInv => InsertedRowsFound
  BY Unlocked DEF InsertedRowsFound, SwapInv, FrameInv
<1> QED BY <1>1, SwapInvariance, PTL

-----------------------------------------------------------------------------
(* What the table promises: DurableTable, with TableRows for its rows.        *)

LEMMA Stutters ==
    ASSUME TableRows' = TableRows, saved' = saved
    PROVE  UNCHANGED Durable!vars
BY DEF TableRows, Durable!vars

LEMMA Saves ==
    ASSUME TableRows' = TableRows, saved' \subseteq TableRows, saved \subseteq saved'
    PROVE  Durable!Save
BY DEF TableRows, Durable!Save

LEMMA Restarts ==
    ASSUME Reliable, SwapInv', ~running', saved' = saved, RowsIn(cached'[main']) \subseteq TableRows
    PROVE  Durable!Restart
<1>1. TableRows' = RowsIn(cached'[main']) /\ saved \subseteq TableRows'
  <2>1. /\ main' \in perhaps' /\ saved' \subseteq RowsIn(durable'[main'])
        /\ durable'[main'] \in Content /\ cached'[main'] \in Content
    BY DEF SwapInv, CallInv, TypeOK, RowInv, Content
  <2>2. Behind(durable'[main'], cached'[main'])
    BY <2>1 DEF SwapInv, FileInv, Reachable
  <2> QED BY <2>1, <2>2, BehindRows DEF TableRows
<1>2. TableRows' \subseteq TableRows
  BY <1>1
<1> QED BY <1>1, <1>2 DEF TableRows, Durable!Restart

(* A running process goes on without a change to its rows.                    *)
LEMMA GoesOn ==
    ASSUME running, UNCHANGED <<running, ghosts>>
    PROVE  UNCHANGED Durable!vars
BY Stutters DEF TableRows, ghosts

LEMMA Init_Durable == ASSUME Init PROVE Durable!Init
<1>1. RowsIn(cached[main]) = {}
  BY EmptyType, PageFacts DEF Init, RowsIn
<1> QED BY <1>1 DEF Init, Durable!Init

LEMMA Open_Durable == ASSUME Open PROVE UNCHANGED Durable!vars
BY Stutters DEF Open, TableRows

LEMMA Create_Durable ==
    ASSUME SwapInv, NEW t \in Threads, Create(t)
    PROVE  UNCHANGED Durable!vars
<1>1. RowsIn(cached[main]) = {}
  BY PageFacts DEF Create, RowsIn
<1>2. inserted = {}
  BY DEF Create, SwapInv, CallInv, CallsInv
<1> QED BY <1>1, <1>2, Stutters DEF Create, TableRows, ghosts

LEMMA Kill_Durable == ASSUME Reliable, SwapInv, SwapInv', Kill PROVE Durable!Restart
<1>1. ~running' /\ saved' = saved /\ main' = main /\ cached'[main] = cached[main]
  BY StateTypes DEF Kill, Gone, Cleared
<1>2. RowsIn(cached[main]) \subseteq TableRows
  BY StateTypes DEF SwapInv, RowInv
<1> QED BY <1>1, <1>2, Restarts

LEMMA Crash_Durable == ASSUME Reliable, SwapInv, SwapInv', Crash PROVE Durable!Restart
<1>1. PICK i \in perhaps : \E kept \in SUBSET {p \in Page : cached[i][p] # durable[i][p]} :
         LET left == [p \in Page |-> IF p \in kept THEN cached[i][p] ELSE durable[i][p]]
         IN /\ main' = i /\ perhaps' = {i} /\ handle' = i
            /\ cached' = [[j \in Inode |-> Empty] EXCEPT ![i] = left]
            /\ durable' = cached'
  BY DEF Crash
<1>2. PICK kept \in SUBSET Page :
         LET left == [p \in Page |-> IF p \in kept THEN cached[i][p] ELSE durable[i][p]]
         IN /\ main' = i
            /\ cached' = [[j \in Inode |-> Empty] EXCEPT ![i] = left]
  BY <1>1
<1> DEFINE m == [p \in Page |-> IF p \in kept THEN cached[i][p] ELSE durable[i][p]]
<1>3. /\ i \in Inode /\ cached[i] \in Content /\ durable[i] \in Content
      /\ main' = i /\ cached'[i] = m
  BY <1>2, StateTypes
<1>4. m \in Content /\ \A p \in Page : m[p] \in {cached[i][p], durable[i][p]}
  BY <1>3 DEF Content
<1> HIDE DEF m
<1>5. Behind(m, cached[i])
  BY <1>3, <1>4, MixedFile DEF SwapInv, FileInv, Reachable
<1>6. RowsIn(m) \subseteq TableRows
  BY <1>3, <1>4, <1>5, BehindRows DEF SwapInv, RowInv
<1>7. ~running' /\ saved' = saved
  BY DEF Crash, Gone
<1> QED BY <1>3, <1>6, <1>7, Restarts

LEMMA Insert_Durable ==
    ASSUME NEW r \in Row, Insert(r)
    PROVE  Durable!Insert(r)
BY DEF Insert, CanFetch, Durable!Insert

LEMMA GivesUp_Durable ==
    ASSUME Reliable, SwapInv, SwapInv', NEW t \in Threads, GivesUp(t), pc[t] # "idle"
    PROVE  [Durable!Next]_(Durable!vars)
<1>1. running
  BY DEF SwapInv, CallInv, CallsInv
<1>2. CASE job[t] = "drop"
  <2>1. ~running' /\ saved' = saved /\ cached'[main'] = cached[main]
    BY <1>2 DEF GivesUp, Gone
  <2>2. RowsIn(cached[main]) \subseteq TableRows
    BY StateTypes DEF SwapInv, RowInv
  <2> QED BY <2>1, <2>2, Restarts DEF Durable!Next
<1>3. CASE job[t] # "drop"
  BY <1>1, <1>3, GoesOn DEF GivesUp
<1> QED BY <1>2, <1>3

(* close keeps every row: flush_all has found them all in the frames.         *)
LEMMA FlushSync_Durable ==
    ASSUME Reliable, SwapInv, NEW t \in Threads, FlushSync(t)
    PROVE  [Durable!Next]_(Durable!vars)
<1>1. /\ pc[t] = "flush" /\ todo[t] = {} /\ running
      /\ job[t] \in {"create", "flush", "vacuum", "close", "drop"}
      /\ scanned[t] \subseteq inserted /\ scanned[t] \subseteq RowsIn(cached[handle])
      /\ saved \subseteq inserted
  BY Flushed, SavedInRows
  DEF FlushSync, SwapInv, CallInv, CallsType, CallsInv, Jobs, TableRows
<1>2. CASE job[t] \in {"create", "flush"}
  <2>1. saved' = saved \cup scanned[t] /\ UNCHANGED <<running, inserted>>
    BY <1>2 DEF FlushSync, Promise
  <2> QED BY <1>1, <2>1, Saves DEF TableRows, Durable!Next
<1>3. CASE job[t] = "vacuum"
  BY <1>1, <1>3, GoesOn DEF FlushSync
<1>4. CASE job[t] \in {"close", "drop"}
  <2>1. /\ ~running' /\ cached' = cached /\ main' = main
        /\ saved' \in {saved, saved \cup scanned[t]}
    BY <1>4 DEF FlushSync, Gone
  <2>2. handle = main /\ main \in perhaps
    BY <1>1, <1>4 DEF SwapInv, CallInv, TypeOK, CallsInv, NameInv, Reachable
  <2>3. scanned[t] = inserted
    BY <1>1, <1>4 DEF SwapInv, ThreadInv, FlushOk
  <2>4. RowsIn(cached[main]) = inserted
    BY <1>1, <2>2, <2>3 DEF SwapInv, RowInv, TableRows
  <2>5. TableRows' = TableRows /\ TableRows = inserted
    BY <1>1, <2>1, <2>4 DEF TableRows
  <2> QED BY <1>1, <2>1, <2>3, <2>5, Saves DEF Durable!Next
<1> QED BY <1>1, <1>2, <1>3, <1>4

LEMMA Clear_Durable ==
    ASSUME Reliable, SwapInv, PoisonInv, NEW t \in Threads, Clear(t)
    PROVE  Durable!Save
<1>1. running /\ scanned[t] = inserted
  BY Alone DEF Clear, Swapping, SwapInv, ThreadInv, VacuumOk
<1>2. saved' = saved \cup scanned[t] /\ UNCHANGED <<running, inserted>>
  BY DEF Clear, Promise
<1>3. saved \subseteq inserted
  BY <1>1, SavedInRows DEF TableRows
<1> QED BY <1>1, <1>2, <1>3, Saves DEF TableRows

LEMMA Step_Durable ==
    ASSUME Reliable, SwapInv, PoisonInv, SwapInv', NEW t \in Threads, Step(t)
    PROVE  [Durable!Next]_(Durable!vars)
<1>1. CASE Create(t)
  BY <1>1, Create_Durable
<1>2. CASE \E call \in {"flush", "close", "drop", "vacuum"} : Begin(t, call)
  BY <1>2, GoesOn DEF Begin
<1>3. CASE FlushFails(t) \/ SwapFails(t)
  BY <1>3, GivesUp_Durable DEF FlushFails, SwapFails
<1>4. CASE FlushSync(t)
  BY <1>4, FlushSync_Durable
<1>5. CASE Clear(t)
  BY <1>5, Clear_Durable DEF Durable!Next
<1>6. CASE \/ \E p \in Page : FlushFrame(t, p)
           \/ TakeLock(t) \/ CreateTemp(t) \/ WriteTemp(t) \/ WritePanics(t) \/ SyncTemp(t)
           \/ Rename(t) \/ SyncDir(t) \/ Reopen(t) \/ ClearPanics(t)
  <2>1. pc[t] # "idle" /\ UNCHANGED <<running, ghosts>>
    BY <1>6 DEF FlushFrame, TakeLock, CreateTemp, WriteTemp, WritePanics, SyncTemp, Rename,
                SyncDir, Reopen, ClearPanics
  <2>2. running
    BY <2>1 DEF SwapInv, CallInv, CallsInv
  <2> QED BY <2>1, <2>2, GoesOn
<1> QED BY <1>1, <1>2, <1>3, <1>4, <1>5, <1>6 DEF Step

LEMMA Next_Durable ==
    ASSUME Reliable, SwapInv, PoisonInv, SwapInv', [Next]_vars
    PROVE  [Durable!Next]_(Durable!vars)
<1>1. CASE UNCHANGED vars
  BY <1>1, Stutters DEF vars, files, ghosts, TableRows
<1>2. CASE Open
  BY <1>2, Open_Durable
<1>3. CASE Kill \/ Crash
  BY <1>3, Kill_Durable, Crash_Durable DEF Durable!Next
<1>4. CASE \E r \in Row : Insert(r)
  BY <1>4, Insert_Durable DEF Durable!Next
<1>5. CASE \E p \in Page : Load(p) \/ Evict(p)
  BY <1>5, GoesOn DEF Load, Evict, CanFetch
<1>6. CASE \E t \in Threads : Step(t)
  BY <1>6, Step_Durable
<1> QED BY <1>1, <1>2, <1>3, <1>4, <1>5, <1>6 DEF Next

(* File, pool and vacuum together are a table whose save succeeds only for    *)
(* rows it keeps, and whose restart, by close, kill, crash or a drop whose    *)
(* flush failed, loses no saved row and brings back none it never had.        *)
THEOREM TableImplementsDurableTable ==
    ASSUME Reliable
    PROVE  Spec => ImplementsDurableTable
<1>1. Init => Durable!Init
  BY Init_Durable
<1>2. SwapInv /\ PoisonInv /\ SwapInv' /\ [Next]_vars => [Durable!Next]_(Durable!vars)
  BY Next_Durable
<1> QED
  BY <1>1, <1>2, SwapInvariance, PTL DEF Spec, ImplementsDurableTable, Durable!Spec
=============================================================================
