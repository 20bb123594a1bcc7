------------------------------ MODULE PageStore ------------------------------
(* What the buffer pool promises the B-tree above it: a map from page ids to  *)
(* page versions, read and changed under guards that work like one            *)
(* readers-writer lock per page.  Frames, pins, eviction, dirty bits and the  *)
(* file are invisible here; BufferPool is shown to implement this module.     *)
EXTENDS Naturals

CONSTANTS InitialPages,  \* the pages that exist at the start
          Clients,      \* one per guard a thread may hold, from fetch to drop
          PageIds,      \* the page ids the table uses
          Absent        \* the guard of a client that holds none

VARIABLES store,        \* store[p]: version of page p, 0 when it does not exist
          guard         \* guard[c]: the page and mode c is entitled to, or Absent

vars == <<store, guard>>

Modes == {"read", "write"}
Guard == [page : PageIds, mode : Modes]

TypeOK == /\ store \in [PageIds -> Nat]
          /\ guard \in [Clients -> Guard \cup {Absent}]

Holding(c, p, m) == guard[c] = [page |-> p, mode |-> m]

Init == /\ store = [p \in PageIds |-> IF p \in InitialPages THEN 1 ELSE 0]
        /\ guard = [c \in Clients |-> Absent]

(* new_page: the page starts to exist and its creator holds it for writing.   *)
Create(c, p) ==
    /\ guard[c] = Absent
    /\ store[p] = 0
    /\ \A d \in Clients : guard[d] = Absent \/ guard[d].page # p
    /\ store' = [store EXCEPT ![p] = 1]
    /\ guard' = [guard EXCEPT ![c] = [page |-> p, mode |-> "write"]]

(* fetch_read, fetch_write: readers share a page, a writer has it alone.      *)
Acquire(c, p, m) ==
    /\ guard[c] = Absent
    /\ guard' = [guard EXCEPT ![c] = [page |-> p, mode |-> m]]
    /\ store[p] > 0
    /\ \A d \in Clients :
          /\ ~Holding(d, p, "write")
          /\ m = "write" => ~Holding(d, p, "read")
    /\ UNCHANGED store

(* A mutation through DerefMut.                                               *)
Update(c, p) ==
    /\ Holding(c, p, "write")
    /\ store' = [store EXCEPT ![p] = @ + 1]
    /\ UNCHANGED guard

(* A guard is dropped.                                                        *)
Release(c) ==
    /\ guard[c] # Absent
    /\ guard' = [guard EXCEPT ![c] = Absent]
    /\ UNCHANGED store

(* The second alternative says first that c's guard changes: TLC then tries   *)
(* the pages only on the few steps of the pool where one does.                *)
Next == \E c \in Clients :
           \/ Release(c)
           \/ /\ guard[c] # guard'[c]
              /\ \E p \in PageIds : \/ Create(c, p)
                                    \/ \E m \in Modes : Acquire(c, p, m)
           \/ \E p \in PageIds : Update(c, p)

Spec == Init /\ [][Next]_vars
=============================================================================
