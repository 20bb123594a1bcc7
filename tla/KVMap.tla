-------------------------------- MODULE KVMap --------------------------------
(* What Table::insert, delete and get promise: one atomic map.  map is the    *)
(* set of keys that have a row; answer[t] is what t's call has returned, and  *)
(* NoAnswer from the next call on until it takes effect.                      *)
CONSTANTS Threads, Key, NoAnswer

VARIABLES map, answer

vars == <<map, answer>>

Answer(op, k, res) == [op |-> op, key |-> k, res |-> res]

Init == map = {} /\ answer = [t \in Threads |-> NoAnswer]

(* A call begins; it answers once.                                            *)
Call(t) == answer' = [answer EXCEPT ![t] = NoAnswer] /\ UNCHANGED map

Answers(t, op, k, res) ==
    answer[t] = NoAnswer /\ answer' = [answer EXCEPT ![t] = Answer(op, k, res)]

Insert(t, k) ==
    \/ Answers(t, "insert", k, "duplicate") /\ k \in map /\ UNCHANGED map
    \/ Answers(t, "insert", k, "ok") /\ k \notin map /\ map' = map \cup {k}

Delete(t, k) ==
    \/ Answers(t, "delete", k, "row") /\ k \in map /\ map' = map \ {k}
    \/ Answers(t, "delete", k, "none") /\ k \notin map /\ UNCHANGED map

Get(t, k) ==
    \/ Answers(t, "get", k, "row") /\ k \in map /\ UNCHANGED map
    \/ Answers(t, "get", k, "none") /\ k \notin map /\ UNCHANGED map

Next == \E t \in Threads : \/ Call(t)
                          \/ \E k \in Key : Insert(t, k) \/ Delete(t, k) \/ Get(t, k)

Spec == Init /\ [][Next]_vars
=============================================================================
