--------------------------- MODULE ClockSweepProofs ---------------------------
(* The safety properties of ClockSweep, proved for pools of any size.         *)
(*                                                                            *)
(* A pass visits the frames in the order of their distance from the hand.     *)
(* The frames that were unpinned when the sweep began stay unpinned until it  *)
(* ends, since pins are taken under the lock the sweep holds; so each visited *)
(* one has been judged, and SweepInv says with what result.                   *)
EXTENDS ClockSweep, TLAPS

(* How many frames the hand still passes before it is at f.                   *)
Distance(f) == IF f >= hand THEN f - hand ELSE f + PoolSize - hand

(* The running pass has been at f and is done with it.                        *)
Judged(f) == Distance(f) >= left /\ ~(pc \in {"referenced", "dirty"} /\ f = id)

Sweeping == pc \in {"look", "referenced", "dirty"}

(* What a sweep relies on: unpinned frames stay so; an unpinned frame gains   *)
(* neither a reference nor a dirty bit.                                       *)
StartInv ==
    pc # "idle" => \A f \in start.unpinned : /\ ~is_pinned(f)
                                             /\ f \in start.quiet => ~referenced[f]
                                             /\ f \in start.clean => ~dirty[f]

(* The frame under test.                                                      *)
LookInv ==
    /\ Sweeping => victim = NoVictim
    /\ pc \in {"referenced", "dirty"} => policy = "clock" /\ ~is_pinned(id)
    /\ pc = "dirty" => pass = 1 /\ ~referenced[id]

(* Replacer takes the first unpinned frame.  The first pass of ClockEvictor   *)
(* leaves each unpinned frame without its reference, and spared none that was *)
(* idle, unreferenced and clean; its second pass takes the first of them.     *)
PassInv ==
    /\ Sweeping => \A f \in start.unpinned :
          Judged(f) => /\ policy = "clock" /\ pass = 1
                       /\ ~referenced[f]
                       /\ f \notin start.quiet \cap start.clean
    /\ pc # "idle" /\ pass = 2 => /\ start.unpinned \cap start.quiet \cap start.clean = {}
                                  /\ \A f \in start.unpinned : ~referenced[f]

SweepInv ==
    /\ TypeOK /\ StartInv /\ LookInv /\ PassInv
    /\ VictimIsUnpinned /\ NoneMeansAllWerePinned

-----------------------------------------------------------------------------
(* The hand stays on the frames and comes one closer to every other frame.    *)
LEMMA HandMoves ==
    ASSUME NEW h \in Frames
    PROVE  (h + 1) % PoolSize = IF h + 1 = PoolSize THEN 0 ELSE h + 1
BY SweepAssumption DEF Frames

(* A visit judges no frame but the one the hand leaves.                       *)
LEMMA VisitJudgesOne ==
    ASSUME hand \in Frames, left \in 1 .. PoolSize,
           hand' = NextHand, left' = left - 1,
           NEW f \in Frames, f # hand, Distance(f)' >= left'
    PROVE  Distance(f) >= left
BY HandMoves, SweepAssumption DEF Distance, NextHand, Frames

(* At the start of a pass no frame is judged, at its end all are.             *)
LEMMA PassBounds ==
    ASSUME hand \in Frames, NEW f \in Frames
    PROVE  Distance(f) \in 0 .. (PoolSize - 1)
BY SweepAssumption DEF Distance, Frames

-----------------------------------------------------------------------------
(* The pool around the sweep: pins and references only between sweeps, and    *)
(* dirty bits on pinned frames.                                               *)

LEMMA Pin_Inv ==
    ASSUME SweepInv, NEW f \in Frames, Pin(f), UNCHANGED policy
    PROVE  SweepInv'
<1>1. pc = "idle" /\ pc' = "idle"
  BY DEF Pin, sweepVars
<1>2. TypeOK'
  BY SweepAssumption DEF Pin, sweepVars, SweepInv, TypeOK
<1> QED
  BY <1>1, <1>2 DEF SweepInv, StartInv, LookInv, PassInv, Sweeping,
                    VictimIsUnpinned, NoneMeansAllWerePinned

LEMMA Unpin_Inv ==
    ASSUME SweepInv, NEW f \in Frames, Unpin(f), UNCHANGED policy
    PROVE  SweepInv'
<1>1. TypeOK'
  BY SweepAssumption DEF Unpin, is_pinned, sweepVars, SweepInv, TypeOK
<1>2. \A g \in Frames : ~is_pinned(g) => ~is_pinned(g)'
  BY DEF Unpin, is_pinned, SweepInv, TypeOK
<1>3. UNCHANGED <<policy, referenced, dirty, sweepVars>>
  BY DEF Unpin
<1>4. StartInv' /\ LookInv' /\ VictimIsUnpinned'
  BY <1>2, <1>3 DEF SweepInv, StartInv, LookInv, Sweeping, VictimIsUnpinned, TypeOK, sweepVars
<1>5. PassInv' /\ NoneMeansAllWerePinned'
  BY <1>3 DEF SweepInv, PassInv, Sweeping, Judged, Distance, NoneMeansAllWerePinned, sweepVars
<1> QED BY <1>1, <1>4, <1>5 DEF SweepInv

LEMMA SetDirty_Inv ==
    ASSUME SweepInv, NEW f \in Frames, SetDirty(f), UNCHANGED policy
    PROVE  SweepInv'
<1>1. TypeOK'
  BY DEF SetDirty, sweepVars, SweepInv, TypeOK
<1>2. \A g \in Frames : ~is_pinned(g) => dirty'[g] = dirty[g]
  BY DEF SetDirty, SweepInv, TypeOK
<1>3. UNCHANGED <<policy, pin_count, referenced, sweepVars>>
  BY DEF SetDirty
<1>4. StartInv'
  BY <1>2, <1>3 DEF SweepInv, StartInv, TypeOK, sweepVars, is_pinned
<1>5. LookInv' /\ VictimIsUnpinned' /\ PassInv' /\ NoneMeansAllWerePinned'
  BY <1>3 DEF SweepInv, LookInv, PassInv, Sweeping, Judged, Distance, is_pinned,
              VictimIsUnpinned, NoneMeansAllWerePinned, sweepVars
<1> QED BY <1>1, <1>4, <1>5 DEF SweepInv

LEMMA ClearDirty_Inv ==
    ASSUME SweepInv, NEW f \in Frames, ClearDirty(f), UNCHANGED policy
    PROVE  SweepInv'
<1>1. TypeOK'
  BY DEF ClearDirty, sweepVars, SweepInv, TypeOK
<1>2. \A g \in Frames : ~dirty[g] => ~dirty'[g]
  BY DEF ClearDirty, SweepInv, TypeOK
<1>3. UNCHANGED <<policy, pin_count, referenced, sweepVars>>
  BY DEF ClearDirty
<1>4. StartInv'
  BY <1>2, <1>3 DEF SweepInv, StartInv, TypeOK, sweepVars, is_pinned
<1>5. LookInv' /\ VictimIsUnpinned' /\ PassInv' /\ NoneMeansAllWerePinned'
  BY <1>3 DEF SweepInv, LookInv, PassInv, Sweeping, Judged, Distance, is_pinned,
              VictimIsUnpinned, NoneMeansAllWerePinned, sweepVars
<1> QED BY <1>1, <1>4, <1>5 DEF SweepInv

-----------------------------------------------------------------------------
(* The steps of find_victim.                                                  *)

LEMMA Begin_Inv ==
    ASSUME SweepInv, Begin, UNCHANGED policy
    PROVE  SweepInv'
<1>1. TypeOK'
  BY SweepAssumption DEF Begin, PassLength, frameVars, SweepInv, TypeOK
<1>2. StartInv' /\ LookInv'
  BY DEF Begin, frameVars, is_pinned, StartInv, LookInv, Sweeping
<1>3. \A f \in Frames : ~Judged(f)'
  <2>1. \A f \in Frames : Distance(f)' \in 0 .. (PoolSize - 1)
    BY <1>1, PassBounds DEF TypeOK, Begin, Distance, Frames
  <2> QED BY <2>1, SweepAssumption DEF Begin, PassLength, Judged
<1>4. PassInv'
  BY <1>3 DEF PassInv, Begin
<1>5. VictimIsUnpinned' /\ NoneMeansAllWerePinned'
  BY DEF Begin, VictimIsUnpinned, NoneMeansAllWerePinned
<1> QED BY <1>1, <1>2, <1>4, <1>5 DEF SweepInv

LEMMA Look_Inv ==
    ASSUME SweepInv, Look, UNCHANGED policy
    PROVE  SweepInv'
<1>1. /\ pc = "look" /\ victim = NoVictim /\ left \in 1 .. PoolSize /\ hand \in Frames
      /\ id' = hand /\ hand' = NextHand /\ left' = left - 1
      /\ UNCHANGED <<policy, pin_count, referenced, dirty, pass, start>>
  BY SweepAssumption DEF Look, frameVars, SweepInv, TypeOK, LookInv, Sweeping
<1>2. NextHand \in Frames
  BY <1>1, HandMoves, SweepAssumption DEF NextHand, Frames
<1>3. /\ pc' \in {"look", "referenced", "return"}
      /\ pc' = "look" => is_pinned(hand) /\ victim' = NoVictim
      /\ pc' = "referenced" => ~is_pinned(hand) /\ victim' = NoVictim /\ policy = "clock"
      /\ pc' = "return" => ~is_pinned(hand) /\ victim' = hand
  BY <1>1 DEF Look, Found, Continue
<1>4. TypeOK'
  BY <1>1, <1>2, <1>3, SweepAssumption DEF SweepInv, TypeOK
<1>5. StartInv'
  BY <1>1 DEF SweepInv, StartInv, is_pinned
<1>6. LookInv' /\ VictimIsUnpinned' /\ NoneMeansAllWerePinned'
  BY <1>1, <1>3, SweepAssumption
  DEF LookInv, Sweeping, is_pinned, VictimIsUnpinned, NoneMeansAllWerePinned, Frames
<1>7. PassInv'
  <2>1. ASSUME NEW f \in start.unpinned, Judged(f)', pc' # "return" PROVE Judged(f)
    <3>1. f \in Frames /\ ~is_pinned(f)
      BY <1>1, <2>1 DEF SweepInv, TypeOK, StartInv
    <3>2. f # hand
      BY <1>1, <1>3, <2>1, <3>1 DEF Judged
    <3>3. Distance(f)' >= left'
      BY <2>1 DEF Judged
    <3> QED BY <1>1, <3>1, <3>2, <3>3, VisitJudgesOne DEF Judged
  <2> QED BY <1>1, <1>3, <2>1 DEF SweepInv, PassInv, Sweeping
<1> QED BY <1>4, <1>5, <1>6, <1>7 DEF SweepInv

LEMMA TakeReferenced_Inv ==
    ASSUME SweepInv, TakeReferenced, UNCHANGED policy
    PROVE  SweepInv'
<1>1. /\ pc = "referenced" /\ victim = NoVictim /\ policy = "clock" /\ ~is_pinned(id)
      /\ id \in Frames /\ pass \in {1, 2}
      /\ UNCHANGED <<policy, pin_count, dirty, hand, pass, left, id, start>>
      /\ referenced' = [referenced EXCEPT ![id] = FALSE]
  BY DEF TakeReferenced, ClearReference, SweepInv, TypeOK, LookInv, Sweeping
<1>2. \/ referenced[id] /\ pc' = "look" /\ victim' = NoVictim
      \/ ~referenced[id] /\ pass = 1 /\ pc' = "dirty" /\ victim' = NoVictim
      \/ ~referenced[id] /\ pass = 2 /\ pc' = "return" /\ victim' = id
  BY <1>1 DEF TakeReferenced, Found, Continue
<1>3. \A f \in Frames : /\ referenced'[f] => referenced[f]
                        /\ f # id => referenced'[f] = referenced[f]
                        /\ ~referenced'[id]
  BY <1>1 DEF SweepInv, TypeOK
<1>4. TypeOK'
  BY <1>1, <1>2 DEF SweepInv, TypeOK
<1>5. StartInv'
  BY <1>1, <1>3 DEF SweepInv, TypeOK, StartInv, is_pinned
<1>6. LookInv' /\ VictimIsUnpinned' /\ NoneMeansAllWerePinned'
  BY <1>1, <1>2, <1>3, SweepAssumption
  DEF LookInv, Sweeping, is_pinned, VictimIsUnpinned, NoneMeansAllWerePinned, Frames
<1>7. PassInv'
  <2>1. ASSUME NEW f \in start.unpinned, Judged(f)', pc' \in {"look", "dirty"}
        PROVE  policy = "clock" /\ pass = 1 /\ ~referenced'[f]
               /\ f \notin start.quiet \cap start.clean
    <3>1. f \in Frames
      BY <2>1 DEF SweepInv, TypeOK
    <3>2. CASE f # id
      <4>1. Judged(f)
        BY <1>1, <2>1, <3>2 DEF Judged, Distance
      <4> QED BY <1>1, <1>3, <3>1, <4>1 DEF SweepInv, PassInv, Sweeping
    <3>3. CASE f = id
      <4>1. pc' = "look" /\ referenced[id]
        BY <1>1, <1>2, <2>1, <3>3 DEF Judged
      <4>2. pass = 1
        BY <1>1, <2>1, <3>3, <4>1 DEF SweepInv, PassInv
      <4>3. f \notin start.quiet
        BY <1>1, <3>3, <4>1 DEF SweepInv, StartInv
      <4> QED BY <1>1, <1>3, <3>1, <3>3, <4>2, <4>3
    <3> QED BY <3>2, <3>3
  <2>2. pass = 2 => /\ start.unpinned \cap start.quiet \cap start.clean = {}
                    /\ \A f \in start.unpinned : ~referenced'[f]
    BY <1>1, <1>3 DEF SweepInv, PassInv, TypeOK
  <2> QED BY <1>1, <1>2, <2>1, <2>2 DEF PassInv, Sweeping
<1> QED BY <1>4, <1>5, <1>6, <1>7 DEF SweepInv

LEMMA CheckDirty_Inv ==
    ASSUME SweepInv, CheckDirty, UNCHANGED policy
    PROVE  SweepInv'
<1>1. /\ pc = "dirty" /\ victim = NoVictim /\ policy = "clock" /\ ~is_pinned(id)
      /\ pass = 1 /\ ~referenced[id] /\ id \in Frames
      /\ UNCHANGED <<policy, pin_count, referenced, dirty, hand, pass, left, id, start>>
  BY DEF CheckDirty, frameVars, SweepInv, TypeOK, LookInv, Sweeping
<1>2. \/ dirty[id] /\ pc' = "look" /\ victim' = NoVictim
      \/ ~dirty[id] /\ pc' = "return" /\ victim' = id
  BY <1>1 DEF CheckDirty, Found, Continue
<1>3. TypeOK'
  BY <1>1, <1>2 DEF SweepInv, TypeOK
<1>4. StartInv'
  BY <1>1 DEF SweepInv, StartInv, is_pinned
<1>5. LookInv' /\ VictimIsUnpinned' /\ NoneMeansAllWerePinned'
  BY <1>1, <1>2, SweepAssumption
  DEF LookInv, Sweeping, is_pinned, VictimIsUnpinned, NoneMeansAllWerePinned, Frames
<1>6. PassInv'
  <2>1. ASSUME NEW f \in start.unpinned, Judged(f)', pc' = "look"
        PROVE  ~referenced[f] /\ f \notin start.quiet \cap start.clean
    <3>1. CASE f # id
      <4>1. Judged(f)
        BY <1>1, <2>1, <3>1 DEF Judged, Distance
      <4> QED BY <1>1, <4>1 DEF SweepInv, PassInv, Sweeping
    <3>2. CASE f = id
      BY <1>1, <1>2, <2>1, <3>2 DEF SweepInv, StartInv
    <3> QED BY <3>1, <3>2
  <2> QED BY <1>1, <1>2, <2>1 DEF PassInv, Sweeping
<1> QED BY <1>3, <1>4, <1>5, <1>6 DEF SweepInv

LEMMA PassEnds_Inv ==
    ASSUME SweepInv, PassEnds, UNCHANGED policy
    PROVE  SweepInv'
<1>1. /\ pc = "look" /\ left = 0 /\ victim = NoVictim /\ policy \in Policies
      /\ UNCHANGED <<policy, pin_count, referenced, dirty, hand, id, victim, start>>
  BY DEF PassEnds, frameVars, SweepInv, TypeOK, LookInv, Sweeping
<1>2. \A f \in start.unpinned : /\ policy = "clock" /\ pass = 1
                                /\ ~referenced[f]
                                /\ f \notin start.quiet \cap start.clean
  <2>1. ASSUME NEW f \in start.unpinned PROVE Judged(f)
    <3>1. f \in Frames /\ hand \in Frames
      BY DEF SweepInv, TypeOK
    <3> QED BY <1>1, <3>1, PassBounds, SweepAssumption DEF Judged
  <2> QED BY <1>1, <2>1 DEF SweepInv, PassInv, Sweeping
<1>3. CASE policy = "clock" /\ pass = 1
  <2>1. pass' = 2 /\ left' = PoolSize /\ pc' = "look"
    BY <1>1, <1>3 DEF PassEnds, PassLength
  <2>2. TypeOK'
    BY <1>1, <2>1, SweepAssumption DEF SweepInv, TypeOK
  <2>3. \A f \in start.unpinned : ~Judged(f)'
    <3>1. ASSUME NEW f \in start.unpinned PROVE Distance(f)' \in 0 .. (PoolSize - 1)
      <4>1. f \in Frames /\ hand \in Frames
        BY DEF SweepInv, TypeOK
      <4> QED BY <1>1, <4>1, PassBounds DEF Distance
    <3> QED BY <2>1, <3>1, SweepAssumption DEF Judged
  <2>4. PassInv'
    BY <1>1, <1>2, <2>1, <2>3 DEF PassInv
  <2> QED
    BY <1>1, <2>1, <2>2, <2>4 DEF SweepInv, StartInv, LookInv, Sweeping, is_pinned,
                                  VictimIsUnpinned, NoneMeansAllWerePinned
<1>4. CASE ~(policy = "clock" /\ pass = 1)
  <2>1. pc' = "return" /\ UNCHANGED <<pass, left>>
    BY <1>1, <1>4 DEF PassEnds
  <2>2. TypeOK'
    BY <1>1, <2>1 DEF SweepInv, TypeOK
  <2>3. start.unpinned = {}
    BY <1>2, <1>4
  <2> QED
    BY <1>1, <2>1, <2>2, <2>3 DEF SweepInv, StartInv, LookInv, PassInv, Sweeping, is_pinned,
                                  VictimIsUnpinned, NoneMeansAllWerePinned
<1> QED BY <1>3, <1>4

LEMMA Use_Inv ==
    ASSUME SweepInv, Use, UNCHANGED policy
    PROVE  SweepInv'
<1>1. TypeOK'
  <2>1. CASE UNCHANGED frameVars
    BY <2>1 DEF Use, frameVars, SweepInv, TypeOK
  <2>2. CASE ~UNCHANGED frameVars
    <3> PICK d \in BOOLEAN : /\ victim \in Frames
                            /\ pin_count' = [pin_count EXCEPT ![victim] = 1]
                            /\ referenced' = [referenced EXCEPT ![victim] = TRUE]
                            /\ dirty' = [dirty EXCEPT ![victim] = d]
      BY <2>2 DEF Use, SweepInv, TypeOK
    <3>1. 1 \in 0 .. MaxPins
      BY SweepAssumption
    <3>2. pin_count' \in [Frames -> 0 .. MaxPins]
      BY <3>1 DEF SweepInv, TypeOK
    <3>3. referenced' \in [Frames -> BOOLEAN] /\ dirty' \in [Frames -> BOOLEAN]
      BY DEF SweepInv, TypeOK
    <3> QED BY <3>2, <3>3 DEF Use, SweepInv, TypeOK
  <2> QED BY <2>1, <2>2 DEF Use
<1>2. pc' = "idle"
  BY DEF Use
<1> QED
  BY <1>1, <1>2 DEF SweepInv, StartInv, LookInv, PassInv, Sweeping,
                    VictimIsUnpinned, NoneMeansAllWerePinned

-----------------------------------------------------------------------------
LEMMA Init_SweepInv == ASSUME Init PROVE SweepInv
BY SweepAssumption
DEF Init, Frames, SweepInv, TypeOK, StartInv, LookInv, PassInv, Sweeping,
    VictimIsUnpinned, NoneMeansAllWerePinned

LEMMA Next_SweepInv == ASSUME SweepInv, [Next]_vars PROVE SweepInv'
<1>1. CASE FindVictim
  BY <1>1, Begin_Inv, Look_Inv, TakeReferenced_Inv, CheckDirty_Inv, PassEnds_Inv, Use_Inv
  DEF FindVictim
<1>2. ASSUME NEW f \in Frames, UseFrame(f) PROVE SweepInv'
  BY <1>2, Pin_Inv, Unpin_Inv, SetDirty_Inv, ClearDirty_Inv DEF UseFrame
<1>3. CASE UNCHANGED vars
  <2>1. UNCHANGED <<policy, pin_count, referenced, dirty, sweepVars>>
    BY <1>3 DEF vars, frameVars
  <2>2. TypeOK' /\ StartInv' /\ LookInv' /\ VictimIsUnpinned'
    BY <2>1 DEF SweepInv, TypeOK, StartInv, LookInv, Sweeping, VictimIsUnpinned,
                is_pinned, sweepVars
  <2>3. PassInv' /\ NoneMeansAllWerePinned'
    BY <2>1 DEF SweepInv, PassInv, Sweeping, Judged, Distance, NoneMeansAllWerePinned, sweepVars
  <2> QED BY <2>2, <2>3 DEF SweepInv
<1> QED BY <1>1, <1>2, <1>3 DEF Next

(* The invariant of a sweep, for either policy and any number of frames.      *)
THEOREM SweepInvariance == Spec => []SweepInv
<1>1. Init => SweepInv
  BY Init_SweepInv
<1>2. SweepInv /\ [Next]_vars => SweepInv'
  BY Next_SweepInv
<1> QED BY <1>1, <1>2, PTL DEF Spec

(* The hand never leaves the frames, the count of a pass never falls below 0. *)
THEOREM SweepTypeCorrect == Spec => []TypeOK
<1>1. SweepInv => TypeOK
  BY DEF SweepInv
<1> QED BY <1>1, SweepInvariance, PTL

(* The frame find_victim returns is unpinned, though guards are dropped and   *)
(* frames dirtied and flushed between its loads and its return.               *)
THEOREM VictimsAreUnpinned == Spec => []VictimIsUnpinned
<1>1. SweepInv => VictimIsUnpinned
  BY DEF SweepInv
<1> QED BY <1>1, SweepInvariance, PTL

(* find_victim gives up only if every frame was pinned when it began: two     *)
(* passes of exactly PoolSize steps are enough, wherever the hand started.    *)
THEOREM GivesUpOnlyIfAllPinned == Spec => []NoneMeansAllWerePinned
<1>1. SweepInv => NoneMeansAllWerePinned
  BY DEF SweepInv
<1> QED BY <1>1, SweepInvariance, PTL

(* A second pass, which may take a dirty frame, is never needed while there   *)
(* is an unpinned, unreferenced, clean frame when the sweep begins.           *)
THEOREM CleanFramesGoFirst == Spec => []CleanFirst
<1>1. SweepInv => CleanFirst
  BY DEF SweepInv, PassInv, CleanFirst
<1> QED BY <1>1, SweepInvariance, PTL
=============================================================================
