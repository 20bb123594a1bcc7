----------------------------- MODULE ClockSweep -----------------------------
(* The eviction policies (src/bpm/eviction.rs), one atomic access at a time.  *)
(* find_victim runs under the big dumb lock, so nobody pins a frame during a  *)
(* sweep; guards are dropped, frames dirtied and flushed without that lock,   *)
(* so pin counts fall and dirty bits change between any two of its loads.     *)
EXTENDS Integers

CONSTANTS PoolSize,
          Policies,      \* "clock" (ClockEvictor), "replacer" (Replacer)
          MaxPins,       \* bound: guards alive on one frame
          NoVictim       \* find_victim returned None

ASSUME SweepAssumption ==
    /\ PoolSize \in Nat \ {0}
    /\ MaxPins \in Nat \ {0}
    /\ Policies \subseteq {"clock", "replacer"}
    /\ NoVictim \notin 0 .. (PoolSize - 1)

Frames == 0 .. (PoolSize - 1)

VARIABLES policy,                         \* the pool's type parameter Ep
          pin_count, referenced, dirty,   \* the atomics of each frame
          hand,                           \* the evictor's only state
          pc, pass, left, id, victim,     \* locals of the running find_victim
          start                           \* history: what the sweep started from

frameVars == <<pin_count, referenced, dirty>>
sweepVars == <<hand, pc, pass, left, id, victim, start>>
vars == <<policy, frameVars, sweepVars>>

TypeOK ==
    /\ policy \in Policies
    /\ pin_count \in [Frames -> 0 .. MaxPins]
    /\ referenced \in [Frames -> BOOLEAN]
    /\ dirty \in [Frames -> BOOLEAN]
    /\ hand \in Frames /\ id \in Frames
    /\ pc \in {"idle", "look", "referenced", "dirty", "return"}
    /\ pass \in {1, 2} /\ left \in 0 .. PoolSize
    /\ victim \in Frames \cup {NoVictim}
    /\ start \in [unpinned : SUBSET Frames, quiet : SUBSET Frames, clean : SUBSET Frames]

Init ==
    /\ policy \in Policies
    /\ pin_count = [f \in Frames |-> 0]
    /\ referenced = [f \in Frames |-> FALSE]
    /\ dirty = [f \in Frames |-> FALSE]
    /\ hand = 0 /\ id = 0 /\ pass = 1 /\ left = 0
    /\ pc = "idle" /\ victim = NoVictim
    /\ start = [unpinned |-> {}, quiet |-> {}, clean |-> {}]

is_pinned(f) == pin_count[f] # 0

-----------------------------------------------------------------------------
(* The pool around the policy.                                                *)

(* pin_frame on a cached page: only under the lock, so never during a sweep.  *)
(* A definition named Bug_... is a plausible mistake in the one after it.     *)
Bug_PinWithoutLock(f) ==
    /\ pin_count[f] < MaxPins
    /\ referenced' = [referenced EXCEPT ![f] = TRUE]
    /\ pin_count' = [pin_count EXCEPT ![f] = @ + 1]
    /\ UNCHANGED <<dirty, sweepVars>>
Pin(f) ==
    /\ pc = "idle"
    /\ pin_count[f] < MaxPins
    /\ referenced' = [referenced EXCEPT ![f] = TRUE]
    /\ pin_count' = [pin_count EXCEPT ![f] = @ + 1]
    /\ UNCHANGED <<dirty, sweepVars>>

Unpin(f) ==
    /\ is_pinned(f)
    /\ pin_count' = [pin_count EXCEPT ![f] = @ - 1]
    /\ UNCHANGED <<referenced, dirty, sweepVars>>

(* deref_mut, by a guard on f.                                                *)
SetDirty(f) ==
    /\ is_pinned(f)
    /\ dirty' = [dirty EXCEPT ![f] = TRUE]
    /\ UNCHANGED <<pin_count, referenced, sweepVars>>

(* flush_all, which pins nothing.                                             *)
ClearDirty(f) ==
    /\ dirty' = [dirty EXCEPT ![f] = FALSE]
    /\ UNCHANGED <<pin_count, referenced, sweepVars>>

-----------------------------------------------------------------------------
(* find_victim.                                                               *)

Bug_ShortPass == PoolSize - 1
PassLength == PoolSize

Begin ==
    /\ pc = "idle"
    /\ pc' = "look" /\ pass' = 1 /\ left' = PassLength /\ victim' = NoVictim
    /\ start' = [unpinned |-> {f \in Frames : ~is_pinned(f)},
                 quiet |-> {f \in Frames : ~referenced[f]},
                 clean |-> {f \in Frames : ~dirty[f]}]
    /\ UNCHANGED <<frameVars, hand, id>>

Found(f) == pc' = "return" /\ victim' = f
Continue == pc' = "look" /\ UNCHANGED victim

Bug_HandStays == 0
Bug_NoWrap == hand + 1
NextHand == (hand + 1) % PoolSize

(* Move the hand and load the pin count of the frame it left.                 *)
Look ==
    /\ pc = "look" /\ left > 0
    /\ id' = hand /\ hand' = NextHand /\ left' = left - 1
    /\ \/ is_pinned(hand) /\ Continue
       \/ /\ ~is_pinned(hand)
          /\ \/ policy = "replacer" /\ Found(hand)
             \/ policy = "clock" /\ pc' = "referenced" /\ UNCHANGED victim
    /\ UNCHANGED <<frameVars, pass, start>>

(* take_referenced: a frame used since the last sweep gets a second chance.   *)
Bug_OnlyRead == UNCHANGED referenced
ClearReference == referenced' = [referenced EXCEPT ![id] = FALSE]

TakeReferenced ==
    /\ pc = "referenced"
    /\ ClearReference
    /\ \/ referenced[id] /\ Continue
       \/ ~referenced[id] /\ pass = 1 /\ pc' = "dirty" /\ UNCHANGED victim
       \/ ~referenced[id] /\ pass = 2 /\ Found(id)
    /\ UNCHANGED <<pin_count, dirty, hand, pass, left, id, start>>

(* Only the first pass spares dirty frames.                                   *)
CheckDirty ==
    /\ pc = "dirty"
    /\ \/ dirty[id] /\ Continue
       \/ ~dirty[id] /\ Found(id)
    /\ UNCHANGED <<frameVars, hand, pass, left, id, start>>

PassEnds ==
    /\ pc = "look" /\ left = 0
    /\ IF policy = "clock" /\ pass = 1
       THEN pass' = 2 /\ left' = PassLength /\ UNCHANGED pc
       ELSE pc' = "return" /\ UNCHANGED <<pass, left>>
    /\ UNCHANGED <<frameVars, hand, id, victim, start>>

(* claim_frame and load_page or new_page: the victim is refilled and pinned;  *)
(* None, or a victim whose latch flush_all holds, is NoFreeFrames.            *)
Use ==
    /\ pc = "return"
    /\ pc' = "idle"
    /\ \/ /\ victim # NoVictim /\ ~is_pinned(victim)
          /\ pin_count' = [pin_count EXCEPT ![victim] = 1]
          /\ referenced' = [referenced EXCEPT ![victim] = TRUE]
          /\ \E d \in BOOLEAN : dirty' = [dirty EXCEPT ![victim] = d]
       \/ UNCHANGED frameVars
    /\ UNCHANGED <<hand, pass, left, id, victim, start>>

FindVictim ==
    /\ Begin \/ Look \/ TakeReferenced \/ CheckDirty \/ PassEnds \/ Use
    /\ UNCHANGED policy

UseFrame(f) ==
    /\ Pin(f) \/ Unpin(f) \/ SetDirty(f) \/ ClearDirty(f)
    /\ UNCHANGED policy

Next == FindVictim \/ \E f \in Frames : UseFrame(f)

Spec == Init /\ [][Next]_vars
FairSpec == Spec /\ WF_vars(FindVictim)

-----------------------------------------------------------------------------
(* The victim is unpinned when it is returned, though it was seen unpinned    *)
(* several loads earlier: claim_frame's second is_pinned test never fires.    *)
VictimIsUnpinned == pc = "return" /\ victim # NoVictim => ~is_pinned(victim)

(* "None // everything pinned": if some frame was unpinned when the sweep     *)
(* began, a victim is found, whatever was referenced, dirtied or flushed.     *)
NoneMeansAllWerePinned == pc = "return" /\ victim = NoVictim => start.unpinned = {}

(* "go through the Frames once and skip the dirty frames": a frame that was   *)
(* idle, unreferenced and clean from the start saves every dirty frame.       *)
CleanFirst ==
    pc = "return" /\ victim # NoVictim /\ pass = 2
        => start.unpinned \cap start.quiet \cap start.clean = {}

(* The hand moves on between sweeps, so a frame nobody touches is reclaimed   *)
(* if the pool keeps needing frames: no page stays cached for ever.           *)
IdleFrameIsReclaimed ==
    \A f \in Frames :
        (~is_pinned(f) /\ ~dirty[f]) ~> (victim = f \/ is_pinned(f))
=============================================================================
