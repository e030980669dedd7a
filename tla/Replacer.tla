------------------------------ MODULE Replacer ------------------------------
(***************************************************************************)
(* What a page-replacement policy promises the buffer pool (spec 4.1):     *)
(* it tracks frames, a tracked frame is evictable or not, Pin makes a      *)
(* frame tracked and non-evictable, Unpin makes it evictable (refusing a   *)
(* new frame only when MaxSize frames are already tracked), and Victim     *)
(* removes and returns some evictable frame.  Which one is the policy's    *)
(* business (LRUReplacer, LRUKReplacer); both are shown to refine this.    *)
(***************************************************************************)
EXTENDS Naturals, FiniteSets

CONSTANTS FrameIds, MaxSize

VARIABLES tracked, evictable

vars == <<tracked, evictable>>

TypeOK ==
  /\ tracked \subseteq FrameIds
  /\ evictable \subseteq tracked

Init ==
  /\ tracked = {}
  /\ evictable = {}

Pin(f) ==
  /\ tracked' = tracked \cup {f}
  /\ evictable' = evictable \ {f}

Unpin(f) ==
  \/ /\ f \in tracked
     /\ evictable' = evictable \cup {f}
     /\ UNCHANGED tracked
  \/ /\ f \notin tracked
     /\ Cardinality(tracked) < MaxSize
     /\ tracked' = tracked \cup {f}
     /\ evictable' = evictable \cup {f}
  \/ /\ f \notin tracked
     /\ Cardinality(tracked) >= MaxSize
     /\ UNCHANGED vars

Victim(v) ==
  /\ v \in evictable
  /\ tracked' = tracked \ {v}
  /\ evictable' = evictable \ {v}

Next ==
  \E f \in FrameIds : Pin(f) \/ Unpin(f) \/ Victim(f)

Spec == Init /\ [][Next]_vars
=============================================================================
