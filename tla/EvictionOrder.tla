--------------------------- MODULE EvictionOrder ---------------------------
(***************************************************************************)
(* What the LFU queue of a tier promises: the stored keys would be evicted  *)
(* by ascending priority and, among equals, in the order in which they      *)
(* reached it.  An eviction takes the first and sets the age to its         *)
(* priority; the age is what a key of frequency 0 starts from.              *)
(***************************************************************************)
EXTENDS Integers

CONSTANT Key

VARIABLES standing,  \* partial function: key -> priority
          ahead,     \* partial function: key -> the keys that reached it before
          age

Kept == DOMAIN standing

Init == standing = <<>> /\ ahead = <<>> /\ age = 0

\* A key comes in, or rises, behind every key of the same priority.
Rise(key, p) ==
    /\ p >= age
    /\ key \in Kept => p > standing[key]
    /\ standing' = [k \in Kept \cup {key} |-> IF k = key THEN p ELSE standing[k]]
    /\ ahead' = [k \in Kept \cup {key} |->
                    IF k = key THEN {l \in Kept \ {key} : standing[l] = p}
                               ELSE ahead[k] \ {key}]
    /\ UNCHANGED age

Leave(key) ==
    /\ key \in Kept
    /\ standing' = [k \in Kept \ {key} |-> standing[k]]
    /\ ahead' = [k \in Kept \ {key} |-> ahead[k] \ {key}]

IsFirst(key) == ahead[key] = {} /\ \A k \in Kept : standing[key] <= standing[k]

EvictFirst(key) ==
    /\ Leave(key) /\ IsFirst(key)
    /\ age' = standing[key]

Drop(key) == Leave(key) /\ UNCHANGED age

\* The priority that a key rises to is any.
Next ==
    \E key \in Key :
        \/ EvictFirst(key) \/ Drop(key)
        \/ key \in DOMAIN standing' /\ Rise(key, standing'[key])

Spec == Init /\ [][Next]_<<standing, ahead, age>>
=============================================================================
