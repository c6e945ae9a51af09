----------------------------- MODULE StateSlots -----------------------------
(***************************************************************************)
(* What a person expects of save states: a slot holds a moment of the game *)
(* as a whole or nothing, loading it brings the game back to that moment,  *)
(* and a save that is cut off loses its own slot and no other. Moments are *)
(* numbered as the game meets them.                                        *)
(***************************************************************************)
EXTENDS Naturals

CONSTANTS
    Slot,       \* numbers of save states
    Lost,       \* the game was brought to no moment at all
    Empty,      \* a slot whose save was cut off before it had begun
    None        \* a slot that offers no state

VARIABLES
    slots,      \* slot -> the moment it holds, Empty or None
    now,        \* the moment the game is at, or Lost
    clock       \* the latest moment

vars == <<slots, now, clock>>

Play ==
    /\ now # Lost
    /\ clock' = clock + 1 /\ now' = clock'
    /\ UNCHANGED slots

(* The Vita starts again, with a game of its own.                          *)
Restart ==
    /\ clock' = clock + 1 /\ now' = clock'
    /\ UNCHANGED slots

(* A save gives up the old state of its slot first.                        *)
Begin(n) ==
    /\ \E begun \in {Empty, None} : slots' = [slots EXCEPT ![n] = begun]
    /\ UNCHANGED <<now, clock>>

Save(n) ==
    /\ slots[n] = None /\ now # Lost
    /\ slots' = [slots EXCEPT ![n] = now]
    /\ UNCHANGED <<now, clock>>

Load(n) ==
    /\ now # Lost
    /\ slots[n] # None
    /\ now' = IF slots[n] = Empty THEN Lost ELSE slots[n]
    /\ UNCHANGED <<slots, clock>>

Delete(n) ==
    /\ slots' = [slots EXCEPT ![n] = None]
    /\ UNCHANGED <<now, clock>>

Init ==
    /\ slots = [n \in Slot |-> None]
    /\ now = 0 /\ clock = 0

Next ==
    \/ Play \/ Restart
    \/ \E n \in Slot : Begin(n) \/ Save(n) \/ Load(n) \/ Delete(n)

Spec == Init /\ [][Next]_vars

=============================================================================
