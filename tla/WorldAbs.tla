------------------------------ MODULE WorldAbs ------------------------------
(***************************************************************************)
(* What the PSP side promises to the Vita side about PAUSE_WORLD and       *)
(* RESUME_WORLD, seen from outside: the game runs, or is paused, or has    *)
(* been stranded.  A second PAUSE_WORLD without a RESUME_WORLD in between  *)
(* strands a paused game: the thread list is rebuilt without the threads   *)
(* that are already suspended, and no later RESUME_WORLD finds them.       *)
(* Module World (pauseWorld/resumeWorld of pentazemin) implements this     *)
(* specification; module AdrenalineMenu builds on it.                      *)
(***************************************************************************)

VARIABLE world

WorldState == {"running", "paused", "stranded"}

TypeOK == world \in WorldState

Init == world = "running"

(* A running game may stay running: it may have no thread to suspend.      *)
Pause ==
    \/ world = "running" /\ world' \in {"running", "paused"}
    \/ world # "running" /\ world' = "stranded"

Resume ==
    \/ world = "stranded" /\ world' = "stranded"
    \/ world # "stranded" /\ world' = "running"

Next == Pause \/ Resume

Spec == Init /\ [][Next]_world

(* Once stranded, a game never runs again (nothing the Vita side can send  *)
(* brings it back).                                                        *)
StrandedForever == [][world = "stranded" => world' = "stranded"]_world

=============================================================================
