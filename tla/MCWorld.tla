------------------------------ MODULE MCWorld -------------------------------
(* An instance of World for TLC: a kernel thread and three of a game.      *)
EXTENDS World

CONSTANTS k1, t1, t2, t3

KernelFirst == {k1}
GameThreads == {t1, t2, t3}
AllOfThree  == {k1} \cup GameThreads

=============================================================================
