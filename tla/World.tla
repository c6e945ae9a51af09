------------------------------- MODULE World --------------------------------
(***************************************************************************)
(* pauseWorld() and resumeWorld() of cef/core/pentazemin/src/adrenaline.c: *)
(* how EPI_Thread suspends the threads of a PSP game when the Adrenaline   *)
(* menu opens and wakes them when it closes, while the game creates,       *)
(* starts, stops, deletes, suspends and resumes threads of its own.        *)
(*                                                                         *)
(* EPI_Thread runs in the kernel at priority 0x10, above every thread of   *)
(* a game, so one call of pauseWorld() or resumeWorld() is one action.     *)
(***************************************************************************)
EXTENDS Integers, FiniteSets

CONSTANTS
    Thread,      \* every thread id the PSP kernel can hand out
    User,        \* those created with the user attribute (USER_THREAD)
    First,       \* those the kernel may list first
    MaxThreads,  \* MAX_THREADS, the length of g_threads
    NoThread     \* -1, or any other value that is no thread id

ASSUME ThreadAssumption ==
    /\ IsFiniteSet(Thread)
    /\ User \subseteq Thread
    /\ First \subseteq Thread
    /\ NoThread \notin Thread
ASSUME MaxAssumption ==
    /\ MaxThreads \in Nat \ {0}
    /\ Cardinality(Thread) <= MaxThreads

VARIABLES
    status,            \* what sceKernelReferThreadStatus says of a thread
    g_threads,         \* g_threads[MaxThreads] is the word behind the array
    g_thread_count,
    g_suspended_count,
    frozen             \* history: suspended by pauseWorld, not yet woken

vars == <<status, g_threads, g_thread_count, g_suspended_count, frozen>>

Status == {"none", "dormant", "ready", "suspended"}
Slots == 0 .. MaxThreads

(* The threads resumeWorld() will go through (as a mutant: all but the last *)
(* one).                                                                   *)
ListedButLast == {g_threads[i] : i \in 0 .. g_thread_count - 2} \ {NoThread}
Listed == {g_threads[i] : i \in 0 .. g_thread_count - 1} \ {NoThread}

Init ==
    /\ status \in [Thread -> Status]
    /\ \E t \in First : status[t] # "none"
    /\ \A t \in Thread \ User : status[t] # "suspended"
    /\ g_threads = [i \in Slots |-> NoThread]
    /\ g_thread_count = 0
    /\ g_suspended_count = 0
    /\ frozen = {}

-----------------------------------------------------------------------------
Alive == {t \in Thread : status[t] # "none"}

(* The orders in which sceKernelGetThreadmanIdList() may list the threads, *)
(* each of them once.                                                      *)
Listings ==
    {l \in [0 .. Cardinality(Alive) - 1 -> Alive] :
        /\ \A t \in Alive : \E i \in DOMAIN l : l[i] = t
        /\ 0 \in DOMAIN l => l[0] \in First}

(* The count the kernel returns with the list.                             *)
ListCount == Cardinality(Alive)

(* The filter of pauseWorld(): a user thread, neither running nor already  *)
(* suspended (the thread that runs is EPI_Thread, which is no user thread).*)
(* Mutant: without the test of the status.                                 *)
EligibleSuspended(t) == t \in User
Eligible(t) == t \in User /\ status[t] # "suspended"

(* The list after the filter; entries from g_thread_count on are left over *)
(* from an earlier call.                                                   *)
Filtered(l) ==
    [i \in Slots |->
        IF i \in DOMAIN l
        THEN IF Eligible(l[i]) THEN l[i] ELSE NoThread
        ELSE g_threads[i]]

(* The loop counts from g_thread_count down to 1: entry 0 is left out and  *)
(* one entry past the list is tried.  Suspending a dormant, a deleted or   *)
(* an already suspended thread fails.  Mutant: the loop stops at entry 2.  *)
VictimsFromTwo(threads, count) ==
    {threads[i] : i \in 2 .. count} \cap {t \in Thread : status[t] = "ready"}
Victims(threads, count) ==
    {threads[i] : i \in 1 .. count} \cap {t \in Thread : status[t] = "ready"}

PauseWorld ==
    \E l \in Listings :
        LET count   == ListCount
            victims == Victims(Filtered(l), count)
        IN  /\ g_threads' = Filtered(l)
            /\ g_thread_count' = count
            /\ status' = [t \in Thread |->
                              IF t \in victims THEN "suspended" ELSE status[t]]
            /\ g_suspended_count' = g_suspended_count + Cardinality(victims)
            /\ frozen' = frozen \cup victims

(* The second round of resumeWorld() finds no suspended thread in the list *)
(* any more: sceKernelResumeThread() fails for each, and nothing changes.  *)
(* Mutant: every thread of the list is counted as woken.                   *)
WokenUnchecked == Listed
Woken == {t \in Listed : status[t] = "suspended"}

ResumeWorld ==
    /\ g_suspended_count > 0
    /\ status' = [t \in Thread |-> IF t \in Woken THEN "ready" ELSE status[t]]
    /\ g_suspended_count' = g_suspended_count - Cardinality(Woken)
    /\ frozen' = frozen \ Woken
    /\ UNCHANGED <<g_threads, g_thread_count>>

-----------------------------------------------------------------------------
(* The game.  A thread of the game that can run does to another one what   *)
(* the thread manager lets it do.                                          *)
GameStep(actor, t, from, to) ==
    /\ actor \in User
    /\ status[actor] = "ready"
    /\ t \in User
    /\ status[t] \in from
    /\ status' = [status EXCEPT ![t] = to]
    /\ frozen' = frozen \ {t}
    /\ UNCHANGED <<g_threads, g_thread_count, g_suspended_count>>

CreateThread(a, t)  == GameStep(a, t, {"none"}, "dormant")
StartThread(a, t)   == GameStep(a, t, {"dormant"}, "ready")
SuspendThread(a, t) == a # t /\ GameStep(a, t, {"ready"}, "suspended")
ResumeThread(a, t)  == GameStep(a, t, {"suspended"}, "ready")
ExitThread(a, t)    == GameStep(a, t, {"ready", "suspended"}, "dormant")
DeleteThread(a, t)  == GameStep(a, t, {"dormant"}, "none")

Game ==
    \E a, t \in User :
        \/ CreateThread(a, t)
        \/ StartThread(a, t)
        \/ SuspendThread(a, t)
        \/ ResumeThread(a, t)
        \/ ExitThread(a, t)
        \/ DeleteThread(a, t)

Next == PauseWorld \/ ResumeWorld \/ Game

Spec == Init /\ [][Next]_vars

-----------------------------------------------------------------------------
(* The kernel's own threads are listed before those of the game (the list  *)
(* is in order of creation): then entry 0, which the loop leaves out, is   *)
(* never a thread of the game.                                             *)
KernelListedFirst == First \cap User = {}

(* What the Vita side sees of the game.                                    *)
world ==
    IF frozen = {} THEN "running"
    ELSE IF frozen \subseteq Listed THEN "paused" ELSE "stranded"

Abs == INSTANCE WorldAbs

(* Types, and what the list may hold: threads of the game only, and none   *)
(* behind the end of the array.                                            *)
TypeOK ==
    /\ status \in [Thread -> Status]
    /\ g_threads \in [Slots -> User \cup {NoThread}]
    /\ g_threads[MaxThreads] = NoThread
    /\ g_thread_count \in 0 .. MaxThreads
    /\ g_suspended_count \in Int
    /\ frozen \subseteq Thread

(* g_suspended_count, which decides whether resumeWorld() does anything,   *)
(* is the number of threads that are held, however often the two commands  *)
(* are repeated or lost.                                                   *)
CountExact == g_suspended_count = Cardinality(frozen)

(* While a thread of the game is held none of its threads can run: that is *)
(* what keeps the list and the count exact until RESUME_WORLD.             *)
HeldMeansStill ==
    frozen # {} => \A t \in User : status[t] # "ready"

(* Only the game's own threads are ever held, and only ones that are still *)
(* suspended: the kernel's are never touched.                              *)
HeldAreSuspended == \A t \in frozen : t \in User /\ status[t] = "suspended"

(* The threads that are held are all in the list, or none of them is: a    *)
(* RESUME_WORLD releases everything or, after a doubled PAUSE_WORLD,       *)
(* nothing.                                                                *)
AllOrNothing == frozen \subseteq Listed \/ frozen \cap Listed = {}

(* While the list holds a paused game, a suspended thread of the list is   *)
(* one that pauseWorld() suspended.                                        *)
ListedAreHeld ==
    frozen # {} => \A t \in Listed : status[t] = "suspended" => t \in frozen

(* A thread the game itself had suspended before the menu opened is still  *)
(* suspended after it closed (only SuspendThread of the game put it there, *)
(* so only the game may wake it).                                          *)
GameSuspensionKept ==
    [][ResumeWorld => \A t \in User : status[t] = "suspended" /\ t \notin frozen
                                     => status'[t] = "suspended"]_vars

(* The detailed commands implement the three-state view of WorldAbs.       *)
ImplementsWorldAbs == Abs!Spec

=============================================================================
