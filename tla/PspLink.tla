------------------------------ MODULE PspLink -------------------------------
(***************************************************************************)
(* How the Vita side commands the PSP side: SendAdrenalineRequest() of     *)
(* user/main.c writes one command into the shared SceAdrenaline block and  *)
(* raises a virtual interrupt; the interrupt handler signals a semaphore   *)
(* of at most one credit; EPI_Thread of pentazemin/src/adrenaline.c waits  *)
(* for it, reads the command and executes it.  The command is a mailbox of *)
(* one slot without acknowledgement.                                       *)
(*                                                                         *)
(* A save state is an image of the PSP's memory: the semaphore and the     *)
(* threads of the game are in it, the shared block is not.                 *)
(***************************************************************************)
EXTENDS Integers

CONSTANTS NoState    \* no save state has been written

VARIABLES
    psp_cmd,         \* adrenaline->psp_cmd
    irq,             \* IMPOSE_CH1 is raised and not yet taken
    adrenaline_sema, \* the credit of EPI_Semaphore
    epi,             \* where EPI_Thread is
    savestate_mode,  \* adrenaline->savestate_mode
    world,           \* the game, as WorldAbs sees it
    state,           \* the save state: what it holds of the above
    unread,          \* history: psp_cmd was written and not looked at since
    orphaned         \* history: its credit was overwritten by a loaded image

linkVars ==
    <<psp_cmd, irq, adrenaline_sema, epi, savestate_mode, world, state, unread, orphaned>>

World == INSTANCE WorldAbs

Commands == {"PAUSE_WORLD", "RESUME_WORLD", "REINSERT_MS", "SAVESTATE", "LOADSTATE"}
Modes == {"NONE", "SAVE", "LOAD"}
EpiStates == {"wait", "switch", "PAUSE_WORLD", "RESUME_WORLD", "suspending", "suspended"}

LinkTypeOK ==
    /\ psp_cmd \in Commands \cup {"NONE"}
    /\ irq \in BOOLEAN
    /\ adrenaline_sema \in 0 .. 1
    /\ epi \in EpiStates
    /\ savestate_mode \in Modes
    /\ world \in World!WorldState
    /\ state \in {NoState} \cup [world : World!WorldState, sema : 0 .. 1]
    /\ unread \in BOOLEAN
    /\ orphaned \in BOOLEAN

LinkInit ==
    /\ psp_cmd = "NONE"
    /\ irq = FALSE
    /\ adrenaline_sema = 0
    /\ epi = "wait"
    /\ savestate_mode = "NONE"
    /\ world = "running"
    /\ state = NoState
    /\ unread = FALSE
    /\ orphaned = FALSE

-----------------------------------------------------------------------------
(* The Vita side.  Nothing waits for the previous command to be read.      *)
SendAdrenalineRequest(cmd) ==
    /\ psp_cmd' = cmd
    /\ unread' = TRUE
    /\ orphaned' = FALSE
    /\ irq' = TRUE
    /\ UNCHANGED <<adrenaline_sema, epi, savestate_mode, world, state>>

-----------------------------------------------------------------------------
(* The PSP side.  No interrupt is taken while the PSP is suspended; a      *)
(* semaphore that has its one credit refuses another.                      *)
(* Mutant: a wakeup that only a waiting thread notices.                    *)
InterruptUnremembered ==
    /\ irq
    /\ epi # "suspended"
    /\ irq' = FALSE
    /\ adrenaline_sema' = IF epi = "wait" THEN 1 ELSE adrenaline_sema
    /\ UNCHANGED <<psp_cmd, epi, savestate_mode, world, state, unread, orphaned>>

AdrenalineInterrupt ==
    /\ irq
    /\ epi # "suspended"
    /\ irq' = FALSE
    /\ adrenaline_sema' = 1
    /\ UNCHANGED <<psp_cmd, epi, savestate_mode, world, state, unread, orphaned>>

EpiWake ==
    /\ epi = "wait"
    /\ adrenaline_sema = 1
    /\ adrenaline_sema' = 0
    /\ epi' = "switch"
    /\ UNCHANGED <<psp_cmd, irq, savestate_mode, world, state, unread, orphaned>>

(* The switch on the command.  REINSERT_MS, SAVESTATE and LOADSTATE leave  *)
(* it where it is.                                                         *)
EpiSwitch ==
    /\ epi = "switch"
    /\ unread' = FALSE
    /\ orphaned' = FALSE
    /\ \/ /\ psp_cmd \in {"NONE", "REINSERT_MS"}
          /\ epi' = "wait"
          /\ UNCHANGED savestate_mode
       \/ /\ psp_cmd \in {"PAUSE_WORLD", "RESUME_WORLD"}
          /\ epi' = psp_cmd
          /\ UNCHANGED savestate_mode
       \/ /\ psp_cmd = "SAVESTATE"
          /\ savestate_mode' = "SAVE"
          /\ epi' = "suspending"
       \/ /\ psp_cmd = "LOADSTATE"
          /\ savestate_mode' = "LOAD"
          /\ epi' = "suspending"
    /\ UNCHANGED <<psp_cmd, irq, adrenaline_sema, world, state>>

(* The clear is a write of its own, after the switch read the command: it  *)
(* also clears a command that came in between.  A game is taken to have a  *)
(* thread that can be suspended.                                           *)
(* Mutant: PAUSE_WORLD is left in the slot, as the other commands are.     *)
PauseWithoutClear ==
    /\ epi = "PAUSE_WORLD"
    /\ World!Pause
    /\ world' # "running"
    /\ epi' = "wait"
    /\ UNCHANGED <<psp_cmd, irq, adrenaline_sema, savestate_mode, state, unread, orphaned>>

EpiPauseWorld ==
    /\ epi = "PAUSE_WORLD"
    /\ psp_cmd' = "NONE"
    /\ World!Pause
    /\ world' # "running"
    /\ epi' = "wait"
    /\ UNCHANGED <<irq, adrenaline_sema, savestate_mode, state, unread, orphaned>>

EpiResumeWorld ==
    /\ epi = "RESUME_WORLD"
    /\ psp_cmd' = "NONE"
    /\ World!Resume
    /\ epi' = "wait"
    /\ UNCHANGED <<irq, adrenaline_sema, savestate_mode, state, unread, orphaned>>

(* _scePowerSuspendOperation(), after which the Vita side copies the PSP's *)
(* memory out or in, and the system event "resume completed" ends the mode.*)
Suspend ==
    /\ epi = "suspending"
    /\ epi' = "suspended"
    /\ UNCHANGED <<psp_cmd, irq, adrenaline_sema, savestate_mode, world, state, unread,
                   orphaned>>

SaveStateDone ==
    /\ epi = "suspended" /\ savestate_mode = "SAVE"
    /\ state' \in {[world |-> world, sema |-> adrenaline_sema],
                   state}      \* SaveState() could not open the file
    /\ savestate_mode' = "NONE"
    /\ epi' = "wait"
    /\ UNCHANGED <<psp_cmd, irq, adrenaline_sema, world, unread, orphaned>>

(* A loaded image brings back the EPI_Thread that asked for it to be saved,*)
(* and the credit there was then.  A command sent meanwhile stays behind   *)
(* without its credit, unless its interrupt still waits to be taken.       *)
LoadStateDone ==
    /\ epi = "suspended" /\ savestate_mode = "LOAD"
    /\ \/ /\ state # NoState
          /\ world' = state.world
          /\ adrenaline_sema' = state.sema
          /\ orphaned' = (unread /\ ~irq)
       \/ /\ state = NoState      \* LoadState() could not open the file
          /\ UNCHANGED <<world, adrenaline_sema, orphaned>>
    /\ savestate_mode' = "NONE"
    /\ epi' = "wait"
    /\ UNCHANGED <<psp_cmd, irq, state, unread>>

EpiThread ==
    \/ EpiWake
    \/ EpiSwitch
    \/ EpiPauseWorld
    \/ EpiResumeWorld
    \/ Suspend
    \/ SaveStateDone
    \/ LoadStateDone

Epi == AdrenalineInterrupt \/ EpiThread

(* The PSP starts another program: the modules are loaded anew and         *)
(* initAdrenalineInfo() clears the shared block, a command in it included. *)
(* The save state of another program is not followed any further.          *)
Restart ==
    /\ epi \notin {"suspending", "suspended"}
    /\ psp_cmd' = "NONE"
    /\ irq' = FALSE
    /\ adrenaline_sema' = 0
    /\ epi' = "wait"
    /\ savestate_mode' = "NONE"
    /\ world' = "running"
    /\ state' = NoState
    /\ unread' = FALSE
    /\ orphaned' = FALSE

LinkNext ==
    \/ \E cmd \in Commands : SendAdrenalineRequest(cmd)
    \/ Epi
    \/ Restart

LinkSpec == LinkInit /\ [][LinkNext]_linkVars

-----------------------------------------------------------------------------
(* Nothing is under way between the two sides.                             *)
LinkQuiet == ~irq /\ adrenaline_sema = 0 /\ epi = "wait"

(* No wakeup is lost: whatever order the write, the interrupt, the credit  *)
(* of at most one and the wait come in, a command EPI_Thread has not       *)
(* looked at is one it will still look at, unless a save state that was    *)
(* loaded meanwhile took the credit with it.                               *)
NoLostWakeup ==
    unread /\ ~orphaned => irq \/ adrenaline_sema = 1 \/ epi = "switch"

(* A PAUSE_WORLD is executed once: a credit too many (two signals of which *)
(* one came after the wakeup, a credit in a loaded image) finds the command*)
(* cleared.  Executed twice it would strand the game.                      *)
PauseOnce == [][epi = "switch" /\ epi' = "PAUSE_WORLD" => unread]_linkVars

(* Every command is looked at in the end, or the slot was wiped by a       *)
(* restart or orphaned by a loaded save state.                             *)
CommandsAreRead == unread ~> ~unread \/ orphaned

=============================================================================
