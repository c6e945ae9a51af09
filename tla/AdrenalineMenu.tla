--------------------------- MODULE AdrenalineMenu ---------------------------
(***************************************************************************)
(* The Adrenaline menu: three threads of the Vita side and the PSP side.   *)
(*   the shell's thread, in ScePspemuCustomSettingsHandler() (menu.c):     *)
(*     opens the menu and waits until it is closed;                        *)
(*   AdrenalineDraw (menu.c): one iteration per frame, reads the pad,      *)
(*     drives menu, save state and achievements list, closes the menu;     *)
(*   AdrenalineCompat (main.c): requests of the PSP side;                  *)
(*   EPI_Thread and the game: module PspLink.                              *)
(* They share menu_open, open_official_settings, lock_power and the        *)
(* pointer "states" without any lock; a step is one access, or a run of    *)
(* accesses no other thread can tell apart.                                *)
(***************************************************************************)
EXTENDS PspLink, Integers, Sequences

CONSTANTS
    Pads,            \* the sets of buttons the pad can release in one frame
    Entries,         \* the menu entries ENTER may be pressed on
    Apps,            \* what the PSP may run
    MaxRequests,     \* bound on the requests to AdrenalineCompat in flight
    HumanPace,       \* a person acts only when the effects of the last act are over
    EpiPrompt,       \* EPI_Thread is done with a command before the next one
    BootBehindMenu   \* a program may start to run while the menu is open

Buttons == {"PS", "CANCEL", "ENTER"}
AllApps == {"vsh", "game", "pops"}
AllEntries == {"close", "official", "achievements", "ms_location", "state"}
Requests == {"PAUSE_POPS", "RESUME_POPS", "APP_STARTED"}

ASSUME MenuAssumption ==
    /\ Pads \subseteq SUBSET Buttons
    /\ Entries \subseteq AllEntries
    /\ Apps \subseteq AllApps
    /\ MaxRequests \in Nat
    /\ {HumanPace, EpiPrompt, BootBehindMenu} \subseteq BOOLEAN

VARIABLES
    app,                       \* app_type and pops_mode of the shared block
    menu_open,
    open_official_settings,
    settings_sema,             \* the credit of AdrenalineSettingsSemaphore
    relocated,                 \* old_config and config differ in ms_location
    achievements_modal_active,
    achievements_list,         \* g_show_achievements_menu
    open_options,              \* the options of a save state slot are shown
    states,                    \* the save state list is allocated
    lock_power,
    pops_paused,               \* ScePspemuPausePops
    lastPops,                  \* AdrenalineDraw has seen pops mode
    shell,                     \* where the shell's thread is
    draw,                      \* where AdrenalineDraw is
    next,                      \* where it goes on after ExitAdrenalineMenu()
    pad,                       \* released_pad of this frame
    requests,                  \* of the PSP side, the head one in progress
    unpausing                  \* AdrenalineCompat found the menu closed

menuVars ==
    <<app, menu_open, open_official_settings, settings_sema, relocated,
      achievements_modal_active, achievements_list, open_options, states,
      lock_power, pops_paused, lastPops, shell, draw, next, pad, requests, unpausing>>
vars == <<menuVars, linkVars>>

shellVars  == <<shell, open_official_settings>>
overlayVars == <<achievements_modal_active, achievements_list>>
drawVars   == <<draw, next, pad, lastPops>>
compatVars == <<requests, unpausing>>

ShellStates == {"off", "open", "pause", "wait", "official"}
ExitStates == {"resume", "close", "reinsert", "signal", "finish"}
DrawStates == ExitStates \cup
    {"top", "unpause", "input", "tail", "cancel", "enter", "modal", "save", "load"}

TypeOK ==
    /\ LinkTypeOK
    /\ app \in Apps
    /\ settings_sema \in 0 .. 1
    /\ {menu_open, open_official_settings, relocated, achievements_modal_active,
        achievements_list, open_options, states, lock_power, pops_paused,
        lastPops, unpausing} \subseteq BOOLEAN
    /\ shell \in ShellStates
    /\ draw \in DrawStates
    /\ next \in DrawStates \ ExitStates
    /\ pad \in Pads \cup {{}}
    /\ requests \in Seq(Requests) /\ Len(requests) <= MaxRequests

Init ==
    /\ LinkInit
    /\ app \in Apps \ {"pops"}
    /\ settings_sema = 0
    /\ menu_open = FALSE /\ open_official_settings = FALSE
    /\ relocated = FALSE
    /\ achievements_modal_active = FALSE /\ achievements_list = FALSE
    /\ open_options = FALSE /\ states = FALSE
    /\ lock_power = FALSE
    /\ pops_paused = FALSE /\ lastPops = FALSE
    /\ shell = "off"
    /\ draw = "top" /\ next = "top" /\ pad = {}
    /\ requests = <<>> /\ unpausing = FALSE

-----------------------------------------------------------------------------
(* Nothing a person did is still having effects.                           *)
Settled ==
    /\ LinkQuiet
    /\ draw \in {"top", "input"}
    /\ achievements_modal_active => achievements_list
    /\ lastPops = (app = "pops")
    /\ shell \in {"off", "wait", "official"}
    /\ ~(shell = "wait" /\ settings_sema = 1)
    /\ requests = <<>>

Paced == HumanPace => Settled

-----------------------------------------------------------------------------
(* The shell's thread.  EnterAdrenalineMenu() in three steps: the save     *)
(* state list is read, the menu is declared open, the program is paused.   *)
ShellOpen ==
    /\ shell = "off" /\ Paced
    /\ states' = TRUE
    /\ open_options' = FALSE
    /\ shell' = "open"
    /\ UNCHANGED <<app, menu_open, open_official_settings, settings_sema, relocated,
                   overlayVars, lock_power, pops_paused, drawVars, compatVars, linkVars>>

ShellEnter ==
    /\ shell = "open"
    /\ relocated' = FALSE
    /\ menu_open' = TRUE
    /\ open_official_settings' = FALSE
    /\ shell' = "pause"
    /\ UNCHANGED <<app, settings_sema, overlayVars, open_options, states, lock_power,
                   pops_paused, drawVars, compatVars, linkVars>>

(* Mutant: the menu opens without the power lock.                          *)
ShellPauseUnlocked ==
    /\ shell = "pause"
    /\ shell' = "wait"
    /\ \/ /\ app = "pops"
          /\ pops_paused' = TRUE
          /\ UNCHANGED <<lock_power, linkVars>>
       \/ /\ app = "game"
          /\ SendAdrenalineRequest("PAUSE_WORLD")
          /\ UNCHANGED <<lock_power, pops_paused>>
       \/ /\ app = "vsh"
          /\ UNCHANGED <<lock_power, pops_paused, linkVars>>
    /\ UNCHANGED <<app, menu_open, open_official_settings, settings_sema, relocated,
                   overlayVars, open_options, states, drawVars, compatVars>>

ShellPause ==
    /\ shell = "pause"
    /\ shell' = "wait"
    /\ \/ /\ app = "pops"
          /\ pops_paused' = TRUE
          /\ UNCHANGED <<lock_power, linkVars>>
       \/ /\ app = "game"
          /\ lock_power' = TRUE
          /\ SendAdrenalineRequest("PAUSE_WORLD")
          /\ UNCHANGED pops_paused
       \/ /\ app = "vsh"
          /\ UNCHANGED <<lock_power, pops_paused, linkVars>>
    /\ UNCHANGED <<app, menu_open, open_official_settings, settings_sema, relocated,
                   overlayVars, open_options, states, drawVars, compatVars>>

(* sceKernelWaitSema() returns; the official settings follow, or nothing.  *)
(* Mutant: it returns an error at once and nobody looks.                   *)
WakeUnwaited ==
    /\ shell = "wait"
    /\ settings_sema' = settings_sema - 1
    /\ shell' = IF open_official_settings THEN "official" ELSE "off"
    /\ UNCHANGED <<app, menu_open, open_official_settings, relocated, overlayVars,
                   open_options, states, lock_power, pops_paused, drawVars, compatVars,
                   linkVars>>

ShellWake ==
    /\ shell = "wait"
    /\ settings_sema = 1
    /\ settings_sema' = 0
    /\ shell' = IF open_official_settings THEN "official" ELSE "off"
    /\ UNCHANGED <<app, menu_open, open_official_settings, relocated, overlayVars,
                   open_options, states, lock_power, pops_paused, drawVars, compatVars,
                   linkVars>>

LeaveOfficialSettings ==
    /\ shell = "official" /\ Paced
    /\ shell' = "off"
    /\ UNCHANGED <<app, menu_open, open_official_settings, settings_sema, relocated,
                   overlayVars, open_options, states, lock_power, pops_paused,
                   drawVars, compatVars, linkVars>>

-----------------------------------------------------------------------------
(* AdrenalineDraw.  A frame: the switch to pops mode, "Please wait..."     *)
(* while a save state is copied, the pad, overlays, drawing, ctrlMenu().   *)
AfterSwitch == IF savestate_mode = "NONE" THEN "input" ELSE "top"

DrawFrame ==
    /\ draw = "top"
    /\ IF app = "pops" /\ ~lastPops
       THEN pops_paused' = TRUE /\ draw' = "unpause" /\ UNCHANGED lastPops
       ELSE lastPops' = (app = "pops") /\ draw' = AfterSwitch /\ UNCHANGED pops_paused
    /\ pad' = {}     \* nobody looks at it before the next readPad()
    /\ UNCHANGED <<next, app, menu_open, settings_sema, relocated, overlayVars,
                   open_options, states, lock_power, shellVars, compatVars, linkVars>>

DrawUnpause ==
    /\ draw = "unpause"
    /\ pops_paused' = FALSE
    /\ lastPops' = TRUE
    /\ draw' = AfterSwitch
    /\ UNCHANGED <<next, pad, app, menu_open, settings_sema, relocated, overlayVars,
                   open_options, states, lock_power, shellVars, compatVars, linkVars>>

(* readPad(), then the achievements list if it is shown.  The frame that   *)
(* finds its overlay flag without it closes the menu.                      *)
DrawInput ==
    /\ draw = "input"
    /\ \E p \in Pads \cup {{}} :
        /\ p = {} \/ Paced
        /\ pad' = p
        /\ achievements_list' = (achievements_list /\ p \cap {"CANCEL", "PS"} = {})
    /\ IF achievements_modal_active /\ ~achievements_list
       THEN draw' = "resume" /\ next' = "modal"
       ELSE draw' = "tail" /\ UNCHANGED next
    /\ UNCHANGED <<lastPops, app, menu_open, settings_sema, relocated,
                   achievements_modal_active, open_options, states, lock_power,
                   pops_paused, shellVars, compatVars, linkVars>>

DrawModalOver ==
    /\ draw = "modal"
    /\ achievements_modal_active' = FALSE
    /\ draw' = "tail"
    /\ UNCHANGED <<next, pad, lastPops, app, menu_open, settings_sema, relocated,
                   achievements_list, open_options, states, lock_power, pops_paused,
                   shellVars, compatVars, linkVars>>

(* ctrlMenu(), called if the menu is open and the list is not shown (any more):*)
(* the PS button, then CANCEL, then ENTER, each tested whatever the one    *)
(* before it did.                                                          *)
ExitThen(n) == draw' = "resume" /\ next' = n

CtrlPsButton ==
    /\ draw = "tail"
    /\ LET ctrl == menu_open /\ ~achievements_list
       IN  \/ ~ctrl /\ draw' = "top" /\ UNCHANGED next
           \/ ctrl /\ "PS" \in pad /\ ExitThen("cancel")
           \/ ctrl /\ "PS" \notin pad /\ draw' = "cancel" /\ UNCHANGED next
    /\ UNCHANGED <<pad, lastPops, app, menu_open, settings_sema, relocated, overlayVars,
                   open_options, states, lock_power, pops_paused, shellVars, compatVars,
                   linkVars>>

CtrlCancel ==
    /\ draw = "cancel"
    /\ IF ~open_options /\ "CANCEL" \in pad
       THEN ExitThen("enter")
       ELSE draw' = "enter" /\ UNCHANGED next
    /\ UNCHANGED <<pad, lastPops, app, menu_open, settings_sema, relocated, overlayVars,
                   open_options, states, lock_power, pops_paused, shellVars, compatVars,
                   linkVars>>

(* ctrlStates() with the options of a slot open: ENTER counts even in the  *)
(* frame in which CANCEL closed them.                                      *)
CtrlStateOption ==
    /\ draw = "enter" /\ open_options
    /\ \/ /\ ~states \/ "ENTER" \notin pad
          /\ open_options' = (open_options /\ (~states \/ "CANCEL" \notin pad))
          /\ draw' = "top"
          /\ UNCHANGED <<next, state>>
       \/ /\ states /\ "ENTER" \in pad
          /\ open_options' = ("CANCEL" \notin pad)
          /\ \/ ExitThen("save")
             \/ state # NoState /\ ExitThen("load")
          /\ UNCHANGED state
       \/ /\ states /\ "ENTER" \in pad
          /\ open_options' = FALSE
          /\ draw' = "top"
          /\ state' \in {state, NoState}   \* back, or the state is deleted
          /\ UNCHANGED next
    /\ UNCHANGED <<pad, lastPops, app, menu_open, settings_sema, relocated, overlayVars,
                   states, lock_power, pops_paused, shellVars, compatVars,
                   psp_cmd, irq, adrenaline_sema, epi, savestate_mode, world, unread,
                   orphaned>>

(* ENTER on the selected entry, which may be on any tab.                   *)
CtrlEntry ==
    /\ draw = "enter" /\ ~open_options
    /\ \/ /\ "ENTER" \notin pad \/ Entries = {}
          /\ draw' = "top"
          /\ UNCHANGED <<next, open_official_settings, overlayVars, relocated, open_options>>
       \/ /\ "ENTER" \in pad /\ "close" \in Entries
          /\ ExitThen("top")
          /\ UNCHANGED <<open_official_settings, overlayVars, relocated, open_options>>
       \/ /\ "ENTER" \in pad /\ "official" \in Entries
          /\ open_official_settings' = TRUE
          /\ ExitThen("top")
          /\ UNCHANGED <<overlayVars, relocated, open_options>>
       \/ /\ "ENTER" \in pad /\ "achievements" \in Entries
          /\ achievements_modal_active' = TRUE
          /\ achievements_list' = TRUE
          /\ draw' = "top"
          /\ UNCHANGED <<next, open_official_settings, relocated, open_options>>
       \/ /\ "ENTER" \in pad /\ "ms_location" \in Entries
          /\ relocated' \in BOOLEAN
          /\ draw' = "top"
          /\ UNCHANGED <<next, open_official_settings, overlayVars, open_options>>
       \/ /\ "ENTER" \in pad /\ "state" \in Entries
          /\ open_options' = states
          /\ draw' = "top"
          /\ UNCHANGED <<next, open_official_settings, overlayVars, relocated>>
    /\ UNCHANGED <<pad, lastPops, app, menu_open, settings_sema, states, lock_power,
                   pops_paused, shell, compatVars, linkVars>>

-----------------------------------------------------------------------------
(* ExitAdrenalineMenu(), from whichever place it was called.               *)
Send(cmd) == (EpiPrompt => LinkQuiet) /\ SendAdrenalineRequest(cmd)

exitRest == <<pad, lastPops, app, relocated, overlayVars, open_options, shellVars,
              compatVars>>

(* Mutant: the menu closes without waking the game.                        *)
ExitWithoutResume ==
    /\ draw = "resume"
    /\ draw' = "close"
    /\ lock_power' = (app # "game" /\ lock_power)
    /\ pops_paused' = (app # "pops" /\ pops_paused)
    /\ UNCHANGED <<next, menu_open, settings_sema, states, exitRest, linkVars>>

ExitResume ==
    /\ draw = "resume"
    /\ draw' = "close"
    /\ \/ /\ app = "pops"
          /\ pops_paused' = FALSE
          /\ UNCHANGED <<lock_power, linkVars>>
       \/ /\ app = "game"
          /\ lock_power' = FALSE
          /\ Send("RESUME_WORLD")
          /\ UNCHANGED pops_paused
       \/ /\ app = "vsh"
          /\ UNCHANGED <<lock_power, pops_paused, linkVars>>
    /\ UNCHANGED <<next, menu_open, settings_sema, states, exitRest>>

ExitClose ==
    /\ draw = "close"
    /\ menu_open' = FALSE
    /\ draw' = IF relocated THEN "reinsert" ELSE "signal"
    /\ UNCHANGED <<next, settings_sema, states, lock_power, pops_paused, exitRest, linkVars>>

ExitReinsert ==
    /\ draw = "reinsert"
    /\ Send("REINSERT_MS")
    /\ draw' = "signal"
    /\ UNCHANGED <<next, menu_open, settings_sema, states, lock_power, pops_paused, exitRest>>

(* The semaphore takes one credit, whether or not someone waits for it.    *)
(* Mutant: the semaphore is signalled only when someone waits already.     *)
SignalWaiter ==
    /\ draw = "signal"
    /\ settings_sema' = IF shell = "wait" THEN 1 ELSE settings_sema
    /\ draw' = "finish"
    /\ UNCHANGED <<next, menu_open, states, lock_power, pops_paused, exitRest, linkVars>>

ExitSignal ==
    /\ draw = "signal"
    /\ settings_sema' = 1
    /\ draw' = "finish"
    /\ UNCHANGED <<next, menu_open, states, lock_power, pops_paused, exitRest, linkVars>>

(* Mutant: the list is kept.                                               *)
FinishKeepsStates ==
    /\ draw = "finish"
    /\ draw' = next /\ next' = "top"
    /\ UNCHANGED <<menu_open, settings_sema, states, lock_power, pops_paused, exitRest,
                   linkVars>>

ExitFinish ==
    /\ draw = "finish"
    /\ states' = FALSE
    /\ draw' = next /\ next' = "top"
    /\ UNCHANGED <<menu_open, settings_sema, lock_power, pops_paused, exitRest, linkVars>>

(* saveState() and loadState() go on after the menu was closed.            *)
DrawRequestState ==
    /\ \/ draw = "save" /\ Send("SAVESTATE")
       \/ draw = "load" /\ Send("LOADSTATE")
    /\ draw' = "top"
    /\ UNCHANGED <<next, menu_open, settings_sema, states, lock_power, pops_paused, exitRest>>

Draw ==
    \/ DrawFrame \/ DrawUnpause \/ DrawInput \/ DrawModalOver
    \/ CtrlPsButton \/ CtrlCancel \/ CtrlStateOption \/ CtrlEntry
    \/ ExitResume \/ ExitClose \/ ExitReinsert \/ ExitSignal \/ ExitFinish
    \/ DrawRequestState

-----------------------------------------------------------------------------
(* AdrenalineCompat, and what makes the PSP side call it.  Only the test   *)
(* and the unpausing of RESUME_POPS are two steps.                         *)
compatRest == <<app, menu_open, settings_sema, relocated, overlayVars, open_options,
                states, shellVars, drawVars>>

(* The kernel suspends and resumes the thread popsmain of a PS1 program.   *)
PspRequest ==
    /\ app = "pops" /\ Paced
    /\ Len(requests) < MaxRequests
    /\ \E r \in {"PAUSE_POPS", "RESUME_POPS"} : requests' = Append(requests, r)
    /\ UNCHANGED <<unpausing, lock_power, pops_paused, compatRest, linkVars>>

CompatPausePops ==
    /\ requests # <<>> /\ Head(requests) = "PAUSE_POPS"
    /\ pops_paused' = TRUE
    /\ requests' = Tail(requests)
    /\ UNCHANGED <<unpausing, lock_power, compatRest, linkVars>>

(* Mutant: RESUME_POPS does not look at the menu.                          *)
ResumePopsAlways ==
    /\ requests # <<>> /\ Head(requests) = "RESUME_POPS" /\ ~unpausing
    /\ unpausing' = TRUE
    /\ UNCHANGED <<requests, lock_power, pops_paused, compatRest, linkVars>>

CompatResumePops ==
    /\ requests # <<>> /\ Head(requests) = "RESUME_POPS" /\ ~unpausing
    /\ unpausing' = ~menu_open
    /\ requests' = IF menu_open THEN Tail(requests) ELSE requests
    /\ UNCHANGED <<lock_power, pops_paused, compatRest, linkVars>>

CompatUnpause ==
    /\ unpausing
    /\ pops_paused' = FALSE
    /\ unpausing' = FALSE
    /\ requests' = Tail(requests)
    /\ UNCHANGED <<lock_power, compatRest, linkVars>>

(* The power is locked for the music player SenseMe, else unlocked.        *)
CompatAppStarted ==
    /\ requests # <<>> /\ Head(requests) = "APP_STARTED"
    /\ lock_power' \in BOOLEAN
    /\ requests' = Tail(requests)
    /\ UNCHANGED <<unpausing, pops_paused, compatRest, linkVars>>

Compat ==
    CompatPausePops \/ CompatResumePops \/ CompatUnpause \/ CompatAppStarted

(* A person starts a program, or one ends: OnSystemStatusIdle() of the     *)
(* PSP side fills the shared block and makes its two requests.             *)
StartProgram ==
    /\ Paced
    /\ BootBehindMenu \/ (~menu_open /\ shell = "off")
    /\ requests = <<>>
    /\ MaxRequests >= 2
    /\ \E a \in Apps :
        /\ app' = a
        /\ requests' = IF a = "pops" THEN <<"APP_STARTED">>
                       ELSE <<"RESUME_POPS", "APP_STARTED">>
    /\ Restart
    /\ UNCHANGED <<menu_open, settings_sema, relocated, overlayVars, open_options, states,
                   lock_power, pops_paused, shellVars, drawVars, unpausing>>

Next ==
    \/ ShellOpen \/ ShellEnter \/ ShellPause \/ ShellWake \/ LeaveOfficialSettings
    \/ Draw
    \/ PspRequest \/ Compat \/ StartProgram
    \/ Epi /\ UNCHANGED menuVars

Spec == Init /\ [][Next]_vars

(* Every thread runs: the frames go on, AdrenalineCompat serves, the shell *)
(* enters and leaves the menu, the PSP side is fair as in PspLink.  Nobody *)
(* has to press a button.                                                  *)
Fairness ==
    /\ WF_vars(Draw)
    /\ WF_vars(Compat)
    /\ WF_vars(ShellEnter \/ ShellPause)
    /\ WF_vars(ShellWake)
    /\ WF_vars(AdrenalineInterrupt /\ UNCHANGED menuVars)
    /\ WF_vars(EpiThread /\ UNCHANGED menuVars)

FairSpec == Spec /\ Fairness

-----------------------------------------------------------------------------
(* In every interleaving.                                                  *)

(* The shell is never left waiting in a menu that is closed: the credit is *)
(* there, or the draw thread is about to give it.  (Two calls of           *)
(* ExitAdrenalineMenu() in a row, and opening the menu again before the    *)
(* first is over, are possible in this code.)                              *)
ShellNotStuck ==
    shell \in {"pause", "wait"} /\ ~menu_open =>
        settings_sema = 1 \/ draw \in {"reinsert", "signal"}

(* A closed menu gives the screen back.                                    *)
ClosedMenuReturns == shell = "wait" /\ ~menu_open ~> shell # "wait"

-----------------------------------------------------------------------------
(* At a person's pace, one button at a time.                               *)

(* The game is paused exactly while the menu is open.                      *)
PausedIffOpen ==
    Settled /\ app = "game" => (world = "paused" <=> menu_open)

(* No thread of a game is ever left suspended for good.                    *)
NeverStranded == world # "stranded"

(* The shell leaves the menu only when the menu is closed: until then the  *)
(* PSP side gets no input and the menu stays on the screen.                *)
GateHolds == [][ShellWake => ~menu_open]_vars

(* While a game is behind the menu the console does not fall asleep.       *)
PowerLocked == Settled /\ menu_open /\ app = "game" => lock_power

(* A PS1 program stands still behind the menu, whatever the kernel does to *)
(* its thread meanwhile and whichever frame notices the switch to it.      *)
PopsHeld == Settled /\ menu_open /\ app = "pops" => pops_paused

(* A save state holds a game that runs and no left-over credit: loading it *)
(* resumes the game, once.                                                 *)
StateResumes ==
    state # NoState => state.world = "running" /\ state.sema = 0

(* The save state list is there while the menu is open, and freed after.   *)
StatesFollowMenu == Settled => (states <=> menu_open)

(* Closing the menu wakes the game.                                        *)
CloseResumes == draw = "resume" /\ world = "paused" ~> world = "running"

-----------------------------------------------------------------------------
(* What comments and documents say.                                        *)

(* 01-SaveState.md: a save state lets one "resume exactly where you left   *)
(* off".                                                                   *)
StateRuns == state # NoState => state.world = "running"

=============================================================================
