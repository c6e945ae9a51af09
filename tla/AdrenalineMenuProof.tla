------------------------ MODULE AdrenalineMenuProof ------------------------
(***************************************************************************)
(* What holds in every interleaving of the menu's threads, for every value *)
(* of the constants: no wakeup of EPI_Thread is lost, a PAUSE_WORLD is     *)
(* executed once, the shell is never left waiting in a closed menu, and    *)
(* all variables stay in their sets.                                       *)
(***************************************************************************)
EXTENDS AdrenalineMenu, TLAPS

(* A PAUSE_WORLD in the slot has not been looked at, or is being executed. *)
PauseIsFresh == psp_cmd = "PAUSE_WORLD" => unread \/ epi = "PAUSE_WORLD"

LinkInv == NoLostWakeup /\ PauseIsFresh

LEMMA LinkInitInv == LinkInit => LinkInv
  BY DEF LinkInit, LinkInv, NoLostWakeup, PauseIsFresh

LEMMA SendKeepsLinkInv ==
    ASSUME NEW cmd, LinkInv, SendAdrenalineRequest(cmd)
    PROVE  LinkInv'
  BY DEF LinkInv, NoLostWakeup, PauseIsFresh, SendAdrenalineRequest

LEMMA RestartKeepsLinkInv ==
    ASSUME LinkInv, Restart
    PROVE  LinkInv'
  BY DEF LinkInv, NoLostWakeup, PauseIsFresh, Restart

(* EPI_Thread takes a credit only to look at the slot, and clears a        *)
(* PAUSE_WORLD before it waits again.                                      *)
LEMMA EpiKeepsLinkInv ==
    ASSUME LinkInv, Epi
    PROVE  LinkInv'
<1> USE DEF LinkInv, NoLostWakeup, PauseIsFresh
<1>1. CASE AdrenalineInterrupt
  BY <1>1 DEF AdrenalineInterrupt
<1>2. CASE EpiWake
  BY <1>2 DEF EpiWake
<1>3. CASE EpiSwitch
  BY <1>3 DEF EpiSwitch
<1>4. CASE EpiPauseWorld
  BY <1>4 DEF EpiPauseWorld
<1>5. CASE EpiResumeWorld
  BY <1>5 DEF EpiResumeWorld
<1>6. CASE Suspend
  BY <1>6 DEF Suspend
<1>7. CASE SaveStateDone
  BY <1>7 DEF SaveStateDone
<1>8. CASE LoadStateDone
  BY <1>8 DEF LoadStateDone
<1> QED
  BY <1>1, <1>2, <1>3, <1>4, <1>5, <1>6, <1>7, <1>8 DEF Epi, EpiThread

LEMMA LinkStutter ==
    ASSUME LinkInv, UNCHANGED linkVars
    PROVE  LinkInv'
  BY DEF LinkInv, NoLostWakeup, PauseIsFresh, linkVars

LEMMA LinkStep ==
    ASSUME LinkInv, [LinkNext]_linkVars
    PROVE  LinkInv'
  BY SendKeepsLinkInv, RestartKeepsLinkInv, EpiKeepsLinkInv, LinkStutter DEF LinkNext

(* The link alone, commanded in any way.                                   *)
THEOREM LinkLosesNoWakeup == LinkSpec => []NoLostWakeup
<1>1. LinkInv => NoLostWakeup
  BY DEF LinkInv
<1> QED
  BY <1>1, LinkInitInv, LinkStep, PTL DEF LinkSpec

(* A PAUSE_WORLD is executed once, whatever is sent and whenever.          *)
THEOREM LinkPausesOnce == LinkSpec => PauseOnce
<1>1. LinkInv /\ [LinkNext]_linkVars
        => [epi = "switch" /\ epi' = "PAUSE_WORLD" => unread]_linkVars
  <2> SUFFICES ASSUME LinkInv, LinkNext, epi = "switch", epi' = "PAUSE_WORLD"
               PROVE  unread
    OBVIOUS
  <2>1. psp_cmd = "PAUSE_WORLD"
    <3>1. CASE EpiSwitch
      BY <3>1 DEF EpiSwitch
    <3>2. CASE \E cmd \in Commands : SendAdrenalineRequest(cmd)
      BY <3>2 DEF SendAdrenalineRequest
    <3>3. CASE Restart
      BY <3>3 DEF Restart
    <3>4. CASE AdrenalineInterrupt
      BY <3>4 DEF AdrenalineInterrupt
    <3>5. CASE EpiWake \/ EpiPauseWorld \/ EpiResumeWorld \/ Suspend
                 \/ SaveStateDone \/ LoadStateDone
      BY <3>5 DEF EpiWake, EpiPauseWorld, EpiResumeWorld, Suspend, SaveStateDone,
                  LoadStateDone
    <3> QED
      BY <3>1, <3>2, <3>3, <3>4, <3>5 DEF LinkNext, Epi, EpiThread
  <2> QED
    BY <2>1 DEF LinkInv, PauseIsFresh
<1> QED
  BY <1>1, LinkInitInv, LinkStep, PTL DEF LinkSpec, PauseOnce

-----------------------------------------------------------------------------
(* The menu sends commands only through the link.                          *)
LEMMA MenuLinkStep ==
    ASSUME Next
    PROVE  \/ \E cmd \in {"PAUSE_WORLD", "RESUME_WORLD", "REINSERT_MS", "SAVESTATE",
                          "LOADSTATE"} : SendAdrenalineRequest(cmd)
           \/ Epi
           \/ Restart
           \/ UNCHANGED <<psp_cmd, irq, adrenaline_sema, epi, unread, orphaned>>
<1> USE DEF linkVars
<1>1. CASE ShellOpen \/ ShellEnter \/ ShellPause \/ ShellWake \/ LeaveOfficialSettings
  BY <1>1 DEF ShellOpen, ShellEnter, ShellPause, ShellWake, LeaveOfficialSettings
<1>2. CASE DrawFrame \/ DrawUnpause \/ DrawInput \/ DrawModalOver \/ CtrlPsButton
             \/ CtrlCancel
  BY <1>2 DEF DrawFrame, DrawUnpause, DrawInput, DrawModalOver, CtrlPsButton, CtrlCancel
<1>3. CASE CtrlStateOption \/ CtrlEntry
  BY <1>3 DEF CtrlStateOption, CtrlEntry
<1>4. CASE ExitResume \/ ExitClose \/ ExitReinsert \/ ExitSignal \/ ExitFinish
             \/ DrawRequestState
  BY <1>4 DEF ExitResume, ExitClose, ExitReinsert, ExitSignal, ExitFinish,
              DrawRequestState, Send
<1>5. CASE PspRequest \/ Compat
  BY <1>5 DEF PspRequest, Compat, CompatPausePops, CompatResumePops, CompatUnpause,
              CompatAppStarted
<1>6. CASE StartProgram
  BY <1>6 DEF StartProgram
<1> QED
  BY <1>1, <1>2, <1>3, <1>4, <1>5, <1>6 DEF Next, Draw

(* In the menu's own interleavings.                                        *)
THEOREM MenuLosesNoWakeup == Spec => []NoLostWakeup
<1>1. Init => LinkInv
  BY LinkInitInv DEF Init
<1>2. ASSUME LinkInv, [Next]_vars
      PROVE  LinkInv'
  <2>1. CASE UNCHANGED vars
    BY <2>1, <1>2, LinkStutter DEF vars
  <2>2. CASE UNCHANGED <<psp_cmd, irq, adrenaline_sema, epi, unread, orphaned>>
    BY <2>2, <1>2 DEF LinkInv, NoLostWakeup, PauseIsFresh
  <2>3. CASE Next
    BY <2>2, <2>3, <1>2, MenuLinkStep, SendKeepsLinkInv, EpiKeepsLinkInv,
       RestartKeepsLinkInv
  <2> QED
    BY <1>2, <2>1, <2>3
<1>3. LinkInv => NoLostWakeup
  BY DEF LinkInv
<1> QED
  BY <1>1, <1>2, <1>3, PTL DEF Spec

-----------------------------------------------------------------------------
(* The credit of the semaphore and the two places of ExitAdrenalineMenu()  *)
(* between "menu_open = 0" and the signal bridge every order of closing,   *)
(* opening and waking; only the shell takes the credit, and leaves with it.*)
LEMMA ShellKeepsNotStuck ==
    ASSUME ShellNotStuck,
           ShellOpen \/ ShellEnter \/ ShellPause \/ ShellWake \/ LeaveOfficialSettings
    PROVE  ShellNotStuck'
<1> USE DEF ShellNotStuck, drawVars
<1>1. CASE ShellOpen
  BY <1>1 DEF ShellOpen
<1>2. CASE ShellEnter
  BY <1>2 DEF ShellEnter
<1>3. CASE ShellPause
  <2>1. shell = "pause" /\ UNCHANGED <<menu_open, settings_sema, draw>>
    BY <1>3 DEF ShellPause
  <2> QED
    BY <2>1
<1>4. CASE ShellWake
  BY <1>4 DEF ShellWake
<1>5. CASE LeaveOfficialSettings
  BY <1>5 DEF LeaveOfficialSettings
<1> QED
  BY <1>1, <1>2, <1>3, <1>4, <1>5

LEMMA DrawKeepsNotStuck ==
    ASSUME ShellNotStuck, Draw
    PROVE  ShellNotStuck'
<1> USE DEF ShellNotStuck, shellVars, exitRest
<1>1. CASE DrawFrame \/ DrawUnpause \/ DrawInput \/ DrawModalOver \/ CtrlPsButton
             \/ CtrlCancel \/ CtrlStateOption \/ CtrlEntry
  <2>1. draw \notin {"reinsert", "signal"} /\ UNCHANGED <<shell, menu_open, settings_sema>>
    BY <1>1 DEF DrawFrame, DrawUnpause, DrawInput, DrawModalOver, CtrlPsButton, CtrlCancel,
                CtrlStateOption, CtrlEntry
  <2> QED
    BY <2>1
<1>2. CASE ExitResume \/ ExitFinish \/ DrawRequestState
  <2>1. draw \notin {"reinsert", "signal"} /\ UNCHANGED <<shell, menu_open, settings_sema>>
    BY <1>2 DEF ExitResume, ExitFinish, DrawRequestState
  <2> QED
    BY <2>1
<1>3. CASE ExitClose
  BY <1>3 DEF ExitClose
<1>4. CASE ExitReinsert
  BY <1>4 DEF ExitReinsert
<1>5. CASE ExitSignal
  BY <1>5 DEF ExitSignal
<1> QED
  BY <1>1, <1>2, <1>3, <1>4, <1>5 DEF Draw

LEMMA OthersKeepNotStuck ==
    ASSUME ShellNotStuck,
           PspRequest \/ Compat \/ StartProgram \/ UNCHANGED menuVars
    PROVE  ShellNotStuck'
<1>1. UNCHANGED <<shell, menu_open, settings_sema, draw>>
  BY DEF PspRequest, Compat, CompatPausePops, CompatResumePops, CompatUnpause,
         CompatAppStarted, StartProgram, compatRest, shellVars, drawVars, menuVars
<1> QED
  BY <1>1 DEF ShellNotStuck

(* Whatever the person presses in one frame, whenever the menu is opened   *)
(* again and whatever the PSP does, a shell that waits in a closed menu    *)
(* has its credit, or the draw thread is on the way to give it.            *)
THEOREM ShellIsNeverStuck == Spec => []ShellNotStuck
<1>1. Init => ShellNotStuck
  BY DEF Init, ShellNotStuck
<1>2. ASSUME ShellNotStuck, [Next]_vars
      PROVE  ShellNotStuck'
  BY <1>2, ShellKeepsNotStuck, DrawKeepsNotStuck, OthersKeepNotStuck DEF Next, vars
<1> QED
  BY <1>1, <1>2, PTL DEF Spec

-----------------------------------------------------------------------------
(* Types.  RESUME_POPS is still the request in hand when AdrenalineCompat, *)
(* having found the menu closed, comes to unpause.                         *)
UnpausingInHand == unpausing => requests # <<>> /\ Head(requests) = "RESUME_POPS"

LEMMA SendTypes ==
    ASSUME LinkTypeOK, NEW cmd \in Commands, SendAdrenalineRequest(cmd)
    PROVE  LinkTypeOK'
  BY DEF LinkTypeOK, SendAdrenalineRequest

LEMMA RestartTypes ==
    ASSUME Restart
    PROVE  LinkTypeOK'
<1>1. adrenaline_sema' \in 0 .. 1
  BY DEF Restart
<1>2. irq' \in BOOLEAN /\ unread' \in BOOLEAN /\ orphaned' \in BOOLEAN
  BY DEF Restart
<1>3. /\ psp_cmd' \in Commands \cup {"NONE"} /\ epi' \in EpiStates /\ savestate_mode' \in Modes
      /\ world' \in World!WorldState /\ state' = NoState
  BY DEF Restart, EpiStates, Modes, World!WorldState
<1> QED
  BY <1>1, <1>2, <1>3 DEF LinkTypeOK

LEMMA EpiTypes ==
    ASSUME LinkTypeOK, Epi
    PROVE  LinkTypeOK'
<1> USE DEF LinkTypeOK, EpiStates, Modes, World!WorldState
<1>1. CASE AdrenalineInterrupt
  <2>1. adrenaline_sema' \in 0 .. 1
    BY <1>1 DEF AdrenalineInterrupt
  <2>2. irq' \in BOOLEAN
    BY <1>1 DEF AdrenalineInterrupt
  <2> QED
    BY <1>1, <2>1, <2>2 DEF AdrenalineInterrupt
<1>2. CASE EpiWake
  BY <1>2 DEF EpiWake
<1>3. CASE EpiSwitch
  BY <1>3 DEF EpiSwitch
<1>4. CASE EpiPauseWorld
  BY <1>4 DEF EpiPauseWorld, World!Pause
<1>5. CASE EpiResumeWorld
  BY <1>5 DEF EpiResumeWorld, World!Resume
<1>6. CASE Suspend
  BY <1>6 DEF Suspend
<1>7. CASE SaveStateDone
  BY <1>7 DEF SaveStateDone
<1>8. CASE LoadStateDone
  BY <1>8 DEF LoadStateDone
<1> QED
  BY <1>1, <1>2, <1>3, <1>4, <1>5, <1>6, <1>7, <1>8 DEF Epi, EpiThread

LEMMA ShellTypes ==
    ASSUME TypeOK, ShellOpen \/ ShellEnter \/ ShellPause \/ ShellWake \/ LeaveOfficialSettings
    PROVE  TypeOK'
<1> USE DEF TypeOK, ShellStates, overlayVars, drawVars, compatVars
<1>1. LinkTypeOK'
  <2>1. CASE UNCHANGED linkVars
    BY <2>1 DEF linkVars, LinkTypeOK
  <2>2. CASE SendAdrenalineRequest("PAUSE_WORLD")
    BY <2>2, SendTypes DEF Commands
  <2> QED
    BY <2>1, <2>2 DEF ShellOpen, ShellEnter, ShellPause, ShellWake, LeaveOfficialSettings
<1>2. CASE ShellOpen
  BY <1>1, <1>2 DEF ShellOpen
<1>3. CASE ShellEnter
  BY <1>1, <1>3 DEF ShellEnter
<1>4. CASE ShellPause
  BY <1>1, <1>4 DEF ShellPause
<1>5. CASE ShellWake
  BY <1>1, <1>5 DEF ShellWake
<1>6. CASE LeaveOfficialSettings
  BY <1>1, <1>6 DEF LeaveOfficialSettings
<1> QED
  BY <1>2, <1>3, <1>4, <1>5, <1>6

LEMMA DrawLinkTypes ==
    ASSUME LinkTypeOK, Draw
    PROVE  LinkTypeOK'
<1>1. CASE UNCHANGED linkVars
  BY <1>1 DEF linkVars, LinkTypeOK
<1>2. ASSUME NEW cmd \in {"RESUME_WORLD", "REINSERT_MS", "SAVESTATE", "LOADSTATE"}, Send(cmd)
      PROVE  LinkTypeOK'
  BY <1>2, SendTypes DEF Send, Commands
<1>3. CASE CtrlStateOption
  BY <1>3 DEF CtrlStateOption, LinkTypeOK
<1> QED
  BY <1>1, <1>2, <1>3 DEF Draw, DrawFrame, DrawUnpause, DrawInput, DrawModalOver, CtrlPsButton,
     CtrlCancel, CtrlEntry, ExitResume, ExitClose, ExitReinsert, ExitSignal, ExitFinish,
     DrawRequestState

LEMMA DrawTypes ==
    ASSUME TypeOK, Draw
    PROVE  TypeOK'
<1>0. LinkTypeOK'
  BY DrawLinkTypes DEF TypeOK
<1> USE <1>0 DEF TypeOK, DrawStates, ExitStates, overlayVars, shellVars, compatVars
<1>1. CASE DrawFrame
  BY <1>1 DEF DrawFrame, AfterSwitch
<1>2. CASE DrawUnpause
  BY <1>2 DEF DrawUnpause, AfterSwitch
<1>3. CASE DrawInput
  BY <1>3 DEF DrawInput
<1>4. CASE DrawModalOver
  BY <1>4 DEF DrawModalOver
<1>5. CASE CtrlPsButton
  BY <1>5 DEF CtrlPsButton, ExitThen
<1>6. CASE CtrlCancel
  BY <1>6 DEF CtrlCancel, ExitThen
<1>7. CASE CtrlStateOption
  BY <1>7 DEF CtrlStateOption, ExitThen
<1>8. CASE CtrlEntry
  BY <1>8 DEF CtrlEntry, ExitThen
<1>9. CASE ExitResume \/ ExitClose \/ ExitReinsert \/ ExitSignal
  <2>1. CASE ExitResume
    BY <2>1 DEF ExitResume, exitRest
  <2>2. CASE ExitClose
    BY <2>2 DEF ExitClose, exitRest
  <2>3. CASE ExitReinsert
    BY <2>3 DEF ExitReinsert, exitRest
  <2>4. CASE ExitSignal
    <3>1. settings_sema' \in 0 .. 1
      BY <2>4 DEF ExitSignal
    <3> QED
      BY <2>4, <3>1 DEF ExitSignal, exitRest
  <2> QED
    BY <1>9, <2>1, <2>2, <2>3, <2>4
<1>10. CASE ExitFinish
  BY <1>10 DEF ExitFinish, exitRest
<1>11. CASE DrawRequestState
  BY <1>11 DEF DrawRequestState, exitRest
<1> QED
  BY <1>1, <1>2, <1>3, <1>4, <1>5, <1>6, <1>7, <1>8, <1>9, <1>10, <1>11 DEF Draw

LEMMA RequestTypes ==
    ASSUME TypeOK, UnpausingInHand, PspRequest \/ Compat \/ StartProgram
    PROVE  TypeOK' /\ UnpausingInHand'
<1> USE DEF TypeOK, UnpausingInHand, compatRest, overlayVars, shellVars, drawVars
<1>1. \A s \in Seq(Requests) : s # <<>> =>
        /\ Head(s) \in Requests /\ Tail(s) \in Seq(Requests) /\ Len(Tail(s)) = Len(s) - 1
  OBVIOUS
<1>2. Len(requests) \in Nat /\ MaxRequests \in Nat
  BY MenuAssumption
<1>3. CASE PspRequest
  <2>1. PICK r \in {"PAUSE_POPS", "RESUME_POPS"} : requests' = Append(requests, r)
    BY <1>3 DEF PspRequest
  <2>2. requests' \in Seq(Requests) /\ Len(requests') = Len(requests) + 1
    BY <2>1 DEF Requests
  <2>3. requests # <<>> => requests' # <<>> /\ Head(requests') = Head(requests)
    BY <2>1
  <2>4. LinkTypeOK' /\ unpausing' = unpausing
    BY <1>3 DEF PspRequest, LinkTypeOK, linkVars
  <2> QED
    BY <1>2, <1>3, <2>2, <2>3, <2>4 DEF PspRequest
<1>4. CASE Compat
  <2>1. LinkTypeOK'
    BY <1>4 DEF Compat, CompatPausePops, CompatResumePops, CompatUnpause, CompatAppStarted,
                LinkTypeOK, linkVars
  <2>2. requests # <<>>
    BY <1>4 DEF Compat, CompatPausePops, CompatResumePops, CompatUnpause, CompatAppStarted
  <2>3. requests' \in Seq(Requests) /\ Len(requests') <= MaxRequests
    BY <1>1, <1>2, <1>4, <2>2 DEF Compat, CompatPausePops, CompatResumePops, CompatUnpause,
                                  CompatAppStarted
  <2>4. UnpausingInHand'
    BY <1>4, <2>2 DEF Compat, CompatPausePops, CompatResumePops, CompatUnpause, CompatAppStarted
  <2> QED
    BY <1>4, <2>1, <2>3, <2>4 DEF Compat, CompatPausePops, CompatResumePops, CompatUnpause,
                                  CompatAppStarted
<1>5. CASE StartProgram
  <2>1. LinkTypeOK' /\ ~unpausing /\ unpausing' = unpausing
    BY <1>5, RestartTypes DEF StartProgram
  <2>2. requests' \in Seq(Requests) /\ Len(requests') <= MaxRequests
    <3>1. requests' = <<"APP_STARTED">> \/ requests' = <<"RESUME_POPS", "APP_STARTED">>
      BY <1>5 DEF StartProgram
    <3>2. MaxRequests >= 2
      BY <1>5 DEF StartProgram
    <3>3. CASE requests' = <<"APP_STARTED">>
      BY <1>2, <3>2, <3>3 DEF Requests
    <3>4. CASE requests' = <<"RESUME_POPS", "APP_STARTED">>
      BY <1>2, <3>2, <3>4 DEF Requests
    <3> QED
      BY <3>1, <3>3, <3>4
  <2> QED
    BY <1>5, <2>1, <2>2 DEF StartProgram
<1> QED
  BY <1>3, <1>4, <1>5

(* Every flag, request and place of the three threads and of the PSP stays *)
(* in its set, and AdrenalineCompat never answers a request that is gone.  *)
MenuTypeInv == TypeOK /\ UnpausingInHand

(* The two keep each other: an unpause is answered to the request at the   *)
(* head of the queue, in the order AdrenalineCompat() takes them.          *)
THEOREM MenuTypeInvHolds == Spec => []MenuTypeInv
<1> USE DEF MenuTypeInv
<1>1. Init => MenuTypeInv
  <2> SUFFICES ASSUME Init
               PROVE  MenuTypeInv
    OBVIOUS
  <2>1. LinkTypeOK
    <3>1. adrenaline_sema \in 0 .. 1
      BY DEF Init, LinkInit
    <3>2. irq \in BOOLEAN /\ unread \in BOOLEAN /\ orphaned \in BOOLEAN
      BY DEF Init, LinkInit
    <3>3. /\ psp_cmd \in Commands \cup {"NONE"} /\ epi \in EpiStates /\ savestate_mode \in Modes
          /\ world \in World!WorldState /\ state = NoState
      BY DEF Init, LinkInit, EpiStates, Modes, World!WorldState
    <3> QED
      BY <3>1, <3>2, <3>3 DEF LinkTypeOK
  <2>2. {menu_open, open_official_settings, relocated, achievements_modal_active,
         achievements_list, open_options, states, lock_power, pops_paused,
         lastPops, unpausing} \subseteq BOOLEAN /\ ~unpausing
    BY DEF Init
  <2>3. shell \in ShellStates /\ draw \in DrawStates /\ next \in DrawStates \ ExitStates
    BY DEF Init, ShellStates, DrawStates, ExitStates
  <2>4. /\ app \in Apps /\ settings_sema \in 0 .. 1 /\ pad \in Pads \cup {{}}
        /\ requests \in Seq(Requests) /\ Len(requests) <= MaxRequests
    BY MenuAssumption DEF Init
  <2> QED
    BY <2>1, <2>2, <2>3, <2>4 DEF TypeOK, UnpausingInHand
<1>2. ASSUME MenuTypeInv, [Next]_vars
      PROVE  MenuTypeInv'
  <2>1. CASE ShellOpen \/ ShellEnter \/ ShellPause \/ ShellWake \/ LeaveOfficialSettings \/ Draw
    <3>1. UNCHANGED <<requests, unpausing>>
      BY <2>1 DEF ShellOpen, ShellEnter, ShellPause, ShellWake, LeaveOfficialSettings, Draw,
         DrawFrame, DrawUnpause, DrawInput, DrawModalOver, CtrlPsButton, CtrlCancel,
         CtrlStateOption, CtrlEntry, ExitResume, ExitClose, ExitReinsert, ExitSignal, ExitFinish,
         DrawRequestState, exitRest, compatVars
    <3> QED
      BY <1>2, <2>1, <3>1, ShellTypes, DrawTypes DEF UnpausingInHand
  <2>2. CASE Epi /\ UNCHANGED menuVars
    BY <1>2, <2>2, EpiTypes DEF TypeOK, UnpausingInHand, menuVars
  <2>3. CASE UNCHANGED vars
    BY <1>2, <2>3 DEF TypeOK, LinkTypeOK, UnpausingInHand, vars, menuVars, linkVars
  <2> QED
    BY <1>2, <2>1, <2>2, <2>3, RequestTypes DEF Next
<1> HIDE DEF MenuTypeInv
<1> QED
  BY <1>1, <1>2, PTL DEF Spec

THEOREM MenuTypes == Spec => []TypeOK
<1>1. MenuTypeInv => TypeOK
  BY DEF MenuTypeInv
<1> QED
  BY <1>1, MenuTypeInvHolds, PTL

-----------------------------------------------------------------------------
(* At a person's pace, one button at a time: the conditions of the last    *)
(* part of AdrenalineMenu.  The achievements list is left out.             *)
PersonsPace ==
    /\ HumanPace /\ EpiPrompt /\ ~BootBehindMenu
    /\ "achievements" \notin Entries
    /\ \A p \in Pads : \A b, c \in p : b = c

(* The shell has declared the menu open, or is about to.                   *)
Opening == shell \in {"open", "pause"}

(* The draw thread works on a button.                                      *)
Acting ==
    \/ draw \in {"tail", "cancel", "enter"} /\ pad # {}
    \/ draw \in ExitStates \cup {"save", "load"}

(* A command on its way to EPI_Thread, or being executed.                  *)
Pending(cmd) ==
    \/ psp_cmd = cmd /\ (irq \/ adrenaline_sema = 1 \/ epi = "switch")
    \/ epi = cmd

(* The game is held, or will be.                                           *)
Held == Pending("PAUSE_WORLD") \/ (world = "paused" /\ ~Pending("RESUME_WORLD"))

(* The menu is open and has not begun to resume the game.                  *)
Shown == menu_open /\ shell = "wait" /\ draw # "close"

(* One command is on its way at a time, in one place.                      *)
OneCommand ==
    /\ irq => adrenaline_sema = 0 /\ epi = "wait"
    /\ adrenaline_sema = 1 => epi = "wait"
    /\ epi \in {"PAUSE_WORLD", "RESUME_WORLD"} => psp_cmd = epi
    /\ epi \in {"suspending", "suspended"} <=> savestate_mode # "NONE"

(* The list of achievements is not used.                                   *)
NoList == ~achievements_modal_active /\ ~achievements_list /\ draw # "modal"

(* One act at a time: while the shell opens the menu, a request or a       *)
(* change of the program is being served, or the draw thread works on a    *)
(* button, nobody begins anything else.                                    *)
OneAct ==
    /\ Opening => requests = <<>> /\ LinkQuiet /\ ~Acting
    /\ Acting => requests = <<>>
    /\ Acting /\ draw \in {"tail", "cancel", "enter"} /\ menu_open => LinkQuiet
    /\ Opening => lastPops = (app = "pops") /\ draw # "unpause"

(* The menu is open from ShellEnter to ExitClose, with the shell in it;    *)
(* the credit is the draw thread's answer to a shell that waits.           *)
MenuInOrder ==
    /\ menu_open => shell \in {"pause", "wait"}
    /\ shell = "pause" => menu_open
    /\ settings_sema = 1 =>
         /\ shell = "wait" /\ ~menu_open
         /\ draw \notin {"resume", "close", "reinsert", "signal"}
    /\ draw \in {"resume", "close"} => menu_open /\ shell = "wait"
    /\ draw \in {"reinsert", "signal"} => ~menu_open /\ shell = "wait"
    /\ draw \in {"finish", "save", "load"} => ~menu_open
    /\ states <=> Opening \/ menu_open \/ draw \in {"reinsert", "signal", "finish"}

(* A button is used once: who goes on behind the exit finds no other.      *)
OnePress ==
    /\ \A b, c \in pad : b = c
    /\ draw = "cancel" /\ ~menu_open => "PS" \in pad
    /\ draw = "enter" /\ ~menu_open => "ENTER" \notin pad
    /\ draw \in ExitStates => /\ next = "cancel" => "PS" \in pad
                              /\ next = "enter" => "CANCEL" \in pad
    /\ next # "top" => draw \in ExitStates
    /\ next \in {"top", "cancel", "enter", "save", "load"}

(* Requests come one by one; a program that starts finds the menu closed   *)
(* and the shell outside, and both wait until it has started.              *)
RequestsInOrder ==
    /\ requests \in {<<>>, <<"PAUSE_POPS">>, <<"RESUME_POPS">>, <<"APP_STARTED">>,
                     <<"RESUME_POPS", "APP_STARTED">>}
    /\ requests \in {<<"APP_STARTED">>, <<"RESUME_POPS", "APP_STARTED">>}
           => ~menu_open /\ shell = "off"
    /\ unpausing => ~menu_open /\ requests # <<>>
    /\ lastPops # (app = "pops") \/ draw = "unpause" => ~menu_open /\ shell = "off" /\ ~Acting

(* The world follows the menu.                                             *)
WorldFollows ==
    /\ world \in {"running", "paused"}
    /\ Pending("PAUSE_WORLD") => world = "running"
    /\ Pending("RESUME_WORLD") => world = "paused"
    /\ Held <=> app = "game" /\ Shown
    /\ Pending("SAVESTATE") \/ Pending("LOADSTATE") \/ savestate_mode # "NONE"
           => ~menu_open
    /\ state # NoState => state.world = "running" /\ state.sema = 0

(* What a program behind the menu may rely on.                             *)
BehindMenu ==
    /\ Shown /\ app = "game" => lock_power
    /\ Shown /\ app = "pops" => pops_paused

PacedInv ==
    OneCommand /\ NoList /\ OneAct /\ MenuInOrder /\ OnePress /\ RequestsInOrder
    /\ WorldFollows /\ BehindMenu

(* The variables a step of PacedInv looks at, each in its set.             *)
Flags ==
    /\ menu_open \in BOOLEAN /\ open_official_settings \in BOOLEAN /\ relocated \in BOOLEAN
    /\ achievements_modal_active \in BOOLEAN /\ achievements_list \in BOOLEAN
    /\ open_options \in BOOLEAN /\ states \in BOOLEAN /\ lock_power \in BOOLEAN
    /\ pops_paused \in BOOLEAN /\ lastPops \in BOOLEAN /\ unpausing \in BOOLEAN
    /\ irq \in BOOLEAN /\ adrenaline_sema \in {0, 1} /\ settings_sema \in {0, 1}
    /\ app \in AllApps /\ shell \in ShellStates /\ draw \in DrawStates

LEMMA TypedFlags == TypeOK => Flags
<1> SUFFICES ASSUME TypeOK
             PROVE  Flags
  OBVIOUS
<1>1. /\ menu_open \in BOOLEAN /\ open_official_settings \in BOOLEAN /\ relocated \in BOOLEAN
      /\ achievements_modal_active \in BOOLEAN /\ achievements_list \in BOOLEAN
      /\ open_options \in BOOLEAN /\ states \in BOOLEAN /\ lock_power \in BOOLEAN
      /\ pops_paused \in BOOLEAN /\ lastPops \in BOOLEAN /\ unpausing \in BOOLEAN
      /\ irq \in BOOLEAN
  BY DEF TypeOK, LinkTypeOK
<1>2. adrenaline_sema \in {0, 1} /\ settings_sema \in {0, 1}
  BY SMT DEF TypeOK, LinkTypeOK
<1>3. app \in AllApps /\ shell \in ShellStates /\ draw \in DrawStates
  BY MenuAssumption DEF TypeOK
<1> QED
  BY <1>1, <1>2, <1>3 DEF Flags

(* What AdrenalineCompat finds at the head of the requests, and leaves.    *)
LEMMA RequestsAre ==
    ASSUME RequestsInOrder, requests # <<>>
    PROVE  \/ /\ requests = <<"RESUME_POPS", "APP_STARTED">>
              /\ Head(requests) = "RESUME_POPS" /\ Tail(requests) = <<"APP_STARTED">>
           \/ \E r \in Requests : requests = <<r>> /\ Head(requests) = r /\ Tail(requests) = <<>>
<1>1. /\ Head(<<"RESUME_POPS", "APP_STARTED">>) = "RESUME_POPS"
      /\ Tail(<<"RESUME_POPS", "APP_STARTED">>) = <<"APP_STARTED">>
  OBVIOUS
<1>2. \A r \in Requests : Head(<<r>>) = r /\ Tail(<<r>>) = <<>>
  OBVIOUS
<1> QED
  BY <1>1, <1>2 DEF RequestsInOrder, Requests

LEMMA PacedInit ==
    ASSUME PersonsPace, Init
    PROVE  PacedInv
  BY MenuAssumption DEF Init, LinkInit, PacedInv, OneCommand, NoList, OneAct, MenuInOrder,
     OnePress, RequestsInOrder, WorldFollows, BehindMenu, Opening, Acting, Pending, Held,
     Shown, ExitStates, LinkQuiet

(* The shell begins only when everything is settled, so its PAUSE_WORLD    *)
(* finds the slot free and its menu is the only act.                       *)
LEMMA ShellPaced ==
    ASSUME PersonsPace, Flags, PacedInv,
           ShellOpen \/ ShellEnter \/ ShellPause \/ ShellWake \/ LeaveOfficialSettings
    PROVE  PacedInv'
<1> USE DEF PersonsPace, Flags, PacedInv, OneCommand, NoList, OneAct, MenuInOrder, OnePress,
            RequestsInOrder, WorldFollows, BehindMenu, Opening, Acting, Pending, Held, Shown,
            Settled, LinkQuiet, ExitStates, DrawStates, ShellStates, AllApps,
            overlayVars, drawVars, compatVars, linkVars
<1>1. CASE ShellOpen
  BY <1>1 DEF ShellOpen, Paced
<1>2. CASE ShellEnter
  BY <1>2 DEF ShellEnter
<1>3. CASE ShellPause
  BY <1>3 DEF ShellPause, SendAdrenalineRequest
<1>4. CASE ShellWake
  BY <1>4 DEF ShellWake
<1>5. CASE LeaveOfficialSettings
  BY <1>5 DEF LeaveOfficialSettings, Paced
<1> QED
  BY <1>1, <1>2, <1>3, <1>4, <1>5

(* A button is read when everything is settled; what ctrlMenu() does after *)
(* an exit finds no other button pressed.                                  *)
LEMMA DrawPaced ==
    ASSUME PersonsPace, Flags, PacedInv, Draw
    PROVE  PacedInv'
<1> USE DEF PersonsPace, Flags, PacedInv, OneCommand, NoList, OneAct, MenuInOrder, OnePress,
            RequestsInOrder, WorldFollows, BehindMenu, Opening, Acting, Pending, Held, Shown,
            Settled, LinkQuiet, ExitStates, DrawStates, ShellStates, AllApps,
            overlayVars, shellVars, compatVars, linkVars
<1>1. CASE DrawFrame
  BY <1>1 DEF DrawFrame, AfterSwitch
<1>2. CASE DrawUnpause
  BY <1>2 DEF DrawUnpause, AfterSwitch
<1>3. CASE DrawInput
  BY <1>3 DEF DrawInput, Paced
<1>4. CASE DrawModalOver
  BY <1>4 DEF DrawModalOver
<1>5. CASE CtrlPsButton
  BY <1>5 DEF CtrlPsButton, ExitThen
<1>6. CASE CtrlCancel
  BY <1>6 DEF CtrlCancel, ExitThen
<1>7. CASE CtrlStateOption
  BY <1>7 DEF CtrlStateOption, ExitThen
<1>8. CASE CtrlEntry
  BY <1>8 DEF CtrlEntry, ExitThen
<1>9. CASE ExitResume
  BY <1>9 DEF ExitResume, Send, SendAdrenalineRequest, exitRest
<1>10. CASE ExitClose
  BY <1>10 DEF ExitClose, exitRest
<1>11. CASE ExitReinsert
  BY <1>11 DEF ExitReinsert, Send, SendAdrenalineRequest, exitRest
<1>12. CASE ExitSignal
  BY <1>12 DEF ExitSignal, exitRest
<1>13. CASE ExitFinish
  BY <1>13 DEF ExitFinish, exitRest
<1>14. CASE DrawRequestState
  BY <1>14 DEF DrawRequestState, Send, SendAdrenalineRequest, exitRest
<1> QED
  BY <1>1, <1>2, <1>3, <1>4, <1>5, <1>6, <1>7, <1>8, <1>9, <1>10, <1>11, <1>12, <1>13, <1>14
     DEF Draw

(* A request is served while nobody opens the menu or presses a button.    *)
LEMMA CompatPaced ==
    ASSUME PersonsPace, Flags, UnpausingInHand, PacedInv, PspRequest \/ Compat \/ StartProgram
    PROVE  PacedInv'
<1>0. Compat => requests # <<>>
  BY DEF Compat, CompatPausePops, CompatResumePops, CompatUnpause, CompatAppStarted,
         UnpausingInHand
<1> USE DEF PersonsPace, Flags, PacedInv, OneCommand, NoList, OneAct, MenuInOrder, OnePress,
            RequestsInOrder, WorldFollows, BehindMenu, Opening, Acting, Pending, Held, Shown,
            Settled, LinkQuiet, ExitStates, DrawStates, ShellStates, AllApps, UnpausingInHand,
            overlayVars, shellVars, drawVars, linkVars, compatRest
<1>1. CASE PspRequest
  BY <1>1 DEF PspRequest, Paced
<1>2. CASE CompatPausePops
  BY <1>2, RequestsAre DEF CompatPausePops
<1>3. CASE CompatResumePops
  BY <1>3, RequestsAre DEF CompatResumePops
<1>4. CASE CompatUnpause
  BY <1>4, RequestsAre DEF CompatUnpause
<1>5. CASE CompatAppStarted
  BY <1>5, RequestsAre DEF CompatAppStarted
<1>6. CASE StartProgram
  BY <1>6 DEF StartProgram, Paced, Restart
<1> QED
  BY <1>1, <1>2, <1>3, <1>4, <1>5, <1>6 DEF Compat

(* EPI_Thread executes the one command on its way.                         *)
LEMMA EpiPaced ==
    ASSUME Flags, PacedInv, Epi, UNCHANGED menuVars
    PROVE  PacedInv'
<1> USE DEF Flags, PacedInv, OneCommand, NoList, OneAct, MenuInOrder, OnePress, RequestsInOrder,
            WorldFollows, BehindMenu, Opening, Acting, Pending, Held, Shown, LinkQuiet,
            ExitStates, DrawStates, ShellStates, AllApps, menuVars, World!WorldState
<1>1. CASE AdrenalineInterrupt
  BY <1>1 DEF AdrenalineInterrupt
<1>2. CASE EpiWake
  BY <1>2 DEF EpiWake
<1>3. CASE EpiSwitch
  BY <1>3 DEF EpiSwitch
<1>4. CASE EpiPauseWorld
  BY <1>4 DEF EpiPauseWorld, World!Pause
<1>5. CASE EpiResumeWorld
  BY <1>5 DEF EpiResumeWorld, World!Resume
<1>6. CASE Suspend
  BY <1>6 DEF Suspend
<1>7. CASE SaveStateDone
  BY <1>7 DEF SaveStateDone
<1>8. CASE LoadStateDone
  BY <1>8 DEF LoadStateDone
<1> QED
  BY <1>1, <1>2, <1>3, <1>4, <1>5, <1>6, <1>7, <1>8 DEF Epi, EpiThread

LEMMA PacedStutter ==
    ASSUME PacedInv, UNCHANGED vars
    PROVE  PacedInv'
  BY DEF PacedInv, OneCommand, NoList, OneAct, MenuInOrder, OnePress, RequestsInOrder,
         WorldFollows, BehindMenu, Opening, Acting, Pending, Held, Shown, LinkQuiet,
         vars, menuVars, linkVars

(* At a person's pace the menu, the requests of the PSP and the commands   *)
(* to it follow each other, and the world follows the menu.                *)
THEOREM PacedInvHolds ==
    ASSUME PersonsPace
    PROVE  Spec => []PacedInv
<1>1. Init => PacedInv
  BY PacedInit
<1>2. ASSUME MenuTypeInv, PacedInv, [Next]_vars
      PROVE  PacedInv'
  <2>1. Flags /\ UnpausingInHand
    BY <1>2, TypedFlags DEF MenuTypeInv
  <2> QED
    BY <1>2, <2>1, ShellPaced, DrawPaced, CompatPaced, EpiPaced, PacedStutter DEF Next
<1> QED
  BY <1>1, <1>2, MenuTypeInvHolds, PTL DEF Spec

(* Whenever nothing is under way a game is paused if and only if the menu  *)
(* is open: ENTER, CANCEL, PS, a save state, a relocated memory stick, a   *)
(* program that ends or starts, no way of leaving the menu forgets it.     *)
THEOREM GamePausedIffMenuOpen ==
    ASSUME PersonsPace
    PROVE  Spec => []PausedIffOpen
<1>1. PacedInv => PausedIffOpen
  BY DEF PacedInv, PausedIffOpen, Settled, LinkQuiet, WorldFollows, MenuInOrder, Held, Shown,
         Pending
<1> QED
  BY <1>1, PacedInvHolds, PTL

(* PAUSE_WORLD reaches a world that runs and RESUME_WORLD one that is      *)
(* paused, so no thread is suspended twice.                                *)
THEOREM GameNeverStranded ==
    ASSUME PersonsPace
    PROVE  Spec => []NeverStranded
<1>1. PacedInv => NeverStranded
  BY DEF PacedInv, WorldFollows, NeverStranded
<1> QED
  BY <1>1, PacedInvHolds, PTL

(* No credit of an earlier menu is left for the next one: the shell passes *)
(* sceKernelWaitSema() only with the menu closed.                          *)
THEOREM GateAlwaysHolds ==
    ASSUME PersonsPace
    PROVE  Spec => GateHolds
<1>1. PacedInv => (ShellWake => ~menu_open)
  BY DEF PacedInv, MenuInOrder, ShellWake
<1> QED
  BY <1>1, PacedInvHolds, PTL DEF GateHolds

(* The power lock taken before PAUSE_WORLD is not given back, by a program *)
(* that starts or by anyone else, while the menu is shown over a game.     *)
THEOREM PowerLockedBehindMenu ==
    ASSUME PersonsPace
    PROVE  Spec => []PowerLocked
<1>1. PacedInv => PowerLocked
  BY DEF PacedInv, PowerLocked, Settled, MenuInOrder, BehindMenu, Shown
<1> QED
  BY <1>1, PacedInvHolds, PTL

(* Neither the frame that notices the switch to pops mode nor a RESUME_POPS*)
(* of the PSP lets a PS1 program run behind the menu.                      *)
THEOREM PopsHeldBehindMenu ==
    ASSUME PersonsPace
    PROVE  Spec => []PopsHeld
<1>1. PacedInv => PopsHeld
  BY DEF PacedInv, PopsHeld, Settled, MenuInOrder, BehindMenu, Shown
<1> QED
  BY <1>1, PacedInvHolds, PTL

(* The image is taken after RESUME_WORLD was executed and its credit used. *)
THEOREM SavedStateResumes ==
    ASSUME PersonsPace
    PROVE  Spec => []StateResumes
<1>1. PacedInv => StateResumes
  BY DEF PacedInv, WorldFollows, StateResumes
<1> QED
  BY <1>1, PacedInvHolds, PTL

(* The list read by EnterAdrenalineMenu() is freed by the exit of the same *)
(* menu, never by the end of an earlier one.                               *)
THEOREM StatesFollowTheMenu ==
    ASSUME PersonsPace
    PROVE  Spec => []StatesFollowMenu
<1>1. PacedInv => StatesFollowMenu
  BY DEF PacedInv, StatesFollowMenu, Settled, MenuInOrder, Opening
<1> QED
  BY <1>1, PacedInvHolds, PTL

=============================================================================
