----------------------------- MODULE SaveStates -----------------------------
(***************************************************************************)
(* The files of the save states. The draw thread begins a file (saveState  *)
(* in user/states.c), tells the number of the slot through the page shared *)
(* with the PSP and sends the command; the PSP suspends itself and asks    *)
(* AdrenalineCompat, which fills the file in or reads it back (SaveState   *)
(* and LoadState in user/main.c) while the PSP waits for its answer.       *)
(* The link the command takes is PspLink, the descriptors in the file are  *)
(* those of Msfs. The same two threads stop and start USB, UsbDevice.      *)
(*                                                                         *)
(* A part of a file is the moment of the game it was written at. Writes to *)
(* the card come whole; the Vita may lose power between any two steps.     *)
(***************************************************************************)
EXTENDS UsbDevice

CONSTANTS
    Slot,       \* numbers of save states, below MAX_STATES
    MaxMoment,  \* bound: moments of the game in a behaviour
    MaxCrashes, \* bound: losses of power
    Lost,       \* what memory holds after loading an empty file
    Empty

ASSUME StatesAssumption == Slot \subseteq Nat /\ {MaxMoment, MaxCrashes} \subseteq Nat

VARIABLES
    file,       \* slot -> the state file, or None
    num,        \* adrenaline->num
    draw,       \* the draw thread's place in saveState() or loadState()
    choice,     \* and what it was asked for
    sent,       \* a command that EPI_Thread has not executed, or None
    psp,        \* "running", or suspended with savestate_mode "save" or "load"
    compat,     \* AdrenalineCompat's place in SaveState() or LoadState()
    target,     \* the slot whose file it has open
    memory,     \* part -> the moment the PSP's memory is at
    clock,      \* the latest moment
    crashes

stateVars == <<file, num, draw, choice, sent, psp, compat, target, memory, clock, crashes>>
vars == <<stateVars, usbVars>>

Part == {"descriptors", "ram1", "ram2"}
Order == <<"descriptors", "ram1", "ram2">>
ReadOrder == <<"ram1", "ram2", "descriptors">>

StateFile ==
    [header : {"missing", "zero", "magic"}, parts : [Part -> Nat \cup {None}]]

(* The names that stand for no moment, no file and no command are none.    *)
ASSUME NamesAssumption ==
    /\ Lost \notin Nat /\ Empty \notin Nat \cup {None}
    /\ None \notin StateFile \cup {"save", "load"}

(* A file that was just opened has no header, then a zero header, and the  *)
(* magic number only when every part is written.                           *)
NewFile == [header |-> "missing", parts |-> [p \in Part |-> None]]
Choice == [op : {"save", "load"}, slot : Slot]
NoChoice == [op |-> "none", slot |-> 0]

StatesInit ==
    /\ UsbInit
    /\ file = [n \in Slot |-> None]
    /\ num = 0
    /\ draw = "idle" /\ choice = NoChoice
    /\ sent = None
    /\ psp = "running"
    /\ compat = "idle" /\ target = 0
    /\ memory = [p \in Part |-> 0] /\ clock = 0
    /\ crashes = 0

-----------------------------------------------------------------------------
(* A PSP whose memory was filled from an empty file does nothing any more. *)
Alive == psp = "running" /\ \A p \in Part : memory[p] # Lost

(* The game goes on while the PSP runs.                                    *)
Play ==
    /\ Alive /\ clock < MaxMoment
    /\ clock' = clock + 1
    /\ memory' = [p \in Part |-> clock']
    /\ UNCHANGED <<file, num, draw, choice, sent, psp, compat, target, crashes, usbVars>>

(* A person chooses when the last choice has had its effect, and the XMB   *)
(* is asked to start or to stop USB by the same person.                    *)
AtRest ==
    /\ psp = "running" /\ sent = None
    /\ draw = "idle" /\ compat = "idle"
    /\ \A t \in Thread : At(t, "idle")

(* initStates() lists the files with the magic number. The header of an    *)
(* empty file is whatever the stack holds.                                 *)
MayList(n) == file[n] # None /\ file[n].header \in {"magic", "missing"}

ChooseSave(n) ==
    /\ AtRest
    /\ draw' = "create" /\ choice' = [op |-> "save", slot |-> n]
    /\ UNCHANGED <<file, num, sent, psp, compat, target, memory, clock, crashes, usbVars>>

ChooseLoad(n) ==
    /\ AtRest /\ MayList(n)
    /\ draw' = "set_num" /\ choice' = [op |-> "load", slot |-> n]
    /\ UNCHANGED <<file, num, sent, psp, compat, target, memory, clock, crashes, usbVars>>

(* deleteState                                                             *)
DeleteState(n) ==
    /\ AtRest /\ MayList(n)
    /\ file' = [file EXCEPT ![n] = None]
    /\ UNCHANGED <<num, draw, choice, sent, psp, compat, target, memory, clock, crashes, usbVars>>

(* saveState: the file is emptied; one that cannot be made is left out.    *)
CreateFile ==
    /\ draw = "create"
    /\ \/ file' = [file EXCEPT ![choice.slot] = NewFile] /\ draw' = "header"
       \/ file[choice.slot] = None /\ draw' = "set_num" /\ UNCHANGED file
    /\ UNCHANGED <<num, choice, sent, psp, compat, target, memory, clock, crashes, usbVars>>

(* The zero header, then the screenshot.                                   *)
WriteZeroHeader ==
    /\ draw = "header"
    /\ file' = [file EXCEPT ![choice.slot].header = "zero"]
    /\ draw' = "set_num"
    /\ UNCHANGED <<num, choice, sent, psp, compat, target, memory, clock, crashes, usbVars>>

SetNum ==
    /\ draw = "set_num"
    /\ num' = choice.slot
    /\ draw' = "stop_usb"
    /\ UNCHANGED <<file, choice, sent, psp, compat, target, memory, clock, crashes, usbVars>>

CallStopUsb ==
    /\ draw = "stop_usb" /\ StopUsb("draw")
    /\ draw' = "send"
    /\ UNCHANGED <<file, num, choice, sent, psp, compat, target, memory, clock, crashes>>

(* SendAdrenalineRequest, whatever stopUsb() returned.                     *)
(* Mutant: the command is sent while USB is still being stopped.           *)
SendAtOnce ==
    /\ draw = "send"
    /\ call' = [call EXCEPT !["draw"] = IF @.pc \in Over THEN Idle ELSE @]
    /\ sent' = choice.op
    /\ draw' = "idle" /\ choice' = NoChoice
    /\ UNCHANGED <<file, num, psp, compat, target, memory, clock, crashes,
                   usbdevice_modid, module, mtp, storage, lock_power, loads>>
Send ==
    /\ draw = "send" /\ StopReturns
    /\ sent' = choice.op
    /\ draw' = "idle" /\ choice' = NoChoice
    /\ UNCHANGED <<file, num, psp, compat, target, memory, clock, crashes>>

-----------------------------------------------------------------------------
(* EPI_Thread suspends the PSP. SaveStateBinary asks and waits.            *)
Suspend ==
    /\ Alive /\ sent # None
    /\ psp' = sent /\ sent' = None
    /\ UNCHANGED <<file, num, draw, choice, compat, target, memory, clock, crashes, usbVars>>

(* AdrenalineCompat takes the request; the file is opened by num. A file   *)
(* that is not there is answered at once.                                  *)
(* Mutant: it is not answered.                                             *)
OpenStateOrGiveUp ==
    /\ psp # "running" /\ compat = "idle" /\ At("compat", "idle")
    /\ file[num] # None
    /\ compat' = (IF psp = "save" THEN "descriptors" ELSE "ram1") /\ target' = num
    /\ UNCHANGED <<file, num, draw, choice, sent, psp, memory, clock, crashes, usbVars>>
OpenState ==
    /\ psp # "running" /\ compat = "idle" /\ At("compat", "idle")
    /\ \/ /\ file[num] # None
          /\ compat' = (IF psp = "save" THEN "descriptors" ELSE "ram1") /\ target' = num
       \/ /\ file[num] = None
          /\ compat' = "respond" /\ UNCHANGED target
    /\ UNCHANGED <<file, num, draw, choice, sent, psp, memory, clock, crashes, usbVars>>

After(order, last) ==
    LET i == CHOOSE j \in DOMAIN order : order[j] = compat
    IN  IF i = 3 THEN last ELSE order[i + 1]

(* SaveState: one part after the other.                                    *)
(* Mutant: the header is written before the memory.                        *)
WritePartHeaderFirst ==
    /\ psp = "save" /\ compat \in Part
    /\ file' = [file EXCEPT ![target].parts[compat] = memory[compat],
                            ![target].header = "magic"]
    /\ compat' = After(Order, "header")
    /\ UNCHANGED <<num, draw, choice, sent, psp, target, memory, clock, crashes, usbVars>>
WritePart ==
    /\ psp = "save" /\ compat \in Part
    /\ file' = [file EXCEPT ![target].parts[compat] = memory[compat]]
    /\ compat' = After(Order, "header")
    /\ UNCHANGED <<num, draw, choice, sent, psp, target, memory, clock, crashes, usbVars>>

WriteHeader ==
    /\ psp = "save" /\ compat = "header"
    /\ file' = [file EXCEPT ![target].header = "magic"]
    /\ compat' = "respond"
    /\ UNCHANGED <<num, draw, choice, sent, psp, target, memory, clock, crashes, usbVars>>

(* LoadState: the header is not looked at; an empty file gives nothing to  *)
(* decompress.                                                             *)
ReadPart ==
    /\ psp = "load" /\ compat \in Part
    /\ memory' = [memory EXCEPT ![compat] =
          IF file[target].header = "magic" THEN file[target].parts[compat] ELSE Lost]
    /\ compat' = After(ReadOrder, "respond")
    /\ UNCHANGED <<file, num, draw, choice, sent, psp, target, clock, crashes, usbVars>>

(* vita_response, and the PSP goes on from where it suspended.             *)
Respond ==
    /\ compat = "respond"
    /\ compat' = "idle" /\ psp' = "running" /\ target' = 0
    /\ UNCHANGED <<file, num, draw, choice, sent, memory, clock, crashes, usbVars>>

(* The power is lost: only the files stay.                                 *)
Crash ==
    /\ crashes < MaxCrashes /\ clock < MaxMoment
    /\ crashes' = crashes + 1
    /\ clock' = clock + 1
    /\ memory' = [p \in Part |-> clock']
    /\ num' = 0 /\ target' = 0
    /\ draw' = "idle" /\ choice' = NoChoice /\ sent' = None
    /\ psp' = "running" /\ compat' = "idle"
    /\ usbdevice_modid' = None /\ module' = None /\ mtp' = TRUE /\ storage' = FALSE
    /\ lock_power' = FALSE /\ call' = [t \in Thread |-> Idle]
    /\ UNCHANGED <<file, loads>>

(* USB on its own: started and stopped from the PSP, stopped by the draw   *)
(* thread before standby and exit.                                         *)
UsbAlone ==
    /\ \/ AtRest /\ Alive /\ (StartUsb \/ StopUsb("compat"))
       \/ draw = "idle" /\ StopUsb("draw")
       \/ draw = "idle" /\ StopReturns
       \/ StopAnswered
    /\ UNCHANGED stateVars

UsbWorks ==
    /\ StartStep \/ \E t \in Thread : UsbStep(t)
    /\ UNCHANGED stateVars

Choose == \E n \in Slot : ChooseSave(n) \/ ChooseLoad(n) \/ DeleteState(n)
DrawStep == CreateFile \/ WriteZeroHeader \/ SetNum \/ CallStopUsb \/ Send
CompatStep == OpenState \/ WritePart \/ WriteHeader \/ ReadPart \/ Respond

Next ==
    \/ Play \/ Choose \/ DrawStep \/ Suspend \/ CompatStep \/ Crash
    \/ UsbAlone \/ UsbWorks

(* The three threads run on, and the drivers return.                       *)
Fairness ==
    /\ WF_vars(DrawStep)
    /\ WF_vars(Suspend)
    /\ WF_vars(CompatStep)
    /\ WF_vars(UsbWorks \/ (StopAnswered /\ UNCHANGED stateVars))

Spec == StatesInit /\ [][Next]_vars /\ Fairness

-----------------------------------------------------------------------------
(* The card is not shared while SaveState() or LoadState() works on it:    *)
(* saveState() and loadState() stop USB before the command is sent         *)
(* (states.c:165, 174).                                                    *)
CardIsOurs == compat # "idle" => ~ storage

(* The PSP waits for AdrenalineCompat with everything switched off: it     *)
(* always gets its answer, whether or not there is a file (main.c:286).    *)
PspWakesUp == [](psp # "running" => <>(psp = "running"))

(* A listed state is one moment of the game, whole, and loading brings     *)
(* back the moment that was saved in that slot; a save that is cut off     *)
(* costs its own slot only (main.c:166-261, states.c:143-191). The         *)
(* screenshot may show a later moment, and is not part of this.            *)
Offered(f) ==
    IF f = None \/ f.header = "zero" THEN None
    ELSE IF f.header = "missing" THEN Empty ELSE f.parts["ram1"]

InMemory ==
    IF compat \in Part /\ psp = "load" THEN memory["ram1"]
    ELSE IF \A p \in Part : memory[p] = memory["ram1"] THEN memory["ram1"] ELSE Lost

Slots == INSTANCE StateSlots WITH
    slots <- [n \in Slot |-> Offered(file[n])],
    now   <- InMemory

ImplementsStateSlots == Slots!Spec

=============================================================================
