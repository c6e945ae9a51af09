-------------------------- MODULE SaveStatesProof ---------------------------
(***************************************************************************)
(* Proofs about SaveStates and the UsbDevice it extends, for any number of *)
(* slots, moments, starts and stops of USB by either thread, places a call *)
(* of theirs may fail at, and losses of power.                             *)
(***************************************************************************)
EXTENDS SaveStates, TLAPS

-----------------------------------------------------------------------------
(* USB storage.                                                            *)

(* A start works on a module of its own, with nothing shared yet.          *)
StartInOrder ==
    LET c == call["compat"]
    IN  /\ c.pc \in Starting => usbdevice_modid = None
        /\ c.pc \in Starting \ {"lock"} => ~ storage
        /\ c.pc = "load" => module = None
        /\ c.pc \in {"stop_mtp", "start_storage"} => module = c.modid /\ module # None
        /\ c.pc = "start_storage" => ~ mtp
        /\ c.pc = "lock" => c.modid # None /\ module \in {None, c.modid}

(* Outside of a start a loaded module is the one whose id is kept.         *)
IdKept ==
    ~ (call["compat"].pc \in Starting) =>
        /\ module # None => usbdevice_modid = module
        /\ storage => lock_power

(* A stop of AdrenalineCompat that got past its first call has the card.   *)
StopInOrder ==
    /\ call["compat"].pc \in {"start_mtp", "unload", "unlock", "done"} => ~ storage
    /\ call["compat"].pc \in {"unlock", "done"} => module = None

(* So has one of the draw thread: nothing starts behind it, because the    *)
(* id stays until AdrenalineCompat has stopped the module itself.          *)
DrawAlone ==
    call["draw"].pc \in {"start_mtp", "unload", "unlock"} =>
        /\ ~ storage
        /\ call["compat"].pc \in {"idle", "stop_storage", "failed", "lock"}
        /\ call["compat"].pc # "lock" => usbdevice_modid # None

UsbIInv ==
    /\ UsbTypeOK
    /\ StorageAlone
    /\ StartInOrder
    /\ IdKept
    /\ StopInOrder
    /\ DrawAlone

(* Calls at the start and during the start of USB keep the invariant.      *)
LEMMA UsbStartKeeps ==
    ASSUME UsbIInv, StartUsb \/ StartStep
    PROVE  UsbIInv'
<1> USE UsbAssumption DEF UsbIInv, UsbTypeOK, StorageAlone, StartInOrder, IdKept,
        StopInOrder, DrawAlone, Thread, Starting, Stopping, Over, At, Go, Failing, Idle
<1>1. CASE StartUsb
  BY <1>1 DEF StartUsb
<1>2. CASE LoadModule
  BY <1>2 DEF LoadModule
<1>3. CASE StopMtp
  <2>1. CASE mtp' = FALSE /\ Go("compat", "start_storage")
    BY <1>3, <2>1 DEF StopMtp
  <2>2. CASE mtp /\ Go("compat", "undo_module") /\ UNCHANGED mtp
    BY <1>3, <2>2 DEF StopMtp
  <2> QED
    BY <1>3, <2>1, <2>2 DEF StopMtp
<1>4. CASE StartStorage
  <2>1. CASE storage' = TRUE /\ Go("compat", "lock")
    BY <1>4, <2>1 DEF StartStorage
  <2>2. CASE Go("compat", "undo_mtp") /\ UNCHANGED storage
    BY <1>4, <2>2 DEF StartStorage
  <2> QED
    BY <1>4, <2>1, <2>2 DEF StartStorage
<1>5. CASE UndoMtp
  BY <1>5 DEF UndoMtp
<1>6. CASE UndoModule
  BY <1>6 DEF UndoModule
<1>7. CASE LockPower
  BY <1>7 DEF LockPower
<1> QED
  BY <1>1, <1>2, <1>3, <1>4, <1>5, <1>6, <1>7 DEF StartStep

(* So do those of a stop, by either thread.                                *)
LEMMA UsbStopKeeps ==
    ASSUME UsbIInv, NEW t \in Thread, StopUsb(t) \/ UsbStep(t)
    PROVE  UsbIInv'
<1> USE UsbAssumption DEF UsbIInv, UsbTypeOK, StorageAlone, StartInOrder, IdKept,
        StopInOrder, DrawAlone, Thread, Starting, Stopping, Over, At, Go, Failing, Idle
<1>1. CASE StopUsb(t)
  BY <1>1 DEF StopUsb
<1>2. CASE StopStorage(t)
  <2>1. CASE storage /\ Go(t, "start_mtp")
    BY <1>2, <2>1 DEF StopStorage
  <2>2. CASE ~ storage /\ Failing(t)
    BY <1>2, <2>2 DEF StopStorage
  <2> QED
    BY <1>2, <2>1, <2>2 DEF StopStorage
<1>3. CASE StartMtp(t)
  <2>1. CASE mtp' = TRUE /\ Go(t, "unload")
    BY <1>3, <2>1 DEF StartMtp
  <2>2. CASE Failing(t) /\ UNCHANGED mtp
    BY <1>3, <2>2 DEF StartMtp
  <2> QED
    BY <1>3, <2>1, <2>2 DEF StartMtp
<1>4. CASE Unload(t)
  BY <1>4 DEF Unload
<1>5. CASE UnlockPower(t)
  BY <1>5 DEF UnlockPower
<1> QED
  BY <1>1, <1>2, <1>3, <1>4, <1>5 DEF UsbStep

(* And what the callers do with its result.                                *)
LEMMA UsbReturnKeeps ==
    ASSUME UsbIInv, StopAnswered \/ StopReturns
    PROVE  UsbIInv'
<1> USE UsbAssumption DEF UsbIInv, UsbTypeOK, StorageAlone, StartInOrder, IdKept,
        StopInOrder, DrawAlone, Thread, Starting, Stopping, Over, At, Go, Failing, Idle
<1>1. CASE StopAnswered
  BY <1>1 DEF StopAnswered
<1>2. CASE StopReturns
  BY <1>2 DEF StopReturns
<1> QED
  BY <1>1, <1>2

LEMMA UsbInitially == UsbInit => UsbIInv
<1> SUFFICES ASSUME UsbInit PROVE UsbIInv
  OBVIOUS
<1>1. \A t \in Thread : call[t] = Idle /\ call[t].pc = "idle"
  BY DEF UsbInit, Idle
<1>2. UsbTypeOK
  BY UsbAssumption DEF UsbInit, UsbTypeOK, Thread, Idle
<1> QED
  BY <1>1, <1>2 DEF UsbInit, UsbIInv, StorageAlone, StartInOrder, IdKept, StopInOrder,
    DrawAlone, Thread, Starting

LEMMA UsbStutter == UsbIInv /\ UNCHANGED usbVars => UsbIInv'
BY DEF UsbIInv, usbVars, UsbTypeOK, StorageAlone, StartInOrder, IdKept, StopInOrder,
    DrawAlone

LEMMA UsbInductive == UsbSpec => []UsbIInv
<1>1. UsbIInv /\ [UsbNext]_usbVars => UsbIInv'
  BY UsbStartKeeps, UsbStopKeeps, UsbReturnKeeps, UsbStutter DEF UsbNext
<1> QED
  BY UsbInitially, <1>1, PTL DEF UsbSpec

(* Where startUsb() and stopUsb() may be, for any number of starts.        *)
THEOREM UsbTypes == UsbSpec => []UsbTypeOK
<1>1. UsbIInv => UsbTypeOK
  BY DEF UsbIInv
<1> QED
  BY UsbInductive, <1>1, PTL

(* The card is shared only with the module loaded and MTP stopped, for     *)
(* every interleaving of the two threads and every call that fails.        *)
THEOREM StorageIsAlone == UsbSpec => []StorageAlone
<1>1. UsbIInv => StorageAlone
  BY DEF UsbIInv
<1> QED
  BY UsbInductive, <1>1, PTL

(* The id of a loaded module is never lost, and a shared card keeps the    *)
(* Vita awake.                                                             *)
THEOREM ModuleIsTracked == UsbSpec => []ModuleTracked
<1>1. UsbIInv => ModuleTracked
  BY DEF UsbIInv, IdKept, ModuleTracked, At, Starting
<1> QED
  BY UsbInductive, <1>1, PTL

-----------------------------------------------------------------------------
(* USB storage and the files of the save states.                           *)

(* From the command until the answer, nothing of USB is in progress in     *)
(* AdrenalineCompat, and the card is not shared.                           *)
Busy == sent # None \/ psp # "running" \/ compat # "idle"

CardInv ==
    /\ Busy => ~ storage
    /\ Busy \/ draw # "idle" => At("compat", "idle")
    /\ draw = "send" => ~ storage \/ At("draw", "stop_storage")

StatesIInv == UsbIInv /\ CardInv

(* Steps that leave USB alone.                                             *)
FileStep ==
    \/ Play \/ Choose \/ CreateFile \/ WriteZeroHeader \/ SetNum
    \/ Suspend \/ CompatStep

LEMMA FileStepLeavesUsb == FileStep => UNCHANGED usbVars
BY DEF FileStep, Play, Choose, ChooseSave, ChooseLoad, DeleteState, CreateFile,
    WriteZeroHeader, SetNum, Suspend, CompatStep, OpenState, WritePart, WriteHeader,
    ReadPart, Respond

(* The USB part of the model is UsbDevice, but for the loss of power.      *)
LEMMA UsbPartKeeps == UsbIInv /\ [Next]_vars => UsbIInv'
<1> SUFFICES ASSUME UsbIInv, [Next]_vars PROVE UsbIInv'
  OBVIOUS
<1>1. CASE FileStep \/ UNCHANGED vars
  BY <1>1, FileStepLeavesUsb, UsbStutter DEF vars
<1>2. CASE CallStopUsb
  BY <1>2, UsbStopKeeps DEF CallStopUsb, Thread
<1>3. CASE Send
  BY <1>3, UsbReturnKeeps DEF Send
<1>4. CASE Crash
  <2>1. \A t \in Thread : call'[t] = Idle /\ call'[t].pc = "idle"
    BY <1>4 DEF Crash, Idle
  <2>2. UsbTypeOK'
    BY <1>4, UsbAssumption DEF Crash, UsbIInv, UsbTypeOK, Thread, Idle
  <2> QED
    BY <1>4, <2>1, <2>2 DEF Crash, UsbIInv, StorageAlone, StartInOrder, IdKept,
      StopInOrder, DrawAlone, Thread, Starting
<1>5. CASE UsbAlone
  BY <1>5, UsbStartKeeps, UsbStopKeeps, UsbReturnKeeps DEF UsbAlone, Thread
<1>6. CASE UsbWorks
  BY <1>6, UsbStartKeeps, UsbStopKeeps DEF UsbWorks
<1> QED
  BY <1>1, <1>2, <1>3, <1>4, <1>5, <1>6 DEF Next, FileStep, DrawStep

-----------------------------------------------------------------------------
LEMMA FileStepKeepsCard ==
    ASSUME CardInv, FileStep
    PROVE  CardInv'
<1>1. UNCHANGED usbVars
  BY FileStepLeavesUsb
<1> USE <1>1 DEF CardInv, Busy, At, usbVars
<1>2. CASE Play
  BY <1>2 DEF Play
<1>3. CASE Choose
  BY <1>3 DEF Choose, ChooseSave, ChooseLoad, DeleteState, AtRest, Thread
<1>4. CASE CreateFile
  BY <1>4 DEF CreateFile
<1>5. CASE WriteZeroHeader
  BY <1>5 DEF WriteZeroHeader
<1>6. CASE SetNum
  BY <1>6 DEF SetNum
<1>7. CASE Suspend
  BY <1>7 DEF Suspend
<1>8. CASE CompatStep
  BY <1>8 DEF CompatStep, OpenState, WritePart, WriteHeader, ReadPart, Respond
<1> QED
  BY <1>2, <1>3, <1>4, <1>5, <1>6, <1>7, <1>8 DEF FileStep

(* The draw thread sends the command when its stop of USB is over.         *)
LEMMA DrawKeepsCard ==
    ASSUME StatesIInv, CallStopUsb \/ Send
    PROVE  CardInv'
<1>1. CASE CallStopUsb
  <2>1. usbdevice_modid = None => ~ storage
    BY <1>1 DEF StatesIInv, UsbIInv, IdKept, StorageAlone, CardInv, CallStopUsb, At, Starting
  <2>2. call'["draw"].pc = IF usbdevice_modid = None THEN "done" ELSE "stop_storage"
    BY <1>1 DEF StatesIInv, UsbIInv, UsbTypeOK, CallStopUsb, StopUsb, Thread
  <2>3. call'["compat"] = call["compat"]
    BY <1>1 DEF StatesIInv, UsbIInv, UsbTypeOK, CallStopUsb, StopUsb, Thread
  <2> QED
    BY <1>1, <2>1, <2>2, <2>3 DEF StatesIInv, CardInv, Busy, At, CallStopUsb, StopUsb
<1>2. CASE Send
  <2>1. call'["compat"] = call["compat"]
    BY <1>2 DEF StatesIInv, UsbIInv, UsbTypeOK, Send, StopReturns, Thread
  <2> QED
    BY <1>2, <2>1 DEF StatesIInv, CardInv, Busy, At, Send, StopReturns, Over
<1> QED
  BY <1>1, <1>2

(* USB starts only at rest, and a stop can only take the card back.        *)
LEMMA UsbKeepsCard ==
    ASSUME StatesIInv, UsbAlone \/ UsbWorks
    PROVE  CardInv'
<1> USE DEF StatesIInv, UsbIInv, UsbTypeOK, CardInv, Busy, At, Go, Failing, Idle, Thread,
        stateVars
<1>1. CASE UsbAlone
  <2>1. CASE AtRest /\ (StartUsb \/ StopUsb("compat"))
    BY <1>1, <2>1 DEF UsbAlone, AtRest, StartUsb, StopUsb
  <2>2. CASE draw = "idle" /\ (StopUsb("draw") \/ StopReturns)
    BY <1>1, <2>2 DEF UsbAlone, StopUsb, StopReturns
  <2>3. CASE StopAnswered
    BY <1>1, <2>3 DEF UsbAlone, StopAnswered, Over
  <2> QED
    BY <1>1, <2>1, <2>2, <2>3 DEF UsbAlone
<1>2. CASE StartStep /\ UNCHANGED stateVars
  BY <1>2 DEF StartStep, LoadModule, StopMtp, StartStorage, UndoMtp, UndoModule, LockPower
<1>3. ASSUME NEW t \in Thread, UsbStep(t), UNCHANGED stateVars PROVE CardInv'
  BY <1>3 DEF UsbStep, StopStorage, StartMtp, Unload, UnlockPower
<1> QED
  BY <1>1, <1>2, <1>3 DEF UsbWorks

LEMMA StatesInductive == Spec => []StatesIInv
<1>1. StatesInit => StatesIInv
  BY UsbInitially DEF StatesInit, StatesIInv, CardInv, Busy
<1>2. StatesIInv /\ [Next]_vars => StatesIInv'
  <2> SUFFICES ASSUME StatesIInv, [Next]_vars PROVE StatesIInv'
    OBVIOUS
  <2>1. UsbIInv'
    BY UsbPartKeeps DEF StatesIInv
  <2>2. CASE FileStep
    BY <2>1, <2>2, FileStepKeepsCard DEF StatesIInv
  <2>3. CASE CallStopUsb \/ Send
    BY <2>1, <2>3, DrawKeepsCard DEF StatesIInv
  <2>4. CASE UsbAlone \/ UsbWorks
    BY <2>1, <2>4, UsbKeepsCard DEF StatesIInv
  <2>5. CASE Crash
    BY <2>1, <2>5 DEF StatesIInv, CardInv, Busy, Crash, At, Idle, Thread
  <2>6. CASE UNCHANGED vars
    BY <2>1, <2>6 DEF StatesIInv, CardInv, Busy, At, vars, stateVars, usbVars
  <2> QED
    BY <2>2, <2>3, <2>4, <2>5, <2>6 DEF Next, FileStep, DrawStep
<1> QED
  BY <1>1, <1>2, PTL DEF Spec

(* AdrenalineCompat never works on a state file while the card is shared,  *)
(* whatever call of stopUsb() fails.                                       *)
THEOREM CardStaysOurs == Spec => []CardIsOurs
<1>1. StatesIInv => CardIsOurs
  BY DEF StatesIInv, CardInv, Busy, CardIsOurs
<1> QED
  BY StatesInductive, <1>1, PTL

-----------------------------------------------------------------------------
(* The files, and what a person sees of them.                              *)
SlotTypes ==
    /\ file \in [Slot -> {None} \cup StateFile]
    /\ memory \in [Part -> Nat \cup {Lost}]
    /\ clock \in Nat
    /\ draw \in {"idle", "create", "header", "set_num", "stop_usb", "send"}
    /\ compat \in {"idle", "header", "respond"} \cup Part

(* One choice is on its way at a time, with the number it is about.        *)
OneChoice ==
    /\ draw # "idle" =>
         /\ choice \in Choice
         /\ sent = None /\ psp = "running"
    /\ draw \in {"stop_usb", "send"} => num = choice.slot
    /\ sent # None => draw = "idle" /\ psp = "running" /\ sent \in {"save", "load"} /\ num \in Slot
    /\ psp = "running" => compat = "idle"
    /\ psp # "running" => draw = "idle" /\ sent = None /\ psp \in {"save", "load"} /\ num \in Slot
    /\ compat \in {"header"} \cup Part => target = num

(* A file to be saved to is none or has the zero header, one to be loaded  *)
(* is one initStates() listed.                                             *)
Ready(n, op) ==
    IF op = "save" THEN file[n] = None \/ file[n].header = "zero" ELSE MayList(n)

FileReady ==
    /\ draw \in {"create", "header"} => choice.op = "save"
    /\ draw = "header" => file[choice.slot] # None /\ file[choice.slot].header = "missing"
    /\ draw \in {"set_num", "stop_usb", "send"} => Ready(choice.slot, choice.op)
    /\ sent # None => Ready(num, sent)
    /\ psp # "running" /\ compat # "respond" => Ready(num, psp)
    /\ compat \in {"header"} \cup Part => file[num] # None

(* A file with the magic number is one moment.                             *)
WholeFiles ==
    \A n \in Slot : file[n] # None /\ file[n].header = "magic" =>
        /\ file[n].parts["ram1"] \in Nat
        /\ \A p \in Part : file[n].parts[p] = file[n].parts["ram1"]

(* What a part of the memory is after it was read.                         *)
Loaded(p) == IF file[num].header = "magic" THEN file[num].parts[p] ELSE Lost

(* So is the memory, unless some of its parts are read and others not; the *)
(* parts written so far are the memory's.                                  *)
WholeMemory ==
    /\ ~ (psp = "load" /\ compat \in {"ram2", "descriptors"}) =>
         \A p \in Part : memory[p] = memory["ram1"]
    /\ psp = "load" /\ compat \in {"ram2", "descriptors"} => memory["ram1"] = Loaded("ram1")
    /\ psp = "load" /\ compat = "descriptors" => memory["ram2"] = Loaded("ram2")
    /\ psp = "load" /\ compat \in {"idle", "ram1"} => memory["ram1"] # Lost
    /\ psp = "save" => memory["ram1"] # Lost
    /\ psp = "save" /\ compat \in {"ram1", "ram2", "header"} =>
         file[num].parts["descriptors"] = memory["descriptors"]
    /\ psp = "save" /\ compat \in {"ram2", "header"} =>
         file[num].parts["ram1"] = memory["ram1"]
    /\ psp = "save" /\ compat = "header" =>
         file[num].parts["ram2"] = memory["ram2"]

SlotsIInv == SlotTypes /\ OneChoice /\ FileReady /\ WholeFiles /\ WholeMemory

LEMMA PartOrder ==
    /\ compat = "descriptors" => After(Order, "header") = "ram1"
    /\ compat = "ram1" => After(Order, "header") = "ram2"
    /\ compat = "ram2" => After(Order, "header") = "header"
    /\ compat = "ram1" => After(ReadOrder, "respond") = "ram2"
    /\ compat = "ram2" => After(ReadOrder, "respond") = "descriptors"
    /\ compat = "descriptors" => After(ReadOrder, "respond") = "respond"
<1> DEFINE place(o) == CHOOSE j \in DOMAIN o : o[j] = compat
<1>1. /\ DOMAIN Order = {1, 2, 3} /\ DOMAIN ReadOrder = {1, 2, 3}
      /\ Order[1] = "descriptors" /\ Order[2] = "ram1" /\ Order[3] = "ram2"
      /\ ReadOrder[1] = "ram1" /\ ReadOrder[2] = "ram2" /\ ReadOrder[3] = "descriptors"
  BY DEF Order, ReadOrder
<1>2. \A o \in {Order, ReadOrder}, i \in {1, 2, 3} :
        o[i] = compat => place(o) \in {1, 2, 3} /\ o[place(o)] = compat
  BY <1>1
<1>3. /\ compat = "descriptors" => place(Order) = 1
      /\ compat = "ram1" => place(Order) = 2
      /\ compat = "ram2" => place(Order) = 3
  BY <1>1, <1>2
<1>4. /\ compat = "ram1" => place(ReadOrder) = 1
      /\ compat = "ram2" => place(ReadOrder) = 2
      /\ compat = "descriptors" => place(ReadOrder) = 3
  BY <1>1, <1>2
<1> HIDE DEF place
<1>5. \A o, last : After(o, last) = IF place(o) = 3 THEN last ELSE o[place(o) + 1]
  BY DEF After, place
<1> QED
  BY <1>1, <1>3, <1>4, <1>5

LEMMA SlotsInitially == StatesInit => SlotsIInv
  BY NamesAssumption DEF StatesInit, SlotsIInv, SlotTypes, OneChoice, FileReady, WholeFiles,
     WholeMemory, Part

LEMMA SlotsOtherSteps ==
    ASSUME SlotsIInv, UNCHANGED stateVars
    PROVE  SlotsIInv'
  BY DEF SlotsIInv, SlotTypes, OneChoice, FileReady, WholeFiles, WholeMemory, Ready, Loaded,
         MayList, stateVars

LEMMA SlotsDrawStep ==
    ASSUME SlotsIInv, Play \/ Choose \/ DrawStep \/ Suspend \/ Crash
    PROVE  SlotsIInv'
<1> USE NamesAssumption, StatesAssumption
    DEF SlotsIInv, SlotTypes, OneChoice, FileReady, WholeFiles, WholeMemory, Ready, Loaded, MayList, Part, Choice, StateFile
<1>1. CASE Play
  BY <1>1 DEF Play, Alive
<1>2. ASSUME NEW n \in Slot, ChooseSave(n)
      PROVE  SlotsIInv'
  BY <1>2 DEF ChooseSave, AtRest
<1>3. ASSUME NEW n \in Slot, ChooseLoad(n)
      PROVE  SlotsIInv'
  BY <1>3 DEF ChooseLoad, AtRest
<1>4. ASSUME NEW n \in Slot, DeleteState(n)
      PROVE  SlotsIInv'
  BY <1>4 DEF DeleteState, AtRest
<1>5. CASE CreateFile
  BY <1>5 DEF CreateFile, NewFile
<1>6. CASE WriteZeroHeader
  BY <1>6 DEF WriteZeroHeader
<1>7. CASE SetNum
  BY <1>7 DEF SetNum
<1>8. CASE CallStopUsb
  BY <1>8 DEF CallStopUsb
<1>9. CASE Send
  BY <1>9 DEF Send
<1>10. CASE Suspend
  BY <1>10 DEF Suspend, Alive
<1>11. CASE Crash
  BY <1>11 DEF Crash
<1> QED
  BY <1>1, <1>2, <1>3, <1>4, <1>5, <1>6, <1>7, <1>8, <1>9, <1>10, <1>11 DEF Choose, DrawStep

LEMMA SlotsCompatStep ==
    ASSUME SlotsIInv, CompatStep
    PROVE  SlotsIInv'
<1> USE NamesAssumption DEF SlotsIInv, SlotTypes, OneChoice, FileReady, WholeFiles, WholeMemory,
        Ready, Loaded, MayList, Part, StateFile
<1>1. CASE OpenState
  BY <1>1 DEF OpenState
<1>2. CASE WritePart
  BY <1>2, PartOrder DEF WritePart
<1>3. CASE WriteHeader
  BY <1>3 DEF WriteHeader
<1>4. CASE ReadPart
  BY <1>4, PartOrder DEF ReadPart
<1>5. CASE Respond
  BY <1>5 DEF Respond
<1> QED
  BY <1>1, <1>2, <1>3, <1>4, <1>5 DEF CompatStep

(* The slots a person sees, and the moment of the game.                    *)
Seen == [n \in Slot |-> Offered(file[n])]

LEMMA SeenUpdate ==
    ASSUME SlotTypes, NEW n \in Slot, NEW f, file' = [file EXCEPT ![n] = f]
    PROVE  Seen' = [Seen EXCEPT ![n] = Offered(f)]
  BY DEF Seen, SlotTypes

SlotsStep == [Slots!Next]_<<Seen, InMemory, clock>>

LEMMA SeenStutter ==
    ASSUME UNCHANGED <<file, memory, clock>>, InMemory' = InMemory
    PROVE  SlotsStep
  BY DEF SlotsStep, Seen, Offered

LEMMA SlotsStepIs ==
    ASSUME SlotsStep
    PROVE  [Slots!Next]_Slots!vars
  BY DEF SlotsStep, Slots!vars, Seen

(* Nothing is being read: the game is at the moment of its memory.         *)
LEMMA AtOneMoment ==
    ASSUME SlotsIInv, ~ (psp = "load" /\ compat \in {"ram2", "descriptors"})
    PROVE  InMemory = memory["ram1"]
  BY DEF SlotsIInv, WholeMemory, InMemory, Part

LEMMA SlotsPlay ==
    ASSUME SlotsIInv, SlotsIInv', Play \/ Crash
    PROVE  SlotsStep
<1>1. InMemory' = clock' /\ clock' = clock + 1 /\ Seen' = Seen
  <2>1. file' = file /\ clock' = clock + 1 /\ \A p \in Part : memory'[p] = clock'
    BY DEF Play, Crash
  <2>2. compat' = "idle"
    BY DEF Play, Crash, Alive, SlotsIInv, OneChoice
  <2> QED
    BY <2>1, <2>2 DEF InMemory, Seen, Offered, Part
<1>2. CASE Play
  <2>1. InMemory # Lost
    BY <1>2, AtOneMoment DEF Play, Alive, Part
  <2> QED
    BY <1>1, <2>1 DEF SlotsStep, Slots!Next, Slots!Play, Seen
<1>3. CASE Crash
  BY <1>1, <1>3 DEF SlotsStep, Slots!Next, Slots!Restart, Seen
<1> QED
  BY <1>2, <1>3

LEMMA SlotsChoose ==
    ASSUME SlotsIInv, SlotsIInv', Choose
    PROVE  SlotsStep
<1>1. ASSUME NEW n \in Slot, ChooseSave(n) \/ ChooseLoad(n)
      PROVE  SlotsStep
  BY <1>1, SeenStutter DEF ChooseSave, ChooseLoad, InMemory
<1>2. ASSUME NEW n \in Slot, DeleteState(n)
      PROVE  SlotsStep
  <2>1. Seen' = [Seen EXCEPT ![n] = None]
    BY <1>2, SeenUpdate DEF DeleteState, SlotsIInv, Offered
  <2>2. InMemory' = InMemory /\ clock' = clock
    BY <1>2 DEF DeleteState, InMemory
  <2> QED
    BY <2>1, <2>2 DEF SlotsStep, Slots!Next, Slots!Delete, Seen
<1> QED
  BY <1>1, <1>2 DEF Choose

(* The file is emptied, then loses what it offered; the rest of saveState()*)
(* and loadState() shows nothing.                                          *)
LEMMA SlotsBegin ==
    ASSUME SlotsIInv, SlotsIInv', DrawStep \/ Suspend
    PROVE  SlotsStep
<1>1. ASSUME NEW f, file' = [file EXCEPT ![choice.slot] = f], Offered(f) \in {Empty, None},
             choice.slot \in Slot, UNCHANGED <<psp, compat, memory, clock>>
      PROVE  SlotsStep
  <2>1. Seen' = [Seen EXCEPT ![choice.slot] = Offered(f)]
    BY <1>1, SeenUpdate DEF SlotsIInv
  <2>2. InMemory' = InMemory
    BY <1>1 DEF InMemory
  <2> QED
    BY <1>1, <2>1, <2>2 DEF SlotsStep, Slots!Next, Slots!Begin, Seen
<1>2. CASE CreateFile
  <2>1. choice.slot \in Slot /\ Offered(NewFile) \in {Empty, None}
    BY <1>2 DEF CreateFile, SlotsIInv, OneChoice, Choice, Offered, NewFile
  <2>2. CASE UNCHANGED file
    BY <1>2, <2>2, SeenStutter DEF CreateFile, InMemory
  <2> QED
    BY <1>1, <1>2, <2>1, <2>2 DEF CreateFile
<1>3. CASE WriteZeroHeader
  <2>1. choice.slot \in Slot /\ file[choice.slot] \in StateFile
    BY <1>3 DEF WriteZeroHeader, SlotsIInv, SlotTypes, OneChoice, FileReady, Choice
  <2> DEFINE f == [file[choice.slot] EXCEPT !.header = "zero"]
  <2>2. f.header = "zero" /\ file' = [file EXCEPT ![choice.slot] = f]
    BY <1>3, <2>1 DEF WriteZeroHeader, StateFile
  <2> QED
    BY <1>1, <1>3, <2>1, <2>2 DEF WriteZeroHeader, Offered
<1>4. CASE SetNum \/ CallStopUsb \/ Send
  BY <1>4, SeenStutter DEF SetNum, CallStopUsb, Send, InMemory
<1>5. CASE Suspend
  <2>1. UNCHANGED <<file, memory, compat, clock>> /\ compat = "idle"
    BY <1>5 DEF Suspend, Alive, SlotsIInv, OneChoice
  <2> QED
    BY <2>1, SeenStutter DEF InMemory, Part
<1> QED
  BY <1>2, <1>3, <1>4, <1>5 DEF DrawStep

(* Until the header is written the slot offers nothing; then it has the    *)
(* moment of the memory, whole.                                            *)
LEMMA SlotsSave ==
    ASSUME SlotsIInv, SlotsIInv', WritePart \/ WriteHeader
    PROVE  SlotsStep
<1>1. /\ num \in Slot /\ target = num /\ file[num] \in StateFile /\ file[num].header = "zero"
      /\ psp = "save" /\ UNCHANGED <<psp, memory, clock>>
  BY DEF WritePart, WriteHeader, SlotsIInv, SlotTypes, OneChoice, FileReady, Ready, Part
<1>2. InMemory = memory["ram1"] /\ InMemory' = memory["ram1"] /\ memory["ram1"] # Lost
  BY <1>1 DEF SlotsIInv, WholeMemory, InMemory, Part
<1>3. CASE WritePart
  <2> DEFINE f == [file[num] EXCEPT !.parts[compat] = memory[compat]]
  <2>1. file' = [file EXCEPT ![num] = f] /\ f.header = "zero"
    BY <1>1, <1>3 DEF WritePart, StateFile
  <2> HIDE DEF f
  <2>2. Seen' = [Seen EXCEPT ![num] = None]
    BY <1>1, <2>1, SeenUpdate DEF SlotsIInv, Offered
  <2>3. Seen[num] = None /\ Seen' = Seen
    BY <1>1, <2>2 DEF Seen, Offered
  <2> QED
    BY <1>1, <1>2, <2>3 DEF SlotsStep
<1>4. CASE WriteHeader
  <2> DEFINE f == [file[num] EXCEPT !.header = "magic"]
  <2>1. file' = [file EXCEPT ![num] = f]
    BY <1>1, <1>4 DEF WriteHeader, StateFile
  <2>2. f.header = "magic" /\ f.parts["ram1"] = memory["ram1"] /\ f \in StateFile
    BY <1>1, <1>4 DEF WriteHeader, StateFile, SlotsIInv, WholeMemory, Part
  <2> HIDE DEF f
  <2>3. Offered(f) = InMemory
    BY <1>2, <2>2, NamesAssumption DEF Offered
  <2>4. Seen' = [Seen EXCEPT ![num] = InMemory]
    BY <1>1, <2>1, <2>3, SeenUpdate DEF SlotsIInv
  <2>5. Seen[num] = None
    BY <1>1 DEF Seen, Offered
  <2> QED
    BY <1>1, <1>2, <2>4, <2>5 DEF SlotsStep, Slots!Next, Slots!Save, Seen
<1> QED
  BY <1>3, <1>4

(* The first part that is read decides; the others follow it.              *)
LEMMA SlotsLoad ==
    ASSUME SlotsIInv, SlotsIInv', OpenState \/ ReadPart \/ Respond
    PROVE  SlotsStep
<1>1. CASE OpenState
  <2>1. /\ UNCHANGED <<file, memory, clock, psp>>
        /\ compat = "idle" /\ compat' \in {"descriptors", "ram1", "respond"}
        /\ (psp = "load" => compat' # "descriptors")
    BY <1>1 DEF OpenState
  <2>2. InMemory = memory["ram1"] /\ InMemory' = memory["ram1"]
    BY <2>1 DEF SlotsIInv, WholeMemory, InMemory, Part
  <2> QED
    BY <2>1, <2>2, SeenStutter
<1>2. CASE Respond
  <2>1. UNCHANGED <<file, memory, clock>> /\ compat = "respond" /\ compat' = "idle"
    BY <1>2 DEF Respond
  <2> QED
    BY <2>1, SeenStutter DEF InMemory, Part
<1>3. CASE ReadPart
  <2>1. /\ num \in Slot /\ target = num
        /\ file[num] # None /\ file[num].header \in {"magic", "missing"}
        /\ psp = "load" /\ psp' = "load" /\ UNCHANGED <<file, num, clock>>
    BY <1>3 DEF ReadPart, SlotsIInv, SlotTypes, OneChoice, FileReady, Ready, MayList, Part
  <2>2. memory' = [memory EXCEPT ![compat] = Loaded(compat)]
    BY <1>3, <2>1 DEF ReadPart, Loaded
  <2>3. CASE compat = "ram1"
    <3>1. compat' = "ram2" /\ InMemory' = Loaded("ram1")
      BY <1>3, <2>1, <2>2, <2>3, PartOrder DEF ReadPart, InMemory, Part, SlotsIInv, SlotTypes
    <3>2. InMemory = memory["ram1"] /\ memory["ram1"] # Lost
      BY <2>1, <2>3 DEF SlotsIInv, WholeMemory, InMemory, Part
    <3>3. /\ Seen[num] # None
          /\ Loaded("ram1") = IF Seen[num] = Empty THEN Lost ELSE Seen[num]
      BY <2>1, NamesAssumption, UsbAssumption
         DEF Seen, Offered, Loaded, SlotsIInv, WholeFiles
    <3>4. Seen' = Seen
      BY <2>1 DEF Seen, Offered
    <3> QED
      BY <2>1, <3>1, <3>2, <3>3, <3>4 DEF SlotsStep, Slots!Next, Slots!Load, Seen
  <2>4. CASE compat \in {"ram2", "descriptors"}
    <3>1. InMemory = memory["ram1"] /\ memory'["ram1"] = memory["ram1"]
      BY <2>1, <2>2, <2>4 DEF InMemory, Part, SlotsIInv, SlotTypes
    <3>2. InMemory' = memory'["ram1"]
      BY <1>3, <2>1, <2>4, PartOrder DEF ReadPart, InMemory, Part, SlotsIInv, WholeMemory
    <3>3. Seen' = Seen
      BY <2>1 DEF Seen, Offered
    <3> QED
      BY <2>1, <3>1, <3>2, <3>3 DEF SlotsStep
  <2> QED
    BY <1>3, <2>3, <2>4 DEF ReadPart, Part
<1> QED
  BY <1>1, <1>2, <1>3

LEMMA SlotsInductive == Spec => []SlotsIInv
<1>1. SlotsIInv /\ [Next]_vars => SlotsIInv'
  BY SlotsDrawStep, SlotsCompatStep, SlotsOtherSteps
     DEF Next, vars, UsbAlone, UsbWorks, stateVars
<1> QED
  BY SlotsInitially, <1>1, PTL DEF Spec

(* saveState(), loadState(), SaveState() and LoadState(), step by step and *)
(* with the power lost anywhere, are what a person expects: a slot holds   *)
(* one moment as a whole or nothing, loading brings the game back to it,   *)
(* and a save that is cut off costs its own slot.                          *)
THEOREM SlotsRefinement == Spec => ImplementsStateSlots
<1>1. StatesInit => Slots!Init
  BY NamesAssumption DEF StatesInit, Slots!Init, Offered, InMemory, Part
<1>2. SlotsIInv /\ SlotsIInv' /\ [Next]_vars => [Slots!Next]_Slots!vars
  <2> SUFFICES ASSUME SlotsIInv, SlotsIInv', [Next]_vars
               PROVE  SlotsStep
    BY SlotsStepIs
  <2>1. CASE UNCHANGED stateVars
    BY <2>1, SeenStutter DEF stateVars, InMemory
  <2> QED
    BY <2>1, SlotsPlay, SlotsChoose, SlotsBegin, SlotsSave, SlotsLoad
       DEF Next, CompatStep, vars, UsbAlone, UsbWorks
<1> QED
  BY <1>1, <1>2, SlotsInductive, PTL DEF Spec, ImplementsStateSlots, Slots!Spec

=============================================================================
