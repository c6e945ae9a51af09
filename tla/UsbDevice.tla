------------------------------ MODULE UsbDevice ------------------------------
(***************************************************************************)
(* The Vita as a USB storage device: startUsb() and stopUsb() of           *)
(* user/usb.c, called by AdrenalineCompat for START_USB and STOP_USB and   *)
(* by the draw thread, which stops USB before it suspends the Vita, leaves *)
(* the emulator, or saves or loads a state. The two threads share          *)
(* usbdevice_modid, and only AdrenalineCompat writes it.                   *)
(*                                                                         *)
(* External: the drivers. Every call may fail, but stopping a storage that *)
(* is on succeeds and one that is off fails, and a module is unloaded by   *)
(* its own id. The unload that cleans up after a failed start succeeds.    *)
(***************************************************************************)
EXTENDS Naturals

CONSTANTS
    MaxModules, \* bound: so often the module is loaded
    None        \* no module: a negative id

ASSUME UsbAssumption == MaxModules \in Nat /\ None \notin Nat

VARIABLES
    usbdevice_modid,    \* the id that START_USB kept
    module,             \* the id of the module that is loaded, or None
    mtp,                \* the MTP driver runs
    storage,            \* USB storage is on: the other side owns the card
    lock_power,
    loads,              \* how often the module was loaded: the next id
    call                \* thread -> what it executes and with which id

usbVars == <<usbdevice_modid, module, mtp, storage, lock_power, loads, call>>

Thread == {"draw", "compat"}
Idle == [pc |-> "idle", modid |-> None]
Starting == {"load", "stop_mtp", "start_storage", "undo_mtp", "undo_module", "lock"}
Stopping == {"stop_storage", "start_mtp", "unload", "unlock"}
Over == {"done", "failed"}      \* stopUsb() has returned to its caller

At(t, pc) == call[t].pc = pc
Go(t, pc) == call' = [call EXCEPT ![t].pc = pc]
Failing(t) == Go(t, "failed")

UsbInit ==
    /\ usbdevice_modid = None /\ module = None
    /\ mtp = TRUE /\ storage = FALSE /\ lock_power = FALSE
    /\ loads = 0
    /\ call = [t \in Thread |-> Idle]

-----------------------------------------------------------------------------
(* START_USB: refused while there is an id.                                *)
StartUsb ==
    /\ At("compat", "idle") /\ usbdevice_modid = None
    /\ Go("compat", "load")
    /\ UNCHANGED <<usbdevice_modid, module, mtp, storage, lock_power, loads>>

(* startUsb(). An error goes back through what was done so far.            *)
LoadModule ==
    /\ At("compat", "load")
    /\ \/ /\ module = None /\ loads < MaxModules
          /\ loads' = loads + 1
          /\ module' = loads'
          /\ call' = [call EXCEPT !["compat"] = [pc |-> "stop_mtp", modid |-> loads']]
       \/ call' = [call EXCEPT !["compat"] = Idle] /\ UNCHANGED <<module, loads>>
    /\ UNCHANGED <<usbdevice_modid, mtp, storage, lock_power>>

(* A driver that was stopped before is as good as one stopped now.         *)
(* Mutant: every error of the MTP driver is ignored.                       *)
StopMtpAnyway ==
    /\ At("compat", "stop_mtp")
    /\ mtp' \in {mtp, FALSE}
    /\ Go("compat", "start_storage")
    /\ UNCHANGED <<usbdevice_modid, module, storage, lock_power, loads>>
StopMtp ==
    /\ At("compat", "stop_mtp")
    /\ \/ mtp' = FALSE /\ Go("compat", "start_storage")
       \/ mtp /\ Go("compat", "undo_module") /\ UNCHANGED mtp
    /\ UNCHANGED <<usbdevice_modid, module, storage, lock_power, loads>>

StartStorage ==
    /\ At("compat", "start_storage")
    /\ \/ storage' = TRUE /\ Go("compat", "lock")
       \/ Go("compat", "undo_mtp") /\ UNCHANGED storage
    /\ UNCHANGED <<usbdevice_modid, module, mtp, lock_power, loads>>

UndoMtp ==
    /\ At("compat", "undo_mtp")
    /\ mtp' \in {mtp, TRUE}
    /\ Go("compat", "undo_module")
    /\ UNCHANGED <<usbdevice_modid, module, storage, lock_power, loads>>

UndoModule ==
    /\ At("compat", "undo_module")
    /\ module' = None
    /\ call' = [call EXCEPT !["compat"] = Idle]
    /\ UNCHANGED <<usbdevice_modid, mtp, storage, lock_power, loads>>

(* lockPower(), and back in AdrenalineCompat the id is kept.               *)
LockPower ==
    /\ At("compat", "lock")
    /\ lock_power' = TRUE
    /\ usbdevice_modid' = call["compat"].modid
    /\ call' = [call EXCEPT !["compat"] = Idle]
    /\ UNCHANGED <<module, mtp, storage, loads>>

-----------------------------------------------------------------------------
(* stopUsb(usbdevice_modid): the id is read at the call. The first three   *)
(* calls return at an error.                                               *)
StopUsb(t) ==
    /\ At(t, "idle")
    /\ call' = [call EXCEPT ![t] =
          IF usbdevice_modid = None THEN [pc |-> "done", modid |-> None]
          ELSE [pc |-> "stop_storage", modid |-> usbdevice_modid]]
    /\ UNCHANGED <<usbdevice_modid, module, mtp, storage, lock_power, loads>>

StopStorage(t) ==
    /\ At(t, "stop_storage")
    /\ storage' = FALSE
    /\ IF storage THEN Go(t, "start_mtp") ELSE Failing(t)
    /\ UNCHANGED <<usbdevice_modid, module, mtp, lock_power, loads>>

StartMtp(t) ==
    /\ At(t, "start_mtp")
    /\ \/ mtp' = TRUE /\ Go(t, "unload")
       \/ Failing(t) /\ UNCHANGED mtp
    /\ UNCHANGED <<usbdevice_modid, module, storage, lock_power, loads>>

Unload(t) ==
    /\ At(t, "unload")
    /\ \/ module = call[t].modid /\ module' = None /\ Go(t, "unlock")
       \/ Failing(t) /\ UNCHANGED module
    /\ UNCHANGED <<usbdevice_modid, mtp, storage, lock_power, loads>>

(* unlockPower() and remounting the cards.                                 *)
UnlockPower(t) ==
    /\ At(t, "unlock")
    /\ lock_power' = FALSE
    /\ Go(t, "done")
    /\ UNCHANGED <<usbdevice_modid, module, mtp, storage, loads>>

(* STOP_USB forgets the id of what it has stopped.                         *)
(* Mutant: the id is forgotten although the stop failed half-way.          *)
StopForgets ==
    /\ call["compat"].pc \in Over
    /\ usbdevice_modid' = None
    /\ call' = [call EXCEPT !["compat"] = Idle]
    /\ UNCHANGED <<module, mtp, storage, lock_power, loads>>
StopAnswered ==
    /\ call["compat"].pc \in Over
    /\ usbdevice_modid' = IF At("compat", "done") THEN None ELSE usbdevice_modid
    /\ call' = [call EXCEPT !["compat"] = Idle]
    /\ UNCHANGED <<module, mtp, storage, lock_power, loads>>

(* The draw thread looks at neither the result nor the id afterwards.      *)
StopReturns ==
    /\ call["draw"].pc \in Over
    /\ call' = [call EXCEPT !["draw"] = Idle]
    /\ UNCHANGED <<usbdevice_modid, module, mtp, storage, lock_power, loads>>

UsbStep(t) == StopStorage(t) \/ StartMtp(t) \/ Unload(t) \/ UnlockPower(t)
StartStep ==
    \/ LoadModule \/ StopMtp \/ StartStorage
    \/ UndoMtp \/ UndoModule \/ LockPower

UsbNext ==
    \/ StartUsb \/ StartStep
    \/ \E t \in Thread : StopUsb(t) \/ UsbStep(t)
    \/ StopAnswered \/ StopReturns

UsbSpec == UsbInit /\ [][UsbNext]_usbVars

-----------------------------------------------------------------------------
UsbTypeOK ==
    /\ usbdevice_modid \in Nat \cup {None}
    /\ module \in Nat \cup {None}
    /\ mtp \in BOOLEAN /\ storage \in BOOLEAN /\ lock_power \in BOOLEAN
    /\ loads \in Nat
    /\ call \in [Thread -> [pc : {"idle"} \cup Starting \cup Stopping \cup Over,
                            modid : Nat \cup {None}]]

(* The card is shared only with the module that does it loaded and MTP     *)
(* out of the way, however the two threads' starts and stops mix and       *)
(* wherever they fail (usb.c:62-164).                                      *)
StorageAlone == storage => module # None /\ ~ mtp

(* Between two requests a loaded module is the one whose id is kept, so    *)
(* that STOP_USB can reach it, and a card that is shared keeps the Vita    *)
(* awake (main.c:327, 339; usb.c:102, 143).                                *)
ModuleTracked ==
    At("compat", "idle") =>
        /\ module # None => usbdevice_modid = module
        /\ storage => lock_power

=============================================================================
