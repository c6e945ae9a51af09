------------------------------ MODULE UmdDrive ------------------------------
(***************************************************************************)
(* The UMD drive that the Inferno driver makes of an ISO image: the driver *)
(* "umd" of iodrv_funcs.c with its handles, and the reader of isoread.c    *)
(* and bits/iso_common.c with its retries.                                 *)
(*                                                                         *)
(* All calls share one descriptor of the image and its position.  Reads    *)
(* take a semaphore; IoOpen() and the thread infernoMount, which opens the *)
(* image first and then looks which game it is, work on the descriptor     *)
(* without it.  Every use of the descriptor is a step of its own: each is  *)
(* a call to the memory stick, during which other threads run.             *)
(*                                                                         *)
(* The unit is the sector.  The cache in front of the reader is module     *)
(* IsoCache; a compressed image is read through the same calls.  g_read_arg*)
(* is taken to be read at once after it is written.                        *)
(***************************************************************************)
EXTENDS Integers, FiniteSets

CONSTANTS
    Threads,         \* the program's threads
    Mount,           \* the thread infernoMount
    Nobody,          \* the semaphore is free
    Slots,           \* g_open_slot: 0 .. MAX_FILES_NR - 1
    Sectors,         \* g_total_sectors of the image
    IdSector,        \* the sector with the name of the game, 0x8000 / ISO_SECTOR_SIZE
    AfterMount,      \* the program makes its calls after infernoMount is done
    MaxLen,          \* how many sectors one IoRead() is asked for; a bound of the model
    Directly,        \* the sectors that are read by their number
    MaxRetries,      \* g_max_retries, and the 16 of IoOpen()
    MaxFaults        \* how often the memory stick fails; a bound of the model

ASSUME DriveAssumption ==
    /\ Mount \notin Threads
    /\ Nobody \notin Threads \cup {Mount}
    /\ Slots \subseteq Nat
    /\ Sectors \in Nat
    /\ IdSector \in Nat
    /\ MaxLen \in Nat
    /\ Directly \subseteq 0 .. (Sectors - 1)
    /\ AfterMount \in BOOLEAN
    /\ MaxRetries \in Nat \ {0}
    /\ MaxFaults \in Nat

VARIABLES
    fd,              \* g_iso_fd is a descriptor the memory stick knows
    at,              \* its position
    iso_opened,      \* g_iso_opened
    sema,            \* g_umd9660_sema_id: who holds it
    enabled,         \* the slots of g_open_slot in use
    offset,          \* and the position of each
    pc, call,        \* where a thread is, and what was called with what
    got,             \* what it read
    tries,           \* the retries of its loop
    back,            \* where iso_open() returns to
    faults,
    torn,            \* history: reads during which the descriptor was used without the semaphore
    mixed            \* history: slots on which two calls overlapped

ioVars == <<fd, at, iso_opened, sema>>
slotVars == <<enabled, offset, mixed>>
vars == <<ioVars, slotVars, got, pc, call, tries, back, faults, torn>>

All == Threads \cup {Mount}
Opening == {"close", "reopen", "size"}
Places == Opening \cup {"idle", "find", "slot", "lock", "seek", "read", "reseek", "unlock",
                        "add", "medium", "mount"}
Ops == {"none", "open", "close", "read", "lseek", "sectors", "medium", "mount"}

(* A place in the image and how many sectors from there.                   *)
Extent == [from : Nat, n : Nat]
Nothing == [from |-> 0, n |-> 0]
Call(op, slot, from, n) == [op |-> op, slot |-> slot, from |-> from, n |-> n]
NoCall == Call("none", 0, 0, 0)
MountCall == Call("mount", 0, IdSector, 1)

TypeOK ==
    /\ fd \in BOOLEAN /\ at \in Nat /\ iso_opened \in BOOLEAN
    /\ sema \in Threads \cup {Nobody}
    /\ enabled \subseteq Slots /\ offset \in [Slots -> Nat] /\ mixed \subseteq Slots
    /\ pc \in [All -> Places]
    /\ call \in [All -> [op : Ops, slot : Nat, from : Nat, n : Nat]]
    /\ got \in [All -> Extent]
    /\ tries \in [All -> 0 .. MaxRetries]
    /\ back \in [All -> {"find", "seek", "reseek", "mount"}]
    /\ faults \in 0 .. MaxFaults
    /\ torn \subseteq Threads

Smaller(a, b) == IF a < b THEN a ELSE b

(* What the image holds from a position on.                                *)
Left(position) == IF position < Sectors THEN Sectors - position ELSE 0

(* module_start() and IoInit() have run; infernoMount begins.              *)
Init ==
    /\ fd = FALSE /\ at = 0 /\ iso_opened = FALSE
    /\ sema = Nobody
    /\ enabled = {} /\ offset = [s \in Slots |-> 0] /\ mixed = {}
    /\ pc = [t \in All |-> IF t = Mount THEN "mount" ELSE "idle"]
    /\ call = [t \in All |-> IF t = Mount THEN MountCall ELSE NoCall]
    /\ got = [t \in All |-> Nothing]
    /\ tries = [t \in All |-> 0]
    /\ back = [t \in All |-> "find"]
    /\ faults = 0
    /\ torn = {}

-----------------------------------------------------------------------------
(* Control.                                                                *)

Goto(t, place) == pc' = [pc EXCEPT ![t] = place]

(* The call returns; its local variables are gone.                         *)
Return(t) ==
    /\ Goto(t, "idle")
    /\ call' = [call EXCEPT ![t] = NoCall]
    /\ got' = [got EXCEPT ![t] = Nothing]
    /\ tries' = [tries EXCEPT ![t] = 0]
    /\ torn' = torn \ {t}

(* A loop failed once more: iso_open() is called and goes back to it.      *)
Retry(t, place) ==
    /\ tries' = [tries EXCEPT ![t] = @ + 1]
    /\ back' = [back EXCEPT ![t] = place]
    /\ Goto(t, "close")

(* iso_open() goes back to the loop that called it.                        *)
Resume(t) ==
    /\ Goto(t, back[t])
    /\ back' = [back EXCEPT ![t] = "find"]

(* History: a thread without the semaphore uses the descriptor.            *)
Touch(t) ==
    torn' = IF call[t].op \in {"open", "mount"} THEN torn \cup ({sema} \ {Nobody}) ELSE torn

(* History: t works on the slot while another thread's read of it is under *)
(* way, or after a read that was torn.                                     *)
Overlap(t, s) == \E u \in Threads \ {t} : call[u].op = "read" /\ call[u].slot = s

Cross(t, s) == mixed' = IF t \in torn \/ Overlap(t, s) THEN mixed \cup {s} ELSE mixed

-----------------------------------------------------------------------------
(* iso_open(): wait_until_ms0_ready(), close, open, look at the image.  If *)
(* the open fails g_max_retries times the caller's loop goes on without.   *)
(* What ciso_open() and the three seeks for the size do is one step.  They *)
(* find the descriptor bad when another iso_open() has closed it; then     *)
(* read_raw_data() calls iso_open() again.                                 *)
IsoClose(t) ==
    /\ pc[t] = "close"
    /\ fd' = FALSE /\ at' = 0 /\ iso_opened' = FALSE
    /\ Goto(t, "reopen") /\ Touch(t)
    /\ UNCHANGED <<sema, slotVars, got, call, tries, back, faults>>

IsoReopen(t) ==
    /\ pc[t] = "reopen"
    /\ at' = 0
    /\ \/ /\ fd' = TRUE
          /\ Goto(t, "size")
          /\ UNCHANGED <<back, faults>>
       \/ /\ faults < MaxFaults
          /\ faults' = faults + 1
          /\ fd' = FALSE
          /\ Resume(t)
    /\ Touch(t)
    /\ UNCHANGED <<iso_opened, sema, slotVars, got, call, tries>>

IsoSize(t) ==
    /\ pc[t] = "size"
    /\ \/ /\ fd
          /\ iso_opened' = TRUE /\ at' = 0
          /\ Resume(t)
       \/ /\ ~fd
          /\ Goto(t, "close")
          /\ UNCHANGED <<iso_opened, at, back>>
    /\ Touch(t)
    /\ UNCHANGED <<fd, sema, slotVars, got, call, tries, faults>>

-----------------------------------------------------------------------------
(* isoReadUmdFile() and read_raw_data().  infernoMount comes in at "seek", *)
(* without the semaphore.                                                  *)
ReadLock(t) ==
    /\ pc[t] = "lock"
    /\ sema = Nobody
    /\ sema' = t
    /\ Goto(t, "seek")
    /\ UNCHANGED <<fd, at, iso_opened, slotVars, got, call, tries, back, faults, torn>>

ReadSeek(t) ==
    /\ pc[t] = "seek"
    /\ tries[t] < MaxRetries
    /\ \/ /\ fd
          /\ at' = call[t].from
          /\ tries' = [tries EXCEPT ![t] = 0]
          /\ Goto(t, "read") /\ Touch(t)
          /\ UNCHANGED back
       \/ /\ ~fd
          /\ Retry(t, "seek")
          /\ UNCHANGED <<at, torn>>
    /\ UNCHANGED <<fd, iso_opened, sema, slotVars, got, call, faults>>

(* The end of the image cuts a read short.                                 *)
ReadRead(t) ==
    /\ pc[t] = "read"
    /\ tries[t] < MaxRetries
    /\ \/ /\ fd
          /\ got' = [got EXCEPT ![t] = [from |-> at, n |-> Smaller(call[t].n, Left(at))]]
          /\ at' = at + got'[t].n
          /\ Goto(t, "unlock") /\ Touch(t)
          /\ UNCHANGED <<tries, back>>
       \/ /\ ~fd
          /\ Retry(t, "reseek")
          /\ UNCHANGED <<at, got, torn>>
    /\ UNCHANGED <<fd, iso_opened, sema, slotVars, call, faults>>

(* Mutant: after iso_open() the read goes on where the new descriptor is.  *)
ReseekNowhere(t) ==
    /\ pc[t] = "reseek"
    /\ Goto(t, "read") /\ Touch(t)
    /\ UNCHANGED <<ioVars, slotVars, got, call, tries, back, faults>>

(* The seek after iso_open() is not looked at.                             *)
ReadReseek(t) ==
    /\ pc[t] = "reseek"
    /\ at' = IF fd THEN call[t].from ELSE at
    /\ Goto(t, "read") /\ Touch(t)
    /\ UNCHANGED <<fd, iso_opened, sema, slotVars, got, call, tries, back, faults>>

(* Mutant: the error returns with the semaphore.                           *)
GiveUpLocked(t) ==
    /\ pc[t] \in {"seek", "read"}
    /\ tries[t] = MaxRetries
    /\ Return(t)
    /\ UNCHANGED <<ioVars, slotVars, back, faults>>

(* SCE_ENODEV.                                                             *)
ReadGiveUp(t) ==
    /\ pc[t] \in {"seek", "read"}
    /\ tries[t] = MaxRetries
    /\ Goto(t, "unlock")
    /\ UNCHANGED <<ioVars, slotVars, got, call, tries, back, faults, torn>>

(* IoRead() goes on when something was read.                               *)
ReadUnlock(t) ==
    /\ pc[t] = "unlock"
    /\ t \in Threads
    /\ sema' = Nobody
    /\ IF call[t].op = "read" /\ got[t].n > 0
       THEN Goto(t, "add") /\ UNCHANGED <<got, call, tries, torn>>
       ELSE Return(t)
    /\ UNCHANGED <<fd, at, iso_opened, slotVars, back, faults>>

-----------------------------------------------------------------------------
(* Handles.  A call starts, or IoIoctl() makes it.  The slots are only     *)
(* looked at with the semaphore, and nothing blocks between taking and     *)
(* giving it.                                                              *)
Begin(t) ==
    /\ pc[t] = "idle" /\ t \in Threads
    /\ AfterMount => pc[Mount] = "idle"
    /\ \/ /\ Goto(t, "find")
          /\ call' = [call EXCEPT ![t] = Call("open", 0, 0, 0)]
       \/ \E op \in {"close", "read", "lseek"}, s \in enabled :
            /\ Goto(t, "slot")
            /\ call' = [call EXCEPT ![t] = Call(op, s, 0, 0)]
       \/ \E x \in Directly :      \* umd_devctl_read()
            /\ Goto(t, "lock")
            /\ call' = [call EXCEPT ![t] = Call("sectors", 0, x, 1)]
       \/ /\ Goto(t, "medium")
          /\ call' = [call EXCEPT ![t] = Call("medium", 0, 0, 0)]
    /\ UNCHANGED <<ioVars, slotVars, got, tries, back, faults, torn>>

(* The seek to the beginning serves to see that the descriptor is good.    *)
OpenFind(t) ==
    /\ pc[t] = "find"
    /\ tries[t] < MaxRetries
    /\ \/ /\ fd
          /\ at' = 0
          /\ tries' = [tries EXCEPT ![t] = 0]
          /\ Goto(t, "slot") /\ Touch(t)
          /\ UNCHANGED back
       \/ /\ ~fd
          /\ Retry(t, "find")
          /\ UNCHANGED <<at, torn>>
    /\ UNCHANGED <<fd, iso_opened, sema, slotVars, got, call, faults>>

OpenGiveUp(t) ==
    /\ pc[t] = "find"
    /\ tries[t] = MaxRetries
    /\ Return(t)
    /\ UNCHANGED <<ioVars, slotVars, back, faults>>

(* A thread that waits for the semaphore on behalf of its call.            *)
AtSlot(t, op) == pc[t] = "slot" /\ call[t].op = op /\ sema = Nobody

(* The first free slot, or SCE_EMFILE.                                     *)
OpenSlot(t) ==
    /\ AtSlot(t, "open")
    /\ \/ \E s \in Slots \ enabled :
            /\ \A u \in Slots \ enabled : s <= u
            /\ enabled' = enabled \cup {s}
            /\ offset' = [offset EXCEPT ![s] = 0]
            /\ mixed' = IF Overlap(t, s) THEN mixed \cup {s} ELSE mixed \ {s}
       \/ /\ Slots \subseteq enabled
          /\ UNCHANGED slotVars
    /\ Return(t)
    /\ UNCHANGED <<ioVars, back, faults>>

(* SCE_EINVAL if another call closed it meanwhile.                         *)
CloseSlot(t) ==
    /\ AtSlot(t, "close")
    /\ enabled' = enabled \ {call[t].slot}
    /\ Cross(t, call[t].slot)
    /\ Return(t)
    /\ UNCHANGED <<offset, ioVars, back, faults>>

(* Mutant: a seek past the end is not cut.                                 *)
LseekUncut(t) ==
    /\ AtSlot(t, "lseek")
    /\ \E to \in 0 .. Sectors + 1 : offset' = [offset EXCEPT ![call[t].slot] = to]
    /\ Cross(t, call[t].slot)
    /\ Return(t)
    /\ UNCHANGED <<enabled, ioVars, back, faults>>

(* Whatever the origin, the new position is cut at the end of the image.   *)
LseekSlot(t) ==
    /\ AtSlot(t, "lseek")
    /\ \E to \in 0 .. Sectors + 1 :
            offset' = [offset EXCEPT ![call[t].slot] = Smaller(to, Sectors)]
    /\ Cross(t, call[t].slot)
    /\ Return(t)
    /\ UNCHANGED <<enabled, ioVars, back, faults>>

(* IoRead() before and after isoReadUmdFile().                             *)
ReadSlot(t) ==
    /\ AtSlot(t, "read")
    /\ LET slot == call[t].slot IN
        \E len \in 1 .. MaxLen :
            call' = [call EXCEPT ![t] = Call("read", slot, offset[slot],
                                             Smaller(len, Left(offset[slot])))]
    /\ Cross(t, call[t].slot)
    /\ Goto(t, "lock")
    /\ UNCHANGED <<enabled, offset, ioVars, got, tries, back, faults, torn>>

ReadAdd(t) ==
    /\ pc[t] = "add" /\ sema = Nobody
    /\ offset' = [offset EXCEPT ![call[t].slot] = @ + got[t].n]
    /\ Cross(t, call[t].slot)
    /\ Return(t)
    /\ UNCHANGED <<enabled, ioVars, back, faults>>

(* sceUmdCheckMedium() polls.                                              *)
CheckMedium(t) ==
    /\ pc[t] = "medium"
    /\ iso_opened
    /\ Return(t)
    /\ UNCHANGED <<ioVars, slotVars, back, faults>>

-----------------------------------------------------------------------------
(* inferno_mount(), until the image is open, whoever opened it.  Then the  *)
(* sector with the name, which decides g_game_fix_type (not modelled).     *)
MountOpen ==
    /\ pc[Mount] = "mount"
    /\ ~iso_opened
    /\ back' = [back EXCEPT ![Mount] = "mount"]
    /\ Goto(Mount, "close")
    /\ UNCHANGED <<ioVars, slotVars, got, call, tries, faults, torn>>

MountName ==
    /\ pc[Mount] = "mount"
    /\ iso_opened
    /\ Goto(Mount, "seek")
    /\ UNCHANGED <<ioVars, slotVars, got, call, tries, back, faults, torn>>

MountDone ==
    /\ pc[Mount] = "unlock"
    /\ Return(Mount)
    /\ UNCHANGED <<ioVars, slotVars, back, faults>>

-----------------------------------------------------------------------------
(* The memory stick slept: descriptors are no longer good.  Not between the*)
(* open and the seeks of IsoSize, which would leave a wrong g_total_sectors*)
Lose ==
    /\ fd
    /\ faults < MaxFaults
    /\ \A t \in All : pc[t] # "size"
    /\ fd' = FALSE /\ at' = 0
    /\ faults' = faults + 1
    /\ UNCHANGED <<iso_opened, sema, slotVars, got, pc, call, tries, back, torn>>

(* The steps of a call under way, those that need the semaphore apart.     *)
IsoOpen(t) == IsoClose(t) \/ IsoReopen(t) \/ IsoSize(t)

ReadFile(t) ==
    \/ ReadSeek(t) \/ ReadRead(t) \/ ReadReseek(t) \/ ReadGiveUp(t) \/ ReadUnlock(t)

Locked(t) ==
    \/ ReadLock(t) \/ OpenSlot(t) \/ CloseSlot(t) \/ LseekSlot(t) \/ ReadSlot(t) \/ ReadAdd(t)

Step(t) ==
    IsoOpen(t) \/ ReadFile(t) \/ OpenFind(t) \/ OpenGiveUp(t) \/ CheckMedium(t)

Mounting == MountOpen \/ MountName \/ MountDone

Next ==
    \/ \E t \in All : Step(t)
    \/ \E t \in Threads : Begin(t) \/ Locked(t)
    \/ Mounting
    \/ Lose

Spec == Init /\ [][Next]_vars

(* Every thread runs, also one that polls.  The semaphore serves in the    *)
(* order of arrival, so that a thread which waits for it gets it.          *)
Fairness ==
    /\ \A t \in All : WF_vars(Step(t))
    /\ \A t \in Threads : SF_vars(Locked(t))
    /\ WF_vars(Mounting)

FairSpec == Spec /\ Fairness

-----------------------------------------------------------------------------
(* A read gives the sectors it was asked for, whatever other threads read  *)
(* or seek and however often the image was reopened in its middle, unless  *)
(* IoOpen() or infernoMount used the descriptor meanwhile.                 *)
ReadsRight ==
    \A t \in Threads \ torn :
        pc[t] \in {"unlock", "add"} /\ got[t].n > 0 =>
            got[t] = [from |-> call[t].from, n |-> call[t].n]

(* No handle is past the end of the image, and that of a read stays open   *)
(* and where the read started until the read moves it, unless two calls    *)
(* used the handle at once.                                                *)
HandlesKept ==
    /\ \A s \in Slots \ mixed : offset[s] <= Sectors
    /\ \A t \in Threads :
        call[t].op = "read" /\ call[t].slot \notin mixed =>
            /\ call[t].slot \in enabled
            /\ pc[t] # "slot" => offset[call[t].slot] = call[t].from

(* At most one thread is in iso_open(): two that each close what the other *)
(* opened could go on for ever.                                            *)
OneOpens == Cardinality({t \in All : pc[t] \in Opening}) <= 1

(* Every call returns, also with an error and whatever the memory stick    *)
(* did, but sceUmdCheckMedium() when the image could not be opened again.  *)
CallsReturn ==
    <>[]OneOpens =>
        \A t \in Threads :
            pc[t] # "idle" ~>
                \/ pc[t] = "idle"
                \/ pc[t] = "medium" /\ ~iso_opened

=============================================================================
