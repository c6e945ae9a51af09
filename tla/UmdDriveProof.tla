--------------------------- MODULE UmdDriveProof ----------------------------
(***************************************************************************)
(* What UmdDrive.tla guarantees for any number of threads, handles,        *)
(* sectors, retries and failures of the memory stick: reads and handles    *)
(* that nothing without the semaphore disturbed are right.                 *)
(***************************************************************************)
EXTENDS UmdDrive, TLAPS

(* t works on the descriptor under the semaphore: in the read itself, or in*)
(* an iso_open() it called.                                                *)
InSection(t) ==
    \/ pc[t] \in {"seek", "read", "reseek", "unlock"}
    \/ pc[t] \in Opening /\ back[t] \in {"seek", "reseek"}

(* Which call is where.                                                    *)
CallInOrder(t) ==
    /\ pc[t] # "mount" /\ call[t].op # "mount"
    /\ pc[t] = "find" => call[t].op = "open"
    /\ pc[t] = "slot" => call[t].op \in {"open", "close", "read", "lseek"}
    /\ pc[t] \in {"lock", "seek", "read", "reseek", "unlock"} => call[t].op \in {"read", "sectors"}
    /\ pc[t] = "add" => call[t].op = "read"
    /\ pc[t] \in Opening =>
        \/ back[t] = "find" /\ call[t].op = "open"
        \/ back[t] \in {"seek", "reseek"} /\ call[t].op \in {"read", "sectors"}
    /\ pc[t] \in {"idle", "medium"} => call[t].op # "read"
    /\ call[t].op \in {"close", "read", "lseek"} => call[t].slot \in Slots

(* A read stays within the image; it has something only at its end; and the*)
(* descriptor, if it is good, stands where the read wants it.              *)
ReadInOrder(t) ==
    /\ call[t].op \in {"read", "sectors"} /\ pc[t] # "slot" => call[t].n <= Left(call[t].from)
    /\ pc[t] \notin {"unlock", "add"} => got[t].n = 0
    /\ t \notin torn =>
        /\ pc[t] = "read" /\ fd => at = call[t].from
        /\ pc[t] \in {"unlock", "add"} /\ got[t].n > 0 =>
                got[t] = [from |-> call[t].from, n |-> call[t].n]

MountInOrder ==
    pc[Mount] # "idle" => call[Mount].op = "mount"

SlotInImage(s) == s \notin mixed => offset[s] <= Sectors

HandleHeld(t) ==
    call[t].op = "read" /\ call[t].slot \notin mixed =>
        /\ call[t].slot \in enabled
        /\ pc[t] # "slot" => offset[call[t].slot] = call[t].from

ThreadInOrder(t) ==
    /\ sema = t <=> InSection(t)
    /\ CallInOrder(t)
    /\ ReadInOrder(t)
    /\ HandleHeld(t)

UmdInv ==
    /\ TypeOK
    /\ MountInOrder
    /\ \A t \in Threads : ThreadInOrder(t)
    /\ \A s \in Slots : SlotInImage(s)

-----------------------------------------------------------------------------
LEMMA UmdInitInv == Init => UmdInv
<1> SUFFICES ASSUME Init
             PROVE  UmdInv
  OBVIOUS
<1> USE DriveAssumption DEF Init, Call, NoCall, MountCall, Nothing
<1>1. TypeOK
  <2>1. fd \in BOOLEAN /\ iso_opened \in BOOLEAN /\ sema \in Threads \cup {Nobody}
    OBVIOUS
  <2>7. at \in Nat /\ faults \in 0 .. MaxFaults
    OBVIOUS
  <2>6. enabled \subseteq Slots /\ offset \in [Slots -> Nat] /\ mixed \subseteq Slots
        /\ torn \subseteq Threads
    OBVIOUS
  <2>2. pc \in [All -> Places]
    BY DEF Places, Opening
  <2>3. call \in [All -> [op : Ops, slot : Nat, from : Nat, n : Nat]]
    BY DEF Ops
  <2>4. got \in [All -> Extent] /\ tries \in [All -> 0 .. MaxRetries]
    BY DEF Extent
  <2>5. back \in [All -> {"find", "seek", "reseek", "mount"}]
    OBVIOUS
  <2> QED
    BY <2>1, <2>2, <2>3, <2>4, <2>5, <2>6, <2>7 DEF TypeOK
<1>2. \A t \in Threads : pc[t] = "idle" /\ call[t] = NoCall /\ got[t] = Nothing
  BY DEF All
<1>3. MountInOrder
  BY DEF MountInOrder, All
<1>4. \A t \in Threads : (sema = t <=> InSection(t)) /\ CallInOrder(t)
  BY <1>2 DEF InSection, CallInOrder, Opening
<1>5. \A t \in Threads : ReadInOrder(t) /\ HandleHeld(t)
  BY <1>2 DEF ReadInOrder, HandleHeld
<1>6. \A s \in Slots : SlotInImage(s)
  BY DEF SlotInImage
<1> QED
  BY <1>1, <1>3, <1>4, <1>5, <1>6 DEF UmdInv, ThreadInOrder

(* Types, one action after the other.                                      *)
LEMMA ImageArithmetic ==
    ASSUME NEW a \in Nat, NEW b \in Nat
    PROVE  /\ Smaller(a, b) \in Nat /\ Smaller(a, b) <= a /\ Smaller(a, b) <= b
           /\ Left(a) \in Nat
           /\ b <= Left(a) /\ a <= Sectors => a + b <= Sectors
  BY DriveAssumption DEF Smaller, Left

LEMMA StepTypes ==
    ASSUME TypeOK, NEW t \in All
    PROVE  /\ \A place \in Places : Goto(t, place) => pc' \in [All -> Places]
           /\ Resume(t) => pc' \in [All -> Places]
                           /\ back' \in [All -> {"find", "seek", "reseek", "mount"}]
           /\ (tries[t] < MaxRetries /\ (Retry(t, "seek") \/ Retry(t, "reseek") \/ Retry(t, "find")))
                => /\ pc' \in [All -> Places]
                   /\ back' \in [All -> {"find", "seek", "reseek", "mount"}]
                   /\ tries' \in [All -> 0 .. MaxRetries]
           /\ Touch(t) => torn' \subseteq Threads
           /\ faults < MaxFaults => faults + 1 \in 0 .. MaxFaults
<1> USE DriveAssumption DEF TypeOK
<1>1. \A place \in Places : Goto(t, place) => pc' \in [All -> Places]
  BY DEF Goto
<1>2. back[t] \in Places
  BY DEF Places
<1>3. tries[t] < MaxRetries => tries[t] + 1 \in 0 .. MaxRetries
  OBVIOUS
<1>4. "close" \in Places
  BY DEF Places, Opening
<1>5. Touch(t) => torn' \subseteq Threads
  BY DEF Touch
<1>6. faults < MaxFaults => faults + 1 \in 0 .. MaxFaults
  OBVIOUS
<1>7. Resume(t) => back' \in [All -> {"find", "seek", "reseek", "mount"}]
  BY DEF Resume
<1>8. \A place \in {"seek", "reseek", "find"} :
        tries[t] < MaxRetries /\ Retry(t, place) =>
            /\ back' \in [All -> {"find", "seek", "reseek", "mount"}]
            /\ tries' \in [All -> 0 .. MaxRetries]
  BY <1>3 DEF Retry
<1> QED
  BY <1>1, <1>2, <1>4, <1>5, <1>6, <1>7, <1>8 DEF Resume, Retry

LEMMA IsoTypes ==
    ASSUME TypeOK, NEW t \in All, IsoOpen(t)
    PROVE  TypeOK'
<1> USE StepTypes DEF TypeOK, slotVars
<1>0. {"close", "reopen", "size"} \subseteq Places
  BY DEF Places, Opening
<1>1. CASE IsoClose(t)
  BY <1>0, <1>1 DEF IsoClose
<1>2. CASE IsoReopen(t)
  <2>1. CASE Goto(t, "size") /\ fd' = TRUE /\ UNCHANGED <<back, faults>>
    BY <1>0, <1>2, <2>1 DEF IsoReopen
  <2>2. CASE faults < MaxFaults /\ faults' = faults + 1 /\ fd' = FALSE /\ Resume(t)
    BY <1>2, <2>2 DEF IsoReopen
  <2> QED
    BY <1>2, <2>1, <2>2 DEF IsoReopen
<1>3. CASE IsoSize(t)
  <2>1. CASE iso_opened' = TRUE /\ at' = 0 /\ Resume(t)
    BY <1>3, <2>1 DEF IsoSize
  <2>2. CASE Goto(t, "close") /\ UNCHANGED <<iso_opened, at, back>>
    BY <1>0, <1>3, <2>2 DEF IsoSize
  <2> QED
    BY <1>3, <2>1, <2>2 DEF IsoSize
<1> QED
  BY <1>1, <1>2, <1>3 DEF IsoOpen

LEMMA ReturnTypes ==
    ASSUME TypeOK, NEW t \in All, Return(t)
    PROVE  /\ pc' \in [All -> Places]
           /\ call' \in [All -> [op : Ops, slot : Nat, from : Nat, n : Nat]]
           /\ got' \in [All -> Extent]
           /\ tries' \in [All -> 0 .. MaxRetries]
           /\ torn' \subseteq Threads
  BY DriveAssumption DEF TypeOK, Return, Goto, Places, NoCall, Call, Ops, Nothing, Extent

LEMMA ReadTypes ==
    ASSUME TypeOK, NEW t \in All, ReadFile(t)
    PROVE  TypeOK'
<1> USE StepTypes DEF TypeOK, ioVars, slotVars
<1>0. {"read", "unlock", "add"} \subseteq Places
  BY DEF Places
<1>1. CASE ReadSeek(t)
  <2>1. CASE /\ at' = call[t].from /\ tries' = [tries EXCEPT ![t] = 0]
             /\ Goto(t, "read") /\ Touch(t) /\ UNCHANGED back
    <3>1. tries' \in [All -> 0 .. MaxRetries]
      BY <2>1, DriveAssumption
    <3> QED
      BY <1>0, <1>1, <2>1, <3>1 DEF ReadSeek
  <2>2. CASE Retry(t, "seek") /\ UNCHANGED <<at, torn>>
    BY <1>1, <2>2 DEF ReadSeek
  <2> QED
    BY <1>1, <2>1, <2>2 DEF ReadSeek
<1>2. CASE ReadRead(t)
  <2>1. CASE fd
    <3>1. Smaller(call[t].n, Left(at)) \in Nat
      BY ImageArithmetic
    <3> DEFINE x == [from |-> at, n |-> Smaller(call[t].n, Left(at))]
    <3>2. x \in Extent
      BY <3>1 DEF Extent
    <3>3. got' = [got EXCEPT ![t] = x] /\ at' = at + got'[t].n
      BY <1>2, <2>1 DEF ReadRead
    <3> HIDE DEF x
    <3>4. got' \in [All -> Extent] /\ got'[t] = x
      BY <3>2, <3>3
    <3>5. at' \in Nat
      BY <3>2, <3>3, <3>4 DEF Extent
    <3> QED
      BY <1>0, <1>2, <2>1, <3>4, <3>5 DEF ReadRead
  <2>2. CASE ~ fd
    BY <1>2, <2>2 DEF ReadRead
  <2> QED
    BY <2>1, <2>2
<1>3. CASE ReadReseek(t)
  BY <1>0, <1>3 DEF ReadReseek
<1>4. CASE ReadGiveUp(t)
  BY <1>0, <1>4 DEF ReadGiveUp
<1>5. CASE ReadUnlock(t)
  <2>1. CASE Return(t)
    BY <1>5, <2>1, ReturnTypes DEF ReadUnlock
  <2>2. CASE Goto(t, "add") /\ UNCHANGED <<got, call, tries, torn>>
    BY <1>0, <1>5, <2>2 DEF ReadUnlock
  <2> QED
    BY <1>5, <2>1, <2>2 DEF ReadUnlock
<1> QED
  BY <1>1, <1>2, <1>3, <1>4, <1>5 DEF ReadFile

LEMMA OtherTypes ==
    ASSUME TypeOK, NEW t \in All, OpenFind(t) \/ OpenGiveUp(t) \/ CheckMedium(t)
    PROVE  TypeOK'
<1> USE DriveAssumption DEF TypeOK, ioVars, slotVars
<1>1. CASE OpenFind(t)
  <2>1. CASE /\ at' = 0 /\ tries' = [tries EXCEPT ![t] = 0]
             /\ Goto(t, "slot") /\ Touch(t) /\ UNCHANGED back
    <3>1. tries' \in [All -> 0 .. MaxRetries] /\ "slot" \in Places
      BY <2>1 DEF Places
    <3> QED
      BY <1>1, <2>1, <3>1, StepTypes DEF OpenFind
  <2>2. CASE Retry(t, "find") /\ UNCHANGED <<at, torn>>
    BY <1>1, <2>2, StepTypes DEF OpenFind
  <2> QED
    BY <1>1, <2>1, <2>2 DEF OpenFind
<1>2. CASE OpenGiveUp(t)
  BY <1>2, ReturnTypes DEF OpenGiveUp
<1>3. CASE CheckMedium(t)
  BY <1>3, ReturnTypes DEF CheckMedium
<1> QED
  BY <1>1, <1>2, <1>3

LEMMA BeginTypes ==
    ASSUME TypeOK, NEW t \in Threads, Begin(t)
    PROVE  TypeOK'
<1> USE DriveAssumption DEF TypeOK, ioVars, slotVars, All, Goto, Places, Call, Ops
<1>1. PICK p \in Places, c \in [op : Ops, slot : Nat, from : Nat, n : Nat] :
        Goto(t, p) /\ call' = [call EXCEPT ![t] = c]
  BY DEF Begin
<1> QED
  BY <1>1 DEF Begin

LEMMA LockedTypes ==
    ASSUME TypeOK, NEW t \in Threads, CallInOrder(t), Locked(t)
    PROVE  TypeOK'
<1> USE DriveAssumption DEF TypeOK, ioVars, slotVars, All, AtSlot
<1>1. CASE ReadLock(t)
  BY <1>1 DEF ReadLock, Goto, Places
<1>2. CASE OpenSlot(t)
  <2>1. enabled' \subseteq Slots /\ offset' \in [Slots -> Nat] /\ mixed' \subseteq Slots
    <3>1. CASE UNCHANGED slotVars
      BY <3>1
    <3>2. ASSUME NEW s \in Slots \ enabled,
                 enabled' = enabled \cup {s}, offset' = [offset EXCEPT ![s] = 0],
                 mixed' = IF Overlap(t, s) THEN mixed \cup {s} ELSE mixed \ {s}
          PROVE  enabled' \subseteq Slots /\ offset' \in [Slots -> Nat] /\ mixed' \subseteq Slots
      BY <3>2
    <3> QED
      BY <1>2, <3>1, <3>2 DEF OpenSlot
  <2> QED
    BY <1>2, <2>1, ReturnTypes DEF OpenSlot
<1>3. CASE CloseSlot(t)
  BY <1>3, ReturnTypes DEF CloseSlot, Cross, CallInOrder
<1>4. CASE LseekSlot(t)
  <2>1. \A to \in Nat : Smaller(to, Sectors) \in Nat
    BY ImageArithmetic
  <2>2. PICK to \in 0 .. Sectors + 1 : offset' = [offset EXCEPT ![call[t].slot] = Smaller(to, Sectors)]
    BY <1>4 DEF LseekSlot
  <2>3. Smaller(to, Sectors) \in Nat
    BY <2>1
  <2>4. offset' \in [Slots -> Nat]
    BY <2>2, <2>3
  <2> QED
    BY <1>4, <2>4, ReturnTypes DEF LseekSlot, Cross, CallInOrder
<1>5. CASE ReadAdd(t)
  <2>1. call[t].slot \in Slots /\ got[t].n \in Nat
    BY <1>5 DEF ReadAdd, CallInOrder, Extent
  <2>2. offset[call[t].slot] + got[t].n \in Nat
    BY <2>1
  <2>3. offset' \in [Slots -> Nat]
    BY <1>5, <2>2 DEF ReadAdd
  <2> QED
    BY <1>5, <2>1, <2>3, ReturnTypes DEF ReadAdd, Cross
<1>6. CASE ReadSlot(t)
  <2>1. call[t].slot \in Slots /\ call[t].slot \in Nat
    BY <1>6 DEF ReadSlot, CallInOrder
  <2>2. offset[call[t].slot] \in Nat
    BY <2>1
  <2>3. \A len \in Nat : Smaller(len, Left(offset[call[t].slot])) \in Nat
    BY <2>2, ImageArithmetic
  <2>4. call' \in [All -> [op : Ops, slot : Nat, from : Nat, n : Nat]]
    BY <1>6, <2>1, <2>2, <2>3 DEF ReadSlot, Call, Ops
  <2> QED
    BY <1>6, <2>1, <2>4 DEF ReadSlot, Cross, Goto, Places
<1> QED
  BY <1>1, <1>2, <1>3, <1>4, <1>5, <1>6 DEF Locked

LEMMA RestTypes ==
    ASSUME TypeOK, Mounting \/ Lose
    PROVE  TypeOK'
<1> USE DriveAssumption DEF TypeOK, ioVars, slotVars
<1>0. Mount \in All
  BY DEF All
<1>1. CASE MountOpen \/ MountName
  BY <1>0, <1>1 DEF MountOpen, MountName, Goto, Places, Opening
<1>2. CASE MountDone
  BY <1>0, <1>2, ReturnTypes DEF MountDone
<1>3. CASE Lose
  <2>1. faults' \in 0 .. MaxFaults
    BY <1>3, StepTypes, <1>0 DEF Lose
  <2> QED
    BY <1>3, <2>1 DEF Lose
<1> QED
  BY <1>1, <1>2, <1>3 DEF Mounting

LEMMA UmdTypesKept ==
    ASSUME TypeOK, \A t \in Threads : CallInOrder(t), [Next]_vars
    PROVE  TypeOK'
<1>1. CASE UNCHANGED vars
  BY <1>1 DEF vars, ioVars, slotVars, TypeOK
<1> QED
  BY <1>1, IsoTypes, ReadTypes, OtherTypes, BeginTypes, LockedTypes, RestTypes DEF Next, Step

-----------------------------------------------------------------------------
(* A thread that does nothing stays in order as long as nobody moves the   *)
(* descriptor under its read or works on the handle it reads from.         *)
LEMMA OthersInOrder ==
    ASSUME UmdInv, NEW u \in Threads,
           pc'[u] = pc[u], call'[u] = call[u], got'[u] = got[u], back'[u] = back[u],
           sema' = u <=> sema = u,
           u \notin torn' => u \notin torn,
           sema = u /\ fd' /\ u \notin torn' => fd /\ at' = at,
           call[u].op = "read" /\ call[u].slot \notin mixed' =>
               /\ call[u].slot \notin mixed
               /\ call[u].slot \in enabled => call[u].slot \in enabled'
               /\ offset'[call[u].slot] = offset[call[u].slot]
    PROVE  ThreadInOrder(u)'
<1> USE DEF UmdInv, ThreadInOrder
<1>1. (sema = u <=> InSection(u))'
  BY DEF InSection
<1>2. CallInOrder(u)'
  BY DEF CallInOrder
<1>3. ReadInOrder(u)'
  BY DEF ReadInOrder, InSection
<1>4. HandleHeld(u)'
  BY DEF HandleHeld
<1> QED
  BY <1>1, <1>2, <1>3, <1>4

(* A thread whose call has returned is in order.                           *)
LEMMA ReturnedInOrder ==
    ASSUME UmdInv, NEW t \in Threads, Return(t), sema' # t
    PROVE  ThreadInOrder(t)'
<1>1. pc'[t] = "idle" /\ call'[t] = NoCall /\ got'[t] = Nothing
  BY DEF UmdInv, TypeOK, Return, Goto, All
<1> QED
  BY <1>1 DEF ThreadInOrder, InSection, Opening, CallInOrder, ReadInOrder, HandleHeld,
              NoCall, Call, Nothing

(* Only the thread with the semaphore and those that do without it use the *)
(* descriptor, and the latter tear the read of the former.                 *)
LEMMA DescriptorInOrder ==
    ASSUME UmdInv, NEW t \in All, NEW u \in Threads, u # t,
           pc[t] \in Opening \cup {"seek", "read", "reseek", "find"},
           UNCHANGED <<sema, slotVars, call>>,
           pc'[u] = pc[u], got'[u] = got[u], back'[u] = back[u],
           Touch(t) \/ UNCHANGED <<fd, at, torn>>
    PROVE  ThreadInOrder(u)'
<1> USE DEF UmdInv
<1>1. Touch(t) /\ sema = u => u \in torn'
  <2> SUFFICES ASSUME Touch(t), sema = u
               PROVE  u \in torn'
    OBVIOUS
  <2>1. call[t].op \in {"open", "mount"}
    <3>1. CASE t = Mount
      BY <3>1 DEF MountInOrder, Opening
    <3>2. CASE t \in Threads
      BY <3>2 DEF ThreadInOrder, InSection, CallInOrder, Opening
    <3> QED
      BY <3>1, <3>2 DEF All
  <2> QED
    BY <2>1, DriveAssumption DEF Touch
<1>2. u \notin torn' => u \notin torn
  BY DEF Touch
<1>3. sema = u /\ fd' /\ u \notin torn' => fd /\ at' = at
  BY <1>1
<1> QED
  BY <1>2, <1>3, OthersInOrder DEF slotVars

-----------------------------------------------------------------------------
(* The steps on the descriptor.                                            *)
DescriptorStep(t) ==
    \/ IsoOpen(t) \/ ReadSeek(t) \/ ReadRead(t) \/ ReadReseek(t) \/ OpenFind(t)

LEMMA DescriptorOthers ==
    ASSUME UmdInv, NEW t \in All, DescriptorStep(t)
    PROVE  /\ \A u \in Threads \ {t} : ThreadInOrder(u)'
           /\ MountInOrder'
           /\ \A s \in Slots : SlotInImage(s)'
<1>1. /\ pc[t] \in Opening \cup {"seek", "read", "reseek", "find"}
      /\ UNCHANGED <<sema, slotVars, call>>
      /\ Touch(t) \/ UNCHANGED <<fd, at, torn>>
  BY DEF DescriptorStep, IsoOpen, IsoClose, IsoReopen, IsoSize, ReadSeek, ReadRead, ReadReseek,
         OpenFind, Opening, ioVars
<1>2. /\ \E p : pc' = [pc EXCEPT ![t] = p]
      /\ UNCHANGED got \/ \E g : got' = [got EXCEPT ![t] = g]
      /\ UNCHANGED back \/ \E b : back' = [back EXCEPT ![t] = b]
  BY DEF DescriptorStep, IsoOpen, IsoClose, IsoReopen, IsoSize, ReadSeek, ReadRead, ReadReseek,
         OpenFind, Goto, Retry, Resume
<1>3. \A u \in All \ {t} : pc'[u] = pc[u] /\ got'[u] = got[u] /\ back'[u] = back[u]
  BY <1>2 DEF UmdInv, TypeOK
<1>4. \A u \in Threads \ {t} : ThreadInOrder(u)'
  BY <1>1, <1>3, DescriptorInOrder DEF All
<1>5. MountInOrder'
  <2>1. pc[t] # "idle"
    BY <1>1 DEF Opening
  <2> QED
    BY <1>1, <1>3, <2>1 DEF UmdInv, MountInOrder, All
<1>6. \A s \in Slots : SlotInImage(s)'
  BY <1>1 DEF UmdInv, SlotInImage, slotVars
<1> QED
  BY <1>4, <1>5, <1>6

(* A loop that calls iso_open() is in order, and so is iso_open() when it *)
(* comes back.                                                            *)
LEMMA RetryInOrder ==
    ASSUME UmdInv, NEW t \in Threads, NEW place \in {"find", "seek", "reseek"}, Retry(t, place),
           \/ place = "find" /\ pc[t] = "find"
           \/ place # "find" /\ pc[t] \in {"seek", "read"},
           UNCHANGED <<sema, slotVars, call, got, torn>>
    PROVE  ThreadInOrder(t)'
<1>1. pc'[t] = "close" /\ back'[t] = place
  BY DEF UmdInv, TypeOK, Retry, Goto, All
<1>2. ThreadInOrder(t)
  BY DEF UmdInv
<1> QED
  BY <1>1, <1>2 DEF ThreadInOrder, InSection, CallInOrder, ReadInOrder, HandleHeld, Opening,
                    slotVars

LEMMA IsoInOrder ==
    ASSUME UmdInv, NEW t \in Threads, IsoOpen(t)
    PROVE  ThreadInOrder(t)'
<1>1. ThreadInOrder(t) /\ t \in All
  BY DEF UmdInv, All
<1>2. pc[t] \in Opening /\ UNCHANGED <<sema, slotVars, call, got>>
  BY DEF IsoOpen, IsoClose, IsoReopen, IsoSize, Opening
<1>3. CASE Resume(t)
  <2>1. pc'[t] = back[t]
    BY <1>1, <1>3 DEF UmdInv, TypeOK, Resume, Goto
  <2> QED
    BY <1>1, <1>2, <2>1 DEF ThreadInOrder, InSection, CallInOrder, ReadInOrder, HandleHeld,
                                  Opening, slotVars
<1>4. CASE UNCHANGED back /\ \E place \in Opening : Goto(t, place)
  <2>1. pc'[t] \in Opening /\ back'[t] = back[t]
    BY <1>1, <1>4 DEF UmdInv, TypeOK, Goto
  <2> QED
    BY <1>1, <1>2, <2>1 DEF ThreadInOrder, InSection, CallInOrder, ReadInOrder, HandleHeld,
                            Opening, slotVars
<1>5. Resume(t) \/ (UNCHANGED back /\ \E place \in Opening : Goto(t, place))
  BY DEF IsoOpen, IsoClose, IsoReopen, IsoSize, Opening
<1> QED
  BY <1>3, <1>4, <1>5

LEMMA ReadInOrderKept ==
    ASSUME UmdInv, NEW t \in Threads,
           ReadSeek(t) \/ ReadRead(t) \/ ReadReseek(t) \/ ReadGiveUp(t) \/ OpenFind(t)
    PROVE  ThreadInOrder(t)'
<1>1. ThreadInOrder(t) /\ t \in All
  BY DEF UmdInv, All
<1> USE DEF ThreadInOrder, InSection, CallInOrder, HandleHeld, Opening, slotVars, ioVars
<1>2. ASSUME NEW place \in {"seek", "reseek", "find"}, Retry(t, place),
             UNCHANGED got, UNCHANGED torn, UNCHANGED <<sema, slotVars, call>>,
             \/ place = "find" /\ pc[t] = "find"
             \/ place # "find" /\ pc[t] \in {"seek", "read"}
      PROVE  ThreadInOrder(t)'
  BY <1>2, RetryInOrder
<1>3. CASE ReadSeek(t)
  <2>1. CASE Retry(t, "seek") /\ UNCHANGED torn
    BY <1>2, <1>3, <2>1 DEF ReadSeek
  <2>2. CASE fd /\ at' = call[t].from /\ Goto(t, "read") /\ Touch(t)
    <3>1. pc'[t] = "read"
      BY <1>1, <2>2 DEF UmdInv, TypeOK, Goto
    <3> QED
      BY <1>1, <1>3, <2>2, <3>1 DEF ReadSeek, ReadInOrder
  <2> QED
    BY <1>3, <2>1, <2>2 DEF ReadSeek
<1>4. CASE ReadRead(t)
  <2>1. CASE Retry(t, "reseek") /\ UNCHANGED torn /\ UNCHANGED got
    BY <1>2, <1>4, <2>1 DEF ReadRead
  <2>2. CASE /\ fd /\ Goto(t, "unlock") /\ Touch(t)
             /\ got' = [got EXCEPT ![t] = [from |-> at, n |-> Smaller(call[t].n, Left(at))]]
    <3>1. pc'[t] = "unlock" /\ got'[t] = [from |-> at, n |-> Smaller(call[t].n, Left(at))]
      BY <1>1, <2>2 DEF UmdInv, TypeOK, Goto
    <3>2. torn' = torn /\ call[t].n <= Left(call[t].from)
      BY <1>1, <1>4, <2>2 DEF ReadRead, Touch, ReadInOrder
    <3>3. t \notin torn' => got'[t] = [from |-> call[t].from, n |-> call[t].n]
      <4> SUFFICES ASSUME t \notin torn'
                   PROVE  Smaller(call[t].n, Left(at)) = call[t].n /\ at = call[t].from
        BY <3>1
      <4>1. at = call[t].from
        BY <1>1, <1>4, <2>2, <3>2 DEF ReadRead, ReadInOrder
      <4>2. call[t].n \in Nat /\ Left(call[t].from) \in Nat
        BY <1>1, ImageArithmetic DEF UmdInv, TypeOK
      <4> QED
        BY <3>2, <4>1, <4>2 DEF Smaller
    <3>4. UNCHANGED <<sema, slotVars, call>> /\ pc[t] = "read"
      BY <1>4 DEF ReadRead
    <3>5. ReadInOrder(t)'
      BY <1>1, <3>1, <3>2, <3>3, <3>4 DEF ReadInOrder, Left
    <3> QED
      BY <1>1, <3>1, <3>4, <3>5
  <2> QED
    BY <1>4, <2>1, <2>2 DEF ReadRead
<1>5. CASE ReadReseek(t)
  <2>1. pc'[t] = "read"
    BY <1>1, <1>5 DEF UmdInv, TypeOK, ReadReseek, Goto
  <2> QED
    BY <1>1, <1>5, <2>1 DEF ReadReseek, ReadInOrder
<1>6. CASE ReadGiveUp(t)
  <2>1. pc'[t] = "unlock"
    BY <1>1, <1>6 DEF UmdInv, TypeOK, ReadGiveUp, Goto
  <2> QED
    BY <1>1, <1>6, <2>1 DEF ReadGiveUp, ReadInOrder
<1>7. CASE OpenFind(t)
  <2>1. CASE Retry(t, "find") /\ UNCHANGED torn
    BY <1>2, <1>7, <2>1 DEF OpenFind
  <2>2. CASE Goto(t, "slot")
    <3>1. pc'[t] = "slot"
      BY <1>1, <2>2 DEF UmdInv, TypeOK, Goto
    <3> QED
      BY <1>1, <1>7, <3>1 DEF OpenFind, ReadInOrder
  <2> QED
    BY <1>7, <2>1, <2>2 DEF OpenFind
<1> QED
  BY <1>3, <1>4, <1>5, <1>6, <1>7

-----------------------------------------------------------------------------
(* Steps that leave the descriptor alone.                                  *)
InOrder ==
    /\ MountInOrder
    /\ \A u \in Threads : ThreadInOrder(u)
    /\ \A s \in Slots : SlotInImage(s)

(* What the others see of a step that leaves the handles alone too.        *)
LEMMA QuietInOrder ==
    ASSUME UmdInv, NEW t \in Threads, UNCHANGED <<fd, at, slotVars>>,
           \A u \in All \ {t} : /\ pc'[u] = pc[u] /\ call'[u] = call[u]
                                /\ got'[u] = got[u] /\ back'[u] = back[u],
           \A u \in Threads \ {t} : sema' = u <=> sema = u,
           torn' = torn \/ torn' = torn \ {t},
           ThreadInOrder(t)'
    PROVE  InOrder'
<1>1. \A u \in Threads \ {t} : ThreadInOrder(u)'
  BY OthersInOrder DEF slotVars, All
<1>2. MountInOrder'
  BY DriveAssumption DEF UmdInv, MountInOrder, All
<1>3. \A s \in Slots : SlotInImage(s)'
  BY DEF UmdInv, SlotInImage, slotVars
<1> QED
  BY <1>1, <1>2, <1>3 DEF InOrder

LEMMA QuietSteps ==
    ASSUME UmdInv, NEW t \in Threads,
           \/ Begin(t) \/ ReadLock(t) \/ ReadUnlock(t)
           \/ ReadGiveUp(t) \/ OpenGiveUp(t) \/ CheckMedium(t)
    PROVE  InOrder'
<1>1. ThreadInOrder(t) /\ t \in All /\ t # Nobody
  BY DriveAssumption DEF UmdInv, All
<1>2. UNCHANGED <<fd, at, slotVars>> /\ (torn' = torn \/ torn' = torn \ {t})
  BY DEF Begin, ReadLock, ReadUnlock, ReadGiveUp, OpenGiveUp, CheckMedium, Return, ioVars
<1>3. \A u \in All \ {t} : /\ pc'[u] = pc[u] /\ call'[u] = call[u]
                           /\ got'[u] = got[u] /\ back'[u] = back[u]
  BY DEF UmdInv, TypeOK, Begin, ReadLock, ReadUnlock, ReadGiveUp, OpenGiveUp, CheckMedium, Return,
         Goto
<1>4. \A u \in Threads \ {t} : sema' = u <=> sema = u
  BY <1>1, DriveAssumption DEF Begin, ReadLock, ReadUnlock, ReadGiveUp, OpenGiveUp, CheckMedium,
         ioVars, ThreadInOrder, InSection
<1>5. ThreadInOrder(t)'
  <2>1. CASE Begin(t)
    <3>1. got'[t].n = 0
      BY <1>1, <2>1 DEF Begin, ReadInOrder, ThreadInOrder
    <3>2. sema' # t /\ UNCHANGED slotVars
      BY <1>1, <2>1 DEF Begin, ThreadInOrder, InSection, Opening, ioVars
    <3>3. ASSUME NEW p \in {"find", "slot", "lock", "medium"}, NEW op, NEW slot, NEW from, NEW n,
                 Goto(t, p), call' = [call EXCEPT ![t] = Call(op, slot, from, n)]
          PROVE  /\ pc'[t] = p /\ call'[t].op = op /\ call'[t].slot = slot
                 /\ call'[t].from = from /\ call'[t].n = n
      BY <1>1, <3>3 DEF UmdInv, TypeOK, Goto, Call
    <3> USE <3>1, <3>2, <3>3 DEF ThreadInOrder, InSection, Opening, CallInOrder, ReadInOrder,
                                 HandleHeld
    <3>4. CASE /\ Goto(t, "find")
               /\ call' = [call EXCEPT ![t] = Call("open", 0, 0, 0)]
      <4>1. pc'[t] = "find" /\ call'[t].op = "open"
        BY <3>4
      <4> QED
        BY <4>1
    <3>5. CASE \E op \in {"close", "read", "lseek"}, s \in enabled :
                  Goto(t, "slot") /\ call' = [call EXCEPT ![t] = Call(op, s, 0, 0)]
      <4>0. PICK op \in {"close", "read", "lseek"}, s \in enabled :
                  Goto(t, "slot") /\ call' = [call EXCEPT ![t] = Call(op, s, 0, 0)]
        BY <3>5
      <4>1. pc'[t] = "slot" /\ call'[t].op = op /\ call'[t].slot = s
        BY <1>1, <4>0 DEF UmdInv, TypeOK, Goto, Call
      <4>2. enabled' = enabled /\ enabled \subseteq Slots
        BY <3>2 DEF UmdInv, TypeOK, slotVars
      <4> QED
        BY <4>0, <4>1, <4>2
    <3>6. CASE \E x \in Directly :
                  Goto(t, "lock") /\ call' = [call EXCEPT ![t] = Call("sectors", 0, x, 1)]
      <4>1. PICK x \in Directly :
                  Goto(t, "lock") /\ call' = [call EXCEPT ![t] = Call("sectors", 0, x, 1)]
        BY <3>6
      <4>2. pc'[t] = "lock" /\ call'[t].op = "sectors" /\ call'[t].from = x /\ call'[t].n = 1
        BY <4>1
      <4>3. 1 <= Left(x)
        BY DriveAssumption DEF Left
      <4> QED
        BY <4>2, <4>3 DEF Left
    <3>7. CASE /\ Goto(t, "medium")
               /\ call' = [call EXCEPT ![t] = Call("medium", 0, 0, 0)]
      <4>1. pc'[t] = "medium" /\ call'[t].op = "medium"
        BY <3>7
      <4> QED
        BY <4>1
    <3> QED
      BY <2>1, <3>4, <3>5, <3>6, <3>7 DEF Begin
  <2>2. CASE ReadLock(t)
    <3>1. pc'[t] = "seek"
      BY <1>1, <2>2 DEF UmdInv, TypeOK, ReadLock, Goto
    <3> QED
      BY <1>1, <2>2, <3>1 DEF ReadLock, ThreadInOrder, InSection, Opening, CallInOrder, ReadInOrder,
                              HandleHeld, slotVars
  <2>3. CASE ReadUnlock(t)
    <3>1. CASE Return(t)
      BY <1>1, <2>3, <3>1, ReturnedInOrder DEF ReadUnlock
    <3>2. CASE call[t].op = "read" /\ Goto(t, "add") /\ UNCHANGED <<got, call, tries, torn>>
      <4>1. pc'[t] = "add"
        BY <1>1, <3>2 DEF UmdInv, TypeOK, Goto
      <4> QED
        BY <1>1, <2>3, <3>2, <4>1 DEF ReadUnlock, ThreadInOrder, InSection, Opening, CallInOrder,
                                      ReadInOrder, HandleHeld, slotVars
    <3> QED
      BY <2>3, <3>1, <3>2 DEF ReadUnlock
  <2>4. CASE OpenGiveUp(t) \/ CheckMedium(t)
    <3>1. sema' # t /\ Return(t)
      BY <1>1, <2>4 DEF OpenGiveUp, CheckMedium, ThreadInOrder, InSection, Opening, ioVars
    <3> QED
      BY <3>1, ReturnedInOrder
  <2>5. CASE ReadGiveUp(t)
    BY <2>5, ReadInOrderKept
  <2> QED
    BY <2>1, <2>2, <2>3, <2>4, <2>5
<1> QED
  BY <1>2, <1>3, <1>4, <1>5, QuietInOrder

-----------------------------------------------------------------------------
(* The steps on the slots.  What another thread reads from is mixed after  *)
(* them, or left alone.                                                    *)
LEMMA SlotsInOrder ==
    ASSUME UmdInv, NEW t \in Threads, NEW s \in Slots, UNCHANGED ioVars,
           \A u \in All \ {t} : /\ pc'[u] = pc[u] /\ call'[u] = call[u]
                                /\ got'[u] = got[u] /\ back'[u] = back[u],
           torn' = torn \/ torn' = torn \ {t},
           Overlap(t, s) => s \in mixed',
           \A r \in Slots \ {s} : /\ r \in mixed' <=> r \in mixed
                                  /\ r \in enabled' <=> r \in enabled
                                  /\ offset'[r] = offset[r],
           s \notin mixed' => offset'[s] <= Sectors,
           ThreadInOrder(t)'
    PROVE  InOrder'
<1>1. \A u \in Threads \ {t} : ThreadInOrder(u)'
  <2> SUFFICES ASSUME NEW u \in Threads \ {t}
               PROVE  ThreadInOrder(u)'
    OBVIOUS
  <2>1. call[u].op = "read" => call[u].slot \in Slots
    BY DEF UmdInv, ThreadInOrder, CallInOrder
  <2>2. call[u].op = "read" /\ call[u].slot = s => s \in mixed'
    BY DEF Overlap
  <2> QED
    BY <2>1, <2>2, OthersInOrder DEF ioVars, All
<1>2. MountInOrder'
  BY DriveAssumption DEF UmdInv, MountInOrder, All
<1>3. \A r \in Slots : SlotInImage(r)'
  BY DEF UmdInv, SlotInImage
<1> QED
  BY <1>1, <1>2, <1>3 DEF InOrder

LEMMA SlotSteps ==
    ASSUME UmdInv, NEW t \in Threads,
           OpenSlot(t) \/ CloseSlot(t) \/ LseekSlot(t) \/ ReadSlot(t) \/ ReadAdd(t)
    PROVE  InOrder'
<1>1. ThreadInOrder(t) /\ t \in All /\ t # Nobody
  BY DriveAssumption DEF UmdInv, All
<1>2. UNCHANGED ioVars /\ (torn' = torn \/ torn' = torn \ {t})
  BY DEF OpenSlot, CloseSlot, LseekSlot, ReadSlot, ReadAdd, Return
<1>3. \A u \in All \ {t} : /\ pc'[u] = pc[u] /\ call'[u] = call[u]
                           /\ got'[u] = got[u] /\ back'[u] = back[u]
  BY DEF UmdInv, TypeOK, OpenSlot, CloseSlot, LseekSlot, ReadSlot, ReadAdd, Return, Goto
<1>4. sema' # t
  BY <1>1, <1>2 DEF OpenSlot, CloseSlot, LseekSlot, ReadSlot, ReadAdd, AtSlot, ioVars
<1>5. CASE OpenSlot(t)
  <2>1. ThreadInOrder(t)'
    BY <1>4, <1>5, ReturnedInOrder DEF OpenSlot
  <2>2. CASE UNCHANGED slotVars
    BY <1>2, <1>3, <1>4, <1>5, <2>1, <2>2, QuietInOrder DEF ioVars
  <2>3. ASSUME NEW s \in Slots \ enabled,
               enabled' = enabled \cup {s}, offset' = [offset EXCEPT ![s] = 0],
               mixed' = IF Overlap(t, s) THEN mixed \cup {s} ELSE mixed \ {s}
        PROVE  InOrder'
    <3>1. offset'[s] <= Sectors /\ \A r \in Slots \ {s} : offset'[r] = offset[r]
      BY <2>3, DriveAssumption DEF UmdInv, TypeOK
    <3> QED
      BY <1>2, <1>3, <2>1, <2>3, <3>1, SlotsInOrder
  <2> QED
    BY <1>5, <2>2, <2>3 DEF OpenSlot
<1>6. CASE CloseSlot(t)
  <2>1. ThreadInOrder(t)'
    BY <1>4, <1>6, ReturnedInOrder DEF CloseSlot
  <2> DEFINE s == call[t].slot
  <2>2. s \in Slots
    BY <1>1, <1>6 DEF CloseSlot, AtSlot, ThreadInOrder, CallInOrder
  <2>3. s \notin mixed' => offset'[s] <= Sectors
    BY <1>6, <2>2 DEF CloseSlot, Cross, UmdInv, SlotInImage
  <2>4. /\ Overlap(t, s) => s \in mixed'
        /\ \A r \in Slots \ {s} : /\ r \in mixed' <=> r \in mixed
                                  /\ r \in enabled' <=> r \in enabled
                                  /\ offset'[r] = offset[r]
    BY <1>6 DEF CloseSlot, Cross
  <2> QED
    BY <1>2, <1>3, <2>1, <2>2, <2>3, <2>4, SlotsInOrder
<1>7. CASE LseekSlot(t)
  <2>1. ThreadInOrder(t)'
    BY <1>4, <1>7, ReturnedInOrder DEF LseekSlot
  <2> DEFINE s == call[t].slot
  <2>2. s \in Slots
    BY <1>1, <1>7 DEF LseekSlot, AtSlot, ThreadInOrder, CallInOrder
  <2>3. PICK to \in 0 .. Sectors + 1 : offset' = [offset EXCEPT ![s] = Smaller(to, Sectors)]
    BY <1>7 DEF LseekSlot
  <2>4. Smaller(to, Sectors) <= Sectors
    BY ImageArithmetic, DriveAssumption
  <2>5. offset'[s] <= Sectors /\ \A r \in Slots \ {s} : offset'[r] = offset[r]
    BY <2>2, <2>3, <2>4 DEF UmdInv, TypeOK
  <2>6. /\ Overlap(t, s) => s \in mixed'
        /\ \A r \in Slots \ {s} : (r \in mixed' <=> r \in mixed) /\ enabled' = enabled
    BY <1>7 DEF LseekSlot, Cross
  <2> QED
    BY <1>2, <1>3, <2>1, <2>2, <2>5, <2>6, SlotsInOrder
<1>8. CASE ReadSlot(t)
  <2> DEFINE s == call[t].slot
  <2>1. s \in Slots /\ call[t].op = "read" /\ pc'[t] = "lock"
    BY <1>1, <1>8 DEF ReadSlot, AtSlot, ThreadInOrder, CallInOrder, UmdInv, TypeOK, Goto
  <2>2. PICK len \in 1 .. MaxLen :
            call' = [call EXCEPT ![t] = Call("read", s, offset[s], Smaller(len, Left(offset[s])))]
    BY <1>8 DEF ReadSlot
  <2>3. /\ call'[t].op = "read" /\ call'[t].slot = s /\ call'[t].from = offset[s]
        /\ call'[t].n = Smaller(len, Left(offset[s]))
    BY <1>1, <2>2 DEF Call, UmdInv, TypeOK
  <2>4. offset[s] \in Nat /\ len \in Nat /\ Left(offset[s]) \in Nat
    <3>1. offset[s] \in Nat
      BY <2>1 DEF UmdInv, TypeOK
    <3>2. Left(offset[s]) \in Nat
      BY <3>1, ImageArithmetic
    <3>3. len \in Nat
      BY DriveAssumption
    <3> QED
      BY <3>1, <3>2, <3>3
  <2>5. call'[t].n <= Left(offset[s])
    BY <2>3, <2>4 DEF Smaller
  <2>6. UNCHANGED <<enabled, offset, got>> /\ mixed \subseteq mixed'
    BY <1>8 DEF ReadSlot, Cross
  <2>7. pc[t] = "slot" /\ got[t].n = 0
    BY <1>1, <1>8 DEF ReadSlot, AtSlot, ThreadInOrder, ReadInOrder
  <2>8. (sema = t <=> InSection(t))' /\ CallInOrder(t)'
    BY <1>4, <2>1, <2>3 DEF InSection, CallInOrder, Opening
  <2>9. ReadInOrder(t)'
    BY <2>1, <2>3, <2>5, <2>6, <2>7 DEF ReadInOrder, Left
  <2>10. HandleHeld(t)'
    BY <1>1, <2>1, <2>3, <2>6, <2>7 DEF HandleHeld, ThreadInOrder
  <2>11. /\ Overlap(t, s) => s \in mixed'
         /\ \A r \in Slots \ {s} : r \in mixed' <=> r \in mixed
    BY <1>8 DEF ReadSlot, Cross
  <2>12. s \notin mixed' => offset'[s] <= Sectors
    BY <2>1, <2>6 DEF UmdInv, SlotInImage
  <2> QED
    BY <1>2, <1>3, <2>1, <2>6, <2>8, <2>9, <2>10, <2>11, <2>12, SlotsInOrder DEF ThreadInOrder
<1>9. CASE ReadAdd(t)
  <2>1. ThreadInOrder(t)'
    BY <1>4, <1>9, ReturnedInOrder DEF ReadAdd
  <2> DEFINE s == call[t].slot
  <2>2. s \in Slots /\ call[t].op = "read" /\ pc[t] = "add"
    BY <1>1, <1>9 DEF ReadAdd, ThreadInOrder, CallInOrder
  <2>3. /\ offset'[s] = offset[s] + got[t].n
        /\ \A r \in Slots \ {s} : offset'[r] = offset[r]
    BY <1>9, <2>2 DEF ReadAdd, UmdInv, TypeOK
  <2>4. s \notin mixed' => offset'[s] <= Sectors
    <3> SUFFICES ASSUME s \notin mixed'
                 PROVE  offset[s] + got[t].n <= Sectors
      BY <2>3
    <3>1. s \notin mixed /\ t \notin torn
      BY <1>9 DEF ReadAdd, Cross
    <3>2. offset[s] <= Sectors /\ offset[s] = call[t].from
      BY <1>1, <2>2, <3>1 DEF UmdInv, SlotInImage, ThreadInOrder, HandleHeld
    <3>3. got[t].n > 0 => got[t].n <= Left(offset[s])
      BY <1>1, <2>2, <3>1, <3>2 DEF ThreadInOrder, ReadInOrder
    <3>4. offset[s] \in Nat /\ got[t].n \in Nat
      BY <1>1, <2>2 DEF UmdInv, TypeOK, Extent
    <3> QED
      BY <3>2, <3>3, <3>4, DriveAssumption DEF Left
  <2>5. /\ Overlap(t, s) => s \in mixed'
        /\ \A r \in Slots \ {s} : (r \in mixed' <=> r \in mixed) /\ enabled' = enabled
    BY <1>9 DEF ReadAdd, Cross
  <2> QED
    BY <1>2, <1>3, <2>1, <2>2, <2>3, <2>4, <2>5, SlotsInOrder
<1> QED
  BY <1>5, <1>6, <1>7, <1>8, <1>9

-----------------------------------------------------------------------------
(* infernoMount and the memory stick.                                      *)
LEMMA RestInOrder ==
    ASSUME UmdInv, Mounting \/ Lose
    PROVE  InOrder'
<1>1. /\ UNCHANGED <<sema, slotVars>> /\ (fd' => fd /\ at' = at)
      /\ torn' = torn
  <2>1. torn \ {Mount} = torn
    BY DriveAssumption DEF UmdInv, TypeOK
  <2>2. torn' = torn
    BY <2>1 DEF Mounting, MountOpen, MountName, MountDone, Lose, Return
  <2>3. CASE Mounting
    BY <2>2, <2>3 DEF Mounting, MountOpen, MountName, MountDone, ioVars
  <2>4. CASE Lose
    BY <2>2, <2>4 DEF Lose
  <2> QED
    BY <2>3, <2>4
<1>2. \A u \in Threads : /\ pc'[u] = pc[u] /\ call'[u] = call[u]
                         /\ got'[u] = got[u] /\ back'[u] = back[u]
  BY DriveAssumption DEF UmdInv, TypeOK, Mounting, MountOpen, MountName, MountDone, Lose, Return,
                         Goto, All
<1>3. \A u \in Threads : ThreadInOrder(u)'
  BY <1>1, <1>2, OthersInOrder DEF slotVars
<1>4. MountInOrder'
  BY DEF UmdInv, TypeOK, MountInOrder, Mounting, MountOpen, MountName, MountDone, Lose, Return,
         Goto, All
<1>5. \A s \in Slots : SlotInImage(s)'
  BY <1>1 DEF UmdInv, SlotInImage, slotVars
<1> QED
  BY <1>3, <1>4, <1>5 DEF InOrder

LEMMA UmdInvKept == UmdInv /\ [Next]_vars => UmdInv'
<1> SUFFICES ASSUME UmdInv, [Next]_vars
             PROVE  UmdInv'
  OBVIOUS
<1>1. TypeOK'
  BY UmdTypesKept DEF UmdInv, ThreadInOrder
<1>2. CASE UNCHANGED vars
  <2>1. UNCHANGED <<sema, slotVars, fd, at, pc, call, got, back, torn>>
    BY <1>2 DEF vars, ioVars
  <2>2. \A u \in Threads : ThreadInOrder(u)'
    BY <2>1, OthersInOrder DEF slotVars
  <2> QED
    BY <1>1, <2>1, <2>2 DEF UmdInv, MountInOrder, SlotInImage, slotVars
<1>3. ASSUME NEW t \in All, DescriptorStep(t)
      PROVE  InOrder'
  BY <1>3, DescriptorOthers, IsoInOrder, ReadInOrderKept DEF DescriptorStep, InOrder
<1>4. ASSUME NEW t \in All, ReadGiveUp(t) \/ ReadUnlock(t) \/ OpenGiveUp(t) \/ CheckMedium(t)
      PROVE  InOrder'
  <2>1. CASE t \in Threads
    BY <1>4, <2>1, QuietSteps
  <2>2. CASE t = Mount
    <3>1. UNCHANGED <<sema, slotVars, fd, at>> /\ (torn' = torn \/ torn' = torn \ {Mount})
      BY <1>4, <2>2, DriveAssumption DEF ReadGiveUp, ReadUnlock, OpenGiveUp, CheckMedium, Return,
                                         ioVars
    <3>2. \A u \in Threads : /\ pc'[u] = pc[u] /\ call'[u] = call[u]
                             /\ got'[u] = got[u] /\ back'[u] = back[u]
      BY <1>4, <2>2, DriveAssumption DEF UmdInv, TypeOK, ReadGiveUp, ReadUnlock, OpenGiveUp,
                                         CheckMedium, Return, Goto, All
    <3>3. \A u \in Threads : ThreadInOrder(u)'
      BY <3>1, <3>2, OthersInOrder, DriveAssumption DEF slotVars
    <3>4. MountInOrder'
      BY <1>4, <2>2, DriveAssumption DEF UmdInv, TypeOK, MountInOrder, ReadGiveUp, ReadUnlock,
                                         OpenGiveUp, CheckMedium, Return, Goto, All
    <3>5. \A s \in Slots : SlotInImage(s)'
      BY <3>1 DEF UmdInv, SlotInImage, slotVars
    <3> QED
      BY <3>3, <3>4, <3>5 DEF InOrder
  <2> QED
    BY <2>1, <2>2 DEF All
<1>5. ASSUME NEW t \in Threads, Begin(t) \/ Locked(t)
      PROVE  InOrder'
  BY <1>5, QuietSteps, SlotSteps DEF Locked
<1>6. InOrder' => UmdInv'
  BY <1>1 DEF InOrder, UmdInv
<1> QED
  BY <1>2, <1>3, <1>4, <1>5, <1>6, RestInOrder DEF Next, Step, ReadFile, DescriptorStep

-----------------------------------------------------------------------------
(* Whatever the threads, infernoMount and the memory stick do, descriptor, *)
(* slots and calls are what the code takes them for.                       *)
THEOREM UmdTypes == Spec => []TypeOK
<1>1. UmdInv => TypeOK
  BY DEF UmdInv
<1> QED
  BY <1>1, UmdInitInv, UmdInvKept, PTL DEF Spec

(* A read through the semaphore gives the sectors it was asked for, however*)
(* often the image was reopened in its middle, unless IoOpen() or          *)
(* infernoMount used the descriptor meanwhile.                             *)
THEOREM UmdReadsRight == Spec => []ReadsRight
<1>1. UmdInv => ReadsRight
  BY DEF UmdInv, ThreadInOrder, ReadInOrder, ReadsRight
<1> QED
  BY <1>1, UmdInitInv, UmdInvKept, PTL DEF Spec

(* A handle that one call at a time uses is never past the end of the image*)
(* nor taken from a read, and stays where the read began until it is moved.*)
THEOREM UmdHandlesKept == Spec => []HandlesKept
<1>1. UmdInv => HandlesKept
  BY DEF UmdInv, ThreadInOrder, HandleHeld, SlotInImage, HandlesKept
<1> QED
  BY <1>1, UmdInitInv, UmdInvKept, PTL DEF Spec

=============================================================================
