----------------------------- MODULE MsfsProof ------------------------------
(***************************************************************************)
(* Proofs about Msfs, for any number of files, slots and cells: the types, *)
(* that the copy a truncating open put aside stays until its descriptor is *)
(* closed, which then restores it, and that Msfs implements PspFiles.      *)
(***************************************************************************)
EXTENDS Msfs, TLAPS

(* A request is served for a descriptor that is in the table, and a write  *)
(* has what it writes.                                                     *)
WriteHasCell(r) == r.op = "write" => Len(r.got) = 1
Served ==
    request # None => table[request.slot] # None /\ WriteHasCell(request)

(* A descriptor that is open for the Vita has its file.                    *)
Present ==
    \A s \in Slot : Used(s) /\ table[s].fd = "open" => disk[table[s].file] \in Seq(Cell)

(* Who put a copy aside is open, and no other descriptor that would take   *)
(* the copy is on the same file.                                           *)
AsideAlone ==
    \A s \in Slot : before[s] # None =>
        /\ Used(s) /\ table[s].trunc /\ table[s].fd = "open"
        /\ copy[table[s].file] = before[s]
        /\ \A t \in Slot : t # s /\ Used(t) /\ table[t].trunc =>
                table[t].file # table[s].file

MsfsIInv == TypeOK /\ Served /\ Present /\ AsideAlone

(* Writing one cell gives a sequence of cells again.                       *)
LEMMA PutType ==
    ASSUME NEW c \in Seq(Cell), NEW p \in Nat, NEW v \in Cell
    PROVE  Put(c, p, v) \in Seq(Cell)
<1>1. Len(c) \in Nat /\ DOMAIN c = 1 .. Len(c) /\ \A i \in 1 .. Len(c) : c[i] \in Cell
  OBVIOUS
<1> DEFINE n == IF p + 1 > Len(c) THEN p + 1 ELSE Len(c)
<1>2. n \in Nat
  BY <1>1
<1>3. Put(c, p, v) = [i \in 1 .. n |-> IF i = p + 1 THEN v ELSE IF i > Len(c) THEN Hole ELSE c[i]]
  BY DEF Put
<1> HIDE DEF n
<1>4. \A i \in 1 .. n : (IF i = p + 1 THEN v ELSE IF i > Len(c) THEN Hole ELSE c[i]) \in Cell
  BY <1>1, CellAssumption
<1> QED
  BY <1>2, <1>3, <1>4

(* Copying back gives cells, and no other ones behind the first write.     *)
LEMMA CopiedBackIs ==
    ASSUME NEW d \in Descriptor, d.first_write_offset # 0,
           disk[d.file] \in Seq(Cell), copy[d.file] \in Seq(Cell)
    PROVE  LET c == disk[d.file]
               n == d.first_write_offset
               m == IF n > Len(c) THEN n ELSE Len(c)
           IN  /\ m \in Nat /\ CopiedBack(d) \in [1 .. m -> Cell]
               /\ \A i \in n + 1 .. Len(c) : CopiedBack(d)[i] = c[i]
<1> DEFINE c == disk[d.file]
           old == copy[d.file]
           n == d.first_write_offset
           m == IF n > Len(c) THEN n ELSE Len(c)
<1>1. n \in Nat
  BY DEF Descriptor
<1>2. Len(c) \in Nat /\ Len(old) \in Nat /\ m \in Nat
  BY <1>1
<1>3. CopiedBack(d) = [i \in 1 .. m |->
              IF i > n THEN c[i] ELSE IF i > Len(old) THEN Junk ELSE old[i]]
  BY DEF CopiedBack
<1>4. c \in Seq(Cell) /\ old \in Seq(Cell)
  OBVIOUS
<1> SUFFICES /\ m \in Nat /\ CopiedBack(d) \in [1 .. m -> Cell]
             /\ \A i \in n + 1 .. Len(c) : CopiedBack(d)[i] = c[i]
  OBVIOUS
<1> HIDE DEF c, old, n
<1>5. \A i \in 1 .. m : (IF i > n THEN c[i] ELSE IF i > Len(old) THEN Junk ELSE old[i]) \in Cell
  <2> SUFFICES ASSUME NEW i \in 1 .. m
               PROVE  (IF i > n THEN c[i] ELSE IF i > Len(old) THEN Junk ELSE old[i]) \in Cell
    OBVIOUS
  <2>1. i > n => i \in 1 .. Len(c)
    BY <1>1, <1>2
  <2>2. i <= Len(old) => i \in 1 .. Len(old)
    BY <1>2
  <2> QED
    BY <1>1, <1>2, <1>4, <2>1, <2>2, CellAssumption
<1>6. \A i \in n + 1 .. Len(c) : i \in 1 .. m /\ i > n
  BY <1>1, <1>2
<1> HIDE DEF m
<1> QED
  BY <1>2, <1>3, <1>5, <1>6

LEMMA CopiedBackType ==
    ASSUME NEW d \in Descriptor, disk[d.file] \in Seq(Cell),
           d.first_write_offset > 0 => copy[d.file] \in Seq(Cell)
    PROVE  CopiedBack(d) \in Seq(Cell)
<1>1. d.first_write_offset \in Nat
  BY DEF Descriptor
<1>2. CASE d.first_write_offset = 0
  BY <1>2 DEF CopiedBack
<1>3. CASE d.first_write_offset # 0
  <2> DEFINE n == d.first_write_offset
             m == IF n > Len(disk[d.file]) THEN n ELSE Len(disk[d.file])
  <2>1. m \in Nat /\ CopiedBack(d) \in [1 .. m -> Cell]
    <3>1. copy[d.file] \in Seq(Cell)
      BY <1>1, <1>3
    <3> QED
      BY <1>3, <3>1, CopiedBackIs
  <2> HIDE DEF m
  <2>2. \A k \in Nat : \A c \in [1 .. k -> Cell] : c \in Seq(Cell)
    OBVIOUS
  <2> QED
    BY <2>1, <2>2
<1> QED
  BY <1>2, <1>3

(* Opening a file again gives a descriptor for the same file, at its       *)
(* offset, and the file is there if the descriptor is open.                *)
LEMMA RevivedEffect ==
    ASSUME TypeOK, Present, NEW s \in Slot, Used(s)
    PROVE  LET d == Revived(table[s])
               c == RevivedFile(table[s])
           IN  /\ d \in Descriptor
               /\ d.file = table[s].file /\ d.trunc = table[s].trunc
               /\ d.flags = table[s].flags
               /\ table[s].fd = "open" => d = table[s] /\ c = disk[table[s].file]
               /\ d.fd # "nodev"
               /\ c \in Seq(Cell) \cup {None}
               /\ d.fd = "open" => c \in Seq(Cell)
               /\ disk[d.file] \in Seq(Cell) => c \in Seq(Cell)
<1>1. table[s] \in Descriptor /\ disk[table[s].file] \in Seq(Cell) \cup {None}
  BY DEF TypeOK, Used, Descriptor
<1>2. IoOpen(disk[table[s].file], table[s].flags) \in Seq(Cell) \cup {None}
  BY <1>1 DEF IoOpen, Descriptor, Flag
<1>3. disk[table[s].file] \in Seq(Cell) =>
        IoOpen(disk[table[s].file], table[s].flags) \in Seq(Cell)
  BY <1>1 DEF IoOpen, Descriptor, Flag
<1>4. CASE table[s].fd = "nodev"
  <2>1. RevivedFile(table[s]) = IoOpen(disk[table[s].file], table[s].flags)
    BY <1>4 DEF RevivedFile, ReopenedFile
  <2>2. Revived(table[s]) = Restored(table[s], RevivedFile(table[s]) # None)
    BY <1>4, <2>1 DEF Revived, ReopenedFile
  <2>3. \A b \in BOOLEAN : LET d == Restored(table[s], b) IN
            /\ d \in Descriptor /\ d.file = table[s].file /\ d.trunc = table[s].trunc
            /\ d.flags = table[s].flags
            /\ d.fd = IF b THEN "open" ELSE "error"
    BY <1>1 DEF Restored, Descriptor, Fd
  <2> QED
    BY <1>1, <1>2, <1>3, <1>4, <2>1, <2>2, <2>3
<1>5. CASE table[s].fd # "nodev"
  BY <1>1, <1>5 DEF Revived, RevivedFile, Present
<1> QED
  BY <1>4, <1>5

(* Moving a descriptor on changes its two positions only.                  *)
Moved(d) == [d EXCEPT !.pos = @ + 1, !.offset = @ + 1]

LEMMA MovedType ==
    ASSUME NEW d \in Descriptor
    PROVE  Moved(d) \in Descriptor /\ Moved(d).file = d.file
           /\ Moved(d).trunc = d.trunc /\ Moved(d).fd = d.fd
<1>1. d.pos + 1 \in Nat /\ d.offset + 1 \in Nat
  BY DEF Descriptor
<1>2. \A p, q \in Nat : LET e == [d EXCEPT !.pos = p, !.offset = q] IN
          e \in Descriptor /\ e.file = d.file /\ e.trunc = d.trunc /\ e.fd = d.fd
  BY DEF Descriptor
<1> QED
  BY <1>1, <1>2 DEF Moved

(* A step that moves one descriptor on, or opens its file again, and       *)
(* writes to that file, keeps the invariant.                               *)
LEMMA SameDescriptor ==
    ASSUME MsfsIInv, NEW s \in Slot, Used(s),
           NEW e \in Descriptor, NEW c \in Seq(Cell) \cup {None},
           e.file = table[s].file, e.trunc = table[s].trunc,
           table[s].fd = "open" => e.fd = "open",
           e.fd = "open" => c \in Seq(Cell),
           disk[e.file] \in Seq(Cell) => c \in Seq(Cell),
           table' = [table EXCEPT ![s] = e],
           disk' = [disk EXCEPT ![e.file] = c],
           request' \in Request \cup {None},
           request' # None => request'.slot = s /\ WriteHasCell(request'),
           UNCHANGED <<copy, saved, before, opens>>
    PROVE  MsfsIInv'
<1>1. table' \in [Slot -> Descriptor \cup {None}] /\ table'[s] = e
      /\ \A t \in Slot : t # s => table'[t] = table[t]
  BY DEF MsfsIInv, TypeOK
<1>2. disk' \in [File -> Seq(Cell) \cup {None}] /\ disk'[e.file] = c
      /\ \A f \in File : disk[f] \in Seq(Cell) => disk'[f] \in Seq(Cell)
  BY DEF MsfsIInv, TypeOK, Descriptor
<1>3. TypeOK'
  BY <1>1, <1>2 DEF MsfsIInv, TypeOK
<1>4. Served'
  BY <1>1, NoneAssumption DEF Served
<1>5. Present'
  <2> SUFFICES ASSUME NEW t \in Slot, Used(t)', table'[t].fd = "open"
               PROVE  disk'[table'[t].file] \in Seq(Cell)
    BY DEF Present
  <2>1. CASE t = s
    BY <2>1, <1>1, <1>2
  <2>2. CASE t # s
    <3>1. table'[t] = table[t] /\ Used(t) /\ table[t] \in Descriptor
      BY <2>2, <1>1 DEF Used, MsfsIInv, TypeOK
    <3> QED
      BY <3>1, <1>2 DEF MsfsIInv, Present, Descriptor
  <2> QED
    BY <2>1, <2>2
<1>6. AsideAlone'
  BY <1>1, NoneAssumption DEF MsfsIInv, AsideAlone, Used
<1> QED
  BY <1>3, <1>4, <1>5, <1>6 DEF MsfsIInv

(* What a step may use of the descriptor it works on.                      *)
LEMMA AtWork ==
    ASSUME MsfsIInv, NEW s \in Slot, Used(s)
    PROVE  LET d == Revived(table[s])
               c == RevivedFile(table[s])
           IN  /\ d \in Descriptor
               /\ d.file = table[s].file /\ d.trunc = table[s].trunc
               /\ table[s].fd = "open" => d.fd = "open"
               /\ c \in Seq(Cell) \cup {None}
               /\ d.fd = "open" => c \in Seq(Cell)
               /\ disk[d.file] \in Seq(Cell) => c \in Seq(Cell)
BY RevivedEffect DEF MsfsIInv

(* One round of a read: the same descriptor, moved on or not.              *)
LEMMA ReadRoundKeeps == MsfsIInv /\ ReadRound => MsfsIInv'
<1> SUFFICES ASSUME MsfsIInv, ReadRound
             PROVE  MsfsIInv'
  OBVIOUS
<1> DEFINE s == request.slot
           d == Revived(table[s])
           c == RevivedFile(table[s])
<1>1. request \in Request /\ s \in Slot /\ Used(s)
  BY DEF MsfsIInv, TypeOK, Served, ReadRound, Request, Used
<1>2. /\ d \in Descriptor
      /\ d.file = table[s].file /\ d.trunc = table[s].trunc
      /\ table[s].fd = "open" => d.fd = "open"
      /\ c \in Seq(Cell) \cup {None}
      /\ d.fd = "open" => c \in Seq(Cell)
      /\ disk[d.file] \in Seq(Cell) => c \in Seq(Cell)
  BY <1>1, AtWork
<1>3. disk' = [disk EXCEPT ![d.file] = c] /\ UNCHANGED <<copy, saved, before, opens>>
  BY DEF ReadRound
<1>4. \E e \in Descriptor :
        /\ table' = [table EXCEPT ![s] = e]
        /\ e.file = d.file /\ e.trunc = d.trunc /\ e.fd = d.fd
  <2> HIDE DEF d, c
  <2>1. CASE table' = [table EXCEPT ![s] = Moved(d)]
    BY <1>2, <2>1, MovedType
  <2>2. CASE table' = [table EXCEPT ![s] = d]
    BY <1>2, <2>2
  <2> QED
    BY <2>1, <2>2 DEF ReadRound, d, c, Moved
<1>5. /\ request' \in Request \cup {None}
      /\ request' # None => request'.slot = s /\ request'.op = "read"
  <2>1. CASE d.fd = "open" /\ d.pos < Len(c)
            /\ request' = [request EXCEPT !.left = @ - 1, !.got = Append(@, c[d.pos + 1])]
    <3>1. c \in Seq(Cell) /\ d.pos \in Nat
      BY <1>2, <2>1 DEF Descriptor
    <3>2. c[d.pos + 1] \in Cell
      <4> HIDE DEF d, c
      <4> QED
        BY <2>1, <3>1
    <3>3. request.left \in Nat /\ request.left > 0 /\ request.got \in Seq(Cell)
      BY <1>1 DEF Request, ReadRound
    <3>4. Append(request.got, c[d.pos + 1]) \in Seq(Cell) /\ request.left - 1 \in Nat
      BY <3>2, <3>3
    <3> HIDE DEF d, c
    <3> QED
      BY <1>1, <2>1, <3>4 DEF Request, s, ReadRound
  <2>2. CASE request' = [request EXCEPT !.left = 0]
    BY <1>1, <2>2 DEF Request, ReadRound
  <2>3. CASE request' = None
    BY <2>3, NoneAssumption
  <2> QED
    BY <2>1, <2>2, <2>3 DEF ReadRound
<1> HIDE DEF s, d, c
<1> QED
  BY <1>1, <1>2, <1>3, <1>4, <1>5, SameDescriptor DEF WriteHasCell

(* One round of a write.                                                   *)
LEMMA WriteRoundKeeps == MsfsIInv /\ WriteRound => MsfsIInv'
<1> SUFFICES ASSUME MsfsIInv, WriteRound
             PROVE  MsfsIInv'
  OBVIOUS
<1> DEFINE s == request.slot
           d == Revived(table[s])
           c == RevivedFile(table[s])
<1>1. request \in Request /\ s \in Slot /\ Used(s)
  BY DEF MsfsIInv, TypeOK, Served, WriteRound, Request, Used
<1>2. /\ d \in Descriptor
      /\ d.file = table[s].file /\ d.trunc = table[s].trunc
      /\ table[s].fd = "open" => d.fd = "open"
      /\ c \in Seq(Cell) \cup {None}
      /\ d.fd = "open" => c \in Seq(Cell)
      /\ disk[d.file] \in Seq(Cell) => c \in Seq(Cell)
  BY <1>1, AtWork
<1>3. UNCHANGED <<copy, saved, before, opens>>
  BY DEF WriteRound
<1>4. CASE /\ d.fd = "open"
           /\ disk' = [disk EXCEPT ![d.file] = Put(c, d.pos, request.got[1])]
           /\ request' = [request EXCEPT !.left = @ - 1]
           /\ table' = [table EXCEPT ![s] = Moved(d)]
  <2>1. request.left - 1 \in Nat
    BY <1>1 DEF Request, WriteRound
  <2>2. request.got \in Seq(Cell) /\ Len(request.got) = 1
    BY <1>1 DEF Request, WriteRound, MsfsIInv, Served, WriteHasCell
  <2>3. request' \in Request /\ request'.slot = s /\ request'.got = request.got
    BY <1>1, <1>4, <2>1 DEF Request
  <2>5. request.got[1] \in Cell
    BY <2>2
  <2>4. Put(c, d.pos, request.got[1]) \in Seq(Cell)
    BY <1>2, <1>4, <2>5, PutType DEF Descriptor
  <2> HIDE DEF s, d, c
  <2>6. PICK e \in Descriptor : /\ e = Moved(d) /\ e.file = d.file
                                /\ e.trunc = d.trunc /\ e.fd = d.fd
    BY <1>2, MovedType
  <2>7. PICK p \in Seq(Cell) : disk' = [disk EXCEPT ![e.file] = p]
    BY <1>4, <2>4, <2>6
  <2>8. WriteHasCell(request')
    BY <2>2, <2>3 DEF WriteHasCell
  <2>9. table' = [table EXCEPT ![s] = e]
    BY <1>4, <2>6
  <2>10. e.fd = "open" /\ e.file = table[s].file /\ e.trunc = table[s].trunc
    BY <1>2, <1>4, <2>6
  <2> QED
    BY <1>1, <1>3, <2>3, <2>6, <2>7, <2>8, <2>9, <2>10, SameDescriptor
<1>5. CASE /\ d.fd # "open"
           /\ disk' = [disk EXCEPT ![d.file] = c]
           /\ request' = None
           /\ table' = [table EXCEPT ![s] = d]
  <2> HIDE DEF s, d, c
  <2> QED
    BY <1>1, <1>2, <1>3, <1>5, NoneAssumption, SameDescriptor
<1> QED
  BY <1>4, <1>5 DEF WriteRound, Moved

LEMMA LseekKeeps ==
    ASSUME MsfsIInv, NEW s \in Slot,
           NEW whence \in {"set", "cur", "end"}, NEW by \in 0 .. MaxLen,
           Lseek(s, whence, by)
    PROVE  MsfsIInv'
<1> DEFINE d == Revived(table[s])
           c == RevivedFile(table[s])
           to == SeekTo(d, c, whence, by)
<1>1. Used(s)
  BY DEF Lseek
<1>2. /\ d \in Descriptor
      /\ d.file = table[s].file /\ d.trunc = table[s].trunc
      /\ table[s].fd = "open" => d.fd = "open"
      /\ c \in Seq(Cell) \cup {None}
      /\ d.fd = "open" => c \in Seq(Cell)
      /\ disk[d.file] \in Seq(Cell) => c \in Seq(Cell)
  BY <1>1, AtWork
<1>3. /\ disk' = [disk EXCEPT ![d.file] = c]
      /\ UNCHANGED <<copy, saved, request, before, opens>>
      /\ request' = None /\ None \notin Request
  BY NoneAssumption DEF Lseek
<1>4. CASE d.fd = "open" /\ table' = [table EXCEPT ![s] = [d EXCEPT !.pos = to, !.offset = to]]
  <2>1. to \in Nat
    <3>1. c \in Seq(Cell) /\ d.pos \in Nat /\ by \in Nat
      BY <1>2, <1>4, BoundAssumption DEF Descriptor
    <3>2. Len(c) \in Nat
      <4> HIDE DEF c
      <4> QED BY <3>1
    <3> HIDE DEF d, c
    <3> QED
      BY <3>1, <3>2 DEF SeekTo
  <2>2. \A n \in Nat : LET e == [d EXCEPT !.pos = n, !.offset = n] IN
            e \in Descriptor /\ e.file = d.file /\ e.trunc = d.trunc /\ e.fd = d.fd
    <3> HIDE DEF d
    <3> QED
      BY <1>2 DEF Descriptor
  <2>3. PICK e \in Descriptor : /\ table' = [table EXCEPT ![s] = e]
                                /\ e.file = d.file /\ e.trunc = d.trunc /\ e.fd = d.fd
    <3> HIDE DEF to, d
    <3> QED
      BY <1>4, <2>1, <2>2
  <2> HIDE DEF d, c, to
  <2> QED
    BY <1>1, <1>2, <1>3, <2>3, SameDescriptor
<1>5. CASE table' = [table EXCEPT ![s] = d]
  <2> HIDE DEF d, c
  <2> QED
    BY <1>1, <1>2, <1>3, <1>5, SameDescriptor
<1> QED
  BY <1>4, <1>5 DEF Lseek

(* A request begins; a write may note where the first one was.             *)
LEMMA BeginKeeps ==
    ASSUME MsfsIInv, NEW s \in Slot, NEW n \in 1 .. MaxLen, NEW v \in Cell,
           Read(s, n) \/ Write(s, n, v)
    PROVE  MsfsIInv'
<1>1. Used(s) /\ table[s] \in Descriptor /\ n \in Nat
  BY BoundAssumption DEF Read, Write, MsfsIInv, TypeOK, Used
<1>2. UNCHANGED <<disk, copy, saved, before, opens>>
  BY DEF Read, Write
<1>3. /\ request' \in Request
      /\ request'.slot = s /\ WriteHasCell(request')
  <2>1. <<>> \in Seq(Cell) /\ <<v>> \in Seq(Cell) /\ Len(<<v>>) = 1
    OBVIOUS
  <2>2. CASE Read(s, n)
    BY <1>1, <2>1, <2>2 DEF Read, Request, WriteHasCell
  <2>3. CASE Write(s, n, v)
    BY <1>1, <2>1, <2>3 DEF Write, Request, WriteHasCell
  <2> QED
    BY <2>2, <2>3
<1>4. \E e \in Descriptor : /\ table' = [table EXCEPT ![s] = e]
                            /\ e.file = table[s].file /\ e.trunc = table[s].trunc
                            /\ e.fd = table[s].fd
  <2>1. CASE UNCHANGED table
    <3>1. table' = [table EXCEPT ![s] = table[s]]
      BY <2>1 DEF MsfsIInv, TypeOK
    <3> QED
      BY <1>1, <3>1
  <2>2. CASE table' = [table EXCEPT ![s].first_write = TRUE,
                                   ![s].first_write_offset = table[s].offset]
    <3>1. table[s].offset \in Nat
      BY <1>1 DEF Descriptor
    <3>2. \A m \in Nat :
          LET e == [table[s] EXCEPT !.first_write = TRUE, !.first_write_offset = m] IN
            /\ e \in Descriptor /\ e.file = table[s].file /\ e.trunc = table[s].trunc
            /\ e.fd = table[s].fd
      BY <1>1 DEF Descriptor
    <3>3. table' = [table EXCEPT ![s] =
              [table[s] EXCEPT !.first_write = TRUE, !.first_write_offset = table[s].offset]]
      BY <2>2 DEF MsfsIInv, TypeOK
    <3> QED
      BY <3>1, <3>2, <3>3
  <2> QED
    BY <2>1, <2>2 DEF Read, Write
<1>5. /\ disk' = [disk EXCEPT ![table[s].file] = disk[table[s].file]]
      /\ disk[table[s].file] \in Seq(Cell) \cup {None}
      /\ table[s].fd = "open" => disk[table[s].file] \in Seq(Cell)
  BY <1>1, <1>2 DEF MsfsIInv, TypeOK, Present, Descriptor
<1>6. PICK e \in Descriptor : /\ table' = [table EXCEPT ![s] = e]
                              /\ e.file = table[s].file /\ e.trunc = table[s].trunc
                              /\ e.fd = table[s].fd
  BY <1>4
<1>7. PICK c \in Seq(Cell) \cup {None} :
        /\ c = disk[e.file] /\ disk' = [disk EXCEPT ![e.file] = c]
        /\ e.fd = "open" => c \in Seq(Cell)
  BY <1>5, <1>6
<1> QED
  BY <1>1, <1>2, <1>3, <1>6, <1>7, SameDescriptor

(* Opening: the new descriptor is on a file no other has put aside.        *)
LEMMA OpenKeeps ==
    ASSUME MsfsIInv, NEW f \in File, NEW flags \in Flag, Open(f, flags)
    PROVE  MsfsIInv'
<1>1. /\ request = None /\ UNCHANGED <<saved, request>>
      /\ disk' = [disk EXCEPT ![f] = IoOpen(disk[f], flags)]
      /\ IoOpen(disk[f], flags) \in Seq(Cell)
  BY DEF Open, MsfsIInv, TypeOK, IoOpen, Flag
<1>2. disk' \in [File -> Seq(Cell) \cup {None}]
      /\ \A g \in File : disk[g] \in Seq(Cell) => disk'[g] \in Seq(Cell)
  BY <1>1 DEF MsfsIInv, TypeOK
<1>3. /\ copy' \in [File -> Seq(Cell) \cup {None}]
      /\ \A g \in File : g # f => copy'[g] = copy[g]
      /\ ~ PutsAside(f, flags) => copy' = copy
      /\ PutsAside(f, flags) => copy'[f] = disk[f] /\ disk[f] # None
  BY DEF Open, MsfsIInv, TypeOK, PutsAside
<1>4. \A s \in Slot : before[s] # None /\ PutsAside(f, flags) => table[s].file # f
  BY DEF MsfsIInv, AsideAlone, PutsAside, OpenOn
<1>5. CASE UNCHANGED <<table, before, opens>>
  <2>1. TypeOK' /\ Served' /\ Present'
    BY <1>1, <1>2, <1>3, <1>5 DEF MsfsIInv, TypeOK, Served, Present, Used, Descriptor
  <2>2. \A r \in Slot : before[r] # None =>
            table[r].file \in File /\ copy'[table[r].file] = copy[table[r].file]
    <3> SUFFICES ASSUME NEW r \in Slot, before[r] # None
                 PROVE  table[r].file \in File /\ copy'[table[r].file] = copy[table[r].file]
      OBVIOUS
    <3>1. table[r].file \in File
      BY DEF MsfsIInv, TypeOK, AsideAlone, Used, Descriptor
    <3>2. CASE table[r].file = f
      BY <3>1, <3>2, <1>3, <1>4
    <3>3. CASE table[r].file # f
      BY <3>1, <3>3, <1>3
    <3> QED
      BY <3>1, <3>2, <3>3
  <2>3. AsideAlone'
    BY <2>2, <1>5 DEF MsfsIInv, AsideAlone, Used
  <2> QED
    BY <2>1, <2>3 DEF MsfsIInv
<1>6. CASE \E s \in Slot :
            /\ FirstFree(s) /\ opens > 0
            /\ opens' = opens - 1
            /\ table' = [table EXCEPT ![s] =
                            NewDescriptor(f, flags, PutsAside(f, flags))]
            /\ before' = [before EXCEPT ![s] =
                            IF PutsAside(f, flags) /\ ~ InTable(f) THEN disk[f]
                            ELSE None]
  <2> DEFINE new == NewDescriptor(f, flags, PutsAside(f, flags))
  <2>1. PICK s \in Slot :
            /\ ~ Used(s) /\ opens > 0
            /\ opens' = opens - 1
            /\ table' = [table EXCEPT ![s] = new]
            /\ before' = [before EXCEPT ![s] =
                            IF PutsAside(f, flags) /\ ~ InTable(f) THEN disk[f]
                            ELSE None]
    BY <1>6 DEF FirstFree
  <2>2. /\ new \in Descriptor /\ new.file = f /\ new.fd = "open"
        /\ new.trunc => PutsAside(f, flags)
        /\ PutsAside(f, flags) => new.trunc
    BY DEF NewDescriptor, Descriptor, Fd, PutsAside
  <2> HIDE DEF new
  <2>3. /\ table' \in [Slot -> Descriptor \cup {None}] /\ table'[s] = new
        /\ \A t \in Slot : t # s => table'[t] = table[t]
    BY <2>1, <2>2 DEF MsfsIInv, TypeOK
  <2>4. /\ before' \in [Slot -> Seq(Cell) \cup {None}]
        /\ \A t \in Slot : t # s => before'[t] = before[t]
        /\ before'[s] # None => PutsAside(f, flags) /\ ~ InTable(f) /\ before'[s] = disk[f]
    BY <2>1 DEF MsfsIInv, TypeOK
  <2>5. TypeOK'
    BY <1>1, <1>2, <1>3, <2>1, <2>3, <2>4 DEF MsfsIInv, TypeOK
  <2>6. Served'
    BY <1>1 DEF Served
  <2>7. Present'
    <3> SUFFICES ASSUME NEW t \in Slot, table'[t] # None, table'[t].fd = "open"
                 PROVE  disk'[table'[t].file] \in Seq(Cell)
      BY DEF Present, Used
    <3>1. CASE t = s
      BY <3>1, <1>1, <1>2, <2>2, <2>3 DEF MsfsIInv, TypeOK
    <3>2. CASE t # s
      BY <3>2, <1>2, <2>3 DEF MsfsIInv, TypeOK, Present, Used, Descriptor
    <3> QED
      BY <3>1, <3>2
  <2>8. AsideAlone'
    <3> SUFFICES ASSUME NEW r \in Slot, before'[r] # None
                 PROVE  /\ table'[r] # None /\ table'[r].trunc /\ table'[r].fd = "open"
                        /\ copy'[table'[r].file] = before'[r]
                        /\ \A t \in Slot : t # r /\ table'[t] # None /\ table'[t].trunc =>
                                table'[t].file # table'[r].file
      BY DEF AsideAlone, Used
    <3>1. CASE r = s
      <4>1. \A t \in Slot : t # s /\ table[t] # None => table[t].file # f
        BY <3>1, <2>4 DEF InTable, Used
      <4>2. table'[r] = new /\ new # None /\ PutsAside(f, flags) /\ before'[r] = disk[f]
        BY <3>1, <2>2, <2>3, <2>4, NoneAssumption
      <4>3. \A t \in Slot : t # r => table'[t] = table[t]
        BY <3>1, <2>3
      <4>4. copy'[f] = disk[f]
        BY <4>2, <1>3
      <4> HIDE DEF PutsAside
      <4> QED
        BY <3>1, <4>1, <4>2, <4>3, <4>4, <2>2
    <3>2. CASE r # s
      <4>1. /\ before[r] # None /\ table'[r] = table[r] /\ before'[r] = before[r]
            /\ table[r] # None /\ table[r].trunc /\ table[r].fd = "open"
            /\ copy[table[r].file] = before[r]
            /\ \A t \in Slot : t # r /\ table[t] # None /\ table[t].trunc =>
                    table[t].file # table[r].file
        BY <3>2, <2>3, <2>4 DEF MsfsIInv, AsideAlone, Used
      <4>2. PutsAside(f, flags) => table[r].file # f
        BY <4>1, <1>4
      <4>3. table[r].file \in File
        BY <4>1 DEF MsfsIInv, TypeOK, Descriptor
      <4>4. copy'[table[r].file] = before[r]
        <5>1. CASE table[r].file = f
          BY <5>1, <4>1, <4>2, <1>3
        <5>2. CASE table[r].file # f
          BY <5>2, <4>1, <4>3, <1>3
        <5> QED
          BY <5>1, <5>2
      <4>5. ASSUME NEW t \in Slot, t # r, table'[t] # None, table'[t].trunc
            PROVE  table'[t].file # table'[r].file
        <5>1. CASE t = s
          BY <5>1, <4>1, <4>2, <4>5, <2>2, <2>3
        <5>2. CASE t # s
          BY <5>2, <4>1, <4>5, <2>3
        <5> QED
          BY <5>1, <5>2
      <4> QED
        BY <4>1, <4>4, <4>5
    <3> QED
      BY <3>1, <3>2
  <2> QED
    BY <2>5, <2>6, <2>7, <2>8 DEF MsfsIInv
<1> QED
  BY <1>5, <1>6 DEF Open

(* What closing does to the file: nothing, or the copy's cells come back.  *)
LEMMA CloseEffect ==
    ASSUME MsfsIInv, NEW s \in Slot, Close(s)
    PROVE  /\ table[s] \in Descriptor
           /\ disk' \in [File -> Seq(Cell) \cup {None}]
           /\ \A g \in File : disk[g] \in Seq(Cell) => disk'[g] \in Seq(Cell)
           /\ copy' \in [File -> Seq(Cell) \cup {None}]
           /\ \A g \in File : g # table[s].file => copy'[g] = copy[g]
           /\ ~ table[s].trunc => copy' = copy
           /\ table' = table \/ table' = [table EXCEPT ![s] = None]
           /\ before' = [before EXCEPT ![s] = None]
           /\ UNCHANGED <<saved, request, opens>>
           /\ request = None
<1> DEFINE d == table[s]
           f == d.file
<1>1. d \in Descriptor /\ f \in File /\ Used(s)
  BY DEF Close, MsfsIInv, TypeOK, Used, Descriptor
<1>2. ASSUME d.trunc, ~ FixFails(d)
      PROVE  /\ CopiedBack(d) \in Seq(Cell) \cup {None}
             /\ disk[f] \in Seq(Cell) => CopiedBack(d) \in Seq(Cell)
  <2>1. CASE d.first_write_offset = 0
    BY <2>1, <1>1 DEF CopiedBack, MsfsIInv, TypeOK
  <2>2. CASE d.first_write_offset # 0
    <3>1. d.first_write_offset > 0
      BY <2>2, <1>1 DEF Descriptor
    <3>2. copy[f] \in Seq(Cell) /\ disk[f] \in Seq(Cell)
      BY <1>1, <1>2, <3>1 DEF FixFails, MsfsIInv, TypeOK, Present
    <3> QED
      BY <1>1, <3>2, CopiedBackType
  <2> QED
    BY <2>1, <2>2
<1>3. /\ disk' \in [File -> Seq(Cell) \cup {None}]
      /\ \A g \in File : disk[g] \in Seq(Cell) => disk'[g] \in Seq(Cell)
  <2>1. CASE d.trunc /\ ~ FixFails(d)
    <3>1. disk' = [disk EXCEPT ![f] = CopiedBack(d)]
      BY <2>1 DEF Close
    <3> HIDE DEF f, d
    <3> QED
      BY <1>1, <1>2, <2>1, <3>1 DEF MsfsIInv, TypeOK
  <2>2. CASE ~ (d.trunc /\ ~ FixFails(d))
    <3>1. disk' = disk
      BY <2>2 DEF Close
    <3> QED
      BY <3>1 DEF MsfsIInv, TypeOK
  <2> QED
    BY <2>1, <2>2
<1>4. /\ copy' = IF d.trunc THEN [copy EXCEPT ![f] = None] ELSE copy
      /\ table' = table \/ table' = [table EXCEPT ![s] = None]
      /\ before' = [before EXCEPT ![s] = None]
      /\ UNCHANGED <<saved, request, opens>>
      /\ request = None
  BY DEF Close
<1>5. /\ copy' \in [File -> Seq(Cell) \cup {None}]
      /\ \A g \in File : g # f => copy'[g] = copy[g]
      /\ ~ d.trunc => copy' = copy
  BY <1>1, <1>4 DEF MsfsIInv, TypeOK
<1> QED
  BY <1>1, <1>3, <1>4, <1>5

LEMMA CloseKeeps ==
    ASSUME MsfsIInv, NEW s \in Slot, Close(s)
    PROVE  MsfsIInv'
<1>1. \A t \in Slot : t # s => table'[t] = table[t] /\ before'[t] = before[t]
  BY CloseEffect DEF MsfsIInv, TypeOK
<1>2. table'[s] \in {table[s], None} /\ before'[s] = None
  BY CloseEffect DEF MsfsIInv, TypeOK
<1>3. TypeOK'
  BY CloseEffect DEF MsfsIInv, TypeOK
<1>4. Served'
  BY CloseEffect DEF Served
<1>5. Present'
  <2> SUFFICES ASSUME NEW t \in Slot, table'[t] # None, table'[t].fd = "open"
               PROVE  disk'[table'[t].file] \in Seq(Cell)
    BY DEF Present, Used
  <2>1. table'[t] = table[t]
    BY <1>1, <1>2
  <2>2. disk[table[t].file] \in Seq(Cell) /\ table[t].file \in File
    BY <2>1 DEF MsfsIInv, Present, Used, TypeOK, Descriptor
  <2> QED
    BY <2>1, <2>2, CloseEffect
<1>6. AsideAlone'
  <2> SUFFICES ASSUME NEW r \in Slot, before'[r] # None
               PROVE  /\ table'[r] # None /\ table'[r].trunc /\ table'[r].fd = "open"
                      /\ copy'[table'[r].file] = before'[r]
                      /\ \A t \in Slot : t # r /\ table'[t] # None /\ table'[t].trunc =>
                              table'[t].file # table'[r].file
    BY DEF AsideAlone, Used
  <2>1. r # s /\ table'[r] = table[r] /\ before'[r] = before[r]
    BY <1>1, <1>2
  <2>2. /\ table[r] # None /\ table[r].trunc /\ table[r].fd = "open"
        /\ copy[table[r].file] = before[r]
        /\ \A t \in Slot : t # r /\ table[t] # None /\ table[t].trunc =>
                              table[t].file # table[r].file
        /\ table[r].file \in File
    BY <2>1 DEF MsfsIInv, AsideAlone, Used, TypeOK, Descriptor
  <2>3. copy'[table[r].file] = copy[table[r].file]
    <3>1. CASE table[s].trunc
      <4>1. table[s].file # table[r].file
        BY <2>1, <2>2, <3>1 DEF Close, Used
      <4> QED
        BY <4>1, <2>2, CloseEffect
    <3>2. CASE ~ table[s].trunc
      BY <3>2, CloseEffect
    <3> QED
      BY <3>1, <3>2
  <2>4. \A t \in Slot : table'[t] # None => table'[t] = table[t]
    BY <1>1, <1>2
  <2> QED
    BY <2>1, <2>2, <2>3, <2>4
<1> QED
  BY <1>3, <1>4, <1>5, <1>6 DEF MsfsIInv

(* The whole table is replaced, by descriptors that are closed, asleep or  *)
(* open on files that are there, and nothing counts as put aside any more. *)
LEMMA TableReplaced ==
    ASSUME MsfsIInv,
           table' \in [Slot -> Descriptor \cup {None}],
           disk' \in [File -> Seq(Cell) \cup {None}],
           saved' \in [Slot -> Descriptor \cup {None}] \cup {None},
           \A s \in Slot : table'[s] # None /\ table'[s].fd = "open" =>
                disk'[table'[s].file] \in Seq(Cell),
           request # None => table'[request.slot] # None,
           before' = [s \in Slot |-> None],
           UNCHANGED <<copy, request, opens>>
    PROVE  MsfsIInv'
<1>1. TypeOK'
  BY DEF MsfsIInv, TypeOK
<1>2. Served' /\ Present' /\ AsideAlone'
  BY DEF MsfsIInv, Served, Present, AsideAlone, Used
<1> QED
  BY <1>1, <1>2 DEF MsfsIInv

LEMMA StandbyKeeps == MsfsIInv /\ Standby => MsfsIInv'
<1> SUFFICES ASSUME MsfsIInv, Standby PROVE MsfsIInv'
  OBVIOUS
<1>1. \A s \in Slot : table[s] # None => table[s] \in Descriptor
  BY DEF MsfsIInv, TypeOK
<1>2. \A s \in Slot :
        table'[s] = IF table[s] # None /\ table[s].fd = "open"
                      THEN [table[s] EXCEPT !.fd = "nodev"] ELSE table[s]
  BY DEF Standby, Used
<1>3. \A d \in Descriptor : [d EXCEPT !.fd = "nodev"] \in Descriptor
                            /\ [d EXCEPT !.fd = "nodev"].fd = "nodev"
  BY DEF Descriptor, Fd
<1>4. DOMAIN table' = Slot /\ table' = [s \in Slot |-> table'[s]]
  BY DEF Standby
<1>5. \A s \in Slot : /\ table'[s] \in Descriptor \cup {None}
                      /\ table'[s] # None => table'[s].fd # "open"
                      /\ table[s] # None => table'[s] # None
  <2> SUFFICES ASSUME NEW s \in Slot
               PROVE  /\ table'[s] \in Descriptor \cup {None}
                      /\ table'[s] # None => table'[s].fd # "open"
                      /\ table[s] # None => table'[s] # None
    OBVIOUS
  <2>1. CASE table[s] # None /\ table[s].fd = "open"
    BY <2>1, <1>1, <1>2, <1>3, NoneAssumption
  <2>2. CASE ~ (table[s] # None /\ table[s].fd = "open")
    BY <2>2, <1>1, <1>2
  <2> QED
    BY <2>1, <2>2
<1>6. table' \in [Slot -> Descriptor \cup {None}]
  BY <1>4, <1>5
<1>7. request # None => request.slot \in Slot /\ table[request.slot] # None
  BY DEF MsfsIInv, Served, TypeOK, Request
<1>8. /\ before' = [s \in Slot |-> None]
      /\ UNCHANGED <<disk, copy, saved, request, opens>>
      /\ disk \in [File -> Seq(Cell) \cup {None}]
      /\ saved \in [Slot -> Descriptor \cup {None}] \cup {None}
  BY DEF Standby, MsfsIInv, TypeOK
<1> QED
  BY <1>5, <1>6, <1>7, <1>8, TableReplaced

LEMMA CloseAllKeeps == MsfsIInv /\ CloseAllDescriptors => MsfsIInv'
<1> SUFFICES ASSUME MsfsIInv, CloseAllDescriptors PROVE MsfsIInv'
  OBVIOUS
<1>1. /\ table' = [s \in Slot |-> None] /\ before' = [s \in Slot |-> None]
      /\ UNCHANGED <<disk, copy, saved, request, opens>> /\ request = None
      /\ disk \in [File -> Seq(Cell) \cup {None}]
      /\ saved \in [Slot -> Descriptor \cup {None}] \cup {None}
  BY DEF CloseAllDescriptors, MsfsIInv, TypeOK
<1>2. table' \in [Slot -> Descriptor \cup {None}] /\ \A s \in Slot : table'[s] = None
  BY <1>1
<1> QED
  BY <1>1, <1>2, TableReplaced

(* Loading a state: every descriptor of the saved table is opened again.   *)
LEMMA LoadKeeps == MsfsIInv /\ SetFileDescriptors => MsfsIInv'
<1> SUFFICES ASSUME MsfsIInv, SetFileDescriptors PROVE MsfsIInv'
  OBVIOUS
<1>1. /\ saved \in [Slot -> Descriptor \cup {None}]
      /\ disk \in [File -> Seq(Cell) \cup {None}]
      /\ request = None
      /\ before' = [s \in Slot |-> None]
      /\ UNCHANGED <<copy, saved, request, opens>>
  BY DEF SetFileDescriptors, MsfsIInv, TypeOK
<1> DEFINE Emptied(f) == \E s \in SavedOn(f) : saved[s].flags = "trunc"
           Created(f) == \E s \in SavedOn(f) : Recreates(s)
           There(s) == \/ disk[saved[s].file] # None
                       \/ Recreates(s)
                       \/ \E t \in SavedOn(saved[s].file) : t < s /\ Recreates(t)
<1>2. disk' = [f \in File |-> IF Emptied(f) THEN <<>>
                              ELSE IF Created(f) THEN IoOpen(disk[f], "update")
                              ELSE disk[f]]
  BY DEF SetFileDescriptors
<1>3. \A f \in File : IoOpen(disk[f], "update") \in Seq(Cell)
  BY <1>1 DEF IoOpen
<1>4. /\ disk' \in [File -> Seq(Cell) \cup {None}]
      /\ \A f \in File : disk[f] # None \/ Created(f) => disk'[f] \in Seq(Cell)
  <2> HIDE DEF Emptied, Created
  <2>1. <<>> \in Seq(Cell)
    OBVIOUS
  <2> QED
    BY <1>1, <1>2, <1>3, <2>1
<1>5. table' = [s \in Slot |-> IF saved[s] = None THEN None ELSE Restored(saved[s], There(s))]
  BY DEF SetFileDescriptors
<1>6. \A d \in Descriptor, b \in BOOLEAN :
        /\ Restored(d, b) \in Descriptor /\ Restored(d, b).file = d.file
        /\ Restored(d, b).fd = "open" => b
  <2> SUFFICES ASSUME NEW d \in Descriptor, NEW b \in BOOLEAN
               PROVE  /\ Restored(d, b) \in Descriptor /\ Restored(d, b).file = d.file
                      /\ Restored(d, b).fd = "open" => b
    OBVIOUS
  <2>1. CASE b
    BY <2>1 DEF Restored, Descriptor, Fd
  <2>2. CASE ~ b
    BY <2>2 DEF Restored, Descriptor, Fd
  <2> QED
    BY <2>1, <2>2
<1>7. \A s \in Slot : saved[s] # None /\ There(s) => disk'[saved[s].file] \in Seq(Cell)
  <2> SUFFICES ASSUME NEW s \in Slot, saved[s] # None, There(s)
               PROVE  disk'[saved[s].file] \in Seq(Cell)
    OBVIOUS
  <2>1. saved[s].file \in File
    BY <1>1 DEF Descriptor
  <2>2. disk[saved[s].file] # None \/ Created(saved[s].file)
    BY DEF SavedOn
  <2> HIDE DEF Created
  <2> QED
    BY <2>1, <2>2, <1>4
<1>8. \A s \in Slot :
        /\ table'[s] \in Descriptor \cup {None}
        /\ table'[s] # None /\ table'[s].fd = "open" => disk'[table'[s].file] \in Seq(Cell)
  <2> SUFFICES ASSUME NEW s \in Slot
               PROVE  /\ table'[s] \in Descriptor \cup {None}
                      /\ table'[s] # None /\ table'[s].fd = "open" =>
                            disk'[table'[s].file] \in Seq(Cell)
    OBVIOUS
  <2>1. CASE saved[s] = None
    BY <2>1, <1>5
  <2>2. CASE saved[s] # None
    <3>1. PICK b \in BOOLEAN : b <=> There(s)
      OBVIOUS
    <3>2. table'[s] = Restored(saved[s], b) /\ saved[s] \in Descriptor
      <4>1. CASE There(s)
        BY <2>2, <3>1, <4>1, <1>1, <1>5
      <4>2. CASE ~ There(s)
        BY <2>2, <3>1, <4>2, <1>1, <1>5
      <4> QED
        BY <4>1, <4>2
    <3> HIDE DEF There
    <3> QED
      BY <2>2, <3>1, <3>2, <1>6, <1>7
  <2> QED
    BY <2>1, <2>2
<1>9. table' \in [Slot -> Descriptor \cup {None}]
  <2> HIDE DEF There
  <2> QED
    BY <1>5, <1>8
<1> QED
  BY <1>1, <1>4, <1>8, <1>9, TableReplaced

(* Saving a state copies the table.                                        *)
LEMMA SaveKeeps == MsfsIInv /\ SaveDescriptors => MsfsIInv'
<1> SUFFICES ASSUME MsfsIInv, SaveDescriptors PROVE MsfsIInv'
  OBVIOUS
<1>1. \A d \in Descriptor : Restored(d, TRUE) \in Descriptor
  BY DEF Restored, Descriptor, Fd
<1>2. saved' \in [Slot -> Descriptor \cup {None}]
  BY <1>1 DEF SaveDescriptors, MsfsIInv, TypeOK, Used
<1>3. UNCHANGED <<disk, copy, table, request, before, opens>>
  BY DEF SaveDescriptors
<1> QED
  BY <1>2, <1>3 DEF MsfsIInv, TypeOK, Served, Present, AsideAlone, Used

(* Only a file that is not open is removed.                                *)
LEMMA RemoveKeeps ==
    ASSUME MsfsIInv, NEW f \in File, Remove(f)
    PROVE  MsfsIInv'
<1>1. disk' \in [File -> Seq(Cell) \cup {None}] /\ \A g \in File : g # f => disk'[g] = disk[g]
  BY DEF Remove, MsfsIInv, TypeOK
<1>2. UNCHANGED <<copy, table, saved, request, before, opens>> /\ ~ OpenOn(f)
  BY DEF Remove
<1>3. Present'
  BY <1>1, <1>2 DEF MsfsIInv, TypeOK, Present, OpenOn, Used, Descriptor
<1> QED
  BY <1>1, <1>2, <1>3 DEF MsfsIInv, TypeOK, Served, AsideAlone, Used

LEMMA RespondKeeps == MsfsIInv /\ Respond => MsfsIInv'
BY NoneAssumption DEF Respond, MsfsIInv, TypeOK, Served, Present, AsideAlone, Used

LEMMA InitHolds == Init => MsfsIInv
<1> SUFFICES ASSUME Init PROVE MsfsIInv
  OBVIOUS
<1>1. StartContents \subseteq Seq(Cell) \cup {None}
  <2>1. \A c \in [1 .. MaxLen -> Cell \ {Hole, Junk}] : c \in Seq(Cell)
    BY BoundAssumption
  <2> QED
    BY <2>1 DEF StartContents
<1>2. TypeOK
  BY <1>1, BoundAssumption DEF Init, TypeOK
<1>3. Served /\ Present /\ AsideAlone
  BY DEF Init, Served, Present, AsideAlone, Used
<1> QED
  BY <1>2, <1>3 DEF MsfsIInv

LEMMA StepKeeps == MsfsIInv /\ [Next]_vars => MsfsIInv'
<1> SUFFICES ASSUME MsfsIInv, [Next]_vars PROVE MsfsIInv'
  OBVIOUS
<1>1. ASSUME NEW f \in File, NEW flags \in Flag, Open(f, flags) PROVE MsfsIInv'
  BY <1>1, OpenKeeps
<1>2. ASSUME NEW s \in Slot, NEW n \in 1 .. MaxLen, Read(s, n) PROVE MsfsIInv'
  BY <1>2, BeginKeeps, CellAssumption
<1>3. ASSUME NEW s \in Slot, NEW n \in 1 .. MaxLen, NEW v \in Cell \ {Hole, Junk},
             Write(s, n, v)
      PROVE  MsfsIInv'
  BY <1>3, BeginKeeps
<1>4. CASE ReadRound \/ WriteRound \/ Respond
  BY <1>4, ReadRoundKeeps, WriteRoundKeeps, RespondKeeps
<1>5. ASSUME NEW s \in Slot, NEW whence \in {"set", "cur", "end"}, NEW by \in 0 .. MaxLen,
             Lseek(s, whence, by)
      PROVE  MsfsIInv'
  BY <1>5, LseekKeeps
<1>6. ASSUME NEW s \in Slot, Close(s) PROVE MsfsIInv'
  BY <1>6, CloseKeeps
<1>7. ASSUME NEW f \in File, Remove(f) PROVE MsfsIInv'
  BY <1>7, RemoveKeeps
<1>8. CASE CloseAllDescriptors \/ SaveDescriptors \/ SetFileDescriptors \/ Standby
  BY <1>8, CloseAllKeeps, SaveKeeps, LoadKeeps, StandbyKeeps
<1>9. CASE UNCHANGED vars
  BY <1>9 DEF vars, MsfsIInv, TypeOK, Served, Present, AsideAlone, Used
<1> QED
  BY <1>1, <1>2, <1>3, <1>4, <1>5, <1>6, <1>7, <1>8, <1>9 DEF Next, Serve

LEMMA InvariantHolds == Spec => []MsfsIInv
<1> QED
  BY InitHolds, StepKeeps, PTL DEF Spec

(* The variables keep their types, and what a truncating open put aside is *)
(* there until its descriptor is closed (msfs.c, Open and Close).          *)
THEOREM MsfsTypes == Spec => []TypeOK
<1>1. MsfsIInv => TypeOK
  BY DEF MsfsIInv
<1> QED
  BY <1>1, InvariantHolds, PTL

THEOREM AsideIsKept == Spec => []AsideKept
<1>1. MsfsIInv => AsideKept
  BY DEF MsfsIInv, AsideAlone, AsideKept
<1> QED
  BY <1>1, InvariantHolds, PTL

(* Such a close succeeds and gives the file its first cells back, as they  *)
(* were before the truncation (ScePspemuMsfsTruncateFix).                  *)
LEMMA CloseRestores ==
    ASSUME MsfsIInv, NEW s \in Slot, before[s] # None, Close(s)
    PROVE  /\ table'[s] = None
           /\ \A i \in 1 .. table[s].first_write_offset :
                  i <= Len(before[s]) => disk'[table[s].file][i] = before[s][i]
<1> DEFINE d == table[s]
           f == d.file
           n == d.first_write_offset
           old == before[s]
           c == disk[f]
<1>1. /\ d \in Descriptor /\ d.trunc /\ d.fd = "open" /\ copy[f] = old
      /\ old \in Seq(Cell) /\ n \in Nat /\ f \in File
  BY DEF MsfsIInv, TypeOK, AsideAlone, Used, Descriptor
<1>2. c \in Seq(Cell)
  BY <1>1 DEF MsfsIInv, Present, AsideAlone
<1>3. ~ FixFails(d)
  BY <1>1 DEF FixFails
<1>4. table' = [table EXCEPT ![s] = None] /\ disk' = [disk EXCEPT ![f] = CopiedBack(d)]
  BY <1>1, <1>3 DEF Close
<1>5. table'[s] = None
  BY <1>4 DEF MsfsIInv, TypeOK
<1>6. disk'[f] = CopiedBack(d)
  BY <1>1, <1>4 DEF MsfsIInv, TypeOK
<1>7. ASSUME NEW i \in 1 .. n, i <= Len(old)
      PROVE  CopiedBack(d)[i] = old[i]
  <2> DEFINE m == IF n > Len(c) THEN n ELSE Len(c)
  <2>1. n # 0 /\ i <= n
    BY <1>1, <1>7
  <2>2. CopiedBack(d) = [j \in 1 .. m |->
                IF j > n THEN c[j] ELSE IF j > Len(old) THEN Junk ELSE old[j]]
    BY <1>1, <2>1 DEF CopiedBack
  <2> HIDE DEF c, old, n
  <2>3. Len(c) \in Nat /\ Len(old) \in Nat /\ i \in 1 .. m
    BY <1>1, <1>2, <1>7
  <2> HIDE DEF m
  <2>4. ~ (i > n) /\ ~ (i > Len(old))
    BY <1>1, <1>7, <2>1, <2>3
  <2> QED
    BY <2>2, <2>3, <2>4
<1> QED
  BY <1>5, <1>6, <1>7

THEOREM PrefixIsRestored == Spec => PrefixRestored
<1>1. MsfsIInv /\ [Next]_vars =>
        [\A s \in Slot : before[s] # None /\ Close(s) =>
           /\ table'[s] = None
           /\ \A i \in 1 .. table[s].first_write_offset :
                i <= Len(before[s]) => disk'[table[s].file][i] = before[s][i]]_vars
  BY CloseRestores
<1> QED
  BY <1>1, InvariantHolds, PTL DEF Spec, PrefixRestored

(* An open descriptor is where the table says it is; only a file opened    *)
(* with truncation has a copy, and only a first write has an offset.       *)
InOrder(d) ==
    /\ d.fd = "open" => d.pos = d.offset
    /\ d.trunc => d.flags = "trunc"
    /\ d.first_write_offset > 0 => d.first_write

Orderly ==
    /\ \A s \in Slot : Used(s) => InOrder(table[s])
    /\ saved # None => \A s \in Slot :
            saved[s] # None => InOrder(saved[s]) /\ saved[s].fd = "open"

LEMMA RestoredInOrder ==
    ASSUME NEW d \in Descriptor, NEW b \in BOOLEAN, InOrder(d)
    PROVE  InOrder(Restored(d, b)) /\ InOrder(Revived(d))
<1>1. \A x \in BOOLEAN : InOrder(Restored(d, x))
  <2> TAKE x \in BOOLEAN
  <2>1. CASE x
    BY <2>1 DEF Restored, InOrder, Descriptor, Fd
  <2>2. CASE ~ x
    BY <2>2 DEF Restored, InOrder, Descriptor, Fd
  <2> QED
    BY <2>1, <2>2
<1> QED
  BY <1>1 DEF Revived

(* A step on one descriptor.                                               *)
LEMMA OneInOrder ==
    ASSUME MsfsIInv, Orderly, NEW s \in Slot, NEW e \in Descriptor \cup {None},
           e # None => InOrder(e),
           table' = [table EXCEPT ![s] = e], UNCHANGED saved
    PROVE  Orderly'
<1>1. table'[s] = e /\ \A t \in Slot : t # s => table'[t] = table[t]
  BY DEF MsfsIInv, TypeOK
<1> QED
  BY <1>1 DEF Orderly, Used

LEMMA MovedInOrder ==
    ASSUME NEW d \in Descriptor, InOrder(d)
    PROVE  InOrder(Moved(d))
<1>1. d.pos + 1 \in Nat /\ d.offset + 1 \in Nat
  BY DEF Descriptor
<1>2. \A p, q \in Nat : LET e == [d EXCEPT !.pos = p, !.offset = q] IN
          /\ e.fd = d.fd /\ e.pos = p /\ e.offset = q /\ e.trunc = d.trunc /\ e.flags = d.flags
          /\ e.first_write = d.first_write /\ e.first_write_offset = d.first_write_offset
  BY DEF Descriptor
<1> QED
  BY <1>1, <1>2 DEF Moved, InOrder

LEMMA RoundInOrder == MsfsIInv /\ Orderly /\ (ReadRound \/ WriteRound) => Orderly'
<1> SUFFICES ASSUME MsfsIInv, Orderly, ReadRound \/ WriteRound
             PROVE  Orderly'
  OBVIOUS
<1> DEFINE s == request.slot
           d == Revived(table[s])
<1>1. s \in Slot /\ Used(s) /\ table[s] \in Descriptor
  BY DEF MsfsIInv, TypeOK, Served, ReadRound, WriteRound, Request, Used
<1>2. d \in Descriptor /\ InOrder(d)
  BY <1>1, AtWork, RestoredInOrder DEF Orderly
<1>3. table' = [table EXCEPT ![s] = Moved(d)] \/ table' = [table EXCEPT ![s] = d]
  BY DEF ReadRound, WriteRound, Moved
<1>4. UNCHANGED saved
  BY DEF ReadRound, WriteRound
<1> HIDE DEF s, d
<1> QED
  BY <1>1, <1>2, <1>3, <1>4, MovedType, MovedInOrder, OneInOrder

LEMMA LseekInOrder ==
    ASSUME MsfsIInv, Orderly, NEW s \in Slot,
           NEW whence \in {"set", "cur", "end"}, NEW by \in 0 .. MaxLen,
           Lseek(s, whence, by)
    PROVE  Orderly'
<1> DEFINE d == Revived(table[s])
           c == RevivedFile(table[s])
           to == SeekTo(d, c, whence, by)
<1>1. Used(s) /\ table[s] \in Descriptor
  BY DEF Lseek, MsfsIInv, TypeOK, Used
<1>2. d \in Descriptor /\ InOrder(d) /\ (d.fd = "open" => c \in Seq(Cell))
  BY <1>1, AtWork, RestoredInOrder DEF Orderly
<1>3. UNCHANGED saved
  BY DEF Lseek
<1>4. CASE d.fd = "open" /\ table' = [table EXCEPT ![s] = [d EXCEPT !.pos = to, !.offset = to]]
  <2>1. to \in Nat
    <3>1. c \in Seq(Cell) /\ d.pos \in Nat /\ by \in Nat
      BY <1>2, <1>4, BoundAssumption DEF Descriptor
    <3>2. Len(c) \in Nat
      <4> HIDE DEF c
      <4> QED BY <3>1
    <3> HIDE DEF d, c
    <3> QED
      BY <3>1, <3>2 DEF SeekTo
  <2>2. \A n \in Nat : LET e == [d EXCEPT !.pos = n, !.offset = n] IN
            e \in Descriptor /\ InOrder(e)
    <3> HIDE DEF d
    <3> QED
      BY <1>2 DEF Descriptor, InOrder
  <2> HIDE DEF d, c, to
  <2> QED
    BY <1>1, <1>3, <1>4, <2>1, <2>2, OneInOrder
<1>5. CASE table' = [table EXCEPT ![s] = d]
  <2> HIDE DEF d
  <2> QED
    BY <1>1, <1>2, <1>3, <1>5, OneInOrder
<1> QED
  BY <1>4, <1>5 DEF Lseek

LEMMA WriteInOrder ==
    ASSUME MsfsIInv, Orderly, NEW s \in Slot, NEW n \in 1 .. MaxLen, NEW v \in Cell,
           Write(s, n, v)
    PROVE  Orderly'
<1>1. table[s] \in Descriptor /\ InOrder(table[s]) /\ UNCHANGED saved
  BY DEF Write, MsfsIInv, TypeOK, Used, Orderly
<1>2. CASE UNCHANGED table
  BY <1>1, <1>2 DEF Orderly, Used
<1>3. CASE table' = [table EXCEPT ![s].first_write = TRUE,
                                 ![s].first_write_offset = table[s].offset]
  <2>1. \A m \in Nat :
          LET e == [table[s] EXCEPT !.first_write = TRUE, !.first_write_offset = m] IN
            e \in Descriptor /\ InOrder(e)
    BY <1>1 DEF Descriptor, InOrder
  <2>2. table' = [table EXCEPT ![s] =
            [table[s] EXCEPT !.first_write = TRUE, !.first_write_offset = table[s].offset]]
    BY <1>3 DEF MsfsIInv, TypeOK
  <2>3. table[s].offset \in Nat
    BY <1>1 DEF Descriptor
  <2>4. PICK e \in Descriptor : InOrder(e) /\ table' = [table EXCEPT ![s] = e]
    BY <2>1, <2>2, <2>3
  <2> QED
    BY <1>1, <2>4, OneInOrder
<1> QED
  BY <1>2, <1>3 DEF Write

LEMMA OpenInOrder ==
    ASSUME MsfsIInv, Orderly, NEW f \in File, NEW flags \in Flag, Open(f, flags)
    PROVE  Orderly'
<1>1. CASE UNCHANGED table
  BY <1>1 DEF Orderly, Used, Open
<1>2. ASSUME NEW s \in Slot,
             table' = [table EXCEPT ![s] = NewDescriptor(f, flags, PutsAside(f, flags))]
      PROVE  Orderly'
  <2> DEFINE new == NewDescriptor(f, flags, PutsAside(f, flags))
  <2>1. new \in Descriptor /\ InOrder(new)
    <3>1. new \in Descriptor
      BY DEF NewDescriptor, Descriptor, Fd, PutsAside
    <3>2. /\ new.pos = 0 /\ new.offset = 0 /\ new.first_write_offset = 0
          /\ new.flags = flags /\ new.trunc = PutsAside(f, flags)
      BY DEF NewDescriptor
    <3>3. PutsAside(f, flags) => flags = "trunc"
      BY DEF PutsAside
    <3> HIDE DEF new
    <3> QED
      BY <3>1, <3>2, <3>3 DEF InOrder
  <2>2. UNCHANGED saved
    BY DEF Open
  <2> HIDE DEF new
  <2> QED
    BY <1>2, <2>1, <2>2, OneInOrder DEF new
<1> QED
  BY <1>1, <1>2 DEF Open

LEMMA TableInOrder ==
    MsfsIInv /\ Orderly /\ (Standby \/ SaveDescriptors \/ SetFileDescriptors) => Orderly'
<1> SUFFICES ASSUME MsfsIInv, Orderly, Standby \/ SaveDescriptors \/ SetFileDescriptors
             PROVE  Orderly'
  OBVIOUS
<1>1. \A s \in Slot : table[s] # None => table[s] \in Descriptor /\ InOrder(table[s])
  BY DEF MsfsIInv, TypeOK, Orderly, Used
<1>2. saved # None => \A s \in Slot :
        saved[s] # None => saved[s] \in Descriptor /\ InOrder(saved[s]) /\ saved[s].fd = "open"
  BY DEF MsfsIInv, TypeOK, Orderly
<1>3. CASE Standby
  <2>1. \A d \in Descriptor : InOrder(d) => InOrder([d EXCEPT !.fd = "nodev"])
    BY DEF Descriptor, InOrder
  <2>2. \A s \in Slot : table'[s] = IF table[s] # None /\ table[s].fd = "open"
                                      THEN [table[s] EXCEPT !.fd = "nodev"] ELSE table[s]
    BY <1>3 DEF Standby, Used
  <2>3. UNCHANGED saved
    BY <1>3 DEF Standby
  <2>4. \A s \in Slot : table'[s] # None => InOrder(table'[s])
    BY <1>1, <2>1, <2>2
  <2> QED
    BY <1>2, <2>3, <2>4 DEF Orderly, Used
<1>4. CASE SaveDescriptors
  <2>1. /\ UNCHANGED table
        /\ saved' = [s \in Slot |-> IF table[s] # None THEN Restored(table[s], TRUE) ELSE None]
    BY <1>4 DEF SaveDescriptors, Used
  <2>2. \A d \in Descriptor : InOrder(d) =>
            InOrder(Restored(d, TRUE)) /\ Restored(d, TRUE).fd = "open"
    BY RestoredInOrder DEF Restored, Descriptor
  <2>3. \A s \in Slot : saved'[s] # None => InOrder(saved'[s]) /\ saved'[s].fd = "open"
    BY <1>1, <2>1, <2>2
  <2> QED
    BY <1>1, <2>1, <2>3 DEF Orderly, Used
<1>5. CASE SetFileDescriptors
  <2> DEFINE There(s) == \/ disk[saved[s].file] # None
                         \/ Recreates(s)
                         \/ \E t \in SavedOn(saved[s].file) : t < s /\ Recreates(t)
  <2>1. /\ UNCHANGED saved
        /\ saved # None
        /\ table' = [s \in Slot |-> IF saved[s] = None THEN None ELSE Restored(saved[s], There(s))]
    BY <1>5 DEF SetFileDescriptors
  <2>2. \A s \in Slot : \E b \in BOOLEAN : b <=> There(s)
    OBVIOUS
  <2> HIDE DEF There
  <2>3. \A s \in Slot : table'[s] # None => InOrder(table'[s])
    <3> SUFFICES ASSUME NEW s \in Slot, table'[s] # None PROVE InOrder(table'[s])
      OBVIOUS
    <3>1. saved[s] # None /\ saved[s] \in Descriptor /\ InOrder(saved[s])
          /\ table'[s] = Restored(saved[s], There(s))
      BY <1>2, <2>1
    <3>2. InOrder(Restored(saved[s], TRUE)) /\ InOrder(Restored(saved[s], FALSE))
      BY <3>1, RestoredInOrder
    <3>3. CASE There(s)
      BY <3>1, <3>2, <3>3 DEF Restored
    <3>4. CASE ~ There(s)
      BY <3>1, <3>2, <3>4 DEF Restored
    <3> QED
      BY <3>3, <3>4
  <2> QED
    BY <1>2, <2>1, <2>3 DEF Orderly, Used
<1> QED
  BY <1>3, <1>4, <1>5

LEMMA OrderlyStep == MsfsIInv /\ Orderly /\ [Next]_vars => Orderly'
<1> SUFFICES ASSUME MsfsIInv, Orderly, [Next]_vars PROVE Orderly'
  OBVIOUS
<1>1. ASSUME NEW f \in File, NEW flags \in Flag, Open(f, flags) PROVE Orderly'
  BY <1>1, OpenInOrder
<1>2. ASSUME NEW s \in Slot, NEW n \in 1 .. MaxLen, Read(s, n) PROVE Orderly'
  BY <1>2 DEF Read, Orderly, Used
<1>3. ASSUME NEW s \in Slot, NEW n \in 1 .. MaxLen, NEW v \in Cell \ {Hole, Junk},
             Write(s, n, v)
      PROVE  Orderly'
  BY <1>3, WriteInOrder
<1>4. CASE ReadRound \/ WriteRound
  BY <1>4, RoundInOrder
<1>5. ASSUME NEW s \in Slot, NEW whence \in {"set", "cur", "end"}, NEW by \in 0 .. MaxLen,
             Lseek(s, whence, by)
      PROVE  Orderly'
  BY <1>5, LseekInOrder
<1>6. ASSUME NEW s \in Slot, Close(s) PROVE Orderly'
  <2>1. UNCHANGED saved /\ (table' = table \/ table' = [table EXCEPT ![s] = None])
    BY <1>6, CloseEffect
  <2>2. CASE table' = table
    BY <2>1, <2>2 DEF Orderly, Used
  <2>3. CASE table' = [table EXCEPT ![s] = None]
    BY <2>1, <2>3, OneInOrder
  <2> QED
    BY <2>1, <2>2, <2>3
<1>7. ASSUME NEW f \in File, Remove(f) PROVE Orderly'
  BY <1>7 DEF Remove, Orderly, Used
<1>8. CASE CloseAllDescriptors
  BY <1>8 DEF CloseAllDescriptors, Orderly, Used
<1>9. CASE SaveDescriptors \/ SetFileDescriptors \/ Standby
  BY <1>9, TableInOrder
<1>10. CASE Respond \/ UNCHANGED vars
  BY <1>10 DEF vars, Respond, Orderly, Used
<1> QED
  BY <1>1, <1>2, <1>3, <1>4, <1>5, <1>6, <1>7, <1>8, <1>9, <1>10 DEF Next, Serve

FilesStep == [Game!Next]_<<disk, Seen(table), SeenSaved(saved), Transfer(request)>>

LEMMA FilesStepIs ==
    ASSUME FilesStep
    PROVE  [Game!Next]_Game!vars
BY DEF FilesStep, Game!vars

(* What the PSP sees of a descriptor.                                      *)
LEMMA HandleOfType ==
    ASSUME NEW d \in Descriptor
    PROVE  /\ HandleOf(d) \in Handle /\ HandleOf(d) # None
           /\ HandleOf(d).file = d.file /\ HandleOf(d).pos = d.offset
           /\ HandleOf(d).mode = d.flags
           /\ HandleOf(d).first = IF d.first_write THEN d.first_write_offset ELSE None
           /\ HandleOf(d).lost <=> d.fd = "error"
<1>1. HandleOf(d) \in Handle
  BY DEF HandleOf, Handle, Descriptor
<1> QED
  BY <1>1, HandleAssumption DEF HandleOf

LEMMA SeenAt ==
    ASSUME NEW t \in [Slot -> Descriptor \cup {None}]
    PROVE  /\ Seen(t) \in [Slot -> Handle \cup {None}]
           /\ \A s \in Slot : Seen(t)[s] = IF t[s] = None THEN None ELSE HandleOf(t[s])
           /\ \A s \in Slot : Seen(t)[s] = None <=> t[s] = None
<1>1. \A s \in Slot : Seen(t)[s] = IF t[s] = None THEN None ELSE HandleOf(t[s])
  BY DEF Seen
<1>2. \A s \in Slot : t[s] # None => HandleOf(t[s]) \in Handle /\ HandleOf(t[s]) # None
  BY HandleOfType
<1> QED
  BY <1>1, <1>2 DEF Seen

LEMMA SeenSet ==
    ASSUME NEW t \in [Slot -> Descriptor \cup {None}], NEW s \in Slot, NEW e \in Descriptor
    PROVE  Seen([t EXCEPT ![s] = e]) = [Seen(t) EXCEPT ![s] = HandleOf(e)]
<1>1. [t EXCEPT ![s] = e] \in [Slot -> Descriptor \cup {None}] /\ e # None
  BY NoneAssumption
<1>2. \A r \in Slot : Seen([t EXCEPT ![s] = e])[r] = [Seen(t) EXCEPT ![s] = HandleOf(e)][r]
  BY <1>1, SeenAt
<1> QED
  BY <1>1, <1>2, SeenAt DEF Seen

LEMMA SeenCleared ==
    ASSUME NEW t \in [Slot -> Descriptor \cup {None}], NEW s \in Slot
    PROVE  Seen([t EXCEPT ![s] = None]) = [Seen(t) EXCEPT ![s] = None]
<1>1. [t EXCEPT ![s] = None] \in [Slot -> Descriptor \cup {None}]
  OBVIOUS
<1>2. \A r \in Slot : Seen([t EXCEPT ![s] = None])[r] = [Seen(t) EXCEPT ![s] = None][r]
  BY <1>1, SeenAt
<1> QED
  BY <1>1, <1>2, SeenAt DEF Seen

LEMMA Primed ==
    /\ Seen(table)' = Seen(table')
    /\ SeenSaved(saved)' = SeenSaved(saved')
    /\ Transfer(request)' = Transfer(request')
BY DEF Seen, SeenSaved, Transfer

LEMMA TransferIs ==
    ASSUME NEW r \in Request
    PROVE  /\ Transfer(r) # None
           /\ Transfer(r).op = r.op /\ Transfer(r).slot = r.slot
           /\ Transfer(r).left = r.left
           /\ r.op = "read" => Transfer(r) = r
           /\ r.op = "write" => Transfer(r) = [r EXCEPT !.got = <<>>]
<1>1. r # None /\ r.got \in Seq(Cell) /\ <<>> \in Seq(Cell)
  BY NoneAssumption DEF Request
<1>2. Transfer(r) = [r EXCEPT !.got = IF r.op = "read" THEN r.got ELSE <<>>]
  BY <1>1 DEF Transfer
<1>3. CASE r.op = "read"
  <2>1. Transfer(r) = [r EXCEPT !.got = r.got]
    BY <1>2, <1>3
  <2>2. Transfer(r) = r
    BY <2>1 DEF Request
  <2> QED
    BY <1>1, <1>3, <2>2
<1>4. CASE r.op = "write"
  <2>1. Transfer(r) = [r EXCEPT !.got = <<>>]
    BY <1>2, <1>4
  <2>2. Transfer(r) \in Request
    BY <1>1, <2>1 DEF Request
  <2> QED
    BY <1>4, <2>1, <2>2, NoneAssumption DEF Request
<1> QED
  BY <1>3, <1>4 DEF Request

(* Two descriptors that differ in fd and pos give handles that differ in   *)
(* whether they are lost.                                                  *)
LEMMA LostHandle ==
    ASSUME NEW d \in Descriptor, NEW e \in Descriptor, NEW b \in BOOLEAN,
           b <=> e.fd = "error",
           e.file = d.file, e.offset = d.offset, e.flags = d.flags,
           e.first_write = d.first_write, e.first_write_offset = d.first_write_offset
    PROVE  HandleOf(e) = [HandleOf(d) EXCEPT !.lost = b]
<1>1. \A x, y \in Handle :
        /\ x.file = y.file /\ x.pos = y.pos /\ x.mode = y.mode /\ x.first = y.first
        /\ x.lost = y.lost
        => x = y
  BY DEF Handle
<1>2. \A x \in Handle : LET y == [x EXCEPT !.lost = b] IN
        /\ y \in Handle /\ y.lost = b
        /\ x.file = y.file /\ x.pos = y.pos /\ x.mode = y.mode /\ x.first = y.first
  BY DEF Handle
<1>3. HandleOf(e).lost = b
  <2>1. HandleOf(e).lost = (e.fd = "error")
    BY DEF HandleOf
  <2> QED
    BY <2>1
<1>4. PICK z \in Handle :
        /\ z = HandleOf(d)
        /\ z.file = d.file /\ z.pos = d.offset /\ z.mode = d.flags
        /\ z.first = IF d.first_write THEN d.first_write_offset ELSE None
  BY HandleOfType
<1>5. PICK y \in Handle :
        /\ y = [z EXCEPT !.lost = b] /\ y.lost = b
        /\ z.file = y.file /\ z.pos = y.pos /\ z.mode = y.mode /\ z.first = y.first
  BY <1>2
<1>6. PICK x \in Handle :
        /\ x = HandleOf(e) /\ x.lost = b
        /\ x.file = d.file /\ x.pos = d.offset /\ x.mode = d.flags
        /\ x.first = IF d.first_write THEN d.first_write_offset ELSE None
  BY <1>3, HandleOfType
<1>7. /\ x.file = y.file /\ x.pos = y.pos /\ x.mode = y.mode /\ x.first = y.first
      /\ x.lost = b /\ y.lost = b
  BY <1>4, <1>5, <1>6
<1>8. x.lost = y.lost
  BY <1>7, Zenon
<1>9. x = y
  BY ONLY <1>1, <1>7, <1>8
<1> QED
  BY <1>4, <1>5, <1>6, <1>9, Zenon

(* What a call that was answered ENODEV leaves, for the PSP: the same      *)
(* handle, or one that is lost with its file.                              *)
Outcome(d, c, h) ==
    /\ d.fd = "open" =>
         /\ HandleOf(d) = h /\ ~ h.lost /\ d.pos = h.pos
         /\ c # None
         /\ \/ c = disk[h.file]
            \/ h.mode = "trunc" /\ c = <<>>
            \/ h.mode = "update" /\ disk[h.file] = None /\ c = <<>>
    /\ d.fd # "open" =>
         /\ HandleOf(d) = [h EXCEPT !.lost = TRUE] /\ c = disk[h.file]
         /\ h.lost \/ (h.mode = "read" /\ disk[h.file] = None)

LEMMA RevivedSeen ==
    ASSUME MsfsIInv, Orderly, NEW s \in Slot, Used(s)
    PROVE  Outcome(Revived(table[s]), RevivedFile(table[s]), HandleOf(table[s]))
<1> DEFINE d == Revived(table[s])
           c == RevivedFile(table[s])
           h == HandleOf(table[s])
<1> SUFFICES Outcome(d, c, h)
  OBVIOUS
<1>1. table[s] \in Descriptor /\ InOrder(table[s])
  BY DEF Used, MsfsIInv, TypeOK, Orderly
<1>2. /\ d \in Descriptor /\ InOrder(d) /\ d.fd # "nodev"
      /\ d.fd = "open" => c \in Seq(Cell)
  BY <1>1, RevivedEffect, RestoredInOrder DEF MsfsIInv
<1>3. h.file = table[s].file /\ h.mode = table[s].flags /\ (h.lost <=> table[s].fd = "error")
      /\ h.pos = table[s].offset
  BY <1>1, HandleOfType
<1>4. d.fd = "open" => c # None
  <2> HIDE DEF d, c
  <2> QED
    BY <1>2, HandleAssumption
<1>5. CASE table[s].fd # "nodev"
  <2>1. d = table[s] /\ c = disk[table[s].file]
    BY <1>5 DEF Revived, RevivedFile
  <2>2. d.fd = "open" => d.pos = d.offset
    BY <1>2 DEF InOrder
  <2>3. d.fd # "open" => table[s].fd = "error"
    BY <1>1, <1>5, <2>1 DEF Descriptor, Fd
  <2>4. d.fd # "open" => HandleOf(d) = [h EXCEPT !.lost = TRUE]
    BY <1>1, <2>1, <2>3, LostHandle
  <2>5. HandleOf(d) = h
    BY <2>1
  <2> HIDE DEF d, c, h
  <2> QED
    BY <1>3, <1>4, <2>1, <2>2, <2>3, <2>4, <2>5 DEF Outcome
<1>6. CASE table[s].fd = "nodev"
  <2>1. c = IoOpen(disk[table[s].file], table[s].flags) /\ d = Restored(table[s], c # None)
    BY <1>6 DEF Revived, RevivedFile, ReopenedFile
  <2>2. CASE c # None
    <3>1. d = [table[s] EXCEPT !.fd = "open", !.pos = table[s].offset]
      BY <2>1, <2>2 DEF Restored
    <3>2. d.fd = "open" /\ d.pos = table[s].offset
      BY <1>1, <3>1 DEF Descriptor
    <3>3. HandleOf(d) = h
      BY <1>1, <1>6, <3>1 DEF HandleOf, Descriptor
    <3>4. \/ c = disk[h.file]
          \/ h.mode = "trunc" /\ c = <<>>
          \/ h.mode = "update" /\ disk[h.file] = None /\ c = <<>>
      BY <1>1, <1>3, <2>1 DEF IoOpen, Descriptor, Flag
    <3> HIDE DEF d, c, h
    <3> QED
      BY <1>3, <1>6, <2>2, <3>2, <3>3, <3>4 DEF Outcome
  <2>3. CASE c = None
    <3>1. d = [table[s] EXCEPT !.fd = "error"]
      BY <2>1, <2>3 DEF Restored
    <3>2. d.fd = "error"
      BY <1>1, <3>1 DEF Descriptor
    <3>3. HandleOf(d) = [h EXCEPT !.lost = TRUE]
      BY <1>1, <1>2, <3>1, <3>2, LostHandle DEF Descriptor
    <3>4. None \notin Seq(Cell) /\ <<>> \in Seq(Cell)
      BY HandleAssumption
    <3>5. table[s].flags = "read" /\ disk[h.file] = None
      BY <1>1, <1>3, <2>1, <2>3, <3>4 DEF IoOpen, Descriptor, Flag
    <3> HIDE DEF d, c, h
    <3> QED
      BY <1>3, <2>3, <3>2, <3>3, <3>5 DEF Outcome
  <2> QED
    BY <2>2, <2>3
<1> QED
  BY <1>5, <1>6

(* The variables as the PSP sees them.                                     *)
LEMMA SeenNow ==
    ASSUME MsfsIInv
    PROVE  /\ Seen(table) \in [Slot -> Handle \cup {None}]
           /\ \A s \in Slot : Used(s) => table[s] \in Descriptor
                                         /\ Seen(table)[s] = HandleOf(table[s])
           /\ \A s \in Slot : Seen(table)[s] = None <=> ~ Used(s)
           /\ request = None => Transfer(request) = None
BY SeenAt DEF MsfsIInv, TypeOK, Used, Transfer

LEMMA OpenSeen ==
    ASSUME MsfsIInv, NEW f \in File, NEW flags \in Flag, Open(f, flags)
    PROVE  FilesStep
<1>1. /\ request = None /\ UNCHANGED <<saved, request>>
      /\ IoOpen(disk[f], flags) # None
      /\ disk' = [disk EXCEPT ![f] = IoOpen(disk[f], flags)]
      /\ flags \in Game!Mode
      /\ IoOpen(disk[f], flags) = Game!Opened(disk[f], flags)
  BY DEF Open, Game!Mode, Flag, IoOpen, Game!Opened
<1>2. UNCHANGED SeenSaved(saved) /\ UNCHANGED Transfer(request) /\ Transfer(request) = None
  BY <1>1, Primed, SeenNow
<1>3. CASE \E s \in Slot :
            /\ FirstFree(s)
            /\ table' = [table EXCEPT ![s] =
                            NewDescriptor(f, flags, PutsAside(f, flags))]
  <2> DEFINE new == NewDescriptor(f, flags, PutsAside(f, flags))
  <2>1. PICK s \in Slot : ~ Used(s) /\ table' = [table EXCEPT ![s] = new]
    BY <1>3 DEF FirstFree
  <2>2. new \in Descriptor
    BY DEF NewDescriptor, Descriptor, Fd, PutsAside
  <2>3. HandleOf(new) = [file |-> f, pos |-> 0, mode |-> flags, first |-> None, lost |-> FALSE]
    BY Zenon DEF HandleOf, NewDescriptor
  <2> HIDE DEF new
  <2>4. Seen(table)' = [Seen(table) EXCEPT ![s] = HandleOf(new)]
    BY <2>1, <2>2, SeenSet, Primed DEF MsfsIInv, TypeOK
  <2>5. Seen(table)[s] = None
    BY <2>1, SeenNow
  <2>6. Game!Open(s, f, flags)
    BY <1>1, <1>2, <2>3, <2>4, <2>5 DEF Game!Open
  <2> QED
    BY <1>1, <2>6 DEF FilesStep, Game!Next
<1>4. CASE UNCHANGED table /\ \A s \in Slot : Used(s)
  <2>1. UNCHANGED Seen(table) /\ \A s \in Slot : Seen(table)[s] # None
    BY <1>4, Primed, SeenNow
  <2>2. Game!OpenTooMany(f, flags)
    BY <1>1, <1>2, <2>1 DEF Game!OpenTooMany
  <2> QED
    BY <1>1, <2>2 DEF FilesStep, Game!Next
<1> QED
  BY <1>3, <1>4 DEF Open

LEMMA ReadSeen ==
    ASSUME MsfsIInv, NEW s \in Slot, NEW n \in 1 .. MaxLen, Read(s, n)
    PROVE  FilesStep
<1>1. /\ request = None /\ Used(s) /\ UNCHANGED <<disk, table, saved>>
      /\ request' = [op |-> "read", slot |-> s, left |-> n, got |-> <<>>]
      /\ n \in Nat /\ <<>> \in Seq(Cell)
  BY BoundAssumption DEF Read
<1>2. request' \in Request
  BY <1>1 DEF Request
<1>3. Transfer(request)' = [op |-> "read", slot |-> s, left |-> n, got |-> <<>>]
  BY <1>1, <1>2, TransferIs, Primed
<1>4. /\ UNCHANGED Seen(table) /\ UNCHANGED SeenSaved(saved)
      /\ Transfer(request) = None /\ Seen(table)[s] # None
  BY <1>1, Primed, SeenNow
<1>5. Game!Begin("read", s, n)
  BY <1>1, <1>3, <1>4 DEF Game!Begin
<1> QED
  BY <1>5 DEF FilesStep, Game!Next

LEMMA WriteSeen ==
    ASSUME MsfsIInv, Orderly, NEW s \in Slot, NEW n \in 1 .. MaxLen, NEW v \in Cell,
           Write(s, n, v)
    PROVE  FilesStep
<1>1. /\ request = None /\ Used(s) /\ UNCHANGED <<disk, saved>>
      /\ request' = [op |-> "write", slot |-> s, left |-> n, got |-> <<v>>]
      /\ n \in Nat /\ <<>> \in Seq(Cell) /\ <<v>> \in Seq(Cell)
  BY BoundAssumption DEF Write
<1>2. request' \in Request
  BY <1>1 DEF Request
<1>3. Transfer(request)' = [op |-> "write", slot |-> s, left |-> n, got |-> <<>>]
  BY <1>1, <1>2, TransferIs, Primed
<1>4. /\ UNCHANGED SeenSaved(saved)
      /\ Transfer(request) = None /\ Seen(table)[s] # None
      /\ table[s] \in Descriptor /\ Seen(table)[s] = HandleOf(table[s])
      /\ Seen(table) \in [Slot -> Handle \cup {None}]
  BY <1>1, Primed, SeenNow
<1>5. CASE UNCHANGED table
  <2>1. UNCHANGED Seen(table)
    BY <1>5, Primed
  <2>2. Game!Begin("write", s, n)
    BY <1>1, <1>3, <1>4, <2>1 DEF Game!Begin
  <2> QED
    BY <2>2 DEF FilesStep, Game!Next
<1>6. CASE /\ ~ (table[s].first_write \/ ~ table[s].trunc)
           /\ table' = [table EXCEPT ![s].first_write = TRUE,
                                     ![s].first_write_offset = table[s].offset]
  <2> DEFINE d == table[s]
             h == HandleOf(d)
             e == [d EXCEPT !.first_write = TRUE, !.first_write_offset = d.offset]
  <2>1. d.offset \in Nat
    BY <1>4 DEF Descriptor
  <2>2. e \in Descriptor
    BY <1>4, <2>1 DEF Descriptor
  <2>3. table' = [table EXCEPT ![s] = e]
    BY <1>6 DEF MsfsIInv, TypeOK
  <2>4. HandleOf(e) = [h EXCEPT !.first = h.pos]
    BY <1>4 DEF HandleOf, Descriptor
  <2>5. h.mode = "trunc" /\ h.first = None
    BY <1>1, <1>4, <1>6, HandleOfType DEF Orderly, InOrder
  <2> HIDE DEF d, e, h
  <2>6. Seen(table)' = [Seen(table) EXCEPT ![s] = HandleOf(e)]
    BY <2>2, <2>3, SeenSet, Primed DEF MsfsIInv, TypeOK
  <2>7. Seen(table)[s] = h
    BY <1>4 DEF h, d
  <2>8. Seen(table)' = [Seen(table) EXCEPT ![s].first = Seen(table)[s].pos]
    BY <1>4, <2>4, <2>6, <2>7
  <2>9. Game!Begin("write", s, n)
    BY <1>1, <1>3, <1>4, <2>5, <2>7, <2>8 DEF Game!Begin
  <2> QED
    BY <2>9 DEF FilesStep, Game!Next
<1> QED
  BY <1>5, <1>6 DEF Write

LEMMA RespondSeen ==
    ASSUME MsfsIInv, Respond
    PROVE  FilesStep
<1>1. request \in Request /\ request.left = 0 /\ request' = None
      /\ UNCHANGED <<disk, table, saved>>
  BY DEF Respond, MsfsIInv, TypeOK
<1>2. Transfer(request) # None /\ Transfer(request).left = 0 /\ Transfer(request)' = None
  BY <1>1, TransferIs, Primed DEF Transfer
<1>3. Game!Finish
  BY <1>1, <1>2, Primed DEF Game!Finish
<1> QED
  BY <1>3 DEF FilesStep, Game!Next

(* A call on a descriptor that cannot be opened again.                     *)
LEMMA FailSeen ==
    ASSUME MsfsIInv, Orderly, NEW s \in Slot, Used(s),
           request = None \/ request.slot = s,
           Revived(table[s]).fd # "open",
           table' = [table EXCEPT ![s] = Revived(table[s])],
           disk' = [disk EXCEPT ![table[s].file] = RevivedFile(table[s])],
           request' = None, UNCHANGED saved
    PROVE  FilesStep
<1> DEFINE d == Revived(table[s])
           c == RevivedFile(table[s])
           h == HandleOf(table[s])
<1>1. table[s] \in Descriptor /\ Seen(table)[s] = h /\ d \in Descriptor
  BY SeenNow, AtWork
<1>2. h.file = table[s].file /\ h.file \in File /\ h # None
  BY <1>1, HandleOfType DEF Handle
<1>3. /\ HandleOf(d) = [h EXCEPT !.lost = TRUE] /\ c = disk[h.file]
      /\ h.lost \/ (h.mode = "read" /\ disk[h.file] = None)
  BY RevivedSeen DEF Outcome
<1> HIDE DEF d, c, h
<1>4. UNCHANGED disk
  BY <1>2, <1>3 DEF MsfsIInv, TypeOK, c
<1>5. Seen(table)' = [Seen(table) EXCEPT ![s] = HandleOf(d)]
  BY <1>1, SeenSet, Primed DEF MsfsIInv, TypeOK, d
<1>6. Seen(table)' = [Seen(table) EXCEPT ![s].lost = TRUE]
  BY <1>1, <1>3, <1>5, SeenNow
<1>7. /\ Transfer(request) = None \/ Transfer(request).slot = s
      /\ Transfer(request)' = None
      /\ UNCHANGED SeenSaved(saved)
  BY TransferIs, Primed DEF MsfsIInv, TypeOK, Transfer
<1>8. Game!Fail(s)
  BY <1>1, <1>2, <1>3, <1>4, <1>6, <1>7 DEF Game!Fail, Game!Missing
<1> QED
  BY <1>8 DEF FilesStep, Game!Next

(* What a round and a seek find: the handle can be used, and its file is   *)
(* one of those the PSP may find.                                          *)
LEMMA UsableSeen ==
    ASSUME MsfsIInv, Orderly, NEW s \in Slot, Used(s),
           Revived(table[s]).fd = "open"
    PROVE  /\ Game!Usable(s)
           /\ RevivedFile(table[s]) \in Game!Contents(s)
           /\ RevivedFile(table[s]) \in Seq(Cell)
           /\ Seen(table)[s].file = table[s].file
           /\ Seen(table)[s].pos = Revived(table[s]).pos
           /\ Seen(table)[s] = HandleOf(Revived(table[s]))
<1> DEFINE d == Revived(table[s])
           c == RevivedFile(table[s])
           h == HandleOf(table[s])
<1>1. table[s] \in Descriptor /\ Seen(table)[s] = h /\ d \in Descriptor /\ c \in Seq(Cell)
  BY SeenNow, AtWork
<1>2. h.file = table[s].file /\ h # None
  BY <1>1, HandleOfType
<1>3. /\ HandleOf(d) = h /\ ~ h.lost /\ d.pos = h.pos
      /\ c # None
      /\ \/ c = disk[h.file]
         \/ h.mode = "trunc" /\ c = <<>>
         \/ h.mode = "update" /\ disk[h.file] = None /\ c = <<>>
  BY RevivedSeen DEF Outcome
<1> HIDE DEF d, c, h
<1>4. Game!Usable(s)
  BY <1>1, <1>2, <1>3 DEF Game!Usable
<1>5. c \in Game!Contents(s)
  BY <1>1, <1>3 DEF Game!Contents
<1> QED
  BY <1>1, <1>2, <1>3, <1>4, <1>5 DEF d, c, h

(* Moving a descriptor on moves its handle on.                             *)
LEMMA MovedSeen ==
    ASSUME NEW d \in Descriptor
    PROVE  HandleOf(Moved(d)) = [HandleOf(d) EXCEPT !.pos = @ + 1]
<1>1. d.pos + 1 \in Nat /\ d.offset + 1 \in Nat
  BY DEF Descriptor
<1>2. \A p, q \in Nat : LET e == [d EXCEPT !.pos = p, !.offset = q] IN
          /\ e \in Descriptor /\ e.offset = q /\ e.file = d.file /\ e.flags = d.flags
          /\ e.fd = d.fd /\ e.first_write = d.first_write
          /\ e.first_write_offset = d.first_write_offset
  BY DEF Descriptor
<1> DEFINE e == Moved(d)
<1>3. /\ e \in Descriptor /\ e.offset = d.offset + 1 /\ e.file = d.file /\ e.flags = d.flags
      /\ e.fd = d.fd /\ e.first_write = d.first_write
      /\ e.first_write_offset = d.first_write_offset
  BY <1>1, <1>2 DEF Moved
<1> HIDE DEF e
<1>4. HandleOf(e) = [HandleOf(d) EXCEPT !.pos = d.offset + 1]
  BY <1>3 DEF HandleOf
<1>5. HandleOf(d).pos = d.offset
  BY HandleOfType
<1> QED
  BY <1>4, <1>5 DEF e

LEMMA ReadRoundSeen ==
    ASSUME MsfsIInv, Orderly, ReadRound
    PROVE  FilesStep
<1> DEFINE s == request.slot
           d == Revived(table[s])
           c == RevivedFile(table[s])
<1>1. /\ request \in Request /\ request.op = "read" /\ request.left > 0
      /\ s \in Slot /\ Used(s) /\ UNCHANGED saved
  BY DEF MsfsIInv, TypeOK, Served, ReadRound, Request, Used
<1>2. d \in Descriptor /\ d.file = table[s].file
  BY <1>1, AtWork
<1>3. disk' = [disk EXCEPT ![table[s].file] = c]
  BY <1>2 DEF ReadRound
<1>4. /\ Transfer(request) = request /\ Transfer(request) # None
      /\ UNCHANGED SeenSaved(saved)
      /\ Seen(table) \in [Slot -> Handle \cup {None}]
  BY <1>1, TransferIs, SeenNow, Primed
<1>5. CASE d.fd = "open"
  <2>1. /\ Game!Usable(s) /\ c \in Game!Contents(s) /\ c \in Seq(Cell)
        /\ Seen(table)[s].file = table[s].file
        /\ Seen(table)[s].pos = d.pos
        /\ Seen(table)[s] = HandleOf(d)
    BY <1>1, <1>5, UsableSeen
  <2>2. c # None
    <3> HIDE DEF c
    <3> QED
      BY <2>1, HandleAssumption
  <2>3. CASE /\ d.pos < Len(c)
             /\ request' = [request EXCEPT !.left = @ - 1, !.got = Append(@, c[d.pos + 1])]
             /\ table' = [table EXCEPT ![s] = Moved(d)]
    <3> DEFINE p == d.pos
    <3>1. p \in Nat
      BY <1>2 DEF Descriptor
    <3>2. Seen(table)' = [Seen(table) EXCEPT ![s] = HandleOf(Moved(d))]
      BY <1>1, <1>2, <2>3, MovedType, SeenSet, Primed DEF MsfsIInv, TypeOK
    <3>3. Seen(table)' = [Seen(table) EXCEPT ![s].pos = p + 1]
      <4> HIDE DEF d, s
      <4> QED
        BY <1>1, <1>2, <1>4, <2>1, <3>2, MovedSeen
    <3>4. Append(request.got, c[p + 1]) \in Seq(Cell) /\ request.left - 1 \in Nat
      <4> HIDE DEF d, c
      <4>1. c[p + 1] \in Cell
        BY <2>1, <2>3, <3>1
      <4> QED
        BY <1>1, <4>1 DEF Request
    <3>5. request' \in Request /\ request'.op = "read"
      <4> HIDE DEF d, c
      <4> QED
        BY <1>1, <2>3, <3>4 DEF Request, p
    <3>6. Transfer(request)' = request'
      BY <3>5, TransferIs, Primed
    <3> HIDE DEF d, c, s
    <3>7. Game!ReadCell(s)
      BY <1>3, <1>4, <2>1, <2>2, <2>3, <3>3, <3>6 DEF Game!ReadCell, p
    <3>8. Game!Move
      BY <1>1, <1>4, <2>1, <3>7 DEF Game!Move, s
    <3> QED
      BY <3>8 DEF FilesStep, Game!Next
  <2>4. CASE /\ d.pos >= Len(c)
             /\ request' = [request EXCEPT !.left = 0]
             /\ table' = [table EXCEPT ![s] = d]
    <3>1. Seen(table)' = [Seen(table) EXCEPT ![s] = HandleOf(d)]
      BY <1>1, <1>2, <2>4, SeenSet, Primed DEF MsfsIInv, TypeOK
    <3>2. UNCHANGED Seen(table)
      BY <1>1, <1>4, <2>1, <3>1
    <3>3. request' \in Request /\ request'.op = "read"
      BY <1>1, <2>4 DEF Request
    <3>4. Transfer(request)' = request'
      BY <3>3, TransferIs, Primed
    <3>5. d.pos \in Nat
      BY <1>2 DEF Descriptor
    <3> HIDE DEF d, c, s
    <3>6. Len(c) \in Nat
      BY <2>1
    <3>7. ~ (Seen(table)[s].pos < Len(c))
      BY <2>1, <2>4, <3>5, <3>6
    <3>8. Transfer(request)' = [Transfer(request) EXCEPT !.left = 0]
      BY <1>4, <2>4, <3>4
    <3>9. disk' = [disk EXCEPT ![Seen(table)[s].file] = c]
      BY <1>3, <2>1
    <3>10. Game!ReadCell(s)
      BY <2>1, <2>2, <3>2, <3>7, <3>8, <3>9 DEF Game!ReadCell
    <3>11. Game!Move
      BY <1>1, <1>4, <2>1, <3>10 DEF Game!Move, s
    <3> QED
      BY <3>11 DEF FilesStep, Game!Next
  <2> QED
    BY <1>5, <2>3, <2>4 DEF ReadRound, Moved
<1>6. CASE d.fd # "open"
  <2>1. request' = None /\ table' = [table EXCEPT ![s] = d]
    BY <1>6 DEF ReadRound
  <2> QED
    BY <1>1, <1>3, <1>6, <2>1, FailSeen
<1> QED
  BY <1>5, <1>6

LEMMA PutIsPut ==
    \A c, p, v : Game!Put(c, p, v) = Put(c, p, v)
BY DEF Game!Put, Put

LEMMA WriteRoundSeen ==
    ASSUME MsfsIInv, Orderly, WriteRound
    PROVE  FilesStep
<1> DEFINE s == request.slot
           d == Revived(table[s])
           c == RevivedFile(table[s])
<1>1. /\ request \in Request /\ request.op = "write" /\ request.left > 0
      /\ s \in Slot /\ Used(s) /\ UNCHANGED saved
  BY DEF MsfsIInv, TypeOK, Served, WriteRound, Request, Used
<1>2. d \in Descriptor /\ d.file = table[s].file
  BY <1>1, AtWork
<1>3. /\ Transfer(request) = [request EXCEPT !.got = <<>>] /\ Transfer(request) # None
      /\ Transfer(request).slot = s /\ Transfer(request).left = request.left
      /\ Transfer(request).op = "write"
      /\ UNCHANGED SeenSaved(saved)
      /\ Seen(table) \in [Slot -> Handle \cup {None}]
  BY <1>1, TransferIs, SeenNow, Primed
<1>4. CASE /\ d.fd = "open"
           /\ disk' = [disk EXCEPT ![d.file] = Put(c, d.pos, request.got[1])]
           /\ request' = [request EXCEPT !.left = @ - 1]
           /\ table' = [table EXCEPT ![s] = Moved(d)]
  <2>1. /\ Game!Usable(s) /\ c \in Game!Contents(s) /\ c \in Seq(Cell)
        /\ Seen(table)[s].file = table[s].file
        /\ Seen(table)[s].pos = d.pos
        /\ Seen(table)[s] = HandleOf(d)
    BY <1>1, <1>4, UsableSeen
  <2>2. c # None
    <3> HIDE DEF c
    <3> QED
      BY <2>1, HandleAssumption
  <2>3. Seen(table)' = [Seen(table) EXCEPT ![s] = HandleOf(Moved(d))]
    BY <1>1, <1>2, <1>4, MovedType, SeenSet, Primed DEF MsfsIInv, TypeOK
  <2>4. Seen(table)' = [Seen(table) EXCEPT ![s].pos = @ + 1]
    <3> HIDE DEF d, s
    <3> QED
      BY <1>1, <1>2, <1>3, <2>1, <2>3, MovedSeen
  <2>5. request.got[1] \in Cell
    <3>1. request.got \in Seq(Cell) /\ Len(request.got) = 1
      BY <1>1 DEF Request, WriteRound, MsfsIInv, Served, WriteHasCell
    <3> QED
      BY <3>1
  <2>6. request.left - 1 \in Nat /\ <<>> \in Seq(Cell)
    BY <1>1 DEF Request
  <2>7. request' \in Request /\ request'.op = "write"
    BY <1>1, <1>4, <2>6 DEF Request
  <2>8. Transfer(request)' = [request' EXCEPT !.got = <<>>]
    BY <2>7, TransferIs, Primed
  <2>9. Transfer(request)' = [Transfer(request) EXCEPT !.left = @ - 1]
    BY <1>1, <1>3, <1>4, <2>6, <2>8 DEF Request
  <2> DEFINE v == request.got[1]
  <2> HIDE DEF d, c, s, v
  <2>10. disk' = [disk EXCEPT ![Seen(table)[s].file] = Game!Put(c, Seen(table)[s].pos, v)]
    BY <1>2, <1>4, <2>1, PutIsPut DEF v
  <2>11. Game!WriteCell(s)
    BY <2>1, <2>2, <2>4, <2>5, <2>9, <2>10 DEF Game!WriteCell, v
  <2>12. Game!Move
    BY <1>1, <1>3, <2>1, <2>11 DEF Game!Move
  <2> QED
    BY <2>12 DEF FilesStep, Game!Next
<1>5. CASE /\ d.fd # "open"
           /\ disk' = [disk EXCEPT ![d.file] = c]
           /\ request' = None
           /\ table' = [table EXCEPT ![s] = d]
  <2>1. disk' = [disk EXCEPT ![table[s].file] = c]
    BY <1>2, <1>5
  <2> QED
    BY <1>1, <1>5, <2>1, FailSeen
<1> QED
  BY <1>4, <1>5 DEF WriteRound, Moved

LEMMA LseekSeen ==
    ASSUME MsfsIInv, Orderly, NEW s \in Slot,
           NEW whence \in {"set", "cur", "end"}, NEW by \in 0 .. MaxLen,
           Lseek(s, whence, by)
    PROVE  FilesStep
<1> DEFINE d == Revived(table[s])
           c == RevivedFile(table[s])
           to == SeekTo(d, c, whence, by)
<1>1. Used(s) /\ request = None /\ UNCHANGED <<saved, request>>
  BY DEF Lseek
<1>2. d \in Descriptor /\ d.file = table[s].file
  BY <1>1, AtWork
<1>3. disk' = [disk EXCEPT ![table[s].file] = c]
  BY <1>2 DEF Lseek
<1>4. CASE /\ d.fd = "open" /\ to <= MaxLen
           /\ table' = [table EXCEPT ![s] = [d EXCEPT !.pos = to, !.offset = to]]
  <2>1. /\ Game!Usable(s) /\ c \in Game!Contents(s) /\ c \in Seq(Cell)
        /\ Seen(table)[s].file = table[s].file
        /\ Seen(table)[s] = HandleOf(d)
    BY <1>1, <1>4, UsableSeen
  <2>2. c # None
    <3> HIDE DEF c
    <3> QED
      BY <2>1, HandleAssumption
  <2>3. to \in Nat /\ to \in 0 .. MaxLen
    <3>1. d.pos \in Nat /\ by \in Nat
      BY <1>2, BoundAssumption DEF Descriptor
    <3>2. Len(c) \in Nat
      <4> HIDE DEF c
      <4> QED BY <2>1
    <3>3. to \in Nat
      <4> HIDE DEF d, c
      <4> QED
        BY <3>1, <3>2 DEF SeekTo
    <3> HIDE DEF to
    <3> QED
      BY <1>4, <3>3, BoundAssumption
  <2>4. \A n \in Nat : LET e == [d EXCEPT !.pos = n, !.offset = n] IN
            e \in Descriptor /\ HandleOf(e) = [HandleOf(d) EXCEPT !.pos = n]
    <3> HIDE DEF d
    <3> SUFFICES ASSUME NEW n \in Nat
                 PROVE  LET e == [d EXCEPT !.pos = n, !.offset = n] IN
                        e \in Descriptor /\ HandleOf(e) = [HandleOf(d) EXCEPT !.pos = n]
      OBVIOUS
    <3> DEFINE e == [d EXCEPT !.pos = n, !.offset = n]
    <3>1. /\ e \in Descriptor /\ e.offset = n /\ e.file = d.file /\ e.flags = d.flags
          /\ e.fd = d.fd /\ e.first_write = d.first_write
          /\ e.first_write_offset = d.first_write_offset
      BY <1>2 DEF Descriptor
    <3>2. HandleOf(e) = [HandleOf(d) EXCEPT !.pos = n]
      <4> HIDE DEF e
      <4> QED
        BY <3>1 DEF HandleOf
    <3> QED
      BY <3>1, <3>2
  <2> HIDE DEF d, c, to
  <2>5. PICK e \in Descriptor : /\ table' = [table EXCEPT ![s] = e]
                                /\ HandleOf(e) = [HandleOf(d) EXCEPT !.pos = to]
    BY <1>4, <2>3, <2>4
  <2>6. Seen(table)' = [Seen(table) EXCEPT ![s] = HandleOf(e)]
    BY <2>5, SeenSet, Primed DEF MsfsIInv, TypeOK
  <2>7. Seen(table)' = [Seen(table) EXCEPT ![s].pos = to]
    BY <2>1, <2>5, <2>6, SeenNow
  <2>8. Transfer(request) = None /\ UNCHANGED Transfer(request) /\ UNCHANGED SeenSaved(saved)
    BY <1>1, SeenNow, Primed
  <2>9. Game!Lseek(s, to)
    BY <1>3, <2>1, <2>2, <2>7, <2>8 DEF Game!Lseek
  <2> QED
    BY <2>3, <2>9 DEF FilesStep, Game!Next
<1>5. CASE d.fd # "open" /\ table' = [table EXCEPT ![s] = d]
  BY <1>1, <1>3, <1>5, FailSeen
<1> QED
  BY <1>4, <1>5 DEF Lseek

LEMMA CloseSeen ==
    ASSUME MsfsIInv, Orderly, NEW s \in Slot, Close(s)
    PROVE  FilesStep
<1> DEFINE d == table[s]
           f == d.file
           n == d.first_write_offset
           h == HandleOf(d)
<1>1. /\ request = None /\ Used(s) /\ d \in Descriptor /\ f \in File /\ n \in Nat
      /\ InOrder(d) /\ UNCHANGED <<saved, request>>
  BY DEF Close, MsfsIInv, TypeOK, Used, Descriptor, Orderly
<1>2. /\ Transfer(request) = None /\ UNCHANGED Transfer(request)
      /\ UNCHANGED SeenSaved(saved) /\ Seen(table)[s] = h /\ h # None
  BY <1>1, SeenNow, Primed, HandleOfType
<1>3. CASE (d.trunc /\ FixFails(d)) \/ d.fd = "error"
  <2>1. UNCHANGED table
    BY <1>3 DEF Close
  <2>2. UNCHANGED disk
    <3>1. CASE d.trunc /\ ~ FixFails(d)
      <4>1. n = 0
        BY <1>1, <1>3, <3>1 DEF FixFails
      <4>2. disk' = [disk EXCEPT ![f] = disk[f]]
        BY <3>1, <4>1 DEF Close, CopiedBack
      <4> QED
        BY <4>2 DEF MsfsIInv, TypeOK
    <3>2. CASE ~ (d.trunc /\ ~ FixFails(d))
      BY <3>2 DEF Close
    <3> QED
      BY <3>1, <3>2
  <2> QED
    BY <1>2, <2>1, <2>2, Primed DEF FilesStep
<1>4. CASE ~ (d.trunc /\ FixFails(d)) /\ d.fd # "error"
  <2>1. table' = [table EXCEPT ![s] = None]
    BY <1>4 DEF Close
  <2>2. Seen(table)' = [Seen(table) EXCEPT ![s] = None]
    BY <2>1, SeenCleared, Primed DEF MsfsIInv, TypeOK
  <2>3. Game!Usable(s)
    BY <1>1, <1>2, <1>4, HandleOfType DEF Game!Usable
  <2>4. CASE ~ d.trunc \/ n = 0
    <3>1. UNCHANGED disk
      <4>1. CASE d.trunc
        <5>1. disk' = [disk EXCEPT ![f] = disk[f]]
          BY <1>4, <2>4, <4>1 DEF Close, CopiedBack
        <5> QED
          BY <5>1 DEF MsfsIInv, TypeOK
      <4>2. CASE ~ d.trunc
        BY <4>2 DEF Close
      <4> QED
        BY <4>1, <4>2
    <3>2. Game!Close(s)
      BY <1>2, <2>2, <2>3, <3>1 DEF Game!Close
    <3> QED
      BY <3>2 DEF FilesStep, Game!Next
  <2>5. CASE d.trunc /\ n # 0
    <3>1. disk' = [disk EXCEPT ![f] = CopiedBack(d)]
      BY <1>4, <2>5 DEF Close
    <3>2. n > 0 /\ d.fd = "open" /\ copy[f] # None
      BY <1>1, <1>4, <2>5 DEF FixFails
    <3>3. copy[f] \in Seq(Cell) /\ disk[f] \in Seq(Cell)
      BY <1>1, <3>2 DEF MsfsIInv, TypeOK, Present
    <3>4. disk[f] # None
      BY <3>3, HandleAssumption
    <3>5. h.mode = "trunc" /\ h.first = n /\ h.first # None /\ h.file = f
      BY <1>1, <2>5, <3>2, HandleOfType, HandleAssumption DEF InOrder
    <3> DEFINE c == disk[f]
               m == IF n > Len(c) THEN n ELSE Len(c)
    <3>6. /\ CopiedBack(d) \in [1 .. m -> Cell]
          /\ \A i \in n + 1 .. Len(c) : CopiedBack(d)[i] = c[i]
      BY <1>1, <2>5, <3>3, CopiedBackIs
    <3> DEFINE new == CopiedBack(d)
    <3> HIDE DEF new, h, d
    <3>7. Game!Close(s)
      BY <1>2, <2>2, <2>3, <3>1, <3>4, <3>5, <3>6 DEF Game!Close, new
    <3> QED
      BY <3>7 DEF FilesStep, Game!Next
  <2> QED
    BY <2>4, <2>5
<1> QED
  BY <1>3, <1>4

LEMMA RemoveSeen ==
    ASSUME MsfsIInv, NEW f \in File, Remove(f)
    PROVE  FilesStep
<1>1. /\ request = None /\ disk' = [disk EXCEPT ![f] = None]
      /\ UNCHANGED <<table, saved, request>>
  BY DEF Remove
<1>2. Game!Remove(f)
  BY <1>1, SeenNow, Primed DEF Game!Remove
<1> QED
  BY <1>2 DEF FilesStep, Game!Next

LEMMA CloseAllSeen ==
    ASSUME MsfsIInv, CloseAllDescriptors
    PROVE  FilesStep
<1>1. /\ request = None /\ table' = [s \in Slot |-> None]
      /\ UNCHANGED <<disk, saved, request>>
  BY DEF CloseAllDescriptors
<1>2. Seen(table') = [s \in Slot |-> None]
  BY <1>1 DEF Seen
<1>3. Game!CloseAll
  BY <1>1, <1>2, SeenNow, Primed DEF Game!CloseAll
<1> QED
  BY <1>3 DEF FilesStep, Game!Next

(* Sleep changes nothing that the PSP sees.                                *)
LEMMA StandbySeen ==
    ASSUME MsfsIInv, Standby
    PROVE  FilesStep
<1>1. /\ UNCHANGED <<disk, saved, request>>
      /\ table' = [s \in Slot |-> IF Used(s) /\ table[s].fd = "open"
                                    THEN [table[s] EXCEPT !.fd = "nodev"] ELSE table[s]]
  BY DEF Standby
<1>2. \A d \in Descriptor : d.fd = "open" => /\ [d EXCEPT !.fd = "nodev"] \in Descriptor
                                             /\ HandleOf([d EXCEPT !.fd = "nodev"]) = HandleOf(d)
  <2> SUFFICES ASSUME NEW d \in Descriptor, d.fd = "open"
               PROVE  /\ [d EXCEPT !.fd = "nodev"] \in Descriptor
                      /\ HandleOf([d EXCEPT !.fd = "nodev"]) = HandleOf(d)
    OBVIOUS
  <2> DEFINE e == [d EXCEPT !.fd = "nodev"]
  <2>1. /\ e \in Descriptor /\ e.fd = "nodev" /\ e.offset = d.offset /\ e.file = d.file
        /\ e.flags = d.flags /\ e.first_write = d.first_write
        /\ e.first_write_offset = d.first_write_offset
    BY DEF Descriptor, Fd
  <2> HIDE DEF e
  <2>2. HandleOf(e) = HandleOf(d)
    BY <2>1 DEF HandleOf
  <2> QED
    BY <2>1, <2>2 DEF e
<1>3. \A s \in Slot : /\ table'[s] = None <=> table[s] = None
                      /\ table[s] # None => HandleOf(table'[s]) = HandleOf(table[s])
  <2> SUFFICES ASSUME NEW s \in Slot
               PROVE  /\ table'[s] = None <=> table[s] = None
                      /\ table[s] # None => HandleOf(table'[s]) = HandleOf(table[s])
    OBVIOUS
  <2>1. CASE table[s] # None /\ table[s].fd = "open"
    <3>1. table'[s] = [table[s] EXCEPT !.fd = "nodev"] /\ table[s] \in Descriptor
      BY <2>1, <1>1 DEF Used, MsfsIInv, TypeOK
    <3> QED
      BY <2>1, <3>1, <1>2, NoneAssumption
  <2>2. CASE ~ (table[s] # None /\ table[s].fd = "open")
    BY <2>2, <1>1 DEF Used
  <2> QED
    BY <2>1, <2>2
<1>4. Seen(table') = Seen(table)
  BY <1>3 DEF Seen
<1> QED
  BY <1>1, <1>4, Primed DEF FilesStep

(* Saving keeps the handles; whether they are lost is settled at loading.  *)
LEMMA SaveSeen ==
    ASSUME MsfsIInv, SaveDescriptors
    PROVE  FilesStep
<1>1. /\ request = None /\ UNCHANGED <<disk, table, request>>
      /\ saved' = [s \in Slot |-> IF Used(s) THEN Restored(table[s], TRUE) ELSE None]
  BY DEF SaveDescriptors
<1>2. ASSUME NEW d \in Descriptor
      PROVE  /\ Restored(d, TRUE) \in Descriptor
             /\ HandleOf(Restored(d, TRUE)) = [HandleOf(d) EXCEPT !.lost = FALSE]
  <2> DEFINE e == Restored(d, TRUE)
  <2>1. /\ e \in Descriptor /\ e.fd = "open" /\ e.offset = d.offset /\ e.file = d.file
        /\ e.flags = d.flags /\ e.first_write = d.first_write
        /\ e.first_write_offset = d.first_write_offset
    BY DEF Restored, Descriptor, Fd
  <2> HIDE DEF e
  <2>2. HandleOf(e) = [HandleOf(d) EXCEPT !.lost = FALSE]
    BY <2>1, LostHandle
  <2> QED
    BY <2>1, <2>2 DEF e
<1>3. saved' \in [Slot -> Descriptor \cup {None}]
  BY <1>1, <1>2 DEF MsfsIInv, TypeOK, Used
<1>4. saved' # None
  BY <1>3, NoneAssumption
<1>5. \A s \in Slot : Seen(saved')[s] = IF Seen(table)[s] = None THEN None
                                        ELSE [Seen(table)[s] EXCEPT !.lost = FALSE]
  <2> SUFFICES ASSUME NEW s \in Slot
               PROVE  Seen(saved')[s] = IF Seen(table)[s] = None THEN None
                                        ELSE [Seen(table)[s] EXCEPT !.lost = FALSE]
    OBVIOUS
  <2>1. Seen(saved')[s] = IF saved'[s] = None THEN None ELSE HandleOf(saved'[s])
    BY <1>3, SeenAt
  <2>2. CASE Used(s)
    BY <2>1, <2>2, <1>1, <1>2, SeenNow, NoneAssumption
  <2>3. CASE ~ Used(s)
    BY <2>1, <2>3, <1>1, SeenNow
  <2> QED
    BY <2>2, <2>3
<1>6. SeenSaved(saved)' = [s \in Slot |-> IF Seen(table)[s] = None THEN None
                                          ELSE [Seen(table)[s] EXCEPT !.lost = FALSE]]
  BY <1>4, <1>5, Primed DEF SeenSaved, Seen
<1>7. Game!Save
  BY <1>1, <1>6, SeenNow, Primed DEF Game!Save
<1> QED
  BY <1>7 DEF FilesStep, Game!Next

(* Loading: every handle comes back, lost if its file is missing, and      *)
(* opening it again may create or empty the file.                          *)
LEMMA LoadSeen ==
    ASSUME MsfsIInv, Orderly, SetFileDescriptors
    PROVE  FilesStep
<1> DEFINE There(s) == \/ disk[saved[s].file] # None
                       \/ Recreates(s)
                       \/ \E t \in SavedOn(saved[s].file) : t < s /\ Recreates(t)
           kept == SeenSaved(saved)
           Missing == {s \in Slot : saved[s] # None /\ ~ There(s)}
<1>1. /\ request = None /\ saved # None /\ UNCHANGED <<saved, request>>
      /\ disk' = [f \in File |->
            IF \E s \in SavedOn(f) : saved[s].flags = "trunc" THEN <<>>
            ELSE IF \E s \in SavedOn(f) : Recreates(s) THEN IoOpen(disk[f], "update")
            ELSE disk[f]]
      /\ table' = [s \in Slot |-> IF saved[s] = None THEN None ELSE Restored(saved[s], There(s))]
  BY DEF SetFileDescriptors
<1>2. saved \in [Slot -> Descriptor \cup {None}]
  BY <1>1 DEF MsfsIInv, TypeOK
<1>3. /\ kept \in [Slot -> Handle \cup {None}]
      /\ \A s \in Slot : kept[s] = IF saved[s] = None THEN None ELSE HandleOf(saved[s])
      /\ \A s \in Slot : kept[s] = None <=> saved[s] = None
      /\ kept # None /\ UNCHANGED SeenSaved(saved)
  <2>1. kept = Seen(saved)
    BY <1>1 DEF SeenSaved
  <2> QED
    BY <1>1, <1>2, <2>1, SeenAt, HandleAssumption, Primed
<1>4. \A s \in Slot : saved[s] # None =>
        /\ saved[s] \in Descriptor /\ saved[s].fd = "open"
        /\ kept[s].file = saved[s].file /\ kept[s].mode = saved[s].flags
  BY <1>1, <1>2, <1>3, HandleOfType DEF Orderly
<1>5. \A f \in File : disk'[f] = Game!Reopened(f)
  <2> SUFFICES ASSUME NEW f \in File
               PROVE  disk'[f] = Game!Reopened(f)
    OBVIOUS
  <2> DEFINE modes == {kept[s].mode : s \in {t \in Slot : kept[t] # None /\ kept[t].file = f}}
  <2>1. Game!Reopened(f) = IF "trunc" \in modes THEN <<>>
                           ELSE IF "update" \in modes THEN Game!Opened(disk[f], "update")
                           ELSE disk[f]
    BY <1>3, Zenon DEF Game!Reopened
  <2>2. SavedOn(f) = {t \in Slot : kept[t] # None /\ kept[t].file = f}
    BY <1>3, <1>4 DEF SavedOn
  <2>3. "trunc" \in modes <=> \E s \in SavedOn(f) : saved[s].flags = "trunc"
    BY <1>4, <2>2 DEF SavedOn
  <2>4. "update" \in modes \/ "trunc" \in modes <=> \E s \in SavedOn(f) : Recreates(s)
    BY <1>4, <2>2 DEF SavedOn, Recreates, Descriptor, Flag
  <2>5. Game!Opened(disk[f], "update") = IoOpen(disk[f], "update")
    BY DEF Game!Opened, IoOpen
  <2> HIDE DEF modes
  <2> QED
    BY <1>1, <2>1, <2>3, <2>4, <2>5
<1>6. disk' = [f \in File |-> Game!Reopened(f)]
  BY <1>1, <1>5
<1>7. Missing \in SUBSET {s \in Slot : kept[s] # None /\ Game!Missing(kept[s])}
  <2> SUFFICES ASSUME NEW s \in Missing
               PROVE  kept[s] # None /\ Game!Missing(kept[s])
    OBVIOUS
  <2>1. s \in Slot /\ saved[s] # None /\ disk[saved[s].file] = None /\ saved[s].flags = "read"
    BY DEF Recreates
  <2> HIDE DEF Missing, There, kept
  <2> QED
    BY <2>1, <1>3, <1>4 DEF Game!Missing
<1>8. ASSUME NEW d \in Descriptor, d.fd = "open"
      PROVE  /\ Restored(d, TRUE) \in Descriptor /\ Restored(d, FALSE) \in Descriptor
             /\ HandleOf(Restored(d, TRUE)) = [HandleOf(d) EXCEPT !.lost = FALSE]
             /\ HandleOf(Restored(d, FALSE)) = [HandleOf(d) EXCEPT !.lost = TRUE]
  <2> DEFINE e(b) == Restored(d, b)
  <2>1. /\ e(TRUE) \in Descriptor /\ e(TRUE).fd = "open" /\ e(TRUE).offset = d.offset
        /\ e(TRUE).file = d.file /\ e(TRUE).flags = d.flags
        /\ e(TRUE).first_write = d.first_write
        /\ e(TRUE).first_write_offset = d.first_write_offset
    BY DEF Restored, Descriptor, Fd
  <2>2. /\ e(FALSE) \in Descriptor /\ e(FALSE).fd = "error" /\ e(FALSE).offset = d.offset
        /\ e(FALSE).file = d.file /\ e(FALSE).flags = d.flags
        /\ e(FALSE).first_write = d.first_write
        /\ e(FALSE).first_write_offset = d.first_write_offset
    BY DEF Restored, Descriptor, Fd
  <2> HIDE DEF e
  <2>3. HandleOf(e(TRUE)) = [HandleOf(d) EXCEPT !.lost = FALSE]
    BY <2>1, LostHandle
  <2>4. HandleOf(e(FALSE)) = [HandleOf(d) EXCEPT !.lost = TRUE]
    BY <2>2, LostHandle
  <2> QED
    BY <2>1, <2>2, <2>3, <2>4 DEF e
<1>9. table' \in [Slot -> Descriptor \cup {None}]
  BY LoadKeeps DEF MsfsIInv, TypeOK
<1>10. \A s \in Slot : Seen(table')[s] = IF kept[s] = None THEN None
                                         ELSE [kept[s] EXCEPT !.lost = s \in Missing]
  <2> SUFFICES ASSUME NEW s \in Slot
               PROVE  Seen(table')[s] = IF kept[s] = None THEN None
                                        ELSE [kept[s] EXCEPT !.lost = s \in Missing]
    OBVIOUS
  <2>1. Seen(table')[s] = IF table'[s] = None THEN None ELSE HandleOf(table'[s])
    BY <1>9, SeenAt
  <2>2. CASE saved[s] = None
    BY <2>1, <2>2, <1>1, <1>3
  <2>3. CASE saved[s] # None /\ There(s)
    <3>1. table'[s] = Restored(saved[s], TRUE)
      BY <2>3, <1>1 DEF Restored
    <3> HIDE DEF There, kept
    <3>2. Seen(table')[s] = [kept[s] EXCEPT !.lost = FALSE]
      <4>1. /\ saved[s] \in Descriptor /\ kept[s] = HandleOf(saved[s])
            /\ saved[s].fd = "open"
        BY <2>3, <1>3, <1>4
      <4>2. /\ table'[s] \in Descriptor
            /\ HandleOf(table'[s]) = [HandleOf(saved[s]) EXCEPT !.lost = FALSE]
        BY ONLY <4>1, <3>1, <1>8, Zenon
      <4>3. Seen(table')[s] = HandleOf(table'[s])
        BY <2>1, <4>2, NoneAssumption
      <4> QED
        BY ONLY <4>1, <4>2, <4>3, Zenon
    <3>3. (s \in Missing) = FALSE
      BY <2>3
    <3> QED
      BY <2>3, <3>2, <3>3, <1>3
  <2>4. CASE saved[s] # None /\ ~ There(s)
    <3>1. table'[s] = Restored(saved[s], FALSE)
      BY <2>4, <1>1 DEF Restored
    <3> HIDE DEF There, kept
    <3>2. Seen(table')[s] = [kept[s] EXCEPT !.lost = TRUE]
      <4>1. /\ saved[s] \in Descriptor /\ kept[s] = HandleOf(saved[s])
            /\ saved[s].fd = "open"
        BY <2>4, <1>3, <1>4
      <4>2. /\ table'[s] \in Descriptor
            /\ HandleOf(table'[s]) = [HandleOf(saved[s]) EXCEPT !.lost = TRUE]
        BY ONLY <4>1, <3>1, <1>8, Zenon
      <4>3. Seen(table')[s] = HandleOf(table'[s])
        BY <2>1, <4>2, NoneAssumption
      <4> QED
        BY ONLY <4>1, <4>2, <4>3, Zenon
    <3>3. (s \in Missing) = TRUE
      BY <2>4
    <3> QED
      BY <2>4, <3>2, <3>3, <1>3
  <2> QED
    BY <2>2, <2>3, <2>4
<1> HIDE DEF Missing, There, kept
<1>11. Seen(table)' = [s \in Slot |-> IF kept[s] = None THEN None
                                      ELSE [kept[s] EXCEPT !.lost = s \in Missing]]
  BY <1>10, Primed DEF Seen
<1>12. Transfer(request) = None /\ UNCHANGED Transfer(request)
  BY <1>1, SeenNow, Primed
<1>13. \E lost \in SUBSET {s \in Slot : kept[s] # None /\ Game!Missing(kept[s])} :
          Seen(table)' = [s \in Slot |-> IF kept[s] = None THEN None
                                         ELSE [kept[s] EXCEPT !.lost = s \in lost]]
  BY <1>7, <1>11, Zenon
<1>14. Game!Load
  BY <1>3, <1>6, <1>12, <1>13 DEF Game!Load, kept
<1> QED
  BY <1>14 DEF FilesStep, Game!Next

LEMMA StartSeen == Init => Game!Init
<1> SUFFICES ASSUME Init PROVE Game!Init
  OBVIOUS
<1>1. disk \in [File -> (UNION {[1 .. n -> Cell] : n \in 0 .. MaxLen}) \cup {None}]
  <2>1. [1 .. MaxLen -> Cell \ {Hole, Junk}] \subseteq [1 .. MaxLen -> Cell]
    OBVIOUS
  <2>2. MaxLen \in 0 .. MaxLen
    BY BoundAssumption
  <2>3. [1 .. MaxLen -> Cell] \in {[1 .. n -> Cell] : n \in 0 .. MaxLen}
    BY <2>2, Zenon
  <2> DEFINE Contents == {[1 .. n -> Cell] : n \in 0 .. MaxLen}
  <2> HIDE DEF Contents
  <2>4. ASSUME NEW c \in StartContents
        PROVE  c \in (UNION Contents) \cup {None}
    <3> DEFINE S == [1 .. MaxLen -> Cell]
    <3>1. c = None \/ c \in S
      BY <2>1 DEF StartContents
    <3>2. S \in Contents
      BY <2>3 DEF Contents
    <3> HIDE DEF S
    <3> QED
      BY <3>1, <3>2
  <2> QED
    BY <2>4 DEF Init, Contents
<1>2. Seen(table) = [s \in Slot |-> None]
  BY DEF Init, Seen
<1>3. SeenSaved(saved) = None /\ Transfer(request) = None
  BY DEF Init, SeenSaved, Transfer
<1> QED
  BY <1>1, <1>2, <1>3 DEF Game!Init

(* Whatever the Vita does between two calls, and between two rounds of one *)
(* (sleep, reopening in ReopenFile(), states saved and loaded), the PSP's  *)
(* handles stay on their files and at their positions, a transfer moves    *)
(* the cells there, and only a handle whose file is gone is lost.          *)
THEOREM FilesAreThePsps == Spec => ImplementsPspFiles
<1>1. Init => Orderly
  BY DEF Init, Orderly, Used
<1>2. MsfsIInv /\ Orderly /\ [Next]_vars => [Game!Next]_Game!vars
  <2> SUFFICES ASSUME MsfsIInv, Orderly, [Next]_vars
               PROVE  FilesStep
    BY FilesStepIs
  <2>1. ASSUME NEW f \in File, NEW flags \in Flag, Open(f, flags) PROVE FilesStep
    BY <2>1, OpenSeen
  <2>2. ASSUME NEW s \in Slot, NEW n \in 1 .. MaxLen, Read(s, n) PROVE FilesStep
    BY <2>2, ReadSeen
  <2>3. ASSUME NEW s \in Slot, NEW n \in 1 .. MaxLen, NEW v \in Cell \ {Hole, Junk},
               Write(s, n, v)
        PROVE  FilesStep
    BY <2>3, WriteSeen
  <2>4. CASE ReadRound \/ WriteRound \/ Respond
    BY <2>4, ReadRoundSeen, WriteRoundSeen, RespondSeen
  <2>5. ASSUME NEW s \in Slot, NEW whence \in {"set", "cur", "end"}, NEW by \in 0 .. MaxLen,
               Lseek(s, whence, by)
        PROVE  FilesStep
    BY <2>5, LseekSeen
  <2>6. ASSUME NEW s \in Slot, Close(s) PROVE FilesStep
    BY <2>6, CloseSeen
  <2>7. ASSUME NEW f \in File, Remove(f) PROVE FilesStep
    BY <2>7, RemoveSeen
  <2>8. CASE CloseAllDescriptors \/ SaveDescriptors \/ SetFileDescriptors \/ Standby
    BY <2>8, CloseAllSeen, SaveSeen, LoadSeen, StandbySeen
  <2>9. CASE UNCHANGED vars
    BY <2>9, Primed DEF vars, FilesStep
  <2> QED
    BY <2>1, <2>2, <2>3, <2>4, <2>5, <2>6, <2>7, <2>8, <2>9 DEF Next, Serve
<1> QED
  BY <1>1, <1>2, StartSeen, OrderlyStep, InvariantHolds, PTL
     DEF Spec, Game!Spec, ImplementsPspFiles

=============================================================================
