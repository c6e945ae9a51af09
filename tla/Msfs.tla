-------------------------------- MODULE Msfs --------------------------------
(***************************************************************************)
(* The Vita side of ms0:, user/msfs.c: the table of open files, the copy   *)
(* kept of a file opened with truncation, and opening files again after    *)
(* the Vita slept and after a state was loaded (user/main.c). One thread   *)
(* serves one request of the PSP at a time. Directories are left out.      *)
(*                                                                         *)
(* The Vita's own files are external: contents are sequences of cells, an  *)
(* opened file can be neither renamed nor removed, and sleep makes every   *)
(* open descriptor answer ENODEV.                                          *)
(***************************************************************************)
EXTENDS Integers, Sequences, FiniteSets

CONSTANTS
    File,       \* names of files
    Slot,       \* indices of the descriptor table, MAX_DESCRIPTORS of them
    MaxLen,     \* bound on the length of a file
    MaxOpens,   \* bound: so many opens get a descriptor in a behaviour
    MaxSaved,   \* bound: a state is saved with so many files open at most
    Cell,       \* what a cell of a file can hold
    Hole,       \* the cell that nobody wrote
    Junk,       \* what a buffer holds before it is filled
    None        \* no file, descriptor, request or saved state

ASSUME SlotAssumption == Slot \subseteq Nat /\ Slot # {}
ASSUME CellAssumption == {Hole, Junk} \subseteq Cell

VARIABLES
    disk,       \* the files: name -> contents, or None
    copy,       \* the files named *__TRUNC__
    table,      \* descriptor_list: slot -> descriptor, or None when fd = 0
    saved,      \* the table in the save state, or None
    request,    \* the read or write being served, or None
    before,     \* history: slot -> what truncation put aside, while undisturbed
    opens       \* how many opens are left, see MaxOpens

vars == <<disk, copy, table, saved, request, before, opens>>

Flag == {"read", "update", "trunc"}  \* RDONLY, RDWR|CREAT, WRONLY|CREAT|TRUNC

(* What a descriptor's fd is for the Vita: open, ENODEV, or an error code. *)
Fd == {"open", "nodev", "error"}

Descriptor ==
    [file : File, flags : Flag, trunc : BOOLEAN, fd : Fd, pos : Nat, offset : Nat,
     first_write : BOOLEAN, first_write_offset : Nat]

Request == [op : {"read", "write"}, slot : Slot, left : Nat, got : Seq(Cell)]

ASSUME NoneAssumption ==
    /\ None \notin Descriptor
    /\ None \notin Request
    /\ None \notin [Slot -> Descriptor \cup {None}]
ASSUME BoundAssumption == {MaxLen, MaxOpens, MaxSaved} \subseteq Nat

Used(s) == table[s] # None
OpenOn(f) == \E s \in Slot : Used(s) /\ table[s].file = f /\ table[s].fd = "open"

InTable(f) == \E s \in Slot : Used(s) /\ table[s].file = f

Put(c, p, v) ==
    [i \in 1 .. (IF p + 1 > Len(c) THEN p + 1 ELSE Len(c)) |->
        IF i = p + 1 THEN v ELSE IF i > Len(c) THEN Hole ELSE c[i]]

(* sceIoOpen: the contents of the file afterwards, None if it fails.       *)
IoOpen(c, flags) ==
    CASE flags = "read"   -> c
      [] flags = "update" -> IF c = None THEN <<>> ELSE c
      [] flags = "trunc"  -> <<>>

-----------------------------------------------------------------------------
(* ScePspemuMsfsOpen: a file opened with truncation is renamed first, if   *)
(* it exists, has no such copy yet and is not open.                        *)
(* Mutant: an older copy is replaced.                                      *)
PutsAsideAgain(f, flags) == flags = "trunc" /\ disk[f] # None
PutsAside(f, flags) ==
    flags = "trunc" /\ disk[f] # None /\ copy[f] = None /\ ~ OpenOn(f)

(* ScePspemuMsfsAddDescriptor takes the first free slot.                   *)
FirstFree(s) == ~ Used(s) /\ \A t \in Slot : t < s => Used(t)

NewDescriptor(f, flags, trunc) ==
    [file |-> f, flags |-> flags, trunc |-> trunc, fd |-> "open",
     pos |-> 0,                         \* the Vita's own position
     offset |-> 0, first_write |-> FALSE, first_write_offset |-> 0]

Open(f, flags) ==
    /\ request = None
    /\ IoOpen(disk[f], flags) # None
    /\ disk' = [disk EXCEPT ![f] = IoOpen(@, flags)]
    /\ copy' = IF PutsAside(f, flags) THEN [copy EXCEPT ![f] = disk[f]] ELSE copy
    /\ \/ \E s \in Slot :
            /\ FirstFree(s) /\ opens > 0
            /\ opens' = opens - 1
            /\ table' = [table EXCEPT ![s] =
                            NewDescriptor(f, flags, PutsAside(f, flags))]
            /\ before' = [before EXCEPT ![s] =
                            IF PutsAside(f, flags) /\ ~ InTable(f) THEN disk[f]
                            ELSE None]
       \/ /\ \A s \in Slot : Used(s)    \* -1 for the PSP, the file stays open
          /\ UNCHANGED <<table, before, opens>>
    /\ UNCHANGED <<saved, request>>

(* ScePspemuMsfsReopenFile opens with the flags of the first open.         *)
ReopenedFile(d) == IoOpen(disk[d.file], d.flags)

(* A descriptor after ReopenFile, which looks at neither fd nor position.  *)
(* Mutant: without the seek.                                               *)
RestoredAtStart(d, there) ==
    IF there THEN [d EXCEPT !.fd = "open", !.pos = 0]
    ELSE [d EXCEPT !.fd = "error"]
Restored(d, there) ==
    IF there THEN [d EXCEPT !.fd = "open", !.pos = d.offset]
    ELSE [d EXCEPT !.fd = "error"]

(* The descriptor and its file after a call that was answered ENODEV.      *)
Revived(d) == IF d.fd = "nodev" THEN Restored(d, ReopenedFile(d) # None) ELSE d
RevivedFile(d) ==
    IF d.fd = "nodev" THEN ReopenedFile(d) ELSE disk[d.file]

(* ScePspemuMsfsRead and ScePspemuMsfsWrite, up to their loops. The game   *)
(* reads and writes only what it opened for that. Where the first write    *)
(* was is kept only for the descriptors whose close looks at it.           *)
Read(s, n) ==
    /\ request = None /\ Used(s) /\ table[s].flags # "trunc"
    /\ request' = [op |-> "read", slot |-> s, left |-> n, got |-> <<>>]
    /\ UNCHANGED <<disk, copy, table, saved, before, opens>>

Write(s, n, v) ==
    /\ request = None /\ Used(s) /\ table[s].flags # "read"
    /\ table[s].offset + n <= MaxLen
    /\ request' = [op |-> "write", slot |-> s, left |-> n, got |-> <<v>>]
    /\ table' = IF table[s].first_write \/ ~ table[s].trunc THEN table
                ELSE [table EXCEPT ![s].first_write = TRUE,
                                   ![s].first_write_offset = table[s].offset]
    /\ UNCHANGED <<disk, copy, saved, before, opens>>

(* One round of the loop, MAX_IO_SIZE bytes: one cell. The Vita may sleep  *)
(* between two rounds.                                                     *)
ReadRound ==
    /\ request # None /\ request.op = "read" /\ request.left > 0
    /\ LET s == request.slot
           d == Revived(table[s])
           c == RevivedFile(table[s])
       IN  /\ disk' = [disk EXCEPT ![d.file] = c]
           /\ \/ /\ d.fd = "open" /\ d.pos < Len(c)
                 /\ request' = [request EXCEPT !.left = @ - 1,
                                               !.got = Append(@, c[d.pos + 1])]
                 /\ table' = [table EXCEPT ![s] =
                        [d EXCEPT !.pos = @ + 1, !.offset = @ + 1]]
              \/ /\ d.fd = "open" /\ d.pos >= Len(c)
                 /\ request' = [request EXCEPT !.left = 0]
                 /\ table' = [table EXCEPT ![s] = d]
              \/ /\ d.fd # "open"
                 /\ request' = None
                 /\ table' = [table EXCEPT ![s] = d]
    /\ UNCHANGED <<copy, saved, before, opens>>

WriteRound ==
    /\ request # None /\ request.op = "write" /\ request.left > 0
    /\ LET s == request.slot
           d == Revived(table[s])
           c == RevivedFile(table[s])
       IN  \/ /\ d.fd = "open"
              /\ disk' = [disk EXCEPT ![d.file] = Put(c, d.pos, request.got[1])]
              /\ request' = [request EXCEPT !.left = @ - 1]
              /\ table' = [table EXCEPT ![s] =
                     [d EXCEPT !.pos = @ + 1, !.offset = @ + 1]]
           \/ /\ d.fd # "open"
              /\ disk' = [disk EXCEPT ![d.file] = c]
              /\ request' = None
              /\ table' = [table EXCEPT ![s] = d]
    /\ UNCHANGED <<copy, saved, before, opens>>

Respond ==
    /\ request # None /\ request.left = 0
    /\ request' = None
    /\ UNCHANGED <<disk, copy, table, saved, before, opens>>

(* ScePspemuMsfsLseek, from the start, the current position or the end.    *)
SeekTo(d, c, whence, by) ==
    by + (CASE whence = "set" -> 0 [] whence = "cur" -> d.pos [] whence = "end" -> Len(c))

Lseek(s, whence, by) ==
    /\ request = None /\ Used(s)
    /\ LET d  == Revived(table[s])
           c  == RevivedFile(table[s])
       IN  /\ disk' = [disk EXCEPT ![d.file] = c]
           /\ IF d.fd = "open"
                THEN LET to == SeekTo(d, c, whence, by)
                     IN  /\ to <= MaxLen
                         /\ table' = [table EXCEPT ![s] =
                                        [d EXCEPT !.pos = to, !.offset = to]]
                ELSE table' = [table EXCEPT ![s] = d]
    /\ UNCHANGED <<copy, saved, request, before, opens>>

(* ScePspemuMsfsTruncateFix copies the first cells, up to the first write, *)
(* back from the renamed file, whole buffers whatever was read.            *)
FixFails(d) ==
    copy[d.file] = None \/ (d.first_write_offset > 0 /\ d.fd # "open")

(* Mutant: the last cell before the first write is not copied.             *)
CopiedBackButLast(d) ==
    LET c == disk[d.file]
        n == d.first_write_offset
        old == copy[d.file]
    IN  IF n = 0 THEN c
        ELSE [i \in 1 .. (IF n > Len(c) THEN n ELSE Len(c)) |->
                IF i >= n THEN c[i] ELSE IF i > Len(old) THEN Junk ELSE old[i]]
CopiedBack(d) ==
    LET c == disk[d.file]
        n == d.first_write_offset
        old == copy[d.file]
    IN  IF n = 0 THEN c
        ELSE [i \in 1 .. (IF n > Len(c) THEN n ELSE Len(c)) |->
                IF i > n THEN c[i] ELSE IF i > Len(old) THEN Junk ELSE old[i]]

(* ScePspemuMsfsClose. The copy goes, whether it was put back or not.      *)
Close(s) ==
    /\ request = None /\ Used(s)
    /\ LET d == table[s]
           fails == d.trunc /\ FixFails(d)
           keeps == fails \/ d.fd = "error"   \* ENODEV is faked as success
       IN  /\ copy' = IF d.trunc THEN [copy EXCEPT ![d.file] = None] ELSE copy
           /\ disk' = IF d.trunc /\ ~ fails
                        THEN [disk EXCEPT ![d.file] = CopiedBack(d)] ELSE disk
           /\ table' = IF keeps THEN table ELSE [table EXCEPT ![s] = None]
           /\ before' = [before EXCEPT ![s] = None]
    /\ UNCHANGED <<saved, request, opens>>

(* ScePspemuMsfsRemove. A rename takes the file away in the same way.      *)
Remove(f) ==
    /\ request = None /\ disk[f] # None /\ ~ OpenOn(f)
    /\ disk' = [disk EXCEPT ![f] = None]
    /\ UNCHANGED <<copy, table, saved, request, before, opens>>

(* ScePspemuMsfsInit and ScePspemuMsfsExit: the PSP starts again.          *)
CloseAllDescriptors ==
    /\ request = None
    /\ table' = [s \in Slot |-> None]
    /\ before' = [s \in Slot |-> None]
    /\ UNCHANGED <<disk, copy, saved, request, opens>>

(* The table's part of SaveState and LoadState. All of the saved table's   *)
(* files are opened again, in order, with their first flags.               *)
SaveDescriptors ==
    /\ request = None
    /\ Cardinality({s \in Slot : Used(s)}) <= MaxSaved
    /\ saved' = [s \in Slot |-> IF Used(s) THEN Restored(table[s], TRUE) ELSE None]
    /\ UNCHANGED <<disk, copy, table, request, before, opens>>

SavedOn(f) == {s \in Slot : saved[s] # None /\ saved[s].file = f}
Recreates(s) == saved[s].flags # "read"

SetFileDescriptors ==
    /\ request = None /\ saved # None
    /\ disk' = [f \in File |->
          IF \E s \in SavedOn(f) : saved[s].flags = "trunc" THEN <<>>
          ELSE IF \E s \in SavedOn(f) : Recreates(s) THEN IoOpen(disk[f], "update")
          ELSE disk[f]]
    /\ table' = [s \in Slot |->
          IF saved[s] = None THEN None
          ELSE LET d == saved[s]
                   there == \/ disk[d.file] # None
                            \/ Recreates(s)
                            \/ \E t \in SavedOn(d.file) : t < s /\ Recreates(t)
               IN  Restored(d, there)]
    /\ before' = [s \in Slot |-> None]
    /\ UNCHANGED <<copy, saved, request, opens>>

(* The Vita sleeps and wakes up.                                           *)
Standby ==
    /\ table' = [s \in Slot |->
          IF Used(s) /\ table[s].fd = "open" THEN [table[s] EXCEPT !.fd = "nodev"]
          ELSE table[s]]
    /\ before' = [s \in Slot |-> None]
    /\ UNCHANGED <<disk, copy, saved, request, opens>>

(* A game finds files that it wrote before.                                *)
StartContents == {None} \cup [1 .. MaxLen -> Cell \ {Hole, Junk}]

Init ==
    /\ disk \in [File -> StartContents]
    /\ opens = MaxOpens
    /\ copy = [f \in File |-> None]
    /\ table = [s \in Slot |-> None]
    /\ saved = None
    /\ request = None
    /\ before = [s \in Slot |-> None]

Serve ==
    \/ \E f \in File, flags \in Flag : Open(f, flags)
    \/ \E s \in Slot, n \in 1 .. MaxLen : Read(s, n)
    \/ \E s \in Slot, n \in 1 .. MaxLen, v \in Cell \ {Hole, Junk} : Write(s, n, v)
    \/ ReadRound \/ WriteRound \/ Respond
    \/ \E s \in Slot, whence \in {"set", "cur", "end"}, by \in 0 .. MaxLen :
            Lseek(s, whence, by)
    \/ \E s \in Slot : Close(s)
    \/ \E f \in File : Remove(f)
    \/ CloseAllDescriptors

Next == Serve \/ SaveDescriptors \/ SetFileDescriptors \/ Standby

Spec == Init /\ [][Next]_vars

-----------------------------------------------------------------------------
(* The types of the variables.                                             *)
TypeOK ==
    /\ disk \in [File -> Seq(Cell) \cup {None}]
    /\ copy \in [File -> Seq(Cell) \cup {None}]
    /\ table \in [Slot -> Descriptor \cup {None}]
    /\ saved \in [Slot -> Descriptor \cup {None}] \cup {None}
    /\ request \in Request \cup {None}
    /\ before \in [Slot -> Seq(Cell) \cup {None}]
    /\ opens \in Nat

(* What a truncating open put aside is there until its descriptor is       *)
(* closed, if the Vita does not sleep and no state is loaded and no older  *)
(* descriptor of the file was left: no other open, rename or close takes   *)
(* the copy away (msfs.c, Open and Close).                                 *)
AsideKept ==
    \A s \in Slot : before[s] # None =>
        Used(s) /\ copy[table[s].file] = before[s]

(* Closing such a descriptor succeeds, and the file then starts with what  *)
(* it held before the truncation, up to the first write.                   *)
PrefixRestored ==
    [][\A s \in Slot : before[s] # None /\ Close(s) =>
         /\ table'[s] = None
         /\ \A i \in 1 .. table[s].first_write_offset :
                i <= Len(before[s]) => disk'[table[s].file][i] = before[s][i]]_vars

(* Closing a truncated file copies back only what truncation took: a cell  *)
(* written since keeps what was written ("Truncation on vita sets          *)
(* everything to 0 / This doesn't happen on PSP though, so we need to copy *)
(* back the data", msfs.c:268).                                            *)
WrittenStays ==
    [][\A s \in Slot : Close(s) =>
         LET f == table[s].file
         IN  disk[f] # None => \A i \in 1 .. Len(disk[f]) :
                disk[f][i] # Hole => disk'[f][i] = disk[f][i]]_vars

(* Sleeping, waking up and opening files again change nothing a game can   *)
(* see but lost handles of removed files and emptied truncated files.      *)
Handle ==
    [file : File, pos : Nat, mode : Flag, first : Nat \cup {None}, lost : BOOLEAN]

HandleOf(d) ==
    [file |-> d.file, pos |-> d.offset, mode |-> d.flags,
     first |-> IF d.first_write THEN d.first_write_offset ELSE None,
     lost |-> d.fd = "error"]

Seen(t) == [s \in Slot |-> IF t[s] = None THEN None ELSE HandleOf(t[s])]
SeenSaved(t) == IF t = None THEN None ELSE Seen(t)
Transfer(r) ==
    IF r = None THEN None
    ELSE [r EXCEPT !.got = IF r.op = "read" THEN @ ELSE <<>>]

ASSUME HandleAssumption ==
    None \notin Handle \cup [Slot -> Handle \cup {None}] \cup Nat \cup Seq(Cell)

Game == INSTANCE PspFiles WITH
    files   <- disk,
    handles <- Seen(table),
    kept    <- SeenSaved(saved),
    moving  <- Transfer(request)

ImplementsPspFiles == Game!Spec

=============================================================================
