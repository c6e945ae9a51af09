------------------------------ MODULE PspFiles ------------------------------
(***************************************************************************)
(* What a game on the PSP may expect of the memory stick behind Adrenaline *)
(* while the Vita goes to sleep and wakes up, and while states are saved   *)
(* and loaded: a handle stays on its file and at its position, a transfer  *)
(* moves the cells at that position, and only a handle whose file is gone  *)
(* is lost. Sleeping is no step of this specification.                     *)
(***************************************************************************)
EXTENDS Integers, Sequences

CONSTANTS
    File,       \* names of files
    Slot,       \* numbers of file handles
    MaxLen,     \* bound on the length of a file
    Cell,       \* what a cell of a file can hold
    Hole,       \* the cell that nobody wrote, a member of Cell
    None        \* no file, no handle, no transfer or no saved state

VARIABLES
    files,      \* name -> contents, or None
    handles,    \* slot -> [file, pos, mode, first, lost], or None
    kept,       \* the handles of the saved state, or None
    moving      \* the transfer in progress [op, slot, left, got], or None

vars == <<files, handles, kept, moving>>

Mode == {"read", "update", "trunc"}

Usable(s) == handles[s] # None /\ ~ handles[s].lost

(* The contents c with value v at position p (0 is the first).             *)
Put(c, p, v) ==
    [i \in 1 .. (IF p + 1 > Len(c) THEN p + 1 ELSE Len(c)) |->
        IF i = p + 1 THEN v ELSE IF i > Len(c) THEN Hole ELSE c[i]]

(* The file after an open in this mode, None when it cannot be opened.     *)
Opened(c, mode) ==
    CASE mode = "read"   -> c
      [] mode = "update" -> IF c = None THEN <<>> ELSE c
      [] mode = "trunc"  -> <<>>

Open(s, f, mode) ==
    /\ moving = None /\ handles[s] = None
    /\ Opened(files[f], mode) # None
    /\ files' = [files EXCEPT ![f] = Opened(@, mode)]
    /\ handles' = [handles EXCEPT ![s] =
                      [file |-> f, pos |-> 0, mode |-> mode, first |-> None,
                       lost |-> FALSE]]
    /\ UNCHANGED <<kept, moving>>

(* No slot is free: the call fails, after the file was opened.             *)
OpenTooMany(f, mode) ==
    /\ moving = None /\ \A s \in Slot : handles[s] # None
    /\ Opened(files[f], mode) # None
    /\ files' = [files EXCEPT ![f] = Opened(@, mode)]
    /\ UNCHANGED <<handles, kept, moving>>

(* A transfer of n cells begins.                                           *)
Begin(op, s, n) ==
    /\ moving = None /\ handles[s] # None
    /\ moving' = [op |-> op, slot |-> s, left |-> n, got |-> <<>>]
    /\ \/ UNCHANGED handles
       \/ /\ op = "write" /\ handles[s].mode = "trunc" /\ handles[s].first = None
          /\ handles' = [handles EXCEPT ![s].first = handles[s].pos]
    /\ UNCHANGED <<files, kept>>

(* A truncating handle may find its file emptied again.                    *)
Contents(s) ==
    {files[handles[s].file]}
        \cup (IF handles[s].mode = "trunc" THEN {<<>>} ELSE {})
        \cup (IF handles[s].mode = "update" /\ files[handles[s].file] = None
                THEN {<<>>} ELSE {})

ReadCell(s) ==
    /\ \E c \in Contents(s) :
        /\ c # None
        /\ files' = [files EXCEPT ![handles[s].file] = c]
        /\ LET p == handles[s].pos
           IN  IF p < Len(c)
                 THEN /\ moving' = [moving EXCEPT !.left = @ - 1,
                                                  !.got = Append(@, c[p + 1])]
                      /\ handles' = [handles EXCEPT ![s].pos = p + 1]
                 ELSE /\ moving' = [moving EXCEPT !.left = 0]
                      /\ UNCHANGED handles

WriteCell(s) ==
    /\ \E c \in Contents(s), v \in Cell :
        /\ c # None
        /\ files' = [files EXCEPT ![handles[s].file] = Put(c, handles[s].pos, v)]
    /\ handles' = [handles EXCEPT ![s].pos = @ + 1]
    /\ moving' = [moving EXCEPT !.left = @ - 1]

Move ==
    /\ moving # None /\ moving.left > 0 /\ Usable(moving.slot)
    /\ IF moving.op = "read" THEN ReadCell(moving.slot) ELSE WriteCell(moving.slot)
    /\ UNCHANGED kept

Finish ==
    /\ moving # None /\ moving.left = 0
    /\ moving' = None
    /\ UNCHANGED <<files, handles, kept>>

(* The file of a handle that cannot create it does not exist.              *)
Missing(h) == h.mode = "read" /\ files[h.file] = None

(* A transfer or a seek fails on a handle that is lost, and a handle is    *)
(* lost only when its file is missing.                                     *)
Fail(s) ==
    /\ handles[s] # None /\ (handles[s].lost \/ Missing(handles[s]))
    /\ moving = None \/ moving.slot = s
    /\ handles' = [handles EXCEPT ![s].lost = TRUE]
    /\ moving' = None
    /\ UNCHANGED <<files, kept>>

Lseek(s, p) ==
    /\ moving = None /\ Usable(s)
    /\ handles' = [handles EXCEPT ![s].pos = p]
    /\ \E c \in Contents(s) :
        c # None /\ files' = [files EXCEPT ![handles[s].file] = c]
    /\ UNCHANGED <<kept, moving>>

(* Closing gives the slot back. A truncating handle may change the cells   *)
(* before its first write, and no others.                                  *)
Close(s) ==
    /\ moving = None /\ Usable(s)
    /\ handles' = [handles EXCEPT ![s] = None]
    /\ \/ UNCHANGED files
       \/ LET h == handles[s]
              c == files[h.file]
              n == IF h.first > Len(c) THEN h.first ELSE Len(c)
          IN  /\ h.mode = "trunc" /\ h.first # None /\ c # None
              /\ \E d \in [1 .. n -> Cell] :
                    /\ \A i \in h.first + 1 .. Len(c) : d[i] = c[i]
                    /\ files' = [files EXCEPT ![h.file] = d]
    /\ UNCHANGED <<kept, moving>>

Remove(f) ==
    /\ moving = None
    /\ files' = [files EXCEPT ![f] = None]
    /\ UNCHANGED <<handles, kept, moving>>

(* Everything is closed, when the PSP starts again.                        *)
CloseAll ==
    /\ moving = None
    /\ handles' = [s \in Slot |-> None]
    /\ UNCHANGED <<files, kept, moving>>

(* Whether a handle is lost is settled when the state is loaded.           *)
Save ==
    /\ moving = None
    /\ kept' = [s \in Slot |-> IF handles[s] = None THEN None
                               ELSE [handles[s] EXCEPT !.lost = FALSE]]
    /\ UNCHANGED <<files, handles, moving>>

(* The handles of the saved state come back as they were. The files do     *)
(* not: a handle may have lost its file, and opening it again may create   *)
(* or empty the file.                                                      *)
Reopened(f) ==
    LET modes == {kept[s].mode : s \in {t \in Slot : kept[t] # None /\ kept[t].file = f}}
    IN  IF "trunc" \in modes THEN <<>>
        ELSE IF "update" \in modes THEN Opened(files[f], "update")
        ELSE files[f]

Load ==
    /\ moving = None /\ kept # None
    /\ files' = [f \in File |-> Reopened(f)]
    /\ \E lost \in SUBSET {s \in Slot : kept[s] # None /\ Missing(kept[s])} :
        handles' = [s \in Slot |-> IF kept[s] = None THEN None
                                   ELSE [kept[s] EXCEPT !.lost = s \in lost]]
    /\ UNCHANGED <<kept, moving>>

Init ==
    /\ files \in [File -> (UNION {[1 .. n -> Cell] : n \in 0 .. MaxLen}) \cup {None}]
    /\ handles = [s \in Slot |-> None]
    /\ kept = None
    /\ moving = None

Next ==
    \/ \E s \in Slot, f \in File, mode \in Mode : Open(s, f, mode)
    \/ \E f \in File, mode \in Mode : OpenTooMany(f, mode)
    \/ \E op \in {"read", "write"}, s \in Slot, n \in 1 .. MaxLen : Begin(op, s, n)
    \/ Move \/ Finish
    \/ \E s \in Slot : Fail(s) \/ Close(s)
    \/ \E s \in Slot, p \in 0 .. MaxLen : Lseek(s, p)
    \/ \E f \in File : Remove(f)
    \/ CloseAll \/ Save \/ Load

Spec == Init /\ [][Next]_vars

=============================================================================
