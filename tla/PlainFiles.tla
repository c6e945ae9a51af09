----------------------------- MODULE PlainFiles -----------------------------
(***************************************************************************)
(* What a program expects of the files behind ms0:, with or without a      *)
(* cache: a read returns what the file holds at the handle's position and  *)
(* moves the handle behind it, a write changes just that.                  *)
(***************************************************************************)
EXTENDS Integers, Sequences

CONSTANTS
    File,       \* names of files
    Handle,     \* file descriptors
    MaxLen,     \* bound on the length of a file and of one transfer
    Closed,     \* a handle that is not open
    Blank       \* the last call was not a read, or failed

VARIABLES
    files,      \* name -> contents, a sequence of cells
    handles,    \* descriptor -> [file, pos], or Closed
    answer      \* history: what the last call gave, if it was a read

vars == <<files, handles, answer>>

Least(a, b) == IF a < b THEN a ELSE b

(* The n cells of file f from position pos (0 is the first), as far as the *)
(* file goes.                                                              *)
Cells(f, pos, n) == SubSeq(files[f], pos + 1, Least(pos + n, Len(files[f])))

OpenHandles == {h \in Handle : handles[h] # Closed}

Open(h, f, trunc) ==
    /\ handles[h] = Closed
    /\ handles' = [handles EXCEPT ![h] = [file |-> f, pos |-> 0]]
    /\ files' = IF trunc THEN [files EXCEPT ![f] = <<>>] ELSE files
    /\ answer' = Blank

Close(h) ==
    /\ h \in OpenHandles
    /\ handles' = [handles EXCEPT ![h] = Closed]
    /\ answer' = Blank
    /\ UNCHANGED files

Lseek(h, pos) ==
    /\ h \in OpenHandles
    /\ handles' = [handles EXCEPT ![h].pos = pos]
    /\ answer' = Blank
    /\ UNCHANGED files

(* A read may fail; then it gives nothing and moves nothing.               *)
Read(h, n) ==
    /\ h \in OpenHandles
    /\ LET pos == handles[h].pos
           got == Cells(handles[h].file, pos, n)
       IN  \/ /\ answer' = [handle |-> h, cells |-> got]
              /\ handles' = [handles EXCEPT ![h].pos = pos + Len(got)]
           \/ answer' = Blank /\ UNCHANGED handles
    /\ UNCHANGED files

(* n new cells at the handle's position, in the file or at its end.        *)
Write(h, n) ==
    /\ h \in OpenHandles
    /\ LET f   == handles[h].file
           pos == handles[h].pos
           old == files[f]
       IN  /\ pos <= Len(old) /\ pos + n <= MaxLen
           /\ files' = [files EXCEPT ![f] =
                  [i \in 1 .. (IF pos + n > Len(old) THEN pos + n ELSE Len(old)) |->
                      IF i \in pos + 1 .. pos + n THEN <<f, 0>> ELSE old[i]]]
           /\ handles' = [handles EXCEPT ![h].pos = pos + n]
    /\ answer' = Blank

(* A write may fail and change nothing.                                    *)
WriteFails(h) ==
    /\ h \in OpenHandles
    /\ answer' = Blank
    /\ UNCHANGED <<files, handles>>

Init ==
    /\ files = [f \in File |-> [i \in 1 .. MaxLen - 1 |-> <<f, i>>]]
    /\ handles = [h \in Handle |-> Closed]
    /\ answer = Blank

Next ==
    \/ \E h \in Handle, f \in File, trunc \in BOOLEAN : Open(h, f, trunc)
    \/ \E h \in Handle : Close(h) \/ WriteFails(h)
    \/ \E h \in Handle, pos \in 0 .. MaxLen : Lseek(h, pos)
    \/ \E h \in Handle, n \in 0 .. MaxLen : Read(h, n) \/ Write(h, n)

Spec == Init /\ [][Next]_vars

=============================================================================
