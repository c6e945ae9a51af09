----------------------------- MODULE PlainImage -----------------------------
(***************************************************************************)
(* What the UMD driver expects of the image of a disc: a read that was     *)
(* asked for returns the cells of the image from its position on, as far   *)
(* as the image goes, or fails.  Cell i of the image is i.                 *)
(***************************************************************************)
EXTENDS Integers, Sequences

CONSTANTS
    Size,       \* cells of the image
    MaxRead,    \* bound on the length of a read
    None        \* no read is in progress, none was answered

VARIABLES
    request,    \* the read in progress, [pos, len]
    answer      \* what the last one gave, [ret, data]

vars == <<request, answer>>

Least(a, b) == IF a < b THEN a ELSE b

(* How many of n cells from position pos the image has.                    *)
Available(pos, n) == IF pos < Size THEN Least(n, Size - pos) ELSE 0

Cells(pos, n) == [i \in 1 .. n |-> pos + i - 1]

Ask(pos, len) ==
    /\ request = None
    /\ request' = [pos |-> pos, len |-> len]
    /\ answer' = None

Answer ==
    /\ request # None
    /\ LET n == Available(request.pos, request.len)
       IN  answer' \in {[ret |-> n, data |-> Cells(request.pos, n)],
                        [ret |-> -1, data |-> <<>>]}
    /\ request' = None

Init == request = None /\ answer = None

Next ==
    \/ \E pos \in 0 .. Size, len \in 1 .. MaxRead : Ask(pos, len)
    \/ Answer

Spec == Init /\ [][Next]_vars

=============================================================================
