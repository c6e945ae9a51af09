------------------------------ MODULE IsoCache ------------------------------
(***************************************************************************)
(* The ISO cache of the Inferno driver,                                    *)
(* cef/iso_drivers/inferno/src/isocache.c: a table of blocks of the image, *)
(* kept sorted by position and searched by halving.  A read holds the      *)
(* semaphore of the drive (isoread.c), so there is one at a time; requests *)
(* to read ahead come from other threads at any moment.                    *)
(*                                                                         *)
(* One step is one turn of a loop: a block found, a block filled.          *)
(***************************************************************************)
EXTENDS Integers, Sequences, SequencesExt

CONSTANTS
    Size, MaxRead, None,    \* as in PlainImage
    Num,        \* g_caches_num
    Cap,        \* g_caches_cap, cells of a block
    Align,      \* blocks begin at multiples of this (64 bytes)
    Sector,     \* ISO_SECTOR_SIZE
    Threshold,  \* CACHE_MINIMUM_THRESHOLD
    MaxAhead,   \* NR_CACHE_REQ
    MaxAge      \* bound on the ages, which count reads

(* A block is a whole number of alignments (infernoCacheInit() tests it),  *)
(* and so is the image, being made of sectors: a read that goes past the   *)
(* end of another image would be tried for ever.  None is no request.      *)
ASSUME IsoCacheAssumption ==
    /\ {Num, Cap, Align, Sector, MaxRead} \subseteq Nat \ {0}
    /\ {Size, Threshold, MaxAhead, MaxAge} \subseteq Nat
    /\ Cap % Align = 0
    /\ Sector % Align = 0
    /\ Size % Sector = 0
    /\ None \notin [pos : Nat, len : Nat]

VARIABLES
    request, answer,    \* as in PlainImage
    cache_on, cache_policy,
    caches,             \* g_caches
    ahead,              \* g_cache_request, a stack
    at,                 \* where the read is
    job,                \* what the loops work on: [pos, len, cur, read]
    ret, data,          \* of the read
    used                \* history: the blocks used since ages were counted

readVars == <<request, answer>>
vars == <<readVars, cache_on, cache_policy, caches, ahead, at, job, ret, data, used>>

Image == INSTANCE PlainImage

(* (u32)-1, as a position: behind everything that is read.                 *)
INVALID_POS == Size + MaxRead + 1

Disabled == [pos |-> INVALID_POS, bufsize |-> 0, age |-> -1, buf |-> <<>>]
Valid == {i \in 1 .. Num : caches[i].pos # INVALID_POS}
Steps == {"idle", "direct", "hit", "add", "fill", "added", "return"}

TypeOK ==
    /\ caches \in Seq([pos : 0 .. INVALID_POS, bufsize : 0 .. Cap,
                       age : Int, buf : Seq(0 .. Size - 1)])
    /\ Len(caches) = Num
    /\ \A i \in 1 .. Num : caches[i].bufsize = Len(caches[i].buf)
    /\ \A i \in Valid : caches[i].bufsize > 0
    /\ cache_policy \in {"DISABLED", "LRU", "RR"}
    /\ cache_on \in BOOLEAN /\ (cache_on => cache_policy # "DISABLED")
    /\ Len(ahead) <= MaxAhead
    /\ at \in Steps
    /\ at \in {"hit", "add", "fill"} => job.cur \in job.pos .. job.pos + job.len

Init ==
    /\ Image!Init
    /\ cache_on = FALSE /\ cache_policy = "DISABLED"
    /\ caches = [i \in 1 .. Num |-> Disabled]
    /\ ahead = <<>>
    /\ at = "idle" /\ job = None
    /\ ret = 0 /\ data = <<>> /\ used = {}

-----------------------------------------------------------------------------
IsWithinRange(pos, c) ==
    c.pos # INVALID_POS /\ pos >= c.pos /\ pos < c.pos + c.bufsize

(* binary_search(): an entry that holds pos, or 0.                         *)
(* Mutant: the search stops when one entry is left.                        *)
SearchBeforeLast(pos) ==
    LET search[r \in (1 .. Num + 1) \X (0 .. Num)] ==
            LET low  == r[1]
                high == r[2]
                mid  == (low + high) \div 2
            IN  IF low >= high THEN 0
                ELSE IF IsWithinRange(pos, caches[mid]) THEN mid
                ELSE IF pos < caches[mid].pos THEN search[<<low, mid - 1>>]
                ELSE search[<<mid + 1, high>>]
    IN  search[<<1, Num>>]
Search(pos) ==
    LET search[r \in (1 .. Num + 1) \X (0 .. Num)] ==
            LET low  == r[1]
                high == r[2]
                mid  == (low + high) \div 2
            IN  IF low > high THEN 0
                ELSE IF IsWithinRange(pos, caches[mid]) THEN mid
                ELSE IF pos < caches[mid].pos THEN search[<<low, mid - 1>>]
                ELSE search[<<mid + 1, high>>]
    IN  search[<<1, Num>>]

(* reorder_iso_cache(): entry i is taken out and put before the first one  *)
(* that does not begin earlier.                                            *)
(* Mutant: it stays where it is.                                           *)
ReorderNothing(cs, i) == cs
Reorder(cs, i) ==
    LET rest == RemoveAt(cs, i)
        j    == SelectInSeq(rest, LAMBDA c : c.pos >= cs[i].pos)
    IN  IF j = 0 THEN Append(rest, cs[i]) ELSE InsertAt(rest, j, cs[i])

AlignDown(pos) == pos - (pos % Align)

FirstOf(S) == CHOOSE i \in S : \A j \in S : i <= j

(* get_retirng_cache(): the first entry that is free, else the first of    *)
(* the oldest, or any.                                                     *)
(* Mutant: the newest instead of the oldest.                               *)
RetiringNewest ==
    IF Valid # 1 .. Num THEN {FirstOf(1 .. Num \ Valid)}
    ELSE IF cache_policy = "LRU"
         THEN {FirstOf({i \in Valid : \A j \in Valid : caches[i].age <= caches[j].age})}
         ELSE Valid
Retiring ==
    IF Valid # 1 .. Num THEN {FirstOf(1 .. Num \ Valid)}
    ELSE IF cache_policy = "LRU"
         THEN {FirstOf({i \in Valid : \A j \in Valid : caches[i].age >= caches[j].age})}
         ELSE Valid

end == job.pos + job.len

(* How much of block c the caller wants, from cur on.                      *)
Wanted(c) == Image!Least(end - job.cur, c.pos + c.bufsize - job.cur)

(* memcpy() of that to where cur belongs in the caller's buffer; a request *)
(* to read ahead has none.  Mutant: from the beginning of the block.       *)
DeliverFirst(c) ==
    LET done == job.cur - job.pos
    IN  data' = [k \in DOMAIN data |->
                    IF k \in done + 1 .. done + Wanted(c) THEN c.buf[k - done]
                    ELSE data[k]]
Deliver(c) ==
    LET done == job.cur - job.pos
    IN  data' = [k \in DOMAIN data |->
                    IF k \in done + 1 .. done + Wanted(c) /\ job.read
                    THEN c.buf[job.cur - c.pos + k - done]
                    ELSE data[k]]

-----------------------------------------------------------------------------
(* infernoCacheSetPolicy(), called while the cache is off; IsoCacheSetup    *)
(* has the order in which the firmware calls it.                           *)
SetPolicy(policy) ==
    /\ ~cache_on
    /\ cache_policy' = policy
    /\ UNCHANGED <<readVars, cache_on, caches, ahead, at, job, ret, data, used>>

(* infernoCacheInit(), with a size and with size 0, while no read is in    *)
(* progress.  Requests to read ahead stay where they are.                  *)
CacheInit ==
    /\ ~cache_on /\ at = "idle"
    /\ cache_policy # "DISABLED"
    /\ cache_on' = TRUE
    /\ caches' = [i \in 1 .. Num |-> Disabled]
    /\ UNCHANGED <<readVars, cache_policy, ahead, at, job, ret, data, used>>

CacheOff ==
    /\ cache_on /\ at = "idle"
    /\ cache_on' = FALSE
    /\ caches' = [i \in 1 .. Num |-> Disabled]   \* the memory is freed
    /\ used' = {}
    /\ UNCHANGED <<readVars, cache_policy, ahead, at, job, ret, data>>

(* iso_cache_read() begins with get_hit_caches().  Without the cache the   *)
(* image is read directly.                                                 *)
Read(pos, len) ==
    /\ at = "idle"
    /\ \A i \in 1 .. Num : caches[i].age < MaxAge
    /\ Image!Ask(pos, len)
    /\ at' = IF cache_on THEN "hit" ELSE "direct"
    /\ job' = [pos |-> pos, len |-> len, cur |-> pos, read |-> TRUE]
    /\ data' = [k \in 1 .. len |-> None]
    /\ UNCHANGED <<cache_on, cache_policy, caches, ahead, ret, used>>

(* One turn of get_hit_caches() finds a block.                             *)
HitBlock ==
    /\ at \in {"hit", "add"} /\ job.cur < end
    /\ LET i == Search(job.cur)
           c == caches[i]
       IN  /\ i # 0
           /\ Deliver(c)
           /\ job' = [job EXCEPT !.cur = @ + Wanted(c)]
           /\ caches' = [caches EXCEPT ![i].age = -1]
           /\ used' = used \cup {c.pos}
    /\ UNCHANGED <<readVars, cache_on, cache_policy, ahead, at, ret>>

(* It finds none: a short read goes past the cache, and leaves ages and    *)
(* read-ahead alone; another one begins anew in add_cache().               *)
Bypass ==
    /\ \/ at = "direct"
       \/ /\ at = "hit" /\ job.cur < end /\ Search(job.cur) = 0
          /\ job.len < Image!Least(Threshold, Cap)
    /\ Image!Answer
    /\ at' = "idle" /\ job' = None /\ data' = <<>>
    /\ UNCHANGED <<cache_on, cache_policy, caches, ahead, ret, used>>

Miss ==
    /\ at = "hit" /\ job.cur < end /\ Search(job.cur) = 0
    /\ job.len >= Image!Least(Threshold, Cap)
    /\ at' = "add"
    /\ job' = [job EXCEPT !.cur = job.pos]
    /\ UNCHANGED <<readVars, cache_on, cache_policy, caches, ahead, ret, data, used>>

(* In add_cache() the miss leaves cur behind the last block found.         *)
MissInAdd ==
    /\ at = "add" /\ job.cur < end /\ Search(job.cur) = 0
    /\ at' = "fill"
    /\ UNCHANGED <<readVars, cache_on, cache_policy, caches, ahead, job, ret, data, used>>

(* A block is retired and filled from the image, from the alignment before *)
(* cur; it is sorted in again in any case.                                 *)
FillBlock ==
    /\ at = "fill"
    /\ \E i \in Retiring :
        LET pos   == AlignDown(job.cur)
            n     == Image!Available(pos, Cap)
            block == [pos |-> pos, bufsize |-> n, age |-> -1,
                      buf |-> Image!Cells(pos, n)]
        IN  /\ n > 0
            /\ Deliver(block)
            /\ job' = [job EXCEPT !.cur = @ + Wanted(block)]
            /\ caches' = Reorder([caches EXCEPT ![i] = block], i)
            /\ used' = used \cup {pos}
    /\ at' = "add"
    /\ UNCHANGED <<readVars, cache_on, cache_policy, ahead, ret>>

(* The end of the image.  Mutant: the loop goes on.                        *)
EndGoesOn ==
    /\ at = "fill"
    /\ Image!Available(AlignDown(job.cur), Cap) = 0
    /\ \E i \in Retiring : caches' = Reorder([caches EXCEPT ![i] = Disabled], i)
    /\ at' = "add"
    /\ UNCHANGED <<readVars, cache_on, cache_policy, ahead, job, ret, data, used>>
EndOfImage ==
    /\ at = "fill"
    /\ Image!Available(AlignDown(job.cur), Cap) = 0
    /\ \E i \in Retiring : caches' = Reorder([caches EXCEPT ![i] = Disabled], i)
    /\ at' = "added"
    /\ ret' = IF job.read THEN job.cur - job.pos ELSE ret
    /\ UNCHANGED <<readVars, cache_on, cache_policy, ahead, job, data, used>>

(* The memory stick reports an error.                                      *)
FillFails ==
    /\ at = "fill"
    /\ \E i \in Retiring : caches' = Reorder([caches EXCEPT ![i] = Disabled], i)
    /\ at' = "added"
    /\ ret' = IF job.read THEN -1 ELSE ret
    /\ UNCHANGED <<readVars, cache_on, cache_policy, ahead, job, data, used>>

(* Everything was found or filled.                                         *)
Complete ==
    /\ at \in {"hit", "add"} /\ job.cur >= end
    /\ at' = "added"
    /\ ret' = IF job.read THEN job.cur - job.pos ELSE ret
    /\ UNCHANGED <<readVars, cache_on, cache_policy, caches, ahead, job, data, used>>

(* process_request(): after a read one request to read ahead is served,    *)
(* the last one that came.                                                 *)
ServeAhead ==
    /\ at = "added" /\ job.read
    /\ IF ahead = <<>>
       THEN at' = "return" /\ UNCHANGED <<job, ahead>>
       ELSE /\ at' = "add"
            /\ job' = [pos |-> Last(ahead).pos, len |-> Last(ahead).len,
                       cur |-> Last(ahead).pos, read |-> FALSE]
            /\ ahead' = Front(ahead)
    /\ UNCHANGED <<readVars, cache_on, cache_policy, caches, ret, data, used>>

AheadServed ==
    /\ at = "added" /\ ~job.read
    /\ at' = "return"
    /\ UNCHANGED <<readVars, cache_on, cache_policy, caches, ahead, job, ret, data, used>>

(* update_cache_info(), and the read returns.                              *)
Return ==
    /\ at = "return"
    /\ caches' = [i \in 1 .. Num |->
           IF cache_policy = "LRU" /\ i \in Valid THEN [caches[i] EXCEPT !.age = @ + 1]
           ELSE caches[i]]
    /\ request' = None
    /\ answer' = [ret |-> ret, data |-> IF ret < 0 THEN <<>> ELSE SubSeq(data, 1, ret)]
    /\ at' = "idle" /\ job' = None /\ ret' = 0 /\ data' = <<>> /\ used' = {}
    /\ UNCHANGED <<cache_on, cache_policy, ahead>>

(* infernoCacheAdd(), called by IoDevctl() for whole sectors and without   *)
(* the semaphore.                                                          *)
ReadAhead(pos, len) ==
    /\ pos % Sector = 0 /\ len % Sector = 0
    /\ cache_on /\ Len(ahead) < MaxAhead
    /\ ahead' = Append(ahead, [pos |-> pos, len |-> len])
    /\ UNCHANGED <<readVars, cache_on, cache_policy, caches, at, job, ret, data, used>>

Work ==
    \/ HitBlock \/ Bypass \/ Miss \/ MissInAdd
    \/ FillBlock \/ EndOfImage \/ FillFails
    \/ Complete \/ ServeAhead \/ AheadServed \/ Return

Next ==
    \/ \E pos \in 0 .. Size, len \in 1 .. MaxRead : Read(pos, len) \/ ReadAhead(pos, len)
    \/ \E policy \in {"LRU", "RR"} : SetPolicy(policy)
    \/ CacheInit \/ CacheOff \/ Work

Spec == Init /\ [][Next]_vars

(* The thread that reads runs on; the memory stick answers or fails.       *)
FairSpec == Spec /\ WF_vars(Work)

-----------------------------------------------------------------------------
(* The table is sorted whenever it is searched, whatever was retired,      *)
(* could not be filled or lay behind the end of the image.                 *)
Sorted == \A i, j \in 1 .. Num : i < j => caches[i].pos <= caches[j].pos

(* The search finds what there is, though blocks overlap and the one at    *)
(* the end of the image is shorter.                                        *)
NothingMissed ==
    \A pos \in 0 .. Size - 1 :
        (\E i \in 1 .. Num : IsWithinRange(pos, caches[i])) => Search(pos) # 0

(* No block is held twice.                                                 *)
NoBlockTwice == \A i, j \in Valid : i # j => caches[i].pos # caches[j].pos

(* With the cache a read gives what the image holds, in whichever blocks   *)
(* its parts are found, retired or overlapping (the comparison CACHE_TEST  *)
(* makes after every read).                                                *)
ImplementsPlainImage == Image!Spec

(* A read never throws out a block it has used itself while one is left    *)
(* that has not been used (INFERNO_CACHE_LRU).  A block that a short read  *)
(* used before it went past the cache counts as used by the next read: ages*)
(* are counted only when a read returns through the cache.                 *)
KeepsOwnBlocks ==
    [][LET before == {caches[i].pos : i \in Valid}
           after  == {caches'[i].pos : i \in 1 .. Num}
       IN  at = "fill" /\ cache_policy = "LRU" /\ used \cap (before \ after) # {} => before \subseteq used]_vars

(* Every read returns: each turn of the loops gets further, also at the    *)
(* end of the image.                                                       *)
ReadsReturn == request # None ~> request = None

=============================================================================
