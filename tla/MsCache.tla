------------------------------ MODULE MsCache -------------------------------
(***************************************************************************)
(* The memory stick cache, cef/core/systemctrl/src/storage_cache.c: the    *)
(* functions hooked into the driver "ms", between the programs of the PSP  *)
(* and its file system.  There is one buffer for all files, and no lock.   *)
(*                                                                         *)
(* A hooked read or write that calls the driver is a step before and a     *)
(* step after the driver's work, because the driver waits for the card and *)
(* other threads run: "call" holds what is in progress on each handle.     *)
(***************************************************************************)
EXTENDS Integers, Sequences

CONSTANTS
    File, Handle, MaxLen, Closed, Blank,  \* as in PlainFiles
    Idle,           \* no call is in progress on a handle
    CacheSize,      \* g_cacheSize
    OneFile,        \* programs have handles of one file at a time only
    Serial          \* programs make one call at a time only

(* What a file or the buffer is made of, an open handle, a call in         *)
(* progress.                                                               *)
Cell == (File \X (0 .. MaxLen)) \cup {Blank}
OpenHandle == [file : File, pos : 0 .. MaxLen]
ReadCall == [op : {"read"}, pos : 0 .. MaxLen, len : 0 .. MaxLen, filled : BOOLEAN]
WriteCall == [op : {"write"}, len : 0 .. MaxLen]

ASSUME MsCacheAssumption ==
    /\ MaxLen \in Nat \ {0}
    /\ CacheSize \in Nat \ {0}
    /\ {OneFile, Serial} \subseteq BOOLEAN
    /\ Closed \notin OpenHandle
    /\ Idle \notin ReadCall \cup WriteCall

VARIABLES files, handles, answer, \* the driver, as in PlainFiles
    call,           \* handle -> its call in progress, or Idle
    hooked,         \* the functions of the driver are replaced
    started,        \* g_cacheSize has been set
    pos,            \* g_cache.pos
    bufSize,        \* g_cache.bufSize
    buf             \* the memory g_cache.buf points to

diskVars == <<files, handles, answer>>
cacheVars == <<pos, bufSize, buf>>
hookVars == <<hooked, started>>
vars == <<diskVars, call, hookVars, cacheVars>>

Driver == INSTANCE PlainFiles

(* The program sees a read when it returns: until then the handle is where *)
(* it was.                                                                 *)
HandlesSeen ==
    [h \in Handle |->
        IF call[h] # Idle /\ call[h].op = "read"
        THEN [handles[h] EXCEPT !.pos = call[h].pos]
        ELSE handles[h]]

Plain == INSTANCE PlainFiles WITH handles <- HandlesSeen

INVALID_POS == -1

TypeOK ==
    /\ files \in [File -> Seq(Cell)] /\ \A f \in File : Len(files[f]) <= MaxLen
    /\ handles \in [Handle -> OpenHandle \cup {Closed}]
    /\ call \in [Handle -> ReadCall \cup WriteCall \cup {Idle}]
    /\ \A h \in Handle : call[h] # Idle => handles[h] # Closed
    /\ {hooked, started} \subseteq BOOLEAN
    /\ pos \in {INVALID_POS} \cup 0 .. MaxLen
    /\ bufSize \in 0 .. CacheSize
    /\ buf \in [1 .. CacheSize -> Cell]

Init ==
    /\ Driver!Init
    /\ call = [h \in Handle |-> Idle]
    /\ hooked = FALSE /\ started = FALSE
    /\ pos = INVALID_POS /\ bufSize = 0
    /\ buf = [i \in 1 .. CacheSize |-> Blank]

-----------------------------------------------------------------------------
IsCacheWithinRange(p, start, len) == p >= start /\ p < start + len

Hit(p, len) ==
    /\ pos # INVALID_POS
    /\ IsCacheWithinRange(p, pos, bufSize)
    /\ IsCacheWithinRange(p + len - 1, pos, bufSize)

DisableCache ==
    /\ pos' = INVALID_POS /\ bufSize' = 0
    /\ UNCHANGED buf

(* disableCacheWithinRange(): a range that touches the buffer empties it.  *)
(* Mutant: one that sticks out of the buffer does not.                     *)
DisableOnlyInside(p, len) ==
    IF pos # INVALID_POS /\ p >= pos /\ p + len <= pos + bufSize
    THEN DisableCache
    ELSE UNCHANGED cacheVars
DisableWithinRange(p, len) ==
    IF pos # INVALID_POS /\ ~(p + len <= pos \/ p >= pos + bufSize)
    THEN DisableCache
    ELSE UNCHANGED cacheVars

(* A call can start on handle h: h has none in progress, and no other      *)
(* handle has one if programs make one call at a time.                     *)
MayCall(h) ==
    /\ call[h] = Idle
    /\ Serial => \A g \in Handle : call[g] = Idle

(* Without the cache the calls go to the driver.                           *)
Unhooked == ~hooked /\ UNCHANGED <<call, hookVars, cacheVars>>

(* Every open, whatever file it is for, empties the cache.  A file that is *)
(* open is not cut off.                                                    *)
(* Mutant: the open is not hooked.                                         *)
OpenUnhooked(h, f, trunc) ==
    /\ MayCall(h)
    /\ trunc => \A g \in Driver!OpenHandles : handles[g].file # f
    /\ OneFile => \A g \in Driver!OpenHandles : handles[g].file = f
    /\ Driver!Open(h, f, trunc)
    /\ UNCHANGED <<call, hookVars, cacheVars>>
StorageOpen(h, f, trunc) ==
    /\ MayCall(h)
    /\ trunc => \A g \in Driver!OpenHandles : handles[g].file # f
    /\ OneFile => \A g \in Driver!OpenHandles : handles[g].file = f
    /\ Driver!Open(h, f, trunc)
    /\ Unhooked \/ (hooked /\ DisableCache /\ UNCHANGED <<call, hookVars>>)

(* The close and the seek are not hooked.                                  *)
StorageClose(h) ==
    MayCall(h) /\ Driver!Close(h) /\ UNCHANGED <<call, hookVars, cacheVars>>
StorageLseek(h, p) ==
    MayCall(h) /\ Driver!Lseek(h, p) /\ UNCHANGED <<call, hookVars, cacheVars>>

-----------------------------------------------------------------------------
(* A read that the buffer holds all of.                                    *)
ReadHit(h, len) ==
    /\ hooked /\ MayCall(h) /\ h \in Driver!OpenHandles
    /\ LET p == handles[h].pos
       IN  /\ Hit(p, len)
           /\ answer' = [handle |-> h,
                         cells |-> [i \in 1 .. len |-> buf[p - pos + i]]]
           /\ handles' = [handles EXCEPT ![h].pos = p + len]
    /\ UNCHANGED <<files, call, hookVars, cacheVars>>

(* A read that fits into the buffer empties the cache and has the driver   *)
(* fill the whole buffer,                                                  *)
ReadMiss(h, len) ==
    /\ hooked /\ MayCall(h) /\ h \in Driver!OpenHandles
    /\ len <= CacheSize /\ ~Hit(handles[h].pos, len)
    /\ call' = [call EXCEPT ![h] =
           [op |-> "read", pos |-> handles[h].pos, len |-> len, filled |-> FALSE]]
    /\ DisableCache
    /\ UNCHANGED <<diskVars, hookVars>>

(* the driver does so, or reports an error,                                *)
DriverFills(h) ==
    /\ call[h] # Idle /\ call[h].op = "read" /\ ~call[h].filled
    /\ LET cells == Driver!Cells(handles[h].file, call[h].pos, CacheSize)
       IN  \/ /\ buf' = [i \in 1 .. CacheSize |->
                            IF i <= Len(cells) THEN cells[i] ELSE buf[i]]
              /\ handles' = [handles EXCEPT ![h].pos = @ + Len(cells)]
              /\ call' = [call EXCEPT ![h].filled = TRUE]
              /\ UNCHANGED answer
           \/ /\ call' = [call EXCEPT ![h] = Idle]
              /\ answer' = Blank
              /\ UNCHANGED <<buf, handles>>
    /\ UNCHANGED <<files, hookVars, pos, bufSize>>

(* and the caller's part is copied out of the buffer, which becomes the    *)
(* cache, and the handle is moved back to where that part ends.            *)
ReadFilled(h) ==
    /\ call[h] # Idle /\ call[h].op = "read" /\ call[h].filled
    /\ LET result == handles[h].pos - call[h].pos
           got    == Driver!Least(call[h].len, result)
       IN  /\ answer' = [handle |-> h, cells |-> [i \in 1 .. got |-> buf[i]]]
           /\ handles' = [handles EXCEPT ![h].pos = call[h].pos + got]
           /\ IF result > 0
              THEN pos' = call[h].pos /\ bufSize' = result
              ELSE UNCHANGED <<pos, bufSize>>     \* the end of the file
    /\ call' = [call EXCEPT ![h] = Idle]
    /\ UNCHANGED <<files, hookVars, buf>>

(* A longer one goes past the cache.                                       *)
ReadLong(h, len) ==
    /\ hooked /\ MayCall(h) /\ h \in Driver!OpenHandles
    /\ len > CacheSize /\ ~Hit(handles[h].pos, len)
    /\ Driver!Read(h, len)
    /\ UNCHANGED <<call, hookVars, cacheVars>>

ReadUnhooked(h, len) == MayCall(h) /\ Driver!Read(h, len) /\ Unhooked

-----------------------------------------------------------------------------
(* A write empties the cache if it touches it, then the driver writes.     *)
StorageWrite(h, len) ==
    /\ hooked /\ MayCall(h) /\ h \in Driver!OpenHandles
    /\ call' = [call EXCEPT ![h] = [op |-> "write", len |-> len]]
    /\ DisableWithinRange(handles[h].pos, len)
    /\ UNCHANGED <<diskVars, hookVars>>

DriverWrites(h) ==
    /\ call[h] # Idle /\ call[h].op = "write"
    /\ Driver!Write(h, call[h].len) \/ Driver!WriteFails(h)
    /\ call' = [call EXCEPT ![h] = Idle]
    /\ UNCHANGED <<hookVars, cacheVars>>

WriteUnhooked(h, len) == MayCall(h) /\ Driver!Write(h, len) /\ Unhooked

(* Every other hooked call (mkdir, remove, rename, ioctl, dopen, getstat,  *)
(* mount, devctl, ...) empties the cache; the ones that would change a     *)
(* file that is open are refused by the file system.                       *)
StorageOther ==
    /\ hooked
    /\ Serial => \A h \in Handle : call[h] = Idle
    /\ DisableCache
    /\ UNCHANGED <<diskVars, call, hookVars>>

(* sctrlMsCacheInit(): a driver is hooked once; a cache that was taken out *)
(* (driver NULL) is not put in again, because g_cacheSize keeps its value. *)
(* Both happen while modules start, with no call in progress.              *)
CacheInit ==
    /\ ~started /\ \A h \in Handle : call[h] = Idle
    /\ hooked' = TRUE /\ started' = TRUE
    /\ DisableCache
    /\ UNCHANGED <<diskVars, call>>

CacheRemove ==
    /\ hooked /\ \A h \in Handle : call[h] = Idle
    /\ hooked' = FALSE
    /\ bufSize' = 0 /\ buf' = [i \in 1 .. CacheSize |-> Blank]
    /\ UNCHANGED <<diskVars, call, started, pos>>

Next ==
    \/ \E h \in Handle, f \in File, trunc \in BOOLEAN : StorageOpen(h, f, trunc)
    \/ \E h \in Handle, p \in 0 .. MaxLen : StorageLseek(h, p)
    \/ \E h \in Handle, n \in 0 .. MaxLen :
           \/ ReadHit(h, n) \/ ReadMiss(h, n) \/ ReadLong(h, n) \/ ReadUnhooked(h, n)
           \/ StorageWrite(h, n) \/ WriteUnhooked(h, n)
    \/ \E h \in Handle :
           StorageClose(h) \/ DriverFills(h) \/ ReadFilled(h) \/ DriverWrites(h)
    \/ StorageOther \/ CacheInit \/ CacheRemove

Spec == Init /\ [][Next]_vars

-----------------------------------------------------------------------------
(* A read that the cache can answer gives what the driver would: what the *)
(* code checks when it is built with CHECK_MODE ("cache mismatched!!!" in  *)
(* storageReadCache()).  Writes through one handle must reach a buffer     *)
(* that was filled through another, a file that is opened must not be      *)
(* answered with the cells of the one before.                              *)
CacheMatches ==
    \A h \in Driver!OpenHandles, n \in 1 .. CacheSize :
        LET p == handles[h].pos
        IN  hooked /\ call[h] = Idle /\ Hit(p, n) =>
                Driver!Cells(handles[h].file, p, n) = SubSeq(buf, p - pos + 1, p - pos + n)

(* With the cache the files behave as without it: every read gives what    *)
(* the file holds there, and leaves the handle where a plain read would.   *)
(* Settings page: "the system will use a cache in I/O operations of the    *)
(* Memory Stick drive (`ms0:`) to improve speed".                          *)
ImplementsPlainFiles == Plain!Spec

=============================================================================
