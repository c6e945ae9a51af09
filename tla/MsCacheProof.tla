---------------------------- MODULE MsCacheProof ----------------------------
(***************************************************************************)
(* The memory stick cache, for any number of files, handles and cells: its *)
(* variables stay in their sets, and, for programs that have one file open *)
(* and make one call at a time, what the buffer answers is what the file   *)
(* holds, so that the cache cannot be told from no cache.                  *)
(***************************************************************************)
EXTENDS MsCache, SequenceTheorems, TLAPS

(* A read in progress has moved its handle only as far as it has filled    *)
(* the buffer.                                                             *)
FillInOrder(h) ==
    call[h] # Idle /\ call[h].op = "read" =>
        IF call[h].filled
        THEN call[h].pos <= handles[h].pos /\ handles[h].pos <= call[h].pos + CacheSize
        ELSE handles[h].pos = call[h].pos

(* The inductive invariant of the types: the driver, the calls, the buffer,*)
(* which lies within the longest file.                                     *)
DiskOK ==
    /\ files \in [File -> Seq(Cell)] /\ \A f \in File : Len(files[f]) <= MaxLen
    /\ handles \in [Handle -> OpenHandle \cup {Closed}]
CallOK ==
    /\ call \in [Handle -> ReadCall \cup WriteCall \cup {Idle}]
    /\ \A h \in Handle : call[h] # Idle => handles[h] # Closed
    /\ \A h \in Handle : FillInOrder(h)
HookOK == {hooked, started} \subseteq BOOLEAN
BufOK ==
    /\ pos \in {INVALID_POS} \cup 0 .. MaxLen
    /\ bufSize \in 0 .. CacheSize
    /\ buf \in [1 .. CacheSize -> Cell]
    /\ bufSize > 0 => pos \in Nat /\ pos + bufSize <= MaxLen

TypeInv == DiskOK /\ CallOK /\ HookOK /\ BufOK

-----------------------------------------------------------------------------
LEMMA FreshCell ==
    ASSUME NEW f \in File
    PROVE  <<f, 0>> \in Cell
<1>1. 0 \in 0 .. MaxLen
  BY MsCacheAssumption
<1>2. <<f, 0>> \in File \X (0 .. MaxLen)
  BY <1>1
<1> QED
  BY <1>2 DEF Cell

LEMMA FunctionIsSeq ==
    ASSUME NEW S, NEW n \in Nat, NEW g \in [1 .. n -> S]
    PROVE  g \in Seq(S) /\ Len(g) = n
  BY SMT

(* The driver.                                                             *)
LEMMA OpenOnes ==
    ASSUME DiskOK, NEW h \in Driver!OpenHandles
    PROVE  h \in Handle /\ handles[h] \in OpenHandle
                        /\ handles[h].file \in File /\ handles[h].pos \in 0 .. MaxLen
  BY DEF DiskOK, Driver!OpenHandles, OpenHandle

LEMMA CellsOfFile ==
    ASSUME DiskOK, NEW f \in File, NEW p \in Nat, NEW n \in Nat
    PROVE  /\ Driver!Cells(f, p, n) \in Seq(Cell)
           /\ Len(Driver!Cells(f, p, n)) <= n
           /\ p <= MaxLen => p + Len(Driver!Cells(f, p, n)) <= MaxLen
           /\ \A i \in 1 .. Len(Driver!Cells(f, p, n)) :
                  /\ p + i <= Len(files[f])
                  /\ Driver!Cells(f, p, n)[i] = files[f][p + i]
<1> DEFINE s == files[f]
           m == Driver!Least(p + n, Len(s))
           c == SubSeq(s, p + 1, m)
<1>1. s \in Seq(Cell) /\ Len(s) \in Nat /\ Len(s) <= MaxLen
  BY DEF DiskOK
<1>2. m \in Nat /\ m <= p + n /\ m <= Len(s) /\ (m = p + n \/ (m = Len(s) /\ m <= p + n))
      /\ (p + n <= Len(s) => m = p + n)
  BY <1>1 DEF Driver!Least
<1>3. MaxLen \in Nat
  BY MsCacheAssumption
<1> HIDE DEF s, m
<1>4. \A i \in p + 1 .. m : s[i] \in Cell
  BY <1>1, <1>2
<1>5. /\ c \in Seq(Cell)
      /\ Len(c) = IF p + 1 <= m THEN m - (p + 1) + 1 ELSE 0
      /\ \A i \in 1 .. m - (p + 1) + 1 : c[i] = s[(p + 1) + i - 1]
  BY <1>2, <1>4, SubSeqProperties
<1> HIDE DEF c
<1>6. \A i \in 1 .. Len(c) : p + i <= Len(s) /\ c[i] = s[p + i]
  BY <1>2, <1>5
<1>7. Len(c) <= n /\ (p <= MaxLen => p + Len(c) <= MaxLen)
  BY <1>1, <1>2, <1>3, <1>5
<1> QED
  BY <1>5, <1>6, <1>7 DEF Driver!Cells, s, m, c

LEMMA CellsLength ==
    ASSUME DiskOK, NEW f \in File, NEW p \in Nat, NEW n \in Nat
    PROVE  Len(Driver!Cells(f, p, n)) =
               IF p + n <= Len(files[f]) THEN n
               ELSE IF p <= Len(files[f]) THEN Len(files[f]) - p ELSE 0
<1> DEFINE s == files[f]
           m == Driver!Least(p + n, Len(s))
<1>1. s \in Seq(Cell) /\ Len(s) \in Nat
  BY DEF DiskOK
<1>2. m = IF p + n <= Len(s) THEN p + n ELSE Len(s)
  BY <1>1 DEF Driver!Least
<1>3. m \in Nat /\ m <= Len(s)
  BY <1>1, <1>2
<1> HIDE DEF s, m
<1>4. \A i \in p + 1 .. m : s[i] \in Cell
  BY <1>1, <1>3
<1>5. Len(SubSeq(s, p + 1, m)) = IF p + 1 <= m THEN m - (p + 1) + 1 ELSE 0
  BY <1>3, <1>4, SubSeqProperties
<1>6. Len(SubSeq(s, p + 1, m)) =
          IF p + n <= Len(s) THEN n ELSE IF p <= Len(s) THEN Len(s) - p ELSE 0
  BY <1>1, <1>2, <1>5
<1> QED
  BY <1>6 DEF Driver!Cells, s, m

(* A seek, a read that hit the buffer, a fill: the handle moves.           *)
Moved(h, p) == [handles EXCEPT ![h].pos = p]

LEMMA HandleMoved ==
    ASSUME DiskOK, NEW h \in Driver!OpenHandles, NEW p \in 0 .. MaxLen,
           handles' = Moved(h, p), files' = files
    PROVE  /\ DiskOK' /\ Driver!OpenHandles' = Driver!OpenHandles
           /\ \A g \in Driver!OpenHandles : handles'[g].file = handles[g].file
           /\ \A g \in Handle \ {h} : handles'[g] = handles[g]
           /\ handles'[h] # Closed /\ handles'[h].pos = p
<1>1. [handles[h] EXCEPT !.pos = p] \in OpenHandle
  BY OpenOnes DEF OpenHandle
<1>2. h \in Handle /\ handles' = [handles EXCEPT ![h] = [handles[h] EXCEPT !.pos = p]]
  BY OpenOnes DEF DiskOK, Moved
<1>3. handles' \in [Handle -> OpenHandle \cup {Closed}]
      /\ handles'[h] = [handles[h] EXCEPT !.pos = p]
      /\ \A g \in Handle \ {h} : handles'[g] = handles[g]
  BY <1>1, <1>2 DEF DiskOK
<1>4. handles'[h] # Closed /\ handles'[h].file = handles[h].file /\ handles'[h].pos = p
  BY <1>1, <1>3, MsCacheAssumption, OpenOnes DEF OpenHandle
<1> QED
  BY <1>2, <1>3, <1>4 DEF DiskOK, Driver!OpenHandles

LEMMA OpenTypes ==
    ASSUME DiskOK, NEW h \in Handle, NEW f \in File, NEW trunc \in BOOLEAN,
           Driver!Open(h, f, trunc)
    PROVE  /\ DiskOK' /\ Driver!OpenHandles' = Driver!OpenHandles \cup {h}
           /\ handles'[h].file = f /\ \A g \in Handle \ {h} : handles'[g] = handles[g]
<1>1. [file |-> f, pos |-> 0] \in OpenHandle
  BY MsCacheAssumption DEF OpenHandle
<1>2. /\ handles'[h] = [file |-> f, pos |-> 0] /\ handles' \in [Handle -> OpenHandle \cup {Closed}]
      /\ \A g \in Handle \ {h} : handles'[g] = handles[g]
  BY <1>1 DEF DiskOK, Driver!Open
<1>3. handles'[h] # Closed
  BY <1>1, <1>2, MsCacheAssumption
<1>4. files' \in [File -> Seq(Cell)] /\ \A g \in File : Len(files'[g]) <= MaxLen
  BY MsCacheAssumption DEF DiskOK, Driver!Open
<1> QED
  BY <1>2, <1>3, <1>4 DEF DiskOK, Driver!OpenHandles

LEMMA CloseTypes ==
    ASSUME DiskOK, NEW h \in Handle, Driver!Close(h)
    PROVE  /\ DiskOK' /\ Driver!OpenHandles' = Driver!OpenHandles \ {h} /\ files' = files
           /\ \A g \in Handle \ {h} : handles'[g] = handles[g]
  BY DEF DiskOK, Driver!Close, Driver!OpenHandles

LEMMA ReadTypes ==
    ASSUME DiskOK, NEW h \in Handle, NEW n \in 0 .. MaxLen, Driver!Read(h, n)
    PROVE  /\ DiskOK' /\ Driver!OpenHandles' = Driver!OpenHandles /\ files' = files
           /\ \A g \in Driver!OpenHandles : handles'[g].file = handles[g].file
           /\ \A g \in Handle \ {h} : handles'[g] = handles[g]
<1>1. CASE UNCHANGED handles
  BY <1>1 DEF Driver!Read, DiskOK, Driver!OpenHandles
<1>2. CASE ~ UNCHANGED handles
  <2> DEFINE p == handles[h].pos
             got == Driver!Cells(handles[h].file, p, n)
  <2>1. h \in Driver!OpenHandles /\ handles' = Moved(h, p + Len(got))
        /\ files' = files
    BY <1>2 DEF Driver!Read, Moved
  <2>2. handles[h].file \in File /\ p \in 0 .. MaxLen /\ n \in Nat /\ MaxLen \in Nat
    BY <2>1, OpenOnes, MsCacheAssumption
  <2>3. p + Len(got) \in 0 .. MaxLen
    <3>1. got \in Seq(Cell) /\ p + Len(got) <= MaxLen
      BY <2>2, CellsOfFile
    <3> QED
      BY <2>2, <3>1
  <2> QED
    BY <2>1, <2>3, HandleMoved
<1> QED
  BY <1>1, <1>2

(* A write changes the cells from the handle's position on, no others.     *)
LEMMA WriteTypes ==
    ASSUME DiskOK, NEW h \in Handle, NEW n \in 0 .. MaxLen, Driver!Write(h, n)
    PROVE  /\ DiskOK' /\ Driver!OpenHandles' = Driver!OpenHandles
           /\ \A g \in Driver!OpenHandles : handles'[g].file = handles[g].file
           /\ \A g \in Handle \ {h} : handles'[g] = handles[g]
           /\ \A f \in File : Len(files[f]) <= Len(files'[f])
           /\ \A f \in File : \A i \in 1 .. Len(files[f]) :
                  i \notin handles[h].pos + 1 .. handles[h].pos + n => files'[f][i] = files[f][i]
<1> DEFINE f == handles[h].file
           p == handles[h].pos
           old == files[f]
           m == IF p + n > Len(old) THEN p + n ELSE Len(old)
           new == [i \in 1 .. m |-> IF i \in p + 1 .. p + n THEN <<f, 0>> ELSE old[i]]
<1>1. /\ h \in Driver!OpenHandles /\ p <= Len(old) /\ p + n <= MaxLen
      /\ files' = [files EXCEPT ![f] = new] /\ handles' = [handles EXCEPT ![h].pos = p + n]
  BY DEF Driver!Write
<1>2. f \in File /\ p \in Nat /\ p + n \in 0 .. MaxLen /\ n \in Nat /\ MaxLen \in Nat
  BY <1>1, OpenOnes, MsCacheAssumption
<1>3. old \in Seq(Cell) /\ Len(old) \in Nat /\ Len(old) <= MaxLen
  BY <1>2 DEF DiskOK
<1>4. m \in Nat /\ m <= MaxLen /\ Len(old) <= m
  BY <1>2, <1>3
<1>5. new \in Seq(Cell) /\ Len(new) = m
  <2>1. <<f, 0>> \in Cell
    BY <1>2, FreshCell
  <2>2. \A i \in 1 .. m : i \notin p + 1 .. p + n => i \in 1 .. Len(old)
    BY <1>1, <1>2, <1>3
  <2>3. \A i \in 1 .. m : new[i] \in Cell
    BY <1>3, <2>1, <2>2
  <2>4. new \in [1 .. m -> Cell]
    BY <2>3
  <2> HIDE DEF new, m
  <2> QED
    BY <1>4, <2>4, FunctionIsSeq
<1>6. \A i \in 1 .. Len(old) : i \notin p + 1 .. p + n => new[i] = old[i]
  BY <1>3, <1>4
<1> HIDE DEF new, m
<1>7. /\ files' \in [File -> Seq(Cell)] /\ files'[f] = new
      /\ \A g \in File \ {f} : files'[g] = files[g]
  BY <1>1, <1>2, <1>5 DEF DiskOK
<1>8. ASSUME NEW g \in File
      PROVE  Len(files'[g]) <= MaxLen /\ Len(files[g]) <= Len(files'[g])
  <2>1. CASE g = f
    BY <1>4, <1>5, <1>7, <2>1
  <2>2. CASE g # f
    <3>1. files'[g] = files[g] /\ Len(files[g]) <= MaxLen /\ files[g] \in Seq(Cell)
      BY <1>7, <2>2 DEF DiskOK
    <3> QED
      BY <3>1
  <2> QED
    BY <2>1, <2>2
<1>9. \A g \in File : \A i \in 1 .. Len(files[g]) :
                  i \notin p + 1 .. p + n => files'[g][i] = files[g][i]
  BY <1>6, <1>7
<1>10. /\ handles' \in [Handle -> OpenHandle \cup {Closed}]
       /\ Driver!OpenHandles' = Driver!OpenHandles
       /\ \A g \in Driver!OpenHandles : handles'[g].file = handles[g].file
       /\ \A g \in Handle \ {h} : handles'[g] = handles[g]
  <2>1. [handles[h] EXCEPT !.pos = p + n] \in OpenHandle
    BY <1>1, <1>2, OpenOnes DEF OpenHandle
  <2>2. handles' = [handles EXCEPT ![h] = [handles[h] EXCEPT !.pos = p + n]]
    BY <1>1 DEF DiskOK
  <2>3. handles' \in [Handle -> OpenHandle \cup {Closed}]
        /\ handles'[h] = [handles[h] EXCEPT !.pos = p + n]
        /\ \A g \in Handle \ {h} : handles'[g] = handles[g]
    BY <2>1, <2>2 DEF DiskOK
  <2>4. handles'[h] # Closed /\ handles'[h].file = f
    BY <1>1, <2>1, <2>3, MsCacheAssumption, OpenOnes DEF OpenHandle
  <2> QED
    BY <1>1, <2>3, <2>4 DEF Driver!OpenHandles
<1> QED
  BY <1>7, <1>8, <1>9, <1>10 DEF DiskOK

-----------------------------------------------------------------------------
(* The calls in progress and the buffer.                                   *)
LEMMA CallsOpen ==
    ASSUME DiskOK, CallOK, NEW h \in Handle, call[h] # Idle
    PROVE  /\ h \in Driver!OpenHandles
           /\ call[h].op = "read" => call[h] \in ReadCall
           /\ call[h].op = "write" => call[h] \in WriteCall
<1>1. call[h] \in ReadCall \/ call[h] \in WriteCall
  BY DEF CallOK
<1>2. call[h] \in WriteCall => call[h].op = "write"
  BY DEF WriteCall
<1>3. call[h] \in ReadCall => call[h].op = "read"
  BY DEF ReadCall
<1> QED
  BY <1>1, <1>2, <1>3 DEF CallOK, Driver!OpenHandles

LEMMA QuietCalls ==
    ASSUME CallOK, NEW h \in Handle, call[h] = Idle, call' = call,
           \A g \in Handle \ {h} : handles'[g] = handles[g]
    PROVE  CallOK'
  BY DEF CallOK, FillInOrder

LEMMA BufKept ==
    ASSUME BufOK, UNCHANGED cacheVars \/ DisableCache
    PROVE  BufOK'
<1>1. CASE UNCHANGED cacheVars
  BY <1>1 DEF BufOK, cacheVars
<1>2. CASE DisableCache
  BY <1>2, MsCacheAssumption DEF BufOK, DisableCache
<1> QED
  BY <1>1, <1>2

(* A buffer that holds a range lies around it.                             *)
LEMMA HitInside ==
    ASSUME BufOK, NEW p \in Nat, NEW n \in Nat, Hit(p, n)
    PROVE  /\ pos \in Nat /\ bufSize \in Nat /\ bufSize > 0
           /\ pos <= p /\ p + n <= pos + bufSize /\ p + n <= MaxLen
<1>1. pos # INVALID_POS /\ p >= pos /\ p < pos + bufSize /\ p + n - 1 < pos + bufSize
  BY DEF Hit, IsCacheWithinRange
<1>2. pos \in Nat /\ bufSize \in Nat /\ MaxLen \in Nat
  BY <1>1, MsCacheAssumption DEF BufOK, INVALID_POS
<1>3. bufSize > 0
  BY <1>1, <1>2
<1> QED
  BY <1>1, <1>2, <1>3 DEF BufOK

-----------------------------------------------------------------------------
(* The steps of a read that misses.                                        *)
LEMMA MissTypes ==
    ASSUME TypeInv, NEW h \in Handle, NEW n \in 0 .. MaxLen, ReadMiss(h, n)
    PROVE  TypeInv'
<1> DEFINE c == [op |-> "read", pos |-> handles[h].pos, len |-> n, filled |-> FALSE]
<1> USE DEF TypeInv
<1>1. h \in Driver!OpenHandles /\ handles[h].pos \in 0 .. MaxLen
  BY OpenOnes DEF ReadMiss
<1>2. c \in ReadCall /\ c # Idle
  <2>1. c \in ReadCall
    BY <1>1 DEF ReadCall
  <2> QED
    BY <2>1, MsCacheAssumption
<1>3. DiskOK' /\ HookOK' /\ handles' = handles
  BY DEF ReadMiss, diskVars, hookVars, DiskOK, HookOK
<1>4. call' = [call EXCEPT ![h] = c]
  BY DEF ReadMiss
<1>5. call'[h] = c /\ call' \in [Handle -> ReadCall \cup WriteCall \cup {Idle}]
      /\ \A g \in Handle \ {h} : call'[g] = call[g]
  BY <1>2, <1>4 DEF CallOK
<1>6. FillInOrder(h)'
  BY <1>3, <1>5 DEF FillInOrder
<1>7. CallOK'
  BY <1>1, <1>3, <1>5, <1>6 DEF CallOK, FillInOrder, Driver!OpenHandles
<1>8. BufOK'
  BY BufKept DEF ReadMiss
<1> QED
  BY <1>3, <1>7, <1>8

(* A call that ends.                                                       *)
LEMMA CallEnds ==
    ASSUME CallOK, NEW h \in Handle, call' = [call EXCEPT ![h] = Idle],
           \A g \in Handle \ {h} : handles'[g] = handles[g]
    PROVE  CallOK'
<1>1. call'[h] = Idle /\ \A g \in Handle \ {h} : call'[g] = call[g]
  BY DEF CallOK
<1>2. call' \in [Handle -> ReadCall \cup WriteCall \cup {Idle}]
  BY DEF CallOK
<1> QED
  BY <1>1, <1>2 DEF CallOK, FillInOrder

LEMMA FillTypes ==
    ASSUME TypeInv, NEW h \in Handle, DriverFills(h)
    PROVE  TypeInv'
<1> USE DEF TypeInv
<1> DEFINE f == handles[h].file
           p == call[h].pos
           cells == Driver!Cells(f, p, CacheSize)
<1>1. h \in Driver!OpenHandles /\ call[h] \in ReadCall /\ call[h] # Idle /\ ~ call[h].filled
      /\ handles[h].pos = p
  BY CallsOpen DEF DriverFills, CallOK, FillInOrder
<1>2. f \in File /\ p \in 0 .. MaxLen /\ CacheSize \in Nat /\ MaxLen \in Nat
  BY <1>1, OpenOnes, MsCacheAssumption
<1>3. cells \in Seq(Cell) /\ Len(cells) <= CacheSize /\ p + Len(cells) <= MaxLen
  BY <1>2, CellsOfFile
<1>4. files' = files /\ HookOK' /\ pos' = pos /\ bufSize' = bufSize
  BY DEF DriverFills, hookVars, HookOK
<1>5. CASE /\ buf' = [i \in 1 .. CacheSize |-> IF i <= Len(cells) THEN cells[i] ELSE buf[i]]
           /\ handles' = [handles EXCEPT ![h].pos = @ + Len(cells)]
           /\ call' = [call EXCEPT ![h].filled = TRUE]
  <2> HIDE DEF cells
  <2> DEFINE q == p + Len(cells)
  <2>1. Len(cells) \in Nat /\ q \in 0 .. MaxLen
    BY <1>2, <1>3
  <2>2. handles' = Moved(h, q)
    BY <1>1, <1>5 DEF Moved
  <2>3. /\ DiskOK' /\ handles'[h] # Closed /\ handles'[h].pos = q
        /\ \A g \in Handle \ {h} : handles'[g] = handles[g]
    <3> HIDE DEF q
    <3> QED
      BY <1>1, <1>4, <2>1, <2>2, HandleMoved
  <2>4. [call[h] EXCEPT !.filled = TRUE] \in ReadCall
    BY <1>1 DEF ReadCall
  <2>5. call' = [call EXCEPT ![h] = [call[h] EXCEPT !.filled = TRUE]]
    BY <1>5 DEF CallOK
  <2>6. /\ call'[h] = [call[h] EXCEPT !.filled = TRUE]
        /\ call' \in [Handle -> ReadCall \cup WriteCall \cup {Idle}]
        /\ \A g \in Handle \ {h} : call'[g] = call[g]
    BY <2>4, <2>5 DEF CallOK
  <2>7. call'[h].filled /\ call'[h].pos = p
    BY <1>1, <2>6 DEF ReadCall
  <2>8. FillInOrder(h)'
    BY <1>2, <1>3, <2>1, <2>3, <2>7 DEF FillInOrder
  <2>9. CallOK'
    BY <1>1, <2>3, <2>6, <2>8 DEF CallOK, FillInOrder, Driver!OpenHandles
  <2>10. buf' \in [1 .. CacheSize -> Cell]
    <3>1. \A i \in 1 .. CacheSize : i <= Len(cells) => cells[i] \in Cell
      BY <1>2, <1>3, <2>1
    <3>2. \A i \in 1 .. CacheSize : buf[i] \in Cell
      BY DEF BufOK
    <3> QED
      BY <1>5, <3>1, <3>2
  <2>11. BufOK'
    BY <1>4, <2>10 DEF BufOK
  <2> QED
    BY <1>4, <2>3, <2>9, <2>11
<1>6. CASE call' = [call EXCEPT ![h] = Idle] /\ UNCHANGED <<buf, handles>>
  BY <1>4, <1>6, CallEnds DEF DiskOK, BufOK
<1> QED
  BY <1>5, <1>6 DEF DriverFills

LEMMA FilledTypes ==
    ASSUME TypeInv, NEW h \in Handle, ReadFilled(h)
    PROVE  TypeInv'
<1> USE DEF TypeInv
<1> DEFINE p == call[h].pos
           result == handles[h].pos - p
           got == Driver!Least(call[h].len, result)
<1>1. h \in Driver!OpenHandles /\ call[h] \in ReadCall /\ call[h] # Idle
      /\ p <= handles[h].pos /\ handles[h].pos <= p + CacheSize
  BY CallsOpen DEF ReadFilled, CallOK, FillInOrder
<1>2. p \in 0 .. MaxLen /\ call[h].len \in Nat /\ CacheSize \in Nat /\ MaxLen \in Nat
  BY <1>1, MsCacheAssumption DEF ReadCall
<1>3. handles[h].pos \in 0 .. MaxLen
  BY <1>1, OpenOnes
<1>4. result \in 0 .. CacheSize /\ got \in Nat /\ got <= result /\ p + got \in 0 .. MaxLen
      /\ p + result <= MaxLen
  BY <1>1, <1>2, <1>3 DEF Driver!Least
<1>5. /\ handles' = Moved(h, p + got) /\ files' = files /\ buf' = buf
      /\ HookOK' /\ call' = [call EXCEPT ![h] = Idle]
      /\ IF result > 0 THEN pos' = p /\ bufSize' = result ELSE UNCHANGED <<pos, bufSize>>
  BY DEF ReadFilled, Moved, HookOK, hookVars
<1> HIDE DEF result, got
<1>6. DiskOK' /\ \A g \in Handle \ {h} : handles'[g] = handles[g]
  BY <1>1, <1>4, <1>5, HandleMoved
<1>7. CallOK'
  BY <1>5, <1>6, CallEnds
<1>8. BufOK'
  BY <1>2, <1>4, <1>5 DEF BufOK
<1> QED
  BY <1>5, <1>6, <1>7, <1>8

(* A write that is begun.                                                  *)
LEMMA WriteBegunTypes ==
    ASSUME TypeInv, NEW h \in Handle, NEW n \in 0 .. MaxLen, StorageWrite(h, n)
    PROVE  TypeInv'
<1> USE DEF TypeInv
<1> DEFINE c == [op |-> "write", len |-> n]
<1>1. c \in WriteCall /\ c # Idle
  <2>1. c \in WriteCall
    BY DEF WriteCall
  <2> QED
    BY <2>1, MsCacheAssumption
<1>2. DiskOK' /\ HookOK' /\ handles' = handles /\ h \in Driver!OpenHandles
  BY DEF StorageWrite, diskVars, hookVars, DiskOK, HookOK
<1>3. call' = [call EXCEPT ![h] = c]
  BY DEF StorageWrite
<1>4. call'[h] = c /\ call' \in [Handle -> ReadCall \cup WriteCall \cup {Idle}]
      /\ \A g \in Handle \ {h} : call'[g] = call[g]
  BY <1>1, <1>3 DEF CallOK
<1>5. CallOK'
  BY <1>2, <1>4 DEF CallOK, FillInOrder, Driver!OpenHandles
<1>6. BufOK'
  BY BufKept DEF StorageWrite, DisableWithinRange
<1> QED
  BY <1>2, <1>5, <1>6

LEMMA HitTypes ==
    ASSUME TypeInv, NEW h \in Handle, NEW n \in 0 .. MaxLen, ReadHit(h, n)
    PROVE  TypeInv'
<1> DEFINE q == handles[h].pos + n
<1>1. h \in Driver!OpenHandles /\ call[h] = Idle /\ Hit(handles[h].pos, n)
      /\ handles' = Moved(h, q) /\ files' = files
      /\ UNCHANGED <<call, hookVars, cacheVars>>
  BY DEF ReadHit, MayCall, Moved
<1>2. handles[h].pos \in Nat /\ n \in Nat /\ MaxLen \in Nat
  BY <1>1, OpenOnes, MsCacheAssumption DEF TypeInv
<1>3. q \in 0 .. MaxLen
  BY <1>1, <1>2, HitInside DEF TypeInv
<1> HIDE DEF q
<1>4. DiskOK' /\ \A g \in Handle \ {h} : handles'[g] = handles[g]
  BY <1>1, <1>3, HandleMoved DEF TypeInv
<1>5. CallOK' /\ BufOK' /\ HookOK'
  BY <1>1, <1>4, QuietCalls, BufKept DEF TypeInv, HookOK, hookVars
<1> QED
  BY <1>4, <1>5 DEF TypeInv

(* The calls of the driver that a hooked or an unhooked call stands for.   *)
LEMMA PlainCallTypes ==
    ASSUME TypeInv, NEW h \in Handle, call[h] = Idle, DiskOK',
           \A g \in Handle \ {h} : handles'[g] = handles[g],
           UNCHANGED <<call, hookVars>>, UNCHANGED cacheVars \/ DisableCache
    PROVE  TypeInv'
<1>1. CallOK' /\ BufOK'
  BY QuietCalls, BufKept DEF TypeInv
<1>2. HookOK'
  BY DEF TypeInv, HookOK, hookVars
<1> QED
  BY <1>1, <1>2 DEF TypeInv

LEMMA TypeStep ==
    ASSUME TypeInv, [Next]_vars
    PROVE  TypeInv'
<1>1. CASE UNCHANGED vars
  BY <1>1 DEF vars, diskVars, hookVars, cacheVars, TypeInv, DiskOK, CallOK, FillInOrder,
              HookOK, BufOK
<1>2. ASSUME NEW h \in Handle, NEW f \in File, NEW trunc \in BOOLEAN, StorageOpen(h, f, trunc)
      PROVE  TypeInv'
  <2>1. /\ call[h] = Idle /\ Driver!Open(h, f, trunc) /\ UNCHANGED <<call, hookVars>>
        /\ UNCHANGED cacheVars \/ DisableCache
    BY <1>2 DEF StorageOpen, MayCall, Unhooked
  <2>2. DiskOK' /\ \A g \in Handle \ {h} : handles'[g] = handles[g]
    BY <2>1, OpenTypes DEF TypeInv
  <2> QED
    BY <2>1, <2>2, PlainCallTypes
<1>3. ASSUME NEW h \in Handle, NEW p \in 0 .. MaxLen, StorageLseek(h, p)
      PROVE  TypeInv'
  <2>1. /\ call[h] = Idle /\ h \in Driver!OpenHandles /\ handles' = Moved(h, p)
        /\ files' = files /\ UNCHANGED <<call, hookVars, cacheVars>>
    BY <1>3 DEF StorageLseek, MayCall, Driver!Lseek, Moved
  <2>2. DiskOK' /\ \A g \in Handle \ {h} : handles'[g] = handles[g]
    BY <2>1, HandleMoved DEF TypeInv
  <2> QED
    BY <2>1, <2>2, PlainCallTypes
<1>4. ASSUME NEW h \in Handle, NEW n \in 0 .. MaxLen, ReadLong(h, n) \/ ReadUnhooked(h, n)
      PROVE  TypeInv'
  <2>1. call[h] = Idle /\ Driver!Read(h, n) /\ UNCHANGED <<call, hookVars, cacheVars>>
    BY <1>4 DEF ReadLong, ReadUnhooked, MayCall, Unhooked
  <2>2. DiskOK' /\ \A g \in Handle \ {h} : handles'[g] = handles[g]
    BY <2>1, ReadTypes DEF TypeInv
  <2> QED
    BY <2>1, <2>2, PlainCallTypes
<1>5. ASSUME NEW h \in Handle, NEW n \in 0 .. MaxLen, WriteUnhooked(h, n)
      PROVE  TypeInv'
  <2>1. call[h] = Idle /\ Driver!Write(h, n) /\ UNCHANGED <<call, hookVars, cacheVars>>
    BY <1>5 DEF WriteUnhooked, MayCall, Unhooked
  <2>2. DiskOK' /\ \A g \in Handle \ {h} : handles'[g] = handles[g]
    BY <2>1, WriteTypes DEF TypeInv
  <2> QED
    BY <2>1, <2>2, PlainCallTypes
<1>6. ASSUME NEW h \in Handle, StorageClose(h)
      PROVE  TypeInv'
  <2>1. call[h] = Idle /\ Driver!Close(h) /\ UNCHANGED <<call, hookVars, cacheVars>>
    BY <1>6 DEF StorageClose, MayCall
  <2>2. DiskOK' /\ \A g \in Handle \ {h} : handles'[g] = handles[g]
    BY <2>1, CloseTypes DEF TypeInv
  <2> QED
    BY <2>1, <2>2, PlainCallTypes
<1>7. ASSUME NEW h \in Handle, DriverWrites(h)
      PROVE  TypeInv'
  <2>1. call[h] # Idle /\ call[h] \in WriteCall /\ call' = [call EXCEPT ![h] = Idle]
        /\ UNCHANGED <<hookVars, cacheVars>>
    BY <1>7, CallsOpen DEF TypeInv, DriverWrites
  <2>2. call[h].len \in 0 .. MaxLen
    BY <2>1 DEF WriteCall
  <2>3. DiskOK' /\ \A g \in Handle \ {h} : handles'[g] = handles[g]
    <3>1. CASE Driver!Write(h, call[h].len)
      BY <2>2, <3>1, WriteTypes DEF TypeInv
    <3>2. CASE Driver!WriteFails(h)
      BY <3>2 DEF Driver!WriteFails, TypeInv, DiskOK
    <3> QED
      BY <1>7, <3>1, <3>2 DEF DriverWrites
  <2>4. CallOK' /\ BufOK'
    BY <2>1, <2>3, CallEnds, BufKept DEF TypeInv
  <2>5. HookOK'
    BY <2>1 DEF TypeInv, HookOK, hookVars
  <2> QED
    BY <2>3, <2>4, <2>5 DEF TypeInv
<1>8. CASE StorageOther \/ CacheInit
  <2>1. UNCHANGED <<diskVars, call>> /\ DisableCache /\ HookOK'
    BY <1>8 DEF StorageOther, CacheInit, TypeInv, HookOK, hookVars
  <2>2. DiskOK' /\ CallOK'
    BY <2>1 DEF TypeInv, DiskOK, CallOK, FillInOrder, diskVars
  <2> QED
    BY <2>1, <2>2, BufKept DEF TypeInv
<1>9. CASE CacheRemove
  <2>1. /\ UNCHANGED <<diskVars, call, pos>> /\ bufSize' = 0 /\ HookOK'
        /\ buf' = [i \in 1 .. CacheSize |-> Blank]
    BY <1>9 DEF CacheRemove, TypeInv, HookOK
  <2>2. DiskOK' /\ CallOK'
    BY <2>1 DEF TypeInv, DiskOK, CallOK, FillInOrder, diskVars
  <2>3. buf' \in [1 .. CacheSize -> Cell]
    BY <2>1 DEF Cell
  <2> QED
    BY <2>1, <2>2, <2>3, MsCacheAssumption DEF TypeInv, BufOK
<1> QED
  BY <1>1, <1>2, <1>3, <1>4, <1>5, <1>6, <1>7, <1>8, <1>9, HitTypes, MissTypes, FillTypes,
     FilledTypes, WriteBegunTypes
     DEF Next

LEMMA TypeStart ==
    ASSUME Init
    PROVE  TypeInv
<1>1. \A f \in File : files[f] \in Seq(Cell) /\ Len(files[f]) <= MaxLen
  <2> SUFFICES ASSUME NEW f \in File
               PROVE  files[f] \in Seq(Cell) /\ Len(files[f]) <= MaxLen
    OBVIOUS
  <2>1. files[f] = [i \in 1 .. MaxLen - 1 |-> <<f, i>>]
    BY DEF Init, Driver!Init
  <2>2. MaxLen - 1 \in Nat /\ \A i \in 1 .. MaxLen - 1 : i \in 0 .. MaxLen
    BY MsCacheAssumption
  <2>3. \A i \in 1 .. MaxLen - 1 : <<f, i>> \in Cell
    BY <2>2 DEF Cell
  <2>4. files[f] \in [1 .. MaxLen - 1 -> Cell]
    BY <2>1, <2>3
  <2>5. files[f] \in Seq(Cell) /\ Len(files[f]) = MaxLen - 1
    BY <2>2, <2>4, FunctionIsSeq
  <2> QED
    BY <2>5, MsCacheAssumption
<1>2. DiskOK
  BY <1>1 DEF DiskOK, Init, Driver!Init
<1>3. CallOK /\ HookOK
  BY DEF Init, CallOK, HookOK, FillInOrder
<1>4. BufOK
  BY MsCacheAssumption DEF Init, BufOK, Cell
<1> QED
  BY <1>2, <1>3, <1>4 DEF TypeInv

(* Each variable of the cache keeps its type: a read that the buffer       *)
(* answers, or that fills it, leaves the handle and the buffer within the  *)
(* longest file (storageReadCache()).                                      *)
THEOREM MsCacheTypes == Spec => []TypeOK
<1>1. TypeInv => TypeOK
  BY DEF TypeInv, DiskOK, CallOK, HookOK, BufOK, TypeOK
<1>2. Spec => []TypeInv
  BY TypeStart, TypeStep, PTL DEF Spec
<1> QED
  BY <1>1, <1>2, PTL

-----------------------------------------------------------------------------
(* The buffer holds the n cells of file f from position p on.              *)
Holds(f, p, n) ==
    \A i \in 1 .. n : p + i <= Len(files[f]) /\ buf[i] = files[f][p + i]

(* What the driver puts into the buffer for the read in progress on h.     *)
Fill(h) == Driver!Cells(handles[h].file, call[h].pos, CacheSize)

(* The inductive invariant of the cache, for programs that have handles of *)
(* one file and make one call at a time.  A buffer that holds anything     *)
(* holds cells of the file that is open; while the buffer is being filled  *)
(* nothing is answered from it, and a write that is under way leaves alone *)
(* the cells that the buffer holds.                                        *)
HookFirst == ~hooked => bufSize = 0 /\ \A h \in Handle : call[h] = Idle
OneCall == \A g, h \in Handle : call[g] # Idle /\ call[h] # Idle => g = h
OneName == \A g, h \in Driver!OpenHandles : handles[g].file = handles[h].file
BufferRight == \A h \in Driver!OpenHandles : Holds(handles[h].file, pos, bufSize)
ReadRight(h) ==
    call[h] # Idle /\ call[h].op = "read" =>
        /\ bufSize = 0
        /\ call[h].len <= CacheSize
        /\ call[h].filled =>
               /\ handles[h].pos = call[h].pos + Len(Fill(h))
               /\ \A i \in 1 .. Len(Fill(h)) : buf[i] = Fill(h)[i]
WriteApart(h) ==
    call[h] # Idle /\ call[h].op = "write" =>
        \/ bufSize = 0
        \/ handles[h].pos + call[h].len <= pos
        \/ pos + bufSize <= handles[h].pos

CacheInv ==
    /\ HookFirst /\ OneCall /\ OneName /\ BufferRight
    /\ \A h \in Handle : ReadRight(h) /\ WriteApart(h)

(* No call is in progress when one starts.                                 *)
LEMMA AllIdle ==
    ASSUME Serial, NEW h \in Handle, MayCall(h)
    PROVE  \A g \in Handle : call[g] = Idle
  BY DEF MayCall

(* A step that leaves the cache and the files alone and no call in         *)
(* progress.                                                               *)
LEMMA CacheKept ==
    ASSUME CacheInv, \A g \in Handle : call[g] = Idle,
           UNCHANGED <<files, call, hookVars, cacheVars>>,
           Driver!OpenHandles' \subseteq Driver!OpenHandles,
           \A g \in Driver!OpenHandles' : handles'[g].file = handles[g].file
    PROVE  CacheInv'
<1>1. HookFirst' /\ OneCall'
  BY DEF CacheInv, HookFirst, OneCall, hookVars, cacheVars
<1>2. OneName' /\ BufferRight'
  BY DEF CacheInv, OneName, BufferRight, Holds, cacheVars
<1>3. \A h \in Handle : ReadRight(h)' /\ WriteApart(h)'
  BY DEF ReadRight, WriteApart
<1> QED
  BY <1>1, <1>2, <1>3 DEF CacheInv

(* A step that leaves the buffer empty and no call in progress.            *)
LEMMA CacheEmptied ==
    ASSUME bufSize' = 0, \A g \in Handle : call'[g] = Idle, OneName'
    PROVE  CacheInv'
<1>1. HookFirst' /\ OneCall'
  BY DEF HookFirst, OneCall
<1>2. BufferRight'
  BY DEF BufferRight, Holds
<1>3. \A h \in Handle : ReadRight(h)' /\ WriteApart(h)'
  BY DEF ReadRight, WriteApart
<1> QED
  BY <1>1, <1>2, <1>3 DEF CacheInv

LEMMA OpenRight ==
    ASSUME OneFile, Serial, TypeInv, CacheInv,
           NEW h \in Handle, NEW f \in File, NEW trunc \in BOOLEAN, StorageOpen(h, f, trunc)
    PROVE  CacheInv'
<1>1. \A g \in Handle : call[g] = Idle
  BY AllIdle DEF StorageOpen
<1>2. call' = call /\ Driver!Open(h, f, trunc) /\ \A g \in Driver!OpenHandles : handles[g].file = f
  BY DEF StorageOpen, Unhooked
<1>3. bufSize' = 0
  BY DEF StorageOpen, Unhooked, cacheVars, DisableCache, CacheInv, HookFirst
<1>4. /\ Driver!OpenHandles' = Driver!OpenHandles \cup {h} /\ handles'[h].file = f
      /\ \A g \in Handle \ {h} : handles'[g] = handles[g]
  BY <1>2, OpenTypes DEF TypeInv
<1>5. \A g \in Driver!OpenHandles' : handles'[g].file = f
  BY <1>2, <1>4 DEF Driver!OpenHandles
<1>6. OneName'
  BY <1>5 DEF OneName
<1> QED
  BY <1>1, <1>2, <1>3, <1>6, CacheEmptied

LEMMA MissRight ==
    ASSUME Serial, TypeInv, CacheInv, NEW h \in Handle, NEW n \in 0 .. MaxLen, ReadMiss(h, n)
    PROVE  CacheInv'
<1> DEFINE c == [op |-> "read", pos |-> handles[h].pos, len |-> n, filled |-> FALSE]
<1>1. \A g \in Handle : call[g] = Idle
  BY AllIdle DEF ReadMiss
<1>2. /\ call' = [call EXCEPT ![h] = c] /\ bufSize' = 0 /\ n <= CacheSize
      /\ hooked' = hooked /\ hooked
      /\ UNCHANGED <<files, handles>>
  BY DEF ReadMiss, DisableCache, diskVars, hookVars
<1>3. call'[h] = c /\ \A g \in Handle \ {h} : call'[g] = Idle
  BY <1>1, <1>2 DEF TypeInv, CallOK
<1>4. HookFirst' /\ OneCall' /\ OneName' /\ BufferRight'
  BY <1>2, <1>3 DEF CacheInv, HookFirst, OneCall, OneName, BufferRight, Holds, Driver!OpenHandles
<1>5. \A g \in Handle : ReadRight(g)' /\ WriteApart(g)'
  BY <1>2, <1>3 DEF ReadRight, WriteApart
<1> QED
  BY <1>4, <1>5 DEF CacheInv

LEMMA FillRight ==
    ASSUME TypeInv, CacheInv, NEW h \in Handle, DriverFills(h)
    PROVE  CacheInv'
<1> DEFINE cells == Fill(h)
<1>1. /\ h \in Driver!OpenHandles /\ call[h] \in ReadCall /\ call[h] # Idle
      /\ call[h].op = "read" /\ bufSize = 0 /\ call[h].len <= CacheSize
      /\ handles[h].pos = call[h].pos /\ hooked
      /\ \A g \in Handle \ {h} : call[g] = Idle
  <2>1. h \in Driver!OpenHandles /\ call[h] \in ReadCall /\ call[h] # Idle
        /\ call[h].op = "read" /\ handles[h].pos = call[h].pos
    BY CallsOpen DEF DriverFills, TypeInv, CallOK, FillInOrder
  <2> QED
    BY <2>1 DEF CacheInv, HookFirst, OneCall, ReadRight
<1>2. /\ UNCHANGED <<files, hookVars, pos, bufSize>>
      /\ hooked' = hooked
  BY DEF DriverFills, hookVars
<1>3. CASE call' = [call EXCEPT ![h] = Idle] /\ UNCHANGED <<buf, handles>>
  <2>1. \A g \in Handle : call'[g] = Idle
    BY <1>1, <1>3 DEF TypeInv, CallOK
  <2>2. OneName'
    BY <1>3 DEF CacheInv, OneName, Driver!OpenHandles
  <2> QED
    BY <1>1, <1>2, <2>1, <2>2, CacheEmptied
<1>4. CASE /\ buf' = [i \in 1 .. CacheSize |-> IF i <= Len(cells) THEN cells[i] ELSE buf[i]]
           /\ handles' = [handles EXCEPT ![h].pos = @ + Len(cells)]
           /\ call' = [call EXCEPT ![h].filled = TRUE]
  <2>1. /\ cells \in Seq(Cell) /\ Len(cells) <= CacheSize
        /\ call[h].pos + Len(cells) \in 0 .. MaxLen /\ CacheSize \in Nat
    <3>1. /\ call[h].pos \in 0 .. MaxLen /\ handles[h].file \in File
          /\ CacheSize \in Nat /\ MaxLen \in Nat
      BY <1>1, OpenOnes, MsCacheAssumption DEF TypeInv, ReadCall
    <3>2. cells \in Seq(Cell) /\ Len(cells) <= CacheSize /\ call[h].pos + Len(cells) <= MaxLen
      BY <3>1, CellsOfFile DEF TypeInv, Fill
    <3> QED
      BY <3>1, <3>2
  <2>2. call'[h] = [call[h] EXCEPT !.filled = TRUE] /\ \A g \in Handle \ {h} : call'[g] = Idle
    BY <1>1, <1>4 DEF TypeInv, CallOK
  <2>3. /\ call'[h].op = "read" /\ call'[h].filled /\ call'[h].pos = call[h].pos
        /\ call'[h].len = call[h].len
    BY <1>1, <2>2 DEF ReadCall
  <2> DEFINE q == call[h].pos + Len(cells)
  <2>4. handles' = Moved(h, q)
    BY <1>1, <1>4 DEF Moved
  <2>5. /\ Driver!OpenHandles' = Driver!OpenHandles /\ handles'[h].pos = q
        /\ \A g \in Driver!OpenHandles : handles'[g].file = handles[g].file
    <3> HIDE DEF q
    <3> QED
      BY <1>1, <1>2, <2>1, <2>4, HandleMoved DEF TypeInv, q
  <2>6. Fill(h)' = cells
    BY <1>1, <1>2, <2>3, <2>5 DEF Fill, Driver!Cells
  <2>7. \A i \in 1 .. Len(cells) : buf'[i] = cells[i]
    <3> HIDE DEF cells
    <3>1. Len(cells) \in Nat /\ \A i \in 1 .. Len(cells) : i \in 1 .. CacheSize /\ i <= Len(cells)
      BY <2>1
    <3> QED
      BY <1>4, <3>1
  <2>8. ReadRight(h)' /\ WriteApart(h)'
    <3> HIDE DEF cells
    <3> QED
      BY <1>1, <1>2, <2>3, <2>5, <2>6, <2>7 DEF ReadRight, WriteApart
  <2>9. \A g \in Handle : ReadRight(g)' /\ WriteApart(g)'
    BY <2>2, <2>8 DEF ReadRight, WriteApart
  <2>10. HookFirst' /\ OneCall' /\ OneName' /\ BufferRight'
    BY <1>1, <1>2, <2>2, <2>5
       DEF CacheInv, HookFirst, OneCall, OneName, BufferRight, Holds
  <2> QED
    BY <2>9, <2>10 DEF CacheInv
<1> QED
  BY <1>3, <1>4 DEF DriverFills, Fill

LEMMA FilledRight ==
    ASSUME TypeInv, CacheInv, NEW h \in Handle, ReadFilled(h)
    PROVE  CacheInv'
<1> DEFINE cells == Fill(h)
           p == call[h].pos
           f == handles[h].file
           result == handles[h].pos - p
           got == Driver!Least(call[h].len, result)
<1>1. /\ h \in Driver!OpenHandles /\ call[h] \in ReadCall /\ call[h] # Idle
      /\ call[h].op = "read" /\ call[h].filled /\ bufSize = 0 /\ hooked
      /\ handles[h].pos = p + Len(cells) /\ \A i \in 1 .. Len(cells) : buf[i] = cells[i]
      /\ \A g \in Handle \ {h} : call[g] = Idle
  <2>1. h \in Driver!OpenHandles /\ call[h] \in ReadCall /\ call[h] # Idle
        /\ call[h].op = "read" /\ call[h].filled
    BY CallsOpen DEF ReadFilled, TypeInv
  <2> QED
    BY <2>1 DEF CacheInv, HookFirst, OneCall, ReadRight
<1>2. /\ p \in 0 .. MaxLen /\ f \in File /\ CacheSize \in Nat /\ MaxLen \in Nat
      /\ call[h].len \in Nat /\ handles[h].pos \in 0 .. MaxLen
  BY <1>1, OpenOnes, MsCacheAssumption DEF TypeInv, ReadCall
<1>3. /\ cells \in Seq(Cell) /\ Len(cells) <= CacheSize
      /\ \A i \in 1 .. Len(cells) : p + i <= Len(files[f]) /\ cells[i] = files[f][p + i]
  <2>1. DiskOK /\ cells = Driver!Cells(f, p, CacheSize) /\ p \in Nat
    BY <1>2 DEF TypeInv, Fill
  <2> HIDE DEF cells, p, f
  <2> QED
    BY <1>2, <2>1, CellsOfFile
<1> HIDE DEF cells
<1>4. result = Len(cells) /\ Len(cells) \in Nat /\ p + got \in 0 .. MaxLen
  <2>1. Len(cells) \in Nat
    BY <1>3
  <2>2. result = Len(cells)
    BY <1>1, <1>2, <2>1
  <2>3. got \in Nat /\ got <= result
    BY <1>2, <2>1, <2>2 DEF Driver!Least
  <2> QED
    BY <1>1, <1>2, <2>1, <2>2, <2>3
<1>5. /\ handles' = Moved(h, p + got) /\ files' = files /\ buf' = buf /\ hooked' = hooked
      /\ call' = [call EXCEPT ![h] = Idle]
      /\ IF result > 0 THEN pos' = p /\ bufSize' = result ELSE UNCHANGED <<pos, bufSize>>
  BY DEF ReadFilled, Moved, hookVars
<1> HIDE DEF got
<1>6. /\ Driver!OpenHandles' = Driver!OpenHandles
      /\ \A g \in Driver!OpenHandles : handles'[g].file = handles[g].file
  BY <1>1, <1>4, <1>5, HandleMoved DEF TypeInv
<1>7. \A g \in Handle : call'[g] = Idle
  BY <1>1, <1>5 DEF TypeInv, CallOK
<1>8. OneName'
  BY <1>6 DEF CacheInv, OneName
<1>9. CASE result > 0
  <2>1. \A g \in Driver!OpenHandles : handles'[g].file = f
    BY <1>1, <1>6 DEF CacheInv, OneName
  <2>2. Holds(f, p, Len(cells))
    BY <1>1, <1>3 DEF Holds
  <2>3. BufferRight'
    BY <1>4, <1>5, <1>6, <1>9, <2>1, <2>2 DEF BufferRight, Holds
  <2>4. HookFirst' /\ OneCall' /\ \A g \in Handle : ReadRight(g)' /\ WriteApart(g)'
    BY <1>1, <1>5, <1>7 DEF HookFirst, OneCall, ReadRight, WriteApart
  <2> QED
    BY <1>8, <2>3, <2>4 DEF CacheInv
<1>10. CASE ~ (result > 0)
  BY <1>1, <1>5, <1>7, <1>8, <1>10, CacheEmptied
<1> QED
  BY <1>9, <1>10

LEMMA WriteBegunRight ==
    ASSUME Serial, TypeInv, CacheInv, NEW h \in Handle, NEW n \in 0 .. MaxLen, StorageWrite(h, n)
    PROVE  CacheInv'
<1> DEFINE c == [op |-> "write", len |-> n]
           p == handles[h].pos
<1>1. \A g \in Handle : call[g] = Idle
  BY AllIdle DEF StorageWrite
<1>2. /\ call' = [call EXCEPT ![h] = c] /\ DisableWithinRange(p, n) /\ hooked /\ hooked' = hooked
      /\ UNCHANGED <<files, handles>> /\ h \in Driver!OpenHandles
  BY DEF StorageWrite, diskVars, hookVars
<1>3. call'[h] = c /\ \A g \in Handle \ {h} : call'[g] = Idle
  BY <1>1, <1>2 DEF TypeInv, CallOK
<1>4. p \in Nat /\ n \in Nat /\ bufSize \in Nat /\ (bufSize > 0 => pos \in Nat /\ pos # INVALID_POS)
  BY <1>2, OpenOnes, MsCacheAssumption DEF TypeInv, BufOK, INVALID_POS
<1>5. bufSize' = 0 \/ (/\ UNCHANGED <<pos, bufSize, buf>>
                       /\ (pos = INVALID_POS \/ p + n <= pos \/ p >= pos + bufSize))
  BY <1>2 DEF DisableWithinRange, DisableCache, cacheVars
<1>6. WriteApart(h)'
  <2>1. call'[h].len = n /\ handles'[h].pos = p
    BY <1>2, <1>3
  <2>2. bufSize' = 0 \/ p + n <= pos' \/ pos' + bufSize' <= p
    <3>1. CASE bufSize = 0
      BY <1>5, <3>1
    <3>2. CASE bufSize > 0
      BY <1>4, <1>5, <3>2
    <3> QED
      BY <1>4, <3>1, <3>2
  <2> QED
    BY <2>1, <2>2 DEF WriteApart
<1>7. \A g \in Handle : ReadRight(g)' /\ WriteApart(g)'
  BY <1>3, <1>6 DEF ReadRight, WriteApart
<1>8. HookFirst' /\ OneCall' /\ OneName'
  BY <1>2, <1>3 DEF CacheInv, HookFirst, OneCall, OneName, Driver!OpenHandles
<1>9. BufferRight'
  <2>1. CASE bufSize' = 0
    BY <2>1 DEF BufferRight, Holds
  <2>2. CASE UNCHANGED <<pos, bufSize, buf>>
    BY <1>2, <2>2 DEF CacheInv, BufferRight, Holds, Driver!OpenHandles
  <2> QED
    BY <1>5, <2>1, <2>2
<1> QED
  BY <1>7, <1>8, <1>9 DEF CacheInv

LEMMA WritesRight ==
    ASSUME TypeInv, CacheInv, NEW h \in Handle, DriverWrites(h)
    PROVE  CacheInv'
<1> DEFINE p == handles[h].pos
           n == call[h].len
           f == handles[h].file
<1>1. /\ h \in Driver!OpenHandles /\ call[h] \in WriteCall /\ call[h] # Idle
      /\ bufSize = 0 \/ p + n <= pos \/ pos + bufSize <= p
      /\ \A g \in Handle \ {h} : call[g] = Idle
  <2>1. h \in Driver!OpenHandles /\ call[h] \in WriteCall /\ call[h] # Idle /\ call[h].op = "write"
    BY CallsOpen DEF DriverWrites, TypeInv
  <2> QED
    BY <2>1 DEF CacheInv, OneCall, WriteApart
<1>2. /\ p \in Nat /\ n \in 0 .. MaxLen /\ f \in File /\ bufSize \in Nat /\ MaxLen \in Nat
      /\ bufSize > 0 => pos \in Nat
  BY <1>1, OpenOnes, MsCacheAssumption DEF TypeInv, BufOK, WriteCall
<1>3. /\ call' = [call EXCEPT ![h] = Idle] /\ UNCHANGED <<hookVars, cacheVars>>
  BY DEF DriverWrites
<1>4. \A g \in Handle : call'[g] = Idle
  BY <1>1, <1>3 DEF TypeInv, CallOK
<1>5. HookFirst' /\ OneCall' /\ \A g \in Handle : ReadRight(g)' /\ WriteApart(g)'
  BY <1>3, <1>4 DEF CacheInv, HookFirst, OneCall, ReadRight, WriteApart, hookVars, cacheVars
<1>6. CASE Driver!Write(h, n)
  <2>1. /\ Driver!OpenHandles' = Driver!OpenHandles
        /\ \A g \in Driver!OpenHandles : handles'[g].file = handles[g].file
        /\ Len(files[f]) <= Len(files'[f])
        /\ \A i \in 1 .. Len(files[f]) : i \notin p + 1 .. p + n => files'[f][i] = files[f][i]
    BY <1>2, <1>6, WriteTypes DEF TypeInv
  <2>2. Len(files[f]) \in Nat /\ Len(files'[f]) \in Nat
    <3>1. DiskOK'
      BY <1>2, <1>6, WriteTypes DEF TypeInv
    <3>2. files[f] \in Seq(Cell) /\ files'[f] \in Seq(Cell)
      BY <1>2, <3>1 DEF TypeInv, DiskOK
    <3> QED
      BY <3>2
  <2>3. ASSUME NEW i \in 1 .. bufSize
        PROVE  pos + i <= Len(files'[f]) /\ buf[i] = files'[f][pos + i]
    <3>1. pos + i <= Len(files[f]) /\ buf[i] = files[f][pos + i]
      BY <1>1 DEF CacheInv, BufferRight, Holds
    <3>2. pos \in Nat /\ pos + i \in 1 .. Len(files[f]) /\ pos + i \notin p + 1 .. p + n
      BY <1>1, <1>2, <2>2, <3>1
    <3> QED
      BY <2>1, <2>2, <3>1, <3>2
  <2>4. \A g \in Driver!OpenHandles' : handles'[g].file = f
    BY <1>1, <2>1 DEF CacheInv, OneName
  <2>5. OneName' /\ BufferRight'
    BY <1>3, <2>3, <2>4 DEF OneName, BufferRight, Holds, cacheVars
  <2> QED
    BY <1>5, <2>5 DEF CacheInv
<1>7. CASE Driver!WriteFails(h)
  <2>1. UNCHANGED <<files, handles, cacheVars>>
    BY <1>3, <1>7 DEF Driver!WriteFails
  <2>2. OneName' /\ BufferRight'
    BY <2>1 DEF CacheInv, OneName, BufferRight, Holds, Driver!OpenHandles, cacheVars
  <2> QED
    BY <1>5, <2>2 DEF CacheInv
<1> QED
  BY <1>6, <1>7 DEF DriverWrites

LEMMA CacheStep ==
    ASSUME OneFile, Serial, TypeInv, CacheInv, [Next]_vars
    PROVE  CacheInv'
<1>1. CASE UNCHANGED vars
  BY <1>1 DEF vars, diskVars, hookVars, cacheVars, CacheInv, HookFirst, OneCall, OneName,
              BufferRight, Holds, ReadRight, WriteApart, Fill, Driver!Cells, Driver!OpenHandles
<1>2. ASSUME NEW h \in Handle, NEW p \in 0 .. MaxLen, StorageLseek(h, p)
      PROVE  CacheInv'
  <2>1. /\ \A g \in Handle : call[g] = Idle
        /\ h \in Driver!OpenHandles /\ handles' = Moved(h, p)
        /\ UNCHANGED <<files, call, hookVars, cacheVars>>
    BY <1>2, AllIdle DEF StorageLseek, Driver!Lseek, Moved
  <2>2. /\ Driver!OpenHandles' = Driver!OpenHandles
        /\ \A g \in Driver!OpenHandles : handles'[g].file = handles[g].file
    BY <2>1, HandleMoved DEF TypeInv
  <2> QED
    BY <2>1, <2>2, CacheKept
<1>3. ASSUME NEW h \in Handle, NEW n \in 0 .. MaxLen, ReadHit(h, n)
      PROVE  CacheInv'
  <2> DEFINE q == handles[h].pos + n
  <2>1. /\ \A g \in Handle : call[g] = Idle
        /\ h \in Driver!OpenHandles /\ Hit(handles[h].pos, n)
        /\ handles' = Moved(h, q)
        /\ UNCHANGED <<files, call, hookVars, cacheVars>>
    BY <1>3, AllIdle DEF ReadHit, Moved
  <2>2. q \in 0 .. MaxLen
    <3>1. handles[h].pos \in Nat /\ n \in Nat /\ MaxLen \in Nat
      BY <2>1, OpenOnes, MsCacheAssumption DEF TypeInv
    <3> QED
      BY <2>1, <3>1, HitInside DEF TypeInv
  <2> HIDE DEF q
  <2>3. /\ Driver!OpenHandles' = Driver!OpenHandles
        /\ \A g \in Driver!OpenHandles : handles'[g].file = handles[g].file
    BY <2>1, <2>2, HandleMoved DEF TypeInv
  <2> QED
    BY <2>1, <2>3, CacheKept
<1>4. ASSUME NEW h \in Handle, NEW n \in 0 .. MaxLen, ReadLong(h, n) \/ ReadUnhooked(h, n)
      PROVE  CacheInv'
  <2>1. /\ \A g \in Handle : call[g] = Idle
        /\ Driver!Read(h, n) /\ UNCHANGED <<call, hookVars, cacheVars>>
    BY <1>4, AllIdle DEF ReadLong, ReadUnhooked, Unhooked
  <2>2. /\ Driver!OpenHandles' = Driver!OpenHandles /\ files' = files
        /\ \A g \in Driver!OpenHandles : handles'[g].file = handles[g].file
    BY <2>1, ReadTypes DEF TypeInv
  <2> QED
    BY <2>1, <2>2, CacheKept
<1>5. ASSUME NEW h \in Handle, NEW n \in 0 .. MaxLen, WriteUnhooked(h, n)
      PROVE  CacheInv'
  <2>1. /\ \A g \in Handle : call[g] = Idle
        /\ Driver!Write(h, n) /\ ~ hooked /\ UNCHANGED <<call, hookVars, cacheVars>>
    BY <1>5, AllIdle DEF WriteUnhooked, Unhooked
  <2>2. /\ Driver!OpenHandles' = Driver!OpenHandles
        /\ \A g \in Driver!OpenHandles : handles'[g].file = handles[g].file
    BY <2>1, WriteTypes DEF TypeInv
  <2>3. OneName' /\ bufSize' = 0
    BY <2>1, <2>2 DEF CacheInv, OneName, HookFirst, cacheVars
  <2> QED
    BY <2>1, <2>3, CacheEmptied
<1>6. ASSUME NEW h \in Handle, StorageClose(h)
      PROVE  CacheInv'
  <2>1. /\ \A g \in Handle : call[g] = Idle
        /\ Driver!Close(h) /\ UNCHANGED <<call, hookVars, cacheVars>>
    BY <1>6, AllIdle DEF StorageClose
  <2>2. /\ Driver!OpenHandles' = Driver!OpenHandles \ {h} /\ files' = files
        /\ \A g \in Handle \ {h} : handles'[g] = handles[g]
    BY <2>1, CloseTypes DEF TypeInv
  <2>3. \A g \in Driver!OpenHandles' : handles'[g].file = handles[g].file
    BY <2>2 DEF Driver!OpenHandles
  <2> QED
    BY <2>1, <2>2, <2>3, CacheKept
<1>7. CASE StorageOther \/ CacheInit \/ CacheRemove
  <2>1. /\ UNCHANGED <<diskVars, call>> /\ \A g \in Handle : call[g] = Idle
        /\ bufSize' = 0
    BY <1>7 DEF StorageOther, CacheInit, CacheRemove, DisableCache
  <2>2. OneName'
    BY <2>1 DEF CacheInv, OneName, Driver!OpenHandles, diskVars
  <2> QED
    BY <2>1, <2>2, CacheEmptied
<1> QED
  BY <1>1, <1>2, <1>3, <1>4, <1>5, <1>6, <1>7, OpenRight, MissRight, FillRight, FilledRight,
     WriteBegunRight, WritesRight
     DEF Next

LEMMA CacheStart ==
    ASSUME Init
    PROVE  CacheInv
<1>1. OneName /\ BufferRight
  BY DEF Init, Driver!Init, OneName, BufferRight, Driver!OpenHandles
<1> QED
  BY <1>1 DEF Init, CacheInv, HookFirst, OneCall, ReadRight, WriteApart

LEMMA CacheAlways ==
    ASSUME OneFile, Serial
    PROVE  Spec => [](TypeInv /\ CacheInv)
<1>1. Init => TypeInv /\ CacheInv
  BY TypeStart, CacheStart
<1>2. TypeInv /\ CacheInv /\ [Next]_vars => (TypeInv /\ CacheInv)'
  BY TypeStep, CacheStep
<1> QED
  BY <1>1, <1>2, PTL DEF Spec

-----------------------------------------------------------------------------
(* What the buffer answers.                                                *)
LEMMA HitRight ==
    ASSUME TypeInv, CacheInv, NEW h \in Driver!OpenHandles, NEW n \in Nat,
           Hit(handles[h].pos, n)
    PROVE  LET p == handles[h].pos
               c == Driver!Cells(handles[h].file, p, n)
           IN  /\ c \in Seq(Cell) /\ Len(c) = n
               /\ p \in Nat /\ pos \in Nat /\ pos <= p /\ p + n <= pos + bufSize
               /\ \A i \in 1 .. n : c[i] = buf[p - pos + i]
<1> DEFINE p == handles[h].pos
           f == handles[h].file
           c == Driver!Cells(f, p, n)
<1>1. f \in File /\ p \in Nat
  BY OpenOnes, MsCacheAssumption DEF TypeInv
<1>2. /\ pos \in Nat /\ bufSize \in Nat /\ bufSize > 0
      /\ pos <= p /\ p + n <= pos + bufSize
  BY <1>1, HitInside DEF TypeInv
<1>3. files[f] \in Seq(Cell) /\ Len(files[f]) \in Nat
  BY <1>1 DEF TypeInv, DiskOK
<1>4. \A i \in 1 .. bufSize : pos + i <= Len(files[f]) /\ buf[i] = files[f][pos + i]
  BY DEF CacheInv, BufferRight, Holds
<1>5. p + n <= Len(files[f])
  <2>1. bufSize \in 1 .. bufSize
    BY <1>2
  <2>2. pos + bufSize <= Len(files[f])
    BY <1>4, <2>1
  <2> QED
    BY <1>1, <1>2, <1>3, <2>2
<1>6. /\ c \in Seq(Cell) /\ \A i \in 1 .. Len(c) : c[i] = files[f][p + i]
  BY <1>1, CellsOfFile DEF TypeInv
<1>7. Len(c) = n
  BY <1>1, <1>5, CellsLength DEF TypeInv
<1>8. \A i \in 1 .. n : p - pos + i \in 1 .. bufSize /\ pos + (p - pos + i) = p + i
  BY <1>1, <1>2
<1>9. \A i \in 1 .. n : c[i] = buf[p - pos + i]
  BY <1>4, <1>6, <1>7, <1>8
<1> QED
  BY <1>1, <1>2, <1>6, <1>7, <1>9

(* For programs that have handles of one file at a time and make one call  *)
(* at a time, what the buffer answers is what the driver would give:       *)
(* storageReadCache() as the code checks itself in CHECK_MODE.             *)
THEOREM CacheIsRight ==
    ASSUME OneFile, Serial
    PROVE  Spec => []CacheMatches
<1>1. ASSUME TypeInv, CacheInv
      PROVE  CacheMatches
  <2> SUFFICES ASSUME NEW h \in Driver!OpenHandles, NEW n \in 1 .. CacheSize,
                      Hit(handles[h].pos, n)
               PROVE  Driver!Cells(handles[h].file, handles[h].pos, n)
                          = SubSeq(buf, handles[h].pos - pos + 1, handles[h].pos - pos + n)
    BY DEF CacheMatches
  <2> DEFINE p == handles[h].pos
             c == Driver!Cells(handles[h].file, p, n)
             d == p - pos
             b == SubSeq(buf, d + 1, d + n)
  <2>1. n \in Nat /\ CacheSize \in Nat
    BY MsCacheAssumption
  <2>2. /\ c \in Seq(Cell) /\ Len(c) = n
        /\ p \in Nat /\ pos \in Nat /\ pos <= p /\ p + n <= pos + bufSize
        /\ \A i \in 1 .. n : c[i] = buf[p - pos + i]
    BY <1>1, <2>1, HitRight
  <2>3. buf \in Seq(Cell) /\ Len(buf) = CacheSize /\ bufSize <= CacheSize /\ bufSize \in Nat
    BY <1>1, <2>1, FunctionIsSeq DEF TypeInv, BufOK
  <2>4. d \in Nat /\ d + n <= CacheSize
    BY <2>1, <2>2, <2>3
  <2> HIDE DEF d, c, p
  <2>5. \A i \in d + 1 .. d + n : buf[i] \in Cell
    BY <2>1, <2>3, <2>4
  <2>6. /\ b \in Seq(Cell) /\ Len(b) = IF d + 1 <= d + n THEN d + n - (d + 1) + 1 ELSE 0
        /\ \A i \in 1 .. d + n - (d + 1) + 1 : b[i] = buf[(d + 1) + i - 1]
    BY <2>1, <2>4, <2>5, SubSeqProperties
  <2> HIDE DEF b
  <2>7. Len(b) = n /\ \A i \in 1 .. n : b[i] = buf[d + i]
    BY <2>1, <2>4, <2>6
  <2>8. c = b
    BY <2>2, <2>6, <2>7, SeqEqual DEF d
  <2> QED
    BY <2>8 DEF b, c, d, p
<1> QED
  BY <1>1, CacheAlways, PTL

-----------------------------------------------------------------------------
(* The handles as the programs see them: the driver's, but for a read that *)
(* has filled the buffer and not returned yet.                             *)
NoneFilled ==
    \A g \in Handle : call[g] # Idle /\ call[g].op = "read" => ~ call[g].filled

LEMMA SeenHandles == TypeInv /\ NoneFilled => HandlesSeen = handles
<1> SUFFICES ASSUME DiskOK, CallOK, NoneFilled
             PROVE  HandlesSeen = handles
  BY DEF TypeInv
<1>1. ASSUME NEW g \in Handle
      PROVE  HandlesSeen[g] = handles[g]
  <2>1. CASE call[g] # Idle /\ call[g].op = "read"
    <3>1. g \in Driver!OpenHandles /\ handles[g].pos = call[g].pos /\ handles[g] \in OpenHandle
      BY <2>1, CallsOpen, OpenOnes DEF CallOK, FillInOrder, NoneFilled
    <3>2. [handles[g] EXCEPT !.pos = call[g].pos] = handles[g]
      BY <3>1 DEF OpenHandle
    <3> QED
      BY <2>1, <3>2 DEF HandlesSeen
  <2>2. CASE ~ (call[g] # Idle /\ call[g].op = "read")
    BY <2>2 DEF HandlesSeen
  <2> QED
    BY <2>1, <2>2
<1>2. HandlesSeen = [g \in Handle |-> HandlesSeen[g]]
  BY DEF HandlesSeen
<1>3. handles = [g \in Handle |-> handles[g]]
  BY DEF DiskOK
<1> QED
  BY <1>1, <1>2, <1>3

LEMMA SeenHandlesNext == (TypeInv /\ NoneFilled => HandlesSeen = handles)'
  BY SeenHandles, PTL

(* A read that the buffer answers is a read of the file.                   *)
LEMMA HitPlain ==
    ASSUME Serial, TypeInv, CacheInv, TypeInv',
           NEW h \in Handle, NEW n \in 0 .. MaxLen, ReadHit(h, n)
    PROVE  Plain!Read(h, n)
<1> DEFINE p == handles[h].pos
           c == Driver!Cells(handles[h].file, p, n)
<1>1. /\ h \in Driver!OpenHandles /\ Hit(p, n) /\ files' = files /\ call' = call
      /\ answer' = [handle |-> h, cells |-> [i \in 1 .. n |-> buf[p - pos + i]]]
      /\ handles' = [handles EXCEPT ![h].pos = p + n]
      /\ \A g \in Handle : call[g] = Idle
  BY AllIdle DEF ReadHit
<1>2. HandlesSeen = handles /\ HandlesSeen' = handles'
  <2>1. NoneFilled /\ NoneFilled'
    BY <1>1 DEF NoneFilled
  <2> QED
    BY <2>1, SeenHandles, SeenHandlesNext
<1>3. n \in Nat /\ MaxLen \in Nat
  BY MsCacheAssumption
<1>4. c \in Seq(Cell) /\ Len(c) = n /\ \A i \in 1 .. n : c[i] = buf[p - pos + i]
  BY <1>1, <1>3, HitRight
<1>5. c = [i \in 1 .. n |-> buf[p - pos + i]]
  <2> HIDE DEF c
  <2>1. c = [i \in 1 .. n |-> c[i]]
    BY <1>4
  <2> QED
    BY <1>4, <2>1
<1>6. Plain!Cells(HandlesSeen[h].file, HandlesSeen[h].pos, n) = c
  BY <1>2 DEF Plain!Cells, Driver!Cells, Plain!Least, Driver!Least
<1>7. h \in Plain!OpenHandles
  BY <1>1, <1>2 DEF Plain!OpenHandles, Driver!OpenHandles
<1> HIDE DEF c
<1>8. /\ answer' = [handle |-> h, cells |-> c]
      /\ HandlesSeen' = [HandlesSeen EXCEPT ![h].pos = HandlesSeen[h].pos + Len(c)]
  BY <1>1, <1>2, <1>4, <1>5
<1> QED
  BY <1>1, <1>6, <1>7, <1>8 DEF Plain!Read

(* So is one that returns after the buffer was filled; filling it shows    *)
(* nothing.                                                                *)
LEMMA FillPlain ==
    ASSUME TypeInv, CacheInv, TypeInv', NEW h \in Handle, DriverFills(h)
    PROVE  UNCHANGED Plain!vars \/ \E n \in 0 .. MaxLen : Plain!Read(h, n)
<1>1. /\ h \in Driver!OpenHandles /\ call[h] \in ReadCall /\ call[h] # Idle
      /\ call[h].op = "read" /\ ~ call[h].filled /\ handles[h].pos = call[h].pos
      /\ \A g \in Handle \ {h} : call[g] = Idle
  <2>1. h \in Driver!OpenHandles /\ call[h] \in ReadCall /\ call[h] # Idle
        /\ call[h].op = "read" /\ ~ call[h].filled /\ handles[h].pos = call[h].pos
    BY CallsOpen DEF DriverFills, TypeInv, CallOK, FillInOrder
  <2> QED
    BY <2>1 DEF CacheInv, OneCall
<1>2. HandlesSeen = handles
  BY <1>1, SeenHandles DEF NoneFilled
<1>3. files' = files
  BY DEF DriverFills
<1>4. CASE /\ handles' = [handles EXCEPT ![h].pos = @ + Len(Fill(h))]
           /\ call' = [call EXCEPT ![h].filled = TRUE]
           /\ UNCHANGED answer
  <2>1. call'[h] = [call[h] EXCEPT !.filled = TRUE] /\ \A g \in Handle \ {h} : call'[g] = Idle
    BY <1>1, <1>4 DEF TypeInv, CallOK
  <2>2. call'[h].op = "read" /\ call'[h].pos = call[h].pos /\ call'[h] # Idle
    <3>1. call'[h] \in ReadCall
      BY <1>1, <2>1 DEF ReadCall
    <3> QED
      BY <1>1, <2>1, <3>1, MsCacheAssumption DEF ReadCall
  <2>3. /\ handles'[h] = [handles[h] EXCEPT !.pos = handles[h].pos + Len(Fill(h))]
        /\ \A g \in Handle \ {h} : handles'[g] = handles[g]
    BY <1>4 DEF TypeInv, DiskOK
  <2>4. handles[h] \in OpenHandle
    BY <1>1, OpenOnes DEF TypeInv
  <2>5. [handles'[h] EXCEPT !.pos = call'[h].pos] = handles[h]
    BY <1>1, <2>2, <2>3, <2>4 DEF OpenHandle
  <2>6. ASSUME NEW g \in Handle
        PROVE  HandlesSeen'[g] = handles[g]
    BY <2>1, <2>2, <2>3, <2>5 DEF HandlesSeen
  <2>7. HandlesSeen' = [g \in Handle |-> HandlesSeen'[g]]
    BY DEF HandlesSeen
  <2>8. handles = [g \in Handle |-> handles[g]]
    BY DEF TypeInv, DiskOK
  <2>9. HandlesSeen' = handles
    BY <2>6, <2>7, <2>8
  <2> QED
    BY <1>2, <1>3, <1>4, <2>9 DEF Plain!vars
<1>5. CASE /\ call' = [call EXCEPT ![h] = Idle]
           /\ answer' = Blank
           /\ UNCHANGED <<buf, handles>>
  <2>1. \A g \in Handle : call'[g] = Idle
    BY <1>1, <1>5 DEF TypeInv, CallOK
  <2>2. HandlesSeen' = handles'
    <3>1. NoneFilled'
      BY <2>1 DEF NoneFilled
    <3> QED
      BY <3>1, SeenHandlesNext
  <2>3. h \in Plain!OpenHandles
    BY <1>1, <1>2 DEF Plain!OpenHandles, Driver!OpenHandles
  <2>4. Plain!Read(h, call[h].len)
    BY <1>2, <1>3, <1>5, <2>2, <2>3 DEF Plain!Read
  <2>5. call[h].len \in 0 .. MaxLen
    BY <1>1 DEF ReadCall
  <2> QED
    BY <2>4, <2>5
<1> QED
  BY <1>4, <1>5 DEF DriverFills, Fill

LEMMA FilledPlain ==
    ASSUME TypeInv, CacheInv, TypeInv', NEW h \in Handle, ReadFilled(h)
    PROVE  \E n \in 0 .. MaxLen : Plain!Read(h, n)
<1> DEFINE p == call[h].pos
           f == handles[h].file
           n == call[h].len
           whole == Fill(h)
           c == Driver!Cells(f, p, n)
           result == handles[h].pos - p
           got == Driver!Least(n, result)
<1>1. /\ h \in Driver!OpenHandles /\ call[h] \in ReadCall /\ call[h] # Idle
      /\ call[h].op = "read" /\ n <= CacheSize
      /\ handles[h].pos = p + Len(whole) /\ \A i \in 1 .. Len(whole) : buf[i] = whole[i]
      /\ \A g \in Handle \ {h} : call[g] = Idle
  <2>1. h \in Driver!OpenHandles /\ call[h] \in ReadCall /\ call[h] # Idle
        /\ call[h].op = "read" /\ call[h].filled
    BY CallsOpen DEF ReadFilled, TypeInv
  <2> QED
    BY <2>1 DEF CacheInv, OneCall, ReadRight
<1>2. /\ p \in Nat /\ f \in File /\ CacheSize \in Nat /\ n \in Nat /\ n \in 0 .. MaxLen
      /\ DiskOK /\ handles[h] \in OpenHandle
  BY <1>1, OpenOnes, MsCacheAssumption DEF TypeInv, ReadCall
<1>3. /\ answer' = [handle |-> h, cells |-> [i \in 1 .. got |-> buf[i]]]
      /\ handles' = [handles EXCEPT ![h].pos = p + got] /\ files' = files
      /\ call' = [call EXCEPT ![h] = Idle]
  BY DEF ReadFilled
<1>4. /\ whole \in Seq(Cell) /\ c \in Seq(Cell) /\ Len(files[f]) \in Nat
      /\ Len(whole) = IF p + CacheSize <= Len(files[f]) THEN CacheSize
                      ELSE IF p <= Len(files[f]) THEN Len(files[f]) - p ELSE 0
      /\ Len(c) = IF p + n <= Len(files[f]) THEN n
                  ELSE IF p <= Len(files[f]) THEN Len(files[f]) - p ELSE 0
      /\ \A i \in 1 .. Len(whole) : whole[i] = files[f][p + i]
      /\ \A i \in 1 .. Len(c) : c[i] = files[f][p + i]
  <2>1. whole = Driver!Cells(f, p, CacheSize)
    BY DEF Fill
  <2>2. files[f] \in Seq(Cell)
    BY <1>2 DEF DiskOK
  <2> HIDE DEF p, f, n, whole, c
  <2>3. Driver!Cells(f, p, n) = c
    BY DEF c
  <2>4. /\ Len(whole) = IF p + CacheSize <= Len(files[f]) THEN CacheSize
                        ELSE IF p <= Len(files[f]) THEN Len(files[f]) - p ELSE 0
        /\ Len(c) = IF p + n <= Len(files[f]) THEN n
                    ELSE IF p <= Len(files[f]) THEN Len(files[f]) - p ELSE 0
    BY <1>2, <2>1, <2>3, CellsLength
  <2>5. /\ whole \in Seq(Cell) /\ c \in Seq(Cell)
        /\ \A i \in 1 .. Len(whole) : whole[i] = files[f][p + i]
        /\ \A i \in 1 .. Len(c) : c[i] = files[f][p + i]
    BY <1>2, <2>1, <2>3, CellsOfFile
  <2> QED
    BY <2>2, <2>4, <2>5
<1> HIDE DEF whole, c
<1>5. got = Len(c) /\ Len(c) <= Len(whole) /\ Len(whole) \in Nat
  <2>1. handles[h].pos \in Nat /\ Len(whole) \in Nat
    BY <1>1, <1>4, OpenOnes, MsCacheAssumption DEF TypeInv
  <2>2. result = Len(whole)
    BY <1>1, <1>2, <2>1
  <2> HIDE DEF result, p, n, f
  <2> QED
    BY <1>1, <1>2, <1>4, <2>1, <2>2 DEF Driver!Least
<1> HIDE DEF got
<1>6. c = [i \in 1 .. got |-> buf[i]]
  <2>1. c = [i \in 1 .. Len(c) |-> c[i]]
    BY <1>4
  <2>2. \A i \in 1 .. Len(c) : c[i] = buf[i]
    BY <1>1, <1>4, <1>5
  <2> QED
    BY <1>5, <2>1, <2>2
<1>7. HandlesSeen' = handles'
  <2>1. \A g \in Handle : call'[g] = Idle
    BY <1>1, <1>3 DEF TypeInv, CallOK
  <2>2. NoneFilled'
    BY <2>1 DEF NoneFilled
  <2> QED
    BY <2>2, SeenHandlesNext
<1>8. HandlesSeen[h] = [handles[h] EXCEPT !.pos = p]
      /\ \A g \in Handle \ {h} : HandlesSeen[g] = handles[g]
  BY <1>1 DEF HandlesSeen
<1>9. HandlesSeen[h].file = f /\ HandlesSeen[h].pos = p /\ HandlesSeen[h] # Closed
  <2>1. HandlesSeen[h] \in OpenHandle
    BY <1>1, <1>2, <1>8 DEF OpenHandle, ReadCall
  <2> QED
    BY <1>2, <1>8, <2>1, MsCacheAssumption DEF OpenHandle
<1>10. HandlesSeen' = [HandlesSeen EXCEPT ![h].pos = p + Len(c)]
  <2> DEFINE q == p + Len(c)
  <2>1. handles' = [handles EXCEPT ![h] = [handles[h] EXCEPT !.pos = q]]
    BY <1>1, <1>3, <1>5 DEF TypeInv, DiskOK
  <2>2. [HandlesSeen[h] EXCEPT !.pos = q] = [handles[h] EXCEPT !.pos = q]
    BY <1>2, <1>8 DEF OpenHandle
  <2>3. HandlesSeen = [g \in Handle |-> HandlesSeen[g]]
    BY DEF HandlesSeen
  <2>4. handles \in [Handle -> OpenHandle \cup {Closed}]
    BY DEF TypeInv, DiskOK
  <2> HIDE DEF q
  <2>5. [HandlesSeen EXCEPT ![h] = [HandlesSeen[h] EXCEPT !.pos = q]] = handles'
    BY <1>8, <2>1, <2>2, <2>3, <2>4
  <2> QED
    BY <1>7, <2>5 DEF q
<1>11. Plain!Cells(HandlesSeen[h].file, HandlesSeen[h].pos, n) = c
  BY <1>9 DEF Plain!Cells, Driver!Cells, Plain!Least, Driver!Least, c
<1>12. h \in Plain!OpenHandles
  BY <1>9 DEF Plain!OpenHandles
<1>13. answer' = [handle |-> h, cells |-> c]
  BY <1>3, <1>6
<1>14. Plain!Read(h, n)
  BY <1>3, <1>9, <1>10, <1>11, <1>12, <1>13 DEF Plain!Read
<1> QED
  BY <1>2, <1>14

(* Every step of the cache is a step of the files without it, or none.     *)
LEMMA PlainStep ==
    ASSUME Serial, TypeInv, CacheInv, TypeInv', [Next]_vars
    PROVE  [Plain!Next]_Plain!vars
<1> SUFFICES ASSUME ~ UNCHANGED Plain!vars
             PROVE  Plain!Next
  OBVIOUS
<1>1. CASE UNCHANGED vars
  BY <1>1 DEF vars, diskVars, Plain!vars, HandlesSeen
<1>2. ASSUME NoneFilled, NoneFilled'
      PROVE  HandlesSeen = handles /\ HandlesSeen' = handles'
  BY <1>2, SeenHandles, SeenHandlesNext
<1>3. ASSUME NEW h \in Handle, MayCall(h), call' = call
      PROVE  HandlesSeen = handles /\ HandlesSeen' = handles'
  <2>1. NoneFilled /\ NoneFilled'
    BY <1>3, AllIdle DEF NoneFilled
  <2> QED
    BY <1>2, <2>1
<1>4. ASSUME NEW h \in Handle, NEW f \in File, NEW trunc \in BOOLEAN, StorageOpen(h, f, trunc)
      PROVE  Plain!Next
  <2>1. MayCall(h) /\ call' = call /\ Driver!Open(h, f, trunc)
    BY <1>4 DEF StorageOpen, Unhooked
  <2>2. Plain!Open(h, f, trunc)
    BY <1>3, <2>1 DEF Plain!Open, Driver!Open
  <2> QED
    BY <2>2 DEF Plain!Next
<1>5. ASSUME NEW h \in Handle, NEW p \in 0 .. MaxLen, StorageLseek(h, p)
      PROVE  Plain!Next
  <2>1. MayCall(h) /\ call' = call /\ Driver!Lseek(h, p)
    BY <1>5 DEF StorageLseek
  <2>2. Plain!Lseek(h, p)
    BY <1>3, <2>1 DEF Plain!Lseek, Driver!Lseek, Plain!OpenHandles, Driver!OpenHandles
  <2> QED
    BY <2>2 DEF Plain!Next
<1>6. ASSUME NEW h \in Handle, NEW n \in 0 .. MaxLen, ReadLong(h, n) \/ ReadUnhooked(h, n)
      PROVE  Plain!Next
  <2>1. MayCall(h) /\ call' = call /\ Driver!Read(h, n)
    BY <1>6 DEF ReadLong, ReadUnhooked, Unhooked
  <2>2. Plain!Read(h, n)
    BY <1>3, <2>1 DEF Plain!Read, Driver!Read, Plain!OpenHandles, Driver!OpenHandles,
                      Plain!Cells, Driver!Cells, Plain!Least, Driver!Least
  <2> QED
    BY <2>2 DEF Plain!Next
<1>7. ASSUME NEW h \in Handle, NEW n \in 0 .. MaxLen, WriteUnhooked(h, n)
      PROVE  Plain!Next
  <2>1. MayCall(h) /\ call' = call /\ Driver!Write(h, n)
    BY <1>7 DEF WriteUnhooked, Unhooked
  <2>2. Plain!Write(h, n)
    BY <1>3, <2>1 DEF Plain!Write, Driver!Write, Plain!OpenHandles, Driver!OpenHandles
  <2> QED
    BY <2>2 DEF Plain!Next
<1>8. ASSUME NEW h \in Handle, StorageClose(h)
      PROVE  Plain!Next
  <2>1. MayCall(h) /\ call' = call /\ Driver!Close(h)
    BY <1>8 DEF StorageClose
  <2>2. Plain!Close(h)
    BY <1>3, <2>1 DEF Plain!Close, Driver!Close, Plain!OpenHandles, Driver!OpenHandles
  <2> QED
    BY <2>2 DEF Plain!Next
<1>9. ASSUME NEW h \in Handle, NEW n \in 0 .. MaxLen, ReadMiss(h, n) \/ StorageWrite(h, n)
      PROVE  FALSE
  <2>1. MayCall(h) /\ UNCHANGED diskVars /\ h \in Driver!OpenHandles
    BY <1>9 DEF ReadMiss, StorageWrite
  <2>2. NoneFilled
    BY <2>1, AllIdle DEF NoneFilled
  <2>3. NoneFilled'
    <3>1. \A g \in Handle \ {h} : call'[g] = Idle
      BY <1>9, <2>1, AllIdle DEF ReadMiss, StorageWrite, TypeInv, CallOK
    <3>2. call'[h].op = "read" => ~ call'[h].filled
      <4>1. CASE ReadMiss(h, n)
        BY <4>1 DEF ReadMiss, TypeInv, CallOK
      <4>2. CASE StorageWrite(h, n)
        BY <4>2 DEF StorageWrite, TypeInv, CallOK
      <4> QED
        BY <1>9, <4>1, <4>2
    <3> QED
      BY <3>1, <3>2 DEF NoneFilled
  <2> QED
    BY <1>2, <2>1, <2>2, <2>3 DEF Plain!vars, diskVars
<1>10. ASSUME NEW h \in Handle, DriverWrites(h)
       PROVE  Plain!Next
  <2>1. h \in Driver!OpenHandles /\ call[h] \in WriteCall /\ call[h] # Idle
        /\ call[h].op = "write" /\ call' = [call EXCEPT ![h] = Idle]
    BY <1>10, CallsOpen DEF DriverWrites, TypeInv
  <2>2. \A g \in Handle \ {h} : call[g] = Idle
    BY <2>1 DEF CacheInv, OneCall
  <2>3. NoneFilled /\ NoneFilled'
    BY <2>1, <2>2 DEF NoneFilled, TypeInv, CallOK
  <2>4. HandlesSeen = handles /\ HandlesSeen' = handles'
    BY <1>2, <2>3
  <2>5. CASE Driver!Write(h, call[h].len)
    <3>1. Plain!Write(h, call[h].len)
      BY <2>4, <2>5 DEF Plain!Write, Driver!Write, Plain!OpenHandles, Driver!OpenHandles
    <3>2. call[h].len \in 0 .. MaxLen
      BY <2>1 DEF WriteCall
    <3> QED
      BY <3>1, <3>2 DEF Plain!Next
  <2>6. CASE Driver!WriteFails(h)
    <3>1. Plain!WriteFails(h)
      BY <2>4, <2>6
         DEF Plain!WriteFails, Driver!WriteFails, Plain!OpenHandles, Driver!OpenHandles
    <3> QED
      BY <3>1 DEF Plain!Next
  <2> QED
    BY <1>10, <2>5, <2>6 DEF DriverWrites
<1>11. CASE StorageOther \/ CacheInit \/ CacheRemove
  BY <1>11 DEF StorageOther, CacheInit, CacheRemove, diskVars, Plain!vars, HandlesSeen
<1>12. ASSUME NEW h \in Handle, NEW n \in 0 .. MaxLen, ReadHit(h, n)
       PROVE  Plain!Next
  BY <1>12, HitPlain DEF Plain!Next
<1>13. ASSUME NEW h \in Handle, DriverFills(h) \/ ReadFilled(h)
       PROVE  Plain!Next
  BY <1>13, FillPlain, FilledPlain DEF Plain!Next
<1> QED
  BY <1>1, <1>4, <1>5, <1>6, <1>7, <1>8, <1>9, <1>10, <1>11, <1>12, <1>13 DEF Next

(* The cache cannot be told from no cache, for programs that have handles  *)
(* of one file at a time and make one call at a time: every read gives     *)
(* what the file holds and leaves the handle where a plain read would.     *)
THEOREM CacheIsPlain ==
    ASSUME OneFile, Serial
    PROVE  Spec => ImplementsPlainFiles
<1>1. Init => Plain!Init
  <2> SUFFICES ASSUME Init
               PROVE  Plain!Init
    OBVIOUS
  <2>1. HandlesSeen = handles
    BY TypeStart, SeenHandles DEF Init, NoneFilled
  <2> QED
    BY <2>1 DEF Init, Driver!Init, Plain!Init
<1>2. TypeInv /\ CacheInv /\ TypeInv' /\ [Next]_vars => [Plain!Next]_Plain!vars
  BY PlainStep
<1> QED
  BY <1>1, <1>2, CacheAlways, PTL DEF Spec, ImplementsPlainFiles, Plain!Spec

=============================================================================
