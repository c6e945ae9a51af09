---------------------------- MODULE IsoCacheProof ----------------------------
(***************************************************************************)
(* Proofs about IsoCache, for every size of the image, of the cache and of *)
(* a read.  The inductive invariant IsoIInv says, next to what the runs    *)
(* check:                                                                  *)
(*   - that the table holds free entries and blocks that are right (Right),*)
(*     sorted, none of them twice (Table),                                 *)
(*   - that no block holds what is about to be filled (FillNeeded),        *)
(*   - that what was delivered so far is what the image holds (Answered),  *)
(*   - which entries were used since ages were counted (Ages).             *)
(* The search is a recursive function; that there is such a function, that *)
(* what it finds is right and that it misses nothing is proved by taking   *)
(* the least counterexample (Descent).                                     *)
(***************************************************************************)
EXTENDS IsoCache, TLAPS, WellFoundedInduction, SequenceTheorems

(* Natural numbers and division.                                           *)

(* A set of natural numbers that is not empty has a least element.         *)
LEMMA NatMin ==
    ASSUME NEW T, T \subseteq Nat, T # {}
    PROVE  \E x \in T : \A y \in T : x <= y
<1>1. PICK x \in T : \A y \in T : ~ (<<y, x>> \in OpToRel(<, Nat))
  BY NatLessThanWellFounded, WFMin
<1>2. ASSUME NEW y \in T, y < x PROVE <<y,x>> \in OpToRel(<, Nat)
  <2>1. <<y,x>> \in Nat \X Nat
    OBVIOUS
  <2>2. <<y,x>>[1] < <<y,x>>[2]
    BY <1>2
  <2>3. <<y,x>> \in {ss \in Nat \X Nat : ss[1] < ss[2]}
    BY <2>1, <2>2
  <2> QED
    BY <2>3, Zenon DEF OpToRel
<1>3. ASSUME NEW y \in T, y < x PROVE FALSE
    BY <1>1, <1>2, <1>3
<1> QED
  BY <1>3

(* A set of natural numbers with no least element is empty.                *)
LEMMA Descent ==
    ASSUME NEW T, T \subseteq Nat, \A x \in T : \E y \in T : y < x
    PROVE  T = {}
<1> SUFFICES ASSUME T # {} PROVE FALSE
  OBVIOUS
<1>1. PICK x \in T : \A y \in T : x <= y
  BY NatMin
<1>2. PICK y \in T : y < x
  BY <1>1
<1> QED
  BY <1>1, <1>2

(* What \div and % are.                                                    *)
LEMMA Modulo ==
    ASSUME NEW a \in Nat, NEW n \in Nat \ {0}
    PROVE  /\ a % n \in 0 .. n - 1
           /\ a \div n \in Nat
           /\ a = (n * (a \div n)) + (a % n)
<1>1. a % n \in 0 .. n - 1
  OBVIOUS
<1>2. a = (n * (a \div n)) + (a % n)
  OBVIOUS
<1>3. a \div n \in Nat
  OBVIOUS
<1> QED BY <1>1, <1>2, <1>3

(* A multiple leaves no rest.                                              *)
LEMMA Multiple ==
    ASSUME NEW k \in Nat, NEW n \in Nat \ {0}
    PROVE  (n * k) % n = 0
  OBVIOUS

(* What leaves no rest is a multiple.                                      *)
LEMMA Divides ==
    ASSUME NEW a \in Nat, NEW n \in Nat \ {0}, a % n = 0
    PROVE  \E k \in Nat : a = n * k
<1> DEFINE k == a \div n
<1>1. a % n \in 0 .. n - 1 /\ k \in Nat /\ a = (n * k) + (a % n)
  BY Modulo
<1> HIDE DEF k
<1>2. n * k \in Nat
  BY <1>1
<1>3. a = n * k
  BY <1>1, <1>2
<1> QED
  BY <1>1, <1>3

(* The block that is filled for a position begins no later, ends behind it *)
(* if the image does, and is no block at all only at the end of the image. *)
LEMMA Aligned ==
    ASSUME NEW cur \in 0 .. Size
    PROVE  /\ AlignDown(cur) \in 0 .. cur
           /\ AlignDown(cur) % Align = 0
           /\ cur < AlignDown(cur) + Align
           /\ cur = Size => AlignDown(cur) = Size
           /\ Align <= Cap
<1> USE IsoCacheAssumption
<1>0. /\ Size \in Nat /\ cur \in Nat
      /\ Align \in Nat \ {0} /\ Sector \in Nat \ {0} /\ Cap \in Nat \ {0}
      /\ Cap % Align = 0 /\ Sector % Align = 0 /\ Size % Sector = 0
  OBVIOUS
<1> DEFINE r == cur % Align
           k == cur \div Align
<1>1. r \in 0 .. Align - 1 /\ k \in Nat /\ cur = (Align * k) + r
  BY <1>0, Modulo
<1> HIDE IsoCacheAssumption DEF r, k
<1>2. AlignDown(cur) = Align * k
  BY <1>0, <1>1 DEF AlignDown, r
<1>3. AlignDown(cur) % Align = 0
  BY <1>0, <1>1, <1>2, Multiple
<1>4. AlignDown(cur) \in 0 .. cur /\ cur < AlignDown(cur) + Align
  BY <1>0, <1>1 DEF AlignDown, r
<1>5. Size % Align = 0
  <2>1. PICK a \in Nat : Size = Sector * a
    BY <1>0, Divides
  <2>2. PICK b \in Nat : Sector = Align * b
    BY <1>0, Divides
  <2>3. b * a \in Nat /\ Size = Align * (b * a)
    BY <1>0, <2>1, <2>2, Z3
  <2> QED
    BY <1>0, <2>3, Multiple
<1>6. cur = Size => AlignDown(cur) = Size
  BY <1>5, <1>0 DEF AlignDown
<1>7. Align <= Cap
  <2>1. PICK j \in Nat : Cap = Align * j
    BY <1>0, Divides
  <2>3. j \in Nat \ {0}
    BY <2>1, <1>0
  <2> QED
    BY <2>1, <2>3, <1>0, Z3
<1> QED
  BY <1>3, <1>4, <1>6, <1>7

(* The least element, as Min and FirstOf choose it.                        *)
LEMMA MinimumOf ==
    ASSUME NEW T, T \subseteq Nat, T # {}
    PROVE  (CHOOSE x \in T : \A y \in T : x <= y) \in T
           /\ \A y \in T : (CHOOSE x \in T : \A z \in T : x <= z) <= y
  BY NatMin

-----------------------------------------------------------------------------
(* The binary search.  Turn is one call of it: the function s answers      *)
(* every range as one turn of the loop does.                               *)
Half(l, h) == (l + h) \div 2

(* The middle of a range lies in it.                                       *)
LEMMA HalfIn ==
    ASSUME NEW l \in Nat, NEW h \in Nat, l <= h
    PROVE  Half(l, h) \in l .. h
  BY DEF Half

Turn(p, s, l, h) ==
    IF l > h THEN 0
    ELSE IF IsWithinRange(p, caches[Half(l, h)]) THEN Half(l, h)
    ELSE IF p < caches[Half(l, h)].pos THEN s[<<l, Half(l, h) - 1>>]
    ELSE s[<<Half(l, h) + 1, h>>]
Ranges == (1 .. Num + 1) \X (0 .. Num)
Unfolded(p, s) == [r \in Ranges |-> Turn(p, s, r[1], r[2])]

(* The search is a function that answers every range by one turn.          *)
LEMMA SearchChoose ==
    ASSUME NEW p
    PROVE  Search(p) = (CHOOSE search : search = Unfolded(p, search))[<<1, Num>>]
  BY SMT DEF Search, Unfolded, Ranges, Turn, Half

(* If there is such a function, the search is one.                         *)
LEMMA SearchIs ==
    ASSUME NEW p, \E s : s = Unfolded(p, s)
    PROVE  \E s : s = Unfolded(p, s) /\ Search(p) = s[<<1, Num>>]
<1> DEFINE w == CHOOSE s : s = Unfolded(p, s)
<1>1. w = Unfolded(p, w)
  BY Zenon
<1>2. Search(p) = w[<<1, Num>>]
  BY SearchChoose
<1> QED BY <1>1, <1>2, Zenon

LEMMA UnfoldedAt ==
    ASSUME NEW p, NEW s, NEW l \in 1 .. Num + 1, NEW h \in 0 .. Num
    PROVE  Unfolded(p, s)[<<l, h>>] = Turn(p, s, l, h)
  BY DEF Unfolded, Ranges

(* s answers ranges of n entries at most.                                  *)
Solves(p, s, n) ==
    \A l \in 1 .. Num + 1, h \in 0 .. Num : h - l < n => s[<<l, h>>] = Turn(p, s, l, h)

(* s and t answer ranges of n entries at most alike.                       *)
Agree(s, t, n) ==
    \A l \in 1 .. Num + 1, h \in 0 .. Num : h - l < n => s[<<l, h>>] = t[<<l, h>>]

(* A turn asks about shorter ranges only.                                  *)
LEMMA TurnLocal ==
    ASSUME NEW p, NEW n \in Nat, NEW s, NEW t, Agree(s, t, n),
           NEW l \in 1 .. Num + 1, NEW h \in 0 .. Num, h - l < n + 1
    PROVE  Turn(p, s, l, h) = Turn(p, t, l, h)
<1> USE IsoCacheAssumption
<1>1. CASE l > h
  BY <1>1 DEF Turn
<1>2. CASE l <= h
  <2> DEFINE m == Half(l, h)
  <2>1. m \in l .. h
    <3>1. l \in Nat /\ h \in Nat
      OBVIOUS
    <3> QED
      BY <1>2, <3>1, HalfIn
  <2> HIDE DEF m
  <2>2. s[<<l, m - 1>>] = t[<<l, m - 1>>]
    <3>1. m - 1 \in 0 .. Num /\ (m - 1) - l < n
      BY <2>1
    <3> QED
      BY <3>1 DEF Agree
  <2>3. s[<<m + 1, h>>] = t[<<m + 1, h>>]
    <3>1. m + 1 \in 1 .. Num + 1 /\ h - (m + 1) < n
      BY <2>1
    <3> QED
      BY <3>1 DEF Agree
  <2> QED
    BY <1>2, <2>1, <2>2, <2>3 DEF Turn, m
<1> QED
  BY <1>1, <1>2

(* One turn more answers ranges that are longer by one.                    *)
LEMMA SolvesNext ==
    ASSUME NEW p, NEW n \in Nat, NEW s, Solves(p, s, n)
    PROVE  Solves(p, Unfolded(p, s), n + 1)
<1> DEFINE t == Unfolded(p, s)
<1>1. \A l \in 1 .. Num + 1, h \in 0 .. Num : t[<<l, h>>] = Turn(p, s, l, h)
  BY UnfoldedAt
<1> HIDE DEF t
<1>2. Agree(s, t, n)
  BY <1>1 DEF Solves, Agree
<1>3. ASSUME NEW l \in 1 .. Num + 1, NEW h \in 0 .. Num, h - l < n + 1
      PROVE  t[<<l, h>>] = Turn(p, t, l, h)
  <2>1. Turn(p, s, l, h) = Turn(p, t, l, h)
    BY <1>2, <1>3, TurnLocal
  <2> QED
    BY <1>1, <2>1
<1>4. Solves(p, t, n + 1)
  BY <1>3 DEF Solves
<1> QED
  BY <1>4 DEF t

LEMMA SolvesZero ==
    ASSUME NEW p
    PROVE  Solves(p, Unfolded(p, <<>>), 0)
<1> USE IsoCacheAssumption
<1>1. ASSUME NEW l \in 1 .. Num + 1, NEW h \in 0 .. Num, h - l < 0, NEW s PROVE Turn(p, s, l, h) = 0
  BY <1>1 DEF Turn
<1> QED
  BY <1>1, UnfoldedAt DEF Solves

(* For every length some function answers all ranges up to it.             *)
LEMMA SolvesAll ==
    ASSUME NEW p, NEW n \in Nat
    PROVE  \E s : Solves(p, Unfolded(p, s), n)
<1> DEFINE T == {k \in Nat : ~ \E s : Solves(p, Unfolded(p, s), k)}
<1>1. ASSUME NEW k \in T PROVE \E y \in T : y < k
  <2>1. k # 0
    BY SolvesZero
  <2>2. k - 1 \in Nat
    BY <2>1
  <2>3. ASSUME NEW s, Solves(p, Unfolded(p, s), k - 1) PROVE FALSE
    <3>1. Solves(p, Unfolded(p, Unfolded(p, s)), (k - 1) + 1)
      BY <2>2, <2>3, SolvesNext
    <3>2. (k - 1) + 1 = k
      OBVIOUS
    <3> QED
      BY <3>1, <3>2
  <2> QED
    BY <2>2, <2>3
<1>2. T = {}
  BY <1>1, Descent
<1> QED
  BY <1>2

(* s answers all ranges.                                                   *)
Answers(p, s) == \A l \in 1 .. Num + 1, h \in 0 .. Num : s[<<l, h>>] = Turn(p, s, l, h)

(* The search answers every range.                                         *)
LEMMA SearchSolves ==
    ASSUME NEW p
    PROVE  \E s : Answers(p, s) /\ Search(p) = s[<<1, Num>>]
<1> USE IsoCacheAssumption
<1>1. PICK s : Solves(p, Unfolded(p, s), Num)
  BY SolvesAll
<1> DEFINE t == Unfolded(p, s)
<1>2. ASSUME NEW r \in Ranges PROVE t[r] = Turn(p, t, r[1], r[2])
  <2>1. r = <<r[1], r[2]>> /\ r[1] \in 1 .. Num + 1 /\ r[2] \in 0 .. Num
    BY DEF Ranges
  <2>2. r[2] - r[1] < Num
    BY <2>1
  <2>3. t[<<r[1], r[2]>>] = Turn(p, t, r[1], r[2])
    BY <1>1, <2>1, <2>2 DEF Solves
  <2> QED
    BY <2>1, <2>3
<1>3. t = [r \in Ranges |-> t[r]]
  BY DEF Unfolded, Ranges
<1> HIDE DEF t
<1>4. [r \in Ranges |-> t[r]]
      = [r \in Ranges |-> Turn(p, t, r[1], r[2])]
  BY <1>2
<1>5. t = Unfolded(p, t)
  BY <1>3, <1>4 DEF Unfolded, Ranges
<1>6. PICK u : u = Unfolded(p, u) /\ Search(p) = u[<<1, Num>>]
  BY <1>5, SearchIs
<1>7. \A l \in 1 .. Num + 1, h \in 0 .. Num : Unfolded(p, u)[<<l, h>>] = Turn(p, u, l, h)
  BY UnfoldedAt
<1>8. Answers(p, u)
  BY <1>6, <1>7, Zenon DEF Answers
<1> QED
  BY <1>6, <1>8

(* What the search finds holds the position.                               *)
LEMMA SearchSound ==
    ASSUME NEW p, NEW s, Answers(p, s), NEW l \in 1 .. Num + 1, NEW h \in 0 .. Num, s[<<l, h>>] # 0
    PROVE  s[<<l, h>>] \in 1 .. Num /\ IsWithinRange(p, caches[s[<<l, h>>]])
<1> USE IsoCacheAssumption
<1> DEFINE Bad(a, b) == s[<<a, b>>] # 0 /\
                ~ (s[<<a, b>>] \in 1 .. Num /\ IsWithinRange(p, caches[s[<<a, b>>]]))
           T == {n \in Nat : \E a \in 1 .. Num + 1, b \in 0 .. Num : Bad(a, b) /\ b - a < n}
<1>0. ASSUME NEW a \in 1 .. Num + 1, NEW b \in 0 .. Num PROVE s[<<a, b>>] = Turn(p, s, a, b)
  BY DEF Answers
<1> HIDE DEF Bad
<1>1. ASSUME NEW n \in T PROVE \E y \in T : y < n
  <2>1. PICK a \in 1 .. Num + 1, b \in 0 .. Num : Bad(a, b) /\ b - a < n
    OBVIOUS
  <2> DEFINE m == Half(a, b)
  <2>2. a <= b
    <3>1. a > b => Turn(p, s, a, b) = 0
      BY DEF Turn
    <3>2. a > b => s[<<a, b>>] = 0
      BY <3>1, <1>0
    <3> QED
      BY <2>1, <3>2 DEF Bad
  <2>3. m \in a .. b
    <3>1. a \in Nat /\ b \in Nat
      OBVIOUS
    <3> QED
      BY <2>2, <3>1, HalfIn
  <2>4. s[<<a, b>>] = IF IsWithinRange(p, caches[m]) THEN m
                      ELSE IF p < caches[m].pos THEN s[<<a, m - 1>>]
                      ELSE s[<<m + 1, b>>]
    BY <2>2, <1>0 DEF Turn
  <2> HIDE DEF m
  <2>5. Bad(a, m - 1) \/ Bad(m + 1, b)
    BY <2>1, <2>3, <2>4 DEF Bad
  <2>6. m - 1 \in 0 .. Num /\ m + 1 \in 1 .. Num + 1 /\ n - 1 \in Nat
        /\ (m - 1) - a < n - 1 /\ b - (m + 1) < n - 1
    BY <2>1, <2>2, <2>3
  <2>7. n - 1 \in T
    BY <2>5, <2>6
  <2>8. n - 1 < n
    BY <2>6
  <2> QED
    BY <2>7, <2>8, Zenon
<1>2. T = {}
  <2> HIDE DEF T
  <2>1. T \subseteq Nat
    BY DEF T
  <2> QED
   BY <1>1, <2>1, Descent
<1>3. Num + 1 \in Nat /\ h - l < Num + 1
  OBVIOUS
<1>4. ~ Bad(l, h)
  BY <1>2, <1>3
<1> QED
  BY <1>4 DEF Bad

(* Beginnings and ends are in order.                                       *)
TableOK ==
   \A i, j \in 1 .. Num : i < j =>
       /\ caches[i].pos <= caches[j].pos
       /\ caches[j].pos # INVALID_POS =>
            caches[i].pos + caches[i].bufsize <= caches[j].pos + caches[j].bufsize

(* In a table in order the search finds an entry if there is one.          *)
LEMMA SearchComplete ==
    ASSUME NEW p \in Nat, p < INVALID_POS, TableOK,
           INVALID_POS \in Nat,
           \A i \in 1 .. Num : caches[i].pos \in Nat /\ caches[i].bufsize \in Nat,
           NEW s, Answers(p, s), NEW l \in 1 .. Num + 1, NEW h \in 0 .. Num,
           NEW i \in l .. h, IsWithinRange(p, caches[i])
    PROVE  s[<<l, h>>] # 0
<1> USE IsoCacheAssumption
<1> DEFINE Bad(a, b) == s[<<a, b>>] = 0 /\ \E k \in a .. b : IsWithinRange(p, caches[k])
           T == {n \in Nat : \E a \in 1 .. Num + 1, b \in 0 .. Num : Bad(a, b) /\ b - a < n}
<1>0. ASSUME NEW a \in 1 .. Num + 1, NEW b \in 0 .. Num PROVE s[<<a, b>>] = Turn(p, s, a, b)
  BY DEF Answers
<1> HIDE DEF Bad
<1>1. ASSUME NEW n \in T PROVE \E y \in T : y < n
  <2>1. PICK a \in 1 .. Num + 1, b \in 0 .. Num : Bad(a, b) /\ b - a < n
    OBVIOUS
  <2>k. PICK k \in a .. b : IsWithinRange(p, caches[k])
    BY <2>1 DEF Bad
  <2> DEFINE m == Half(a, b)
  <2>2. a <= b
    BY <2>k
  <2>3. m \in a .. b
    <3>1. a \in Nat /\ b \in Nat
      OBVIOUS
    <3> QED
      BY <2>2, <3>1, HalfIn
  <2>4. s[<<a, b>>] = IF IsWithinRange(p, caches[m]) THEN m
                      ELSE IF p < caches[m].pos THEN s[<<a, m - 1>>]
                      ELSE s[<<m + 1, b>>]
    BY <2>2, <1>0 DEF Turn
  <2> HIDE DEF m
  <2>5. Bad(a, m - 1) \/ Bad(m + 1, b)
    <3>1. s[<<a, b>>] = 0 /\ ~ IsWithinRange(p, caches[m])
      BY <2>1, <2>3, <2>4 DEF Bad
    <3>2. k # m
      BY <3>1, <2>k
    <3>3. CASE p < caches[m].pos
      <4>1. ~ (m < k)
        BY <3>3, <2>k, <2>3 DEF TableOK, IsWithinRange
      <4>2. k \in a .. m - 1
        BY <4>1, <3>2, <2>3, <2>k
      <4> QED
        BY <4>2, <2>k, <3>1, <3>3, <2>4 DEF Bad
    <3>4. CASE ~ (p < caches[m].pos)
      <4>0. k \in 1 .. Num /\ m \in 1 .. Num
        BY <2>k, <2>3
      <4>a. caches[m].pos \in Nat /\ caches[m].bufsize \in Nat
            /\ caches[k].pos \in Nat /\ caches[k].bufsize \in Nat
        BY <4>0
      <4>b. caches[m].pos # INVALID_POS /\ p >= caches[m].pos + caches[m].bufsize
        BY <3>4, <3>1, <4>a DEF IsWithinRange
      <4>c. p < caches[k].pos + caches[k].bufsize
        BY <2>k DEF IsWithinRange
      <4>1. ~ (k < m)
        BY <4>0, <4>a, <4>b, <4>c DEF TableOK
      <4>2. k \in m + 1 .. b
        BY <4>1, <3>2, <2>3, <2>k
      <4> QED
        BY <4>2, <2>k, <3>1, <3>4, <2>4 DEF Bad
    <3> QED
      BY <3>3, <3>4
  <2>6. m - 1 \in 0 .. Num /\ m + 1 \in 1 .. Num + 1 /\ n - 1 \in Nat
        /\ (m - 1) - a < n - 1 /\ b - (m + 1) < n - 1
    BY <2>1, <2>2, <2>3
  <2>7. n - 1 \in T
    BY <2>5, <2>6
  <2>8. n - 1 < n
    BY <2>6
  <2> QED
    BY <2>7, <2>8, Zenon
<1>2. T = {}
  <2> HIDE DEF T
  <2>1. T \subseteq Nat
    BY DEF T
  <2> QED
   BY <1>1, <2>1, Descent
<1>3. Num + 1 \in Nat /\ h - l < Num + 1
  OBVIOUS
<1>4. ~ Bad(l, h)
  BY <1>2, <1>3
<1> QED
  BY <1>4 DEF Bad

-----------------------------------------------------------------------------

(* The table after an entry is taken out and put where it belongs.         *)
(* The entries after one was taken out.                                    *)
LEMMA RemoveElements ==
    ASSUME NEW S, NEW s \in Seq(S), NEW i \in 1 .. Len(s)
    PROVE  /\ RemoveAt(s, i) \in Seq(S) /\ Len(RemoveAt(s, i)) = Len(s) - 1
           /\ \A k \in 1 .. Len(s) - 1 : RemoveAt(s, i)[k] = IF k < i THEN s[k] ELSE s[k + 1]
<1> DEFINE a == SubSeq(s, 1, i - 1)
           b == SubSeq(s, i + 1, Len(s))
<1>0. Len(s) \in Nat /\ i \in Nat /\ \A k \in 1 .. Len(s) : s[k] \in S
  OBVIOUS
<1>1. a \in Seq(S) /\ Len(a) = i - 1 /\ \A k \in 1 .. i - 1 : a[k] = s[k]
  <2>1. /\ a \in Seq(S)
        /\ Len(a) = IF 1 <= i - 1 THEN (i - 1) - 1 + 1 ELSE 0
        /\ \A k \in 1 .. (i - 1) - 1 + 1 : a[k] = s[1 + k - 1]
    <3> HIDE DEF a
    <3>1. 1 \in Int /\ i - 1 \in Int /\ \A k \in 1 .. i - 1 : s[k] \in S
      BY <1>0
    <3> QED
      BY <3>1, SubSeqProperties DEF a
  <2> QED
    BY <2>1, <1>0
<1>2. b \in Seq(S) /\ Len(b) = Len(s) - i /\ \A k \in 1 .. Len(s) - i : b[k] = s[i + k]
  <2>1. /\ b \in Seq(S)
        /\ Len(b) = IF i + 1 <= Len(s) THEN Len(s) - (i + 1) + 1 ELSE 0
        /\ \A k \in 1 .. Len(s) - (i + 1) + 1 : b[k] = s[i + 1 + k - 1]
    <3> HIDE DEF b
    <3>1. i + 1 \in Int /\ Len(s) \in Int /\ \A k \in i + 1 .. Len(s) : s[k] \in S
      BY <1>0
    <3> QED
      BY <3>1, SubSeqProperties DEF b
  <2> QED
    BY <2>1, <1>0
<1>3. RemoveAt(s, i) = a \o b
  BY DEF RemoveAt
<1> HIDE DEF a, b
<1>4. /\ a \o b \in Seq(S) /\ Len(a \o b) = Len(a) + Len(b)
      /\ \A k \in 1 .. Len(a) + Len(b) : (a \o b)[k] = IF k <= Len(a) THEN a[k] ELSE b[k - Len(a)]
  BY <1>1, <1>2, ConcatProperties
<1>5. ASSUME NEW k \in 1 .. Len(s) - 1 PROVE (a \o b)[k] = IF k < i THEN s[k] ELSE s[k + 1]
  <2>1. k \in 1 .. Len(a) + Len(b) /\ k \in Nat
    BY <1>0, <1>1, <1>2
  <2>2. CASE k < i
    <3>1. k <= Len(a) /\ k \in 1 .. i - 1
      BY <2>1, <2>2, <1>1, <1>0
    <3> QED
      BY <3>1, <2>1, <2>2, <1>1, <1>4
  <2>3. CASE ~ (k < i)
    <3> DEFINE m == k - (i - 1)
    <3>1. ~ (k <= Len(a)) /\ m \in 1 .. Len(s) - i /\ m = k - Len(a) /\ i + m = k + 1
      BY <2>1, <2>3, <1>1, <1>0
    <3> HIDE DEF m
    <3>2. (a \o b)[k] = b[m]
      BY <3>1, <2>1, <1>4
    <3> QED
      BY <3>1, <3>2, <2>3, <1>2
  <2> QED
    BY <2>2, <2>3
<1> QED
  BY <1>0, <1>1, <1>2, <1>3, <1>4, <1>5

(* The entries after one was put in.                                       *)
LEMMA InsertElements ==
    ASSUME NEW S, NEW s \in Seq(S), NEW i \in 1 .. Len(s), NEW e \in S
    PROVE  /\ InsertAt(s, i, e) \in Seq(S) /\ Len(InsertAt(s, i, e)) = Len(s) + 1
           /\ \A k \in 1 .. Len(s) + 1 :
                InsertAt(s, i, e)[k] = IF k < i THEN s[k] ELSE IF k = i THEN e ELSE s[k - 1]
<1> DEFINE a == SubSeq(s, 1, i - 1)
           b == SubSeq(s, i, Len(s))
<1>0. Len(s) \in Nat /\ i \in Nat /\ \A k \in 1 .. Len(s) : s[k] \in S
  OBVIOUS
<1>1. a \in Seq(S) /\ Len(a) = i - 1 /\ \A k \in 1 .. i - 1 : a[k] = s[k]
  <2>1. /\ a \in Seq(S)
        /\ Len(a) = IF 1 <= i - 1 THEN (i - 1) - 1 + 1 ELSE 0
        /\ \A k \in 1 .. (i - 1) - 1 + 1 : a[k] = s[1 + k - 1]
    <3> HIDE DEF a
    <3>1. 1 \in Int /\ i - 1 \in Int /\ \A k \in 1 .. i - 1 : s[k] \in S
      BY <1>0
    <3> QED
      BY <3>1, SubSeqProperties DEF a
  <2> QED
    BY <2>1, <1>0
<1>2. b \in Seq(S) /\ Len(b) = Len(s) - i + 1 /\ \A k \in 1 .. Len(s) - i + 1 : b[k] = s[i + k - 1]
  <2>1. /\ b \in Seq(S)
        /\ Len(b) = IF i <= Len(s) THEN Len(s) - i + 1 ELSE 0
        /\ \A k \in 1 .. Len(s) - i + 1 : b[k] = s[i + k - 1]
    <3> HIDE DEF b
    <3>1. i \in Int /\ Len(s) \in Int /\ \A k \in i .. Len(s) : s[k] \in S
      BY <1>0
    <3> QED
      BY <3>1, SubSeqProperties DEF b
  <2> QED
    BY <2>1, <1>0
<1>3. InsertAt(s, i, e) = (a \o <<e>>) \o b
  BY DEF InsertAt
<1> HIDE DEF a, b
<1>e. <<e>> \in Seq(S) /\ Len(<<e>>) = 1 /\ <<e>>[1] = e
  OBVIOUS
<1> DEFINE c == a \o <<e>>
<1>4. /\ c \in Seq(S) /\ Len(c) = Len(a) + 1
      /\ \A k \in 1 .. Len(a) + 1 : c[k] = IF k <= Len(a) THEN a[k] ELSE e
  <2>1. /\ c \in Seq(S) /\ Len(c) = Len(a) + Len(<<e>>)
        /\ \A k \in 1 .. Len(a) + Len(<<e>>) :
             c[k] = IF k <= Len(a) THEN a[k] ELSE <<e>>[k - Len(a)]
    BY <1>1, <1>e, ConcatProperties
  <2> QED
    BY <2>1, <1>1, <1>e
<1> HIDE DEF c
<1>5. /\ c \o b \in Seq(S) /\ Len(c \o b) = Len(c) + Len(b)
      /\ \A k \in 1 .. Len(c) + Len(b) : (c \o b)[k] = IF k <= Len(c) THEN c[k] ELSE b[k - Len(c)]
  BY <1>4, <1>2, ConcatProperties
<1>6. ASSUME NEW k \in 1 .. Len(s) + 1
      PROVE  (c \o b)[k] = IF k < i THEN s[k] ELSE IF k = i THEN e ELSE s[k - 1]
  <2>1. k \in 1 .. Len(c) + Len(b) /\ k \in Nat
    BY <1>0, <1>1, <1>2, <1>4
  <2>2. CASE k < i
    <3>1. k <= Len(c) /\ k <= Len(a) /\ k \in 1 .. i - 1 /\ k \in 1 .. Len(a) + 1
      BY <2>1, <2>2, <1>1, <1>0, <1>4
    <3>2. (c \o b)[k] = c[k] /\ c[k] = a[k] /\ a[k] = s[k]
      BY <3>1, <2>1, <1>1, <1>4, <1>5
    <3> QED
      BY <3>2, <2>2
  <2>3. CASE k = i
    <3>1. k <= Len(c) /\ ~ (k <= Len(a)) /\ k \in 1 .. Len(a) + 1
      BY <2>1, <2>3, <1>1, <1>0, <1>4
    <3> QED
      BY <3>1, <2>1, <2>3, <1>4, <1>5
  <2>4. CASE k > i
    <3> DEFINE m == k - i
    <3>1. /\ ~ (k <= Len(c)) /\ m \in 1 .. Len(s) - i + 1
          /\ m = k - Len(c) /\ i + m - 1 = k - 1
      BY <2>1, <2>4, <1>1, <1>0, <1>4
    <3> HIDE DEF m
    <3>2. (c \o b)[k] = b[m]
      BY <3>1, <2>1, <1>5
    <3> QED
      BY <3>1, <3>2, <2>4, <1>2
  <2> QED
    BY <2>1, <2>2, <2>3, <2>4, <1>0
<1>7. InsertAt(s, i, e) = c \o b
  BY <1>3 DEF c
<1>8. Len(c \o b) = Len(s) + 1
  BY <1>0, <1>1, <1>2, <1>4, <1>5
<1> QED
  BY <1>5, <1>6, <1>7, <1>8

(* Where entry k of the reordered table comes from.                        *)
Place(i, q, k) ==
    IF k < q THEN (IF k < i THEN k ELSE k + 1)
    ELSE IF k = q THEN i
    ELSE IF k - 1 < i THEN k - 1 ELSE k

(* Reordering permutes the table and keeps the order of the others.        *)
LEMMA Places ==
    ASSUME NEW i \in 1 .. Num, NEW q \in 1 .. Num
    PROVE  /\ \A k \in 1 .. Num : Place(i, q, k) \in 1 .. Num
           /\ \A j, k \in 1 .. Num : Place(i, q, j) = Place(i, q, k) => j = k
           /\ \A m \in 1 .. Num : \E k \in 1 .. Num : Place(i, q, k) = m
           /\ \A j, k \in 1 .. Num : j < k /\ j # q /\ k # q => Place(i, q, j) < Place(i, q, k)
           /\ \A k \in 1 .. Num : Place(i, q, k) = i <=> k = q
<1> USE IsoCacheAssumption
<1>1. ASSUME NEW m \in 1 .. Num PROVE \E k \in 1 .. Num : Place(i, q, k) = m
  <2> DEFINE n == IF m < i THEN m ELSE m - 1     \* its place without entry i
  <2>1. CASE m = i
    BY <2>1 DEF Place
  <2>2. CASE m # i /\ n < q
    <3>1. n \in 1 .. Num /\ Place(i, q, n) = m
      BY <2>2 DEF Place
    <3> QED
      BY <3>1
  <2>3. CASE m # i /\ ~ (n < q)
    <3>1. n + 1 \in 1 .. Num /\ Place(i, q, n + 1) = m
      BY <2>3 DEF Place
    <3> QED
      BY <3>1
  <2> QED
    BY <2>1, <2>2, <2>3
<1>2. \A k \in 1 .. Num : Place(i, q, k) \in 1 .. Num
  BY DEF Place
<1>3. \A j, k \in 1 .. Num : Place(i, q, j) = Place(i, q, k) => j = k
  BY DEF Place
<1>4. \A j, k \in 1 .. Num : j < k /\ j # q /\ k # q => Place(i, q, j) < Place(i, q, k)
  BY DEF Place
<1>5. \A k \in 1 .. Num : Place(i, q, k) = i <=> k = q
  BY DEF Place
<1> QED
  BY <1>1, <1>2, <1>3, <1>4, <1>5

(* The first entry that does not begin before p.                           *)
LEMMA FirstNotBefore ==
    ASSUME NEW S, NEW s \in Seq(S), \A c \in S : c.pos \in Nat, NEW p \in Nat
    PROVE  LET j == SelectInSeq(s, LAMBDA c : c.pos >= p) IN
           \/ j = 0 /\ \A k \in 1 .. Len(s) : s[k].pos < p
           \/ j \in 1 .. Len(s) /\ s[j].pos >= p /\ \A k \in 1 .. j - 1 : s[k].pos < p
<1> DEFINE I == {i \in 1 .. Len(s) : s[i].pos >= p}
           j == CHOOSE x \in I : \A y \in I : x <= y
           sel == SelectInSeq(s, LAMBDA c : c.pos >= p)
<1>1. sel = IF I # {} THEN j ELSE 0
  BY DEF SelectInSeq, Min
<1> SUFFICES \/ sel = 0 /\ \A k \in 1 .. Len(s) : s[k].pos < p
             \/ sel \in 1 .. Len(s) /\ s[sel].pos >= p /\ \A k \in 1 .. sel - 1 : s[k].pos < p
  BY Zenon
<1> HIDE DEF sel
<1>2. Len(s) \in Nat /\ \A k \in 1 .. Len(s) : s[k] \in S /\ s[k].pos \in Nat
  OBVIOUS
<1>3. CASE I = {}
  <2>1. ASSUME NEW k \in 1 .. Len(s) PROVE s[k].pos < p
    <3>1. k \notin I
      BY <1>3
    <3> QED
      BY <3>1, <1>2
  <2> QED
    BY <2>1, <1>1, <1>3
<1>4. CASE I # {}
  <2>1. I \subseteq Nat
    BY <1>2
  <2>2. j \in I /\ \A y \in I : j <= y
    <3> HIDE DEF I
    <3> QED
      BY <2>1, <1>4, MinimumOf
  <2> HIDE DEF j
  <2>3. j \in 1 .. Len(s) /\ s[j].pos >= p
    BY <2>2
  <2>4. ASSUME NEW k \in 1 .. j - 1 PROVE s[k].pos < p
    <3>1. k \in 1 .. Len(s) /\ ~ (j <= k)
      BY <2>3, <1>2
    <3>2. k \notin I
      BY <3>1, <2>2
    <3> QED
      BY <3>1, <3>2, <1>2
  <2>5. sel = j
    BY <1>1, <1>4
  <2> QED
    BY <2>3, <2>4, <2>5
<1> QED
  BY <1>3, <1>4

(* What reorder_iso_cache() leaves: every entry at its place, and the one  *)
(* that was moved behind all that begin before it.                         *)
LEMMA ReorderEffect ==
    ASSUME NEW S, \A c \in S : c.pos \in Nat, NEW cs \in [1 .. Num -> S], NEW i \in 1 .. Num
    PROVE  \E q \in 1 .. Num :
             /\ Reorder(cs, i) \in [1 .. Num -> S]
             /\ \A k \in 1 .. Num : Reorder(cs, i)[k] = cs[Place(i, q, k)]
             /\ \A k \in 1 .. q - 1 : Reorder(cs, i)[k].pos < cs[i].pos
             /\ q < Num => Reorder(cs, i)[q + 1].pos >= cs[i].pos
<1> USE IsoCacheAssumption
<1>0. /\ Num \in Nat \ {0} /\ cs \in Seq(S) /\ Len(cs) = Num
      /\ i \in 1 .. Len(cs) /\ cs[i] \in S /\ cs[i].pos \in Nat
  OBVIOUS
<1> DEFINE rest == RemoveAt(cs, i)
           p == cs[i].pos
           j == SelectInSeq(rest, LAMBDA c : c.pos >= p)
           new == Reorder(cs, i)
<1>1. /\ rest \in Seq(S) /\ Len(rest) = Num - 1
      /\ \A k \in 1 .. Num - 1 : rest[k] = IF k < i THEN cs[k] ELSE cs[k + 1]
  BY <1>0, RemoveElements
<1>2. \/ j = 0 /\ \A k \in 1 .. Len(rest) : rest[k].pos < p
      \/ j \in 1 .. Len(rest) /\ rest[j].pos >= p /\ \A k \in 1 .. j - 1 : rest[k].pos < p
  <2>1. rest \in Seq(S) /\ p \in Nat
    BY <1>0, <1>1
  <2> HIDE DEF rest, p
  <2> QED
    BY <2>1, FirstNotBefore
<1>3. new = IF j = 0 THEN Append(rest, cs[i]) ELSE InsertAt(rest, j, cs[i])
  BY DEF Reorder
<1>6. p = cs[i].pos
  OBVIOUS
<1> HIDE DEF rest, j, new, p
<1>4. CASE j = 0
  <2>1. /\ new \in Seq(S) /\ Len(new) = Num
        /\ \A k \in 1 .. Num - 1 : new[k] = rest[k]
        /\ new[Num] = cs[i]
    <3>1. /\ Append(rest, cs[i]) \in Seq(S)
          /\ Len(Append(rest, cs[i])) = Len(rest) + 1
          /\ \A k \in 1 .. Len(rest) : Append(rest, cs[i])[k] = rest[k]
          /\ Append(rest, cs[i])[Len(rest) + 1] = cs[i]
      BY <1>0, <1>1, AppendProperties
    <3>2. (Num - 1) + 1 = Num
      BY <1>0
    <3> QED
      BY <3>1, <3>2, <1>1, <1>3, <1>4
  <2>2. new \in [1 .. Num -> S]
    BY <2>1, LenProperties
  <2>3. \A k \in 1 .. Num : new[k] = cs[Place(i, Num, k)]
    BY <1>0, <1>1, <2>1 DEF Place
  <2>4. ASSUME NEW k \in 1 .. Num - 1 PROVE new[k].pos < p
    <3>1. k \in 1 .. Len(rest) /\ new[k] = rest[k]
      BY <1>1, <2>1
    <3> QED
      BY <3>1, <1>2, <1>4
  <2>5. Num \in 1 .. Num /\ ~ (Num < Num)
    BY <1>0
  <2> QED
    BY <2>2, <2>3, <2>4, <2>5 DEF new, p
<1>5. CASE j # 0
  <2>0. j \in 1 .. Len(rest) /\ j \in 1 .. Num - 1 /\ j \in 1 .. Num /\ Len(rest) \in Nat
    BY <1>0, <1>1, <1>2, <1>5
  <2>1. /\ new \in Seq(S) /\ Len(new) = Len(rest) + 1
        /\ \A k \in 1 .. Len(rest) + 1 :
             new[k] = IF k < j THEN rest[k] ELSE IF k = j THEN cs[i] ELSE rest[k - 1]
    <3> DEFINE e == cs[i]
    <3>1. new = InsertAt(rest, j, e)
      BY <1>3, <1>5
    <3>2. rest \in Seq(S) /\ j \in 1 .. Len(rest) /\ e \in S
      BY <1>0, <1>1, <2>0
    <3> HIDE DEF e
    <3>3. /\ InsertAt(rest, j, e) \in Seq(S)
          /\ Len(InsertAt(rest, j, e)) = Len(rest) + 1
          /\ \A k \in 1 .. Len(rest) + 1 : InsertAt(rest, j, e)[k] =
               IF k < j THEN rest[k] ELSE IF k = j THEN e ELSE rest[k - 1]
      BY <3>2, InsertElements
    <3> QED
      BY <3>1, <3>3, Zenon DEF e
  <2>2. Len(new) = Num /\ Len(rest) + 1 = Num
    BY <1>0, <1>1, <2>1
  <2>3. new \in [1 .. Num -> S]
    BY <2>1, <2>2, LenProperties
  <2>4. ASSUME NEW k \in 1 .. Num PROVE new[k] = cs[Place(i, j, k)]
    <3>1. CASE k < j
      <4>1. k \in 1 .. Num - 1 /\ new[k] = rest[k]
        BY <3>1, <2>0, <2>1, <2>2
      <4> QED
        BY <3>1, <4>1, <1>1 DEF Place
    <3>2. CASE k = j
      BY <3>2, <1>0, <1>1, <2>0, <2>1, <2>2 DEF Place
    <3>3. CASE k > j
      <4>1. k - 1 \in 1 .. Num - 1 /\ (k - 1) + 1 = k /\ ~ (k < j) /\ k # j
        BY <3>3, <2>0, <1>0
      <4>2. new[k] = rest[k - 1]
        BY <4>1, <2>1, <2>2
      <4> QED
        BY <4>1, <4>2, <1>1 DEF Place
    <3> QED
      BY <3>1, <3>2, <3>3, <2>0
  <2>5. ASSUME NEW k \in 1 .. j - 1 PROVE new[k].pos < p
    <3>1. k \in 1 .. Len(rest) + 1 /\ k < j
      BY <2>0
    <3>2. new[k] = rest[k]
      BY <3>1, <2>1
    <3> QED
      BY <3>2, <1>2, <1>5
  <2>6. new[j + 1].pos >= p
    <3>1. j + 1 \in 1 .. Num /\ ~ (j + 1 < j) /\ j + 1 # j /\ (j + 1) - 1 = j
      BY <2>0, <1>0
    <3>2. new[j + 1] = rest[j]
      BY <3>1, <2>1, <2>2
    <3> QED
      BY <3>2, <1>2, <2>0
  <2> QED
    BY <2>0, <2>3, <2>4, <2>5, <2>6 DEF new, p
<1> QED
  BY <1>4, <1>5

-----------------------------------------------------------------------------
(* What the table holds.                                                   *)
Request == [pos : 0 .. Size, len : 1 .. MaxRead]
Job == [pos : 0 .. Size, len : 1 .. MaxRead, cur : 0 .. Size, read : BOOLEAN]
Block == [pos : 0 .. INVALID_POS, bufsize : 0 .. Cap, age : Int, buf : Seq(0 .. Size - 1)]

(* Block c is what the image holds.                                        *)
Right(c) ==
    /\ c.pos \in 0 .. Size - 1 /\ c.pos % Align = 0
    /\ c.bufsize = Image!Available(c.pos, Cap)
    /\ c.buf = Image!Cells(c.pos, c.bufsize)

(* Table cs has free entries and right blocks, in order, none twice.       *)
RightTable(cs) ==
    /\ cs \in [1 .. Num -> Block]
    /\ \A i \in 1 .. Num : cs[i] = Disabled \/ Right(cs[i])
SortedTable(cs) == \A i, j \in 1 .. Num : i < j => cs[i].pos <= cs[j].pos
NoneTwice(cs) ==
    \A i, j \in 1 .. Num : i # j /\ cs[i].pos = cs[j].pos => cs[i].pos = INVALID_POS

(* The constants are numbers.                                              *)
LEMMA Numbers ==
    /\ Num \in Nat \ {0} /\ Cap \in Nat \ {0} /\ Align \in Nat \ {0}
    /\ MaxRead \in Nat \ {0} /\ Size \in Nat /\ INVALID_POS \in Nat
    /\ INVALID_POS > Size /\ MaxAhead \in Nat
  BY IsoCacheAssumption DEF INVALID_POS

LEMMA DisabledBlock == Disabled \in Block /\ Disabled.pos = INVALID_POS /\ Disabled.age = -1
                       /\ Disabled.bufsize = 0
  BY Numbers DEF Disabled, Block

(* A right block is not empty and ends within the image.                   *)
LEMMA RightSize ==
    ASSUME NEW c, Right(c)
    PROVE  /\ c.pos \in Nat /\ c.bufsize \in Nat \ {0} /\ c.bufsize <= Cap
           /\ c.pos + c.bufsize <= Size
           /\ c.pos # INVALID_POS
           /\ c.pos + c.bufsize = IF c.pos + Cap < Size THEN c.pos + Cap ELSE Size
  BY Numbers DEF Right, Image!Available, Image!Least

LEMMA FunctionIsSeq ==
    ASSUME NEW S, NEW n \in Nat, NEW f \in [1 .. n -> S]
    PROVE  f \in Seq(S) /\ Len(f) = n
  BY SMT

(* A block filled from the image is right.                                 *)
LEMMA RightBlock ==
    ASSUME NEW pos \in 0 .. Size - 1, pos % Align = 0
    PROVE  LET n == Image!Available(pos, Cap)
               c == [pos |-> pos, bufsize |-> n, age |-> -1, buf |-> Image!Cells(pos, n)]
           IN  c \in Block /\ Right(c)
<1> DEFINE n == Image!Available(pos, Cap)
           c == [pos |-> pos, bufsize |-> n, age |-> -1, buf |-> Image!Cells(pos, n)]
<1>1. n \in 0 .. Cap /\ pos + n <= Size
  BY Numbers DEF Image!Available, Image!Least
<1>2. Image!Cells(pos, n) \in Seq(0 .. Size - 1)
  <2> HIDE DEF n
  <2>1. Image!Cells(pos, n) \in [1 .. n -> 0 .. Size - 1]
    BY <1>1, Numbers DEF Image!Cells
  <2>2. n \in Nat
    BY <1>1, Numbers
  <2> QED
    BY <2>1, <2>2, FunctionIsSeq
<1>3. c \in Block
  <2> HIDE DEF n
  <2> QED
    BY <1>1, <1>2, Numbers DEF Block
<1>4. Right(c)
  BY DEF Right
<1> QED
  BY <1>3, <1>4

(* In a sorted table of right blocks the ends are in order too, though     *)
(* blocks overlap and the last ones are shorter.                           *)
LEMMA TableInOrder ==
    RightTable(caches) /\ SortedTable(caches) => TableOK
<1> SUFFICES ASSUME RightTable(caches), SortedTable(caches),
                    NEW i \in 1 .. Num, NEW j \in 1 .. Num, i < j
             PROVE  /\ caches[i].pos <= caches[j].pos
                    /\ caches[j].pos # INVALID_POS =>
                         caches[i].pos + caches[i].bufsize <= caches[j].pos + caches[j].bufsize
  BY DEF TableOK
<1>1. caches[i].pos <= caches[j].pos
  BY DEF SortedTable
<1>2. ASSUME caches[j].pos # INVALID_POS
      PROVE  caches[i].pos + caches[i].bufsize <= caches[j].pos + caches[j].bufsize
  <2>1. Right(caches[j])
    BY <1>2, DisabledBlock DEF RightTable
  <2>2. caches[i] # Disabled
    BY <1>1, <2>1, RightSize, DisabledBlock, Numbers DEF Right
  <2>3. Right(caches[i])
    BY <2>2 DEF RightTable
  <2> QED
    BY <1>1, <2>1, <2>3, RightSize, Numbers
<1> QED
  BY <1>1, <1>2

(* So the search says exactly what the table holds.                        *)
LEMMA SearchFinds ==
    RightTable(caches) /\ SortedTable(caches) =>
      \A p \in 0 .. Size :
        \/ Search(p) = 0 /\ \A i \in 1 .. Num : ~ IsWithinRange(p, caches[i])
        \/ Search(p) \in 1 .. Num /\ IsWithinRange(p, caches[Search(p)])
<1> SUFFICES ASSUME RightTable(caches), SortedTable(caches), NEW p \in 0 .. Size
             PROVE  \/ Search(p) = 0 /\ \A i \in 1 .. Num : ~ IsWithinRange(p, caches[i])
                    \/ Search(p) \in 1 .. Num /\ IsWithinRange(p, caches[Search(p)])
  OBVIOUS
<1>1. PICK s : Answers(p, s) /\ Search(p) = s[<<1, Num>>]
  BY SearchSolves
<1>2. /\ 1 \in 1 .. Num + 1 /\ Num \in 0 .. Num
      /\ p \in Nat /\ p < INVALID_POS /\ INVALID_POS \in Nat
      /\ \A i \in 1 .. Num : caches[i].pos \in Nat /\ caches[i].bufsize \in Nat
  BY Numbers DEF RightTable, Block
<1>3. Search(p) # 0 => Search(p) \in 1 .. Num /\ IsWithinRange(p, caches[Search(p)])
  BY <1>1, <1>2, SearchSound
<1>4. TableOK
  BY TableInOrder
<1>5. (\E i \in 1 .. Num : IsWithinRange(p, caches[i])) => Search(p) # 0
  BY <1>1, <1>2, <1>4, SearchComplete
<1> QED
  BY <1>3, <1>5

(* An entry replaced, by a free one or by a block the table did not have,  *)
(* and sorted in: the table is as it should be and the other entries are   *)
(* still there.                                                            *)
LEMMA ReplaceEffect ==
    ASSUME RightTable(caches), SortedTable(caches), NoneTwice(caches),
           NEW i \in 1 .. Num, NEW b \in Block,
           \/ b = Disabled
           \/ Right(b) /\ \A j \in 1 .. Num : caches[j].pos # b.pos
    PROVE  LET new == Reorder([caches EXCEPT ![i] = b], i) IN
           /\ RightTable(new) /\ SortedTable(new) /\ NoneTwice(new)
           /\ \E q \in 1 .. Num :
                /\ new[q] = b
                /\ \A k \in 1 .. Num : k # q => \E j \in 1 .. Num : j # i /\ new[k] = caches[j]
                /\ \A j \in 1 .. Num : j # i => \E k \in 1 .. Num : k # q /\ new[k] = caches[j]
<1> DEFINE cs == [caches EXCEPT ![i] = b]
           new == Reorder(cs, i)
<1>1. /\ cs \in [1 .. Num -> Block] /\ cs[i] = b
      /\ \A j \in 1 .. Num : j # i => cs[j] = caches[j]
  BY DEF RightTable
<1> HIDE DEF cs
<1>2. \A c \in Block : c.pos \in Nat
  BY Numbers DEF Block
<1>3. PICK q \in 1 .. Num :
             /\ new \in [1 .. Num -> Block]
             /\ \A k \in 1 .. Num : new[k] = cs[Place(i, q, k)]
             /\ \A k \in 1 .. q - 1 : new[k].pos < cs[i].pos
             /\ q < Num => new[q + 1].pos >= cs[i].pos
  BY <1>1, <1>2, ReorderEffect
<1> HIDE DEF new
<1>4. /\ \A k \in 1 .. Num : Place(i, q, k) \in 1 .. Num
      /\ \A j, k \in 1 .. Num : Place(i, q, j) = Place(i, q, k) => j = k
      /\ \A m \in 1 .. Num : \E k \in 1 .. Num : Place(i, q, k) = m
      /\ \A j, k \in 1 .. Num : j < k /\ j # q /\ k # q => Place(i, q, j) < Place(i, q, k)
      /\ \A k \in 1 .. Num : Place(i, q, k) = i <=> k = q
  BY Places
<1>5. new[q] = b
  BY <1>1, <1>3, <1>4
<1>6. \A k \in 1 .. Num : k # q => Place(i, q, k) # i /\ new[k] = caches[Place(i, q, k)]
  BY <1>1, <1>3, <1>4
<1>7. RightTable(new)
  BY <1>3, <1>4, <1>5, <1>6 DEF RightTable
<1>p. /\ \A k \in 1 .. Num : new[k].pos \in Nat
      /\ b.pos \in Nat
  BY <1>3, <1>2
<1>8. SortedTable(new)
  <2> SUFFICES ASSUME NEW j \in 1 .. Num, NEW k \in 1 .. Num, j < k
               PROVE  new[j].pos <= new[k].pos
    BY DEF SortedTable
  <2>1. ASSUME NEW m \in 1 .. Num, NEW n \in 1 .. Num, m < n, m # q, n # q
        PROVE  new[m].pos <= new[n].pos
    <3>1. Place(i, q, m) < Place(i, q, n)
      BY <2>1, <1>4
    <3> DEFINE a == Place(i, q, m)
               c == Place(i, q, n)
    <3>2. a \in 1 .. Num /\ c \in 1 .. Num /\ new[m] = caches[a] /\ new[n] = caches[c]
      BY <2>1, <1>4, <1>6
    <3> HIDE DEF a, c
    <3>3. caches[a].pos <= caches[c].pos
      BY <3>1, <3>2 DEF SortedTable, a, c
    <3> QED
      BY <3>2, <3>3
  <2>2. CASE k = q
    BY <2>2, <1>3, <1>1, <1>5, <1>p
  <2>3. CASE j = q
    <3>1. q + 1 \in 1 .. Num /\ new[q + 1].pos >= b.pos
      BY <2>3, <1>3, <1>1, Numbers
    <3>2. CASE k = q + 1
      BY <3>1, <3>2, <2>3, <1>5
    <3>3. CASE k # q + 1
      <4>1. q + 1 < k /\ q + 1 # q /\ k # q
        BY <3>3, <2>3, Numbers
      <4>2. new[q + 1].pos <= new[k].pos
        BY <4>1, <3>1, <2>1
      <4> QED
        BY <4>2, <3>1, <2>3, <1>5, <1>p
    <3> QED
      BY <3>2, <3>3
  <2> QED
    BY <2>1, <2>2, <2>3
<1>9. NoneTwice(new)
  <2> SUFFICES ASSUME NEW j \in 1 .. Num, NEW k \in 1 .. Num, j # k, new[j].pos = new[k].pos
               PROVE  new[j].pos = INVALID_POS
    BY DEF NoneTwice
  <2>1. CASE j # q /\ k # q
    BY <2>1, <1>4, <1>6 DEF NoneTwice
  <2>2. CASE j = q \/ k = q
    BY <2>2, <1>4, <1>5, <1>6, DisabledBlock
  <2> QED
    BY <2>1, <2>2
<1>10. ASSUME NEW j \in 1 .. Num, j # i
       PROVE  \E k \in 1 .. Num : k # q /\ new[k] = caches[j]
  <2>1. PICK k \in 1 .. Num : Place(i, q, k) = j
    BY <1>4
  <2>2. k # q
    BY <2>1, <1>10, <1>4
  <2> QED
    BY <2>1, <2>2, <1>6
<1>11. \A k \in 1 .. Num : k # q => \E j \in 1 .. Num : j # i /\ new[k] = caches[j]
  BY <1>6, <1>4
<1> QED
  BY <1>5, <1>7, <1>8, <1>9, <1>10, <1>11 DEF new, cs

-----------------------------------------------------------------------------
(* The inductive invariant.                                                *)

(* The cache is on while it is used, the read-ahead requests are requests. *)
Switched ==
    /\ cache_on \in BOOLEAN /\ cache_policy \in {"DISABLED", "LRU", "RR"}
    /\ cache_on => cache_policy # "DISABLED"
    /\ at \in Steps
    /\ at \notin {"idle", "direct"} => cache_on
    /\ at = "direct" => ~cache_on
    /\ ahead \in Seq(Request) /\ Len(ahead) <= MaxAhead

(* The read in progress: cur lies within the job and the image, and the    *)
(* job is the request or one to read ahead.                                *)
Reading ==
    /\ at = "idle" => request = None
    /\ at # "idle" =>
        /\ request \in Request
        /\ job \in Job /\ job.cur >= job.pos /\ job.cur <= end
        /\ data \in [1 .. request.len -> Int \cup {None}]
        /\ job.read => job.pos = request.pos /\ job.len = request.len
    /\ at \in {"hit", "direct"} => job.read

(* The table; without the cache it is free.                                *)
Table ==
    /\ RightTable(caches) /\ SortedTable(caches) /\ NoneTwice(caches)
    /\ ~cache_on => \A i \in 1 .. Num : caches[i] = Disabled

(* What is filled is missing.                                              *)
FillNeeded == at = "fill" =>
    /\ job.cur < end
    /\ \A i \in 1 .. Num : ~IsWithinRange(job.cur, caches[i])

(* n cells of the request were delivered.                                  *)
Delivered(n) == \A k \in 1 .. n : data[k] = request.pos + k - 1

(* What was delivered, and what will be returned, is right.                *)
Answered ==
    /\ at \in {"hit", "add", "fill"} /\ job.read => Delivered(job.cur - job.pos)
    /\ at # "idle" /\ (at \in {"added", "return"} \/ ~job.read) =>
        \/ ret = -1
        \/ ret = Image!Available(request.pos, request.len) /\ Delivered(ret)

(* A block has age -1 exactly if it was used since ages were counted.      *)
Ages == cache_policy = "LRU" =>
    \A i \in 1 .. Num : caches[i].pos # INVALID_POS =>
        caches[i].age >= -1 /\ (caches[i].age = -1 <=> caches[i].pos \in used)
IsoIInv == Switched /\ Reading /\ Table /\ FillNeeded /\ Answered /\ Ages

(* A request is not None.                                                  *)
LEMMA RequestNotNone == \A r \in Request : r # None
  BY Numbers, IsoCacheAssumption DEF Request

(* The invariant holds at the start; the lemmas that follow show that each *)
(* step keeps it.                                                          *)
LEMMA IsoInit == Init => IsoIInv
<1> SUFFICES ASSUME Init PROVE IsoIInv
  OBVIOUS
<1> USE DEF Init, Image!Init
<1>1. Switched
  <2>1. ahead \in Seq(Request) /\ Len(ahead) = 0
    OBVIOUS
  <2>2. at \in Steps /\ at = "idle"
    BY DEF Steps
  <2>3. cache_on = FALSE /\ cache_policy = "DISABLED" /\ 0 <= MaxAhead
    BY Numbers
  <2> HIDE DEF Init
  <2> QED
    BY <2>1, <2>2, <2>3 DEF Switched
<1>2. Reading
  BY DEF Reading
<1>3. Table
  BY DisabledBlock, Numbers DEF Table, RightTable, SortedTable, NoneTwice
<1>4. FillNeeded /\ Answered
  BY DEF FillNeeded, Answered
<1>5. Ages
  BY DEF Ages
<1> QED
  BY <1>1, <1>2, <1>3, <1>4, <1>5 DEF IsoIInv

LEMMA SetPolicyKeeps ==
    ASSUME IsoIInv, NEW policy \in {"LRU", "RR"}, SetPolicy(policy)
    PROVE  IsoIInv'
<1> USE DEF SetPolicy, IsoIInv, readVars
<1>1. Switched'
  BY DEF Switched
<1>2. Reading'
  BY DEF Reading, end
<1>3. Table'
  BY DEF Table
<1>4. FillNeeded' /\ Answered'
  BY DEF FillNeeded, Answered, Delivered, IsWithinRange, end
<1>5. Ages'
  BY DisabledBlock DEF Ages, Table
<1> QED
  BY <1>1, <1>2, <1>3, <1>4, <1>5

LEMMA SwitchKeeps ==
    ASSUME IsoIInv, CacheInit \/ CacheOff
    PROVE  IsoIInv'
<1> USE DEF CacheInit, CacheOff, IsoIInv, readVars
<1>1. Switched'
  BY DEF Switched
<1>2. Reading'
  BY DEF Reading, end
<1>3. Table'
  BY DisabledBlock, Numbers DEF Table, RightTable, SortedTable, NoneTwice
<1>4. FillNeeded' /\ Answered'
  BY DEF FillNeeded, Answered
<1>5. Ages'
  BY DisabledBlock, Numbers DEF Ages, Table
<1> QED
  BY <1>1, <1>2, <1>3, <1>4, <1>5

LEMMA ReadKeeps ==
    ASSUME IsoIInv, NEW pos \in 0 .. Size, NEW len \in 1 .. MaxRead, Read(pos, len)
    PROVE  IsoIInv'
<1> USE DEF Read, IsoIInv, Image!Ask
<1>1. Switched'
  BY DEF Switched, Steps
<1>2. Reading'
  BY Numbers DEF Reading, end, Request, Job
<1>3. Table'
  BY DEF Table
<1>4. FillNeeded' /\ Answered'
  BY Numbers DEF FillNeeded, Answered, Delivered
<1>5. Ages'
  BY DEF Ages
<1> QED
  BY <1>1, <1>2, <1>3, <1>4, <1>5

LEMMA ReadAheadKeeps ==
    ASSUME IsoIInv, NEW pos \in 0 .. Size, NEW len \in 1 .. MaxRead, ReadAhead(pos, len)
    PROVE  IsoIInv'
<1> USE DEF ReadAhead, IsoIInv, readVars
<1>1. Switched'
  <2>1. [pos |-> pos, len |-> len] \in Request
    BY DEF Request
  <2> QED
    BY <2>1, Numbers DEF Switched
<1>2. Reading'
  BY DEF Reading, end
<1>3. Table'
  BY DEF Table
<1>4. FillNeeded' /\ Answered'
  BY DEF FillNeeded, Answered, Delivered, IsWithinRange, end
<1>5. Ages'
  BY DEF Ages
<1> QED
  BY <1>1, <1>2, <1>3, <1>4, <1>5

LEMMA BypassKeeps ==
    ASSUME IsoIInv, Bypass
    PROVE  IsoIInv'
<1> USE DEF Bypass, IsoIInv, Image!Answer
<1>1. Switched'
  BY DEF Switched, Steps
<1>2. Reading'
  BY DEF Reading
<1>3. Table'
  BY DEF Table
<1>4. FillNeeded' /\ Answered'
  BY DEF FillNeeded, Answered
<1>5. Ages'
  BY DEF Ages
<1> QED
  BY <1>1, <1>2, <1>3, <1>4, <1>5

LEMMA MissKeeps ==
    ASSUME IsoIInv, Miss
    PROVE  IsoIInv'
<1> USE DEF Miss, IsoIInv, readVars
<1>1. Switched'
  BY DEF Switched, Steps
<1>2. Reading'
  BY Numbers DEF Reading, end, Job
<1>3. Table'
  BY DEF Table
<1>4. FillNeeded' /\ Answered'
  BY Numbers DEF FillNeeded, Answered, Delivered, Reading, Job
<1>5. Ages'
  BY DEF Ages
<1> QED
  BY <1>1, <1>2, <1>3, <1>4, <1>5

LEMMA MissInAddKeeps ==
    ASSUME IsoIInv, MissInAdd
    PROVE  IsoIInv'
<1> USE DEF MissInAdd, IsoIInv, readVars
<1>1. Switched'
  BY DEF Switched, Steps
<1>2. Reading'
  BY DEF Reading, end
<1>3. Table'
  BY DEF Table
<1>4. FillNeeded'
  <2>1. job.cur \in 0 .. Size
    BY DEF Reading, Job
  <2>2. \A i \in 1 .. Num : ~ IsWithinRange(job.cur, caches[i])
    BY <2>1, SearchFinds, Numbers DEF Table
  <2> QED
    BY <2>2 DEF FillNeeded, IsWithinRange, end
<1>5. Answered'
  BY DEF Answered, Delivered
<1>6. Ages'
  BY DEF Ages
<1> QED
  BY <1>1, <1>2, <1>3, <1>4, <1>5, <1>6

LEMMA CompleteKeeps ==
    ASSUME IsoIInv, Complete
    PROVE  IsoIInv'
<1> USE DEF Complete, IsoIInv, readVars
<1>1. Switched'
  BY DEF Switched, Steps
<1>2. Reading'
  BY DEF Reading, end
<1>3. Table'
  BY DEF Table
<1>4. FillNeeded'
  BY DEF FillNeeded
<1>5. Answered'
  <2>1. CASE job.read
    <3>1. /\ job.pos = request.pos /\ job.len = request.len
          /\ job.cur = end /\ job.cur \in 0 .. Size
          /\ request.pos \in Nat /\ request.len \in Nat \ {0}
      BY <2>1, Numbers DEF Reading, end, Job, Request
    <3>2. ret' = Image!Available(request.pos, request.len)
      BY <2>1, <3>1, Numbers DEF Image!Available, Image!Least, end
    <3>3. Delivered(job.cur - job.pos)
      BY <2>1 DEF Answered
    <3> QED
      BY <2>1, <3>2, <3>3 DEF Answered, Delivered
  <2>2. CASE ~ job.read
    BY <2>2 DEF Answered, Delivered, Reading
  <2> QED
    BY <2>1, <2>2
<1>6. Ages'
  BY DEF Ages
<1> QED
  BY <1>1, <1>2, <1>3, <1>4, <1>5, <1>6

LEMMA ServeAheadKeeps ==
    ASSUME IsoIInv, ServeAhead
    PROVE  IsoIInv'
<1> USE DEF ServeAhead, IsoIInv, readVars
<1>0. ahead # <<>> =>
        /\ Last(ahead) \in Request
        /\ Front(ahead) \in Seq(Request) /\ Len(Front(ahead)) <= MaxAhead
  <2> SUFFICES ASSUME ahead # <<>> PROVE /\ Last(ahead) \in Request
        /\ Front(ahead) \in Seq(Request) /\ Len(Front(ahead)) <= MaxAhead
    OBVIOUS
  <2>1. ahead \in Seq(Request) /\ Len(ahead) \in Nat \ {0} /\ Len(ahead) <= MaxAhead
    BY DEF Switched
  <2>2. Last(ahead) \in Request
    BY <2>1 DEF Last
  <2>3. \A k \in 1 .. Len(ahead) - 1 : ahead[k] \in Request
    BY <2>1
  <2>4. /\ SubSeq(ahead, 1, Len(ahead) - 1) \in Seq(Request)
        /\ Len(SubSeq(ahead, 1, Len(ahead) - 1))
             = IF 1 <= Len(ahead) - 1 THEN (Len(ahead) - 1) - 1 + 1 ELSE 0
    <3>1. 1 \in Int /\ Len(ahead) - 1 \in Int
      BY <2>1
    <3> QED
      BY <3>1, <2>3, SubSeqProperties
  <2> QED
    BY <2>1, <2>2, <2>4, Numbers DEF Front
<1>1. Switched'
  BY <1>0 DEF Switched, Steps
<1>2. Reading'
  <2>1. CASE ahead = <<>>
    BY <2>1 DEF Reading, end
  <2>2. CASE ahead # <<>>
    <3>1. Last(ahead).pos \in 0 .. Size /\ Last(ahead).len \in 1 .. MaxRead
      BY <1>0, <2>2 DEF Request
    <3>4. job' = [pos |-> Last(ahead).pos, len |-> Last(ahead).len,
                  cur |-> Last(ahead).pos, read |-> FALSE]
      BY <2>2
    <3>5. end' = job'.pos + job'.len
      BY DEF end
    <3>2. job' \in Job /\ job'.cur = job'.pos /\ ~ job'.read /\ end' = job'.pos + job'.len
      BY <3>4, <3>5, <3>1 DEF Job
    <3>3. job'.cur >= job'.pos /\ job'.cur <= end'
      BY <3>2, Numbers DEF Job
    <3> QED
      BY <2>2, <3>2, <3>3 DEF Reading
  <2> QED
    BY <2>1, <2>2
<1>3. Table'
  BY DEF Table
<1>4. FillNeeded' /\ Answered'
  BY DEF FillNeeded, Answered, Delivered
<1>5. Ages'
  BY DEF Ages
<1> QED
  BY <1>1, <1>2, <1>3, <1>4, <1>5

LEMMA AheadServedKeeps ==
    ASSUME IsoIInv, AheadServed
    PROVE  IsoIInv'
<1> USE DEF AheadServed, IsoIInv, readVars
<1>1. Switched'
  BY DEF Switched, Steps
<1>2. Reading'
  BY DEF Reading, end
<1>3. Table'
  BY DEF Table
<1>4. FillNeeded' /\ Answered'
  BY DEF FillNeeded, Answered, Delivered
<1>5. Ages'
  BY DEF Ages
<1> QED
  BY <1>1, <1>2, <1>3, <1>4, <1>5

(* A table stays in order when ages change only.                           *)
LEMMA AgedTable ==
    ASSUME NEW cs, NEW new \in [1 .. Num -> Block], RightTable(cs), SortedTable(cs), NoneTwice(cs),
           \A i \in 1 .. Num : /\ new[i].pos = cs[i].pos /\ new[i].bufsize = cs[i].bufsize
                               /\ new[i].buf = cs[i].buf
                               /\ cs[i].pos = INVALID_POS => new[i] = cs[i]
    PROVE  RightTable(new) /\ SortedTable(new) /\ NoneTwice(new)
<1>1. RightTable(new)
  <2> SUFFICES ASSUME NEW i \in 1 .. Num, new[i] # Disabled PROVE Right(new[i])
    BY DEF RightTable
  <2>1. cs[i] # Disabled
    BY DisabledBlock
  <2>2. Right(cs[i])
    BY <2>1 DEF RightTable
  <2> QED
    BY <2>2 DEF Right
<1>2. SortedTable(new)
  BY DEF SortedTable
<1>3. NoneTwice(new)
  BY DEF NoneTwice
<1> QED
  BY <1>1, <1>2, <1>3

LEMMA ReturnKeeps ==
    ASSUME IsoIInv, Return
    PROVE  IsoIInv'
<1> USE DEF Return, IsoIInv, readVars
<1>1. Switched'
  BY DEF Switched, Steps
<1>2. Reading'
  BY DEF Reading
<1>3. Table'
  <2>1. /\ caches' \in [1 .. Num -> Block]
        /\ \A i \in 1 .. Num :
             /\ caches'[i].pos = caches[i].pos /\ caches'[i].bufsize = caches[i].bufsize
             /\ caches'[i].buf = caches[i].buf
             /\ caches[i].pos = INVALID_POS => caches'[i] = caches[i]
    BY DEF Table, RightTable, Block, Valid
  <2>2. RightTable(caches') /\ SortedTable(caches') /\ NoneTwice(caches')
    BY <2>1, AgedTable DEF Table
  <2>3. cache_on'
    BY DEF Switched
  <2> QED
    BY <2>2, <2>3 DEF Table
<1>4. FillNeeded' /\ Answered'
  BY DEF FillNeeded, Answered
<1>5. Ages'
  <2> SUFFICES ASSUME cache_policy' = "LRU", NEW i \in 1 .. Num, caches'[i].pos # INVALID_POS
               PROVE  caches'[i].age \in Int /\ caches'[i].age >= 0
    <3>1. used' = {}
      OBVIOUS
    <3> HIDE DEF Return
    <3> QED
      BY <3>1 DEF Ages
  <2>1. i \in Valid
    BY DEF Valid
  <2>2. caches'[i] = [caches[i] EXCEPT !.age = @ + 1]
    BY <2>1
  <2>3. caches[i] \in Block /\ caches[i].age \in Int /\ caches[i].age >= -1
    BY <2>1 DEF Ages, Table, RightTable, Valid, Block
  <2> QED
    BY <2>2, <2>3 DEF Block
<1> QED
  BY <1>1, <1>2, <1>3, <1>4, <1>5

(* Block c is good for at least one cell of the job.                       *)
Wants(c) == Wanted(c) \in Nat \ {0} /\ job.cur + Wanted(c) <= end /\ job.cur + Wanted(c) <= Size
            /\ job.cur + Wanted(c) <= c.pos + c.bufsize

(* A block that holds cur brings the read further, within the image.       *)
LEMMA WantedBounds ==
    ASSUME Reading, at # "idle", job.cur < end, NEW c, Right(c), IsWithinRange(job.cur, c)
    PROVE  Wants(c)
<1>1. /\ job.cur \in Nat /\ end \in Nat /\ job.pos \in Nat
  BY Numbers DEF Reading, Job, end
<1>2. /\ c.pos \in Nat /\ c.bufsize \in Nat /\ c.pos + c.bufsize <= Size
      /\ c.pos <= job.cur /\ job.cur < c.pos + c.bufsize
  BY RightSize, Numbers DEF IsWithinRange
<1> DEFINE a == end - job.cur
           b == c.pos + c.bufsize - job.cur
<1>3. a \in Nat \ {0} /\ b \in Nat \ {0} /\ job.cur + a = end /\ job.cur + b = c.pos + c.bufsize
  BY <1>1, <1>2
<1>4. Wanted(c) = IF a < b THEN a ELSE b
  BY DEF Wanted, Image!Least
<1> QED
  BY <1>1, <1>2, <1>3, <1>4, Numbers DEF Wants

(* The caller gets the cells of the image that the block holds.            *)
LEMMA DeliverEffect ==
    ASSUME Reading, at # "idle", job.cur < end, NEW c, Right(c), IsWithinRange(job.cur, c),
           Deliver(c)
    PROVE  /\ data' \in [1 .. request.len -> Int \cup {None}]
           /\ ~ job.read => data' = data
           /\ job.read /\ Delivered(job.cur - job.pos) =>
                \A k \in 1 .. job.cur + Wanted(c) - job.pos : data'[k] = request.pos + k - 1
<1> DEFINE done == job.cur - job.pos
           w == Wanted(c)
<1>1. /\ job.cur \in Nat /\ job.pos \in Nat /\ done \in Nat /\ job.cur = job.pos + done
      /\ data \in [1 .. request.len -> Int \cup {None}] /\ job.read \in BOOLEAN
      /\ job.read => job.pos = request.pos /\ job.len = request.len
      /\ request.len \in Nat /\ end = job.pos + job.len /\ job.len \in Nat
  BY Numbers DEF Reading, Job, Request, end
<1>2. /\ w \in Nat \ {0} /\ job.cur + w <= end /\ job.cur + w <= Size
      /\ job.cur + w <= c.pos + c.bufsize
  BY WantedBounds DEF Wants
<1>3. /\ c.pos \in Nat /\ c.bufsize \in Nat /\ c.pos <= job.cur
      /\ c.buf = [i \in 1 .. c.bufsize |-> c.pos + i - 1]
  BY RightSize DEF IsWithinRange, Right, Image!Cells
<1> HIDE DEF w, done
<1>4. data' = [k \in 1 .. request.len |->
                 IF k \in done + 1 .. done + w /\ job.read
                 THEN c.buf[job.cur - c.pos + k - done] ELSE data[k]]
  BY <1>1 DEF Deliver, w, done
<1>5. ASSUME NEW k \in done + 1 .. done + w
      PROVE  c.buf[job.cur - c.pos + k - done] = job.pos + k - 1
  <2>0. job.cur \in Nat /\ job.pos \in Nat /\ done \in Nat /\ w \in Nat /\ c.pos \in Nat
        /\ c.bufsize \in Nat /\ k \in Nat /\ done < k /\ k <= done + w
        /\ job.cur = job.pos + done /\ c.pos <= job.cur /\ job.cur + w <= c.pos + c.bufsize
    BY <1>1, <1>2, <1>3
  <2>1. job.cur - c.pos + k - done \in 1 .. c.bufsize
    BY ONLY <2>0
  <2>2. c.pos + (job.cur - c.pos + k - done) - 1 = job.pos + k - 1
    BY ONLY <2>0
  <2> QED
    BY <2>1, <2>2, <1>3
<1>6. data' \in [1 .. request.len -> Int \cup {None}]
  <2>1. ASSUME NEW k \in 1 .. request.len PROVE data'[k] \in Int \cup {None}
    <3>1. CASE k \in done + 1 .. done + w /\ job.read
      BY <3>1, <1>4, <1>5, <1>1
    <3>2. CASE ~ (k \in done + 1 .. done + w /\ job.read)
      BY <3>2, <1>4, <1>1
    <3> QED
      BY <3>1, <3>2
  <2> QED
    BY <2>1, <1>4
<1>7. ~ job.read => data' = data
  BY <1>1, <1>4
<1>8. ASSUME job.read, Delivered(done), NEW k \in 1 .. done + w
      PROVE  data'[k] = request.pos + k - 1
  <2>1. k \in 1 .. request.len
    BY <1>1, <1>2, <1>8
  <2>2. CASE k \in done + 1 .. done + w
    BY <2>1, <2>2, <1>1, <1>4, <1>5, <1>8
  <2>3. CASE k \notin done + 1 .. done + w
    <3>1. k \in 1 .. done
      BY <2>3, <1>1, <1>2
    <3> QED
      BY <3>1, <2>1, <2>3, <1>4, <1>8 DEF Delivered
  <2> QED
    BY <2>2, <2>3
<1>9. job.cur + w - job.pos = done + w
  BY <1>1, <1>2
<1> QED
  BY <1>6, <1>7, <1>8, <1>9 DEF done, w

(* A block is delivered, in a step that goes on with add or hit.           *)
LEMMA DeliverKeeps ==
    ASSUME IsoIInv, at \in {"hit", "add", "fill"}, job.cur < end,
           NEW c, Right(c), IsWithinRange(job.cur, c), Deliver(c),
           job' = [job EXCEPT !.cur = @ + Wanted(c)],
           at' \in {"hit", "add"}, at = "hit" \/ at' = "add",
           request' = request, ret' = ret
    PROVE  Reading' /\ Answered'
<1>1. /\ job \in Job /\ job.cur \in Nat /\ job.pos \in Nat /\ at # "idle" /\ job.cur >= job.pos
      /\ request \in Request /\ end = job.pos + job.len /\ job.len \in Nat
      /\ job.read => job.pos = request.pos /\ job.len = request.len
      /\ at = "hit" => job.read
  BY Numbers DEF IsoIInv, Reading, Job, end
<1>2. /\ Wanted(c) \in Nat \ {0} /\ job.cur + Wanted(c) <= end /\ job.cur + Wanted(c) <= Size
  BY <1>1, WantedBounds DEF Wants, IsoIInv
<1>3. /\ data' \in [1 .. request.len -> Int \cup {None}]
      /\ ~ job.read => data' = data
      /\ job.read /\ Delivered(job.cur - job.pos) =>
            \A k \in 1 .. job.cur + Wanted(c) - job.pos : data'[k] = request.pos + k - 1
  BY <1>1, DeliverEffect DEF IsoIInv
<1> DEFINE w == Wanted(c)
<1>4. /\ job' \in Job /\ job'.cur = job.cur + w /\ job'.pos = job.pos /\ job'.len = job.len
      /\ job'.read = job.read
  <2>1. job' = [job EXCEPT !.cur = job.cur + w]
    OBVIOUS
  <2>2. job.cur + w \in 0 .. Size
    BY <1>1, <1>2
  <2> HIDE DEF w
  <2> QED
    BY <2>1, <2>2, <1>1 DEF Job
<1>5. end' = job.pos + job.len
  BY <1>4 DEF end
<1>6. Reading'
  BY <1>1, <1>2, <1>3, <1>4, <1>5 DEF Reading
<1>7. Answered'
  <2>1. CASE job.read
    <3>1. Delivered(job.cur - job.pos)
      BY <2>1 DEF IsoIInv, Answered
    <3>2. Delivered(job.cur - job.pos)'
      <4>1. job'.cur - job'.pos = job.cur + Wanted(c) - job.pos
        <5>1. w \in Nat /\ job.cur \in Nat /\ job.pos \in Nat
          BY <1>1, <1>2
        <5> HIDE DEF w
        <5>2. job'.cur - job'.pos = job.cur + w - job.pos
          BY ONLY <5>1, <1>4
        <5> QED
          BY <5>2 DEF w
      <4>2. \A k \in 1 .. job'.cur - job'.pos : data'[k] = request'.pos + k - 1
        BY <4>1, <3>1, <2>1, <1>3
      <4> QED
        BY <4>2, Zenon DEF Delivered
    <3> QED
      BY <3>2, <2>1, <1>4 DEF Answered
  <2>2. CASE ~ job.read
    BY <2>2, <1>1, <1>3, <1>4 DEF IsoIInv, Answered, Delivered
  <2> QED
    BY <2>1, <2>2
<1> QED
  BY <1>6, <1>7

LEMMA HitBlockKeeps ==
    ASSUME IsoIInv, HitBlock
    PROVE  IsoIInv'
<1> DEFINE i == Search(job.cur)
           c == caches[i]
<1>1. job.cur \in 0 .. Size /\ at \in {"hit", "add"} /\ job.cur < end /\ i # 0
      /\ RightTable(caches) /\ SortedTable(caches) /\ NoneTwice(caches) /\ cache_on
  BY DEF HitBlock, IsoIInv, Reading, Job, Table, Switched
<1>2. i \in 1 .. Num /\ IsWithinRange(job.cur, c)
  BY <1>1, SearchFinds
<1>3. Right(c) /\ c.pos # INVALID_POS /\ c \in Block
  BY <1>1, <1>2, DisabledBlock DEF RightTable, IsWithinRange
<1>4. /\ Deliver(c) /\ job' = [job EXCEPT !.cur = @ + Wanted(c)]
      /\ caches' = [caches EXCEPT ![i].age = -1]
      /\ used' = used \cup {c.pos}
      /\ request' = request /\ at' = at /\ ret' = ret
      /\ UNCHANGED <<cache_on, cache_policy, ahead>>
  BY DEF HitBlock, readVars
<1> HIDE DEF i, c
<1>5. Reading' /\ Answered'
  BY <1>1, <1>2, <1>3, <1>4, DeliverKeeps
<1>6. Switched'
  BY <1>4 DEF IsoIInv, Switched
<1>7. FillNeeded'
  BY <1>1, <1>4 DEF FillNeeded
<1>8. /\ caches' \in [1 .. Num -> Block]
      /\ \A j \in 1 .. Num :
            /\ caches'[j].pos = caches[j].pos /\ caches'[j].bufsize = caches[j].bufsize
            /\ caches'[j].buf = caches[j].buf
            /\ j # i => caches'[j] = caches[j]
      /\ caches'[i].age = -1
  BY <1>1, <1>2, <1>4 DEF RightTable, Block
<1>9. Table'
  <2>1. \A j \in 1 .. Num : caches[j].pos = INVALID_POS => caches'[j] = caches[j]
    BY <1>3, <1>8 DEF c
  <2>2. RightTable(caches') /\ SortedTable(caches') /\ NoneTwice(caches')
    BY <1>1, <1>8, <2>1, AgedTable
  <2> QED
    BY <2>2, <1>1, <1>4 DEF Table
<1>10. Ages'
  <2> SUFFICES ASSUME cache_policy' = "LRU", NEW j \in 1 .. Num, caches'[j].pos # INVALID_POS
               PROVE  /\ caches'[j].age >= -1
                      /\ caches'[j].age = -1 <=> caches'[j].pos \in used'
    BY DEF Ages
  <2>1. CASE j = i
    BY <2>1, <1>2, <1>4, <1>8 DEF c
  <2>2. CASE j # i
    <3>1. caches[j].pos # c.pos
      BY <2>2, <1>1, <1>2, <1>8 DEF NoneTwice, c
    <3> QED
      BY <3>1, <2>2, <1>4, <1>8 DEF IsoIInv, Ages
  <2> QED
    BY <2>1, <2>2
<1> QED
  BY <1>5, <1>6, <1>7, <1>9, <1>10 DEF IsoIInv

(* Some entry is as old as any.                                            *)
LEMMA Oldest ==
    ASSUME \A i \in 1 .. Num : caches[i].age \in Int
    PROVE  \E i \in 1 .. Num : \A j \in 1 .. Num : caches[i].age >= caches[j].age
<1> DEFINE OldestTo(n) == \E i \in 1 .. n : \A j \in 1 .. n : caches[i].age >= caches[j].age
           T == {n \in Nat : n \in 1 .. Num /\ ~ OldestTo(n)}
<1>1. ASSUME NEW n \in T PROVE \E m \in T : m < n
  <2>1. n \in 1 .. Num /\ ~ OldestTo(n)
    OBVIOUS
  <2>2. n # 1
    BY <2>1
  <2>3. n - 1 \in Nat /\ n - 1 \in 1 .. Num /\ n - 1 < n
    BY <2>1, <2>2, Numbers
  <2>4. ASSUME OldestTo(n - 1) PROVE FALSE
    <3>1. PICK i \in 1 .. n - 1 : \A j \in 1 .. n - 1 : caches[i].age >= caches[j].age
      BY <2>4
    <3>2. \A j \in 1 .. n : j \in 1 .. n - 1 \/ j = n
      BY <2>1
    <3>3. i \in 1 .. Num /\ i \in 1 .. n /\ n \in 1 .. n /\ \A j \in 1 .. n : j \in 1 .. Num
      BY <2>1, Numbers
    <3>4. CASE caches[i].age >= caches[n].age
      BY <3>1, <3>2, <3>3, <3>4, <2>1
    <3>5. CASE ~ (caches[i].age >= caches[n].age)
      <4>1. \A j \in 1 .. n : caches[n].age >= caches[j].age
        BY <3>1, <3>2, <3>3, <3>5, <2>1
      <4> QED
        BY <4>1, <3>3, <2>1
    <3> QED
      BY <3>4, <3>5
  <2> QED
    BY <2>3, <2>4
<1>2. T = {}
  <2>1. T \subseteq Nat
    OBVIOUS
  <2> HIDE DEF T
  <2> QED
    BY <1>1, <2>1, Descent
<1>3. Num \in Nat /\ Num \in 1 .. Num
  BY Numbers
<1> QED
  BY <1>2, <1>3

(* The first of some entries is one of them.                               *)
LEMMA FirstOfIn ==
    ASSUME NEW T, T \subseteq Nat, T # {}
    PROVE  FirstOf(T) \in T
  BY MinimumOf DEF FirstOf

(* The entry that is retired is free, or, with LRU, the oldest of a full   *)
(* table.                                                                  *)
LEMMA Retires ==
    RightTable(caches) =>
      \A i \in Retiring :
        /\ i \in 1 .. Num
        /\ cache_policy = "LRU" /\ caches[i].pos # INVALID_POS =>
             \A j \in 1 .. Num : caches[j].pos # INVALID_POS /\ caches[i].age >= caches[j].age
<1> SUFFICES ASSUME RightTable(caches), NEW i \in Retiring
             PROVE  /\ i \in 1 .. Num
                    /\ cache_policy = "LRU" /\ caches[i].pos # INVALID_POS =>
                         \A j \in 1 .. Num : caches[j].pos # INVALID_POS
                                             /\ caches[i].age >= caches[j].age
  OBVIOUS
<1>1. CASE Valid # 1 .. Num
  <2> DEFINE T == (1 .. Num) \ Valid
  <2>1. T \subseteq Nat /\ T # {}
    BY <1>1 DEF Valid
  <2>2. FirstOf(T) \in T
    <3> HIDE DEF T
    <3> QED
      BY <2>1, FirstOfIn
  <2>3. i = FirstOf(T)
    BY <1>1 DEF Retiring
  <2> QED
    BY <2>2, <2>3 DEF Valid
<1>2. CASE Valid = 1 .. Num /\ cache_policy = "LRU"
  <2> DEFINE T == {k \in Valid : \A j \in Valid : caches[k].age >= caches[j].age}
  <2>1. T \subseteq Nat
    BY <1>2, Numbers
  <2>2. T # {}
    <3>1. \A k \in 1 .. Num : caches[k].age \in Int
      BY DEF RightTable, Block
    <3>2. PICK k \in 1 .. Num : \A j \in 1 .. Num : caches[k].age >= caches[j].age
      BY <3>1, Oldest
    <3>3. k \in T
      BY <3>2, <1>2
    <3> QED
      BY <3>3
  <2>3. FirstOf(T) \in T
    <3> HIDE DEF T
    <3> QED
      BY <2>1, <2>2, FirstOfIn
  <2>4. i = FirstOf(T)
    BY <1>2 DEF Retiring
  <2>5. i \in T
    BY <2>3, <2>4
  <2>6. \A j \in 1 .. Num : caches[j].pos # INVALID_POS
    BY <1>2 DEF Valid
  <2> QED
    BY <2>5, <2>6, <1>2
<1>3. CASE Valid = 1 .. Num /\ cache_policy # "LRU"
  BY <1>3 DEF Retiring
<1> QED
  BY <1>1, <1>2, <1>3

(* The table after one entry was replaced and sorted in.                   *)
LEMMA ReplaceKeeps ==
    ASSUME IsoIInv, at = "fill", NEW i \in 1 .. Num, NEW b \in Block,
           \/ b = Disabled /\ used' = used
           \/ /\ Right(b) /\ b.age = -1 /\ used' = used \cup {b.pos}
              /\ \A j \in 1 .. Num : caches[j].pos # b.pos,
           caches' = Reorder([caches EXCEPT ![i] = b], i),
           cache_on' = cache_on, cache_policy' = cache_policy
    PROVE  Table' /\ Ages'
<1>1. RightTable(caches) /\ SortedTable(caches) /\ NoneTwice(caches) /\ cache_on
  BY DEF IsoIInv, Table, Switched
<1>2. /\ RightTable(caches') /\ SortedTable(caches') /\ NoneTwice(caches')
      /\ \E q \in 1 .. Num :
           /\ caches'[q] = b
           /\ \A k \in 1 .. Num : k # q => \E j \in 1 .. Num : j # i /\ caches'[k] = caches[j]
           /\ \A j \in 1 .. Num : j # i => \E k \in 1 .. Num : k # q /\ caches'[k] = caches[j]
  <2> DEFINE new == Reorder([caches EXCEPT ![i] = b], i)
  <2>1. \/ b = Disabled
        \/ Right(b) /\ \A j \in 1 .. Num : caches[j].pos # b.pos
    OBVIOUS
  <2>2. /\ RightTable(new) /\ SortedTable(new) /\ NoneTwice(new)
        /\ \E q \in 1 .. Num :
             /\ new[q] = b
             /\ \A k \in 1 .. Num : k # q => \E j \in 1 .. Num : j # i /\ new[k] = caches[j]
             /\ \A j \in 1 .. Num : j # i => \E k \in 1 .. Num : k # q /\ new[k] = caches[j]
    BY <1>1, <2>1, ReplaceEffect
  <2>3. caches' = new
    OBVIOUS
  <2> HIDE DEF new
  <2> QED
    BY ONLY <2>2, <2>3
<1>3. Table'
  BY <1>1, <1>2 DEF Table
<1>4. PICK q \in 1 .. Num :
           /\ caches'[q] = b
           /\ \A k \in 1 .. Num : k # q => \E j \in 1 .. Num : j # i /\ caches'[k] = caches[j]
  BY <1>2
<1>5. Ages'
  <2> SUFFICES ASSUME cache_policy' = "LRU", NEW k \in 1 .. Num, caches'[k].pos # INVALID_POS
               PROVE  /\ caches'[k].age >= -1
                      /\ caches'[k].age = -1 <=> caches'[k].pos \in used'
    BY DEF Ages
  <2>1. CASE k = q
    BY <2>1, <1>4, DisabledBlock
  <2>2. CASE k # q
    <3>1. PICK j \in 1 .. Num : j # i /\ caches'[k] = caches[j]
      BY <2>2, <1>4
    <3>2. /\ caches[j].age >= -1
          /\ caches[j].age = -1 <=> caches[j].pos \in used
      BY <3>1 DEF IsoIInv, Ages
    <3>3. caches[j].pos \in used' <=> caches[j].pos \in used
      OBVIOUS
    <3> QED
      BY <3>1, <3>2, <3>3
  <2> QED
    BY <2>1, <2>2
<1> QED
  BY <1>3, <1>5

(* The block that is filled holds cur and was not in the table.            *)
LEMMA FillBlockEffect ==
    ASSUME IsoIInv, FillBlock
    PROVE  \E i \in Retiring, block \in Block :
             /\ Right(block) /\ block.age = -1 /\ IsWithinRange(job.cur, block)
             /\ \A j \in 1 .. Num : caches[j].pos # block.pos
             /\ Deliver(block)
             /\ job' = [job EXCEPT !.cur = @ + Wanted(block)]
             /\ caches' = Reorder([caches EXCEPT ![i] = block], i)
             /\ used' = used \cup {block.pos}
<1>1. /\ at = "fill" /\ at' = "add" /\ job.cur \in 0 .. Size /\ job.cur < end
      /\ request' = request /\ ret' = ret /\ UNCHANGED <<cache_on, cache_policy, ahead>>
      /\ RightTable(caches)
  BY DEF FillBlock, readVars, IsoIInv, Reading, Job, FillNeeded, Table
<1> DEFINE pos   == AlignDown(job.cur)
           n     == Image!Available(pos, Cap)
           block == [pos |-> pos, bufsize |-> n, age |-> -1, buf |-> Image!Cells(pos, n)]
<1>2. PICK i \in Retiring :
        /\ n > 0 /\ Deliver(block)
        /\ job' = [job EXCEPT !.cur = @ + Wanted(block)]
        /\ caches' = Reorder([caches EXCEPT ![i] = block], i)
        /\ used' = used \cup {pos}
  BY DEF FillBlock
<1>3. /\ pos \in 0 .. job.cur /\ pos % Align = 0 /\ job.cur < pos + Align
      /\ job.cur = Size => pos = Size
      /\ Align <= Cap
  BY <1>1, Aligned
<1>4. pos \in 0 .. Size - 1 /\ n = (IF pos + Cap < Size THEN Cap ELSE Size - pos)
  BY <1>1, <1>2, <1>3, Numbers DEF Image!Available, Image!Least
<1>5. block \in Block /\ Right(block) /\ block.pos = pos /\ block.bufsize = n /\ block.age = -1
  BY <1>3, <1>4, RightBlock
<1> HIDE DEF block, n, pos
<1>6. job.cur < pos + n
  <2>1. CASE pos + Cap < Size
    BY <2>1, <1>1, <1>3, <1>4, Numbers
  <2>2. CASE ~ (pos + Cap < Size)
    <3>1. pos + n = Size
      BY <2>2, <1>4, Numbers
    <3>2. job.cur # Size
      BY <1>3, <1>4, Numbers
    <3> QED
      BY <3>1, <3>2, <1>1, Numbers
  <2> QED
    BY <2>1, <2>2
<1>7. IsWithinRange(job.cur, block)
  BY <1>1, <1>3, <1>4, <1>5, <1>6, Numbers DEF IsWithinRange
<1>8. \A j \in 1 .. Num : caches[j].pos # block.pos
  <2> SUFFICES ASSUME NEW j \in 1 .. Num, caches[j].pos = pos PROVE FALSE
    BY <1>5
  <2>1. pos # INVALID_POS
    BY <1>4, Numbers
  <2>2. Right(caches[j])
    BY <2>1, <1>1, DisabledBlock DEF RightTable
  <2>3. caches[j].bufsize = n
    BY <2>2 DEF Right, n
  <2>4. IsWithinRange(job.cur, caches[j])
    BY <2>1, <2>3, <1>3, <1>1, <1>6 DEF IsWithinRange
  <2> QED
    BY <2>4, <1>1 DEF IsoIInv, FillNeeded
<1> QED
  BY <1>2, <1>5, <1>7, <1>8

LEMMA FillBlockKeeps ==
    ASSUME IsoIInv, FillBlock
    PROVE  IsoIInv'
<1>1. /\ at = "fill" /\ at' = "add" /\ job.cur < end
      /\ request' = request /\ ret' = ret /\ UNCHANGED <<cache_on, cache_policy, ahead>>
      /\ RightTable(caches)
  BY DEF FillBlock, readVars, IsoIInv, FillNeeded, Table
<1>2. PICK i \in Retiring, block \in Block :
        /\ Right(block) /\ block.age = -1 /\ IsWithinRange(job.cur, block)
        /\ \A j \in 1 .. Num : caches[j].pos # block.pos
        /\ Deliver(block)
        /\ job' = [job EXCEPT !.cur = @ + Wanted(block)]
        /\ caches' = Reorder([caches EXCEPT ![i] = block], i)
        /\ used' = used \cup {block.pos}
  BY FillBlockEffect
<1>3. Reading' /\ Answered'
  BY <1>1, <1>2, DeliverKeeps
<1>4. Switched'
  BY <1>1 DEF IsoIInv, Switched, Steps
<1>5. FillNeeded'
  BY <1>1 DEF FillNeeded
<1>6. Table' /\ Ages'
  BY <1>1, <1>2, Retires, ReplaceKeeps
<1> QED
  BY <1>3, <1>4, <1>5, <1>6 DEF IsoIInv

(* The step after a block could not be filled.                             *)
LEMMA UnfilledKeeps ==
    ASSUME IsoIInv, EndOfImage \/ FillFails
    PROVE  IsoIInv'
<1>1. /\ at = "fill" /\ at' = "added" /\ RightTable(caches)
      /\ request' = request /\ job' = job /\ data' = data
      /\ UNCHANGED <<cache_on, cache_policy, ahead, used>>
  BY DEF EndOfImage, FillFails, readVars, IsoIInv, Table
<1>2. PICK i \in Retiring : caches' = Reorder([caches EXCEPT ![i] = Disabled], i)
  BY DEF EndOfImage, FillFails
<1>3. Table' /\ Ages'
  BY <1>1, <1>2, DisabledBlock, Retires, ReplaceKeeps
<1>4. Switched'
  BY <1>1 DEF IsoIInv, Switched, Steps
<1>5. Reading'
  BY <1>1 DEF IsoIInv, Reading, end
<1>6. FillNeeded'
  BY <1>1 DEF FillNeeded
<1>7. Answered'
  <2>1. CASE ~ job.read
    <3>1. ret' = ret
      BY <2>1 DEF EndOfImage, FillFails
    <3> QED
      BY <2>1, <3>1, <1>1 DEF IsoIInv, Answered, Delivered
  <2>2. CASE job.read /\ FillFails
    BY <2>2, <1>1 DEF FillFails, Answered
  <2>3. CASE job.read /\ EndOfImage
    <3>1. /\ job.pos = request.pos /\ job.len = request.len /\ job.cur < end /\ job.cur >= job.pos
          /\ end = job.pos + job.len
          /\ job.cur \in 0 .. Size /\ request.pos \in 0 .. Size /\ request.len \in Nat \ {0}
      BY <2>3, <1>1, Numbers DEF IsoIInv, FillNeeded, Reading, end, Job, Request
    <3>2. ret' = job.cur - job.pos /\ Image!Available(AlignDown(job.cur), Cap) = 0
      BY <2>3 DEF EndOfImage
    <3>3. AlignDown(job.cur) \in 0 .. job.cur
      BY <3>1, Aligned
    <3>4. job.cur = Size
      BY <3>1, <3>2, <3>3, Numbers DEF Image!Available, Image!Least
    <3>5. ret' = Image!Available(request.pos, request.len)
      BY <3>1, <3>2, <3>4, Numbers DEF Image!Available, Image!Least
    <3>6. Delivered(job.cur - job.pos)
      BY <2>3, <1>1 DEF IsoIInv, Answered
    <3> QED
      BY <2>3, <3>2, <3>5, <3>6, <1>1 DEF Answered, Delivered
  <2> QED
    BY <2>1, <2>2, <2>3
<1> QED
  BY <1>3, <1>4, <1>5, <1>6, <1>7 DEF IsoIInv

LEMMA UnchangedKeeps ==
    ASSUME IsoIInv, UNCHANGED vars
    PROVE  IsoIInv'
<1> USE DEF vars, readVars, IsoIInv
<1>1. Switched'
  BY DEF Switched
<1>2. Reading'
  BY DEF Reading, end
<1>3. Table'
  BY DEF Table
<1>4. FillNeeded' /\ Answered'
  BY DEF FillNeeded, Answered, Delivered, IsWithinRange, end
<1>5. Ages'
  BY DEF Ages
<1> QED
  BY <1>1, <1>2, <1>3, <1>4, <1>5

(* The inductive invariant of the cache (isocache.c) holds in every state. *)
THEOREM IsoIInvHolds == Spec => []IsoIInv
<1>1. Init => IsoIInv
  BY IsoInit
<1>2. IsoIInv /\ [Next]_vars => IsoIInv'
  <2> SUFFICES ASSUME IsoIInv, [Next]_vars PROVE IsoIInv'
    OBVIOUS
  <2>1. ASSUME NEW pos \in 0 .. Size, NEW len \in 1 .. MaxRead, Read(pos, len) PROVE IsoIInv'
    BY <2>1, ReadKeeps
  <2>2. ASSUME NEW pos \in 0 .. Size, NEW len \in 1 .. MaxRead, ReadAhead(pos, len) PROVE IsoIInv'
    BY <2>2, ReadAheadKeeps
  <2>3. ASSUME NEW policy \in {"LRU", "RR"}, SetPolicy(policy) PROVE IsoIInv'
    BY <2>3, SetPolicyKeeps
  <2>4. CASE CacheInit \/ CacheOff
    BY <2>4, SwitchKeeps
  <2>5. CASE Work
    <3>1. CASE HitBlock
      BY <3>1, HitBlockKeeps
    <3>2. CASE Bypass
      BY <3>2, BypassKeeps
    <3>3. CASE Miss
      BY <3>3, MissKeeps
    <3>4. CASE MissInAdd
      BY <3>4, MissInAddKeeps
    <3>5. CASE FillBlock
      BY <3>5, FillBlockKeeps
    <3>6. CASE EndOfImage \/ FillFails
      BY <3>6, UnfilledKeeps
    <3>7. CASE Complete
      BY <3>7, CompleteKeeps
    <3>8. CASE ServeAhead
      BY <3>8, ServeAheadKeeps
    <3>9. CASE AheadServed
      BY <3>9, AheadServedKeeps
    <3>10. CASE Return
      BY <3>10, ReturnKeeps
    <3> QED
      BY <2>5, <3>1, <3>2, <3>3, <3>4, <3>5, <3>6, <3>7, <3>8, <3>9, <3>10 DEF Work
  <2>6. CASE UNCHANGED vars
    BY <2>6, UnchangedKeeps
  <2> QED
    BY <2>1, <2>2, <2>3, <2>4, <2>5, <2>6 DEF Next
<1> QED
  BY <1>1, <1>2, PTL DEF Spec

(* The variables of the cache stay in their sets: the table keeps its      *)
(* entries, a valid one is not empty, and the read stays within its range  *)
(* (add_cache()).                                                          *)
THEOREM IsoTypeOK == Spec => []TypeOK
<1>1. IsoIInv => TypeOK
  <2> SUFFICES ASSUME IsoIInv PROVE TypeOK
    OBVIOUS
  <2>1. /\ caches \in [1 .. Num -> Block] /\ Num \in Nat
    BY Numbers DEF IsoIInv, Table, RightTable
  <2>2. caches \in Seq(Block) /\ Len(caches) = Num
    BY <2>1, FunctionIsSeq
  <2>3. ASSUME NEW i \in 1 .. Num
        PROVE  caches[i].bufsize = Len(caches[i].buf)
               /\ (caches[i].pos # INVALID_POS => caches[i].bufsize > 0)
    <3>1. CASE caches[i] = Disabled
      BY <3>1 DEF Disabled
    <3>2. CASE Right(caches[i])
      <4>1. caches[i].bufsize \in Nat \ {0}
        BY <3>2, RightSize
      <4>2. caches[i].buf = [k \in 1 .. caches[i].bufsize |-> caches[i].pos + k - 1]
        BY <3>2 DEF Right, Image!Cells
      <4> QED
        BY <4>1, <4>2
    <3> QED
      BY <3>1, <3>2 DEF IsoIInv, Table, RightTable
  <2>4. /\ cache_policy \in {"DISABLED", "LRU", "RR"}
        /\ cache_on \in BOOLEAN /\ (cache_on => cache_policy # "DISABLED")
        /\ Len(ahead) <= MaxAhead
        /\ at \in Steps
    BY DEF IsoIInv, Switched
  <2>5. at \in {"hit", "add", "fill"} => job.cur \in job.pos .. job.pos + job.len
    BY Numbers DEF IsoIInv, Reading, Job, end
  <2> QED
    BY <2>2, <2>3, <2>4, <2>5 DEF TypeOK, Valid, Block
<1> QED
  BY <1>1, IsoIInvHolds, PTL

(* The table is sorted whenever it is searched (reorder_iso_cache()).      *)
THEOREM TableSorted == Spec => []Sorted
<1>1. IsoIInv => Sorted
  BY DEF IsoIInv, Table, SortedTable, Sorted
<1> QED
  BY <1>1, IsoIInvHolds, PTL

(* binary_search() finds a block that holds the position whenever there is *)
(* one.                                                                    *)
THEOREM SearchMissesNothing == Spec => []NothingMissed
<1>1. IsoIInv => NothingMissed
  <2> SUFFICES ASSUME IsoIInv, NEW pos \in 0 .. Size - 1,
                      NEW i \in 1 .. Num, IsWithinRange(pos, caches[i])
               PROVE  Search(pos) # 0
    BY DEF NothingMissed
  <2>1. pos \in 0 .. Size
    BY Numbers
  <2>2. Search(pos) \in 1 .. Num
    BY <2>1, SearchFinds DEF IsoIInv, Table
  <2> QED
    BY <2>2
<1> QED
  BY <1>1, IsoIInvHolds, PTL

(* No block of the image is held twice (add_cache() fills only what        *)
(* get_hit_caches() did not find).                                         *)
THEOREM BlocksHeldOnce == Spec => []NoBlockTwice
<1>1. IsoIInv => NoBlockTwice
  BY DEF IsoIInv, Table, NoneTwice, NoBlockTwice, Valid
<1> QED
  BY <1>1, IsoIInvHolds, PTL

(* One step of KeepsOwnBlocks.                                             *)
OwnKept ==
    LET before == {caches[i].pos : i \in Valid}
        after  == {caches'[i].pos : i \in 1 .. Num}
    IN  at = "fill" /\ cache_policy = "LRU" /\ used \cap (before \ after) # {}
            => before \subseteq used

LEMMA ReplaceKeepsOwn ==
    ASSUME IsoIInv, NEW i \in Retiring, NEW b \in Block,
           \/ b = Disabled
           \/ Right(b) /\ \A j \in 1 .. Num : caches[j].pos # b.pos,
           caches' = Reorder([caches EXCEPT ![i] = b], i)
    PROVE  OwnKept
<1> DEFINE new == Reorder([caches EXCEPT ![i] = b], i)
<1>1. RightTable(caches) /\ SortedTable(caches) /\ NoneTwice(caches)
  BY DEF IsoIInv, Table
<1>2. /\ i \in 1 .. Num
      /\ cache_policy = "LRU" /\ caches[i].pos # INVALID_POS =>
           \A j \in 1 .. Num : caches[j].pos # INVALID_POS /\ caches[i].age >= caches[j].age
  BY <1>1, Retires
<1>3. \E q \in 1 .. Num :
        /\ new[q] = b
        /\ \A k \in 1 .. Num : k # q => \E j \in 1 .. Num : j # i /\ new[k] = caches[j]
        /\ \A j \in 1 .. Num : j # i => \E k \in 1 .. Num : k # q /\ new[k] = caches[j]
  BY <1>1, <1>2, ReplaceEffect
<1> HIDE DEF new
<1>4. \A j \in 1 .. Num : j # i => \E k \in 1 .. Num : caches'[k] = caches[j]
  BY <1>3 DEF new
<1> DEFINE before == {caches[j].pos : j \in Valid}
           after  == {caches'[j].pos : j \in 1 .. Num}
<1> SUFFICES ASSUME at = "fill", cache_policy = "LRU", NEW p \in used, p \in before, p \notin after,
                    NEW j \in Valid
             PROVE  caches[j].pos \in used
  BY DEF OwnKept
<1>5. PICK m \in Valid : p = caches[m].pos
  OBVIOUS
<1>6. m = i
  <2>1. ASSUME m # i PROVE FALSE
    <3>1. PICK k \in 1 .. Num : caches'[k] = caches[m]
      BY <2>1, <1>4 DEF Valid
    <3>2. p \in after
      BY <3>1, <1>5
    <3> QED
      BY <3>2
  <2> QED
    BY <2>1
<1>7. \A k \in Valid : k \in 1 .. Num /\ caches[k].pos # INVALID_POS
  BY DEF Valid
<1>8. caches[i].age = -1
  BY <1>5, <1>6, <1>7 DEF IsoIInv, Ages
<1>9. caches[j].age >= -1 /\ caches[j].age <= -1 /\ caches[j].age \in Int
  BY <1>1, <1>2, <1>5, <1>6, <1>7, <1>8 DEF IsoIInv, Ages, RightTable, Block
<1>10. caches[j].age = -1
  BY <1>9
<1> QED
  BY <1>10, <1>7 DEF IsoIInv, Ages

(* Every step is one of KeepsOwnBlocks.                                    *)
LEMMA StepKeepsOwn ==
    ASSUME IsoIInv, [Next]_vars
    PROVE  OwnKept
<1>1. CASE caches' = caches
  BY <1>1 DEF OwnKept, Valid
<1>2. CASE at # "fill"
  BY <1>2 DEF OwnKept
<1>3. CASE EndOfImage \/ FillFails
  <2>1. PICK i \in Retiring : caches' = Reorder([caches EXCEPT ![i] = Disabled], i)
    BY <1>3 DEF EndOfImage, FillFails
  <2> QED
    BY <2>1, DisabledBlock, ReplaceKeepsOwn
<1>4. CASE FillBlock
  <2>1. PICK i \in Retiring, block \in Block :
          /\ Right(block) /\ \A j \in 1 .. Num : caches[j].pos # block.pos
          /\ caches' = Reorder([caches EXCEPT ![i] = block], i)
    BY <1>4, FillBlockEffect
  <2> QED
    BY <2>1, ReplaceKeepsOwn
<1> QED
  BY <1>1, <1>2, <1>3, <1>4
     DEF Next, Work, Read, ReadAhead, SetPolicy, CacheInit, CacheOff, HitBlock, Bypass, Miss,
         MissInAdd, Complete, ServeAhead, AheadServed, Return, vars

(* With LRU a read throws out no block it has used itself while one is     *)
(* left that it has not used (get_retirng_cache(), update_cache_info()).   *)
THEOREM OwnBlocksKept == Spec => KeepsOwnBlocks
<1>1. IsoIInv /\ [Next]_vars => OwnKept
  BY StepKeepsOwn
<1> QED
  BY <1>1, IsoIInvHolds, PTL DEF Spec, KeepsOwnBlocks, OwnKept

(* What a read through the cache returns.                                  *)
LEMMA ReturnAnswers ==
    ASSUME IsoIInv, Return
    PROVE  Image!Answer
<1>1. /\ at = "return" /\ request' = None /\ request \in Request /\ request # None
      /\ answer' = [ret |-> ret, data |-> IF ret < 0 THEN <<>> ELSE SubSeq(data, 1, ret)]
      /\ data \in [1 .. request.len -> Int \cup {None}]
  BY RequestNotNone DEF Return, IsoIInv, Reading
<1>2. CASE ret = -1
  BY <1>1, <1>2 DEF Image!Answer
<1>3. CASE /\ ret = Image!Available(request.pos, request.len)
           /\ Delivered(ret)
  <2>1. ret \in 0 .. request.len /\ request.pos \in Nat /\ request.len \in Nat
    BY <1>1, <1>3, Numbers DEF Request, Image!Available, Image!Least
  <2>2. \A k \in 1 .. ret : data[k] = request.pos + k - 1 /\ data[k] \in Int
    BY <1>3, <2>1 DEF Delivered
  <2>3. /\ SubSeq(data, 1, ret) \in Seq(Int)
        /\ Len(SubSeq(data, 1, ret)) = ret
        /\ \A k \in 1 .. ret : SubSeq(data, 1, ret)[k] = data[k]
    <3>1. /\ SubSeq(data, 1, ret) \in Seq(Int)
          /\ Len(SubSeq(data, 1, ret)) = IF 1 <= ret THEN ret - 1 + 1 ELSE 0
          /\ \A k \in 1 .. ret - 1 + 1 : SubSeq(data, 1, ret)[k] = data[1 + k - 1]
      <4>1. 1 \in Int /\ ret \in Int
        BY <2>1
      <4> QED
        BY <4>1, <2>2, SubSeqProperties
    <3> QED
      BY <3>1, <2>1
  <2>4. Image!Cells(request.pos, ret) \in Seq(Int) /\ Len(Image!Cells(request.pos, ret)) = ret
    <3>1. Image!Cells(request.pos, ret) \in [1 .. ret -> Int] /\ ret \in Nat
      BY <2>1 DEF Image!Cells
    <3> QED
      BY <3>1, FunctionIsSeq
  <2>5. \A k \in 1 .. ret : SubSeq(data, 1, ret)[k] = Image!Cells(request.pos, ret)[k]
    BY <2>2, <2>3 DEF Image!Cells
  <2>6. SubSeq(data, 1, ret) = Image!Cells(request.pos, ret)
    BY <2>3, <2>4, <2>5, SeqEqual
  <2>7. ~ (ret < 0)
    BY <2>1
  <2> QED
    BY <1>1, <1>3, <2>6, <2>7 DEF Image!Answer
<1> QED
  BY <1>1, <1>2, <1>3 DEF IsoIInv, Answered

(* Every step of the cache is a step of the image or a stutter.            *)
LEMMA ImageStep ==
    ASSUME IsoIInv, [Next]_vars
    PROVE  [Image!Next]_(Image!vars)
<1>1. CASE UNCHANGED readVars
  BY <1>1 DEF readVars, Image!vars
<1>2. ASSUME NEW pos \in 0 .. Size, NEW len \in 1 .. MaxRead, Read(pos, len) PROVE Image!Next
  BY <1>2 DEF Read, Image!Next
<1>3. CASE Bypass
  BY <1>3 DEF Bypass, Image!Next
<1>4. CASE Return
  BY <1>4, ReturnAnswers DEF Image!Next
<1> QED
  BY <1>1, <1>2, <1>3, <1>4
     DEF Next, Work, ReadAhead, SetPolicy, CacheInit, CacheOff, HitBlock, Miss, MissInAdd,
         FillBlock, EndOfImage, FillFails, Complete, ServeAhead, AheadServed, vars

(* A read through the cache gives what the image holds, or fails           *)
(* (iso_cache_read()).                                                     *)
THEOREM PlainImageRefined == Spec => ImplementsPlainImage
<1>1. Init => Image!Init
  BY DEF Init
<1>2. IsoIInv /\ [Next]_vars => [Image!Next]_(Image!vars)
  BY ImageStep
<1> QED
  BY <1>1, <1>2, IsoIInvHolds, PTL DEF Spec, ImplementsPlainImage, Image!Spec

=============================================================================
