----------------------------- MODULE WorldProof -----------------------------
(***************************************************************************)
(* Proofs about World, for any number of threads and any length of the     *)
(* list: the inductive invariant behind pauseWorld()/resumeWorld(), the    *)
(* guarantee for threads the game suspended itself, and the refinement of  *)
(* WorldAbs.  All of them assume that the kernel lists its own threads     *)
(* first (KernelListedFirst).                                              *)
(***************************************************************************)
EXTENDS World, FiniteSetTheorems, TLAPS

(* TypeOK alone is not inductive: that the list and the count stay right   *)
(* rests on the game standing still while one of its threads is held.      *)
WorldIInv ==
    /\ TypeOK
    /\ HeldAreSuspended
    /\ HeldMeansStill
    /\ CountExact
    /\ AllOrNothing
    /\ ListedAreHeld

Ready == {t \in User : status[t] = "ready"}

(* A call of pauseWorld() suspends every thread of the game that can run   *)
(* and rebuilds the list from those that are not suspended.                *)
LEMMA PauseEffect ==
    ASSUME KernelListedFirst, TypeOK, NEW l \in Listings
    PROVE  LET n == Cardinality(Alive) IN
           /\ n \in 0 .. MaxThreads
           /\ Filtered(l) \in [Slots -> User \cup {NoThread}]
           /\ Filtered(l)[MaxThreads] = NoThread
           /\ Victims(Filtered(l), n) = Ready
           /\ {Filtered(l)[i] : i \in 0 .. n - 1} \ {NoThread}
                  = {t \in User \cap Alive : status[t] # "suspended"}
<1> DEFINE n == Cardinality(Alive)
<1> USE ThreadAssumption, MaxAssumption
<1>1. n \in Nat /\ n <= MaxThreads
  <2>1. Alive \subseteq Thread
    BY DEF Alive
  <2>2. IsFiniteSet(Alive) /\ Cardinality(Alive) <= Cardinality(Thread)
    BY <2>1, FS_Subset
  <2>3. Cardinality(Alive) \in Nat /\ Cardinality(Thread) \in Nat
    BY <2>2, FS_CardinalityType
  <2> QED
    BY <2>2, <2>3
<1>2. /\ DOMAIN l = 0 .. n - 1
      /\ \A i \in 0 .. n - 1 : l[i] \in Alive
      /\ \A t \in Alive : \E i \in 0 .. n - 1 : l[i] = t
      /\ 0 \in 0 .. n - 1 => l[0] \in First
  BY DEF Listings
<1> HIDE DEF n
<1>3. \A i \in Slots : Filtered(l)[i] = IF i \in 0 .. n - 1
                                      THEN IF Eligible(l[i]) THEN l[i] ELSE NoThread
                                      ELSE g_threads[i]
  BY <1>2 DEF Filtered
<1>4. Filtered(l) \in [Slots -> User \cup {NoThread}]
  BY <1>2 DEF Filtered, Eligible, TypeOK
<1>5. Filtered(l)[MaxThreads] = NoThread
  BY <1>1, <1>3 DEF Slots, TypeOK
<1>6. Victims(Filtered(l), n) = Ready
  <2>1. \A t \in Victims(Filtered(l), n) : t \in Ready
    BY <1>1, <1>4 DEF Victims, Ready, Slots
  <2>2. ASSUME NEW t \in Ready
        PROVE  t \in Victims(Filtered(l), n)
    <3>1. t \in Alive /\ t \in User /\ status[t] = "ready" /\ t \in Thread
      BY <2>2 DEF Alive, Ready
    <3>2. PICK i \in 0 .. n - 1 : l[i] = t
      BY <1>2, <3>1
    <3>3. i # 0
      BY <1>2, <3>1, <3>2 DEF KernelListedFirst
    <3>4. i \in 1 .. n /\ i \in Slots
      BY <1>1, <3>3 DEF Slots
    <3>5. Filtered(l)[i] = t
      BY <1>3, <3>1, <3>2, <3>4 DEF Eligible
    <3> QED
      BY <3>1, <3>4, <3>5 DEF Victims
  <2> QED
    BY <2>1, <2>2 DEF Victims
<1>7. {Filtered(l)[i] : i \in 0 .. n - 1} \ {NoThread}
          = {t \in User \cap Alive : status[t] # "suspended"}
  <2>1. \A i \in 0 .. n - 1 : i \in Slots
    BY <1>1 DEF Slots
  <2>2. ASSUME NEW i \in 0 .. n - 1, Filtered(l)[i] # NoThread
        PROVE  Filtered(l)[i] \in {t \in User \cap Alive : status[t] # "suspended"}
    BY <1>2, <1>3, <2>1, <2>2 DEF Eligible
  <2>3. ASSUME NEW t \in User \cap Alive, status[t] # "suspended"
        PROVE  \E i \in 0 .. n - 1 : Filtered(l)[i] = t /\ t # NoThread
    <3>1. PICK i \in 0 .. n - 1 : l[i] = t
      BY <1>2
    <3>2. Filtered(l)[i] = t
      BY <1>3, <2>1, <2>3, <3>1 DEF Eligible
    <3> QED
      BY <3>2
  <2> QED
    BY <2>2, <2>3
<1> QED
  BY <1>1, <1>4, <1>5, <1>6, <1>7 DEF n

LEMMA InitIInv == Init => WorldIInv
<1> SUFFICES ASSUME Init PROVE WorldIInv
  OBVIOUS
<1>1. TypeOK
  BY ThreadAssumption, MaxAssumption DEF Init, TypeOK, Slots
<1>2. CountExact
  BY FS_EmptySet DEF Init, CountExact
<1> QED
  BY <1>1, <1>2 DEF Init, WorldIInv, HeldAreSuspended, HeldMeansStill, AllOrNothing, ListedAreHeld

(* Every held thread is one of finitely many, so counting them is exact.   *)
LEMMA HeldIsFinite == ASSUME TypeOK, NEW S, S \subseteq Thread
                      PROVE  IsFiniteSet(S) /\ Cardinality(S) \in Nat
BY ThreadAssumption, FS_Subset, FS_CardinalityType

LEMMA PauseKeepsIInv ==
    ASSUME KernelListedFirst, WorldIInv, PauseWorld
    PROVE  WorldIInv'
<1> USE ThreadAssumption, MaxAssumption
<1> DEFINE n == Cardinality(Alive)
<1>0. TypeOK /\ HeldAreSuspended /\ HeldMeansStill /\ CountExact /\ AllOrNothing
  BY DEF WorldIInv
<1>1. PICK l \in Listings :
        /\ g_threads' = Filtered(l)
        /\ g_thread_count' = n
        /\ status' = [t \in Thread |-> IF t \in Victims(Filtered(l), n)
                                       THEN "suspended" ELSE status[t]]
        /\ g_suspended_count' = g_suspended_count + Cardinality(Victims(Filtered(l), n))
        /\ frozen' = frozen \cup Victims(Filtered(l), n)
  BY DEF PauseWorld, ListCount
<1>2. /\ n \in 0 .. MaxThreads
      /\ Filtered(l) \in [Slots -> User \cup {NoThread}]
      /\ Filtered(l)[MaxThreads] = NoThread
      /\ Victims(Filtered(l), n) = Ready
      /\ {Filtered(l)[i] : i \in 0 .. n - 1} \ {NoThread}
             = {t \in User \cap Alive : status[t] # "suspended"}
  BY <1>0, PauseEffect
<1> HIDE DEF n
<1>3. /\ status' = [t \in Thread |-> IF t \in Ready THEN "suspended" ELSE status[t]]
      /\ g_suspended_count' = g_suspended_count + Cardinality(Ready)
      /\ frozen' = frozen \cup Ready
      /\ Listed' = {t \in User \cap Alive : status[t] # "suspended"}
  BY <1>1, <1>2 DEF Listed
<1>4. Ready \subseteq Thread /\ IsFiniteSet(Ready) /\ Cardinality(Ready) \in Nat
  BY <1>0, HeldIsFinite DEF Ready
<1>5. IsFiniteSet(frozen) /\ Cardinality(frozen) \in Nat /\ frozen \cap Ready = {}
  BY <1>0, HeldIsFinite DEF TypeOK, HeldAreSuspended, Ready
<1>6. TypeOK'
  BY <1>0, <1>1, <1>2, <1>3, <1>4 DEF TypeOK, Status
<1>7. HeldAreSuspended'
  BY <1>0, <1>3, <1>4 DEF HeldAreSuspended, Ready, TypeOK
<1>8. HeldMeansStill'
  BY <1>0, <1>3 DEF HeldMeansStill, Ready, TypeOK
<1>9. CountExact'
  <2>1. Cardinality(frozen \cup Ready) = Cardinality(frozen) + Cardinality(Ready)
    BY <1>4, <1>5, FS_Union, FS_EmptySet
  <2> QED
    BY <1>0, <1>3, <2>1 DEF CountExact
<1>10. AllOrNothing' /\ ListedAreHeld'
  <2>1. CASE frozen = {}
    BY <1>3, <2>1 DEF AllOrNothing, ListedAreHeld, Ready, Alive
  <2>2. CASE frozen # {}
    <3>1. Ready = {}
      BY <1>0, <2>2 DEF HeldMeansStill, Ready
    <3> QED
      BY <1>0, <1>3, <3>1 DEF AllOrNothing, ListedAreHeld, HeldAreSuspended, TypeOK
  <2> QED
    BY <2>1, <2>2
<1> QED
  BY <1>6, <1>7, <1>8, <1>9, <1>10 DEF WorldIInv

(* A RESUME_WORLD that does anything at all wakes exactly the held         *)
(* threads, or none.                                                       *)
LEMMA ResumeEffect ==
    ASSUME WorldIInv, ResumeWorld
    PROVE  /\ frozen # {}
           /\ \/ frozen \subseteq Listed /\ Woken = frozen
              \/ frozen \cap Listed = {} /\ Woken = {}
<1>1. frozen # {}
  BY FS_EmptySet DEF WorldIInv, CountExact, ResumeWorld
<1>2. Woken = Listed \cap frozen
  BY <1>1 DEF WorldIInv, Woken, ListedAreHeld, HeldAreSuspended
<1> QED
  BY <1>1, <1>2 DEF WorldIInv, AllOrNothing

LEMMA ResumeKeepsIInv ==
    ASSUME WorldIInv, ResumeWorld
    PROVE  WorldIInv'
<1> USE ThreadAssumption, MaxAssumption
<1>0. TypeOK /\ HeldAreSuspended /\ HeldMeansStill /\ CountExact /\ AllOrNothing /\ ListedAreHeld
  BY DEF WorldIInv
<1>1. CASE frozen \subseteq Listed /\ Woken = frozen
  <2>1. frozen' = {} /\ g_suspended_count' = 0
    BY <1>0, <1>1, HeldIsFinite DEF ResumeWorld, CountExact, TypeOK
  <2>2. TypeOK'
    BY <1>0, <2>1 DEF TypeOK, ResumeWorld, Status
  <2> QED
    BY <2>1, <2>2, FS_EmptySet DEF WorldIInv, HeldAreSuspended, HeldMeansStill, CountExact,
                                   AllOrNothing, ListedAreHeld
<1>2. CASE frozen \cap Listed = {} /\ Woken = {}
  <2>1. frozen' = frozen /\ g_suspended_count' = g_suspended_count /\ Listed' = Listed
    BY <1>0, <1>2, FS_EmptySet DEF ResumeWorld, TypeOK, Listed
  <2>2. status' = status
    BY <1>0, <1>2 DEF ResumeWorld, TypeOK
  <2>3. UNCHANGED <<g_threads, g_thread_count>>
    BY DEF ResumeWorld
  <2> QED
    BY <1>0, <2>1, <2>2, <2>3 DEF WorldIInv, TypeOK, HeldAreSuspended, HeldMeansStill, CountExact,
                                  AllOrNothing, ListedAreHeld
<1> QED
  BY <1>1, <1>2, ResumeEffect

(* The game moves only when nothing is held.                               *)
LEMMA GameMovesFree ==
    ASSUME WorldIInv, Game
    PROVE  /\ frozen = {} /\ frozen' = {}
           /\ status' \in [Thread -> Status]
           /\ UNCHANGED <<g_threads, g_thread_count, g_suspended_count>>
<1>1. PICK a \in User, t \in User, from \in SUBSET Status, to \in Status : GameStep(a, t, from, to)
  <2>1. {"none"} \in SUBSET Status /\ {"dormant"} \in SUBSET Status /\ {"ready"} \in SUBSET Status
        /\ {"suspended"} \in SUBSET Status /\ {"ready", "suspended"} \in SUBSET Status
    BY DEF Status
  <2>2. "none" \in Status /\ "dormant" \in Status /\ "ready" \in Status /\ "suspended" \in Status
    BY DEF Status
  <2> QED
    BY <2>1, <2>2 DEF Game, CreateThread, StartThread, SuspendThread, ResumeThread, ExitThread, DeleteThread
<1>2. frozen = {}
  BY <1>1 DEF GameStep, WorldIInv, HeldMeansStill
<1> QED
  BY <1>1, <1>2 DEF GameStep, WorldIInv, TypeOK

LEMMA GameKeepsIInv ==
    ASSUME WorldIInv, Game
    PROVE  WorldIInv'
BY GameMovesFree DEF WorldIInv, TypeOK, HeldAreSuspended, HeldMeansStill, CountExact, AllOrNothing,
                     ListedAreHeld, Listed

LEMMA StutterKeepsIInv ==
    ASSUME WorldIInv, UNCHANGED vars
    PROVE  WorldIInv'
BY DEF WorldIInv, TypeOK, HeldAreSuspended, HeldMeansStill, CountExact, AllOrNothing, ListedAreHeld,
       Listed, vars

LEMMA StepKeepsIInv ==
    ASSUME KernelListedFirst, WorldIInv, [Next]_vars
    PROVE  WorldIInv'
BY PauseKeepsIInv, ResumeKeepsIInv, GameKeepsIInv, StutterKeepsIInv DEF Next
-----------------------------------------------------------------------------
(* The invariant of pauseWorld()/resumeWorld() holds whatever order the    *)
(* commands arrive in and however often they are repeated.                 *)
THEOREM WorldInvariant ==
    ASSUME KernelListedFirst
    PROVE  Spec => []WorldIInv
<1>1. Init => WorldIInv
  BY InitIInv
<1>2. WorldIInv /\ [Next]_vars => WorldIInv'
  BY StepKeepsIInv
<1> QED
  BY <1>1, <1>2, PTL DEF Spec

(* Every variable has its type: the list and the word behind it hold       *)
(* threads of the game or nothing, its length is within the array.         *)
THEOREM WorldTypes ==
    ASSUME KernelListedFirst
    PROVE  Spec => []TypeOK
<1>1. WorldIInv => TypeOK
  BY DEF WorldIInv
<1> QED
  BY <1>1, WorldInvariant, PTL

(* While pauseWorld() holds a thread, nothing of the game can run.         *)
THEOREM HeldStaysStill ==
    ASSUME KernelListedFirst
    PROVE  Spec => []HeldMeansStill
<1>1. WorldIInv => HeldMeansStill
  BY DEF WorldIInv
<1> QED
  BY <1>1, WorldInvariant, PTL

(* While a game is paused, every suspended thread of the list is one that  *)
(* pauseWorld() suspended: what resumeWorld() finds there is its own.      *)
THEOREM ListIsHeld ==
    ASSUME KernelListedFirst
    PROVE  Spec => []ListedAreHeld
<1>1. WorldIInv => ListedAreHeld
  BY DEF WorldIInv
<1> QED
  BY <1>1, WorldInvariant, PTL

(* The counter that decides whether resumeWorld() acts is the number of    *)
(* held threads.                                                           *)
THEOREM CountIsExact ==
    ASSUME KernelListedFirst
    PROVE  Spec => []CountExact
<1>1. WorldIInv => CountExact
  BY DEF WorldIInv
<1> QED
  BY <1>1, WorldInvariant, PTL

(* RESUME_WORLD releases every held thread or none.                        *)
THEOREM HeldAllOrNothing ==
    ASSUME KernelListedFirst
    PROVE  Spec => []AllOrNothing
<1>1. WorldIInv => AllOrNothing
  BY DEF WorldIInv
<1> QED
  BY <1>1, WorldInvariant, PTL

(* RESUME_WORLD wakes no thread the game had suspended itself.             *)
THEOREM GameSuspensionIsKept ==
    ASSUME KernelListedFirst
    PROVE  Spec => GameSuspensionKept
<1>1. ASSUME WorldIInv, [Next]_vars
      PROVE  [ResumeWorld => \A t \in User : status[t] = "suspended" /\ t \notin frozen
                                           => status'[t] = "suspended"]_vars
  <2> SUFFICES ASSUME ResumeWorld, NEW t \in User, status[t] = "suspended", t \notin frozen
               PROVE  status'[t] = "suspended"
    OBVIOUS
  <2>1. t \notin Woken
    BY ResumeEffect, <1>1
  <2> QED
    BY <2>1, ThreadAssumption DEF ResumeWorld
<1> QED
  BY <1>1, WorldInvariant, PTL DEF Spec, GameSuspensionKept

(* pauseWorld() and resumeWorld() implement the three-state view the Vita  *)
(* side may rely on: in particular a doubled PAUSE_WORLD is never undone.  *)
THEOREM WorldRefinement ==
    ASSUME KernelListedFirst
    PROVE  Spec => ImplementsWorldAbs
<1>1. Init => Abs!Init
  BY DEF Init, Abs!Init, world
<1>2. ASSUME WorldIInv, [Next]_vars
      PROVE  [Abs!Next]_world
  <2> USE DEF Abs!Next, Abs!Pause, Abs!Resume
  <2>1. CASE PauseWorld
    <3>1. PICK l \in Listings : frozen' = frozen \cup Victims(Filtered(l), Cardinality(Alive))
                             /\ g_threads' = Filtered(l) /\ g_thread_count' = Cardinality(Alive)
      BY <2>1 DEF PauseWorld, ListCount
    <3>2. frozen' = frozen \cup Ready
          /\ Listed' = {t \in User \cap Alive : status[t] # "suspended"}
      BY <1>2, <3>1, PauseEffect DEF WorldIInv, Listed
    <3>3. CASE frozen = {}
      <4>1. frozen' \subseteq Listed'
        BY <3>2, <3>3, ThreadAssumption DEF Ready, Alive
      <4> QED
        BY <3>3, <4>1 DEF world
    <3>4. CASE frozen # {}
      <4>1. Ready = {}
        BY <1>2, <3>4 DEF WorldIInv, HeldMeansStill, Ready
      <4>2. frozen' = frozen /\ frozen' \cap Listed' = {}
        BY <1>2, <3>2, <4>1 DEF WorldIInv, HeldAreSuspended
      <4>3. world # "running" /\ world' = "stranded"
        BY <3>4, <4>2 DEF world
      <4> QED
        BY <4>3
    <3> QED
      BY <3>3, <3>4
  <2>2. CASE ResumeWorld
    <3>1. frozen # {}
      BY <1>2, <2>2, ResumeEffect
    <3>2. CASE frozen \subseteq Listed /\ Woken = frozen
      <4>1. frozen' = {}
        BY <2>2, <3>2 DEF ResumeWorld
      <4> QED
        BY <3>1, <3>2, <4>1 DEF world
    <3>3. CASE frozen \cap Listed = {} /\ Woken = {}
      <4>1. frozen' = frozen /\ Listed' = Listed
        BY <2>2, <3>3 DEF ResumeWorld, Listed
      <4> QED
        BY <3>1, <3>3, <4>1 DEF world
    <3> QED
      BY <1>2, <2>2, <3>2, <3>3, ResumeEffect
  <2>3. CASE Game
    BY <1>2, <2>3, GameMovesFree DEF world
  <2>4. CASE UNCHANGED vars
    BY <2>4 DEF world, Listed, vars
  <2> QED
    BY <1>2, <2>1, <2>2, <2>3, <2>4 DEF Next
<1> QED
  BY <1>1, <1>2, WorldInvariant, PTL DEF Spec, Abs!Spec, ImplementsWorldAbs
=============================================================================
