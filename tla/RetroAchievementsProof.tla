----------------------- MODULE RetroAchievementsProof -----------------------
(***************************************************************************)
(* Proofs about RetroAchievements, for any number of pollers, titles,      *)
(* programs, logins and failures.                                          *)
(***************************************************************************)
EXTENDS RetroAchievements, TLAPS

Asking == {"fetching", "starting session"}
InFlight == Asking \cup {"placard"}

(* A thread works on an image that is listed; a poller that closes a game  *)
(* has forgotten it, and one that was not started has done nothing.        *)
Working ==
    /\ \A l \in Loader : pc[l] \in InFlight \cup {"opening", "hashing"} => seen[l] \in Listed
    /\ \A p \in Poller : pc[p] = "closing" => last[p] = None
    /\ \A p \in Poller \ started : pc[p] = "idle" /\ last[p] = None

(* The client while a login is under way: nobody asks the server, and only *)
(* the draw thread changes who is logged in.                               *)
LoginInOrder ==
    /\ user = "no client" =>
        game = None /\ load = NoLoad /\ \A p \in Poller : pc[p] # "hashing"
    /\ user # "logged in" => \A l \in Loader : pc[l] \notin InFlight
    /\ pc[Draw] = "starting" => user = "no client"
    /\ pc[Draw] = "created" => user = "none" /\ load = NoLoad
    /\ pc[Draw] = "logging in" <=> user = "requested"
    /\ user = "logged in" /\ pc[Draw] = "idle" => started # {}

(* A load in progress waits for the login, or is in the thread that asks   *)
(* for it.                                                                 *)
LoadRuns ==
    load # NoLoad =>
        \/ user = "requested"
        \/ pc[load.by] \in Asking /\ seen[load.by] = load.title

(* Behind a program that is not listed nobody loads.                       *)
UnlistedAlone ==
    titleid \in Title \ Listed =>
        /\ game = None /\ load = NoLoad
        /\ \A p \in started : pc[p] = "idle"

(* When the last poller has noticed the XMB, nothing is loaded.            *)
XmbClean == XmbNoticed => game = None /\ load = NoLoad

(* A poller is at a title when that is, or will be when its load returns,  *)
(* the last one it has seen.                                               *)
At(p, t) ==
    \/ pc[p] = "idle" /\ last[p] = t
    \/ pc[p] \in InFlight /\ seen[p] = t

(* When all pollers are at one title, whatever runs, that game is loaded.  *)
AllFollow ==
    user = "logged in" /\ failures = 0 /\ pc[Draw] = "idle" /\ load = NoLoad =>
        \A t \in Title \cup {None} :
            (\A p \in started : At(p, t)) => game = IF t \in Listed THEN t ELSE None

RAIInv ==
    /\ TypeOK /\ Working /\ LoginInOrder /\ LoadRuns
    /\ UnlistedAlone /\ XmbClean /\ AllFollow

-----------------------------------------------------------------------------
(* What the actions do to the thread that takes them, and that they leave  *)
(* the others alone.                                                       *)
LEMMA MovesEffect ==
    ASSUME TypeOK, NEW l \in Loader, NEW from, NEW to, Moves(l, from, to)
    PROVE  /\ pc[l] = from /\ pc'[l] = to
           /\ \A k \in Loader \ {l} : pc'[k] = pc[k]
BY DEF TypeOK, Moves

LEMMA ReturnEffect ==
    ASSUME TypeOK, NEW l \in Loader, NEW from, Return(l, from)
    PROVE  /\ pc[l] = from
           /\ l = Draw => pc'[l] = "logged in" /\ last' = last
           /\ l \in Poller => pc'[l] = "idle" /\ last'[l] = seen[l]
           /\ \A k \in Loader \ {l} : pc'[k] = pc[k] /\ seen'[k] = seen[k]
           /\ \A p \in Poller \ {l} : last'[p] = last[p]
BY RAAssumption DEF TypeOK, Return, Moves, Loader

-----------------------------------------------------------------------------
(* Types.                                                                  *)
Places == {"idle", "opening", "closing", "hashing", "fetching", "starting session", "placard",
           "starting", "created", "logging in", "logged in", "scanning"}

LEMMA MovesType ==
    ASSUME TypeOK, NEW l \in Loader, NEW from, NEW to \in Places, Moves(l, from, to)
    PROVE  pc' \in [Loader -> Places]
BY DEF TypeOK, Moves, Places

LEMMA ReturnType ==
    ASSUME TypeOK, NEW l \in Loader, NEW from, Return(l, from)
    PROVE  /\ pc' \in [Loader -> Places]
           /\ seen' \in [Loader -> Title \cup {None}]
           /\ last' \in [Poller -> Title \cup {None}]
BY RAAssumption DEF TypeOK, Return, Moves, Places, Loader

LEMMA FailsType == ASSUME TypeOK, Fails PROVE failures' \in 0 .. MaxFailures
<1>1. MaxFailures \in Nat
  BY RAAssumption
<1>2. failures \in 0 .. MaxFailures
  BY DEF TypeOK
<1> QED
  BY <1>1, <1>2 DEF Fails

(* A request that failed is counted.                                       *)
LEMMA FailsCounts == ASSUME TypeOK, Fails PROVE failures' # 0
<1>1. MaxFailures \in Nat
  BY RAAssumption
<1>2. failures \in 0 .. MaxFailures
  BY DEF TypeOK
<1> QED
  BY <1>1, <1>2 DEF Fails

(* The load of a thread that was not cancelled.                            *)
LEMMA OwnLoad ==
    ASSUME TypeOK, NEW l \in Loader, ~ Cancelled(l)
    PROVE  load # NoLoad /\ load.title \in Listed /\ load.by = l
<1>1. NoLoad.by = None
  BY DEF NoLoad
<1>2. load # NoLoad
  BY <1>1, RAAssumption DEF Cancelled, Loader
<1>3. load \in [by : Loader, title : Listed]
  BY <1>2 DEF TypeOK
<1> QED
  BY <1>2, <1>3 DEF Cancelled

LEMMA PollTypes ==
    ASSUME TypeOK, NEW p \in Poller, Poll(p) \/ UnloadClosed(p) \/ BeginLoad(p)
    PROVE  TypeOK'
<1>1. p \in Loader
  BY DEF Loader
<1>2. CASE Poll(p) /\ Close(p)
  BY <1>1, <1>2, MovesType DEF Poll, Close, TypeOK, Places
<1>3. CASE Poll(p) /\ Open(p)
  BY <1>1, <1>3, MovesType DEF Poll, Open, TypeOK, Places
<1>4. CASE Poll(p) /\ Ignore(p)
  BY <1>4 DEF Poll, Ignore, TypeOK
<1>5. CASE UnloadClosed(p)
  BY <1>1, <1>5, MovesType DEF UnloadClosed, Unload, TypeOK, Places
<1>6. CASE BeginLoad(p)
  BY <1>1, <1>6, MovesType, ReturnType DEF BeginLoad, TypeOK, Places
<1> QED
  BY <1>2, <1>3, <1>4, <1>5, <1>6 DEF Poll

LEMMA AttachTypes ==
    ASSUME TypeOK, Working, NEW p \in Poller, Attach(p)
    PROVE  TypeOK'
<1>1. p \in Loader
  BY DEF Loader
<1>2. pc[p] = "hashing" => seen[p] \in Listed
  BY <1>1 DEF Working
<1>3. CASE GiveUp(p) \/ AttachNoLogin(p)
  BY <1>1, <1>3, ReturnType DEF Attach, GiveUp, AttachNoLogin, TypeOK, Places
<1>7. CASE HashFails(p)
  BY <1>1, <1>7, ReturnType, FailsType DEF Attach, HashFails, TypeOK, Places
<1>4. CASE AttachUnknown(p)
  BY <1>1, <1>2, <1>4, ReturnType, ReturnEffect DEF Attach, AttachUnknown, TypeOK, Places
<1>5. CASE AttachAwaitLogin(p)
  BY <1>1, <1>2, <1>5, ReturnType, ReturnEffect DEF Attach, AttachAwaitLogin, TypeOK, Places
<1>6. CASE AttachFetch(p)
  BY <1>1, <1>2, <1>6, MovesType, MovesEffect DEF Attach, AttachFetch, TypeOK, Places
<1> QED
  BY <1>3, <1>4, <1>5, <1>6, <1>7 DEF Attach

LEMMA AnswerTypes ==
    ASSUME TypeOK, Working, NEW l \in Loader, Answer(l) \/ ShowPlacard(l)
    PROVE  TypeOK'
<1>1. pc[l] = "fetching" => seen[l] \in Listed
  BY DEF Working, InFlight, Asking
<1>2. CASE LoadCancelled(l) \/ ShowPlacard(l)
  BY <1>2, ReturnType DEF LoadCancelled, ShowPlacard, TypeOK, Places
<1>6. CASE LoadError(l)
  BY <1>6, ReturnType, FailsType DEF LoadError, TypeOK, Places
<1>3. CASE GameUnknown(l)
  BY <1>1, <1>3, ReturnType, ReturnEffect DEF GameUnknown, TypeOK, Places
<1>4. CASE GameIdentified(l)
  BY <1>4, MovesType DEF GameIdentified, TypeOK, Places
<1>5. CASE ActivateGame(l)
  <2>1. load.title \in Listed
    BY <1>5, OwnLoad DEF ActivateGame
  <2> QED
    BY <1>5, <2>1, MovesType DEF ActivateGame, TypeOK, Places
<1> QED
  BY <1>2, <1>3, <1>4, <1>5, <1>6 DEF Answer

LEMMA PcTypes ==
    ASSUME TypeOK, NEW l \in Loader, NEW to \in Places
    PROVE  [pc EXCEPT ![l] = to] \in [Loader -> Places]
BY DEF TypeOK, Places

LEMMA LoginTypes ==
    ASSUME TypeOK, LogIn \/ DrawStep, ~ Answer(Draw), ~ ShowPlacard(Draw)
    PROVE  TypeOK'
<1>1. Draw \in Loader
  BY DEF Loader
<1>2. CASE LogIn \/ InitializeClient \/ BeginLogin \/ NoCredentials \/ ScanImages
  BY <1>1, <1>2, PcTypes
  DEF LogIn, InitializeClient, BeginLogin, NoCredentials, ScanImages, Destroy, Moves, TypeOK, Places
<1>3. CASE LoginSucceeds
  <2>1. UNCHANGED <<titleid, game, unknown, last, started, programs, failures>>
        /\ user' = "logged in"
    BY <1>3 DEF LoginSucceeds
  <2>2. CASE load = NoLoad
    <3>1. pc' = [pc EXCEPT ![Draw] = "logged in"] /\ UNCHANGED <<load, seen>>
      BY <1>3, <2>2 DEF LoginSucceeds, Moves
    <3> QED
      BY <1>1, <2>1, <3>1, PcTypes DEF TypeOK, Places
  <2>3. CASE load # NoLoad
    <3>1. load \in [by : Loader, title : Listed]
      BY <2>3 DEF TypeOK
    <3>2. /\ pc' = [pc EXCEPT ![Draw] = "fetching"]
          /\ load' = [by |-> Draw, title |-> load.title]
          /\ seen' = [seen EXCEPT ![Draw] = load.title]
      BY <1>3, <2>3 DEF LoginSucceeds, Moves
    <3>3. load' \in [by : Loader, title : Listed]
      BY <1>1, <3>1, <3>2
    <3>4. seen' \in [Loader -> Title \cup {None}]
      BY <1>1, <3>1, <3>2, RAAssumption DEF TypeOK
    <3> QED
      BY <1>1, <2>1, <3>2, <3>3, <3>4, PcTypes DEF TypeOK, Places
  <2> QED
    BY <2>2, <2>3
<1>5. CASE LoginFails
  BY <1>1, <1>5, PcTypes, FailsType DEF LoginFails, Moves, TypeOK, Places
<1>6. CASE StartPolling
  BY <1>1, <1>6, PcTypes DEF StartPolling, Moves, TypeOK, Places
<1> QED
  BY <1>2, <1>3, <1>5, <1>6 DEF DrawStep

-----------------------------------------------------------------------------
(* A poller that wakes up.                                                 *)
LEMMA PollKeeps ==
    ASSUME RAIInv, NEW p \in Poller, Poll(p)
    PROVE  RAIInv'
<1> USE DEF RAIInv
<1>1. TypeOK'
  BY PollTypes
<1>2. p \in started /\ pc[p] = "idle" /\ p \in Loader /\ p # Draw
  BY RAAssumption DEF Poll, Close, Open, Ignore, Moves, Loader
<1>3. /\ \A k \in Loader \ {p} : pc'[k] = pc[k] /\ seen'[k] = seen[k]
      /\ \A q \in Poller \ {p} : last'[q] = last[q]
      /\ UNCHANGED <<titleid, user, game, load, started, failures>>
  BY <1>2 DEF Poll, Close, Open, Ignore, Moves, TypeOK
<1>4. \/ pc'[p] = "closing" /\ titleid = None /\ last[p] # None /\ last'[p] = None
      \/ pc'[p] = "opening" /\ seen'[p] = titleid /\ titleid \in Listed
      \/ /\ pc'[p] = "idle" /\ last'[p] = titleid /\ titleid \in Title
         /\ titleid \in Listed => pc[Draw] = "scanning"
  BY <1>2 DEF Poll, Close, Open, Ignore, Moves, TypeOK
<1>5. Working'
  BY <1>2, <1>3, <1>4 DEF Working, InFlight, Asking, Loader
<1>6. LoginInOrder'
  BY <1>2, <1>3, <1>4 DEF LoginInOrder, InFlight, Asking, Loader
<1>7. LoadRuns'
  BY <1>2, <1>3, <1>4 DEF LoadRuns, Asking, TypeOK
<1>8. UnlistedAlone'
  BY <1>2, <1>3, <1>4, RAAssumption DEF UnlistedAlone, TypeOK, Loader
<1>9. XmbClean'
  <2>1. ~ (pc'[p] = "idle" /\ last'[p] = None)
    BY <1>4, RAAssumption
  <2> QED
    BY <1>2, <1>3, <2>1 DEF XmbClean, XmbNoticed
<1>10. AllFollow'
  <2> SUFFICES ASSUME (user = "logged in" /\ failures = 0 /\ pc[Draw] = "idle" /\ load = NoLoad)',
                      NEW t \in Title \cup {None}, At(p, t)'
               PROVE  game' = IF t \in Listed THEN t ELSE None
    BY <1>2, <1>3 DEF AllFollow
  <2>1. pc'[p] = "idle" /\ t = titleid /\ titleid \in Title /\ titleid \notin Listed
    BY <1>2, <1>3, <1>4 DEF At, InFlight, Asking, Loader
  <2> QED
    BY <1>3, <2>1 DEF UnlistedAlone
<1> QED
  BY <1>1, <1>5, <1>6, <1>7, <1>8, <1>9, <1>10

(* A poller at work that comes back with a title or goes on with it.       *)
LEMMA PollerActs ==
    ASSUME RAIInv, NEW p \in Poller, pc[p] # "idle",
           UNCHANGED <<titleid, user, started>>,
           \A k \in Loader \ {p} : pc'[k] = pc[k] /\ seen'[k] = seen[k],
           \A q \in Poller \ {p} : last'[q] = last[q],
           \/ pc'[p] \in InFlight \cup {"hashing"} /\ seen'[p] \in Listed
           \/ pc'[p] = "idle" /\ last'[p] \in Listed,
           pc'[p] \in InFlight => user = "logged in",
           pc'[p] = "hashing" => user # "no client",
           user = "no client" => game' = game /\ load' = load,
           user = "none" => load' \in {NoLoad, load}
    PROVE  Working' /\ LoginInOrder' /\ UnlistedAlone' /\ XmbClean'
<1> USE DEF RAIInv
<1>1. p \in started /\ p \in Loader /\ p # Draw
  BY RAAssumption DEF Working, Loader
<1>2. Working'
  BY <1>1, RAAssumption DEF Working, InFlight, Asking, Loader
<1>3. LoginInOrder'
  BY <1>1 DEF LoginInOrder, InFlight, Asking, Loader
<1>4. UnlistedAlone'
  BY <1>1 DEF UnlistedAlone
<1>5. XmbClean'
  <2>1. ~ (pc'[p] = "idle" /\ last'[p] = None)
    BY RAAssumption DEF InFlight, Asking
  <2> QED
    BY <1>1, <2>1 DEF XmbClean, XmbNoticed
<1> QED
  BY <1>2, <1>3, <1>4, <1>5

(* AllFollow, seen from a poller that acts.                                *)
LEMMA FollowsIfAt ==
    ASSUME NEW p \in started',
           ASSUME user' = "logged in", failures' = 0, pc'[Draw] = "idle", load' = NoLoad,
                  NEW t \in Title \cup {None}, At(p, t)', \A q \in started' : At(q, t)'
           PROVE  game' = IF t \in Listed THEN t ELSE None
    PROVE  AllFollow'
BY DEF AllFollow

LEMMA UnloadKeeps ==
    ASSUME RAIInv, NEW p \in Poller, UnloadClosed(p)
    PROVE  RAIInv'
<1> USE DEF RAIInv
<1>1. TypeOK'
  BY PollTypes
<1>2. p \in Loader /\ p # Draw /\ pc[p] = "closing" /\ pc'[p] = "idle" /\ p \in started
  BY RAAssumption DEF UnloadClosed, Moves, Working, Loader, TypeOK
<1>3. /\ \A k \in Loader \ {p} : pc'[k] = pc[k]
      /\ UNCHANGED <<titleid, user, seen, last, started, failures>>
  BY <1>2 DEF UnloadClosed, Moves, TypeOK
<1>4. game' = None /\ load' = NoLoad /\ last'[p] = None
  BY <1>3, <1>2 DEF UnloadClosed, Unload, LoginInOrder, Working
<1>5. Working'
  BY <1>2, <1>3, <1>4 DEF Working, InFlight, Asking, Loader
<1>6. LoginInOrder'
  BY <1>2, <1>3, <1>4 DEF LoginInOrder, InFlight, Asking, Loader
<1>7. LoadRuns' /\ UnlistedAlone' /\ XmbClean'
  BY <1>2, <1>3, <1>4 DEF LoadRuns, UnlistedAlone, XmbClean, Loader, TypeOK
<1>8. AllFollow'
  <2>1. ASSUME NEW t \in Title \cup {None}, At(p, t)' PROVE t = None
    BY <1>2, <1>4, <2>1 DEF At, InFlight, Asking
  <2> QED
    BY <1>2, <1>3, <1>4, <2>1, RAAssumption, FollowsIfAt
<1> QED
  BY <1>1, <1>5, <1>6, <1>7, <1>8

LEMMA BeginLoadKeeps ==
    ASSUME RAIInv, NEW p \in Poller, BeginLoad(p)
    PROVE  RAIInv'
<1> USE DEF RAIInv
<1>1. TypeOK'
  BY PollTypes
<1>2. p \in Loader /\ p # Draw /\ pc[p] = "opening" /\ seen[p] \in Listed /\ p \in started
  BY RAAssumption DEF BeginLoad, Return, Moves, Working, Loader
<1>3. /\ \A k \in Loader \ {p} : pc'[k] = pc[k] /\ seen'[k] = seen[k]
      /\ \A q \in Poller \ {p} : last'[q] = last[q]
      /\ UNCHANGED <<titleid, user, game, started, failures>>
      /\ load' = NoLoad
  BY <1>2, ReturnEffect, MovesEffect DEF BeginLoad, LoginInOrder
<1>4. IF user = "no client" THEN pc'[p] = "idle" /\ last'[p] \in Listed
                            ELSE pc'[p] = "hashing" /\ seen'[p] \in Listed
  <2>1. CASE user = "no client"
    BY <1>2, <2>1, ReturnEffect DEF BeginLoad
  <2>2. CASE user # "no client"
    BY <1>2, <2>2, MovesEffect DEF BeginLoad
  <2> QED
    BY <2>1, <2>2
<1>5. Working' /\ LoginInOrder' /\ UnlistedAlone' /\ XmbClean'
  <2>1. user = "no client" => load' = load
    BY <1>3 DEF LoginInOrder
  <2> QED
    BY <1>2, <1>3, <1>4, <2>1, PollerActs DEF InFlight, Asking
<1>6. LoadRuns'
  BY <1>3 DEF LoadRuns
<1>7. AllFollow'
  <2>1. user = "logged in" => \A t : ~ At(p, t)'
    BY <1>4 DEF At, InFlight, Asking
  <2> QED
    BY <1>2, <1>3, <2>1, FollowsIfAt
<1> QED
  BY <1>1, <1>5, <1>6, <1>7

LEMMA AttachKeeps ==
    ASSUME RAIInv, NEW p \in Poller, Attach(p)
    PROVE  RAIInv'
<1> USE DEF RAIInv
<1>1. TypeOK'
  BY AttachTypes
<1>2. pc[p] = "hashing"
  BY DEF Attach, GiveUp, HashFails, AttachUnknown, AttachFetch, AttachAwaitLogin,
    AttachNoLogin, Return, Moves
<1>3. p \in Loader /\ p # Draw /\ seen[p] \in Listed /\ p \in started /\ user # "no client"
  BY <1>2, RAAssumption DEF Working, LoginInOrder, Loader
<1>4. UNCHANGED <<titleid, user, unknown, started>>
  BY DEF Attach
<1>5. CASE AttachFetch(p)
  <2>1. /\ pc'[p] = "fetching" /\ seen' = seen /\ last' = last
        /\ load' = [by |-> p, title |-> seen[p]]
        /\ user = "logged in" /\ failures' = failures
        /\ \A k \in Loader \ {p} : pc'[k] = pc[k]
    BY <1>3, <1>5, MovesEffect DEF AttachFetch
  <2>2. Working' /\ LoginInOrder' /\ UnlistedAlone' /\ XmbClean'
    BY <1>2, <1>3, <1>4, <2>1, PollerActs DEF InFlight, Asking
  <2>3. LoadRuns'
    BY <2>1 DEF LoadRuns, Asking
  <2>4. load' # NoLoad
    BY <1>3, <2>1, RAAssumption DEF NoLoad
  <2> QED
    BY <1>1, <2>2, <2>3, <2>4 DEF AllFollow
<1>6. CASE ~ AttachFetch(p)
  <2>1. Return(p, "hashing")
    BY <1>6 DEF Attach, GiveUp, HashFails, AttachUnknown, AttachAwaitLogin, AttachNoLogin
  <2>2. /\ pc'[p] = "idle" /\ last'[p] = seen[p]
        /\ \A k \in Loader \ {p} : pc'[k] = pc[k] /\ seen'[k] = seen[k]
        /\ \A q \in Poller \ {p} : last'[q] = last[q]
    BY <1>3, <2>1, ReturnEffect
  <2>3. \/ load' = load
        \/ user = "requested" /\ load' = [by |-> p, title |-> seen[p]]
    BY <1>6 DEF Attach, GiveUp, HashFails, AttachUnknown, AttachAwaitLogin, AttachNoLogin
  <2>4. Working' /\ LoginInOrder' /\ UnlistedAlone' /\ XmbClean'
    BY <1>2, <1>3, <1>4, <2>2, <2>3, PollerActs DEF InFlight, Asking
  <2>5. LoadRuns'
    <3>1. load' # NoLoad /\ user # "requested" => load'.by # p
      BY <1>2, <2>3 DEF LoadRuns, Asking
    <3>2. load # NoLoad => load.by \in Loader
      BY DEF TypeOK
    <3> QED
      BY <1>4, <2>2, <2>3, <3>1, <3>2 DEF LoadRuns
  <2>6. AllFollow'
    <3>1. SUFFICES ASSUME user' = "logged in", failures' = 0, load' = NoLoad,
                          NEW t \in Title \cup {None}, At(p, t)'
                   PROVE  game' = IF t \in Listed THEN t ELSE None
      BY <1>3, <1>4, FollowsIfAt
    <3>2. t = seen[p]
      BY <2>2, <3>1 DEF At, InFlight, Asking
    <3>3. ~ HashFails(p)
      BY <3>1, FailsCounts DEF HashFails
    <3>4. AttachUnknown(p)
      BY <1>4, <1>6, <3>1, <3>3 DEF Attach, GiveUp, AttachAwaitLogin, AttachNoLogin
    <3> QED
      BY <1>3, <3>2, <3>4 DEF AttachUnknown
  <2> QED
    BY <1>1, <2>4, <2>5, <2>6
<1> QED
  BY <1>5, <1>6

-----------------------------------------------------------------------------
(* The answers of the server, in a poller.                                 *)
LEMMA AnswerKeeps ==
    ASSUME RAIInv, NEW p \in Poller, Answer(p) \/ ShowPlacard(p)
    PROVE  RAIInv'
<1> USE DEF RAIInv
<1>1. TypeOK' /\ p \in Loader /\ p # Draw
  BY AnswerTypes, RAAssumption DEF Loader
<1>2. pc[p] \in InFlight /\ UNCHANGED <<titleid, user, started>>
  BY DEF Answer, LoadCancelled, LoadError, GameUnknown, GameIdentified, ActivateGame,
    ShowPlacard, Return, Moves, InFlight, Asking
<1>3. p \in started /\ seen[p] \in Listed /\ user = "logged in"
  BY <1>1, <1>2, RAAssumption DEF Working, LoginInOrder, InFlight, Asking, Loader
<1>4. CASE GameIdentified(p)
  <2>1. /\ pc[p] = "fetching" /\ pc'[p] = "starting session"
        /\ \A k \in Loader \ {p} : pc'[k] = pc[k]
        /\ UNCHANGED <<game, load, seen, last, failures>>
    BY <1>1, <1>4, MovesEffect DEF GameIdentified
  <2>2. Working' /\ LoginInOrder' /\ UnlistedAlone' /\ XmbClean'
    BY <1>1, <1>2, <1>3, <2>1, PollerActs DEF InFlight, Asking
  <2>3. LoadRuns'
    BY <1>2, <2>1 DEF LoadRuns, Asking, TypeOK
  <2>4. load # NoLoad
    BY <1>1, <1>4, OwnLoad DEF GameIdentified
  <2> QED
    BY <1>1, <2>1, <2>2, <2>3, <2>4 DEF AllFollow
<1>5. CASE ActivateGame(p)
  <2>1. /\ pc[p] = "starting session" /\ pc'[p] = "placard"
        /\ \A k \in Loader \ {p} : pc'[k] = pc[k]
        /\ UNCHANGED <<seen, last, failures>>
        /\ load' = NoLoad
    BY <1>1, <1>5, MovesEffect DEF ActivateGame
  <2>2. game' = seen[p]
    BY <1>1, <1>3, <1>5, OwnLoad DEF ActivateGame, LoadRuns
  <2>3. Working' /\ LoginInOrder' /\ UnlistedAlone' /\ XmbClean'
    BY <1>1, <1>2, <1>3, <2>1, PollerActs DEF InFlight, Asking
  <2>4. LoadRuns'
    BY <2>1 DEF LoadRuns
  <2>5. AllFollow'
    <3>1. ASSUME NEW t \in Title \cup {None}, At(p, t)' PROVE t = seen[p]
      BY <2>1, <3>1 DEF At, InFlight, Asking
    <3> QED
      BY <1>2, <1>3, <2>2, <3>1, FollowsIfAt
  <2> QED
    BY <1>1, <2>3, <2>4, <2>5
<1>6. CASE ~ GameIdentified(p) /\ ~ ActivateGame(p)
  <2>1. /\ pc'[p] = "idle" /\ last'[p] = seen[p]
        /\ \A k \in Loader \ {p} : pc'[k] = pc[k] /\ seen'[k] = seen[k]
        /\ \A q \in Poller \ {p} : last'[q] = last[q]
    BY <1>1, <1>6, ReturnEffect DEF Answer, LoadCancelled, LoadError, GameUnknown, ShowPlacard
  <2>2. Working' /\ LoginInOrder' /\ UnlistedAlone' /\ XmbClean'
    BY <1>1, <1>2, <1>3, <2>1, PollerActs DEF InFlight, Asking
  <2>3. LoadCancelled(p) \/ ShowPlacard(p) \/ load' = NoLoad
    BY <1>6 DEF Answer, LoadError, GameUnknown
  <2>4. LoadRuns'
    <3>1. CASE load' = NoLoad
      BY <3>1 DEF LoadRuns
    <3>2. CASE LoadCancelled(p) \/ ShowPlacard(p)
      <4>1. load' = load /\ (load # NoLoad => load.by # p)
        BY <1>3, <3>2 DEF LoadCancelled, Cancelled, ShowPlacard, Return, Moves, LoadRuns, Asking
      <4>2. load # NoLoad => load.by \in Loader
        BY DEF TypeOK
      <4> QED
        BY <1>2, <2>1, <4>1, <4>2 DEF LoadRuns
    <3> QED
      BY <2>3, <3>1, <3>2
  <2>5. AllFollow'
    <3> SUFFICES ASSUME user' = "logged in", failures' = 0, pc'[Draw] = "idle", load' = NoLoad,
                        NEW t \in Title \cup {None}, At(p, t)', \A q \in started' : At(q, t)'
                 PROVE  game' = IF t \in Listed THEN t ELSE None
      BY <1>2, <1>3, FollowsIfAt
    <3>1. t = seen[p]
      BY <2>1 DEF At, InFlight, Asking
    <3>2. ~ LoadError(p)
      BY FailsCounts DEF LoadError
    <3>3. CASE GameUnknown(p)
      BY <1>3, <3>1, <3>3 DEF GameUnknown
    <3>4. CASE LoadCancelled(p) \/ ShowPlacard(p)
      <4>1. UNCHANGED <<game, load, failures>>
        BY <3>4 DEF LoadCancelled, ShowPlacard
      <4>2. \A q \in started : At(q, t)
        BY <1>1, <1>2, <2>1, <3>1 DEF At, Loader, TypeOK
      <4> QED
        BY <1>1, <1>2, <2>1, <4>1, <4>2 DEF AllFollow, Loader
    <3> QED
      BY <1>6, <3>2, <3>3, <3>4 DEF Answer
  <2> QED
    BY <1>1, <2>2, <2>4, <2>5
<1> QED
  BY <1>4, <1>5, <1>6

-----------------------------------------------------------------------------
(* The draw thread. It leaves the pollers alone, and makes a client busy   *)
(* that was not only with the load that had waited for the login.          *)
LEMMA DrawActs ==
    ASSUME RAIInv, UNCHANGED <<titleid, started, last>>,
           \A p \in Poller : pc'[p] = pc[p],
           game = None /\ load = NoLoad => game' = None /\ load' = NoLoad
    PROVE  UnlistedAlone' /\ XmbClean'
<1>1. started \subseteq Poller
  BY DEF RAIInv, TypeOK
<1>2. UnlistedAlone'
  BY <1>1 DEF RAIInv, UnlistedAlone
<1>3. XmbClean'
  BY <1>1 DEF RAIInv, XmbClean, XmbNoticed
<1> QED
  BY <1>2, <1>3

LEMMA DrawAnswerKeeps ==
    ASSUME RAIInv, Answer(Draw) \/ ShowPlacard(Draw)
    PROVE  RAIInv'
<1> USE DEF RAIInv
<1>1. Draw \in Loader /\ \A p \in Poller : p \in Loader \ {Draw}
  BY RAAssumption DEF Loader
<1>2. TypeOK'
  BY <1>1, AnswerTypes
<1>3. pc[Draw] \in InFlight /\ UNCHANGED <<titleid, user, started>>
  BY DEF Answer, LoadCancelled, LoadError, GameUnknown, GameIdentified, ActivateGame,
    ShowPlacard, Return, Moves, InFlight, Asking
<1>4. seen[Draw] \in Listed /\ user = "logged in"
  BY <1>1, <1>3 DEF Working, LoginInOrder
<1>5. /\ \/ pc'[Draw] = "logged in"
         \/ pc'[Draw] = "placard" /\ seen' = seen
         \/ pc'[Draw] = "starting session" /\ seen' = seen /\ load' = load /\ ~ Cancelled(Draw)
      /\ \A k \in Loader \ {Draw} : pc'[k] = pc[k] /\ seen'[k] = seen[k]
      /\ last' = last
  <2>1. CASE GameIdentified(Draw) \/ ActivateGame(Draw)
    BY <1>1, <2>1, MovesEffect DEF GameIdentified, ActivateGame
  <2>2. CASE LoadCancelled(Draw) \/ LoadError(Draw) \/ GameUnknown(Draw) \/ ShowPlacard(Draw)
    BY <1>1, <2>2, ReturnEffect DEF LoadCancelled, LoadError, GameUnknown, ShowPlacard
  <2> QED
    BY <2>1, <2>2 DEF Answer
<1>6. \/ load' = NoLoad /\ load # NoLoad
      \/ GameIdentified(Draw) /\ load # NoLoad
      \/ LoadCancelled(Draw) \/ ShowPlacard(Draw)
  BY <1>1, OwnLoad DEF Answer, LoadError, GameUnknown, GameIdentified, ActivateGame
<1>7. Working'
  BY <1>1, <1>3, <1>4, <1>5 DEF Working, InFlight, Asking
<1>8. LoginInOrder'
  BY <1>1, <1>3, <1>4, <1>5 DEF LoginInOrder, InFlight, Asking
<1>9. LoadRuns'
  <2>1. CASE load' = NoLoad
    BY <2>1 DEF LoadRuns
  <2>2. CASE GameIdentified(Draw)
    <3>1. pc'[Draw] = "starting session" /\ seen' = seen /\ load' = load
      BY <1>1, <2>2, MovesEffect DEF GameIdentified
    <3>2. load # NoLoad /\ load.by = Draw
      BY <1>1, <2>2, OwnLoad DEF GameIdentified
    <3> QED
      BY <1>4, <3>1, <3>2 DEF LoadRuns, Asking
  <2>3. CASE LoadCancelled(Draw) \/ ShowPlacard(Draw)
    <3>1. load' = load /\ (load # NoLoad => load.by # Draw)
      BY <1>4, <2>3 DEF LoadCancelled, Cancelled, ShowPlacard, Return, Moves, LoadRuns, Asking
    <3>2. load # NoLoad => load.by \in Loader
      BY DEF TypeOK
    <3> QED
      BY <1>3, <1>5, <3>1, <3>2 DEF LoadRuns
  <2> QED
    BY <1>6, <2>1, <2>2, <2>3
<1>10. UnlistedAlone' /\ XmbClean'
  <2>1. load = NoLoad => UNCHANGED <<game, load>>
    BY <1>6 DEF LoadCancelled, ShowPlacard
  <2> QED
    BY <1>1, <1>3, <1>5, <2>1, DrawActs
<1>11. AllFollow'
  BY <1>5 DEF AllFollow
<1> QED
  BY <1>2, <1>7, <1>8, <1>9, <1>10, <1>11

(* A login, from the click in the menu to the poller it starts.            *)
LEMMA LoginKeeps ==
    ASSUME RAIInv, LogIn \/ DrawStep, ~ Answer(Draw), ~ ShowPlacard(Draw)
    PROVE  RAIInv'
<1> USE DEF RAIInv
<1>1. Draw \in Loader /\ \A p \in Poller : p \in Loader \ {Draw}
  BY RAAssumption DEF Loader
<1>2. TypeOK'
  BY LoginTypes
<1>3. CASE LogIn \/ NoCredentials
  <2>1. /\ user' = "no client" /\ game' = None /\ load' = NoLoad
        /\ \A p \in Poller : pc[p] = "idle"
        /\ \A p \in Poller : pc'[p] = pc[p]
        /\ pc'[Draw] \in {"starting", "idle"}
        /\ UNCHANGED <<titleid, seen, last, started>>
    BY <1>1, <1>3, MovesEffect DEF LogIn, NoCredentials, Destroy, QuietLogin
  <2>2. \A l \in Loader : pc'[l] \in {"starting", "idle"}
    BY <2>1 DEF Loader
  <2>3. Working'
    BY <2>1, <2>2 DEF Working, InFlight, Asking
  <2>4. LoginInOrder'
    BY <1>1, <2>1, <2>2 DEF LoginInOrder, InFlight, Asking
  <2>5. LoadRuns' /\ AllFollow'
    BY <2>1 DEF LoadRuns, AllFollow
  <2>6. UnlistedAlone' /\ XmbClean'
    BY <2>1, DrawActs
  <2> QED
    BY <1>2, <2>3, <2>4, <2>5, <2>6
<1>4. CASE InitializeClient \/ BeginLogin
  <2>1. /\ \A p \in Poller : pc'[p] = pc[p]
        /\ UNCHANGED <<titleid, game, load, seen, last, started>>
        /\ \/ pc[Draw] = "starting" /\ pc'[Draw] = "created" /\ user' = "none"
           \/ pc[Draw] = "created" /\ pc'[Draw] = "logging in" /\ user' = "requested"
    BY <1>1, <1>4, MovesEffect DEF InitializeClient, BeginLogin
  <2>2. user \in {"no client", "none"} /\ load = NoLoad
    BY <2>1 DEF LoginInOrder
  <2>3. \A l \in Loader : pc'[l] \notin InFlight
    BY <1>1, <2>1, <2>2 DEF LoginInOrder, InFlight, Asking, Loader
  <2>4. Working'
    BY <1>1, <2>1 DEF Working, InFlight, Asking, Loader
  <2>5. LoginInOrder'
    BY <2>1, <2>2, <2>3 DEF LoginInOrder
  <2>6. LoadRuns' /\ AllFollow'
    BY <2>1, <2>2 DEF LoadRuns, AllFollow
  <2>7. UnlistedAlone' /\ XmbClean'
    BY <2>1, DrawActs
  <2> QED
    BY <1>2, <2>4, <2>5, <2>6, <2>7
<1>5. CASE LoginSucceeds \/ LoginFails
  <2>1. /\ pc[Draw] = "logging in"
        /\ \A p \in Poller : pc'[p] = pc[p] /\ seen'[p] = seen[p]
        /\ UNCHANGED <<titleid, game, last, started>>
        /\ \/ pc'[Draw] = "logged in" /\ load' = NoLoad /\ user' \in {"none", "logged in"}
           \/ /\ pc'[Draw] = "fetching" /\ user' = "logged in"
              /\ load # NoLoad /\ load' = [by |-> Draw, title |-> load.title]
              /\ seen'[Draw] = load.title
    BY <1>1, <1>5, MovesEffect DEF LoginSucceeds, LoginFails, TypeOK
  <2>2. user = "requested" /\ \A l \in Loader : pc[l] \notin InFlight
    BY <2>1 DEF LoginInOrder
  <2>3. load # NoLoad => load.title \in Listed
    BY DEF TypeOK
  <2>4. Working'
    BY <1>1, <2>1, <2>3 DEF Working, InFlight, Asking, Loader
  <2>5. LoginInOrder'
    BY <1>1, <2>1, <2>2 DEF LoginInOrder, InFlight, Asking, Loader
  <2>6. LoadRuns'
    <3>1. CASE load' = NoLoad
      BY <3>1 DEF LoadRuns
    <3>2. CASE load' = [by |-> Draw, title |-> load.title] /\ load' # NoLoad
      <4>1. load'.by = Draw /\ load'.title = load.title
        BY <3>2
      <4> QED
        BY <2>1, <3>2, <4>1 DEF LoadRuns, Asking
    <3> QED
      BY <2>1, <3>1, <3>2
  <2>7. AllFollow'
    BY <2>1 DEF AllFollow
  <2>8. UnlistedAlone' /\ XmbClean'
    BY <2>1, DrawActs
  <2> QED
    BY <1>2, <2>4, <2>5, <2>6, <2>7, <2>8
<1>6. CASE ScanImages
  <2>1. /\ pc[Draw] = "logged in" /\ pc'[Draw] = "scanning"
        /\ \A p \in Poller : pc'[p] = pc[p]
        /\ UNCHANGED <<titleid, user, game, load, seen, last, started>>
    BY <1>1, <1>6, MovesEffect DEF ScanImages
  <2>2. Working'
    BY <1>1, <2>1 DEF Working, InFlight, Asking, Loader
  <2>3. LoginInOrder'
    BY <1>1, <2>1 DEF LoginInOrder, InFlight, Asking, Loader
  <2>4. LoadRuns' /\ AllFollow'
    BY <1>1, <2>1 DEF LoadRuns, AllFollow, Asking, TypeOK, Loader
  <2>5. UnlistedAlone' /\ XmbClean'
    BY <2>1, DrawActs
  <2> QED
    BY <1>2, <2>2, <2>3, <2>4, <2>5
<1>7. CASE StartPolling
  <2>1. /\ pc[Draw] = "scanning" /\ pc'[Draw] = "idle"
        /\ \A p \in Poller : pc'[p] = pc[p]
        /\ UNCHANGED <<titleid, user, game, load, seen, last, failures>>
    BY <1>1, <1>7, MovesEffect DEF StartPolling
  <2>2. PICK p \in Poller \ started : started' = started \cup {p}
    BY <1>7 DEF StartPolling
  <2>3. pc[p] = "idle" /\ last[p] = None
    BY <2>2 DEF Working
  <2>4. Working'
    BY <1>1, <2>1, <2>2 DEF Working, InFlight, Asking, Loader
  <2>5. LoginInOrder'
    BY <1>1, <2>1, <2>2 DEF LoginInOrder, InFlight, Asking, Loader
  <2>6. LoadRuns'
    BY <1>1, <2>1 DEF LoadRuns, Asking, TypeOK, Loader
  <2>7. UnlistedAlone'
    <3>1. started' \subseteq Poller
      BY <1>2 DEF TypeOK
    <3> QED
      BY <2>1, <2>2, <2>3, <3>1 DEF UnlistedAlone
  <2>8. XmbClean'
    BY <1>1, <2>1, <2>2, <2>3 DEF XmbClean, XmbNoticed, TypeOK
  <2>9. AllFollow'
    <3> SUFFICES ASSUME NEW t \in Title \cup {None}, \A q \in started' : At(q, t)'
                 PROVE  game' = IF t \in Listed THEN t ELSE None
      BY DEF AllFollow
    <3>1. t = None /\ None \notin Listed
      BY <2>1, <2>2, <2>3, RAAssumption DEF At, InFlight, Asking
    <3>2. ASSUME NEW q \in started PROVE pc[q] = "idle" /\ last[q] = None
      <4>1. q \in Poller /\ q \in Loader
        BY DEF TypeOK, Loader
      <4>2. pc'[q] = pc[q] /\ seen'[q] = seen[q] /\ last'[q] = last[q]
        BY <2>1, <4>1
      <4>3. At(q, None)'
        BY <2>2, <3>1
      <4>4. pc[q] \in InFlight => seen[q] # None
        BY <3>1, <4>1 DEF Working
      <4> QED
        BY <4>2, <4>3, <4>4 DEF At
    <3> QED
      BY <2>1, <3>1, <3>2 DEF XmbClean, XmbNoticed
  <2> QED
    BY <1>2, <2>4, <2>5, <2>6, <2>7, <2>8, <2>9
<1> QED
  BY <1>3, <1>4, <1>5, <1>6, <1>7 DEF DrawStep

-----------------------------------------------------------------------------
(* The PSP.                                                                *)
LEMMA ProgramKeeps ==
    ASSUME RAIInv, ClearInfo \/ \E t \in Title : SetTitle(t)
    PROVE  RAIInv'
<1> USE DEF RAIInv
<1>1. UNCHANGED <<user, game, load, unknown, pc, seen, last, started, failures>>
  BY DEF ClearInfo, SetTitle
<1>2. TypeOK'
  <2>1. CASE ClearInfo
    BY <1>1, <2>1 DEF ClearInfo, TypeOK
  <2>2. ASSUME NEW t \in Title, SetTitle(t) PROVE TypeOK'
    <3>1. programs' \in 0 .. MaxPrograms
      <4>1. MaxPrograms \in Nat
        BY RAAssumption
      <4>2. programs \in 0 .. MaxPrograms
        BY DEF TypeOK
      <4> QED
        BY <2>2, <4>1, <4>2 DEF SetTitle
    <3> QED
      BY <1>1, <2>2, <3>1 DEF SetTitle, TypeOK
  <2> QED
    BY <2>1, <2>2
<1>3. Working' /\ LoginInOrder' /\ LoadRuns'
  BY <1>1 DEF Working, LoginInOrder, LoadRuns
<1>4. XmbClean'
  BY <1>1 DEF XmbClean, XmbNoticed
<1>5. AllFollow'
  BY <1>1 DEF AllFollow, At
<1>6. UnlistedAlone'
  <2>1. titleid' \in Title \ Listed => XmbNoticed
    BY RAAssumption DEF ClearInfo, SetTitle
  <2> QED
    BY <1>1, <2>1 DEF UnlistedAlone, XmbClean, XmbNoticed
<1> QED
  BY <1>2, <1>3, <1>4, <1>5, <1>6

LEMMA RAInit == Init => RAIInv
<1> SUFFICES ASSUME Init PROVE RAIInv
  OBVIOUS
<1>1. TypeOK
  <2>1. failures \in 0 .. MaxFailures /\ programs \in 0 .. MaxPrograms
    <3>1. MaxFailures \in Nat /\ MaxPrograms \in Nat
      BY RAAssumption
    <3>2. programs = 0
      BY DEF Init
    <3>3. failures = 0 \/ (failures = 1 /\ MaxFailures > 0)
      BY DEF Init
    <3> QED
      BY <3>1, <3>2, <3>3
  <2>2. started \subseteq Poller
    BY RAAssumption DEF Init
  <2> QED
    BY <2>1, <2>2 DEF Init, TypeOK
<1>2. \A l \in Loader : pc[l] = "idle"
  BY DEF Init
<1>3. Draw \in Loader /\ \A p \in Poller : p \in Loader /\ last[p] = None
  BY DEF Init, Loader
<1>4. Working /\ LoginInOrder
  BY <1>2, <1>3, RAAssumption DEF Working, LoginInOrder, InFlight, Asking, Init
<1>5. LoadRuns /\ UnlistedAlone /\ XmbClean
  BY RAAssumption DEF LoadRuns, UnlistedAlone, XmbClean, Init
<1>6. AllFollow
  <2> SUFFICES ASSUME user = "logged in",
                      NEW t \in Title \cup {None}, \A p \in started : At(p, t)
               PROVE  game = IF t \in Listed THEN t ELSE None
    BY DEF AllFollow
  <2>1. started = AtBoot /\ game = None
    BY DEF Init
  <2>2. PICK p \in started : p \in Poller
    BY <2>1, RAAssumption
  <2>3. t = None
    BY <1>2, <1>3, <2>2 DEF At, InFlight, Asking
  <2> QED
    BY <2>1, <2>3, RAAssumption
<1> QED
  BY <1>1, <1>4, <1>5, <1>6 DEF RAIInv

LEMMA RAStep == RAIInv /\ [Next]_vars => RAIInv'
<1> SUFFICES ASSUME RAIInv, [Next]_vars PROVE RAIInv'
  OBVIOUS
<1>1. CASE ClearInfo \/ \E t \in Title : SetTitle(t)
  BY <1>1, ProgramKeeps
<1>2. ASSUME NEW p \in Poller, PollerStep(p) PROVE RAIInv'
  BY <1>2, PollKeeps, UnloadKeeps, BeginLoadKeeps, AttachKeeps, AnswerKeeps DEF PollerStep
<1>3. CASE LogIn \/ DrawStep
  BY <1>3, DrawAnswerKeeps, LoginKeeps
<1>4. CASE UNCHANGED vars
  <2>1. UNCHANGED <<titleid, user, game, load, unknown, pc, seen, last, started, programs, failures>>
    BY <1>4 DEF vars
  <2>2. TypeOK' /\ Working' /\ LoginInOrder' /\ LoadRuns'
    BY <2>1 DEF RAIInv, TypeOK, Working, LoginInOrder, LoadRuns
  <2>3. UnlistedAlone' /\ XmbClean' /\ AllFollow'
    BY <2>1 DEF RAIInv, UnlistedAlone, XmbClean, XmbNoticed, AllFollow, At
  <2> QED
    BY <2>2, <2>3 DEF RAIInv
<1> QED
  BY <1>1, <1>2, <1>3, <1>4 DEF Next

(* The inductive invariant holds.                                          *)
THEOREM RAInvariant == Spec => []RAIInv
BY RAInit, RAStep, PTL DEF Spec

(* Every variable has its type: only listed titles are ever loaded, and    *)
(* the load in progress names a thread and a listed title.                 *)
THEOREM RATypes == Spec => []TypeOK
<1>1. RAIInv => TypeOK
  BY DEF RAIInv
<1> QED
  BY <1>1, RAInvariant, PTL

(* However many pollers and logins: when all is quiet and nothing failed,  *)
(* the client has the game that runs (titleid_polling_thread).             *)
THEOREM GameIsFollowed == Spec => []FollowsGame
<1>1. RAIInv => FollowsGame
  <2> SUFFICES ASSUME RAIInv, Quiet, user = "logged in", failures = 0
               PROVE  game = IF titleid \in Listed THEN titleid ELSE None
    BY DEF FollowsGame
  <2> USE DEF RAIInv
  <2>1. Draw \in Loader /\ \A p \in Poller : p \in Loader
    BY DEF Loader
  <2>2. \A l \in Loader : pc[l] = "idle"
    BY DEF Quiet
  <2>3. load = NoLoad
    <3>1. load # NoLoad => load.by \in Loader
      BY DEF TypeOK
    <3> QED
      BY <2>2, <3>1 DEF LoadRuns, Asking
  <2>4. started \subseteq Poller /\ titleid \in Title \cup {None}
    BY DEF TypeOK
  <2>5. \A p \in started : At(p, titleid)
    BY <2>1, <2>2, <2>4 DEF At, Quiet
  <2> QED
    BY <2>1, <2>2, <2>3, <2>4, <2>5 DEF AllFollow
<1> QED
  BY <1>1, RAInvariant, PTL

-----------------------------------------------------------------------------
(* While a load is in progress no game is loaded: attaching it unloaded    *)
(* the game before.                                                        *)
LoadAlone == load # NoLoad => game = None

LEMMA LoadAloneStep ==
    ASSUME TypeOK, LoadAlone, [Next]_vars
    PROVE  LoadAlone'
<1> USE DEF LoadAlone
<1>1. CASE UNCHANGED <<game, load>>
  BY <1>1
<1>2. CASE load' = NoLoad
  BY <1>2
<1>3. ASSUME NEW p \in Poller, Attach(p) PROVE LoadAlone'
  BY <1>3 DEF Attach, GiveUp, HashFails, AttachUnknown, AttachFetch, AttachAwaitLogin, AttachNoLogin
<1>4. ASSUME NEW p \in Poller, PollerStep(p), ~ Attach(p) PROVE LoadAlone'
  BY <1>1, <1>2, <1>4
  DEF PollerStep, Poll, UnloadClosed, Unload, BeginLoad, Answer, LoadCancelled, LoadError, GameUnknown,
    GameIdentified, ActivateGame, ShowPlacard
<1>5. CASE LogIn \/ DrawStep
  BY <1>1, <1>2, <1>5
  DEF LogIn, Destroy, DrawStep, InitializeClient, BeginLogin, NoCredentials, LoginSucceeds, LoginFails,
    ScanImages, StartPolling, Answer, LoadCancelled, LoadError, GameUnknown, GameIdentified,
    ActivateGame, ShowPlacard
<1> QED
  BY <1>1, <1>3, <1>4, <1>5 DEF Next, ClearInfo, SetTitle, vars

(* A game is only loaded into a client that has none, whichever load wins  *)
(* (rc_client_attach_load_state, rc_client_activate_game).                 *)
THEOREM NothingDropped == Spec => NoGameDropped
<1>1. Init => LoadAlone
  BY DEF Init, LoadAlone
<1>2. TypeOK /\ LoadAlone /\ [Next]_vars => LoadAlone'
  BY LoadAloneStep
<1>3. TypeOK /\ LoadAlone /\ [Next]_vars =>
        [game' # game /\ game' # None => game = None \/ \E p \in Poller : AttachUnknown(p)]_vars
  <2> SUFFICES ASSUME TypeOK, LoadAlone, Next, game' # game, game' # None
               PROVE  game = None \/ \E p \in Poller : AttachUnknown(p)
    BY DEF vars
  <2>1. ASSUME NEW l \in Loader, Answer(l) PROVE game = None
    <3>1. ~ Cancelled(l)
      BY <2>1 DEF Answer, LoadCancelled, LoadError, GameUnknown, GameIdentified, ActivateGame
    <3> QED
      BY <3>1, OwnLoad DEF LoadAlone
  <2>2. ASSUME NEW p \in Poller, PollerStep(p), ~ AttachUnknown(p) PROVE game = None
    <3>1. p \in Loader
      BY DEF Loader
    <3>2. ~ Attach(p)
      BY <2>2 DEF Attach, GiveUp, HashFails, AttachFetch, AttachAwaitLogin, AttachNoLogin
    <3> QED
      BY <2>1, <2>2, <3>1, <3>2
      DEF PollerStep, Poll, UnloadClosed, Unload, BeginLoad, ShowPlacard
  <2>3. CASE LogIn \/ DrawStep
    <3>1. Draw \in Loader
      BY DEF Loader
    <3> QED
      BY <2>1, <2>3, <3>1
      DEF LogIn, Destroy, DrawStep, InitializeClient, BeginLogin, NoCredentials, LoginSucceeds,
        LoginFails, ScanImages, StartPolling, ShowPlacard
  <2> QED
    BY <2>2, <2>3 DEF Next, ClearInfo, SetTitle
<1> QED
  BY <1>1, <1>2, <1>3, RATypes, PTL DEF Spec, NoGameDropped
=============================================================================
