------------------------- MODULE RetroAchievements -------------------------
(***************************************************************************)
(* Which game the RetroAchievements client has loaded. The PSP writes the  *)
(* title id of what it runs into the page shared with the Vita; threads of *)
(* the Vita poll it (titleid_polling_thread) and load and unload games in  *)
(* the one client, g_client, of the rcheevos library; the draw thread may  *)
(* destroy the client and log in with a new one. start() runs twice at     *)
(* boot and once for each later login, and starts a poller each time, which*)
(* never ends: several threads drive the client at once.                   *)
(*                                                                         *)
(* The HTTP calls of the client return after calling the callback, so a    *)
(* load runs in the thread that began it, from one network call to the     *)
(* next. Each stretch between two waits (a network call, the hash of the   *)
(* image, the reading of the title id, a pause) is one step here. The      *)
(* client is used only while it exists: see QuietLogin.                    *)
(***************************************************************************)
EXTENDS Naturals

CONSTANTS
    Title,        \* title ids of programs
    Listed,       \* those whose image the title id cache finds
    Poller,       \* the polling threads there may ever be
    AtBoot,       \* those started by module_start
    Draw,         \* the draw thread
    None,
    MaxPrograms,  \* bound: programs started in a behaviour
    MaxFailures   \* bound: loads and logins that fail

ASSUME RAAssumption ==
    /\ Listed \subseteq Title
    /\ AtBoot \subseteq Poller /\ AtBoot # {}
    /\ Draw \notin Poller /\ None \notin Title \cup Poller \cup {Draw}
    /\ {MaxPrograms, MaxFailures} \subseteq Nat

VARIABLES
    titleid,    \* adrenaline->titleid, None when empty
    user,       \* client->state.user, or "no client" when g_client is NULL
    game,       \* the title of client->game, or None
    load,       \* client->state.load: the title it loads and the thread, or NoLoad
    unknown,    \* client->hashes: titles the server is known not to know
    pc,         \* where each thread is
    seen,       \* the title id a thread works on
    last,       \* last_titleid of each poller; game_loaded is last # None
    started,    \* the pollers running
    programs,   \* bounded counts of programs
    failures    \* and of failures

vars == <<titleid, user, game, load, unknown, pc, seen, last, started, programs, failures>>

Loader == Poller \cup {Draw}
NoLoad == [by |-> None, title |-> None]

TypeOK ==
    /\ titleid \in Title \cup {None}
    /\ user \in {"no client", "none", "requested", "logged in"}
    /\ game \in Listed \cup {None}
    /\ load \in [by : Loader, title : Listed] \cup {NoLoad}
    /\ unknown \subseteq Listed
    /\ pc \in [Loader -> {"idle", "opening", "closing", "hashing", "fetching", "starting session",
                          "placard", "starting", "created", "logging in", "logged in", "scanning"}]
    /\ seen \in [Loader -> Title \cup {None}]
    /\ last \in [Poller -> Title \cup {None}]
    /\ started \subseteq Poller
    /\ programs \in 0 .. MaxPrograms
    /\ failures \in 0 .. MaxFailures

(* Either no credentials were stored and start() gave up twice, or both    *)
(* calls of start() tried to log in, the second one with the client.       *)
Init ==
    /\ titleid = None
    /\ game = None /\ load = NoLoad /\ unknown = {}
    /\ pc = [l \in Loader |-> "idle"]
    /\ seen = [l \in Loader |-> None]
    /\ last = [p \in Poller |-> None]
    /\ \/ user = "no client" /\ started = {} /\ failures = 0
       \/ user = "logged in" /\ started = AtBoot /\ failures = 0
       \/ /\ user \in {"none", "logged in"} /\ started = AtBoot
          /\ failures = 1 /\ MaxFailures > 0
    /\ programs = 0

Fails == failures < MaxFailures /\ failures' = failures + 1
Moves(l, from, to) == pc[l] = from /\ pc' = [pc EXCEPT ![l] = to]

-----------------------------------------------------------------------------
(* The PSP: a program that starts clears the page and then gives its title *)
(* id; the XMB has none.                                                   *)
ClearInfo ==
    /\ titleid # None
    /\ titleid' = None
    /\ UNCHANGED <<user, game, load, unknown, pc, seen, last, started, programs, failures>>

(* A program whose image is not listed starts after the pollers have had a *)
(* second to see the XMB; one that is may follow another at once.          *)
XmbNoticed == \A p \in started : pc[p] = "idle" /\ last[p] = None

SetTitle(t) ==
    /\ titleid = None /\ programs < MaxPrograms
    /\ t \notin Listed => XmbNoticed
    /\ titleid' = t /\ programs' = programs + 1
    /\ UNCHANGED <<user, game, load, unknown, pc, seen, last, started, failures>>

-----------------------------------------------------------------------------
(* A poller wakes up: the game was closed, or a title id is new to it. One *)
(* that is not found counts as loaded, also when it is only not found      *)
(* because a login is just filling the list of images again.               *)
Close(p) ==
    /\ titleid = None /\ last[p] # None
    /\ last' = [last EXCEPT ![p] = None]
    /\ Moves(p, "idle", "closing")
    /\ UNCHANGED seen

Open(p) ==
    /\ titleid \in Listed /\ titleid # last[p]
    /\ seen' = [seen EXCEPT ![p] = titleid]
    /\ Moves(p, "idle", "opening")
    /\ UNCHANGED last

Ignore(p) ==
    /\ pc[p] = "idle"
    /\ titleid \notin {None, last[p]}
    /\ titleid \in Listed => pc[Draw] = "scanning"
    /\ last' = [last EXCEPT ![p] = titleid]
    /\ UNCHANGED <<pc, seen>>

Poll(p) ==
    /\ p \in started
    /\ Close(p) \/ Open(p) \/ Ignore(p)
    /\ UNCHANGED <<titleid, user, game, load, unknown, started, programs, failures>>

(* Mutant: a load in progress goes on.                                     *)
UnloadOnlyGame == game' = None /\ load' = load

(* rc_client_unload_game: the load in progress, if any, is cancelled.      *)
Unload == game' = None /\ load' = NoLoad

UnloadClosed(p) ==
    /\ Moves(p, "closing", "idle")
    /\ IF user = "no client" THEN UNCHANGED <<game, load>> ELSE Unload
    /\ UNCHANGED <<titleid, user, unknown, seen, last, started, programs, failures>>

(* What a thread does when load_game_from_file() has returned, or, in the  *)
(* draw thread, the callback of the login.                                 *)
Return(l, from) ==
    /\ Moves(l, from, IF l = Draw THEN "logged in" ELSE "idle")
    /\ last' = IF l = Draw THEN last ELSE [last EXCEPT ![l] = seen[l]]
    /\ seen' = [seen EXCEPT ![l] = None]

(* load_game_from_file up to the hash: a load in progress is cancelled.    *)
BeginLoad(p) ==
    /\ IF user = "no client"
         THEN Return(p, "opening") /\ UNCHANGED load
         ELSE Moves(p, "opening", "hashing") /\ load' = NoLoad /\ UNCHANGED <<seen, last>>
    /\ UNCHANGED <<titleid, user, game, unknown, started, programs, failures>>

-----------------------------------------------------------------------------
(* rc_client_load_game. Another load that was attached meanwhile goes on,  *)
(* and this one gives up.                                                  *)
GiveUp(p) ==
    /\ load # NoLoad
    /\ Return(p, "hashing")
    /\ UNCHANGED <<game, load, failures>>

HashFails(p) ==
    /\ Fails
    /\ Return(p, "hashing")
    /\ UNCHANGED <<game, load>>

(* The client had asked before and was told that nobody knows the image.   *)
AttachUnknown(p) ==
    /\ load = NoLoad /\ seen[p] \in unknown
    /\ game' = seen[p]
    /\ Return(p, "hashing")
    /\ UNCHANGED <<load, failures>>

(* Mutant: the game before is not unloaded.                                *)
AttachOverGame(p) ==
    /\ load = NoLoad /\ seen[p] \notin unknown /\ user = "logged in"
    /\ load' = [by |-> p, title |-> seen[p]]
    /\ Moves(p, "hashing", "fetching")
    /\ UNCHANGED <<game, seen, last, failures>>

AttachFetch(p) ==
    /\ load = NoLoad /\ seen[p] \notin unknown /\ user = "logged in"
    /\ game' = None
    /\ load' = [by |-> p, title |-> seen[p]]
    /\ Moves(p, "hashing", "fetching")
    /\ UNCHANGED <<seen, last, failures>>

(* A login is under way: its callback will go on with the load.            *)
AttachAwaitLogin(p) ==
    /\ load = NoLoad /\ seen[p] \notin unknown /\ user = "requested"
    /\ game' = None
    /\ load' = [by |-> p, title |-> seen[p]]
    /\ Return(p, "hashing")
    /\ UNCHANGED failures

AttachNoLogin(p) ==
    /\ load = NoLoad /\ seen[p] \notin unknown /\ user = "none"
    /\ game' = None
    /\ Return(p, "hashing")
    /\ UNCHANGED <<load, failures>>

Attach(p) ==
    /\ GiveUp(p) \/ HashFails(p) \/ AttachUnknown(p)
       \/ AttachFetch(p) \/ AttachAwaitLogin(p) \/ AttachNoLogin(p)
    /\ UNCHANGED <<titleid, user, unknown, started, programs>>

-----------------------------------------------------------------------------
(* The answers of the server, in the thread that asked. A load that is no  *)
(* longer the client's was cancelled and only cleans up after itself.      *)
Cancelled(l) == load.by # l

LoadCancelled(l) ==
    /\ Cancelled(l)
    /\ \/ Return(l, "fetching")
       \/ Return(l, "starting session")
    /\ UNCHANGED <<titleid, user, game, load, unknown, started, programs, failures>>

LoadError(l) ==
    /\ ~Cancelled(l)
    /\ Fails
    /\ load' = NoLoad
    /\ \/ Return(l, "fetching")
       \/ Return(l, "starting session")
    /\ UNCHANGED <<titleid, user, game, unknown, started, programs>>

GameUnknown(l) ==
    /\ ~Cancelled(l)
    /\ unknown' = unknown \cup {seen[l]}
    /\ game' = seen[l] /\ load' = NoLoad
    /\ Return(l, "fetching")
    /\ UNCHANGED <<titleid, user, started, programs, failures>>

GameIdentified(l) ==
    /\ ~Cancelled(l)
    /\ Moves(l, "fetching", "starting session")
    /\ UNCHANGED <<titleid, user, game, load, unknown, seen, last, started, programs, failures>>

(* rc_client_activate_game, and load_game_callback, which downloads the    *)
(* badge of the game before it returns.                                    *)
ActivateGame(l) ==
    /\ ~Cancelled(l)
    /\ game' = load.title /\ load' = NoLoad
    /\ Moves(l, "starting session", "placard")
    /\ UNCHANGED <<titleid, user, unknown, seen, last, started, programs, failures>>

ShowPlacard(l) ==
    /\ Return(l, "placard")
    /\ UNCHANGED <<titleid, user, game, load, unknown, started, programs, failures>>

-----------------------------------------------------------------------------
(* The client is destroyed only while no poller is inside it: a person     *)
(* logs in when the game has been loaded or closed.                        *)
QuietLogin == \A p \in Poller : pc[p] = "idle"

Destroy == user' = "no client" /\ game' = None /\ load' = NoLoad /\ unknown' = {}

(* LogInRetroAchievements, while there is a thread left for its poller.    *)
LogIn ==
    /\ QuietLogin /\ started # Poller
    /\ Destroy
    /\ Moves(Draw, "idle", "starting")
    /\ UNCHANGED <<titleid, seen, last, started, programs, failures>>

InitializeClient ==
    /\ user' = "none"
    /\ Moves(Draw, "starting", "created")
    /\ UNCHANGED <<titleid, game, load, unknown, seen, last, started, programs, failures>>

BeginLogin ==
    /\ user' = "requested"
    /\ Moves(Draw, "created", "logging in")
    /\ UNCHANGED <<titleid, game, load, unknown, seen, last, started, programs, failures>>

NoCredentials ==
    /\ QuietLogin
    /\ Destroy
    /\ Moves(Draw, "created", "idle")
    /\ UNCHANGED <<titleid, seen, last, started, programs, failures>>

(* rc_client_login_callback: a load that waited for the login goes on in   *)
(* this thread, or is given up if the login failed.                        *)
LoginSucceeds ==
    /\ user' = "logged in"
    /\ IF load = NoLoad
         THEN Moves(Draw, "logging in", "logged in") /\ UNCHANGED <<load, seen>>
         ELSE /\ Moves(Draw, "logging in", "fetching")
              /\ load' = [by |-> Draw, title |-> load.title]
              /\ seen' = [seen EXCEPT ![Draw] = load.title]
    /\ UNCHANGED <<titleid, game, unknown, last, started, programs, failures>>

LoginFails ==
    /\ Fails
    /\ user' = "none" /\ load' = NoLoad
    /\ Moves(Draw, "logging in", "logged in")
    /\ UNCHANGED <<titleid, game, unknown, seen, last, started, programs>>

(* start_titleid_polling reads the list of images again, and starts        *)
(* another poller.                                                         *)
ScanImages ==
    /\ Moves(Draw, "logged in", "scanning")
    /\ UNCHANGED <<titleid, user, game, load, unknown, seen, last, started, programs, failures>>

(* Mutant: there is a poller already.                                      *)
StartPollingOnce ==
    /\ Moves(Draw, "scanning", "idle")
    /\ \E p \in Poller \ started : started' = IF started = {} THEN {p} ELSE started
    /\ UNCHANGED <<titleid, user, game, load, unknown, seen, last, programs, failures>>

StartPolling ==
    /\ Moves(Draw, "scanning", "idle")
    /\ \E p \in Poller \ started : started' = started \cup {p}
    /\ UNCHANGED <<titleid, user, game, load, unknown, seen, last, programs, failures>>

-----------------------------------------------------------------------------
Answer(l) ==
    LoadCancelled(l) \/ LoadError(l) \/ GameUnknown(l) \/ GameIdentified(l) \/ ActivateGame(l)

PollerStep(p) ==
    Poll(p) \/ UnloadClosed(p) \/ BeginLoad(p) \/ Attach(p) \/ Answer(p) \/ ShowPlacard(p)

DrawStep ==
    \/ InitializeClient \/ BeginLogin \/ NoCredentials
    \/ LoginSucceeds \/ LoginFails \/ ScanImages \/ StartPolling
    \/ Answer(Draw) \/ ShowPlacard(Draw)

Next ==
    \/ ClearInfo \/ \E t \in Title : SetTitle(t)
    \/ \E p \in Poller : PollerStep(p)
    \/ LogIn \/ DrawStep

(* Every thread that can run does, and every request is answered.          *)
Spec ==
    /\ Init /\ [][Next]_vars
    /\ \A p \in Poller : WF_vars(PollerStep(p))
    /\ WF_vars(DrawStep)

-----------------------------------------------------------------------------
(* Every poller sleeps and has nothing to do, and no login is under way.   *)
Quiet ==
    /\ pc = [l \in Loader |-> "idle"]
    /\ \A p \in started : last[p] = titleid

(* However the pollers and the login took turns, when they are done and    *)
(* nothing failed the client has the game that runs, if it is one that can *)
(* be loaded, and otherwise none (titleid_polling_thread,                  *)
(* rc_client_begin_identify_and_load_game, rc_client_unload_game).         *)
FollowsGame ==
    Quiet /\ user = "logged in" /\ failures = 0 =>
        game = IF titleid \in Listed THEN titleid ELSE None

(* A game is loaded into a client that has none: the game before it was    *)
(* unloaded, its indicators hidden and its memory freed, and not just      *)
(* overwritten by a load that had passed it (rc_client_attach_load_state,  *)
(* rc_client_activate_game). Only AttachUnknown unloads and loads at once. *)
NoGameDropped ==
    [][game' # game /\ game' # None =>
        game = None \/ \E p \in Poller : AttachUnknown(p)]_vars

(* A game that stays on is loaded in the end, also by a client that the    *)
(* person logged in to while it ran and by one it was started in the login *)
(* of, unless a request fails: then nobody tries again.                    *)
GameGetsLoaded ==
    \A t \in Listed :
        <>[](titleid = t /\ user \in {"requested", "logged in"} /\ failures = 0)
            => <>[](game = t)
=============================================================================
