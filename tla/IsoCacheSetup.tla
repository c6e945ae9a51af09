--------------------------- MODULE IsoCacheSetup ---------------------------
(***************************************************************************)
(* How the firmware switches the ISO cache on when a game starts: the      *)
(* patches for single games (systemctrl/src/game_patch.c), and then, once, *)
(* OnSystemStatusIdle() (systemctrl/src/main.c).                           *)
(***************************************************************************)
EXTENDS IsoCache

VARIABLES
    iso_cache,      \* of g_cfw_config, "OFF" or a policy
    umd_delay,      \* umd_seek or umd_speed of g_cfw_config is set
    boot            \* how far the start is

setup == <<iso_cache, umd_delay, boot>>

SetupInit ==
    /\ Init
    /\ iso_cache \in {"OFF", "LRU", "RR"}
    /\ umd_delay \in BOOLEAN
    /\ boot = "patches"

(* infernoCacheInit() refuses without a policy, and does nothing if the    *)
(* cache is on.                                                            *)
CallCacheInit ==
    IF cache_policy = "DISABLED" \/ cache_on THEN UNCHANGED vars ELSE CacheInit

CallCacheOff == IF cache_on THEN CacheOff ELSE UNCHANGED vars

(* DisableInfernoCache(), for games that cannot bear the cache.            *)
DisableInfernoCache ==
    /\ boot = "patches"
    /\ CallCacheOff
    /\ iso_cache' = "OFF"
    /\ UNCHANGED <<umd_delay, boot>>

(* SetUmdEmuSpeed(), for games that need a slow drive.                     *)
SetUmdEmuSpeed ==
    /\ boot = "patches"
    /\ ~umd_delay /\ iso_cache # "OFF"
    /\ CallCacheOff
    /\ UNCHANGED setup

(* OnSystemStatusIdle() leaves the cache off for a drive with delays, and  *)
(* else initialises the cache and then sets its policy.                    *)
IdleDelays ==
    /\ boot = "patches"
    /\ boot' = "init"
    /\ iso_cache' = IF umd_delay THEN "OFF" ELSE iso_cache
    /\ UNCHANGED <<vars, umd_delay>>

IdleCacheInit ==
    /\ boot = "init" /\ iso_cache # "OFF"
    /\ CallCacheInit
    /\ boot' = "policy"
    /\ UNCHANGED <<iso_cache, umd_delay>>

IdleSetPolicy ==
    /\ boot = "policy"
    /\ SetPolicy(iso_cache)
    /\ boot' = "booted"
    /\ UNCHANGED <<iso_cache, umd_delay>>

SetupNext ==
    \/ DisableInfernoCache \/ SetUmdEmuSpeed
    \/ IdleDelays \/ IdleCacheInit \/ IdleSetPolicy
    \/ /\ \E pos \in 0 .. Size, len \in 1 .. MaxRead : Read(pos, len) \/ ReadAhead(pos, len)
       /\ UNCHANGED setup
    \/ Work /\ UNCHANGED setup

SetupSpec == SetupInit /\ [][SetupNext]_<<vars, setup>>

(* 08-CfwConfiguration.md on the number and the size of the caches: "Any   *)
(* option other than `Auto` will always use that value for all ISO games   *)
(* and apps launched with the `Inferno` driver".                           *)
ConfiguredCacheIsOn == boot = "booted" => cache_on

=============================================================================
