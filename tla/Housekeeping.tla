---------------------------- MODULE Housekeeping ----------------------------
(***************************************************************************)
(* internal/config and the loops of cmd/semconv-proxy/main.go that use it: *)
(* where the settings come from, the reload on SIGHUP, and the sweeper     *)
(* that reads two of them without a lock while they are written.           *)
(*                                                                         *)
(* Four settings stand for all: "endpoint" (read once), "level", and the   *)
(* TTLs "stale" and "purge", which have neither variable nor flag.  Time   *)
(* is counted in minutes, the sweeper's shortest interval; the dictionary  *)
(* is one name, and a sweep takes less than a minute.  A process without   *)
(* --config behaves like one whose file cannot be read.                    *)
(***************************************************************************)
EXTENDS Naturals, FiniteSetsExt

CONSTANTS
    Default,    \* config.Default()
    Files,      \* what the file may be: Text(settings) or Unreadable
    Envs,       \* the environments: some settings
    FlagSets,   \* the flags given explicitly: some settings
    Bad,        \* a text that is no duration
    Start,      \* the clock when the process boots
    MaxClock, MaxReloads    \* bounds of the model

Levels == {"debug", "info", "warn", "error"}
TTLs == {"stale", "purge"}
Unreadable == [readable |-> FALSE]
Text(settings) == [readable |-> TRUE, settings |-> settings]

VARIABLES
    env, flags, \* of this process
    file,       \* the config file
    main,       \* boot, refused, serve, or about to set stale or purge
    cfg,        \* the configuration main and the sweeper share
    reloaded,   \* main's copy during a reload
    logging,    \* the level of the logger
    reloads,    \* bound
    clock, interval, nextTick,  \* the sweeper's ticker
    sweep,      \* the sweeper: wait, or purge when MarkStale is done
    entry,      \* the name: [here, last, status]
    given,      \* history: per setting, the last value an accepted file gave
    changed,    \* history: per TTL, when it last changed
    raced       \* history: a TTL has changed since MarkStale

config == <<env, flags, cfg, reloaded, logging, reloads>>
ticker == <<interval, nextTick>>
history == <<given, changed, raced>>
vars == <<config, file, main, clock, ticker, sweep, entry, history>>

-----------------------------------------------------------------------------
(* The overlays.  A value that does not decode is an error, but the others *)
(* of its source are decoded all the same.                                 *)

Decodes(settings) == \A k \in DOMAIN settings : settings[k] # Bad
Overlay(c, settings) ==
    [k \in DOMAIN c |->
        IF k \in DOMAIN settings /\ settings[k] # Bad THEN settings[k] ELSE c[k]]
ApplyFile(c, f) == IF f.readable THEN Overlay(c, f.settings) ELSE c
FileApplies(f) == f.readable /\ Decodes(f.settings)

(* What the proofs know of the sources: a variable or a flag that reaches  *)
(* the process decodes, and no TTL is negative.                            *)
Settings == {"endpoint", "level"} \union TTLs
ASSUME DefaultAssumption ==
    /\ DOMAIN Default = Settings
    /\ \A k \in TTLs : Default[k] \in Nat
ASSUME SourcesAssumption ==
    /\ \A s \in Envs \union FlagSets : DOMAIN s \cap TTLs = {} /\ Decodes(s)
    /\ \A f \in Files : f.readable =>
        \A k \in DOMAIN f.settings \cap TTLs : f.settings[k] \in Nat \union {Bad}
ASSUME ClockAssumption == Start \in Nat

(* Flags over environment over file over what was there.                   *)
Effective_EnvLast(c, f) == Overlay(Overlay(ApplyFile(c, f), flags), env)
Effective(c, f) == Overlay(Overlay(ApplyFile(c, f), env), flags)
Valid(c) == c.endpoint # ""

Init ==
    /\ env \in Envs /\ flags \in FlagSets /\ file \in Files
    /\ main = "boot" /\ cfg = Default /\ reloaded = Default
    /\ logging = "info" /\ reloads = 0
    /\ clock = Start /\ interval = 1 /\ nextTick = Start
    /\ sweep = "wait"
    /\ entry \in [here : {TRUE}, last : 0..Start, status : {"active"}]
    /\ given = Default
    /\ changed = [k \in TTLs |-> Start] /\ raced = FALSE

(* Errors of the sources are warnings; an unknown level logs like info.    *)
Boot ==
    /\ main = "boot"
    /\ LET c == Effective(Default, file) IN
        /\ main' = IF Valid(c) THEN "serve" ELSE "refused"
        /\ cfg' = c
        /\ logging' = IF c.level \in Levels THEN c.level ELSE "info"
        /\ interval' = Max({c.stale \div 2, 1})
        /\ nextTick' = clock + interval'
    /\ given' = ApplyFile(Default, file)
    /\ UNCHANGED <<env, flags, reloaded, reloads, file, clock, sweep, entry, changed, raced>>

EditFile ==
    /\ main = "serve" /\ reloads < MaxReloads
    /\ file' \in Files
    /\ UNCHANGED <<config, main, clock, ticker, sweep, entry, history>>

-----------------------------------------------------------------------------
(* SIGHUP and applyMutableConfig.                                          *)

(* The reload overlays a copy of cfg: what the file no longer says stays.  *)
Reloaded(f) == Effective(cfg, f)
LevelChanges(c) == c.level # "" /\ c.level # cfg.level
Acceptable(k, v) == IF k \in TTLs THEN v > 0 ELSE k = "level" /\ v # ""

(* An error of the file, or an unknown level, ends the reload.             *)
Hangup ==
    /\ main = "serve" /\ reloads < MaxReloads
    /\ reloads' = reloads + 1
    /\ FileApplies(file)
    /\ LET c == Reloaded(file) IN
        /\ LevelChanges(c) => c.level \in Levels
        /\ reloaded' = c
        /\ cfg' = IF LevelChanges(c) THEN [cfg EXCEPT !.level = c.level] ELSE cfg
        /\ logging' = IF LevelChanges(c) THEN c.level ELSE logging
    /\ main' = "stale"
    /\ given' = [k \in DOMAIN given |->
                    IF k \in DOMAIN file.settings /\ Acceptable(k, file.settings[k])
                    THEN file.settings[k] ELSE given[k]]
    /\ UNCHANGED <<env, flags, file, clock, ticker, sweep, entry, changed, raced>>

(* The TTLs are written one after the other.                               *)
SetTTL(k, next) ==
    LET differs == reloaded[k] > 0 /\ reloaded[k] # cfg[k] IN
    /\ main = k
    /\ main' = next
    /\ cfg' = IF differs THEN [cfg EXCEPT ![k] = reloaded[k]] ELSE cfg
    /\ changed' = IF differs THEN [changed EXCEPT ![k] = clock] ELSE changed
    /\ raced' = (raced \/ differs)
    /\ UNCHANGED <<env, flags, reloaded, logging, reloads, file, clock, ticker, sweep,
                   entry, given>>
ApplyTTLs == SetTTL("stale", "purge") \/ SetTTL("purge", "serve")

-----------------------------------------------------------------------------
(* The sweeper: its interval is that of the boot, its TTLs are cfg's.      *)

Running == main \notin {"boot", "refused"}
Idle(ttl) == clock - entry.last > ttl

MarkStale_StaleOnly ==
    entry' = IF entry.here /\ entry.status = "stale" /\ Idle(cfg.stale)
             THEN [entry EXCEPT !.status = "stale"] ELSE entry
MarkStale ==
    entry' = IF entry.here /\ entry.status = "active" /\ Idle(cfg.stale)
             THEN [entry EXCEPT !.status = "stale"] ELSE entry
Tick ==
    /\ Running /\ sweep = "wait" /\ clock = nextTick
    /\ nextTick' = nextTick + interval
    /\ MarkStale
    /\ sweep' = "purge" /\ raced' = FALSE
    /\ UNCHANGED <<config, main, file, clock, interval, given, changed>>

PurgeExpired_WhenStale == entry.here /\ entry.status = "stale" /\ Idle(cfg.purge)
PurgeExpired == entry.here /\ Idle(cfg.purge)
Purge ==
    /\ sweep = "purge"
    /\ sweep' = "wait"
    /\ entry' = IF PurgeExpired THEN [entry EXCEPT !.here = FALSE] ELSE entry
    /\ UNCHANGED <<config, main, file, clock, ticker, history>>

(* A worker's upsert.                                                      *)
Observe ==
    /\ Running
    /\ entry' = [here |-> TRUE, last |-> clock, status |-> "active"]
    /\ UNCHANGED <<config, main, file, clock, ticker, sweep, history>>

Pass ==
    /\ Running /\ sweep = "wait" /\ clock < nextTick /\ clock < MaxClock
    /\ clock' = clock + 1
    /\ UNCHANGED <<config, main, file, ticker, sweep, entry, history>>

Next ==
    \/ Boot \/ EditFile \/ Hangup \/ ApplyTTLs
    \/ Tick \/ Purge \/ Observe \/ Pass

Spec == Init /\ [][Next]_vars

-----------------------------------------------------------------------------

(* Between reloads every setting is what its highest source says: the      *)
(* flags, then the environment, then the last file that was accepted and   *)
(* gave it a usable value -- for the endpoint, the file of the boot.       *)
(* (main.go:61-75, 245-258, 286-314, config.go:116-176)                    *)
SettledIsWanted ==
    main = "serve" =>
        /\ \A k \in DOMAIN cfg :
            cfg[k] = IF k \in DOMAIN flags THEN flags[k]
                     ELSE IF k \in DOMAIN env THEN env[k] ELSE given[k]
        /\ logging = IF cfg.level \in Levels THEN cfg.level ELSE "info"

(* Though the ticker keeps the interval of the boot, new TTLs take effect  *)
(* within one of them: a name that outlives its TTL by more than that is   *)
(* there because the TTL was shorter than that ago something else.         *)
(* (main.go:306-330)                                                       *)
Overdue(k) == clock - entry.last > cfg[k] + interval
JustChanged(k) == clock - changed[k] <= interval
TTLsTakeEffect ==
    entry.here /\ Running =>
        /\ Overdue("purge") => JustChanged("purge")
        /\ Overdue("stale") /\ entry.status = "active" => JustChanged("stale")

(* If the settings keep a name stale before it is purged, a sweep purges   *)
(* an active name only if a reload was or got under way: the sweeper reads *)
(* one TTL per pass and main writes them one by one. (main.go:306-330)     *)
OnlyStalePurged ==
    [][entry.here /\ ~entry'.here /\ entry.status = "active" =>
        \/ cfg.purge < cfg.stale
        \/ main # "serve" \/ raced]_vars
=============================================================================
