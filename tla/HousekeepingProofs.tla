------------------------- MODULE HousekeepingProofs -------------------------
(***************************************************************************)
(* Proofs about Housekeeping for any defaults, config files, environments  *)
(* and flags, and any number of reloads.                                   *)
(***************************************************************************)
EXTENDS Housekeeping, TLAPS

Entries == [here : BOOLEAN, last : Nat, status : {"active", "stale"}]
TypeOK ==
    /\ env \in Envs /\ flags \in FlagSets /\ file \in Files
    /\ main \in {"boot", "refused", "serve", "stale", "purge"}
    /\ DOMAIN cfg = Settings /\ DOMAIN reloaded = Settings /\ DOMAIN given = Settings
    /\ \A k \in TTLs : cfg[k] \in Nat /\ reloaded[k] \in Nat
    /\ clock \in Nat /\ interval \in Nat /\ nextTick \in Nat
    /\ sweep \in {"wait", "purge"}
    /\ entry \in Entries
    /\ changed \in [TTLs -> Nat]

(* A file replaces what it gives and decodes. (config.go:116-128)          *)
LEMMA FileReplaces ==
    ASSUME NEW c, DOMAIN c = Settings, NEW f \in Files
    PROVE  /\ DOMAIN ApplyFile(c, f) = Settings
           /\ \A k \in Settings : ApplyFile(c, f)[k] =
                IF f.readable /\ k \in DOMAIN f.settings /\ f.settings[k] # Bad
                THEN f.settings[k] ELSE c[k]
  BY DEF ApplyFile, Overlay

(* TTLs stay numbers. (config.go:116-128)                                  *)
LEMMA FileTTLs ==
    ASSUME NEW c, DOMAIN c = Settings, \A k \in TTLs : c[k] \in Nat, NEW f \in Files
    PROVE  \A k \in TTLs : ApplyFile(c, f)[k] \in Nat
<1> TAKE k \in TTLs
<1>1. CASE f.readable /\ k \in DOMAIN f.settings /\ f.settings[k] # Bad
  <2>1. f.settings[k] \in Nat \union {Bad}
    BY <1>1, SourcesAssumption
  <2> QED
    BY <1>1, <2>1, FileReplaces DEF Settings
<1>2. CASE ~(f.readable /\ k \in DOMAIN f.settings /\ f.settings[k] # Bad)
  BY <1>2, FileReplaces DEF Settings
<1> QED
  BY <1>1, <1>2

(* Flags go before the environment, the environment before the file, and   *)
(* neither says anything of a TTL. (config.go:130-176)                     *)
LEMMA Precedence ==
    ASSUME NEW c, DOMAIN c = Settings, NEW f \in Files, env \in Envs, flags \in FlagSets
    PROVE  /\ DOMAIN Effective(c, f) = Settings
           /\ \A k \in Settings : Effective(c, f)[k] =
                IF k \in DOMAIN flags THEN flags[k]
                ELSE IF k \in DOMAIN env THEN env[k] ELSE ApplyFile(c, f)[k]
           /\ \A k \in TTLs : /\ k \notin DOMAIN flags /\ k \notin DOMAIN env
                              /\ Effective(c, f)[k] = ApplyFile(c, f)[k]
<1>1. Decodes(env) /\ Decodes(flags)
  BY SourcesAssumption
<1>2. \A k \in TTLs : k \notin DOMAIN flags /\ k \notin DOMAIN env
  BY SourcesAssumption
<1>3. DOMAIN ApplyFile(c, f) = Settings
  BY FileReplaces
<1>4. /\ DOMAIN Effective(c, f) = Settings
      /\ \A k \in Settings : Effective(c, f)[k] =
                IF k \in DOMAIN flags THEN flags[k]
                ELSE IF k \in DOMAIN env THEN env[k] ELSE ApplyFile(c, f)[k]
  BY <1>1, <1>3 DEF Effective, Overlay, Decodes
<1> QED
  BY <1>2, <1>4 DEF Settings

(* The ticker's interval is a number. (main.go:317-320)                    *)
LEMMA IntervalIsNat ==
    ASSUME NEW n \in Nat
    PROVE  Max({n \div 2, 1}) \in Nat
<1>1. n \div 2 \in Nat
  OBVIOUS
<1>2. \E x \in {n \div 2, 1} : \A y \in {n \div 2, 1} : x >= y
  BY <1>1
<1>3. Max({n \div 2, 1}) \in {n \div 2, 1}
  BY <1>2 DEF Max
<1> QED
  BY <1>1, <1>3

(* Configuration, clock and dictionary entry are well formed.              *)
LEMMA TypeStep == TypeOK /\ [Next]_vars => TypeOK'
<1> SUFFICES ASSUME TypeOK, [Next]_vars PROVE TypeOK'
  OBVIOUS
<1> USE DEF TypeOK
<1>1. ASSUME Boot PROVE TypeOK'
  <2> DEFINE c == Effective(Default, file)
  <2>1. /\ DOMAIN c = Settings /\ DOMAIN ApplyFile(Default, file) = Settings
        /\ \A k \in TTLs : c[k] \in Nat
    <3>1. DOMAIN Default = Settings /\ \A k \in TTLs : Default[k] \in Nat
      BY DefaultAssumption
    <3>2. DOMAIN ApplyFile(Default, file) = Settings
      BY <3>1, FileReplaces
    <3>3. \A k \in TTLs : ApplyFile(Default, file)[k] \in Nat
      BY <3>1, FileTTLs
    <3>4. DOMAIN c = Settings /\ \A k \in TTLs : c[k] = ApplyFile(Default, file)[k]
      BY <3>1, Precedence
    <3> QED
      BY <3>2, <3>3, <3>4
  <2>2. c.stale \in Nat
    <3> HIDE DEF c
    <3> QED
      BY <2>1 DEF TTLs
  <2>3. interval' \in Nat /\ nextTick' \in Nat
    BY <1>1, <2>2, IntervalIsNat DEF Boot
  <2>4. cfg' = c /\ main' \in {"serve", "refused"} /\ given' = ApplyFile(Default, file)
    BY <1>1 DEF Boot
  <2> QED
    BY <1>1, <2>1, <2>3, <2>4 DEF Boot
<1>2. ASSUME EditFile PROVE TypeOK'
  BY <1>2 DEF EditFile, config, ticker, history
<1>3. ASSUME Hangup PROVE TypeOK'
  <2> DEFINE c == Reloaded(file)
  <2>1. DOMAIN c = Settings /\ \A k \in TTLs : c[k] \in Nat
    BY Precedence, FileTTLs DEF Reloaded
  <2>2. reloaded' = c /\ main' = "stale"
    BY <1>3 DEF Hangup
  <2>3. DOMAIN cfg' = Settings /\ \A k \in TTLs : cfg'[k] = cfg[k]
    BY <1>3 DEF Hangup, TTLs
  <2>4. DOMAIN given' = Settings
    BY <1>3 DEF Hangup
  <2> QED
    BY <1>3, <2>1, <2>2, <2>3, <2>4 DEF Hangup, ticker
<1>4. ASSUME NEW k \in TTLs, NEW next \in {"purge", "serve"}, SetTTL(k, next) PROVE TypeOK'
  <2>1. DOMAIN cfg' = Settings /\ \A j \in TTLs : cfg'[j] \in Nat
    BY <1>4 DEF SetTTL
  <2>2. changed' \in [TTLs -> Nat]
    BY <1>4 DEF SetTTL
  <2> QED
    BY <1>4, <2>1, <2>2 DEF SetTTL, ticker
<1>5. ASSUME Tick PROVE TypeOK'
  <2>1. entry' \in Entries
    BY <1>5 DEF Tick, MarkStale, Entries
  <2> QED
    BY <1>5, <2>1 DEF Tick, config
<1>6. ASSUME Purge PROVE TypeOK'
  <2>1. entry' \in Entries
    BY <1>6 DEF Purge, Entries
  <2> QED
    BY <1>6, <2>1 DEF Purge, config, ticker, history
<1>7. ASSUME Observe PROVE TypeOK'
  BY <1>7 DEF Observe, Entries, config, ticker, history
<1>8. ASSUME Pass PROVE TypeOK'
  BY <1>8 DEF Pass, config, ticker, history
<1>9. ASSUME UNCHANGED vars PROVE TypeOK'
  BY <1>9 DEF vars, config, ticker, history
<1> QED
  BY <1>1, <1>2, <1>3, <1>4, <1>5, <1>6, <1>7, <1>8, <1>9 DEF Next, ApplyTTLs, TTLs

(* The process starts well formed. (main.go:61-75)                         *)
LEMMA TypeInit == Init => TypeOK
<1> SUFFICES ASSUME Init PROVE TypeOK
  OBVIOUS
<1>1. entry \in Entries
  <2>1. {TRUE} \subseteq BOOLEAN /\ {"active"} \subseteq {"active", "stale"}
    OBVIOUS
  <2>2. 0..Start \subseteq Nat
    BY ClockAssumption
  <2>3. \A e \in [here : {TRUE}, last : 0..Start, status : {"active"}] : e \in Entries
    BY <2>1, <2>2, Zenon DEF Entries
  <2> QED
    BY <2>3 DEF Init
<1>2. changed \in [TTLs -> Nat]
  BY ClockAssumption DEF Init
<1>3. DOMAIN Default = Settings /\ \A k \in TTLs : Default[k] \in Nat
  BY DefaultAssumption
<1>4. /\ env \in Envs /\ flags \in FlagSets /\ file \in Files /\ main = "boot"
      /\ cfg = Default /\ reloaded = Default /\ given = Default
  BY DEF Init
<1>5. clock \in Nat /\ interval \in Nat /\ nextTick \in Nat /\ sweep = "wait"
  BY ClockAssumption DEF Init
<1> QED
  BY <1>1, <1>2, <1>3, <1>4, <1>5 DEF TypeOK

(* The configuration is well formed in every behaviour.                    *)
THEOREM TypeCorrect == Spec => []TypeOK
  BY TypeInit, TypeStep, PTL DEF Spec

-----------------------------------------------------------------------------
(* What is in force.                                                       *)

Wanted(k) ==
    IF k \in DOMAIN flags THEN flags[k]
    ELSE IF k \in DOMAIN env THEN env[k] ELSE given[k]

(* During a reload a TTL that is still to be set is wanted as main's copy  *)
(* has it, if that is a usable value.                                      *)
ToBeSet(k) == main = k \/ main = "stale"
SettledInv ==
    main \in {"serve", "stale", "purge"} =>
        /\ \A k \in {"endpoint", "level"} : cfg[k] = Wanted(k)
        /\ \A k \in TTLs :
            given[k] = IF ToBeSet(k) /\ reloaded[k] > 0 THEN reloaded[k] ELSE cfg[k]
        /\ logging = IF cfg.level \in Levels THEN cfg.level ELSE "info"

(* One step of boot or reload leaves what is wanted in force.              *)
LEMMA SettledStep == TypeOK /\ SettledInv /\ [Next]_vars => SettledInv'
<1> SUFFICES ASSUME TypeOK, SettledInv, [Next]_vars PROVE SettledInv'
  OBVIOUS
<1>0. env \in Envs /\ flags \in FlagSets /\ file \in Files /\ DOMAIN cfg = Settings
  BY DEF TypeOK
<1>1. ASSUME Boot PROVE SettledInv'
  <2> DEFINE c == Effective(Default, file)
  <2>1. DOMAIN Default = Settings
    BY DefaultAssumption
  <2>2. /\ main' # "stale" /\ main' # "purge" /\ cfg' = c
        /\ given' = ApplyFile(Default, file) /\ env' = env /\ flags' = flags
        /\ logging' = IF c.level \in Levels THEN c.level ELSE "info"
    BY <1>1 DEF Boot
  <2>3. \A k \in {"endpoint", "level"} : cfg'[k] = Wanted(k)'
    BY <2>1, <2>2, <1>0, Precedence DEF Wanted, Settings
  <2>4. \A k \in TTLs : given'[k] = cfg'[k]
    BY <2>1, <2>2, <1>0, Precedence
  <2> QED
    BY <2>2, <2>3, <2>4 DEF SettledInv, ToBeSet, TTLs
<1>2. ASSUME Hangup PROVE SettledInv'
  <2> DEFINE c == Reloaded(file)
  <2>0. main = "serve" /\ main' = "stale" /\ env' = env /\ flags' = flags /\ reloaded' = c
    BY <1>2 DEF Hangup
  <2>1. /\ \A k \in {"endpoint", "level"} : cfg[k] = Wanted(k)
        /\ \A k \in TTLs : given[k] = cfg[k]
        /\ logging = IF cfg.level \in Levels THEN cfg.level ELSE "info"
    BY <2>0 DEF SettledInv, ToBeSet, TTLs
  <2>2. file.readable /\ \A k \in DOMAIN file.settings : file.settings[k] # Bad
    BY <1>2 DEF Hangup, FileApplies, Decodes
  <2>3. \A k \in Settings : ApplyFile(cfg, file)[k] =
            IF k \in DOMAIN file.settings THEN file.settings[k] ELSE cfg[k]
    BY <2>2, <1>0, FileReplaces
  <2>4. \A k \in Settings : c[k] =
            IF k \in DOMAIN flags THEN flags[k]
            ELSE IF k \in DOMAIN env THEN env[k] ELSE ApplyFile(cfg, file)[k]
    BY <1>0, Precedence DEF Reloaded
  <2>5. \A k \in TTLs : c[k] = ApplyFile(cfg, file)[k]
    BY <1>0, Precedence DEF Reloaded
  <2>6. DOMAIN given = Settings
        /\ \A k \in Settings : given'[k] =
            IF k \in DOMAIN file.settings /\ Acceptable(k, file.settings[k])
            THEN file.settings[k] ELSE given[k]
    BY <1>2 DEF Hangup, TypeOK
  <2>7. \A k \in TTLs : cfg'[k] = cfg[k]
    BY <1>2, <1>0 DEF Hangup, Settings, TTLs
  <2>8. \A k \in TTLs : given'[k] = IF reloaded'[k] > 0 THEN reloaded'[k] ELSE cfg'[k]
    <3> TAKE k \in TTLs
    <3>1. k \in Settings /\ (Acceptable(k, file.settings[k]) <=> file.settings[k] > 0)
      BY DEF Settings, Acceptable
    <3> HIDE DEF c
    <3> QED
      BY <3>1, <2>0, <2>1, <2>3, <2>5, <2>6, <2>7
  <2>9. cfg'["endpoint"] = Wanted("endpoint")'
    <3>1. cfg'["endpoint"] = cfg["endpoint"]
      BY <1>2, <1>0 DEF Hangup
    <3>2. given'["endpoint"] = given["endpoint"]
      BY <2>6 DEF Acceptable, TTLs, Settings
    <3> QED
      BY <3>1, <3>2, <2>0, <2>1 DEF Wanted
  <2>10. /\ cfg'["level"] = IF LevelChanges(c) THEN c["level"] ELSE cfg["level"]
         /\ logging' = IF LevelChanges(c) THEN c["level"] ELSE logging
         /\ LevelChanges(c) => c["level"] \in Levels
    BY <1>2, <1>0 DEF Hangup, Settings
  <2>11. cfg'["level"] = Wanted("level")'
    <3>1. LevelChanges(c) <=> c["level"] # "" /\ c["level"] # cfg["level"]
      BY DEF LevelChanges
    <3>2. given'["level"] =
            IF "level" \in DOMAIN file.settings /\ file.settings["level"] # ""
            THEN file.settings["level"] ELSE given["level"]
      BY <2>6 DEF Acceptable, TTLs, Settings
    <3>3. CASE "level" \in DOMAIN flags \/ "level" \in DOMAIN env
      <4>1. c["level"] = cfg["level"]
        BY <3>3, <2>1, <2>4 DEF Wanted, Settings
      <4> HIDE DEF c
      <4> QED
        BY <4>1, <3>1, <3>3, <2>0, <2>1, <2>10 DEF Wanted
    <3>4. CASE ~("level" \in DOMAIN flags \/ "level" \in DOMAIN env)
      <4>1. c["level"] = IF "level" \in DOMAIN file.settings
                         THEN file.settings["level"] ELSE cfg["level"]
        BY <3>4, <2>3, <2>4 DEF Settings
      <4>2. given["level"] = cfg["level"] /\ Wanted("level")' = given'["level"]
        BY <3>4, <2>0, <2>1 DEF Wanted
      <4> HIDE DEF c
      <4> QED
        BY <4>1, <4>2, <3>1, <3>2, <2>10
    <3> QED
      BY <3>3, <3>4
  <2>12. logging' = IF cfg'.level \in Levels THEN cfg'.level ELSE "info"
    <3> HIDE DEF c
    <3> QED
      BY <2>1, <2>10
  <2> QED
    BY <2>0, <2>8, <2>9, <2>11, <2>12 DEF SettledInv, ToBeSet
<1>3. ASSUME NEW k \in TTLs, NEW next \in {"purge", "serve"},
             next = "purge" <=> k = "stale", SetTTL(k, next)
      PROVE SettledInv'
  <2>0. (k = "stale" /\ next = "purge") \/ (k = "purge" /\ next = "serve")
    BY <1>3 DEF TTLs
  <2>1. /\ main = k /\ main' = next /\ reloaded' = reloaded /\ given' = given
        /\ env' = env /\ flags' = flags /\ logging' = logging
    BY <1>3 DEF SetTTL
  <2>2. /\ cfg'[k] = IF reloaded[k] > 0 THEN reloaded[k] ELSE cfg[k]
        /\ \A j \in Settings \ {k} : cfg'[j] = cfg[j]
    BY <1>3, <1>0 DEF SetTTL, Settings
  <2>3. /\ \A j \in {"endpoint", "level"} : cfg[j] = Wanted(j)
        /\ \A j \in TTLs :
            given[j] = IF ToBeSet(j) /\ reloaded[j] > 0 THEN reloaded[j] ELSE cfg[j]
        /\ logging = IF cfg.level \in Levels THEN cfg.level ELSE "info"
    BY <2>0, <2>1 DEF SettledInv
  <2>4. \A j \in {"endpoint", "level"} : cfg'[j] = Wanted(j)'
    BY <2>1, <2>2, <2>3 DEF Wanted, Settings, TTLs
  <2>5. cfg'.level = cfg.level
    BY <2>2 DEF Settings, TTLs
  <2>6. \A j \in TTLs :
            given'[j] = IF ToBeSet(j)' /\ reloaded'[j] > 0 THEN reloaded'[j] ELSE cfg'[j]
    <3> TAKE j \in TTLs
    <3>1. CASE j = k
      <4>1. ToBeSet(j) /\ ~ToBeSet(j)'
        BY <3>1, <2>0, <2>1 DEF ToBeSet
      <4> QED
        BY <4>1, <3>1, <2>1, <2>2, <2>3
    <3>2. CASE j # k
      <4>1. ToBeSet(j)' <=> ToBeSet(j)
        BY <3>2, <2>0, <2>1 DEF ToBeSet, TTLs
      <4> QED
        BY <4>1, <3>2, <2>1, <2>2, <2>3 DEF Settings
    <3> QED
      BY <3>1, <3>2
  <2> QED
    BY <2>1, <2>3, <2>4, <2>5, <2>6 DEF SettledInv
<1>4. ASSUME UNCHANGED <<config, main, given>> PROVE SettledInv'
  BY <1>4 DEF config, SettledInv, Wanted, ToBeSet
<1>5. EditFile \/ Tick \/ Purge \/ Observe \/ Pass \/ UNCHANGED vars
        => UNCHANGED <<config, main, given>>
  BY DEF EditFile, Tick, Purge, Observe, Pass, vars, history
<1>6. ASSUME ApplyTTLs PROVE SettledInv'
  <2>1. "stale" \in TTLs /\ "purge" \in TTLs
    BY DEF TTLs
  <2>2. CASE SetTTL("stale", "purge")
    BY <2>1, <2>2, <1>3
  <2>3. CASE SetTTL("purge", "serve")
    BY <2>1, <2>3, <1>3
  <2> QED
    BY <1>6, <2>2, <2>3 DEF ApplyTTLs
<1> QED
  BY <1>1, <1>2, <1>4, <1>5, <1>6 DEF Next

(* Between reloads every setting is what its highest source says, for any  *)
(* defaults, environment, flags and files. (main.go:61-75, 245-314)        *)
THEOREM SettledCorrect == Spec => []SettledIsWanted
<1>1. Init => SettledInv
  BY DEF Init, SettledInv
<1>2. TypeOK /\ SettledInv => SettledIsWanted
  <2> SUFFICES ASSUME TypeOK, SettledInv, main = "serve" PROVE SettledIsWanted
    BY DEF SettledIsWanted
  <2>1. \A k \in TTLs : cfg[k] = given[k]
    BY DEF SettledInv, ToBeSet, TTLs
  <2>2. \A k \in TTLs : k \notin DOMAIN flags /\ k \notin DOMAIN env
    BY SourcesAssumption DEF TypeOK
  <2> QED
    BY <2>1, <2>2 DEF SettledInv, SettledIsWanted, TypeOK, Settings, Wanted
<1> QED
  BY <1>1, <1>2, SettledStep, TypeCorrect, PTL DEF Spec

-----------------------------------------------------------------------------
(* The sweeper against the reload.                                         *)

(* Between its passes, undisturbed, an active name is within the TTL.      *)
BetweenInv ==
    /\ main = "boot" => sweep = "wait"
    /\ (sweep = "purge" /\ ~raced /\ entry.here /\ entry.status = "active")
        => clock - entry.last <= cfg.stale

LEMMA BetweenStep == TypeOK /\ BetweenInv /\ [Next]_vars => BetweenInv'
<1> SUFFICES ASSUME TypeOK, BetweenInv, [Next]_vars PROVE BetweenInv'
  OBVIOUS
<1>0. /\ cfg.stale \in Nat /\ clock \in Nat /\ entry.last \in Nat
      /\ entry \in Entries /\ DOMAIN cfg = Settings
  BY DEF TypeOK, TTLs, Entries
<1>1. CASE Tick
  <2>1. cfg' = cfg /\ clock' = clock
    BY <1>1 DEF Tick, config
  <2>2. entry'.here /\ entry'.status = "active" => ~Idle(cfg.stale) /\ entry'.last = entry.last
    BY <1>1, <1>0 DEF Tick, MarkStale, Entries
  <2> QED
    BY <1>1, <1>0, <2>1, <2>2 DEF BetweenInv, Idle, Tick, Running
<1>2. CASE Observe
  <2>1. cfg' = cfg /\ clock' = clock /\ entry'.last = clock
    BY <1>2 DEF Observe, config
  <2> QED
    BY <1>2, <1>0, <2>1 DEF BetweenInv, Observe, Running
<1>3. ASSUME NEW k \in TTLs, NEW next \in {"purge", "serve"}, SetTTL(k, next)
      PROVE BetweenInv'
  <2>1. CASE reloaded[k] > 0 /\ reloaded[k] # cfg[k]
    BY <1>3, <2>1 DEF SetTTL, BetweenInv
  <2>2. CASE ~(reloaded[k] > 0 /\ reloaded[k] # cfg[k])
    BY <1>3, <2>2 DEF SetTTL, BetweenInv
  <2> QED
    BY <2>1, <2>2
<1>4. CASE Hangup
  <2>1. cfg'.stale = cfg.stale
    BY <1>4, <1>0 DEF Hangup, Settings, TTLs
  <2> QED
    BY <1>4, <2>1 DEF Hangup, BetweenInv
<1>5. CASE Boot
  BY <1>5 DEF Boot, BetweenInv
<1>6. CASE Purge \/ Pass
  BY <1>6 DEF Purge, Pass, BetweenInv
<1>7. CASE EditFile \/ UNCHANGED vars
  BY <1>7 DEF EditFile, config, ticker, history, vars, BetweenInv
<1>8. CASE ApplyTTLs
  BY <1>8, <1>3 DEF ApplyTTLs, TTLs
<1> QED
  BY <1>1, <1>2, <1>4, <1>5, <1>6, <1>7, <1>8 DEF Next

(* A sweep purges an active name only if a reload was or got under way, or *)
(* the settings say so, for any settings and files. (main.go:306-330)      *)
THEOREM PurgeCorrect == Spec => OnlyStalePurged
<1>1. Init => BetweenInv
  BY DEF Init, BetweenInv
<1>2. TypeOK /\ BetweenInv /\ [Next]_vars =>
        [(entry.here /\ ~entry'.here /\ entry.status = "active") =>
            (cfg.purge < cfg.stale \/ main # "serve" \/ raced)]_vars
  <2> SUFFICES ASSUME TypeOK, BetweenInv, Next, entry.here, ~entry'.here,
                      entry.status = "active", ~(main # "serve" \/ raced)
               PROVE cfg.purge < cfg.stale
    OBVIOUS
  <2>0. /\ cfg.stale \in Nat /\ cfg.purge \in Nat /\ clock \in Nat
        /\ entry.last \in Nat /\ entry \in Entries
    BY DEF TypeOK, TTLs, Entries
  <2>1. CASE Purge
    <3>1. clock - entry.last > cfg.purge /\ sweep = "purge"
      BY <2>1, <2>0 DEF Purge, PurgeExpired, Idle
    <3>2. clock - entry.last <= cfg.stale
      BY <3>1 DEF BetweenInv
    <3> QED
      BY <2>0, <3>1, <3>2
  <2>2. CASE Tick
    BY <2>2, <2>0 DEF Tick, MarkStale, Entries
  <2>3. CASE Observe
    BY <2>3 DEF Observe
  <2>4. CASE Boot \/ EditFile \/ Hangup \/ ApplyTTLs \/ Pass
    BY <2>4 DEF Boot, EditFile, Hangup, ApplyTTLs, SetTTL, Pass
  <2> QED
    BY <2>1, <2>2, <2>3, <2>4 DEF Next
<1> QED
  BY <1>1, <1>2, BetweenStep, TypeCorrect, PTL DEF Spec, OnlyStalePurged

(* What the last sweeps left: a name within the TTL, as of the tick before,*)
(* or a TTL that changed since.                                            *)
LastTick == nextTick - interval
Swept(k, tick) == tick - entry.last <= cfg[k] \/ changed[k] >= tick
DeadlineInv ==
    /\ main = "boot" =>
        sweep = "wait" /\ clock = Start /\ changed = [k \in TTLs |-> Start]
    /\ Running =>
        /\ LastTick <= clock /\ clock <= nextTick
        /\ sweep = "purge" => clock = LastTick
        /\ entry.here =>
            /\ entry.status = "active" => Swept("stale", LastTick)
            /\ Swept("purge", IF sweep = "wait" THEN LastTick ELSE LastTick - interval)

LEMMA DeadlineStep == TypeOK /\ TypeOK' /\ DeadlineInv /\ [Next]_vars => DeadlineInv'
<1> SUFFICES ASSUME TypeOK, TypeOK', DeadlineInv, [Next]_vars PROVE DeadlineInv'
  OBVIOUS
<1>0. /\ cfg["stale"] \in Nat /\ cfg["purge"] \in Nat
      /\ clock \in Nat /\ nextTick \in Nat /\ interval \in Nat
      /\ changed["stale"] \in Nat /\ changed["purge"] \in Nat
      /\ entry \in Entries /\ entry.last \in Nat /\ sweep \in {"wait", "purge"}
      /\ DOMAIN cfg = Settings
  BY DEF TypeOK, TTLs, Entries
<1>1. CASE Boot
  <2>1. /\ clock = Start /\ changed["stale"] = Start /\ changed["purge"] = Start
        /\ sweep = "wait"
    BY <1>1 DEF Boot, DeadlineInv, TTLs
  <2>2. /\ clock' = clock /\ changed' = changed /\ sweep' = sweep /\ main' # "boot"
        /\ nextTick' = clock + interval'
    BY <1>1 DEF Boot
  <2>3. interval' \in Nat /\ Start \in Nat
    BY ClockAssumption DEF TypeOK
  <2>4. LastTick' = Start
    BY <2>1, <2>2, <2>3 DEF LastTick
  <2>5. changed'["stale"] = Start /\ changed'["purge"] = Start
    BY <2>1, <2>2
  <2>6. LastTick' <= clock' /\ clock' <= nextTick' /\ sweep' = "wait"
    <3>1. clock' = Start /\ nextTick' = Start + interval' /\ sweep' = "wait"
      BY <2>1, <2>2
    <3>2. \A a, b \in Nat : a <= a + b /\ a <= a
      OBVIOUS
    <3>3. Start <= Start + interval' /\ Start <= Start
      BY <2>3, <3>2
    <3> QED
      BY <3>1, <3>3, <2>4
  <2>7. Swept("stale", LastTick)' /\ Swept("purge", LastTick)'
    BY <2>3, <2>4, <2>5 DEF Swept
  <2> QED
    BY <2>2, <2>6, <2>7 DEF DeadlineInv
<1>2. CASE Tick
  <2>1. /\ clock = nextTick /\ nextTick' = nextTick + interval /\ Running /\ Running'
        /\ sweep = "wait" /\ sweep' = "purge" /\ clock' = clock
        /\ cfg' = cfg /\ changed' = changed /\ interval' = interval /\ main' = main
    BY <1>2 DEF Tick, config, Running
  <2>2. LastTick' = clock /\ LastTick' - interval' = LastTick
    BY <1>0, <2>1 DEF LastTick
  <2>3. /\ entry'.here = entry.here /\ entry'.last = entry.last
        /\ entry'.here /\ entry'.status = "active" => ~Idle(cfg["stale"])
    BY <1>2, <1>0 DEF Tick, MarkStale, Entries
  <2> QED
    BY <1>0, <2>1, <2>2, <2>3 DEF DeadlineInv, Swept, Idle, Running
<1>3. CASE Purge
  <2>1. /\ sweep = "purge" /\ sweep' = "wait" /\ clock' = clock /\ nextTick' = nextTick
        /\ interval' = interval /\ cfg' = cfg /\ changed' = changed /\ main' = main
    BY <1>3 DEF Purge, config, ticker, history
  <2>2. /\ entry'.last = entry.last /\ entry'.status = entry.status
        /\ entry'.here => entry.here /\ ~Idle(cfg["purge"])
    BY <1>3, <1>0 DEF Purge, PurgeExpired, Entries
  <2> QED
    BY <1>0, <2>1, <2>2 DEF DeadlineInv, Swept, Idle, Running, LastTick
<1>4. CASE Observe
  <2>1. /\ entry'.last = clock /\ clock' = clock /\ nextTick' = nextTick /\ Running
        /\ interval' = interval /\ cfg' = cfg /\ sweep' = sweep /\ changed' = changed
        /\ main' = main
    BY <1>4 DEF Observe, config, ticker, history
  <2> QED
    BY <1>0, <2>1 DEF DeadlineInv, Swept, Running, LastTick
<1>5. CASE Pass
  <2>1. /\ clock < nextTick /\ clock' = clock + 1 /\ nextTick' = nextTick /\ Running
        /\ interval' = interval /\ cfg' = cfg /\ sweep' = "wait" /\ sweep = "wait"
        /\ changed' = changed /\ entry' = entry /\ main' = main
    BY <1>5 DEF Pass, config, ticker, history
  <2> QED
    BY <1>0, <2>1 DEF DeadlineInv, Swept, Running, LastTick
<1>6. ASSUME NEW k \in TTLs, NEW next \in {"purge", "serve"}, SetTTL(k, next)
      PROVE DeadlineInv'
  <2>1. /\ clock' = clock /\ nextTick' = nextTick /\ Running /\ Running'
        /\ interval' = interval /\ sweep' = sweep /\ entry' = entry /\ main' # "boot"
    BY <1>6 DEF SetTTL, ticker, Running, TTLs
  <2>2. \A j \in TTLs : \/ cfg'[j] = cfg[j] /\ changed'[j] = changed[j]
                        \/ changed'[j] = clock
    BY <1>6 DEF SetTTL, TypeOK, Settings
  <2> QED
    BY <1>0, <2>1, <2>2 DEF DeadlineInv, Swept, LastTick, TTLs
<1>7. CASE Hangup
  <2>1. /\ cfg'["stale"] = cfg["stale"] /\ cfg'["purge"] = cfg["purge"]
        /\ clock' = clock /\ nextTick' = nextTick /\ Running /\ main' = "stale"
        /\ interval' = interval /\ sweep' = sweep /\ entry' = entry /\ changed' = changed
    BY <1>7, <1>0 DEF Hangup, Settings, TTLs, ticker, Running
  <2> QED
    BY <2>1 DEF DeadlineInv, Swept, LastTick
<1>8. CASE EditFile \/ UNCHANGED vars
  BY <1>8 DEF EditFile, config, ticker, history, vars, DeadlineInv, Swept, LastTick, Running
<1>9. CASE ApplyTTLs
  BY <1>9, <1>6 DEF ApplyTTLs, TTLs
<1> QED
  BY <1>1, <1>2, <1>3, <1>4, <1>5, <1>7, <1>8, <1>9 DEF Next

(* New TTLs take effect within one interval of the ticker, whatever they   *)
(* and it are. (main.go:306-330)                                           *)
THEOREM DeadlineCorrect == Spec => []TTLsTakeEffect
<1>1. Init => DeadlineInv
  BY DEF Init, DeadlineInv, Running
<1>2. TypeOK /\ DeadlineInv => TTLsTakeEffect
  <2> SUFFICES ASSUME TypeOK, DeadlineInv, entry.here, Running PROVE TTLsTakeEffect
    BY DEF TTLsTakeEffect
  <2>1. /\ cfg["stale"] \in Nat /\ cfg["purge"] \in Nat
        /\ clock \in Nat /\ nextTick \in Nat /\ interval \in Nat
        /\ changed["stale"] \in Nat /\ changed["purge"] \in Nat
        /\ entry.last \in Nat /\ sweep \in {"wait", "purge"}
    BY DEF TypeOK, TTLs, Entries
  <2> QED
    BY <2>1 DEF DeadlineInv, Swept, LastTick, TTLsTakeEffect, Overdue, JustChanged
<1> QED
  BY <1>1, <1>2, DeadlineStep, TypeCorrect, PTL DEF Spec
=============================================================================
