--------------------------- MODULE MCHousekeeping ---------------------------
EXTENDS Housekeeping, TLC

MCDefault == [endpoint |-> "", level |-> "info", stale |-> 4, purge |-> 6]
MCFiles ==
    {Unreadable, Text(<< >>),
     Text("endpoint" :> "file" @@ "stale" :> 2 @@ "purge" :> 3),
     Text("endpoint" :> "file" @@ "level" :> "debug" @@ "stale" :> 5),
     Text("level" :> "verbose" @@ "purge" :> 2),
     Text("level" :> "warn" @@ "stale" :> Bad @@ "purge" :> 4),
     Text("level" :> "" @@ "stale" :> 0 @@ "purge" :> 2)}
MCEnvs == {<< >>, "endpoint" :> "env", "endpoint" :> "env" @@ "level" :> "error"}
MCFlagSets == {<< >>, "level" :> "debug", "endpoint" :> "flag"}
=============================================================================
