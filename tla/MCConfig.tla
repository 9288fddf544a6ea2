------------------------------ MODULE MCConfig ------------------------------
(* Small instances of Config.                                              *)
EXTENDS Config, TLC

MCFiles ==
    {NoFile} \cup
    [suffix : {"toml", "json", "other"}, parses : BOOLEAN,
     keys : {<< >>,
             "server.port" :> "9090" @@ "logger.level" :> "warn",
             "services" :> "names",
             "services" :> "tables" @@ "db.url" :> "postgres",
             "db.url" :> "postgres" @@ "server.port" :> "none"}]

MCEnvironments ==
    {<< >>,
     [EYE_DB_URL |-> "postgres"],
     [EYE_SERVICES |-> "price"],
     [EYE_DB_URL |-> "postgres", EYE_SERVER_PORT |-> "9090"],
     [EYE_SERVER_PORT |-> "none", EYE_LOGGER_LEVEL |-> "ERROR"],
     [EYE_LOGGING_LEVEL |-> "DEBUG", EYE_SENTRY_TRACESSAMPLERATE |-> "0.5"]}
=============================================================================
