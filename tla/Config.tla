------------------------------- MODULE Config -------------------------------
(* The start of the process up to its configuration: getConfig lays the    *)
(* defaults, the file named on the command line and the environment over   *)
(* each other, key by key, and reads the Config struct out of the result.  *)
(* A layer is a function from dotted keys to values.                       *)
CONSTANTS
    Files,          \* what -c can name: see NoFile
    Environments    \* sets of variables a process can be started with

VARIABLES
    step,       \* "defaults", "flags", "file", "env", "struct", "done", "failed"
    file, env,  \* what the process is started with
    k,          \* the keys loaded so far
    config      \* the Config struct

vars == << step, file, env, k, config >>

Parsers == {"toml", "yaml", "json"}

(* A file is loaded by its suffix; one of another suffix is passed over.   *)
NoFile == [suffix |-> "none", parses |-> TRUE, keys |-> << >>]

Defaults == [key \in {"sentry.tracesSampleRate", "server.port"} |->
               IF key = "server.port" THEN "8080" ELSE "1.0"]

(* A layer that is loaded over those there are.                            *)
Over(layer, under) ==
    [key \in DOMAIN layer \cup DOMAIN under |->
       IF key \in DOMAIN layer THEN layer[key] ELSE under[key]]

(* The fields of the struct, by key, which files spell as it does.  Those  *)
(* without a default are empty when no layer sets them.                    *)
Config == {"logger.level", "sentry.dsn", "sentry.tracesSampleRate", "db.url",
           "server.port", "services"}

(* Keys whose field is a number.                                           *)
Numbers == {"sentry.tracesSampleRate", "server.port"}
Numerals == {"0.5", "1.0", "8080", "9090"}

(* A list of services is one of tables, with a type and parameters each: a *)
(* list of names, or the text of a variable, is none.                      *)
ServiceConfigs == {"", "tables"}

(* The key of a variable: without its prefix, in lower case, with dots for *)
(* underscores.                                                            *)
EnvKey == [EYE_DB_URL |-> "db.url",
           EYE_SERVER_PORT |-> "server.port",
           EYE_LOGGER_LEVEL |-> "logger.level",
           EYE_LOGGING_LEVEL |-> "logging.level",
           EYE_SERVICES |-> "services",
           EYE_SENTRY_DSN |-> "sentry.dsn",
           EYE_SENTRY_TRACESSAMPLERATE |-> "sentry.tracessamplerate"]

(* The variables that are looked at here.                                  *)
ASSUME EnvironmentsAssumption ==
    \A variables \in Environments : DOMAIN variables \subseteq DOMAIN EnvKey

FromEnv(variables) ==
    [key \in {EnvKey[v] : v \in DOMAIN variables} |->
       variables[CHOOSE v \in DOMAIN variables : EnvKey[v] = key]]

Setting(key) == IF key \in DOMAIN k THEN k[key] ELSE ""

(* The level the logger is created with, whatever the case of the letters. *)
createLogger(level) ==
    CASE level \in {"debug", "DEBUG"} -> "debug"
      [] level \in {"warn", "WARN"}   -> "warn"
      [] level \in {"error", "ERROR"} -> "error"
      [] OTHER -> "info"
-----------------------------------------------------------------------------
Init == /\ step = "defaults"
        /\ file \in Files
        /\ env \in Environments
        /\ k = << >>
        /\ config = << >>

LoadDefaults ==
    /\ step = "defaults"
    /\ k' = Defaults
    /\ step' = "flags"
    /\ UNCHANGED << file, env, config >>

(* Arguments other than -c end the start; -h prints the usage.             *)
ParseFlags ==
    /\ step = "flags"
    /\ step' \in {"file", "failed"}
    /\ UNCHANGED << file, env, k, config >>

LoadFile ==
    /\ step = "file"
    /\ file.suffix \in Parsers
    /\ file.parses
    /\ k' = Over(file.keys, k)
    /\ step' = "env"
    /\ UNCHANGED << file, env, config >>

(* The file is missing or malformed.                                       *)
FileFails ==
    /\ step = "file"
    /\ file.suffix \in Parsers
    /\ ~file.parses
    /\ step' = "failed"
    /\ UNCHANGED << file, env, k, config >>

PassOverFile ==
    /\ step = "file"
    /\ file.suffix \notin Parsers
    /\ step' = "env"
    /\ UNCHANGED << file, env, k, config >>

(* Mutant: the environment only fills in what is missing.                  *)
LoadEnvUnder ==
    /\ step = "env"
    /\ k' = Over(k, FromEnv(env))
    /\ step' = "struct"
    /\ UNCHANGED << file, env, config >>

LoadEnv ==
    /\ step = "env"
    /\ k' = Over(FromEnv(env), k)
    /\ step' = "struct"
    /\ UNCHANGED << file, env, config >>

(* Mutant: the struct gets the keys that are set.                          *)
UnmarshalSet ==
    /\ step = "struct"
    /\ config' = k
    /\ step' = "done"
    /\ UNCHANGED << file, env, k >>

(* Keys of no field are not looked at; a number must be one, and services  *)
(* a list of tables.                                                       *)
Unmarshal ==
    /\ step = "struct"
    /\ IF /\ \A key \in Numbers : Setting(key) \in Numerals
          /\ Setting("services") \in ServiceConfigs
       THEN /\ config' = [key \in Config |-> Setting(key)]
            /\ step' = "done"
       ELSE /\ step' = "failed"
            /\ UNCHANGED config
    /\ UNCHANGED << file, env, k >>

getConfig == LoadDefaults \/ ParseFlags \/ LoadFile \/ FileFails
               \/ PassOverFile \/ LoadEnv \/ Unmarshal

Next == getConfig

Spec == Init /\ [][Next]_vars
-----------------------------------------------------------------------------
(* Types: no key is loaded that no layer has, and the struct is filled in  *)
(* at once, when all layers are.                                           *)
TypeOK ==
    /\ step \in {"defaults", "flags", "file", "env", "struct", "done", "failed"}
    /\ file \in Files
    /\ env \in Environments
    /\ DOMAIN k \subseteq DOMAIN Defaults \cup DOMAIN file.keys
                            \cup {EnvKey[v] : v \in DOMAIN env}
    /\ step = "done" <=> DOMAIN config = Config

(* Precedence: a configured process runs with the values of its            *)
(* environment, where that has none with those of its file, and else with  *)
(* the defaults - whatever order the code loads the layers in; a process   *)
(* whose file cannot be read is not configured at all.                     *)
Precedence ==
    step = "done" =>
        /\ file.suffix \in Parsers => file.parses
        /\ \A key \in Config :
             LET inEnv  == \E v \in DOMAIN env : EnvKey[v] = key
                 inFile == file.suffix \in Parsers /\ key \in DOMAIN file.keys
             IN  /\ \A v \in DOMAIN env : EnvKey[v] = key => config[key] = env[v]
                 /\ ~inEnv /\ inFile => config[key] = file.keys[key]
                 /\ ~inEnv /\ ~inFile /\ key \in DOMAIN Defaults =>
                      config[key] = Defaults[key]

(* What the documentation says of EYE_LOGGING_LEVEL: the logger of a       *)
(* process that is configured has the level the variable names.            *)
LoggingLevelIsObeyed ==
    step = "done" /\ "EYE_LOGGING_LEVEL" \in DOMAIN env =>
        createLogger(config["logger.level"]) = createLogger(env["EYE_LOGGING_LEVEL"])
=============================================================================
