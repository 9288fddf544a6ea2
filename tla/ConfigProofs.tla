----------------------------- MODULE ConfigProofs -----------------------------
(* Theorems about Config, for any files and any environments of the        *)
(* variables it knows.                                                     *)
EXTENDS Config, TLAPS

(* What is loaded after the file, if one is named that can be.             *)
WithFile == IF file.suffix \in Parsers THEN Over(file.keys, Defaults) ELSE Defaults

Readable == file.suffix \in Parsers => file.parses

(* The layers there are at each step, in their order.                      *)
Layered ==
    /\ step = "defaults" => k = << >>
    /\ step \in {"flags", "file"} => k = Defaults
    /\ step = "env" => Readable /\ k = WithFile
    /\ step \in {"struct", "done"} => Readable /\ k = Over(FromEnv(env), WithFile)
    /\ step = "done" => config = [key \in Config |-> Setting(key)]
    /\ step # "done" => config = << >>

IInv == TypeOK /\ Layered

-----------------------------------------------------------------------------
(* No two variables are of the same key.                                   *)
LEMMA OneVariableOfKey ==
    \A v, w \in DOMAIN EnvKey : EnvKey[v] = EnvKey[w] => v = w
BY DEF EnvKey

(* The layer of an environment has the value of each of its variables.     *)
LEMMA EnvironmentLayer ==
    ASSUME NEW variables \in Environments
    PROVE  /\ DOMAIN FromEnv(variables) = {EnvKey[v] : v \in DOMAIN variables}
           /\ \A v \in DOMAIN variables : FromEnv(variables)[EnvKey[v]] = variables[v]
<1>1. DOMAIN FromEnv(variables) = {EnvKey[v] : v \in DOMAIN variables}
  BY DEF FromEnv
<1>2. ASSUME NEW v \in DOMAIN variables
      PROVE  FromEnv(variables)[EnvKey[v]] = variables[v]
  <2>. DEFINE w == CHOOSE w \in DOMAIN variables : EnvKey[w] = EnvKey[v]
  <2>1. w \in DOMAIN variables /\ EnvKey[w] = EnvKey[v]
    OBVIOUS
  <2>2. FromEnv(variables)[EnvKey[v]] = variables[w]
    BY DEF FromEnv
  <2>3. w = v
    BY <2>1, OneVariableOfKey, EnvironmentsAssumption
  <2>. QED  BY <2>2, <2>3
<1>. QED  BY <1>1, <1>2

-----------------------------------------------------------------------------
(* A process starts with no layer.                                         *)
LEMMA InitHolds == Init => IInv
<1>. SUFFICES ASSUME Init PROVE IInv
  OBVIOUS
<1>1. DOMAIN k = {} /\ DOMAIN config = {}
  BY DEF Init
<1>2. "db.url" \in Config
  BY DEF Config
<1>. QED  BY <1>1, <1>2 DEF Init, IInv, TypeOK, Layered

(* Each step loads its layer over those before it.                         *)
LEMMA NextHolds == IInv /\ [Next]_vars => IInv'
<1>. SUFFICES ASSUME IInv, [Next]_vars PROVE IInv'
  OBVIOUS
<1>. USE DEF IInv, TypeOK, Layered
<1>0. /\ DOMAIN WithFile \subseteq DOMAIN Defaults \cup DOMAIN file.keys
      /\ DOMAIN FromEnv(env) = {EnvKey[v] : v \in DOMAIN env}
      /\ DOMAIN << >> = {} /\ "db.url" \in Config
  <2>1. DOMAIN WithFile \subseteq DOMAIN Defaults \cup DOMAIN file.keys
    BY DEF WithFile, Over
  <2>2. DOMAIN FromEnv(env) = {EnvKey[v] : v \in DOMAIN env}
    BY EnvironmentLayer
  <2>. QED  BY <2>1, <2>2 DEF Config
<1>1. CASE LoadDefaults
  BY <1>0, <1>1 DEF LoadDefaults
<1>2. CASE ParseFlags
  BY <1>0, <1>2 DEF ParseFlags
<1>3. CASE LoadFile
  <2>1. k' = WithFile /\ WithFile' = WithFile /\ Readable'
    BY <1>3 DEF LoadFile, WithFile, Readable
  <2>. QED  BY <1>0, <1>3, <2>1 DEF LoadFile
<1>4. CASE FileFails
  BY <1>0, <1>4 DEF FileFails
<1>5. CASE PassOverFile
  BY <1>0, <1>5 DEF PassOverFile, WithFile, Readable
<1>6. CASE LoadEnv
  <2>1. WithFile' = WithFile /\ Readable' = Readable /\ FromEnv(env)' = FromEnv(env)
    BY <1>6 DEF LoadEnv, WithFile, Readable
  <2>2. DOMAIN k' = DOMAIN FromEnv(env) \cup DOMAIN WithFile
    BY <1>6 DEF LoadEnv, Over
  <2>. QED  BY <1>0, <1>6, <2>1, <2>2 DEF LoadEnv
<1>7. CASE Unmarshal
  <2>1. /\ WithFile' = WithFile /\ Readable' = Readable /\ FromEnv(env)' = FromEnv(env)
        /\ \A key : Setting(key)' = Setting(key)
    BY <1>7 DEF Unmarshal, WithFile, Readable, Setting
  <2>. QED  BY <1>0, <1>7, <2>1 DEF Unmarshal
<1>8. CASE UNCHANGED vars
  <2>1. /\ WithFile' = WithFile /\ Readable' = Readable /\ FromEnv(env)' = FromEnv(env)
        /\ \A key : Setting(key)' = Setting(key)
    BY <1>8 DEF vars, WithFile, Readable, Setting
  <2>. QED  BY <1>8, <2>1 DEF vars
<1>. QED  BY <1>1, <1>2, <1>3, <1>4, <1>5, <1>6, <1>7, <1>8 DEF Next, getConfig

(* At every step the layers are those loaded so far, in their order.       *)
THEOREM LayersInOrder == Spec => []IInv
<1>. QED  BY InitHolds, NextHolds, PTL DEF Spec

(* No key comes from nowhere, and the struct is filled in at once.         *)
THEOREM TypeCorrect == Spec => []TypeOK
<1>1. IInv => TypeOK
  BY DEF IInv
<1>. QED  BY <1>1, LayersInOrder, PTL

(* A configured process runs with the values of its environment, then      *)
(* those of its file, then the defaults.                                   *)
THEOREM WhoWins == Spec => []Precedence
<1>1. ASSUME IInv, step = "done" PROVE Readable
  BY <1>1 DEF IInv, Layered
<1>2. ASSUME IInv, step = "done", NEW key \in Config
      PROVE  /\ \A v \in DOMAIN env : EnvKey[v] = key => config[key] = env[v]
             /\ ~(\E v \in DOMAIN env : EnvKey[v] = key) =>
                  /\ file.suffix \in Parsers /\ key \in DOMAIN file.keys =>
                       config[key] = file.keys[key]
                  /\ ~(file.suffix \in Parsers /\ key \in DOMAIN file.keys)
                       /\ key \in DOMAIN Defaults => config[key] = Defaults[key]
  <2>. DEFINE layer == FromEnv(env)
  <2>1. /\ k = Over(layer, WithFile)
        /\ config[key] = IF key \in DOMAIN k THEN k[key] ELSE ""
        /\ env \in Environments
    BY <1>2 DEF IInv, TypeOK, Layered, Setting
  <2>2. /\ DOMAIN layer = {EnvKey[v] : v \in DOMAIN env}
        /\ \A v \in DOMAIN env : layer[EnvKey[v]] = env[v]
    BY <2>1, EnvironmentLayer
  <2>. HIDE DEF layer
  <2>3. /\ DOMAIN k = DOMAIN layer \cup DOMAIN WithFile
        /\ key \in DOMAIN layer => k[key] = layer[key]
        /\ key \in DOMAIN WithFile \ DOMAIN layer => k[key] = WithFile[key]
    BY <2>1 DEF Over
  <2>4. ASSUME NEW v \in DOMAIN env, EnvKey[v] = key PROVE config[key] = env[v]
    BY <2>1, <2>2, <2>3, <2>4
  <2>5. ASSUME ~(\E v \in DOMAIN env : EnvKey[v] = key),
               file.suffix \in Parsers, key \in DOMAIN file.keys
        PROVE  config[key] = file.keys[key]
    <3>1. key \in DOMAIN WithFile /\ WithFile[key] = file.keys[key]
      BY <2>5 DEF WithFile, Over
    <3>. QED  BY <2>1, <2>2, <2>3, <2>5, <3>1
  <2>6. ASSUME ~(\E v \in DOMAIN env : EnvKey[v] = key),
               ~(file.suffix \in Parsers /\ key \in DOMAIN file.keys), key \in DOMAIN Defaults
        PROVE  config[key] = Defaults[key]
    <3>1. key \in DOMAIN WithFile /\ WithFile[key] = Defaults[key]
      BY <2>6 DEF WithFile, Over
    <3>. QED  BY <2>1, <2>2, <2>3, <2>6, <3>1
  <2>. QED  BY <2>4, <2>5, <2>6
<1>3. IInv => Precedence
  BY <1>1, <1>2 DEF Precedence, Readable
<1>. QED  BY <1>3, LayersInOrder, PTL
===============================================================================
