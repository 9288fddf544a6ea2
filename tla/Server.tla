------------------------------- MODULE Server -------------------------------
(* The process from its start to its end: main, the HTTP server, the pool  *)
(* of connections, and the requests that are being served.                 *)
(*                                                                         *)
(* A slot of Requests is a client connection that carries one request at a *)
(* time.  Those in H2C are HTTP/2 connections in clear text: the h2c       *)
(* handler takes them over from net/http, which does not know of them any  *)
(* more - Shutdown neither waits for their streams nor tells them to stop. *)
EXTENDS Routes, FiniteSets

CONSTANTS
    Requests,   \* slots for requests
    H2C,        \* those on HTTP/2 connections
    Called,     \* the procedures clients call
    MaxConns    \* connections of the pool

ASSUME SlotAssumption ==
    /\ IsFiniteSet(Requests) /\ H2C \subseteq Requests
    /\ Called \subseteq Procedures
ASSUME PoolAssumption == MaxConns \in Nat \ {0}

VARIABLES
    main,       \* where main is
    exit,       \* what it returns: "none" yet, "ok", the error of Shutdown,
                \* "deadline", or another "error"; or "killed"
    listener,   \* "none", "open", "closed"
    errCh,      \* the channel of the listener's error: full or not
    quit,       \* the channel of the signal
    pool,       \* "none", "open", "closed"
    linked,     \* client connections that are open
    stage,      \* of each request
    left,       \* the statements it still has to execute
    ahead,      \* the requests that wait for a connection in front of it
    lost        \* requests the server did not answer for, see below

requests == << linked, stage, left, ahead, lost >>
process  == << main, exit, listener, errCh, quit, pool >>
vars == << process, requests >>

Stages == {"idle", "receiving", "running", "waiting", "querying"}

Held     == {r \in Requests : stage[r] = "querying"}
Waiting  == {r \in Requests : stage[r] = "waiting"}
InProgress == {r \in Requests : stage[r] # "idle"}
HTTP1    == Requests \ H2C

Running == main \in {"launched", "serving", "stopping", "closing"}

(* Mutant: one that leaves the queue is still waited for.                  *)
LeaveQuietly(r) == [ahead EXCEPT ![r] = {}]

(* A request leaves the queue for a connection.                            *)
Leave(r) == [q \in Requests |-> IF q = r THEN {} ELSE ahead[q] \ {r}]
-----------------------------------------------------------------------------
(* Main.                                                                   *)

Init == /\ main = "starting" /\ exit = "none"
        /\ listener = "none" /\ pool = "none"
        /\ errCh = FALSE /\ quit = FALSE
        /\ linked = {} /\ lost = {}
        /\ stage = [r \in Requests |-> "idle"]
        /\ left = [r \in Requests |-> 0]
        /\ ahead = [r \in Requests |-> {}]

(* The configuration, Sentry or the URL of the database is no good.        *)
StartFails ==
    /\ main = "starting"
    /\ main' = "exited"
    /\ exit' = "error"
    /\ UNCHANGED << listener, errCh, quit, pool, requests >>

(* The pool, the stores, the handlers and the mux; the server is started   *)
(* in a goroutine.                                                         *)
Start ==
    /\ main = "starting"
    /\ pool' = "open"
    /\ main' = "launched"
    /\ UNCHANGED << exit, listener, errCh, quit, requests >>

(* signal.Notify.                                                          *)
Notify ==
    /\ main = "launched"
    /\ main' = "serving"
    /\ UNCHANGED << exit, listener, errCh, quit, pool, requests >>

(* The goroutine: ListenAndServe, which refuses when Shutdown has begun.   *)
Listen ==
    /\ main \in {"launched", "serving"}
    /\ listener = "none" /\ ~errCh
    /\ listener' = "open"
    /\ UNCHANGED << main, exit, errCh, quit, pool, requests >>

(* It returns an error: the port is taken, or accepting connections fails. *)
ListenFails ==
    /\ main \in {"launched", "serving"}
    /\ listener # "closed" /\ ~errCh
    /\ listener' = "closed"
    /\ errCh' = TRUE
    /\ UNCHANGED << main, exit, quit, pool, requests >>

(* SIGINT or SIGTERM; the channel keeps one, and none is read after the    *)
(* first.                                                                  *)
Signal ==
    /\ main \in {"serving", "stopping", "closing"}
    /\ ~quit
    /\ quit' = TRUE
    /\ UNCHANGED << main, exit, listener, errCh, pool, requests >>

(* What the process does not answer for any more: it is gone.              *)
Gone ==
    /\ main' = "exited"
    /\ listener' = "closed"
    /\ pool' = "closed"
    /\ linked' = {}
    /\ stage' = [r \in Requests |-> "idle"]
    /\ left' = [r \in Requests |-> 0]
    /\ ahead' = [r \in Requests |-> {}]
    /\ lost' = lost \cup InProgress

(* A signal before Notify.                                                 *)
Killed ==
    /\ main \in {"starting", "launched"}
    /\ exit' = "killed"
    /\ Gone
    /\ UNCHANGED << errCh, quit >>

(* Mutant: the listener stays open.                                        *)
StopLeavesOpen ==
    /\ main = "serving" /\ quit
    /\ quit' = FALSE
    /\ main' = "stopping"
    /\ UNCHANGED << exit, listener, errCh, pool, requests >>

(* The select: when both channels are full either may be taken.  Shutdown  *)
(* closes the listener first.                                              *)
Stop ==
    /\ main = "serving" /\ quit
    /\ quit' = FALSE
    /\ main' = "stopping"
    /\ listener' = "closed"
    /\ UNCHANGED << exit, errCh, pool, requests >>

Abort ==
    /\ main = "serving" /\ errCh
    /\ errCh' = FALSE
    /\ main' = "closing"
    /\ exit' = "error"
    /\ UNCHANGED << listener, quit, pool, requests >>

(* It closes the connections it finds idle, time and again; a request that *)
(* comes in before is served.                                              *)
CloseIdle(r) ==
    /\ main = "stopping"
    /\ r \in HTTP1 \cap linked /\ stage[r] = "idle"
    /\ linked' = linked \ {r}
    /\ UNCHANGED << process, stage, left, ahead, lost >>

(* It returns: no connection that it knows of is left, or 30 seconds are   *)
(* over.                                                                   *)
Drained ==
    /\ main = "stopping"
    /\ HTTP1 \cap linked = {}
    /\ main' = "closing"
    /\ exit' = "ok"
    /\ UNCHANGED << listener, errCh, quit, pool, requests >>

(* Mutant: Shutdown without a deadline.                                    *)
NoDeadline == Drained

TimedOut ==
    /\ main = "stopping"
    /\ main' = "closing"
    /\ exit' = "deadline"
    /\ UNCHANGED << listener, errCh, quit, pool, requests >>

(* The deferred pool.Close: nobody gets a connection any more; it returns  *)
(* when all are given back, and the process ends with main.                *)
ClosePool ==
    /\ main = "closing" /\ pool = "open"
    /\ pool' = "closed"
    /\ UNCHANGED << main, exit, listener, errCh, quit, requests >>

Exit ==
    /\ main = "closing" /\ pool = "closed"
    /\ Held = {}
    /\ Gone
    /\ UNCHANGED << exit, errCh, quit >>
-----------------------------------------------------------------------------
(* Requests.                                                               *)

(* A client connects.                                                      *)
Link(r) ==
    /\ r \notin linked
    /\ listener = "open"
    /\ linked' = linked \cup {r}
    /\ UNCHANGED << process, stage, left, ahead, lost >>

(* It begins to send a request; the connection may be an old one.          *)
Arrive(r) ==
    /\ Running /\ r \in linked
    /\ stage[r] = "idle"
    /\ \E p \in Called : left' = [left EXCEPT ![r] = mux(p)]
    /\ stage' = [stage EXCEPT ![r] = "receiving"]
    /\ lost' = lost \ {r}
    /\ UNCHANGED << process, linked, ahead >>

(* It has sent all of it.                                                  *)
Receive(r) ==
    /\ stage[r] = "receiving"
    /\ stage' = [stage EXCEPT ![r] = "running"]
    /\ UNCHANGED << process, linked, left, ahead, lost >>

(* Mutant: the last to ask is the first to be served.                      *)
AcquireFirst(r) ==
    /\ stage[r] = "running" /\ left[r] > 0
    /\ stage' = [stage EXCEPT ![r] = "waiting"]
    /\ ahead' = [q \in Requests |-> IF q \in Waiting THEN ahead[q] \cup {r}
                                    ELSE IF q = r THEN {} ELSE ahead[q]]
    /\ UNCHANGED << process, linked, left, lost >>

(* The next statement needs a connection; requests queue up for them.      *)
Acquire(r) ==
    /\ stage[r] = "running" /\ left[r] > 0
    /\ stage' = [stage EXCEPT ![r] = "waiting"]
    /\ ahead' = [ahead EXCEPT ![r] = Waiting]
    /\ UNCHANGED << process, linked, left, lost >>

(* A connection is free and the request is the first in the queue.         *)
First(r) ==
    /\ stage[r] = "waiting"
    /\ ahead[r] = {}
    /\ Cardinality(Held) < MaxConns

Grant(r) ==
    /\ First(r)
    /\ pool = "open"
    /\ stage' = [stage EXCEPT ![r] = "querying"]
    /\ ahead' = Leave(r)
    /\ UNCHANGED << process, linked, left, lost >>

(* The pool is closed: the store reports an error and the client is told   *)
(* Internal.                                                               *)
Refuse(r) ==
    /\ First(r)
    /\ pool = "closed"
    /\ stage' = [stage EXCEPT ![r] = "running"]
    /\ left' = [left EXCEPT ![r] = 0]
    /\ ahead' = Leave(r)
    /\ lost' = lost \cup {r}
    /\ UNCHANGED << process, linked >>

(* Mutant: the connection is not given back.                               *)
FinishKeeps(r) ==
    /\ stage[r] = "querying"
    /\ left' = [left EXCEPT ![r] = @ - 1]
    /\ UNCHANGED << process, linked, stage, ahead, lost >>

(* The statement ends and the connection is given back.  After an error, a *)
(* row not found or a refused write the request needs no other.            *)
Finish(r) ==
    /\ stage[r] = "querying"
    /\ \E n \in {left[r] - 1, 0} : left' = [left EXCEPT ![r] = n]
    /\ stage' = [stage EXCEPT ![r] = "running"]
    /\ UNCHANGED << process, linked, ahead, lost >>

(* Once Shutdown has begun no connection it knows of is kept alive.        *)
ShuttingDown == main = "stopping" \/ exit \in {"ok", "deadline"}

Answer(r) ==
    /\ stage[r] = "running" /\ left[r] = 0
    /\ stage' = [stage EXCEPT ![r] = "idle"]
    /\ linked' = IF ShuttingDown THEN linked \ ({r} \cap HTTP1) ELSE linked
    /\ UNCHANGED << process, left, ahead, lost >>

(* The client goes away.  What it began is cancelled; a connection that is *)
(* held has to be given back first.                                        *)
Disconnect(r) ==
    /\ r \in linked /\ stage[r] # "querying"
    /\ stage' = [stage EXCEPT ![r] = "idle"]
    /\ left' = [left EXCEPT ![r] = 0]
    /\ ahead' = Leave(r)
    /\ linked' = linked \ {r}
    /\ UNCHANGED << process, lost >>
-----------------------------------------------------------------------------
MainNext ==
    \/ StartFails \/ Start \/ Notify \/ Killed
    \/ Stop \/ Abort \/ Drained \/ TimedOut \/ ClosePool \/ Exit

RequestNext(r) ==
    \/ Link(r) \/ Arrive(r) \/ Receive(r)
    \/ Acquire(r) \/ Grant(r) \/ Refuse(r) \/ Finish(r) \/ Answer(r)
    \/ Disconnect(r) \/ CloseIdle(r)

Next == MainNext \/ Listen \/ ListenFails \/ Signal
          \/ \E r \in Requests : RequestNext(r)

Spec == Init /\ [][Next]_vars

(* Goroutines are scheduled, the timer of 30 seconds fires, and the        *)
(* database answers every statement.  Nothing is assumed of signals, nor   *)
(* of clients but that an answer can be written, for there is no           *)
(* WriteTimeout; a request may take for ever to be sent, for there is no   *)
(* ReadTimeout.                                                            *)
Fairness ==
    /\ WF_vars(Start \/ StartFails) /\ WF_vars(Notify)
    /\ WF_vars(listener = "none" /\ (Listen \/ ListenFails))
    /\ WF_vars(Stop \/ Abort) /\ WF_vars(TimedOut)
    /\ WF_vars(ClosePool) /\ WF_vars(Exit)
    /\ \A r \in Requests :
         /\ WF_vars(Acquire(r)) /\ WF_vars(Grant(r) \/ Refuse(r))
         /\ WF_vars(Finish(r)) /\ WF_vars(Answer(r))

FairSpec == Spec /\ Fairness
-----------------------------------------------------------------------------
(* Types.                                                                  *)
TypeOK ==
    /\ main \in {"starting", "launched", "serving", "stopping", "closing", "exited"}
    /\ exit \in {"none", "ok", "deadline", "error", "killed"}
    /\ listener \in {"none", "open", "closed"}
    /\ errCh \in BOOLEAN /\ quit \in BOOLEAN
    /\ pool \in {"none", "open", "closed"}
    /\ linked \subseteq Requests
    /\ InProgress \subseteq linked
    /\ stage \in [Requests -> Stages]
    /\ left \in [Requests -> Nat]
    /\ ahead \in [Requests -> SUBSET Requests]
    /\ lost \subseteq Requests

(* A process that reports that it stopped gracefully has answered every    *)
(* request of an HTTP/1 connection: none is in progress once the pool is   *)
(* about to close, none was refused a connection, none was cut off.        *)
OkMeansAnswered ==
    exit = "ok" => HTTP1 \cap (InProgress \cup lost) = {}

(* The pool never opens more connections than it may, and does not keep a  *)
(* free one from those that wait: whoever gave up, was refused or went     *)
(* away in front of them, one of them is first.                            *)
PoolServes ==
    /\ Cardinality(Held) <= MaxConns
    /\ Waiting # {} /\ Cardinality(Held) < MaxConns => \E r \in Waiting : First(r)

(* A signal, or a listener that fails, ends the process: no client that is *)
(* slow and no request that runs keeps it for ever.                        *)
Terminates == quit \/ errCh ~> main = "exited"

(* Every request that was received is answered or ends with the process,   *)
(* however many others want the connections of the pool.                   *)
Served == \A r \in Requests :
            stage[r] \in {"running", "waiting", "querying"} ~> stage[r] = "idle"

(* What main says of its end, "Server stopped gracefully", taken for all   *)
(* the connections it offers.                                              *)
GracefulStopServesAll == exit = "ok" => lost = {}
=============================================================================
