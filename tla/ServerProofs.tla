---------------------------- MODULE ServerProofs ----------------------------
(* Theorems about Server, for any number of requests, connections and      *)
(* procedures.                                                             *)
EXTENDS Server, FiniteSetTheorems, WellFoundedInduction, TLAPS

(* A request that wants or has a connection has a statement to execute.    *)
Needy == \A r \in Requests : stage[r] \in {"waiting", "querying"} => left[r] > 0

(* What the parts of the process know of each other: Shutdown has closed   *)
(* the listener before main goes on, and left no connection of HTTP/1 if   *)
(* it succeeds; only main closes the pool, and only at its end; what is    *)
(* lost is lost to a closed pool.                                          *)
IInv ==
    /\ TypeOK
    /\ main = "starting" => listener = "none"
    /\ main \in {"stopping", "closing"} \/ errCh => listener = "closed"
    /\ main = "closing" => exit # "none"
    /\ pool = "closed" => main \in {"closing", "exited"}
    /\ lost # {} => pool = "closed"
    /\ main = "exited" => listener # "open"
    /\ Needy
    /\ exit = "ok" =>
         /\ main \in {"closing", "exited"}
         /\ HTTP1 \cap (linked \cup lost) = {}

USE DEF requests, process, vars

(* Each procedure comes to a number of statements.                         *)
LEMMA StatementsAreCounted ==
    ASSUME NEW p \in Procedures
    PROVE  mux(p) \in Nat
<1>1. 3 * QuotesPerBulk \in Nat
  BY QuotesAssumption
<1>2. CASE p \in PortfolioProcedures
  BY <1>2 DEF mux, NewPortfolioServiceHandler, PortfolioHandler,
       PortfolioStubs, PortfolioStatements, PortfolioProcedures
<1>3. CASE p \in MarketDataProcedures
  <2>1. p \notin PortfolioProcedures
    BY <1>3 DEF PortfolioProcedures, MarketDataProcedures
  <2> QED
    BY <1>1, <1>3, <2>1 DEF mux, NewMarketDataServiceHandler, MarketDataHandler,
         MarketDataStubs, MarketDataStatements, MarketDataProcedures
<1>4. CASE p \notin PortfolioProcedures /\ p \notin MarketDataProcedures
  BY <1>4 DEF mux
<1> QED
  BY <1>2, <1>3, <1>4

(* A process that starts has nothing in progress.                          *)
LEMMA InitHolds == Init => IInv
<1> SUFFICES ASSUME Init PROVE IInv
  OBVIOUS
<1>1. TypeOK
  BY DEF Init, TypeOK, Stages, InProgress
<1> QED
  BY <1>1 DEF Init, IInv, Needy

(* The end of the process leaves nothing in progress; what is lost was in  *)
(* progress.                                                               *)
LEMMA EndHolds ==
    ASSUME IInv, Gone, UNCHANGED << errCh, quit >>,
           exit' = "killed" \/ UNCHANGED exit
    PROVE  IInv'
<1>1. TypeOK'
  BY DEF IInv, Gone, TypeOK, Stages, InProgress
<1>3. Needy'
  BY DEF IInv, Gone, TypeOK, Needy
<1>2. exit' = "ok" => (HTTP1 \cap (linked \cup lost))' = {}
  BY DEF IInv, Gone, TypeOK, InProgress, HTTP1
<1> QED
  BY <1>1, <1>2, <1>3 DEF IInv, Gone

(* Each step of main keeps the invariant.                                  *)
LEMMA MainHolds ==
    ASSUME IInv, MainNext
    PROVE  IInv'
<1>1. CASE StartFails
  BY <1>1 DEF StartFails, IInv, TypeOK, Needy, InProgress, HTTP1
<1>2. CASE Start
  BY <1>2 DEF Start, IInv, TypeOK, Needy, InProgress, HTTP1
<1>3. CASE Notify
  BY <1>3 DEF Notify, IInv, TypeOK, Needy, InProgress, HTTP1
<1>4. CASE Killed
  BY <1>4, EndHolds DEF Killed
<1>5. CASE Stop
  BY <1>5 DEF Stop, IInv, TypeOK, Needy, InProgress, HTTP1
<1>6. CASE Abort
  BY <1>6 DEF Abort, IInv, TypeOK, Needy, InProgress, HTTP1
<1>7. CASE Drained
  BY <1>7 DEF Drained, IInv, TypeOK, Needy, InProgress, HTTP1
<1>8. CASE TimedOut
  BY <1>8 DEF TimedOut, IInv, TypeOK, Needy, InProgress, HTTP1
<1>9. CASE ClosePool
  BY <1>9 DEF ClosePool, IInv, TypeOK, Needy, InProgress, HTTP1
<1>10. CASE Exit
  BY <1>10, EndHolds DEF Exit
<1> QED
  BY <1>1, <1>2, <1>3, <1>4, <1>5, <1>6, <1>7, <1>8, <1>9, <1>10 DEF MainNext

(* The goroutine of the listener, and signals.                             *)
LEMMA OutsideHolds ==
    ASSUME IInv, Listen \/ ListenFails \/ Signal
    PROVE  IInv'
<1>1. TypeOK'
  BY DEF IInv, TypeOK, InProgress, Listen, ListenFails, Signal
<1>2. Needy' /\ InProgress' = InProgress
  BY DEF IInv, Needy, InProgress, Listen, ListenFails, Signal
<1>3. CASE Listen
  BY <1>1, <1>2, <1>3 DEF IInv, Listen, HTTP1
<1>4. CASE ListenFails
  BY <1>1, <1>2, <1>4 DEF IInv, ListenFails, HTTP1
<1>5. CASE Signal
  BY <1>1, <1>2, <1>5 DEF IInv, Signal, HTTP1
<1> QED
  BY <1>3, <1>4, <1>5

(* A step of one request: it begins only on a connection that is open, of  *)
(* which none is left to net/http once Shutdown has returned, and is       *)
(* refused only when the pool is closed.                                   *)
LEMMA RequestHolds ==
    ASSUME NEW r \in Requests, IInv, RequestNext(r)
    PROVE  IInv'
<1>1. CASE Link(r)
  <2>1. TypeOK'
    BY <1>1 DEF Link, IInv, TypeOK, Stages, InProgress
  <2>2. exit' = "ok" => (HTTP1 \cap (linked \cup lost))' = {}
    BY <1>1 DEF Link, IInv, TypeOK, InProgress, HTTP1
  <2>3. Needy'
    BY <1>1 DEF Link, IInv, TypeOK, Needy
  <2> QED
    BY <1>1, <2>1, <2>2, <2>3 DEF Link, IInv
<1>2. CASE Arrive(r)
  <2>1. TypeOK'
    BY <1>2, StatementsAreCounted, SlotAssumption DEF Arrive, Running, IInv, TypeOK, Stages, InProgress
  <2>2. exit' = "ok" => (HTTP1 \cap (linked \cup lost))' = {}
    BY <1>2 DEF Arrive, Running, IInv, TypeOK, InProgress, HTTP1
  <2>3. Needy'
    BY <1>2 DEF Arrive, Running, IInv, TypeOK, Needy
  <2> QED
    BY <1>2, <2>1, <2>2, <2>3 DEF Arrive, Running, IInv
<1>3. CASE Receive(r)
  <2>1. TypeOK'
    BY <1>3 DEF Receive, IInv, TypeOK, Stages, InProgress
  <2>2. exit' = "ok" => (HTTP1 \cap (linked \cup lost))' = {}
    BY <1>3 DEF Receive, IInv, TypeOK, InProgress, HTTP1
  <2>3. Needy'
    BY <1>3 DEF Receive, IInv, TypeOK, Needy
  <2> QED
    BY <1>3, <2>1, <2>2, <2>3 DEF Receive, IInv
<1>4. CASE Acquire(r)
  <2>1. TypeOK'
    BY <1>4 DEF Acquire, Waiting, IInv, TypeOK, Stages, InProgress
  <2>2. exit' = "ok" => (HTTP1 \cap (linked \cup lost))' = {}
    BY <1>4 DEF Acquire, Waiting, IInv, TypeOK, InProgress, HTTP1
  <2>3. Needy'
    BY <1>4 DEF Acquire, Waiting, IInv, TypeOK, Needy
  <2> QED
    BY <1>4, <2>1, <2>2, <2>3 DEF Acquire, Waiting, IInv
<1>5. CASE Grant(r)
  <2>1. TypeOK'
    BY <1>5 DEF Grant, First, Leave, IInv, TypeOK, Stages, InProgress
  <2>2. exit' = "ok" => (HTTP1 \cap (linked \cup lost))' = {}
    BY <1>5 DEF Grant, First, Leave, IInv, TypeOK, InProgress, HTTP1
  <2>3. Needy'
    BY <1>5 DEF Grant, First, Leave, IInv, TypeOK, Needy
  <2> QED
    BY <1>5, <2>1, <2>2, <2>3 DEF Grant, First, Leave, IInv
<1>6. CASE Refuse(r)
  <2>1. TypeOK'
    BY <1>6 DEF Refuse, First, Leave, IInv, TypeOK, Stages, InProgress
  <2>2. exit' = "ok" => (HTTP1 \cap (linked \cup lost))' = {}
    BY <1>6 DEF Refuse, First, Leave, IInv, TypeOK, InProgress, HTTP1
  <2>3. Needy'
    BY <1>6 DEF Refuse, First, Leave, IInv, TypeOK, Needy
  <2> QED
    BY <1>6, <2>1, <2>2, <2>3 DEF Refuse, First, Leave, IInv
<1>7. CASE Finish(r)
  <2>1. TypeOK'
    BY <1>7 DEF Finish, IInv, TypeOK, Needy, Stages, InProgress
  <2>2. exit' = "ok" => (HTTP1 \cap (linked \cup lost))' = {}
    BY <1>7 DEF Finish, IInv, TypeOK, InProgress, HTTP1
  <2>3. Needy'
    BY <1>7 DEF Finish, IInv, TypeOK, Needy
  <2> QED
    BY <1>7, <2>1, <2>2, <2>3 DEF Finish, IInv
<1>8. CASE Answer(r)
  <2>1. TypeOK'
    BY <1>8 DEF Answer, ShuttingDown, IInv, TypeOK, Stages, InProgress
  <2>2. exit' = "ok" => (HTTP1 \cap (linked \cup lost))' = {}
    BY <1>8 DEF Answer, ShuttingDown, IInv, TypeOK, InProgress, HTTP1
  <2>3. Needy'
    BY <1>8 DEF Answer, ShuttingDown, IInv, TypeOK, Needy
  <2> QED
    BY <1>8, <2>1, <2>2, <2>3 DEF Answer, ShuttingDown, IInv
<1>9. CASE Disconnect(r)
  <2>1. TypeOK'
    BY <1>9 DEF Disconnect, Leave, IInv, TypeOK, Stages, InProgress
  <2>2. exit' = "ok" => (HTTP1 \cap (linked \cup lost))' = {}
    BY <1>9 DEF Disconnect, Leave, IInv, TypeOK, InProgress, HTTP1
  <2>3. Needy'
    BY <1>9 DEF Disconnect, Leave, IInv, TypeOK, Needy
  <2> QED
    BY <1>9, <2>1, <2>2, <2>3 DEF Disconnect, Leave, IInv
<1>10. CASE CloseIdle(r)
  <2>1. TypeOK'
    BY <1>10 DEF CloseIdle, IInv, TypeOK, Stages, InProgress
  <2>2. exit' = "ok" => (HTTP1 \cap (linked \cup lost))' = {}
    BY <1>10 DEF CloseIdle, IInv, TypeOK, InProgress, HTTP1
  <2>3. Needy'
    BY <1>10 DEF CloseIdle, IInv, TypeOK, Needy
  <2> QED
    BY <1>10, <2>1, <2>2, <2>3 DEF CloseIdle, IInv
<1> QED
  BY <1>1, <1>2, <1>3, <1>4, <1>5, <1>6, <1>7, <1>8, <1>9, <1>10 DEF RequestNext

(* So does every step.                                                     *)
LEMMA StepHolds == IInv /\ [Next]_vars => IInv'
<1> SUFFICES ASSUME IInv, [Next]_vars PROVE IInv'
  OBVIOUS
<1>1. CASE UNCHANGED vars
  BY <1>1 DEF IInv, TypeOK, Needy, InProgress, HTTP1
<1>2. CASE Next
  BY <1>2, MainHolds, OutsideHolds, RequestHolds DEF Next
<1> QED
  BY <1>1, <1>2

(* Hence it always holds.                                                  *)
LEMMA Inductive == Spec => []IInv
BY InitHolds, StepHolds, PTL DEF Spec

(* The process has the types stated.                                       *)
THEOREM TypeCorrect == Spec => []TypeOK
<1>1. IInv => TypeOK
  BY DEF IInv
<1> QED
  BY <1>1, Inductive, PTL

(* A process that says it stopped gracefully has answered every request of *)
(* an HTTP/1 connection, whatever the number of requests, the size of the  *)
(* pool and the moment of the signal.                                      *)
THEOREM GracefulForHTTP1 == Spec => []OkMeansAnswered
<1>1. IInv => OkMeansAnswered
  BY DEF IInv, TypeOK, OkMeansAnswered
<1> QED
  BY <1>1, Inductive, PTL

(* If clients only spoke HTTP/1, "Server stopped gracefully" would be true:*)
(* what the run over HTTP/2 refutes, it refutes for them alone.            *)
COROLLARY GracefulWithoutHTTP2 ==
    ASSUME H2C = {}
    PROVE  Spec => []GracefulStopServesAll
<1>1. IInv => GracefulStopServesAll
  BY DEF IInv, TypeOK, HTTP1, GracefulStopServesAll
<1> QED
  BY <1>1, Inductive, PTL
-----------------------------------------------------------------------------
(* The pool.  Those that wait for a connection have before them others that*)
(* wait, and whom these have before them; so the queue has a first.        *)
Queue ==
    /\ Cardinality(Held) <= MaxConns
    /\ \A r \in Requests : ahead[r] \subseteq Waiting \ {r}
    /\ \A r \in Requests : \A q \in ahead[r] : ahead[q] \subseteq ahead[r]

(* One of finitely many that are ordered so has nobody before it.          *)
LEMMA FirstOfMany ==
    ASSUME NEW S, IsFiniteSet(S), NEW W, W \subseteq S, W # {}, NEW before,
           \A r \in W : before[r] \subseteq W \ {r},
           \A r \in W : \A q \in before[r] : before[q] \subseteq before[r]
    PROVE  \E r \in W : before[r] = {}
<1> DEFINE F == {before[r] : r \in W}
<1>1. F \subseteq FiniteSubsetsOf(S) /\ F # {}
  BY FS_Subset DEF FiniteSubsetsOf
<1>2. IsWellFoundedOn(StrictSubsetOrdering(S), FiniteSubsetsOf(S))
  BY FS_StrictSubsetOrderingWellFounded
<1> HIDE DEF F
<1>3. PICK T \in F : \A U \in F : << U, T >> \notin StrictSubsetOrdering(S)
  BY <1>1, <1>2, WFMin
<1>4. PICK r \in W : T = before[r]
  BY DEF F
<1>5. ASSUME NEW q \in before[r] PROVE FALSE
  <2>0. before[r] \subseteq W \ {r}
    OBVIOUS
  <2>1. q \in W /\ before[q] \in F
    BY <2>0 DEF F
  <2>2. before[q] \subseteq W \ {q}
    BY <2>1
  <2>3. before[q] \subseteq before[r]
    BY <1>5
  <2>4. before[q] \subseteq T /\ before[q] # T /\ T \subseteq S
    BY <1>4, <1>5, <2>0, <2>2, <2>3
  <2> QED
    BY <1>3, <2>1, <2>4 DEF StrictSubsetOrdering
<1> QED
  BY <1>5

(* Nothing happens to the queue, or to connections that are held.          *)
LEMMA QueueStays ==
    ASSUME Queue, Waiting' = Waiting, Held' = Held, ahead' = ahead
    PROVE  Queue'
BY DEF Queue

(* A request leaves the queue, or was not in it, and takes no connection.  *)
LEMMA QueueLeft ==
    ASSUME Queue, NEW r \in Requests, Waiting' = Waiting \ {r},
           Cardinality(Held') <= MaxConns, ahead' = Leave(r)
    PROVE  Queue'
<1>1. \A q \in Requests : ahead'[q] = IF q = r THEN {} ELSE ahead[q] \ {r}
  BY DEF Leave
<1>2. Waiting \subseteq Requests
  BY DEF Waiting
<1>3. ASSUME NEW q \in Requests PROVE ahead'[q] \subseteq Waiting' \ {q}
  <2>1. ahead[q] \subseteq Waiting \ {q}
    BY DEF Queue
  <2>2. CASE q = r
    BY <1>1, <2>2
  <2>3. CASE q # r
    BY <1>1, <2>1, <2>3
  <2> QED
    BY <2>2, <2>3
<1>4. ASSUME NEW q \in Requests, NEW p \in ahead'[q]
      PROVE  ahead'[p] \subseteq ahead'[q]
  <2>0. q # r /\ p \in ahead[q] \ {r}
    BY <1>1, <1>4
  <2>1. p \in Requests
    <3>1. ahead[q] \subseteq Waiting \ {q}
      BY DEF Queue
    <3> QED
      BY <1>2, <2>0, <3>1
  <2>2. ahead[p] \subseteq ahead[q]
    BY <2>0 DEF Queue
  <2> QED
    BY <1>1, <2>0, <2>1, <2>2
<1> QED
  BY <1>3, <1>4 DEF Queue, Waiting

(* The end of the process leaves no queue.                                 *)
LEMMA QueueEnds ==
    ASSUME Gone
    PROVE  Queue'
<1>1. Held' = {} /\ Waiting' = {}
  BY DEF Gone, Held, Waiting
<1>2. Cardinality(Held') <= MaxConns
  BY <1>1, FS_EmptySet, PoolAssumption
<1> QED
  BY <1>1, <1>2 DEF Gone, Queue

(* What a request does to the sets of those that wait and that are served. *)
LEMMA StageSets ==
    ASSUME TypeOK, NEW r \in Requests, NEW s \in Stages, stage' = [stage EXCEPT ![r] = s]
    PROVE  /\ Waiting' = IF s = "waiting" THEN Waiting \cup {r} ELSE Waiting \ {r}
           /\ Held' = IF s = "querying" THEN Held \cup {r} ELSE Held \ {r}
<1>1. \A q \in Requests : stage'[q] = IF q = r THEN s ELSE stage[q]
  BY DEF TypeOK
<1> QED
  BY <1>1 DEF Waiting, Held

(* Every step leaves a queue, and no more connections than there may be.   *)
LEMMA QueueHolds == IInv /\ Queue /\ [Next]_vars => Queue'
<1> SUFFICES ASSUME IInv, Queue, [Next]_vars PROVE Queue'
  OBVIOUS
<1>0. TypeOK /\ IsFiniteSet(Held) /\ Cardinality(Held) \in Nat
  <2>1. Held \in SUBSET Requests
    BY DEF Held
  <2> QED
    BY <2>1, SlotAssumption, FS_Subset, FS_CardinalityType DEF IInv
<1>1. CASE UNCHANGED << stage, ahead >>
  BY <1>1, QueueStays DEF Waiting, Held
<1>2. CASE Gone
  BY <1>2, QueueEnds
<1>3. ASSUME NEW r \in Requests, RequestNext(r) PROVE Queue'
  <2>0. Stages = {"idle", "receiving", "running", "waiting", "querying"}
    BY DEF Stages
  <2>1. CASE Link(r)
    BY <1>1, <2>1 DEF Link
  <2>2. CASE Arrive(r)
    <3>1. stage[r] = "idle" /\ stage' = [stage EXCEPT ![r] = "receiving"] /\ ahead' = ahead
      BY <2>2 DEF Arrive
    <3>2. Waiting' = Waiting /\ Held' = Held
      BY <1>0, <2>0, <3>1, StageSets DEF Waiting, Held
    <3> QED
      BY <3>1, <3>2, QueueStays
  <2>3. CASE Receive(r)
    <3>1. stage[r] = "receiving" /\ stage' = [stage EXCEPT ![r] = "running"] /\ ahead' = ahead
      BY <2>3 DEF Receive
    <3>2. Waiting' = Waiting /\ Held' = Held
      BY <1>0, <2>0, <3>1, StageSets DEF Waiting, Held
    <3> QED
      BY <3>1, <3>2, QueueStays
  <2>4. CASE Acquire(r)
    <3>1. /\ stage[r] = "running" /\ stage' = [stage EXCEPT ![r] = "waiting"]
          /\ ahead' = [ahead EXCEPT ![r] = Waiting]
      BY <2>4 DEF Acquire
    <3>2. Waiting' = Waiting \cup {r} /\ Held' = Held /\ r \notin Waiting
      BY <1>0, <2>0, <3>1, StageSets DEF Waiting, Held
    <3>3. \A q \in Requests : ahead'[q] = IF q = r THEN Waiting ELSE ahead[q]
      BY <1>0, <3>1 DEF TypeOK
    <3>4. \A q \in Requests : ahead'[q] \subseteq Waiting' \ {q}
      BY <3>2, <3>3 DEF Queue
    <3>5. ASSUME NEW q \in Requests, NEW p \in ahead'[q]
          PROVE  ahead'[p] \subseteq ahead'[q]
      <4>1. p \in Waiting /\ p \in Requests /\ p # r
        BY <3>2, <3>3, <3>5 DEF Queue, Waiting
      <4> QED
        BY <3>3, <3>5, <4>1 DEF Queue
    <3> QED
      BY <3>2, <3>4, <3>5 DEF Queue
  <2>5. CASE Grant(r)
    <3>1. /\ stage[r] = "waiting" /\ stage' = [stage EXCEPT ![r] = "querying"]
          /\ ahead' = Leave(r) /\ Cardinality(Held) < MaxConns
      BY <2>5 DEF Grant, First
    <3>2. Waiting' = Waiting \ {r} /\ Held' = Held \cup {r} /\ r \notin Held
      BY <1>0, <2>0, <3>1, StageSets DEF Held
    <3>3. Cardinality(Held') <= MaxConns
      BY <1>0, <3>1, <3>2, FS_AddElement, PoolAssumption
    <3> QED
      BY <3>1, <3>2, <3>3, QueueLeft
  <2>6. CASE Refuse(r)
    <3>1. /\ stage[r] = "waiting" /\ stage' = [stage EXCEPT ![r] = "running"]
          /\ ahead' = Leave(r)
      BY <2>6 DEF Refuse, First
    <3>2. Waiting' = Waiting \ {r} /\ Held' = Held
      BY <1>0, <2>0, <3>1, StageSets DEF Held
    <3> QED
      BY <3>1, <3>2, QueueLeft DEF Queue
  <2>7. CASE Finish(r)
    <3>1. /\ stage[r] = "querying" /\ stage' = [stage EXCEPT ![r] = "running"]
          /\ ahead' = ahead
      BY <2>7 DEF Finish
    <3>2. Waiting' = Waiting /\ Held' = Held \ {r} /\ r \in Held
      BY <1>0, <2>0, <3>1, StageSets DEF Waiting, Held
    <3>3. Cardinality(Held') <= MaxConns
      BY <1>0, <3>2, FS_RemoveElement, PoolAssumption DEF Queue
    <3> QED
      BY <3>1, <3>2, <3>3 DEF Queue
  <2>8. CASE Answer(r)
    <3>1. stage[r] = "running" /\ stage' = [stage EXCEPT ![r] = "idle"] /\ ahead' = ahead
      BY <2>8 DEF Answer
    <3>2. Waiting' = Waiting /\ Held' = Held
      BY <1>0, <2>0, <3>1, StageSets DEF Waiting, Held
    <3> QED
      BY <3>1, <3>2, QueueStays
  <2>9. CASE Disconnect(r)
    <3>1. /\ stage[r] # "querying" /\ stage' = [stage EXCEPT ![r] = "idle"]
          /\ ahead' = Leave(r)
      BY <2>9 DEF Disconnect
    <3>2. Waiting' = Waiting \ {r} /\ Held' = Held
      BY <1>0, <2>0, <3>1, StageSets DEF Held
    <3> QED
      BY <3>1, <3>2, QueueLeft DEF Queue
  <2>10. CASE CloseIdle(r)
    BY <1>1, <2>10 DEF CloseIdle
  <2> QED
    BY <1>3, <2>1, <2>2, <2>3, <2>4, <2>5, <2>6, <2>7, <2>8, <2>9, <2>10 DEF RequestNext
<1>4. ASSUME MainNext \/ Listen \/ ListenFails \/ Signal
      PROVE  Gone \/ UNCHANGED << stage, ahead >>
  BY <1>4 DEF MainNext, StartFails, Start, Notify, Killed, Stop, Abort, Drained, TimedOut,
       ClosePool, Exit, Listen, ListenFails, Signal
<1> QED
  BY <1>1, <1>2, <1>3, <1>4 DEF Next

(* The pool never has more connections in use than it may, and never keeps *)
(* a free one while requests wait for one: this is why none of them waits  *)
(* for ever as long as statements end and goroutines run.                  *)
THEOREM PoolNeverStuck == Spec => []PoolServes
<1>1. Init => Queue
  <2> SUFFICES ASSUME Init PROVE Queue
    OBVIOUS
  <2>1. Held = {} /\ Waiting = {}
    BY DEF Init, Held, Waiting
  <2> QED
    BY <2>1, FS_EmptySet, PoolAssumption DEF Init, Queue
<1>2. Queue => PoolServes
  <2> SUFFICES ASSUME Queue, Waiting # {}, Cardinality(Held) < MaxConns
               PROVE  \E r \in Waiting : First(r)
    BY DEF Queue, PoolServes
  <2>1. Waiting \subseteq Requests
    BY DEF Waiting
  <2>2. \E r \in Waiting : ahead[r] = {}
    <3>1. /\ \A r \in Waiting : ahead[r] \subseteq Waiting \ {r}
          /\ \A r \in Waiting : \A q \in ahead[r] : ahead[q] \subseteq ahead[r]
      BY <2>1 DEF Queue
    <3>2. IsFiniteSet(Requests) /\ Waiting # {}
      BY SlotAssumption
    <3> HIDE DEF Waiting
    <3> QED
      BY <2>1, <3>1, <3>2, FirstOfMany
  <2> QED
    BY <2>2 DEF First, Waiting
<1> QED
  BY <1>1, <1>2, Inductive, QueueHolds, PTL DEF Spec
=============================================================================
