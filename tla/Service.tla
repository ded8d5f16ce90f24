------------------------------- MODULE Service -------------------------------
(***************************************************************************)
(* The HTTP service of packages/service/src/index.ts, one process of it:   *)
(* the rate limiter (in process, or redis-rate-limiter.ts), authentication,*)
(* POST /payments and the executions it starts, draining, and              *)
(* gracefulShutdown as the entry point wires it to SIGTERM.  An execution  *)
(* is Engine's execute(), reduced to: running, resolved, rejected.         *)
(***************************************************************************)
EXTENDS Integers

CONSTANTS
    Request,      \* the requests POST /payments gets
    Capacity,     \* tokens of a full bucket
    MaxRefill     \* bound: tokens that come back

ASSUME ServiceAssumption ==
    Capacity \in Nat \ {0} /\ MaxRefill \in Nat

VARIABLES
    config,      \* are API keys configured, and which limiter
    bearer,      \* what each request presents
    pc,          \* where its handler is
    conn,        \* its connection
    exec,        \* the execution it started
    draining,
    shutdown,    \* gracefulShutdown: not called, closing, or out of time
    proc,        \* the process
    tokens,      \* the bucket of each client
    refills,     \* history: tokens that came back to it
    strangers    \* history: unrecognised requests that were given a token

handlers == <<config, bearer, pc, conn>>
process == <<draining, shutdown, proc>>
limits == <<tokens, refills, strangers>>
vars == <<config, bearer, pc, conn, exec, draining, shutdown, proc,
          tokens, refills, strangers>>

(* All requests come from one address, so a client is its address or its   *)
(* recognised API key; a bearer that is not valid is any other, or none.   *)
Clients == {"ip", "key", "forged"}

Recognised(r) == config.auth /\ bearer[r] = "valid"

(* Mutant of clientKey: any bearer is an identity.                         *)
clientKeyOfBearer(r) ==
    IF bearer[r] = "valid" THEN "key" ELSE "forged"

clientKey(r) == IF Recognised(r) THEN "key" ELSE "ip"

Goto(r, p) == pc' = [pc EXCEPT ![r] = p]

Up == proc = "up"

-----------------------------------------------------------------------------
(* The limiter *)

(* TokenBucket.take of a request, and the script that does it in Redis. *)
Taken(r) ==
    /\ tokens[clientKey(r)] > 0
    /\ tokens' = [tokens EXCEPT ![clientKey(r)] = @ - 1]
    /\ strangers' = IF Recognised(r) THEN strangers ELSE strangers + 1
    /\ UNCHANGED refills

Refilled(c) == IF tokens[c] < Capacity THEN tokens[c] + 1 ELSE Capacity

(* Time gives a token back.                                                *)
Refill(c) ==
    /\ refills[c] < MaxRefill
    /\ tokens' = [tokens EXCEPT ![c] = Refilled(c)]
    /\ refills' = [refills EXCEPT ![c] = @ + 1]
    /\ UNCHANGED <<strangers, handlers, exec, process>>

-----------------------------------------------------------------------------
(* A request *)

(* A handler that answers leaves the connection open for another request.  *)
Answer(r) == Goto(r, "answered")

(* A request arrives and handle runs up to limiter.take: nothing is        *)
(* checked before it.                                                      *)
Receive(r) ==
    /\ Up /\ shutdown = "no" /\ pc[r] = "idle"
    /\ conn' = [conn EXCEPT ![r] = "open"]
    /\ \/ Taken(r) /\ Goto(r, "limited")
       \/ tokens[clientKey(r)] = 0 /\ Answer(r) /\ UNCHANGED limits
       \/ config.limiter = "redis_closed" /\ Answer(r) /\ UNCHANGED limits
       \/ config.limiter = "redis_open" /\ Goto(r, "limited") /\ UNCHANGED limits
    /\ UNCHANGED <<config, bearer, exec, process>>

(* Mutant of Refused: draining was read before the limiter was awaited. *)
RefusedEarly(r) == config.auth /\ bearer[r] # "valid"

(* 401, or 503 while draining. *)
Refused(r) == (config.auth /\ bearer[r] # "valid") \/ draining

(* What runs when take() resolves, in one turn of the event loop: auth, the*)
(* draining check, the body, and the start of execute().                   *)
Admit(r) ==
    /\ Up /\ pc[r] = "limited"
    /\ \/ Answer(r) /\ UNCHANGED exec
       \/ /\ ~Refused(r)
          /\ exec' = [exec EXCEPT ![r] = "running"]
          /\ Goto(r, "awaiting")
    /\ UNCHANGED <<config, bearer, conn, process, limits>>

(* execute() resolves, with any outcome. *)
Settle(r) ==
    /\ Up /\ exec[r] = "running"
    /\ exec' = [exec EXCEPT ![r] = "resolved"]
    /\ Answer(r)
    /\ UNCHANGED <<config, bearer, conn, process, limits>>

(* execute() rejects: the handler answers 500; the promise finally returns *)
(* rejects too, and nobody handles it, which ends a Node process.          *)
Reject(r) ==
    /\ Up /\ exec[r] = "running"
    /\ exec' = [exec EXCEPT ![r] = "rejected"]
    /\ Answer(r)
    /\ proc' = "crashed"
    /\ UNCHANGED <<config, bearer, conn, draining, shutdown, limits>>

(* The client goes away; the execution it asked for goes on. *)
Disconnect(r) ==
    /\ Up /\ conn[r] = "open"
    /\ conn' = [conn EXCEPT ![r] = "left"]
    /\ UNCHANGED <<config, bearer, pc, exec, process, limits>>

-----------------------------------------------------------------------------
(* Shutdown *)

Idle(r) == pc[r] = "answered"

(* Mutant of ClosedAtOnce: closeAllConnections. *)
ClosedAtOnceAll == [r \in Request |-> "closed"]

(* closeIdleConnections, when the server closes. *)
ClosedAtOnce == [r \in Request |-> IF Idle(r) /\ conn[r] = "open" THEN "closed" ELSE conn[r]]

(* gracefulShutdown: drain(), srv.close(), closeIdleConnections(). *)
Shutdown ==
    /\ Up /\ shutdown = "no"
    /\ shutdown' = "closing"
    /\ draining' = TRUE
    /\ conn' = ClosedAtOnce
    /\ UNCHANGED <<config, bearer, pc, exec, proc, limits>>

(* The server has no connection left: done, and the entry point exits. *)
ServerClosed ==
    /\ Up /\ shutdown = "closing"
    /\ \A r \in Request : conn[r] # "open"
    /\ proc' = "exited"
    /\ UNCHANGED <<handlers, exec, draining, shutdown, limits>>

(* Mutant of Grace: it logs the keys and waits on. *)
GraceLogs ==
    /\ Up /\ shutdown = "closing"
    /\ shutdown' = "grace"
    /\ UNCHANGED <<handlers, exec, draining, proc, limits>>

(* The grace window ends: every connection is closed, and done. *)
Grace ==
    /\ Up /\ shutdown = "closing"
    /\ shutdown' = "grace"
    /\ conn' = [r \in Request |-> "closed"]
    /\ proc' = "exited"
    /\ UNCHANGED <<config, bearer, pc, exec, draining, limits>>

Init ==
    /\ config \in [auth : BOOLEAN, limiter : {"memory", "redis_closed", "redis_open"}]
    /\ bearer \in [Request -> {"valid", "forged"}]
    /\ pc = [r \in Request |-> "idle"]
    /\ conn = [r \in Request |-> "none"]
    /\ exec = [r \in Request |-> "none"]
    /\ draining = FALSE
    /\ shutdown = "no"
    /\ proc = "up"
    /\ tokens = [c \in Clients |-> Capacity]
    /\ refills = [c \in Clients |-> 0]
    /\ strangers = 0

Step(r) == Admit(r) \/ Settle(r) \/ Reject(r)

Next ==
    \/ \E r \in Request : Receive(r) \/ Step(r) \/ Disconnect(r)
    \/ \E c \in {"ip", "key"} : Refill(c)
    \/ Shutdown \/ ServerClosed \/ Grace

Spec == Init /\ [][Next]_vars

(* Handlers and executions run on; the grace timer fires. *)
FairSpec == Spec /\ WF_vars(Grace) /\ \A r \in Request : WF_vars(Step(r))

-----------------------------------------------------------------------------
(* Properties *)

TypeOK ==
    /\ config \in [auth : BOOLEAN, limiter : {"memory", "redis_closed", "redis_open"}]
    /\ bearer \in [Request -> {"valid", "forged"}]
    /\ pc \in [Request -> {"idle", "limited", "awaiting", "answered"}]
    /\ conn \in [Request -> {"none", "open", "left", "closed"}]
    /\ exec \in [Request -> {"none", "running", "resolved", "rejected"}]
    /\ draining \in BOOLEAN
    /\ shutdown \in {"no", "closing", "grace"}
    /\ proc \in {"up", "exited", "crashed"}
    /\ tokens \in [Clients -> 0 .. Capacity]
    /\ refills \in [Clients -> 0 .. MaxRefill]
    /\ strangers \in Nat

Running(r) == exec[r] = "running"

(* No execution starts once the service drains, also for a request that    *)
(* was waiting for the limiter when the signal came (index.ts:486).        *)
NothingStartsWhileDraining ==
    [][\A r \in Request : Running(r)' => Running(r) \/ ~draining]_vars

(* All requests without a recognised key share their address's tokens,     *)
(* refused credentials included, whatever bearers they present             *)
(* (index.ts:523-533, 584-589).                                            *)
StrangersShareABucket == strangers <= Capacity + refills["ip"]

(* Until the grace window ends, shutting down does not sever an execution  *)
(* whose client still waits (index.ts:938-943).                            *)
WaitingClientsAreNotSevered ==
    proc = "exited" /\ shutdown = "closing" =>
        \A r \in Request : Running(r) => conn[r] = "left"

(* A shutdown ends, whatever executions and clients do. *)
ShutdownEnds == shutdown = "closing" ~> ~Up

=============================================================================
