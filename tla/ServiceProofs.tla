---------------------------- MODULE ServiceProofs ----------------------------
(***************************************************************************)
(* What holds of a service process for any requests and bucket size.       *)
(*                                                                         *)
(* A token that a stranger was given is missing from its address's bucket  *)
(* or came back to it; an execution runs only while its handler awaits it, *)
(* and until the grace window ends an awaiting handler's connection is     *)
(* closed by nobody but its client.                                        *)
(***************************************************************************)
EXTENDS Service, TLAPS

Placed ==
    /\ config \in [auth : BOOLEAN, limiter : {"memory", "redis_closed", "redis_open"}]
    /\ bearer \in [Request -> {"valid", "forged"}]
    /\ pc \in [Request -> {"idle", "limited", "awaiting", "answered"}]
    /\ conn \in [Request -> {"none", "open", "left", "closed"}]
    /\ exec \in [Request -> {"none", "running", "resolved", "rejected"}]
    /\ draining \in BOOLEAN
    /\ shutdown \in {"no", "closing", "grace"}
    /\ proc \in {"up", "exited", "crashed"}

(* The bucket of an address. *)
Metered ==
    /\ tokens \in [Clients -> 0 .. Capacity]
    /\ refills \in [Clients -> 0 .. MaxRefill]
    /\ strangers \in Nat
    /\ strangers + tokens["ip"] <= Capacity + refills["ip"]

(* The connection of a handler at work. *)
Connected ==
    /\ \A r \in Request : Running(r) => pc[r] = "awaiting"
    /\ \A r \in Request : pc[r] \in {"limited", "awaiting"} /\ shutdown # "grace" =>
           conn[r] \in {"open", "left"}
    /\ WaitingClientsAreNotSevered

-----------------------------------------------------------------------------

LEMMA InitPlaced == Init => Placed /\ Metered /\ Connected
  <1> SUFFICES ASSUME Init PROVE Placed /\ Metered /\ Connected
    OBVIOUS
  <1>1. Placed
    BY DEF Init, Placed
  <1>2. Metered
    BY ServiceAssumption DEF Init, Metered, Clients, ServiceAssumption
  <1>3. Connected
    BY DEF Init, Connected, Running, WaitingClientsAreNotSevered
  <1> QED BY <1>1, <1>2, <1>3

LEMMA NextPlaced == Placed /\ [Next]_vars => Placed'
  <1> SUFFICES ASSUME Placed, [Next]_vars PROVE Placed'
    OBVIOUS
  <1> USE DEF Placed
  <1>1. ASSUME NEW r \in Request, Receive(r) PROVE Placed'
    BY <1>1 DEF Receive, Taken, Goto, Answer, process
  <1>2. ASSUME NEW r \in Request, Step(r) PROVE Placed'
    BY <1>2 DEF Step, Admit, Settle, Reject, Goto, Answer, process
  <1>3. ASSUME NEW r \in Request, Disconnect(r) PROVE Placed'
    BY <1>3 DEF Disconnect, process
  <1>4. ASSUME NEW c \in {"ip", "key"}, Refill(c) PROVE Placed'
    BY <1>4 DEF Refill, process, handlers
  <1>5. CASE Shutdown
    BY <1>5 DEF Shutdown, ClosedAtOnce
  <1>6. CASE ServerClosed \/ Grace
    BY <1>6 DEF ServerClosed, Grace, handlers
  <1>7. CASE UNCHANGED vars
    BY <1>7 DEF vars
  <1> QED BY <1>1, <1>2, <1>3, <1>4, <1>5, <1>6, <1>7 DEF Next

(* A token leaves a bucket, and a stranger's is its address's. *)
LEMMA TakenMetered ==
    ASSUME Metered, NEW r \in Request, Taken(r)
    PROVE  Metered'
  <1>1. /\ tokens \in [Clients -> 0 .. Capacity] /\ clientKey(r) \in {"ip", "key"}
        /\ tokens[clientKey(r)] > 0 /\ UNCHANGED refills
        /\ tokens' = [tokens EXCEPT ![clientKey(r)] = @ - 1]
    BY DEF Metered, Taken, clientKey
  <1>2. tokens' \in [Clients -> 0 .. Capacity]
    BY <1>1, ServiceAssumption DEF Clients, ServiceAssumption
  <1>3. CASE Recognised(r)
    <2>1. strangers' = strangers /\ tokens'["ip"] = tokens["ip"]
      BY <1>1, <1>3 DEF Taken, clientKey, Clients
    <2> QED BY <1>1, <1>2, <2>1 DEF Metered
  <1>4. CASE ~Recognised(r)
    <2>1. strangers' = strangers + 1 /\ tokens'["ip"] = tokens["ip"] - 1
      BY <1>1, <1>4 DEF Taken, clientKey, Clients
    <2>2. tokens["ip"] \in Int /\ refills["ip"] \in Int
      BY DEF Metered, Clients
    <2> QED BY <1>1, <1>2, <2>1, <2>2, ServiceAssumption DEF Metered, ServiceAssumption
  <1> QED BY <1>3, <1>4

(* A token comes back. *)
LEMMA RefillMetered ==
    ASSUME Metered, NEW c \in {"ip", "key"}, Refill(c)
    PROVE  Metered'
  <1>1. /\ c \in Clients /\ tokens[c] \in 0 .. Capacity /\ refills[c] \in 0 .. MaxRefill
        /\ refills[c] < MaxRefill /\ UNCHANGED strangers
        /\ tokens' = [tokens EXCEPT ![c] = Refilled(c)]
        /\ refills' = [refills EXCEPT ![c] = @ + 1]
    BY DEF Metered, Refill, Clients
  <1>2. Refilled(c) \in 0 .. Capacity /\ Refilled(c) <= tokens[c] + 1
    BY <1>1, ServiceAssumption DEF Refilled, ServiceAssumption
  <1>3. tokens' \in [Clients -> 0 .. Capacity] /\ refills' \in [Clients -> 0 .. MaxRefill]
    BY <1>1, <1>2, ServiceAssumption DEF Metered, ServiceAssumption
  <1>4. CASE c = "ip"
    <2>1. tokens'["ip"] = Refilled(c) /\ refills'["ip"] = refills["ip"] + 1
      BY <1>1, <1>4 DEF Metered, Clients
    <2> QED BY <1>1, <1>2, <1>3, <1>4, <2>1, ServiceAssumption DEF Metered, ServiceAssumption
  <1>5. CASE c = "key"
    <2>1. tokens'["ip"] = tokens["ip"] /\ refills'["ip"] = refills["ip"]
      BY <1>1, <1>5 DEF Metered, Clients
    <2> QED BY <1>1, <1>3, <2>1 DEF Metered
  <1> QED BY <1>4, <1>5

LEMMA NextMetered == Metered /\ [Next]_vars => Metered'
  <1> SUFFICES ASSUME Metered, [Next]_vars PROVE Metered'
    OBVIOUS
  <1>1. CASE UNCHANGED limits
    BY <1>1 DEF limits, Metered
  <1>2. CASE \E r \in Request : Taken(r)
    BY <1>2, TakenMetered
  <1>3. CASE \E c \in {"ip", "key"} : Refill(c)
    BY <1>3, RefillMetered
  <1> QED
    BY <1>1, <1>2, <1>3
       DEF Next, Receive, Step, Admit, Settle, Reject, Disconnect, Shutdown, ServerClosed,
           Grace, vars, limits

-----------------------------------------------------------------------------

LEMMA NextConnected == Placed /\ Connected /\ [Next]_vars => Connected'
  <1> SUFFICES ASSUME Placed, Connected, [Next]_vars PROVE Connected'
    OBVIOUS
  <1> USE DEF Placed, Connected, Running, WaitingClientsAreNotSevered
  <1>1. ASSUME NEW r \in Request, Receive(r) PROVE Connected'
    BY <1>1 DEF Receive, Taken, Goto, Answer, Up, process
  <1>2. ASSUME NEW r \in Request, Admit(r) PROVE Connected'
    BY <1>2 DEF Admit, Goto, Answer, Up, process
  <1>3. ASSUME NEW r \in Request, Settle(r) PROVE Connected'
    BY <1>3 DEF Settle, Goto, Answer, Up, process
  <1>4. ASSUME NEW r \in Request, Reject(r) PROVE Connected'
    BY <1>4 DEF Reject, Goto, Answer, Up
  <1>5. ASSUME NEW r \in Request, Disconnect(r) PROVE Connected'
    BY <1>5 DEF Disconnect, Up, process
  <1>6. ASSUME NEW c \in {"ip", "key"}, Refill(c) PROVE Connected'
    BY <1>6 DEF Refill, process, handlers
  <1>7. CASE Shutdown
    BY <1>7 DEF Shutdown, ClosedAtOnce, Idle, Up
  <1>8. CASE ServerClosed
    BY <1>8 DEF ServerClosed, handlers, Up
  <1>9. CASE Grace
    BY <1>9 DEF Grace, Up
  <1>10. CASE UNCHANGED vars
    BY <1>10 DEF vars
  <1> QED BY <1>1, <1>2, <1>3, <1>4, <1>5, <1>6, <1>7, <1>8, <1>9, <1>10 DEF Next, Step

-----------------------------------------------------------------------------
(* Theorems *)

(* Every state of the process is typed. *)
THEOREM Typed == Spec => []TypeOK
  <1>1. Placed /\ Metered => TypeOK
    BY DEF Placed, Metered, TypeOK
  <1> QED BY InitPlaced, NextPlaced, NextMetered, <1>1, PTL DEF Spec

(* Unrecognised requests share their address's tokens, whatever bearers    *)
(* they present, for any number of them (service/src/index.ts:523-540).    *)
THEOREM OneBucket == Spec => []StrangersShareABucket
  <1>1. Metered => StrangersShareABucket
    <2> SUFFICES ASSUME Metered PROVE StrangersShareABucket
      OBVIOUS
    <2>1. tokens["ip"] \in 0 .. Capacity /\ refills["ip"] \in 0 .. MaxRefill
      BY DEF Metered, Clients
    <2> QED BY <2>1, ServiceAssumption DEF Metered, StrangersShareABucket, ServiceAssumption
  <1> QED BY InitPlaced, NextMetered, <1>1, PTL DEF Spec

(* Until the grace window ends no execution loses a client that waits for  *)
(* it (service/src/index.ts:958-1009).                                     *)
THEOREM NotSevered == Spec => []WaitingClientsAreNotSevered
  <1>1. Connected => WaitingClientsAreNotSevered
    BY DEF Connected
  <1> QED BY InitPlaced, NextPlaced, NextConnected, <1>1, PTL DEF Spec

(* No step starts an execution while the service drains, also for a        *)
(* request that was with the limiter (service/src/index.ts:604-621).       *)
THEOREM NothingStarts == Spec => NothingStartsWhileDraining
  <1>1. Placed /\ [Next]_vars =>
            [\A r \in Request : Running(r)' => Running(r) \/ ~draining]_vars
    <2> SUFFICES ASSUME Placed, Next, NEW r \in Request, Running(r)', ~Running(r)
                 PROVE  ~draining
      OBVIOUS
    <2>1. Admit(r) /\ ~Refused(r)
      BY DEF Next, Receive, Step, Admit, Settle, Reject, Disconnect, Refill, Shutdown,
             ServerClosed, Grace, Running, Placed, handlers
    <2> QED BY <2>1 DEF Refused
  <1> QED BY InitPlaced, NextPlaced, <1>1, PTL DEF Spec, NothingStartsWhileDraining

=============================================================================
