--------------------------------- MODULE Lane ---------------------------------
(***************************************************************************)
(* The circuit breaker of one corridor: the health store of                *)
(* packages/engine/src/breaker.ts (in memory) and breaker-pg.ts            *)
(* (Postgres), the decorator that meters trips, the gate execute() puts    *)
(* before new work, and the outcomes that finished runs record.  The runs  *)
(* are those of Engine, each reduced to: is there a row, is a call         *)
(* executing it, has it resolved.                                          *)
(***************************************************************************)
EXTENDS Integers, FiniteSets

CONSTANTS
    Run,         \* the keys asked for on this lane
    Threshold,   \* recovery.breaker.consecutive_failures
    MaxClock     \* bound: the clock stops here

ASSUME LaneAssumption == Threshold \in Nat \ {0} /\ MaxClock \in Nat \ {0}

VARIABLES
    store,     \* which store the deployment uses
    lane,      \* the lane's breaker row
    clock,     \* now(), in the unit of trippedAt
    pc,        \* where the call that executes a run is
    row,       \* the run's row in the idempotency store
    report,    \* the outcome a resolved run has to record, and when it did
    tripped,   \* the counter corridor_breaker_tripped, summed over processes
    halt,      \* history: the halts so far, and when they were
    streak     \* history: failures recorded since the last success or reset

breaker == <<lane, tripped, halt, streak>>
laneVars == <<store, lane, clock, pc, row, report, tripped, halt, streak>>

Never == 0     \* an undefined trippedAt

Closed == [state |-> "closed", fails |-> 0, trippedAt |-> Never]
NoReport == [outcome |-> "none", at |-> Never]
NoHalt == [n |-> 0, at |-> Never, first |-> Never, fresh |-> 0, echoes |-> 0]

Reach(r, p) == pc' = [pc EXCEPT ![r] = p]

-----------------------------------------------------------------------------
(* The stores *)

Trips(l) == l.fails + 1 >= Threshold

(* Mutant of Opened: the threshold is passed, not reached. *)
OpenedLate(l) == IF l.fails + 1 > Threshold THEN "open" ELSE l.state

(* A failure opens the lane or leaves it as it is. *)
Opened(l) == IF Trips(l) THEN "open" ELSE l.state

(* Mutant of PostgresTime: every failure past the threshold moves it. *)
PostgresTimeMoves(l, at) == IF Trips(l) THEN at ELSE l.trippedAt

(* tripped_at is written on the transition into open. *)
PostgresTime(l, at) == IF Trips(l) /\ l.state # "open" THEN at ELSE l.trippedAt

(* trippedAt is kept once set; a success does not clear it. *)
MemoryTime(l, at) == IF Trips(l) /\ l.trippedAt = Never THEN at ELSE l.trippedAt

Failure(l, at) ==
    [state |-> Opened(l), fails |-> l.fails + 1,
     trippedAt |-> IF store = "postgres" THEN PostgresTime(l, at) ELSE MemoryTime(l, at)]

(* A success closes the lane, an open one too. *)
Success(l) == [l EXCEPT !.state = "closed", !.fails = 0]

justTripped(l, at) == l.state = "open" /\ l.trippedAt = at

(* The halt whose time an open row carries: the last one with the Postgres *)
(* store, the first since a reset with the memory store.                   *)
Marked == IF store = "postgres" THEN halt.at ELSE halt.first

(* History: a halt (`fresh` counts the first ones since a reset), or an    *)
(* echo, a failure of the marked halt's own instant on a lane it left open. *)
Halted(next, at) ==
    CASE lane.state = "closed" /\ next.state = "open" ->
             [halt EXCEPT !.n = @ + 1, !.at = at,
                          !.first = IF @ = Never THEN at ELSE @,
                          !.fresh = IF halt.first = Never THEN @ + 1 ELSE @]
      [] lane.state = "open" /\ next.state = "open" /\ at = Marked ->
             [halt EXCEPT !.echoes = @ + 1]
      [] OTHER -> halt

(* recordOutcome of the metered store, in one step of the store: it writes *)
(* `next` and counts a trip.                                               *)
RecordOutcome(outcome, at) ==
    LET next == IF outcome = "success" THEN Success(lane) ELSE Failure(lane, at)
    IN  /\ lane' = next
        /\ tripped' = IF outcome = "failure" /\ justTripped(next, at)
                      THEN tripped + 1 ELSE tripped
        /\ streak' = IF outcome = "success" THEN 0 ELSE streak + 1
        /\ halt' = Halted(next, at)

(* An operator reopens the lane. *)
Reset ==
    /\ lane # Closed
    /\ lane' = Closed
    /\ streak' = 0
    /\ halt' = [halt EXCEPT !.first = Never]
    /\ UNCHANGED <<store, clock, pc, row, report, tripped>>

-----------------------------------------------------------------------------
(* Runs *)

(* execute: a run that has a row is resumed, past the gate. *)
Execute(r) ==
    /\ pc[r] \in {"idle", "halted"} /\ row[r] # "resolved"
    /\ Reach(r, IF row[r] = "live" THEN "running" ELSE "gate")
    /\ UNCHANGED <<store, clock, row, report, breaker>>

Gate(r) ==
    /\ pc[r] = "gate"
    /\ Reach(r, IF lane.state = "open" THEN "halted" ELSE "claim")
    /\ UNCHANGED <<store, clock, row, report, breaker>>

Claim(r) ==
    /\ pc[r] = "claim"
    /\ row' = [row EXCEPT ![r] = "live"]
    /\ Reach(r, "running")
    /\ UNCHANGED <<store, clock, report, breaker>>

(* The run's terminal state is stored, with the verdict of                 *)
(* breakerOutcomeFor; a neutral one records nothing.                       *)
Resolve(r) ==
    /\ pc[r] = "running"
    /\ row' = [row EXCEPT ![r] = "resolved"]
    /\ \E o \in {"success", "failure", "neutral"} :
          /\ report' = [report EXCEPT ![r].outcome = o]
          /\ Reach(r, IF o = "neutral" THEN "idle" ELSE "record")
    /\ UNCHANGED <<store, clock, breaker>>

(* recordOutcome: now() is read, and the memory store is written at once;  *)
(* Postgres gets a statement.                                              *)
Record(r) ==
    /\ pc[r] = "record"
    /\ report' = [report EXCEPT ![r].at = clock]
    /\ IF store = "memory"
       THEN RecordOutcome(report[r].outcome, clock) /\ Reach(r, "idle")
       ELSE UNCHANGED breaker /\ Reach(r, "sent")
    /\ UNCHANGED <<store, clock, row>>

(* Postgres applies the statement. *)
Upsert(r) ==
    /\ pc[r] = "sent"
    /\ RecordOutcome(report[r].outcome, report[r].at)
    /\ Reach(r, "idle")
    /\ UNCHANGED <<store, clock, row, report>>

(* A process dies with a call in it: a claimed run keeps its row; an       *)
(* outcome not yet recorded is lost.                                       *)
Crash(r) ==
    /\ pc[r] \in {"gate", "claim", "running", "record"}
    /\ Reach(r, "idle")
    /\ UNCHANGED <<store, clock, row, report, breaker>>

LaneTick ==
    /\ clock < MaxClock
    /\ clock' = clock + 1
    /\ UNCHANGED <<store, pc, row, report, breaker>>

LaneInit ==
    /\ store \in {"memory", "postgres"}
    /\ lane = Closed
    /\ clock = 1
    /\ pc = [r \in Run |-> "idle"]
    /\ row = [r \in Run |-> "none"]
    /\ report = [r \in Run |-> NoReport]
    /\ tripped = 0
    /\ halt = NoHalt
    /\ streak = 0

Step(r) ==
    \/ Execute(r) \/ Gate(r) \/ Claim(r) \/ Resolve(r) \/ Record(r) \/ Upsert(r)

LaneNext == (\E r \in Run : Step(r) \/ Crash(r)) \/ Reset \/ LaneTick

LaneSpec == LaneInit /\ [][LaneNext]_laneVars

-----------------------------------------------------------------------------
(* Properties *)

LaneRecord == [state : {"open", "closed"}, fails : Nat, trippedAt : Nat]

TypeOK ==
    /\ store \in {"memory", "postgres"}
    /\ lane \in LaneRecord /\ clock \in Nat
    /\ pc \in [Run -> {"idle", "gate", "halted", "claim", "running", "record", "sent"}]
    /\ row \in [Run -> {"none", "live", "resolved"}]
    /\ report \in [Run -> [outcome : {"none", "success", "failure", "neutral"}, at : Nat]]
    /\ tripped \in Nat /\ streak \in Nat
    /\ halt \in [n : Nat, at : Nat, first : Nat, fresh : Nat, echoes : Nat]

(* Threshold lane failures in a row, from whichever replicas and however   *)
(* their statements interleave, leave the lane open (breaker-pg.ts:121-130).   *)
StreakHalts == streak >= Threshold => lane.state = "open"

(* The counter of trips (breaker.ts:291-294).  With the Postgres store it  *)
(* is the number of halts, and one more for each failure of the same       *)
(* instant as the halt: an operator never misses one.  The memory store    *)
(* misses a halt after a success, whose trippedAt it does not renew        *)
(* (breaker.ts:225): it counts the first halt after each reset, and never  *)
(* more than there were.                                                   *)
HaltsAreMetered ==
    IF store = "postgres"
    THEN tripped = halt.n + halt.echoes
    ELSE halt.fresh <= tripped /\ tripped <= halt.n + halt.echoes

(* An open lane's trippedAt is the time of a transition into open          *)
(* (breaker.ts:50-51), after any number of earlier trips, successes and    *)
(* resets: of the last one with the Postgres store, of the first since a   *)
(* reset with the memory store.                                            *)
TrippedAtIsTheTrip == lane.state = "open" => lane.trippedAt = Marked

(* An operator learns of a halt, and of when it was.                       *)
HaltsAreKnown == HaltsAreMetered /\ TrippedAtIsTheTrip

=============================================================================
