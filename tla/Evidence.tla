-------------------------------- MODULE Evidence --------------------------------
(***************************************************************************)
(* The evidence a lane takes money on, over days: a manifest is scaffolded *)
(* or written, its endpoints are linted and dated, a canary payment runs   *)
(* (`corridor canary --write`, packages/cli/src/{index,wire,proof}.ts) and *)
(* its proof is recorded; the operator goes on editing the file; a service *)
(* that loaded it takes payments.  The engine's run is that of Engine,     *)
(* reduced to: admitted, paid, completed.                                  *)
(*                                                                         *)
(* The operator keeps the schema's rules: the date goes when the endpoints *)
(* or their protocol change, and nobody types a proof.                     *)
(***************************************************************************)
EXTENDS Manifest, Intake

CONSTANTS
    Saved,        \* the manifests the operator writes, without evidence
    Toml,         \* the stellar.tomls the anchor may publish
    Amount,       \* what a canary is asked for
    Body,         \* the bodies POST /payments gets
    Sold,         \* what a quote of it may have us send
    Caps,         \* ceilings an operator sets for later canaries
    MaxDay, MaxEdits, MaxCanaries   \* bounds

ASSUME EvidenceAssumption ==
    /\ MaxDay \in Nat /\ MaxEdits \in Nat /\ MaxCanaries \in Nat
    /\ ProofAge \in Nat
    /\ \A m \in Saved : m.proof = None /\ m.dest.verifiedAt = None

(* What is written down, as far as it is a number, is a whole number of    *)
(* units of the last decimal place.                                        *)
Countable(a) == toScaled(a) \in Int \cup {None}

ASSUME CountableAssumption ==
    /\ \A m \in Saved : Countable(m.limits.min) /\ Countable(m.limits.max)
    /\ \A cap \in Caps \cup {RecordedCap, UnprovenMax} : Countable(cap)
    /\ UnprovenMax # None
    /\ \A b \in Body : b # Bad /\ isText(b.sourceAmount) => Countable(b.sourceAmount.amount)

(* A manifest has these fields, if only to leave them out.                 *)
Manifests == {"source", "dest", "fx", "method", "settlement", "limits", "proof"}

ASSUME ShapeAssumption ==
    \A m \in Saved :
        DOMAIN m = Manifests /\ DOMAIN m.dest = {"protocol", "home", "endpoints", "verifiedAt"}

VARIABLES
    published,   \* the stellar.toml of each day
    day,
    file,        \* the manifest on disk
    served,      \* the corridor the service loaded
    canary,      \* the canary command: what it loaded, was asked, sent, writes
    completed,   \* history: the canaries that completed
    edits        \* bound: saves so far, but for the first scaffold

vars == <<published, day, file, served, canary, completed, edits>>

Day == 0 .. MaxDay

Today == published[day]

NoCanary == [pc |-> "idle", c |-> None, asked |-> None, sent |-> None, draft |-> None]

-----------------------------------------------------------------------------
(* The operator *)

(* corridor new, over what is there; a probe that could not fetch the toml *)
(* saw none.                                                               *)
newCommand(probes, sourceAsset, network, allowNotRunnable) ==
    /\ file # None => edits < MaxEdits
    /\ LET seen == IF "toml_fetch" \in probes THEN Today ELSE <<>>
           m == manifestFromProbe(probes, seen, sourceAsset, network, allowNotRunnable, day)
       IN  m # None /\ file' = m
    /\ edits' = IF file = None THEN edits ELSE edits + 1
    /\ UNCHANGED <<published, day, served, canary, completed>>

(* A save keeps the proof, and the date of endpoints it does not change. *)
Edited(m) ==
    IF file = None THEN m
    ELSE [m EXCEPT !.proof = file.proof,
                   !.dest.verifiedAt = IF /\ m.dest.endpoints = file.dest.endpoints
                                          /\ Protocol(m.dest) = Protocol(file.dest)
                                          /\ m.dest.home = file.dest.home
                                       THEN file.dest.verifiedAt ELSE None]

Edit ==
    /\ edits < MaxEdits
    /\ edits' = edits + 1
    /\ \/ \E m \in Saved : file' = Edited(m)
       \/ /\ file # None /\ file.proof # None
          /\ \E cap \in Caps : file' = [file EXCEPT !.proof.cap = cap]
    /\ UNCHANGED <<published, day, served, canary, completed>>

(* corridor lint finds no error, and the operator dates the endpoints. *)
Verify ==
    /\ file # None /\ parseCorridor(file) # None
    /\ lintCorridor(parseCorridor(file), Today)
    /\ file' = [file EXCEPT !.dest.verifiedAt = day]
    /\ UNCHANGED <<published, day, served, canary, completed, edits>>

(* The chain is read back on the day the canary completes.                 *)
DayPasses ==
    /\ day < MaxDay /\ canary.pc # "completed"
    /\ day' = day + 1
    /\ UNCHANGED <<published, file, served, canary, completed, edits>>

-----------------------------------------------------------------------------
(* The service *)

(* It loads the manifests that parse when it starts. *)
Serve ==
    /\ file # None
    /\ served' = parseCorridor(file)
    /\ UNCHANGED <<published, day, file, canary, completed, edits>>

(* The one lane of the service, by its id. *)
corridors == [id \in IF served = None THEN {} ELSE {"lane"} |-> served]

(* The bodies that parse do so on any day. *)
Parsed == {b \in Body : parsePaymentBody(b)}

(* POST /payments, and execute() up to its idempotency gate.               *)
Taken(b) ==
    Accepted(b, corridors) /\ Admits(served, b.sourceAmount.amount, day)

-----------------------------------------------------------------------------
(* The canary *)

(* main() takes a positive amount; --network may be left out. *)
canaryArgs(a, network) == isSettleableAmount(a) /\ network \in {None, "public", "testnet"}

(* executeCanary up to the secret: the lane is verified, mainnet was asked *)
(* for by name, the amount is within the cap.                              *)
executeCanary(a, network) ==
    LET c == parseCorridor(file)
    IN  /\ canary.pc = "idle" /\ canaryArgs(a, network)
        /\ file # None /\ c # None
        /\ liveness(c, day) = "verified"
        /\ network = "public" <=> c.settlement.network = "public"
        /\ AtMost(a, CanaryCap(c, RecordedCap))
        /\ canary' = [NoCanary EXCEPT !.pc = "started", !.c = c, !.asked = a]
        /\ UNCHANGED <<published, day, file, served, completed, edits>>

Stop ==
    /\ canary' = NoCanary
    /\ UNCHANGED <<published, day, file, served, completed, edits>>

(* No secret, the stack is unfit, the anchor does not quote the asset, a   *)
(* customer is not registered.                                             *)
Unfit == canary.pc = "started" /\ Stop

(* execute() admits it and pays what the quote says.                       *)
CanaryPays(sell) ==
    /\ canary.pc = "started" /\ Admits(canary.c, canary.asked, day)
    /\ canary' = [canary EXCEPT !.pc = "paid", !.sent = sell]
    /\ UNCHANGED <<published, day, file, served, completed, edits>>

(* The run completes. *)
CanaryCompletes ==
    /\ canary.pc = "paid" /\ Cardinality(completed) < MaxCanaries
    /\ canary' = [canary EXCEPT !.pc = "completed"]
    /\ completed' = completed \cup
          {[tx |-> Cardinality(completed) + 1, amount |-> canary.sent, on |-> day]}
    /\ UNCHANGED <<published, day, file, served, edits>>

(* The run was a dry one or ends in any other state, or nothing is to be   *)
(* written, or the chain does not confirm the payment, or the process dies:*)
(* the manifest is not touched.                                            *)
Abandon == canary.pc \in {"paid", "completed", "writing"} /\ Stop

(* buildCanaryProof: of the payment the chain shows.  It dates itself.     *)
buildCanaryProof ==
    [completedAt |-> day, tx |-> Cardinality(completed), amount |-> canary.sent,
     maxAge |-> IF canary.c.proof = None THEN ProofAge ELSE canary.c.proof.maxAge,
     cap |-> CanaryCap(canary.c, RecordedCap)]

(* Mutant of Provable: a payment on the chain is enough. *)
ProvableOncePaid == canary.pc \in {"paid", "completed"}

Provable == canary.pc = "completed"

(* finalizeCanary, with --write: the file is read again, and its proof set.*)
finalizeCanary ==
    /\ Provable /\ file # None
    /\ isSettleableAmount(canary.sent)
    /\ AtMost(canary.sent, CanaryCap(canary.c, RecordedCap))
    /\ canary' = [NoCanary EXCEPT !.pc = "writing",
                                  !.draft = [file EXCEPT !.proof = buildCanaryProof]]
    /\ UNCHANGED <<published, day, file, served, completed, edits>>

(* writeProofManifest renames what it wrote over the file, and over what   *)
(* was saved in the meantime.                                              *)
writeProofManifest ==
    /\ canary.pc = "writing"
    /\ file' = canary.draft
    /\ canary' = NoCanary
    /\ UNCHANGED <<published, day, served, completed, edits>>

-----------------------------------------------------------------------------

Init ==
    /\ published \in [Day -> Toml]
    /\ day = 0
    /\ file = None /\ served = None
    /\ canary = NoCanary
    /\ completed = {}
    /\ edits = 0

Operate ==
    \/ \E probes \in SUBSET {"toml_fetch", "sep31_info"} :
          \E network \in {"public", "testnet"}, allow \in BOOLEAN :
             newCommand(probes, "USD", network, allow)
    \/ Edit \/ Verify \/ DayPasses

Canary ==
    \/ \E a \in Amount, network \in {None, "public", "testnet"} :
          executeCanary(a, network)
    \/ \E sell \in Sold : CanaryPays(sell)
    \/ Unfit \/ CanaryCompletes \/ Abandon \/ finalizeCanary \/ writeProofManifest

Next == Operate \/ Canary \/ Serve

Spec == Init /\ [][Next]_vars

-----------------------------------------------------------------------------
(* Properties *)

(* The canary a proof tells of, fresh on that day. *)
Backed(proof, on) ==
    \E e \in completed :
        e.tx = proof.tx /\ e.amount = proof.amount /\ on - e.on \in 0 .. proof.maxAge - 1

(* A lane counts as proven only on a canary payment that completed, on the *)
(* chain, no longer ago than its proof may be old: also in a service that  *)
(* loaded the manifest days before, and in a file that was saved, scaffolded *)
(* anew or written back while a proof was being written                    *)
(* (packages/manifest/src/liveness.ts:16-17, docs/operations.md:252-259).  *)
ProvenByACanary ==
    \A c \in {served, IF file = None THEN None ELSE parseCorridor(file)} \ {None} :
        liveness(c, day) = "proven" => Backed(c.proof, day)

(* What the service would take today is an amount of an asset the lane     *)
(* settles, positive and within the lane's limits; above the cap of an     *)
(* unproven lane it is backed by a canary; and on the public network every *)
(* endpoint was published by the anchor on the day the manifest claims,    *)
(* unless its domain is a placeholder, of which lint compares nothing      *)
(* (packages/service/src/index.ts:617-660, packages/engine/src/run.ts:     *)
(* 329-390, packages/manifest/src/index.ts:37-46).                         *)
AdmittedOnEvidence ==
    \A b \in Parsed : Taken(b) =>
        LET units == toScaled(b.sourceAmount.amount)
        IN  /\ b.sourceAmount.asset \in {served.source.asset, served.settlement.bridge}
            /\ units > 0
            /\ served.limits.min # None => units >= toScaled(served.limits.min)
            /\ served.limits.max # None => units <= toScaled(served.limits.max)
            /\ units > toScaled(CanaryCap(served, UnprovenMax)) => Backed(served.proof, day)
            /\ served.settlement.network = "public" /\ ~isPlaceholderDomain(served.dest.home) =>
                  \A name \in Linted(served) :
                      /\ name \in DOMAIN published[served.dest.verifiedAt]
                      /\ published[served.dest.verifiedAt][name] = served.dest.endpoints[name]

=============================================================================
