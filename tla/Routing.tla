-------------------------------- MODULE Routing --------------------------------
(***************************************************************************)
(* The users of the registry: the attester client (packages/attester),     *)
(* which simulates, sends and confirms a submission, and the resolver that *)
(* decides on the registry's word whether a payment may be routed          *)
(* (packages/router/src/registry-resolver.ts over packages/registry).      *)
(* The chain is Registry's; a client's transaction waits in its account's  *)
(* pool until the network applies it or its time bounds pass.              *)
(***************************************************************************)
EXTENDS Registry

CONSTANTS
    Reader,        \* the payments being resolved
    Lane,          \* the protocols corridors declare
    Allowed,       \* allowUnattestedDomains
    MaxStaleness,  \* maxStalenessLedgers
    Submissions,   \* what may be submitted: an entry, a finding, and in `does`
                   \* the protocols the anchor served when it was probed
    MaxAttempts,   \* bound: the submissions, of all signers
    MaxAdmin       \* bound: the admin's transactions and the restores

ASSUME RoutingAssumption ==
    /\ Allowed \subseteq Domain
    /\ MaxStaleness \in Nat
    /\ MaxAttempts \in Nat /\ MaxAdmin \in Nat

ASSUME SubmissionsAssumption ==
    \A s \in Submissions : s.e \in Entry /\ s.f \in Finding

VARIABLES
    client,      \* where each signer's submission is, and what it answered
    account,     \* its sequence number, its transactions not yet applied
    fate,        \* what became of its last transaction
    reader,      \* the resolution of each payment
    log,         \* the Attested events the registry published
    adminOps,    \* bound: admin transactions and restores so far
    attempts     \* the submissions so far, which number them

chain == <<ledger, live, domains, attested, facts, writer, enrolled, minInterval,
           last, bumped>>
clients == <<client, account, fate>>
all == <<chain, clients, reader, log, adminOps, attempts>>

SomeDomain == CHOOSE d \in Domain : TRUE

NoSubmission ==
    [e |-> Anchor(SomeDomain), f |-> Unattested, does |-> {}, seq |-> 0, n |-> 0]

-----------------------------------------------------------------------------
(* The attester client *)

(* The call returns r and forgets what it submitted.  "failed" stands for   *)
(* MANIFEST_INVALID and SETTLEMENT_FAILED, "unknown" for                   *)
(* ANCHOR_UNAVAILABLE, SETTLEMENT_TIMEOUT and a throw.                     *)
Answer(a, r) ==
    client' = [client EXCEPT ![a] = [s |-> [NoSubmission EXCEPT !.n = client[a].s.n],
                                     pc |-> "idle", answer |-> r]]

(* attest and attestMeta check locally what would be paid for in vain.     *)
WellFormed(s) ==
    /\ s.e[2] \in Canonical
    /\ IF s.e[1] = "anchor" THEN s.f.passed \subseteq s.f.run ELSE "sep31" \in s.f.passed

(* A submission is built on the account's sequence number and simulated    *)
(* against the ledger as it is now; either call may throw.  Of a footprint *)
(* that is archived the simulation may say no or give a result that would  *)
(* have it restored first, which is sent all the same.                     *)
Simulate(a) ==
    /\ client[a].pc = "idle" /\ attempts < MaxAttempts
    /\ attempts' = attempts + 1
    /\ fate' = [fate EXCEPT ![a] = "unsent"]
    /\ \E s \in Submissions :
          LET tx == [e |-> s.e, f |-> s.f, does |-> s.does,
                     seq |-> account[a].seq, n |-> attempts']
              At(pc, sub, r) ==
                  client' = [client EXCEPT ![a] = [s |-> sub, pc |-> pc, answer |-> r]]
              Fails(r) == At("idle", [NoSubmission EXCEPT !.n = attempts'], r)
          IN  \/ ~WellFormed(s) /\ Fails("failed")
              \/ WellFormed(s) /\ Fails("unknown")
              \/ WellFormed(s) /\ ~Accepts(a, s.e, s.f) /\ Fails("failed")
              \/ WellFormed(s) /\ ChecksOut(a, s.e, s.f) /\ At("send", tx, "none")
    /\ UNCHANGED <<chain, account, reader, log, adminOps>>

(* The network takes the transaction, if its sequence number is current.   *)
Enter(a) ==
    /\ client[a].s.seq = account[a].seq
    /\ account' = [account EXCEPT ![a].pool = @ \cup {client[a].s}]
    /\ fate' = [fate EXCEPT ![a] = "pending"]

(* sendTransaction: pending; an error; TRY_AGAIN_LATER, which the client   *)
(* polls for like a pending one; no answer, delivered or not.              *)
Send(a) ==
    /\ client[a].pc = "send"
    /\ \/ Enter(a) /\ client' = [client EXCEPT ![a].pc = "confirm"]
       \/ Enter(a) /\ Answer(a, "unknown")
       \/ UNCHANGED <<account, fate>> /\ client' = [client EXCEPT ![a].pc = "confirm"]
       \/ UNCHANGED <<account, fate>> /\ Answer(a, "failed")
       \/ UNCHANGED <<account, fate>> /\ Answer(a, "unknown")
    /\ UNCHANGED <<chain, reader, log, adminOps, attempts>>

(* Mutant of Confirm: a transaction still pending counts as failed.        *)
ConfirmGivesUp(a) ==
    /\ client[a].pc = "confirm"
    /\ Answer(a, IF fate[a] = "applied" THEN "ok" ELSE "failed")
    /\ UNCHANGED <<chain, account, fate, reader, log, adminOps, attempts>>

(* confirm: the transaction's status, a timeout, or a throw of the poll,   *)
(* which attest() passes on.                                               *)
Confirm(a) ==
    /\ client[a].pc = "confirm"
    /\ \/ fate[a] = "applied" /\ Answer(a, "ok")
       \/ fate[a] = "reverted" /\ Answer(a, "failed")
       \/ fate[a] \in {"unsent", "pending"} /\ Answer(a, "unknown")
       \/ Answer(a, "unknown")
    /\ UNCHANGED <<chain, account, fate, reader, log, adminOps, attempts>>

(* The network applies a transaction, which succeeds or reverts; what else *)
(* the account has in its pool has the same sequence number and is void.   *)
Land(a) ==
    \E s \in account[a].pool :
        /\ account' = [account EXCEPT ![a] = [seq |-> @.seq + 1, pool |-> {}]]
        /\ fate' = IF s.n # client[a].s.n THEN fate
                   ELSE [fate EXCEPT ![a] = IF Accepts(a, s.e, s.f) THEN "applied"
                                            ELSE "reverted"]
        /\ IF Accepts(a, s.e, s.f)
           THEN /\ Submit(a, s.e, s.f)
                /\ log' = IF s.e[1] = "meta" THEN log
                          ELSE log \cup {[d |-> s.e[2], at |-> ledger,
                                          serves |-> s.does]}
           ELSE UNCHANGED <<chain, log>>
        /\ UNCHANGED <<client, reader, adminOps, attempts>>

(* A transaction's time bounds pass. *)
Expire(a) ==
    \E s \in account[a].pool :
        /\ account' = [account EXCEPT ![a].pool = @ \ {s}]
        /\ UNCHANGED <<chain, client, fate, reader, log, adminOps, attempts>>

-----------------------------------------------------------------------------
(* The resolver *)

NoRead == [pc |-> "idle", d |-> SomeDomain, p |-> "none",
           serves |-> "none", age |-> -1, seen |-> 0]

(* UnattestedAnchorError; what was read is forgotten. *)
Refuse(q) == reader' = [reader EXCEPT ![q] = [NoRead EXCEPT !.pc = "refused"]]

Route(q) == reader' = [reader EXCEPT ![q].pc = "routed"]

(* resolve: a domain that is allowed is routed unread, a protocol without  *)
(* a probe is refused, and for the rest both reads start.                  *)
Resolve(q, d, p) ==
    /\ reader[q].pc = "idle"
    /\ CASE d \in Allowed -> Route(q)
         [] d \notin Allowed /\ p \notin Protocol -> Refuse(q)
         [] OTHER -> reader' = [reader EXCEPT ![q] =
                                   [NoRead EXCEPT !.pc = "reading", !.d = d, !.p = p]]
    /\ UNCHANGED <<chain, clients, log, adminOps, attempts>>

(* AnchorRegistry.read: a simulated call, on the latest ledger; what fails *)
(* or reverts is thrown, on an archived entry it may; of the two reads of  *)
(* one Promise.all, one that fails settles the matter.                     *)
read(q, answered) ==
    /\ \/ Refuse(q)
       \/ Readable(reader[q].d) /\ reader' = [reader EXCEPT ![q] = answered]
    /\ UNCHANGED <<chain, clients, log, adminOps, attempts>>

ReadServes(q) ==
    /\ reader[q].pc = "reading" /\ reader[q].serves = "none"
    /\ read(q, [reader[q] EXCEPT !.serves = IF serves(reader[q].d, reader[q].p)
                                            THEN "yes" ELSE "no"])

ReadStaleness(q) ==
    /\ reader[q].pc = "reading" /\ reader[q].age = -1
    /\ read(q, [reader[q] EXCEPT !.age = staleness(reader[q].d), !.seen = ledger])

(* Mutant of Vouched: the age is not looked at. *)
VouchedAtAnyAge(r) == r.serves = "yes" /\ r.age >= 0

Vouched(r) == r.serves = "yes" /\ r.age \in 0 .. MaxStaleness

Decide(q) ==
    /\ reader[q].pc = "reading"
    /\ reader[q].serves # "none" /\ reader[q].age # -1
    /\ IF Vouched(reader[q]) THEN Route(q) ELSE Refuse(q)
    /\ UNCHANGED <<chain, clients, log, adminOps, attempts>>

-----------------------------------------------------------------------------

RoutingInit ==
    /\ Init
    /\ client = [a \in Signer |-> [s |-> NoSubmission, pc |-> "idle", answer |-> "none"]]
    /\ account = [a \in Signer |-> [seq |-> 1, pool |-> {}]]
    /\ fate = [a \in Signer |-> "unsent"]
    /\ reader = [q \in Reader |-> NoRead]
    /\ log = {}
    /\ adminOps = 0
    /\ attempts = 0

Administer ==
    /\ adminOps < MaxAdmin
    /\ adminOps' = adminOps + 1
    /\ Admin \/ \E k \in Key : Restore(k)
    /\ UNCHANGED <<clients, reader, log, attempts>>

Pass ==
    /\ CloseLedger \/ \E d \in Domain : bump(d)
    /\ UNCHANGED <<clients, reader, log, adminOps, attempts>>

Client(a) == Simulate(a) \/ Send(a) \/ Confirm(a) \/ Land(a) \/ Expire(a)

Read(q) ==
    \/ \E d \in Domain, p \in Lane : Resolve(q, d, p)
    \/ ReadServes(q) \/ ReadStaleness(q) \/ Decide(q)

RoutingNext ==
    \/ Administer
    \/ Pass
    \/ \E a \in Signer : Client(a)
    \/ \E q \in Reader : Read(q)

RoutingSpec == RoutingInit /\ [][RoutingNext]_all

-----------------------------------------------------------------------------
(* Properties *)

(* What attest() answers is true for good: ok means applied, and an answer *)
(* that the attestation failed means that the transaction never will be,   *)
(* also when another key's lands between its simulation and itself         *)
(* (packages/attester/src/index.ts:243-264).                               *)
AnswersAreTrue ==
    \A a \in Signer : client[a].pc = "idle" =>
        /\ client[a].answer = "ok" => fate[a] = "applied"
        /\ client[a].answer = "failed" =>
              /\ fate[a] # "applied"
              /\ client[a].s.n \notin {s.n : s \in account[a].pool}

(* A payment is routed on evidence: the anchor did serve the protocol the  *)
(* corridor declares when it was probed for some attestation, and was      *)
(* attested no more than MaxStaleness before the read, whatever was bumped *)
(* or restored since (packages/probe/src/index.ts:8-13,                    *)
(* docs/route-resolver.md:54-57, contracts/registry/src/lib.rs:46-47).     *)
RoutedOnEvidence ==
    \A q \in Reader : reader[q].pc = "routed" /\ reader[q].serves # "none" =>
        /\ \E ev \in log : ev.d = reader[q].d /\ reader[q].p \in ev.serves
        /\ \E ev \in log : ev.d = reader[q].d /\ reader[q].seen - ev.at <= MaxStaleness

=============================================================================
