------------------------------- MODULE Registry -------------------------------
(***************************************************************************)
(* The two Soroban contracts: contracts/registry, which stores when each   *)
(* anchor was attested and what was found, and contracts/attester, which   *)
(* decides whose findings count and how often.  A transaction is applied   *)
(* whole or not at all, so an action is a transaction that succeeds; one   *)
(* whose guard is false reverts and changes nothing.                       *)
(*                                                                         *)
(* Every storage entry has a time to live, in ledgers: `live` holds the    *)
(* last ledger in which it can be used.  After it the entry is archived,   *)
(* and the network rejects a transaction that touches it.                  *)
(***************************************************************************)
EXTENDS Integers, Sequences

CONSTANTS
    Domain,        \* home domains, in every spelling somebody submits
    Canonical,     \* those that is_canonical_domain accepts
    Signer,        \* the keys that sign attestations
    Protocol,      \* the SEPs that have a probe, each named as its probe
    MaxDomains,    \* MAX_DOMAINS
    Threshold,     \* TTL_THRESHOLD
    ExtendTo,      \* TTL_EXTEND_TO
    RestoredFor,   \* what the network's restore gives an archived entry
    Intervals,     \* bound: the cooldowns an admin chooses from
    MaxLedger      \* bound: the last ledger

ASSUME RegistryAssumption ==
    /\ Canonical \subseteq Domain
    /\ MaxDomains \in Nat
    /\ Threshold \in Nat /\ ExtendTo \in Nat /\ Threshold < ExtendTo
    /\ RestoredFor \in Nat
    /\ Intervals \subseteq Nat
    /\ MaxLedger \in Nat

VARIABLES
    ledger,        \* env.ledger().sequence()
    live,          \* each entry's last usable ledger, 0 where there is none
    domains,       \* Domains: the list, in order of first attestation
    attested,      \* attested_ledger of each record and metadata, 0 if none
    facts,         \* the bitmaps of each record
    writer,        \* the contract the registry lets write
    enrolled,      \* the attester's set
    minInterval,   \* MinInterval
    last,          \* LastAttest and LastMeta, 0 where there is none
    bumped         \* history: each record's last bump, and was none late?

stored == <<domains, attested, facts, last>>
policy == <<writer, enrolled, minInterval>>
vars == <<ledger, live, domains, attested, facts, writer, enrolled, minInterval,
          last, bumped>>

(* What a signer submits: the record's half or the metadata's half.        *)
Entry == {"anchor", "meta"} \X Domain

Anchor(d) == <<"anchor", d>>
Meta(d) == <<"meta", d>>

(* The storage keys: an entry, its cooldown marker, an enrolment, an       *)
(* instance.                                                               *)
Marker(e) == <<IF e[1] = "anchor" THEN "lastAttest" ELSE "lastMeta", e[2]>>
Enrolment(a) == <<"enrolment", a>>
RegistryInstance == <<"instance", "registry">>
AttesterInstance == <<"instance", "attester">>

Key == Entry \cup {Marker(e) : e \in Entry} \cup {Enrolment(a) : a \in Signer}
             \cup {RegistryInstance, AttesterInstance}

(* What a probe found: the SEPs advertised, the probes run and passed, and *)
(* whether the metadata is within the contracts' limits.  "future" is a    *)
(* probe this deployment of the registry does not know.                    *)
Probe == Protocol \cup {"future"}
Finding == [seps : SUBSET Protocol, run : SUBSET Probe, passed : SUBSET Probe,
            fits : BOOLEAN]
Unattested == [seps |-> {}, run |-> {}, passed |-> {}, fits |-> TRUE]

-----------------------------------------------------------------------------
(* Storage lifetime *)

Archived(k) == live[k] # 0 /\ live[k] < ledger

Touchable(keys) == \A k \in keys : ~Archived(k)

(* extend_ttl: an entry with little left, or just created, gets ExtendTo.  *)
Extend(keys) ==
    live' = [k \in Key |-> IF k \in keys /\ live[k] - ledger <= Threshold
                           THEN ledger + ExtendTo ELSE live[k]]

-----------------------------------------------------------------------------
(* The attester contract *)

(* Mutant of check_submission: one ledger early.                           *)
check_submission_early(a, e) ==
    /\ enrolled[a]
    /\ e[2] \in Canonical
    /\ last[e] = 0 \/ ledger - last[e] + 1 >= minInterval

(* check_submission: the signer, the spelling, the cooldown.               *)
check_submission(a, e) ==
    /\ enrolled[a]
    /\ e[2] \in Canonical
    /\ last[e] = 0 \/ ledger - last[e] >= minInterval

(* put_anchor: known bits only, nothing passed that did not run, and room  *)
(* for a new domain.                                                       *)
AcceptsAnchor(d, f) ==
    /\ writer = "attester"
    /\ f.seps \subseteq Protocol /\ f.run \subseteq Protocol
    /\ f.passed \subseteq f.run
    /\ attested[Anchor(d)] = 0 => Len(domains) < MaxDomains

(* put_meta: only about a domain that has a record, and only assets and a  *)
(* country that check_receive_assets and check_country let through.        *)
AcceptsMeta(d, f) == writer = "attester" /\ attested[Anchor(d)] # 0 /\ f.fits

(* The entries attest and attest_meta touch, in both contracts.            *)
Footprint(a, e) ==
    {AttesterInstance, RegistryInstance, Enrolment(a), Marker(e), e}

(* Do the contracts let a submission by a of entry e, with finding f, pass? *)
ChecksOut(a, e, f) ==
    /\ check_submission(a, e)
    /\ IF e[1] = "anchor" THEN AcceptsAnchor(e[2], f) ELSE AcceptsMeta(e[2], f)

(* Does it succeed?                                                        *)
Accepts(a, e, f) ==
    /\ Touchable(Footprint(a, e) \cup {Anchor(e[2])})
    /\ ChecksOut(a, e, f)

(* Mutant of Listed: an update is listed again. *)
ListedAgain(d) == Append(domains, d)

(* The list after an attestation of d. *)
Listed(d) == IF attested[Anchor(d)] = 0 THEN Append(domains, d) ELSE domains

(* attest and attest_meta, with the put_anchor or put_meta they call.      *)
Submit(a, e, f) ==
    /\ Accepts(a, e, f)
    /\ attested' = [attested EXCEPT ![e] = ledger]
    /\ last' = [last EXCEPT ![e] = ledger]
    /\ IF e[1] = "anchor"
       THEN /\ facts' = [facts EXCEPT ![e[2]] = f]
            /\ domains' = Listed(e[2])
            /\ bumped' = IF attested[e] = 0
                         THEN [bumped EXCEPT ![e[2]].at = ledger] ELSE bumped
       ELSE UNCHANGED <<facts, domains, bumped>>
    /\ Extend(Footprint(a, e))
    /\ UNCHANGED <<ledger, writer, enrolled, minInterval>>

SetEnrolled(a, b) ==
    /\ Touchable({AttesterInstance, Enrolment(a)})
    /\ enrolled' = [enrolled EXCEPT ![a] = b]
    /\ Extend({AttesterInstance, Enrolment(a)})
    /\ UNCHANGED <<ledger, domains, attested, facts, writer, minInterval, last, bumped>>

add_attester(a) == SetEnrolled(a, TRUE)
remove_attester(a) == SetEnrolled(a, FALSE)

set_min_interval(n) ==
    /\ Touchable({AttesterInstance})
    /\ minInterval' = n
    /\ Extend({AttesterInstance})
    /\ UNCHANGED <<ledger, domains, attested, facts, writer, enrolled, last, bumped>>

-----------------------------------------------------------------------------
(* The registry contract *)

(* Mutant of BumpFootprint: the metadata is left on its own clock.         *)
BumpFootprintRecord(d) == {RegistryInstance, Anchor(d)}

(* Metadata is extended when the domain has it. *)
BumpFootprint(d) ==
    {RegistryInstance, Anchor(d)} \cup (IF attested[Meta(d)] # 0 THEN {Meta(d)} ELSE {})

(* bump: anyone may; it does not touch attested_ledger.                    *)
bump(d) ==
    /\ attested[Anchor(d)] # 0
    /\ Touchable(BumpFootprint(d))
    /\ Extend(BumpFootprint(d))
    /\ bumped' = [bumped EXCEPT ![d].at = ledger]
    /\ UNCHANGED <<ledger, stored, policy>>

set_attester(w) ==
    /\ Touchable({RegistryInstance})
    /\ writer' = w
    /\ Extend({RegistryInstance})
    /\ UNCHANGED <<ledger, stored, enrolled, minInterval, bumped>>

(* The reads: they are simulated, and may be answered from an archived     *)
(* entry as well (packages/registry/src/index.ts:277-284).                 *)
Readable(d) == attested[Anchor(d)] # 0

serves(d, p) == p \in facts[d].seps /\ p \in facts[d].passed

staleness(d) == ledger - attested[Anchor(d)]

-----------------------------------------------------------------------------
(* The network *)

(* A bump is late when more than Threshold ledgers pass without one.       *)
CloseLedger ==
    /\ ledger < MaxLedger
    /\ ledger' = ledger + 1
    /\ bumped' = [d \in Domain |->
           [bumped[d] EXCEPT !.onTime =
               @ /\ (attested[Anchor(d)] # 0 => ledger' - bumped[d].at <= Threshold)]]
    /\ UNCHANGED <<live, stored, policy>>

(* RestoreFootprint: anyone brings an archived entry back.                 *)
Restore(k) ==
    /\ Archived(k)
    /\ live' = [live EXCEPT ![k] = ledger + RestoredFor]
    /\ UNCHANGED <<ledger, stored, policy, bumped>>

Init ==
    /\ ledger = 1
    /\ live = [k \in Key |-> IF k \in {RegistryInstance, AttesterInstance}
                             THEN 1 + ExtendTo ELSE 0]
    /\ domains = <<>>
    /\ attested = [e \in Entry |-> 0]
    /\ facts = [d \in Domain |-> Unattested]
    /\ writer = "attester"
    /\ enrolled = [a \in Signer |-> FALSE]
    /\ minInterval \in Intervals
    /\ last = [e \in Entry |-> 0]
    /\ bumped = [d \in Domain |-> [at |-> 0, onTime |-> TRUE]]

Admin ==
    \/ \E a \in Signer : add_attester(a) \/ remove_attester(a)
    \/ \E n \in Intervals : set_min_interval(n)
    \/ \E w \in {"attester", "other"} : set_attester(w)

Network ==
    \/ CloseLedger
    \/ \E d \in Domain : bump(d)
    \/ \E k \in Key : Restore(k)

Next ==
    \/ \E a \in Signer, e \in Entry, f \in Finding : Submit(a, e, f)
    \/ Admin
    \/ Network

Spec == Init /\ [][Next]_vars

-----------------------------------------------------------------------------
(* Properties *)

RegistryTypeOK ==
    /\ ledger \in Nat \ {0}
    /\ live \in [Key -> Nat]
    /\ domains \in Seq(Domain)
    /\ attested \in [Entry -> Nat]
    /\ facts \in [Domain -> {f \in Finding : f.run \subseteq Protocol /\ f.passed \subseteq f.run}]
    /\ writer \in {"attester", "other"}
    /\ enrolled \in [Signer -> BOOLEAN]
    /\ minInterval \in Nat
    /\ last \in [Entry -> Nat]
    /\ bumped \in [Domain -> [at : Nat, onTime : BOOLEAN]]

(* domains() lists exactly the domains that have a record, each once, and  *)
(* never more than MAX_DOMAINS; metadata stands beside a record only       *)
(* (contracts/registry/src/lib.rs:425-437, 493-499).                       *)
DomainsMatchRecords ==
    /\ \A d \in Domain : attested[Anchor(d)] # 0 <=> \E i \in DOMAIN domains : domains[i] = d
    /\ \A i, j \in DOMAIN domains : domains[i] = domains[j] => i = j
    /\ Len(domains) <= MaxDomains
    /\ \A d \in Domain : attested[Meta(d)] # 0 => attested[Anchor(d)] # 0

(* Two writes of one entry are at least the cooldown in force apart,       *)
(* whoever signs them, and however long ago the marker was last touched    *)
(* (contracts/attester/src/lib.rs:30-37, 269-281).                         *)
CooldownHolds ==
    [][\A e \in Entry :
          attested[e] # 0 /\ attested'[e] # attested[e] =>
              attested'[e] - attested[e] >= minInterval]_vars

(* "Calling `bump` for every registered domain at least once per           *)
(* `TTL_THRESHOLD` window is enough" (contracts/registry/src/lib.rs:50-51): *)
(* the record, its metadata and the instance are never archived.           *)
BumpKeepsAlive ==
    \A d \in Domain : attested[Anchor(d)] # 0 /\ bumped[d].onTime =>
        /\ ~Archived(Anchor(d)) /\ ~Archived(RegistryInstance)
        /\ attested[Meta(d)] # 0 => ~Archived(Meta(d))

=============================================================================
