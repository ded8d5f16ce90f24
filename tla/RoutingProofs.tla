---------------------------- MODULE RoutingProofs ----------------------------
(***************************************************************************)
(* What holds of the two contracts and of their users, for any domains,    *)
(* signers, limits, times to live, findings and submissions.               *)
(*                                                                         *)
(*   RegistryTyped       the registry's type invariant                     *)
(*   CooldownIsKept      a marker is the ledger of the last write of its   *)
(*                       entry (Marked), from which the cooldown follows   *)
(*   DomainsAgree        the list and the records, inductive by itself     *)
(*   BumpingKeepsAlive   what bump extends lives more than Threshold       *)
(*                       ledgers past the last bump (Lasting), which is    *)
(*                       at most that long ago (InTime)                    *)
(*   AnswersAreFinal     a submission's number is in its account's pool    *)
(*                       only between its sending and its application or   *)
(*                       expiry, and an answer that is final is given when *)
(*                       it is not in there and cannot come back (Settled) *)
(*   ChainIsRegistry     beside its users the chain is Registry's, so that *)
(*                       the theorems about it hold here                   *)
(*   RoutesOnEvidence    each record is an event's (Recorded), and what a  *)
(*                       resolution has read was a record's (Witnessed)    *)
(***************************************************************************)
EXTENDS Routing, TLAPS

(* A cooldown marker is the ledger of the last write of its entry.         *)
Marked == \A e \in Entry : last[e] = attested[e]

(* What a bump of d extends lives more than Threshold ledgers after it.    *)
Lasting == \A d \in Domain : attested[Anchor(d)] # 0 =>
    \A k \in BumpFootprint(d) : live[k] > bumped[d].at + Threshold

(* A record whose bumps are on time was bumped at most Threshold ago.      *)
InTime == \A d \in Domain : attested[Anchor(d)] # 0 =>
    /\ bumped[d].at <= ledger
    /\ bumped[d].onTime => ledger <= bumped[d].at + Threshold

KeptInv == Lasting /\ InTime

-----------------------------------------------------------------------------

LEMMA KeysAreKeys ==
    ASSUME NEW d \in Domain, NEW a \in Signer
    PROVE  /\ Anchor(d) \in Entry /\ Meta(d) \in Entry
           /\ Anchor(d) \in Key /\ Meta(d) \in Key
           /\ RegistryInstance \in Key /\ AttesterInstance \in Key
           /\ Enrolment(a) \in Key
  BY DEF Anchor, Meta, Entry, Key, RegistryInstance, AttesterInstance, Enrolment

(* extend_ttl leaves every entry at least as long as it had, and those it  *)
(* extends more than the threshold (lib.rs:319-330).                       *)
LEMMA ExtendLasts ==
    ASSUME NEW keys, ledger \in Nat, live \in [Key -> Nat], Extend(keys)
    PROVE  /\ live' \in [Key -> Nat]
           /\ \A k \in Key : live'[k] >= live[k] \/ live'[k] > ledger + Threshold
           /\ \A k \in Key : live'[k] >= live[k]
           /\ \A k \in keys \cap Key : live'[k] > ledger + Threshold
  BY RegistryAssumption DEF Extend, RegistryAssumption

-----------------------------------------------------------------------------
(* Types *)

LEMMA InitTypes == Init => RegistryTypeOK
  <1> SUFFICES ASSUME Init PROVE RegistryTypeOK
    OBVIOUS
  <1>1. live \in [Key -> Nat]
    BY RegistryAssumption DEF Init, RegistryAssumption
  <1>2. domains \in Seq(Domain)
    BY DEF Init
  <1>3. facts \in [Domain -> {f \in Finding : f.run \subseteq Protocol /\ f.passed \subseteq f.run}]
    BY DEF Init, Unattested, Finding
  <1>4. minInterval \in Nat
    BY RegistryAssumption DEF Init, RegistryAssumption
  <1> QED BY <1>1, <1>2, <1>3, <1>4 DEF Init, RegistryTypeOK

LEMMA SubmitTypes ==
    ASSUME RegistryTypeOK, NEW a \in Signer, NEW e \in Entry, NEW f \in Finding, Submit(a, e, f)
    PROVE  RegistryTypeOK'
  <1>1. live' \in [Key -> Nat]
    BY ExtendLasts DEF Submit, RegistryTypeOK
  <1>2. attested' \in [Entry -> Nat] /\ last' \in [Entry -> Nat]
    BY DEF Submit, RegistryTypeOK
  <1>3. e[2] \in Domain
    BY DEF Entry
  <1>4. /\ domains' \in Seq(Domain)
        /\ facts' \in [Domain -> {g \in Finding : g.run \subseteq Protocol /\ g.passed \subseteq g.run}]
        /\ bumped' \in [Domain -> [at : Nat, onTime : BOOLEAN]]
    <2>1. CASE e[1] = "anchor"
      <3>1. domains' \in Seq(Domain)
        <4>1. domains \in Seq(Domain) /\ domains' = Listed(e[2])
          BY <2>1 DEF Submit, RegistryTypeOK
        <4>2. Append(domains, e[2]) \in Seq(Domain)
          BY <4>1, <1>3
        <4> QED BY <4>1, <4>2 DEF Listed
      <3>2. facts' = [facts EXCEPT ![e[2]] = f] /\ f.run \subseteq Protocol /\ f.passed \subseteq f.run
        BY <2>1 DEF Submit, Accepts, ChecksOut, AcceptsAnchor
      <3>3. facts' \in [Domain -> {g \in Finding : g.run \subseteq Protocol /\ g.passed \subseteq g.run}]
        BY <1>3, <3>2 DEF RegistryTypeOK
      <3>4. bumped' = [bumped EXCEPT ![e[2]].at = ledger] \/ bumped' = bumped
        BY <2>1 DEF Submit
      <3>5. bumped' \in [Domain -> [at : Nat, onTime : BOOLEAN]]
        BY <3>4, <1>3, Zenon DEF RegistryTypeOK
      <3> QED BY <3>1, <3>3, <3>5
    <2>2. CASE e[1] # "anchor"
      BY <2>2 DEF Submit, RegistryTypeOK
    <2> QED BY <2>1, <2>2
  <1>5. UNCHANGED <<ledger, writer, enrolled, minInterval>>
    BY DEF Submit
  <1> QED BY <1>1, <1>2, <1>4, <1>5 DEF RegistryTypeOK

LEMMA AdminTypes ==
    ASSUME RegistryTypeOK, Admin
    PROVE  RegistryTypeOK'
  <1>1. ASSUME NEW a \in Signer, NEW b \in BOOLEAN, SetEnrolled(a, b)
        PROVE  RegistryTypeOK'
    <2>1. live' \in [Key -> Nat]
      BY <1>1, ExtendLasts DEF SetEnrolled, RegistryTypeOK
    <2> QED BY <1>1, <2>1 DEF SetEnrolled, RegistryTypeOK
  <1>2. ASSUME NEW n \in Intervals, set_min_interval(n)
        PROVE  RegistryTypeOK'
    <2>1. live' \in [Key -> Nat] /\ n \in Nat
      BY <1>2, ExtendLasts, RegistryAssumption DEF set_min_interval, RegistryTypeOK, RegistryAssumption
    <2> QED BY <1>2, <2>1 DEF set_min_interval, RegistryTypeOK
  <1>3. ASSUME NEW w \in {"attester", "other"}, set_attester(w)
        PROVE  RegistryTypeOK'
    <2>1. live' \in [Key -> Nat]
      BY <1>3, ExtendLasts DEF set_attester, RegistryTypeOK
    <2> QED BY <1>3, <2>1 DEF set_attester, stored, RegistryTypeOK
  <1> QED BY <1>1, <1>2, <1>3 DEF Admin, add_attester, remove_attester

LEMMA NetworkTypes ==
    ASSUME RegistryTypeOK, Network
    PROVE  RegistryTypeOK'
  <1>1. CASE CloseLedger
    <2>1. ledger' \in Nat
      BY <1>1 DEF CloseLedger, RegistryTypeOK
    <2>2. bumped' \in [Domain -> [at : Nat, onTime : BOOLEAN]]
      BY <1>1, Zenon DEF CloseLedger, RegistryTypeOK
    <2> QED BY <1>1, <2>1, <2>2 DEF CloseLedger, stored, policy, RegistryTypeOK
  <1>2. ASSUME NEW d \in Domain, bump(d)
        PROVE  RegistryTypeOK'
    <2>1. live' \in [Key -> Nat]
      BY <1>2, ExtendLasts DEF bump, RegistryTypeOK
    <2>2. bumped' \in [Domain -> [at : Nat, onTime : BOOLEAN]]
      BY <1>2, Zenon DEF bump, RegistryTypeOK
    <2> QED BY <1>2, <2>1, <2>2 DEF bump, stored, policy, RegistryTypeOK
  <1>3. ASSUME NEW k \in Key, Restore(k)
        PROVE  RegistryTypeOK'
    <2>1. live' \in [Key -> Nat]
      BY <1>3, RegistryAssumption DEF Restore, RegistryTypeOK, RegistryAssumption
    <2> QED BY <1>3, <2>1 DEF Restore, stored, policy, RegistryTypeOK
  <1> QED BY <1>1, <1>2, <1>3 DEF Network

(* Types are preserved: in particular the registry stores no bit that it   *)
(* does not know and no pass of a probe that did not run (lib.rs:415-423). *)
THEOREM RegistryTyped == Spec => []RegistryTypeOK
  <1>1. RegistryTypeOK /\ [Next]_vars => RegistryTypeOK'
    <2>1. CASE UNCHANGED vars
      BY <2>1 DEF vars, RegistryTypeOK
    <2>2. CASE Next
      BY <2>2, SubmitTypes, AdminTypes, NetworkTypes DEF Next
    <2> QED BY <2>1, <2>2
  <1> QED BY <1>1, InitTypes, PTL DEF Spec

-----------------------------------------------------------------------------
(* The cooldown *)

LEMMA MarkedStep ==
    ASSUME RegistryTypeOK, Marked, [Next]_vars
    PROVE  Marked'
  <1>1. ASSUME NEW a \in Signer, NEW e \in Entry, NEW f \in Finding, Submit(a, e, f)
        PROVE  Marked'
    BY <1>1 DEF Submit, Marked, RegistryTypeOK
  <1>2. CASE UNCHANGED <<attested, last>>
    BY <1>2 DEF Marked
  <1>3. Admin \/ Network => UNCHANGED <<attested, last>>
    BY DEF Admin, Network, add_attester, remove_attester, SetEnrolled, set_min_interval,
           set_attester, CloseLedger, bump, Restore, stored
  <1> QED BY <1>1, <1>2, <1>3 DEF Next, vars

(* A step that writes an entry is a submission, at least the cooldown      *)
(* after the ledger its marker names.                                      *)
LEMMA CooldownStep ==
    ASSUME RegistryTypeOK, Marked, [Next]_vars, NEW e \in Entry,
           attested[e] # 0, attested'[e] # attested[e]
    PROVE  attested'[e] - attested[e] >= minInterval
  <1>1. ASSUME NEW a \in Signer, NEW c \in Entry, NEW f \in Finding, Submit(a, c, f)
        PROVE  attested'[e] - attested[e] >= minInterval
    <2>1. attested' = [attested EXCEPT ![c] = ledger] /\ check_submission(a, c)
      BY <1>1 DEF Submit, Accepts, ChecksOut
    <2>2. c = e /\ attested'[e] = ledger
      BY <2>1 DEF RegistryTypeOK
    <2> QED BY <2>1, <2>2 DEF check_submission, Marked, RegistryTypeOK
  <1>2. ~(Admin \/ Network \/ UNCHANGED vars)
    BY DEF Admin, Network, add_attester, remove_attester, SetEnrolled, set_min_interval,
           set_attester, CloseLedger, bump, Restore, stored, vars
  <1> QED BY <1>1, <1>2 DEF Next

(* The cooldown holds between any two writes of an entry, by any signers,  *)
(* through archival, restores and changes of the attester set.             *)
THEOREM CooldownIsKept == Spec => CooldownHolds
  <1>1. Init => Marked
    BY DEF Init, Marked
  <1>2. RegistryTypeOK /\ Marked /\ [Next]_vars => Marked'
    BY MarkedStep
  <1>3. RegistryTypeOK /\ Marked /\ [Next]_vars =>
          [\A e \in Entry : attested[e] # 0 /\ attested'[e] # attested[e] =>
              attested'[e] - attested[e] >= minInterval]_vars
    BY CooldownStep
  <1> QED BY <1>1, <1>2, <1>3, RegistryTyped, PTL DEF Spec, CooldownHolds

-----------------------------------------------------------------------------
(* The list of domains *)

(* A submission lists a domain once, when it gets its first record.        *)
LEMMA ListingSubmit ==
    ASSUME RegistryTypeOK, DomainsMatchRecords,
           NEW a \in Signer, NEW e \in Entry, NEW f \in Finding, Submit(a, e, f)
    PROVE  DomainsMatchRecords'
  <1>1. PICK d \in Domain : e = Anchor(d) \/ e = Meta(d)
    BY DEF Entry, Anchor, Meta
  <1>2. \A c \in Domain : Anchor(c) \in Entry /\ Meta(c) \in Entry /\ Anchor(c) # Meta(d) /\ Meta(c) # Anchor(d)
    BY DEF Entry, Anchor, Meta
  <1>3. /\ attested' = [attested EXCEPT ![e] = ledger]
        /\ ledger # 0 /\ attested \in [Entry -> Nat] /\ domains \in Seq(Domain)
    BY DEF Submit, RegistryTypeOK
  <1>4. CASE e = Anchor(d)
    <2>1. e[1] = "anchor" /\ e[2] = d
      BY <1>4 DEF Anchor
    <2>2. \A c \in Domain : attested'[Anchor(c)] # 0 <=> c = d \/ attested[Anchor(c)] # 0
      BY <1>2, <1>3, <1>4 DEF Anchor
    <2>3. \A c \in Domain : attested'[Meta(c)] = attested[Meta(c)]
      BY <1>2, <1>3, <1>4
    <2>4. domains' = Listed(d)
      BY <2>1 DEF Submit
    <2>5. \A c \in Domain : attested'[Meta(c)] # 0 => attested'[Anchor(c)] # 0
      BY <2>2, <2>3 DEF DomainsMatchRecords
    <2>6. CASE attested[Anchor(d)] = 0
      <3>1. domains' = Append(domains, d) /\ Len(domains) < MaxDomains
        BY <2>1, <2>4, <2>6 DEF Listed, Submit, Accepts, ChecksOut, AcceptsAnchor
      <3>2. /\ DOMAIN domains' = 1 .. (Len(domains) + 1) /\ DOMAIN domains = 1 .. Len(domains)
            /\ domains'[Len(domains) + 1] = d
            /\ \A i \in DOMAIN domains : domains'[i] = domains[i]
            /\ Len(domains') = Len(domains) + 1 /\ Len(domains) \in Nat
        BY <3>1, <1>3
      <3>3. \A i \in DOMAIN domains : domains[i] # d
        BY <2>6 DEF DomainsMatchRecords
      <3>4. Len(domains') <= MaxDomains
        BY <3>1, <3>2, RegistryAssumption DEF RegistryAssumption
      <3>5. \A i, j \in DOMAIN domains' : domains'[i] = domains'[j] => i = j
        BY <3>2, <3>3 DEF DomainsMatchRecords
      <3>6. \A c \in Domain : attested'[Anchor(c)] # 0 <=> \E i \in DOMAIN domains' : domains'[i] = c
        BY <2>2, <3>2 DEF DomainsMatchRecords
      <3> QED BY <2>5, <3>4, <3>5, <3>6 DEF DomainsMatchRecords
    <2>7. CASE attested[Anchor(d)] # 0
      <3>1. domains' = domains
        BY <2>4, <2>7 DEF Listed
      <3> QED BY <2>2, <2>5, <2>7, <3>1 DEF DomainsMatchRecords
    <2> QED BY <2>6, <2>7
  <1>5. CASE e = Meta(d)
    <2>1. e[1] = "meta" /\ e[2] = d
      BY <1>5 DEF Meta
    <2>2. domains' = domains /\ attested[Anchor(d)] # 0
      BY <2>1 DEF Submit, Accepts, ChecksOut, AcceptsMeta
    <2>3. \A c \in Domain : attested'[Anchor(c)] = attested[Anchor(c)]
      BY <1>2, <1>3, <1>5
    <2>4. \A c \in Domain : attested'[Meta(c)] # 0 => c = d \/ attested[Meta(c)] # 0
      BY <1>2, <1>3, <1>5 DEF Meta
    <2> QED BY <2>2, <2>3, <2>4 DEF DomainsMatchRecords
  <1> QED BY <1>1, <1>4, <1>5

(* domains() and the records agree, in every reachable state. *)
THEOREM DomainsAgree == Spec => []DomainsMatchRecords
  <1>1. Init => DomainsMatchRecords
    <2> SUFFICES ASSUME Init PROVE DomainsMatchRecords
      OBVIOUS
    <2>1. domains = <<>> /\ DOMAIN domains = {} /\ Len(domains) = 0
      BY DEF Init
    <2>2. \A d \in Domain : attested[Anchor(d)] = 0 /\ attested[Meta(d)] = 0
      BY DEF Init, Entry, Anchor, Meta
    <2> QED BY <2>1, <2>2, RegistryAssumption DEF DomainsMatchRecords, RegistryAssumption
  <1>2. RegistryTypeOK /\ DomainsMatchRecords /\ [Next]_vars => DomainsMatchRecords'
    <2>1. CASE UNCHANGED <<attested, domains>>
      BY <2>1 DEF DomainsMatchRecords
    <2>2. Admin \/ Network \/ UNCHANGED vars => UNCHANGED <<attested, domains>>
      BY DEF Admin, Network, add_attester, remove_attester, SetEnrolled, set_min_interval,
             set_attester, CloseLedger, bump, Restore, stored, vars
    <2> QED BY <2>1, <2>2, ListingSubmit DEF Next
  <1> QED BY <1>1, <1>2, RegistryTyped, PTL DEF Spec

-----------------------------------------------------------------------------
(* Bumping in every window *)

LEMMA FootprintKeys ==
    ASSUME NEW d \in Domain
    PROVE  BumpFootprint(d) \subseteq Key /\ BumpFootprint(d)' \subseteq Key
  BY DEF BumpFootprint, Anchor, Meta, Entry, Key, RegistryInstance

(* A step that only extends keeps what was long enough.                    *)
LEMMA LongerLasts ==
    ASSUME RegistryTypeOK, KeptInv, UNCHANGED <<ledger, attested, bumped>>,
           live' \in [Key -> Nat], \A k \in Key : live'[k] >= live[k]
    PROVE  KeptInv'
  <1>1. \A d \in Domain : BumpFootprint(d)' = BumpFootprint(d) /\ bumped[d].at \in Nat
    BY DEF BumpFootprint, RegistryTypeOK
  <1>2. Lasting'
    <2> SUFFICES ASSUME NEW d \in Domain, attested[Anchor(d)] # 0, NEW k \in BumpFootprint(d)
                 PROVE  live'[k] > bumped[d].at + Threshold
      BY <1>1 DEF Lasting
    <2>1. k \in Key /\ live[k] > bumped[d].at + Threshold
      BY FootprintKeys DEF KeptInv, Lasting
    <2>2. live[k] \in Nat /\ live'[k] \in Nat
      BY <2>1 DEF RegistryTypeOK
    <2> QED BY <1>1, <2>1, <2>2, RegistryAssumption DEF RegistryAssumption
  <1> QED BY <1>2 DEF KeptInv, InTime

LEMMA Stamped ==
    ASSUME RegistryTypeOK, NEW c \in Domain, bumped' = [bumped EXCEPT ![c].at = ledger]
    PROVE  /\ bumped'[c].at = ledger
           /\ \A d \in Domain : d # c => bumped'[d] = bumped[d]
  BY Zenon DEF RegistryTypeOK

LEMMA KeptSubmit ==
    ASSUME RegistryTypeOK, DomainsMatchRecords, KeptInv,
           NEW a \in Signer, NEW e \in Entry, NEW f \in Finding, Submit(a, e, f)
    PROVE  KeptInv'
  <1>1. /\ live' \in [Key -> Nat]
        /\ \A k \in Key : live'[k] >= live[k]
        /\ \A k \in Footprint(a, e) \cap Key : live'[k] > ledger + Threshold
    BY ExtendLasts DEF Submit, RegistryTypeOK
  <1>2. /\ attested' = [attested EXCEPT ![e] = ledger] /\ ledger' = ledger
        /\ ledger \in Nat \ {0} /\ attested \in [Entry -> Nat]
    BY DEF Submit, RegistryTypeOK
  <1>3. PICK c \in Domain : e = Anchor(c) \/ e = Meta(c)
    BY DEF Entry, Anchor, Meta
  <1>4. ASSUME NEW d \in Domain, attested'[Anchor(d)] # 0
        PROVE  /\ \A k \in BumpFootprint(d)' : live'[k] > bumped'[d].at + Threshold
               /\ bumped'[d].at <= ledger
               /\ bumped'[d].onTime => ledger <= bumped'[d].at + Threshold
    <2>1. CASE e = Anchor(d) /\ attested[e] = 0
      <3>1. e[1] = "anchor" /\ e[2] = d /\ Meta(d) # e /\ Meta(d) \in Entry
        BY <2>1 DEF Anchor, Meta, Entry
      <3>2. bumped' = [bumped EXCEPT ![d].at = ledger]
        BY <2>1, <3>1 DEF Submit
      <3>3. bumped'[d].at = ledger
        BY <3>2, Stamped
      <3>4. attested'[Meta(d)] = 0
        BY <1>2, <2>1, <3>1 DEF DomainsMatchRecords
      <3>5. BumpFootprint(d)' \subseteq Footprint(a, e) \cap Key
        BY <2>1, <3>4, FootprintKeys DEF BumpFootprint, Footprint
      <3> QED BY <1>1, <1>2, <3>3, <3>5, RegistryAssumption DEF RegistryAssumption
    <2>2. CASE ~(e = Anchor(d) /\ attested[e] = 0)
      <3>1. Anchor(d) \in Entry /\ Meta(d) \in Entry
        BY DEF Anchor, Meta, Entry
      <3>2. attested[Anchor(d)] # 0
        BY <1>2, <1>4, <2>2, <3>1
      <3>3. bumped'[d] = bumped[d]
        <4>1. CASE e = Anchor(c) /\ attested[e] = 0
          <5>1. e[1] = "anchor" /\ e[2] = c /\ c # d
            BY <4>1, <2>2 DEF Anchor
          <5>2. bumped' = [bumped EXCEPT ![c].at = ledger]
            BY <4>1, <5>1 DEF Submit
          <5> QED BY <5>1, <5>2, Stamped
        <4>2. CASE e = Anchor(c) /\ attested[e] # 0
          <5>1. bumped' = bumped
            BY <4>2 DEF Submit, Anchor
          <5> QED BY <5>1
        <4>3. CASE e = Meta(c)
          <5>1. bumped' = bumped
            BY <4>3 DEF Submit, Meta
          <5> QED BY <5>1
        <4> QED BY <1>3, <4>1, <4>2, <4>3
      <3>4. /\ bumped[d].at \in Nat /\ bumped[d].at <= ledger
            /\ bumped[d].onTime => ledger <= bumped[d].at + Threshold
        BY <3>2 DEF KeptInv, InTime, RegistryTypeOK
      <3>5. ASSUME NEW k \in BumpFootprint(d)'
            PROVE  live'[k] > bumped[d].at + Threshold
        <4>1. k \in Key /\ live[k] \in Nat /\ live'[k] \in Nat
          BY <1>1, FootprintKeys DEF RegistryTypeOK
        <4>2. CASE k \in BumpFootprint(d)
          <5>1. live[k] > bumped[d].at + Threshold
            BY <3>2, <4>2 DEF KeptInv, Lasting
          <5> QED BY <1>1, <3>4, <4>1, <5>1, RegistryAssumption DEF RegistryAssumption
        <4>3. CASE k \notin BumpFootprint(d)
          <5>1. k = e
            BY <1>2, <3>1, <4>3 DEF BumpFootprint
          <5>2. live'[k] > ledger + Threshold
            BY <1>1, <4>1, <5>1 DEF Footprint
          <5> QED BY <1>2, <3>4, <4>1, <5>2, RegistryAssumption DEF RegistryAssumption
        <4> QED BY <4>2, <4>3
      <3> QED BY <3>3, <3>4, <3>5
    <2> QED BY <2>1, <2>2
  <1> QED BY <1>2, <1>4 DEF KeptInv, Lasting, InTime

LEMMA KeptBump ==
    ASSUME RegistryTypeOK, KeptInv, NEW c \in Domain, bump(c)
    PROVE  KeptInv'
  <1>1. /\ live' \in [Key -> Nat]
        /\ \A k \in Key : live'[k] >= live[k]
        /\ \A k \in BumpFootprint(c) \cap Key : live'[k] > ledger + Threshold
    BY ExtendLasts DEF bump, RegistryTypeOK
  <1>2. UNCHANGED <<ledger, attested>> /\ ledger \in Nat
    BY DEF bump, stored, RegistryTypeOK
  <1>3. /\ bumped'[c].at = ledger
        /\ \A d \in Domain : d # c => bumped'[d] = bumped[d]
    BY Stamped DEF bump
  <1>4. ASSUME NEW d \in Domain, attested[Anchor(d)] # 0
        PROVE  /\ \A k \in BumpFootprint(d) : live'[k] > bumped'[d].at + Threshold
               /\ bumped'[d].at <= ledger
               /\ bumped'[d].onTime => ledger <= bumped'[d].at + Threshold
    <2>1. CASE d = c
      BY <1>1, <1>2, <1>3, <2>1, FootprintKeys, RegistryAssumption DEF RegistryAssumption
    <2>2. CASE d # c
      <3>1. /\ bumped'[d] = bumped[d] /\ bumped[d].at \in Nat /\ bumped[d].at <= ledger
            /\ bumped[d].onTime => ledger <= bumped[d].at + Threshold
        BY <1>3, <1>4, <2>2 DEF KeptInv, InTime, RegistryTypeOK
      <3>2. ASSUME NEW k \in BumpFootprint(d)
            PROVE  live'[k] > bumped[d].at + Threshold
        <4>1. k \in Key /\ live[k] \in Nat /\ live'[k] \in Nat
          BY <1>1, FootprintKeys DEF RegistryTypeOK
        <4>2. live[k] > bumped[d].at + Threshold
          BY <1>4 DEF KeptInv, Lasting
        <4> QED BY <1>1, <3>1, <4>1, <4>2, RegistryAssumption DEF RegistryAssumption
      <3> QED BY <3>1, <3>2
    <2> QED BY <2>1, <2>2
  <1>5. \A d \in Domain : BumpFootprint(d)' = BumpFootprint(d)
    BY <1>2 DEF BumpFootprint
  <1> QED BY <1>2, <1>4, <1>5 DEF KeptInv, Lasting, InTime

LEMMA KeptTick ==
    ASSUME RegistryTypeOK, KeptInv, CloseLedger
    PROVE  KeptInv'
  <1>1. UNCHANGED <<live, attested>> /\ ledger' = ledger + 1 /\ ledger \in Nat
    BY DEF CloseLedger, stored, RegistryTypeOK
  <1>2. \A d \in Domain :
          /\ bumped'[d].at = bumped[d].at
          /\ bumped'[d].onTime <=> (bumped[d].onTime /\
                (attested[Anchor(d)] # 0 => ledger' - bumped[d].at <= Threshold))
    BY Zenon DEF CloseLedger, RegistryTypeOK
  <1>3. \A d \in Domain : BumpFootprint(d)' = BumpFootprint(d) /\ bumped[d].at \in Nat
    BY <1>1 DEF BumpFootprint, RegistryTypeOK
  <1>4. Lasting'
    BY <1>1, <1>2, <1>3 DEF KeptInv, Lasting
  <1>5. InTime'
    BY <1>1, <1>2, <1>3, RegistryAssumption DEF KeptInv, InTime, RegistryAssumption
  <1> QED BY <1>4, <1>5 DEF KeptInv

(* The documentation's rule for bumps is enough, for any threshold, any    *)
(* extension above it, and any submissions and restores in between.        *)
THEOREM BumpingKeepsAlive == Spec => []BumpKeepsAlive
  <1>1. Init => KeptInv
    <2>1. Init => \A d \in Domain : attested[Anchor(d)] = 0
      BY DEF Init, Entry, Anchor
    <2> QED BY <2>1 DEF KeptInv, Lasting, InTime
  <1>2. RegistryTypeOK /\ DomainsMatchRecords /\ KeptInv /\ [Next]_vars => KeptInv'
    <2> SUFFICES ASSUME RegistryTypeOK, DomainsMatchRecords, KeptInv, [Next]_vars
                 PROVE  KeptInv'
      OBVIOUS
    <2>1. CASE Admin
      <3>1. /\ UNCHANGED <<ledger, attested, bumped>>
            /\ \E keys : Extend(keys)
        BY <2>1 DEF Admin, add_attester, remove_attester, SetEnrolled, set_min_interval,
                   set_attester, stored
      <3>2. live' \in [Key -> Nat] /\ \A k \in Key : live'[k] >= live[k]
        BY <3>1, ExtendLasts DEF RegistryTypeOK
      <3> QED BY <3>1, <3>2, LongerLasts
    <2>2. ASSUME NEW k \in Key, Restore(k)
          PROVE  KeptInv'
      <3>1. live' \in [Key -> Nat] /\ \A i \in Key : live'[i] >= live[i]
        BY <2>2, RegistryAssumption DEF Restore, Archived, RegistryTypeOK, RegistryAssumption
      <3> QED BY <2>2, <3>1, LongerLasts DEF Restore, stored
    <2>3. CASE UNCHANGED vars
      <3>1. live' \in [Key -> Nat] /\ \A k \in Key : live'[k] >= live[k]
        BY <2>3 DEF vars, RegistryTypeOK
      <3> QED BY <2>3, <3>1, LongerLasts DEF vars
    <2> QED BY <2>1, <2>2, <2>3, KeptSubmit, KeptBump, KeptTick DEF Next, Network
  <1>3. RegistryTypeOK /\ KeptInv => BumpKeepsAlive
    <2> SUFFICES ASSUME RegistryTypeOK, KeptInv, NEW d \in Domain, 
                        attested[Anchor(d)] # 0, bumped[d].onTime,
                        NEW k \in BumpFootprint(d)
                 PROVE  ~Archived(k)
      BY DEF BumpKeepsAlive, BumpFootprint
    <2>1. live[k] > bumped[d].at + Threshold /\ ledger <= bumped[d].at + Threshold
      BY DEF KeptInv, Lasting, InTime
    <2>2. live[k] \in Nat /\ ledger \in Nat /\ bumped[d].at \in Nat
      BY FootprintKeys DEF RegistryTypeOK
    <2> QED BY <2>1, <2>2, RegistryAssumption DEF Archived, RegistryAssumption
  <1> QED BY <1>1, <1>2, <1>3, RegistryTyped, DomainsAgree, PTL DEF Spec


-----------------------------------------------------------------------------
(* The attester client *)

Pooled(a) == {s.n : s \in account[a].pool}

Shaped ==
    /\ attempts \in Nat
    /\ DOMAIN client = Signer /\ DOMAIN account = Signer /\ DOMAIN fate = Signer
    /\ \A a \in Signer :
          /\ DOMAIN client[a] = {"s", "pc", "answer"}
          /\ DOMAIN account[a] = {"seq", "pool"}
          /\ client[a].s.n \in 0 .. attempts
          /\ \A s \in account[a].pool : s.n \in 0 .. attempts

(* A submission that was not sent yet, or is settled, is not in the pool;  *)
(* neither is one that was reported failed.                                *)
Settled(a) ==
    /\ client[a].pc = "send" => fate[a] = "unsent"
    /\ client[a].pc = "send" \/ fate[a] \in {"applied", "reverted"} =>
           client[a].s.n \notin Pooled(a)
    /\ client[a].pc = "idle" /\ client[a].answer = "ok" => fate[a] = "applied"
    /\ client[a].pc = "idle" /\ client[a].answer = "failed" =>
           fate[a] # "applied" /\ client[a].s.n \notin Pooled(a)

IInv == Shaped /\ \A a \in Signer : Settled(a)

(* What a step of signer b does to another. *)
Spares(a) ==
    /\ client'[a] = client[a] /\ account'[a] = account[a] /\ fate'[a] = fate[a]

-----------------------------------------------------------------------------

LEMMA InitIInv == RoutingInit => IInv
  BY DEF RoutingInit, IInv, Shaped, Settled, Pooled, NoSubmission

(* A step that keeps the shape and spares all but one signer, for whom it  *)
(* keeps what is claimed.                                                  *)
LEMMA OneStep ==
    ASSUME IInv, NEW a \in Signer, Shaped', Settled(a)',
           \A b \in Signer \ {a} : Spares(b)
    PROVE  IInv'
  <1> SUFFICES ASSUME NEW b \in Signer PROVE Settled(b)'
    BY DEF IInv
  <1>1. CASE b = a
    BY <1>1
  <1>2. CASE b # a
    BY <1>2 DEF IInv, Settled, Spares, Pooled
  <1> QED BY <1>1, <1>2

LEMMA AnswerShape ==
    ASSUME Shaped, NEW a \in Signer, NEW r, Answer(a, r)
    PROVE  /\ DOMAIN client' = Signer /\ DOMAIN client'[a] = {"s", "pc", "answer"}
           /\ client'[a].s.n = client[a].s.n /\ client'[a].pc = "idle"
           /\ client'[a].answer = r
           /\ \A b \in Signer \ {a} : client'[b] = client[b]
  BY DEF Shaped, Answer, NoSubmission

LEMMA SimulateKeeps ==
    ASSUME IInv, NEW a \in Signer, Simulate(a)
    PROVE  IInv'
  <1>1. /\ attempts' = attempts + 1 /\ attempts \in Nat /\ account' = account
        /\ fate' = [fate EXCEPT ![a] = "unsent"]
    BY DEF IInv, Shaped, Simulate
  <1>2. /\ DOMAIN client' = Signer
        /\ client'[a].s.n = attempts' /\ DOMAIN client'[a] = {"s", "pc", "answer"}
        /\ \/ client'[a].pc = "idle" /\ client'[a].answer \in {"failed", "unknown"}
           \/ client'[a].pc = "send"
        /\ \A b \in Signer \ {a} : client'[b] = client[b]
    BY DEF IInv, Shaped, Simulate, NoSubmission
  <1>3. Shaped'
    BY <1>1, <1>2 DEF IInv, Shaped
  <1>4. attempts' \notin Pooled(a)
    BY <1>1 DEF IInv, Shaped, Pooled
  <1>5. Settled(a)'
    BY <1>1, <1>2, <1>4 DEF IInv, Shaped, Settled, Pooled
  <1>6. \A b \in Signer \ {a} : Spares(b)
    BY <1>1, <1>2 DEF IInv, Shaped, Spares
  <1> QED BY <1>3, <1>5, <1>6, OneStep

(* What the network takes is numbered as the client's submission is. *)
LEMMA EnterShape ==
    ASSUME Shaped, NEW a \in Signer, Enter(a)
    PROVE  /\ DOMAIN account' = Signer /\ DOMAIN account'[a] = {"seq", "pool"}
           /\ account'[a].pool = account[a].pool \cup {client[a].s}
           /\ DOMAIN fate' = Signer /\ fate'[a] = "pending"
           /\ \A b \in Signer \ {a} : account'[b] = account[b] /\ fate'[b] = fate[b]
  BY DEF Shaped, Enter

LEMMA SendKeeps ==
    ASSUME IInv, NEW a \in Signer, Send(a)
    PROVE  IInv'
  <1>0. Shaped /\ client[a].pc = "send" /\ attempts' = attempts
    BY DEF IInv, Send
  <1>1. CASE Enter(a) /\ client' = [client EXCEPT ![a].pc = "confirm"]
    <2>1. Shaped'
      BY <1>0, <1>1, EnterShape DEF Shaped
    <2>2. Settled(a)'
      BY <1>0, <1>1, EnterShape DEF Shaped, Settled
    <2>3. \A b \in Signer \ {a} : Spares(b)
      BY <1>0, <1>1, EnterShape DEF Shaped, Spares
    <2> QED BY <2>1, <2>2, <2>3, OneStep
  <1>2. CASE Enter(a) /\ Answer(a, "unknown")
    <2>1. Shaped'
      BY <1>0, <1>2, EnterShape, AnswerShape DEF Shaped
    <2>2. Settled(a)'
      BY <1>0, <1>2, EnterShape, AnswerShape DEF Settled
    <2>3. \A b \in Signer \ {a} : Spares(b)
      BY <1>0, <1>2, EnterShape, AnswerShape DEF Spares
    <2> QED BY <2>1, <2>2, <2>3, OneStep
  <1>3. CASE /\ UNCHANGED <<account, fate>>
             /\ client' = [client EXCEPT ![a].pc = "confirm"]
    <2>1. Shaped'
      BY <1>0, <1>3 DEF Shaped
    <2>2. Settled(a)'
      BY <1>0, <1>3 DEF IInv, Shaped, Settled, Pooled
    <2>3. \A b \in Signer \ {a} : Spares(b)
      BY <1>0, <1>3 DEF Shaped, Spares
    <2> QED BY <2>1, <2>2, <2>3, OneStep
  <1>4. CASE /\ UNCHANGED <<account, fate>>
             /\ Answer(a, "failed") \/ Answer(a, "unknown")
    <2>1. Shaped'
      BY <1>0, <1>4, AnswerShape DEF Shaped
    <2>2. Settled(a)'
      BY <1>0, <1>4, AnswerShape DEF IInv, Settled, Pooled
    <2>3. \A b \in Signer \ {a} : Spares(b)
      BY <1>0, <1>4, AnswerShape DEF Spares
    <2> QED BY <2>1, <2>2, <2>3, OneStep
  <1> QED BY <1>1, <1>2, <1>3, <1>4 DEF Send

LEMMA ConfirmKeeps ==
    ASSUME IInv, NEW a \in Signer, Confirm(a)
    PROVE  IInv'
  <1>0. /\ Shaped /\ UNCHANGED <<account, fate, attempts>>
        /\ client[a].pc = "confirm"
    BY DEF IInv, Confirm
  <1>1. \E r \in {"ok", "failed", "unknown"} :
            /\ Answer(a, r)
            /\ r = "ok" => fate[a] = "applied"
            /\ r = "failed" => fate[a] = "reverted"
    BY DEF Confirm
  <1>2. PICK r \in {"ok", "failed", "unknown"} :
            /\ Answer(a, r)
            /\ r = "ok" => fate[a] = "applied"
            /\ r = "failed" => fate[a] = "reverted"
    BY <1>1
  <1>3. Shaped'
    BY <1>0, <1>2, AnswerShape DEF Shaped
  <1>4. Settled(a)'
    BY <1>0, <1>2, AnswerShape DEF IInv, Settled, Pooled
  <1>5. \A b \in Signer \ {a} : Spares(b)
    BY <1>0, <1>2, AnswerShape DEF Spares
  <1> QED BY <1>3, <1>4, <1>5, OneStep

(* A final answer was given for a submission that is not in the pool, so   *)
(* that what is applied now leaves its fate alone.                         *)
LEMMA LandKeeps ==
    ASSUME IInv, NEW a \in Signer, Land(a)
    PROVE  IInv'
  <1>1. PICK s \in account[a].pool :
            /\ account' = [account EXCEPT ![a] = [seq |-> @.seq + 1, pool |-> {}]]
            /\ fate' = IF s.n # client[a].s.n THEN fate
                       ELSE [fate EXCEPT ![a] = IF Accepts(a, s.e, s.f) THEN "applied"
                                                ELSE "reverted"]
            /\ UNCHANGED <<client, reader, adminOps, attempts>>
    BY DEF Land
  <1> DEFINE fate1 == IF Accepts(a, s.e, s.f) THEN "applied" ELSE "reverted"
  <1>2. fate1 \in {"applied", "reverted"}
    OBVIOUS
  <1>3. fate' = IF s.n # client[a].s.n THEN fate ELSE [fate EXCEPT ![a] = fate1]
    BY <1>1
  <1> HIDE DEF fate1
  <1>4. /\ Shaped /\ s.n \in Pooled(a) /\ client' = client /\ attempts' = attempts
        /\ DOMAIN account' = Signer /\ DOMAIN account'[a] = {"seq", "pool"}
        /\ account'[a].pool = {} /\ DOMAIN fate' = Signer
        /\ \A b \in Signer \ {a} : account'[b] = account[b] /\ fate'[b] = fate[b]
    BY <1>1, <1>3 DEF IInv, Shaped, Pooled
  <1>5. Shaped'
    BY <1>4 DEF Shaped
  <1>6. Settled(a)'
    <2>1. CASE s.n # client[a].s.n
      BY <1>3, <1>4, <2>1 DEF IInv, Settled, Pooled
    <2>2. CASE s.n = client[a].s.n
      <3>1. client[a].pc # "send" /\ fate'[a] \in {"applied", "reverted"}
        BY <1>2, <1>3, <1>4, <2>2 DEF IInv, Settled, Shaped
      <3>2. ~(client[a].pc = "idle" /\ client[a].answer \in {"ok", "failed"})
        BY <1>4, <2>2 DEF IInv, Settled
      <3> QED BY <1>4, <3>1, <3>2 DEF Settled, Pooled
    <2> QED BY <2>1, <2>2
  <1>7. \A b \in Signer \ {a} : Spares(b)
    BY <1>4 DEF Spares
  <1> QED BY <1>5, <1>6, <1>7, OneStep

LEMMA ExpireKeeps ==
    ASSUME IInv, NEW a \in Signer, Expire(a)
    PROVE  IInv'
  <1>1. PICK s \in account[a].pool :
            /\ account' = [account EXCEPT ![a].pool = @ \ {s}]
            /\ UNCHANGED <<client, fate, attempts>>
    BY DEF Expire
  <1>2. Shaped'
    BY <1>1 DEF IInv, Shaped
  <1>3. Pooled(a)' \subseteq Pooled(a)
    BY <1>1 DEF IInv, Shaped, Pooled
  <1>4. Settled(a)'
    BY <1>1, <1>3 DEF IInv, Settled
  <1>5. \A b \in Signer \ {a} : Spares(b)
    BY <1>1 DEF IInv, Shaped, Spares
  <1> QED BY <1>2, <1>4, <1>5, OneStep

LEMMA NextIInv == IInv /\ [RoutingNext]_all => IInv'
  <1> SUFFICES ASSUME IInv, [RoutingNext]_all PROVE IInv'
    OBVIOUS
  <1>1. ASSUME NEW a \in Signer, Client(a) PROVE IInv'
    BY <1>1, SimulateKeeps, SendKeeps, ConfirmKeeps, LandKeeps, ExpireKeeps DEF Client
  <1>2. ASSUME UNCHANGED <<clients, attempts>> PROVE IInv'
    BY <1>2 DEF clients, IInv, Shaped, Settled, Pooled
  <1>3. CASE Administer \/ Pass
    BY <1>2, <1>3 DEF Administer, Pass
  <1>4. ASSUME NEW q \in Reader, Read(q) PROVE IInv'
    BY <1>2, <1>4 DEF Read, Resolve, ReadServes, ReadStaleness, read, Decide
  <1>5. CASE UNCHANGED all
    BY <1>2, <1>5 DEF all, clients
  <1> QED BY <1>1, <1>3, <1>4, <1>5 DEF RoutingNext

(* What attest() and attestMeta() report as final stays so, whatever is    *)
(* submitted, applied, reverted or expires, and whoever else submits       *)
(* (packages/attester/src/index.ts:217-264).                               *)
THEOREM AnswersAreFinal == RoutingSpec => []AnswersAreTrue
  <1>1. IInv => AnswersAreTrue
    BY DEF IInv, Settled, AnswersAreTrue, Pooled
  <1> QED BY <1>1, InitIInv, NextIInv, PTL DEF RoutingSpec


-----------------------------------------------------------------------------
(* The chain beside its users *)

(* A submission is one of those there are. *)
Genuine(s) ==
    /\ s.e \in Entry /\ s.f \in Finding
    /\ \E x \in Submissions : x.f = s.f /\ x.does = s.does

(* What is sent, and what the pools hold, was one of the submissions.      *)
Submitted ==
    \A a \in Signer :
        /\ client[a].pc = "send" => Genuine(client[a].s)
        /\ \A s \in account[a].pool : Genuine(s)

LEMMA InitSubmitted == RoutingInit => Submitted
  BY DEF RoutingInit, Submitted

LEMMA AnswerUnsent ==
    ASSUME Shaped, NEW a \in Signer, NEW r, Answer(a, r)
    PROVE  client'[a].pc # "send" /\ \A b \in Signer \ {a} : client'[b] = client[b]
  BY DEF Shaped, Answer

LEMMA SimulateSubmitted ==
    ASSUME Shaped, Submitted, NEW a \in Signer, Simulate(a)
    PROVE  Submitted'
  <1>1. account' = account /\ \A b \in Signer \ {a} : client'[b] = client[b]
    BY DEF Simulate, Shaped
  <1>2. client'[a].pc = "send" => Genuine(client'[a].s)
    <2>1. PICK s \in Submissions :
              \/ client'[a].pc = "idle"
              \/ client'[a].s = [e |-> s.e, f |-> s.f, does |-> s.does,
                                 seq |-> account[a].seq, n |-> attempts']
      BY DEF Simulate, Shaped
    <2> QED BY <2>1, SubmissionsAssumption DEF SubmissionsAssumption, Genuine
  <1> QED BY <1>1, <1>2 DEF Submitted, Genuine

LEMMA SendSubmitted ==
    ASSUME Shaped, Submitted, NEW a \in Signer, Send(a)
    PROVE  Submitted'
  <1>1. /\ client'[a].pc # "send" /\ client[a].pc = "send"
        /\ \A b \in Signer \ {a} : client'[b] = client[b]
    BY AnswerUnsent DEF Send, Shaped
  <1>2. CASE Enter(a)
    <2>1. /\ account'[a].pool = account[a].pool \cup {client[a].s}
          /\ \A b \in Signer \ {a} : account'[b] = account[b]
      BY <1>2, EnterShape
    <2> QED BY <1>1, <2>1 DEF Submitted, Genuine
  <1>3. CASE UNCHANGED account
    BY <1>1, <1>3 DEF Submitted, Genuine
  <1> QED BY <1>2, <1>3 DEF Send

LEMMA NextSubmitted == Shaped /\ Submitted /\ [RoutingNext]_all => Submitted'
  <1> SUFFICES ASSUME Shaped, Submitted, [RoutingNext]_all PROVE Submitted'
    OBVIOUS
  <1>1. ASSUME NEW a \in Signer, Confirm(a) PROVE Submitted'
    <2>1. account' = account /\ \E r : Answer(a, r)
      BY <1>1 DEF Confirm
    <2> QED BY <2>1, AnswerUnsent DEF Submitted, Genuine
  <1>2. ASSUME NEW a \in Signer, Land(a) \/ Expire(a) PROVE Submitted'
    <2>1. /\ client' = client
          /\ \A b \in Signer : account'[b].pool \subseteq account[b].pool
      BY <1>2 DEF Land, Expire, Shaped
    <2> QED BY <2>1 DEF Submitted, Genuine
  <1>3. ASSUME UNCHANGED <<client, account>> PROVE Submitted'
    BY <1>3 DEF Submitted, Genuine
  <1>4. CASE Administer \/ Pass \/ UNCHANGED all
    BY <1>3, <1>4 DEF Administer, Pass, all, clients
  <1>5. ASSUME NEW q \in Reader, Read(q) PROVE Submitted'
    BY <1>3, <1>5 DEF Read, Resolve, ReadServes, ReadStaleness, read, Decide, clients
  <1> QED BY <1>1, <1>2, <1>4, <1>5, SimulateSubmitted, SendSubmitted DEF RoutingNext, Client

LEMMA ChainStep ==
    ASSUME Submitted, [RoutingNext]_all
    PROVE  [Next]_vars
  <1>1. ASSUME UNCHANGED chain PROVE UNCHANGED vars
    BY <1>1 DEF chain, vars
  <1>2. CASE Administer
    BY <1>2 DEF Administer, Next, Network
  <1>3. CASE Pass
    BY <1>3 DEF Pass, Next, Network
  <1>4. ASSUME NEW a \in Signer, Land(a) PROVE [Next]_vars
    <2>1. PICK s \in account[a].pool :
              IF Accepts(a, s.e, s.f) THEN Submit(a, s.e, s.f) ELSE UNCHANGED chain
      BY <1>4 DEF Land
    <2>2. s.e \in Entry /\ s.f \in Finding
      BY DEF Submitted, Genuine
    <2> QED BY <1>1, <2>1, <2>2 DEF Next
  <1>5. ASSUME NEW a \in Signer, Simulate(a) \/ Send(a) \/ Confirm(a) \/ Expire(a)
        PROVE  UNCHANGED chain
    BY <1>5 DEF Simulate, Send, Confirm, Expire
  <1>6. ASSUME NEW q \in Reader, Read(q) PROVE UNCHANGED chain
    BY <1>6 DEF Read, Resolve, ReadServes, ReadStaleness, read, Decide
  <1>7. CASE UNCHANGED all
    BY <1>1, <1>7 DEF all
  <1> QED BY <1>1, <1>2, <1>3, <1>4, <1>5, <1>6, <1>7 DEF RoutingNext, Client

LEMMA AllSubmitted == RoutingSpec => [](IInv /\ Submitted)
  <1>1. IInv => Shaped
    BY DEF IInv
  <1> QED BY <1>1, InitIInv, InitSubmitted, NextIInv, NextSubmitted, PTL DEF RoutingSpec

(* Whatever its users do, to the contracts it is submissions that succeed, *)
(* reads that change nothing and the network's own steps: the clients      *)
(* implement Registry (packages/attester/src/index.ts:217-264,             *)
(* packages/registry/src/index.ts).                                        *)
THEOREM ChainIsRegistry == RoutingSpec => Spec
  <1>1. RoutingInit => Init
    BY DEF RoutingInit
  <1> QED BY <1>1, AllSubmitted, ChainStep, PTL DEF RoutingSpec, Spec

(* So the contracts' theorems hold with clients, resolvers and pools       *)
(* around them: the list, the bumps and the cooldown (contracts/           *)
(* registry/src/lib.rs:425-437, 50-51, contracts/attester/src/lib.rs:      *)
(* 269-281).                                                               *)
THEOREM ChainIsSafe ==
    RoutingSpec => []DomainsMatchRecords /\ []BumpKeepsAlive /\ CooldownHolds
  BY ChainIsRegistry, DomainsAgree, BumpingKeepsAlive, CooldownIsKept, PTL

-----------------------------------------------------------------------------
(* What is routed *)

(* A record is what some event reported, in the ledger the record names.   *)
Reports(ev, d) ==
    /\ ev.d = d /\ ev.at = attested[Anchor(d)]
    /\ facts[d].seps \cap facts[d].passed \subseteq ev.serves

Recorded ==
    \A d \in Domain : attested[Anchor(d)] # 0 => \E ev \in log : Reports(ev, d)

(* What a resolution r has read was so of some event: each of its two      *)
(* reads has one of its own.                                               *)
Witnessed(r) ==
    /\ r.pc = "idle" => r.serves = "none" /\ r.age = -1
    /\ r.serves = "yes" => \E ev \in log : ev.d = r.d /\ r.p \in ev.serves
    /\ r.age # -1 => \E ev \in log : ev.d = r.d /\ r.seen - ev.at = r.age
    /\ r.pc = "reading" => r.d \in Domain
    /\ r.pc = "routed" /\ r.serves # "none" => Vouched(r)

ReaderFields == {"pc", "d", "p", "serves", "age", "seen"}

Routed ==
    /\ DOMAIN reader = Reader
    /\ \A q \in Reader : DOMAIN reader[q] = ReaderFields /\ Witnessed(reader[q])

LEMMA InitRouted == RoutingInit => Recorded /\ Routed
  <1> SUFFICES ASSUME RoutingInit PROVE Recorded /\ Routed
    OBVIOUS
  <1>1. Recorded
    BY DEF RoutingInit, Init, Recorded, Anchor, Entry
  <1>2. Routed
    BY DEF RoutingInit, Routed, Witnessed, NoRead, ReaderFields
  <1> QED BY <1>1, <1>2

(* A finding that the contract may store reports no protocol as advertised *)
(* and passed that the anchor did not serve: probeAnchor's do, and what a  *)
(* caller invents passed no probe that ran.                                *)
Faithful ==
    \A s \in Submissions :
        s.f.run \subseteq Protocol /\ s.f.passed \subseteq s.f.run =>
            s.f.seps \cap s.f.passed \subseteq s.does

(* Events are only added. *)
LEMMA LogGrows ==
    ASSUME [RoutingNext]_all
    PROVE  log \subseteq log'
  BY DEF RoutingNext, all, Administer, Pass, Client, Simulate, Send, Confirm, Land, Expire,
         Read, Resolve, ReadServes, ReadStaleness, read, Decide

LEMMA LandRecorded ==
    ASSUME Faithful, RegistryTypeOK, Submitted, Recorded, NEW a \in Signer, Land(a)
    PROVE  Recorded'
  <1>1. PICK s \in account[a].pool :
            IF Accepts(a, s.e, s.f)
            THEN /\ Submit(a, s.e, s.f)
                 /\ log' = IF s.e[1] = "meta" THEN log
                           ELSE log \cup {[d |-> s.e[2], at |-> ledger, serves |-> s.does]}
            ELSE UNCHANGED <<chain, log>>
    BY DEF Land
  <1>2. Genuine(s)
    BY DEF Submitted
  <1>3. CASE ~Accepts(a, s.e, s.f)
    BY <1>1, <1>3 DEF Recorded, Reports, chain
  <1>4. CASE Accepts(a, s.e, s.f) /\ s.e[1] = "anchor"
    <2> DEFINE d0 == s.e[2]
    <2>0. PICK ev0 : ev0 = [d |-> d0, at |-> ledger, serves |-> s.does]
      OBVIOUS
    <2>1. d0 \in Domain /\ s.e = Anchor(d0) /\ ev0 \in log' /\ log \subseteq log'
      BY <1>1, <1>2, <1>4, <2>0 DEF Genuine, Entry, Anchor
    <2>2. /\ attested' = [attested EXCEPT ![s.e] = ledger]
          /\ facts' = [facts EXCEPT ![d0] = s.f]
      BY <1>1, <1>4 DEF Submit
    <2>3. s.f.seps \cap s.f.passed \subseteq s.does
      BY <1>2, <1>4 DEF Faithful, Genuine, Accepts, ChecksOut, AcceptsAnchor
    <2>4. attested'[Anchor(d0)] = ledger /\ facts'[d0] = s.f
      BY <2>1, <2>2, KeysAreKeys DEF RegistryTypeOK
    <2>5. Reports(ev0, d0)'
      BY <2>0, <2>3, <2>4 DEF Reports
    <2>6. ASSUME NEW d \in Domain, d # d0 PROVE
              attested'[Anchor(d)] = attested[Anchor(d)] /\ facts'[d] = facts[d]
      BY <2>1, <2>2, <2>6, KeysAreKeys DEF RegistryTypeOK, Anchor
    <2> HIDE DEF d0
    <2> QED BY <2>1, <2>5, <2>6 DEF Recorded, Reports
  <1>5. CASE Accepts(a, s.e, s.f) /\ s.e[1] # "anchor"
    <2>1. /\ attested' = [attested EXCEPT ![s.e] = ledger] /\ facts' = facts
          /\ log \subseteq log'
      BY <1>1, <1>5 DEF Submit
    <2>2. \A d \in Domain : attested'[Anchor(d)] = attested[Anchor(d)]
      BY <1>5, <2>1, KeysAreKeys DEF RegistryTypeOK, Anchor
    <2> QED BY <2>1, <2>2 DEF Recorded, Reports
  <1>6. s.e[1] = "anchor" \/ s.e[1] # "anchor"
    OBVIOUS
  <1> QED BY <1>3, <1>4, <1>5, <1>6

LEMMA NextRecorded ==
    ASSUME Faithful
    PROVE  RegistryTypeOK /\ Submitted /\ Recorded /\ [RoutingNext]_all => Recorded'
  <1> SUFFICES ASSUME RegistryTypeOK, Submitted, Recorded, [RoutingNext]_all
               PROVE  Recorded'
    OBVIOUS
  <1>0. log \subseteq log'
    BY LogGrows
  <1>1. ASSUME UNCHANGED <<attested, facts>> PROVE Recorded'
    BY <1>0, <1>1 DEF Recorded, Reports
  <1>2. CASE Administer \/ Pass
    <2>1. UNCHANGED <<attested, facts>>
      BY <1>2 DEF Administer, Pass, Admin, add_attester, remove_attester, SetEnrolled,
                  set_min_interval, set_attester, Restore, CloseLedger, bump, stored
    <2> QED BY <1>1, <2>1
  <1>3. ASSUME NEW a \in Signer, Simulate(a) \/ Send(a) \/ Confirm(a) \/ Expire(a)
        PROVE  Recorded'
    BY <1>1, <1>3 DEF Simulate, Send, Confirm, Expire, chain
  <1>4. ASSUME NEW q \in Reader, Read(q) PROVE Recorded'
    BY <1>1, <1>4 DEF Read, Resolve, ReadServes, ReadStaleness, read, Decide, chain
  <1>5. CASE UNCHANGED all
    BY <1>1, <1>5 DEF all, chain
  <1> QED BY <1>2, <1>3, <1>4, <1>5, LandRecorded DEF RoutingNext, Client

(* A reader's step changes its own resolution only. *)
LEMMA OneReader ==
    ASSUME Routed, NEW q \in Reader, NEW r, reader' = [reader EXCEPT ![q] = r],
           DOMAIN r = ReaderFields, log' = log, Witnessed(r)
    PROVE  Routed'
  <1>1. \A p \in Reader : reader'[p] = IF p = q THEN r ELSE reader[p]
    BY DEF Routed
  <1>2. DOMAIN reader' = Reader
    BY DEF Routed
  <1> QED BY <1>1, <1>2 DEF Routed, Witnessed, Vouched

LEMMA ReadRouted ==
    ASSUME RegistryTypeOK, Recorded, Routed, NEW q \in Reader, Read(q)
    PROVE  Routed'
  <1> DEFINE r0 == reader[q]
             refused == [NoRead EXCEPT !.pc = "refused"]
             routed == [r0 EXCEPT !.pc = "routed"]
  <1>0. DOMAIN r0 = ReaderFields /\ Witnessed(r0) /\ log' = log
    BY DEF Routed, Read, Resolve, ReadServes, ReadStaleness, read, Decide
  <1>1. ASSUME Refuse(q) PROVE Routed'
    <2>1. DOMAIN refused = ReaderFields /\ Witnessed(refused)
      BY DEF NoRead, ReaderFields, Witnessed
    <2> QED BY <1>0, <1>1, <2>1, OneReader DEF Refuse
  <1>2. ASSUME Route(q), Vouched(r0) \/ r0.pc = "idle" PROVE Routed'
    <2>1. DOMAIN routed = ReaderFields /\ reader' = [reader EXCEPT ![q] = routed]
      BY <1>0, <1>2 DEF Route, ReaderFields, Routed
    <2>2. /\ routed.pc = "routed" /\ routed.d = r0.d /\ routed.p = r0.p
          /\ routed.serves = r0.serves /\ routed.age = r0.age /\ routed.seen = r0.seen
      BY <1>0 DEF ReaderFields
    <2> HIDE DEF routed
    <2>3. Witnessed(routed)
      BY <1>0, <1>2, <2>2 DEF Witnessed, Vouched
    <2> QED BY <1>0, <2>1, <2>3, OneReader
  <1>3. ASSUME NEW d \in Domain, NEW p \in Lane, Resolve(q, d, p) PROVE Routed'
    <2> DEFINE r == [NoRead EXCEPT !.pc = "reading", !.d = d, !.p = p]
    <2>1. \/ Route(q) \/ Refuse(q)
          \/ reader' = [reader EXCEPT ![q] = r]
      BY <1>3 DEF Resolve
    <2>2. r0.pc = "idle"
      BY <1>3 DEF Resolve
    <2>3. DOMAIN r = ReaderFields /\ Witnessed(r)
      BY DEF NoRead, ReaderFields, Witnessed
    <2> HIDE DEF r
    <2> QED BY <1>0, <1>1, <1>2, <2>1, <2>2, <2>3, OneReader
  <1>4. CASE ReadServes(q)
    <2> DEFINE yes == IF serves(r0.d, r0.p) THEN "yes" ELSE "no"
               r == [r0 EXCEPT !.serves = yes]
    <2>1. \/ Refuse(q)
          \/ Readable(r0.d) /\ reader' = [reader EXCEPT ![q] = r]
      BY <1>4 DEF ReadServes, read
    <2>2. CASE Readable(r0.d) /\ reader' = [reader EXCEPT ![q] = r]
      <3>1. r0.pc = "reading" /\ r0.d \in Domain /\ attested[Anchor(r0.d)] # 0
        BY <1>0, <1>4, <2>2 DEF ReadServes, Witnessed, Readable
      <3>2. yes = "yes" => \E ev \in log : ev.d = r0.d /\ r0.p \in ev.serves
        BY <3>1 DEF Recorded, Reports, serves
      <3>3. /\ DOMAIN r = ReaderFields /\ r.pc = "reading" /\ r.d = r0.d /\ r.p = r0.p
            /\ r.serves = yes /\ r.age = r0.age /\ r.seen = r0.seen
        BY <1>0, <3>1 DEF ReaderFields
      <3> HIDE DEF r, yes
      <3>4. Witnessed(r)
        BY <1>0, <3>1, <3>2, <3>3 DEF Witnessed
      <3> QED BY <1>0, <2>2, <3>3, <3>4, OneReader
    <2> QED BY <1>1, <2>1, <2>2
  <1>5. CASE ReadStaleness(q)
    <2> DEFINE r == [r0 EXCEPT !.age = staleness(r0.d), !.seen = ledger]
    <2>1. \/ Refuse(q)
          \/ Readable(r0.d) /\ reader' = [reader EXCEPT ![q] = r]
      BY <1>5 DEF ReadStaleness, read
    <2>2. CASE Readable(r0.d) /\ reader' = [reader EXCEPT ![q] = r]
      <3>1. r0.pc = "reading" /\ r0.d \in Domain /\ attested[Anchor(r0.d)] # 0
        BY <1>0, <1>5, <2>2 DEF ReadStaleness, Witnessed, Readable
      <3>2. \E ev \in log : ev.d = r0.d /\ ledger - ev.at = staleness(r0.d)
        BY <3>1 DEF Recorded, Reports, staleness
      <3>3. /\ DOMAIN r = ReaderFields /\ r.pc = "reading" /\ r.d = r0.d /\ r.p = r0.p
            /\ r.serves = r0.serves /\ r.age = staleness(r0.d) /\ r.seen = ledger
        BY <1>0, <3>1 DEF ReaderFields
      <3> HIDE DEF r
      <3>4. Witnessed(r)
        BY <1>0, <3>1, <3>2, <3>3 DEF Witnessed
      <3> QED BY <1>0, <2>2, <3>3, <3>4, OneReader
    <2> QED BY <1>1, <2>1, <2>2
  <1>6. CASE Decide(q)
    BY <1>1, <1>2, <1>6 DEF Decide
  <1> QED BY <1>3, <1>4, <1>5, <1>6 DEF Read

LEMMA NextRouted ==
    RegistryTypeOK /\ Recorded /\ Routed /\ [RoutingNext]_all => Routed'
  <1> SUFFICES ASSUME RegistryTypeOK, Recorded, Routed, [RoutingNext]_all PROVE Routed'
    OBVIOUS
  <1>0. log \subseteq log'
    BY LogGrows
  <1>1. ASSUME reader' = reader PROVE Routed'
    BY <1>0, <1>1 DEF Routed, Witnessed, Vouched
  <1>2. CASE Administer \/ Pass \/ UNCHANGED all
    BY <1>1, <1>2 DEF Administer, Pass, all
  <1>3. ASSUME NEW a \in Signer, Client(a) PROVE Routed'
    BY <1>1, <1>3 DEF Client, Simulate, Send, Confirm, Land, Expire
  <1> QED BY <1>2, <1>3, ReadRouted DEF RoutingNext

(* No payment is routed but on evidence: the anchor served the protocol    *)
(* when it was probed for some attestation, and was attested no longer     *)
(* than MaxStaleness before the read, for any submissions, restores, bumps *)
(* and cooldowns in between (packages/router/src/registry-resolver.ts).    *)
(* It rests on what probes report of an anchor being true of it.           *)
THEOREM RoutesOnEvidence ==
    ASSUME Faithful PROVE RoutingSpec => []RoutedOnEvidence
  <1>1. RoutingSpec => []RegistryTypeOK
    BY ChainIsRegistry, RegistryTyped, PTL
  <1>2. Routed => RoutedOnEvidence
    <2> SUFFICES ASSUME Routed, NEW q \in Reader, reader[q].pc = "routed",
                        reader[q].serves # "none"
                 PROVE  /\ \E ev \in log : ev.d = reader[q].d /\ reader[q].p \in ev.serves
                        /\ \E ev \in log : ev.d = reader[q].d
                                           /\ reader[q].seen - ev.at <= MaxStaleness
      BY DEF RoutedOnEvidence
    <2>1. Witnessed(reader[q])
      BY DEF Routed
    <2>2. reader[q].serves = "yes" /\ reader[q].age \in 0 .. MaxStaleness
      BY <2>1 DEF Witnessed, Vouched
    <2>3. reader[q].age # -1 /\ reader[q].age <= MaxStaleness
      BY <2>2, RoutingAssumption DEF RoutingAssumption
    <2> QED BY <2>1, <2>2, <2>3 DEF Witnessed
  <1>3. RegistryTypeOK /\ Submitted /\ Recorded /\ [RoutingNext]_all => Recorded'
    BY NextRecorded
  <1> QED BY <1>1, <1>2, <1>3, AllSubmitted, InitRouted, NextRouted, PTL
          DEF RoutingSpec

=============================================================================
