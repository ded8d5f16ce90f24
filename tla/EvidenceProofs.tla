--------------------------- MODULE EvidenceProofs ---------------------------
(***************************************************************************)
(* What holds of the evidence a lane takes money on, for any manifests,    *)
(* stellar.tomls, bodies and amounts, over any number of days, edits and   *)
(* canaries.                                                               *)
(*                                                                         *)
(* A proof, wherever it is by now (in the file, in the corridor a service  *)
(* or a canary loaded, in a draft that is not renamed yet), tells of a     *)
(* canary that completed on its day; and where there is a date and the     *)
(* domain is no placeholder, what is pinned was published on that day.     *)
(***************************************************************************)
EXTENDS Evidence, FiniteSetTheorems, TLAPS

Dests == {"protocol", "home", "endpoints", "verifiedAt"}
Proofs == {"completedAt", "tx", "amount", "maxAge", "cap"}

Shaped(m) ==
    /\ DOMAIN m = Manifests /\ DOMAIN m.dest = Dests
    /\ Countable(m.limits.min) /\ Countable(m.limits.max)

(* The canary that a proof tells of. *)
Evident(proof) ==
    proof # None =>
        /\ DOMAIN proof = Proofs
        /\ proof.maxAge \in Int /\ Countable(proof.cap)
        /\ \E e \in completed :
              e.tx = proof.tx /\ e.amount = proof.amount /\ e.on = proof.completedAt

(* The endpoints that the manifest pins once it is parsed. *)
Pinned(m) ==
    DestSchema[IF Protocol(m.dest) = "sep6" THEN "sep6" ELSE "sep31"]
        \cap (DestSchema[Protocol(m.dest)] \cap DOMAIN m.dest.endpoints)

Dated(m) ==
    m.dest.verifiedAt # None /\ ~isPlaceholderDomain(m.dest.home) =>
        \A name \in Pinned(m) :
            /\ name \in DOMAIN published[m.dest.verifiedAt]
            /\ published[m.dest.verifiedAt][name] = m.dest.endpoints[name]

Sound(m) == m # None => Shaped(m) /\ Evident(m.proof) /\ Dated(m)

Counted ==
    /\ day \in Nat /\ IsFiniteSet(completed)
    /\ \A e \in completed : e.tx \in 1 .. Cardinality(completed) /\ e.on \in Nat

Locals == {"pc", "c", "asked", "sent", "draft"}

(* What the canary was loaded with, what it did today and what it writes. *)
Underway ==
    /\ DOMAIN canary = Locals
    /\ canary.pc \notin {"idle", "writing"} => canary.c # None /\ Sound(canary.c)
    /\ canary.pc = "writing" => Sound(canary.draft)
    /\ canary.pc = "completed" =>
          \E e \in completed :
              e.tx = Cardinality(completed) /\ e.amount = canary.sent /\ e.on = day

(* The service has what the schema leaves of the endpoints. *)
Served == served # None => Sound(served) /\ Linted(served) = Pinned(served)

Kept == Counted /\ Sound(file) /\ Served /\ Underway

-----------------------------------------------------------------------------
(* Parsing *)

LEMMA NoneCountable == Countable(None)
  BY DEF Countable, toScaled, isValidAmount

LEMMA ParseFields ==
    ASSUME NEW m, Shaped(m), NEW c, c = parseCorridor(m), c # None
    PROVE  /\ DOMAIN c = Manifests /\ c.dest = parseDest(m.dest) /\ c.limits = m.limits
           /\ c.proof = ProofDefaults(m.proof)
  <1>1. c = [m EXCEPT !.dest = parseDest(@), !.fx = FxDefaults(@), !.proof = ProofDefaults(@),
                      !.source.protocol = Default(@, "prefunded")]
    BY DEF parseCorridor
  <1>2. DOMAIN m = Manifests
    BY DEF Shaped
  <1> QED BY <1>1, <1>2 DEF Manifests

LEMMA DestFields ==
    ASSUME NEW d, DOMAIN d = Dests
    PROVE  /\ DOMAIN parseDest(d) = Dests /\ parseDest(d).protocol = Protocol(d)
           /\ parseDest(d).verifiedAt = d.verifiedAt /\ parseDest(d).home = d.home
           /\ DOMAIN parseDest(d).endpoints = DestSchema[Protocol(d)] \cap DOMAIN d.endpoints
           /\ \A name \in DestSchema[Protocol(d)] \cap DOMAIN d.endpoints :
                 parseDest(d).endpoints[name] = d.endpoints[name]
           /\ Protocol(parseDest(d)) = Protocol(d)
  <1>1. parseDest(d) = [d EXCEPT !.protocol = Protocol(d),
                 !.endpoints = Restrict(@, DestSchema[Protocol(d)] \cap DOMAIN @)]
    BY DEF parseDest
  <1>2. /\ DOMAIN parseDest(d) = Dests /\ parseDest(d).protocol = Protocol(d)
        /\ parseDest(d).verifiedAt = d.verifiedAt /\ parseDest(d).home = d.home
        /\ parseDest(d).endpoints
              = Restrict(d.endpoints, DestSchema[Protocol(d)] \cap DOMAIN d.endpoints)
    BY <1>1 DEF Dests
  <1>3. Protocol(parseDest(d)) = Protocol(d)
    BY <1>2 DEF Protocol, Default
  <1> QED BY <1>2, <1>3 DEF Restrict

LEMMA ParseSound ==
    ASSUME NEW m, Sound(m), m # None, NEW c, c = parseCorridor(m), c # None
    PROVE  Sound(c) /\ Linted(c) = Pinned(c) /\ Linted(c) = Pinned(m)
           /\ \A name \in Linted(c) : c.dest.endpoints[name] = m.dest.endpoints[name]
  <1>1. Shaped(m) /\ Evident(m.proof) /\ Dated(m)
    BY DEF Sound
  <1>2. /\ DOMAIN c = Manifests /\ c.dest = parseDest(m.dest) /\ c.limits = m.limits
        /\ c.proof = ProofDefaults(m.proof)
    BY <1>1, ParseFields
  <1>3. /\ DOMAIN c.dest = Dests /\ c.dest.protocol = Protocol(m.dest)
        /\ c.dest.verifiedAt = m.dest.verifiedAt /\ c.dest.home = m.dest.home
        /\ DOMAIN c.dest.endpoints = DestSchema[Protocol(m.dest)] \cap DOMAIN m.dest.endpoints
        /\ \A name \in DestSchema[Protocol(m.dest)] \cap DOMAIN m.dest.endpoints :
              c.dest.endpoints[name] = m.dest.endpoints[name]
        /\ Protocol(c.dest) = Protocol(m.dest)
    BY <1>1, <1>2, DestFields DEF Shaped
  <1>4. Linted(c) = Pinned(m) /\ Pinned(c) = Pinned(m)
    BY <1>3 DEF Linted, Pinned
  <1>5. \A name \in Pinned(m) : c.dest.endpoints[name] = m.dest.endpoints[name]
    BY <1>3 DEF Pinned
  <1>6. Shaped(c)
    BY <1>1, <1>2, <1>3 DEF Shaped
  <1>7. Dated(c)
    BY <1>1, <1>3, <1>4, <1>5 DEF Dated
  <1>8. Evident(c.proof)
    <2>1. SUFFICES ASSUME c.proof # None PROVE Evident(c.proof)
      BY DEF Evident
    <2>2. m.proof # None /\ c.proof = [m.proof EXCEPT !.maxAge = Default(@, ProofAge)]
      BY <1>2, <2>1 DEF ProofDefaults
    <2>3. DOMAIN m.proof = Proofs
      BY <1>1, <2>2 DEF Evident
    <2>4. /\ DOMAIN c.proof = Proofs /\ c.proof.maxAge = Default(m.proof.maxAge, ProofAge)
          /\ c.proof.cap = m.proof.cap /\ c.proof.tx = m.proof.tx
          /\ c.proof.amount = m.proof.amount /\ c.proof.completedAt = m.proof.completedAt
      BY <2>2, <2>3 DEF Proofs
    <2>5. c.proof.maxAge \in Int
      BY <1>1, <2>2, <2>4, EvidenceAssumption DEF EvidenceAssumption, Evident, Default
    <2> QED BY <1>1, <2>2, <2>4, <2>5 DEF Evident
  <1> QED BY <1>4, <1>5, <1>6, <1>7, <1>8 DEF Sound

(* Nothing is forgotten: what was sound still is. *)
LEMMA SoundStays ==
    ASSUME published' = published, completed \subseteq completed', NEW m, Sound(m)
    PROVE  Sound(m)'
  BY DEF Sound, Evident, Dated

LEMMA FileStays ==
    ASSUME published' = published, completed \subseteq completed', file' = file, Sound(file)
    PROVE  Sound(file)'
  <1>1. PICK m : m = file
    OBVIOUS
  <1>2. Sound(m)
    BY <1>1
  <1>3. Sound(m)'
    BY <1>2, SoundStays
  <1> QED BY <1>1, <1>3 DEF Sound, Evident, Dated, Pinned

(* A file that a step leaves sound. *)
LEMMA FileBecomes ==
    ASSUME published' = published, completed \subseteq completed',
           NEW m, file' = m, Sound(m)
    PROVE  Sound(file)'
  <1>1. Sound(m)'
    BY SoundStays
  <1> QED BY <1>1 DEF Sound, Evident, Dated, Pinned

LEMMA ServedStays ==
    ASSUME published' = published, completed \subseteq completed', served' = served, Served
    PROVE  Served'
  <1>1. PICK m : m = served
    OBVIOUS
  <1>2. m # None => Sound(m)
    BY <1>1 DEF Served
  <1>3. m # None => Sound(m)'
    BY <1>2, SoundStays
  <1>4. m # None => Linted(m) = Pinned(m)
    BY <1>1 DEF Served
  <1> QED BY <1>1, <1>3, <1>4 DEF Served, Sound, Evident, Dated

LEMMA CanaryStays ==
    ASSUME published' = published, completed' = completed, canary' = canary, Underway,
           day' = day \/ canary.pc # "completed"
    PROVE  Underway'
  <1>1. PICK m : m = canary.c
    OBVIOUS
  <1>2. canary.pc \notin {"idle", "writing"} => Sound(m)
    BY <1>1 DEF Underway
  <1>3. canary.pc \notin {"idle", "writing"} => Sound(m)'
    BY <1>2, SoundStays
  <1>4. canary.pc \notin {"idle", "writing"} => Sound(canary.c)'
    BY <1>1, <1>3 DEF Sound, Evident, Dated
  <1>5. PICK n : n = canary.draft
    OBVIOUS
  <1>6. canary.pc = "writing" => Sound(n)
    BY <1>5 DEF Underway
  <1>7. canary.pc = "writing" => Sound(n)'
    BY <1>6, SoundStays
  <1>8. canary.pc = "writing" => Sound(canary.draft)'
    BY <1>5, <1>7 DEF Sound, Evident, Dated
  <1> QED BY <1>4, <1>8 DEF Underway

LEMMA IdleCanary ==
    ASSUME canary' = NoCanary
    PROVE  Underway'
  BY DEF Underway, NoCanary, Locals

-----------------------------------------------------------------------------
(* The steps, one by one *)

LEMMA KeptByNew ==
    ASSUME Kept, NEW probes, NEW sourceAsset, NEW network, NEW allow,
           newCommand(probes, sourceAsset, network, allow)
    PROVE  Kept'
  <1> DEFINE toml == IF "toml_fetch" \in probes THEN Today ELSE <<>>
  <1>1. PICK m : /\ m = manifestFromProbe(probes, toml, sourceAsset, network, allow, day)
                 /\ m # None /\ file' = m
    BY DEF newCommand
  <1>2. UNCHANGED <<published, day, served, canary, completed>>
    BY DEF newCommand
  <1> DEFINE pinned == DestSchema["sep31"] \cap DOMAIN toml
  <1>3. m = [source |-> [protocol |-> None, asset |-> sourceAsset, endpoints |-> {"home_domain"}],
             dest |-> [protocol |-> "sep31", home |-> "anchor", endpoints |-> Restrict(toml, pinned),
                       verifiedAt |-> IF {"toml_fetch", "sep31_info"} \subseteq probes
                                      THEN day ELSE None],
             fx |-> [ttl |-> 60, margin |-> None],
             method |-> None,
             settlement |-> [network |-> network, bridge |-> "USDC",
                             receive |-> None, receiveIssuer |-> None],
             limits |-> [min |-> None, max |-> None],
             proof |-> None]
    BY <1>1 DEF manifestFromProbe
  <1> HIDE DEF toml
  <1>4. /\ DOMAIN m = Manifests /\ DOMAIN m.dest = Dests
        /\ m.limits.min = None /\ m.limits.max = None /\ m.proof = None
        /\ m.dest.endpoints = Restrict(toml, pinned)
        /\ m.dest.verifiedAt = IF {"toml_fetch", "sep31_info"} \subseteq probes THEN day ELSE None
    BY <1>3 DEF Manifests, Dests
  <1>5. Shaped(m) /\ Evident(m.proof)
    BY <1>4, NoneCountable DEF Shaped, Evident
  <1>6. Dated(m)
    <2>1. SUFFICES ASSUME m.dest.verifiedAt # None
                   PROVE  \A name \in Pinned(m) :
                              /\ name \in DOMAIN published[m.dest.verifiedAt]
                              /\ published[m.dest.verifiedAt][name] = m.dest.endpoints[name]
      BY DEF Dated
    <2>2. m.dest.verifiedAt = day /\ toml = published[day]
      BY <1>4, <2>1 DEF toml, Today
    <2>3. Pinned(m) \subseteq pinned
      BY <1>4 DEF Pinned, Restrict
    <2>4. \A name \in pinned : name \in DOMAIN toml /\ m.dest.endpoints[name] = toml[name]
      BY <1>4 DEF Restrict
    <2> QED BY <2>2, <2>3, <2>4
  <1>7. Sound(m)
    BY <1>5, <1>6 DEF Sound
  <1>8. Sound(file)' /\ Served' /\ Underway'
    BY <1>1, <1>2, <1>7, FileBecomes, ServedStays, CanaryStays DEF Kept
  <1>9. Counted'
    BY <1>2 DEF Kept, Counted
  <1> QED BY <1>8, <1>9 DEF Kept

LEMMA EditedSound ==
    ASSUME Kept, NEW m \in Saved
    PROVE  Sound(Edited(m)) /\ (file # None => Edited(m).proof = file.proof)
  <1>1. /\ DOMAIN m = Manifests /\ DOMAIN m.dest = Dests /\ m.proof = None
        /\ m.dest.verifiedAt = None
        /\ Countable(m.limits.min) /\ Countable(m.limits.max)
    BY ShapeAssumption, EvidenceAssumption, CountableAssumption
       DEF ShapeAssumption, EvidenceAssumption, CountableAssumption, Dests
  <1>2. CASE file = None
    <2>1. Edited(m) = m
      BY <1>2 DEF Edited
    <2> QED BY <1>1, <1>2, <2>1 DEF Sound, Shaped, Evident, Dated
  <1>3. CASE file # None
    <2> DEFINE same == /\ m.dest.endpoints = file.dest.endpoints
                       /\ Protocol(m.dest) = Protocol(file.dest)
                       /\ m.dest.home = file.dest.home
    <2>1. PICK n : n = Edited(m)
      OBVIOUS
    <2>2. n = [m EXCEPT !.proof = file.proof,
                        !.dest.verifiedAt = IF same THEN file.dest.verifiedAt ELSE None]
      BY <1>3, <2>1 DEF Edited
    <2>3. /\ DOMAIN n = Manifests /\ DOMAIN n.dest = Dests /\ n.proof = file.proof
          /\ n.limits = m.limits
          /\ n.dest.endpoints = m.dest.endpoints /\ n.dest.protocol = m.dest.protocol
          /\ n.dest.home = m.dest.home
          /\ n.dest.verifiedAt = IF same THEN file.dest.verifiedAt ELSE None
      BY <1>1, <2>2 DEF Manifests, Dests
    <2>4. Shaped(n) /\ Evident(n.proof)
      BY <1>1, <1>3, <2>3 DEF Shaped, Kept, Sound
    <2>5. Dated(n)
      <3>1. CASE ~same
        BY <2>3, <3>1 DEF Dated
      <3>2. CASE same
        <4>1. Protocol(n.dest) = Protocol(m.dest)
          BY <2>3 DEF Protocol
        <4>2. Pinned(n) = Pinned(file)
          BY <2>3, <3>2, <4>1 DEF Pinned
        <4>3. Dated(file)
          BY <1>3 DEF Kept, Sound
        <4> QED BY <2>3, <3>2, <4>2, <4>3 DEF Dated
      <3> QED BY <3>1, <3>2
    <2> QED BY <2>1, <2>3, <2>4, <2>5 DEF Sound
  <1> QED BY <1>2, <1>3

LEMMA CapSound ==
    ASSUME Kept, file # None, file.proof # None, NEW cap \in Caps,
           NEW n, n = [file EXCEPT !.proof.cap = cap]
    PROVE  Sound(n)
  <1>1. Shaped(file) /\ Evident(file.proof) /\ Dated(file)
    BY DEF Kept, Sound
  <1>2. DOMAIN file = Manifests /\ DOMAIN file.proof = Proofs
    BY <1>1 DEF Shaped, Evident
  <1>3. /\ DOMAIN n = Manifests /\ n.dest = file.dest /\ n.limits = file.limits
        /\ n.proof = [file.proof EXCEPT !.cap = cap]
    BY <1>2 DEF Manifests
  <1>4. /\ DOMAIN n.proof = Proofs /\ n.proof.cap = cap /\ n.proof.maxAge = file.proof.maxAge
        /\ n.proof.tx = file.proof.tx /\ n.proof.amount = file.proof.amount
        /\ n.proof.completedAt = file.proof.completedAt
    BY <1>2, <1>3 DEF Proofs
  <1>5. Countable(cap)
    BY CountableAssumption DEF CountableAssumption
  <1>6. Shaped(n) /\ Dated(n)
    BY <1>1, <1>2, <1>3 DEF Shaped, Dated, Pinned
  <1>7. Evident(n.proof)
    BY <1>1, <1>4, <1>5 DEF Evident
  <1> QED BY <1>6, <1>7 DEF Sound

LEMMA KeptByEdit ==
    ASSUME Kept, Edit
    PROVE  Kept'
  <1>1. UNCHANGED <<published, day, served, canary, completed>>
    BY DEF Edit
  <1>2. PICK n : file' = n /\ Sound(n)
    <2>1. ASSUME NEW m \in Saved, file' = Edited(m) PROVE \E n : file' = n /\ Sound(n)
      BY <2>1, EditedSound
    <2>2. ASSUME file # None, file.proof # None, NEW cap \in Caps,
                 file' = [file EXCEPT !.proof.cap = cap]
          PROVE \E n : file' = n /\ Sound(n)
      BY <2>2, CapSound
    <2> QED BY <2>1, <2>2 DEF Edit
  <1>3. Sound(file)' /\ Served' /\ Underway'
    BY <1>1, <1>2, FileBecomes, ServedStays, CanaryStays DEF Kept
  <1>4. Counted'
    BY <1>1 DEF Kept, Counted
  <1> QED BY <1>3, <1>4 DEF Kept

LEMMA KeptByVerify ==
    ASSUME Kept, Verify
    PROVE  Kept'
  <1>1. PICK m : m = file
    OBVIOUS
  <1>2. PICK c : c = parseCorridor(m)
    OBVIOUS
  <1>3. /\ m # None /\ c # None /\ lintCorridor(c, published[day])
        /\ file' = [m EXCEPT !.dest.verifiedAt = day]
        /\ UNCHANGED <<published, day, served, canary, completed>>
    BY <1>1, <1>2 DEF Verify, Today
  <1>4. Sound(m) /\ Shaped(m)
    BY <1>1, <1>3 DEF Kept, Sound
  <1>5. PICK n : n = [m EXCEPT !.dest.verifiedAt = day]
    OBVIOUS
  <1>6. /\ DOMAIN n = Manifests /\ DOMAIN n.dest = Dests /\ n.proof = m.proof
        /\ n.limits = m.limits /\ n.dest.endpoints = m.dest.endpoints
        /\ n.dest.protocol = m.dest.protocol /\ n.dest.verifiedAt = day
        /\ n.dest.home = m.dest.home
    BY <1>4, <1>5 DEF Shaped, Manifests, Dests
  <1>7. Pinned(n) = Pinned(m)
    BY <1>6 DEF Pinned, Protocol
  <1>8. /\ Linted(c) = Pinned(m)
        /\ \A name \in Linted(c) : c.dest.endpoints[name] = m.dest.endpoints[name]
    BY <1>2, <1>3, <1>4, ParseSound
  <1>a. c.dest.home = m.dest.home
    BY <1>2, <1>3, <1>4, ParseFields, DestFields DEF Shaped
  <1>9. Dated(n)
    BY <1>3, <1>6, <1>7, <1>8, <1>a DEF Dated, lintCorridor, compareManifestToToml
  <1>10. Sound(n)
    BY <1>3, <1>4, <1>6, <1>9 DEF Sound, Shaped
  <1>11. Sound(file)' /\ Served' /\ Underway'
    BY <1>3, <1>5, <1>10, FileBecomes, ServedStays, CanaryStays DEF Kept
  <1>12. Counted'
    BY <1>3 DEF Kept, Counted
  <1> QED BY <1>11, <1>12 DEF Kept

LEMMA KeptByDay ==
    ASSUME Kept, DayPasses
    PROVE  Kept'
  <1>1. /\ canary.pc # "completed" /\ day' = day + 1
        /\ UNCHANGED <<published, file, served, canary, completed>>
    BY DEF DayPasses
  <1>2. Sound(file)' /\ Served' /\ Underway'
    BY <1>1, FileStays, ServedStays, CanaryStays DEF Kept
  <1>3. Counted'
    BY <1>1 DEF Kept, Counted
  <1> QED BY <1>2, <1>3 DEF Kept

LEMMA KeptByServe ==
    ASSUME Kept, Serve
    PROVE  Kept'
  <1>1. PICK m : m = file
    OBVIOUS
  <1>2. PICK c : c = parseCorridor(m)
    OBVIOUS
  <1>3. m # None /\ served' = c /\ UNCHANGED <<published, day, file, canary, completed>>
    BY <1>1, <1>2 DEF Serve
  <1>4. c # None => Sound(c) /\ Linted(c) = Pinned(c)
    BY <1>1, <1>2, <1>3, ParseSound DEF Kept
  <1>5. c # None => Sound(c)'
    BY <1>3, <1>4, SoundStays
  <1>6. Served'
    BY <1>3, <1>4, <1>5 DEF Served, Sound, Evident, Dated
  <1>7. Sound(file)' /\ Underway'
    BY <1>3, FileStays, CanaryStays DEF Kept
  <1>8. Counted'
    BY <1>3 DEF Kept, Counted
  <1> QED BY <1>6, <1>7, <1>8 DEF Kept

(* The canary command leaves everything else alone until it is through. *)
LEMMA OnlyCanary ==
    ASSUME Kept, UNCHANGED <<published, day, file, served, completed>>, Underway'
    PROVE  Kept'
  <1>1. Sound(file)' /\ Served'
    BY FileStays, ServedStays DEF Kept
  <1>2. Counted'
    BY DEF Kept, Counted
  <1> QED BY <1>1, <1>2 DEF Kept

LEMMA KeptByStart ==
    ASSUME Kept, NEW a, NEW network, executeCanary(a, network)
    PROVE  Kept'
  <1>1. PICK m : m = file
    OBVIOUS
  <1>2. PICK c : c = parseCorridor(m)
    OBVIOUS
  <1>3. /\ m # None /\ c # None
        /\ canary' = [NoCanary EXCEPT !.pc = "started", !.c = c, !.asked = a]
        /\ UNCHANGED <<published, day, file, served, completed>>
    BY <1>1, <1>2 DEF executeCanary
  <1>4. Sound(c)
    BY <1>1, <1>2, <1>3, ParseSound DEF Kept
  <1>5. Sound(c)'
    BY <1>3, <1>4, SoundStays
  <1>6. Underway'
    <2>1. DOMAIN canary' = Locals /\ canary'.pc = "started" /\ canary'.c = c
      BY <1>3 DEF NoCanary, Locals
    <2> QED BY <1>3, <1>5, <2>1 DEF Underway, Sound, Evident, Dated
  <1> QED BY <1>3, <1>6, OnlyCanary

LEMMA KeptByStop ==
    ASSUME Kept, Stop
    PROVE  Kept'
  BY IdleCanary, OnlyCanary DEF Stop

(* The canary goes on with the corridor it loaded. *)
LEMMA CanaryGoesOn ==
    ASSUME Kept, published' = published, completed \subseteq completed',
           canary.pc \notin {"idle", "writing"},
           DOMAIN canary' = Locals, canary'.c = canary.c
    PROVE  canary'.c # None /\ Sound(canary.c)'
  <1>1. PICK m : m = canary.c
    OBVIOUS
  <1>2. m # None /\ Sound(m)
    BY <1>1 DEF Kept, Underway
  <1>3. Sound(m)'
    BY <1>2, SoundStays
  <1> QED BY <1>1, <1>2, <1>3 DEF Sound, Evident, Dated

LEMMA KeptByPays ==
    ASSUME Kept, NEW sell, CanaryPays(sell)
    PROVE  Kept'
  <1>1. /\ canary.pc = "started" /\ canary' = [canary EXCEPT !.pc = "paid", !.sent = sell]
        /\ UNCHANGED <<published, day, file, served, completed>>
    BY DEF CanaryPays
  <1>2. /\ DOMAIN canary' = Locals /\ canary'.pc = "paid"
        /\ canary'.c = canary.c
    BY <1>1 DEF Kept, Underway, Locals
  <1>3. canary'.c # None /\ Sound(canary.c)'
    BY <1>1, <1>2, CanaryGoesOn
  <1>4. Underway'
    BY <1>2, <1>3 DEF Underway
  <1> QED BY <1>1, <1>4, OnlyCanary

LEMMA KeptByCompletes ==
    ASSUME Kept, CanaryCompletes
    PROVE  Kept'
  <1> DEFINE n == Cardinality(completed)
             e == [tx |-> n + 1, amount |-> canary.sent, on |-> day]
  <1>1. /\ canary.pc = "paid" /\ canary' = [canary EXCEPT !.pc = "completed"]
        /\ completed' = completed \cup {e}
        /\ UNCHANGED <<published, day, file, served>>
    BY DEF CanaryCompletes
  <1>2. /\ DOMAIN canary' = Locals /\ canary'.pc = "completed"
        /\ canary'.c = canary.c /\ canary'.sent = canary.sent
    BY <1>1 DEF Kept, Underway, Locals
  <1>3. canary'.c # None /\ Sound(canary.c)'
    BY <1>1, <1>2, CanaryGoesOn
  <1>4. n \in Nat /\ IsFiniteSet(completed)
    BY FS_CardinalityType DEF Kept, Counted
  <1>5. e \notin completed
    BY <1>4 DEF Kept, Counted
  <1>6. IsFiniteSet(completed') /\ Cardinality(completed') = n + 1
    BY <1>1, <1>4, <1>5, FS_AddElement
  <1>7. Counted'
    <2>1. \A x \in completed' : x.tx \in 1 .. n + 1 /\ x.on \in Nat
      BY <1>1, <1>4 DEF Kept, Counted
    <2> QED BY <1>1, <1>6, <2>1 DEF Kept, Counted
  <1>8. Underway'
    <2>1. e \in completed' /\ e.tx = n + 1 /\ e.amount = canary.sent /\ e.on = day
      BY <1>1
    <2> HIDE DEF e, n
    <2> QED BY <1>1, <1>2, <1>3, <1>6, <2>1 DEF Underway
  <1>9. Sound(file)' /\ Served'
    BY <1>1, FileStays, ServedStays DEF Kept
  <1> QED BY <1>7, <1>8, <1>9 DEF Kept

(* The proof that is written tells of today's canary. *)
LEMMA ProofEvident ==
    ASSUME Kept, canary.pc = "completed", NEW p, p = buildCanaryProof
    PROVE  p # None => Evident(p)
  <1>1. /\ p = [completedAt |-> day, tx |-> Cardinality(completed), amount |-> canary.sent,
                maxAge |-> IF canary.c.proof = None THEN ProofAge ELSE canary.c.proof.maxAge,
                cap |-> CanaryCap(canary.c, RecordedCap)]
    BY DEF buildCanaryProof
  <1>2. /\ DOMAIN p = Proofs /\ p.completedAt = day /\ p.tx = Cardinality(completed)
        /\ p.amount = canary.sent /\ p.cap = CanaryCap(canary.c, RecordedCap)
        /\ p.maxAge = IF canary.c.proof = None THEN ProofAge ELSE canary.c.proof.maxAge
    BY <1>1 DEF Proofs
  <1>3. Evident(canary.c.proof)
    BY DEF Kept, Underway, Sound
  <1>4. p.maxAge \in Int
    BY <1>2, <1>3, EvidenceAssumption DEF EvidenceAssumption, Evident
  <1>5. Countable(p.cap)
    <2>1. Countable(RecordedCap)
      BY CountableAssumption DEF CountableAssumption
    <2> QED BY <1>2, <1>3, <2>1 DEF CanaryCap, Default, Evident
  <1>6. \E e \in completed : e.tx = p.tx /\ e.amount = p.amount /\ e.on = p.completedAt
    BY <1>2 DEF Kept, Underway
  <1> QED BY <1>2, <1>4, <1>5, <1>6 DEF Evident

LEMMA KeptByFinalize ==
    ASSUME Kept, finalizeCanary
    PROVE  Kept'
  <1>1. PICK m : m = file
    OBVIOUS
  <1>2. PICK p : p = buildCanaryProof
    OBVIOUS
  <1>3. PICK n : n = [m EXCEPT !.proof = p]
    OBVIOUS
  <1>4. /\ canary.pc = "completed" /\ m # None
        /\ canary' = [NoCanary EXCEPT !.pc = "writing", !.draft = n]
        /\ UNCHANGED <<published, day, file, served, completed>>
    BY <1>1, <1>2, <1>3 DEF finalizeCanary, Provable
  <1>5. Shaped(m) /\ Dated(m)
    BY <1>1, <1>4 DEF Kept, Sound
  <1>6. /\ DOMAIN n = Manifests /\ n.dest = m.dest /\ n.limits = m.limits /\ n.proof = p
    BY <1>3, <1>5 DEF Shaped, Manifests
  <1>7. Evident(n.proof)
    BY <1>2, <1>4, <1>6, ProofEvident DEF Evident
  <1>8. Sound(n)
    BY <1>5, <1>6, <1>7 DEF Sound, Shaped, Dated, Pinned
  <1>9. Sound(n)'
    BY <1>4, <1>8, SoundStays
  <1>10. Underway'
    <2>1. DOMAIN canary' = Locals /\ canary'.pc = "writing" /\ canary'.draft = n
      BY <1>4 DEF NoCanary, Locals
    <2> QED BY <1>8, <1>9, <2>1 DEF Underway, Sound, Evident, Dated
  <1> QED BY <1>4, <1>10, OnlyCanary

LEMMA KeptByWrite ==
    ASSUME Kept, writeProofManifest
    PROVE  Kept'
  <1>1. PICK n : n = canary.draft
    OBVIOUS
  <1>2. /\ canary.pc = "writing" /\ file' = n /\ canary' = NoCanary
        /\ UNCHANGED <<published, day, served, completed>>
    BY <1>1 DEF writeProofManifest
  <1>3. Sound(n)
    BY <1>1, <1>2 DEF Kept, Underway
  <1>4. Sound(file)' /\ Served' /\ Underway'
    BY <1>2, <1>3, FileBecomes, ServedStays, IdleCanary DEF Kept
  <1>5. Counted'
    BY <1>2 DEF Kept, Counted
  <1> QED BY <1>4, <1>5 DEF Kept

LEMMA KeptFirst == Init => Kept
  <1> SUFFICES ASSUME Init PROVE Kept
    OBVIOUS
  <1>1. Counted
    BY FS_EmptySet DEF Init, Counted
  <1> QED BY <1>1 DEF Init, Kept, Sound, Served, Underway, NoCanary, Locals

LEMMA KeptNext == Kept /\ [Next]_vars => Kept'
  <1> SUFFICES ASSUME Kept, [Next]_vars PROVE Kept'
    OBVIOUS
  <1>1. CASE Operate
    BY <1>1, KeptByNew, KeptByEdit, KeptByVerify, KeptByDay DEF Operate
  <1>2. CASE Canary
    BY <1>2, KeptByStart, KeptByPays, KeptByStop, KeptByCompletes, KeptByFinalize,
       KeptByWrite
       DEF Canary, Unfit, Abandon
  <1>3. CASE Serve
    BY <1>3, KeptByServe
  <1>4. CASE UNCHANGED vars
    BY <1>4, OnlyCanary, CanaryStays DEF vars, Kept
  <1> QED BY <1>1, <1>2, <1>3, <1>4 DEF Next

(* Every proof tells of a canary that completed, and every date of a day   *)
(* on which what is pinned was published: in the file, in the service and  *)
(* in the canary command.                                                  *)
THEOREM EvidenceKept == Spec => []Kept
  BY KeptFirst, KeptNext, PTL DEF Spec

-----------------------------------------------------------------------------
(* A lane is proven by a canary *)

LEMMA FreshIsBacked ==
    ASSUME Counted, NEW proof, Evident(proof), Fresh(proof, day)
    PROVE  Backed(proof, day)
  <1>1. PICK e \in completed :
            e.tx = proof.tx /\ e.amount = proof.amount /\ e.on = proof.completedAt
    BY DEF Evident, Fresh
  <1>2. day \in Nat /\ e.on \in Nat /\ proof.maxAge \in Int
    BY DEF Counted, Evident, Fresh
  <1>3. e.on <= day /\ day - e.on < proof.maxAge
    BY <1>1 DEF Fresh
  <1>4. day - e.on \in 0 .. proof.maxAge - 1
    BY <1>2, <1>3
  <1> QED BY <1>1, <1>4 DEF Backed

LEMMA ProvenIsBacked ==
    ASSUME Counted, NEW c, c # None, Sound(c), liveness(c, day) = "proven"
    PROVE  Backed(c.proof, day)
  <1>1. Fresh(c.proof, day)
    BY DEF liveness
  <1> QED BY <1>1, FreshIsBacked DEF Sound

LEMMA KeptProves == Kept => ProvenByACanary
  <1> SUFFICES ASSUME Kept, NEW c \in {served, IF file = None THEN None ELSE parseCorridor(file)} \ {None},
                      liveness(c, day) = "proven"
               PROVE  Backed(c.proof, day)
    BY DEF ProvenByACanary
  <1>1. c # None
    OBVIOUS
  <1>2. CASE c = served
    BY <1>1, <1>2, ProvenIsBacked DEF Kept, Served
  <1>3. CASE file # None /\ c = parseCorridor(file)
    <2>1. Sound(c)
      BY <1>1, <1>3, ParseSound DEF Kept
    <2> QED BY <1>1, <2>1, ProvenIsBacked DEF Kept
  <1> QED BY <1>2, <1>3

(* A lane counts as proven only on a canary payment that completed, no     *)
(* longer ago than its proof may be old: also in a service that loaded the *)
(* manifest days before (packages/manifest/src/liveness.ts:16-17,          *)
(* docs/operations.md:252-259).                                            *)
THEOREM ProvenLanesAreBacked == Spec => []ProvenByACanary
  BY EvidenceKept, KeptProves, PTL

-----------------------------------------------------------------------------
(* What is admitted *)

LEMMA AtMostUnits ==
    ASSUME NEW a, NEW b, Countable(a), Countable(b), b # None, AtMost(a, b)
    PROVE  toScaled(a) \in Int /\ toScaled(b) \in Int /\ toScaled(a) <= toScaled(b)
  BY MoneyAssumption DEF MoneyAssumption, Countable, AtMost, compareAmounts

LEMMA AtLeastUnits ==
    ASSUME NEW a, NEW b, Countable(a), Countable(b), b # None, AtLeast(a, b)
    PROVE  toScaled(a) \in Int /\ toScaled(b) \in Int /\ toScaled(a) >= toScaled(b)
  BY MoneyAssumption DEF MoneyAssumption, Countable, AtLeast, compareAmounts

LEMMA CapCountable ==
    ASSUME NEW c, Evident(c.proof)
    PROVE  Countable(CanaryCap(c, UnprovenMax)) /\ CanaryCap(c, UnprovenMax) # None
  <1>1. Countable(UnprovenMax) /\ UnprovenMax # None
    BY CountableAssumption DEF CountableAssumption
  <1> QED BY <1>1 DEF CanaryCap, Default, Evident

(* Unproven, a lane takes no more than its cap.                            *)
LEMMA CapHolds ==
    ASSUME NEW c, Evident(c.proof), Countable(c.limits.max), NEW a, Countable(a),
           Admits(c, a, day), liveness(c, day) # "proven"
    PROVE  ~(toScaled(a) > toScaled(CanaryCap(c, UnprovenMax)))
  <1> DEFINE cap == CanaryCap(c, UnprovenMax)
             max == c.limits.max
  <1>1. Countable(cap) /\ cap # None
    BY CapCountable
  <1>2. AtMost(a, EffectiveCap(c, day))
    BY DEF Admits
  <1>3. EffectiveCap(c, day) = IF max # None /\ compareAmounts(max, cap) \in {-1, 0}
                               THEN max ELSE cap
    BY DEF EffectiveCap
  <1> HIDE DEF cap, max
  <1>4. CASE max # None /\ compareAmounts(max, cap) \in {-1, 0}
    <2>1. AtMost(max, cap) /\ AtMost(a, max)
      BY <1>2, <1>3, <1>4 DEF AtMost
    <2>2. Countable(max)
      BY DEF max
    <2>3. /\ toScaled(max) \in Int /\ toScaled(cap) \in Int
          /\ toScaled(max) <= toScaled(cap)
      BY <1>1, <2>1, <2>2, AtMostUnits
    <2>4. toScaled(a) \in Int /\ toScaled(a) <= toScaled(max)
      BY <1>4, <2>1, <2>2, AtMostUnits
    <2>5. ~(toScaled(a) > toScaled(cap))
      BY <2>3, <2>4
    <2> QED BY <2>5 DEF cap
  <1>5. CASE ~(max # None /\ compareAmounts(max, cap) \in {-1, 0})
    <2>1. AtMost(a, cap)
      BY <1>2, <1>3, <1>5
    <2>2. /\ toScaled(a) \in Int /\ toScaled(cap) \in Int /\ toScaled(a) <= toScaled(cap)
      BY <1>1, <2>1, AtMostUnits
    <2>3. ~(toScaled(a) > toScaled(cap))
      BY <2>2
    <2> QED BY <2>3 DEF cap
  <1> QED BY <1>4, <1>5

LEMMA KeptAdmits == Kept => AdmittedOnEvidence
  <1> SUFFICES ASSUME Kept, NEW b \in Parsed, Taken(b)
               PROVE  LET units == toScaled(b.sourceAmount.amount)
        IN  /\ b.sourceAmount.asset \in {served.source.asset, served.settlement.bridge}
            /\ units > 0
            /\ served.limits.min # None => units >= toScaled(served.limits.min)
            /\ served.limits.max # None => units <= toScaled(served.limits.max)
            /\ units > toScaled(CanaryCap(served, UnprovenMax)) => Backed(served.proof, day)
            /\ served.settlement.network = "public" /\ ~isPlaceholderDomain(served.dest.home) =>
                  \A name \in Linted(served) :
                      /\ name \in DOMAIN published[served.dest.verifiedAt]
                      /\ published[served.dest.verifiedAt][name] = served.dest.endpoints[name]
    BY DEF AdmittedOnEvidence
  <1> DEFINE a == b.sourceAmount.amount
  <1>1. Accepted(b, corridors) /\ Admits(served, a, day)
    BY DEF Taken
  <1>2. served # None /\ corridors[b.corridorId] = served
    <2>1. b.corridorId \in IF served = None THEN {} ELSE {"lane"}
      BY <1>1 DEF Accepted, corridors
    <2> QED BY <2>1 DEF corridors
  <1>3. Sound(served) /\ Linted(served) = Pinned(served)
    BY <1>2 DEF Kept, Served
  <1>4. Shaped(served) /\ Evident(served.proof) /\ Dated(served)
    BY <1>2, <1>3 DEF Sound
  <1>5. Countable(a)
    BY CountableAssumption DEF CountableAssumption, Parsed, parsePaymentBody
  <1>6. b.sourceAmount.asset \in {served.source.asset, served.settlement.bridge}
    BY <1>1, <1>2 DEF Accepted, assetMatchesCorridor
  <1>7. toScaled(a) > 0
    BY <1>1 DEF Admits, isSettleableAmount
  <1>8. served.limits.min # None => toScaled(a) >= toScaled(served.limits.min)
    BY <1>1, <1>4, <1>5, AtLeastUnits DEF Admits, Shaped
  <1>9. served.limits.max # None => toScaled(a) <= toScaled(served.limits.max)
    BY <1>1, <1>4, <1>5, AtMostUnits DEF Admits, Shaped
  <1>10. toScaled(a) > toScaled(CanaryCap(served, UnprovenMax)) => Backed(served.proof, day)
    <2>1. CASE liveness(served, day) = "proven"
      BY <1>2, <1>3, <2>1, ProvenIsBacked DEF Kept
    <2>2. CASE liveness(served, day) # "proven"
      BY <1>1, <1>4, <1>5, <2>2, CapHolds DEF Shaped
    <2> QED BY <2>1, <2>2
  <1>11. served.settlement.network = "public" /\ ~isPlaceholderDomain(served.dest.home) =>
            \A name \in Linted(served) :
                /\ name \in DOMAIN published[served.dest.verifiedAt]
                /\ published[served.dest.verifiedAt][name] = served.dest.endpoints[name]
    <2>1. SUFFICES ASSUME served.settlement.network = "public",
                          ~isPlaceholderDomain(served.dest.home)
                   PROVE  served.dest.verifiedAt # None
      BY <1>3, <1>4 DEF Dated
    <2>2. liveness(served, day) \in {"verified", "proven"}
      BY <1>1, <2>1 DEF Admits
    <2> QED BY <2>2 DEF liveness
  <1> QED BY <1>6, <1>7, <1>8, <1>9, <1>10, <1>11

(* What a service takes is a positive amount of an asset the lane settles, *)
(* within its limits; above the cap of an unproven lane it is backed by a  *)
(* canary; and on the public network the anchor published every endpoint,  *)
(* unless its domain is a placeholder                                      *)
(* (packages/service/src/index.ts:617-660, packages/engine/src/run.ts:     *)
(* 329-390).                                                               *)
THEOREM PaymentsAreAdmittedOnEvidence == Spec => []AdmittedOnEvidence
  BY EvidenceKept, KeptAdmits, PTL

=============================================================================
