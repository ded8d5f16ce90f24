-------------------------------- MODULE Manifest --------------------------------
(***************************************************************************)
(* A corridor manifest (packages/manifest): what parses, what its evidence *)
(* makes of the lane on a given day, what `corridor new` scaffolds from a  *)
(* probe, what `corridor lint` compares, and what the engine admits on it  *)
(* (packages/engine/src/run.ts).                                           *)
(*                                                                         *)
(* A manifest is a record in which None is what the file leaves out and    *)
(* Bad what its field's own schema rejects.  Endpoints are a partial       *)
(* function from their names to what they point at; a stellar.toml is one, *)
(* each of its keys named by the endpoint it publishes.  The home domain   *)
(* is an anchor's or a placeholder.  Dates are days.                       *)
(***************************************************************************)
EXTENDS Money, Functions

CONSTANTS
    RecordedCap,    \* DEFAULT_CANARY_MAX_AMOUNT, of the command line
    UnprovenMax,    \* unprovenMaxAmount, of the engine
    ProofAge        \* max_age_days of a proof that says none

Default(v, d) == IF v = None THEN d ELSE v

Has(endpoints, names) == names \subseteq DOMAIN endpoints

-----------------------------------------------------------------------------
(* The schema *)

Shared == {"web_auth", "kyc_server", "quote_server"}

(* The endpoints each protocol's schema keeps: zod drops any other. *)
DestSchema ==
    [sep31 |-> {"transfer_server_sep31"} \cup Shared,
     sep6 |-> {"transfer_server"} \cup Shared,
     custom |-> {"base_url"}]

(* What the schema itself asks for: SEP-31 pins nothing.                   *)
RequiredByDest == [sep31 |-> {}, sep6 |-> {"transfer_server"}, custom |-> {"base_url"}]

SourceSchema ==
    [prefunded |-> {},
     sep6 |-> {"home_domain", "transfer_server"},
     sep24 |-> {"home_domain", "transfer_server_sep24", "web_auth"},
     custom |-> {"home_domain", "base_url"}]

Protocol(dest) == Default(dest.protocol, "sep31")

(* A manifest without a protocol is a SEP-31 one, unless it pins what only *)
(* another protocol has.                                                   *)
Ambiguous(dest) ==
    dest.protocol = None /\ DOMAIN dest.endpoints \cap {"transfer_server", "base_url"} # {}

parseDest(dest) ==
    [dest EXCEPT !.protocol = Protocol(dest),
                 !.endpoints = Restrict(@, DestSchema[Protocol(dest)] \cap DOMAIN @)]

ValidDest(dest) ==
    /\ ~Ambiguous(dest)
    /\ Protocol(dest) \in DOMAIN DestSchema
    /\ LET kept == parseDest(dest).endpoints
       IN  Has(kept, RequiredByDest[Protocol(dest)]) /\ Bad \notin Range(kept)
    /\ dest.verifiedAt # Bad

ValidSource(source) ==
    LET p == Default(source.protocol, "prefunded")
    IN  p \in DOMAIN SourceSchema /\ SourceSchema[p] \subseteq source.endpoints

FxDefaults(fx) == [ttl |-> Default(fx.ttl, 60), margin |-> Default(fx.margin, 45)]

(* A quote must outlive the margin the gate leaves it. *)
ValidFx(fx) ==
    /\ Bad \notin {fx.ttl, fx.margin}
    /\ FxDefaults(fx).margin < FxDefaults(fx).ttl

hasKycServer(dest) == "kyc_server" \in DOMAIN dest.endpoints

(* The method must be one the parsed destination can serve. *)
ValidMethod(method, dest) ==
    /\ method # Bad
    /\ method = "sep12" => hasKycServer(parseDest(dest))
    /\ method = "sep6_fields" => Protocol(dest) = "sep6"

ValidSettlement(s) ==
    /\ s.network \in {"public", "testnet"}
    /\ s.receiveIssuer # None => s.receive # None
    /\ s.receive \notin {None, "XLM"} => s.receiveIssuer # None

(* Bounds that cannot be compared are accepted as they are. *)
ValidLimits(limits) ==
    /\ Bad \notin {limits.min, limits.max}
    /\ None \notin {limits.min, limits.max} => compareAmounts(limits.min, limits.max) # 1

ProofDefaults(proof) ==
    IF proof = None THEN None ELSE [proof EXCEPT !.maxAge = Default(@, ProofAge)]

(* Its amounts are decimals and its date is a day of the calendar. *)
ValidProof(proof) ==
    proof # None => Bad \notin {proof.completedAt, proof.amount, proof.maxAge, proof.cap}

Valid(m) ==
    /\ ValidSource(m.source) /\ ValidDest(m.dest) /\ ValidFx(m.fx)
    /\ ValidMethod(m.method, m.dest)
    /\ ValidSettlement(m.settlement) /\ ValidLimits(m.limits) /\ ValidProof(m.proof)

(* The corridor, or None for MANIFEST_INVALID. *)
parseCorridor(m) ==
    IF ~Valid(m) THEN None
    ELSE [m EXCEPT !.dest = parseDest(@), !.fx = FxDefaults(@), !.proof = ProofDefaults(@),
                   !.source.protocol = Default(@, "prefunded")]

-----------------------------------------------------------------------------
(* Liveness *)

RequiredToSettle ==
    [sep31 |-> "transfer_server_sep31", sep6 |-> "transfer_server", custom |-> "base_url"]

(* Neither stale nor of the future.  Its age is counted from the midnight  *)
(* of its date: past the first instant of its last day it is stale.        *)
Fresh(proof, now) ==
    /\ proof # None
    /\ proof.completedAt <= now /\ now - proof.completedAt < proof.maxAge

liveness(c, now) ==
    CASE RequiredToSettle[c.dest.protocol] \notin DOMAIN c.dest.endpoints -> "not-runnable"
      [] OTHER -> IF c.dest.verifiedAt = None THEN "unverified"
                  ELSE IF Fresh(c.proof, now) THEN "proven" ELSE "verified"

-----------------------------------------------------------------------------
(* Admission *)

CanaryCap(c, default) ==
    IF c.proof = None THEN default ELSE Default(c.proof.cap, default)

(* Mutant of EffectiveCap: the lane's own ceiling stands in for the cap. *)
EffectiveCapOfLane(c, now) ==
    IF c.limits.max # None THEN c.limits.max ELSE CanaryCap(c, UnprovenMax)

(* The most a payment may be on this day: None is no bound. *)
EffectiveCap(c, now) ==
    LET cap == CanaryCap(c, UnprovenMax)
    IN  IF liveness(c, now) = "proven" THEN c.limits.max
        ELSE IF c.limits.max # None /\ compareAmounts(c.limits.max, cap) \in {-1, 0}
             THEN c.limits.max ELSE cap

(* A comparison that fails refuses the payment.                            *)
AtMost(a, b) == b # None => compareAmounts(a, b) \in {-1, 0}
AtLeast(a, b) == b # None => compareAmounts(a, b) \in {0, 1}

(* execute() up to the idempotency gate: AMOUNT_INVALID and                *)
(* CORRIDOR_UNPROVEN are refusals.                                         *)
Admits(c, amount, now) ==
    /\ isSettleableAmount(amount)
    /\ liveness(c, now) # "proven" /\ c.limits.max # None =>
          compareAmounts(c.limits.max, CanaryCap(c, UnprovenMax)) # None
    /\ c.settlement.network = "public" => liveness(c, now) \in {"verified", "proven"}
    /\ AtLeast(amount, c.limits.min) /\ AtMost(amount, c.limits.max)
    /\ AtMost(amount, EffectiveCap(c, now))

-----------------------------------------------------------------------------
(* Scaffolding and linting *)

(* manifestFromProbe: what `corridor new` writes, None where it refuses.   *)
(* probes are those that passed.                                           *)
manifestFromProbe(probes, toml, sourceAsset, network, allowNotRunnable, today) ==
    IF "transfer_server_sep31" \notin DOMAIN toml /\ ~allowNotRunnable THEN None
    ELSE [source |-> [protocol |-> None, asset |-> sourceAsset, endpoints |-> {"home_domain"}],
          dest |-> [protocol |-> "sep31", home |-> "anchor",
                    endpoints |-> Restrict(toml, DestSchema["sep31"] \cap DOMAIN toml),
                    verifiedAt |-> IF {"toml_fetch", "sep31_info"} \subseteq probes
                                   THEN today ELSE None],
          fx |-> [ttl |-> 60, margin |-> None],
          method |-> None,
          settlement |-> [network |-> network, bridge |-> "USDC",
                          receive |-> None, receiveIssuer |-> None],
          limits |-> [min |-> None, max |-> None],
          proof |-> None]

(* mappingsForDest: a custom lane is linted as a SEP-31 one, and has none  *)
(* of its endpoints.                                                       *)
Linted(c) ==
    LET p == IF c.dest.protocol = "sep6" THEN "sep6" ELSE "sep31"
    IN  DestSchema[p] \cap DOMAIN c.dest.endpoints

(* A domain that stands for none: RFC 2606's, local ones, bare addresses. *)
isPlaceholderDomain(home) == home = "placeholder"

(* No error: what the manifest pins is published, up to trailing slashes. *)
compareManifestToToml(c, toml) ==
    \A name \in Linted(c) : name \in DOMAIN toml /\ toml[name] = c.dest.endpoints[name]

(* Of a placeholder domain nothing is compared, which is no error. *)
lintCorridor(c, toml) ==
    isPlaceholderDomain(c.dest.home) \/ compareManifestToToml(c, toml)

=============================================================================
