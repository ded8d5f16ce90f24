--------------------------------- MODULE Probe ---------------------------------
(***************************************************************************)
(* The conformance probe (packages/probe): what probeAnchor concludes from *)
(* how an anchor answers.  An anchor is the record of its answers:         *)
(*   fetched       its stellar.toml could be read                          *)
(*   endpoints     the URL the toml gives for each SEP it advertises       *)
(*   challenge     it answers the handshake with a transaction to sign     *)
(*   issues        it gives a token for the signed challenge               *)
(*   pair          its quote server lists a Stellar and a fiat asset       *)
(*   contexts      the contexts it quotes in                               *)
(*   expires       when its quotes expire, 0 where they do not say         *)
(*   customer      the HTTP status of its KYC server                       *)
(*   receive       the assets its SEP-31 server lists                      *)
(*   withdraw      those its SEP-6 server lists, each enabled or not       *)
(*   transactions  the HTTP status of its SEP-6 transactions               *)
(* A call that fails or times out is one of the answers that fails it.     *)
(***************************************************************************)
EXTENDS Naturals

(* The probe that decides for each SEP whether it is served. *)
InfoProbe == [sep31 |-> "sep31_info", sep6 |-> "sep6_info"]

TOML_ENDPOINTS == {"sep6", "sep10", "sep12", "sep24", "sep31", "sep38"}

(* Hosts of this machine and of internal networks are not dereferenced. *)
isDisallowedHost(host) == host \in {"local", "private", "linkLocal"}

isSafeUrl(url) == url.scheme = "https" /\ ~isDisallowedHost(url.host)

(* The one choke point of every call after the toml's. *)
Answers(a, sep) == sep \in DOMAIN a.endpoints /\ isSafeUrl(a.endpoints[sep])

-----------------------------------------------------------------------------
(* The probes *)

sep10_auth(a) == Answers(a, "sep10") /\ a.challenge /\ a.issues

(* An anchor that only withdraws is asked to quote for that. *)
QuoteContext(a) ==
    IF "sep6" \in DOMAIN a.endpoints /\ "sep31" \notin DOMAIN a.endpoints
    THEN "sep6" ELSE "sep31"

sep38_quote(a, now) ==
    /\ Answers(a, "sep38")
    /\ a.pair /\ QuoteContext(a) \in a.contexts
    /\ a.expires > now

(* A 4xx is an answer too. *)
sep12_status(a) == Answers(a, "sep12") /\ a.customer < 500

(* Mutant of sep31_info: an answer will do. *)
sep31_infoAnswered(a) == Answers(a, "sep31")

sep31_info(a) == Answers(a, "sep31") /\ a.receive # {}

sep6_info(a) ==
    /\ Answers(a, "sep6")
    /\ \E asset \in DOMAIN a.withdraw : a.withdraw[asset]

sep6_auth(a) == Answers(a, "sep6") /\ a.transactions < 500

-----------------------------------------------------------------------------

(* What is attempted: what the toml gives, and behind the handshake only   *)
(* with a token.                                                           *)
ProbesRun(a) ==
    LET has(sep) == sep \in DOMAIN a.endpoints
    IN  {"toml_fetch"}
          \cup {p \in {"sep10_auth"} : has("sep10")}
          \cup {p \in {"sep38_quote"} : has("sep38")}
          \cup {p \in {"sep12_status"} : has("sep12") /\ sep10_auth(a)}
          \cup {p \in {"sep31_info"} : has("sep31")}
          \cup {p \in {"sep6_info"} : has("sep6")}
          \cup {p \in {"sep6_auth"} : sep10_auth(a) /\ sep6_info(a)}

Passes(a, p, now) ==
    CASE p = "toml_fetch"   -> TRUE
      [] p = "sep10_auth"   -> sep10_auth(a)
      [] p = "sep38_quote"  -> sep38_quote(a, now)
      [] p = "sep12_status" -> sep12_status(a)
      [] p = "sep31_info"   -> sep31_info(a)
      [] p = "sep6_info"    -> sep6_info(a)
      [] p = "sep6_auth"    -> sep6_auth(a)

(* Without a toml nothing else is attempted. *)
probeAnchor(a, now) ==
    IF a.fetched
    THEN [seps |-> {"sep1"} \cup (DOMAIN a.endpoints \cap TOML_ENDPOINTS),
          run |-> ProbesRun(a),
          passed |-> {p \in ProbesRun(a) : Passes(a, p, now)}]
    ELSE [seps |-> {}, run |-> {"toml_fetch"}, passed |-> {}]

=============================================================================
