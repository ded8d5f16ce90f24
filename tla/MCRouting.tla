------------------------------- MODULE MCRouting -------------------------------
(***************************************************************************)
(* Routing.tla, Registry.tla in it and Probe.tla before it, for TLC: x and *)
(* y are anchors' domains, of which the registry has room for one, and X   *)
(* is x in another spelling, which a corridor may name and the allowlist   *)
(* does.                                                                   *)
(***************************************************************************)
EXTENDS Routing, Probe, TLC

CONSTANTS a, b, x, X, y, q

Symmetry == Permutations(Signer)

Open == [scheme |-> "https", host |-> "public"]
Inside == [scheme |-> "https", host |-> "private"]

(* It works throughout, and receives over SEP-31. *)
Serving ==
    [fetched |-> TRUE, endpoints |-> [s \in {"sep10", "sep12", "sep31", "sep38"} |-> Open],
     challenge |-> TRUE, issues |-> TRUE, pair |-> TRUE, contexts |-> {"sep31"},
     expires |-> 2, customer |-> 404, receive |-> {"USDC"}, withdraw |-> <<>>,
     transactions |-> 500]

(* It advertises both, receives nothing and withdraws over SEP-6; it       *)
(* advertises SEP-31 where no probe goes.                                  *)
Withdrawing ==
    [Serving EXCEPT !.receive = {}, !.endpoints = [s \in {"sep6", "sep10", "sep31"} |-> Open],
                    !.withdraw = [USDC |-> TRUE]]
Internal == [Serving EXCEPT !.endpoints.sep31 = Inside]

(* What an anchor does, whatever a probe concludes. *)
Does(w) ==
    {p \in Protocol :
        /\ w.fetched /\ p \in DOMAIN w.endpoints /\ w.endpoints[p] = Open
        /\ IF p = "sep31" THEN w.receive # {}
           ELSE \E c \in DOMAIN w.withdraw : w.withdraw[c]}

(* The bits a decision is taken on. *)
Found(w) ==
    LET r == probeAnchor(w, 1)
        bits(probes) == {p \in Protocol : InfoProbe[p] \in probes}
    IN  [seps |-> r.seps \cap Protocol, run |-> bits(r.run), passed |-> bits(r.passed),
         fits |-> TRUE]

Probed(d, worlds) == {[e |-> Anchor(d), f |-> Found(w), does |-> Does(w)] : w \in worlds}

(* A caller that does not probe: it passed what did not run, or ran a      *)
(* probe the registry does not know.                                       *)
Unprobed ==
    {[e |-> Anchor(x), f |-> f, does |-> {}] :
        f \in {[Found(Serving) EXCEPT !.run = {}],
               [Found(Internal) EXCEPT !.run = {"sep31", "future"}]}}

MCSubmissions ==
    Probed(x, {Serving, Withdrawing}) \cup Probed(y, {Internal}) \cup Probed(X, {Serving})
      \cup Unprobed
      \cup {[s EXCEPT !.e = Meta(x), !.f.fits = ok] : s \in Probed(x, {Serving}),
                                                      ok \in BOOLEAN}

=============================================================================
