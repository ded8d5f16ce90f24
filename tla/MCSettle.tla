-------------------------------- MODULE MCSettle --------------------------------
(***************************************************************************)
(* Settle.tla for TLC.  Amounts have one decimal: 2.0 is to be paid, for a *)
(* fee of 0.1 and a reserve of 0.5 an entry.                               *)
(***************************************************************************)
EXTENDS Settle, TLC

CONSTANTS A, S, us, memo

MCUpper(code) ==
    CASE code = "native" -> "NATIVE" [] code = "usdc" -> "USDC" [] OTHER -> code

MCAmount == [m |-> 2, d |-> 0]

USDC == [code |-> "USDC", issuer |-> "circle"]
Fake == [code |-> "USDC", issuer |-> "other"]

L(balance, selling) ==
    [balance |-> balance, selling |-> selling, authorized |-> TRUE, room |-> TRUE]

Account(lines, subentries, sponsored) ==
    [lines |-> lines, subentries |-> subentries, sponsoring |-> 0, sponsored |-> sponsored]

Two(a, x, b, y) == (a :> x) @@ (b :> y)

(* Just enough of both; the tokens are promised to offers; the XLM is; the *)
(* issuer has frozen our line.                                             *)
MCOurAccounts ==
    { Account(Two(Native, L(36, 0), USDC, L(20, 0)), 1, 0),
      Account(Two(Native, L(60, 0), USDC, L(30, 11)), 1, 0),
      Account(Two(Native, L(36, 1), USDC, L(20, 0)), 2, 1),
      Account(Two(Native, L(60, 0), USDC, [L(30, 0) EXCEPT !.authorized = FALSE]), 1, 0) }

MCTheirAccounts ==
    { None,
      Account(Two(Native, L(50, 0), USDC, L(0, 0)) @@ (Fake :> L(0, 0)), 2, 0),
      Account(Two(Native, L(50, 0), USDC, [L(0, 0) EXCEPT !.authorized = FALSE]), 1, 0),
      Account(Two(Native, L(50, 0), USDC, [L(0, 0) EXCEPT !.room = FALSE]), 1, 0) }

MCRoutes == { {}, {15, 19}, {17} }

Opening(kind, form, type) ==
    [kind |-> kind, to |-> A, claimant |-> None, memoType |-> type,
     memo |-> IF form = None THEN None ELSE [content |-> memo, form |-> form],
     amountIn |-> None, reference |-> None]

MCPlainOpenings ==
    { Opening("stellar_payment", "other", "hash"),
      Opening("stellar_payment", None, None),
      Opening("stellar_payment", "unfit", None),
      Opening("stellar_payment", "other", "id"),
      [Opening("stellar_payment", "canonical", "text") EXCEPT
          !.amountIn = [asset |-> Fake, amount |-> [m |-> 17, d |-> 1]]],
      [Opening("stellar_payment", "canonical", "text") EXCEPT
          !.amountIn = [asset |-> [Fake EXCEPT !.issuer = None],
                        amount |-> [m |-> 150, d |-> 2]]],
      [Opening("adapter_settled", None, None) EXCEPT !.to = None, !.reference = "ref"],
      [Opening("adapter_settled", None, None) EXCEPT !.to = None] }

MCOpenings ==
    MCPlainOpenings \cup { Opening("claimable_balance", "canonical", "text"),
                           [Opening("claimable_balance", None, None) EXCEPT !.to = None] }

Base ==
    [bridge |-> USDC, receive |-> None, bps |-> 7, network |-> "testnet", signer |-> "local",
     acked |-> FALSE, allowed |-> {"testnet"}, rootChecked |-> FALSE, checks |-> Check,
     gated |-> TRUE, verify |-> TRUE, unattested |-> FALSE, attested |-> "attested",
     confirms |-> FALSE, strategies |-> {"payment", "adapter_settled"},
     opens |-> {"stellar_payment"}]

MCCorridors ==
    { Base,
      [Base EXCEPT !.bridge = Native, !.rootChecked = TRUE, !.checks = {"balance", "destination"}],
      [Base EXCEPT !.receive = Fake, !.checks = {"balance"},
                   !.strategies = {"payment", "path"}],
      [Base EXCEPT !.gated = FALSE, !.checks = {}, !.receive = USDC],
      [Base EXCEPT !.network = "public", !.checks = {"toml"}],
      [Base EXCEPT !.bridge.code = "native", !.checks = {"balance", "destination"}],
      [Base EXCEPT !.bridge.code = "usdc", !.checks = {"balance", "destination"}],
      [Base EXCEPT !.checks = {}, !.confirms = TRUE,
                   !.opens = {"adapter_settled", "claimable_balance"},
                   !.strategies = {"payment", "adapter_settled", "claimable_balance"}] }

=============================================================================
