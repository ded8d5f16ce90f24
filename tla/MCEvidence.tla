------------------------------ MODULE MCEvidence ------------------------------
(***************************************************************************)
(* Evidence.tla for TLC, with money of one decimal.  Beside the scaffolds  *)
(* of either network the operator writes a lane of the public one with     *)
(* limits, one whose limits are the wrong way round or too long to         *)
(* compare, one of another protocol's endpoints and one of a placeholder   *)
(* domain.  The anchor publishes either of two tomls.  Bodies name every   *)
(* amount, either asset, a third one, an unknown lane, and each of the     *)
(* faults the intake refuses.                                              *)
(***************************************************************************)
EXTENDS Evidence

Whole(n) == [m |-> n, d |-> 0]

MCRecordedCap == [m |-> 20, d |-> 1]
MCUnprovenMax == Whole(2)

Old == [transfer_server_sep31 |-> "old", kyc_server |-> "k"]
New == [transfer_server_sep31 |-> "new", kyc_server |-> "k"]

MCToml == {Old, New}

Base ==
    [source |-> [protocol |-> None, asset |-> "USD", endpoints |-> {}],
     dest |-> [protocol |-> None, home |-> "anchor", endpoints |-> Old, verifiedAt |-> None],
     fx |-> [ttl |-> None, margin |-> None],
     method |-> "sep12",
     settlement |-> [network |-> "testnet", bridge |-> "USDC",
                     receive |-> None, receiveIssuer |-> None],
     limits |-> [min |-> None, max |-> None],
     proof |-> None]

MCSaved ==
    {[Base EXCEPT !.settlement.network = "public",
                  !.limits = [min |-> [m |-> 5, d |-> 1], max |-> Whole(3)]],
     [Base EXCEPT !.limits = [min |-> Whole(3), max |-> Whole(1)]],
     [Base EXCEPT !.limits.max = [m |-> 155, d |-> 2]],
     [Base EXCEPT !.dest.endpoints = [transfer_server |-> "old"]],
     [Base EXCEPT !.settlement.network = "public", !.dest.endpoints = New,
                  !.dest.home = "placeholder"]}

MCAmount == {Whole(-1), Whole(1), Whole(3), Whole(4), [m |-> 25, d |-> 2]}

Party == [id |-> "p", jurisdiction |-> None, sep12Id |-> None, anchorCustomerId |-> "c",
          others |-> {}]

Pays(amount, asset) ==
    [idempotencyKey |-> "k", corridorId |-> "lane", sender |-> Party, recipient |-> Party,
     sourceAmount |-> [asset |-> asset, amount |-> amount],
     destinationFields |-> None, others |-> {}]

Good == Pays(Whole(1), "USD")

MCBody ==
    {Pays(a, "USDC") : a \in MCAmount} \cup
    {Pays(Bad, "USD"), Good, Pays(Whole(1), "EUR"),
     [Good EXCEPT !.corridorId = "elsewhere"], [Good EXCEPT !.corridorId = Long],
     [Good EXCEPT !.idempotencyKey = Empty], [Good EXCEPT !.sender = None],
     [Good EXCEPT !.recipient.id = Empty], [Good EXCEPT !.recipient.sep12Id = Bad],
     [Good EXCEPT !.destinationFields = [a |-> "x"]],
     [Good EXCEPT !.destinationFields = [a |-> Long]],
     [Good EXCEPT !.destinationFields = [a |-> "x", b |-> "y"]],
     [Good EXCEPT !.others = {"owner"}]}

MCSold == {Whole(1), Whole(3)}
MCCaps == {Whole(1)}

=============================================================================
