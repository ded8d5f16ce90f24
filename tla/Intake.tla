--------------------------------- MODULE Intake ---------------------------------
(***************************************************************************)
(* What POST /payments takes (packages/service/src/index.ts) before it     *)
(* calls execute().  A body is a record of the fields it may name: None is *)
(* what it leaves out, Bad what is of another type or, for a key, of       *)
(* another alphabet; Empty and Long stand for every text of no characters  *)
(* and of more than its bound.  `others` are the fields nobody knows.      *)
(* Which input a refusal names is left out.                                *)
(***************************************************************************)
EXTENDS Money, FiniteSets

CONSTANTS
    Empty, Long,   \* texts at their bounds
    MaxFields      \* MAX_DESTINATION_FIELD_KEYS

isText(v) == v \notin {None, Bad}

Bounded(v) == isText(v) /\ v \notin {Empty, Long}

(* parseParty: an id of any length, and texts where anything else is said. *)
parseParty(party) ==
    /\ isText(party)
    /\ party.others = {}
    /\ isText(party.id) /\ party.id # Empty
    /\ Bad \notin {party.jurisdiction, party.sep12Id, party.anchorCustomerId}

destinationFieldsOf(fields) ==
    fields # None =>
        /\ fields # Bad
        /\ Cardinality(DOMAIN fields) <= MaxFields
        /\ \A name \in DOMAIN fields : isText(fields[name]) /\ fields[name] # Long

(* An amount is any text here. *)
parsePaymentBody(o) ==
    /\ o # Bad
    /\ o.others = {}
    /\ Bounded(o.idempotencyKey) /\ Bounded(o.corridorId)
    /\ parseParty(o.sender) /\ parseParty(o.recipient)
    /\ isText(o.sourceAmount)
    /\ isText(o.sourceAmount.asset) /\ o.sourceAmount.asset # Empty
    /\ o.sourceAmount.amount # None
    /\ destinationFieldsOf(o.destinationFields)

(* Mutant of assetMatchesCorridor: the asset is left for the anchor to     *)
(* refuse at quote time.                                                   *)
assetUnchecked(asset, c) == TRUE

(* The source asset, or the one that crosses.                              *)
assetMatchesCorridor(asset, c) == asset \in {c.source.asset, c.settlement.bridge}

(* corridors is the service's map, by id.                                  *)
Accepted(o, corridors) ==
    /\ parsePaymentBody(o)
    /\ isSettleableAmount(o.sourceAmount.amount)
    /\ o.corridorId \in DOMAIN corridors
    /\ assetMatchesCorridor(o.sourceAmount.asset, corridors[o.corridorId])

=============================================================================
