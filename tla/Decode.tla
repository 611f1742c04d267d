------------------------------- MODULE Decode -------------------------------
(***************************************************************************)
(* Decoder.decode_tx of ingester/decoder.py for the harvest systems, and   *)
(* the pairing of the decoded rows with the MUSU drains of the receipt     *)
(* (ingester/musu.py).  Calldata is a function and the values of its       *)
(* arguments.  A harvest id is keccak("harvest" || kami_id): it is named   *)
(* by its kami.  Arguments that end in metadata_json and are never read    *)
(* again (taxerID, taxAmt) are left out.                                   *)
(***************************************************************************)
EXTENDS Integers, Sequences, FiniteSets

CONSTANTS
    Kami,
    Node,    \* node indices
    None,    \* SQL NULL, Python None
    Text     \* what str() makes of a list: no number

System == {"start", "stop", "collect", "liquidate"}

Scalar(name) == [name |-> name, array |-> FALSE]
Array(name)  == [name |-> name, array |-> TRUE]
Fn(name, inputs) == [name |-> name, inputs |-> inputs]

(* execute(bytes) has the arguments of executeTyped inside of its bytes.   *)
Execute == Fn("execute", << >>)

(* The executeTyped of the vendored ABI. *)
TypedFn(s) ==
    CASE s = "start"     -> Fn("executeTyped", <<Scalar("kamiID"), Scalar("nodeID")>>)
      [] s = "liquidate" -> Fn("executeTyped", <<Scalar("victimHarvID"), Scalar("killerID")>>)
      [] OTHER           -> Fn("executeTyped", <<Scalar("id")>>)

(* SYSTEM_ABI_OVERLAY *)
Overlay(s) ==
    CASE s = "start" ->
           {Fn("executeTyped", <<Scalar("kamiID"), Scalar("nodeIndex")>>),
            Fn("executeBatched", <<Array("kamiIDs"), Scalar("nodeIndex")>>)}
      [] s \in {"stop", "collect"} ->
           {Fn("executeBatched", <<Array("ids")>>),
            Fn("executeBatchedAllowFailure", <<Array("ids")>>),
            Fn("executeAllowFailure", <<Scalar("arguments")>>)}
      [] OTHER -> {}

(* _load_all: the selectors a system answers to. *)
Functions(s) == {Execute, TypedFn(s)} \cup Overlay(s)

(* SYSTEM_FIELD_MAP: the column an argument goes to.  executeAllowFailure  *)
(* is not unwrapped, and its bytes go to metadata_json.                    *)
Column(s, name) ==
    CASE name \in {"kamiID", "kamiIDs", "killerID"}   -> "kami"
      [] name \in {"nodeID", "nodeIndex"}             -> "node"
      [] name \in {"id", "ids", "victimHarvID"}       -> "harvest"
      [] OTHER                                        -> "metadata"

(* _decode_args: the inputs with their values.  abi_decode raises when     *)
(* values are missing and does not see those that are too many.            *)
Inputs(call)    == (IF call.fn = Execute THEN TypedFn(call.to) ELSE call.fn).inputs
Decodable(call) == Len(call.vals) >= Len(Inputs(call))
Args(call) ==
    [i \in DOMAIN Inputs(call) |->
        [name |-> Inputs(call)[i].name, array |-> Inputs(call)[i].array, val |-> call.vals[i]]]

(* _args_to_actions: one list of arguments for each row.  Arrays of one    *)
(* length that is not zero fan out; otherwise there is one row for them    *)
(* all.                                                                    *)
FannedOut(args) ==
    LET arrays  == {i \in DOMAIN args : args[i].array}
        lengths == {Len(args[i].val) : i \in arrays}
        item(j) == [i \in DOMAIN args |->
                      IF i \in arrays THEN [args[i] EXCEPT !.array = FALSE, !.val = @[j]]
                      ELSE args[i]]
    IN IF Cardinality(lengths) = 1 /\ lengths # {0}
       THEN [j \in 1 .. CHOOSE l \in lengths : TRUE |-> item(j)]
       ELSE <<args>>

(* MUTANT: a list goes into the column as it is.                           *)
DecimalRaw(arg) == arg.val

(* _coerce_decimal *)
Decimal(arg) == IF arg.array THEN Text ELSE arg.val

Field(s, args, column) ==
    LET at == {i \in DOMAIN args : Column(s, args[i].name) = column}
    IN IF at = {} THEN None ELSE Decimal(args[CHOOSE i \in at : TRUE])

(* _one_row.  A start has no harvest id in its calldata: it is derived     *)
(* from the kami's, if that is a number.  meta is a harvest id that is     *)
(* kept in metadata_json, as earlier decoders did.                         *)
OneRow(s, args) ==
    LET kami == Field(s, args, "kami")
    IN [type    |-> s,
        kami    |-> kami,
        node    |-> Field(s, args, "node"),
        harvest |-> IF s = "start" THEN (IF kami \in Kami THEN kami ELSE None)
                    ELSE Field(s, args, "harvest"),
        amount  |-> None,
        meta    |-> None]

DecodeTx(call) ==
    IF call.fn \notin Functions(call.to) \/ ~Decodable(call) THEN << >>
    ELSE LET lists == FannedOut(Args(call))
         IN [j \in DOMAIN lists |-> OneRow(call.to, lists[j])]

-----------------------------------------------------------------------------
(* MUSU *)

(* MUTANT: a value that was written is a drain, whether zeroed or not.     *)
DrainedAnyWrite(values) == \E v \in values : v > 0

(* decode_musu_drains, for one entity: the values written to it.  Only one *)
(* that was written and zeroed again was drained.                          *)
Drained(values) == 0 \in values /\ \E v \in values : v > 0

Bounty(values) == CHOOSE v \in values : \A w \in values : w <= v

(* musu_amount_for_harvest *)
MusuAmount(writes, harvest) ==
    IF harvest \in DOMAIN writes /\ Drained(writes[harvest]) THEN Bounty(writes[harvest]) ELSE None

Payout == {"stop", "collect", "liquidate"}

(* process_block_range: every payout row takes what its harvest gave. *)
Paired(row, writes) ==
    IF row.type \in Payout THEN [row EXCEPT !.amount = MusuAmount(writes, row.harvest)] ELSE row
=============================================================================
