-------------------------- MODULE InstructionFormat --------------------------
(***************************************************************************)
(* The instruction format as its description states it: an operation and   *)
(* its fields are answered with the discriminator followed by the fields   *)
(* in schema order, or refused.  There is no buffer, no size and no        *)
(* offset here: this is what the instruction coder has to implement.       *)
(***************************************************************************)
EXTENDS Integers, Sequences

LOCAL INSTANCE SequencesExt

CONSTANTS
  Null, Undefined,   \* an absent optional key; a field that is not there
  Idle,              \* no request, no response
  Operations,        \* the registered operation names
  Discriminator(_),  \* the discriminator of a registered operation
  Schema(_)          \* its fields in order, each a [name, type]

LOCAL INSTANCE BufferLayout

VARIABLES
  request,   \* the operation asked for and its fields, or Idle
  response   \* the answer to it, or Idle

(* The token manager types, in the order of their discriminators from 0. *)
TokenManagerType ==
  <<"nativeInterchainToken", "mintBurnFrom", "lockUnlock", "lockUnlockFee",
    "mintBurn">>

(* The value v has the shape of a field of type type. *)
Fits(type, v) ==
  /\ v # Undefined
  /\ type = "u8" => v \in Byte
  /\ type = "u64" => v \in Nat
  /\ type = "array32" => Len(v) = 32
  /\ type = "tokenManagerType" => \E i \in DOMAIN TokenManagerType :
                                    TokenManagerType[i] = v
  /\ type = "optionalKey" => v = Null \/ Len(v) = 32

(* A length prefix of 4 bytes and the raw bytes. *)
Prefixed(raw) == LE(Len(raw), 4) \o raw

(* The bytes of a fitting value of a field of type type. *)
Bytes(type, v) ==
  CASE type = "u8"               -> <<v>>
    [] type = "boolean"          -> <<IF v THEN 1 ELSE 0>>
    [] type = "u64"              -> LE(v, 8)
    [] type = "array32"          -> v
    [] type = "text"             -> Prefixed(Utf8(v))
    [] type = "bytes"            -> Prefixed(v)
    [] type = "tokenManagerType" ->
         <<(CHOOSE i \in DOMAIN TokenManagerType : TokenManagerType[i] = v) - 1>>
    [] type = "optionalKey"      -> IF v = Null THEN <<0>> ELSE <<1>> \o v

Encoded(bs) == [ok |-> TRUE, bytes |-> bs]
Refused(e)  == [ok |-> FALSE, error |-> e]

(* What request r is answered with. *)
Answer(r) ==
  LET schema == Schema(r.kind)
  IN  CASE r.kind \notin Operations -> Refused("UnknownVariant")
        [] \E i \in DOMAIN schema : ~Fits(schema[i].type, r.fields[schema[i].name])
             -> Refused("FieldMismatch")
        [] OTHER ->
             Encoded(<<Discriminator(r.kind)>> \o
                     FlattenSeq([i \in DOMAIN schema |->
                                   Bytes(schema[i].type, r.fields[schema[i].name])]))

Init ==
  /\ request = Idle
  /\ response = Idle

(* A caller asks for an encoding and the answer is there. *)
Encode ==
  /\ request = Idle
  /\ request' # Idle
  /\ response' = Answer(request')

(* The caller takes the answer. *)
Collect ==
  /\ request # Idle
  /\ request' = Idle
  /\ response' = Idle

Next == Encode \/ Collect

Spec == Init /\ [][Next]_<<request, response>>

=============================================================================
