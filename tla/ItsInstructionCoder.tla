------------------------- MODULE ItsInstructionCoder -------------------------
(***************************************************************************)
(* The instruction coder of the ITS program's generated TypeScript         *)
(* bindings (axelar-solana-its/src/coder/instructions.ts).                 *)
(*                                                                         *)
(* AxelarSolanaItsInstructionCoder.encode(ixName, ix) dispatches on the    *)
(* instruction's name to one of 32 functions.  Each computes the size of   *)
(* the instruction's data with a formula of its own, and encodeData        *)
(* allocates a buffer of that size, has LAYOUT (the union of the 32        *)
(* variants) write the discriminator and the fields into it, and returns   *)
(* it.  The size formulas and the layouts are two tables that nothing but  *)
(* the generator keeps in step: a formula that says less than the layout   *)
(* writes makes a write run over the buffer (RangeError), one that says    *)
(* more leaves zero bytes behind the last field.                           *)
(*                                                                         *)
(* The coder keeps no state between calls.  The model's state is the call  *)
(* in progress, its outcome and what the program reads from the buffer     *)
(* sent to it, so that every property relates a request to the answer the  *)
(* caller sees and to the instruction the program is given.                *)
(***************************************************************************)
EXTENDS BufferLayout, TLC
LOCAL INSTANCE SequencesExt

CONSTANTS
  None,               (* No call made yet, no outcome yet.                 *)
  InstructionNames,   (* The names callers pass as ixName.                 *)
  Strings,            (* Values of the utf8Str arguments.                  *)
  Buffers,            (* Values of the bytes arguments.                    *)
  Arrays,             (* Values of the [u8; 32] arguments.                 *)
  PublicKeys,         (* Values of the publicKey arguments.                *)
  Amounts,            (* Values of the u64 arguments.                      *)
  Smalls,             (* Values of the u8 arguments.                       *)
  TokenManagerTypes,  (* Keys of the tokenManagerType arguments.           *)
  Operators           (* Values of the optional publicKey argument.        *)

VARIABLES
  call,      (* The last call: [method, ixName, ix], or None.              *)
  outcome,   (* What that call gave its caller: a buffer or an error.      *)
  delivered  (* What the program read from the buffer, or None.            *)

vars == <<call, outcome, delivered>>

Returned(b) == [kind |-> "returned", bytes |-> b]
Threw(e)    == [kind |-> "threw", error |-> e]

-----------------------------------------------------------------------------
(* The layouts.                                                            *)

(* The union of the five token manager types, each an empty struct. *)
tokenManagerTypeLayout(p) ==
  union(<<addVariant(0, struct(<<>>), "nativeInterchainToken"),
          addVariant(1, struct(<<>>), "mintBurnFrom"),
          addVariant(2, struct(<<>>), "lockUnlock"),
          addVariant(3, struct(<<>>), "lockUnlockFee"),
          addVariant(4, struct(<<>>), "mintBurn")>>, p)

salt     == seq(u8(Undefined), 32, "salt")
tokenId  == seq(u8(Undefined), 32, "tokenId")
gasValue == u64("gasValue")
signingPdaBump == u8("signingPdaBump")
destinationChain == utf8Str("destinationChain")

(* LAYOUT: the instruction union, one variant per instruction. *)
LAYOUT ==
  union(<<
    addVariant(0, struct(<<utf8Str("chainName"), utf8Str("itsHubAddress")>>),
               "initialize"),
    addVariant(1, struct(<<bool("paused")>>), "setPauseStatus"),
    addVariant(2, struct(<<utf8Str("chainName")>>), "setTrustedChain"),
    addVariant(3, struct(<<utf8Str("chainName")>>), "removeTrustedChain"),
    addVariant(4, struct(<<publicKey("deployer"), salt, destinationChain,
                           bytes("destinationMinter")>>),
               "approveDeployRemoteInterchainToken"),
    addVariant(5, struct(<<publicKey("deployer"), salt, destinationChain>>),
               "revokeDeployRemoteInterchainToken"),
    addVariant(6, struct(<<>>), "registerCanonicalInterchainToken"),
    addVariant(7, struct(<<destinationChain, gasValue, signingPdaBump>>),
               "deployRemoteCanonicalInterchainToken"),
    addVariant(8, struct(<<tokenId, destinationChain, bytes("destinationAddress"),
                           u64("amount"), gasValue, signingPdaBump>>),
               "interchainTransfer"),
    addVariant(9, struct(<<salt, utf8Str("name"), utf8Str("symbol"),
                           u8("decimals"), u64("initialSupply")>>),
               "deployInterchainToken"),
    addVariant(10, struct(<<salt, destinationChain, gasValue, signingPdaBump>>),
               "deployRemoteInterchainToken"),
    addVariant(11, struct(<<salt, destinationChain, bytes("destinationMinter"),
                            gasValue, signingPdaBump>>),
               "deployRemoteInterchainTokenWithMinter"),
    addVariant(12, struct(<<gasValue, signingPdaBump>>), "registerTokenMetadata"),
    addVariant(13, struct(<<salt, tokenManagerTypeLayout("tokenManagerType"),
                            option(publicKey(Undefined), "operator")>>),
               "registerCustomToken"),
    addVariant(14, struct(<<salt, destinationChain, bytes("destinationTokenAddress"),
                            tokenManagerTypeLayout("tokenManagerType"),
                            bytes("linkParams"), gasValue, signingPdaBump>>),
               "linkToken"),
    addVariant(15, struct(<<tokenId, destinationChain, bytes("destinationAddress"),
                            u64("amount"), bytes("data"), gasValue, signingPdaBump>>),
               "callContractWithInterchainToken"),
    addVariant(16, struct(<<tokenId, destinationChain, bytes("destinationAddress"),
                            u64("amount"),
                            seq(u8(Undefined), 32, "payloadHash"),
                            gasValue, signingPdaBump>>),
               "callContractWithInterchainTokenOffchainData"),
    addVariant(17, struct(<<u64("flowLimit")>>), "setFlowLimit"),
    addVariant(18, struct(<<>>), "transferOperatorship"),
    addVariant(19, struct(<<>>), "proposeOperatorship"),
    addVariant(20, struct(<<>>), "acceptOperatorship"),
    addVariant(21, struct(<<>>), "addTokenManagerFlowLimiter"),
    addVariant(22, struct(<<>>), "removeTokenManagerFlowLimiter"),
    addVariant(23, struct(<<u64("flowLimit")>>), "setTokenManagerFlowLimit"),
    addVariant(24, struct(<<>>), "transferTokenManagerOperatorship"),
    addVariant(25, struct(<<>>), "proposeTokenManagerOperatorship"),
    addVariant(26, struct(<<>>), "acceptTokenManagerOperatorship"),
    addVariant(27, struct(<<tokenId>>), "handoverMintAuthority"),
    addVariant(28, struct(<<u64("amount")>>), "mintInterchainToken"),
    addVariant(29, struct(<<>>), "transferInterchainTokenMintership"),
    addVariant(30, struct(<<>>), "proposeInterchainTokenMintership"),
    addVariant(31, struct(<<>>), "acceptInterchainTokenMintership")
  >>, Undefined)

-----------------------------------------------------------------------------
(* encodeData and the 32 size formulas, term by term as the source has     *)
(* them.                                                                   *)

(* encodeData(ix, span): Buffer.alloc refuses a size that is no number of  *)
(* bytes, LAYOUT.encode throws when a write leaves the buffer, and the     *)
(* buffer goes back whole, whatever was written of it.                     *)
encodeData(key, ix, span) ==
  LET st == UnionEncode(LAYOUT, key, ix, Alloc(span))
  IN  CASE span < 0 -> Threw("RangeError")
        [] st.err   -> Threw("RangeError")
        [] OTHER    -> Returned(st.b)

(* The size of a tokenManagerType: 1 for each of the five keys the switch  *)
(* names; the switch has no default, and any other key gives undefined.    *)
tokenManagerTypeSpan(tokenManagerType) ==
  LET sizes == [nativeInterchainToken |-> 1, mintBurnFrom |-> 1,
                lockUnlock |-> 1, lockUnlockFee |-> 1, mintBurn |-> 1]
  IN  IF tokenManagerType \in DOMAIN sizes THEN sizes[tokenManagerType]
                                           ELSE NaN

encodeInitialize(ix) ==
  encodeData("initialize", ix,
             1 + 4 + length(ix.chainName) + 4 + length(ix.itsHubAddress))

encodeSetPauseStatus(ix) == encodeData("setPauseStatus", ix, 1 + 1)

(* encodeSetTrustedChain wrapping its arguments as removeTrustedChain. *)
encodeSetTrustedChain_AsRemove(ix) ==
  encodeData("removeTrustedChain", ix, 1 + 4 + length(ix.chainName))

encodeSetTrustedChain(ix) ==
  encodeData("setTrustedChain", ix, 1 + 4 + length(ix.chainName))

encodeRemoveTrustedChain(ix) ==
  encodeData("removeTrustedChain", ix, 1 + 4 + length(ix.chainName))

encodeApproveDeployRemoteInterchainToken(ix) ==
  encodeData("approveDeployRemoteInterchainToken", ix,
             1 + 32 + 1 * 32 + 4 + length(ix.destinationChain)
               + 4 + length(ix.destinationMinter))

encodeRevokeDeployRemoteInterchainToken(ix) ==
  encodeData("revokeDeployRemoteInterchainToken", ix,
             1 + 32 + 1 * 32 + 4 + length(ix.destinationChain))

encodeRegisterCanonicalInterchainToken(ix) ==
  encodeData("registerCanonicalInterchainToken", ix, 1)

encodeDeployRemoteCanonicalInterchainToken(ix) ==
  encodeData("deployRemoteCanonicalInterchainToken", ix,
             1 + 4 + length(ix.destinationChain) + 8 + 1)

encodeInterchainTransfer(ix) ==
  encodeData("interchainTransfer", ix,
             1 + 1 * 32 + 4 + length(ix.destinationChain)
               + 4 + length(ix.destinationAddress) + 8 + 8 + 1)

encodeDeployInterchainToken(ix) ==
  encodeData("deployInterchainToken", ix,
             1 + 1 * 32 + 4 + length(ix.name) + 4 + length(ix.symbol) + 1 + 8)

encodeDeployRemoteInterchainToken(ix) ==
  encodeData("deployRemoteInterchainToken", ix,
             1 + 1 * 32 + 4 + length(ix.destinationChain) + 8 + 1)

encodeDeployRemoteInterchainTokenWithMinter(ix) ==
  encodeData("deployRemoteInterchainTokenWithMinter", ix,
             1 + 1 * 32 + 4 + length(ix.destinationChain)
               + 4 + length(ix.destinationMinter) + 8 + 1)

encodeRegisterTokenMetadata(ix) ==
  encodeData("registerTokenMetadata", ix, 1 + 8 + 1)

(* encodeRegisterCustomToken sizing the operator at 32 bytes, present or   *)
(* not.                                                                    *)
encodeRegisterCustomToken_OperatorAlwaysSized(ix) ==
  encodeData("registerCustomToken", ix,
             1 + 1 * 32 + tokenManagerTypeSpan(ix.tokenManagerType) + 1 + 32)

encodeRegisterCustomToken(ix) ==
  encodeData("registerCustomToken", ix,
             1 + 1 * 32 + tokenManagerTypeSpan(ix.tokenManagerType)
               + 1 + (IF ix.operator = Null THEN 0 ELSE 32))

(* encodeLinkToken without the four bytes of linkParams' length prefix. *)
encodeLinkToken_NoLinkParamsPrefix(ix) ==
  encodeData("linkToken", ix,
             1 + 1 * 32 + 4 + length(ix.destinationChain)
               + 4 + length(ix.destinationTokenAddress)
               + tokenManagerTypeSpan(ix.tokenManagerType)
               + length(ix.linkParams) + 8 + 1)

encodeLinkToken(ix) ==
  encodeData("linkToken", ix,
             1 + 1 * 32 + 4 + length(ix.destinationChain)
               + 4 + length(ix.destinationTokenAddress)
               + tokenManagerTypeSpan(ix.tokenManagerType)
               + 4 + length(ix.linkParams) + 8 + 1)

encodeCallContractWithInterchainToken(ix) ==
  encodeData("callContractWithInterchainToken", ix,
             1 + 1 * 32 + 4 + length(ix.destinationChain)
               + 4 + length(ix.destinationAddress) + 8
               + 4 + length(ix.data) + 8 + 1)

encodeCallContractWithInterchainTokenOffchainData(ix) ==
  encodeData("callContractWithInterchainTokenOffchainData", ix,
             1 + 1 * 32 + 4 + length(ix.destinationChain)
               + 4 + length(ix.destinationAddress) + 8 + 1 * 32 + 8 + 1)

encodeSetFlowLimit(ix) == encodeData("setFlowLimit", ix, 1 + 8)

encodeTransferOperatorship(ix) == encodeData("transferOperatorship", ix, 1)

encodeProposeOperatorship(ix) == encodeData("proposeOperatorship", ix, 1)

encodeAcceptOperatorship(ix) == encodeData("acceptOperatorship", ix, 1)

encodeAddTokenManagerFlowLimiter(ix) ==
  encodeData("addTokenManagerFlowLimiter", ix, 1)

encodeRemoveTokenManagerFlowLimiter(ix) ==
  encodeData("removeTokenManagerFlowLimiter", ix, 1)

encodeSetTokenManagerFlowLimit(ix) ==
  encodeData("setTokenManagerFlowLimit", ix, 1 + 8)

encodeTransferTokenManagerOperatorship(ix) ==
  encodeData("transferTokenManagerOperatorship", ix, 1)

encodeProposeTokenManagerOperatorship(ix) ==
  encodeData("proposeTokenManagerOperatorship", ix, 1)

encodeAcceptTokenManagerOperatorship(ix) ==
  encodeData("acceptTokenManagerOperatorship", ix, 1)

encodeHandoverMintAuthority(ix) ==
  encodeData("handoverMintAuthority", ix, 1 + 1 * 32)

encodeMintInterchainToken(ix) == encodeData("mintInterchainToken", ix, 1 + 8)

encodeTransferInterchainTokenMintership(ix) ==
  encodeData("transferInterchainTokenMintership", ix, 1)

encodeProposeInterchainTokenMintership(ix) ==
  encodeData("proposeInterchainTokenMintership", ix, 1)

encodeAcceptInterchainTokenMintership(ix) ==
  encodeData("acceptInterchainTokenMintership", ix, 1)

-----------------------------------------------------------------------------
(* The coder's methods.                                                    *)

(* encode(ixName, ix): the switch over the 32 names and its default. *)
encode(ixName, ix) ==
  CASE ixName = "initialize" -> encodeInitialize(ix)
    [] ixName = "setPauseStatus" -> encodeSetPauseStatus(ix)
    [] ixName = "setTrustedChain" -> encodeSetTrustedChain(ix)
    [] ixName = "removeTrustedChain" -> encodeRemoveTrustedChain(ix)
    [] ixName = "approveDeployRemoteInterchainToken" ->
         encodeApproveDeployRemoteInterchainToken(ix)
    [] ixName = "revokeDeployRemoteInterchainToken" ->
         encodeRevokeDeployRemoteInterchainToken(ix)
    [] ixName = "registerCanonicalInterchainToken" ->
         encodeRegisterCanonicalInterchainToken(ix)
    [] ixName = "deployRemoteCanonicalInterchainToken" ->
         encodeDeployRemoteCanonicalInterchainToken(ix)
    [] ixName = "interchainTransfer" -> encodeInterchainTransfer(ix)
    [] ixName = "deployInterchainToken" -> encodeDeployInterchainToken(ix)
    [] ixName = "deployRemoteInterchainToken" ->
         encodeDeployRemoteInterchainToken(ix)
    [] ixName = "deployRemoteInterchainTokenWithMinter" ->
         encodeDeployRemoteInterchainTokenWithMinter(ix)
    [] ixName = "registerTokenMetadata" -> encodeRegisterTokenMetadata(ix)
    [] ixName = "registerCustomToken" -> encodeRegisterCustomToken(ix)
    [] ixName = "linkToken" -> encodeLinkToken(ix)
    [] ixName = "callContractWithInterchainToken" ->
         encodeCallContractWithInterchainToken(ix)
    [] ixName = "callContractWithInterchainTokenOffchainData" ->
         encodeCallContractWithInterchainTokenOffchainData(ix)
    [] ixName = "setFlowLimit" -> encodeSetFlowLimit(ix)
    [] ixName = "transferOperatorship" -> encodeTransferOperatorship(ix)
    [] ixName = "proposeOperatorship" -> encodeProposeOperatorship(ix)
    [] ixName = "acceptOperatorship" -> encodeAcceptOperatorship(ix)
    [] ixName = "addTokenManagerFlowLimiter" ->
         encodeAddTokenManagerFlowLimiter(ix)
    [] ixName = "removeTokenManagerFlowLimiter" ->
         encodeRemoveTokenManagerFlowLimiter(ix)
    [] ixName = "setTokenManagerFlowLimit" ->
         encodeSetTokenManagerFlowLimit(ix)
    [] ixName = "transferTokenManagerOperatorship" ->
         encodeTransferTokenManagerOperatorship(ix)
    [] ixName = "proposeTokenManagerOperatorship" ->
         encodeProposeTokenManagerOperatorship(ix)
    [] ixName = "acceptTokenManagerOperatorship" ->
         encodeAcceptTokenManagerOperatorship(ix)
    [] ixName = "handoverMintAuthority" -> encodeHandoverMintAuthority(ix)
    [] ixName = "mintInterchainToken" -> encodeMintInterchainToken(ix)
    [] ixName = "transferInterchainTokenMintership" ->
         encodeTransferInterchainTokenMintership(ix)
    [] ixName = "proposeInterchainTokenMintership" ->
         encodeProposeInterchainTokenMintership(ix)
    [] ixName = "acceptInterchainTokenMintership" ->
         encodeAcceptInterchainTokenMintership(ix)
    [] OTHER -> Threw("InvalidInstruction")

(* encodeState answering with an empty buffer where it must throw. *)
encodeState_EmptyBuffer(ixName, ix) == Returned(<<>>)

(* encodeState(ixName, ix): the program has no state. *)
encodeState(ixName, ix) == Threw("NoState")

-----------------------------------------------------------------------------
(* The callers.                                                            *)

(* The registered fields of the instruction named ixName; none for a name  *)
(* LAYOUT does not know.                                                   *)
FieldsOf(ixName) ==
  IF VariantsNamed(LAYOUT, ixName) = {} THEN <<>>
  ELSE SourceVariant(LAYOUT, ixName).layout

(* The values callers pass for a field of layout f. *)
ValuesOf(f) ==
  CASE f.kind = "utf8Str"   -> Strings
    [] f.kind = "bytes"     -> Buffers
    [] f.kind = "seq"       -> Arrays
    [] f.kind = "publicKey" -> PublicKeys
    [] f.kind = "u64"       -> Amounts
    [] f.kind = "u8"        -> Smalls
    [] f.kind = "bool"      -> BOOLEAN
    [] f.kind = "union"     -> TokenManagerTypes
    [] f.kind = "option"    -> Operators

(* The argument objects Anchor's method builder makes for the fields: one  *)
(* key per declared argument, each with a value of the argument's type.    *)
RECURSIVE Objects(_)
Objects(fields) ==
  IF fields = <<>> THEN {<<>>}
  ELSE {(Head(fields).property :> v) @@ rest :
          v \in ValuesOf(Head(fields)), rest \in Objects(Tail(fields))}

Init ==
  /\ call = None
  /\ outcome = None
  /\ delivered = None

(* A caller encodes the instruction ixName with the arguments ix.  Calls   *)
(* are synchronous and the coder keeps nothing of them: each starts from   *)
(* the state the constructor left.                                         *)
Encode(ixName, ix) ==
  /\ call = None
  /\ call' = [method |-> "encode", ixName |-> ixName, ix |-> ix]
  /\ outcome' = encode(ixName, ix)
  /\ UNCHANGED delivered

(* A caller asks for the state encoding of an instruction. *)
EncodeState(ixName, ix) ==
  /\ call = None
  /\ call' = [method |-> "encodeState", ixName |-> ixName, ix |-> ix]
  /\ outcome' = encodeState(ixName, ix)
  /\ UNCHANGED delivered

(* The buffer encode returned is sent as the data of an instruction and    *)
(* read back with the registry, LAYOUT.decode standing for the program's   *)
(* reader.  LAYOUT.decode reads the fields of the variant and stops: bytes *)
(* after the last field are not looked at.                                 *)
Deliver ==
  /\ call # None
  /\ call.method = "encode"
  /\ outcome.kind = "returned"
  /\ delivered = None
  /\ delivered' = LET st == UnionDecode(LAYOUT, outcome.bytes)
                  IN  IF st.err THEN [ok |-> FALSE]
                      ELSE [ok |-> TRUE, ixName |-> st.dest.key, ix |-> st.dest.fields]
  /\ UNCHANGED <<call, outcome>>

(* The caller takes the buffer, or catches the error, and goes on. *)
Take ==
  /\ call # None
  /\ call' = None
  /\ outcome' = None
  /\ delivered' = None

Next ==
  \/ \E ixName \in InstructionNames : \E ix \in Objects(FieldsOf(ixName)) :
       \/ Encode(ixName, ix)
       \/ EncodeState(ixName, ix)
  \/ Deliver
  \/ Take

Spec == Init /\ [][Next]_vars

-----------------------------------------------------------------------------
(* What the instruction format asks of a call, stated from the layouts     *)
(* alone: the reference the size formulas and the writes are held to.      *)

Encoding == call # None /\ call.method = "encode"

Registered(ixName) == VariantsNamed(LAYOUT, ixName) # {}

(* The value v has the shape field f declares: it is there, a fixed array  *)
(* has its count of elements, a union key is one of the union's, an        *)
(* optional key is null or a key.                                          *)
Shaped(f, v) ==
  /\ v # Undefined
  /\ ~Rejects(f, v)
  /\ f.kind = "seq" => Len(v) = f.span
  /\ f.kind = "option" => v = Null \/ Len(v) = 32

WellFormed(ixName, ix) ==
  /\ Registered(ixName)
  /\ \A i \in DOMAIN FieldsOf(ixName) :
       Shaped(FieldsOf(ixName)[i], ix[FieldsOf(ixName)[i].property])

(* Every character of every text argument is ASCII. *)
Ascii(ixName, ix) ==
  \A i \in DOMAIN FieldsOf(ixName) :
    LET f == FieldsOf(ixName)[i]
    IN  f.kind = "utf8Str" => \A k \in DOMAIN ix[f.property] :
                                ix[f.property][k] < 128

(* The bytes a field takes on the wire: its span, 4 and the byte length of *)
(* a text or a blob, 1 and the key of an optional key that is there.       *)
SizeOnWire(f, v) ==
  CASE f.span >= 0         -> f.span
    [] f.kind = "union"    -> 1
    [] f.kind = "option"   -> IF v \in {Null, Undefined} THEN 1 ELSE 1 + Len(v)
    [] f.kind = "bytes"    -> 4 + Len(v)
    [] f.kind = "utf8Str"  -> 4 + Len(Utf8(v))

(* The instruction data of a well-formed call: the discriminator, then     *)
(* each field's bytes with nothing between or after them.                  *)
Canonical(ixName, ix) ==
  LET fields == FieldsOf(ixName)
  IN  <<SourceVariant(LAYOUT, ixName).variant>> \o
      FlattenSeq([i \in DOMAIN fields |->
                    Written(fields[i], ix[fields[i].property])])

-----------------------------------------------------------------------------
(* The coder as an implementation of the instruction format.               *)

(* The type the format gives a field of each kind of layout. *)
TypeOf ==
  [u8 |-> "u8", bool |-> "boolean", u64 |-> "u64", seq |-> "array32",
   publicKey |-> "array32", utf8Str |-> "text", bytes |-> "bytes",
   union |-> "tokenManagerType", option |-> "optionalKey"]

(* The registry read as the format's: names, discriminators and schemas. *)
RegisteredNames == {LAYOUT.variants[i].property : i \in DOMAIN LAYOUT.variants}

DiscriminatorOf(ixName) == SourceVariant(LAYOUT, ixName).variant

SchemaOf(ixName) ==
  [i \in DOMAIN FieldsOf(ixName) |->
     [name |-> FieldsOf(ixName)[i].property,
      type |-> TypeOf[FieldsOf(ixName)[i].kind]]]

(* An outcome of encode read as an answer: a throw of the switch is an     *)
(* unknown variant, a throw of a layout or of the buffer a field mismatch. *)
AsAnswer(o) ==
  IF o.kind = "returned"
  THEN [ok |-> TRUE, bytes |-> o.bytes]
  ELSE [ok |-> FALSE,
        error |-> IF o.error = "InvalidInstruction" THEN "UnknownVariant"
                                                    ELSE "FieldMismatch"]

(* The format sees the calls of encode; a call of encodeState is none of   *)
(* its steps.                                                              *)
Format ==
  INSTANCE InstructionFormat WITH
    Idle          <- None,
    Operations    <- RegisteredNames,
    Discriminator <- DiscriminatorOf,
    Schema        <- SchemaOf,
    request       <- IF Encoding THEN [kind |-> call.ixName, fields |-> call.ix]
                                 ELSE None,
    response      <- IF Encoding THEN AsAnswer(outcome) ELSE None

-----------------------------------------------------------------------------
(* Properties.                                                             *)

(* The errors each method throws. *)
ErrorsOf == [encode      |-> {"InvalidInstruction", "RangeError"},
             encodeState |-> {"NoState"}]

(* The type invariant: there is an outcome exactly when there is a call;   *)
(* an outcome is a buffer of bytes or an error of the method called;       *)
(* encodeState, the program having no state, never answers with a buffer,  *)
(* and the program reads nothing but a buffer encode returned.             *)
TypeOK ==
  /\ call = None <=> outcome = None
  /\ delivered # None =>
       /\ call # None /\ call.method = "encode" /\ outcome.kind = "returned"
       /\ delivered.ok \in BOOLEAN
  /\ call # None =>
       /\ call.method \in DOMAIN ErrorsOf
       /\ call.ixName \in InstructionNames
       /\ DOMAIN call.ix =
            {FieldsOf(call.ixName)[i].property : i \in DOMAIN FieldsOf(call.ixName)}
       /\ outcome.kind \in {"returned", "threw"}
       /\ outcome.kind = "returned" => outcome.bytes \in Seq(Byte)
       /\ outcome.kind = "threw" => outcome.error \in ErrorsOf[call.method]
       /\ call.method = "encodeState" => outcome.kind = "threw"

(* Whatever encode returns for well-formed arguments is the instruction's  *)
(* canonical data, byte for byte: no size formula of an encodeX function   *)
(* leaves room the layout does not fill, and no write of LAYOUT.encode     *)
(* lands on another field's bytes.                                         *)
ReturnedIsCanonical ==
  Encoding /\ outcome.kind = "returned" /\ WellFormed(call.ixName, call.ix)
    => outcome.bytes = Canonical(call.ixName, call.ix)

(* The program reads from the buffer of a well-formed call the instruction *)
(* and the arguments of that call: the discriminator encodeX chose names   *)
(* the instruction called, and every field is read back where the fields   *)
(* before it, of lengths known only from the buffer, say it begins.        *)
DeliveredIsTheCall ==
  delivered # None /\ WellFormed(call.ixName, call.ix) =>
    delivered = [ok |-> TRUE, ixName |-> call.ixName, ix |-> call.ix]

(* encode returns a buffer for every registered instruction whose          *)
(* arguments are well formed and whose texts are ASCII: the switch of      *)
(* encode and the variants of LAYOUT name the same instructions, and no    *)
(* size formula says less than the layout writes.                          *)
AsciiRecordEncodes ==
  Encoding /\ WellFormed(call.ixName, call.ix) /\ Ascii(call.ixName, call.ix)
    => outcome.kind = "returned"

(* The format's promise for texts (4 and the byte length of the value):    *)
(* encode returns a buffer for every well-formed call.  The encodeX        *)
(* functions size a text by its length in UTF-16 units.                    *)
WellFormedRecordEncodes ==
  Encoding /\ WellFormed(call.ixName, call.ix) => outcome.kind = "returned"

(* The format's promise for fixed arrays (FieldMismatch unless the source  *)
(* has exactly 32 elements): encode returns no buffer for a call one of    *)
(* whose fixed arrays has another length.  seq writes the elements it is   *)
(* given and the struct moves on by 32.                                    *)
FixedArrayLengthChecked ==
  Encoding /\ outcome.kind = "returned" =>
    \A i \in DOMAIN FieldsOf(call.ixName) :
      LET f == FieldsOf(call.ixName)[i]
      IN  f.kind = "seq" => Len(call.ix[f.property]) = f.span

(* The format's promise of an exact length: a returned buffer is as long   *)
(* as the discriminator and the fields take on the wire.                   *)
(* encodeRegisterCustomToken sizes the operator by a test for null alone.  *)
ReturnedLengthIsExact ==
  Encoding /\ outcome.kind = "returned" =>
    LET fields == FieldsOf(call.ixName)
    IN  Len(outcome.bytes) =
          1 + FoldLeft(LAMBDA sum, f : sum + SizeOnWire(f, call.ix[f.property]),
                       0, fields)

(* The worked example of the format's description: registerCustomToken     *)
(* with a 32-byte salt and a known type is 67 bytes without an operator    *)
(* and 99 with one.  encodeRegisterCustomToken counts 1 + 32 + 1 + 1 and   *)
(* the 32 of a key.                                                        *)
RegisterCustomTokenAsDocumented ==
  /\ Encoding
  /\ call.ixName = "registerCustomToken"
  /\ WellFormed(call.ixName, call.ix)
  /\ outcome.kind = "returned"
  => Len(outcome.bytes) = IF call.ix.operator = Null THEN 67 ELSE 99

(* On the calls of callers that pass ASCII texts, arrays of 32 elements    *)
(* and an operator that is null or a key, the coder implements the         *)
(* instruction format: every encode, through its switch, its size formula, *)
(* the allocation and the writes of LAYOUT.encode, answers what the format *)
(* answers, refusals included.                                             *)
ImplementsFormat == Format!Spec

=============================================================================
