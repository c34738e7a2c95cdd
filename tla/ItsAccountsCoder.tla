-------------------------- MODULE ItsAccountsCoder --------------------------
(***************************************************************************)
(* The account coder of the interchain token service bindings              *)
(* (AxelarSolanaItsAccountsCoder): the one account of the program, the     *)
(* token manager, written to and read from its 106 bytes.                  *)
(*                                                                         *)
(* A caller hands the coder an account object or a buffer and takes the    *)
(* answer; it may hand the buffer encode returned straight to decode, the  *)
(* way a client builds account data and a test reads it back.              *)
(***************************************************************************)
EXTENDS BufferLayout, TLC

CONSTANTS
  None,               \* no call, no outcome, no account behind the buffer
  AccountNames,       \* the account names callers pass
  TokenManagerTypes,  \* the keys callers pass as the account's ty
  Arrays,             \* the arrays callers pass as tokenId
  PublicKeys,         \* the keys callers pass
  Amounts,            \* the flow limits callers pass
  Smalls,             \* the bumps callers pass
  Buffers             \* the account data callers fetch and pass to decode

VARIABLES
  call,     \* the call in progress: method, accountName and argument
  outcome,  \* what the call returned or threw
  origin    \* the account whose encoding is being decoded, or None

vars == <<call, outcome, origin>>

Returned(v) == [kind |-> "returned", value |-> v]
Threw(e)    == [kind |-> "threw", error |-> e]

-----------------------------------------------------------------------------
(* The layout of a token manager account.                                  *)

(* The union of the five token manager types, each an empty struct. *)
ty ==
  union(<<addVariant(0, struct(<<>>), "nativeInterchainToken"),
          addVariant(1, struct(<<>>), "mintBurnFrom"),
          addVariant(2, struct(<<>>), "lockUnlock"),
          addVariant(3, struct(<<>>), "lockUnlockFee"),
          addVariant(4, struct(<<>>), "mintBurn")>>, "ty")

(* The layout with its last two fields in the other order. *)
TOKEN_MANAGER_LAYOUT_BumpBeforeFlowLimit ==
  struct(<<ty, seq(u8(Undefined), 32, "tokenId"), publicKey("tokenAddress"),
           publicKey("associatedTokenAccount"), u8("bump"), u64("flowLimit")>>)

(* The six fields of the account, in stored order. *)
TOKEN_MANAGER_LAYOUT ==
  struct(<<ty, seq(u8(Undefined), 32, "tokenId"), publicKey("tokenAddress"),
           publicKey("associatedTokenAccount"), u64("flowLimit"), u8("bump")>>)

-----------------------------------------------------------------------------
(* The methods.                                                            *)

(* encode cutting the buffer one byte before the length reported. *)
encode_OneByteShort(accountName, account) ==
  LET st == StructEncode(TOKEN_MANAGER_LAYOUT, account, Writing(Alloc(106), 0))
  IN  CASE accountName # "tokenManager" -> Threw("InvalidAccountName")
        [] st.err                       -> Threw("LayoutError")
        [] OTHER                        -> Returned(Slice(st.b, 0, st.end - 1))

(* encode: 106 zero bytes, the layout written into them, and the buffer    *)
(* cut at the length the layout reports.                                   *)
encode(accountName, account) ==
  LET st == StructEncode(TOKEN_MANAGER_LAYOUT, account, Writing(Alloc(106), 0))
  IN  CASE accountName # "tokenManager" -> Threw("InvalidAccountName")
        [] st.err                       -> Threw("LayoutError")
        [] OTHER                        -> Returned(Slice(st.b, 0, st.end))

(* decodeTokenManagerAccount: the layout read from offset 0. *)
decodeTokenManagerAccount(ix) ==
  LET st == StructDecode(TOKEN_MANAGER_LAYOUT, ix, 0)
  IN  IF st.err THEN Threw("LayoutError") ELSE Returned(st.dest)

(* decodeUnchecked: the switch over the one account name. *)
decodeUnchecked(accountName, ix) ==
  IF accountName = "tokenManager"
  THEN decodeTokenManagerAccount(ix)
  ELSE Threw("InvalidAccountName")

(* decode: the program's accounts carry no discriminator to check. *)
decode(accountName, ix) == decodeUnchecked(accountName, ix)

(* memcmp without its switch over the account's name. *)
memcmp_AnyName(accountName) == Returned([dataSize |-> 106])

(* memcmp: the filter that finds the accounts, by their size alone. *)
memcmp(accountName) ==
  IF accountName = "tokenManager"
  THEN Returned([dataSize |-> 106])
  ELSE Threw("InvalidAccountName")

(* size as it was before the bump was counted. *)
size_WithoutBump(idlAccount) ==
  IF idlAccount.name = "tokenManager"
  THEN Returned(105)
  ELSE Threw("InvalidAccountName")

(* size: the bytes of an account. *)
size(idlAccount) ==
  IF idlAccount.name = "tokenManager"
  THEN Returned(106)
  ELSE Threw("InvalidAccountName")

-----------------------------------------------------------------------------
(* The callers.                                                            *)

(* The account objects callers pass: any field may be missing. *)
Accounts ==
  [ty                     : TokenManagerTypes \cup {Undefined},
   tokenId                : Arrays,
   tokenAddress           : PublicKeys,
   associatedTokenAccount : PublicKeys,
   flowLimit              : Amounts,
   bump                   : Smalls \cup {Undefined}]

Decoders == {"decode", "decodeUnchecked"}

(* What method m answers to buffer ix. *)
Decoding(m, accountName, ix) ==
  IF m = "decode" THEN decode(accountName, ix) ELSE decodeUnchecked(accountName, ix)

Init ==
  /\ call = None
  /\ outcome = None
  /\ origin = None

Encode(accountName, account) ==
  /\ call = None
  /\ call' = [method |-> "encode", accountName |-> accountName, arg |-> account]
  /\ outcome' = encode(accountName, account)
  /\ UNCHANGED origin

(* A caller decodes account data it fetched. *)
Decode(m, accountName, ix) ==
  /\ call = None
  /\ call' = [method |-> m, accountName |-> accountName, arg |-> ix]
  /\ outcome' = Decoding(m, accountName, ix)
  /\ UNCHANGED origin

(* A caller decodes the buffer encode has just returned. *)
DecodeEncoded(m) ==
  /\ call # None
  /\ call.method = "encode"
  /\ outcome.kind = "returned"
  /\ call' = [method |-> m, accountName |-> call.accountName, arg |-> outcome.value]
  /\ outcome' = Decoding(m, call.accountName, outcome.value)
  /\ origin' = call.arg

Memcmp(accountName) ==
  /\ call = None
  /\ call' = [method |-> "memcmp", accountName |-> accountName, arg |-> None]
  /\ outcome' = memcmp(accountName)
  /\ UNCHANGED origin

Size(accountName) ==
  /\ call = None
  /\ call' = [method |-> "size", accountName |-> accountName, arg |-> None]
  /\ outcome' = size([name |-> accountName])
  /\ UNCHANGED origin

(* The caller takes the outcome. *)
Take ==
  /\ call # None
  /\ call' = None
  /\ outcome' = None
  /\ origin' = None

Next ==
  \/ \E n \in AccountNames, a \in Accounts : Encode(n, a)
  \/ \E m \in Decoders, n \in AccountNames, ix \in Buffers : Decode(m, n, ix)
  \/ \E m \in Decoders : DecodeEncoded(m)
  \/ \E n \in AccountNames : Memcmp(n) \/ Size(n)
  \/ Take

Spec == Init /\ [][Next]_vars

-----------------------------------------------------------------------------
(* What the coder promises.                                                *)

FieldNames ==
  {"ty", "tokenId", "tokenAddress", "associatedTokenAccount", "flowLimit", "bump"}

Is32Bytes(v) == v \in Seq(Byte) /\ Len(v) = 32

(* An account object every field of which is a value of its kind. *)
WellFormed(a) ==
  /\ a.ty \in {"nativeInterchainToken", "mintBurnFrom", "lockUnlock",
               "lockUnlockFee", "mintBurn"}
  /\ Is32Bytes(a.tokenId)
  /\ Is32Bytes(a.tokenAddress)
  /\ Is32Bytes(a.associatedTokenAccount)
  /\ a.flowLimit \in Nat
  /\ a.bump \in Byte

(* The errors a method may throw. *)
ErrorsOf(m) ==
  IF m \in {"encode"} \cup Decoders
  THEN {"InvalidAccountName", "LayoutError"}
  ELSE {"InvalidAccountName"}

(* The type invariant: there is an outcome exactly when there is a call,   *)
(* an account behind the buffer only while a decoder reads it, every       *)
(* method throws only its own errors, and all of them refuse the name of   *)
(* an account the program does not have.                                   *)
TypeOK ==
  /\ call = None <=> outcome = None
  /\ origin # None => call # None /\ call.method \in Decoders
  /\ call # None =>
       /\ call.method \in {"encode", "memcmp", "size"} \cup Decoders
       /\ call.accountName \in AccountNames
       /\ outcome.kind \in {"returned", "threw"}
       /\ outcome.kind = "threw" => outcome.error \in ErrorsOf(call.method)
       /\ call.accountName # "tokenManager" =>
            outcome = Threw("InvalidAccountName")
       /\ call.method \in Decoders /\ outcome.kind = "returned" =>
            DOMAIN outcome.value = FieldNames

(* A well-formed account that encode accepted is the account decode reads  *)
(* back from the buffer encode returned: the buffer.slice(0, len) of       *)
(* encode keeps every byte the layout of decodeTokenManagerAccount reads.  *)
RoundTrip ==
  origin # None /\ WellFormed(origin) => outcome = Returned(origin)

(* Every buffer encode returns has the length that size and memcmp         *)
(* declare: the 106 of Buffer.alloc, the length the layout reports, the    *)
(* dataSize of memcmp and the result of size are four separate constants   *)
(* that a change of the layout must keep equal.                            *)
EncodedSizeAgrees ==
  call # None /\ call.method = "encode" /\ outcome.kind = "returned" =>
    /\ size([name |-> call.accountName]) = Returned(Len(outcome.value))
    /\ memcmp(call.accountName) = Returned([dataSize |-> Len(outcome.value)])

(* decode never answers with an account read from less than an account:    *)
(* a buffer shorter than size says makes TOKEN_MANAGER_LAYOUT.decode throw *)
(* although the reads of its keys and of its flow limit check no bounds.   *)
TruncatedIsRejected ==
  call # None /\ call.method \in Decoders /\ outcome.kind = "returned" =>
    size([name |-> call.accountName]) \in {Returned(n) : n \in 0 .. Len(call.arg)}

(* What encode accepted is what decode reads back, well formed or not:     *)
(* the specification has encode refuse a value that does not fit its       *)
(* field.                                                                  *)
AcceptedRoundTrips ==
  origin # None => outcome = Returned(origin)

=============================================================================
