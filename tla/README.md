# TLA+ models of the Solana Axelar TypeScript bindings

The repository holds the generated TypeScript bindings of three Solana programs of
the Axelar stack: the interchain token service (ITS), the gateway and the memo
program. The bindings turn the arguments of a call into the bytes of a Solana
instruction and the bytes of an on-chain account into an object. This directory
models them in TLA+ and checks them with TLC.

## 1. Inventory

| Component | Source | State | Operations |
|---|---|---|---|
| Instruction codec | `src/bindings/generated/axelar-solana-its/src/coder/instructions.ts` 8-498, 675-679 | none kept between calls; within a call the buffer and the write offset | `encode` (switch over 32 names, default throws), 32 `encodeX` (a size formula each), `encodeData` (allocate, fill, return), `encodeState` (throws) |
| Layout registry | same file, 500-673 | `LAYOUT`, built at module load, constant afterwards | 32 `addVariant` calls: discriminator, fields in order, instruction name |
| Account codec | `src/bindings/generated/axelar-solana-its/src/coder/accounts.ts` | none kept between calls | `encode`, `decode`, `decodeUnchecked`, `memcmp`, `size`, `decodeTokenManagerAccount`, `TOKEN_MANAGER_LAYOUT` |
| Primitive layouts | package `@native-to-anchor/buffer-layout` (a dependency, not in the repository) | a buffer and an offset | `u8`, `bool`, `u64`, `publicKey`, `utf8Str`, `bytes`, `seq`, `option`, `struct`, `union` with `encode`, `decode`, `getSpan` |
| Stub coders | `src/solana/bindings/generated/*/src/coder/{state,events,types}.ts` | none | every method throws |
| Ping ITS test suite | `src/solana/bindings/generated/tests/its.ts` | none | one call per instruction through Anchor and a validator |

How they interact. A caller (Anchor's method builder) hands `encode` an instruction
name and an argument object. `encode` picks the `encodeX` function of that name; the
function computes the size of the instruction data with its own formula and calls
`encodeData`, which allocates a zero-filled buffer of that size and lets `LAYOUT`
write the discriminator and the fields into it. The formula and the layout are two
descriptions of the same instruction that nothing but the generator keeps equal.
The account codec writes an account into 106 zero bytes and cuts the buffer at the
length the layout reports; it reads an account from whatever buffer it is given.

What is hard here. The code is sequential and keeps no state between calls: there
are no interleavings, crashes or messages to model. What goes wrong goes wrong at
boundaries and between descriptions that must agree:

* a text is sized in UTF-16 units and written in UTF-8 bytes;
* a 32-byte array is written with the number of elements it has, and the offset
  moves by 32 whatever was written;
* an optional key is sized by a test for `null` and written by a test for
  `undefined`;
* the size formula of each instruction is written apart from the layout that
  fills the buffer;
* the layouts that read with `Buffer.slice` do not notice missing bytes;
* an account object with a field of the wrong length or missing is encoded.

`PROJECT.json` lists each as a hazard at its line, with the properties aimed at
it. The remaining properties (`DeliveredIsTheCall`, `RoundTrip`,
`EncodedSizeAgrees`) guard against a change of the generated tables - a name in
the switch and not in `LAYOUT`, a size constant left behind by a new field - that
no input of today's code can bring about.

## 2. Modules

| Module | Models | Variables | Actions |
|---|---|---|---|
| `BufferLayout` | the layouts of the package: what each writes, what each rejects, how `Structure.encode` moves its offset over written and skipped fields, `Union.encode`, and decoding for the layouts of the account | none (operators only) | none |
| `ItsInstructionCoder` | `instructions.ts`: `LAYOUT`, `encodeData`, the 32 `encodeX` with the formulas as written, `encode`, `encodeState` | `call`, `outcome`, `delivered` | `Encode`, `EncodeState`, `Deliver`, `Take` |
| `InstructionFormat` | the instruction format of the description (`spec.md` 4.2 and 6): an operation and its fields are answered with the discriminator and the fields in schema order, or refused | `request`, `response` | `Encode`, `Collect` |
| `ItsAccountsCoder` | `accounts.ts`: `TOKEN_MANAGER_LAYOUT` and the five methods | `call`, `outcome`, `origin` | `Encode`, `Decode`, `DecodeEncoded`, `Memcmp`, `Size`, `Take` |
| `MCItsInstructionCoder`, `MCItsAccountsCoder` | the values callers pass | | |

`BufferLayout` is written from the format's description and the package's
behaviour, since the package is not part of the repository; every other definition
is written from the source lines `PROJECT.json` names under `map`.

A call is one action: the methods are synchronous and nothing else runs while one
does, so the action computes the whole outcome (`Returned(...)` or `Threw(...)`)
from the arguments. `call` records the method and its arguments, `outcome` what
came back. `Take` is the caller taking the outcome; the next call starts from the
idle state, as the coders keep nothing. In `ItsInstructionCoder`, `Deliver` reads
the buffer `encode` returned back with the same registry (`LAYOUT.decode`);
`delivered` is what it read. `LAYOUT.decode` stands for the program's reader,
which is not part of this repository, and it ignores bytes after the last field:
properties about `delivered` are stated for well-formed calls only, where
`ReturnedIsCanonical` shows there are no such bytes. In `ItsAccountsCoder`, `DecodeEncoded` is a
caller handing the buffer `encode` has just returned to `decode`; `origin` keeps the
account that was encoded, so that the round trip relates the decoded account to
the one two steps earlier.

Data is abstracted as follows. A text is a sequence of code points; `length` counts
its UTF-16 units and `Utf8` gives its UTF-8 bytes, so the two conversions the code
mixes are both modelled by what they do. A buffer is a sequence of bytes. A `u64`
is a natural number written as 8 little-endian bytes (values stay below 2^31, the
range of TLC's integers). A union value `{mintBurn: {}}` is its key. `undefined` and
`null` are the model values `Undefined` and `Null`. An undefined size (the switch
over the token manager type has no default) is `NaN`, which `Buffer.alloc` refuses.
Error messages are abstracted to who threw: the coder (`InvalidInstruction`,
`InvalidAccountName`, `NoState`) or a layout or the buffer (`RangeError`,
`LayoutError`).

## 3. Runs

| Run | Config | Expect | Properties |
|---|---|---|---|
| `instructions` | `MCItsInstructionCoder.cfg` | pass | `TypeOK`, `ReturnedIsCanonical`, `DeliveredIsTheCall`, `AsciiRecordEncodes` |
| `instructions-format` | `MCItsInstructionCoder_ImplementsFormat.cfg` | pass | `ImplementsFormat` |
| `instructions-non-ascii-text` | `MCItsInstructionCoder_WellFormedRecordEncodes.cfg` | violation | `WellFormedRecordEncodes` |
| `instructions-array-length` | `MCItsInstructionCoder_FixedArrayLengthChecked.cfg` | violation | `FixedArrayLengthChecked` |
| `instructions-exact-length` | `MCItsInstructionCoder_ReturnedLengthIsExact.cfg` | violation | `ReturnedLengthIsExact` |
| `instructions-documented-length` | `MCItsInstructionCoder_RegisterCustomTokenAsDocumented.cfg` | violation | `RegisterCustomTokenAsDocumented` |
| `accounts` | `MCItsAccountsCoder.cfg` | pass | `TypeOK`, `RoundTrip`, `EncodedSizeAgrees`, `TruncatedIsRejected` |
| `accounts-accepted-round-trip` | `MCItsAccountsCoder_AcceptedRoundTrips.cfg` | violation | `AcceptedRoundTrips` |

What the passing runs show.

* `ReturnedIsCanonical`: for each of the 32 instructions, whenever the arguments are
  well formed and `encode` returns, the buffer is the discriminator followed by the
  fields, byte for byte. This holds the 32 size formulas to the layouts: a formula
  that counts a byte too many leaves a zero after the instruction and breaks it.
* `DeliveredIsTheCall`: the program reads from the buffer of a well-formed call the
  name and the arguments of that call. The reader finds a field only through the
  length prefixes before it, so this relates what was written to where it is read.
* `ImplementsFormat`: refinement. `ItsInstructionCoder` instantiates
  `InstructionFormat` with `request` and `response` read from `call` and `outcome`
  (a returned buffer is an encoding, a throw of the switch an `UnknownVariant`, a
  throw of a layout or of the buffer a `FieldMismatch`; `encodeState` and `Deliver`
  are stuttering steps), and TLC checks that every step of the coder is a step of
  the format. The run restricts callers to the inputs on which the code does what
  the description says: ASCII texts, arrays of exactly 32 elements, an operator
  that is `null` or a key. Unknown instruction names and unknown token manager
  types stay in, so both refusals are checked. On the full input sets the
  refinement fails, for the reasons the violation runs give one by one.
* `AsciiRecordEncodes`: every registered instruction with well-formed arguments and
  ASCII texts is encoded. This holds the switch of `encode` to the variants of
  `LAYOUT`, and the formulas to the layouts from the other side: a formula that
  counts a byte too few makes the last write throw.
* `RoundTrip`: a well-formed account that `encode` accepted is what `decode` reads
  from the returned buffer.
* `EncodedSizeAgrees`: the length of every buffer `encode` returns is what `size`
  and `memcmp` declare.
* `TruncatedIsRejected`: `decode` answers with an account only for data at least as
  long as an account. It holds because the last field of the layout is read with a
  bounds check; the reads of the keys and of the flow limit have none.

What the violations show. Each states a promise of the format's description
(`spec.md`) and TLC finds the call that breaks it:

* `WellFormedRecordEncodes`: `initialize` with the chain name `é` throws
  `RangeError`, the buffer being one byte short (`instructions.ts:121`, and every
  other `.length` of a text).
* `FixedArrayLengthChecked`: an array of 2 or of 33 elements in a 32-byte field is
  encoded (`instructions.ts:513`); the repository's test suite passes `[1, 2]`.
* `ReturnedLengthIsExact`: `registerCustomToken` with the operator left undefined
  returns 67 bytes for an instruction of 35 (`instructions.ts:319`).
* `RegisterCustomTokenAsDocumented`: the lengths 67 and 99 of the description's
  worked example are not the lengths of the code (35 and 67), nor of the
  description's own field sizes.
* `AcceptedRoundTrips`: an account with a token id of 2 elements, or without bump,
  is encoded and decodes to another account (`accounts.ts:15`).

Faulty variants. For every property of a passing run the modules hold a
deliberately wrong form of one definition, named after it (`encode_OneByteShort`,
`size_WithoutBump`, `encodeLinkToken_NoLinkParamsPrefix`, ...): the slip a change of
the code could plausibly make. With the definition replaced by its variant TLC
finds the property violated, which shows that the property depends on that code.
`PROJECT.json` pairs each property with its variant.

## 4. Bounds

All sets are given in the MC modules and chosen so that every boundary above is
crossed:

* texts: empty, `eth` (ASCII), `é` (2 bytes, 1 unit), `€` (3 bytes, 1 unit),
  U+1F600 (4 bytes, 2 units);
* byte blobs: empty and two bytes;
* 32-byte arrays: 32 elements, 2 (short) and 33 (long);
* amounts: 0, 258 (two non-zero bytes) and 2^31 - 1;
* small integers: 0 and 255;
* token manager types: the five keys and one unknown key;
* operator: `null`, `undefined` and a key;
* instruction names: the 32 registered and one unknown; account names: the one
  registered and one unknown;
* fetched account data: a whole account, one with a byte after it, one of type 0,
  one with discriminator 5, the empty buffer and a whole account cut to 1, 40, 100
  and 105 bytes.

The coders are stateless, so one call followed by one read of its result is the
whole behaviour: the state graphs have depth 3, and the runs enumerate every call
over these sets (14945, 2065 and 2633 distinct states). Deadlock
is checked: a caller can always take an outcome and call again.

## 5. Fairness and liveness

None is assumed and no liveness property is stated: every method is a synchronous
function that returns or throws, and nothing waits for anything.

## 6. Not modelled

* The stub coders (state, events and types coders of the three programs): each
  method is a single `throw`.
* The test suite `tests/its.ts` as a program: it talks to a validator over the
  network. Anchor's method builder refuses a call with the wrong number of
  arguments before the coder sees it, so callers in the model pass every declared
  argument (the optional operator may be `undefined`).
* The wording of error messages and the TypeScript types. `encodeData` has one
  kind of failure in the model (`RangeError`), whether `Buffer.alloc` or a write
  of the layout threw.
* Promises: the account coder's `encode` is `async` and rejects where the model
  throws. Nothing runs between the call and its settlement, so the two are the
  same outcome.
* Decoding of non-ASCII text: `FromUtf8` models `Buffer.toString('utf8')` for
  every byte sequence, but `encode` never returns a buffer with a non-ASCII text
  in it (it throws first, see `WellFormedRecordEncodes`), so the runs read back
  ASCII only.
* What the program makes of an ill-formed call that `encode` accepted (a short or
  long array, bytes after the instruction): the program's reader is not in this
  repository, and `LAYOUT.decode` is more tolerant than a reader has to be.
* `u64` values of 2^31 and above: the byte order is checked on smaller values.

## 7. Plan

1. (done) `BufferLayout`, `ItsInstructionCoder`, `ItsAccountsCoder` and their runs.
2. (done) `InstructionFormat`, the abstract specification of the instruction
   format, and the refinement run.
3. (done) The program's reader of instruction data (`Deliver`) and the round trip.
4. An abstract specification of the account format (`spec.md` 4.3) and the account
   coder shown to implement it.
5. The calls of the test suite as a run of the instruction coder: the argument
   vectors of `tests/its.ts` as inputs, and what the program reads for each.
6. The stub coders composed with the two real coders as the programs' `Coder`
   objects.
