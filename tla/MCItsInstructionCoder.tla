------------------------ MODULE MCItsInstructionCoder ------------------------
(***************************************************************************)
(* The instruction coder with the calls TLC makes of it: every registered  *)
(* instruction and one unregistered name, and for each argument type a few *)
(* values on both sides of every boundary the coder's size formulas and    *)
(* layouts meet.                                                           *)
(***************************************************************************)
EXTENDS ItsInstructionCoder

(* 32 bytes, the first of them first. *)
Bytes32(first) == [i \in 1 .. 32 |-> (first + i - 1) % 256]

(* The 32 registered names, and one the switch does not know. *)
MCInstructionNames ==
  {LAYOUT.variants[i].property : i \in DOMAIN LAYOUT.variants} \cup {"swap"}

(* "", "eth", and three one-character strings: e-acute (two UTF-8 bytes,   *)
(* one UTF-16 unit), the euro sign (three bytes, one unit) and an emoji    *)
(* (four bytes, two units).                                                *)
MCStrings == {<<>>, <<101, 116, 104>>, <<233>>, <<8364>>, <<128512>>}

(* An empty buffer and new Uint8Array(2). *)
MCBuffers == {<<>>, <<0, 0>>}

(* A 32-byte array, the two-element array [1, 2] and one of 33 bytes. *)
MCArrays == {Bytes32(1), <<1, 2>>, [i \in 1 .. 33 |-> i]}

MCPublicKeys == {Bytes32(200)}

(* 0, a value of two bytes and the largest TLC's integers hold. *)
MCAmounts == {0, 258, 2147483647}

MCSmalls == {0, 255}

(* The five keys of the union and one it does not have. *)
MCTokenManagerTypes ==
  {"nativeInterchainToken", "mintBurnFrom", "lockUnlock", "lockUnlockFee",
   "mintBurn", "custom"}

MCOperators == {Null, Undefined, Bytes32(7)}

(* The callers the format is implemented for: ASCII texts, arrays of 32    *)
(* elements, an operator that is null or a key.                            *)
MCAsciiStrings    == {<<>>, <<101, 116, 104>>}
MCArraysOf32      == {Bytes32(1), [i \in 1 .. 32 |-> i]}
MCGivenOperators  == {Null, Bytes32(7)}

=============================================================================
