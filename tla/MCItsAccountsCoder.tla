------------------------- MODULE MCItsAccountsCoder -------------------------
(***************************************************************************)
(* ItsAccountsCoder for TLC: the accounts and the account data callers     *)
(* pass.                                                                   *)
(***************************************************************************)
EXTENDS ItsAccountsCoder

LOCAL INSTANCE SequencesExt

(* 32 bytes, the first of which tells them apart. *)
Bytes32(first) == [i \in 1 .. 32 |-> IF i = 1 THEN first ELSE 0]

(* The name of the account and one the program does not have. *)
MCAccountNames == {"tokenManager", "flowSlot"}

(* The five types and a key the layout does not know. *)
MCTokenManagerTypes ==
  {"nativeInterchainToken", "mintBurnFrom", "lockUnlock", "lockUnlockFee",
   "mintBurn", "custom"}

(* A token id, one too short and one too long. *)
MCArrays == {Bytes32(1), <<1, 2>>, [i \in 1 .. 33 |-> i]}

MCPublicKeys == {Bytes32(200), [i \in 1 .. 32 |-> 255]}

(* Zero, a value of two bytes and the largest TLC counts to. *)
MCAmounts == {0, 258, 2147483647}

MCSmalls == {0, 255}

(* The data of a token manager account as the program stores it. *)
Stored(type, limit, bump) ==
  <<type>> \o Bytes32(1) \o Bytes32(200) \o Bytes32(9) \o LE(limit, 8) \o <<bump>>

(* Account data: whole, with a byte after it, cut before the bump, cut     *)
(* inside the flow limit, cut inside a key, a discriminator alone,         *)
(* nothing, and whole with a discriminator no type has.                    *)
MCBuffers ==
  LET whole == Stored(4, 258, 254)
  IN  {whole, whole \o <<7>>, Stored(0, 0, 0), Stored(5, 258, 254), <<>>}
        \cup {SubSeq(whole, 1, n) : n \in {1, 40, 100, 105}}

=============================================================================
