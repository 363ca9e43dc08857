----------------------------- MODULE ScidCodec -----------------------------
(***************************************************************************)
(* How an LSP writes an intercept scid into its answer and how the client   *)
(* reads it again: BLOCKxTXxVOUT for the parts of a 64 bit number.          *)
(***************************************************************************)
EXTENDS Integers, FiniteSetsExt

CONSTANTS BlockBits, TxBits, VoutBits   \* 24, 24 and 16

ASSUME ScidCodecAssumption == {BlockBits, TxBits, VoutBits} \subseteq Nat \ {0}

Width == BlockBits + TxBits + VoutBits

MAX_SCID_TX_INDEX == 2^TxBits - 1
MAX_SCID_VOUT_INDEX == 2^VoutBits - 1

block_from_scid(scid) == scid \div 2^(TxBits + VoutBits)
tx_index_from_scid(scid) == (scid \div 2^VoutBits) % (MAX_SCID_TX_INDEX + 1)
vout_from_scid(scid) == scid % (MAX_SCID_VOUT_INDEX + 1)

InterceptScid(scid) ==
  <<block_from_scid(scid), tx_index_from_scid(scid), vout_from_scid(scid)>>

Bits(n) == {i \in 0..(Width - 1) : (n \div 2^i) % 2 = 1}

BitOr(m, n) == MapThenSumSet(LAMBDA i : 2^i, Bits(m) \cup Bits(n))

(* n << bits of a number of Width bits.                                     *)
ShiftLeft(n, bits) == (n * 2^bits) % 2^Width

(* Mutant of to_scid: the transaction index is shifted by its own width.    *)
to_scid_misaligned(parts) ==
  BitOr(ShiftLeft(parts[1], TxBits + VoutBits),
        BitOr(ShiftLeft(parts[2], TxBits), parts[3]))

(* No part is compared with its width: one that is too large for it runs    *)
(* into the next.                                                           *)
to_scid(parts) ==
  BitOr(ShiftLeft(parts[1], TxBits + VoutBits),
        BitOr(ShiftLeft(parts[2], VoutBits), parts[3]))
=============================================================================
