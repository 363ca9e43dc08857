--------------------------- MODULE ChainTracking ---------------------------
(***************************************************************************)
(* LiquidityManager as a chain::Listen: a chain source connects blocks to   *)
(* the tip and disconnects them in a reorganisation, and the manager keeps  *)
(* its best block.  A block is the sequence of the choices that led to it,  *)
(* so the block a header builds on is its Front and its height its length.  *)
(***************************************************************************)
EXTENDS Integers, Sequences, SequencesExt

CONSTANTS Forks,      \* the blocks that may be built on a block
          MaxHeight   \* bound on the height of the chain

VARIABLES tip,        \* the chain source's last block: external
          best_block, \* LiquidityManager::best_block
          panicked    \* an assertion failed

vars == <<tip, best_block, panicked>>

Init == /\ tip \in UNION {[1..n -> Forks] : n \in 1..MaxHeight}
        /\ best_block = tip
        /\ panicked = FALSE

(* Both transactions_confirmed and best_block_updated do nothing.           *)
best_block_updated(header) == UNCHANGED best_block

filtered_block_connected(header) ==
  IF best_block = Front(header)
  THEN best_block_updated(header) /\ UNCHANGED panicked
  ELSE panicked' = TRUE /\ UNCHANGED best_block

block_disconnected(header) ==
  IF best_block = header
  THEN best_block' = Front(header) /\ UNCHANGED panicked
  ELSE panicked' = TRUE /\ UNCHANGED best_block

Connect == /\ ~panicked /\ Len(tip) < MaxHeight
           /\ \E block \in Forks : tip' = Append(tip, block)
           /\ filtered_block_connected(tip')

(* The first block is never disconnected.                                   *)
Disconnect == /\ ~panicked /\ Len(tip) > 1
              /\ tip' = Front(tip)
              /\ block_disconnected(tip)

Next == Connect \/ Disconnect

Spec == Init /\ [][Next]_vars

-----------------------------------------------------------------------------
(* A chain source that connects and disconnects in chain order trips no     *)
(* assertion (manager.rs:586-589: "the connected header must build on the   *)
(* last connected header").                                                 *)
ChainOrderIsAccepted == ~panicked
=============================================================================
