----------------------------- MODULE Compression -----------------------------
(***************************************************************************)
(* The compression of whole blocks: the blocks a user may submit and the   *)
(* digest SHA-256 gives each of them.                                      *)
(***************************************************************************)
EXTENDS SHA256

CONSTANTS
  Rounds,       \* rounds of a block, one schedule word each: 64 in the source
  Blocks,       \* the blocks a user may submit, schedules of Rounds words
  NoBlock,      \* no block was submitted yet
  Undef         \* the value 'U' of a register nothing was assigned to

ASSUME RoundsAssumption == Rounds \in 1 .. 64

ASSUME BlocksAssumption == Blocks \subseteq [0 .. Rounds - 1 -> Word]

ASSUME UndefAssumption == Undef \notin Regs

ASSUME NoBlockAssumption == NoBlock \notin Blocks

\* Compression[b][t]: the registers after t rounds of block b
Compression == [b \in Blocks |-> RoundsOf(b, Rounds)]

Digest(b) == AddInit(Compression[b][Rounds])
==============================================================================
