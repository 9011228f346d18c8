------------------------------- MODULE Schedule -------------------------------
(***************************************************************************)
(* The message schedules of whole blocks: the blocks a user may load, each *)
(* the set of the positions of its '1' bits, 16 words of them.             *)
(***************************************************************************)
EXTENDS SHA256

CONSTANTS
  Length,       \* words of a schedule: 64 in the source
  Blocks,       \* the blocks a user may load
  NoBlock       \* no block was loaded yet

ASSUME LengthAssumption == Length \in Nat /\ Length > 16 /\ Length % 2 = 0

ASSUME BlocksAssumption == Blocks \subseteq SUBSET (0 .. 16 * WordBits - 1)

ASSUME NoBlockAssumption == NoBlock \notin Blocks

\* The words of block b, its most significant bits first.
MessageWords(b) ==
  [t \in 0 .. 15 |-> {i \in Bit : (15 - t) * WordBits + i \in b}]

\* w is the schedule of block b.
IsScheduleOf(w, b) == IsSchedule(w, MessageWords(b), Length)
===============================================================================
