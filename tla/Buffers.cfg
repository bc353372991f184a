\* Two readers that each poll with two wakers, two concurrent producers, a ring
\* of one (two after rounding for three): the ring laps a reader, the mailbox is
\* overwritten by both producers at once, and one registration slot leaves one
\* reader deaf.
CONSTANTS
  Readers = {r1, r2}
  Producers = {p1, p2}
  Capacity = 1
  Slots = 1
  MaxPush = 3
  MaxSubs = 2
CHECK_DEADLOCK FALSE
SPECIFICATION Spec
INVARIANTS NeverEmptied NoWakerLeft
PROPERTY ContractKept
SYMMETRY Symmetry
