----------------------------- MODULE WriteRing -----------------------------
(***************************************************************************)
(* The write queue of the embedded MQTT session: a bipbuffer that grants   *)
(* contiguous space only.  A ring is the record of its three pointers:     *)
(* write, read, and last, the end of the data before a wraparound.         *)
(*                                                                         *)
(* Sources: aimdb-mqtt-connector/src/embedded/write_ring.rs; the pointers  *)
(* are those of the bbqueue crate.                                         *)
(***************************************************************************)
EXTENDS Integers

CONSTANTS
  RingCap, \* bytes of storage
  Reserve  \* CONTROL_RESERVE

Rings == [write : 0 .. RingCap, read : 0 .. RingCap, last : 0 .. RingCap]
NewRing == [write |-> 0, read |-> 0, last |-> 0]

\* grant_exact: where n contiguous bytes start, or NoRoom.
NoRoom == -1
Grant(ring, n) ==
  IF ring.write < ring.read
  THEN IF ring.write + n < ring.read THEN ring.write ELSE NoRoom
  ELSE IF ring.write + n <= RingCap THEN ring.write
       ELSE IF n < ring.read THEN 0 ELSE NoRoom

\* A commit that forgets where the data ends before a wraparound.
CommitForgetting(ring, start, n) == [ring EXCEPT !.write = start + n, !.last = RingCap]

\* commit of the first n bytes of a grant; n = 0 drops the grant, which keeps
\* an early wraparound.
Commit(ring, start, n) ==
  [ring EXCEPT !.write = start + n,
               !.last = IF start + n < ring.write /\ ring.write # RingCap THEN ring.write
                        ELSE IF start + n > ring.last THEN RingCap ELSE ring.last]

\* has_room takes the grant and drops it.
has_room(ring, n) == Grant(ring, n) # NoRoom
Probed(ring, n) == IF has_room(ring, n) THEN Commit(ring, Grant(ring, n), 0) ELSE ring

\* put_sized and try_put once there is room: a frame, and room behind it.
Put(ring, n, behind) == Commit(ring, Grant(ring, n + behind), n)

\* read: a reader at the end of the data goes back to the start.
Rewound(ring) ==
  IF ring.read = ring.last /\ ring.write < ring.read THEN [ring EXCEPT !.read = 0] ELSE ring
Readable(ring) ==
  LET at == Rewound(ring)
  IN (IF at.write < at.read THEN at.last ELSE at.write) - at.read
Released(ring, n) == [Rewound(ring) EXCEPT !.read = @ + n]

\* drain: everything that was queued is released.
drain(ring) == [ring EXCEPT !.read = ring.write]

\* Half the capacity is what an empty ring grants wherever its pointers are.
fits(n, behind) == n + behind <= RingCap \div 2
max_publish == IF RingCap \div 2 > Reserve THEN RingCap \div 2 - Reserve ELSE 0
============================================================================
