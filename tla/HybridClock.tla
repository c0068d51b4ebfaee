---------------------------- MODULE HybridClock ----------------------------
(***************************************************************************)
(* The hybrid logical clock of packages/sync (hlc.ts).  A stamp is the     *)
(* triple the packed string holds: wall milliseconds, a counter, and the   *)
(* id of the device that issued it.  Packing zero-pads both numbers so     *)
(* that comparing strings is comparing triples; the model compares the     *)
(* triples.  A device id is a free-form string in the code and a natural   *)
(* number here: all that is used of it is that ids are totally ordered.    *)
(***************************************************************************)
EXTENDS Naturals

CONSTANT MaxDrift   \* how far ahead of the wall clock a remote stamp is followed

ASSUME MaxDriftAssumption == MaxDrift \in Nat

Stamp == [physical : Nat, counter : Nat, node : Nat]

\* Below every stamp a clock issues; stands for "no stamp" and for no reset.
NoStamp == [physical |-> 0, counter |-> 0, node |-> 0]

Earlier(a, b) ==
  \/ a.physical < b.physical
  \/ /\ a.physical = b.physical
     /\ \/ a.counter < b.counter
        \/ a.counter = b.counter /\ a.node < b.node

AtMost(a, b) == a = b \/ Earlier(a, b)

Later(a, b) == IF Earlier(a, b) THEN b ELSE a

At(physical, counter, node) ==
  [physical |-> physical, counter |-> counter, node |-> node]

\* A new clock, or one restored from the stamp it last issued, under `node`.
NewClock(node, last) == At(last.physical, last.counter, node)

(***************************************************************************)
(* Each operator returns the clock's next `last`; for Send that is also    *)
(* the stamp issued.                                                       *)
(***************************************************************************)
\* Mutant: the counter stands still while the wall clock does.
SendStalled(last, wall) ==
  IF wall > last.physical THEN At(wall, 0, last.node) ELSE last

Send(last, wall) ==
  IF wall > last.physical
  THEN At(wall, 0, last.node)
  ELSE At(last.physical, last.counter + 1, last.node)

Followed(remote, wall) == remote.physical <= wall + MaxDrift

Larger(m, n) == IF m >= n THEN m ELSE n

\* Mutant: the clock runs by its own wall alone.
RecvUnheard(last, remote, wall) ==
  IF wall > last.physical THEN At(wall, 0, last.node)
  ELSE At(last.physical, last.counter + 1, last.node)

Recv(last, remote, wall) ==
  IF ~Followed(remote, wall) THEN last
  ELSE IF wall > last.physical /\ wall > remote.physical
  THEN At(wall, 0, last.node)
  ELSE IF last.physical = remote.physical
  THEN At(last.physical, Larger(last.counter, remote.counter) + 1, last.node)
  ELSE IF last.physical > remote.physical
  THEN At(last.physical, last.counter + 1, last.node)
  ELSE At(remote.physical, remote.counter + 1, last.node)
=============================================================================
