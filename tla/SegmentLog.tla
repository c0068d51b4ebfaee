----------------------------- MODULE SegmentLog -----------------------------
(***************************************************************************)
(* What the rendezvous promises the devices that use it: a log for each    *)
(* device that only ever grows at its end, and nothing told to anyone, as  *)
(* an acknowledgement or as something to apply, that is not in it.         *)
(***************************************************************************)
EXTENDS Naturals, Sequences

CONSTANTS Device, Body

VARIABLES
  log,   \* device -> the bodies of its segments, in seq order
  told   \* the segments acknowledged to their device or served to a reader

Held(d) == {[device |-> d, seq |-> i, body |-> log[d][i]] : i \in DOMAIN log[d]}

Init ==
  /\ log = [d \in Device |-> <<>>]
  /\ told = {}

Extend(d, body) ==
  /\ log' = [log EXCEPT ![d] = Append(@, body)]
  /\ UNCHANGED told

Tell ==
  /\ told \subseteq told'
  /\ told' \subseteq told \cup UNION {Held(d) : d \in Device}
  /\ UNCHANGED log

Next ==
  \/ \E d \in Device, body \in Body : Extend(d, body)
  \/ Tell

Spec == Init /\ [][Next]_<<log, told>>
=============================================================================
