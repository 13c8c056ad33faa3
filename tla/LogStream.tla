------------------------------ MODULE LogStream ------------------------------
(***************************************************************************)
(* What a core that logs through another core may rely on: what it prints  *)
(* arrives in pieces, in order, whole and once.  Only while the core has   *)
(* no channel to the other one may the newest of it be lost.               *)
(***************************************************************************)
EXTENDS Integers, Sequences

CONSTANT Byte

VARIABLES
  channel,   \* the core has found its channel
  pending,   \* printed and not yet at the other core
  taken      \* the last piece that arrived, and a bit that flips at each one

vars == <<channel, pending, taken>>

Init == channel = FALSE /\ pending = <<>> /\ taken = [msg |-> <<>>, bit |-> 0]

PrintByte ==
  /\ \E b \in Byte : pending' = Append(pending, b)
  /\ UNCHANGED <<channel, taken>>

Arrive ==
  /\ \E n \in 1 .. Len(pending) :
       /\ taken' = [msg |-> SubSeq(pending, 1, n),
                    bit |-> IF taken.bit = 0 THEN 1 ELSE 0]
       /\ pending' = SubSeq(pending, n + 1, Len(pending))
  /\ UNCHANGED channel

Lose ==
  /\ ~channel
  /\ \E n \in 0 .. Len(pending) : pending' = SubSeq(pending, 1, n)
  /\ UNCHANGED <<channel, taken>>

Attach == channel' \in BOOLEAN /\ UNCHANGED <<pending, taken>>

Next == PrintByte \/ Arrive \/ Lose \/ Attach

Spec == Init /\ [][Next]_vars

=============================================================================
