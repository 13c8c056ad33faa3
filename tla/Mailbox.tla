------------------------------- MODULE Mailbox -------------------------------
(***************************************************************************)
(* What one direction of an IPC channel promises its users: a message      *)
(* handed to Push() is deposited whole into a one-place mailbox once that  *)
(* is empty, and is taken out whole, once.  Nothing else ever appears in   *)
(* the mailbox or at the receiver.                                         *)
(***************************************************************************)
CONSTANTS Producers, Msg

VARIABLES
  pushing,   \* per producer: <<m>> while its Push(m) has not deposited m
  slot,      \* <<m>> while m waits in the mailbox, else <<>>
  taken      \* the last message taken, and a bit that flips at each one

vars == <<pushing, slot, taken>>

Init ==
  /\ pushing = [p \in Producers |-> <<>>]
  /\ slot = <<>>
  /\ taken = [msg |-> <<>>, bit |-> 0]

Call(p) ==
  /\ pushing[p] = <<>>
  /\ \E m \in Msg : pushing' = [pushing EXCEPT ![p] = <<m>>]
  /\ UNCHANGED <<slot, taken>>

Deposit(p) ==
  /\ pushing[p] # <<>> /\ slot = <<>>
  /\ slot' = pushing[p]
  /\ pushing' = [pushing EXCEPT ![p] = <<>>]
  /\ UNCHANGED taken

Take ==
  /\ slot # <<>>
  /\ taken' = [msg |-> slot[1], bit |-> IF taken.bit = 0 THEN 1 ELSE 0]
  /\ slot' = <<>>
  /\ UNCHANGED pushing

Next == Take \/ \E p \in Producers : Call(p) \/ Deposit(p)

Spec == Init /\ [][Next]_vars

=============================================================================
