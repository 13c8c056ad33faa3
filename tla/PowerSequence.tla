---------------------------- MODULE PowerSequence ----------------------------
(***************************************************************************)
(* What the supervisor promises the board, whatever loop carries it out:   *)
(* rails come up one at a time in the order of the sequence and go down in *)
(* the reverse order; a reset is released only on a fully powered board,   *)
(* and only when every earlier line of the sequence is released and a look *)
(* at the one just before it found it ready (it may have gone down since); *)
(* one look permits one release, and none if something happened in between.*)
(* Outside an emergency a rail drops only while every device is held.      *)
(***************************************************************************)
EXTENDS Integers

CONSTANTS NRails, NResets

VARIABLES
  enabled,    \* rails that are switched on
  released,   \* reset lines that are released
  ready,      \* devices that report ready
  seen,       \* the line that the last look found ready, until it is acted on
  mode        \* "panic" while an unordered shutdown is under way, else "normal"

Rails == 0 .. NRails - 1
Lines == 0 .. NResets - 1

vars == <<enabled, released, ready, seen, mode>>

Init ==
  /\ enabled = {} /\ released = {} /\ seen = {} /\ mode = "normal"
  /\ ready \in [Lines -> BOOLEAN]

RailUp(r) ==
  /\ mode = "normal" /\ released = {}
  /\ enabled = 0 .. r - 1
  /\ enabled' = enabled \cup {r}
  /\ UNCHANGED <<released, ready, seen, mode>>

RailDown(r) ==
  /\ mode = "panic" \/ released = {}
  /\ enabled = 0 .. r
  /\ enabled' = enabled \ {r}
  /\ UNCHANGED <<released, ready, seen, mode>>

LookAt(l) ==
  /\ mode = "normal" /\ l \in released /\ ready[l]
  /\ seen' = {l}
  /\ UNCHANGED <<enabled, released, ready, mode>>

ReleaseReset(l) ==
  /\ mode = "normal" /\ enabled = Rails
  /\ released = 0 .. l - 1
  /\ l > 0 => l - 1 \in seen
  /\ released' = released \cup {l} /\ seen' = {}
  /\ ready' \in [Lines -> BOOLEAN]
  /\ UNCHANGED <<enabled, mode>>

(* The last line held in an emergency may end it: the board is all off.    *)
HoldReset(l) ==
  /\ released' = released \ {l} /\ seen' = {}
  /\ \/ UNCHANGED mode
     \/ mode = "panic" /\ enabled = {} /\ released' = {} /\ mode' = "normal"
  /\ UNCHANGED <<enabled, ready>>

Trip ==
  /\ mode' = "panic" /\ seen' = {}
  /\ UNCHANGED <<enabled, released, ready>>

Devices ==
  /\ ready' \in [Lines -> BOOLEAN]
  /\ UNCHANGED <<enabled, released, seen, mode>>

Next ==
  \/ \E r \in Rails : RailUp(r) \/ RailDown(r)
  \/ \E l \in Lines : LookAt(l) \/ ReleaseReset(l) \/ HoldReset(l)
  \/ Trip \/ Devices

Spec == Init /\ [][Next]_vars

=============================================================================
