---------------------------- MODULE PhyPollTask ----------------------------
(***************************************************************************)
(* The task that watches the management port's link                        *)
(* (tcpip/PhyPollTask.{h,cpp}): it reads two registers of the PHY, one     *)
(* after the other, while the link comes and goes as it likes.  The PHY is *)
(* external: its status bit stays down after a loss of link until it has   *)
(* been read (IEEE 802.3, 22.2.4.2.13), and its control register shows the *)
(* speed of the link.                                                      *)
(***************************************************************************)

CONSTANTS
  Speed, Slowest   \* linkspeed_t, and LINK_SPEED_10M

ASSUME PollAssumption == Slowest \in Speed

VARIABLES
  link,           \* the PHY's link: up, at which speed
  status,         \* its latched status bit
  bctl,           \* speed bits the present poll has read; Slowest between polls
  polling,        \* the poll is between its two reads
  basetLinkUp,    \* g_basetLinkUp
  basetLinkSpeed  \* g_basetLinkSpeed

linkVars == <<link, status, bctl, polling, basetLinkUp, basetLinkSpeed>>

LinkInit ==
  /\ link = [up |-> FALSE, speed |-> Slowest] /\ status = FALSE
  /\ bctl = Slowest /\ polling = FALSE
  /\ basetLinkUp = FALSE /\ basetLinkSpeed = Slowest

LinkComes(s) ==
  /\ ~link.up /\ link' = [up |-> TRUE, speed |-> s]
  /\ UNCHANGED <<status, bctl, polling, basetLinkUp, basetLinkSpeed>>

LinkGoes ==
  /\ link.up /\ link' = [link EXCEPT !.up = FALSE] /\ status' = FALSE
  /\ UNCHANGED <<bctl, polling, basetLinkUp, basetLinkSpeed>>

ReadControl ==
  /\ ~polling /\ polling' = TRUE /\ bctl' = link.speed
  /\ UNCHANGED <<link, status, basetLinkUp, basetLinkSpeed>>

\* Variant: the link counts as up until a poll finds it up again.
Published_UpOnly(bup) ==
  /\ basetLinkUp' = (bup \/ basetLinkUp)
  /\ basetLinkSpeed' = IF bup /\ ~basetLinkUp THEN bctl ELSE basetLinkSpeed
(* The speed is taken when the link comes up and reset when it goes down.  *)
Published(bup) ==
  /\ basetLinkUp' = bup
  /\ basetLinkSpeed' = IF bup /\ ~basetLinkUp THEN bctl
                       ELSE IF ~bup /\ basetLinkUp THEN Slowest ELSE basetLinkSpeed

(* The rest of PollPHYs(): reading the status bit lets go of its latch.    *)
ReadStatus ==
  /\ polling /\ polling' = FALSE /\ bctl' = Slowest
  /\ Published(status) /\ status' = link.up
  /\ UNCHANGED link

LinkNext == (\E s \in Speed : LinkComes(s)) \/ LinkGoes \/ ReadControl \/ ReadStatus

LinkSpec == LinkInit /\ [][LinkNext]_linkVars

(* While the link is known to be up, its speed is known, too: no other     *)
(* speed than the present one is ever published, even if the link went and *)
(* came back at another one between two polls, or between the two reads of *)
(* one; the first poll after a loss of link tells of it.                   *)
SpeedIsPresent == basetLinkUp /\ status => basetLinkSpeed = link.speed

=============================================================================
