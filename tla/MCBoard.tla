------------------------------ MODULE MCBoard ------------------------------
(***************************************************************************)
(* Parts of a board that have nothing to do with each other, for one model *)
(* checking run: a behaviour is one of a single part, the others rest.     *)
(***************************************************************************)
EXTENDS SSHKeyManager, STM32NTPClient, CommonCommands, VSC8512, PhyPollTask,
        TCA6424A, IPCTable, MCTimerTasks, Bootloader

MCTexts ==
  UNION {[1 .. n -> {"1", "4", ".", "/"}] : n \in 1 .. 5}
    \cup [1 .. 5 -> {"0", ".", "x"}]
    \cup {<<"0", "1", ".", "3", "/", "0", "2">>,
          <<"1", "0", "0", "1", ".", "3", "/", "2">>}   \* wraps

MCLogName == [c \in {0, 1} |-> IF c = 0 THEN "log0" ELSE "log1"]

VARIABLE part   \* the part that runs

Parts == {"keys", "ntp", "ip", "phy", "link", "values", "directions", "table",
          "timer", "boot"}

BoardInit ==
  /\ part \in Parts
  /\ KeysInit /\ NtpInit /\ IpInit /\ PhyInit /\ LinkInit /\ ExpanderInit /\ TableInit
  /\ TimerInit /\ BootInit
  /\ part = "phy" \/ serdes = [cfg9 |-> 0, cfg10 |-> 0]
  /\ part = "table" \/ channels = [i \in ChannelIndex |-> Clear]

BoardNext ==
  \/ /\ part = "keys" /\ KeysNext
     /\ UNCHANGED <<part, ntpVars, ipVars, phyVars, linkVars,
                    expanderVars, tableVars, timerVars, bootVars>>
  \/ /\ part = "ntp" /\ NtpNext
     /\ UNCHANGED <<part, keyVars, ipVars, phyVars, linkVars,
                    expanderVars, tableVars, timerVars, bootVars>>
  \/ /\ part = "ip" /\ IpNext
     /\ UNCHANGED <<part, keyVars, ntpVars, phyVars, linkVars,
                    expanderVars, tableVars, timerVars, bootVars>>
  \/ /\ part = "phy" /\ PhyNext
     /\ UNCHANGED <<part, keyVars, ntpVars, ipVars, linkVars,
                    expanderVars, tableVars, timerVars, bootVars>>
  \/ /\ part = "link" /\ LinkNext
     /\ UNCHANGED <<part, keyVars, ntpVars, ipVars, phyVars,
                    expanderVars, tableVars, timerVars, bootVars>>
  \/ /\ part = "values" /\ ValueNext
     /\ UNCHANGED <<part, keyVars, ntpVars, ipVars, phyVars,
                    linkVars, tableVars, timerVars, bootVars>>
  \/ /\ part = "directions" /\ DirectionNext
     /\ UNCHANGED <<part, keyVars, ntpVars, ipVars, phyVars,
                    linkVars, tableVars, timerVars, bootVars>>
  \/ /\ part = "table" /\ TableNext
     /\ UNCHANGED <<part, keyVars, ntpVars, ipVars, phyVars,
                    linkVars, expanderVars, timerVars, bootVars>>
  \/ /\ part = "timer" /\ TimerNext
     /\ UNCHANGED <<part, keyVars, ntpVars, ipVars, phyVars,
                    linkVars, expanderVars, tableVars, bootVars>>
  \/ /\ part = "boot" /\ BootNext
     /\ UNCHANGED <<part, keyVars, ntpVars, ipVars, phyVars,
                    linkVars, expanderVars, tableVars, timerVars>>

BoardSpec ==
  /\ BoardInit
  /\ [][BoardNext]_<<part, keyVars, ntpVars, ipVars, phyVars, linkVars,
                    expanderVars, tableVars, timerVars, bootVars>>

=============================================================================
