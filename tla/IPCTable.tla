------------------------------ MODULE IPCTable ------------------------------
(***************************************************************************)
(* The table of IPC channels (multicore/IPCDescriptorTable.{h,cpp}) and the*)
(* start of the cores that use it (core/MulticoreStartup.S, core/main.cpp):*)
(* the primary core fills the table in memory that keeps its contents      *)
(* through a reset, then has the secondary CPU started, whose core 0 looks *)
(* up the log channels of both its cores and lets core 1 go.               *)
(***************************************************************************)
EXTENDS Naturals, FiniteSetsExt

CONSTANTS
  NumChannels,  \* NUM_IPC_CHANNELS
  LogName,      \* names of the log channels of cores 0 and 1
  OtherNames,   \* names of other channels
  NoName        \* the null pointer

ASSUME TableAssumption ==
  /\ NumChannels \in Nat
  /\ LogName[0] # LogName[1]
  /\ NoName \notin OtherNames \cup {LogName[0], LogName[1]}

Core == {0, 1}
ChannelIndex == 1 .. NumChannels
Names == OtherNames \cup {LogName[c] : c \in Core}

(* A channel with the FIFOs Initialize() has set up.                       *)
Clear == [name |-> NoName, fifos |-> {}]
Whole(n) == [name |-> n, fifos |-> {"primary", "secondary"}]

VARIABLES
  channels,   \* m_channels
  firstFree,  \* m_firstFreeChannel, from 1; 0: the primary is not running yet
  filling,    \* channel AllocateChannel() is at work on, or 0
  toAllocate, \* names the primary core's software has still to allocate
  started,    \* the secondary CPU is started
  initStage,  \* __startupInitStage
  at,         \* per secondary core: reset, init or main
  logChannel  \* m_channels of the log device: an index, or 0 for null

tableVars ==
  <<channels, firstFree, filling, toAllocate, started, initStage, at, logChannel>>
secondaryVars == <<started, initStage, at, logChannel>>

(* Another run may have left other channels behind.                        *)
TableInit ==
  /\ channels \in {[i \in ChannelIndex |-> ch] : ch \in {Clear, Whole(LogName[0])}}
  /\ firstFree = 0 /\ filling = 0 /\ toAllocate = Names
  /\ started = FALSE /\ initStage = 0
  /\ at = [c \in Core |-> "reset"] /\ logChannel = [c \in Core |-> 0]

-----------------------------------------------------------------------------
(* The primary core.                                                       *)

Construct ==
  /\ firstFree = 0 /\ firstFree' = 1
  /\ channels' = [i \in ChannelIndex |-> Clear]
  /\ UNCHANGED <<filling, toAllocate, secondaryVars>>

(* AllocateChannel() takes a channel, or returns null when none is left.   *)
AllocateChannel ==
  /\ firstFree > 0 /\ filling = 0 /\ toAllocate # {}
  /\ IF firstFree > NumChannels
     THEN toAllocate' = {} /\ UNCHANGED <<firstFree, filling>>
     ELSE filling' = firstFree /\ firstFree' = firstFree + 1 /\ UNCHANGED toAllocate
  /\ UNCHANGED <<channels, secondaryVars>>

SetName ==
  /\ filling # 0 /\ channels[filling].name = NoName
  /\ \E n \in toAllocate :
       /\ channels' = [channels EXCEPT ![filling].name = n]
       /\ toAllocate' = toAllocate \ {n}
  /\ UNCHANGED <<firstFree, filling, secondaryVars>>

(* One FIFO after the other.                                               *)
InitializeFifo ==
  LET fifo == IF channels[filling].fifos = {} THEN "primary" ELSE "secondary" IN
  /\ filling # 0 /\ channels[filling].name # NoName
  /\ channels' = [channels EXCEPT ![filling].fifos = @ \cup {fifo}]
  /\ filling' = IF fifo = "primary" THEN filling ELSE 0
  /\ UNCHANGED <<firstFree, toAllocate, secondaryVars>>

(* The primary core's software keeps to the rule of the table: it starts   *)
(* the other CPU when the table is full.                                   *)
StartSecondary ==
  /\ ~started /\ toAllocate = {} /\ filling = 0 /\ started' = TRUE
  /\ UNCHANGED <<channels, firstFree, filling, toAllocate, initStage, at, logChannel>>

-----------------------------------------------------------------------------
(* The secondary CPU.                                                      *)

FindChannel(n) ==
  LET found == {i \in ChannelIndex : channels[i].name = n} IN
  IF found = {} THEN 0 ELSE Min(found)

\* Variant: the table is cleared on every CPU.
SecondaryConstruct_Clears == channels' = [i \in ChannelIndex |-> Clear]
(* The table's constructors leave its contents to the primary core.        *)
SecondaryConstruct == UNCHANGED channels

(* Core 0: __libc_init_array().  The log device's constructor runs, too.   *)
Core0Construct ==
  /\ started /\ at[0] = "reset" /\ at' = [at EXCEPT ![0] = "init"]
  /\ SecondaryConstruct
  /\ logChannel' = [c \in Core |-> 0]
  /\ UNCHANGED <<firstFree, filling, toAllocate, started, initStage>>

(* CoreInit(0), where the board support looks up the channels, then the    *)
(* word core 1 waits for.                                                  *)
Core0Init ==
  /\ at[0] = "init" /\ initStage = 0
  /\ logChannel' = [c \in Core |-> FindChannel(LogName[c])]
  /\ initStage' = 1
  /\ UNCHANGED <<channels, firstFree, filling, toAllocate, started, at>>

Core0Main ==
  /\ at[0] = "init" /\ initStage = 1 /\ at' = [at EXCEPT ![0] = "main"]
  /\ UNCHANGED <<channels, firstFree, filling, toAllocate, started, initStage, logChannel>>

(* Core 1: spins, then has nothing to initialise.                          *)
Core1Wait ==
  /\ started /\ at[1] = "reset" /\ initStage # 0 /\ at' = [at EXCEPT ![1] = "main"]
  /\ UNCHANGED <<channels, firstFree, filling, toAllocate, started, initStage, logChannel>>

(* The loops of CoreMain() never end.                                      *)
CoreMain == (\A c \in Core : at[c] = "main") /\ UNCHANGED tableVars

TableNext ==
  \/ Construct \/ AllocateChannel \/ SetName \/ InitializeFifo \/ StartSecondary
  \/ Core0Construct \/ Core0Init \/ Core0Main \/ Core1Wait \/ CoreMain

TableSpec == TableInit /\ [][TableNext]_tableVars

(* A core that runs its tasks logs into the channel of its own name and no *)
(* other, both FIFOs of which are set up; it has none only if the table was*)
(* too small for all channels.  What an earlier run left behind, and the   *)
(* constructors of either CPU, make no difference.                         *)
LogChannelsWhole ==
  \A c \in Core : at[c] = "main" =>
    IF logChannel[c] = 0
    THEN \A i \in ChannelIndex : channels[i].name \in Names \ {LogName[c]}
    ELSE channels[logChannel[c]] = Whole(LogName[c])

=============================================================================
