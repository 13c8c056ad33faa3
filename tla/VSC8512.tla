------------------------------ MODULE VSC8512 ------------------------------
(***************************************************************************)
(* The driver of the VSC8512 Ethernet PHY (drivers/VSC8512.{h,cpp}).  Its  *)
(* registers are paged, port by port, and an 8051 inside carries out       *)
(* commands that take their time.  A routine of the driver is a sequence   *)
(* of instructions that the MDIO bus carries out one by one; the MCU works *)
(* beside them.  Values matter only where the driver changes some bits of  *)
(* a byte and keeps the rest: the output tap of the SERDES.                *)
(***************************************************************************)
EXTENDS Integers, Sequences, SequencesExt

CONSTANTS
  LastPort,    \* ports are 0 .. LastPort; 12 of them in the chip
  Taps,        \* values for SetSerdes6GPostCursor0Tap()
  Configs      \* bytes a SERDES may be configured with at power-up

ASSUME PhyAssumption ==
  LastPort \in Nat /\ Taps \subseteq 0 .. 63 /\ Configs \subseteq 0 .. 255

MdioPorts == 0 .. LastPort
Pages == {"MAIN", "EXT1", "EXT2", "EXT3", "GENERAL_PURPOSE", "TEST", "TR"}

VARIABLES
  page,      \* REG_VSC8512_PAGESEL of every port
  todo,      \* instructions the present routine has left
  tap, tmp,  \* variables of SetSerdes6GPostCursor0Tap()
  busy,      \* the command register's bit 15: the MCU is at work
  command,   \* the command register, without that bit
  pointer,   \* the MCU's address for indirect access
  shadow,    \* its copy of cfg_buf[9] and cfg_buf[10]
  serdes     \* the SERDES' own

phyVars == <<page, todo, tap, tmp, busy, command, pointer, shadow, serdes>>
mcuVars == <<busy, command, pointer, shadow, serdes>>

-----------------------------------------------------------------------------
(* Instructions.                                                           *)

Select(d, p) == [op |-> "select", port |-> d, page |-> p]
(* Reads or writes a register that VSC8512.h lists under page p.           *)
Access(d, p) == [op |-> "access", port |-> d, page |-> p]
(* WaitForMCU(), and SendCommandToMCU(), which waits, too.                 *)
Wait == [op |-> "wait", port |-> 0, page |-> "GENERAL_PURPOSE"]
Send(c, a, inc) ==
  [op |-> "send", port |-> 0, page |-> "GENERAL_PURPOSE", cmd |-> c, arg |-> a, inc |-> inc]
(* MCUPeekByte() reads the reply to its command and computes with it.      *)
Reply(part) ==
  [op |-> "reply", port |-> 0, page |-> "GENERAL_PURPOSE", part |-> part]
(* A test after which the routine may give up.                             *)
Check == [op |-> "check", port |-> 0, page |-> "MAIN"]

SendCommandToMCU(c, a, inc) == <<Send(c, a, inc), Wait>>
\* Variant: the page is only selected after the wait.
PrepareForMCUAccess_WaitFirst == <<Wait, Select(0, "GENERAL_PURPOSE")>>
PrepareForMCUAccess == <<Select(0, "GENERAL_PURPOSE"), Wait>>
SetIndirectAccessPointer(a) == SendCommandToMCU("point", a, FALSE)
MCUPeekByte(part) == SendCommandToMCU("peek", part, FALSE) \o <<Reply(part)>>
MCUPokeByte(part, inc) == SendCommandToMCU("poke", part, inc)
SelectMainPage == <<Select(0, "MAIN")>>

-----------------------------------------------------------------------------
(* Routines.                                                               *)

IDCheck == <<Access(0, "MAIN"), Access(0, "MAIN"), Check>>

(* One access stands for any number of them in a row on the same page.     *)
Use(d, p) == <<Select(d, p), Access(d, p)>>

MagicInitScript ==
  Use(0, "MAIN") \o Use(0, "EXT2") \o Use(0, "TEST")
    \o Use(0, "TR") \o Use(0, "TEST") \o Use(0, "MAIN")

SelectQSGMIIToBaseTMode ==
  PrepareForMCUAccess \o SendCommandToMCU("mode", "QSGMII", FALSE)
    \o <<Access(0, "GENERAL_PURPOSE")>>

(* The last register is REG_VSC8512_LED_MODE, of extended page 1: the only *)
(* one of that page, and not written with that page selected.              *)
DefaultPortInit(d) ==
  Use(d, "EXT2") \o Use(d, "EXT3") \o Use(d, "MAIN")
    \o <<Select(d, "MAIN"), Access(d, "EXT1")>>

GetTemperature == Use(0, "GENERAL_PURPOSE") \o SelectMainPage
InitTempSensor == Use(0, "GENERAL_PURPOSE") \o GetTemperature

PortHealthCheck(d) == SelectMainPage \o <<Access(d, "MAIN"), Access(d, "MAIN"), Check>>

(* A routine of every port, one after the other.                           *)
AllPorts(routine) == FlattenSeq([i \in 1 .. LastPort + 1 |-> routine[i - 1]])

InitRoutine ==
  IDCheck \o MagicInitScript \o SelectQSGMIIToBaseTMode
    \o AllPorts([d \in MdioPorts |-> DefaultPortInit(d)])
    \o InitTempSensor
    \o AllPorts([d \in MdioPorts |-> PortHealthCheck(d)]) \o SelectMainPage

SetTapRoutine ==
  PrepareForMCUAccess \o SendCommandToMCU("read", "MCB", FALSE)
    \o SetIndirectAccessPointer("cfg9")
    \o MCUPeekByte("low") \o MCUPokeByte("low", TRUE)
    \o MCUPeekByte("high") \o MCUPokeByte("high", FALSE)
    \o SetIndirectAccessPointer("addr_vec") \o MCUPokeByte("lanes", FALSE)
    \o SendCommandToMCU("push", "MCB", FALSE) \o SelectMainPage

-----------------------------------------------------------------------------
PhyInit ==
  /\ page = [d \in MdioPorts |-> "MAIN"]
  /\ todo = <<>> /\ tap = 0 /\ tmp = 0
  /\ busy = FALSE /\ command = <<"none", 0, FALSE>>
  /\ pointer = "addr_vec" /\ shadow = [cfg9 |-> 0, cfg10 |-> 0]
  /\ serdes \in [cfg9 : Configs, cfg10 : Configs]

Call(routine) ==
  /\ todo = <<>> /\ todo' = routine /\ UNCHANGED <<page, tmp, mcuVars>>

Init == Call(InitRoutine) /\ UNCHANGED tap
ReadTemperature == Call(GetTemperature) /\ UNCHANGED tap
SetSerdes6GPostCursor0Tap(t) == Call(SetTapRoutine) /\ tap' = t

Doing(op) == todo # <<>> /\ Head(todo).op = op

SelectPage ==
  /\ Doing("select")
  /\ page' = [page EXCEPT ![Head(todo).port] = Head(todo).page]
  /\ todo' = Tail(todo) /\ UNCHANGED <<tap, tmp, mcuVars>>

AccessRegister ==
  /\ Doing("access")
  /\ todo' = Tail(todo) /\ UNCHANGED <<page, tap, tmp, mcuVars>>

CheckRegister ==
  /\ Doing("check")
  /\ todo' \in {Tail(todo), <<>>} /\ UNCHANGED <<page, tap, tmp, mcuVars>>

(* The byte the tap routine writes: its bits of the tap in place of those  *)
(* it cleared in tmp, or the mask of lanes.                                *)
Poked(part) ==
  CASE part = "low"   -> tmp + ((tap % 8) * 32)
    [] part = "high"  -> tmp + ((tap \div 8) % 8)
    [] part = "lanes" -> 14

SendCommand ==
  /\ Doing("send")
  /\ busy' = TRUE
  /\ command' = LET i == Head(todo) IN
                <<i.cmd, IF i.cmd = "poke" THEN Poked(i.arg) ELSE i.arg, i.inc>>
  /\ todo' = Tail(todo) /\ UNCHANGED <<page, tap, tmp, pointer, shadow, serdes>>

(* The loop reads the command register until the MCU is done.              *)
WaitForMCU ==
  /\ Doing("wait") /\ ~busy
  /\ todo' = Tail(todo) /\ UNCHANGED <<page, tap, tmp, mcuVars>>

(* Bits 11:4 of the command register hold the byte; the driver puts the    *)
(* register in a byte before it shifts.                                    *)
ReadReply ==
  /\ Doing("reply")
  /\ LET ret == ((command[2] * 16) % 256) \div 16 IN
     tmp' = IF Head(todo).part = "low" THEN ret % 32 ELSE ret - (ret % 8)
  /\ todo' = Tail(todo) /\ UNCHANGED <<page, tap, mcuVars>>

(* The MCU carries out a command.                                          *)
McuDone ==
  /\ busy /\ busy' = FALSE
  /\ LET cmd == command[1]
         arg == command[2] IN
     /\ pointer' = CASE cmd = "point"                        -> arg
                     [] command[3] /\ pointer = "cfg9"       -> "cfg10"
                     [] OTHER                                -> pointer
     /\ shadow' = CASE cmd = "read" -> serdes
                    [] cmd = "poke" /\ pointer # "addr_vec"  -> [shadow EXCEPT ![pointer] = arg]
                    [] OTHER                                 -> shadow
     /\ serdes' = IF cmd = "push" THEN shadow ELSE serdes
     /\ command' = IF cmd = "peek" THEN [command EXCEPT ![2] = shadow[pointer]] ELSE command
  /\ UNCHANGED <<page, todo, tap, tmp>>

PhyNext ==
  \/ Init \/ ReadTemperature \/ \E t \in Taps : SetSerdes6GPostCursor0Tap(t)
  \/ SelectPage \/ AccessRegister \/ CheckRegister
  \/ SendCommand \/ WaitForMCU \/ ReadReply \/ McuDone

PhySpec == PhyInit /\ [][PhyNext]_phyVars

-----------------------------------------------------------------------------
(* Properties.                                                             *)

OnRegister == todo # <<>> /\ Head(todo).op \notin {"select", "check"}
Selected == page[Head(todo).port]

(* Every register is read and written on the page VSC8512.h lists it under.*)
DeclaredPages == OnRegister => Selected = Head(todo).page

(* All instructions but one meet the register they mean: its page is       *)
(* selected on its port, whatever ran before and wherever it gave up, and  *)
(* a command is only given to an MCU that waits for one.  The one is the   *)
(* LED mode, which DeclaredPages shows: it always goes to the main page.   *)
UsedPage(i) == IF i.page = "EXT1" THEN "MAIN" ELSE i.page
RegistersOnPage ==
  /\ OnRegister => Selected = UsedPage(Head(todo))
  /\ Doing("send") => ~busy
  /\ todo = <<>> => \A d \in MdioPorts : page[d] = "MAIN"

(* Setting the tap changes the bits of the tap and no others.              *)
TapKeepsOtherBits ==
  [][serdes' # serdes =>
       /\ serdes'.cfg9 % 32 = serdes.cfg9 % 32
       /\ serdes'.cfg10 \div 8 = serdes.cfg10 \div 8
       /\ (serdes'.cfg9 \div 32) + ((serdes'.cfg10 % 8) * 8) = tap]_phyVars

=============================================================================
