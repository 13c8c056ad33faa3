--------------------------- MODULE CommonCommands ---------------------------
(***************************************************************************)
(* The command that sets the IP address (cli/CommonCommands.cpp) and the   *)
(* configuration it changes, which tcpip/CommonTCPIP.cpp loads at start.   *)
(* An address has Octets numbers of Bits bits each; text is a sequence of  *)
(* characters.                                                             *)
(***************************************************************************)
EXTENDS Integers, Sequences, FiniteSetsExt, Functions

CONSTANTS
  Octets, Bits,  \* four of eight bits
  Word,          \* unsigned int: numbers below Word
  Texts          \* what may be typed

ASSUME AddressAssumption ==
  /\ {Octets, Bits, Word} \subseteq Nat \ {0}
  /\ \A text \in Texts : text \in Seq(STRING)

Numerals == <<"0", "1", "2", "3", "4", "5", "6", "7", "8", "9">>
Digits == Range(Numerals)
ValueOf(c) == (CHOOSE n \in DOMAIN Numerals : Numerals[n] = c) - 1
Width == Octets * Bits
Octet == 1 .. Octets

Pow2[n \in 0 .. Width] == IF n = 0 THEN 1 ELSE 2 * Pow2[n - 1]
OctetMax == Pow2[Bits] - 1
Bit(x, b) == (x \div Pow2[b]) % 2
(* The or of two octets, of their lowest bits, of one bit more.            *)
OrOfLow(x, y) ==
  LET or[b \in 0 .. Bits] ==
        IF b = 0 THEN 0
        ELSE or[b - 1] + (IF Bit(x, b - 1) = 1 \/ Bit(y, b - 1) = 1 THEN Pow2[b - 1] ELSE 0)
  IN or
Or(x, y) == OrOfLow(x, y)[Bits]

VARIABLES
  ipConfig,   \* g_ipConfig; the gateway is never changed
  meant       \* the configuration the lines typed so far stand for

ipVars == <<ipConfig, meant>>

-----------------------------------------------------------------------------
(* ParseIPAddressWithSubnet(): field 1 to Octets are the address, the last *)
(* one the length of the prefix.  The parser's state is the field it is in *)
(* and the numbers so far.                                                 *)

Start == [ok |-> TRUE, nfield |-> 1, fields |-> [i \in 1 .. Octets + 1 |-> 0]]

\* Variant: a slash is taken anywhere.
Slash_Anywhere(c, p) == c = "/"
Slash(c, p) == c = "/" /\ p.nfield = Octets

NextField(c, p) == (c = "." /\ p.nfield < Octets) \/ Slash(c, p)
Character(c, p) ==
  IF ~p.ok THEN p
  ELSE IF NextField(c, p) THEN [p EXCEPT !.nfield = @ + 1]
  ELSE IF c \in Digits
       THEN [p EXCEPT !.fields[p.nfield] = (@ * 10 + ValueOf(c)) % Word]
  ELSE [p EXCEPT !.ok = FALSE]
Scanning(text) ==
  LET after[n \in 0 .. Len(text)] ==
        IF n = 0 THEN Start ELSE Character(text[n], after[n - 1])
  IN after
Scan(text) == Scanning(text)[Len(text)]

Accepted(p) ==
  /\ p.ok /\ p.nfield = Octets + 1
  /\ \A i \in Octet : p.fields[i] <= OctetMax
  /\ p.fields[Octets + 1] \in 1 .. Width

(* All ones, shifted left, as one number and octet by octet.               *)
Mask(n) == (Pow2[Width] - 1) - (Pow2[Width - n] - 1)
OctetsOf(number) ==
  [i \in Octet |-> (number \div Pow2[Width - i * Bits]) % Pow2[Bits]]

(* Nothing changes unless the text is accepted.                            *)
SetIPAddress(text) ==
  LET p == Scan(text)
      mask == OctetsOf(Mask(p.fields[Octets + 1])) IN
  IF ~Accepted(p) THEN ipConfig
  ELSE [address   |-> [i \in Octet |-> p.fields[i]],
        netmask   |-> mask,
        broadcast |-> [i \in Octet |-> Or(p.fields[i], OctetMax - mask[i])]]

-----------------------------------------------------------------------------
(* What a line stands for: as many numbers as it takes, with the right     *)
(* marks between them.  An empty number is zero.                           *)

IsMark(c) == c \notin Digits
Marks(text, n) == Cardinality({m \in 1 .. n : IsMark(text[m])})

(* The number whose digits end at a position, and number i of the text,    *)
(* which ends where mark i follows.                                        *)
Value(text) ==
  LET value[n \in 0 .. Len(text)] ==
        IF n = 0 \/ IsMark(text[n]) THEN 0 ELSE 10 * value[n - 1] + ValueOf(text[n])
  IN value
Number(text, i) ==
  Value(text)[Max({n \in 0 .. Len(text) : Marks(text, n) = i - 1})]

Sound(text) ==
  /\ Marks(text, Len(text)) = Octets
  /\ \A n \in DOMAIN text : IsMark(text[n]) =>
       text[n] = IF Marks(text, n) < Octets THEN "." ELSE "/"
  /\ \A i \in Octet : Number(text, i) <= OctetMax
  /\ Number(text, Octets + 1) \in 1 .. Width

(* Numbers of 2^32 and more wrap, and what then is set is not judged.      *)
Representable(text) == \A n \in 0 .. Len(text) : Value(text)[n] < Word

(* The address as one number, from the octets in front; the broadcast      *)
(* address is the last one of the network.                                 *)
Joined(text) ==
  LET front[i \in 0 .. Octets] ==
        IF i = 0 THEN 0 ELSE front[i - 1] * Pow2[Bits] + Number(text, i)
  IN front
Meaning(text) ==
  LET host == Pow2[Width - Number(text, Octets + 1)]
      address == Joined(text)[Octets] IN
  [address   |-> OctetsOf(address),
   netmask   |-> OctetsOf(Pow2[Width] - host),
   broadcast |-> OctetsOf((address \div host) * host + host - 1)]

-----------------------------------------------------------------------------
(* ConfigureIP(): all zero stands for what was stored or is the default.   *)
ConfigureIP ==
  [address   |-> [i \in Octet |-> 0], netmask |-> [i \in Octet |-> 0],
   broadcast |-> [i \in Octet |-> 0]]

IpInit == ipConfig = ConfigureIP /\ meant = ipConfig

IpNext ==
  \E text \in Texts :
    /\ ipConfig' = SetIPAddress(text)
    /\ meant' = IF ~Representable(text) THEN ipConfig'
                ELSE IF Sound(text) THEN Meaning(text)
                ELSE meant

IpSpec == IpInit /\ [][IpNext]_ipVars

(* The configuration is what the user typed: a sound line sets address,    *)
(* mask and broadcast address to match each other, any other line changes  *)
(* nothing at all.                                                         *)
ConfiguredAsMeant == ipConfig = meant

=============================================================================
