---------------------------- MODULE Iperf3Server ----------------------------
(***************************************************************************)
(* The benchmark server (services/Iperf3Server.{h,cpp}): a control channel *)
(* per client over TCP, one stream of UDP datagrams to it, and a task that *)
(* sends them from the main loop.  Everything runs in that one loop, so a  *)
(* handler is one step; the order in which the network, the clients and    *)
(* the loop make the calls is free.  The TCP/IP stack is external.         *)
(*                                                                         *)
(* Bytes of the control channel come as units: the cookie is CookieSize of *)
(* them, and a parameter blob two, its length with the client's wishes and *)
(* the text.  Text where a length should be announces more than the buffer *)
(* ever holds.                                                             *)
(***************************************************************************)
EXTENDS Naturals, Sequences, FiniteSetsExt, Functions

CONSTANTS
  MaxClients,  \* MAX_IPERF_CLIENTS
  Socket,      \* entries of the TCP stack's socket table
  Client,      \* runs of iperf3 in client mode
  Host,        \* every client's address
  SourcePort,  \* the UDP port it sends from
  Nothing,     \* no client, no port, no socket
  Segments,    \* contents of TCP segments: sequences of units
  CookieSize,  \* IPERF_COOKIE_SIZE in units
  FifoSize,    \* m_rxBuffer in units
  Word         \* m_sequence is a number below Word: 2^32 in the code

Port == {SourcePort[c] : c \in Client}

(* A blob's length unit also tells what the text asks for.  "unbraced": the*)
(* text does not begin with an opening brace.                              *)
Blobs == {"stream", "tcp", "forward", "long", "unbraced"}
Units == Blobs \cup {"text", "TEST_END"}

ASSUME IperfAssumption ==
  /\ {MaxClients, CookieSize, FifoSize, Word} \subseteq Nat \ {0}
  /\ \A seg \in Segments : seg \in Seq(Units) /\ Len(seg) > 0
  /\ Nothing \notin Socket \cup Client
  /\ \A c \in Client : SourcePort[c] # Nothing

Slot == 1 .. MaxClients
States == {"IPERF_START", "PARAM_EXCHANGE", "CREATE_STREAMS", "TEST_START",
           "TEST_RUNNING", "EXCHANGE_RESULTS"}

VARIABLES
  m_state,   \* the table of sessions
  peer,      \* the stack's sockets: the client at the other end, or Nothing
  in,        \* the client whose datagram the last step took
  out        \* what left for each session in the last step

vars == <<m_state, peer, in, out>>

Quiet == [s \in Slot |-> Nothing]

-----------------------------------------------------------------------------
(* IperfConnectionState::Clear().                                          *)
Cleared ==
  [valid |-> FALSE, socket |-> Nothing, state |-> "IPERF_START",
   udp |-> FALSE, reverse |-> FALSE, short |-> TRUE, clientPort |-> Nothing,
   sequence |-> 0, rxBuffer |-> <<>>]
Clear(c) == Cleared

Init ==
  /\ m_state = [s \in Slot |-> Cleared]
  /\ peer = [k \in Socket |-> Nothing]
  /\ in = Nothing /\ out = Quiet

(* GetConnectionID(): the slots of a socket, none or one.                  *)
ConnectionIDs(k) == {s \in Slot : m_state[s].valid /\ m_state[s].socket = k}

(* The stack takes a connection; AllocateConnectionID() gives it the first *)
(* free slot, or none, and then the server never answers it.               *)
OnConnectionAccepted(k, c) ==
  LET free == {s \in Slot : ~m_state[s].valid} IN
  /\ peer[k] = Nothing
  /\ peer' = [peer EXCEPT ![k] = c]
  /\ m_state' = IF free = {} THEN m_state
                ELSE [m_state EXCEPT ![Min(free)].valid = TRUE,
                                     ![Min(free)].socket = k,
                                     ![Min(free)].state = "IPERF_START"]
  /\ in' = Nothing /\ out' = Quiet

OnConnectionClosed(k) ==
  /\ peer[k] # Nothing
  /\ peer' = [peer EXCEPT ![k] = Nothing]
  /\ m_state' = [s \in Slot |-> IF s \in ConnectionIDs(k) THEN Clear(m_state[s])
                                                          ELSE m_state[s]]
  /\ in' = Nothing /\ out' = Quiet

-----------------------------------------------------------------------------
(* The control channel.  Each handler takes a session and returns it; a    *)
(* dropped one is cleared.  SendState() changes nothing here.              *)

Drop(n, q) == SubSeq(q, n + 1, Len(q))

\* Variant: nobody looks whether there is room.
Push_Unchecked(q, seg) == TRUE
(* CircularFIFO::Push() has room for the segment.                          *)
Push(q, seg) == Len(q) + Len(seg) <= FifoSize

OnRxCookie(c) ==
  IF c.state # "IPERF_START" \/ Len(c.rxBuffer) < CookieSize THEN c
  ELSE [c EXCEPT !.rxBuffer = Drop(CookieSize, @), !.state = "PARAM_EXCHANGE"]

(* The length is there and so is all it announces.                         *)
BlobComplete(q) == Len(q) >= 2 /\ q[1] \in Blobs

(* OnJsonConfigField() for all fields; absent ones keep Clear()'s values.  *)
OnJsonConfig(c, blob) ==
  [c EXCEPT !.udp = blob # "tcp", !.reverse = blob # "forward",
            !.short = blob # "long"]

(* The checks after the parameters are taken.                              *)
Supported(c) == c.udp /\ c.reverse /\ c.short

OnRxParamExchange(c) ==
  LET q == c.rxBuffer IN
  CASE c.state # "PARAM_EXCHANGE" \/ ~BlobComplete(q) -> c
    [] OTHER ->
       LET d == [OnJsonConfig(c, q[1]) EXCEPT !.rxBuffer = Drop(2, @),
                                              !.state = "CREATE_STREAMS"] IN
       IF q[1] = "unbraced" THEN c
       ELSE IF q[2] = "text" /\ Supported(d) THEN d ELSE Clear(c)

(* One unit per segment, whatever else is in the buffer.                   *)
OnRxEnd(c) ==
  [c EXCEPT !.rxBuffer = Tail(@),
            !.state = IF c.rxBuffer[1] = "TEST_END" THEN "EXCHANGE_RESULTS" ELSE @]

(* OnRxData() for a session.  Its loop goes on from the cookie to the blob;*)
(* in all other states but TEST_RUNNING the segment only stays buffered.   *)
Received(c, seg) ==
  LET d == [c EXCEPT !.rxBuffer = @ \o seg] IN
  IF ~Push(c.rxBuffer, seg) THEN Clear(c)
  ELSE IF c.state = "TEST_RUNNING" THEN OnRxEnd(d)
  ELSE OnRxParamExchange(OnRxCookie(d))

Result(n) == [kind |-> "result", packets |-> n]

(* The result leaves with OnRxEnd() if the stack has a segment for it.     *)
OnRxData(k, seg) ==
  /\ peer[k] # Nothing /\ in' = Nothing
  /\ \E s \in ConnectionIDs(k) :
       LET c == Received(m_state[s], seg) IN
       /\ m_state' = [m_state EXCEPT ![s] = c]
       /\ peer' = IF c.valid THEN peer ELSE [peer EXCEPT ![k] = Nothing]
       /\ \/ out' = Quiet
          \/ /\ m_state[s].state = "TEST_RUNNING" /\ c.state = "EXCHANGE_RESULTS"
             /\ out' = [Quiet EXCEPT ![s] = Result(c.sequence)]

-----------------------------------------------------------------------------
(* The stream.                                                             *)

m_remoteIP(c) == Host[peer[c.socket]]

\* Variant: the address is not looked at.
Asking_AnyAddress(srcip) ==
  {s \in Slot : m_state[s].valid /\ m_state[s].state = "CREATE_STREAMS"}
(* Sessions a datagram from srcip may be meant for: the address is all the *)
(* server goes by.                                                         *)
Asking(srcip) ==
  {s \in Slot : /\ m_state[s].valid /\ m_state[s].state = "CREATE_STREAMS"
                /\ m_remoteIP(m_state[s]) = srcip}

(* A datagram of client c, connected or not, is a request for the stream of*)
(* the first of them, if there is a packet for the answer.                 *)
OnRxUdpData(c) ==
  LET asking == Asking(Host[c]) IN
  /\ asking # {}
  /\ m_state' = [m_state EXCEPT ![Min(asking)].clientPort = SourcePort[c],
                                ![Min(asking)].state = "TEST_START"]
  /\ in' = c /\ out' = Quiet /\ UNCHANGED peer

Datagram(c) ==
  [kind |-> "data", ip |-> m_remoteIP(c), port |-> c.clientPort,
   number |-> c.sequence]

(* With a packet from the stack; without one the session waits for the next*)
(* pass.                                                                   *)
SendDataOnStream(c, packet) ==
  IF packet THEN [c EXCEPT !.sequence = (@ + 1) % Word] ELSE c

\* Variant: a session that has no stream ends the pass, too.
Reached_Streaming(s) ==
  \A r \in 1 .. s :
    m_state[r].valid /\ m_state[r].state \in {"TEST_START", "TEST_RUNNING"}
(* A pass ends at the first slot that is not in use.                       *)
Reached(s) == \A r \in 1 .. s : m_state[r].valid

(* The sessions a pass sends a datagram for.                               *)
Streaming == {s \in Slot : /\ Reached(s)
                           /\ m_state[s].state \in {"TEST_START", "TEST_RUNNING"}}

Iteration ==
  /\ Streaming # {}
  /\ \E packets \in SUBSET Streaming :
       /\ m_state' = [s \in Slot |->
            IF s \in Streaming
            THEN [SendDataOnStream(m_state[s], s \in packets)
                    EXCEPT !.state = "TEST_RUNNING"]
            ELSE m_state[s]]
       /\ out' = [s \in Slot |-> IF s \in packets THEN Datagram(m_state'[s])
                                                  ELSE Nothing]
  /\ in' = Nothing /\ UNCHANGED peer

Next ==
  \/ \E k \in Socket, c \in Client : OnConnectionAccepted(k, c)
  \/ \E k \in Socket : OnConnectionClosed(k)
  \/ \E k \in Socket, seg \in Segments : OnRxData(k, seg)
  \/ \E c \in Client : OnRxUdpData(c)
  \/ Iteration

Spec == Init /\ [][Next]_vars

(* The main loop calls the task on every pass.                             *)
FairSpec == Spec /\ WF_vars(Iteration)

-----------------------------------------------------------------------------
(* Properties.                                                             *)

(* Types.  The receive buffer never runs over, and a slot in use belongs to*)
(* a connection that is open and to no other slot.                         *)
IperfTypeOK ==
  /\ m_state \in [Slot -> [valid : BOOLEAN, socket : Socket \cup {Nothing},
                           state : States, udp : BOOLEAN, reverse : BOOLEAN,
                           short : BOOLEAN,
                           clientPort : Port \cup {Nothing},
                           sequence : 0 .. Word - 1, rxBuffer : Seq(Units)]]
  /\ peer \in [Socket -> Client \cup {Nothing}] /\ in \in Client \cup {Nothing}
  /\ \A s \in Slot : Len(m_state[s].rxBuffer) <= FifoSize
  /\ \A s \in Slot : m_state[s].valid =>
       /\ m_state[s].socket \in Socket
       /\ peer[m_state[s].socket] # Nothing
       /\ ConnectionIDs(m_state[s].socket) = {s}

(* Every slot serves one client after the other as the sessions promise: a *)
(* stream is only set up for a client that asked for what the server can   *)
(* do, UDP from server to client in datagrams that need no fragments, and  *)
(* only by a datagram from its address; datagrams go to that address and   *)
(* the port of that request, are numbered from one without a gap, and the  *)
(* result is their number.  Clients that share an address are not told     *)
(* apart, so there the request may be another's (StreamIsOwn).             *)
Agreed(c) == c.udp /\ c.reverse /\ c.short
PhaseOf(c) ==
  CASE ~c.valid                                           -> "closed"
    [] c.valid /\ c.state \in {"IPERF_START", "PARAM_EXCHANGE"} -> "control"
    [] c.valid /\ c.state = "CREATE_STREAMS" /\ Agreed(c) -> "agreed"
    [] c.valid /\ c.state \in {"TEST_START", "TEST_RUNNING"} /\ Agreed(c) -> "streaming"
    [] c.valid /\ c.state = "EXCHANGE_RESULTS"            -> "over"
    [] OTHER                                              -> "not agreed"
Sessions == INSTANCE IperfSessions WITH
  Session <- Slot,
  phase <- [s \in Slot |-> PhaseOf(m_state[s])],
  client <- [s \in Slot |-> IF m_state[s].valid THEN peer[m_state[s].socket]
                                                ELSE Nothing],
  port <- [s \in Slot |-> m_state[s].clientPort],
  sent <- [s \in Slot |-> m_state[s].sequence]
ImplementsSessions == Sessions!Spec

(* A client that is alone at its address gets the stream at its own port,  *)
(* whoever else sends datagrams, and whenever.                             *)
Alone(c) == \A d \in Client : Host[d] = Host[c] => d = c
StreamIsOwn ==
  \A s \in Slot :
    LET c == m_state[s] IN
    c.valid /\ c.clientPort # Nothing /\ Alone(peer[c.socket])
      => c.clientPort = SourcePort[peer[c.socket]]

(* A stream that was asked for starts unless a slot before it comes free:  *)
(* the other sessions, whatever they wait for, do not hold it up.          *)
StreamStarts ==
  \A s \in Slot :
    m_state[s].state = "TEST_START" ~>
      m_state[s].state # "TEST_START" \/ \E r \in 1 .. s : ~m_state[r].valid

=============================================================================
