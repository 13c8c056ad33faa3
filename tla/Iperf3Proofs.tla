---------------------------- MODULE Iperf3Proofs ----------------------------
(***************************************************************************)
(* Proof that the benchmark server keeps its promise to every client, for  *)
(* any number of clients, sockets and addresses, any contents of segments  *)
(* and any sizes of cookie, buffer and counter.                            *)
(***************************************************************************)
EXTENDS Iperf3Server, SequenceTheorems, WellFoundedInduction, TLAPS

(* A set of slots that is not empty has a first one, which Min finds.      *)
LEMMA FirstSlot ==
  ASSUME NEW S, S \subseteq Slot, S # {}
  PROVE  Min(S) \in S
<1> DEFINE Less == {p \in Nat \X Nat : p[1] < p[2]}
<1>1. IsWellFoundedOn(Less, Nat)
  BY NatLessThanWellFounded, Zenon DEF OpToRel
<1>2. S \subseteq Nat
  BY IperfAssumption DEF Slot
<1>3. PICK m \in S : \A n \in S : <<n, m>> \notin Less
  <2> HIDE DEF Less
  <2> QED
    BY <1>1, <1>2, WFMin
<1>4. ASSUME NEW n \in S PROVE m <= n
  <2>1. <<n, m>> \in Nat \X Nat
    BY <1>2
  <2>2. ~ (<<n, m>>[1] < <<n, m>>[2])
    BY <1>3, <2>1, Zenon
  <2> QED
    BY <1>2, <2>2
<1> QED
  BY <1>3, <1>4 DEF Min

-----------------------------------------------------------------------------
(* One session.                                                            *)

Session ==
  [valid : BOOLEAN, socket : Socket \cup {Nothing}, state : States,
   udp : BOOLEAN, reverse : BOOLEAN, short : BOOLEAN,
   clientPort : Port \cup {Nothing}, sequence : 0 .. Word - 1, rxBuffer : Seq(Units)]

(* A session past the exchange of parameters asked for what the server can *)
(* do.                                                                     *)
SessionOK(c) ==
  /\ c \in Session /\ Len(c.rxBuffer) <= FifoSize
  /\ c.state \in {"CREATE_STREAMS", "TEST_START", "TEST_RUNNING"} => Agreed(c)

LEMMA Numbers ==
  /\ MaxClients \in Nat \ {0} /\ CookieSize \in Nat \ {0} /\ FifoSize \in Nat \ {0}
  /\ Word \in Nat \ {0} /\ 0 \in 0 .. Word - 1
BY IperfAssumption

LEMMA ClearedOK == SessionOK(Cleared) /\ ~Cleared.valid
<1>1. <<>> \in Seq(Units) /\ Len(<<>>) = 0
  BY EmptySeq
<1> QED
  BY <1>1, Numbers DEF SessionOK, Cleared, Session, States

LEMMA DropsUnits ==
  ASSUME NEW q \in Seq(Units), NEW n \in Nat
  PROVE  Drop(n, q) \in Seq(Units) /\ Len(Drop(n, q)) <= Len(q)
<1>1. \A i \in n + 1 .. Len(q) : q[i] \in Units
  BY ElementOfSeq, LenProperties
<1> QED
  BY <1>1, LenProperties, SubSeqProperties DEF Drop

(* What is the same of two sessions that differ in state and buffer.       *)
SameClient(c, d) ==
  d.valid = c.valid /\ d.socket = c.socket /\ d.clientPort = c.clientPort
    /\ d.sequence = c.sequence
SameWishes(c, d) == d.udp = c.udp /\ d.reverse = c.reverse /\ d.short = c.short

(* How far one segment brings a session.                                   *)
Progress(c, d) ==
  \/ d.state = c.state /\ SameWishes(c, d)
  \/ c.state = "IPERF_START" /\ d.state = "PARAM_EXCHANGE"
  \/ c.state \in {"IPERF_START", "PARAM_EXCHANGE"} /\ d.state = "CREATE_STREAMS"
  \/ c.state = "TEST_RUNNING" /\ d.state = "EXCHANGE_RESULTS"

LEMMA CookieTaken ==
  ASSUME NEW c, SessionOK(c)
  PROVE  /\ SessionOK(OnRxCookie(c)) /\ SameClient(c, OnRxCookie(c))
         /\ SameWishes(c, OnRxCookie(c))
         /\ \/ OnRxCookie(c).state = c.state
            \/ c.state = "IPERF_START" /\ OnRxCookie(c).state = "PARAM_EXCHANGE"
<1> DEFINE q == Drop(CookieSize, c.rxBuffer)
           d == [c EXCEPT !.rxBuffer = q, !.state = "PARAM_EXCHANGE"]
<1>1. q \in Seq(Units) /\ Len(q) <= FifoSize
  BY DropsUnits, LenProperties, Numbers DEF SessionOK, Session
<1> HIDE DEF q
<1>2. /\ d \in Session /\ SameClient(c, d) /\ SameWishes(c, d)
      /\ d.rxBuffer = q /\ d.state = "PARAM_EXCHANGE"
  BY <1>1 DEF SessionOK, Session, States, SameClient, SameWishes
<1>3. SessionOK(d)
  BY <1>1, <1>2 DEF SessionOK
<1>4. CASE OnRxCookie(c) = c
  BY <1>4 DEF SameClient, SameWishes
<1>5. CASE OnRxCookie(c) = d /\ c.state = "IPERF_START"
  BY <1>2, <1>3, <1>5
<1> QED
  BY <1>4, <1>5 DEF OnRxCookie, q

LEMMA ParametersTaken ==
  ASSUME NEW c, SessionOK(c)
  PROVE  \/ OnRxParamExchange(c) = Cleared
         \/ OnRxParamExchange(c) = c
         \/ /\ SessionOK(OnRxParamExchange(c)) /\ SameClient(c, OnRxParamExchange(c))
            /\ c.state = "PARAM_EXCHANGE" /\ OnRxParamExchange(c).state = "CREATE_STREAMS"
<1> DEFINE blob == c.rxBuffer[1]
           q == Drop(2, c.rxBuffer)
           d == [OnJsonConfig(c, blob) EXCEPT !.rxBuffer = q, !.state = "CREATE_STREAMS"]
<1>1. q \in Seq(Units) /\ Len(q) <= FifoSize
  BY DropsUnits, LenProperties, Numbers DEF SessionOK, Session
<1>2. /\ d = [OnJsonConfig(c, blob) EXCEPT !.rxBuffer = Drop(2, @),
                                          !.state = "CREATE_STREAMS"]
  BY DEF OnJsonConfig, SessionOK, Session
<1> DEFINE u == blob # "tcp"
           v == blob # "forward"
           w == blob # "long"
<1>3. u \in BOOLEAN /\ v \in BOOLEAN /\ w \in BOOLEAN
  BY Zenon
<1> HIDE DEF q, u, v, w
<1>4. /\ d \in Session /\ SameClient(c, d)
      /\ d.rxBuffer = q /\ d.state = "CREATE_STREAMS"
  BY <1>1, <1>3 DEF OnJsonConfig, SessionOK, Session, States, SameClient, u, v, w
<1> HIDE DEF d
<1>5. Supported(d) => SessionOK(d)
  BY <1>1, <1>4 DEF SessionOK, Supported, Agreed
<1>6. \/ OnRxParamExchange(c) \in {c, Cleared}
      \/ /\ OnRxParamExchange(c) = d /\ Supported(d)
         /\ c.state = "PARAM_EXCHANGE"
  BY <1>2 DEF OnRxParamExchange, Clear
<1> QED
  BY <1>4, <1>5, <1>6

LEMMA EndTaken ==
  ASSUME NEW c, SessionOK(c), c.rxBuffer # <<>>, c.state = "TEST_RUNNING"
  PROVE  /\ SessionOK(OnRxEnd(c)) /\ SameClient(c, OnRxEnd(c))
         /\ SameWishes(c, OnRxEnd(c))
         /\ OnRxEnd(c).state \in {c.state, "EXCHANGE_RESULTS"}
<1> DEFINE q == Tail(c.rxBuffer)
           st == IF c.rxBuffer[1] = "TEST_END" THEN "EXCHANGE_RESULTS" ELSE c.state
<1>1. q \in Seq(Units) /\ Len(q) <= FifoSize
  BY HeadTailProperties, LenProperties, Numbers DEF SessionOK, Session
<1>2. st \in {c.state, "EXCHANGE_RESULTS"} /\ st \in States
  BY DEF States
<1>3. OnRxEnd(c) = [c EXCEPT !.rxBuffer = q, !.state = st]
  BY DEF OnRxEnd, SessionOK, Session
<1> HIDE DEF q, st
<1>4. /\ OnRxEnd(c) \in Session /\ SameClient(c, OnRxEnd(c)) /\ SameWishes(c, OnRxEnd(c))
      /\ OnRxEnd(c).rxBuffer = q /\ OnRxEnd(c).state = st
  BY <1>1, <1>2, <1>3 DEF SessionOK, Session, SameClient, SameWishes
<1> QED
  BY <1>1, <1>2, <1>4 DEF SessionOK, SameWishes, Agreed

(* A segment clears the session or brings it on, and changes neither its   *)
(* connection nor its counter.                                             *)
LEMMA SegmentTaken ==
  ASSUME NEW c, SessionOK(c), NEW seg \in Segments
  PROVE  \/ Received(c, seg) = Cleared
         \/ /\ SessionOK(Received(c, seg)) /\ SameClient(c, Received(c, seg))
            /\ Progress(c, Received(c, seg))
<1> DEFINE q == c.rxBuffer \o seg
           d == [c EXCEPT !.rxBuffer = q]
<1>1. CASE ~Push(c.rxBuffer, seg)
  BY <1>1 DEF Received, Clear
<1>2. CASE Push(c.rxBuffer, seg)
  <2>1. q \in Seq(Units) /\ Len(q) <= FifoSize /\ q # <<>>
    <3>1. c.rxBuffer \in Seq(Units) /\ seg \in Seq(Units) /\ Len(seg) > 0
      BY IperfAssumption DEF SessionOK, Session
    <3>2. q \in Seq(Units) /\ Len(q) = Len(c.rxBuffer) + Len(seg)
      BY <3>1, ConcatProperties
    <3>3. Len(c.rxBuffer) \in Nat /\ Len(seg) \in Nat
      BY <3>1, LenProperties
    <3>4. Len(q) <= FifoSize /\ Len(q) > 0
      BY <1>2, <3>1, <3>2, <3>3 DEF Push
    <3> HIDE DEF q
    <3> QED
      BY <3>2, <3>4, EmptySeq
  <2>2. Received(c, seg) = IF c.state = "TEST_RUNNING" THEN OnRxEnd(d)
                           ELSE OnRxParamExchange(OnRxCookie(d))
    BY <1>2 DEF Received, SessionOK, Session
  <2> HIDE DEF q
  <2>3. /\ d \in Session /\ d.rxBuffer = q /\ d.state = c.state
        /\ SameClient(c, d) /\ SameWishes(c, d)
    BY <2>1 DEF SessionOK, Session, SameClient, SameWishes
  <2>4. SessionOK(d)
    BY <2>1, <2>3 DEF SessionOK, SameWishes, Agreed
  <2> HIDE DEF d
  <2>5. CASE c.state = "TEST_RUNNING"
    <3>1. /\ SessionOK(OnRxEnd(d)) /\ SameClient(d, OnRxEnd(d)) /\ SameWishes(d, OnRxEnd(d))
          /\ OnRxEnd(d).state \in {d.state, "EXCHANGE_RESULTS"}
      BY <2>1, <2>3, <2>4, <2>5, EndTaken
    <3> QED
      BY <2>2, <2>3, <2>5, <3>1 DEF SameClient, SameWishes, Progress
  <2>6. CASE c.state # "TEST_RUNNING"
    <3> DEFINE e == OnRxCookie(d)
               f == OnRxParamExchange(e)
    <3>1. /\ SessionOK(e) /\ SameClient(d, e) /\ SameWishes(d, e)
          /\ e.state = d.state \/ (d.state = "IPERF_START" /\ e.state = "PARAM_EXCHANGE")
      BY <2>4, CookieTaken
    <3>2. \/ f = Cleared
          \/ f = e
          \/ /\ SessionOK(f) /\ SameClient(e, f)
             /\ e.state = "PARAM_EXCHANGE" /\ f.state = "CREATE_STREAMS"
      BY <3>1, ParametersTaken
    <3>3. Received(c, seg) = f
      BY <2>2, <2>6
    <3> HIDE DEF e, f
    <3> QED
      BY <2>3, <3>1, <3>2, <3>3 DEF SameClient, SameWishes, Progress
  <2> QED
    BY <2>5, <2>6
<1> QED
  BY <1>1, <1>2

-----------------------------------------------------------------------------
(* All sessions.                                                           *)

(* A session's port is that of some client at the address of its own.      *)
PortAsked(c, p) ==
  c.clientPort # Nothing =>
    c.valid /\ \E x \in Client : Host[x] = Host[p[c.socket]] /\ c.clientPort = SourcePort[x]

IperfInv ==
  /\ in \in Client \cup {Nothing}
  /\ m_state \in [Slot -> Session]
  /\ peer \in [Socket -> Client \cup {Nothing}]
  /\ \A s \in Slot : /\ SessionOK(m_state[s])
                     /\ m_state[s].valid => /\ m_state[s].socket \in Socket
                                            /\ peer[m_state[s].socket] # Nothing
                     /\ PortAsked(m_state[s], peer)
  /\ \A r, s \in Slot :
       m_state[r].valid /\ m_state[s].valid /\ m_state[r].socket = m_state[s].socket
         => r = s

(* What the sessions are to the abstract specification.                    *)
Phase == [s \in Slot |-> PhaseOf(m_state[s])]
Peer == [s \in Slot |-> IF m_state[s].valid THEN peer[m_state[s].socket] ELSE Nothing]
Ports == [s \in Slot |-> m_state[s].clientPort]
Sent == [s \in Slot |-> m_state[s].sequence]

LEMMA IperfInitInv == Init => IperfInv /\ Sessions!Init
<1> SUFFICES ASSUME Init PROVE IperfInv /\ Sessions!Init
  OBVIOUS
<1>1. IperfInv
  <2>1. Cleared.clientPort = Nothing
    BY DEF Cleared
  <2> QED
    BY <2>1, ClearedOK DEF Init, IperfInv, SessionOK, PortAsked
<1>2. /\ Phase = [s \in Slot |-> "closed"] /\ Peer = [s \in Slot |-> Nothing]
      /\ Ports = [s \in Slot |-> Nothing] /\ Sent = [s \in Slot |-> 0]
  BY DEF Init, Cleared, Phase, PhaseOf, Peer, Ports, Sent
<1> QED
  BY <1>1, <1>2 DEF Init, Quiet, Sessions!Init, Sessions!Quiet, Phase, Peer, Ports, Sent

(* A step that changes one session and no other one's connection.          *)
Others(s) ==
  \A r \in Slot \ {s} :
    m_state[r].valid => peer'[m_state[r].socket] = peer[m_state[r].socket]

LEMMA OneSessionInv ==
  ASSUME IperfInv, NEW s \in Slot, NEW d, SessionOK(d),
         m_state' = [m_state EXCEPT ![s] = d],
         peer' \in [Socket -> Client \cup {Nothing}], Others(s),
         in' \in Client \cup {Nothing}, PortAsked(d, peer'),
         d.valid => /\ d.socket \in Socket /\ peer'[d.socket] # Nothing
                    /\ \A r \in Slot \ {s} :
                         m_state[r].valid => m_state[r].socket # d.socket
  PROVE  IperfInv'
BY DEF IperfInv, SessionOK, Others, PortAsked

LEMMA OneSessionMapped ==
  ASSUME IperfInv, NEW s \in Slot, NEW d, m_state' = [m_state EXCEPT ![s] = d], Others(s)
  PROVE  /\ Phase' = [Phase EXCEPT ![s] = PhaseOf(d)]
         /\ Peer' = [Peer EXCEPT ![s] = IF d.valid THEN peer'[d.socket] ELSE Nothing]
         /\ Ports' = [Ports EXCEPT ![s] = d.clientPort]
         /\ Sent' = [Sent EXCEPT ![s] = d.sequence]
<1>1. m_state'[s] = d /\ \A r \in Slot \ {s} : m_state'[r] = m_state[r]
  BY DEF IperfInv
<1>2. \A r \in Slot : Phase'[r] = [Phase EXCEPT ![s] = PhaseOf(d)][r]
  BY <1>1 DEF Phase
<1>3. \A r \in Slot :
        Peer'[r] = [Peer EXCEPT ![s] = IF d.valid THEN peer'[d.socket] ELSE Nothing][r]
  BY <1>1 DEF Peer, Others
<1>4. \A r \in Slot : Ports'[r] = [Ports EXCEPT ![s] = d.clientPort][r]
  BY <1>1 DEF Ports
<1>5. \A r \in Slot : Sent'[r] = [Sent EXCEPT ![s] = d.sequence][r]
  BY <1>1 DEF Sent
<1> QED
  BY <1>2, <1>3, <1>4, <1>5 DEF Phase, Peer, Ports, Sent

(* A step that the abstract specification does not see.                    *)
LEMMA NothingMapped ==
  ASSUME Phase' = Phase, Peer' = Peer, Ports' = Ports, Sent' = Sent,
         in' = Nothing, out' = Quiet
  PROVE  Sessions!Next
BY DEF Sessions!Next, Sessions!Quiet, Quiet, Phase, Peer, Ports, Sent

(* A new connection takes the first free slot, or none.                    *)
LEMMA AcceptSafe ==
  ASSUME IperfInv, NEW k \in Socket, NEW x \in Client, OnConnectionAccepted(k, x)
  PROVE  IperfInv' /\ Sessions!Next
<1> DEFINE free == {s \in Slot : ~m_state[s].valid}
<1>1. /\ peer[k] = Nothing /\ peer' = [peer EXCEPT ![k] = x]
      /\ in' = Nothing /\ out' = Quiet
  BY DEF OnConnectionAccepted
<1>2. /\ peer' \in [Socket -> Client \cup {Nothing}] /\ peer'[k] = x /\ x # Nothing
      /\ \A s \in Slot : m_state[s].valid =>
           m_state[s].socket # k /\ peer'[m_state[s].socket] = peer[m_state[s].socket]
  BY <1>1, IperfAssumption DEF IperfInv
<1>3. CASE free = {}
  <2>1. m_state' = m_state
    BY <1>3 DEF OnConnectionAccepted
  <2>2. IperfInv'
    BY <1>1, <1>2, <2>1 DEF IperfInv, PortAsked
  <2>3. Phase' = Phase /\ Peer' = Peer /\ Ports' = Ports /\ Sent' = Sent
    BY <1>2, <2>1 DEF Phase, Peer, Ports, Sent
  <2> QED
    BY <1>1, <2>2, <2>3, NothingMapped
<1>4. CASE free # {}
  <2> DEFINE s == Min(free)
             d == [m_state[s] EXCEPT !.valid = TRUE, !.socket = k, !.state = "IPERF_START"]
  <2>1. s \in Slot /\ ~m_state[s].valid
    <3>1. s \in free
      BY <1>4, FirstSlot
    <3> QED
      BY <3>1
  <2>2. m_state' = [m_state EXCEPT ![s].valid = TRUE, ![s].socket = k,
                                   ![s].state = "IPERF_START"]
    BY <1>4 DEF OnConnectionAccepted
  <2> HIDE DEF s
  <2>3. m_state' = [m_state EXCEPT ![s] = d]
    BY <2>1, <2>2 DEF IperfInv
  <2>4. /\ d \in Session /\ d.valid /\ d.socket = k /\ d.state = "IPERF_START"
        /\ d.clientPort = m_state[s].clientPort /\ d.sequence = m_state[s].sequence
        /\ d.rxBuffer = m_state[s].rxBuffer
    BY <2>1 DEF IperfInv, Session, States
  <2> HIDE DEF d
  <2>5. SessionOK(d)
    BY <2>1, <2>4 DEF IperfInv, SessionOK
  <2>6. Others(s)
    BY <1>2 DEF Others
  <2>7. IperfInv'
    <3>1. PortAsked(d, peer')
      BY <2>1, <2>4 DEF IperfInv, PortAsked
    <3> QED
      BY <1>1, <1>2, <2>1, <2>3, <2>4, <2>5, <2>6, <3>1, OneSessionInv
  <2>8. PhaseOf(d) = "control" /\ Phase[s] = "closed"
    BY <2>1, <2>4 DEF PhaseOf, Phase
  <2>9. /\ Phase' = [Phase EXCEPT ![s] = "control"] /\ Peer' = [Peer EXCEPT ![s] = x]
        /\ Ports' = Ports /\ Sent' = Sent
    <3>1. /\ Phase' = [Phase EXCEPT ![s] = PhaseOf(d)]
          /\ Peer' = [Peer EXCEPT ![s] = IF d.valid THEN peer'[d.socket] ELSE Nothing]
          /\ Ports' = [Ports EXCEPT ![s] = d.clientPort]
          /\ Sent' = [Sent EXCEPT ![s] = d.sequence]
      BY <2>1, <2>3, <2>6, OneSessionMapped
    <3>2. Ports[s] = d.clientPort /\ Sent[s] = d.sequence
      BY <2>1, <2>4 DEF Ports, Sent
    <3>3. Ports = [Ports EXCEPT ![s] = Ports[s]] /\ Sent = [Sent EXCEPT ![s] = Sent[s]]
      BY DEF Ports, Sent
    <3> QED
      BY <1>2, <2>4, <2>8, <3>1, <3>2, <3>3
  <2>10. Sessions!Open(s, x)
    BY <1>1, <2>8, <2>9 DEF Sessions!Open, Sessions!Quiet, Quiet, Phase, Peer, Ports, Sent
  <2> QED
    BY <2>1, <2>7, <2>10 DEF Sessions!Next
<1> QED
  BY <1>3, <1>4

(* A session that is cleared, and its connection with it.                  *)
LEMMA ClearSafe ==
  ASSUME IperfInv, NEW s \in Slot, m_state[s].valid,
         m_state' = [m_state EXCEPT ![s] = Cleared],
         peer' = [peer EXCEPT ![m_state[s].socket] = Nothing],
         in' = Nothing, out' = Quiet
  PROVE  IperfInv' /\ Sessions!Next
<1> DEFINE d == Cleared
<1>1. SessionOK(d) /\ ~d.valid /\ d.clientPort = Nothing /\ d.sequence = 0
  BY ClearedOK DEF Cleared
<1>2. peer' \in [Socket -> Client \cup {Nothing}] /\ Others(s)
  BY DEF IperfInv, Others
<1> HIDE DEF d
<1>3. m_state' = [m_state EXCEPT ![s] = d]
  BY DEF d
<1>4. IperfInv'
  BY <1>1, <1>2, <1>3, OneSessionInv DEF PortAsked
<1>5. PhaseOf(d) = "closed" /\ Phase[s] # "closed"
  BY <1>1 DEF PhaseOf, Phase
<1>6. /\ Phase' = [Phase EXCEPT ![s] = PhaseOf(d)]
      /\ Peer' = [Peer EXCEPT ![s] = IF d.valid THEN peer'[d.socket] ELSE Nothing]
      /\ Ports' = [Ports EXCEPT ![s] = d.clientPort]
      /\ Sent' = [Sent EXCEPT ![s] = d.sequence]
  BY <1>2, <1>3, OneSessionMapped
<1>7. /\ Phase' = [Phase EXCEPT ![s] = "closed"] /\ Peer' = [Peer EXCEPT ![s] = Nothing]
      /\ Ports' = [Ports EXCEPT ![s] = Nothing] /\ Sent' = [Sent EXCEPT ![s] = 0]
  BY <1>1, <1>5, <1>6
<1>8. Sessions!Close(s)
  BY <1>5, <1>7 DEF Sessions!Close, Sessions!Quiet, Quiet, Phase, Peer, Ports, Sent
<1> QED
  BY <1>4, <1>8 DEF Sessions!Next

LEMMA CloseSafe ==
  ASSUME IperfInv, NEW k \in Socket, OnConnectionClosed(k)
  PROVE  IperfInv' /\ Sessions!Next
<1>1. /\ peer' = [peer EXCEPT ![k] = Nothing] /\ in' = Nothing /\ out' = Quiet
      /\ m_state' = [s \in Slot |-> IF s \in ConnectionIDs(k) THEN Cleared ELSE m_state[s]]
  BY DEF OnConnectionClosed, Clear
<1>2. CASE ConnectionIDs(k) = {}
  <2>1. /\ m_state' = m_state
        /\ \A s \in Slot : m_state[s].valid =>
             m_state[s].socket # k
             /\ peer'[m_state[s].socket] = peer[m_state[s].socket]
    BY <1>1, <1>2 DEF ConnectionIDs, IperfInv
  <2>2. IperfInv'
    BY <1>1, <2>1 DEF IperfInv, PortAsked
  <2>3. Phase' = Phase /\ Peer' = Peer /\ Ports' = Ports /\ Sent' = Sent
    BY <2>1 DEF Phase, Peer, Ports, Sent
  <2> QED
    BY <1>1, <2>2, <2>3, NothingMapped
<1>3. ASSUME NEW s \in ConnectionIDs(k) PROVE IperfInv' /\ Sessions!Next
  <2>1. s \in Slot /\ m_state[s].valid /\ m_state[s].socket = k
    BY <1>3 DEF ConnectionIDs
  <2>2. \A r \in Slot : r \in ConnectionIDs(k) <=> r = s
    BY <2>1 DEF ConnectionIDs, IperfInv
  <2>3. m_state' = [m_state EXCEPT ![s] = Cleared]
    BY <1>1, <2>2 DEF IperfInv
  <2> QED
    BY <1>1, <2>1, <2>3, ClearSafe
<1> QED
  BY <1>2, <1>3

(* A step that changes one session's state, but not its connection, its    *)
(* stream or its counter.                                                  *)
LEMMA SameClientMapped ==
  ASSUME IperfInv, NEW s \in Slot, NEW d, m_state[s].valid, SessionOK(d),
         SameClient(m_state[s], d), m_state' = [m_state EXCEPT ![s] = d],
         peer' = peer, in' = Nothing
  PROVE  /\ IperfInv'
         /\ Phase' = [Phase EXCEPT ![s] = PhaseOf(d)]
         /\ Peer' = Peer /\ Ports' = Ports /\ Sent' = Sent
<1>1. Others(s) /\ peer' \in [Socket -> Client \cup {Nothing}]
  BY DEF Others, IperfInv
<1>2. /\ d.valid /\ d.socket = m_state[s].socket /\ d.clientPort = m_state[s].clientPort
      /\ d.sequence = m_state[s].sequence
  BY DEF SameClient
<1>3. IperfInv'
  <2>1. /\ d.socket \in Socket /\ peer'[d.socket] # Nothing
        /\ \A r \in Slot \ {s} : m_state[r].valid => m_state[r].socket # d.socket
    BY <1>2 DEF IperfInv
  <2>2. PortAsked(d, peer')
    BY <1>2 DEF IperfInv, PortAsked
  <2> QED
    BY <1>1, <2>1, <2>2, OneSessionInv
<1>4. /\ Phase' = [Phase EXCEPT ![s] = PhaseOf(d)]
      /\ Peer' = [Peer EXCEPT ![s] = IF d.valid THEN peer'[d.socket] ELSE Nothing]
      /\ Ports' = [Ports EXCEPT ![s] = d.clientPort]
      /\ Sent' = [Sent EXCEPT ![s] = d.sequence]
  BY <1>1, OneSessionMapped
<1>5. /\ Peer[s] = IF d.valid THEN peer'[d.socket] ELSE Nothing
      /\ Ports[s] = d.clientPort /\ Sent[s] = d.sequence
  BY <1>2 DEF Peer, Ports, Sent
<1>6. /\ Peer = [Peer EXCEPT ![s] = Peer[s]] /\ Ports = [Ports EXCEPT ![s] = Ports[s]]
      /\ Sent = [Sent EXCEPT ![s] = Sent[s]]
  BY DEF Peer, Ports, Sent
<1> QED
  BY <1>3, <1>4, <1>5, <1>6

(* A segment clears the session, or takes it to the agreement or to the    *)
(* end, or makes no difference to the client.                              *)
LEMMA SegmentSafe ==
  ASSUME IperfInv, NEW k \in Socket, NEW seg \in Segments, OnRxData(k, seg)
  PROVE  IperfInv' /\ Sessions!Next
<1>0. in' = Nothing
  BY DEF OnRxData
<1>1. PICK s \in ConnectionIDs(k) :
        LET d == Received(m_state[s], seg) IN
        /\ m_state' = [m_state EXCEPT ![s] = d]
        /\ peer' = IF d.valid THEN peer ELSE [peer EXCEPT ![k] = Nothing]
        /\ \/ out' = Quiet
           \/ /\ m_state[s].state = "TEST_RUNNING" /\ d.state = "EXCHANGE_RESULTS"
              /\ out' = [Quiet EXCEPT ![s] = Result(d.sequence)]
  BY DEF OnRxData
<1> DEFINE c == m_state[s]
           d == Received(c, seg)
<1>2. s \in Slot /\ c.valid /\ c.socket = k /\ SessionOK(c)
  BY DEF ConnectionIDs, IperfInv
<1>3. d = Cleared \/ (SessionOK(d) /\ SameClient(c, d) /\ Progress(c, d))
  BY <1>2, SegmentTaken
<1>4. /\ m_state' = [m_state EXCEPT ![s] = d]
      /\ peer' = IF d.valid THEN peer ELSE [peer EXCEPT ![k] = Nothing]
      /\ \/ out' = Quiet
         \/ /\ c.state = "TEST_RUNNING" /\ d.state = "EXCHANGE_RESULTS"
            /\ out' = [Quiet EXCEPT ![s] = Result(d.sequence)]
  BY <1>1
<1> HIDE DEF c, d
<1>5. c = m_state[s]
  BY DEF c
<1>6. CASE d = Cleared
  <2>1. out' = Quiet /\ peer' = [peer EXCEPT ![k] = Nothing]
    BY <1>4, <1>6, ClearedOK DEF Cleared
  <2> QED
    BY <1>0, <1>2, <1>4, <1>5, <1>6, <2>1, ClearSafe
<1>7. CASE SessionOK(d) /\ SameClient(c, d) /\ Progress(c, d)
  <2>1. d.valid /\ d.sequence = c.sequence /\ peer' = peer
    BY <1>2, <1>4, <1>7 DEF SameClient
  <2>2. /\ IperfInv' /\ Phase' = [Phase EXCEPT ![s] = PhaseOf(d)]
        /\ Peer' = Peer /\ Ports' = Ports /\ Sent' = Sent
    BY <1>0, <1>2, <1>4, <1>5, <1>7, <2>1, SameClientMapped
  <2>3. Phase[s] = PhaseOf(c) /\ Phase = [Phase EXCEPT ![s] = Phase[s]] /\ Sent[s] = c.sequence
    BY <1>2, <1>5 DEF Phase, Sent
  <2>4. CASE PhaseOf(d) = PhaseOf(c) /\ out' = Quiet
    <3>1. Phase' = Phase
      BY <2>2, <2>3, <2>4
    <3> QED
      BY <1>0, <2>2, <2>4, <3>1, NothingMapped
  <2>5. CASE PhaseOf(c) = "control" /\ PhaseOf(d) = "agreed" /\ out' = Quiet
    <3>1. Sessions!Agree(s)
      BY <1>0, <2>2, <2>3, <2>5 DEF Sessions!Agree, Sessions!Quiet, Quiet, Phase, Peer, Ports, Sent
    <3> QED
      BY <1>2, <2>2, <3>1 DEF Sessions!Next
  <2>6. CASE /\ PhaseOf(c) = "streaming" /\ PhaseOf(d) = "over"
             /\ out' = Quiet \/ out' = [Quiet EXCEPT ![s] = Result(c.sequence)]
    <3>1. out' \in {Quiet, [Quiet EXCEPT ![s] = Result(Sent[s])]}
      BY <2>3, <2>6
    <3>2. Phase[s] = "streaming" /\ Phase' = [Phase EXCEPT ![s] = "over"]
      BY <2>2, <2>3, <2>6
    <3>3. Sessions!End(s)
      BY <1>0, <2>2, <3>1, <3>2 DEF Sessions!End, Sessions!Quiet, Quiet, Sessions!Result, Result,
                              Phase, Peer, Ports, Sent
    <3> QED
      BY <1>2, <2>2, <3>3 DEF Sessions!Next
  <2>7. SessionOK(c) /\ SessionOK(d) /\ Progress(c, d) /\ c.valid /\ d.valid
    BY <1>2, <1>7, <2>1
  <2>8. CASE d.state = c.state /\ SameWishes(c, d)
    <3>1. PhaseOf(d) = PhaseOf(c)
      BY <2>7, <2>8 DEF PhaseOf, SameWishes, Agreed
    <3>2. out' = Quiet
      BY <1>4, <2>8
    <3> QED
      BY <2>4, <3>1, <3>2
  <2>9. CASE c.state = "IPERF_START" /\ d.state = "PARAM_EXCHANGE"
    <3>1. PhaseOf(d) = PhaseOf(c)
      BY <2>7, <2>9 DEF PhaseOf
    <3> QED
      BY <1>4, <2>4, <2>9, <3>1
  <2>10. CASE c.state \in {"IPERF_START", "PARAM_EXCHANGE"} /\ d.state = "CREATE_STREAMS"
    <3>1. PhaseOf(c) = "control" /\ PhaseOf(d) = "agreed"
      BY <2>7, <2>10 DEF PhaseOf, SessionOK
    <3> QED
      BY <1>4, <2>5, <2>10, <3>1
  <2>11. CASE c.state = "TEST_RUNNING" /\ d.state = "EXCHANGE_RESULTS"
    <3>1. PhaseOf(c) = "streaming" /\ PhaseOf(d) = "over"
      BY <2>7, <2>11 DEF PhaseOf, SessionOK
    <3> QED
      BY <1>4, <2>1, <2>6, <3>1
  <2> QED
    BY <2>7, <2>8, <2>9, <2>10, <2>11 DEF Progress
<1> QED
  BY <1>3, <1>6, <1>7

(* A request starts the stream of a session that has agreed to one.        *)
LEMMA RequestSafe ==
  ASSUME IperfInv, NEW x \in Client, OnRxUdpData(x)
  PROVE  IperfInv' /\ Sessions!Next
<1> DEFINE sport == SourcePort[x]
           s == Min(Asking(Host[x]))
           c == m_state[s]
           d == [c EXCEPT !.clientPort = sport, !.state = "TEST_START"]
<1>1. s \in Asking(Host[x])
  BY FirstSlot DEF OnRxUdpData, Asking
<1>2. /\ s \in Slot /\ c.valid /\ c.state = "CREATE_STREAMS"
      /\ Host[peer[c.socket]] = Host[x]
  BY <1>1 DEF Asking, m_remoteIP
<1>3. /\ m_state' = [m_state EXCEPT ![s].clientPort = sport, ![s].state = "TEST_START"]
      /\ in' = x /\ out' = Quiet /\ peer' = peer /\ sport \in Port
  BY DEF OnRxUdpData, Port
<1> HIDE DEF s
<1>4. m_state' = [m_state EXCEPT ![s] = d]
  BY <1>2, <1>3 DEF IperfInv
<1>5. /\ d \in Session /\ d.valid /\ d.socket = c.socket /\ d.clientPort = sport
      /\ d.sequence = c.sequence /\ d.state = "TEST_START" /\ d.rxBuffer = c.rxBuffer
      /\ SameWishes(c, d)
  BY <1>2, <1>3 DEF IperfInv, Session, States, SameWishes
<1> HIDE DEF d
<1>6. SessionOK(c) /\ c.socket \in Socket /\ peer[c.socket] # Nothing
  BY <1>2 DEF IperfInv
<1>7. SessionOK(d) /\ PhaseOf(c) = "agreed" /\ PhaseOf(d) = "streaming"
  BY <1>2, <1>5, <1>6 DEF SessionOK, SameWishes, Agreed, PhaseOf
<1>8. Others(s) /\ peer' \in [Socket -> Client \cup {Nothing}]
  BY <1>3 DEF Others, IperfInv
<1>9. IperfInv'
  <2>1. /\ d.socket \in Socket /\ peer'[d.socket] # Nothing
        /\ \A r \in Slot \ {s} : m_state[r].valid => m_state[r].socket # d.socket
    BY <1>2, <1>3, <1>5, <1>6 DEF IperfInv
  <2>2. PortAsked(d, peer')
    BY <1>2, <1>3, <1>5 DEF PortAsked
  <2> QED
    BY <1>2, <1>3, <1>4, <1>7, <1>8, <2>1, <2>2, OneSessionInv
<1>10. /\ Phase' = [Phase EXCEPT ![s] = PhaseOf(d)]
       /\ Peer' = [Peer EXCEPT ![s] = IF d.valid THEN peer'[d.socket] ELSE Nothing]
       /\ Ports' = [Ports EXCEPT ![s] = d.clientPort]
       /\ Sent' = [Sent EXCEPT ![s] = d.sequence]
  BY <1>2, <1>4, <1>8, OneSessionMapped
<1>11. /\ Phase[s] = PhaseOf(c) /\ Peer[s] = peer[c.socket] /\ Sent[s] = c.sequence
       /\ Peer = [Peer EXCEPT ![s] = Peer[s]] /\ Sent = [Sent EXCEPT ![s] = Sent[s]]
  BY <1>2 DEF Phase, Peer, Sent
<1>12. /\ Phase[s] = "agreed" /\ Phase' = [Phase EXCEPT ![s] = "streaming"]
       /\ Ports' = [Ports EXCEPT ![s] = sport] /\ Peer' = Peer /\ Sent' = Sent
  BY <1>3, <1>5, <1>7, <1>10, <1>11
<1>13. Sessions!Start(s, x)
  <2>1. Host[x] = Host[Peer[s]]
    BY <1>2, <1>11
  <2> QED
    BY <1>3, <1>12, <2>1
    DEF Sessions!Start, Sessions!Quiet, Quiet, Phase, Peer, Ports, Sent
<1> QED
  BY <1>2, <1>9, <1>13 DEF Sessions!Next

(* A pass of the loop sends at most one datagram per stream.               *)
LEMMA IterationSafe ==
  ASSUME IperfInv, Iteration
  PROVE  IperfInv' /\ Sessions!Next
<1>1. PICK packets \in SUBSET Streaming :
        /\ m_state' = [s \in Slot |->
             IF s \in Streaming
             THEN [SendDataOnStream(m_state[s], s \in packets)
                     EXCEPT !.state = "TEST_RUNNING"]
             ELSE m_state[s]]
        /\ out' = [s \in Slot |-> IF s \in packets THEN Datagram(m_state'[s]) ELSE Nothing]
  BY DEF Iteration
<1>2. peer' = peer /\ in' = Nothing
  BY DEF Iteration
<1>3. /\ packets \subseteq Streaming /\ Streaming \subseteq Slot
      /\ \A s \in Streaming : /\ m_state[s].valid
                              /\ m_state[s].state \in {"TEST_START", "TEST_RUNNING"}
  BY DEF Streaming, Reached, Slot
<1>4. ASSUME NEW s \in Streaming
      PROVE  /\ SessionOK(m_state'[s]) /\ m_state'[s].valid
             /\ m_state'[s].socket = m_state[s].socket
             /\ m_state'[s].clientPort = m_state[s].clientPort
             /\ m_state'[s].sequence = IF s \in packets THEN (m_state[s].sequence + 1) % Word
                                       ELSE m_state[s].sequence
             /\ PhaseOf(m_state'[s]) = "streaming" /\ PhaseOf(m_state[s]) = "streaming"
  <2> DEFINE n == IF s \in packets THEN (m_state[s].sequence + 1) % Word
                  ELSE m_state[s].sequence
             d == [m_state[s] EXCEPT !.sequence = n, !.state = "TEST_RUNNING"]
  <2>1. s \in Slot /\ SessionOK(m_state[s]) /\ m_state[s] \in Session
    BY <1>3 DEF IperfInv
  <2>2. n \in 0 .. Word - 1
    <3>1. m_state[s].sequence \in 0 .. Word - 1
      BY <2>1 DEF Session
    <3> QED
      BY <3>1, Numbers
  <2>3. m_state'[s] = d
    <3>1. m_state'[s] = [SendDataOnStream(m_state[s], s \in packets)
                           EXCEPT !.state = "TEST_RUNNING"]
      BY <1>1, <2>1
    <3>2. CASE s \in packets
      BY <2>1, <3>1, <3>2 DEF SendDataOnStream, Session
    <3>3. CASE s \notin packets
      BY <2>1, <3>1, <3>3 DEF SendDataOnStream, Session
    <3> QED
      BY <3>2, <3>3
  <2> HIDE DEF n
  <2>4. /\ d \in Session /\ d.valid = m_state[s].valid /\ d.socket = m_state[s].socket
        /\ d.clientPort = m_state[s].clientPort /\ d.sequence = n
        /\ d.state = "TEST_RUNNING" /\ d.rxBuffer = m_state[s].rxBuffer
        /\ SameWishes(m_state[s], d)
    BY <2>1, <2>2 DEF Session, States, SameWishes
  <2> HIDE DEF d
  <2>5. /\ SessionOK(d) /\ d.valid
        /\ PhaseOf(d) = "streaming" /\ PhaseOf(m_state[s]) = "streaming"
    BY <1>3, <2>1, <2>4 DEF SessionOK, SameWishes, Agreed, PhaseOf
  <2> QED
    BY <2>3, <2>4, <2>5 DEF n
<1>5. \A s \in Slot \ Streaming : m_state'[s] = m_state[s]
  BY <1>1
<1>6. IperfInv'
  <2>1. ASSUME NEW s \in Slot
        PROVE  /\ SessionOK(m_state'[s]) /\ (m_state'[s].valid <=> m_state[s].valid)
               /\ m_state'[s].socket = m_state[s].socket
    <3>1. CASE s \in Streaming
      BY <1>3, <1>4, <3>1
    <3>2. CASE s \notin Streaming
      BY <1>5, <3>2 DEF IperfInv
    <3> QED
      BY <3>1, <3>2
  <2>2. m_state' \in [Slot -> Session]
    BY <1>1, <2>1 DEF SessionOK
  <2>3. ASSUME NEW s \in Slot PROVE PortAsked(m_state'[s], peer')
    <3>1. m_state'[s].clientPort = m_state[s].clientPort /\ PortAsked(m_state[s], peer)
      BY <1>4, <1>5 DEF IperfInv
    <3> QED
      BY <1>2, <2>1, <3>1 DEF PortAsked
  <2> QED
    BY <1>2, <2>1, <2>2, <2>3 DEF IperfInv
<1>7. /\ \A s \in Slot : Phase'[s] = Phase[s] /\ Peer'[s] = Peer[s] /\ Ports'[s] = Ports[s]
      /\ \A s \in Slot : Sent'[s] = IF s \in packets THEN (Sent[s] + 1) % Word ELSE Sent[s]
  BY <1>2, <1>3, <1>4, <1>5 DEF Phase, Peer, Ports, Sent
<1>8. /\ Phase' = Phase /\ Peer' = Peer /\ Ports' = Ports
      /\ Sent' = [s \in Slot |-> IF s \in packets THEN (Sent[s] + 1) % Word ELSE Sent[s]]
  BY <1>7 DEF Phase, Peer, Ports, Sent
<1>9. \A s \in packets : Phase[s] = "streaming"
  BY <1>3, <1>4 DEF Phase
<1>10. out' = [s \in Slot |-> IF s \in packets
                              THEN Sessions!Datagram(Host[Peer[s]], Ports[s], Sent'[s])
                              ELSE Nothing]
  <2>1. ASSUME NEW s \in packets
        PROVE  Datagram(m_state'[s]) = Sessions!Datagram(Host[Peer[s]], Ports[s], Sent'[s])
    <3>1. s \in Slot /\ s \in Streaming
      BY <1>3
    <3>2. /\ Peer[s] = peer[m_state[s].socket] /\ Ports[s] = m_state[s].clientPort
          /\ Sent'[s] = m_state'[s].sequence
      BY <1>3, <3>1 DEF Peer, Ports, Sent
    <3>3. Datagram(m_state'[s]) =
            [kind |-> "data", ip |-> Host[peer'[m_state'[s].socket]],
             port |-> m_state'[s].clientPort, number |-> m_state'[s].sequence]
      BY <1>2 DEF Datagram, m_remoteIP
    <3> QED
      BY <1>2, <1>4, <3>1, <3>2, <3>3 DEF Sessions!Datagram
  <2> QED
    BY <1>1, <2>1
<1>11. packets \subseteq Slot
  BY <1>3
<1>12. Sessions!Send(packets)
  BY <1>2, <1>8, <1>9, <1>10 DEF Sessions!Send, Phase, Peer, Ports, Sent
<1> QED
  BY <1>6, <1>11, <1>12 DEF Sessions!Next

LEMMA IperfStepSafe ==
  ASSUME IperfInv, [Next]_vars
  PROVE  IperfInv' /\ [Sessions!Next]_Sessions!vars
<1>1. CASE UNCHANGED vars
  BY <1>1 DEF vars, IperfInv, Sessions!vars
<1> QED
  BY <1>1, AcceptSafe, CloseSafe, SegmentSafe, RequestSafe, IterationSafe DEF Next

THEOREM IperfInvariance == Spec => []IperfInv
<1>1. IperfInv /\ [Next]_vars => IperfInv'
  BY IperfStepSafe
<1> QED
  BY IperfInitInv, <1>1, PTL DEF Spec

(* No buffer runs over, and a slot in use has an open connection that no   *)
(* other slot has (IperfTypeOK).                                           *)
THEOREM IperfTypeCorrect == Spec => []IperfTypeOK
<1>1. IperfInv => IperfTypeOK
  BY DEF IperfInv, IperfTypeOK, SessionOK, Session, ConnectionIDs
<1> QED
  BY IperfInvariance, <1>1, PTL

(* The server keeps its promise to each client (ImplementsSessions): only  *)
(* who agreed gets a stream, and only at a request from its address; the   *)
(* datagrams go to that address and the port of the request, are numbered  *)
(* without a gap, and the client is told the right number at the end.      *)
THEOREM IperfRefinement == Spec => ImplementsSessions
<1>1. Init => Sessions!Init
  BY IperfInitInv
<1>2. IperfInv /\ [Next]_vars => [Sessions!Next]_Sessions!vars
  BY IperfStepSafe
<1> QED
  BY IperfInvariance, <1>1, <1>2, PTL DEF Spec, ImplementsSessions, Sessions!Spec

(* A stream goes to the client that asked for it, if no other one has its  *)
(* address (StreamIsOwn).                                                  *)
THEOREM StreamsAreOwn == Spec => []StreamIsOwn
<1>1. IperfInv => StreamIsOwn
  BY DEF IperfInv, StreamIsOwn, PortAsked, Alone
<1> QED
  BY IperfInvariance, <1>1, PTL

=============================================================================
