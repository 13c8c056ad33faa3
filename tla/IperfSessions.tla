--------------------------- MODULE IperfSessions ---------------------------
(***************************************************************************)
(* What the benchmark server (services/Iperf3Server.{h,cpp}) promises to   *)
(* each of its clients: after an agreement on the control connection and a *)
(* request for the stream, datagrams numbered from one go to the port that *)
(* asked, and the result at the end tells how many there were.  A client is*)
(* known by its address: a request is its own as far as addresses tell.    *)
(***************************************************************************)
EXTENDS Naturals

CONSTANTS
  Session,     \* places for a client
  Client,
  Host,        \* every client's address
  SourcePort,  \* the UDP port it sends from
  Nothing,     \* no client, no port, no packet
  Word         \* numbers of datagrams count modulo Word

VARIABLES
  phase,     \* of every session: closed, control, agreed, streaming or over
  client,    \* who it is with
  port,      \* where its datagrams go
  sent,      \* datagrams so far
  in,        \* the client whose datagram is taken in a step
  out        \* the datagram or result that leaves in a step

vars == <<phase, client, port, sent, in, out>>

Quiet == [s \in Session |-> Nothing]

Datagram(to, p, n) == [kind |-> "data", ip |-> to, port |-> p, number |-> n]
Result(n) == [kind |-> "result", packets |-> n]

Init ==
  /\ phase = [s \in Session |-> "closed"]
  /\ client = [s \in Session |-> Nothing]
  /\ port = [s \in Session |-> Nothing]
  /\ sent = [s \in Session |-> 0]
  /\ in = Nothing /\ out = Quiet

Open(s, c) ==
  /\ phase[s] = "closed"
  /\ phase' = [phase EXCEPT ![s] = "control"]
  /\ client' = [client EXCEPT ![s] = c]
  /\ in' = Nothing /\ out' = Quiet /\ UNCHANGED <<port, sent>>

Agree(s) ==
  /\ phase[s] = "control"
  /\ phase' = [phase EXCEPT ![s] = "agreed"]
  /\ in' = Nothing /\ out' = Quiet /\ UNCHANGED <<client, port, sent>>

(* Client c asks.  It is the session's own, or one at the same address.    *)
Start(s, c) ==
  /\ phase[s] = "agreed" /\ Host[c] = Host[client[s]]
  /\ phase' = [phase EXCEPT ![s] = "streaming"]
  /\ port' = [port EXCEPT ![s] = SourcePort[c]]
  /\ in' = c /\ out' = Quiet /\ UNCHANGED <<client, sent>>

(* One datagram to each client of S.                                       *)
Send(S) ==
  /\ \A s \in S : phase[s] = "streaming"
  /\ sent' = [s \in Session |-> IF s \in S THEN (sent[s] + 1) % Word ELSE sent[s]]
  /\ out' = [s \in Session |-> IF s \in S THEN Datagram(Host[client[s]], port[s], sent'[s])
                                          ELSE Nothing]
  /\ in' = Nothing /\ UNCHANGED <<phase, client, port>>

(* The result may get lost.                                                *)
End(s) ==
  /\ phase[s] = "streaming"
  /\ phase' = [phase EXCEPT ![s] = "over"]
  /\ out' \in {Quiet, [Quiet EXCEPT ![s] = Result(sent[s])]}
  /\ in' = Nothing /\ UNCHANGED <<client, port, sent>>

Close(s) ==
  /\ phase[s] # "closed"
  /\ phase' = [phase EXCEPT ![s] = "closed"]
  /\ client' = [client EXCEPT ![s] = Nothing]
  /\ port' = [port EXCEPT ![s] = Nothing]
  /\ sent' = [sent EXCEPT ![s] = 0]
  /\ in' = Nothing /\ out' = Quiet

Next ==
  \/ \E s \in Session, c \in Client : Open(s, c) \/ Start(s, c)
  \/ \E s \in Session : Agree(s) \/ End(s) \/ Close(s)
  \/ \E S \in SUBSET Session : Send(S)
  \/ in' = Nothing /\ out' = Quiet /\ UNCHANGED <<phase, client, port, sent>>

Spec == Init /\ [][Next]_vars

=============================================================================
