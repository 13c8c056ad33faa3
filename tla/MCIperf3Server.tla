--------------------------- MODULE MCIperf3Server ---------------------------
(* Segments with a cookie, with blobs of a client the server can serve and *)
(* of one it cannot, and with the end of the test.  Each may come at any   *)
(* time: a lone TEST_END is also half a cookie, or half a blob.            *)
EXTENDS Iperf3Server, TLC

CONSTANTS c1, c2, c3, i1, i2, p1, p2

(* Two clients share an address, the third has the port of one of them.    *)
MCHost == (c1 :> i1) @@ (c2 :> i1) @@ (c3 :> i2)
MCSourcePort == (c1 :> p1) @@ (c2 :> p2) @@ (c3 :> p1)

MCSegments ==
  {<<"text", "text">>, <<"text", "text", "stream">>, <<"tcp", "text">>, <<"TEST_END">>}
=============================================================================
