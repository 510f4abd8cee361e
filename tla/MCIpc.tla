------------------------------- MODULE MCIpc -------------------------------
(***************************************************************************)
(* Ipc on small instances: a machine with two workers and a machine with   *)
(* one, or three machines that are all connected to each other.            *)
(***************************************************************************)
EXTENDS Ipc, TLC
CONSTANTS a, b, c, v, w, x
TwoHomes == v :> a @@ w :> a @@ x :> b
NoHomes == <<>>
TwoPeers == {{a, b}}
Triangle == {{a, b}, {b, c}, {a, c}}
\* Each kind of message, with the author excluded where that matters; one with
\* a stamp behind the clock, which is in the window until the clock moves on,
\* and one with a stamp before it, which is in the window only then.
SomeCalls == {<<"call", FALSE, TRUE, 0>>, <<"local", TRUE, TRUE, 0>>,
              <<"broadcast", FALSE, FALSE, 0>>, <<"broadcast", TRUE, FALSE, -1>>,
              <<"cluster", FALSE, FALSE, 2>>}
ClusterCalls == {<<"cluster", FALSE, TRUE, 0>>}
=============================================================================
