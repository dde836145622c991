----------------------------- MODULE MCTCPPair -----------------------------
(***************************************************************************)
(* Instances of TCPPair for TLC.                                           *)
(***************************************************************************)
EXTENDS TCPPair

\* The client's numbers wrap around in its handshake, the server's in its data.
MCIsn == Client :> 14 @@ Server :> 13

Sends(client, server) == Client :> client @@ Server :> server
Plan(send, openers, max_lost, max_early) ==
    [send |-> send, openers |-> openers, max_lost |-> max_lost, max_early |-> max_early]

\* Either end or both open, and a segment is lost; or the client alone opens, and
\* timers expire although nothing is lost.
TroubledPlans ==
    {Plan(Sends(1, 1), Peer, 1, 0), Plan(Sends(1, 0), {Client}, 0, 3)}
TwoLossesPlans == {Plan(Sends(2, 0), {Client}, 2, 0)}
OneLossPlans == {Plan(Sends(1, 0), {Client}, 1, 0)}
NoTroublePlans == {Plan(Sends(1, 0), {Client}, 0, 0)}
=============================================================================
