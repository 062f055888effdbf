------------------------------ MODULE MCDemux -------------------------------
EXTENDS DemuxSystem

Req(id, port, beats) == [id |-> id, port |-> port, beats |-> beats]

\* Port 0 is a slave that takes bursts, port 1 one that does not.
MCReadReqs  == {Req(0, 0, 2), Req(1, 1, 1)}
MCWriteReqs == {Req(0, 1, 1)}
MCRequests  == MCReadReqs \cup MCWriteReqs

\* One id that goes to both slaves, and requests with another that come between.
MCOrderRequests == {Req(0, 0, 2), Req(0, 1, 1), Req(1, 1, 1)}
=============================================================================
