-------------------------------- MODULE MCTcp --------------------------------
\* Both sides' sequence numbers start just below the wrap.
EXTENDS TcpConnection
\* A stream sent to a peer whose window opens and shuts.
Sending == [connections |-> 1, app |-> 3, peer |-> 1, seg |-> 1, windows |-> {0, 3}, resets |-> FALSE]
\* The peer's stream, on two connections, with resets.
Receiving == [connections |-> 2, app |-> 0, peer |-> 4, seg |-> 2, windows |-> {1}, resets |-> TRUE]
MCPlans == {Sending, Receiving}
\* A stream sent to a peer that only acknowledges.
RewindPlans == {[Sending EXCEPT !.peer = 0, !.windows = {3}]}
==============================================================================
