---------------------------- MODULE TcpConnection ----------------------------
(***************************************************************************)
(* The connection of Tcp between its application (net/http.c), the frame   *)
(* loop that ticks it (web/browser.c) and a peer on a network that loses,  *)
(* repeats and reorders. What the client ever sent stays on the wire; the  *)
(* peer may send, at any time and any number of times, whatever an honest  *)
(* peer in its state may have sent, its older acknowledgements included.   *)
(***************************************************************************)
EXTENDS Tcp, FiniteSets

CONSTANTS
    ISS, IRS,       \* the initial sequence numbers of the two sides
    Plans,          \* what the two sides do: one plan per behaviour, see Plan
    SynDataAgain    \* whether a SYN with data may be repeated once it was taken

\* Bounds on the connections opened one after the other, on the bytes the
\* application writes, on the peer's stream and one segment of it; the windows
\* the peer advertises, and whether it may reset the connection.
Plan == [connections : Nat, app : Nat, peer : Nat, seg : Nat,
         windows : SUBSET Nat, resets : BOOLEAN]

ASSUME ConnectionAssumption ==
    /\ {ISS, IRS} \subseteq 0..(SeqMod - 1)
    /\ Plans \subseteq Plan
    /\ \A p \in Plans :
        p.app + 2 < SeqMod \div 2 /\ p.peer + RCV_BUF + 2 < SeqMod \div 2
    /\ SynDataAgain \in BOOLEAN

VARIABLES
    tcp,    \* tcp.c's static variables
    wire,   \* <<sequence number, byte>> the client has sent; SYN and FIN are byte 0
    peer,   \* what of it the peer has, how much of its own stream it may send,
            \* and whether it has ever advertised a window of 0
    app,    \* bytes written and read, and whether a fetch is on: browser_tick ticks
    plan    \* the plan of this behaviour, never changed

tcpvars == <<tcp, wire, peer, app, plan>>
-----------------------------------------------------------------------------
\* The sequence number of byte n of a stream.
At(initial, n) == Plus(initial, n)
\* How many sequence numbers, the SYN's first, the peer has without a gap.
Held(p) ==
    CHOOSE n \in 0..Cardinality(p.got) :
        /\ \A i \in 0..(n - 1) : \E x \in p.got : x[1] = At(ISS, i)
        /\ ~\E x \in p.got : x[1] = At(ISS, n)
PeerAck(p) == At(ISS, Held(p))

Marks(s) ==
    IF s.flags \cap {"SYN", "FIN"} # {} THEN {<<s.seq, 0>>}
    ELSE {<<Plus(s.seq, i - 1), s.data[i]>> : i \in DOMAIN s.data}
\* How far into its stream a segment lets the peer go.
Edge(s) == s.win + (IF "ACK" \in s.flags THEN Dist(At(IRS, 1), s.ack) ELSE 0)

\* t becomes the state; what it sent goes on the wire and extends the edge.
EmitTo(p, t) ==
    LET edges == {Edge(s) : s \in {x \in t.out : "RST" \notin x.flags}} \cup {p.edge}
    IN  /\ tcp' = [t EXCEPT !.out = {}]
        /\ wire' = wire \cup UNION {Marks(s) : s \in t.out}
        /\ peer' = [p EXCEPT !.edge = CHOOSE e \in edges : \A f \in edges : f <= e]
Emit(t) == EmitTo(peer, t)
-----------------------------------------------------------------------------
Start ==
    /\ tcp.st = "CLOSED" /\ app.starts < plan.connections
    /\ LET t == tcp_connect(tcp, ISS) IN
       /\ tcp' = [t EXCEPT !.out = {}]
       /\ wire' = UNION {Marks(s) : s \in t.out}
       /\ peer' = [got |-> {}, edge |-> RCV_BUF, shut |-> FALSE]
    /\ app' = [starts |-> app.starts + 1, written |-> 0, read |-> 0, ticked |-> TRUE]

\* http_poll sends while the connection is up and the fetch is on.
Write ==
    /\ app.ticked
    /\ tcp.st \in {"ESTABLISHED", "CLOSE_WAIT"}
    /\ \E n \in 1..(plan.app - app.written) :
        LET data == [i \in 1..n |-> app.written + i] IN
        /\ Emit(tcp_send(tcp, data))
        /\ app' = [app EXCEPT !.written = @ + Taken(tcp, data)]

Read ==
    \E n \in 1..tcp_available(tcp) :
        /\ tcp' = tcp_recv(tcp, n)
        /\ app' = [app EXCEPT !.read = @ + n]
        /\ UNCHANGED <<wire, peer>>

\* http_poll closes when the fetch is complete: browser_tick returns at once
\* from then on.
Close ==
    /\ tcp.st \in {"ESTABLISHED", "CLOSE_WAIT", "SYN_SENT"}
    /\ Emit(tcp_close(tcp))
    /\ app' = [app EXCEPT !.ticked = FALSE]

\* Or it keeps the connection, and nobody ticks that either.
KeepAlive ==
    /\ tcp.st = "ESTABLISHED" /\ app.ticked
    /\ app' = [app EXCEPT !.ticked = FALSE]
    /\ UNCHANGED <<tcp, wire, peer>>

\* http_begin takes a kept connection that is quiet for the next fetch.
Reuse ==
    /\ ~app.ticked /\ tcp_can_reuse(tcp)
    /\ app' = [app EXCEPT !.ticked = TRUE]
    /\ UNCHANGED <<tcp, wire, peer>>

\* http_begin and http_poll's error paths.
Abort ==
    /\ tcp.st # "CLOSED"
    /\ Emit(tcp_abort(tcp))
    /\ UNCHANGED app

\* Anybody may call tcp_tick, at any time; browser_tick does during a fetch.
RunTimers ==
    /\ tcp.st = "TIME_WAIT" \/ tcp.armed
    /\ Emit(tcp_tick(tcp))
    /\ UNCHANGED app
-----------------------------------------------------------------------------
\* The peer receives one more sequence number of what was ever sent.
PeerTakes ==
    \E x \in wire \ peer.got :
        /\ peer' = [peer EXCEPT !.got = @ \cup {x}]
        /\ UNCHANGED <<tcp, wire, app>>

Input(s) ==
    /\ EmitTo([peer EXCEPT !.shut = @ \/ s.win = 0], tcp_input(tcp, s))
    /\ UNCHANGED app

\* The peer's stream from byte i + 1 on, with its FIN if it ends there.
PeerChunk(i, n) == [k \in 1..n |-> i + k]

PeerSynAck ==
    /\ Held(peer) > 0
    /\ \E n \in 0..plan.seg, w \in plan.windows :
        /\ n <= peer.edge /\ n <= plan.peer
        /\ n > 0 => tcp.st = "SYN_SENT" \/ SynDataAgain
        /\ Input([seq |-> IRS, flags |-> {"SYN", "ACK"}, ack |-> At(ISS, 1),
                  data |-> PeerChunk(0, n), win |-> w])

\* A byte beyond the edge is the peer's own probe of a closed window.
PeerSegment ==
    /\ Held(peer) > 0 /\ tcp.st \notin {"CLOSED", "SYN_SENT"}
    /\ \E i \in 0..plan.peer, n \in 0..plan.seg, a \in 1..Held(peer), w \in plan.windows, fin \in BOOLEAN :
        /\ i + n <= plan.peer /\ i + n <= peer.edge + 1
        /\ fin => i + n = plan.peer
        /\ Input([seq |-> At(IRS, i + 1), data |-> PeerChunk(i, n), ack |-> At(ISS, a),
                  flags |-> IF fin THEN {"FIN", "ACK"} ELSE {"ACK"}, win |-> w])

PeerReset ==
    /\ plan.resets /\ Held(peer) > 0
    /\ \E i \in 0..plan.peer, w \in plan.windows :
        Input([seq |-> At(IRS, i + 1), data |-> <<>>, ack |-> PeerAck(peer),
               flags |-> {"RST", "ACK"}, win |-> w])
-----------------------------------------------------------------------------
TcpInit ==
    /\ tcp = [st |-> "CLOSED", iss |-> 0, snd_una |-> 0, snd_nxt |-> 0, rcv_nxt |-> 0,
              snd_wnd |-> 1, cwnd |-> 1, sndbuf |-> <<>>, rcvbuf |-> <<>>, rcv_head |-> 0,
              ooo |-> <<>>, ooo_seq |-> 0, ooo_fin |-> FALSE, ooo_fin_ready |-> FALSE,
              fin_sent |-> FALSE, fin_acked |-> FALSE, fin_seen |-> FALSE,
              fin_wanted |-> FALSE, fin_seq |-> 0, fin_tries |-> 0, rexmit_tries |-> 0,
              syn_tries |-> 0, dup_ack_run |-> 0, armed |-> FALSE, out |-> {}]
    /\ wire = {} /\ peer = [got |-> {}, edge |-> 0, shut |-> FALSE]
    /\ app = [starts |-> 0, written |-> 0, read |-> 0, ticked |-> FALSE]
    /\ plan \in Plans

Step == Start \/ Write \/ Read \/ Close \/ KeepAlive \/ Reuse \/ Abort \/ RunTimers
        \/ PeerTakes \/ PeerSynAck \/ PeerSegment \/ PeerReset
TcpNext == Step /\ UNCHANGED plan
TcpSpec == TcpInit /\ [][TcpNext]_tcpvars

\* browser_tick runs the timers as long as a fetch is on, and nobody has to
\* before or after; nothing is assumed of the peer.
TickedSpec == TcpSpec /\ WF_tcpvars(RunTimers /\ app.ticked /\ UNCHANGED plan)

\* The words of tcp.h:74, which the code does not keep: somebody always ticks.
AlwaysTickedSpec == TcpSpec /\ WF_tcpvars(RunTimers /\ UNCHANGED plan)
-----------------------------------------------------------------------------
States == {"CLOSED", "SYN_SENT", "ESTABLISHED", "FIN_WAIT_1", "FIN_WAIT_2", "CLOSING",
           "TIME_WAIT", "CLOSE_WAIT", "LAST_ACK"}
Synchronized == tcp.st \notin {"CLOSED", "SYN_SENT"}

\* The buffers stay within their arrays, the tries within their limits.
TcpTypeOK ==
    /\ tcp.st \in States
    /\ {tcp.snd_una, tcp.snd_nxt, tcp.rcv_nxt} \subseteq 0..(SeqMod - 1)
    /\ Len(tcp.sndbuf) <= SND_BUF /\ Len(tcp.rcvbuf) <= RCV_BUF /\ Len(tcp.ooo) <= OOO_BUF
    /\ tcp.rcv_head \in 0..Len(tcp.rcvbuf)
    /\ tcp.rexmit_tries \in 0..DATA_TRIES
    /\ tcp.syn_tries \in 0..SYN_TRIES /\ tcp.fin_tries \in 0..SYN_TRIES

\* What was read and what waits in rcvbuf are the peer's stream from its first
\* byte without gap or repeat, rcv_nxt acknowledges exactly that, and the peer's
\* FIN is believed only after the last byte before it (the tail of an HTTP/1.0
\* page).
ReceivedIsPrefix ==
    LET n == app.read + tcp_available(tcp) IN
    /\ \A i \in (tcp.rcv_head + 1)..Len(tcp.rcvbuf) :
        tcp.rcvbuf[i] = app.read + i - tcp.rcv_head
    /\ Synchronized => tcp.rcv_nxt = At(IRS, n + (IF tcp.fin_seen THEN 2 ELSE 1))
    /\ tcp.fin_seen => n = plan.peer

\* Every byte that ever leaves, first or resent, has its own sequence number,
\* and the FIN the one after the last byte written.
SegmentsMatchStream ==
    \A x \in wire : x[1] = At(ISS, IF x[2] # 0 THEN x[2]
                                   ELSE IF x[1] = ISS THEN 0 ELSE app.written + 1)

\* A byte leaves the send buffer only once the peer has it (abort apart), and
\* what is buffered is the end of what was written.
KeptUntilReceived ==
    Synchronized =>
        /\ \A i \in DOMAIN tcp.sndbuf :
            tcp.sndbuf[i] = app.written - Len(tcp.sndbuf) + i
        /\ \A n \in 1..(app.written - Len(tcp.sndbuf)) : <<At(ISS, n), n>> \in peer.got

\* A FIN counted as acknowledged: the peer has the FIN and all that was written.
OrderlyCloseIsComplete ==
    tcp.fin_acked => Held(peer) = app.written + 2

\* The right edge once advertised is never taken back: there is room for every
\* byte the peer was allowed to send.
EdgeIsKept ==
    Synchronized =>
        peer.edge <= Dist(At(IRS, 1), tcp.rcv_nxt) + rcv_space(tcp)

\* A connection attempt ends, answered or not, while the fetch is on.
ConnectEnds == (tcp.st = "SYN_SENT" /\ app.ticked) ~> tcp.st # "SYN_SENT"

\* What a fetch has written is acknowledged to the last byte or the connection
\* is given up, unless the fetch ends first or the peer has shut its window.
RequestEnds ==
    (Synchronized /\ app.ticked /\ tcp.sndbuf # <<>>) ~>
        \/ tcp.sndbuf = <<>> \/ tcp.st = "CLOSED"
        \/ ~app.ticked \/ peer.shut

\* A fetch never waits for ever for its SYN or its own bytes to be answered,
\* though peer and network need not answer anything (tcp_tick's counted tries).
AttemptsEnd == ConnectEnds /\ RequestEnds
-----------------------------------------------------------------------------
\* tcp.c:573 "later bytes are still in flight and their cumulative ACK remains
\* valid": what the peer has received it can acknowledge.
CumulativeAckValid ==
    Synchronized /\ tcp.snd_nxt # tcp.snd_una => seq_le(PeerAck(peer), tcp.snd_nxt)

\* tcp.c:946 "Honouring a zero window is only safe if something eventually asks
\* again": bytes queued with none in flight have the timer running.
SomethingAsksAgain ==
    /\ tcp.st \in {"ESTABLISHED", "CLOSE_WAIT"}
    /\ tcp.sndbuf # <<>> /\ tcp.snd_una = tcp.snd_nxt
    => tcp.armed

\* tcp.c:1002 "give up rather than hold the slot": a close ends. Not so, as
\* nobody ticks it once the fetch is over; and CLOSING not even when ticked.
ClosesEnd ==
    tcp.st \in {"FIN_WAIT_1", "LAST_ACK"} ~> tcp.st \notin {"FIN_WAIT_1", "LAST_ACK"}
ClosingEnds == tcp.st = "CLOSING" ~> tcp.st # "CLOSING"
=============================================================================
