--------------------------------- MODULE Tcp ---------------------------------
(***************************************************************************)
(* net/tcp.c: the one TCP client connection, as functions of the record t  *)
(* of its static variables. Each function is one C function; the segments  *)
(* it sends are collected in t.out. A byte is its position in its stream,  *)
(* sequence numbers are modulo SeqMod, the retransmit timer is armed or    *)
(* not (the backoff in rto is left out), and of the counters only those    *)
(* that decide something are kept. Checksums and ports select the segments *)
(* of this connection before any of this and are left out.                 *)
(***************************************************************************)
EXTENDS Integers, Sequences

CONSTANTS
    SeqMod,                     \* 2^32 in the code
    MSS, SND_BUF, RCV_BUF, OOO_BUF,
    SYN_TRIES,                  \* also bounds the tries of the FIN
    DATA_TRIES,                 \* 12: tcp_tick's limit on rexmit_tries
    CWND_MAX, DUPACK_MAX        \* 64 and 100: where the two counters stop

ASSUME TcpAssumption ==
    /\ SeqMod \in Nat /\ SeqMod % 2 = 0
    /\ {MSS, SND_BUF, RCV_BUF, OOO_BUF, SYN_TRIES, DATA_TRIES, CWND_MAX} \subseteq Nat \ {0}
    /\ DUPACK_MAX \in Nat /\ DUPACK_MAX > 3
    /\ SND_BUF + 2 < SeqMod \div 2 /\ RCV_BUF + 2 < SeqMod \div 2

Least(a, b) == IF a < b THEN a ELSE b
-----------------------------------------------------------------------------
\* Modular sequence numbers: a is before b when a - b is negative as an int.
Plus(a, n) == (a + n) % SeqMod
Dist(a, b) == (b - a) % SeqMod
seq_lt(a, b) == Dist(b, a) >= SeqMod \div 2
seq_le(a, b) == a = b \/ seq_lt(a, b)

rcv_space(t) == RCV_BUF - Len(t.rcvbuf)
tcp_available(t) == Len(t.rcvbuf) - t.rcv_head

\* Mutant of Segment: bytes that were read but not compacted count as free.
SegmentUnread(t, seqno, flags, data) ==
    [seq |-> seqno, flags |-> flags, data |-> data,
     ack |-> IF "ACK" \in flags THEN t.rcv_nxt ELSE 0, win |-> RCV_BUF - tcp_available(t)]

\* A segment carries what rcv_nxt and the free space are when it is sent.
Segment(t, seqno, flags, data) ==
    [seq |-> seqno, flags |-> flags, data |-> data,
     ack |-> IF "ACK" \in flags THEN t.rcv_nxt ELSE 0, win |-> rcv_space(t)]
send_seg(t, seqno, flags, data) ==
    [t EXCEPT !.out = @ \cup {Segment(t, seqno, flags, data)}]
SendAck(t) == send_seg(t, t.snd_nxt, {"ACK"}, <<>>)
-----------------------------------------------------------------------------
send_window(t) == Least(t.snd_wnd, t.cwnd * MSS)

\* The next total bytes of the send buffer, in segments of at most MSS.
PushData(t, inflight, total) ==
    IF total <= 0 THEN t
    ELSE [t EXCEPT
            !.out = @ \cup
                {Segment(t, Plus(t.snd_nxt, k * MSS), {"ACK", "PSH"},
                         SubSeq(t.sndbuf, inflight + k * MSS + 1,
                                inflight + Least((k + 1) * MSS, total)))
                    : k \in 0..((total - 1) \div MSS)},
            !.snd_nxt = Plus(@, total),
            !.armed = TRUE]

\* Mutant of PushFin: the FIN at once, wherever the stream is.
PushFinAtOnce(t) ==
    IF t.fin_wanted /\ ~t.fin_sent
    THEN [send_seg(t, t.snd_nxt, {"FIN", "ACK"}, <<>>) EXCEPT
            !.fin_seq = t.snd_nxt, !.snd_nxt = Plus(@, 1),
            !.fin_sent = TRUE, !.armed = TRUE]
    ELSE t

\* The FIN is sent once, when every queued byte has gone out before it.
PushFin(t) ==
    IF t.fin_wanted /\ ~t.fin_sent /\ t.snd_nxt = Plus(t.snd_una, Len(t.sndbuf))
    THEN [send_seg(t, t.snd_nxt, {"FIN", "ACK"}, <<>>) EXCEPT
            !.fin_seq = t.snd_nxt, !.snd_nxt = Plus(@, 1),
            !.fin_sent = TRUE, !.armed = TRUE]
    ELSE t

pump_send(t) ==
    IF t.st \notin {"ESTABLISHED", "CLOSE_WAIT", "FIN_WAIT_1", "LAST_ACK"} THEN t
    ELSE LET inflight == Dist(t.snd_una, t.snd_nxt)
             room == Least(Len(t.sndbuf), send_window(t)) - inflight
         IN  PushFin(PushData(t, inflight, room))

\* tcp_send takes what fits of data, and sends what the windows allow.
Taken(t, data) == Least(Len(data), SND_BUF - Len(t.sndbuf))
tcp_send(t, data) ==
    pump_send([t EXCEPT !.sndbuf = @ \o SubSeq(data, 1, Taken(t, data))])

\* tcp_recv and tcp_discard: n bytes leave; an empty buffer starts afresh.
tcp_recv(t, n) ==
    IF n = tcp_available(t) THEN [t EXCEPT !.rcvbuf = <<>>, !.rcv_head = 0]
                            ELSE [t EXCEPT !.rcv_head = @ + n]
-----------------------------------------------------------------------------
Closed(t) == [t EXCEPT !.st = "CLOSED", !.armed = FALSE]

\* What tcp_connect leaves set: rcv_nxt is 0 until the peer's SYN is known.
tcp_connect(t, iss) ==
    LET fresh == [t EXCEPT
            !.st = "SYN_SENT", !.iss = iss, !.snd_una = iss,
            !.snd_nxt = Plus(iss, 1), !.rcv_nxt = 0, !.snd_wnd = MSS, !.cwnd = 1,
            !.sndbuf = <<>>, !.rcvbuf = <<>>, !.rcv_head = 0, !.ooo = <<>>,
            !.ooo_fin = FALSE, !.ooo_fin_ready = FALSE, !.fin_sent = FALSE,
            !.fin_acked = FALSE, !.fin_seen = FALSE, !.fin_wanted = FALSE,
            !.fin_tries = 0, !.rexmit_tries = 0, !.syn_tries = 0,
            !.dup_ack_run = 0, !.armed = TRUE]
    IN  send_seg(fresh, iss, {"SYN"}, <<>>)

\* A connection in this state may serve another request to the same peer.
tcp_can_reuse(t) ==
    /\ t.st = "ESTABLISHED" /\ t.sndbuf = <<>> /\ t.snd_una = t.snd_nxt
    /\ ~t.fin_wanted /\ ~t.fin_sent /\ ~t.fin_seen

tcp_abort(t) ==
    LET told == IF t.st = "CLOSED" THEN t ELSE send_seg(t, t.snd_nxt, {"RST", "ACK"}, <<>>)
    IN  [Closed(told) EXCEPT !.sndbuf = <<>>, !.ooo = <<>>]

tcp_close(t) ==
    CASE t.st \in {"ESTABLISHED", "CLOSE_WAIT"} ->
            [pump_send([t EXCEPT
                !.fin_wanted = TRUE,
                !.st = IF @ = "ESTABLISHED" THEN "FIN_WAIT_1" ELSE "LAST_ACK"])
             EXCEPT !.armed = TRUE]
      [] t.st = "SYN_SENT" -> Closed(t)
      [] OTHER -> t
-----------------------------------------------------------------------------
\* Mutant of Replay: what the held segment repeats is not trimmed.
ReplayWhole(t) ==
    IF t.ooo = <<>> \/ seq_lt(t.rcv_nxt, t.ooo_seq) THEN t
    ELSE [t EXCEPT !.rcvbuf = @ \o t.ooo, !.rcv_nxt = Plus(@, Len(t.ooo)),
                   !.ooo = <<>>, !.ooo_fin = FALSE, !.ooo_fin_ready = @ \/ t.ooo_fin]

\* The out-of-order slot, once rcv_nxt has moved: stale, due, or still ahead.
Replay(t) ==
    LET skip == Dist(t.ooo_seq, t.rcv_nxt)
        due == SubSeq(t.ooo, skip + 1, Len(t.ooo))
    IN  IF t.ooo = <<>> \/ seq_lt(t.rcv_nxt, t.ooo_seq) THEN t
        ELSE IF skip >= Len(t.ooo) THEN [t EXCEPT !.ooo = <<>>]
        ELSE IF Len(due) > rcv_space(t) THEN t
        ELSE [t EXCEPT !.rcvbuf = @ \o due, !.rcv_nxt = Plus(@, Len(due)),
                       !.ooo = <<>>, !.ooo_fin = FALSE,
                       !.ooo_fin_ready = @ \/ t.ooo_fin]


\* A segment is taken whole or refused.
Delivers(t, data) == Len(data) <= rcv_space(t)
deliver(t, data) ==
    IF Delivers(t, data)
    THEN Replay([t EXCEPT !.rcvbuf = @ \o data, !.rcv_nxt = Plus(@, Len(data))])
    ELSE t

\* Whether a FIN on segment s of length n would be in sequence (take_data's result).
InSequence(t, s) ==
    IF s.data = <<>> THEN s.seq = t.rcv_nxt
    ELSE IF seq_lt(s.seq, t.rcv_nxt) THEN Dist(s.seq, t.rcv_nxt) <= Len(s.data)
    ELSE s.seq = t.rcv_nxt /\ Delivers(t, s.data)

\* A segment past a hole is held if it starts in the window and the slot is free.
Hold(t, s) ==
    IF /\ seq_lt(s.seq, Plus(t.rcv_nxt, rcv_space(t)))
       /\ t.ooo = <<>> /\ Len(s.data) <= OOO_BUF
    THEN [t EXCEPT !.ooo = s.data, !.ooo_seq = s.seq, !.ooo_fin = "FIN" \in s.flags]
    ELSE t

take_data(t, s) ==
    LET back == Dist(s.seq, t.rcv_nxt)
        taken == IF seq_lt(s.seq, t.rcv_nxt)
                 THEN IF back >= Len(s.data) THEN t
                      ELSE deliver(t, SubSeq(s.data, back + 1, Len(s.data)))
                 ELSE IF s.seq = t.rcv_nxt THEN deliver(t, s.data)
                 ELSE Hold(t, s)
    IN  IF s.data = <<>> THEN t ELSE SendAck(taken)


\* take_fin: t has s's data already; before is t as s found it.
TakesFin(before, t, s) ==
    /\ "FIN" \in s.flags /\ InSequence(before, s) /\ ~t.fin_seen
    /\ seq_le(Plus(s.seq, Len(s.data)), t.rcv_nxt)
take_fin(before, t, s) ==
    IF TakesFin(before, t, s)
    THEN SendAck([t EXCEPT !.fin_seen = TRUE, !.rcv_nxt = Plus(@, 1)])
    ELSE IF "FIN" \in s.flags /\ InSequence(before, s) /\ t.fin_seen THEN SendAck(t)
    ELSE t
-----------------------------------------------------------------------------
\* An ACK that repeats snd_una: the third in a row resends the first segment.
duplicate_ack(t, candidate) ==
    LET run == IF candidate THEN Least(t.dup_ack_run + 1, DUPACK_MAX) ELSE 0
        sent == Dist(t.snd_una, t.snd_nxt) - (IF t.fin_sent THEN 1 ELSE 0)
        n == Least(Least(sent, Len(t.sndbuf)), MSS)
        counted == [t EXCEPT !.dup_ack_run = run]
    IN  IF run = 3 /\ n > 0
        THEN [send_seg(counted, t.snd_una, {"ACK", "PSH"}, SubSeq(t.sndbuf, 1, n)) EXCEPT
                !.rexmit_tries = Least(@ + 1, DATA_TRIES), !.cwnd = 1, !.armed = TRUE]
        ELSE counted

\* Mutant of FinCovered: off by one.
FinReached(t, ack) == t.fin_sent /\ seq_le(t.fin_seq, ack)

FinCovered(t, ack) == t.fin_sent /\ seq_lt(t.fin_seq, ack)

\* An ACK that moves snd_una: a FIN it covers is no byte of the send buffer.
new_ack(t, ack) ==
    LET fin == FinCovered(t, ack)
        acked == Dist(t.snd_una, ack) - (IF fin THEN 1 ELSE 0)
    IN  pump_send([t EXCEPT
            !.dup_ack_run = 0, !.fin_acked = @ \/ fin,
            !.sndbuf = SubSeq(@, acked + 1, Len(@)), !.snd_una = ack,
            !.cwnd = Least(@ + 1, CWND_MAX), !.armed = ack # t.snd_nxt])

\* Mutant of on_ack: an ACK from before snd_una counts as a new one.
StaleAckCounts(t, ack, candidate) ==
    IF ack = t.snd_una THEN duplicate_ack(t, candidate)
    ELSE IF seq_lt(t.snd_nxt, ack) THEN t ELSE new_ack(t, ack)

\* An ACK above snd_nxt acknowledges what was never sent and is ignored.
on_ack(t, ack, candidate) ==
    IF seq_le(ack, t.snd_una)
    THEN IF ack = t.snd_una /\ t.snd_nxt # t.snd_una THEN duplicate_ack(t, candidate) ELSE t
    ELSE IF seq_lt(t.snd_nxt, ack) THEN t
    ELSE new_ack(t, ack)
-----------------------------------------------------------------------------
st_syn_sent(t, s) ==
    LET ours == "ACK" \in s.flags /\ s.ack = Plus(t.iss, 1)
        up == SendAck([t EXCEPT !.rcv_nxt = Plus(s.seq, 1), !.snd_una = s.ack,
                            !.st = "ESTABLISHED", !.armed = FALSE])
    IN  IF "RST" \in s.flags THEN (IF ours THEN Closed(t) ELSE t)
        ELSE IF {"SYN", "ACK"} \ s.flags # {} THEN t
        ELSE IF ~ours THEN send_seg(t, s.ack, {"RST"}, <<>>)
        ELSE pump_send(IF s.data = <<>> THEN up ELSE SendAck(deliver(up, s.data)))

\* The three states in which the peer may still send data, up to its FIN.
st_open(t, s, candidate) ==
    LET acked == on_ack(t, s.ack, candidate)
        data == take_data(acked, s)
        fin == TakesFin(acked, data, s)
        after == take_fin(acked, data, s)
        late == after.ooo_fin_ready /\ t.st = "ESTABLISHED"
        \* Only st_established looks at a FIN that came out of the slot.
        next == CASE t.st = "ESTABLISHED" /\ (fin \/ late) -> "CLOSE_WAIT"
                  [] t.st = "FIN_WAIT_1" /\ fin /\ ~after.fin_acked -> "CLOSING"
                  [] t.st = "FIN_WAIT_1" /\ fin /\ after.fin_acked -> "TIME_WAIT"
                  [] t.st = "FIN_WAIT_1" /\ ~fin /\ after.fin_acked -> "FIN_WAIT_2"
                  [] t.st = "FIN_WAIT_2" /\ fin -> "TIME_WAIT"
                  [] OTHER -> t.st
    IN  IF ~fin /\ late
        THEN SendAck([after EXCEPT !.ooo_fin_ready = FALSE, !.fin_seen = TRUE,
                               !.rcv_nxt = Plus(@, 1), !.st = next])
        ELSE [after EXCEPT !.st = next]

\* The states after the peer's FIN: CLOSING, LAST_ACK, CLOSE_WAIT, TIME_WAIT.
st_peer_done(t, s, candidate) ==
    LET acked == IF "ACK" \in s.flags THEN on_ack(t, s.ack, candidate) ELSE t
        again == take_data(acked, s)
        isfin == "FIN" \in s.flags
    IN  CASE t.st = "CLOSING" ->
                IF acked.fin_acked THEN [acked EXCEPT !.st = "TIME_WAIT"] ELSE acked
          [] t.st = "LAST_ACK" -> IF acked.fin_acked THEN Closed(acked) ELSE acked
          [] t.st = "CLOSE_WAIT" -> IF isfin THEN SendAck(again) ELSE again
          [] t.st = "TIME_WAIT" ->
                IF isfin /\ Plus(s.seq, 1) = t.rcv_nxt THEN SendAck(t) ELSE t

\* A RST counts only within the receive window, but for SYN_SENT's own test.
ResetFits(t, s) ==
    Dist(t.rcv_nxt, s.seq) < (IF rcv_space(t) = 0 THEN 1 ELSE rcv_space(t))

tcp_input(t, s) ==
    LET acks == "ACK" \in s.flags
        candidate == s.flags = {"ACK"} /\ s.data = <<>> /\ s.win = t.snd_wnd
        u == IF acks THEN [t EXCEPT !.snd_wnd = s.win] ELSE t
    IN  CASE t.st = "CLOSED" -> t
          [] t.st = "SYN_SENT" -> st_syn_sent(u, s)
          [] t.st \notin {"CLOSED", "SYN_SENT"} /\ "RST" \in s.flags ->
                IF ResetFits(u, s) THEN Closed(u) ELSE u
          [] t.st \in {"ESTABLISHED", "FIN_WAIT_1", "FIN_WAIT_2"} /\ "RST" \notin s.flags ->
                IF acks THEN st_open(u, s, candidate) ELSE u
          [] OTHER -> st_peer_done(u, s, candidate)
-----------------------------------------------------------------------------
\* Mutant of ResendData: the try is not counted.
ResendUncounted(t, n) ==
    [send_seg(t, t.snd_una, {"ACK", "PSH"}, SubSeq(t.sndbuf, 1, n)) EXCEPT
        !.snd_nxt = Plus(t.snd_una, n), !.fin_sent = FALSE, !.cwnd = 1]

\* tcp_tick with its deadline passed. Going back to snd_una takes the FIN back.
ResendData(t, n) ==
    [send_seg(t, t.snd_una, {"ACK", "PSH"}, SubSeq(t.sndbuf, 1, n)) EXCEPT
        !.rexmit_tries = @ + 1, !.snd_nxt = Plus(t.snd_una, n),
        !.fin_sent = FALSE, !.cwnd = 1]
GiveUpData(t) ==
    [Closed(send_seg(t, t.snd_nxt, {"RST", "ACK"}, <<>>)) EXCEPT !.sndbuf = <<>>, !.ooo = <<>>]
TickSyn(t) ==
    IF t.syn_tries + 1 >= SYN_TRIES THEN Closed(t)
    ELSE [send_seg(t, t.iss, {"SYN"}, <<>>) EXCEPT !.syn_tries = @ + 1]
TickFin(t) ==
    IF t.fin_tries + 1 > SYN_TRIES THEN Closed(t)
    ELSE [send_seg(t, t.fin_seq, {"FIN", "ACK"}, <<>>) EXCEPT !.fin_tries = @ + 1]

tcp_tick(t) ==
    LET sent == Dist(t.snd_una, t.snd_nxt) - (IF t.fin_sent THEN 1 ELSE 0)
        outstanding == Least(sent, Len(t.sndbuf))
        probe == t.snd_wnd = 0 /\ t.sndbuf # <<>> /\ t.snd_una = t.snd_nxt
    IN  CASE t.st = "TIME_WAIT" -> Closed(t)
          [] t.st = "SYN_SENT" -> TickSyn(t)
          [] t.st \notin {"TIME_WAIT", "SYN_SENT"} ->
                IF probe THEN send_seg(t, t.snd_una, {"ACK"}, SubSeq(t.sndbuf, 1, 1))
                ELSE IF outstanding > 0
                THEN IF t.rexmit_tries >= DATA_TRIES THEN GiveUpData(t)
                     ELSE ResendData(t, Least(outstanding, MSS))
                ELSE IF t.fin_sent /\ ~t.fin_acked
                        /\ t.st \in {"FIN_WAIT_1", "LAST_ACK", "CLOSING"}
                THEN TickFin(t)
                ELSE [t EXCEPT !.armed = FALSE]
=============================================================================
