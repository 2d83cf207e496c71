------------------------------- MODULE NetProofs -------------------------------
(***************************************************************************)
(* The network, for any peers and any network. First the address settings  *)
(* and the resolver of NetConfig: what a lease promises holds, and no page *)
(* gets an address that its name does not have, or has had for longer than *)
(* it said. Then the connection of TcpConnection: both streams arrive      *)
(* whole, nothing is dropped before the peer has it, and no window is ever *)
(* taken back.                                                             *)
(***************************************************************************)
EXTENDS NetConfig, TcpConnection, SequenceTheorems, FiniteSetTheorems, WellFoundedInduction, TLAPS

-----------------------------------------------------------------------------
(* Leases and lookups.                                                      *)

\* The two records keep the fields that the steps below change one at a time.
DhcpFields == {"state", "retry", "deadline", "offered", "server", "opts"}
Shape ==
    /\ DOMAIN dhcp = DhcpFields
    /\ DOMAIN dns = {"state", "server", "answer", "asking", "deadline"}
\* What DHCP has when it asks for an address is what an offer of the chosen server said.
FromOffer(d) == \E o \in offers : o.src = d.server /\ d.opts = Options(o, Nothing)
Chosen == dhcp.state = "REQUESTING" => FromOffer(dhcp)
IInv == Shape /\ Chosen /\ BoundMeansWired

LEMMA InitHolds == Init => IInv
BY DEF Init, IInv, Shape, DhcpFields, Chosen, BoundMeansWired

\* A message sent leaves DHCP as it is given, with a new deadline, or failed when the driver refuses it.
LEMMA SendingDoesNotBind ==
    ASSUME NEW d, DOMAIN d = DhcpFields, Shape, send_message(d)
    PROVE  /\ DOMAIN dhcp' = DhcpFields
           /\ \/ dhcp'.state = "FAILED"
              \/ dhcp'.state = d.state /\ dhcp'.server = d.server /\ dhcp'.opts = d.opts
<1>1. PICK goes \in BOOLEAN :
        dhcp' = IF goes THEN [d EXCEPT !.deadline = In(1)] ELSE Ended("FAILED")
    BY DEF send_message
<1>2. CASE goes
    <2>1. dhcp' = [d EXCEPT !.deadline = In(1)]
        BY <1>1, <1>2
    <2> QED BY <2>1 DEF DhcpFields
<1>3. CASE ~goes
    <2>1. dhcp' = Ended("FAILED")
        BY <1>1, <1>3
    <2> QED BY <2>1 DEF Ended, Shape, DhcpFields
<1> QED BY <1>2, <1>3

\* What an acknowledgement makes of an offer's options is what the two put in force.
LEMMA MergeIsInForce ==
    ASSUME NEW o, NEW m, NEW x \in Settings
    PROVE  Options(m, Options(o, Nothing))[x] = InForce(x, o, m)
BY DEF Options, Nothing, InForce

\* What a poll leaves: a lease that an offer and an acknowledgement of the right servers put in force,
\* or a request for what an offer said, or nothing to rely on.
Leased(o, m) ==
    /\ o.src = dhcp.server /\ (m.named => m.src = dhcp.server)
    /\ ip = m.addr
    /\ route.mask = IF InForce("mask", o, m) = None THEN ClassC ELSE InForce("mask", o, m)
    /\ route.gateway = InForce("gateway", o, m)
    /\ dhcp.opts["dns"] = InForce("dns", o, m)

\* Only an acknowledgement that no other server signed makes a lease; with the offer before it, it
\* sets the address, the mask, the gateway and the resolver.
LEMMA AckLeases ==
    ASSUME Shape, Chosen, NEW m \in acks, Ack(m)
    PROVE  /\ DOMAIN dhcp' = DhcpFields /\ dhcp'.state = "BOUND" /\ acks' = {m}
           /\ \E o \in offers : Leased(o, m)'
<1> DEFINE opts == Options(m, dhcp.opts)
           mask == IF opts["mask"] = None THEN ClassC ELSE opts["mask"]
<1>1. PICK o \in offers : o.src = dhcp.server /\ dhcp.opts = Options(o, Nothing)
    BY DEF Ack, Chosen, FromOffer
<1>2. /\ dhcp' = [Ended("BOUND") EXCEPT
                     !.offered = m.addr, !.server = IF m.named THEN m.src ELSE @,
                     !.opts = [opts EXCEPT !["mask"] = IF @ = None THEN ClassC ELSE @]]
      /\ route' = [mask |-> dhcp'.opts["mask"], gateway |-> opts["gateway"]]
      /\ ip' = m.addr /\ acks' = {m} /\ ~Another(m)
    BY DEF Ack
<1>3. /\ DOMAIN opts = Settings /\ Settings = {"mask", "gateway", "dns"}
      /\ \A x \in Settings : opts[x] = InForce(x, o, m)
    BY <1>1, MergeIsInForce DEF Options, Settings
<1> HIDE DEF opts
<1>4. /\ DOMAIN dhcp' = DhcpFields /\ dhcp'.state = "BOUND"
      /\ dhcp'.server = IF m.named THEN m.src ELSE dhcp.server
      /\ dhcp'.opts = [opts EXCEPT !["mask"] = IF @ = None THEN ClassC ELSE @]
    <2>1. /\ DOMAIN Ended("BOUND") = DhcpFields /\ Ended("BOUND").state = "BOUND"
          /\ Ended("BOUND").server = dhcp.server
        BY DEF Ended, Shape, DhcpFields
    <2> QED BY <1>2, <2>1 DEF DhcpFields
<1>5. dhcp'.server = dhcp.server
    BY <1>2, <1>4 DEF Another
<1>6. dhcp'.opts["mask"] = mask /\ dhcp'.opts["dns"] = opts["dns"]
    BY <1>3, <1>4
<1>7. route'.mask = mask /\ route'.gateway = opts["gateway"]
    BY <1>2, <1>6
<1>8. (m.named => m.src = dhcp'.server) /\ o.src = dhcp'.server
    BY <1>1, <1>4, <1>5
<1>9. InForce("mask", o, m)' = InForce("mask", o, m) /\ InForce("gateway", o, m)' = InForce("gateway", o, m)
      /\ InForce("dns", o, m)' = InForce("dns", o, m)
    BY DEF InForce
<1>10. Leased(o, m)'
    BY <1>2, <1>3, <1>6, <1>7, <1>8, <1>9 DEF Leased
<1> QED BY <1>2, <1>4, <1>10

LEMMA PollBinds ==
    ASSUME Shape, Chosen, dhcp_poll
    PROVE  /\ DOMAIN dhcp' = DhcpFields
           /\ dhcp'.state = "REQUESTING" =>
                \E o \in offers : o.src = dhcp'.server /\ dhcp'.opts = Options(o, Nothing)
           /\ dhcp'.state = "BOUND" => \E o \in offers, m \in acks : acks' = {m} /\ Leased(o, m)'
<1>1. CASE \E m \in offers : Offer(m)
    <2>1. PICK m \in offers : Offer(m)
        BY <1>1
    <2> DEFINE d == [dhcp EXCEPT !.state = "REQUESTING", !.retry = 0, !.offered = m.addr,
                                 !.server = m.src, !.opts = Options(m, Nothing)]
    <2>2. send_message(d)
        BY <2>1 DEF Offer
    <2>3. DOMAIN d = DhcpFields /\ d.state = "REQUESTING" /\ d.server = m.src
          /\ d.opts = Options(m, Nothing)
        BY DEF Shape, DhcpFields
    <2> HIDE DEF d
    <2> QED BY <2>2, <2>3, SendingDoesNotBind
<1>2. CASE \E m \in acks : Ack(m)
    <2>1. PICK m \in acks : Ack(m)
        BY <1>2
    <2> QED BY <2>1, AckLeases
<1>3. CASE dhcp' = Ended("FAILED")
    BY <1>3 DEF Ended, Shape, DhcpFields
<1>4. CASE Timer(dhcp) /\ dhcp.state \in Asking
    <2>1. CASE dhcp' = Ended("FAILED")
        BY <2>1, <1>3
    <2>2. CASE dhcp' = dhcp
        BY <2>2, <1>4 DEF Shape, Asking, Chosen, FromOffer
    <2> DEFINE d == [dhcp EXCEPT !.retry = @ + 1]
    <2>3. CASE send_message(d)
        <3>1. DOMAIN d = DhcpFields /\ d.state = dhcp.state /\ d.server = dhcp.server
              /\ d.opts = dhcp.opts
            BY DEF Shape, DhcpFields
        <3> HIDE DEF d
        <3>2. dhcp'.state # "BOUND"
            BY <1>4, <2>3, <3>1, SendingDoesNotBind DEF Asking
        <3> QED BY <2>3, <3>1, <3>2, SendingDoesNotBind DEF Chosen, FromOffer
    <2> QED BY <1>4, <2>1, <2>2, <2>3 DEF Timer
<1> QED BY <1>1, <1>2, <1>3, <1>4 DEF dhcp_poll

LEMMA DhcpWorkHolds ==
    ASSUME IInv, dhcp_work
    PROVE  IInv'
<1>1. /\ DOMAIN dhcp' = DhcpFields
      /\ dhcp'.state = "REQUESTING" =>
            \E o \in offers : o.src = dhcp'.server /\ dhcp'.opts = Options(o, Nothing)
      /\ dhcp'.state = "BOUND" => \E o \in offers, m \in acks : acks' = {m} /\ Leased(o, m)'
    BY PollBinds DEF IInv, dhcp_work
<1>2. CASE dhcp'.state = "BOUND"
    <2>1. /\ offers' = {o \in offers : o.src = dhcp'.server}
          /\ sink17' = "dns" /\ tcp_ip' = ip'
          /\ dns' = [dns EXCEPT !.server = dhcp'.opts["dns"]]
        BY <1>2 DEF dhcp_work, Asking
    <2>2. DOMAIN dns' = DOMAIN dns /\ dns'.server = dhcp'.opts["dns"]
        BY <2>1 DEF IInv, Shape
    <2>3. PICK o \in offers, m \in acks : acks' = {m} /\ Leased(o, m)'
        BY <1>1, <1>2
    <2>4. o \in offers' /\ m \in acks'
        BY <2>1, <2>3 DEF Leased
    <2>5. Wired(o, m)' /\ o.src = dhcp'.server /\ (m.named => m.src = dhcp'.server)
        BY <2>1, <2>2, <2>3 DEF Leased, Wired
    <2>6. BoundMeansWired'
        BY <2>4, <2>5 DEF BoundMeansWired
    <2> QED BY <1>1, <1>2, <2>2, <2>6 DEF IInv, Shape, Chosen
<1>3. CASE dhcp'.state # "BOUND"
    <2>1. DOMAIN dns' = DOMAIN dns
        BY <1>3 DEF dhcp_work
    <2>2. dhcp'.state = "REQUESTING" => offers' = offers
        BY DEF dhcp_work, Asking, answers
    <2>3. Chosen'
        BY <1>1, <2>2 DEF Chosen, FromOffer, Options, Nothing
    <2> QED BY <1>1, <1>3, <2>1, <2>3 DEF IInv, Shape, BoundMeansWired
<1> QED BY <1>2, <1>3

\* Steps that leave the lease, the wiring and what servers said of it alone.
LEMMA LeaseStays ==
    ASSUME IInv, dhcp' = dhcp, ip' = ip, route' = route, offers \subseteq offers',
           dhcp.state = "BOUND" => acks' = acks,
           (tcp_ip' = ip /\ sink17' = "dns") \/ (tcp_ip' = tcp_ip /\ sink17' = sink17),
           DOMAIN dns' = DOMAIN dns, dns'.server = dns.server
    PROVE  IInv'
<1>1. Shape'
    BY DEF IInv, Shape
<1>2. Chosen'
    BY DEF IInv, Chosen, FromOffer, Options, Nothing
<1>3. CASE dhcp.state = "BOUND"
    <2>1. PICK o \in offers, m \in acks : /\ o.src = dhcp.server /\ (m.named => m.src = dhcp.server)
                                          /\ Wired(o, m)
        BY <1>3 DEF IInv, BoundMeansWired
    <2>2. Wired(o, m)'
        BY <2>1 DEF Wired, InForce
    <2> QED BY <1>1, <1>2, <1>3, <2>1, <2>2 DEF IInv, BoundMeansWired
<1>4. CASE dhcp.state # "BOUND"
    BY <1>1, <1>2, <1>4 DEF IInv, BoundMeansWired
<1> QED BY <1>3, <1>4

\* What the resolver does leaves the address of its server alone.
LEMMA ResolverKeepsServer ==
    ASSUME Shape,
           \/ \E q \in Queries : dns_input(q)
           \/ dns_poll
           \/ \E n \in Names : dns_start(n)
    PROVE  DOMAIN dns' = DOMAIN dns /\ dns'.server = dns.server
<1>1. CASE \E q \in Queries : dns_input(q)
    <2>1. PICK q \in Queries : dns_input(q)
        BY <1>1
    <2> QED BY <2>1 DEF dns_input, Over, Shape
<1>2. CASE dns_poll
    BY <1>2 DEF dns_poll, Over, Shape
<1>3. CASE \E n \in Names : dns_start(n)
    <2>1. PICK n \in Names : dns_start(n)
        BY <1>3
    <2> QED BY <2>1 DEF dns_start, Over, Shape
<1> QED BY <1>1, <1>2, <1>3

\* A navigation points TCP at our address and UDP at the resolver: with a lease, nothing moves.
LEMMA NavigationHolds ==
    ASSUME IInv, (\E n \in Names : navigate(n)) \/ NavigateNumber \/ NavigateHome
    PROVE  IInv'
<1>1. /\ dhcp' = dhcp /\ ip' = ip /\ route' = route /\ acks' = acks /\ offers' = offers
      /\ (tcp_ip' = ip /\ sink17' = "dns") \/ (tcp_ip' = tcp_ip /\ sink17' = sink17)
    BY DEF navigate, NavigateNumber, NavigateHome, netvars, answers
<1>2. DOMAIN dns' = DOMAIN dns /\ dns'.server = dns.server
    BY ResolverKeepsServer DEF navigate, NavigateNumber, NavigateHome, IInv
<1> QED BY <1>1, <1>2, LeaseStays

LEMMA FrameHolds ==
    ASSUME IInv, browser_tick \/ net_ping
    PROVE  IInv'
<1>1. dhcp' = dhcp /\ UNCHANGED netvars /\ acks' = acks /\ offers' = offers
    BY DEF browser_tick, net_ping, answers
<1>2. DOMAIN dns' = DOMAIN dns /\ dns'.server = dns.server
    BY ResolverKeepsServer DEF browser_tick, net_ping, IInv
<1> QED BY <1>1, <1>2, LeaseStays DEF netvars

\* The world acts on its own variables; servers only add to what they said, and only to the machine
\* that asks.
LEMMA WorldHolds ==
    ASSUME IInv, DhcpServer \/ Resolver \/ Tick \/ UNCHANGED vars
    PROVE  IInv'
<1>1. dhcp' = dhcp /\ dns' = dns /\ UNCHANGED netvars
    BY DEF DhcpServer, Resolver, Tick, vars, netvars
<1>2. dhcp.state = "BOUND" => acks' = acks
    BY DEF DhcpServer, Resolver, Tick, vars, answers, Asking
<1>3. offers \subseteq offers'
    BY DEF DhcpServer, ServerOffers, ServerDecides, Resolver, Tick, vars, answers
<1> QED BY <1>1, <1>2, <1>3, LeaseStays DEF netvars

LEMMA Inductive == IInv /\ [Next]_vars => IInv'
<1> SUFFICES ASSUME IInv, [Next]_vars PROVE IInv'
    OBVIOUS
<1>1. CASE dhcp_work BY <1>1, DhcpWorkHolds
<1>2. CASE browser_tick \/ net_ping BY <1>2, FrameHolds
<1>3. CASE NavigateNumber \/ NavigateHome \/ \E n \in Names : navigate(n)
    BY <1>3, NavigationHolds
<1>4. CASE DhcpServer \/ Resolver \/ Tick \/ UNCHANGED vars BY <1>4, WorldHolds
<1> QED BY <1>1, <1>2, <1>3, <1>4 DEF Next

\* A lease that DHCP says it has (dhcp.c) rests on an offer of the chosen server and on one
\* acknowledgement that no other server signed; and the card, TCP and the resolver are set up by what
\* the two say (kernel.zl's loop), for any number of servers that offer, acknowledge, refuse and
\* repeat with any options, and whoever navigates meanwhile.
THEOREM LeaseAlwaysWired == Spec => []BoundMeansWired
<1>1. IInv => BoundMeansWired
    BY DEF IInv
<1> QED BY InitHolds, Inductive, <1>1, PTL DEF Spec

-----------------------------------------------------------------------------
(* Lookups. What a reply says stays said; so the argument is what each      *)
(* place an answer can come from - the lookup under way, and the entries of *)
(* the cache - knows of the reply behind it, and how old that is.           *)

Reply == [kind : {"A", "NX", "BAD"}, ttl : Nat, age : Nat]
Clock == 0..(TickMod - 1)

Wellformed ==
    /\ now \in Clock
    /\ asked \in Seq(Names) /\ Len(asked) <= MaxQueries
    /\ reply \in [1..MaxQueries -> Reply \cup {None}]
    /\ DOMAIN page = {"status", "name"}

\* Nobody is looked up before there is a lease.
Unleased == dhcp.state # "BOUND" => dns.state = "IDLE" /\ dns.server = None

\* The lookup under way is the last one asked, and it is the page's.
Looking ==
    /\ dns.state = "ASKING" => asked # <<>> /\ asked[Len(asked)] = dns.asking
    /\ page.status = "RESOLVING" => page.name \in Names
    /\ page.name # None /\ page.status = "RESOLVING" =>
        /\ dns.state = "ASKING" => dns.asking = page.name
        /\ dns.state = "NXDOMAIN" => \E q \in DOMAIN reply : Backs(q, page.name, "NX", None)
    /\ page.name # None /\ page.status = "FETCHING" => dns.state = "DONE"

\* An entry is backed by a reply whose life is not over before the entry's own.
Left(e) == (e.expires - now) % TickMod
Backed(e) ==
    /\ e.expires \in Clock
    /\ e.ip \in Queries /\ asked[e.ip] = e.name /\ reply[e.ip] # None /\ reply[e.ip].kind = "A"
    /\ Expired(e) \/ reply[e.ip].age + Left(e) <= MaxDelay + Life(reply[e.ip].ttl)
Remembers == \A i \in Slot : cache[i] # None => Backed(cache[i])

LInv == Wellformed /\ Unleased /\ Looking /\ Remembers

\* What AnswerIsCurrent says of a step.
Current ==
    /\ (Answered' /\ (page'.status = "RESOLVING" \/ ~Answered) /\ <<dns, page>>' # <<dns, page>>) =>
            \E q \in DOMAIN reply' : Backs(q, page.name, "A", dns.answer)'
    /\ (page'.status = "NO_DNS" /\ dns'.state = "NXDOMAIN" /\ page.status = "RESOLVING") =>
            \E q \in DOMAIN reply : Backs(q, page.name, "NX", None)

LEMMA ClockFacts == /\ Half \in Nat /\ 2 * Half = TickMod /\ Half >= 2 /\ TickMod \in Nat
                    /\ MaxDelay \in Nat /\ AskTicks \in Nat /\ MAX_TTL \in 1..Half - 1
<1>1. TickMod \in Nat /\ TickMod % 2 = 0 /\ MAX_TTL \in 1..(Half - 1) /\ AskTicks \in 1..(Half - 1)
      /\ MaxDelay \in Nat
    BY NetAssumption
<1>2. Half \in Nat /\ 2 * Half = TickMod
    BY <1>1 DEF Half
<1> QED BY <1>1, <1>2

\* The distance from one instant to another, without the remainder.
Apart(a, b) == IF a >= b THEN a - b ELSE a - b + TickMod

LEMMA ClockApart ==
    ASSUME NEW a \in Clock, NEW b \in Clock
    PROVE  (a - b) % TickMod = Apart(a, b)
<1>1. a \in Nat /\ b \in Nat /\ a < TickMod /\ b < TickMod /\ TickMod \in Nat \ {0}
    BY ClockFacts DEF Clock
<1>2. CASE a >= b BY <1>1, <1>2 DEF Apart
<1>3. CASE a < b BY <1>1, <1>3 DEF Apart
<1> QED BY <1>1, <1>2, <1>3

LEMMA ClockAhead ==
    ASSUME NEW a \in Clock, NEW n \in 0..TickMod - 1
    PROVE  (a + n) % TickMod = IF a + n < TickMod THEN a + n ELSE a + n - TickMod
<1>1. a \in Nat /\ n \in Nat /\ a < TickMod /\ n < TickMod /\ TickMod \in Nat \ {0}
    BY ClockFacts DEF Clock
<1>2. CASE a + n < TickMod BY <1>1, <1>2
<1>3. CASE a + n >= TickMod BY <1>1, <1>3
<1> QED BY <1>1, <1>2, <1>3

\* dns.c:128: no life is longer than MAX_TTL, and none is over at once.
LEMMA LifeIsShort == ASSUME NEW ttl \in Nat PROVE Life(ttl) \in 1..Half - 1
BY ClockFacts DEF Life

\* A record put in now lives for the time it is given.
LEMMA FreshLasts ==
    ASSUME now \in Clock, NEW n \in 1..Half - 1
    PROVE  In(n) \in Clock /\ (In(n) - now) % TickMod = n
<1>1. now \in Int /\ n \in Int /\ 0 <= now /\ now < TickMod /\ 1 <= n /\ n < TickMod /\ TickMod \in Int
    BY ClockFacts DEF Clock
<1>2. In(n) = IF now + n < TickMod THEN now + n ELSE now + n - TickMod
    BY <1>1, ClockAhead DEF In
<1>3. In(n) \in Clock
    BY <1>1, <1>2 DEF Clock
<1>4. (In(n) - now) % TickMod = Apart(In(n), now)
    BY <1>3, ClockApart
<1> QED BY <1>1, <1>2, <1>3, <1>4 DEF Apart

LEMMA LeftIs ==
    ASSUME now \in Clock, NEW e, e.expires \in Clock
    PROVE  /\ Left(e) = Apart(e.expires, now) /\ Left(e) \in Nat
           /\ Expired(e) <=> Apart(now, e.expires) < Half
<1>1. /\ (e.expires - now) % TickMod = Apart(e.expires, now)
      /\ (now - e.expires) % TickMod = Apart(now, e.expires)
    BY ClockApart
<1>2. Apart(e.expires, now) \in Nat
    BY ClockFacts DEF Apart, Clock
<1> QED BY <1>1, <1>2 DEF Left, Expired, Reached

\* A second nearer its end, or over and still over.
LEMMA SecondPasses ==
    ASSUME now \in Clock, now' = In(1), NEW e, e.expires \in Clock,
           In(1) # (e.expires + Half) % TickMod
    PROVE  /\ now' \in Clock
           /\ Expired(e)' \/ (~Expired(e) /\ Left(e)' = Left(e) - 1)
<1> DEFINE a == now
           b == e.expires
           c == now'
<1>1. /\ a \in Int /\ b \in Int /\ 0 <= a /\ a < TickMod /\ 0 <= b /\ b < TickMod
      /\ Half \in Int /\ TickMod = Half + Half /\ Half >= 2
    BY ClockFacts DEF Clock
<1>2. c = IF a + 1 < TickMod THEN a + 1 ELSE a + 1 - TickMod
    BY <1>1, ClockAhead DEF In
<1>3. c \in Clock
    BY <1>1, <1>2 DEF Clock
<1>4. c # IF b + Half < TickMod THEN b + Half ELSE b + Half - TickMod
    BY <1>1, ClockAhead
<1>5. /\ Left(e) = Apart(b, a) /\ (Expired(e) <=> Apart(a, b) < Half)
    BY LeftIs
<1>6. /\ Left(e)' = Apart(b, c) /\ (Expired(e)' <=> Apart(c, b) < Half)
    <2>1. /\ (b - c) % TickMod = Apart(b, c) /\ (c - b) % TickMod = Apart(c, b)
        BY <1>3, ClockApart
    <2> QED BY <2>1 DEF Left, Expired, Reached
<1> HIDE DEF a, b, c
<1>7. Apart(c, b) < Half \/ (~(Apart(a, b) < Half) /\ Apart(b, c) = Apart(b, a) - 1)
    BY <1>1, <1>2, <1>4 DEF Apart
<1> QED BY <1>3, <1>5, <1>6, <1>7 DEF c

LEMMA Starts == Init => LInv
<1> SUFFICES ASSUME Init PROVE LInv
    OBVIOUS
<1>1. now \in Clock
    BY ClockFacts DEF Init, Clock
<1>2. MaxQueries \in Nat
    BY NetAssumption
<1>3. Wellformed
    BY <1>1, <1>2 DEF Init, Wellformed, Page
<1>4. Unleased /\ Looking
    BY DEF Init, Unleased, Looking, Page
<1>5. Remembers
    BY DEF Init, Remembers
<1> QED BY <1>3, <1>4, <1>5 DEF LInv

\* cache_find (dns.c) finds the first entry that counts, when there is one.
LEMMA FindsHit == ASSUME NEW n, cache_find(n) # 0 PROVE cache_find(n) \in Hits(n)
<1> DEFINE T == Hits(n)
<1>1. T \subseteq Nat /\ T # {}
    BY NetAssumption DEF cache_find, Hits, Slot
<1>2. PICK x \in T : \A y \in T : ~(y < x)
    <2>1. IsWellFoundedOn(OpToRel(<, Nat), Nat)
        BY NatLessThanWellFounded
    <2>2. PICK x \in T : \A y \in T : <<y, x>> \notin OpToRel(<, Nat)
        BY <1>1, <2>1, WFMin
    <2>3. \A y \in T : ~(y < x)
        BY <1>1, <2>2 DEF OpToRel
    <2> QED BY <2>3
<1>3. \A y \in T : x <= y
    BY <1>1, <1>2
<1> QED BY <1>1, <1>3 DEF cache_find

\* An entry that can be hit says an address young enough to be used.
LEMMA HitsAreCurrent ==
    ASSUME LInv, MaxDelay <= AskTicks, NEW n, NEW i \in Hits(n)
    PROVE  Backs(cache[i].ip, n, "A", cache[i].ip) /\ cache[i].ip \in DOMAIN reply
<1> DEFINE e == cache[i]
<1>1. i \in Slot /\ e # None /\ ~Expired(e) /\ e.name = n
    BY DEF Hits
<1>2. Backed(e) /\ now \in Clock /\ reply \in [1..MaxQueries -> Reply \cup {None}] /\ Len(asked) <= MaxQueries
      /\ asked \in Seq(Names)
    BY <1>1 DEF LInv, Remembers, Wellformed
<1> HIDE DEF e
<1>3. /\ e.ip \in Queries /\ asked[e.ip] = n /\ reply[e.ip] # None /\ reply[e.ip].kind = "A"
      /\ reply[e.ip].age + Left(e) <= MaxDelay + Life(reply[e.ip].ttl) /\ e.expires \in Clock
    BY <1>1, <1>2 DEF Backed
<1>4. Len(asked) \in Nat /\ MaxQueries \in Nat
    BY <1>2, LenProperties, NetAssumption
<1>5. e.ip \in 1..MaxQueries
    BY <1>2, <1>3, <1>4 DEF Queries
<1>6. reply[e.ip] \in Reply
    BY <1>2, <1>3, <1>5
<1>7. reply[e.ip].age \in Nat /\ reply[e.ip].ttl \in Nat
    BY <1>6 DEF Reply
<1>8. Left(e) \in Nat
    BY <1>2, <1>3, LeftIs
<1>9. Life(reply[e.ip].ttl) \in Nat
    BY <1>7, LifeIsShort, ClockFacts
<1>10. reply[e.ip].age <= Life(reply[e.ip].ttl) + AskTicks
    BY <1>3, <1>7, <1>8, <1>9, ClockFacts
<1> QED BY <1>2, <1>3, <1>5, <1>10 DEF Backs, e

\* dns_input takes the reply to the last query, about the name asked for.
LEMMA Heard ==
    ASSUME Shape, LInv, NEW q \in Queries, dns_input(q)
    PROVE  /\ dns.state = "ASKING" /\ asked[q] = dns.asking /\ q \in DOMAIN reply
           /\ reply[q] \in Reply /\ reply[q] # None /\ reply[q].age <= MaxDelay
           /\ dns'.state \in {"DONE", "NXDOMAIN", "REFUSED"} /\ dns'.server = dns.server
           /\ dns'.state = "DONE" => reply[q].kind = "A" /\ dns'.answer = q /\ cache_put(asked[q], q)
           /\ dns'.state = "NXDOMAIN" => reply[q].kind = "NX"
           /\ dns'.state # "DONE" => cache' = cache
<1>1. dns.state = "ASKING" /\ q = Len(asked) /\ reply[q] # None /\ reply[q].age <= MaxDelay
    BY DEF dns_input, ToUs
<1>2. asked[q] = dns.asking
    BY <1>1 DEF LInv, Looking
<1>3. asked \in Seq(Names) /\ Len(asked) <= MaxQueries /\ reply \in [1..MaxQueries -> Reply \cup {None}]
    BY DEF LInv, Wellformed
<1>4. q \in 1..MaxQueries
    <2>1. Len(asked) \in Nat /\ MaxQueries \in Nat
        BY <1>3, LenProperties, NetAssumption
    <2> QED BY <1>3, <2>1 DEF Queries
<1>5. q \in DOMAIN reply /\ reply[q] \in Reply
    BY <1>1, <1>3, <1>4
<1>6. CASE reply[q].kind = "A"
    <2>1. dns' = [Over("DONE") EXCEPT !.answer = q] /\ cache_put(dns.asking, q)
        BY <1>2, <1>6 DEF dns_input
    <2>2. dns'.state = "DONE" /\ dns'.server = dns.server /\ dns'.answer = q
        BY <2>1 DEF Over, Shape
    <2> QED BY <1>1, <1>2, <1>5, <1>6, <2>1, <2>2
<1>7. CASE reply[q].kind # "A"
    <2>1. dns' = Over(IF reply[q].kind = "NX" THEN "NXDOMAIN" ELSE "REFUSED") /\ cache' = cache
        BY <1>7 DEF dns_input
    <2>2. dns'.state = (IF reply[q].kind = "NX" THEN "NXDOMAIN" ELSE "REFUSED") /\ dns'.server = dns.server
        BY <2>1 DEF Over, Shape
    <2> QED BY <1>1, <1>2, <1>5, <1>7, <2>1, <2>2
<1> QED BY <1>6, <1>7

\* What is put into the cache is backed by the reply it comes from.
LEMMA PutIsBacked ==
    ASSUME LInv, NEW q \in Queries, reply[q] \in Reply, reply[q] # None, reply[q].kind = "A",
           reply[q].age <= MaxDelay, cache_put(asked[q], q), UNCHANGED <<now, asked, reply>>
    PROVE  Remembers'
<1> DEFINE e == [name |-> asked[q], ip |-> q, expires |-> In(Life(reply[q].ttl))]
<1>1. PICK j : cache' = [Walked(asked[q]) EXCEPT ![j] = e]
    BY DEF cache_put
<1>2. Life(reply[q].ttl) \in 1..Half - 1 /\ reply[q].age \in Nat
    BY LifeIsShort DEF Reply
<1>3. Backed(e)
    <2>1. now \in Clock
        BY DEF LInv, Wellformed
    <2>2. e.expires \in Clock /\ Left(e) = Life(reply[q].ttl)
        BY <1>2, <2>1, FreshLasts DEF Left
    <2>3. reply[q].age + Left(e) <= MaxDelay + Life(reply[q].ttl)
        BY <1>2, <2>2, ClockFacts
    <2> QED BY <2>2, <2>3 DEF Backed
<1> HIDE DEF e
<1>4. \A i \in Slot : cache'[i] # None => Backed(cache'[i])
    <2>1. \A i \in Slot : cache'[i] \in {e, cache[i], None}
        BY <1>1 DEF Walked
    <2> QED BY <1>3, <2>1 DEF LInv, Remembers
<1>5. \A i \in Slot : Backed(cache'[i]) <=> Backed(cache[i])'
    BY DEF Backed, Left, Expired, Reached, Queries
<1> QED BY <1>4, <1>5 DEF Remembers

\* A frame or a ping hears one reply, or nothing changes what is remembered.
LEMMA HeardKeeps ==
    ASSUME Shape, LInv, NEW q \in Queries, dns_input(q), UNCHANGED <<now, asked, reply>>
    PROVE  Remembers'
<1>1. CASE dns'.state = "DONE"
    BY <1>1, Heard, PutIsBacked
<1>2. CASE dns'.state # "DONE"
    <2>1. cache' = cache
        BY <1>2, Heard
    <2> QED BY <2>1 DEF LInv, Remembers, Backed, Left, Expired, Reached, Queries
<1> QED BY <1>1, <1>2

\* Nothing is looked up while DHCP asks, and the lease empties the cache.
LEMMA DhcpKeeps ==
    ASSUME Shape, LInv, dhcp_work
    PROVE  LInv' /\ Current
<1>1. dhcp.state # "BOUND" /\ dns.state = "IDLE" /\ dns.server = None
    BY DEF dhcp_work, dhcp_poll, Asking, LInv, Unleased
<1>2. now' = now /\ page' = page /\ asked' = asked /\ reply' = reply
    BY DEF dhcp_work
<1>3. dns'.state = "IDLE" /\ (dhcp'.state # "BOUND" => dns'.server = None)
    <2>1. CASE dhcp'.state = "BOUND"
        <3>1. dns' = [dns EXCEPT !.server = dhcp'.opts["dns"]]
            BY <2>1 DEF dhcp_work, Asking
        <3> QED BY <1>1, <2>1, <3>1 DEF Shape
    <2>2. CASE dhcp'.state # "BOUND"
        BY <1>1, <2>2 DEF dhcp_work
    <2> QED BY <2>1, <2>2
<1>4. Wellformed' /\ Unleased'
    BY <1>2, <1>3 DEF LInv, Wellformed, Unleased
<1>5. Looking'
    <2>1. page.name # None /\ page.status = "FETCHING" => dns.state = "DONE"
        BY DEF LInv, Looking
    <2>2. page.status = "RESOLVING" => page.name \in Names
        BY DEF LInv, Looking
    <2> QED BY <1>1, <1>2, <1>3, <2>1, <2>2 DEF Looking
<1>6. Remembers'
    <2>1. CASE dhcp'.state = "BOUND"
        <3>1. cache' = [i \in Slot |-> None]
            BY <2>1 DEF dhcp_work, Asking
        <3> QED BY <3>1 DEF Remembers
    <2>2. CASE dhcp'.state # "BOUND"
        <3>1. cache' = cache
            BY <2>2 DEF dhcp_work
        <3> QED BY <1>2, <3>1 DEF LInv, Remembers, Backed, Left, Expired, Reached, Queries
    <2> QED BY <2>1, <2>2
<1>7. Current
    BY <1>3 DEF Current, Answered
<1> QED BY <1>4, <1>5, <1>6, <1>7 DEF LInv

\* What is heard for the page that waits is about its own name, and young.
LEMMA FrameKeeps ==
    ASSUME Shape, LInv, MaxDelay <= AskTicks, browser_tick \/ net_ping
    PROVE  LInv' /\ Current
<1>1. UNCHANGED <<now, dhcp, asked, reply>>
    BY DEF browser_tick, net_ping
<1>2. Wellformed'
    <2>1. DOMAIN page' = {"status", "name"}
        BY DEF browser_tick, net_ping, Resolved, Page, LInv, Wellformed
    <2> QED BY <1>1, <2>1 DEF LInv, Wellformed
<1>3. \/ /\ page.status = "RESOLVING" \/ page.status = "FETCHING" \/ page' = page
         /\ \E q \in Queries : dns_input(q)
      \/ page.status = "RESOLVING" /\ dns_poll
      \/ page.status = "FETCHING" /\ UNCHANGED <<dns, cache, cache_next>>
    BY DEF browser_tick, net_ping
<1>4. /\ page.status = "RESOLVING" => page' = page \/ Resolved
      /\ page.status # "RESOLVING" => page' \in {page, Page("IDLE", None)}
    BY DEF browser_tick, net_ping
<1>5. /\ page.status = "RESOLVING" => page.name \in Names /\ page.name # None
      /\ page.name # None /\ page.status = "RESOLVING" =>
            /\ dns.state = "ASKING" => dns.asking = page.name
            /\ dns.state = "NXDOMAIN" => \E q \in DOMAIN reply : Backs(q, page.name, "NX", None)
      /\ page.name # None /\ page.status = "FETCHING" => dns.state = "DONE"
    BY NetAssumption DEF LInv, Looking
<1>6. ASSUME NEW q \in Queries, dns_input(q) PROVE LInv' /\ Current
    <2>1. /\ dns.state = "ASKING" /\ asked[q] = dns.asking /\ q \in DOMAIN reply
          /\ reply[q] \in Reply /\ reply[q] # None /\ reply[q].age <= MaxDelay
          /\ dns'.state \in {"DONE", "NXDOMAIN", "REFUSED"} /\ dns'.server = dns.server
          /\ dns'.state = "DONE" => reply[q].kind = "A" /\ dns'.answer = q
          /\ dns'.state = "NXDOMAIN" => reply[q].kind = "NX"
        BY <1>6, Heard
    <2>2. Remembers'
        BY <1>1, <1>6, HeardKeeps
    <2>3. Unleased'
        BY <1>1, <2>1 DEF LInv, Unleased
    <2>4. page.name # None => page.status # "FETCHING"
        BY <1>5, <2>1
    <2>5. page' = page \/ (page.status = "RESOLVING" /\ dns'.state = "DONE" /\ page' = Page("FETCHING", page.name))
             \/ page' = Page("IDLE", None)
             \/ (page.status = "RESOLVING" /\ page' = Page("NO_DNS", None) /\ dns'.state # "DONE")
        BY <1>4, <2>1 DEF Resolved
    <2>6. dns'.state = "DONE" =>
            /\ q \in Queries /\ reply[q] # None /\ reply[q].kind = "A" /\ dns'.answer = q
            /\ reply[q].age <= Life(reply[q].ttl) + AskTicks
        <3>1. reply[q].age \in Nat /\ Life(reply[q].ttl) \in Nat
            BY <2>1, LifeIsShort, ClockFacts DEF Reply
        <3> QED BY <2>1, <3>1, ClockFacts
    <2>7. page.status = "RESOLVING" => asked[q] = page.name
        BY <1>5, <2>1
    <2>8. page.status = "RESOLVING" /\ dns'.state = "NXDOMAIN" => Backs(q, page.name, "NX", None)
        BY <2>1, <2>7 DEF Backs
    <2>9. Looking'
        <3>1. page'.status = "RESOLVING" => page' = page
            BY <2>5 DEF Page
        <3>2. page'.name # None /\ page'.status = "FETCHING" => dns'.state = "DONE"
            BY <2>4, <2>5 DEF Page
        <3>3. page'.status = "RESOLVING" /\ dns'.state = "NXDOMAIN" => Backs(q, page.name, "NX", None)'
            BY <1>1, <2>8, <3>1 DEF Backs, Queries
        <3>4. DOMAIN reply' = DOMAIN reply
            BY <1>1
        <3> QED BY <1>5, <2>1, <3>1, <3>2, <3>3, <3>4 DEF Looking
    <2>10. Current
        <3>1. ASSUME Answered' PROVE Backs(q, page.name, "A", dns.answer)' /\ q \in DOMAIN reply'
            <4>1. page'.name # None /\ page'.status \in {"RESOLVING", "FETCHING"} /\ dns'.state = "DONE"
                BY <3>1 DEF Answered, Told
            <4>2. page.status = "RESOLVING" /\ page'.name = page.name
                BY <2>4, <2>5, <4>1 DEF Page
            <4> QED BY <1>1, <2>1, <2>6, <2>7, <4>1, <4>2 DEF Backs, Queries
        <3>2. ASSUME page'.status = "NO_DNS", dns'.state = "NXDOMAIN", page.status = "RESOLVING"
              PROVE  \E x \in DOMAIN reply : Backs(x, page.name, "NX", None)
            BY <2>1, <2>8, <3>2
        <3> QED BY <3>1, <3>2 DEF Current
    <2> QED BY <1>2, <2>2, <2>3, <2>9, <2>10 DEF LInv
<1>7. ASSUME page.status = "RESOLVING", dns_poll PROVE LInv' /\ Current
    <2>1. /\ cache' = cache /\ (dns' = dns \/ (dns.state = "ASKING" /\ dns'.state = "TIMEOUT"
                                                 /\ dns'.server = dns.server))
        BY <1>7 DEF dns_poll, TimesOut, Over, Shape
    <2>2. Unleased'
        BY <1>1, <2>1 DEF LInv, Unleased
    <2>3. Remembers'
        BY <1>1, <2>1 DEF LInv, Remembers, Backed, Left, Expired, Reached, Queries
    <2>4. page' = page \/ (dns'.state = "DONE" /\ page' = Page("FETCHING", page.name))
             \/ page' = Page("IDLE", None) \/ page' = Page("NO_DNS", None)
        BY <1>4, <1>7 DEF Resolved
    <2>5. dns'.state = "NXDOMAIN" => \E q \in DOMAIN reply : Backs(q, page.name, "NX", None)
        BY <1>5, <1>7, <2>1
    <2>6. (\E q \in DOMAIN reply : Backs(q, page.name, "NX", None)) /\ page' = page
            => (\E q \in DOMAIN reply : Backs(q, page.name, "NX", None))'
        BY <1>1 DEF Backs, Queries
    <2>7. Looking'
        BY <1>1, <1>5, <1>7, <2>1, <2>4, <2>5, <2>6 DEF Looking, LInv, Page
    <2>8. Current
        <3>1. ASSUME Answered', page'.status = "RESOLVING" \/ ~Answered, <<dns, page>>' # <<dns, page>>
              PROVE  FALSE
            <4>1. dns' = dns /\ dns.state = "DONE"
                BY <2>1, <3>1 DEF Answered
            <4>2. page.name # None /\ Answered
                BY <1>5, <1>7, <4>1 DEF Answered, Told
            <4> QED BY <2>4, <3>1, <4>1, <4>2 DEF Page
        <3> QED BY <2>5, <3>1 DEF Current
    <2> QED BY <1>2, <2>2, <2>3, <2>7, <2>8 DEF LInv
<1>8. ASSUME page.status = "FETCHING", UNCHANGED <<dns, cache, cache_next>> PROVE LInv' /\ Current
    <2>1. page' = page \/ page' = Page("IDLE", None)
        BY <1>4, <1>8
    <2>2. Unleased' /\ Remembers'
        BY <1>1, <1>8 DEF LInv, Unleased, Remembers, Backed, Left, Expired, Reached, Queries
    <2>3. Looking'
        BY <1>1, <1>5, <1>8, <2>1 DEF Looking, LInv, Page
    <2>4. Current
        BY <1>8, <2>1 DEF Current, Answered, Told, Page
    <2> QED BY <1>2, <2>2, <2>3, <2>4 DEF LInv
<1> QED BY <1>3, <1>6, <1>7, <1>8

\* A navigation asks again, or takes what the cache still has; it leaves what is known as it was.
LEMMA NavigationKeeps ==
    ASSUME Shape, LInv, MaxDelay <= AskTicks, NEW n \in Names, navigate(n)
    PROVE  LInv' /\ Current
<1>1. UNCHANGED <<now, dhcp, reply>> /\ dns_start(n) /\ n # None
    BY NetAssumption DEF navigate
<1>2. page' = IF dns'.state \in {"ASKING", "DONE"} THEN Page("RESOLVING", n) ELSE Page("NO_DNS", None)
    BY DEF navigate
<1>3. asked \in Seq(Names) /\ Len(asked) <= MaxQueries /\ Len(asked) \in Nat /\ MaxQueries \in Nat
      /\ reply \in [1..MaxQueries -> Reply \cup {None}]
    BY LenProperties, NetAssumption DEF LInv, Wellformed
<1>4. /\ asked' \in Seq(Names) /\ Len(asked') <= MaxQueries
      /\ Queries \subseteq Queries' /\ \A q \in Queries : asked'[q] = asked[q]
      /\ asked' # asked => asked' # <<>> /\ asked'[Len(asked')] = n
    <2>1. CASE asked' = asked
        BY <1>3, <2>1 DEF Queries
    <2>2. CASE asked' = Append(asked, n) /\ Len(asked) < MaxQueries
        <3>1. /\ asked' \in Seq(Names) /\ Len(asked') = Len(asked) + 1
              /\ \A i \in 1..Len(asked) : asked'[i] = asked[i]
              /\ asked'[Len(asked) + 1] = n
            BY <1>3, <2>2, AppendProperties
        <3>2. asked' # <<>>
            BY <1>3, <3>1, EmptySeq
        <3> QED BY <1>3, <2>2, <3>1, <3>2 DEF Queries
    <2> QED BY <1>1, <2>1, <2>2 DEF dns_start
<1>5. \A i \in Slot : cache'[i] \in {cache[i], None}
    BY <1>1 DEF dns_start, Walked
<1>6. /\ dns'.state \in {"IDLE", "DONE", "REFUSED", "ASKING"} /\ dns'.server = dns.server
      /\ dns.server = None => dns'.state = "IDLE"
      /\ dns'.state = "ASKING" => asked' = Append(asked, n) /\ dns'.asking = n
      /\ dns'.state = "DONE" => asked' = asked /\ cache_find(n) # 0 /\ dns'.answer = cache[cache_find(n)].ip
    BY <1>1 DEF dns_start, Over, Shape
<1>7. Wellformed'
    BY <1>1, <1>2, <1>4 DEF LInv, Wellformed, Page
<1>8. Unleased'
    BY <1>1, <1>6 DEF LInv, Unleased
<1>9. Looking'
    <2>1. dns'.state = "ASKING" => asked' # <<>> /\ asked'[Len(asked')] = dns'.asking
        <3>1. asked' = Append(asked, n) => Len(asked') = Len(asked) + 1 /\ asked'[Len(asked) + 1] = n
            BY <1>3, AppendProperties
        <3>2. asked' = Append(asked, n) => asked' # asked
            BY <1>3, <3>1
        <3> QED BY <1>4, <1>6, <3>2
    <2> QED BY <1>2, <1>6, <2>1 DEF Looking, Page
<1>10. Remembers'
    <2>1. ASSUME NEW i \in Slot, cache'[i] # None PROVE Backed(cache[i])'
        <3>1. cache'[i] = cache[i] /\ Backed(cache[i])
            BY <1>5, <2>1 DEF LInv, Remembers
        <3> QED BY <1>1, <1>4, <3>1 DEF Backed, Left, Expired, Reached
    <2> QED BY <2>1 DEF Remembers
<1>11. Current
    <2>1. ASSUME dns'.state = "DONE", Answered'
          PROVE  \E q \in DOMAIN reply' : Backs(q, page.name, "A", dns.answer)'
        <3> DEFINE i == cache_find(n)
        <3>1. i \in Hits(n) /\ dns'.answer = cache[i].ip /\ asked' = asked
            BY <1>6, <2>1, FindsHit
        <3>2. Backs(cache[i].ip, n, "A", cache[i].ip) /\ cache[i].ip \in DOMAIN reply
            BY <3>1, HitsAreCurrent
        <3>3. page'.name = n
            BY <1>2, <2>1 DEF Page
        <3>4. PICK q \in DOMAIN reply : Backs(q, n, "A", q) /\ q = dns'.answer
            BY <3>1, <3>2
        <3>5. Backs(q, page.name, "A", dns.answer)'
            BY <1>1, <3>1, <3>3, <3>4 DEF Backs, Queries
        <3> QED BY <1>1, <3>4, <3>5
    <2> QED BY <1>6, <2>1 DEF Current, Answered
<1> QED BY <1>7, <1>8, <1>9, <1>10, <1>11 DEF LInv

\* A page without a name asks nothing and is told nothing.
LEMMA NamelessKeeps ==
    ASSUME Shape, LInv, NavigateNumber \/ NavigateHome
    PROVE  LInv' /\ Current
<1>1. UNCHANGED <<now, dhcp, dns, cache, asked, reply>>
    BY DEF NavigateNumber, NavigateHome
<1>2. page' \in {Page("FETCHING", None), Page("IDLE", None)}
    BY DEF NavigateNumber, NavigateHome
<1>3. Wellformed' /\ Unleased'
    BY <1>1, <1>2 DEF LInv, Wellformed, Unleased, Page
<1>4. Looking' /\ Current
    BY <1>1, <1>2 DEF LInv, Looking, Current, Answered, Told, Page
<1>5. Remembers'
    BY <1>1 DEF LInv, Remembers, Backed, Left, Expired, Reached, Queries
<1> QED BY <1>3, <1>4, <1>5 DEF LInv

\* What a reply said stays said.
LEMMA SaidStaysSaid ==
    ASSUME LInv, UNCHANGED <<asked, page>>, DOMAIN reply' = DOMAIN reply,
           \A q \in DOMAIN reply : reply[q] # None => reply'[q] # None /\ reply'[q].kind = reply[q].kind,
           dns' = dns
    PROVE  Looking'
<1>1. ASSUME NEW q \in DOMAIN reply, Backs(q, page.name, "NX", None)
      PROVE  Backs(q, page.name, "NX", None)'
    BY <1>1 DEF Backs, Queries
<1> QED BY <1>1 DEF LInv, Looking

LEMMA ResolverKeeps ==
    ASSUME LInv, Resolver
    PROVE  LInv' /\ Current
<1>1. UNCHANGED <<now, dhcp, dns, cache, page, asked>>
    BY DEF Resolver
<1>2. PICK q \in Queries, r \in Reply :
        reply[q] = None /\ reply' = [reply EXCEPT ![q] = r]
    <2>1. \A t \in Ttls : [kind |-> "A", ttl |-> t, age |-> 0] \in Reply
        BY NetAssumption DEF Reply
    <2>2. \A k \in {"NX", "BAD"} : [kind |-> k, ttl |-> 0, age |-> 0] \in Reply
        BY DEF Reply
    <2> QED BY <2>1, <2>2 DEF Resolver
<1>3. /\ Wellformed'
      /\ \A x \in DOMAIN reply : reply[x] # None => reply'[x] = reply[x]
      /\ DOMAIN reply' = DOMAIN reply
    BY <1>1, <1>2 DEF LInv, Wellformed
<1>4. Looking'
    BY <1>1, <1>3, SaidStaysSaid
<1>5. Remembers'
    <2> SUFFICES ASSUME NEW i \in Slot, cache[i] # None PROVE Backed(cache[i])'
        BY <1>1 DEF Remembers
    <2>1. Backed(cache[i])
        BY DEF LInv, Remembers
    <2>2. cache[i].ip \in DOMAIN reply
        <3>1. Len(asked) \in Nat /\ MaxQueries \in Nat /\ Len(asked) <= MaxQueries
              /\ DOMAIN reply = 1..MaxQueries
            BY LenProperties, NetAssumption DEF LInv, Wellformed
        <3> QED BY <2>1, <3>1 DEF Backed, Queries
    <2>3. reply'[cache[i].ip] = reply[cache[i].ip]
        BY <1>3, <2>1, <2>2 DEF Backed
    <2> QED BY <1>1, <2>1, <2>3 DEF Backed, Left, Expired, Reached, Queries
<1>6. Unleased' /\ Current
    BY <1>1 DEF LInv, Unleased, Current
<1> QED BY <1>3, <1>4, <1>5, <1>6 DEF LInv

\* A second makes every reply a second older, and every entry's rest a second shorter.
LEMMA TickKeeps ==
    ASSUME LInv, Tick
    PROVE  LInv' /\ Current
<1>1. UNCHANGED <<dhcp, dns, cache, page, asked>> /\ now' = In(1)
    BY DEF Tick
<1>2. \A i \in Slot : cache[i] # None => In(1) # (cache[i].expires + Half) % TickMod
    BY DEF Tick
<1>3. reply \in [1..MaxQueries -> Reply \cup {None}] /\ now \in Clock /\ None \notin Reply
    BY NetAssumption DEF LInv, Wellformed, Reply
<1>4. /\ DOMAIN reply' = DOMAIN reply
      /\ \A q \in DOMAIN reply :
            \/ reply'[q] = reply[q]
            \/ reply[q] # None /\ reply'[q] = [reply[q] EXCEPT !.age = @ + 1]
    BY DEF Tick
<1>5. \A q \in DOMAIN reply :
            /\ reply[q] = None => reply'[q] = None
            /\ reply[q] # None =>
                /\ reply'[q] \in Reply /\ reply'[q] # None
                /\ reply'[q].kind = reply[q].kind /\ reply'[q].ttl = reply[q].ttl
                /\ reply[q].age \in Nat /\ reply'[q].age \in {reply[q].age, reply[q].age + 1}
    <2> SUFFICES ASSUME NEW q \in DOMAIN reply
                 PROVE  /\ reply[q] = None => reply'[q] = None
                        /\ reply[q] # None =>
                            /\ reply'[q] \in Reply
                            /\ reply'[q].kind = reply[q].kind /\ reply'[q].ttl = reply[q].ttl
                            /\ reply[q].age \in Nat /\ reply'[q].age \in {reply[q].age, reply[q].age + 1}
        BY <1>3
    <2>1. reply[q] \in Reply \cup {None}
        BY <1>3
    <2>2. CASE reply'[q] = reply[q]
        BY <2>1, <2>2 DEF Reply
    <2>3. CASE reply[q] # None /\ reply'[q] = [reply[q] EXCEPT !.age = @ + 1]
        BY <2>1, <2>3 DEF Reply
    <2> QED BY <1>4, <2>2, <2>3
<1>6. reply' \in [1..MaxQueries -> Reply \cup {None}]
    <2>1. DOMAIN reply' = 1..MaxQueries /\ \A q \in 1..MaxQueries : reply'[q] \in Reply \cup {None}
        BY <1>3, <1>4, <1>5
    <2>2. reply' = [q \in DOMAIN reply' |-> reply'[q]]
        BY <1>4 DEF Tick
    <2> QED BY <2>1, <2>2
<1>7. now' \in Clock
    <2>1. 1 \in 0..TickMod - 1
        BY ClockFacts
    <2>2. In(1) = IF now + 1 < TickMod THEN now + 1 ELSE now + 1 - TickMod
        BY <1>3, <2>1, ClockAhead DEF In
    <2> QED BY <1>1, <1>3, <2>2, ClockFacts DEF Clock
<1>8. Wellformed'
    BY <1>1, <1>6, <1>7 DEF LInv, Wellformed
<1>9. Looking'
    BY <1>1, <1>4, <1>5, SaidStaysSaid
<1>10. Remembers'
    <2> SUFFICES ASSUME NEW i \in Slot, cache[i] # None PROVE Backed(cache[i])'
        BY <1>1 DEF Remembers
    <2>1. PICK e : e = cache[i]
        OBVIOUS
    <2>2. Backed(e) /\ e.expires \in Clock /\ In(1) # (e.expires + Half) % TickMod
        BY <1>2, <2>1 DEF LInv, Remembers, Backed
    <2>3. Expired(e)' \/ (~Expired(e) /\ Left(e)' = Left(e) - 1)
        BY <1>1, <1>3, <2>2, SecondPasses
    <2>4. e.ip \in DOMAIN reply
        <3>1. Len(asked) \in Nat /\ MaxQueries \in Nat /\ Len(asked) <= MaxQueries
              /\ DOMAIN reply = 1..MaxQueries
            BY LenProperties, NetAssumption DEF LInv, Wellformed
        <3> QED BY <2>2, <3>1 DEF Backed, Queries
    <2>5. /\ reply'[e.ip] # None /\ reply'[e.ip].kind = "A" /\ reply'[e.ip].ttl = reply[e.ip].ttl
          /\ reply[e.ip].age \in Nat /\ reply'[e.ip].age \in {reply[e.ip].age, reply[e.ip].age + 1}
          /\ reply'[e.ip] \in Reply
        BY <1>5, <2>2, <2>4 DEF Backed
    <2>6. Left(e) \in Nat
        BY <1>3, <2>2, LeftIs
    <2>7. Life(reply[e.ip].ttl) \in Nat
        BY <2>5, LifeIsShort, ClockFacts DEF Reply
    <2>8. Expired(e)' \/ reply'[e.ip].age + Left(e)' <= MaxDelay + Life(reply'[e.ip].ttl)
        BY <2>2, <2>3, <2>5, <2>6, <2>7, ClockFacts DEF Backed
    <2>9. Backed(e)'
        BY <1>1, <2>2, <2>5, <2>8 DEF Backed, Queries
    <2> QED BY <1>1, <2>1, <2>9
<1>11. Unleased' /\ Current
    BY <1>1 DEF LInv, Unleased, Current
<1> QED BY <1>8, <1>9, <1>10, <1>11 DEF LInv

LEMMA LookupStep == ASSUME Shape, LInv, MaxDelay <= AskTicks, [Next]_vars PROVE LInv' /\ Current
<1>1. CASE dhcp_work BY <1>1, DhcpKeeps
<1>2. CASE browser_tick \/ net_ping BY <1>2, FrameKeeps
<1>3. CASE NavigateNumber \/ NavigateHome BY <1>3, NamelessKeeps
<1>4. CASE \E n \in Names : navigate(n) BY <1>4, NavigationKeeps
<1>5. CASE DhcpServer \/ UNCHANGED vars
    <2>1. UNCHANGED <<now, dhcp, dns, cache, page, asked, reply>>
        BY <1>5 DEF DhcpServer, vars
    <2> QED BY <2>1 DEF LInv, Wellformed, Unleased, Looking, Remembers, Backed, Left, Expired,
                        Reached, Queries, Backs, Current
<1>6. CASE Resolver BY <1>6, ResolverKeeps
<1>7. CASE Tick BY <1>7, TickKeeps
<1> QED BY <1>1, <1>2, <1>3, <1>4, <1>5, <1>6, <1>7 DEF Next

\* dns.c and browser.c: an address a page gets, from the resolver or from the cache, was given for
\* the name it asked and has not outlived its life by more than the time a query waits, and a page
\* is told of a missing name only when the resolver said so of it - for any cache and any replies
\* lost, late or repeated, as long as a reply that comes in is not older than that wait.
THEOREM AnswersAlwaysCurrent == MaxDelay <= AskTicks => (Spec => AnswerIsCurrent)
<1> SUFFICES ASSUME MaxDelay <= AskTicks PROVE Spec => AnswerIsCurrent
    OBVIOUS
<1>1. IInv /\ LInv /\ [Next]_vars =>
        LInv' /\ [/\ (Answered' /\ (page'.status = "RESOLVING" \/ ~Answered) /\ <<dns, page>>' # <<dns, page>>) =>
                        \E q \in DOMAIN reply : Backs(q, page.name, "A", dns.answer)'
                  /\ (page'.status = "NO_DNS" /\ dns'.state = "NXDOMAIN" /\ page.status = "RESOLVING") =>
                        \E q \in DOMAIN reply : Backs(q, page.name, "NX", None)]_vars
    <2> SUFFICES ASSUME IInv, LInv, [Next]_vars PROVE LInv' /\ Current
        BY DEF Current, LInv, Wellformed
    <2> QED BY LookupStep DEF IInv
<1> QED BY InitHolds, Inductive, Starts, <1>1, PTL DEF Spec, AnswerIsCurrent
-----------------------------------------------------------------------------
(* Sequence numbers. Both streams are shorter than half the circle, so the  *)
(* offsets from the initial numbers compare as the code compares.           *)

SeqNo == 0..(SeqMod - 1)
Middle == SeqMod \div 2
\* An offset at which a stream may be.
Within == 0..(Middle - 1)

LEMMA SeqFacts ==
    /\ SeqMod \in Nat /\ Middle \in Nat /\ 2 * Middle = SeqMod
    /\ MSS \in Nat \ {0} /\ SND_BUF \in Nat \ {0} /\ RCV_BUF \in Nat \ {0} /\ OOO_BUF \in Nat \ {0}
    /\ SYN_TRIES \in Nat \ {0} /\ DATA_TRIES \in Nat \ {0} /\ CWND_MAX \in Nat \ {0}
    /\ DUPACK_MAX \in Nat /\ DUPACK_MAX > 3
    /\ SND_BUF + 2 < Middle /\ RCV_BUF + 2 < Middle
    /\ 0 \in SeqNo /\ ISS \in SeqNo /\ IRS \in SeqNo /\ Within \subseteq SeqNo
<1>1. SeqMod \in Nat /\ SeqMod % 2 = 0 /\ RCV_BUF + 2 < Middle /\ RCV_BUF \in Nat
  BY TcpAssumption DEF Middle
<1>2. Middle \in Nat /\ 2 * Middle = SeqMod
  BY <1>1 DEF Middle
<1>3. Middle > 0
  BY <1>1, <1>2
<1>4. 0 \in SeqNo /\ Within \subseteq SeqNo
  BY <1>1, <1>2, <1>3 DEF SeqNo, Within
<1>5. ISS \in SeqNo /\ IRS \in SeqNo
  BY ConnectionAssumption DEF SeqNo
<1> QED  BY <1>1, <1>2, <1>4, <1>5, TcpAssumption DEF Middle

LEMMA PlusIs ==
    ASSUME NEW a \in SeqNo, NEW n \in SeqNo
    PROVE  Plus(a, n) = IF a + n < SeqMod THEN a + n ELSE a + n - SeqMod
<1>1. a \in Nat /\ n \in Nat /\ a < SeqMod /\ n < SeqMod /\ SeqMod \in Nat \ {0}
  BY SeqFacts DEF SeqNo
<1>2. CASE a + n < SeqMod  BY <1>1, <1>2 DEF Plus
<1>3. CASE a + n >= SeqMod  BY <1>1, <1>3 DEF Plus
<1> QED  BY <1>1, <1>2, <1>3

LEMMA DistIs ==
    ASSUME NEW a \in SeqNo, NEW b \in SeqNo
    PROVE  Dist(a, b) = IF a <= b THEN b - a ELSE b - a + SeqMod
<1>1. a \in Nat /\ b \in Nat /\ a < SeqMod /\ b < SeqMod /\ SeqMod \in Nat \ {0}
  BY SeqFacts DEF SeqNo
<1>2. CASE a <= b  BY <1>1, <1>2 DEF Dist
<1>3. CASE a > b  BY <1>1, <1>3 DEF Dist
<1> QED  BY <1>1, <1>2, <1>3

LEMMA PlusTyped == ASSUME NEW a \in Int, NEW n \in Int PROVE Plus(a, n) \in SeqNo
<1>1. SeqMod \in Nat \ {0}
  BY SeqFacts DEF SeqNo
<1> QED  BY <1>1 DEF Plus, SeqNo

LEMMA DistTyped == ASSUME NEW a \in Int, NEW b \in Int PROVE Dist(a, b) \in SeqNo
<1>1. SeqMod \in Nat \ {0}
  BY SeqFacts DEF SeqNo
<1> QED  BY <1>1 DEF Dist, SeqNo

\* A place of a stream and its sequence number determine one another.
LEMMA AtIs ==
    ASSUME NEW I \in SeqNo, NEW m \in SeqNo
    PROVE  /\ At(I, m) \in SeqNo /\ Dist(I, At(I, m)) = m
           /\ \A k \in Within : m + k \in SeqNo => Plus(At(I, m), k) = At(I, m + k)
<1>1. SeqMod \in Nat /\ I \in Int /\ m \in Int /\ 0 <= I /\ I < SeqMod /\ 0 <= m /\ m < SeqMod
  BY SeqFacts DEF SeqNo
<1>2. At(I, m) = IF I + m < SeqMod THEN I + m ELSE I + m - SeqMod
  BY PlusIs DEF At
<1>3. At(I, m) \in SeqNo
  BY <1>1, <1>2 DEF SeqNo
<1>4. Dist(I, At(I, m)) = m
  BY <1>1, <1>2, <1>3, DistIs
<1>5. ASSUME NEW k \in Within, m + k \in SeqNo PROVE Plus(At(I, m), k) = At(I, m + k)
  <2>1. k \in SeqNo /\ k \in Int /\ 0 <= k /\ m + k < SeqMod
    BY SeqFacts, <1>5 DEF SeqNo, Within
  <2>2. At(I, m + k) = IF I + (m + k) < SeqMod THEN I + (m + k) ELSE I + (m + k) - SeqMod
    BY PlusIs, <1>5 DEF At
  <2>3. Plus(At(I, m), k) = IF At(I, m) + k < SeqMod THEN At(I, m) + k ELSE At(I, m) + k - SeqMod
    BY <2>1, <1>3, PlusIs
  <2> QED  BY <1>1, <1>2, <2>1, <2>2, <2>3
<1> QED  BY <1>3, <1>4, <1>5

LEMMA IsAt == ASSUME NEW I \in SeqNo, NEW s \in SeqNo PROVE Dist(I, s) \in SeqNo /\ s = At(I, Dist(I, s))
<1>1. SeqMod \in Nat /\ I \in Int /\ s \in Int /\ 0 <= I /\ I < SeqMod /\ 0 <= s /\ s < SeqMod
  BY SeqFacts DEF SeqNo
<1>2. Dist(I, s) = IF I <= s THEN s - I ELSE s - I + SeqMod
  BY DistIs
<1>3. Dist(I, s) \in SeqNo
  BY <1>1, <1>2 DEF SeqNo
<1>4. At(I, Dist(I, s)) = IF I + Dist(I, s) < SeqMod THEN I + Dist(I, s) ELSE I + Dist(I, s) - SeqMod
  BY <1>3, PlusIs DEF At
<1> QED  BY <1>1, <1>2, <1>3, <1>4

\* The distance of two places, and which of them the code takes for the earlier.
LEMMA Compare ==
    ASSUME NEW I \in SeqNo, NEW m \in Within, NEW n \in Within
    PROVE  /\ m <= n => Dist(At(I, m), At(I, n)) = n - m
           /\ seq_lt(At(I, m), At(I, n)) <=> m < n
           /\ seq_le(At(I, m), At(I, n)) <=> m <= n
           /\ At(I, m) = At(I, n) <=> m = n
<1>1. /\ SeqMod \in Nat /\ Middle \in Nat /\ 2 * Middle = SeqMod /\ m \in SeqNo /\ n \in SeqNo
      /\ I \in Int /\ m \in Int /\ n \in Int
      /\ 0 <= I /\ I < SeqMod /\ 0 <= m /\ m < Middle /\ 0 <= n /\ n < Middle
  BY SeqFacts DEF SeqNo, Within
<1>2. /\ At(I, m) = IF I + m < SeqMod THEN I + m ELSE I + m - SeqMod
      /\ At(I, n) = IF I + n < SeqMod THEN I + n ELSE I + n - SeqMod
      /\ At(I, m) \in SeqNo /\ At(I, n) \in SeqNo
  BY <1>1, PlusIs, AtIs DEF At
<1>3. /\ Dist(At(I, m), At(I, n)) = IF m <= n THEN n - m ELSE n - m + SeqMod
      /\ Dist(At(I, n), At(I, m)) = IF n <= m THEN m - n ELSE m - n + SeqMod
  BY <1>1, <1>2, DistIs
<1>4. At(I, m) = At(I, n) <=> m = n
  BY <1>1, <1>2
<1> QED  BY <1>1, <1>3, <1>4 DEF seq_lt, seq_le, Middle
-----------------------------------------------------------------------------
(* The records of tcp.c's variables and of segments.                        *)

Flag == {"SYN", "ACK", "FIN", "RST", "PSH"}
Flags == SUBSET Flag
Seg == [seq : SeqNo, flags : Flags, data : Seq(Nat), ack : SeqNo, win : Nat]

Buffer(n) == {q \in Seq(Nat) : Len(q) <= n}
Conn == [st : States, iss : SeqNo, snd_una : SeqNo, snd_nxt : SeqNo, rcv_nxt : SeqNo,
         snd_wnd : Nat, cwnd : Nat, sndbuf : Buffer(SND_BUF), rcvbuf : Buffer(RCV_BUF),
         rcv_head : Nat, ooo : Buffer(OOO_BUF), ooo_seq : SeqNo, ooo_fin : BOOLEAN,
         ooo_fin_ready : BOOLEAN, fin_sent : BOOLEAN, fin_acked : BOOLEAN, fin_seen : BOOLEAN,
         fin_wanted : BOOLEAN, fin_seq : SeqNo, fin_tries : 0..SYN_TRIES,
         rexmit_tries : 0..DATA_TRIES, syn_tries : 0..SYN_TRIES, dup_ack_run : Nat,
         armed : BOOLEAN, out : SUBSET Seg]
Typed(t) == t \in Conn /\ t.rcv_head <= Len(t.rcvbuf)

\* What a function leaves alone: the sending or the receiving half.
SndSame(t, u) ==
    /\ u.iss = t.iss /\ u.snd_una = t.snd_una /\ u.snd_nxt = t.snd_nxt /\ u.sndbuf = t.sndbuf
    /\ u.fin_sent = t.fin_sent /\ u.fin_acked = t.fin_acked /\ u.fin_seq = t.fin_seq
    /\ u.fin_wanted = t.fin_wanted
RcvSame(t, u) ==
    /\ u.rcv_nxt = t.rcv_nxt /\ u.rcvbuf = t.rcvbuf /\ u.rcv_head = t.rcv_head
    /\ u.ooo = t.ooo /\ u.ooo_seq = t.ooo_seq /\ u.ooo_fin = t.ooo_fin
    /\ u.ooo_fin_ready = t.ooo_fin_ready /\ u.fin_seen = t.fin_seen

\* How far the peer may send, and that neither e nor a segment on its way out says more.
Room(t) == Dist(At(IRS, 1), t.rcv_nxt) + rcv_space(t)
EdgesFit(t, e) ==
    /\ e \in Int /\ e <= Room(t)
    /\ \A s \in t.out : "RST" \notin s.flags => Edge(s) <= Room(t)
Fits(t, u) == \A e : EdgesFit(t, e) => EdgesFit(u, e)

LEMMA Fields ==
    ASSUME NEW t \in Conn
    PROVE  /\ t.sndbuf \in Seq(Nat) /\ Len(t.sndbuf) \in Nat /\ Len(t.sndbuf) <= SND_BUF
           /\ t.rcvbuf \in Seq(Nat) /\ Len(t.rcvbuf) \in Nat /\ Len(t.rcvbuf) <= RCV_BUF
           /\ t.ooo \in Seq(Nat) /\ Len(t.ooo) \in Nat /\ Len(t.ooo) <= OOO_BUF
           /\ rcv_space(t) \in Nat /\ t.rcv_head \in Nat /\ t.snd_wnd \in Nat /\ t.cwnd \in Nat
           /\ t.iss \in SeqNo /\ t.snd_una \in SeqNo /\ t.snd_nxt \in SeqNo /\ t.rcv_nxt \in SeqNo
           /\ t.ooo_seq \in SeqNo /\ t.fin_seq \in SeqNo /\ t.out \subseteq Seg /\ t.st \in States
           /\ t.fin_sent \in BOOLEAN /\ t.fin_acked \in BOOLEAN /\ t.fin_seen \in BOOLEAN
           /\ t.fin_wanted \in BOOLEAN /\ t.ooo_fin \in BOOLEAN /\ t.ooo_fin_ready \in BOOLEAN
           /\ t.rexmit_tries \in 0..DATA_TRIES /\ t.syn_tries \in 0..SYN_TRIES
           /\ t.fin_tries \in 0..SYN_TRIES /\ t.dup_ack_run \in Nat
<1>1. t.sndbuf \in Buffer(SND_BUF) /\ t.rcvbuf \in Buffer(RCV_BUF) /\ t.ooo \in Buffer(OOO_BUF)
  BY DEF Conn
<1>2. rcv_space(t) \in Nat
  BY <1>1, SeqFacts DEF Buffer, rcv_space
<1> QED  BY <1>1, <1>2 DEF Conn, Buffer

LEMMA SeqNoInt == \A n \in SeqNo : n \in Int /\ n \in Nat /\ n >= 0
BY SeqFacts DEF SeqNo

LEMMA Between == ASSUME NEW a \in SeqNo, NEW b \in SeqNo PROVE Dist(a, b) \in Nat
<1>1. Dist(a, b) \in SeqNo
  BY SeqNoInt, DistTyped
<1> QED  BY <1>1, SeqNoInt

LEMMA FirstByte == At(IRS, 1) \in SeqNo /\ At(ISS, 1) \in SeqNo
BY SeqFacts, SeqNoInt, PlusTyped DEF At

LEMMA LeastIs ==
    ASSUME NEW a \in Int, NEW b \in Int
    PROVE  Least(a, b) \in Int /\ Least(a, b) <= a /\ Least(a, b) <= b /\ Least(a, b) \in {a, b}
BY DEF Least

LEMMA EdgeTyped == ASSUME NEW s \in Seg PROVE Edge(s) \in Int
<1>1. s.ack \in SeqNo /\ s.win \in Nat
  BY DEF Seg
<1>2. Dist(At(IRS, 1), s.ack) \in Nat
  BY <1>1, FirstByte, Between
<1> QED  BY <1>1, <1>2 DEF Edge

LEMMA RoomTyped ==
    ASSUME NEW t \in Conn
    PROVE  Room(t) \in Int /\ rcv_space(t) <= Room(t)
<1>1. t.rcv_nxt \in SeqNo /\ rcv_space(t) \in Nat
  BY Fields
<1>2. Dist(At(IRS, 1), t.rcv_nxt) \in Nat
  BY <1>1, FirstByte, Between
<1> QED  BY <1>1, <1>2 DEF Room

\* Part of a sequence.
LEMMA Cut ==
    ASSUME NEW q \in Seq(Nat), NEW m \in Nat \ {0}, NEW n \in Int, n <= Len(q)
    PROVE  /\ SubSeq(q, m, n) \in Seq(Nat)
           /\ Len(SubSeq(q, m, n)) = IF m <= n THEN n - m + 1 ELSE 0
           /\ \A i \in 1..(n - m + 1) : SubSeq(q, m, n)[i] = q[m + i - 1]
<1>1. Len(q) \in Nat /\ \A i \in 1..Len(q) : q[i] \in Nat
  OBVIOUS
<1>2. \A i \in m..n : q[i] \in Nat
  BY <1>1
<1> QED  BY <1>2, SubSeqProperties

LEMMA SegmentTyped ==
    ASSUME NEW t \in Conn, NEW q \in SeqNo, NEW fl \in Flags, NEW d \in Seq(Nat)
    PROVE  LET s == Segment(t, q, fl, d) IN
           s \in Seg /\ s.seq = q /\ s.flags = fl /\ s.data = d /\ Edge(s) <= Room(t)
<1> DEFINE s == Segment(t, q, fl, d)
<1>1. rcv_space(t) \in Nat /\ t.rcv_nxt \in SeqNo /\ 0 \in SeqNo
  BY Fields, SeqFacts
<1>2. s \in Seg /\ s.seq = q /\ s.flags = fl /\ s.data = d /\ s.win = rcv_space(t)
      /\ ("ACK" \in fl => s.ack = t.rcv_nxt)
  BY <1>1 DEF Seg, Segment
<1>3. Edge(s) <= Room(t)
  <2>1. CASE "ACK" \in fl
    <3>1. Edge(s) = rcv_space(t) + Dist(At(IRS, 1), t.rcv_nxt)
      BY <1>2, <2>1 DEF Edge
    <3>2. Dist(At(IRS, 1), t.rcv_nxt) \in Nat
      BY <1>1, FirstByte, Between
    <3> QED  BY <1>1, <3>1, <3>2 DEF Room
  <2>2. CASE "ACK" \notin fl
    <3>1. Edge(s) = rcv_space(t) + 0
      BY <1>2, <2>2 DEF Edge
    <3> QED  BY <3>1, <1>1, RoomTyped
  <2> QED  BY <2>1, <2>2
<1> QED  BY <1>2, <1>3

LEMMA SendShape ==
    ASSUME NEW t, Typed(t), NEW q \in SeqNo, NEW fl \in Flags, NEW d \in Seq(Nat)
    PROVE  LET u == send_seg(t, q, fl, d) IN
           /\ Typed(u) /\ u.st = t.st /\ SndSame(t, u) /\ RcvSame(t, u)
           /\ (\A x \in u.out : x \in t.out \/ x = Segment(t, q, fl, d)) /\ u.syn_tries = t.syn_tries
           /\ u.fin_tries = t.fin_tries /\ u.rexmit_tries = t.rexmit_tries
           /\ Fits(t, u)
<1> DEFINE s == Segment(t, q, fl, d)
           u == send_seg(t, q, fl, d)
<1>1. t \in Conn /\ t.rcv_head <= Len(t.rcvbuf)
  BY DEF Typed
<1>2. s \in Seg /\ Edge(s) <= Room(t)
  BY <1>1, SegmentTyped
<1>3. u = [t EXCEPT !.out = t.out \cup {s}]
  BY DEF send_seg
<1>4. t.out \cup {s} \in SUBSET Seg
  BY <1>1, <1>2, Fields
<1> HIDE DEF s, u
<1>5. /\ u \in Conn /\ u.st = t.st /\ SndSame(t, u) /\ RcvSame(t, u) /\ u.out = t.out \cup {s}
      /\ u.syn_tries = t.syn_tries /\ u.fin_tries = t.fin_tries /\ u.rexmit_tries = t.rexmit_tries
  BY <1>1, <1>3, <1>4 DEF Conn, SndSame, RcvSame
<1>6. Typed(u) /\ Room(u) = Room(t)
  BY <1>1, <1>5 DEF Typed, RcvSame, Room, rcv_space
<1>7. Fits(t, u)
  BY <1>2, <1>5, <1>6 DEF EdgesFit, Fits
<1> QED  BY <1>5, <1>6, <1>7 DEF s, u
-----------------------------------------------------------------------------
(* The sending half: W bytes written, H sequence numbers held by the peer.  *)

Una(t) == Dist(ISS, t.snd_una)
Nxt(t) == Dist(ISS, t.snd_nxt)
Outgoing(W, H) == W \in Nat /\ H \in Nat /\ H <= W + 2 /\ W + 2 \in Within

\* Where snd_una and snd_nxt are, what sndbuf holds, and what the FIN flags say.
Sender(t, W, H) ==
    /\ 1 <= Una(t) /\ Una(t) <= H /\ Una(t) <= Nxt(t)
    /\ IF t.fin_sent THEN Nxt(t) = W + 2 /\ t.fin_seq = At(ISS, W + 1) /\ t.fin_wanted
                     ELSE Nxt(t) <= W + 1
    /\ IF t.fin_acked THEN t.fin_sent /\ Una(t) = W + 2 /\ Len(t.sndbuf) = 0
                      ELSE Una(t) <= W + 1 /\ Len(t.sndbuf) = W + 1 - Una(t)
    /\ \A i \in 1..Len(t.sndbuf) : t.sndbuf[i] = W - Len(t.sndbuf) + i

\* What may be on the wire: the SYN, a byte written, or the FIN if it is wanted.
Sent(x, W, fin) ==
    \/ x = <<ISS, 0>>
    \/ \E n \in 1..W : x = <<At(ISS, n), n>>
    \/ fin /\ x = <<At(ISS, W + 1), 0>>
Carries(s, W, fin) == \A x \in Marks(s) : Sent(x, W, fin)
SndOut(t, W) == \A s \in t.out : Carries(s, W, t.fin_wanted)
SendOK(t, W, H) == Typed(t) /\ Sender(t, W, H) /\ SndOut(t, W)

\* A function of the sending half, and one of the receiving half.
SendStep(t, u) ==
    /\ Typed(u) /\ u.st = t.st /\ u.iss = t.iss /\ u.fin_wanted = t.fin_wanted /\ RcvSame(t, u)
    /\ Fits(t, u)
RecvStep(t, u) ==
    /\ Typed(u) /\ u.st = t.st /\ SndSame(t, u)
    /\ \A W \in Nat : SndOut(t, W) => SndOut(u, W)

LEMMA Places ==
    ASSUME NEW t, Typed(t)
    PROVE  /\ Una(t) \in Int /\ Nxt(t) \in Int /\ Una(t) \in SeqNo /\ Nxt(t) \in SeqNo
           /\ t.snd_una = At(ISS, Una(t)) /\ t.snd_nxt = At(ISS, Nxt(t))
<1>1. t.snd_una \in SeqNo /\ t.snd_nxt \in SeqNo /\ ISS \in SeqNo
  BY Fields, SeqFacts DEF Typed
<1> QED  BY <1>1, IsAt, SeqNoInt DEF Una, Nxt

\* A segment that takes no sequence number but its data's.
Plain(fl) == fl \cap {"SYN", "FIN"} = {}

\* A segment that is neither SYN nor FIN and has no data takes no number.
LEMMA NoMarks ==
    ASSUME NEW s, Plain(s.flags), s.data \in Seq(Nat), Len(s.data) = 0
    PROVE  Marks(s) = {}
<1>1. DOMAIN s.data = {}
  OBVIOUS
<1> QED  BY <1>1 DEF Marks, Plain

LEMMA SameSends ==
    ASSUME NEW t, NEW u, SndSame(t, u), NEW W, NEW H
    PROVE  Sender(t, W, H) <=> Sender(u, W, H)
BY DEF SndSame, Sender, Una, Nxt

\* A segment of the bytes from offset q on.
LEMMA BytesCarried ==
    ASSUME NEW W, NEW H, Outgoing(W, H), NEW s \in Seg, NEW fin \in BOOLEAN,
           Plain(s.flags),
           NEW q \in Int, 1 <= q, q + Len(s.data) <= W + 1, s.seq = At(ISS, q),
           \A i \in 1..Len(s.data) : s.data[i] = q + i - 1
    PROVE  Carries(s, W, fin)
<1>1. s.data \in Seq(Nat) /\ DOMAIN s.data = 1..Len(s.data) /\ Len(s.data) \in Nat
  BY DEF Seg
<1>2. W \in Int /\ 0 <= W /\ W + 2 < Middle /\ Middle \in Int /\ 2 * Middle = SeqMod
  BY SeqFacts DEF Outgoing, Within
<1>3. ASSUME NEW i \in 1..Len(s.data)
      PROVE  Sent(<<Plus(s.seq, i - 1), s.data[i]>>, W, fin)
  <2> DEFINE l == Len(s.data)
  <2>5. i \in Int /\ 1 <= i /\ i <= l /\ l \in Int /\ q + l <= W + 1 /\ q + (i - 1) \in Int
    BY <1>1
  <2> HIDE DEF l
  <2>1. q \in SeqNo /\ q + (i - 1) \in SeqNo /\ q + (i - 1) \in 1..W
    BY <1>2, <2>5 DEF SeqNo
  <2>4. i - 1 \in Within
    BY <1>2, <2>5 DEF Within
  <2>2. Plus(s.seq, i - 1) = At(ISS, q + (i - 1))
    BY <2>1, <2>4, AtIs, SeqFacts
  <2>3. s.data[i] = q + (i - 1)
    BY <1>1
  <2> QED  BY <2>1, <2>2, <2>3 DEF Sent
<1> QED  BY <1>1, <1>3 DEF Carries, Marks, Plain

LEMMA PureAck ==
    ASSUME NEW t, Typed(t), NEW q \in SeqNo, NEW fl \in Flags, Plain(fl),
           NEW d \in Seq(Nat), Len(d) = 0
    PROVE  LET u == send_seg(t, q, fl, d) IN
           /\ SendStep(t, u) /\ RecvStep(t, u)
           /\ \A W, H : SendOK(t, W, H) => SendOK(u, W, H)
<1> DEFINE u == send_seg(t, q, fl, d)
           s == Segment(t, q, fl, d)
<1>2. /\ Typed(u) /\ u.st = t.st /\ SndSame(t, u) /\ RcvSame(t, u) /\ (\A x \in u.out : x \in t.out \/ x = s)
      /\ Fits(t, u)
  BY SendShape
<1>3. Marks(s) = {}
  <2>1. s.flags = fl /\ s.data = d
    BY DEF Segment
  <2> HIDE DEF s
  <2> QED  BY <2>1, NoMarks
<1>4. \A W : SndOut(t, W) => SndOut(u, W)
  BY <1>2, <1>3 DEF SndOut, Carries, SndSame
<1> QED  BY <1>2, <1>4, SameSends DEF SendStep, RecvStep, SendOK, SndSame

LEMMA AckStep ==
    ASSUME NEW t, Typed(t)
    PROVE  /\ SendStep(t, SendAck(t)) /\ RecvStep(t, SendAck(t))
           /\ \A W, H : SendOK(t, W, H) => SendOK(SendAck(t), W, H)
<1>1. t.snd_nxt \in SeqNo /\ {"ACK"} \in Flags /\ Plain({"ACK"}) /\ <<>> \in Seq(Nat) /\ Len(<<>>) = 0
  BY Fields DEF Typed, Flag, Flags, Plain
<1> QED  BY <1>1, PureAck DEF SendAck
-----------------------------------------------------------------------------
(* Sending what the windows allow.                                          *)

\* The segments of PushData.
Pieces(total) == 0..((total - 1) \div MSS)
First(t, inflight, total, k) ==
    Segment(t, Plus(t.snd_nxt, k * MSS), {"ACK", "PSH"},
            SubSeq(t.sndbuf, inflight + k * MSS + 1, inflight + Least((k + 1) * MSS, total)))

\* Where a piece starts and ends within the total.
LEMMA PieceIs ==
    ASSUME NEW total \in Int, total > 0, NEW k \in Pieces(total)
    PROVE  /\ k * MSS \in Int /\ 0 <= k * MSS /\ k * MSS < total
           /\ Least((k + 1) * MSS, total) \in Int /\ Least((k + 1) * MSS, total) <= total
           /\ Least((k + 1) * MSS, total) > k * MSS
<1> DEFINE d == (total - 1) \div MSS
<1>1. MSS \in Int /\ MSS > 0 /\ MSS \in Nat \ {0}
  BY SeqFacts
<1>2. d \in Int /\ d * MSS \in Int /\ d * MSS <= total - 1
  BY <1>1
<1> HIDE DEF d
<1>3. k \in Int /\ 0 <= k /\ k <= d
  BY <1>2 DEF Pieces, d
<1>4. k * MSS \in Int /\ 0 <= k * MSS
  BY <1>1, <1>3
<1>5. k * MSS <= d * MSS
  BY <1>1, <1>2, <1>3
<1>6. (k + 1) * MSS = k * MSS + MSS
  BY <1>1, <1>3
<1> DEFINE a == k * MSS
<1> HIDE DEF a
<1>9. k * MSS < total
  BY <1>2, <1>4, <1>5
<1>7. a \in Int /\ a < total /\ (k + 1) * MSS = a + MSS /\ 0 <= a
  BY <1>4, <1>6, <1>9 DEF a
<1>8. Least(a + MSS, total) \in Int /\ Least(a + MSS, total) <= total /\ Least(a + MSS, total) > a
  BY <1>7, <1>1 DEF Least
<1> QED  BY <1>7, <1>8 DEF a

LEMMA PieceTyped ==
    ASSUME NEW t, Typed(t), NEW inflight \in Nat, NEW total \in Int, total > 0,
           inflight + total <= Len(t.sndbuf), NEW k \in Pieces(total)
    PROVE  LET s == First(t, inflight, total, k) IN
           /\ s \in Seg /\ Edge(s) <= Room(t) /\ s.seq = Plus(t.snd_nxt, k * MSS)
           /\ Plain(s.flags) /\ Len(s.data) \in Nat /\ k * MSS + Len(s.data) <= total
           /\ \A i \in 1..Len(s.data) :
                s.data[i] = t.sndbuf[inflight + k * MSS + i] /\ inflight + k * MSS + i \in 1..Len(t.sndbuf)
<1> DEFINE a == k * MSS
           b == Least((k + 1) * MSS, total)
           from == inflight + a + 1
           to == inflight + b
           e == SubSeq(t.sndbuf, from, to)
           n == Plus(t.snd_nxt, a)
           fl == {"ACK", "PSH"}
           s == Segment(t, n, fl, e)
<1>1. a \in Int /\ 0 <= a /\ a < total /\ b \in Int /\ b <= total /\ b > a
  BY PieceIs
<1> HIDE DEF a, b
<1>2. t \in Conn /\ t.sndbuf \in Seq(Nat) /\ Len(t.sndbuf) \in Nat /\ t.snd_nxt \in Int
  BY Fields, SeqNoInt DEF Typed
<1>3. from \in Nat \ {0} /\ to \in Int /\ to <= Len(t.sndbuf) /\ to - from + 1 = b - a /\ b - a \in Nat
  BY <1>1, <1>2
<1>15. from = inflight + a + 1 /\ to = inflight + b
  OBVIOUS
<1> HIDE DEF from, to
<1>4. /\ e \in Seq(Nat) /\ Len(e) = IF from <= to THEN to - from + 1 ELSE 0
      /\ \A i \in 1..(to - from + 1) : e[i] = t.sndbuf[from + i - 1]
  <2> DEFINE q == t.sndbuf
  <2>1. q \in Seq(Nat) /\ from \in Nat \ {0} /\ to \in Int /\ to <= Len(q)
    BY <1>2, <1>3
  <2> HIDE DEF q
  <2>2. /\ SubSeq(q, from, to) \in Seq(Nat)
        /\ Len(SubSeq(q, from, to)) = IF from <= to THEN to - from + 1 ELSE 0
        /\ \A i \in 1..(to - from + 1) : SubSeq(q, from, to)[i] = q[from + i - 1]
    BY <2>1, Cut
  <2> QED  BY <2>2 DEF q
<1> HIDE DEF e
<1>5. Len(e) = b - a
  BY <1>1, <1>3, <1>4, <1>15
<1>6. \A i \in 1..Len(e) : e[i] = t.sndbuf[inflight + a + i] /\ inflight + a + i \in 1..Len(t.sndbuf)
  <2> SUFFICES ASSUME NEW i \in 1..Len(e)
               PROVE  e[i] = t.sndbuf[inflight + a + i] /\ inflight + a + i \in 1..Len(t.sndbuf)
    OBVIOUS
  <2>1. i \in 1..(to - from + 1) /\ from + i - 1 = inflight + a + i
    BY <1>1, <1>3, <1>5, <1>15
  <2>2. inflight + a + i \in 1..Len(t.sndbuf)
    BY <1>1, <1>2, <1>3, <1>5, <1>15
  <2> QED  BY <1>4, <2>1, <2>2
<1>7. n \in SeqNo
  BY <1>1, <1>2, PlusTyped
<1> HIDE DEF n
<1>8. fl \in Flags /\ Plain(fl)
  BY DEF Flags, Flag, Plain
<1> HIDE DEF fl
<1>9. s \in Seg /\ Edge(s) <= Room(t)
  BY <1>2, <1>4, <1>7, <1>8, SegmentTyped
<1>10. s.seq = n /\ s.flags = fl /\ s.data = e
  BY DEF Segment
<1>11. s = First(t, inflight, total, k)
  BY DEF First, n, fl, e, a, b, from, to
<1> HIDE DEF s
<1>12. /\ s \in Seg /\ Edge(s) <= Room(t) /\ s.seq = Plus(t.snd_nxt, k * MSS)
       /\ Plain(s.flags) /\ Len(s.data) \in Nat
  BY <1>1, <1>5, <1>8, <1>9, <1>10 DEF n, a
<1>13. k * MSS + Len(s.data) <= total
  BY <1>1, <1>5, <1>10 DEF a
<1>14. \A i \in 1..Len(s.data) :
          s.data[i] = t.sndbuf[inflight + k * MSS + i] /\ inflight + k * MSS + i \in 1..Len(t.sndbuf)
  BY <1>6, <1>10 DEF a
<1> QED  BY <1>11, <1>12, <1>13, <1>14

\* PushData sends the next total bytes of sndbuf and nothing else.
LEMMA PushDataShape ==
    ASSUME NEW t, Typed(t), NEW inflight \in Nat, NEW total \in Int,
           inflight + total <= Len(t.sndbuf)
    PROVE  LET u == PushData(t, inflight, total) IN
           /\ SendStep(t, u) /\ u.sndbuf = t.sndbuf /\ u.snd_una = t.snd_una
           /\ u.fin_sent = t.fin_sent /\ u.fin_acked = t.fin_acked /\ u.fin_seq = t.fin_seq
           /\ u.snd_nxt = (IF total <= 0 THEN t.snd_nxt ELSE Plus(t.snd_nxt, total))
           /\ \A s \in u.out : \/ s \in t.out
                               \/ total > 0 /\ \E k \in Pieces(total) : s = First(t, inflight, total, k)
<1>1. CASE total <= 0
  BY <1>1 DEF PushData, SendStep, RcvSame, EdgesFit, Fits
<1>2. CASE total > 0
  <2> DEFINE more == {First(t, inflight, total, k) : k \in Pieces(total)}
             n == Plus(t.snd_nxt, total)
             o == t.out \cup more
             u == PushData(t, inflight, total)
  <2>1. t \in Conn /\ t.rcv_head <= Len(t.rcvbuf) /\ t.snd_nxt \in Int
    BY Fields, SeqNoInt DEF Typed
  <2>2. n \in SeqNo
    BY <2>1, PlusTyped
  <2>3. \A s \in more : s \in Seg /\ Edge(s) <= Room(t)
    BY <1>2, PieceTyped
  <2>4. u = [t EXCEPT !.out = o, !.snd_nxt = n, !.armed = TRUE]
    BY <1>2 DEF PushData, First, Pieces
  <2>5. \A s \in o : s \in t.out \/ \E k \in Pieces(total) : s = First(t, inflight, total, k)
    OBVIOUS
  <2>6. o \in SUBSET Seg
    BY <2>1, <2>3, Fields
  <2>7. \A s \in o : s \in t.out \/ Edge(s) <= Room(t)
    BY <2>3
  <2> HIDE DEF o, n, u
  <2>8. /\ u \in Conn /\ u.st = t.st /\ u.iss = t.iss /\ u.fin_wanted = t.fin_wanted /\ RcvSame(t, u)
        /\ u.sndbuf = t.sndbuf /\ u.snd_una = t.snd_una /\ u.snd_nxt = n /\ u.out = o
        /\ u.fin_sent = t.fin_sent /\ u.fin_acked = t.fin_acked /\ u.fin_seq = t.fin_seq
    BY <2>1, <2>2, <2>4, <2>6 DEF Conn, RcvSame
  <2>9. Typed(u) /\ Room(u) = Room(t)
    BY <2>1, <2>8 DEF Typed, RcvSame, Room, rcv_space
  <2>10. Fits(t, u)
    BY <2>7, <2>8, <2>9 DEF EdgesFit, Fits
  <2>11. SendStep(t, u)
    BY <2>8, <2>9, <2>10 DEF SendStep
  <2> QED  BY <1>2, <2>5, <2>8, <2>11 DEF n, u
<1> QED  BY <1>1, <1>2

\* Where a sender stands, as integers.
LEMMA Standing ==
    ASSUME NEW t, NEW W, NEW H, Outgoing(W, H), Typed(t), Sender(t, W, H)
    PROVE  /\ Una(t) \in Int /\ Nxt(t) \in Int /\ Una(t) \in Within /\ Nxt(t) \in Within
           /\ t.snd_una = At(ISS, Una(t)) /\ t.snd_nxt = At(ISS, Nxt(t))
           /\ Len(t.sndbuf) \in Nat /\ W \in Int /\ 0 <= W /\ H \in Int /\ H <= W + 2
           /\ Middle \in Int /\ 2 * Middle = SeqMod /\ W + 2 < Middle
           /\ 1 <= Una(t) /\ Una(t) <= Nxt(t) /\ Nxt(t) <= W + 2 /\ Una(t) <= H
           /\ Dist(t.snd_una, t.snd_nxt) = Nxt(t) - Una(t) /\ Dist(t.snd_una, t.snd_nxt) \in Nat
           /\ t.fin_sent \in BOOLEAN /\ t.fin_acked \in BOOLEAN /\ t.fin_wanted \in BOOLEAN
           /\ t.snd_una \in SeqNo /\ t.snd_nxt \in SeqNo /\ ISS \in SeqNo
<1>1. /\ Una(t) \in Int /\ Nxt(t) \in Int
      /\ t.snd_una = At(ISS, Una(t)) /\ t.snd_nxt = At(ISS, Nxt(t))
  BY Places
<1>2. /\ Len(t.sndbuf) \in Nat /\ t.fin_sent \in BOOLEAN /\ t.fin_acked \in BOOLEAN
      /\ t.fin_wanted \in BOOLEAN /\ t.snd_una \in SeqNo /\ t.snd_nxt \in SeqNo
  BY Fields DEF Typed
<1>3. W \in Int /\ 0 <= W /\ H \in Int /\ H <= W + 2 /\ W + 2 < Middle /\ Middle \in Int /\ 2 * Middle = SeqMod
  BY SeqFacts DEF Outgoing, Within
<1>4. 1 <= Una(t) /\ Una(t) <= Nxt(t) /\ Una(t) <= H
  BY DEF Sender
<1>5. Nxt(t) <= W + 2
  <2>1. CASE t.fin_sent
    BY <1>1, <1>3, <2>1 DEF Sender
  <2>2. CASE ~t.fin_sent
    <3>1. Nxt(t) <= W + 1
      BY <2>2 DEF Sender
    <3> QED  BY <1>1, <1>3, <3>1
  <2> QED  BY <2>1, <2>2
<1>6. Una(t) \in Within /\ Nxt(t) \in Within /\ ISS \in SeqNo
  BY <1>1, <1>3, <1>4, <1>5, SeqFacts DEF Within
<1>7. Dist(t.snd_una, t.snd_nxt) = Nxt(t) - Una(t) /\ Nxt(t) - Una(t) \in Nat
  BY <1>1, <1>4, <1>6, Compare
<1> QED  BY <1>1, <1>2, <1>3, <1>4, <1>5, <1>6, <1>7

\* What of the bytes is in flight and what room there is.
LEMMA PushDataSends ==
    ASSUME NEW t, NEW W, NEW H, Outgoing(W, H), SendOK(t, W, H), NEW total \in Int,
           Dist(t.snd_una, t.snd_nxt) + total <= Len(t.sndbuf)
    PROVE  SendOK(PushData(t, Dist(t.snd_una, t.snd_nxt), total), W, H)
<1> DEFINE g == Dist(t.snd_una, t.snd_nxt)
           u == PushData(t, g, total)
           a == Una(t)
           n == Nxt(t)
           L == Len(t.sndbuf)
<1>1. Typed(t) /\ Sender(t, W, H) /\ SndOut(t, W)
  BY DEF SendOK
<1>2. a \in Int /\ n \in Int /\ 1 <= a /\ a <= n /\ a <= H /\ g = n - a /\ g \in Nat
  BY <1>1, Standing
<1>5. a \in Within /\ n \in Within /\ t.snd_una = At(ISS, a) /\ t.snd_nxt = At(ISS, n)
      /\ t.fin_wanted \in BOOLEAN
  BY <1>1, Standing
<1>3. L \in Nat /\ W \in Int /\ 0 <= W /\ W + 2 < Middle /\ Middle \in Int /\ 2 * Middle = SeqMod
  BY <1>1, Standing
<1>4. t.fin_sent \in BOOLEAN /\ (t.fin_sent => n = W + 2) /\ (t.fin_acked => t.fin_sent)
  BY <1>1, Fields DEF Sender, Typed
<1>8. IF t.fin_acked THEN L = 0 /\ t.fin_sent ELSE L = W + 1 - a
  BY <1>1 DEF Sender
<1>9. \A i \in 1..L : t.sndbuf[i] = W - L + i
  BY <1>1 DEF Sender
<1> HIDE DEF g, L, a, n
<1>20. g + total <= L
  BY DEF g, L
<1>10. CASE total <= 0
  BY <1>10 DEF PushData
<1>11. CASE total > 0
  <2>8. ~t.fin_acked
    BY <1>2, <1>3, <1>8, <1>11, <1>20
  <2>9. L = W + 1 - a
    BY <1>8, <2>8
  <2>10. n + total <= W + 1
    BY <1>2, <1>3, <1>11, <1>20, <2>9
  <2>11. ~t.fin_sent
    BY <1>2, <1>3, <1>4, <1>11, <2>10
  <2>1. ~t.fin_acked /\ ~t.fin_sent /\ L = W + 1 - a /\ n + total <= W + 1
    BY <2>8, <2>9, <2>10, <2>11
  <2>2. /\ SendStep(t, u) /\ u.sndbuf = t.sndbuf /\ u.snd_una = t.snd_una
        /\ u.fin_sent = t.fin_sent /\ u.fin_acked = t.fin_acked /\ u.fin_seq = t.fin_seq
        /\ u.snd_nxt = Plus(t.snd_nxt, total)
        /\ \A s \in u.out : s \in t.out \/ \E k \in Pieces(total) : s = First(t, g, total, k)
    BY <1>1, <1>2, <1>11, <1>20, PushDataShape DEF L
  <2>3. n \in SeqNo /\ total \in Within /\ n + total \in Within /\ n + total \in SeqNo
    BY <1>2, <1>3, <1>11, <2>1, SeqFacts DEF Within
  <2>4. u.snd_nxt = At(ISS, n + total)
    BY <1>5, <2>2, <2>3, AtIs, SeqFacts
  <2>5. Una(u) = a /\ Nxt(u) = n + total
    BY <2>2, <2>3, <2>4, AtIs, SeqFacts DEF Una, Nxt, a
  <2>6. Sender(u, W, H)
    <3>1. 1 <= Una(u) /\ Una(u) <= H /\ Una(u) <= Nxt(u) /\ Una(u) <= W + 1
      BY <1>1, <1>2, <1>3, <1>11, <2>1, <2>3, <2>5 DEF Sender, a
    <3>2. ~u.fin_sent /\ ~u.fin_acked /\ Nxt(u) <= W + 1 /\ Len(u.sndbuf) = W + 1 - Una(u)
      BY <2>1, <2>2, <2>5 DEF L
    <3>3. \A i \in 1..Len(u.sndbuf) : u.sndbuf[i] = W - Len(u.sndbuf) + i
      BY <1>9, <2>2 DEF L
    <3> QED  BY <3>1, <3>2, <3>3 DEF Sender
  <2>7. SndOut(u, W)
    <3> SUFFICES ASSUME NEW s \in u.out PROVE Carries(s, W, u.fin_wanted)
      BY DEF SndOut
    <3>1. u.fin_wanted = t.fin_wanted
      BY <2>2 DEF SendStep
    <3>2. CASE s \in t.out
      BY <1>1, <3>1, <3>2 DEF SndOut
    <3>3. ASSUME NEW k \in Pieces(total), s = First(t, g, total, k)
          PROVE  Carries(s, W, t.fin_wanted)
      <4> DEFINE b == k * MSS
      <4>1. /\ s \in Seg /\ s.seq = Plus(t.snd_nxt, b) /\ Plain(s.flags) /\ Len(s.data) \in Nat
            /\ b + Len(s.data) <= total
            /\ \A i \in 1..Len(s.data) : s.data[i] = t.sndbuf[g + b + i] /\ g + b + i \in 1..L
        BY <1>1, <1>2, <1>11, <1>20, <3>3, PieceTyped DEF L
      <4>7. \A i \in 1..Len(s.data) : s.data[i] = t.sndbuf[g + b + i] /\ g + b + i \in 1..L
        BY <4>1
      <4>8. Len(s.data) \in Nat /\ b + Len(s.data) <= total
        BY <4>1
      <4>2. b \in Int /\ 0 <= b /\ b < total
        BY <1>11, PieceIs
      <4> HIDE DEF b
      <4>3. b \in Within /\ n + b \in SeqNo /\ n + b \in Int /\ 1 <= n + b
        BY <1>2, <1>3, <2>3, <4>2 DEF Within, SeqNo
      <4>4. s.seq = At(ISS, n + b)
        BY <1>5, <4>1, <4>3, AtIs, SeqFacts
      <4>5. (n + b) + Len(s.data) <= W + 1
        <5> DEFINE l == Len(s.data)
        <5>1. l \in Int /\ b + l <= total
          BY <4>8
        <5> HIDE DEF l
        <5>2. n \in Int /\ W \in Int /\ n + total <= W + 1 /\ b \in Int
          BY <1>2, <1>3, <2>10, <4>2
        <5>3. (n + b) + l <= W + 1
          BY <5>1, <5>2
        <5> QED  BY <5>3 DEF l
      <4>6. \A i \in 1..Len(s.data) : s.data[i] = (n + b) + i - 1
        <5> SUFFICES ASSUME NEW i \in 1..Len(s.data) PROVE s.data[i] = (n + b) + i - 1
          OBVIOUS
        <5>1. s.data[i] = t.sndbuf[g + b + i] /\ g + b + i \in 1..L
          BY <4>7
        <5>2. t.sndbuf[g + b + i] = W - L + (g + b + i)
          BY <1>9, <5>1
        <5>3. i \in Int
          BY <4>1
        <5>4. W - L + (g + b + i) = (n + b) + i - 1
          BY <1>2, <1>3, <2>9, <4>2, <5>3
        <5> QED  BY <5>1, <5>2, <5>4
      <4> QED  BY <1>5, <4>1, <4>3, <4>4, <4>5, <4>6, BytesCarried
    <3> QED  BY <2>2, <3>1, <3>2, <3>3
  <2> QED  BY <2>2, <2>6, <2>7 DEF SendOK, SendStep, u, g
<1> QED  BY <1>10, <1>11

FinDue(t) == t.fin_wanted /\ ~t.fin_sent /\ t.snd_nxt = Plus(t.snd_una, Len(t.sndbuf))

LEMMA PushFinShape ==
    ASSUME NEW t, Typed(t)
    PROVE  LET u == PushFin(t) IN
           /\ SendStep(t, u)
           /\ ~FinDue(t) => u = t
           /\ FinDue(t) =>
                /\ u.sndbuf = t.sndbuf /\ u.snd_una = t.snd_una /\ u.fin_acked = t.fin_acked
                /\ u.fin_sent = TRUE /\ u.fin_seq = t.snd_nxt /\ u.snd_nxt = Plus(t.snd_nxt, 1)
                /\ \A s \in u.out : s \in t.out \/ Marks(s) = {<<t.snd_nxt, 0>>}
<1>1. CASE ~FinDue(t)
  BY <1>1 DEF FinDue, PushFin, SendStep, RcvSame, EdgesFit, Fits
<1>2. CASE FinDue(t)
  <2> DEFINE fl == {"FIN", "ACK"}
             d == <<>>
             s == Segment(t, t.snd_nxt, fl, d)
             v == send_seg(t, t.snd_nxt, fl, d)
             n == Plus(t.snd_nxt, 1)
             u == [v EXCEPT !.fin_seq = t.snd_nxt, !.snd_nxt = n, !.fin_sent = TRUE, !.armed = TRUE]
  <2>1. t.snd_nxt \in SeqNo /\ t.snd_nxt \in Int
    BY Fields, SeqNoInt DEF Typed
  <2>2. n \in SeqNo
    BY <2>1, PlusTyped
  <2>4. v.snd_nxt = t.snd_nxt
    BY DEF send_seg
  <2>17. PushFin(t) = [v EXCEPT !.fin_seq = t.snd_nxt, !.snd_nxt = Plus(@, 1),
                                !.fin_sent = TRUE, !.armed = TRUE]
    BY <1>2 DEF FinDue, PushFin
  <2>3. u = PushFin(t)
    <3> HIDE DEF v
    <3> QED  BY <2>4, <2>17
  <2>5. fl \in Flags /\ fl \cap {"SYN", "FIN"} # {} /\ d \in Seq(Nat)
    BY DEF Flags, Flag
  <2>6. s.seq = t.snd_nxt /\ s.flags = fl
    BY DEF Segment
  <2> HIDE DEF d, fl
  <2>7. Marks(s) = {<<t.snd_nxt, 0>>}
    <3> HIDE DEF s
    <3> QED  BY <2>5, <2>6 DEF Marks
  <2>8. /\ Typed(v) /\ v.st = t.st /\ SndSame(t, v) /\ RcvSame(t, v)
        /\ Fits(t, v)
    BY <2>1, <2>5, SendShape
  <2>12. \A x \in v.out : x \in t.out \/ x = s
    BY <2>1, <2>5, SendShape
  <2> HIDE DEF v, n, s
  <2>9. v \in Conn /\ v.rcv_head <= Len(v.rcvbuf)
    BY <2>8 DEF Typed
  <2>10. /\ u \in Conn /\ u.st = v.st /\ u.iss = v.iss /\ u.fin_wanted = v.fin_wanted /\ RcvSame(v, u)
         /\ u.sndbuf = v.sndbuf /\ u.snd_una = v.snd_una /\ u.fin_acked = v.fin_acked
         /\ u.fin_sent = TRUE /\ u.fin_seq = t.snd_nxt /\ u.snd_nxt = n /\ u.out = v.out
    BY <2>9, <2>2, <2>1 DEF Conn, RcvSame
  <2> HIDE DEF u
  <2>11. Typed(u) /\ Room(u) = Room(v)
    BY <2>9, <2>10 DEF Typed, RcvSame, Room, rcv_space
  <2>13. Fits(t, u)
    BY <2>8, <2>10, <2>11 DEF EdgesFit, Fits
  <2>14. SendStep(t, u)
    BY <2>8, <2>10, <2>11, <2>13 DEF SendStep, SndSame, RcvSame
  <2>15. /\ u.sndbuf = t.sndbuf /\ u.snd_una = t.snd_una /\ u.fin_acked = t.fin_acked
         /\ u.fin_sent = TRUE /\ u.fin_seq = t.snd_nxt /\ u.snd_nxt = Plus(t.snd_nxt, 1)
    BY <2>8, <2>10 DEF SndSame, n
  <2>16. \A x \in u.out : x \in t.out \/ Marks(x) = {<<t.snd_nxt, 0>>}
    BY <2>7, <2>10, <2>12
  <2> QED  BY <1>2, <2>3, <2>14, <2>15, <2>16
<1> QED  BY <1>1, <1>2

LEMMA PushFinSends ==
    ASSUME NEW t, NEW W, NEW H, Outgoing(W, H), SendOK(t, W, H)
    PROVE  SendOK(PushFin(t), W, H)
<1> DEFINE u == PushFin(t)
           a == Una(t)
           n == Nxt(t)
           L == Len(t.sndbuf)
<1>1. Typed(t) /\ Sender(t, W, H) /\ SndOut(t, W)
  BY DEF SendOK
<1>2. CASE ~FinDue(t)
  BY <1>1, <1>2, PushFinShape
<1>3. CASE FinDue(t)
  <2>1. a \in Int /\ n \in Int /\ 1 <= a /\ a <= n /\ a <= H
    BY <1>1, Standing
  <2>2. a \in Within /\ n \in Within /\ t.snd_una = At(ISS, a) /\ t.snd_nxt = At(ISS, n) /\ ISS \in SeqNo
        /\ t.fin_wanted \in BOOLEAN
    BY <1>1, Standing
  <2>3. L \in Nat /\ W \in Int /\ 0 <= W /\ W + 2 < Middle /\ Middle \in Int /\ 2 * Middle = SeqMod
    BY <1>1, Standing
  <2>4. ~t.fin_sent /\ ~t.fin_acked /\ L = W + 1 - a /\ a <= W + 1
    BY <1>1, <1>3 DEF FinDue, Sender
  <2>5. t.fin_wanted /\ t.snd_nxt = Plus(At(ISS, a), L)
    BY <1>3, <2>2 DEF FinDue
  <2>6. \A i \in 1..L : t.sndbuf[i] = W - L + i
    BY <1>1 DEF Sender
  <2>7. /\ SendStep(t, u) /\ u.sndbuf = t.sndbuf /\ u.snd_una = t.snd_una /\ u.fin_acked = t.fin_acked
        /\ u.fin_sent = TRUE /\ u.fin_seq = t.snd_nxt /\ u.snd_nxt = Plus(t.snd_nxt, 1)
        /\ \A s \in u.out : s \in t.out \/ Marks(s) = {<<t.snd_nxt, 0>>}
    BY <1>1, <1>3, PushFinShape
  <2> HIDE DEF a, n, L, u
  <2>8. L \in Within /\ a + L = W + 1 /\ W + 1 \in Within /\ 1 \in Within /\ W + 2 \in Within /\ a \in SeqNo
    BY <2>1, <2>2, <2>3, <2>4, SeqFacts DEF Within
  <2>9. W + 1 \in SeqNo /\ W + 2 \in SeqNo /\ (W + 1) + 1 = W + 2
    BY <2>3, <2>8, SeqFacts
  <2>10. Plus(At(ISS, a), L) = At(ISS, W + 1)
    BY <2>2, <2>8, <2>9, AtIs
  <2>11. t.snd_nxt = At(ISS, W + 1)
    BY <2>5, <2>10
  <2>12. Plus(t.snd_nxt, 1) = At(ISS, W + 2)
    BY <2>2, <2>8, <2>9, <2>11, AtIs
  <2>13. Una(u) = a /\ Nxt(u) = W + 2
    BY <2>2, <2>7, <2>9, <2>12, AtIs DEF Una, Nxt, a
  <2>14. Sender(u, W, H)
    <3>1. 1 <= Una(u) /\ Una(u) <= H /\ Una(u) <= Nxt(u) /\ Una(u) <= W + 1
      BY <2>1, <2>3, <2>4, <2>13
    <3>2. u.fin_sent /\ Nxt(u) = W + 2 /\ u.fin_seq = At(ISS, W + 1) /\ u.fin_wanted
      BY <2>5, <2>7, <2>11, <2>13 DEF SendStep
    <3>3. ~u.fin_acked /\ Len(u.sndbuf) = W + 1 - Una(u)
      BY <2>4, <2>7, <2>13 DEF L
    <3>4. \A i \in 1..Len(u.sndbuf) : u.sndbuf[i] = W - Len(u.sndbuf) + i
      BY <2>6, <2>7 DEF L
    <3> QED  BY <3>1, <3>2, <3>3, <3>4 DEF Sender
  <2>15. u.fin_wanted = t.fin_wanted /\ Typed(u)
    BY <2>7 DEF SendStep
  <2>16. Sent(<<t.snd_nxt, 0>>, W, TRUE)
    BY <2>11 DEF Sent
  <2>17. SndOut(u, W)
    BY <1>1, <2>5, <2>7, <2>15, <2>16 DEF SndOut, Carries
  <2> QED  BY <2>14, <2>15, <2>17 DEF SendOK, u
<1> QED  BY <1>2, <1>3

Sending == {"ESTABLISHED", "CLOSE_WAIT", "FIN_WAIT_1", "LAST_ACK"}
SendRoom(t) == Least(Len(t.sndbuf), send_window(t)) - Dist(t.snd_una, t.snd_nxt)

LEMMA OfferFits ==
    ASSUME NEW t, Typed(t)
    PROVE  /\ Dist(t.snd_una, t.snd_nxt) \in Nat /\ SendRoom(t) \in Int
           /\ Dist(t.snd_una, t.snd_nxt) + SendRoom(t) <= Len(t.sndbuf)
<1> DEFINE g == Dist(t.snd_una, t.snd_nxt)
           w == send_window(t)
           L == Len(t.sndbuf)
<1>1. t.snd_una \in SeqNo /\ t.snd_nxt \in SeqNo /\ L \in Nat /\ t.snd_wnd \in Nat /\ t.cwnd \in Nat /\ MSS \in Nat
  BY Fields, SeqFacts DEF Typed
<1>2. t.cwnd * MSS \in Int
  BY <1>1
<1>3. w \in Int
  BY <1>1, <1>2 DEF send_window, Least
<1>4. g \in Nat
  BY <1>1, Between
<1> HIDE DEF g, w, L
<1>5. Least(L, w) \in Int /\ Least(L, w) <= L
  BY <1>1, <1>3 DEF Least
<1>6. Least(L, w) - g \in Int /\ g + (Least(L, w) - g) <= L
  BY <1>1, <1>4, <1>5
<1> QED  BY <1>4, <1>6 DEF SendRoom, g, w, L

LEMMA SendStepTrans ==
    ASSUME NEW t, NEW u, NEW v, SendStep(t, u), SendStep(u, v)
    PROVE  SendStep(t, v)
BY DEF SendStep, RcvSame, Fits

LEMMA SendStepRefl == ASSUME NEW t, Typed(t) PROVE SendStep(t, t)
BY DEF SendStep, RcvSame, Fits

LEMMA PumpIs ==
    ASSUME NEW t
    PROVE  pump_send(t) = IF t.st \in Sending
                          THEN PushFin(PushData(t, Dist(t.snd_una, t.snd_nxt), SendRoom(t))) ELSE t
BY DEF pump_send, Sending, SendRoom

LEMMA PumpStep ==
    ASSUME NEW t, Typed(t)
    PROVE  SendStep(t, pump_send(t))
<1>1. CASE t.st \notin Sending
  BY <1>1, PumpIs, SendStepRefl
<1>2. CASE t.st \in Sending
  <2> DEFINE v == PushData(t, Dist(t.snd_una, t.snd_nxt), SendRoom(t))
  <2>1. SendStep(t, v)
    BY OfferFits, PushDataShape
  <2>2. pump_send(t) = PushFin(v)
    BY <1>2, PumpIs
  <2> HIDE DEF v
  <2>3. SendStep(v, PushFin(v))
    BY <2>1, PushFinShape DEF SendStep
  <2> QED  BY <2>1, <2>2, <2>3, SendStepTrans
<1> QED  BY <1>1, <1>2

LEMMA PumpSends ==
    ASSUME NEW t, NEW W, NEW H, Outgoing(W, H), SendOK(t, W, H)
    PROVE  SendOK(pump_send(t), W, H)
<1>1. CASE t.st \notin Sending
  BY <1>1, PumpIs
<1>2. CASE t.st \in Sending
  <2> DEFINE v == PushData(t, Dist(t.snd_una, t.snd_nxt), SendRoom(t))
  <2>1. Typed(t)
    BY DEF SendOK
  <2>2. SendOK(v, W, H)
    BY <2>1, OfferFits, PushDataSends
  <2>3. pump_send(t) = PushFin(v)
    BY <1>2, PumpIs
  <2> HIDE DEF v
  <2> QED  BY <2>2, <2>3, PushFinSends
<1> QED  BY <1>1, <1>2
-----------------------------------------------------------------------------
(* The receiving half: rd bytes read of a stream of P.                      *)

Rcv(t) == Dist(IRS, t.rcv_nxt)
Got(t, rd) == rd + tcp_available(t)
Incoming(P) == P \in Nat /\ P + RCV_BUF + 2 < Middle
Waiting(t) == Dist(IRS, t.ooo_seq)

\* The bytes of a stream from place r on.
Continues(d, r) == \A i \in 1..Len(d) : d[i] = r + i - 1

\* What rcvbuf holds, and that the peer's FIN is the end of its stream.
Reads(t, rd, P) ==
    /\ \A i \in (t.rcv_head + 1)..Len(t.rcvbuf) : t.rcvbuf[i] = rd + i - t.rcv_head
    /\ Got(t, rd) <= P /\ (t.fin_seen => Got(t, rd) = P)
\* What the slot holds: bytes of the stream, with its FIN only at its end.
Slotted(t, P) ==
    Len(t.ooo) # 0 =>
        /\ 1 <= Waiting(t) /\ Waiting(t) + Len(t.ooo) <= P + 1
        /\ Continues(t.ooo, Waiting(t))
        /\ t.ooo_fin => Waiting(t) + Len(t.ooo) = P + 1
Receives(t, rd, P) ==
    /\ Rcv(t) = Got(t, rd) + (IF t.fin_seen THEN 2 ELSE 1)
    /\ t.ooo_fin_ready => Got(t, rd) = P
    /\ Slotted(t, P)
RecvOK(t, rd, P, e) ==
    Typed(t) /\ rd \in Nat /\ Reads(t, rd, P) /\ Receives(t, rd, P) /\ EdgesFit(t, e)

\* Where a receiver stands, as integers.
LEMMA Awaiting ==
    ASSUME NEW t, NEW rd \in Nat, NEW P, Incoming(P), Typed(t), Reads(t, rd, P),
           Rcv(t) = Got(t, rd) + (IF t.fin_seen THEN 2 ELSE 1)
    PROVE  /\ Rcv(t) \in Int /\ Rcv(t) \in Within /\ t.rcv_nxt = At(IRS, Rcv(t)) /\ Got(t, rd) \in Int
           /\ tcp_available(t) \in Nat /\ rd <= Got(t, rd) /\ Got(t, rd) <= P
           /\ P \in Int /\ 0 <= P /\ P + RCV_BUF + 2 < Middle /\ Middle \in Int /\ 2 * Middle = SeqMod
           /\ RCV_BUF \in Nat /\ 1 <= Rcv(t) /\ Rcv(t) <= P + 2 /\ t.fin_seen \in BOOLEAN
           /\ Room(t) = Rcv(t) - 1 + rcv_space(t) /\ rcv_space(t) \in Nat /\ IRS \in SeqNo
           /\ t.rcv_nxt \in SeqNo
<1>1. /\ t.rcvbuf \in Seq(Nat) /\ Len(t.rcvbuf) \in Nat /\ t.rcv_head \in Nat /\ t.rcv_head <= Len(t.rcvbuf)
      /\ t.rcv_nxt \in SeqNo /\ t.fin_seen \in BOOLEAN /\ rcv_space(t) \in Nat
  BY Fields DEF Typed
<1>2. P \in Int /\ 0 <= P /\ P + RCV_BUF + 2 < Middle /\ Middle \in Int /\ 2 * Middle = SeqMod
      /\ RCV_BUF \in Nat /\ IRS \in SeqNo
  BY SeqFacts DEF Incoming
<1>3. tcp_available(t) \in Nat
  BY <1>1 DEF tcp_available
<1>4. Got(t, rd) \in Int /\ rd <= Got(t, rd) /\ Got(t, rd) <= P
  BY <1>3 DEF Got, Reads
<1>5. Rcv(t) = Got(t, rd) + 1 \/ Rcv(t) = Got(t, rd) + 2
  BY <1>1
<1>6. Rcv(t) \in Int /\ 1 <= Rcv(t) /\ Rcv(t) <= P + 2
  BY <1>2, <1>4, <1>5
<1>7. Rcv(t) \in Within /\ 1 \in Within
  BY <1>2, <1>6 DEF Within
<1>8. t.rcv_nxt = At(IRS, Rcv(t))
  BY <1>1, <1>2, IsAt DEF Rcv
<1>9. Dist(At(IRS, 1), At(IRS, Rcv(t))) = Rcv(t) - 1
  BY <1>2, <1>6, <1>7, Compare
<1>10. Room(t) = Rcv(t) - 1 + rcv_space(t)
  BY <1>8, <1>9 DEF Room
<1> QED  BY <1>1, <1>2, <1>3, <1>4, <1>6, <1>7, <1>8, <1>10

\* The next bytes of the stream come to the end of rcvbuf.
LEMMA Appended ==
    ASSUME NEW t, NEW u, NEW d \in Seq(Nat), Typed(t), Typed(u),
           u.rcvbuf = t.rcvbuf \o d, u.rcv_nxt = Plus(t.rcv_nxt, Len(d)), u.rcv_head = t.rcv_head,
           u.fin_seen = t.fin_seen, u.out = t.out,
           NEW rd \in Nat, NEW P, Incoming(P), Reads(t, rd, P), ~t.fin_seen, Rcv(t) = Got(t, rd) + 1,
           Rcv(t) + Len(d) <= P + 1, Continues(d, Rcv(t))
    PROVE  /\ Reads(u, rd, P) /\ Rcv(u) = Got(u, rd) + 1 /\ Got(u, rd) = Got(t, rd) + Len(d)
           /\ Fits(t, u)
<1> DEFINE r == Rcv(t)
           n == Len(d)
           g == Got(t, rd)
           L == Len(t.rcvbuf)
           h == t.rcv_head
           B == P + RCV_BUF + 2
<1>1. r \in Within /\ t.rcv_nxt = At(IRS, r) /\ IRS \in SeqNo
  BY Awaiting
<1>2. /\ t.rcvbuf \in Seq(Nat) /\ L \in Nat /\ h \in Nat /\ h <= L
      /\ u.rcvbuf \in Seq(Nat) /\ n \in Nat
  BY Fields DEF Typed
<1>3. /\ Len(u.rcvbuf) = L + n
      /\ \A i \in 1..L : u.rcvbuf[i] = t.rcvbuf[i]
      /\ \A i \in (L + 1)..(L + n) : u.rcvbuf[i] = d[i - L]
  BY <1>2, ConcatProperties
<1>4. Got(u, rd) = g + n /\ g = rd + L - h
  BY <1>2, <1>3 DEF Got, tcp_available
<1>5. r \in Int /\ g \in Int /\ P \in Int /\ rd \in Int /\ r = g + 1 /\ r + n <= P + 1 /\ 0 <= rd /\ rd <= g
  BY Awaiting
<1>6. L \in Int /\ n \in Int /\ h \in Int /\ 0 <= L /\ 0 <= n /\ 0 <= h /\ h <= L
  BY <1>2
<1>7. B < Middle /\ B = P + RCV_BUF + 2 /\ Middle \in Int /\ 2 * Middle = SeqMod /\ RCV_BUF \in Int /\ RCV_BUF >= 0
  BY Awaiting
<1>8. \A i \in 1..n : d[i] = r + i - 1
  BY DEF Continues
<1>10. \A i \in (h + 1)..L : t.rcvbuf[i] = rd + i - h
  BY DEF Reads
<1> HIDE DEF r, n, g, L, h, B
<1>11. r + n \in Int /\ 0 <= r + n /\ r + n < Middle /\ n < Middle
  BY <1>5, <1>6, <1>7
<1>9. n \in Within /\ r + n \in Within /\ r + n \in SeqNo /\ r \in SeqNo
  BY <1>1, <1>6, <1>7, <1>11, SeqFacts DEF Within
<1>18. u.rcv_nxt = At(IRS, r + n)
  BY <1>1, <1>9, AtIs DEF n
<1>12. Rcv(u) = r + n
  BY <1>1, <1>9, <1>18, AtIs DEF Rcv
<1>13. \A i \in (u.rcv_head + 1)..Len(u.rcvbuf) : u.rcvbuf[i] = rd + i - u.rcv_head
  <2> SUFFICES ASSUME NEW i \in (h + 1)..(L + n) PROVE u.rcvbuf[i] = rd + i - h
    BY <1>3 DEF h
  <2>3. i \in Int /\ h + 1 <= i /\ i <= L + n
    BY <1>6
  <2>1. CASE i <= L
    <3>1. i \in 1..L /\ i \in (h + 1)..L
      BY <1>6, <2>1, <2>3
    <3> QED  BY <1>3, <1>10, <3>1
  <2>2. CASE i > L
    <3>1. i \in (L + 1)..(L + n) /\ i - L \in 1..n
      BY <1>6, <2>2, <2>3
    <3>2. u.rcvbuf[i] = d[i - L]
      BY <1>3, <3>1
    <3>3. d[i - L] = r + (i - L) - 1
      BY <1>8, <3>1
    <3>4. r + (i - L) - 1 = rd + i - h
      BY <1>4, <1>5, <1>6, <2>3
    <3> QED  BY <3>2, <3>3, <3>4
  <2>4. i <= L \/ i > L
    BY <1>6, <2>3
  <2> QED  BY <2>1, <2>2, <2>4
<1>14. Got(u, rd) <= P /\ Rcv(u) = Got(u, rd) + 1
  BY <1>4, <1>5, <1>6, <1>12
<1>15. Reads(u, rd, P)
  BY <1>13, <1>14 DEF Reads
<1>16. Room(u) = Room(t)
  <2>1. Room(u) = Rcv(u) - 1 + rcv_space(u)
    BY <1>14, <1>15, Awaiting
  <2>2. Room(t) = r - 1 + rcv_space(t)
    BY Awaiting DEF r
  <2>3. rcv_space(u) = rcv_space(t) - n /\ rcv_space(t) \in Int
    BY <1>3, <1>6, <1>7 DEF rcv_space, L
  <2> QED  BY <1>5, <1>6, <1>12, <2>1, <2>2, <2>3
<1>17. Fits(t, u)
  BY <1>16 DEF EdgesFit, Fits
<1>19. Got(u, rd) = Got(t, rd) + Len(d)
  BY <1>4 DEF g, n
<1> QED  BY <1>14, <1>15, <1>17, <1>19

LEMMA RecvStepTrans ==
    ASSUME NEW t, NEW u, NEW v, RecvStep(t, u), RecvStep(u, v)
    PROVE  RecvStep(t, v)
BY DEF RecvStep, SndSame

LEMMA RecvStepRefl == ASSUME NEW t, Typed(t) PROVE RecvStep(t, t)
BY DEF RecvStep, SndSame

\* A receiving function leaves a sender as it was.
LEMMA RecvStepSends ==
    ASSUME NEW t, NEW u, NEW W, NEW H, Outgoing(W, H), RecvStep(t, u), SendOK(t, W, H)
    PROVE  SendOK(u, W, H)
<1>1. Sender(u, W, H)
  BY SameSends DEF RecvStep, SendOK
<1>2. W \in Nat
  BY DEF Outgoing
<1> QED  BY <1>1, <1>2 DEF RecvStep, SendOK

\* And a sending function a receiver.
LEMMA SendStepReceives ==
    ASSUME NEW t, NEW u, NEW rd, NEW P, NEW e, SendStep(t, u), RecvOK(t, rd, P, e)
    PROVE  RecvOK(u, rd, P, e)
<1>1. Got(u, rd) = Got(t, rd) /\ Rcv(u) = Rcv(t) /\ Waiting(u) = Waiting(t)
  BY DEF SendStep, RcvSame, Got, tcp_available, Rcv, Waiting
<1>2. Reads(u, rd, P) /\ Slotted(u, P)
  BY <1>1 DEF SendStep, RcvSame, RecvOK, Reads, Receives, Slotted
<1> QED  BY <1>1, <1>2 DEF SendStep, RcvSame, RecvOK, Receives, Fits

LEMMA Empty == ASSUME NEW q \in Seq(Nat) PROVE q = <<>> <=> Len(q) = 0
BY EmptySeq

LEMMA ConcatTyped ==
    ASSUME NEW p \in Seq(Nat), NEW q \in Seq(Nat)
    PROVE  p \o q \in Seq(Nat) /\ Len(p \o q) = Len(p) + Len(q)
BY ConcatProperties

\* The rest of a sequence of bytes that starts at place o.
LEMMA Trim ==
    ASSUME NEW q \in Seq(Nat), NEW k \in Nat, k < Len(q)
    PROVE  LET d == SubSeq(q, k + 1, Len(q)) IN
           /\ d \in Seq(Nat) /\ Len(d) = Len(q) - k
           /\ \A o \in Int : Continues(q, o) => Continues(d, o + k)
<1> DEFINE L == Len(q)
           m == k + 1
           d == SubSeq(q, m, L)
<1>1. L \in Nat /\ m \in Nat \ {0} /\ L \in Int /\ L <= Len(q) /\ m <= L
  OBVIOUS
<1>2. L - m + 1 = L - k /\ m = k + 1
  BY <1>1
<1> HIDE DEF m
<1>3. /\ d \in Seq(Nat) /\ Len(d) = IF m <= L THEN L - m + 1 ELSE 0
      /\ \A i \in 1..(L - m + 1) : d[i] = q[m + i - 1]
  BY <1>1, Cut
<1>4. Len(d) = L - k
  BY <1>1, <1>2, <1>3
<1> HIDE DEF d, L
<1>5. ASSUME NEW o \in Int, Continues(q, o) PROVE Continues(d, o + k)
  <2> SUFFICES ASSUME NEW i \in 1..Len(d) PROVE d[i] = (o + k) + i - 1
    BY DEF Continues
  <2>1. i \in 1..(L - m + 1) /\ m + i - 1 \in 1..L /\ i \in Int
    BY <1>1, <1>2, <1>4
  <2>2. d[i] = q[m + i - 1]
    BY <1>3, <2>1
  <2>3. q[m + i - 1] = o + (m + i - 1) - 1
    BY <1>5, <2>1 DEF Continues, L
  <2>4. o + (m + i - 1) - 1 = (o + k) + i - 1
    BY <1>2, <2>1
  <2> QED  BY <2>2, <2>3, <2>4
<1> QED  BY <1>2, <1>3, <1>4, <1>5 DEF L, d
-----------------------------------------------------------------------------
(* What the receiving functions do to the record.                           *)

\* All of them leave out what is sent and whether the peer's FIN was seen.
Takes(t, u) == RecvStep(t, u) /\ u.out = t.out /\ u.fin_seen = t.fin_seen /\ u.rcv_head = t.rcv_head

Skip(t) == Dist(t.ooo_seq, t.rcv_nxt)
SlotDue(t) == SubSeq(t.ooo, Skip(t) + 1, Len(t.ooo))
Early(t) == Len(t.ooo) = 0 \/ seq_lt(t.rcv_nxt, t.ooo_seq)

LEMMA ReplayShape ==
    ASSUME NEW t, Typed(t)
    PROVE  LET u == Replay(t) IN
           /\ Takes(t, u)
           /\ \/ u = t
              \/ /\ ~Early(t) /\ Skip(t) >= Len(t.ooo) /\ Len(u.ooo) = 0
                 /\ u.rcvbuf = t.rcvbuf /\ u.rcv_nxt = t.rcv_nxt /\ u.ooo_fin_ready = t.ooo_fin_ready
              \/ /\ ~Early(t) /\ Skip(t) < Len(t.ooo) /\ Len(u.ooo) = 0 /\ SlotDue(t) \in Seq(Nat)
                 /\ u.rcvbuf = t.rcvbuf \o SlotDue(t) /\ u.rcv_nxt = Plus(t.rcv_nxt, Len(SlotDue(t)))
                 /\ u.ooo_fin_ready = (t.ooo_fin_ready \/ t.ooo_fin)
<1>1. /\ t \in Conn /\ t.rcv_head <= Len(t.rcvbuf) /\ t.rcvbuf \in Seq(Nat) /\ Len(t.rcvbuf) \in Nat
      /\ t.ooo \in Seq(Nat) /\ Len(t.ooo) \in Nat /\ t.ooo_seq \in SeqNo /\ t.rcv_nxt \in SeqNo
      /\ t.rcv_head \in Nat /\ t.ooo_fin \in BOOLEAN /\ t.ooo_fin_ready \in BOOLEAN
  BY Fields DEF Typed
<1>2. (t.ooo = <<>> \/ seq_lt(t.rcv_nxt, t.ooo_seq)) <=> Early(t)
  BY <1>1, Empty DEF Early
<1>3. <<>> \in Buffer(OOO_BUF) /\ Len(<<>>) = 0
  BY SeqFacts DEF Buffer
<1>4. Skip(t) \in Nat
  BY <1>1, Between DEF Skip
<1>5. CASE Early(t)
  BY <1>2, <1>5, RecvStepRefl DEF Replay, Takes
<1>6. CASE ~Early(t) /\ Skip(t) >= Len(t.ooo)
  <2> DEFINE u == [t EXCEPT !.ooo = <<>>]
  <2>1. Replay(t) = u
    BY <1>2, <1>6 DEF Replay, Skip
  <2>2. /\ u \in Conn /\ u.st = t.st /\ SndSame(t, u) /\ u.out = t.out /\ u.fin_seen = t.fin_seen
        /\ u.rcv_head = t.rcv_head /\ u.rcvbuf = t.rcvbuf /\ u.rcv_nxt = t.rcv_nxt
        /\ u.ooo_fin_ready = t.ooo_fin_ready
    BY <1>1, <1>3 DEF Conn, SndSame
  <2>3. Len(u.ooo) = 0
    BY <1>1, <1>3 DEF Conn
  <2> HIDE DEF u
  <2>4. Typed(u) /\ \A W \in Nat : SndOut(t, W) => SndOut(u, W)
    BY <1>1, <2>2 DEF Typed, SndOut, SndSame
  <2> QED  BY <1>6, <2>1, <2>2, <2>3, <2>4 DEF Takes, RecvStep
<1>7. CASE ~Early(t) /\ Skip(t) < Len(t.ooo) /\ Len(SlotDue(t)) > rcv_space(t)
  <2>1. Replay(t) = t
    BY <1>2, <1>4, <1>1, <1>7 DEF Replay, Skip, SlotDue
  <2> QED  BY <2>1, RecvStepRefl DEF Takes
<1>8. CASE ~Early(t) /\ Skip(t) < Len(t.ooo) /\ ~(Len(SlotDue(t)) > rcv_space(t))
  <2> DEFINE d == SlotDue(t)
             b == t.rcvbuf \o d
             n == Plus(t.rcv_nxt, Len(d))
             e == <<>>
             f == (t.ooo_fin_ready \/ t.ooo_fin)
             u == [t EXCEPT !.rcvbuf = b, !.rcv_nxt = n, !.ooo = e, !.ooo_fin = FALSE,
                            !.ooo_fin_ready = f]
  <2>12. ~(Skip(t) >= Len(t.ooo))
    BY <1>1, <1>4, <1>8
  <2>1. Replay(t) = u
    BY <1>2, <1>8, <2>12 DEF Replay, Skip, SlotDue
  <2>2. d \in Seq(Nat) /\ Len(d) \in Nat
    BY <1>1, <1>4, <1>8, Trim DEF SlotDue
  <2>3. b \in Seq(Nat) /\ Len(b) = Len(t.rcvbuf) + Len(d)
    BY <1>1, <2>2, ConcatTyped
  <2>4. Len(d) <= RCV_BUF - Len(t.rcvbuf)
    BY <1>1, <1>8, <2>2, SeqFacts DEF rcv_space
  <2>5. n \in SeqNo
    <3>1. t.rcv_nxt \in Int /\ Len(d) \in Int
      BY <1>1, <2>2, SeqNoInt
    <3> QED  BY <3>1, PlusTyped
  <2>6. e \in Buffer(OOO_BUF) /\ Len(e) = 0 /\ f \in BOOLEAN
    BY <1>1, <1>3
  <2> HIDE DEF d, n, e, f
  <2>7. b \in Buffer(RCV_BUF) /\ t.rcv_head <= Len(b)
    BY <1>1, <2>2, <2>3, <2>4, SeqFacts DEF Buffer
  <2> HIDE DEF b
  <2>8. /\ u \in Conn /\ u.st = t.st /\ SndSame(t, u) /\ u.out = t.out /\ u.fin_seen = t.fin_seen
        /\ u.rcv_head = t.rcv_head /\ u.rcvbuf = b /\ u.rcv_nxt = n /\ u.ooo = e
    <3>1. t \in Conn /\ n \in SeqNo /\ e \in Buffer(OOO_BUF) /\ f \in BOOLEAN /\ b \in Buffer(RCV_BUF)
      BY <1>1, <2>5, <2>6, <2>7
    <3>2. u \in Conn
      BY <3>1 DEF Conn
    <3>3. /\ u.st = t.st /\ SndSame(t, u) /\ u.out = t.out /\ u.fin_seen = t.fin_seen
          /\ u.rcv_head = t.rcv_head /\ u.rcvbuf = b /\ u.rcv_nxt = n /\ u.ooo = e
      BY <3>1 DEF Conn, SndSame
    <3> QED  BY <3>2, <3>3
  <2>13. u.ooo_fin_ready = f
    BY <1>1 DEF Conn
  <2> HIDE DEF u
  <2>9. Typed(u) /\ \A W \in Nat : SndOut(t, W) => SndOut(u, W)
    BY <2>7, <2>8 DEF Typed, SndOut, SndSame
  <2>10. Takes(t, u)
    BY <2>8, <2>9 DEF Takes, RecvStep
  <2>11. /\ ~Early(t) /\ Skip(t) < Len(t.ooo) /\ Len(u.ooo) = 0 /\ SlotDue(t) \in Seq(Nat)
         /\ u.rcvbuf = t.rcvbuf \o SlotDue(t) /\ u.rcv_nxt = Plus(t.rcv_nxt, Len(SlotDue(t)))
         /\ u.ooo_fin_ready = (t.ooo_fin_ready \/ t.ooo_fin)
    BY <1>8, <2>2, <2>6, <2>8, <2>13 DEF d, b, n, f
  <2> QED  BY <2>1, <2>10, <2>11
<1>9. Skip(t) >= Len(t.ooo) \/ Skip(t) < Len(t.ooo)
  BY <1>1, <1>4
<1> QED  BY <1>5, <1>6, <1>7, <1>8, <1>9

\* Replay takes from the slot what comes next in the stream.
LEMMA ReplayReceives ==
    ASSUME NEW t, NEW rd, NEW P, NEW e, Incoming(P), RecvOK(t, rd, P, e), ~t.fin_seen
    PROVE  RecvOK(Replay(t), rd, P, e)
<1> DEFINE u == Replay(t)
           r == Rcv(t)
           o == Waiting(t)
           L == Len(t.ooo)
           d == SlotDue(t)
<1>1. /\ Typed(t) /\ rd \in Nat /\ Reads(t, rd, P) /\ Slotted(t, P) /\ EdgesFit(t, e)
      /\ Rcv(t) = Got(t, rd) + 1 /\ (t.ooo_fin_ready => Got(t, rd) = P)
  BY DEF RecvOK, Receives
<1>2. Takes(t, u)
  BY <1>1, ReplayShape
<1>3. Typed(u) /\ u.out = t.out /\ u.fin_seen = t.fin_seen /\ u.rcv_head = t.rcv_head
  BY <1>2 DEF Takes, RecvStep
<1>4. CASE u = t
  BY <1>4
<1>5. CASE /\ Len(u.ooo) = 0 /\ u.rcvbuf = t.rcvbuf /\ u.rcv_nxt = t.rcv_nxt
           /\ u.ooo_fin_ready = t.ooo_fin_ready
  <2>1. Got(u, rd) = Got(t, rd) /\ Rcv(u) = Rcv(t) /\ Room(u) = Room(t)
    BY <1>3, <1>5 DEF Got, tcp_available, Rcv, Room, rcv_space
  <2>2. Reads(u, rd, P) /\ Slotted(u, P) /\ EdgesFit(u, e)
    BY <1>1, <1>3, <1>5, <2>1 DEF Reads, Slotted, EdgesFit, Fits
  <2> QED  BY <1>1, <1>3, <1>5, <2>1, <2>2 DEF RecvOK, Receives
<1>6. CASE /\ ~Early(t) /\ Skip(t) < Len(t.ooo) /\ Len(u.ooo) = 0 /\ SlotDue(t) \in Seq(Nat)
           /\ u.rcvbuf = t.rcvbuf \o SlotDue(t) /\ u.rcv_nxt = Plus(t.rcv_nxt, Len(SlotDue(t)))
           /\ u.ooo_fin_ready = (t.ooo_fin_ready \/ t.ooo_fin)
  <2>1. L # 0 /\ ~seq_lt(t.rcv_nxt, t.ooo_seq)
    BY <1>6 DEF Early
  <2>2. 1 <= o /\ o + L <= P + 1 /\ Continues(t.ooo, o) /\ (t.ooo_fin => o + L = P + 1)
    BY <1>1, <2>1 DEF Slotted
  <2>3. /\ t.ooo_seq \in SeqNo /\ t.rcv_nxt \in SeqNo /\ t.ooo \in Seq(Nat) /\ L \in Nat /\ IRS \in SeqNo
        /\ t.ooo_fin \in BOOLEAN /\ t.ooo_fin_ready \in BOOLEAN
    BY <1>1, Fields, SeqFacts DEF Typed
  <2>4. o \in Int /\ o \in SeqNo /\ t.ooo_seq = At(IRS, o)
    BY <2>3, IsAt, SeqNoInt DEF Waiting
  <2>5. P \in Int /\ 0 <= P /\ P + RCV_BUF + 2 < Middle /\ Middle \in Int /\ RCV_BUF \in Int /\ RCV_BUF >= 0
    BY <1>1, Awaiting
  <2>6. r \in Int /\ r \in Within /\ t.rcv_nxt = At(IRS, r)
    BY <1>1, Awaiting
  <2>7. Skip(t) \in Nat
    BY <2>3, Between DEF Skip
  <2> HIDE DEF o, L, r
  <2>8. o \in Within
    BY <2>2, <2>3, <2>4, <2>5 DEF Within
  <2>9. o <= r
    BY <2>1, <2>3, <2>4, <2>6, <2>8, Compare
  <2>10. Skip(t) = r - o
    BY <2>3, <2>4, <2>6, <2>8, <2>9, Compare DEF Skip
  <2>11. d \in Seq(Nat) /\ Len(d) = L - Skip(t) /\ Continues(d, o + Skip(t))
    BY <1>6, <2>2, <2>3, <2>4, <2>7, Trim DEF SlotDue, L
  <2> DEFINE n == Len(d)
  <2>12. n \in Int /\ r + n = o + L /\ o + Skip(t) = r
    BY <2>3, <2>4, <2>6, <2>10, <2>11
  <2>13. Continues(d, r) /\ d \in Seq(Nat)
    BY <2>11, <2>12
  <2>14. r + n <= P + 1
    BY <2>2, <2>12
  <2>15. /\ Reads(u, rd, P) /\ Rcv(u) = Got(u, rd) + 1 /\ Got(u, rd) = Got(t, rd) + n
         /\ Fits(t, u)
    BY <1>1, <1>3, <1>6, <2>13, <2>14, Appended DEF r
  <2>16. Got(u, rd) \in Int /\ Got(t, rd) \in Int /\ Got(u, rd) <= P /\ n >= 0
    <3>1. Got(t, rd) \in Int
      BY <1>1, Awaiting
    <3>2. n >= 0
      BY <2>11
    <3> QED  BY <2>12, <2>15, <3>1, <3>2 DEF Reads
  <2>17. r = Got(t, rd) + 1
    BY <1>1 DEF r
  <2> HIDE DEF n, d
  <2>18. t.ooo_fin => Got(u, rd) = P
    BY <2>2, <2>5, <2>6, <2>12, <2>15, <2>16, <2>17
  <2>19. t.ooo_fin_ready => Got(u, rd) = P
    BY <1>1, <2>5, <2>12, <2>15, <2>16
  <2>20. u.ooo_fin_ready => Got(u, rd) = P
    BY <1>6, <2>18, <2>19
  <2>21. Slotted(u, P)
    BY <1>6 DEF Slotted
  <2> QED  BY <1>1, <1>3, <2>15, <2>20, <2>21 DEF RecvOK, Receives, Fits
<1> QED  BY <1>1, <1>4, <1>5, <1>6, ReplayShape

\* What deliver hands to Replay.
Placed(t, d) == [t EXCEPT !.rcvbuf = t.rcvbuf \o d, !.rcv_nxt = Plus(t.rcv_nxt, Len(d))]

LEMMA PlacedShape ==
    ASSUME NEW t, Typed(t), NEW d \in Seq(Nat), Delivers(t, d)
    PROVE  LET u == Placed(t, d) IN
           /\ Takes(t, u)
           /\ u.rcvbuf = t.rcvbuf \o d /\ u.rcv_nxt = Plus(t.rcv_nxt, Len(d))
           /\ u.ooo = t.ooo /\ u.ooo_seq = t.ooo_seq /\ u.ooo_fin = t.ooo_fin
           /\ u.ooo_fin_ready = t.ooo_fin_ready
<1> DEFINE b == t.rcvbuf \o d
           n == Plus(t.rcv_nxt, Len(d))
           u == Placed(t, d)
<1>1. /\ t \in Conn /\ t.rcv_head <= Len(t.rcvbuf) /\ t.rcvbuf \in Seq(Nat) /\ Len(t.rcvbuf) \in Nat
      /\ t.rcv_head \in Nat /\ t.rcv_nxt \in Int /\ Len(d) \in Int /\ 0 <= Len(d)
  BY Fields, SeqNoInt DEF Typed
<1>2. n \in SeqNo
  BY <1>1, PlusTyped
<1>3. b \in Seq(Nat) /\ Len(b) = Len(t.rcvbuf) + Len(d)
  BY <1>1, ConcatTyped
<1>4. Len(d) <= RCV_BUF - Len(t.rcvbuf)
  BY DEF Delivers, rcv_space
<1>5. u = [t EXCEPT !.rcvbuf = b, !.rcv_nxt = n]
  BY DEF Placed
<1> HIDE DEF n, u, b
<1>6. b \in Buffer(RCV_BUF) /\ t.rcv_head <= Len(b)
  BY <1>1, <1>3, <1>4, SeqFacts DEF Buffer
<1>7. u \in Conn
  BY <1>1, <1>2, <1>5, <1>6 DEF Conn
<1>8. /\ u.st = t.st /\ SndSame(t, u) /\ u.out = t.out /\ u.fin_seen = t.fin_seen
      /\ u.rcv_head = t.rcv_head /\ u.rcvbuf = b /\ u.rcv_nxt = n
      /\ u.ooo = t.ooo /\ u.ooo_seq = t.ooo_seq /\ u.ooo_fin = t.ooo_fin
      /\ u.ooo_fin_ready = t.ooo_fin_ready
  BY <1>1, <1>5 DEF Conn, SndSame
<1>9. Typed(u) /\ \A W \in Nat : SndOut(t, W) => SndOut(u, W)
  BY <1>6, <1>7, <1>8 DEF Typed, SndOut, SndSame
<1>10. Takes(t, u)
  BY <1>8, <1>9 DEF Takes, RecvStep
<1> QED  BY <1>8, <1>10 DEF u, b, n

LEMMA DeliverIs ==
    ASSUME NEW t, NEW d
    PROVE  deliver(t, d) = IF Delivers(t, d) THEN Replay(Placed(t, d)) ELSE t
BY DEF deliver, Placed

LEMMA TakesTrans ==
    ASSUME NEW t, NEW u, NEW v, Takes(t, u), Takes(u, v)
    PROVE  Takes(t, v)
BY RecvStepTrans DEF Takes

LEMMA DeliverShape ==
    ASSUME NEW t, Typed(t), NEW d \in Seq(Nat)
    PROVE  Takes(t, deliver(t, d))
<1>1. CASE Delivers(t, d)
  <2> DEFINE v == Placed(t, d)
  <2>1. Takes(t, v)
    BY <1>1, PlacedShape
  <2>2. deliver(t, d) = Replay(v)
    BY <1>1, DeliverIs
  <2> HIDE DEF v
  <2>3. Takes(v, Replay(v))
    BY <2>1, ReplayShape DEF Takes, RecvStep
  <2> QED  BY <2>1, <2>2, <2>3, TakesTrans
<1>2. CASE ~Delivers(t, d)
  BY <1>2, DeliverIs, RecvStepRefl DEF Takes
<1> QED  BY <1>1, <1>2

LEMMA DeliverReceives ==
    ASSUME NEW t, NEW rd, NEW P, NEW e, Incoming(P), RecvOK(t, rd, P, e), ~t.fin_seen,
           NEW d \in Seq(Nat), Rcv(t) + Len(d) <= P + 1, Continues(d, Rcv(t))
    PROVE  RecvOK(deliver(t, d), rd, P, e)
<1>1. /\ Typed(t) /\ rd \in Nat /\ Reads(t, rd, P) /\ Slotted(t, P) /\ EdgesFit(t, e)
      /\ Rcv(t) = Got(t, rd) + 1 /\ (t.ooo_fin_ready => Got(t, rd) = P)
  BY DEF RecvOK, Receives
<1>2. CASE Delivers(t, d)
  <2> DEFINE v == Placed(t, d)
  <2>1. /\ Takes(t, v) /\ v.rcvbuf = t.rcvbuf \o d /\ v.rcv_nxt = Plus(t.rcv_nxt, Len(d))
        /\ v.ooo = t.ooo /\ v.ooo_seq = t.ooo_seq /\ v.ooo_fin = t.ooo_fin
        /\ v.ooo_fin_ready = t.ooo_fin_ready
    BY <1>1, <1>2, PlacedShape
  <2>2. deliver(t, d) = Replay(v)
    BY <1>2, DeliverIs
  <2> HIDE DEF v
  <2>3. Typed(v) /\ v.rcv_head = t.rcv_head /\ v.fin_seen = t.fin_seen /\ v.out = t.out
    BY <2>1 DEF Takes, RecvStep
  <2>4. /\ Reads(v, rd, P) /\ Rcv(v) = Got(v, rd) + 1 /\ Got(v, rd) = Got(t, rd) + Len(d)
        /\ Fits(t, v)
    BY <1>1, <2>1, <2>3, Appended
  <2>5. Slotted(v, P)
    BY <1>1, <2>1 DEF Slotted, Waiting
  <2>6. v.ooo_fin_ready => Got(v, rd) = P
    <3>1. Got(t, rd) \in Int /\ P \in Int
      BY <1>1, Awaiting
    <3>2. Got(v, rd) <= P /\ Len(d) \in Nat
      BY <2>4 DEF Reads
    <3> QED  BY <1>1, <2>1, <2>4, <3>1, <3>2
  <2>7. RecvOK(v, rd, P, e)
    BY <1>1, <2>3, <2>4, <2>5, <2>6 DEF RecvOK, Receives, Fits
  <2> QED  BY <2>2, <2>3, <2>7, ReplayReceives
<1>3. CASE ~Delivers(t, d)
  BY <1>3, DeliverIs
<1> QED  BY <1>2, <1>3
-----------------------------------------------------------------------------
(* An incoming segment of an honest peer.                                   *)

Place(s) == Dist(IRS, s.seq)
Honest(s, P) ==
    /\ s \in Seg /\ Place(s) + Len(s.data) <= P + 1
    /\ Len(s.data) # 0 => 1 <= Place(s) /\ Continues(s.data, Place(s))
    /\ "FIN" \in s.flags => Place(s) + Len(s.data) = P + 1

LEMMA HonestIs ==
    ASSUME NEW s, NEW P, Incoming(P), Honest(s, P)
    PROVE  /\ s.data \in Seq(Nat) /\ Len(s.data) \in Nat /\ s.seq \in SeqNo /\ s.ack \in SeqNo /\ s.win \in Nat
           /\ Place(s) \in Int /\ 0 <= Place(s) /\ Place(s) \in Within /\ s.seq = At(IRS, Place(s))
           /\ Place(s) + Len(s.data) <= P + 1 /\ Place(s) + Len(s.data) \in Within
           /\ Place(s) \in SeqNo /\ Len(s.data) \in Within
<1>1. s.data \in Seq(Nat) /\ Len(s.data) \in Nat /\ s.seq \in SeqNo /\ s.ack \in SeqNo /\ s.win \in Nat
  BY DEF Honest, Seg
<1>2. Place(s) \in Int /\ Place(s) \in SeqNo /\ 0 <= Place(s) /\ s.seq = At(IRS, Place(s))
  BY <1>1, IsAt, SeqNoInt, SeqFacts DEF Place
<1>3. Place(s) + Len(s.data) <= P + 1
  BY DEF Honest
<1> DEFINE p == Place(s)
           n == Len(s.data)
<1> HIDE DEF p, n
<1>4. p \in Int /\ 0 <= p /\ n \in Int /\ 0 <= n /\ p + n <= P + 1
  BY <1>1, <1>2, <1>3 DEF p, n
<1>5. P \in Int /\ 0 <= P /\ P + RCV_BUF + 2 < Middle /\ Middle \in Int /\ RCV_BUF \in Nat
  BY SeqFacts DEF Incoming
<1>6. p \in Within /\ n \in Within /\ p + n \in Within
  BY <1>4, <1>5 DEF Within
<1> QED  BY <1>1, <1>2, <1>3, <1>6 DEF p, n

\* A segment past a hole takes the free slot.
LEMMA HoldShape ==
    ASSUME NEW t, Typed(t), NEW s \in Seg
    PROVE  LET u == Hold(t, s) IN
           /\ Takes(t, u)
           /\ \/ u = t
              \/ /\ u.ooo = s.data /\ u.ooo_seq = s.seq /\ u.ooo_fin = ("FIN" \in s.flags)
                 /\ u.rcvbuf = t.rcvbuf /\ u.rcv_nxt = t.rcv_nxt /\ u.ooo_fin_ready = t.ooo_fin_ready
<1> DEFINE held == /\ seq_lt(s.seq, Plus(t.rcv_nxt, rcv_space(t)))
                   /\ t.ooo = <<>> /\ Len(s.data) <= OOO_BUF
<1>1. t \in Conn /\ t.rcv_head <= Len(t.rcvbuf) /\ s.data \in Seq(Nat) /\ s.seq \in SeqNo
  BY DEF Typed, Seg
<1>2. CASE ~held
  BY <1>2, RecvStepRefl DEF Hold, Takes
<1>3. CASE held
  <2> DEFINE d == s.data
             q == s.seq
             f == ("FIN" \in s.flags)
             u == [t EXCEPT !.ooo = d, !.ooo_seq = q, !.ooo_fin = f]
  <2>1. Hold(t, s) = u
    BY <1>3 DEF Hold
  <2>2. d \in Buffer(OOO_BUF) /\ q \in SeqNo /\ f \in BOOLEAN
    BY <1>1, <1>3 DEF Buffer
  <2> HIDE DEF d, q, f, held
  <2>3. u \in Conn
    BY <1>1, <2>2 DEF Conn
  <2>4. /\ u.st = t.st /\ SndSame(t, u) /\ u.out = t.out /\ u.fin_seen = t.fin_seen
        /\ u.rcv_head = t.rcv_head /\ u.rcvbuf = t.rcvbuf /\ u.rcv_nxt = t.rcv_nxt
        /\ u.ooo = d /\ u.ooo_seq = q /\ u.ooo_fin_ready = t.ooo_fin_ready
    BY <1>1 DEF Conn, SndSame
  <2>5. u.ooo_fin = f
    BY <1>1 DEF Conn
  <2> HIDE DEF u
  <2>6. Typed(u) /\ \A W \in Nat : SndOut(t, W) => SndOut(u, W)
    BY <1>1, <2>3, <2>4 DEF Typed, SndOut, SndSame
  <2>7. Takes(t, u)
    BY <2>4, <2>6 DEF Takes, RecvStep
  <2>8. u.ooo = s.data /\ u.ooo_seq = s.seq /\ u.ooo_fin = ("FIN" \in s.flags)
    BY <2>4, <2>5 DEF d, q, f
  <2> QED  BY <2>1, <2>4, <2>7, <2>8
<1> QED  BY <1>2, <1>3

LEMMA HoldReceives ==
    ASSUME NEW t, NEW rd, NEW P, NEW e, Incoming(P), RecvOK(t, rd, P, e), NEW s, Honest(s, P), Len(s.data) # 0
    PROVE  RecvOK(Hold(t, s), rd, P, e)
<1> DEFINE u == Hold(t, s)
<1>1. s \in Seg /\ Typed(t)
  BY DEF Honest, RecvOK
<1>2. Takes(t, u)
  BY <1>1, HoldShape
<1>3. CASE u = t
  BY <1>3
<1>4. CASE /\ u.ooo = s.data /\ u.ooo_seq = s.seq /\ u.ooo_fin = ("FIN" \in s.flags)
           /\ u.rcvbuf = t.rcvbuf /\ u.rcv_nxt = t.rcv_nxt /\ u.ooo_fin_ready = t.ooo_fin_ready
  <2>1. Typed(u) /\ u.out = t.out /\ u.fin_seen = t.fin_seen /\ u.rcv_head = t.rcv_head
    BY <1>2 DEF Takes, RecvStep
  <2>2. Got(u, rd) = Got(t, rd) /\ Rcv(u) = Rcv(t) /\ Room(u) = Room(t)
    BY <1>4, <2>1 DEF Got, tcp_available, Rcv, Room, rcv_space
  <2>3. Reads(u, rd, P) /\ EdgesFit(u, e)
    BY <1>4, <2>1, <2>2 DEF RecvOK, Reads, EdgesFit, Fits
  <2>4. Waiting(u) = Place(s)
    BY <1>4 DEF Waiting, Place
  <2>5. Slotted(u, P)
    BY <1>4, <2>4 DEF Honest, Slotted
  <2> QED  BY <1>4, <2>1, <2>2, <2>3, <2>5 DEF RecvOK, Receives
<1> QED  BY <1>1, <1>3, <1>4, HoldShape

\* take_data, less its acknowledgement.
Back(t, s) == Dist(s.seq, t.rcv_nxt)
TakenIn(t, s) ==
    IF seq_lt(s.seq, t.rcv_nxt)
    THEN IF Back(t, s) >= Len(s.data) THEN t
         ELSE deliver(t, SubSeq(s.data, Back(t, s) + 1, Len(s.data)))
    ELSE IF s.seq = t.rcv_nxt THEN deliver(t, s.data) ELSE Hold(t, s)

LEMMA TakeDataIs ==
    ASSUME NEW t, NEW s \in Seg
    PROVE  take_data(t, s) = IF Len(s.data) = 0 THEN t ELSE SendAck(TakenIn(t, s))
<1>1. s.data = <<>> <=> Len(s.data) = 0
  BY Empty DEF Seg
<1> QED  BY <1>1 DEF take_data, TakenIn, Back

LEMMA TakenInShape ==
    ASSUME NEW t, Typed(t), NEW s \in Seg
    PROVE  Takes(t, TakenIn(t, s))
<1>1. s.data \in Seq(Nat) /\ s.seq \in SeqNo /\ Len(s.data) \in Nat /\ t.rcv_nxt \in SeqNo
  BY Fields DEF Seg, Typed
<1>2. Back(t, s) \in Nat
  BY <1>1, Between DEF Back
<1>3. CASE seq_lt(s.seq, t.rcv_nxt) /\ Back(t, s) >= Len(s.data)
  BY <1>3, RecvStepRefl DEF TakenIn, Takes
<1>4. CASE seq_lt(s.seq, t.rcv_nxt) /\ ~(Back(t, s) >= Len(s.data))
  <2>1. Back(t, s) < Len(s.data)
    BY <1>1, <1>2, <1>4
  <2>2. SubSeq(s.data, Back(t, s) + 1, Len(s.data)) \in Seq(Nat)
    BY <1>1, <1>2, <2>1, Trim
  <2> QED  BY <1>4, <2>2, DeliverShape DEF TakenIn
<1>5. CASE ~seq_lt(s.seq, t.rcv_nxt) /\ s.seq = t.rcv_nxt
  BY <1>1, <1>5, DeliverShape DEF TakenIn
<1>6. CASE ~seq_lt(s.seq, t.rcv_nxt) /\ s.seq # t.rcv_nxt
  BY <1>6, HoldShape DEF TakenIn
<1> QED  BY <1>3, <1>4, <1>5, <1>6

LEMMA TakeDataShape ==
    ASSUME NEW t, Typed(t), NEW s \in Seg
    PROVE  RecvStep(t, take_data(t, s)) /\ take_data(t, s).fin_seen = t.fin_seen
<1>1. CASE Len(s.data) = 0
  BY <1>1, TakeDataIs, RecvStepRefl
<1>2. CASE Len(s.data) # 0
  <2> DEFINE v == TakenIn(t, s)
  <2>1. RecvStep(t, v) /\ v.fin_seen = t.fin_seen
    BY TakenInShape DEF Takes
  <2>2. take_data(t, s) = SendAck(v)
    BY <1>2, TakeDataIs
  <2> HIDE DEF v
  <2>3. RecvStep(v, SendAck(v)) /\ SendStep(v, SendAck(v))
    BY <2>1, AckStep DEF RecvStep
  <2> QED  BY <2>1, <2>2, <2>3, RecvStepTrans DEF SendStep, RcvSame
<1> QED  BY <1>1, <1>2

LEMMA TakeDataReceives ==
    ASSUME NEW t, NEW rd, NEW P, NEW e, Incoming(P), RecvOK(t, rd, P, e), NEW s, Honest(s, P)
    PROVE  RecvOK(take_data(t, s), rd, P, e)
<1> DEFINE r == Rcv(t)
           p == Place(s)
           n == Len(s.data)
<1>1. s \in Seg /\ Typed(t) /\ rd \in Nat /\ Reads(t, rd, P)
      /\ Rcv(t) = Got(t, rd) + (IF t.fin_seen THEN 2 ELSE 1)
  BY DEF Honest, RecvOK, Receives
<1>2. /\ r \in Int /\ r \in Within /\ t.rcv_nxt = At(IRS, r) /\ IRS \in SeqNo /\ t.fin_seen \in BOOLEAN
  BY <1>1, Awaiting
<1>3. s.data \in Seq(Nat) /\ n \in Nat /\ p \in Int /\ p \in Within /\ s.seq = At(IRS, p) /\ p + n <= P + 1
  BY HonestIs
<1>4. t.fin_seen => r = P + 2
  BY <1>1, Awaiting DEF Reads
<1>5. P \in Int
  BY <1>1, Awaiting
<1> HIDE DEF r, p, n
<1>6. seq_lt(s.seq, t.rcv_nxt) <=> p < r
  BY <1>2, <1>3, Compare
<1>7. s.seq = t.rcv_nxt <=> p = r
  BY <1>2, <1>3, Compare
<1>8. CASE n = 0
  BY <1>1, <1>8, TakeDataIs DEF n
<1>9. CASE n # 0
  <2>1. 1 <= p /\ Continues(s.data, p)
    BY <1>9 DEF Honest, n, p
  <2>2. take_data(t, s) = SendAck(TakenIn(t, s))
    BY <1>1, <1>9, TakeDataIs DEF n
  <2>3. RecvOK(TakenIn(t, s), rd, P, e)
    <3>1. CASE p < r
      <4>1. Back(t, s) = r - p /\ Back(t, s) \in Nat
        <5>1. p <= r /\ r - p \in Nat
          BY <1>2, <1>3, <3>1
        <5> QED  BY <1>2, <1>3, <5>1, Compare DEF Back
      <4>2. CASE Back(t, s) >= n
        BY <1>6, <3>1, <4>2 DEF TakenIn, n
      <4>3. CASE ~(Back(t, s) >= n)
        <5> DEFINE d == SubSeq(s.data, Back(t, s) + 1, Len(s.data))
        <5>1. Back(t, s) < Len(s.data)
          BY <1>3, <4>1, <4>3 DEF n
        <5>2. d \in Seq(Nat) /\ Len(d) = n - Back(t, s) /\ Continues(d, p + Back(t, s))
          BY <1>3, <2>1, <4>1, <5>1, Trim DEF n
        <5>3. TakenIn(t, s) = deliver(t, d)
          BY <1>6, <3>1, <4>3 DEF TakenIn, n
        <5> HIDE DEF d
        <5>4. p + Back(t, s) = r /\ r + Len(d) <= P + 1
          BY <1>2, <1>3, <1>5, <4>1, <5>2
        <5>5. ~t.fin_seen
          BY <1>2, <1>3, <1>4, <1>5, <4>1, <4>3
        <5> QED  BY <5>2, <5>3, <5>4, <5>5, DeliverReceives DEF r
      <4> QED  BY <4>2, <4>3
    <3>2. CASE p = r
      <4>1. TakenIn(t, s) = deliver(t, s.data)
        BY <1>2, <1>3, <1>6, <1>7, <3>2 DEF TakenIn
      <4>2. ~t.fin_seen
        BY <1>2, <1>3, <1>4, <1>5, <3>2
      <4>3. Continues(s.data, r) /\ r + Len(s.data) <= P + 1
        BY <1>3, <2>1, <3>2 DEF n
      <4> QED  BY <1>3, <4>1, <4>2, <4>3, DeliverReceives DEF r
    <3>3. CASE p > r
      <4>1. TakenIn(t, s) = Hold(t, s)
        BY <1>2, <1>3, <1>6, <1>7, <3>3 DEF TakenIn
      <4> QED  BY <1>9, <4>1, HoldReceives DEF n
    <3> QED  BY <1>2, <1>3, <3>1, <3>2, <3>3
  <2>4. Typed(TakenIn(t, s))
    BY <2>3 DEF RecvOK
  <2> QED  BY <2>2, <2>3, <2>4, AckStep, SendStepReceives
<1> QED  BY <1>8, <1>9

\* The peer's FIN is passed: rcv_nxt counts it.
Passed(t) == [t EXCEPT !.fin_seen = TRUE, !.rcv_nxt = Plus(t.rcv_nxt, 1)]

LEMMA PassedShape ==
    ASSUME NEW t, Typed(t)
    PROVE  LET u == Passed(t) IN
           /\ RecvStep(t, u) /\ u.out = t.out /\ u.fin_seen = TRUE /\ u.rcv_nxt = Plus(t.rcv_nxt, 1)
           /\ u.rcvbuf = t.rcvbuf /\ u.rcv_head = t.rcv_head /\ u.ooo = t.ooo
           /\ u.ooo_seq = t.ooo_seq /\ u.ooo_fin = t.ooo_fin /\ u.ooo_fin_ready = t.ooo_fin_ready
<1> DEFINE n == Plus(t.rcv_nxt, 1)
           u == Passed(t)
<1>1. t \in Conn /\ t.rcv_head <= Len(t.rcvbuf) /\ t.rcv_nxt \in Int
  BY Fields, SeqNoInt DEF Typed
<1>2. n \in SeqNo
  BY <1>1, PlusTyped
<1>3. u = [t EXCEPT !.fin_seen = TRUE, !.rcv_nxt = n]
  BY DEF Passed
<1> HIDE DEF n, u
<1>4. u \in Conn
  BY <1>1, <1>2, <1>3 DEF Conn
<1>5. /\ u.st = t.st /\ SndSame(t, u) /\ u.out = t.out /\ u.fin_seen = TRUE /\ u.rcv_nxt = n
      /\ u.rcvbuf = t.rcvbuf /\ u.rcv_head = t.rcv_head /\ u.ooo = t.ooo
      /\ u.ooo_seq = t.ooo_seq /\ u.ooo_fin = t.ooo_fin /\ u.ooo_fin_ready = t.ooo_fin_ready
  BY <1>1, <1>3 DEF Conn, SndSame
<1>6. Typed(u) /\ \A W \in Nat : SndOut(t, W) => SndOut(u, W)
  BY <1>1, <1>4, <1>5 DEF Typed, SndOut, SndSame
<1> QED  BY <1>5, <1>6 DEF RecvStep, u, n

LEMMA PassedReceives ==
    ASSUME NEW t, NEW rd, NEW P, NEW e, Incoming(P), RecvOK(t, rd, P, e), ~t.fin_seen, Got(t, rd) = P
    PROVE  RecvOK(Passed(t), rd, P, e)
<1> DEFINE u == Passed(t)
           r == Rcv(t)
<1>1. /\ Typed(t) /\ rd \in Nat /\ Reads(t, rd, P) /\ Slotted(t, P) /\ EdgesFit(t, e)
      /\ Rcv(t) = Got(t, rd) + 1
  BY DEF RecvOK, Receives
<1>2. /\ RecvStep(t, u) /\ u.out = t.out /\ u.fin_seen = TRUE /\ u.rcv_nxt = Plus(t.rcv_nxt, 1)
      /\ u.rcvbuf = t.rcvbuf /\ u.rcv_head = t.rcv_head /\ u.ooo = t.ooo
      /\ u.ooo_seq = t.ooo_seq /\ u.ooo_fin = t.ooo_fin /\ u.ooo_fin_ready = t.ooo_fin_ready
  BY <1>1, PassedShape
<1> HIDE DEF u
<1>3. /\ r \in Int /\ r \in Within /\ t.rcv_nxt = At(IRS, r) /\ IRS \in SeqNo /\ 1 <= r /\ r = P + 1
  BY <1>1, Awaiting
<1>4. P \in Int /\ 0 <= P /\ P + RCV_BUF + 2 < Middle /\ Middle \in Int /\ RCV_BUF \in Nat
  BY <1>1, Awaiting
<1>5. Room(t) = r - 1 + rcv_space(t) /\ rcv_space(t) \in Nat
  BY <1>1, Awaiting
<1> HIDE DEF r
<1>6. r + 1 \in Within /\ 1 \in Within /\ r + 1 = P + 2
  BY <1>3, <1>4 DEF Within
<1>7. r \in SeqNo /\ r + 1 \in SeqNo
  BY <1>3, <1>6, SeqFacts
<1>8. u.rcv_nxt = At(IRS, r + 1)
  BY <1>2, <1>3, <1>6, <1>7, AtIs
<1>9. Rcv(u) = r + 1
  BY <1>3, <1>7, <1>8, AtIs DEF Rcv
<1>10. Got(u, rd) = Got(t, rd) /\ rcv_space(u) = rcv_space(t) /\ Waiting(u) = Waiting(t)
  BY <1>2 DEF Got, tcp_available, rcv_space, Waiting
<1>11. Got(u, rd) = P /\ Rcv(u) = Got(u, rd) + 2
  BY <1>4, <1>6, <1>9, <1>10
<1>12. Reads(u, rd, P) /\ Slotted(u, P)
  BY <1>1, <1>2, <1>4, <1>10, <1>11 DEF Reads, Slotted
<1>13. Typed(u)
  BY <1>2 DEF RecvStep
<1>14. Room(u) = r + rcv_space(t)
  <2>1. Room(u) = Rcv(u) - 1 + rcv_space(u)
    BY <1>1, <1>2, <1>11, <1>12, <1>13, Awaiting
  <2> QED  BY <1>3, <1>5, <1>9, <1>10, <2>1
<1>15. Room(t) <= Room(u) /\ Room(t) \in Int /\ Room(u) \in Int
  BY <1>3, <1>5, <1>14
<1>18. e \in Int /\ e <= Room(u)
  BY <1>1, <1>15 DEF EdgesFit
<1>16. EdgesFit(u, e)
  <2> SUFFICES ASSUME NEW s \in u.out, "RST" \notin s.flags PROVE Edge(s) <= Room(u)
    BY <1>18 DEF EdgesFit
  <2>1. Edge(s) <= Room(t)
    BY <1>1, <1>2 DEF EdgesFit, Fits
  <2>2. u.out \subseteq Seg
    BY <1>13, Fields DEF Typed
  <2>3. Edge(s) \in Int
    BY <2>2, EdgeTyped
  <2> QED  BY <1>15, <2>1, <2>3
<1>17. Receives(u, rd, P)
  BY <1>2, <1>11, <1>12 DEF Receives
<1> QED  BY <1>1, <1>12, <1>13, <1>16, <1>17 DEF RecvOK, u

LEMMA TakeFinIs ==
    ASSUME NEW b, NEW t, NEW s
    PROVE  \/ TakesFin(b, t, s) /\ take_fin(b, t, s) = SendAck(Passed(t))
           \/ ~TakesFin(b, t, s) /\ take_fin(b, t, s) = SendAck(t)
           \/ ~TakesFin(b, t, s) /\ take_fin(b, t, s) = t
BY DEF take_fin, Passed

LEMMA TakeFinShape ==
    ASSUME NEW b, NEW t, Typed(t), NEW s
    PROVE  LET u == take_fin(b, t, s) IN
           /\ RecvStep(t, u)
           /\ ~TakesFin(b, t, s) => u.fin_seen = t.fin_seen
<1> DEFINE p == Passed(t)
<1>1. RecvStep(t, p)
  BY PassedShape
<1> HIDE DEF p
<1>2. RecvStep(p, SendAck(p))
  BY <1>1, AckStep DEF RecvStep
<1>3. RecvStep(t, SendAck(p))
  BY <1>1, <1>2, RecvStepTrans
<1>4. RecvStep(t, SendAck(t)) /\ SendStep(t, SendAck(t)) /\ RecvStep(t, t)
  BY AckStep, RecvStepRefl
<1> QED  BY <1>3, <1>4, TakeFinIs DEF p, SendStep, RcvSame

LEMMA TakeFinReceives ==
    ASSUME NEW b, NEW t, NEW rd, NEW P, NEW e, Incoming(P), RecvOK(t, rd, P, e), NEW s, Honest(s, P)
    PROVE  RecvOK(take_fin(b, t, s), rd, P, e)
<1> DEFINE r == Rcv(t)
           p == Place(s)
           n == Len(s.data)
<1>1. Typed(t) /\ rd \in Nat /\ Reads(t, rd, P)
      /\ Rcv(t) = Got(t, rd) + (IF t.fin_seen THEN 2 ELSE 1)
  BY DEF RecvOK, Receives
<1>2. CASE TakesFin(b, t, s) /\ take_fin(b, t, s) = SendAck(Passed(t))
  <2>1. ~t.fin_seen /\ "FIN" \in s.flags /\ seq_le(Plus(s.seq, n), t.rcv_nxt)
    BY <1>2 DEF TakesFin
  <2>2. p + n = P + 1
    BY <2>1 DEF Honest
  <2>3. /\ p \in SeqNo /\ n \in Within /\ p + n \in Within /\ s.seq = At(IRS, p)
    BY HonestIs
  <2>4. /\ r \in Int /\ r \in Within /\ t.rcv_nxt = At(IRS, r) /\ IRS \in SeqNo /\ r = Got(t, rd) + 1
        /\ Got(t, rd) \in Int /\ Got(t, rd) <= P /\ P \in Int
    BY <1>1, <2>1, Awaiting
  <2> HIDE DEF r, p, n
  <2>5. Plus(s.seq, n) = At(IRS, p + n)
    BY <2>3, <2>4, AtIs, SeqFacts
  <2>10. seq_le(At(IRS, p + n), At(IRS, r))
    BY <2>1, <2>4, <2>5
  <2>6. p + n <= r
    BY <2>3, <2>4, <2>10, Compare
  <2>7. Got(t, rd) = P
    BY <2>2, <2>4, <2>6
  <2>8. RecvOK(Passed(t), rd, P, e)
    BY <2>1, <2>7, PassedReceives
  <2>9. Typed(Passed(t))
    BY <2>8 DEF RecvOK
  <2> QED  BY <1>2, <2>8, <2>9, AckStep, SendStepReceives
<1>3. CASE take_fin(b, t, s) = SendAck(t)
  BY <1>1, <1>3, AckStep, SendStepReceives
<1> QED  BY <1>2, <1>3, TakeFinIs
-----------------------------------------------------------------------------
(* Acknowledgements.                                                        *)

\* The first n bytes of the send buffer, sent again.
LEMMA AgainCarried ==
    ASSUME NEW t, NEW W, NEW H, Outgoing(W, H), SendOK(t, W, H), NEW fin \in BOOLEAN,
           NEW n \in Nat, 1 <= n, n <= Len(t.sndbuf),
           NEW s \in Seg, Plain(s.flags), s.seq = t.snd_una, s.data = SubSeq(t.sndbuf, 1, n)
    PROVE  Carries(s, W, fin)
<1> DEFINE a == Una(t)
           L == Len(t.sndbuf)
           d == SubSeq(t.sndbuf, 1, n)
<1>1. Typed(t) /\ Sender(t, W, H)
  BY DEF SendOK
<1>2. a \in Int /\ 1 <= a /\ L \in Nat /\ W \in Int /\ t.snd_una = At(ISS, a)
  BY <1>1, Standing
<1>3. t.sndbuf \in Seq(Nat)
  BY <1>1, Fields DEF Typed
<1>4. \A i \in 1..L : t.sndbuf[i] = W - L + i
  BY <1>1 DEF Sender
<1>5. ~t.fin_acked /\ L = W + 1 - a
  <2>1. L # 0
    BY <1>2
  <2> QED  BY <1>1, <2>1 DEF Sender
<1>6. 1 \in Nat \ {0} /\ n \in Int /\ n <= L /\ n - 1 + 1 = n
  OBVIOUS
<1>7. Len(d) = n /\ \A i \in 1..(n - 1 + 1) : d[i] = t.sndbuf[1 + i - 1]
  BY <1>3, <1>6, Cut
<1> HIDE DEF a, L, d
<1>8. a + Len(s.data) <= W + 1
  <2>1. Len(s.data) = n
    BY <1>7 DEF d
  <2> QED  BY <1>2, <1>5, <1>6, <2>1
<1>9. \A i \in 1..Len(s.data) : s.data[i] = a + i - 1
  <2> SUFFICES ASSUME NEW i \in 1..n PROVE d[i] = a + i - 1
    BY <1>7 DEF d
  <2>1. i \in Int /\ 1 + i - 1 = i /\ i \in 1..(n - 1 + 1) /\ i \in 1..L
    BY <1>2, <1>6
  <2>2. d[i] = t.sndbuf[i] /\ t.sndbuf[i] = W - L + i
    BY <1>4, <1>7, <2>1
  <2>3. W - L + i = a + i - 1
    BY <1>2, <1>5, <2>1
  <2> QED  BY <2>2, <2>3
<1> QED  BY <1>2, <1>8, <1>9, BytesCarried

\* A field the halves do not look at, and the tries, are set.
LEMMA TuneStep ==
    ASSUME NEW t, Typed(t), NEW u, u \in Conn, u.st = t.st, u.fin_wanted = t.fin_wanted,
           SndSame(t, u), RcvSame(t, u), u.out = t.out
    PROVE  /\ SendStep(t, u) /\ RecvStep(t, u)
           /\ \A W, H : SendOK(t, W, H) => SendOK(u, W, H)
<1>1. Typed(u) /\ Room(u) = Room(t)
  BY DEF Typed, RcvSame, Room, rcv_space
<1>2. Fits(t, u)
  BY <1>1 DEF EdgesFit, Fits
<1>3. \A W : SndOut(t, W) => SndOut(u, W)
  BY DEF SndOut
<1>4. SendStep(t, u) /\ RecvStep(t, u)
  BY <1>1, <1>2, <1>3 DEF SendStep, RecvStep, SndSame
<1> QED  BY <1>1, <1>3, <1>4, SameSends DEF SendOK

\* Bytes of the send buffer go out again, and nothing else of the halves changes.
LEMMA AgainStep ==
    ASSUME NEW t, Typed(t), NEW fl \in Flags, Plain(fl), NEW n \in Nat, 1 <= n, n <= Len(t.sndbuf)
    PROVE  LET u == send_seg(t, t.snd_una, fl, SubSeq(t.sndbuf, 1, n)) IN
           /\ SendStep(t, u) /\ SndSame(t, u)
           /\ \A W, H : Outgoing(W, H) /\ SendOK(t, W, H) => SendOK(u, W, H)
<1> DEFINE d == SubSeq(t.sndbuf, 1, n)
           q == t.snd_una
           u == send_seg(t, q, fl, d)
           s == Segment(t, q, fl, d)
<1>1. t \in Conn /\ q \in SeqNo /\ t.sndbuf \in Seq(Nat) /\ t.fin_wanted \in BOOLEAN
  BY Fields DEF Typed
<1>2. 1 \in Nat \ {0} /\ n \in Int
  OBVIOUS
<1>3. d \in Seq(Nat)
  BY <1>1, <1>2, Cut
<1>4. s.seq = q /\ s.flags = fl /\ s.data = d
  BY DEF Segment
<1> HIDE DEF d, q
<1>5. s \in Seg
  BY <1>1, <1>3, SegmentTyped
<1>6. /\ Typed(u) /\ u.st = t.st /\ SndSame(t, u) /\ RcvSame(t, u)
      /\ Fits(t, u)
  BY <1>1, <1>3, SendShape
<1>7. \A x \in u.out : x \in t.out \/ x = s
  BY <1>1, <1>3, SendShape
<1> HIDE DEF s, u
<1>8. SendStep(t, u) /\ SndSame(t, u)
  BY <1>6 DEF SendStep, SndSame
<1>9. ASSUME NEW W, NEW H, Outgoing(W, H), SendOK(t, W, H) PROVE SendOK(u, W, H)
  <2>1. Carries(s, W, t.fin_wanted)
    BY <1>1, <1>4, <1>5, <1>9, AgainCarried DEF d, q
  <2>2. u.fin_wanted = t.fin_wanted
    BY <1>6 DEF SndSame
  <2>3. SndOut(u, W)
    BY <1>7, <1>9, <2>1, <2>2 DEF SndOut, SendOK
  <2> QED  BY <1>6, <1>9, <2>3, SameSends DEF SendOK
<1> QED  BY <1>8, <1>9 DEF u, d, q

LEMMA DuplicateAckStep ==
    ASSUME NEW t, Typed(t), NEW candidate \in BOOLEAN
    PROVE  /\ SendStep(t, duplicate_ack(t, candidate))
           /\ \A W, H : Outgoing(W, H) /\ SendOK(t, W, H) => SendOK(duplicate_ack(t, candidate), W, H)
<1> DEFINE run == IF candidate THEN Least(t.dup_ack_run + 1, DUPACK_MAX) ELSE 0
           gone == Dist(t.snd_una, t.snd_nxt) - (IF t.fin_sent THEN 1 ELSE 0)
           n == Least(Least(gone, Len(t.sndbuf)), MSS)
           c == [t EXCEPT !.dup_ack_run = run]
           fl == {"ACK", "PSH"}
           v == send_seg(c, c.snd_una, fl, SubSeq(c.sndbuf, 1, n))
           tries == Least(v.rexmit_tries + 1, DATA_TRIES)
           u == [v EXCEPT !.rexmit_tries = tries, !.cwnd = 1, !.armed = TRUE]
<1>1. /\ t \in Conn /\ t.snd_una \in SeqNo /\ t.snd_nxt \in SeqNo /\ Len(t.sndbuf) \in Nat
      /\ t.fin_sent \in BOOLEAN /\ t.dup_ack_run \in Nat
  BY Fields DEF Typed
<1>2. run \in Nat
  BY <1>1, SeqFacts DEF Least
<1> HIDE DEF run
<1>3. c \in Conn
  BY <1>1, <1>2 DEF Conn
<1>4. c.st = t.st /\ c.fin_wanted = t.fin_wanted /\ SndSame(t, c) /\ RcvSame(t, c) /\ c.out = t.out
  BY <1>1 DEF Conn, SndSame, RcvSame
<1>5. /\ SendStep(t, c) /\ \A W, H : SendOK(t, W, H) => SendOK(c, W, H)
  BY <1>3, <1>4, TuneStep
<1>6. CASE ~(run = 3 /\ n > 0)
  <2>1. duplicate_ack(t, candidate) = c
    BY <1>6 DEF duplicate_ack, run
  <2> QED  BY <1>5, <2>1
<1>7. CASE run = 3 /\ n > 0
  <2>1. c.sndbuf = t.sndbuf /\ c.snd_una = t.snd_una
    BY <1>4 DEF SndSame
  <2>2. duplicate_ack(t, candidate) =
            [send_seg(c, t.snd_una, fl, SubSeq(t.sndbuf, 1, n)) EXCEPT
                !.rexmit_tries = Least(@ + 1, DATA_TRIES), !.cwnd = 1, !.armed = TRUE]
    BY <1>7 DEF duplicate_ack, run
  <2>3. n \in Nat /\ 1 <= n /\ n <= Len(t.sndbuf)
    <3> DEFINE g == Dist(t.snd_una, t.snd_nxt)
               L == Len(t.sndbuf)
               f == IF t.fin_sent THEN 1 ELSE 0
    <3>1. g \in Nat /\ L \in Nat /\ f \in Nat /\ MSS \in Nat
      BY <1>1, Between, SeqFacts
    <3> HIDE DEF g, L, f
    <3>2. Least(Least(g - f, L), MSS) \in Int /\ Least(Least(g - f, L), MSS) <= L
      BY <3>1 DEF Least
    <3> QED  BY <1>7, <3>2 DEF g, L, f
  <2> HIDE DEF n, c, gone
  <2>4. fl \in Flags /\ Plain(fl)
    BY DEF Flags, Flag, Plain
  <2> HIDE DEF fl
  <2>5. /\ SendStep(c, v) /\ SndSame(c, v)
        /\ \A W, H : Outgoing(W, H) /\ SendOK(c, W, H) => SendOK(v, W, H)
    BY <1>5, <2>1, <2>3, <2>4, AgainStep DEF SendStep
  <2>6. Typed(v) /\ v \in Conn
    BY <2>5 DEF SendStep, Typed
  <2>7. duplicate_ack(t, candidate) =
            [v EXCEPT !.rexmit_tries = Least(@ + 1, DATA_TRIES), !.cwnd = 1, !.armed = TRUE]
    BY <2>1, <2>2
  <2> HIDE DEF v
  <2>8. tries \in 0..DATA_TRIES
    <3>1. v.rexmit_tries \in Int /\ 0 <= v.rexmit_tries /\ DATA_TRIES \in Int /\ DATA_TRIES > 0
      BY <2>6, Fields, SeqFacts
    <3> QED  BY <3>1 DEF Least
  <2>9. duplicate_ack(t, candidate) = u
    BY <2>7
  <2> HIDE DEF tries
  <2>10. u \in Conn
    BY <2>6, <2>8 DEF Conn
  <2>11. u.st = v.st /\ u.fin_wanted = v.fin_wanted /\ SndSame(v, u) /\ RcvSame(v, u) /\ u.out = v.out
    BY <2>6 DEF Conn, SndSame, RcvSame
  <2> HIDE DEF u
  <2>12. SendStep(v, u) /\ \A W, H : SendOK(v, W, H) => SendOK(u, W, H)
    BY <2>6, <2>10, <2>11, TuneStep
  <2>13. SendStep(t, u)
    BY <1>5, <2>5, <2>12, SendStepTrans
  <2> QED  BY <1>5, <2>5, <2>9, <2>12, <2>13
<1> QED  BY <1>6, <1>7

\* new_ack up to its pump_send.
BytesAcked(t, ack) == Dist(t.snd_una, ack) - (IF FinCovered(t, ack) THEN 1 ELSE 0)
Credited(t, ack) ==
    [t EXCEPT !.dup_ack_run = 0, !.fin_acked = (t.fin_acked \/ FinCovered(t, ack)),
              !.sndbuf = SubSeq(t.sndbuf, BytesAcked(t, ack) + 1, Len(t.sndbuf)), !.snd_una = ack,
              !.cwnd = Least(t.cwnd + 1, CWND_MAX), !.armed = (ack # t.snd_nxt)]

LEMMA NewAckIs == ASSUME NEW t, NEW ack PROVE new_ack(t, ack) = pump_send(Credited(t, ack))
BY DEF new_ack, Credited, BytesAcked

\* An ACK of what was sent and received, and of more than before.
LEMMA CreditedSends ==
    ASSUME NEW t, NEW W, NEW H, Outgoing(W, H), SendOK(t, W, H),
           NEW a \in Within, Una(t) < a, a <= Nxt(t), a <= H
    PROVE  LET u == Credited(t, At(ISS, a)) IN SendStep(t, u) /\ SendOK(u, W, H)
<1> DEFINE o == Una(t)
           n == Nxt(t)
           L == Len(t.sndbuf)
           ack == At(ISS, a)
           fin == FinCovered(t, ack)
           k == BytesAcked(t, ack)
           q == SubSeq(t.sndbuf, k + 1, L)
           w == Least(t.cwnd + 1, CWND_MAX)
           fa == (t.fin_acked \/ fin)
           arm == (ack # t.snd_nxt)
           u == Credited(t, ack)
<1>1. Typed(t) /\ Sender(t, W, H) /\ SndOut(t, W)
  BY DEF SendOK
<1>2. o \in Int /\ n \in Int /\ L \in Nat /\ W \in Int /\ 0 <= W /\ H \in Int /\ 1 <= o /\ o <= n /\ n <= W + 2
  BY <1>1, Standing
<1>3. o \in Within /\ n \in Within /\ t.snd_una = At(ISS, o) /\ t.snd_nxt = At(ISS, n) /\ ISS \in SeqNo
      /\ t.fin_sent \in BOOLEAN /\ t.fin_acked \in BOOLEAN
  BY <1>1, Standing
<1>4. W + 2 < Middle /\ Middle \in Int
  BY <1>1, Standing
<1>5. t \in Conn /\ t.rcv_head <= Len(t.rcvbuf) /\ t.sndbuf \in Seq(Nat) /\ L <= SND_BUF /\ t.cwnd \in Nat
  BY <1>1, Fields DEF Typed
<1>6. a \in Int /\ a \in SeqNo /\ ack \in SeqNo
  BY <1>3, SeqFacts, SeqNoInt, AtIs DEF Within
<1>7. /\ t.fin_sent => n = W + 2 /\ t.fin_seq = At(ISS, W + 1) /\ t.fin_wanted
      /\ ~t.fin_sent => n <= W + 1
  BY <1>1 DEF Sender
<1>8. ~t.fin_acked /\ L = W + 1 - o /\ o <= W + 1
  <2>1. CASE t.fin_acked
    <3>1. o = W + 2
      BY <1>1, <2>1 DEF Sender
    <3>2. o < a /\ a <= n
      OBVIOUS
    <3> HIDE DEF o, n
    <3> QED  BY <1>2, <1>6, <3>1, <3>2
  <2>2. CASE ~t.fin_acked
    BY <1>1, <2>2 DEF Sender
  <2> QED  BY <2>1, <2>2
<1>9. \A i \in 1..L : t.sndbuf[i] = W - L + i
  BY <1>1 DEF Sender
<1>10. o < a /\ a <= n /\ a <= H
  OBVIOUS
<1>11. Dist(t.snd_una, ack) = a - o
  <2> HIDE DEF o, n, ack
  <2>1. o <= a
    BY <1>2, <1>6, <1>10
  <2> QED  BY <1>3, <2>1, Compare DEF ack
<1>12. fin => t.fin_sent /\ a = W + 2
  <2>1. CASE t.fin_sent
    <3>1. fin <=> seq_lt(At(ISS, W + 1), At(ISS, a))
      BY <1>7, <2>1 DEF FinCovered
    <3> HIDE DEF o, n, ack, fin
    <3>2. W + 1 \in Within
      BY <1>2, <1>4 DEF Within
    <3>3. fin <=> W + 1 < a
      BY <1>3, <3>1, <3>2, Compare
    <3> QED  BY <1>2, <1>6, <1>10, <2>1, <3>3
  <2>2. CASE ~t.fin_sent
    BY <2>2 DEF FinCovered
  <2> QED  BY <1>3, <2>1, <2>2
<1>13. ~fin => a <= W + 1
  <2>1. CASE t.fin_sent
    <3>1. fin <=> seq_lt(At(ISS, W + 1), At(ISS, a))
      BY <1>7, <2>1 DEF FinCovered
    <3> HIDE DEF o, n, ack, fin
    <3>2. W + 1 \in Within
      BY <1>2, <1>4 DEF Within
    <3>3. fin <=> W + 1 < a
      BY <1>3, <3>1, <3>2, Compare
    <3> QED  BY <1>2, <1>6, <1>10, <2>1, <3>3
  <2>2. CASE ~t.fin_sent
    <3>1. n <= W + 1
      BY <1>7, <2>2
    <3> HIDE DEF o, n, fin
    <3> QED  BY <1>2, <1>6, <1>10, <3>1
  <2> QED  BY <1>3, <2>1, <2>2
<1>14. k = a - o - (IF fin THEN 1 ELSE 0)
  BY <1>11 DEF BytesAcked
<1>15. u = [t EXCEPT !.dup_ack_run = 0, !.fin_acked = fa, !.sndbuf = q, !.snd_una = ack,
                     !.cwnd = w, !.armed = arm]
  BY DEF Credited
<1>16. fin \in BOOLEAN
  BY DEF FinCovered, seq_lt
<1>17. w \in Nat /\ arm \in BOOLEAN
  BY <1>5, SeqFacts DEF Least
<1> HIDE DEF fin, k, o, n, L, w, arm, u, ack
<1>18. k \in Int /\ 0 <= k /\ k <= L /\ L - k = (IF fin THEN 0 ELSE W + 1 - a)
  BY <1>2, <1>6, <1>8, <1>10, <1>12, <1>13, <1>14, <1>16
<1> DEFINE m == k + 1
<1>19. m \in Nat \ {0} /\ L \in Int /\ L - m + 1 = L - k
  BY <1>2, <1>18
<1> HIDE DEF m
<1>20. /\ SubSeq(t.sndbuf, m, L) \in Seq(Nat)
       /\ Len(SubSeq(t.sndbuf, m, L)) = IF m <= L THEN L - m + 1 ELSE 0
       /\ \A i \in 1..(L - m + 1) : SubSeq(t.sndbuf, m, L)[i] = t.sndbuf[m + i - 1]
  BY <1>5, <1>19, Cut DEF L
<1>21. q = SubSeq(t.sndbuf, m, L)
  BY DEF m
<1> HIDE DEF q
<1>22. q \in Seq(Nat) /\ Len(q) = L - k
  BY <1>2, <1>18, <1>19, <1>20, <1>21 DEF m
<1>23. q \in Buffer(SND_BUF)
  BY <1>2, <1>5, <1>18, <1>22, SeqFacts DEF Buffer
<1>24. fa \in BOOLEAN /\ (fa <=> fin)
  BY <1>3, <1>8, <1>16
<1> HIDE DEF fa
<1>25. u \in Conn
  <2> DEFINE v == [t EXCEPT !.dup_ack_run = 0, !.fin_acked = fa, !.sndbuf = q]
  <2>1. v \in Conn
    BY <1>5, <1>23, <1>24 DEF Conn
  <2>2. u = [v EXCEPT !.snd_una = ack, !.cwnd = w, !.armed = arm]
    BY <1>5, <1>15 DEF Conn
  <2> HIDE DEF v
  <2> QED  BY <1>6, <1>17, <2>1, <2>2 DEF Conn
<1>26. /\ u.st = t.st /\ u.iss = t.iss /\ u.fin_wanted = t.fin_wanted /\ RcvSame(t, u) /\ u.out = t.out
       /\ u.snd_una = ack /\ u.snd_nxt = t.snd_nxt /\ u.sndbuf = q /\ u.fin_sent = t.fin_sent
       /\ u.fin_seq = t.fin_seq
  BY <1>5, <1>15 DEF Conn, RcvSame
<1>27. u.fin_acked = fa
  BY <1>5, <1>15 DEF Conn
<1>28. Typed(u) /\ Room(u) = Room(t)
  BY <1>5, <1>25, <1>26 DEF Typed, RcvSame, Room, rcv_space
<1>29. SendStep(t, u)
  BY <1>26, <1>28 DEF SendStep, EdgesFit, Fits
<1>30. Una(u) = a /\ Nxt(u) = n
  BY <1>3, <1>6, <1>26, AtIs DEF Una, Nxt, n, ack
<1>31. \A i \in 1..Len(q) : q[i] = W - Len(q) + i
  <2> SUFFICES ASSUME NEW i \in 1..Len(q) PROVE q[i] = W - Len(q) + i
    OBVIOUS
  <2>1. i \in Int /\ 1 <= i /\ i <= L - k
    BY <1>22
  <2>2. i \in 1..(L - m + 1) /\ m + i - 1 \in 1..L /\ m + i - 1 = k + i
    BY <1>2, <1>18, <1>19, <2>1 DEF m
  <2>3. q[i] = t.sndbuf[k + i] /\ t.sndbuf[k + i] = W - L + (k + i)
    BY <1>9, <1>20, <1>21, <2>2
  <2>4. W - L + (k + i) = W - Len(q) + i
    BY <1>2, <1>18, <1>22, <2>1
  <2> QED  BY <2>3, <2>4
<1>32. Sender(u, W, H)
  <2>1. 1 <= Una(u) /\ Una(u) <= H /\ Una(u) <= Nxt(u)
    BY <1>2, <1>6, <1>10, <1>30
  <2>2. IF u.fin_sent THEN Nxt(u) = W + 2 /\ u.fin_seq = At(ISS, W + 1) /\ u.fin_wanted
                      ELSE Nxt(u) <= W + 1
    BY <1>7, <1>26, <1>30
  <2>3. IF u.fin_acked THEN u.fin_sent /\ Una(u) = W + 2 /\ Len(u.sndbuf) = 0
                       ELSE Una(u) <= W + 1 /\ Len(u.sndbuf) = W + 1 - Una(u)
    <3>1. CASE fin
      BY <1>12, <1>18, <1>22, <1>24, <1>26, <1>27, <1>30, <3>1
    <3>2. CASE ~fin
      BY <1>13, <1>18, <1>22, <1>24, <1>26, <1>27, <1>30, <3>2
    <3> QED  BY <3>1, <3>2
  <2>4. \A i \in 1..Len(u.sndbuf) : u.sndbuf[i] = W - Len(u.sndbuf) + i
    BY <1>26, <1>31
  <2> QED  BY <2>1, <2>2, <2>3, <2>4 DEF Sender
<1>33. SendOK(u, W, H)
  BY <1>1, <1>26, <1>28, <1>32 DEF SendOK, SndOut
<1> QED  BY <1>29, <1>33 DEF u, ack

LEMMA NewAckStep ==
    ASSUME NEW t, NEW W, NEW H, Outgoing(W, H), SendOK(t, W, H),
           NEW a \in Within, Una(t) < a, a <= Nxt(t), a <= H
    PROVE  SendStep(t, new_ack(t, At(ISS, a))) /\ SendOK(new_ack(t, At(ISS, a)), W, H)
<1> DEFINE v == Credited(t, At(ISS, a))
<1>1. SendStep(t, v) /\ SendOK(v, W, H)
  BY CreditedSends
<1>2. new_ack(t, At(ISS, a)) = pump_send(v)
  BY NewAckIs
<1> HIDE DEF v
<1>3. SendStep(v, pump_send(v)) /\ SendOK(pump_send(v), W, H)
  BY <1>1, PumpStep, PumpSends DEF SendOK
<1> QED  BY <1>1, <1>2, <1>3, SendStepTrans

\* An honest peer acknowledges what it holds; the rest on_ack finds out itself.
LEMMA OnAckStep ==
    ASSUME NEW t, NEW W, NEW H, Outgoing(W, H), SendOK(t, W, H),
           NEW a \in Within, a <= H, NEW candidate \in BOOLEAN
    PROVE  LET u == on_ack(t, At(ISS, a), candidate) IN SendStep(t, u) /\ SendOK(u, W, H)
<1> DEFINE o == Una(t)
           n == Nxt(t)
           ack == At(ISS, a)
           u == on_ack(t, ack, candidate)
<1>1. Typed(t) /\ Sender(t, W, H)
  BY DEF SendOK
<1>2. /\ o \in Int /\ n \in Int /\ o \in Within /\ n \in Within /\ t.snd_una = At(ISS, o)
      /\ t.snd_nxt = At(ISS, n) /\ ISS \in SeqNo
  BY <1>1, Standing
<1>3. a \in Int
  BY SeqFacts DEF Within
<1> HIDE DEF o, n
<1>4. seq_le(ack, t.snd_una) <=> a <= o
  BY <1>2, Compare
<1>5. seq_lt(t.snd_nxt, ack) <=> n < a
  BY <1>2, Compare
<1>6. SendStep(t, t) /\ SendOK(t, W, H)
  BY <1>1, SendStepRefl
<1>7. CASE a <= o
  <2>1. u = duplicate_ack(t, candidate) \/ u = t
    BY <1>4, <1>7 DEF on_ack
  <2> HIDE DEF u
  <2> QED  BY <1>1, <1>6, <2>1, DuplicateAckStep DEF u
<1>8. CASE ~(a <= o) /\ n < a
  <2>1. u = t
    BY <1>4, <1>5, <1>8 DEF on_ack
  <2> QED  BY <1>6, <2>1
<1>9. CASE ~(a <= o) /\ ~(n < a)
  <2>1. u = new_ack(t, ack)
    BY <1>4, <1>5, <1>9 DEF on_ack
  <2>2. o < a /\ a <= n
    BY <1>2, <1>3, <1>9
  <2> HIDE DEF u
  <2> QED  BY <2>1, <2>2, NewAckStep DEF o, n, u
<1> QED  BY <1>7, <1>8, <1>9

\* What the halves do not look at, the state among it, is set.
LEMMA HalvesStep ==
    ASSUME NEW t, Typed(t), NEW u \in Conn, SndSame(t, u), RcvSame(t, u), u.out = t.out
    PROVE  /\ Typed(u)
           /\ \A W, H : SendOK(t, W, H) => SendOK(u, W, H)
           /\ \A rd, P, e : RecvOK(t, rd, P, e) => RecvOK(u, rd, P, e)
<1>1. Typed(u) /\ Room(u) = Room(t)
  BY DEF Typed, RcvSame, Room, rcv_space
<1>2. Fits(t, u)
  BY <1>1 DEF EdgesFit, Fits
<1>3. \A W : SndOut(t, W) => SndOut(u, W)
  BY DEF SndOut, SndSame
<1>4. \A W, H : SendOK(t, W, H) => SendOK(u, W, H)
  BY <1>1, <1>3, SameSends DEF SendOK
<1>5. ASSUME NEW rd, NEW P, NEW e, RecvOK(t, rd, P, e) PROVE RecvOK(u, rd, P, e)
  <2>1. Got(u, rd) = Got(t, rd) /\ Rcv(u) = Rcv(t) /\ Waiting(u) = Waiting(t)
    BY DEF RcvSame, Got, tcp_available, Rcv, Waiting
  <2>2. Reads(u, rd, P) /\ Slotted(u, P)
    BY <1>5, <2>1 DEF RcvSame, RecvOK, Reads, Receives, Slotted
  <2> QED  BY <1>1, <1>2, <1>5, <2>1, <2>2 DEF RcvSame, RecvOK, Receives, Fits
<1> QED  BY <1>1, <1>4, <1>5

\* A function that only changes the state.
LEMMA TurnStep ==
    ASSUME NEW t, Typed(t), NEW x \in States
    PROVE  LET u == [t EXCEPT !.st = x] IN
           /\ Typed(u) /\ u.st = x /\ SndSame(t, u) /\ RcvSame(t, u) /\ u.out = t.out
           /\ \A W, H : SendOK(t, W, H) => SendOK(u, W, H)
           /\ \A rd, P, e : RecvOK(t, rd, P, e) => RecvOK(u, rd, P, e)
<1> DEFINE u == [t EXCEPT !.st = x]
<1>1. t \in Conn
  BY DEF Typed
<1>2. u \in Conn
  BY <1>1 DEF Conn
<1>3. u.st = x /\ SndSame(t, u) /\ RcvSame(t, u) /\ u.out = t.out
  BY <1>1 DEF Conn, SndSame, RcvSame
<1> HIDE DEF u
<1>4. /\ Typed(u)
      /\ \A W, H : SendOK(t, W, H) => SendOK(u, W, H)
      /\ \A rd, P, e : RecvOK(t, rd, P, e) => RecvOK(u, rd, P, e)
  BY <1>2, <1>3, HalvesStep
<1> QED  BY <1>3, <1>4 DEF u

LEMMA ClosedStep ==
    ASSUME NEW t, Typed(t)
    PROVE  LET u == Closed(t) IN
           /\ Typed(u) /\ u.st = "CLOSED" /\ SndSame(t, u) /\ RcvSame(t, u) /\ u.out = t.out
           /\ \A W, H : SendOK(t, W, H) => SendOK(u, W, H)
           /\ \A rd, P, e : RecvOK(t, rd, P, e) => RecvOK(u, rd, P, e)
<1> DEFINE u == Closed(t)
<1>1. t \in Conn /\ "CLOSED" \in States
  BY DEF Typed, States
<1>2. u \in Conn
  BY <1>1 DEF Conn, Closed
<1>3. u.st = "CLOSED" /\ SndSame(t, u) /\ RcvSame(t, u) /\ u.out = t.out
  BY <1>1 DEF Conn, Closed, SndSame, RcvSame
<1> HIDE DEF u
<1>4. /\ Typed(u)
      /\ \A W, H : SendOK(t, W, H) => SendOK(u, W, H)
      /\ \A rd, P, e : RecvOK(t, rd, P, e) => RecvOK(u, rd, P, e)
  BY <1>2, <1>3, HalvesStep
<1> QED  BY <1>3, <1>4 DEF u
-----------------------------------------------------------------------------
(* The states.                                                              *)

\* What the peer acknowledges it holds.
Honoured(s, H) == \E a \in 1..H : s.ack = At(ISS, a)
Up(t) == t.st \notin {"CLOSED", "SYN_SENT"}

LEMMA HonouredIs ==
    ASSUME NEW W, NEW H, Outgoing(W, H), NEW s, Honoured(s, H)
    PROVE  \E a \in Within : 1 <= a /\ a <= H /\ s.ack = At(ISS, a)
<1>1. PICK a \in 1..H : s.ack = At(ISS, a)
  BY DEF Honoured
<1>2. H \in Int /\ W \in Int /\ H <= W + 2 /\ W + 2 < Middle /\ Middle \in Int
  BY SeqFacts DEF Outgoing, Within
<1>3. a \in Int /\ 1 <= a /\ a <= H
  BY <1>2
<1>4. a \in Within
  BY <1>2, <1>3 DEF Within
<1> QED  BY <1>1, <1>3, <1>4

\* The FIN that waited in the slot.
LatePassed(v, x) ==
    [v EXCEPT !.ooo_fin_ready = FALSE, !.fin_seen = TRUE, !.rcv_nxt = Plus(v.rcv_nxt, 1), !.st = x]

LEMMA LateStep ==
    ASSUME NEW v, Typed(v), NEW x \in States
    PROVE  LET u == LatePassed(v, x) IN
           /\ Typed(u) /\ SndSame(v, u) /\ u.st = x /\ u.fin_seen = TRUE
           /\ \A W, H : Outgoing(W, H) /\ SendOK(v, W, H) => SendOK(u, W, H)
           /\ \A rd, P, e : /\ Incoming(P) /\ RecvOK(v, rd, P, e) /\ ~v.fin_seen /\ v.ooo_fin_ready
                            => RecvOK(u, rd, P, e)
<1> DEFINE p == Passed(v)
           n == Plus(v.rcv_nxt, 1)
           u == LatePassed(v, x)
<1>1. /\ RecvStep(v, p) /\ p.out = v.out /\ p.fin_seen = TRUE /\ p.rcv_nxt = n
      /\ p.rcvbuf = v.rcvbuf /\ p.rcv_head = v.rcv_head /\ p.ooo = v.ooo
      /\ p.ooo_seq = v.ooo_seq /\ p.ooo_fin = v.ooo_fin /\ p.ooo_fin_ready = v.ooo_fin_ready
  BY PassedShape
<1>2. v \in Conn /\ v.rcv_head <= Len(v.rcvbuf) /\ v.rcv_nxt \in Int
  BY Fields, SeqNoInt DEF Typed
<1>3. n \in SeqNo
  BY <1>2, PlusTyped
<1>4. u = [v EXCEPT !.ooo_fin_ready = FALSE, !.fin_seen = TRUE, !.rcv_nxt = n, !.st = x]
  BY DEF LatePassed
<1> HIDE DEF u, n, p
<1>5. u \in Conn
  BY <1>2, <1>3, <1>4 DEF Conn
<1>6. /\ u.st = x /\ SndSame(v, u) /\ u.out = v.out /\ u.fin_seen = TRUE /\ u.rcv_nxt = n
      /\ u.rcvbuf = v.rcvbuf /\ u.rcv_head = v.rcv_head /\ u.ooo = v.ooo
      /\ u.ooo_seq = v.ooo_seq /\ u.ooo_fin = v.ooo_fin /\ ~u.ooo_fin_ready
  BY <1>2, <1>4 DEF Conn, SndSame
<1>7. Typed(u)
  BY <1>2, <1>5, <1>6 DEF Typed
<1>8. \A W, H : SendOK(v, W, H) => SendOK(u, W, H)
  BY <1>6, <1>7, SameSends DEF SendOK, SndOut, SndSame
<1>9. ASSUME NEW rd, NEW P, NEW e, Incoming(P), RecvOK(v, rd, P, e), ~v.fin_seen, v.ooo_fin_ready
      PROVE  RecvOK(u, rd, P, e)
  <2>1. Got(v, rd) = P
    BY <1>9 DEF RecvOK, Receives
  <2>2. RecvOK(p, rd, P, e)
    BY <1>9, <2>1, PassedReceives DEF p
  <2>3. /\ Got(u, rd) = Got(p, rd) /\ Rcv(u) = Rcv(p) /\ Waiting(u) = Waiting(p) /\ Room(u) = Room(p)
        /\ u.out = p.out
    BY <1>1, <1>6 DEF Got, tcp_available, Rcv, Waiting, Room, rcv_space
  <2>4. Reads(u, rd, P) /\ Slotted(u, P)
    BY <1>1, <1>6, <2>2, <2>3 DEF RecvOK, Reads, Receives, Slotted
  <2>5. EdgesFit(u, e)
    BY <2>2, <2>3 DEF RecvOK, EdgesFit
  <2>6. Receives(u, rd, P)
    BY <1>1, <1>6, <2>2, <2>3, <2>4 DEF RecvOK, Receives
  <2> QED  BY <1>7, <2>2, <2>4, <2>5, <2>6 DEF RecvOK
<1> QED  BY <1>6, <1>7, <1>8, <1>9 DEF u

LEMMA OpenStep ==
    ASSUME NEW t, NEW W, NEW H, Outgoing(W, H), SendOK(t, W, H), NEW s \in Seg, Honoured(s, H),
           t.st \in {"ESTABLISHED", "FIN_WAIT_1", "FIN_WAIT_2"}, NEW candidate \in BOOLEAN
    PROVE  LET u == st_open(t, s, candidate) IN
           /\ SendOK(u, W, H) /\ u.fin_wanted = t.fin_wanted /\ Up(u)
           /\ u.st \in {"ESTABLISHED", "CLOSE_WAIT"} => t.st = "ESTABLISHED"
           /\ \A rd, P, e :
                /\ Incoming(P) /\ RecvOK(t, rd, P, e) /\ Honest(s, P)
                /\ t.st = "ESTABLISHED" => ~t.fin_seen
                => RecvOK(u, rd, P, e) /\ (u.st = "ESTABLISHED" => ~u.fin_seen)
<1> DEFINE acked == on_ack(t, s.ack, candidate)
           data == take_data(acked, s)
           fin == TakesFin(acked, data, s)
           after == take_fin(acked, data, s)
           late == after.ooo_fin_ready /\ t.st = "ESTABLISHED"
           next == CASE t.st = "ESTABLISHED" /\ (fin \/ late) -> "CLOSE_WAIT"
                     [] t.st = "FIN_WAIT_1" /\ fin /\ ~after.fin_acked -> "CLOSING"
                     [] t.st = "FIN_WAIT_1" /\ fin /\ after.fin_acked -> "TIME_WAIT"
                     [] t.st = "FIN_WAIT_1" /\ ~fin /\ after.fin_acked -> "FIN_WAIT_2"
                     [] t.st = "FIN_WAIT_2" /\ fin -> "TIME_WAIT"
                     [] OTHER -> t.st
           u == st_open(t, s, candidate)
<1>1. u = IF ~fin /\ late
          THEN SendAck([after EXCEPT !.ooo_fin_ready = FALSE, !.fin_seen = TRUE,
                                 !.rcv_nxt = Plus(@, 1), !.st = next])
          ELSE [after EXCEPT !.st = next]
  BY DEF st_open
<1>2. u = IF ~fin /\ late THEN SendAck(LatePassed(after, next)) ELSE [after EXCEPT !.st = next]
  BY <1>1 DEF LatePassed
<1>3. PICK a \in Within : 1 <= a /\ a <= H /\ s.ack = At(ISS, a)
  BY HonouredIs
<1>4. SendStep(t, acked) /\ SendOK(acked, W, H)
  BY <1>3, OnAckStep
<1> HIDE DEF acked
<1>5. RecvStep(acked, data) /\ data.fin_seen = acked.fin_seen
  BY <1>4, TakeDataShape DEF SendOK
<1>6. SendOK(data, W, H)
  BY <1>4, <1>5, RecvStepSends
<1> HIDE DEF data
<1>7. RecvStep(data, after) /\ (~fin => after.fin_seen = data.fin_seen)
  BY <1>6, TakeFinShape DEF SendOK
<1>8. SendOK(after, W, H) /\ Typed(after)
  BY <1>6, <1>7, RecvStepSends DEF SendOK
<1>9. after.fin_wanted = t.fin_wanted
  BY <1>4, <1>5, <1>7 DEF SendStep, RecvStep, SndSame
<1>10. after.ooo_fin_ready \in BOOLEAN /\ after.fin_acked \in BOOLEAN
  BY <1>8, Fields DEF Typed
<1>11. fin \in BOOLEAN
  BY DEF TakesFin
<1> HIDE DEF after, fin
<1>12. /\ next \in States /\ next \notin {"CLOSED", "SYN_SENT"}
       /\ next \in {"ESTABLISHED", "CLOSE_WAIT"} => t.st = "ESTABLISHED"
       /\ next = "ESTABLISHED" => t.st = "ESTABLISHED" /\ ~fin /\ ~late
  BY <1>10, <1>11 DEF States
<1> HIDE DEF next, u
<1>13. ASSUME NEW rd, NEW P, NEW e, Incoming(P), RecvOK(t, rd, P, e), Honest(s, P)
       PROVE  RecvOK(after, rd, P, e)
  <2>1. RecvOK(acked, rd, P, e)
    BY <1>4, <1>13, SendStepReceives
  <2>2. RecvOK(data, rd, P, e)
    BY <1>13, <2>1, TakeDataReceives DEF data
  <2> QED  BY <1>13, <2>2, TakeFinReceives DEF after
<1>14. ~fin => after.fin_seen = t.fin_seen
  BY <1>4, <1>5, <1>7 DEF SendStep, RcvSame
<1>15. CASE ~fin /\ late
  <2> DEFINE v == LatePassed(after, next)
  <2>1. /\ Typed(v) /\ SndSame(after, v) /\ v.st = next /\ v.fin_seen = TRUE
        /\ \A W1, H1 : Outgoing(W1, H1) /\ SendOK(after, W1, H1) => SendOK(v, W1, H1)
        /\ \A rd, P, e : /\ Incoming(P) /\ RecvOK(after, rd, P, e) /\ ~after.fin_seen /\ after.ooo_fin_ready
                         => RecvOK(v, rd, P, e)
    BY <1>8, <1>12, LateStep
  <2>2. u = SendAck(v)
    BY <1>2, <1>15
  <2> HIDE DEF v
  <2>3. SendStep(v, u) /\ (SendOK(v, W, H) => SendOK(u, W, H))
    BY <2>1, <2>2, AckStep
  <2>4. SendOK(u, W, H) /\ u.st = next /\ u.fin_wanted = t.fin_wanted
    BY <1>8, <1>9, <2>1, <2>3 DEF SendStep, SndSame
  <2>5. next # "ESTABLISHED"
    BY <1>12, <1>15
  <2>6. ASSUME NEW rd, NEW P, NEW e, Incoming(P), RecvOK(t, rd, P, e), Honest(s, P),
               t.st = "ESTABLISHED" => ~t.fin_seen
        PROVE  RecvOK(u, rd, P, e)
    <3>1. ~after.fin_seen /\ after.ooo_fin_ready
      BY <1>14, <1>15, <2>6
    <3>2. RecvOK(v, rd, P, e)
      BY <1>13, <2>1, <2>6, <3>1
    <3> QED  BY <2>3, <3>2, SendStepReceives
  <2> QED  BY <1>12, <2>4, <2>5, <2>6 DEF Up, u
<1>16. CASE ~(~fin /\ late)
  <2>1. u = [after EXCEPT !.st = next]
    BY <1>2, <1>16
  <2>2. /\ Typed(u) /\ u.st = next /\ SndSame(after, u) /\ RcvSame(after, u)
        /\ \A W1, H1 : SendOK(after, W1, H1) => SendOK(u, W1, H1)
        /\ \A rd, P, e : RecvOK(after, rd, P, e) => RecvOK(u, rd, P, e)
    BY <1>8, <1>12, <2>1, TurnStep
  <2>3. SendOK(u, W, H) /\ u.fin_wanted = t.fin_wanted
    BY <1>8, <1>9, <2>2 DEF SndSame
  <2>4. ASSUME NEW rd, NEW P, NEW e, Incoming(P), RecvOK(t, rd, P, e), Honest(s, P),
               t.st = "ESTABLISHED" => ~t.fin_seen
        PROVE  RecvOK(u, rd, P, e) /\ (u.st = "ESTABLISHED" => ~u.fin_seen)
    <3>1. RecvOK(u, rd, P, e)
      BY <1>13, <2>2, <2>4
    <3>2. u.st = "ESTABLISHED" => ~u.fin_seen
      BY <1>12, <1>14, <2>2, <2>4 DEF RcvSame
    <3> QED  BY <3>1, <3>2
  <2> QED  BY <1>12, <2>2, <2>3, <2>4 DEF Up, u
<1> QED  BY <1>15, <1>16
-----------------------------------------------------------------------------
(* What holds of the record between two steps.                              *)

\* After the SYN: nothing but the SYN is in flight and nothing has come.
Opening(t) ==
    /\ t.iss = ISS /\ t.snd_una = ISS /\ t.snd_nxt = At(ISS, 1)
    /\ Len(t.sndbuf) = 0 /\ Len(t.rcvbuf) = 0 /\ Len(t.ooo) = 0 /\ t.rcv_head = 0
    /\ ~t.fin_sent /\ ~t.fin_acked /\ ~t.fin_seen /\ ~t.fin_wanted /\ ~t.ooo_fin_ready
\* Until the peer's SYN is known it may send a whole buffer.
Offered(t, e) ==
    e \in Int /\ e <= RCV_BUF /\ \A s \in t.out : "RST" \notin s.flags => Edge(s) <= RCV_BUF

SendInv(t, W, H) ==
    /\ Typed(t) /\ SndOut(t, W)
    /\ t.fin_acked => W + 2 <= H
    /\ Up(t) => Sender(t, W, H)
    /\ t.st = "SYN_SENT" => Opening(t) /\ W = 0
    /\ t.st \in {"ESTABLISHED", "CLOSE_WAIT"} => ~t.fin_wanted
    /\ t.st = "CLOSED" => ~t.armed
RecvInv(t, rd, P, e) ==
    /\ Typed(t) /\ rd \in Nat /\ Reads(t, rd, P)
    /\ Up(t) => Receives(t, rd, P) /\ EdgesFit(t, e)
    /\ t.st = "ESTABLISHED" => ~t.fin_seen
    /\ t.st = "SYN_SENT" => Opening(t) /\ rd = 0 /\ Offered(t, e)

LEMMA UpSends ==
    ASSUME NEW t, NEW W, NEW H, Outgoing(W, H), Up(t)
    PROVE  /\ SendInv(t, W, H) => SendOK(t, W, H)
           /\ SendOK(t, W, H) /\ (t.st \in {"ESTABLISHED", "CLOSE_WAIT"} => ~t.fin_wanted)
              => SendInv(t, W, H)
<1>1. ASSUME SendOK(t, W, H), t.fin_acked PROVE W + 2 <= H
  <2>1. Una(t) = W + 2 /\ Una(t) <= H
    BY <1>1 DEF SendOK, Sender
  <2> QED  BY <2>1
<1> QED  BY <1>1 DEF SendInv, SendOK, Up

LEMMA UpReceives ==
    ASSUME NEW t, NEW rd, NEW P, NEW e, Up(t)
    PROVE  /\ RecvInv(t, rd, P, e) => RecvOK(t, rd, P, e)
           /\ RecvOK(t, rd, P, e) /\ (t.st = "ESTABLISHED" => ~t.fin_seen) => RecvInv(t, rd, P, e)
BY DEF RecvInv, RecvOK, Up

\* A step of the sending half, of a connection that is up.
LEMMA UpSendStep ==
    ASSUME NEW t, NEW u, Up(t), SendStep(t, u)
    PROVE  Up(u) /\ \A rd, P, e : RecvInv(t, rd, P, e) => RecvInv(u, rd, P, e)
<1>1. Up(u)
  BY DEF Up, SendStep
<1>2. ASSUME NEW rd, NEW P, NEW e, RecvInv(t, rd, P, e) PROVE RecvInv(u, rd, P, e)
  <2>1. RecvOK(t, rd, P, e)
    BY <1>2, UpReceives
  <2>2. RecvOK(u, rd, P, e)
    BY <2>1, SendStepReceives
  <2>3. u.st = "ESTABLISHED" => ~u.fin_seen
    BY <1>2 DEF SendStep, RcvSame, RecvInv
  <2> QED  BY <1>1, <2>2, <2>3, UpReceives
<1> QED  BY <1>1, <1>2

\* Where neither half changes.
LEMMA SameInv ==
    ASSUME NEW t, NEW u \in Conn, SndSame(t, u), RcvSame(t, u), u.out = t.out, u.st = t.st, u.armed = t.armed
    PROVE  /\ \A W, H : SendInv(t, W, H) => SendInv(u, W, H)
           /\ \A rd, P, e : RecvInv(t, rd, P, e) => RecvInv(u, rd, P, e)
<1>1. Typed(t) => Typed(u) /\ Room(u) = Room(t)
  BY DEF Typed, RcvSame, Room, rcv_space
<1>2. \A W : SndOut(t, W) => SndOut(u, W)
  BY DEF SndOut, SndSame
<1>3. Opening(t) => Opening(u)
  BY DEF Opening, SndSame, RcvSame
<1>4. ASSUME NEW W, NEW H, SendInv(t, W, H) PROVE SendInv(u, W, H)
  BY <1>1, <1>2, <1>3, <1>4, SameSends DEF SendInv, SndSame, Up
<1>5. ASSUME NEW rd, NEW P, NEW e, RecvInv(t, rd, P, e) PROVE RecvInv(u, rd, P, e)
  <2>1. Got(u, rd) = Got(t, rd) /\ Rcv(u) = Rcv(t) /\ Waiting(u) = Waiting(t)
    BY DEF RcvSame, Got, tcp_available, Rcv, Waiting
  <2>2. Reads(u, rd, P)
    BY <1>5, <2>1 DEF RcvSame, RecvInv, Reads
  <2>3. Receives(t, rd, P) => Receives(u, rd, P)
    BY <2>1 DEF RcvSame, Receives, Slotted
  <2>4. EdgesFit(t, e) => EdgesFit(u, e)
    BY <1>1, <1>5 DEF RecvInv, EdgesFit
  <2>5. Offered(t, e) => Offered(u, e)
    BY DEF Offered
  <2> QED  BY <1>1, <1>3, <1>5, <2>2, <2>3, <2>4, <2>5 DEF RecvInv, Up, RcvSame
<1> QED  BY <1>4, <1>5

\* A connection that ends, whatever is left in sndbuf and in the slot.
LEMMA EndInv ==
    ASSUME NEW t, NEW u, Typed(u), u.st = "CLOSED", ~u.armed, u.fin_acked = t.fin_acked,
           u.rcvbuf = t.rcvbuf, u.rcv_head = t.rcv_head, u.fin_seen = t.fin_seen
    PROVE  /\ \A W, H : SendInv(t, W, H) /\ SndOut(u, W) => SendInv(u, W, H)
           /\ \A rd, P, e : RecvInv(t, rd, P, e) => RecvInv(u, rd, P, e)
<1>1. \A rd, P : Reads(t, rd, P) => Reads(u, rd, P)
  BY DEF Reads, Got, tcp_available
<1> QED  BY <1>1 DEF SendInv, RecvInv, Up

LEMMA ClosedInv ==
    ASSUME NEW t, Typed(t)
    PROVE  /\ \A W, H : SendInv(t, W, H) => SendInv(Closed(t), W, H)
           /\ \A rd, P, e : RecvInv(t, rd, P, e) => RecvInv(Closed(t), rd, P, e)
<1> DEFINE u == Closed(t)
<1>1. /\ Typed(u) /\ u.st = "CLOSED" /\ SndSame(t, u) /\ RcvSame(t, u) /\ u.out = t.out
  BY ClosedStep
<1>2. u.armed = FALSE
  BY DEF Typed, Conn, Closed
<1> HIDE DEF u
<1>3. \A W : SndOut(t, W) => SndOut(u, W)
  BY <1>1 DEF SndOut, SndSame
<1>4. /\ \A W, H : SendInv(t, W, H) /\ SndOut(u, W) => SendInv(u, W, H)
      /\ \A rd, P, e : RecvInv(t, rd, P, e) => RecvInv(u, rd, P, e)
  BY <1>1, <1>2, EndInv DEF SndSame, RcvSame
<1> QED  BY <1>3, <1>4 DEF SendInv, u
-----------------------------------------------------------------------------
(* The peer's segments.                                                     *)

LEMMA DoneStep ==
    ASSUME NEW t, NEW W, NEW H, Outgoing(W, H), SendInv(t, W, H), NEW s \in Seg, Honoured(s, H),
           "ACK" \in s.flags, NEW candidate \in BOOLEAN,
           t.st \in {"CLOSING", "LAST_ACK", "CLOSE_WAIT", "TIME_WAIT"}
    PROVE  LET u == st_peer_done(t, s, candidate) IN
           /\ SendInv(u, W, H) /\ u.fin_wanted = t.fin_wanted
           /\ \A rd, P, e : /\ Incoming(P) /\ RecvInv(t, rd, P, e) /\ Honest(s, P)
                            => RecvInv(u, rd, P, e)
<1> DEFINE acked == on_ack(t, s.ack, candidate)
           again == take_data(acked, s)
           isfin == "FIN" \in s.flags
           u == st_peer_done(t, s, candidate)
<1>1. u = CASE t.st = "CLOSING" ->
                IF acked.fin_acked THEN [acked EXCEPT !.st = "TIME_WAIT"] ELSE acked
            [] t.st = "LAST_ACK" -> IF acked.fin_acked THEN Closed(acked) ELSE acked
            [] t.st = "CLOSE_WAIT" -> IF isfin THEN SendAck(again) ELSE again
            [] t.st = "TIME_WAIT" ->
                IF isfin /\ Plus(s.seq, 1) = t.rcv_nxt THEN SendAck(t) ELSE t
  BY DEF st_peer_done
<1>2. PICK a \in Within : 1 <= a /\ a <= H /\ s.ack = At(ISS, a)
  BY HonouredIs
<1>3. Up(t) /\ SendOK(t, W, H) /\ Typed(t)
  BY UpSends DEF Up, SendOK
<1>4. SendStep(t, acked) /\ SendOK(acked, W, H)
  BY <1>2, <1>3, OnAckStep
<1> HIDE DEF acked
<1>5. /\ Up(acked) /\ Typed(acked) /\ acked.st = t.st /\ acked.fin_wanted = t.fin_wanted
      /\ \A rd, P, e : RecvInv(t, rd, P, e) => RecvInv(acked, rd, P, e)
  BY <1>3, <1>4, UpSendStep DEF SendStep
<1>6. acked.st \in {"ESTABLISHED", "CLOSE_WAIT"} => ~acked.fin_wanted
  BY <1>5 DEF SendInv
<1>7. SendInv(acked, W, H)
  BY <1>4, <1>5, <1>6, UpSends
<1> HIDE DEF u
<1>8. CASE t.st = "CLOSING" \/ t.st = "LAST_ACK"
  <2>1. \/ u = [acked EXCEPT !.st = "TIME_WAIT"] /\ t.st = "CLOSING"
        \/ u = Closed(acked)
        \/ u = acked
    BY <1>1, <1>8
  <2>2. CASE u = [acked EXCEPT !.st = "TIME_WAIT"]
    <3>1. /\ Typed(u) /\ u.st = "TIME_WAIT" /\ SndSame(acked, u)
          /\ \A W1, H1 : SendOK(acked, W1, H1) => SendOK(u, W1, H1)
          /\ \A rd, P, e : RecvOK(acked, rd, P, e) => RecvOK(u, rd, P, e)
      BY <1>5, <2>2, TurnStep DEF States
    <3>2. Up(u) /\ SendOK(u, W, H)
      BY <1>4, <3>1 DEF Up
    <3>3. SendInv(u, W, H)
      BY <3>1, <3>2, UpSends
    <3>4. ASSUME NEW rd, NEW P, NEW e, RecvInv(t, rd, P, e) PROVE RecvInv(u, rd, P, e)
      <4>1. RecvOK(acked, rd, P, e)
        BY <1>5, <3>4, UpReceives
      <4> QED  BY <3>1, <3>2, <4>1, UpReceives
    <3> QED  BY <1>5, <3>1, <3>3, <3>4 DEF SndSame, u
  <2>3. CASE u = Closed(acked)
    <3>1. SndSame(acked, Closed(acked))
      BY <1>5, ClosedStep
    <3> QED  BY <1>5, <1>7, <2>3, <3>1, ClosedInv DEF SndSame, u
  <2>4. CASE u = acked
    BY <1>5, <1>7, <2>4 DEF u
  <2> QED  BY <2>1, <2>2, <2>3, <2>4
<1>9. CASE t.st = "CLOSE_WAIT"
  <2>1. u = again \/ u = SendAck(again)
    BY <1>1, <1>9
  <2>2. RecvStep(acked, again) /\ again.fin_seen = acked.fin_seen
    BY <1>5, TakeDataShape
  <2>3. SendOK(again, W, H)
    BY <1>4, <2>2, RecvStepSends
  <2>4. ASSUME NEW rd, NEW P, NEW e, Incoming(P), RecvInv(t, rd, P, e), Honest(s, P)
        PROVE  RecvOK(again, rd, P, e)
    <3>1. RecvOK(acked, rd, P, e)
      BY <1>5, <2>4, UpReceives
    <3> QED  BY <2>4, <3>1, TakeDataReceives
  <2>5. again.st = t.st /\ again.fin_wanted = t.fin_wanted /\ Typed(again) /\ Up(again)
    BY <1>5, <2>2 DEF RecvStep, SndSame, Up
  <2>6. again.st \in {"ESTABLISHED", "CLOSE_WAIT"} => ~again.fin_wanted
    BY <2>5 DEF SendInv
  <2> HIDE DEF again
  <2>7. SendStep(again, SendAck(again)) /\ SendOK(SendAck(again), W, H)
    BY <2>3, <2>5, AckStep
  <2>8. SendOK(u, W, H) /\ u.st = t.st /\ u.fin_wanted = t.fin_wanted
    BY <2>1, <2>3, <2>5, <2>7 DEF SendStep
  <2>9. Up(u) /\ SendInv(u, W, H)
    BY <1>9, <2>5, <2>6, <2>8, UpSends DEF Up
  <2>10. ASSUME NEW rd, NEW P, NEW e, Incoming(P), RecvInv(t, rd, P, e), Honest(s, P)
         PROVE  RecvInv(u, rd, P, e)
    <3>1. RecvOK(u, rd, P, e)
      BY <2>1, <2>4, <2>7, <2>10, SendStepReceives
    <3> QED  BY <1>9, <2>8, <2>9, <3>1, UpReceives
  <2> QED  BY <2>8, <2>9, <2>10 DEF u
<1>10. CASE t.st = "TIME_WAIT"
  <2>1. u = t \/ u = SendAck(t)
    BY <1>1, <1>10
  <2>2. SendStep(t, SendAck(t)) /\ SendOK(SendAck(t), W, H)
    BY <1>3, AckStep
  <2>3. CASE u = SendAck(t)
    <3>1. /\ Up(u) /\ SendOK(u, W, H) /\ u.st = t.st /\ u.fin_wanted = t.fin_wanted
          /\ \A rd, P, e : RecvInv(t, rd, P, e) => RecvInv(u, rd, P, e)
      BY <1>3, <2>2, <2>3, UpSendStep DEF SendStep
    <3>2. SendInv(u, W, H)
      BY <1>10, <3>1, UpSends
    <3> QED  BY <3>1, <3>2 DEF u
  <2>4. CASE u = t
    BY <2>4 DEF u
  <2> QED  BY <2>1, <2>3, <2>4
<1> QED  BY <1>8, <1>9, <1>10

\* The SYN+ACK of an honest peer, and what of its stream comes with it.
SynAck(s) == "RST" \notin s.flags /\ {"SYN", "ACK"} \subseteq s.flags /\ s.ack = At(ISS, 1) /\ s.seq = IRS
Opened(t, s) ==
    [t EXCEPT !.rcv_nxt = Plus(s.seq, 1), !.snd_una = s.ack, !.st = "ESTABLISHED", !.armed = FALSE]

LEMMA OpenedStep ==
    ASSUME NEW t, NEW H, Outgoing(0, H), H >= 1, SendInv(t, 0, H), t.st = "SYN_SENT",
           NEW s \in Seg, SynAck(s)
    PROVE  LET u == Opened(t, s) IN
           /\ SendOK(u, 0, H) /\ u.st = "ESTABLISHED" /\ ~u.fin_wanted /\ ~u.fin_seen /\ Rcv(u) = 1
           /\ \A rd, P, e : Incoming(P) /\ RecvInv(t, rd, P, e) => RecvOK(u, rd, P, e)
<1> DEFINE u == Opened(t, s)
<1>1. Typed(t) /\ Opening(t) /\ t \in Conn /\ SndOut(t, 0) /\ t.rcv_head <= Len(t.rcvbuf)
  BY DEF SendInv, Typed
<1>2. /\ At(ISS, 1) \in SeqNo /\ At(IRS, 1) \in SeqNo /\ ISS \in SeqNo /\ IRS \in SeqNo
      /\ 1 \in SeqNo /\ 1 \in Within /\ 0 \in SeqNo /\ Middle \in Int /\ 2 < Middle
  BY FirstByte, SeqFacts DEF SeqNo, Within
<1>3. s.seq = IRS /\ s.ack = At(ISS, 1)
  BY DEF SynAck
<1>4. u = [t EXCEPT !.rcv_nxt = At(IRS, 1), !.snd_una = At(ISS, 1), !.st = "ESTABLISHED", !.armed = FALSE]
  BY <1>3 DEF Opened, At
<1> HIDE DEF u
<1>5. u \in Conn
  BY <1>1, <1>2, <1>4 DEF Conn, States
<1>6. /\ u.st = "ESTABLISHED" /\ u.rcv_nxt = At(IRS, 1) /\ u.snd_una = At(ISS, 1) /\ u.snd_nxt = At(ISS, 1)
      /\ u.sndbuf = t.sndbuf /\ u.rcvbuf = t.rcvbuf /\ u.rcv_head = 0 /\ u.ooo = t.ooo /\ u.out = t.out
      /\ ~u.fin_sent /\ ~u.fin_acked /\ ~u.fin_seen /\ ~u.fin_wanted /\ ~u.ooo_fin_ready
      /\ u.fin_wanted = t.fin_wanted
      /\ Len(u.sndbuf) = 0 /\ Len(u.rcvbuf) = 0 /\ Len(u.ooo) = 0
  BY <1>1, <1>4 DEF Conn, Opening
<1>7. Una(u) = 1 /\ Nxt(u) = 1 /\ Rcv(u) = 1
  BY <1>2, <1>6, AtIs DEF Una, Nxt, Rcv
<1>8. Typed(u)
  BY <1>5, <1>6 DEF Typed
<1>9. SendOK(u, 0, H)
  <2>1. H \in Int /\ H >= 1
    BY DEF Outgoing
  <2>2. Sender(u, 0, H)
    BY <1>6, <1>7, <2>1 DEF Sender
  <2> QED  BY <1>1, <1>6, <1>8, <2>2 DEF SendOK, SndOut
<1>10. ASSUME NEW rd, NEW P, NEW e, Incoming(P), RecvInv(t, rd, P, e) PROVE RecvOK(u, rd, P, e)
  <2>1. rd = 0 /\ rd \in Nat /\ Offered(t, e) /\ P \in Nat
    BY <1>10 DEF RecvInv, Incoming
  <2>2. tcp_available(u) = 0 /\ rcv_space(u) = RCV_BUF
    BY <1>6, SeqFacts DEF tcp_available, rcv_space
  <2>3. Got(u, rd) = 0
    BY <2>1, <2>2 DEF Got
  <2>4. Reads(u, rd, P)
    BY <1>6, <2>1, <2>3 DEF Reads
  <2>5. Room(u) = RCV_BUF
    <3>1. Dist(At(IRS, 1), u.rcv_nxt) = 0
      <4>1. Dist(At(IRS, 1), At(IRS, 1)) = 1 - 1
        BY <1>2, Compare
      <4> QED  BY <1>6, <4>1
    <3> QED  BY <2>2, <3>1, SeqFacts DEF Room
  <2>6. Receives(u, rd, P)
    <3>1. Rcv(u) = Got(u, rd) + (IF u.fin_seen THEN 2 ELSE 1)
      BY <1>6, <1>7, <2>3
    <3> QED  BY <1>6, <3>1 DEF Receives, Slotted
  <2>7. EdgesFit(u, e)
    BY <1>6, <2>1, <2>5 DEF EdgesFit, Offered
  <2> QED  BY <1>8, <2>1, <2>4, <2>6, <2>7 DEF RecvOK
<1> QED  BY <1>6, <1>7, <1>9, <1>10 DEF u

LEMMA SynSentStep ==
    ASSUME NEW t, NEW H, Outgoing(0, H), H >= 1, SendInv(t, 0, H), t.st = "SYN_SENT",
           NEW s \in Seg, SynAck(s)
    PROVE  LET u == st_syn_sent(t, s) IN
           /\ SendInv(u, 0, H)
           /\ \A rd, P, e :
                /\ Incoming(P) /\ RecvInv(t, rd, P, e) /\ Len(s.data) <= P /\ Continues(s.data, 1)
                => RecvInv(u, rd, P, e)
<1> DEFINE o == Opened(t, s)
           up == SendAck(o)
           d == IF Len(s.data) = 0 THEN up ELSE SendAck(deliver(up, s.data))
           u == st_syn_sent(t, s)
<1>1. Typed(t) /\ Opening(t) /\ s.data \in Seq(Nat) /\ Len(s.data) \in Nat
  BY DEF SendInv, Seg
<1>2. u = pump_send(d)
  <2>1. ("ACK" \in s.flags /\ s.ack = Plus(t.iss, 1)) /\ "RST" \notin s.flags
    BY <1>1 DEF SynAck, Opening, At
  <2>2. {"SYN", "ACK"} \ s.flags = {}
    BY DEF SynAck
  <2>3. s.data = <<>> <=> Len(s.data) = 0
    BY <1>1, Empty
  <2> QED  BY <2>1, <2>2, <2>3 DEF st_syn_sent, Opened
<1>3. /\ SendOK(o, 0, H) /\ o.st = "ESTABLISHED" /\ ~o.fin_wanted /\ ~o.fin_seen /\ Rcv(o) = 1 /\ Typed(o)
      /\ \A rd, P, e : Incoming(P) /\ RecvInv(t, rd, P, e) => RecvOK(o, rd, P, e)
  BY OpenedStep DEF SendOK
<1> HIDE DEF o, u
<1>4. SendStep(o, up) /\ SendOK(up, 0, H)
  BY <1>3, AckStep
<1> HIDE DEF up
<1>5. Typed(up) /\ up.st = "ESTABLISHED" /\ ~up.fin_wanted /\ ~up.fin_seen /\ Rcv(up) = 1
  BY <1>3, <1>4 DEF SendStep, RcvSame, Rcv
<1>6. RecvStep(up, deliver(up, s.data)) /\ deliver(up, s.data).fin_seen = up.fin_seen
  BY <1>1, <1>5, DeliverShape DEF Takes
<1>7. SendOK(deliver(up, s.data), 0, H) /\ Typed(deliver(up, s.data))
  BY <1>4, <1>6, RecvStepSends DEF SendOK
<1>8. SendStep(deliver(up, s.data), SendAck(deliver(up, s.data))) /\ SendOK(SendAck(deliver(up, s.data)), 0, H)
  BY <1>7, AckStep
<1>9. SendOK(d, 0, H) /\ Typed(d) /\ d.st = "ESTABLISHED" /\ ~d.fin_wanted /\ ~d.fin_seen
  BY <1>4, <1>5, <1>6, <1>8 DEF SendStep, RecvStep, RcvSame, SndSame
<1>10. ASSUME NEW rd, NEW P, NEW e, Incoming(P), RecvInv(t, rd, P, e), Len(s.data) <= P,
              Continues(s.data, 1)
       PROVE  RecvOK(d, rd, P, e)
  <2>1. RecvOK(up, rd, P, e)
    BY <1>3, <1>4, <1>10, SendStepReceives
  <2>2. 1 + Len(s.data) <= P + 1
    BY <1>1, <1>10 DEF Incoming
  <2>3. RecvOK(deliver(up, s.data), rd, P, e)
    BY <1>1, <1>5, <1>10, <2>1, <2>2, DeliverReceives
  <2> QED  BY <1>8, <2>1, <2>3, SendStepReceives
<1> HIDE DEF d
<1>11. SendStep(d, u) /\ SendOK(u, 0, H)
  BY <1>2, <1>9, PumpStep, PumpSends
<1>12. Up(u) /\ u.st = "ESTABLISHED" /\ ~u.fin_wanted /\ ~u.fin_seen
  BY <1>9, <1>11 DEF SendStep, RcvSame, Up
<1>13. SendInv(u, 0, H)
  BY <1>11, <1>12, UpSends
<1>14. ASSUME NEW rd, NEW P, NEW e, Incoming(P), RecvInv(t, rd, P, e), Len(s.data) <= P,
              Continues(s.data, 1)
       PROVE  RecvInv(u, rd, P, e)
  <2>1. RecvOK(u, rd, P, e)
    BY <1>10, <1>11, <1>14, SendStepReceives
  <2> QED  BY <1>12, <2>1, UpReceives
<1> QED  BY <1>13, <1>14 DEF u

\* st_open, from what holds between steps.
LEMMA OpenInv ==
    ASSUME NEW t, NEW W, NEW H, Outgoing(W, H), SendInv(t, W, H), NEW s \in Seg, Honoured(s, H),
           t.st \in {"ESTABLISHED", "FIN_WAIT_1", "FIN_WAIT_2"}, NEW candidate \in BOOLEAN
    PROVE  LET u == st_open(t, s, candidate) IN
           /\ SendInv(u, W, H) /\ u.fin_wanted = t.fin_wanted
           /\ \A rd, P, e : Incoming(P) /\ RecvInv(t, rd, P, e) /\ Honest(s, P) => RecvInv(u, rd, P, e)
<1> DEFINE u == st_open(t, s, candidate)
<1>1. Up(t) /\ SendOK(t, W, H)
  BY UpSends DEF Up
<1>2. /\ SendOK(u, W, H) /\ u.fin_wanted = t.fin_wanted /\ Up(u)
      /\ u.st \in {"ESTABLISHED", "CLOSE_WAIT"} => t.st = "ESTABLISHED"
      /\ \A rd, P, e :
            /\ Incoming(P) /\ RecvOK(t, rd, P, e) /\ Honest(s, P)
            /\ t.st = "ESTABLISHED" => ~t.fin_seen
            => RecvOK(u, rd, P, e) /\ (u.st = "ESTABLISHED" => ~u.fin_seen)
  BY <1>1, OpenStep
<1> HIDE DEF u
<1>3. u.st \in {"ESTABLISHED", "CLOSE_WAIT"} => ~u.fin_wanted
  BY <1>2 DEF SendInv
<1>4. SendInv(u, W, H)
  BY <1>2, <1>3, UpSends
<1>5. ASSUME NEW rd, NEW P, NEW e, Incoming(P), RecvInv(t, rd, P, e), Honest(s, P)
      PROVE  RecvInv(u, rd, P, e)
  <2>1. RecvOK(t, rd, P, e) /\ (t.st = "ESTABLISHED" => ~t.fin_seen)
    BY <1>1, <1>5, UpReceives DEF RecvInv
  <2>2. RecvOK(u, rd, P, e) /\ (u.st = "ESTABLISHED" => ~u.fin_seen)
    BY <1>2, <1>5, <2>1
  <2> QED  BY <1>2, <2>2, UpReceives
<1> QED  BY <1>2, <1>4, <1>5 DEF u

\* A segment's window is taken before anything else is looked at.
WindowHeard(t, s) == [t EXCEPT !.snd_wnd = s.win]

LEMMA HeardStep ==
    ASSUME NEW t, Typed(t), NEW s \in Seg
    PROVE  LET u == WindowHeard(t, s) IN
           /\ Typed(u) /\ u.st = t.st /\ SndSame(t, u)
           /\ \A W, H : SendInv(t, W, H) => SendInv(u, W, H)
           /\ \A rd, P, e : RecvInv(t, rd, P, e) => RecvInv(u, rd, P, e)
<1> DEFINE u == WindowHeard(t, s)
<1>1. t \in Conn /\ s.win \in Nat
  BY DEF Typed, Seg
<1>2. u \in Conn
  BY <1>1 DEF Conn, WindowHeard
<1>3. SndSame(t, u) /\ RcvSame(t, u) /\ u.out = t.out /\ u.st = t.st /\ u.armed = t.armed
  BY <1>1 DEF Conn, WindowHeard, SndSame, RcvSame
<1> HIDE DEF u
<1>4. Typed(u)
  BY <1>2, <1>3 DEF Typed, RcvSame
<1> QED  BY <1>2, <1>3, <1>4, SameInv DEF u

\* What an honest peer sends to a connection in state st.
Answer(s, st, H) ==
    /\ s \in Seg /\ "ACK" \in s.flags /\ Honoured(s, H)
    /\ st = "SYN_SENT" => "RST" \in s.flags \/ SynAck(s)
Data(s, st, P) ==
    /\ st = "SYN_SENT" => "RST" \in s.flags \/ (Len(s.data) <= P /\ Continues(s.data, 1))
    /\ st \notin {"CLOSED", "SYN_SENT"} => Honest(s, P)

LEMMA InputInv ==
    ASSUME NEW t, NEW W, NEW H, Outgoing(W, H), SendInv(t, W, H), NEW s, Answer(s, t.st, H)
    PROVE  LET u == tcp_input(t, s) IN
           /\ SendInv(u, W, H) /\ (t.fin_wanted => u.fin_wanted)
           /\ \A rd, P, e : Incoming(P) /\ RecvInv(t, rd, P, e) /\ Data(s, t.st, P) => RecvInv(u, rd, P, e)
<1> DEFINE candidate == s.flags = {"ACK"} /\ s.data = <<>> /\ s.win = t.snd_wnd
           h == WindowHeard(t, s)
           u == tcp_input(t, s)
<1>1. u = CASE t.st = "CLOSED" -> t
            [] t.st = "SYN_SENT" -> st_syn_sent(h, s)
            [] t.st \notin {"CLOSED", "SYN_SENT"} /\ "RST" \in s.flags ->
                  IF ResetFits(h, s) THEN Closed(h) ELSE h
            [] t.st \in {"ESTABLISHED", "FIN_WAIT_1", "FIN_WAIT_2"} /\ "RST" \notin s.flags ->
                  st_open(h, s, candidate)
            [] OTHER -> st_peer_done(h, s, candidate)
  BY DEF tcp_input, WindowHeard, Answer
<1>2. Typed(t) /\ s \in Seg /\ Honoured(s, H) /\ t.st \in States
  BY Fields DEF SendInv, Answer, Typed
<1>3. /\ Typed(h) /\ h.st = t.st /\ SendInv(h, W, H) /\ h.fin_wanted = t.fin_wanted
      /\ \A rd, P, e : RecvInv(t, rd, P, e) => RecvInv(h, rd, P, e)
  BY <1>2, HeardStep DEF SndSame
<1>4. candidate \in BOOLEAN
  OBVIOUS
<1>5. H \in Int /\ H >= 1
  BY <1>2 DEF Honoured, Outgoing
<1> HIDE DEF u, h, candidate
<1>6. /\ SendInv(Closed(h), W, H) /\ Closed(h).fin_wanted = h.fin_wanted
      /\ \A rd, P, e : RecvInv(h, rd, P, e) => RecvInv(Closed(h), rd, P, e)
  <2>1. SndSame(h, Closed(h))
    BY <1>3, ClosedStep
  <2> QED  BY <1>3, <2>1, ClosedInv DEF SndSame
<1>7. CASE t.st = "CLOSED"
  BY <1>1, <1>7 DEF u
<1>8. CASE t.st = "SYN_SENT"
  <2>1. u = st_syn_sent(h, s)
    BY <1>1, <1>8
  <2>2. CASE "RST" \in s.flags
    <3>1. u = Closed(h) \/ u = h
      BY <2>1, <2>2 DEF st_syn_sent
    <3> QED  BY <1>3, <1>6, <3>1 DEF u
  <2>3. CASE "RST" \notin s.flags
    <3>1. SynAck(s) /\ W = 0
      BY <1>8, <2>3 DEF Answer, SendInv
    <3>2. /\ SendInv(st_syn_sent(h, s), 0, H)
          /\ \A rd, P, e :
               /\ Incoming(P) /\ RecvInv(h, rd, P, e) /\ Len(s.data) <= P /\ Continues(s.data, 1)
               => RecvInv(st_syn_sent(h, s), rd, P, e)
      BY <1>2, <1>3, <1>5, <1>8, <3>1, SynSentStep
    <3>3. \A P : Data(s, t.st, P) => Len(s.data) <= P /\ Continues(s.data, 1)
      BY <1>8, <2>3 DEF Data
    <3>4. ~t.fin_wanted
      BY <1>8 DEF SendInv, Opening
    <3> QED  BY <1>3, <2>1, <3>1, <3>2, <3>3, <3>4 DEF u
  <2> QED  BY <2>2, <2>3
<1>9. CASE t.st \notin {"CLOSED", "SYN_SENT"} /\ "RST" \in s.flags
  <2>1. u = Closed(h) \/ u = h
    BY <1>1, <1>9
  <2> QED  BY <1>3, <1>6, <2>1 DEF u
<1>10. CASE t.st \in {"ESTABLISHED", "FIN_WAIT_1", "FIN_WAIT_2"} /\ "RST" \notin s.flags
  <2>1. u = st_open(h, s, candidate)
    BY <1>1, <1>10
  <2>2. \A P : Data(s, t.st, P) => Honest(s, P)
    BY <1>10 DEF Data
  <2>3. /\ SendInv(u, W, H) /\ u.fin_wanted = h.fin_wanted
        /\ \A rd, P, e : Incoming(P) /\ RecvInv(h, rd, P, e) /\ Honest(s, P) => RecvInv(u, rd, P, e)
    BY <1>2, <1>3, <1>4, <1>10, <2>1, OpenInv
  <2> QED  BY <1>3, <2>2, <2>3 DEF u
<1>11. CASE t.st \in {"CLOSING", "LAST_ACK", "CLOSE_WAIT", "TIME_WAIT"} /\ "RST" \notin s.flags
  <2>1. u = st_peer_done(h, s, candidate)
    BY <1>1, <1>11
  <2>2. \A P : Data(s, t.st, P) => Honest(s, P)
    BY <1>11 DEF Data
  <2>3. /\ SendInv(u, W, H) /\ u.fin_wanted = h.fin_wanted
        /\ \A rd, P, e : Incoming(P) /\ RecvInv(h, rd, P, e) /\ Honest(s, P) => RecvInv(u, rd, P, e)
    <3>1. "ACK" \in s.flags /\ h.st \in {"CLOSING", "LAST_ACK", "CLOSE_WAIT", "TIME_WAIT"}
      BY <1>3, <1>11 DEF Answer
    <3> QED  BY <1>2, <1>3, <1>4, <2>1, <3>1, DoneStep
  <2> QED  BY <1>3, <2>2, <2>3 DEF u
<1> QED  BY <1>2, <1>7, <1>8, <1>9, <1>10, <1>11 DEF States
-----------------------------------------------------------------------------
(* The application's calls.                                                 *)

\* The bytes from the W-th on, as far as they fit.
Queued(t, data) == [t EXCEPT !.sndbuf = t.sndbuf \o SubSeq(data, 1, Taken(t, data))]

LEMMA SendIs == ASSUME NEW t, NEW data PROVE tcp_send(t, data) = pump_send(Queued(t, data))
BY DEF tcp_send, Queued

LEMMA Unfinished ==
    ASSUME NEW t, NEW V, NEW H, ~t.fin_sent, ~t.fin_acked,
           1 <= Una(t), Una(t) <= H, Una(t) <= Nxt(t), Nxt(t) <= V + 1, Una(t) <= V + 1,
           Len(t.sndbuf) = V + 1 - Una(t), \A i \in 1..Len(t.sndbuf) : t.sndbuf[i] = V - Len(t.sndbuf) + i
    PROVE  Sender(t, V, H)
BY DEF Sender

LEMMA QueuedStep ==
    ASSUME NEW t, NEW W, NEW H, Outgoing(W, H), SendOK(t, W, H), ~t.fin_wanted,
           NEW data \in Seq(Nat), \A i \in 1..Len(data) : data[i] = W + i,
           W + Len(data) + 2 \in Within
    PROVE  LET u == Queued(t, data)
               k == Taken(t, data) IN
           /\ k \in Nat /\ k <= Len(data) /\ Outgoing(W + k, H)
           /\ SendStep(t, u) /\ SendOK(u, W + k, H)
<1> DEFINE k == Taken(t, data)
           part == SubSeq(data, 1, k)
           q == t.sndbuf \o part
           L == Len(t.sndbuf)
           o == Una(t)
           u == Queued(t, data)
           V == W + k
<1>1. t \in Conn /\ Typed(t) /\ Sender(t, W, H) /\ t.rcv_head <= Len(t.rcvbuf) /\ SndOut(t, W)
  BY DEF SendOK, Typed
<1>2. t.sndbuf \in Seq(Nat) /\ L \in Nat /\ L <= SND_BUF /\ SND_BUF \in Nat /\ Len(data) \in Nat
  BY <1>1, Fields, SeqFacts
<1>3. k = Least(Len(data), SND_BUF - L)
  BY DEF Taken
<1>4. k \in Nat /\ k <= Len(data) /\ k <= SND_BUF - L
  <2> DEFINE x == Len(data)
             y == SND_BUF - L
  <2>1. x \in Nat /\ y \in Nat /\ x \in Int /\ y \in Int
    BY <1>2
  <2>2. k = Least(x, y)
    BY <1>3
  <2> HIDE DEF L, k, x, y
  <2>3. k \in Int /\ k <= x /\ k <= y /\ k \in {x, y}
    BY <2>1, <2>2, LeastIs
  <2>4. k \in Nat
    BY <2>1, <2>3
  <2> QED  BY <2>3, <2>4 DEF x, y
<1> HIDE DEF k
<1>5. part \in Seq(Nat) /\ Len(part) = k /\ \A i \in 1..k : part[i] = data[i]
  <2>1. /\ SubSeq(data, 1, k) \in Seq(Nat)
        /\ Len(SubSeq(data, 1, k)) = IF 1 <= k THEN k - 1 + 1 ELSE 0
        /\ \A i \in 1..(k - 1 + 1) : SubSeq(data, 1, k)[i] = data[1 + i - 1]
    BY <1>2, <1>4, Cut
  <2>2. Len(SubSeq(data, 1, k)) = k
    BY <2>1, <1>4
  <2>3. \A i \in 1..k : i \in 1..(k - 1 + 1) /\ 1 + i - 1 = i
    BY <1>4
  <2> QED  BY <2>1, <2>2, <2>3
<1> HIDE DEF part
<1>6. /\ q \in Seq(Nat) /\ Len(q) = L + k
      /\ \A i \in 1..L : q[i] = t.sndbuf[i]
      /\ \A i \in (L + 1)..(L + k) : q[i] = part[i - L]
  <2>1. q \in Seq(Nat) /\ Len(q) = L + Len(part)
    BY <1>2, <1>5, ConcatTyped
  <2>2. /\ \A i \in 1..L : q[i] = t.sndbuf[i]
        /\ \A i \in (L + 1)..(L + Len(part)) : q[i] = part[i - L]
    <3> DEFINE b == t.sndbuf
    <3>1. b \in Seq(Nat) /\ part \in Seq(Nat)
      BY <1>2, <1>5
    <3> HIDE DEF b
    <3>2. /\ \A i \in 1..Len(b) : (b \o part)[i] = b[i]
          /\ \A i \in (Len(b) + 1)..(Len(b) + Len(part)) : (b \o part)[i] = part[i - Len(b)]
      BY <3>1, ConcatProperties
    <3> QED  BY <3>2 DEF b
  <2>3. Len(part) = k
    BY <1>5
  <2> HIDE DEF q, L
  <2> QED  BY <2>1, <2>2, <2>3
<1>7. q \in Buffer(SND_BUF)
  BY <1>2, <1>4, <1>6 DEF Buffer
<1>8. u = [t EXCEPT !.sndbuf = q]
  BY DEF Queued, part, k
<1> HIDE DEF q, u
<1>9. u \in Conn
  BY <1>1, <1>7, <1>8 DEF Conn
<1>10. /\ u.sndbuf = q /\ u.st = t.st /\ u.iss = t.iss /\ u.out = t.out /\ RcvSame(t, u)
       /\ u.snd_una = t.snd_una /\ u.snd_nxt = t.snd_nxt /\ u.fin_wanted = t.fin_wanted
       /\ u.fin_sent = t.fin_sent /\ u.fin_acked = t.fin_acked /\ u.fin_seq = t.fin_seq
  BY <1>1, <1>8 DEF Conn, RcvSame
<1>11. SendStep(t, u)
  <2>1. Typed(u) /\ Room(u) = Room(t)
    BY <1>1, <1>9, <1>10 DEF Typed, RcvSame, Room, rcv_space
  <2>2. Fits(t, u)
    BY <1>10, <2>1 DEF EdgesFit, Fits
  <2> QED  BY <1>10, <2>1, <2>2 DEF SendStep
<1>12. /\ o \in Int /\ Nxt(t) \in Int /\ W \in Int /\ 0 <= W /\ 1 <= o /\ o <= H /\ o <= Nxt(t)
       /\ H \in Int /\ H <= W + 2
  BY <1>1, Standing
<1>13. ~t.fin_sent /\ ~t.fin_acked
  BY <1>1 DEF Sender
<1>14. Nxt(t) <= W + 1 /\ o <= W + 1 /\ L = W + 1 - o /\ \A i \in 1..L : t.sndbuf[i] = W - L + i
  BY <1>1, <1>13 DEF Sender
<1>15. Una(u) = o /\ Nxt(u) = Nxt(t)
  BY <1>10 DEF Una, Nxt
<1> HIDE DEF o, L
<1>16. V \in Nat /\ V = W + k /\ Nxt(u) <= V + 1 /\ o <= V + 1 /\ L + k = V + 1 - o
  BY <1>4, <1>12, <1>14, <1>15
<1> HIDE DEF V
<1>17. ASSUME NEW i \in 1..(L + k) PROVE q[i] = V - (L + k) + i
  <2>1. i \in Int /\ L \in Int /\ k \in Int /\ 1 <= i /\ i <= L + k
    BY <1>2, <1>4 DEF L
  <2>2. CASE i <= L
    <3>1. i \in 1..L /\ W - L + i = V - (L + k) + i
      BY <1>12, <1>16, <2>1, <2>2
    <3> QED  BY <1>6, <1>14, <3>1 DEF L
  <2>3. CASE i > L
    <3>1. i \in (L + 1)..(L + k) /\ i - L \in 1..k /\ i - L \in 1..Len(data)
      BY <1>2, <1>4, <2>1, <2>3
    <3>2. q[i] = data[i - L]
      BY <1>5, <1>6, <3>1 DEF L
    <3>3. data[i - L] = W + (i - L)
      BY <3>1
    <3> QED  BY <1>12, <1>16, <2>1, <3>2, <3>3
  <2> QED  BY <2>1, <2>2, <2>3
<1>18. Sender(u, V, H)
  <2>1. Len(u.sndbuf) = L + k
    BY <1>6, <1>10 DEF L
  <2>2. /\ 1 <= Una(u) /\ Una(u) <= H /\ Una(u) <= Nxt(u) /\ Nxt(u) <= V + 1
        /\ Una(u) <= V + 1 /\ Len(u.sndbuf) = V + 1 - Una(u)
    BY <1>12, <1>15, <1>16, <2>1
  <2>3. \A i \in 1..Len(u.sndbuf) : u.sndbuf[i] = V - Len(u.sndbuf) + i
    BY <1>10, <1>17, <2>1
  <2>4. ~u.fin_sent /\ ~u.fin_acked
    BY <1>10, <1>13
  <2> QED  BY <2>2, <2>3, <2>4, Unfinished
<1>19. W <= W + k
  BY <1>4, <1>12
<1>20. ASSUME NEW x, Sent(x, W, t.fin_wanted) PROVE Sent(x, W + k, t.fin_wanted)
  <2>1. 1..W \subseteq 1..(W + k)
    BY <1>4, <1>12
  <2> QED  BY <1>20, <2>1 DEF Sent
<1>21. SndOut(u, W + k)
  BY <1>1, <1>10, <1>20 DEF SndOut, Carries
<1>22. Outgoing(W + k, H)
  <2>1. W + k + 2 \in Within
    <3>1. Middle \in Int
      BY SeqFacts
    <3> QED  BY <1>2, <1>4, <1>12, <3>1 DEF Within
  <2> QED  BY <1>4, <1>12, <2>1 DEF Outgoing
<1> QED  BY <1>4, <1>11, <1>16, <1>18, <1>21, <1>22 DEF SendOK, SendStep, k, u

LEMMA SendInvStep ==
    ASSUME NEW t, NEW W, NEW H, Outgoing(W, H), SendInv(t, W, H), t.st \in {"ESTABLISHED", "CLOSE_WAIT"},
           NEW data \in Seq(Nat), \A i \in 1..Len(data) : data[i] = W + i,
           W + Len(data) + 2 \in Within
    PROVE  LET u == tcp_send(t, data)
               k == Taken(t, data) IN
           /\ k \in Nat /\ k <= Len(data) /\ Outgoing(W + k, H)
           /\ SendInv(u, W + k, H) /\ u.fin_wanted = t.fin_wanted /\ ~t.fin_wanted
           /\ \A rd, P, e : RecvInv(t, rd, P, e) => RecvInv(u, rd, P, e)
<1> DEFINE k == Taken(t, data)
           v == Queued(t, data)
           u == tcp_send(t, data)
<1>1. Up(t) /\ SendOK(t, W, H) /\ ~t.fin_wanted
  BY UpSends DEF Up, SendInv
<1>2. /\ k \in Nat /\ k <= Len(data) /\ Outgoing(W + k, H)
      /\ SendStep(t, v) /\ SendOK(v, W + k, H)
  BY <1>1, QueuedStep
<1>3. u = pump_send(v)
  BY SendIs
<1> HIDE DEF u, v, k
<1>4. SendStep(v, u) /\ SendOK(u, W + k, H)
  BY <1>2, <1>3, PumpStep, PumpSends DEF SendOK
<1>5. SendStep(t, u)
  BY <1>2, <1>4, SendStepTrans
<1>6. Up(u) /\ \A rd, P, e : RecvInv(t, rd, P, e) => RecvInv(u, rd, P, e)
  BY <1>1, <1>5, UpSendStep
<1>7. u.fin_wanted = t.fin_wanted
  BY <1>5 DEF SendStep
<1>8. SendInv(u, W + k, H)
  BY <1>1, <1>2, <1>4, <1>6, <1>7, UpSends
<1> QED  BY <1>1, <1>2, <1>6, <1>7, <1>8 DEF k, u

\* n bytes leave rcvbuf: the peer may send that many more.
LEMMA RecvInvStep ==
    ASSUME NEW t, Typed(t), NEW n \in 1..tcp_available(t)
    PROVE  LET u == tcp_recv(t, n) IN
           /\ u.out = t.out /\ u.fin_wanted = t.fin_wanted
           /\ \A W, H : SendInv(t, W, H) => SendInv(u, W, H)
           /\ \A rd, P, e : Incoming(P) /\ RecvInv(t, rd, P, e) => RecvInv(u, rd + n, P, e)
<1> DEFINE u == tcp_recv(t, n)
           L == Len(t.rcvbuf)
           h == t.rcv_head
<1>1. /\ t \in Conn /\ t.rcvbuf \in Seq(Nat) /\ L \in Nat /\ h \in Nat /\ h <= L /\ L <= RCV_BUF
      /\ RCV_BUF \in Nat
  BY Fields, SeqFacts DEF Typed
<1>2. tcp_available(t) = L - h
  BY DEF tcp_available
<1>3. n \in Nat /\ 1 <= n /\ n <= L - h
  BY <1>1, <1>2
<1>4. \/ n = L - h /\ u = [t EXCEPT !.rcvbuf = <<>>, !.rcv_head = 0]
      \/ n # L - h /\ u = [t EXCEPT !.rcv_head = h + n]
  BY <1>2 DEF tcp_recv
<1>5. <<>> \in Buffer(RCV_BUF) /\ h + n \in Nat
  <2>1. <<>> \in Seq(Nat) /\ Len(<<>>) = 0
    OBVIOUS
  <2> QED  BY <1>1, <1>3, <2>1 DEF Buffer
<1> HIDE DEF u
<1>6. u \in Conn
  <2>1. CASE u = [t EXCEPT !.rcvbuf = <<>>, !.rcv_head = 0]
    BY <1>1, <1>5, <2>1 DEF Conn
  <2>2. CASE u = [t EXCEPT !.rcv_head = h + n]
    BY <1>1, <1>5, <2>2 DEF Conn
  <2> QED  BY <1>4, <2>1, <2>2
<1>7. /\ SndSame(t, u) /\ u.out = t.out /\ u.st = t.st /\ u.armed = t.armed /\ u.rcv_nxt = t.rcv_nxt
      /\ u.ooo = t.ooo /\ u.ooo_seq = t.ooo_seq /\ u.ooo_fin = t.ooo_fin
      /\ u.ooo_fin_ready = t.ooo_fin_ready /\ u.fin_seen = t.fin_seen
      /\ \/ n = L - h /\ u.rcvbuf = <<>> /\ u.rcv_head = 0
         \/ n # L - h /\ u.rcvbuf = t.rcvbuf /\ u.rcv_head = h + n
  <2>1. CASE n = L - h /\ u = [t EXCEPT !.rcvbuf = <<>>, !.rcv_head = 0]
    BY <1>1, <2>1 DEF Conn, SndSame
  <2>2. CASE n # L - h /\ u = [t EXCEPT !.rcv_head = h + n]
    BY <1>1, <2>2 DEF Conn, SndSame
  <2> QED  BY <1>4, <2>1, <2>2
<1>8. /\ Len(u.rcvbuf) \in Nat /\ Len(u.rcvbuf) <= L /\ u.rcv_head <= Len(u.rcvbuf)
      /\ Len(u.rcvbuf) - u.rcv_head = L - h - n
  <2>1. Len(<<>>) = 0
    OBVIOUS
  <2>2. CASE n = L - h /\ u.rcvbuf = <<>> /\ u.rcv_head = 0
    <3>1. Len(u.rcvbuf) = 0
      BY <2>1, <2>2
    <3> QED  BY <1>1, <1>3, <2>2, <3>1
  <2>3. CASE n # L - h /\ u.rcvbuf = t.rcvbuf /\ u.rcv_head = h + n
    BY <1>1, <1>3, <2>3
  <2> QED  BY <1>7, <2>2, <2>3
<1>9. Typed(u)
  BY <1>6, <1>8 DEF Typed
<1>10. t.st = "SYN_SENT" /\ Opening(t) => FALSE
  BY <1>3 DEF Opening
<1>11. ASSUME NEW W, NEW H, SendInv(t, W, H) PROVE SendInv(u, W, H)
  <2>1. SndOut(u, W)
    BY <1>7, <1>11 DEF SendInv, SndOut, SndSame
  <2>2. Sender(t, W, H) => Sender(u, W, H)
    BY <1>7, SameSends
  <2> QED  BY <1>7, <1>9, <1>10, <1>11, <2>1, <2>2 DEF SendInv, SndSame, Up
<1>12. ASSUME NEW rd, NEW P, NEW e, Incoming(P), RecvInv(t, rd, P, e) PROVE RecvInv(u, rd + n, P, e)
  <2>1. rd \in Nat /\ rd + n \in Nat /\ Reads(t, rd, P)
    BY <1>3, <1>12 DEF RecvInv
  <2>2. Got(u, rd + n) = Got(t, rd)
    <3>1. Got(u, rd + n) = rd + n + (L - h - n) /\ Got(t, rd) = rd + (L - h)
      BY <1>8 DEF Got, tcp_available
    <3> QED  BY <1>1, <1>3, <2>1, <3>1
  <2>3. \A i \in (u.rcv_head + 1)..Len(u.rcvbuf) : u.rcvbuf[i] = rd + n + i - u.rcv_head
    <3>1. CASE u.rcvbuf = <<>> /\ u.rcv_head = 0
      <4>1. Len(u.rcvbuf) = 0
        BY <3>1
      <4> QED  BY <3>1, <4>1
    <3>2. CASE u.rcvbuf = t.rcvbuf /\ u.rcv_head = h + n
      <4> SUFFICES ASSUME NEW i \in (h + n + 1)..L PROVE t.rcvbuf[i] = rd + n + i - (h + n)
        BY <3>2
      <4>1. i \in (h + 1)..L /\ i \in Int
        BY <1>1, <1>3
      <4>2. t.rcvbuf[i] = rd + i - h
        BY <2>1, <4>1 DEF Reads
      <4>3. rd + i - h = rd + n + i - (h + n)
        BY <1>1, <1>3, <2>1, <4>1
      <4> QED  BY <4>2, <4>3
    <3> QED  BY <1>7, <3>1, <3>2
  <2>4. Reads(u, rd + n, P)
    BY <1>7, <2>1, <2>2, <2>3 DEF Reads
  <2>5. Rcv(u) = Rcv(t) /\ Waiting(u) = Waiting(t)
    BY <1>7 DEF Rcv, Waiting
  <2>6. Receives(t, rd, P) => Receives(u, rd + n, P)
    BY <1>7, <2>2, <2>5 DEF Receives, Slotted
  <2>7. Room(t) \in Int /\ Room(u) \in Int /\ Room(t) <= Room(u)
    <3>1. rcv_space(t) <= rcv_space(u) /\ rcv_space(t) \in Nat /\ rcv_space(u) \in Nat
      BY <1>1, <1>8 DEF rcv_space
    <3>2. Dist(At(IRS, 1), t.rcv_nxt) \in Nat /\ u.rcv_nxt = t.rcv_nxt
      BY <1>1, <1>7, Fields, FirstByte, Between
    <3> QED  BY <3>1, <3>2 DEF Room
  <2>8. EdgesFit(t, e) => EdgesFit(u, e)
    <3>1. ASSUME NEW s \in t.out PROVE Edge(s) \in Int
      BY <1>1, Fields, EdgeTyped
    <3>2. ASSUME NEW x \in Int, x <= Room(t) PROVE x <= Room(u)
      BY <2>7, <3>2
    <3> QED  BY <1>7, <3>1, <3>2 DEF EdgesFit
  <2> QED  BY <1>7, <1>9, <1>10, <1>12, <2>1, <2>4, <2>6, <2>8 DEF RecvInv, Up
<1> QED  BY <1>7, <1>11, <1>12 DEF u, SndSame

\* The FIN is wanted, and the state says so.
Wanted(t) ==
    [t EXCEPT !.fin_wanted = TRUE, !.st = IF t.st = "ESTABLISHED" THEN "FIN_WAIT_1" ELSE "LAST_ACK"]
Leaving == {"FIN_WAIT_1", "LAST_ACK"}

LEMMA WantedStep ==
    ASSUME NEW t, Typed(t)
    PROVE  LET u == Wanted(t) IN
           /\ Typed(u) /\ u.st \in Leaving /\ u.fin_wanted = TRUE
           /\ \A W, H : SendOK(t, W, H) => SendOK(u, W, H)
           /\ \A rd, P, e : RecvOK(t, rd, P, e) => RecvOK(u, rd, P, e)
<1> DEFINE x == IF t.st = "ESTABLISHED" THEN "FIN_WAIT_1" ELSE "LAST_ACK"
           v == [t EXCEPT !.st = x]
           u == Wanted(t)
<1>1. x \in States /\ x \in Leaving
  BY DEF States, Leaving
<1>2. u = [v EXCEPT !.fin_wanted = TRUE]
  BY DEF Wanted, Typed, Conn
<1> HIDE DEF x
<1>3. /\ Typed(v) /\ v.st = x
      /\ \A W, H : SendOK(t, W, H) => SendOK(v, W, H)
      /\ \A rd, P, e : RecvOK(t, rd, P, e) => RecvOK(v, rd, P, e)
  BY <1>1, TurnStep
<1> HIDE DEF v, u
<1>4. v \in Conn /\ v.rcv_head <= Len(v.rcvbuf)
  BY <1>3 DEF Typed
<1>5. u \in Conn
  BY <1>2, <1>4 DEF Conn
<1>6. /\ u.st = x /\ u.fin_wanted = TRUE /\ RcvSame(v, u) /\ u.out = v.out
      /\ u.snd_una = v.snd_una /\ u.snd_nxt = v.snd_nxt /\ u.sndbuf = v.sndbuf
      /\ u.fin_sent = v.fin_sent /\ u.fin_acked = v.fin_acked /\ u.fin_seq = v.fin_seq
  BY <1>2, <1>3, <1>4 DEF Conn, RcvSame
<1>7. Typed(u) /\ Room(u) = Room(v)
  BY <1>4, <1>5, <1>6 DEF Typed, RcvSame, Room, rcv_space
<1>8. ASSUME NEW W, NEW H, SendOK(v, W, H) PROVE SendOK(u, W, H)
  <2>1. Una(u) = Una(v) /\ Nxt(u) = Nxt(v)
    BY <1>6 DEF Una, Nxt
  <2>2. Sender(u, W, H)
    BY <1>6, <1>8, <2>1 DEF SendOK, Sender
  <2>3. v.fin_wanted \in BOOLEAN
    BY <1>4, Fields
  <2>4. \A y : Sent(y, W, v.fin_wanted) => Sent(y, W, TRUE)
    BY <2>3 DEF Sent
  <2>5. SndOut(u, W)
    BY <1>6, <1>8, <2>4 DEF SendOK, SndOut, Carries
  <2> QED  BY <1>7, <2>2, <2>5 DEF SendOK
<1>9. ASSUME NEW rd, NEW P, NEW e, RecvOK(v, rd, P, e) PROVE RecvOK(u, rd, P, e)
  <2>1. Got(u, rd) = Got(v, rd) /\ Rcv(u) = Rcv(v) /\ Waiting(u) = Waiting(v)
    BY <1>6 DEF RcvSame, Got, tcp_available, Rcv, Waiting
  <2>2. Reads(u, rd, P) /\ Slotted(u, P)
    BY <1>6, <1>9, <2>1 DEF RcvSame, RecvOK, Reads, Receives, Slotted
  <2>3. EdgesFit(u, e)
    BY <1>6, <1>7, <1>9 DEF RecvOK, EdgesFit
  <2> QED  BY <1>6, <1>7, <1>9, <2>1, <2>2, <2>3 DEF RcvSame, RecvOK, Receives
<1> QED  BY <1>1, <1>3, <1>6, <1>7, <1>8, <1>9 DEF u

\* The timer is set or reset.
LEMMA ArmedStep ==
    ASSUME NEW t, Typed(t), NEW b \in BOOLEAN
    PROVE  LET u == [t EXCEPT !.armed = b] IN
           /\ Typed(u) /\ u.st = t.st /\ u.fin_wanted = t.fin_wanted
           /\ SendStep(t, u)
           /\ \A W, H : SendOK(t, W, H) => SendOK(u, W, H)
<1> DEFINE u == [t EXCEPT !.armed = b]
<1>1. t \in Conn
  BY DEF Typed
<1>2. u \in Conn
  BY <1>1 DEF Conn
<1>3. u.st = t.st /\ u.fin_wanted = t.fin_wanted /\ SndSame(t, u) /\ RcvSame(t, u) /\ u.out = t.out
  BY <1>1 DEF Conn, SndSame, RcvSame
<1> HIDE DEF u
<1>4. SendStep(t, u) /\ \A W, H : SendOK(t, W, H) => SendOK(u, W, H)
  BY <1>2, <1>3, TuneStep
<1> QED  BY <1>3, <1>4 DEF SendStep, u

LEMMA CloseInv ==
    ASSUME NEW t, NEW W, NEW H, Outgoing(W, H), SendInv(t, W, H),
           t.st \in {"ESTABLISHED", "CLOSE_WAIT", "SYN_SENT"}
    PROVE  LET u == tcp_close(t) IN
           /\ SendInv(u, W, H) /\ (t.fin_wanted => u.fin_wanted)
           /\ \A rd, P, e : RecvInv(t, rd, P, e) => RecvInv(u, rd, P, e)
<1> DEFINE v == Wanted(t)
           w == pump_send(v)
           u == tcp_close(t)
<1>1. Typed(t)
  BY DEF SendInv
<1>2. CASE t.st = "SYN_SENT"
  <2>1. u = Closed(t)
    BY <1>2 DEF tcp_close
  <2>2. t.fin_wanted => Closed(t).fin_wanted
    BY <1>1, ClosedStep DEF SndSame
  <2> HIDE DEF u
  <2> QED  BY <1>1, <2>1, <2>2, ClosedInv DEF u
<1>3. CASE t.st \in {"ESTABLISHED", "CLOSE_WAIT"}
  <2>1. u = [w EXCEPT !.armed = TRUE]
    BY <1>3 DEF tcp_close, Wanted
  <2>2. /\ Typed(v) /\ v.st \in Leaving /\ v.fin_wanted = TRUE
        /\ \A W1, H1 : SendOK(t, W1, H1) => SendOK(v, W1, H1)
        /\ \A rd, P, e : RecvOK(t, rd, P, e) => RecvOK(v, rd, P, e)
    BY <1>1, WantedStep
  <2> HIDE DEF v, u
  <2>3. Up(t) /\ SendOK(t, W, H)
    BY <1>3, UpSends DEF Up
  <2>4. SendStep(v, w) /\ SendOK(w, W, H)
    BY <2>2, <2>3, PumpStep, PumpSends
  <2> HIDE DEF w
  <2>5. Typed(w) /\ TRUE \in BOOLEAN
    BY <2>4 DEF SendOK
  <2>6. /\ u.st = w.st /\ u.fin_wanted = w.fin_wanted /\ SendStep(w, u) /\ SendOK(u, W, H)
    BY <2>1, <2>4, <2>5, ArmedStep
  <2>7. u.fin_wanted = TRUE /\ u.st \in Leaving
    BY <2>2, <2>4, <2>6 DEF SendStep
  <2>8. Up(u) /\ u.st \notin {"ESTABLISHED", "CLOSE_WAIT"}
    BY <2>7 DEF Leaving, Up
  <2>9. SendInv(u, W, H)
    BY <2>6, <2>8, UpSends
  <2>10. ASSUME NEW rd, NEW P, NEW e, RecvInv(t, rd, P, e) PROVE RecvInv(u, rd, P, e)
    <3>1. RecvOK(v, rd, P, e)
      BY <2>2, <2>3, <2>10, UpReceives
    <3>2. RecvOK(u, rd, P, e)
      BY <2>4, <2>6, <3>1, SendStepReceives
    <3> QED  BY <2>8, <3>2, UpReceives
  <2> QED  BY <2>7, <2>9, <2>10 DEF u
<1> QED  BY <1>2, <1>3

\* An end that tells the peer with a RST and drops what was kept.
Dropped(t) == [Closed(send_seg(t, t.snd_nxt, {"RST", "ACK"}, <<>>)) EXCEPT !.sndbuf = <<>>, !.ooo = <<>>]

LEMMA DroppedInv ==
    ASSUME NEW t, Typed(t)
    PROVE  LET u == Dropped(t) IN
           /\ u.fin_wanted = t.fin_wanted
           /\ \A W, H : SendInv(t, W, H) => SendInv(u, W, H)
           /\ \A rd, P, e : RecvInv(t, rd, P, e) => RecvInv(u, rd, P, e)
<1> DEFINE v == send_seg(t, t.snd_nxt, {"RST", "ACK"}, <<>>)
           c == Closed(v)
           u == Dropped(t)
<1>1. t.snd_nxt \in SeqNo /\ {"RST", "ACK"} \in Flags /\ Plain({"RST", "ACK"}) /\ <<>> \in Seq(Nat) /\ Len(<<>>) = 0
  BY Fields DEF Typed, Flag, Flags, Plain
<1>2. SendStep(t, v) /\ RecvStep(t, v)
  BY <1>1, PureAck
<1>3. u = [c EXCEPT !.sndbuf = <<>>, !.ooo = <<>>]
  BY DEF Dropped
<1> HIDE DEF v
<1>4. Typed(v)
  BY <1>2 DEF SendStep
<1>5. Typed(c) /\ c.st = "CLOSED" /\ SndSame(v, c) /\ RcvSame(v, c) /\ c.out = v.out
  BY <1>4, ClosedStep
<1>6. c.armed = FALSE
  BY <1>4 DEF Typed, Conn, Closed
<1> HIDE DEF c, u
<1>7. c \in Conn /\ c.rcv_head <= Len(c.rcvbuf)
  BY <1>5 DEF Typed
<1>8. <<>> \in Buffer(SND_BUF) /\ <<>> \in Buffer(OOO_BUF)
  BY <1>1, SeqFacts DEF Buffer
<1>9. u \in Conn
  BY <1>3, <1>7, <1>8 DEF Conn
<1>10. /\ u.st = "CLOSED" /\ u.armed = FALSE /\ u.fin_acked = c.fin_acked /\ u.rcvbuf = c.rcvbuf
       /\ u.rcv_head = c.rcv_head /\ u.fin_seen = c.fin_seen /\ u.out = c.out /\ u.fin_wanted = c.fin_wanted
  BY <1>3, <1>5, <1>6, <1>7 DEF Conn
<1>11. /\ u.fin_acked = t.fin_acked /\ u.rcvbuf = t.rcvbuf /\ u.rcv_head = t.rcv_head
       /\ u.fin_seen = t.fin_seen /\ u.fin_wanted = t.fin_wanted /\ u.out = v.out
  BY <1>2, <1>5, <1>10 DEF SendStep, RecvStep, SndSame, RcvSame
<1>12. Typed(u)
  BY <1>7, <1>9, <1>10 DEF Typed
<1>13. ASSUME NEW W, NEW H, SendInv(t, W, H) PROVE SndOut(u, W) 
  <2>1. \A s \in v.out : s \in t.out \/ Marks(s) = {}
    <3>1. \A x \in v.out : x \in t.out \/ x = Segment(t, t.snd_nxt, {"RST", "ACK"}, <<>>)
      BY DEF v, send_seg, Typed, Conn
    <3>2. Marks(Segment(t, t.snd_nxt, {"RST", "ACK"}, <<>>)) = {}
      <4> DEFINE s == Segment(t, t.snd_nxt, {"RST", "ACK"}, <<>>)
      <4>1. s.flags = {"RST", "ACK"} /\ s.data = <<>>
        BY DEF Segment
      <4> HIDE DEF s
      <4>2. Marks(s) = {}
        BY <1>1, <4>1, NoMarks
      <4> QED  BY <4>2 DEF s
    <3> QED  BY <3>1, <3>2
  <2> QED  BY <1>11, <1>13, <2>1 DEF SendInv, SndOut, Carries
<1>14. /\ \A W, H : SendInv(t, W, H) /\ SndOut(u, W) => SendInv(u, W, H)
       /\ \A rd, P, e : RecvInv(t, rd, P, e) => RecvInv(u, rd, P, e)
  BY <1>10, <1>11, <1>12, EndInv
<1> QED  BY <1>11, <1>13, <1>14 DEF u

LEMMA AbortInv ==
    ASSUME NEW t, Typed(t), t.st # "CLOSED"
    PROVE  LET u == tcp_abort(t) IN
           /\ u.fin_wanted = t.fin_wanted
           /\ \A W, H : SendInv(t, W, H) => SendInv(u, W, H)
           /\ \A rd, P, e : RecvInv(t, rd, P, e) => RecvInv(u, rd, P, e)
<1>1. tcp_abort(t) = Dropped(t)
  BY DEF tcp_abort, Dropped
<1> QED  BY <1>1, DroppedInv

\* tcp_connect, up to its SYN.
Fresh(t) ==
    [t EXCEPT
        !.st = "SYN_SENT", !.iss = ISS, !.snd_una = ISS,
        !.snd_nxt = At(ISS, 1), !.rcv_nxt = 0, !.snd_wnd = MSS, !.cwnd = 1,
        !.sndbuf = <<>>, !.rcvbuf = <<>>, !.rcv_head = 0, !.ooo = <<>>,
        !.ooo_fin = FALSE, !.ooo_fin_ready = FALSE, !.fin_sent = FALSE,
        !.fin_acked = FALSE, !.fin_seen = FALSE, !.fin_wanted = FALSE,
        !.fin_tries = 0, !.rexmit_tries = 0, !.syn_tries = 0,
        !.dup_ack_run = 0, !.armed = TRUE]

\* The SYN again or for the first time: its number only, and a whole buffer offered.
LEMMA SynSegment ==
    ASSUME NEW t, Typed(t), Opening(t)
    PROVE  LET s == Segment(t, ISS, {"SYN"}, <<>>) IN
           /\ \A W, fin : Carries(s, W, fin)
           /\ Edge(s) = RCV_BUF
<1> DEFINE s == Segment(t, ISS, {"SYN"}, <<>>)
<1>1. rcv_space(t) = RCV_BUF
  BY SeqFacts DEF rcv_space, Opening
<1>2. s.flags = {"SYN"} /\ s.seq = ISS /\ s.win = RCV_BUF
  BY <1>1 DEF Segment
<1> HIDE DEF s
<1>3. Marks(s) = {<<ISS, 0>>}
  BY <1>2 DEF Marks
<1>4. Edge(s) = RCV_BUF
  <2>1. Edge(s) = RCV_BUF + 0
    BY <1>2 DEF Edge
  <2> QED  BY <2>1, SeqFacts
<1> QED  BY <1>3, <1>4 DEF Carries, Sent, s

LEMMA SynInv ==
    ASSUME NEW t, Typed(t), Opening(t), t.st = "SYN_SENT"
    PROVE  LET u == send_seg(t, ISS, {"SYN"}, <<>>) IN
           /\ Typed(u) /\ Opening(u) /\ u.st = "SYN_SENT" /\ u.syn_tries = t.syn_tries
           /\ \A W : SndOut(t, W) => SndOut(u, W)
           /\ \A rd, P : Reads(t, rd, P) => Reads(u, rd, P)
           /\ \A e : Offered(t, e) => Offered(u, e)
<1> DEFINE s == Segment(t, ISS, {"SYN"}, <<>>)
           u == send_seg(t, ISS, {"SYN"}, <<>>)
<1>1. ISS \in SeqNo /\ {"SYN"} \in Flags /\ <<>> \in Seq(Nat) /\ RCV_BUF \in Nat
  BY SeqFacts DEF Flag, Flags
<1>2. /\ Typed(u) /\ u.st = t.st /\ SndSame(t, u) /\ RcvSame(t, u)
      /\ (\A x \in u.out : x \in t.out \/ x = s) /\ u.syn_tries = t.syn_tries
  BY <1>1, SendShape
<1>3. (\A W, fin : Carries(s, W, fin)) /\ Edge(s) = RCV_BUF
  BY SynSegment
<1> HIDE DEF s, u
<1>4. \A W : SndOut(t, W) => SndOut(u, W)
  BY <1>2, <1>3 DEF SndOut, SndSame
<1>5. \A e : Offered(t, e) => Offered(u, e)
  BY <1>1, <1>2, <1>3 DEF Offered
<1>6. \A rd, P : Reads(t, rd, P) => Reads(u, rd, P)
  BY <1>2 DEF Reads, Got, tcp_available, RcvSame
<1>7. Opening(u)
  BY <1>2 DEF Opening, SndSame, RcvSame
<1> QED  BY <1>2, <1>4, <1>5, <1>6, <1>7 DEF u

LEMMA ConnectInv ==
    ASSUME NEW t, Typed(t), t.out = {}
    PROVE  LET u == tcp_connect(t, ISS) IN
           /\ u.st = "SYN_SENT" /\ \A H : SendInv(u, 0, H)
           /\ \A P \in Nat : RecvInv(u, 0, P, RCV_BUF)
<1> DEFINE f == Fresh(t)
           u == tcp_connect(t, ISS)
<1>1. u = send_seg(f, ISS, {"SYN"}, <<>>)
  BY DEF tcp_connect, Fresh, At
<1>2. /\ At(ISS, 1) \in SeqNo /\ ISS \in SeqNo /\ 0 \in SeqNo /\ MSS \in Nat /\ SYN_TRIES \in Nat
      /\ DATA_TRIES \in Nat /\ SND_BUF \in Nat /\ RCV_BUF \in Nat /\ OOO_BUF \in Nat
  BY FirstByte, SeqFacts
<1>3. <<>> \in Seq(Nat) /\ Len(<<>>) = 0
  OBVIOUS
<1>4. <<>> \in Buffer(SND_BUF) /\ <<>> \in Buffer(RCV_BUF) /\ <<>> \in Buffer(OOO_BUF)
  BY <1>2, <1>3 DEF Buffer
<1>5. 0 \in 0..SYN_TRIES /\ 0 \in 0..DATA_TRIES
  BY <1>2
<1>6. t \in Conn
  BY DEF Typed
<1>7. f \in Conn
  <2> DEFINE a == [t EXCEPT
                    !.st = "SYN_SENT", !.iss = ISS, !.snd_una = ISS,
                    !.snd_nxt = At(ISS, 1), !.rcv_nxt = 0, !.snd_wnd = MSS, !.cwnd = 1]
             b == [a EXCEPT
                    !.sndbuf = <<>>, !.rcvbuf = <<>>, !.rcv_head = 0, !.ooo = <<>>,
                    !.ooo_fin = FALSE, !.ooo_fin_ready = FALSE, !.fin_sent = FALSE]
             c == [b EXCEPT
                    !.fin_acked = FALSE, !.fin_seen = FALSE, !.fin_wanted = FALSE,
                    !.fin_tries = 0, !.rexmit_tries = 0, !.syn_tries = 0,
                    !.dup_ack_run = 0, !.armed = TRUE]
  <2>1. "SYN_SENT" \in States
    BY DEF States
  <2>2. a \in Conn
    BY <1>2, <1>6, <2>1 DEF Conn
  <2>3. f = c
    BY DEF Fresh
  <2> HIDE DEF a, f
  <2>4. b \in Conn
    BY <1>4, <2>2 DEF Conn
  <2> HIDE DEF b
  <2>5. c \in Conn
    BY <1>5, <2>4 DEF Conn
  <2> QED  BY <2>3, <2>5
<1>8. /\ f.st = "SYN_SENT" /\ f.out = {} /\ f.rcvbuf = <<>> /\ f.rcv_head = 0 /\ f.iss = ISS /\ f.snd_una = ISS
      /\ f.snd_nxt = At(ISS, 1) /\ f.sndbuf = <<>> /\ f.ooo = <<>>
      /\ ~f.fin_sent /\ ~f.fin_acked /\ ~f.fin_seen /\ ~f.fin_wanted /\ ~f.ooo_fin_ready
  BY <1>6 DEF Conn, Fresh
<1> HIDE DEF f, u
<1>9. Typed(f) /\ Opening(f)
  BY <1>3, <1>7, <1>8 DEF Typed, Opening
<1>10. SndOut(f, 0) /\ Offered(f, RCV_BUF)
  BY <1>2, <1>8 DEF SndOut, Offered
<1>11. ASSUME NEW P \in Nat PROVE Reads(f, 0, P)
  <2>1. Got(f, 0) = 0
    BY <1>3, <1>8 DEF Got, tcp_available
  <2> QED  BY <1>3, <1>8, <2>1 DEF Reads
<1>12. /\ Typed(u) /\ Opening(u) /\ u.st = "SYN_SENT"
       /\ SndOut(u, 0) /\ Offered(u, RCV_BUF) /\ \A P \in Nat : Reads(u, 0, P)
  BY <1>1, <1>8, <1>9, <1>10, <1>11, SynInv
<1>13. \A H : SendInv(u, 0, H)
  BY <1>12 DEF SendInv, Opening, Up
<1>14. \A P \in Nat : RecvInv(u, 0, P, RCV_BUF)
  BY <1>12 DEF RecvInv, Up
<1> QED  BY <1>12, <1>13, <1>14 DEF u
-----------------------------------------------------------------------------
(* The timer.                                                               *)

\* Bytes in flight, as the timer counts them.
Outstanding(t) ==
    Least(Dist(t.snd_una, t.snd_nxt) - (IF t.fin_sent THEN 1 ELSE 0), Len(t.sndbuf))

LEMMA ResendInv ==
    ASSUME NEW t, NEW W, NEW H, Outgoing(W, H), SendInv(t, W, H), Up(t), NEW n \in Nat, 1 <= n,
           n <= Len(t.sndbuf), t.rexmit_tries < DATA_TRIES
    PROVE  LET u == ResendData(t, n) IN
           /\ SendInv(u, W, H) /\ u.fin_wanted = t.fin_wanted
           /\ \A rd, P, e : RecvInv(t, rd, P, e) => RecvInv(u, rd, P, e)
<1> DEFINE v == send_seg(t, t.snd_una, {"ACK", "PSH"}, SubSeq(t.sndbuf, 1, n))
           x == Plus(v.snd_una, n)
           y == v.rexmit_tries + 1
           u == ResendData(t, n)
           o == Una(t)
<1>1. SendOK(t, W, H) /\ Typed(t) /\ Sender(t, W, H)
  BY UpSends DEF SendInv
<1>2. {"ACK", "PSH"} \in Flags /\ Plain({"ACK", "PSH"})
  BY DEF Flag, Flags, Plain
<1>3. SendStep(t, v) /\ SndSame(t, v) /\ SendOK(v, W, H)
  BY <1>1, <1>2, AgainStep
<1>4. v.rexmit_tries = t.rexmit_tries
  BY <1>1 DEF send_seg, Typed, Conn
<1>5. v.snd_una = t.snd_una
  BY <1>3 DEF SndSame
<1>6. u = [v EXCEPT !.rexmit_tries = y, !.snd_nxt = x, !.fin_sent = FALSE, !.cwnd = 1]
  BY <1>5 DEF ResendData
<1> HIDE DEF v
<1>7. v \in Conn /\ v.rcv_head <= Len(v.rcvbuf) /\ v.snd_una \in SeqNo /\ Sender(v, W, H)
  BY <1>3, Fields DEF SendOK, Typed
<1>8. y \in 0..DATA_TRIES
  <2>1. t.rexmit_tries \in 0..DATA_TRIES /\ DATA_TRIES \in Nat
    BY <1>1, Fields, SeqFacts DEF Typed
  <2> QED  BY <1>4, <2>1
<1>9. x \in SeqNo
  <2>1. v.snd_una \in Int /\ n \in Int
    BY <1>7, SeqNoInt
  <2> QED  BY <2>1, PlusTyped
<1> HIDE DEF x, y, u
<1>10. u \in Conn
  BY <1>6, <1>7, <1>8, <1>9 DEF Conn
<1>11. /\ u.st = v.st /\ u.iss = v.iss /\ u.fin_wanted = v.fin_wanted /\ RcvSame(v, u) /\ u.out = v.out
       /\ u.snd_una = v.snd_una /\ u.snd_nxt = x /\ u.sndbuf = v.sndbuf
       /\ u.fin_sent = FALSE /\ u.fin_acked = v.fin_acked
  BY <1>6, <1>7 DEF Conn, RcvSame
<1>12. Typed(u) /\ Room(u) = Room(v)
  BY <1>7, <1>10, <1>11 DEF Typed, RcvSame, Room, rcv_space
<1>13. SendStep(v, u)
  BY <1>11, <1>12 DEF SendStep, Fits, EdgesFit
<1>14. /\ Una(v) \in Int /\ Una(v) \in Within /\ v.snd_una = At(ISS, Una(v)) /\ Len(v.sndbuf) \in Nat
       /\ W \in Int /\ 0 <= W /\ W + 2 < Middle /\ Middle \in Int /\ 2 * Middle = SeqMod /\ ISS \in SeqNo
       /\ 1 <= Una(v) /\ Una(v) <= H
  BY <1>3, <1>7, Standing DEF SendOK
<1>15. v.sndbuf = t.sndbuf /\ n <= Len(v.sndbuf)
  BY <1>3 DEF SndSame
<1>16. ~v.fin_acked /\ Len(v.sndbuf) = W + 1 - Una(v)
  <2>1. Len(v.sndbuf) # 0
    BY <1>14, <1>15
  <2> QED  BY <1>7, <2>1 DEF Sender
<1>17. Una(v) + n <= W + 1
  BY <1>14, <1>15, <1>16
<1>18. Una(v) \in SeqNo /\ n \in Within /\ Una(v) + n \in SeqNo
  BY <1>14, <1>17, SeqFacts DEF SeqNo, Within
<1>19. x = At(ISS, Una(v) + n)
  BY <1>14, <1>18, AtIs DEF x
<1>20. Una(u) = Una(v) /\ Nxt(u) = Una(v) + n
  BY <1>11, <1>14, <1>18, <1>19, AtIs DEF Una, Nxt
<1>21. Sender(u, W, H)
  <2>1. ~u.fin_sent /\ ~u.fin_acked /\ Len(u.sndbuf) = W + 1 - Una(u)
    BY <1>11, <1>16, <1>20
  <2>2. /\ 1 <= Una(u) /\ Una(u) <= H /\ Una(u) <= Nxt(u) /\ Nxt(u) <= W + 1 /\ Una(u) <= W + 1
    BY <1>14, <1>17, <1>20
  <2>3. \A i \in 1..Len(u.sndbuf) : u.sndbuf[i] = W - Len(u.sndbuf) + i
    BY <1>7, <1>11 DEF Sender
  <2> QED  BY <2>1, <2>2, <2>3, Unfinished
<1>22. SndOut(u, W)
  BY <1>3, <1>11 DEF SendOK, SndOut
<1>23. SendOK(u, W, H)
  BY <1>12, <1>21, <1>22 DEF SendOK
<1>24. SendStep(t, u)
  BY <1>3, <1>13, SendStepTrans
<1>25. Up(u) /\ \A rd, P, e : RecvInv(t, rd, P, e) => RecvInv(u, rd, P, e)
  BY <1>24, UpSendStep
<1>26. u.st = t.st /\ u.fin_wanted = t.fin_wanted
  BY <1>24 DEF SendStep
<1>27. SendInv(u, W, H)
  BY <1>23, <1>25, <1>26, UpSends DEF SendInv
<1> QED  BY <1>25, <1>26, <1>27 DEF u

LEMMA TickSynInv ==
    ASSUME NEW t, NEW H, SendInv(t, 0, H), t.st = "SYN_SENT"
    PROVE  LET u == TickSyn(t) IN
           /\ SendInv(u, 0, H) /\ u.fin_wanted = t.fin_wanted
           /\ \A rd, P, e : RecvInv(t, rd, P, e) => RecvInv(u, rd, P, e)
<1> DEFINE v == send_seg(t, ISS, {"SYN"}, <<>>)
           y == v.syn_tries + 1
           u == TickSyn(t)
<1>1. Typed(t) /\ Opening(t) /\ SndOut(t, 0)
  BY DEF SendInv
<1>2. CASE t.syn_tries + 1 >= SYN_TRIES
  <2>1. u = Closed(t)
    BY <1>2 DEF TickSyn
  <2>2. SndSame(t, Closed(t))
    BY <1>1, ClosedStep
  <2> HIDE DEF u
  <2> QED  BY <1>1, <2>1, <2>2, ClosedInv DEF SndSame, u
<1>3. CASE ~(t.syn_tries + 1 >= SYN_TRIES)
  <2>1. u = [v EXCEPT !.syn_tries = y]
    BY <1>1, <1>3 DEF TickSyn, Opening
  <2>2. /\ Typed(v) /\ Opening(v) /\ v.st = "SYN_SENT" /\ v.syn_tries = t.syn_tries
        /\ SndOut(v, 0)
        /\ \A rd, P : Reads(t, rd, P) => Reads(v, rd, P)
        /\ \A e : Offered(t, e) => Offered(v, e)
    BY <1>1, SynInv
  <2> HIDE DEF v
  <2>3. SendInv(v, 0, H)
    BY <2>2 DEF SendInv, Opening, Up
  <2>4. \A rd, P, e : RecvInv(t, rd, P, e) => RecvInv(v, rd, P, e)
    BY <2>2 DEF RecvInv, Up
  <2>5. y \in 0..SYN_TRIES
    <3>1. t.syn_tries \in 0..SYN_TRIES /\ SYN_TRIES \in Nat
      BY <1>1, Fields, SeqFacts DEF Typed
    <3> QED  BY <1>3, <2>2, <3>1
  <2> HIDE DEF y, u
  <2>6. v \in Conn
    BY <2>2 DEF Typed
  <2>7. u \in Conn
    BY <2>1, <2>5, <2>6 DEF Conn
  <2>8. SndSame(v, u) /\ RcvSame(v, u) /\ u.out = v.out /\ u.st = v.st /\ u.armed = v.armed
    BY <2>1, <2>6 DEF Conn, SndSame, RcvSame
  <2>9. /\ \A W1, H1 : SendInv(v, W1, H1) => SendInv(u, W1, H1)
        /\ \A rd, P, e : RecvInv(v, rd, P, e) => RecvInv(u, rd, P, e)
    BY <2>7, <2>8, SameInv
  <2>10. ~u.fin_wanted /\ ~t.fin_wanted /\ u.fin_wanted \in BOOLEAN /\ t.fin_wanted \in BOOLEAN
    BY <1>1, <2>2, <2>7, <2>8, Fields DEF Opening, SndSame, Typed
  <2> QED  BY <2>3, <2>4, <2>9, <2>10 DEF u
<1> QED  BY <1>2, <1>3

LEMMA TickFinInv ==
    ASSUME NEW t, NEW W, NEW H, Outgoing(W, H), SendInv(t, W, H), Up(t), t.fin_sent
    PROVE  LET u == TickFin(t) IN
           /\ SendInv(u, W, H) /\ u.fin_wanted = t.fin_wanted
           /\ \A rd, P, e : RecvInv(t, rd, P, e) => RecvInv(u, rd, P, e)
<1> DEFINE v == send_seg(t, t.fin_seq, {"FIN", "ACK"}, <<>>)
           s == Segment(t, t.fin_seq, {"FIN", "ACK"}, <<>>)
           y == v.fin_tries + 1
           u == TickFin(t)
<1>1. Typed(t) /\ SendOK(t, W, H) /\ Sender(t, W, H)
  BY UpSends DEF SendInv
<1>2. CASE t.fin_tries + 1 > SYN_TRIES
  <2>1. u = Closed(t)
    BY <1>2 DEF TickFin
  <2>2. SndSame(t, Closed(t))
    BY <1>1, ClosedStep
  <2> HIDE DEF u
  <2> QED  BY <1>1, <2>1, <2>2, ClosedInv DEF SndSame, u
<1>3. CASE ~(t.fin_tries + 1 > SYN_TRIES)
  <2>1. t.fin_seq \in SeqNo /\ {"FIN", "ACK"} \in Flags /\ <<>> \in Seq(Nat)
    BY <1>1, Fields DEF Typed, Flag, Flags
  <2>2. /\ Typed(v) /\ v.st = t.st /\ SndSame(t, v) /\ RcvSame(t, v)
        /\ (\A x \in v.out : x \in t.out \/ x = s)
        /\ v.fin_tries = t.fin_tries /\ Fits(t, v)
    BY <1>1, <2>1, SendShape
  <2>3. u = [v EXCEPT !.fin_tries = y]
    <3>1. v.fin_tries = t.fin_tries
      BY <2>2
    <3> QED  BY <1>3, <3>1 DEF TickFin
  <2>4. Carries(s, W, t.fin_wanted)
    <3>1. s.flags = {"FIN", "ACK"} /\ s.seq = t.fin_seq
      BY DEF Segment
    <3> HIDE DEF s
    <3>2. Marks(s) = {<<t.fin_seq, 0>>}
      BY <3>1 DEF Marks
    <3>3. t.fin_seq = At(ISS, W + 1) /\ t.fin_wanted
      BY <1>1 DEF Sender
    <3> QED  BY <3>2, <3>3 DEF Carries, Sent
  <2> HIDE DEF v, s
  <2>5. SendStep(t, v)
    BY <2>2 DEF SendStep, SndSame
  <2>6. SndOut(v, W)
    BY <1>1, <2>2, <2>4 DEF SendOK, SndOut, SndSame
  <2>7. SendOK(v, W, H)
    BY <1>1, <2>2, <2>6, SameSends DEF SendOK
  <2>8. v \in Conn /\ y \in 0..SYN_TRIES
    <3>1. t.fin_tries \in 0..SYN_TRIES /\ SYN_TRIES \in Nat
      BY <1>1, Fields, SeqFacts DEF Typed
    <3> QED  BY <1>3, <2>2, <3>1 DEF Typed
  <2> HIDE DEF y, u
  <2>9. u \in Conn
    BY <2>3, <2>8 DEF Conn
  <2>10. SndSame(v, u) /\ RcvSame(v, u) /\ u.out = v.out /\ u.st = v.st /\ u.fin_wanted = v.fin_wanted
    BY <2>3, <2>8 DEF Conn, SndSame, RcvSame
  <2>11. SendStep(v, u) /\ SendOK(u, W, H)
    BY <2>2, <2>7, <2>9, <2>10, TuneStep
  <2>12. SendStep(t, u)
    BY <2>5, <2>11, SendStepTrans
  <2>13. Up(u) /\ \A rd, P, e : RecvInv(t, rd, P, e) => RecvInv(u, rd, P, e)
    BY <2>12, UpSendStep
  <2>14. u.st = t.st /\ u.fin_wanted = t.fin_wanted
    BY <2>12 DEF SendStep
  <2>15. SendInv(u, W, H)
    BY <2>11, <2>13, <2>14, UpSends DEF SendInv
  <2> QED  BY <2>13, <2>14, <2>15 DEF u
<1> QED  BY <1>2, <1>3

\* The window probe: the first byte that waits, with nothing in flight.
LEMMA ProbeInv ==
    ASSUME NEW t, NEW W, NEW H, Outgoing(W, H), SendInv(t, W, H), Up(t), Len(t.sndbuf) # 0
    PROVE  LET u == send_seg(t, t.snd_una, {"ACK"}, SubSeq(t.sndbuf, 1, 1)) IN
           /\ SendInv(u, W, H) /\ u.fin_wanted = t.fin_wanted
           /\ \A rd, P, e : RecvInv(t, rd, P, e) => RecvInv(u, rd, P, e)
<1> DEFINE u == send_seg(t, t.snd_una, {"ACK"}, SubSeq(t.sndbuf, 1, 1))
<1>1. Typed(t) /\ SendOK(t, W, H) /\ t \in Conn
  BY UpSends DEF SendInv, Typed
<1>2. {"ACK"} \in Flags /\ Plain({"ACK"}) /\ 1 \in Nat /\ 1 <= 1
  BY DEF Flag, Flags, Plain
<1>3. 1 <= Len(t.sndbuf)
  <2>1. Len(t.sndbuf) \in Nat
    BY <1>1, Fields
  <2> QED  BY <2>1
<1>4. SendStep(t, u) /\ SndSame(t, u) /\ SendOK(u, W, H)
  BY <1>1, <1>2, <1>3, AgainStep
<1> HIDE DEF u
<1>5. Up(u) /\ \A rd, P, e : RecvInv(t, rd, P, e) => RecvInv(u, rd, P, e)
  BY <1>4, UpSendStep
<1>6. u.st = t.st /\ u.fin_wanted = t.fin_wanted
  BY <1>4 DEF SendStep
<1>7. SendInv(u, W, H)
  BY <1>4, <1>5, <1>6, UpSends DEF SendInv
<1> QED  BY <1>5, <1>6, <1>7 DEF u

LEMMA TickInv ==
    ASSUME NEW t, NEW W, NEW H, Outgoing(W, H), SendInv(t, W, H), t.st = "TIME_WAIT" \/ t.armed
    PROVE  LET u == tcp_tick(t) IN
           /\ SendInv(u, W, H) /\ u.fin_wanted = t.fin_wanted
           /\ \A rd, P, e : RecvInv(t, rd, P, e) => RecvInv(u, rd, P, e)
<1> DEFINE out == Outstanding(t)
           probe == t.snd_wnd = 0 /\ t.sndbuf # <<>> /\ t.snd_una = t.snd_nxt
           u == tcp_tick(t)
<1>1. u = CASE t.st = "TIME_WAIT" -> Closed(t)
            [] t.st = "SYN_SENT" -> TickSyn(t)
            [] t.st \notin {"TIME_WAIT", "SYN_SENT"} ->
                  IF probe THEN send_seg(t, t.snd_una, {"ACK"}, SubSeq(t.sndbuf, 1, 1))
                  ELSE IF out > 0
                  THEN IF t.rexmit_tries >= DATA_TRIES THEN GiveUpData(t)
                       ELSE ResendData(t, Least(out, MSS))
                  ELSE IF t.fin_sent /\ ~t.fin_acked
                          /\ t.st \in {"FIN_WAIT_1", "LAST_ACK", "CLOSING"}
                  THEN TickFin(t)
                  ELSE [t EXCEPT !.armed = FALSE]
  BY DEF tcp_tick, Outstanding
<1>2. Typed(t) /\ t \in Conn /\ t.st # "CLOSED"
  BY DEF SendInv, Typed
<1> HIDE DEF u
<1>3. CASE t.st = "TIME_WAIT"
  <2>1. u = Closed(t) /\ SndSame(t, Closed(t))
    BY <1>1, <1>2, <1>3, ClosedStep
  <2> QED  BY <1>2, <2>1, ClosedInv DEF SndSame, u
<1>4. CASE t.st = "SYN_SENT"
  <2>1. u = TickSyn(t) /\ W = 0
    BY <1>1, <1>4 DEF SendInv
  <2> QED  BY <1>4, <2>1, TickSynInv DEF u
<1>5. CASE t.st \notin {"TIME_WAIT", "SYN_SENT"}
  <2>1. Up(t) /\ SendOK(t, W, H) /\ Sender(t, W, H)
    BY <1>2, <1>5, UpSends DEF Up, SendOK
  <2>2. CASE probe
    <3>1. u = send_seg(t, t.snd_una, {"ACK"}, SubSeq(t.sndbuf, 1, 1))
      BY <1>1, <1>5, <2>2
    <3>2. Len(t.sndbuf) # 0
      BY <1>2, <2>2, Fields, Empty
    <3> QED  BY <2>1, <3>1, <3>2, ProbeInv DEF u
  <2>3. CASE ~probe /\ out > 0 /\ t.rexmit_tries >= DATA_TRIES
    <3>1. u = Dropped(t)
      BY <1>1, <1>5, <2>3 DEF GiveUpData, Dropped
    <3> QED  BY <1>2, <3>1, DroppedInv DEF u
  <2>4. CASE ~probe /\ out > 0 /\ ~(t.rexmit_tries >= DATA_TRIES)
    <3> DEFINE n == Least(out, MSS)
    <3>1. u = ResendData(t, n)
      BY <1>1, <1>5, <2>4
    <3>2. Len(t.sndbuf) \in Nat /\ Dist(t.snd_una, t.snd_nxt) \in Nat /\ MSS \in Nat \ {0}
      BY <1>2, Fields, SeqFacts, Between
    <3>3. out \in Int /\ out <= Len(t.sndbuf)
      <4> DEFINE gone == Dist(t.snd_una, t.snd_nxt) - (IF t.fin_sent THEN 1 ELSE 0)
      <4>1. gone \in Int /\ Len(t.sndbuf) \in Int
        BY <3>2
      <4>2. out = Least(gone, Len(t.sndbuf))
        BY DEF Outstanding
      <4> HIDE DEF gone, out
      <4> QED  BY <4>1, <4>2, LeastIs
    <3> HIDE DEF out
    <3>4. n \in Int /\ n <= out /\ n \in {out, MSS}
      <4>1. MSS \in Int
        BY <3>2
      <4> QED  BY <3>3, <4>1, LeastIs
    <3> HIDE DEF n
    <3>5. n \in Nat /\ 1 <= n /\ n <= Len(t.sndbuf)
      BY <2>4, <3>2, <3>3, <3>4
    <3>6. t.rexmit_tries < DATA_TRIES
      <4>1. t.rexmit_tries \in 0..DATA_TRIES /\ DATA_TRIES \in Nat
        BY <1>2, Fields, SeqFacts
      <4> QED  BY <2>4, <4>1
    <3> QED  BY <2>1, <3>1, <3>5, <3>6, ResendInv DEF u
  <2>5. CASE ~probe /\ ~(out > 0) /\ t.fin_sent /\ ~t.fin_acked
             /\ t.st \in {"FIN_WAIT_1", "LAST_ACK", "CLOSING"}
    <3>1. u = TickFin(t)
      BY <1>1, <1>5, <2>5
    <3> QED  BY <2>1, <2>5, <3>1, TickFinInv DEF u
  <2>6. CASE ~probe /\ ~(out > 0)
             /\ ~(t.fin_sent /\ ~t.fin_acked /\ t.st \in {"FIN_WAIT_1", "LAST_ACK", "CLOSING"})
    <3>1. u = [t EXCEPT !.armed = FALSE]
      BY <1>1, <1>5, <2>6
    <3>2. SendStep(t, u) /\ SendOK(u, W, H) /\ u.st = t.st /\ u.fin_wanted = t.fin_wanted
      BY <1>2, <2>1, <3>1, ArmedStep
    <3>3. Up(u) /\ \A rd, P, e : RecvInv(t, rd, P, e) => RecvInv(u, rd, P, e)
      BY <2>1, <3>2, UpSendStep
    <3>4. SendInv(u, W, H)
      BY <3>2, <3>3, UpSends DEF SendInv
    <3> QED  BY <3>2, <3>3, <3>4 DEF u
  <2> QED  BY <2>2, <2>3, <2>4, <2>5, <2>6
<1> QED  BY <1>3, <1>4, <1>5
-----------------------------------------------------------------------------
(* What the peer holds, and how far it may send.                            *)

Pairs == {ss \in Nat \X Nat : ss[1] < ss[2]}

LEMMA LeastOf ==
    ASSUME NEW T, T \subseteq Nat, T # {}
    PROVE  \E x \in T : \A y \in T : x <= y
<1>1. IsWellFoundedOn(Pairs, Nat)
  BY NatLessThanWellFounded DEF Pairs, OpToRel
<1>2. PICK x \in T : \A y \in T : <<y, x>> \notin Pairs
  BY <1>1, WFMin
<1>3. ASSUME NEW y \in T PROVE x <= y
  <2>1. x \in Nat /\ y \in Nat
    OBVIOUS
  <2>2. ~(y < x)
    BY <1>2, <2>1 DEF Pairs
  <2> QED  BY <2>1, <2>2
<1> QED  BY <1>3

LEMMA GreatestOf ==
    ASSUME NEW T, T \subseteq Int, T # {}, NEW b \in Int, \A x \in T : x <= b
    PROVE  \E x \in T : \A y \in T : y <= x
<1> DEFINE D == {b - x : x \in T}
<1>1. ASSUME NEW x \in T PROVE b - x \in Nat
  BY <1>1
<1>2. D \subseteq Nat /\ D # {}
  BY <1>1
<1>3. PICK d \in D : \A y \in D : d <= y
  <2> HIDE DEF D
  <2> QED  BY <1>2, LeastOf
<1>4. PICK x \in T : d = b - x
  BY <1>3
<1>5. ASSUME NEW y \in T PROVE y <= x
  <2>1. b - x <= b - y
    BY <1>3, <1>4
  <2>2. x \in Int /\ y \in Int
    OBVIOUS
  <2> HIDE DEF D
  <2> QED  BY <2>1, <2>2
<1> QED  BY <1>5

\* The peer has sequence number n of the stream.
Covers(g, n) == \E x \in g : x[1] = At(ISS, n)

LEMMA SentPlace ==
    ASSUME NEW W \in Nat, W + 2 \in Within, NEW x, NEW fin, Sent(x, W, fin), NEW m \in Within,
           x[1] = At(ISS, m)
    PROVE  /\ m <= W + 1
           /\ m \in 1..W => x = <<At(ISS, m), m>>
           /\ x[2] # 0 => x = <<At(ISS, m), m>>
           /\ x[2] = 0 => m = 0 \/ m = W + 1
<1>1. /\ ISS \in SeqNo /\ Middle \in Int /\ W + 2 < Middle /\ W \in Int /\ 0 <= W /\ m \in Int /\ 0 <= m
      /\ 0 \in Within /\ W + 1 \in Within /\ 1..W \subseteq Within
  BY SeqFacts DEF Within
<1>2. ISS = At(ISS, 0)
  <2>1. ISS = At(ISS, Dist(ISS, ISS))
    BY <1>1, IsAt
  <2>2. Dist(ISS, ISS) = ISS - ISS
    BY <1>1, DistIs, SeqNoInt
  <2> QED  BY <1>1, <2>1, <2>2, SeqNoInt
<1>3. CASE x = <<ISS, 0>>
  <2>1. m = 0
    BY <1>1, <1>2, <1>3, Compare
  <2> QED  BY <1>1, <1>3, <2>1
<1>4. CASE \E n \in 1..W : x = <<At(ISS, n), n>>
  <2>1. PICK n \in 1..W : x = <<At(ISS, n), n>>
    BY <1>4
  <2>2. n \in Within /\ n \in Int /\ 1 <= n /\ n <= W
    BY <1>1
  <2>3. m = n
    BY <1>1, <2>1, <2>2, Compare
  <2> QED  BY <1>1, <2>1, <2>2, <2>3
<1>5. CASE x = <<At(ISS, W + 1), 0>>
  <2>1. m = W + 1
    BY <1>1, <1>5, Compare
  <2> QED  BY <1>1, <1>5, <2>1
<1> QED  BY <1>3, <1>4, <1>5 DEF Sent

\* What was never sent is not held, and numbers held from the first on are distinct.
LEMMA GapIs ==
    ASSUME NEW W \in Nat, W + 2 \in Within, NEW fin, NEW g, IsFiniteSet(g), \A x \in g : Sent(x, W, fin)
    PROVE  \E n \in 0..Cardinality(g) :
                /\ \A i \in 0..(n - 1) : Covers(g, i)
                /\ ~Covers(g, n)
<1> DEFINE T == {n \in Nat : ~Covers(g, n)}
<1>1. /\ Middle \in Int /\ W + 2 < Middle /\ ISS \in SeqNo /\ Cardinality(g) \in Nat
  BY SeqFacts, FS_CardinalityType DEF Within
<1>2. W + 2 \in T
  <2>1. ASSUME NEW x \in g, x[1] = At(ISS, W + 2) PROVE FALSE
    <3>1. Sent(x, W, fin)
      OBVIOUS
    <3>2. W + 2 <= W + 1
      BY <2>1, <3>1, SentPlace
    <3> QED  BY <3>2
  <2> QED  BY <2>1 DEF Covers
<1>3. PICK n \in T : \A y \in T : n <= y
  <2>1. T \subseteq Nat /\ T # {}
    BY <1>2
  <2> HIDE DEF T
  <2> QED  BY <2>1, LeastOf
<1>4. n \in Nat /\ ~Covers(g, n) /\ n <= W + 2
  BY <1>2, <1>3
<1>5. ASSUME NEW i \in 0..(n - 1) PROVE Covers(g, i)
  <2>1. i \in Nat /\ ~(n <= i)
    BY <1>4
  <2>2. i \notin T
    BY <1>3, <2>1
  <2> QED  BY <2>1, <2>2
<1> HIDE DEF T
<1>6. n <= Cardinality(g)
  <2> DEFINE f == [i \in 0..(n - 1) |-> CHOOSE x \in g : x[1] = At(ISS, i)]
  <2>1. ASSUME NEW i \in 0..(n - 1) PROVE f[i] \in g /\ f[i][1] = At(ISS, i)
    <3>1. \E x \in g : x[1] = At(ISS, i)
      BY <1>5 DEF Covers
    <3> QED  BY <3>1
  <2>2. ASSUME NEW i \in 0..(n - 1), NEW j \in 0..(n - 1), f[i] = f[j] PROVE i = j
    <3>1. i \in Within /\ j \in Within
      BY <1>1, <1>4 DEF Within
    <3>2. At(ISS, i) = At(ISS, j)
      BY <2>1, <2>2
    <3> QED  BY <1>1, <3>1, <3>2, Compare
  <2>3. f \in [0..(n - 1) -> g]
    BY <2>1
  <2> HIDE DEF f
  <2>4. f \in Injection(0..(n - 1), g)
    BY <2>2, <2>3 DEF Injection, IsInjective
  <2>5. Cardinality(0..(n - 1)) <= Cardinality(g)
    BY <2>4, FS_Injection
  <2>6. Cardinality(0..(n - 1)) = n
    <3>1. 0 \in Int /\ n - 1 \in Int
      BY <1>4
    <3>2. Cardinality(0..(n - 1)) = IF 0 > n - 1 THEN 0 ELSE n - 1 - 0 + 1
      BY <3>1, FS_Interval
    <3> QED  BY <1>4, <3>2
  <2> QED  BY <2>5, <2>6
<1>7. n \in 0..Cardinality(g)
  BY <1>1, <1>4, <1>6
<1> QED  BY <1>4, <1>5, <1>7

LEMMA HeldIs ==
    ASSUME NEW W \in Nat, W + 2 \in Within, NEW fin, NEW p, IsFiniteSet(p.got),
           \A x \in p.got : Sent(x, W, fin)
    PROVE  /\ Held(p) \in Nat
           /\ \A i \in 0..(Held(p) - 1) : Covers(p.got, i)
           /\ ~Covers(p.got, Held(p))
           /\ Outgoing(W, Held(p))
<1> DEFINE C(n) == (\A i \in 0..(n - 1) : Covers(p.got, i)) /\ ~Covers(p.got, n)
<1>1. \E n \in 0..Cardinality(p.got) : C(n)
  BY GapIs
<1>2. Held(p) = CHOOSE n \in 0..Cardinality(p.got) : C(n)
  BY DEF Held, Covers
<1>3. Held(p) \in 0..Cardinality(p.got) /\ C(Held(p))
  <2> HIDE DEF C
  <2> QED  BY <1>1, <1>2
<1>4. Held(p) \in Nat
  BY <1>3, FS_CardinalityType
<1>5. Held(p) <= W + 2
  <2>1. ASSUME W + 2 < Held(p) PROVE FALSE
    <3>1. W + 2 \in 0..(Held(p) - 1)
      BY <1>4, <2>1
    <3>2. PICK x \in p.got : x[1] = At(ISS, W + 2)
      BY <1>3, <3>1 DEF Covers
    <3>3. Sent(x, W, fin)
      OBVIOUS
    <3>4. W + 2 <= W + 1
      BY <3>2, <3>3, SentPlace
    <3> QED  BY <3>4
  <2> QED  BY <1>4, <2>1
<1> QED  BY <1>3, <1>4, <1>5 DEF Outgoing

LEMMA HeldGrows ==
    ASSUME NEW W \in Nat, W + 2 \in Within, NEW fin, NEW p, NEW q, IsFiniteSet(p.got), IsFiniteSet(q.got),
           \A x \in q.got : Sent(x, W, fin), p.got \subseteq q.got
    PROVE  Held(p) <= Held(q)
<1>1. Held(p) \in Nat /\ \A i \in 0..(Held(p) - 1) : Covers(p.got, i)
  BY HeldIs
<1>2. Held(q) \in Nat /\ ~Covers(q.got, Held(q))
  BY HeldIs
<1>3. ASSUME Held(q) < Held(p) PROVE FALSE
  <2>1. Held(q) \in 0..(Held(p) - 1)
    BY <1>1, <1>2, <1>3
  <2> QED  BY <1>1, <1>2, <2>1 DEF Covers
<1> QED  BY <1>1, <1>2, <1>3

LEMMA HeldSame == ASSUME NEW p, NEW q, p.got = q.got PROVE Held(p) = Held(q)
BY DEF Held
-----------------------------------------------------------------------------
(* The invariants of the whole connection.                                  *)

Shapes == DOMAIN peer = {"got", "edge", "shut"} /\ DOMAIN app = {"starts", "written", "read", "ticked"}
\* The wire holds the stream, and the peer what of it was on the wire.
Link(W, fin) == \A x \in wire : Sent(x, W, fin)
SInv ==
    /\ Shapes /\ plan \in Plans /\ tcp.out = {}
    /\ app.written \in Nat /\ app.written <= plan.app
    /\ Link(app.written, tcp.fin_wanted)
    /\ peer.got \subseteq wire /\ IsFiniteSet(peer.got)
    /\ SendInv(tcp, app.written, Held(peer))
RInv == RecvInv(tcp, app.read, plan.peer, peer.edge)

LEMMA PlanIs ==
    ASSUME NEW p \in Plans
    PROVE  /\ p.app \in Nat /\ p.app + 2 < Middle /\ p.peer \in Nat /\ Incoming(p.peer)
           /\ \A W \in Nat : W <= p.app => W + 2 \in Within
<1>1. p \in Plan /\ p.app + 2 < Middle /\ p.peer + RCV_BUF + 2 < Middle
  BY ConnectionAssumption DEF Middle
<1>2. p.app \in Nat /\ p.peer \in Nat /\ Middle \in Int
  BY <1>1, SeqFacts DEF Plan
<1>3. Incoming(p.peer)
  BY <1>1, <1>2 DEF Incoming
<1>4. \A W \in Nat : W <= p.app => W + 2 \in Within
  BY <1>1, <1>2 DEF Within
<1> QED  BY <1>1, <1>2, <1>3, <1>4

LEMMA SInvHeld ==
    ASSUME SInv
    PROVE  /\ Outgoing(app.written, Held(peer)) /\ Held(peer) \in Nat /\ app.written \in Nat
           /\ app.written + 2 \in Within /\ \A x \in peer.got : Sent(x, app.written, tcp.fin_wanted)
           /\ \A i \in 0..(Held(peer) - 1) : Covers(peer.got, i)
           /\ ~Covers(peer.got, Held(peer))
<1>1. app.written \in Nat /\ app.written + 2 \in Within
  BY PlanIs DEF SInv
<1>2. \A x \in peer.got : Sent(x, app.written, tcp.fin_wanted)
  BY DEF SInv, Link
<1>3. IsFiniteSet(peer.got)
  BY DEF SInv
<1> QED  BY <1>1, <1>2, <1>3, HeldIs

\* What was sent is off the record: nothing waits to go out.
Cleared(t) == [t EXCEPT !.out = {}]

LEMMA ClearedStep ==
    ASSUME NEW t, Typed(t)
    PROVE  LET u == Cleared(t) IN
           /\ u.out = {} /\ u.fin_wanted = t.fin_wanted
           /\ \A W, H : SendInv(t, W, H) => SendInv(u, W, H)
           /\ \A rd, P, e, m :
                /\ RecvInv(t, rd, P, e)
                /\ Up(t) => m \in Int /\ m <= Room(t)
                /\ t.st = "SYN_SENT" => m \in Int /\ m <= RCV_BUF
                => RecvInv(u, rd, P, m)
<1> DEFINE u == Cleared(t)
<1>1. t \in Conn /\ t.rcv_head <= Len(t.rcvbuf)
  BY DEF Typed
<1>2. u \in Conn
  BY <1>1 DEF Conn, Cleared
<1>3. SndSame(t, u) /\ RcvSame(t, u) /\ u.out = {} /\ u.st = t.st /\ u.armed = t.armed
  BY <1>1 DEF Conn, Cleared, SndSame, RcvSame
<1> HIDE DEF u
<1>4. Typed(u) /\ Room(u) = Room(t)
  BY <1>1, <1>2, <1>3 DEF Typed, RcvSame, Room, rcv_space
<1>5. ASSUME NEW W, NEW H, SendInv(t, W, H) PROVE SendInv(u, W, H)
  <2>1. SndOut(u, W) /\ (Opening(t) => Opening(u))
    BY <1>3 DEF SndOut, Opening, SndSame, RcvSame
  <2> QED  BY <1>3, <1>4, <1>5, <2>1, SameSends DEF SendInv, SndSame, Up
<1>6. ASSUME NEW rd, NEW P, NEW e, NEW m, RecvInv(t, rd, P, e),
             Up(t) => m \in Int /\ m <= Room(t),
             t.st = "SYN_SENT" => m \in Int /\ m <= RCV_BUF
      PROVE  RecvInv(u, rd, P, m)
  <2>1. Got(u, rd) = Got(t, rd) /\ Rcv(u) = Rcv(t) /\ Waiting(u) = Waiting(t)
    BY <1>3 DEF RcvSame, Got, tcp_available, Rcv, Waiting
  <2>2. Reads(u, rd, P)
    BY <1>3, <1>6, <2>1 DEF RcvSame, RecvInv, Reads
  <2>3. Receives(t, rd, P) => Receives(u, rd, P)
    BY <1>3, <2>1 DEF RcvSame, Receives, Slotted
  <2>4. Up(u) => EdgesFit(u, m)
    BY <1>3, <1>4, <1>6 DEF EdgesFit, Up
  <2>5. u.st = "SYN_SENT" => Opening(u) /\ Offered(u, m)
    BY <1>3, <1>6 DEF RecvInv, Opening, SndSame, RcvSame, Offered
  <2> QED  BY <1>3, <1>4, <1>6, <2>2, <2>3, <2>4, <2>5 DEF RecvInv, Up, RcvSame
<1> QED  BY <1>3, <1>5, <1>6 DEF u, SndSame

\* The edges that t's segments, and e before them, tell the peer.
Edges(t, e) == {Edge(s) : s \in {x \in t.out : "RST" \notin x.flags}} \cup {e}
Furthest(S) == CHOOSE e \in S : \A f \in S : f <= e

LEMMA FurthestIs ==
    ASSUME NEW t, Typed(t), NEW e \in Int, NEW b \in Int, e <= b,
           \A s \in t.out : "RST" \notin s.flags => Edge(s) <= b
    PROVE  Furthest(Edges(t, e)) \in Int /\ Furthest(Edges(t, e)) <= b
<1> DEFINE S == Edges(t, e)
<1>1. t.out \subseteq Seg
  BY Fields DEF Typed
<1>2. S \subseteq Int /\ S # {} /\ \A x \in S : x <= b
  BY <1>1, EdgeTyped DEF Edges
<1> HIDE DEF S
<1>3. \E x \in S : \A y \in S : y <= x
  BY <1>2, GreatestOf
<1>4. Furthest(S) \in S
  BY <1>3 DEF Furthest
<1> QED  BY <1>2, <1>4 DEF S

LEMMA EmitIs ==
    ASSUME NEW p, NEW t, EmitTo(p, t)
    PROVE  /\ tcp' = Cleared(t)
           /\ wire' = wire \cup UNION {Marks(s) : s \in t.out}
           /\ peer' = [p EXCEPT !.edge = Furthest(Edges(t, p.edge))]
BY DEF EmitTo, Cleared, Furthest, Edges

\* What a call leaves, once its segments are on the wire.
LEMMA EmitSends ==
    ASSUME NEW p, DOMAIN p = {"got", "edge", "shut"}, p.got = peer.got, NEW t, EmitTo(p, t), NEW W,
           SendInv(t, W, Held(peer)), \A x \in wire : Sent(x, W, t.fin_wanted)
    PROVE  /\ tcp'.out = {} /\ SendInv(tcp', W, Held(peer'))
           /\ \A x \in wire' : Sent(x, W, tcp'.fin_wanted)
           /\ wire \subseteq wire' /\ peer'.got = peer.got /\ DOMAIN peer' = {"got", "edge", "shut"}
<1>1. /\ tcp' = Cleared(t) /\ wire' = wire \cup UNION {Marks(s) : s \in t.out}
      /\ peer' = [p EXCEPT !.edge = Furthest(Edges(t, p.edge))]
  BY EmitIs
<1>2. peer'.got = peer.got /\ DOMAIN peer' = {"got", "edge", "shut"}
  BY <1>1
<1>3. Held(peer') = Held(peer)
  BY <1>2, HeldSame
<1>4. Typed(t) /\ SndOut(t, W)
  BY DEF SendInv
<1>5. /\ Cleared(t).out = {} /\ Cleared(t).fin_wanted = t.fin_wanted
      /\ SendInv(Cleared(t), W, Held(peer))
  BY <1>4, ClearedStep
<1>6. \A x \in wire' : Sent(x, W, t.fin_wanted)
  BY <1>1, <1>4 DEF SndOut, Carries
<1> QED  BY <1>1, <1>2, <1>3, <1>5, <1>6

LEMMA EmitReceives ==
    ASSUME NEW p, DOMAIN p = {"got", "edge", "shut"}, p.edge = peer.edge, NEW t, EmitTo(p, t),
           NEW rd, NEW P, RecvInv(t, rd, P, peer.edge)
    PROVE  RecvInv(tcp', rd, P, peer'.edge)
<1> DEFINE m == Furthest(Edges(t, peer.edge))
<1>1. tcp' = Cleared(t) /\ peer' = [p EXCEPT !.edge = m]
  BY EmitIs
<1>2. peer'.edge = m
  BY <1>1
<1>3. Typed(t) /\ t \in Conn
  BY DEF RecvInv, Typed
<1> HIDE DEF m
<1>4. Up(t) => m \in Int /\ m <= Room(t)
  <2> SUFFICES ASSUME Up(t) PROVE m \in Int /\ m <= Room(t)
    OBVIOUS
  <2>1. EdgesFit(t, peer.edge) /\ Room(t) \in Int
    BY <1>3, RoomTyped DEF RecvInv
  <2> QED  BY <1>3, <2>1, FurthestIs DEF EdgesFit, m
<1>5. t.st = "SYN_SENT" => m \in Int /\ m <= RCV_BUF
  <2> SUFFICES ASSUME t.st = "SYN_SENT" PROVE m \in Int /\ m <= RCV_BUF
    OBVIOUS
  <2>1. Offered(t, peer.edge) /\ RCV_BUF \in Int
    BY SeqFacts DEF RecvInv
  <2> QED  BY <1>3, <2>1, FurthestIs DEF Offered, m
<1>6. RecvInv(Cleared(t), rd, P, m)
  BY <1>3, <1>4, <1>5, ClearedStep
<1> QED  BY <1>1, <1>2, <1>6
-----------------------------------------------------------------------------
(* Every step keeps both.                                                   *)

LEMMA SentKept ==
    ASSUME NEW x, NEW W \in Nat, NEW V \in Nat, W <= V, NEW f, NEW g, Sent(x, W, f),
           (f => g /\ W = V)
    PROVE  Sent(x, V, g)
<1>1. 1..W \subseteq 1..V
  OBVIOUS
<1> QED  BY <1>1 DEF Sent

\* A step of tcp.c's that leaves the application and the peer's bytes as they were.
LEMMA CallSends ==
    ASSUME SInv, UNCHANGED plan, NEW p, DOMAIN p = {"got", "edge", "shut"}, p.got = peer.got,
           NEW t, EmitTo(p, t), NEW W \in Nat, app.written <= W, W <= plan.app,
           DOMAIN app' = {"starts", "written", "read", "ticked"}, app'.written = W,
           SendInv(t, W, Held(peer)), tcp.fin_wanted => t.fin_wanted /\ app.written = W
    PROVE  SInv'
<1>1. app.written \in Nat /\ Link(app.written, tcp.fin_wanted)
  BY DEF SInv
<1>2. \A x \in wire : Sent(x, W, t.fin_wanted)
  BY <1>1, SentKept DEF Link
<1>3. /\ tcp'.out = {} /\ SendInv(tcp', W, Held(peer'))
      /\ \A x \in wire' : Sent(x, W, tcp'.fin_wanted)
      /\ wire \subseteq wire' /\ peer'.got = peer.got /\ DOMAIN peer' = {"got", "edge", "shut"}
  BY <1>2, EmitSends
<1>4. plan \in Plans /\ plan' = plan /\ peer.got \subseteq wire /\ IsFiniteSet(peer.got)
  BY DEF SInv
<1>5. peer'.got \subseteq wire' /\ IsFiniteSet(peer'.got)
  BY <1>3, <1>4
<1>6. Link(app.written, tcp.fin_wanted)'
  BY <1>3 DEF Link
<1> QED  BY <1>3, <1>4, <1>5, <1>6 DEF SInv, Shapes

LEMMA Begins == TcpInit => SInv /\ RInv
<1> SUFFICES ASSUME TcpInit PROVE SInv /\ RInv
  OBVIOUS
<1>1. <<>> \in Seq(Nat) /\ Len(<<>>) = 0
  OBVIOUS
<1>2. /\ SYN_TRIES \in Nat /\ DATA_TRIES \in Nat /\ SND_BUF \in Nat /\ RCV_BUF \in Nat /\ OOO_BUF \in Nat
      /\ 0 \in SeqNo
  BY SeqFacts
<1>3. <<>> \in Buffer(SND_BUF) /\ <<>> \in Buffer(RCV_BUF) /\ <<>> \in Buffer(OOO_BUF)
  BY <1>1, <1>2 DEF Buffer
<1>4. 0 \in 0..SYN_TRIES /\ 0 \in 0..DATA_TRIES
  BY <1>2
<1>5. tcp \in Conn
  BY <1>2, <1>3, <1>4 DEF TcpInit, Conn, States
<1>6. /\ tcp.st = "CLOSED" /\ ~tcp.armed /\ ~tcp.fin_acked /\ ~tcp.fin_seen /\ tcp.out = {}
      /\ tcp.rcvbuf = <<>> /\ tcp.rcv_head = 0
  BY DEF TcpInit
<1>7. Typed(tcp)
  BY <1>1, <1>5, <1>6 DEF Typed
<1>8. SendInv(tcp, 0, Held(peer))
  BY <1>6, <1>7 DEF SendInv, SndOut, Up
<1>9. /\ plan \in Plans /\ plan.app \in Nat /\ plan.peer \in Nat
      /\ app = [starts |-> 0, written |-> 0, read |-> 0, ticked |-> FALSE]
      /\ wire = {} /\ peer = [got |-> {}, edge |-> 0, shut |-> FALSE]
  BY PlanIs DEF TcpInit
<1>10. app.written = 0 /\ app.read = 0 /\ peer.got = {} /\ Shapes
  BY <1>9 DEF Shapes
<1>11. Link(app.written, tcp.fin_wanted) /\ IsFiniteSet(peer.got) /\ peer.got \subseteq wire
  BY <1>9, <1>10, FS_EmptySet DEF Link
<1>12. SInv
  BY <1>6, <1>8, <1>9, <1>10, <1>11 DEF SInv
<1>13. Reads(tcp, 0, plan.peer)
  <2>1. Got(tcp, 0) = 0
    BY <1>1, <1>6 DEF Got, tcp_available
  <2> QED  BY <1>1, <1>6, <1>9, <2>1 DEF Reads
<1>14. RInv
  BY <1>6, <1>7, <1>10, <1>13 DEF RInv, RecvInv, Up
<1> QED  BY <1>12, <1>14

LEMMA StartKeeps ==
    ASSUME SInv, Start, UNCHANGED plan
    PROVE  SInv' /\ RInv'
<1> DEFINE t == tcp_connect(tcp, ISS)
           s == Segment(Fresh(tcp), ISS, {"SYN"}, <<>>)
<1>1. Typed(tcp) /\ tcp.out = {} /\ plan \in Plans /\ plan' = plan
  BY DEF SInv, SendInv
<1>2. t.st = "SYN_SENT" /\ (\A H : SendInv(t, 0, H)) /\ \A P \in Nat : RecvInv(t, 0, P, RCV_BUF)
  BY <1>1, ConnectInv
<1>3. /\ tcp' = Cleared(t) /\ wire' = UNION {Marks(x) : x \in t.out}
      /\ peer' = [got |-> {}, edge |-> RCV_BUF, shut |-> FALSE]
      /\ app' = [starts |-> app.starts + 1, written |-> 0, read |-> 0, ticked |-> TRUE]
  BY DEF Start, Cleared
<1> HIDE DEF t
<1>4. Typed(t) /\ SndOut(t, 0) /\ plan.peer \in Nat /\ plan.app \in Nat
  BY <1>1, <1>2, PlanIs DEF SendInv
<1>5. /\ Cleared(t).out = {} /\ Cleared(t).fin_wanted = t.fin_wanted
      /\ \A W, H : SendInv(t, W, H) => SendInv(Cleared(t), W, H)
  BY <1>4, ClearedStep
<1>6. \A x \in wire' : Sent(x, 0, t.fin_wanted)
  BY <1>3, <1>4 DEF SndOut, Carries
<1>7. app'.written = 0 /\ app'.read = 0 /\ peer'.got = {} /\ peer'.edge = RCV_BUF /\ Shapes'
  BY <1>3 DEF Shapes
<1>8. SendInv(tcp', 0, Held(peer'))
  BY <1>2, <1>3, <1>5
<1>9. Link(app.written, tcp.fin_wanted)' /\ IsFiniteSet(peer'.got) /\ peer'.got \subseteq wire'
  BY <1>3, <1>5, <1>6, <1>7, FS_EmptySet DEF Link
<1>10. SInv'
  BY <1>1, <1>3, <1>4, <1>5, <1>7, <1>8, <1>9 DEF SInv
<1>11. RecvInv(tcp', 0, plan.peer, RCV_BUF)
  <2>1. RecvInv(t, 0, plan.peer, RCV_BUF) /\ t.st = "SYN_SENT"
    BY <1>2, <1>4
  <2>2. ~Up(t) /\ RCV_BUF \in Int /\ RCV_BUF <= RCV_BUF
    BY <2>1, SeqFacts DEF Up
  <2>3. RecvInv(Cleared(t), 0, plan.peer, RCV_BUF)
    BY <1>4, <2>1, <2>2, ClearedStep
  <2> QED  BY <1>3, <2>3
<1>12. RInv'
  BY <1>1, <1>7, <1>11 DEF RInv
<1> QED  BY <1>10, <1>12

LEMMA WriteKeeps ==
    ASSUME SInv, Write, UNCHANGED plan
    PROVE  SInv' /\ (RInv => RInv')
<1> DEFINE W == app.written
<1>1. PICK n \in 1..(plan.app - app.written) :
        /\ Emit(tcp_send(tcp, [i \in 1..n |-> app.written + i]))
        /\ app' = [app EXCEPT !.written = @ + Taken(tcp, [i \in 1..n |-> app.written + i])]
  BY DEF Write
<1> DEFINE data == [i \in 1..n |-> W + i]
           k == Taken(tcp, data)
           t == tcp_send(tcp, data)
<1>2. /\ W \in Nat /\ W <= plan.app /\ plan \in Plans /\ plan' = plan /\ plan.app \in Nat
      /\ Outgoing(W, Held(peer)) /\ SendInv(tcp, W, Held(peer)) /\ Shapes
  BY SInvHeld, PlanIs DEF SInv
<1>3. n \in Nat /\ W + n <= plan.app /\ W + n \in Nat
  BY <1>2
<1>4. W + n + 2 \in Within
  BY <1>2, <1>3, PlanIs
<1>5. data \in Seq(Nat) /\ Len(data) = n /\ \A i \in 1..Len(data) : data[i] = W + i
  BY <1>2, <1>3
<1>6. EmitTo(peer, t) /\ app' = [app EXCEPT !.written = W + k] /\ tcp.st \in {"ESTABLISHED", "CLOSE_WAIT"}
  BY <1>1 DEF Emit, Write
<1> HIDE DEF data
<1>7. /\ k \in Nat /\ k <= Len(data) /\ SendInv(t, W + k, Held(peer))
      /\ t.fin_wanted = tcp.fin_wanted /\ ~tcp.fin_wanted
      /\ \A rd, P, e : RecvInv(tcp, rd, P, e) => RecvInv(t, rd, P, e)
  BY <1>2, <1>4, <1>5, <1>6, SendInvStep
<1> HIDE DEF t, k
<1>8. /\ app'.written = W + k /\ app'.read = app.read
      /\ DOMAIN app' = {"starts", "written", "read", "ticked"} /\ DOMAIN peer = {"got", "edge", "shut"}
  BY <1>2, <1>6 DEF Shapes
<1>9. W + k \in Nat /\ W <= W + k /\ W + k <= plan.app
  BY <1>2, <1>3, <1>5, <1>7
<1>10. SInv'
  BY <1>6, <1>7, <1>8, <1>9, CallSends
<1>11. ASSUME RInv PROVE RInv'
  <2>1. RecvInv(t, app.read, plan.peer, peer.edge)
    BY <1>7, <1>11 DEF RInv
  <2>2. RecvInv(tcp', app.read, plan.peer, peer'.edge)
    BY <1>6, <1>8, <2>1, EmitReceives
  <2> QED  BY <1>2, <1>8, <2>2 DEF RInv
<1> QED  BY <1>10, <1>11

LEMMA ReadKeeps ==
    ASSUME SInv, Read, UNCHANGED plan
    PROVE  SInv' /\ (RInv => RInv')
<1>1. PICK n \in 1..tcp_available(tcp) :
        tcp' = tcp_recv(tcp, n) /\ app' = [app EXCEPT !.read = @ + n] /\ UNCHANGED <<wire, peer>>
  BY DEF Read
<1>2. /\ plan \in Plans /\ plan' = plan /\ SendInv(tcp, app.written, Held(peer)) /\ Shapes /\ Typed(tcp)
      /\ Incoming(plan.peer) /\ tcp.out = {}
  BY PlanIs DEF SInv, SendInv
<1>3. /\ tcp'.out = tcp.out /\ tcp'.fin_wanted = tcp.fin_wanted
      /\ \A W, H : SendInv(tcp, W, H) => SendInv(tcp', W, H)
      /\ \A rd, P, e : Incoming(P) /\ RecvInv(tcp, rd, P, e) => RecvInv(tcp', rd + n, P, e)
  BY <1>1, <1>2, RecvInvStep
<1>4. app'.written = app.written /\ app'.read = app.read + n /\ Shapes'
  BY <1>1, <1>2 DEF Shapes
<1>5. wire' = wire /\ peer' = peer
  BY <1>1
<1>6. Link(app.written, tcp.fin_wanted)'
  BY <1>3, <1>4, <1>5 DEF SInv, Link
<1>7. SInv'
  <2>1. SendInv(tcp', app.written, Held(peer))
    BY <1>2, <1>3
  <2>2. Held(peer') = Held(peer)
    BY <1>5
  <2> QED  BY <1>2, <1>3, <1>4, <1>5, <1>6, <2>1, <2>2 DEF SInv
<1>8. RInv => RInv'
  BY <1>2, <1>3, <1>4, <1>5 DEF RInv
<1> QED  BY <1>7, <1>8

LEMMA CloseKeeps ==
    ASSUME SInv, Close, UNCHANGED plan
    PROVE  SInv' /\ (RInv => RInv')
<1> DEFINE t == tcp_close(tcp)
<1>1. /\ EmitTo(peer, t) /\ app' = [app EXCEPT !.ticked = FALSE]
      /\ tcp.st \in {"ESTABLISHED", "CLOSE_WAIT", "SYN_SENT"}
  BY DEF Close, Emit
<1>2. /\ app.written \in Nat /\ app.written <= plan.app /\ plan' = plan
      /\ Outgoing(app.written, Held(peer)) /\ SendInv(tcp, app.written, Held(peer)) /\ Shapes
  BY SInvHeld DEF SInv
<1>3. /\ SendInv(t, app.written, Held(peer)) /\ (tcp.fin_wanted => t.fin_wanted)
      /\ \A rd, P, e : RecvInv(tcp, rd, P, e) => RecvInv(t, rd, P, e)
  BY <1>1, <1>2, CloseInv
<1> HIDE DEF t
<1>4. /\ app'.written = app.written /\ app'.read = app.read
      /\ DOMAIN app' = {"starts", "written", "read", "ticked"} /\ DOMAIN peer = {"got", "edge", "shut"}
  BY <1>1, <1>2 DEF Shapes
<1>5. app.written <= app.written
  BY <1>2
<1>6. SInv'
  BY <1>1, <1>2, <1>3, <1>4, <1>5, CallSends
<1>7. ASSUME RInv PROVE RInv'
  <2>1. RecvInv(t, app.read, plan.peer, peer.edge)
    BY <1>3, <1>7 DEF RInv
  <2>2. RecvInv(tcp', app.read, plan.peer, peer'.edge)
    BY <1>1, <1>4, <2>1, EmitReceives
  <2> QED  BY <1>2, <1>4, <2>2 DEF RInv
<1> QED  BY <1>6, <1>7

\* Abort, RunTimers and the peer's segments leave the application alone.
LEMMA CallKeeps ==
    ASSUME SInv, UNCHANGED <<plan, app>>, NEW p, DOMAIN p = {"got", "edge", "shut"},
           p.got = peer.got, p.edge = peer.edge, NEW t, EmitTo(p, t),
           SendInv(t, app.written, Held(peer)), tcp.fin_wanted => t.fin_wanted,
           RInv => RecvInv(t, app.read, plan.peer, peer.edge)
    PROVE  SInv' /\ (RInv => RInv')
<1>1. app.written \in Nat /\ app.written <= plan.app /\ Shapes
  BY DEF SInv
<1>2. app.written <= app.written /\ DOMAIN app' = {"starts", "written", "read", "ticked"}
  BY <1>1 DEF Shapes
<1>3. SInv'
  BY <1>1, <1>2, CallSends
<1>4. ASSUME RInv PROVE RInv'
  <2>1. RecvInv(tcp', app.read, plan.peer, peer'.edge)
    BY <1>4, EmitReceives
  <2> QED  BY <2>1 DEF RInv
<1> QED  BY <1>3, <1>4

LEMMA AbortKeeps ==
    ASSUME SInv, Abort, UNCHANGED plan
    PROVE  SInv' /\ (RInv => RInv')
<1> DEFINE t == tcp_abort(tcp)
<1>1. EmitTo(peer, t) /\ UNCHANGED app /\ tcp.st # "CLOSED"
  BY DEF Abort, Emit
<1>2. SendInv(tcp, app.written, Held(peer)) /\ Typed(tcp) /\ DOMAIN peer = {"got", "edge", "shut"}
  BY DEF SInv, SendInv, Shapes
<1>3. /\ SendInv(t, app.written, Held(peer)) /\ t.fin_wanted = tcp.fin_wanted
      /\ RInv => RecvInv(t, app.read, plan.peer, peer.edge)
  BY <1>1, <1>2, AbortInv DEF RInv
<1> HIDE DEF t
<1> QED  BY <1>1, <1>2, <1>3, CallKeeps

LEMMA TickKeepsBoth ==
    ASSUME SInv, RunTimers, UNCHANGED plan
    PROVE  SInv' /\ (RInv => RInv')
<1> DEFINE t == tcp_tick(tcp)
<1>1. EmitTo(peer, t) /\ UNCHANGED app /\ (tcp.st = "TIME_WAIT" \/ tcp.armed)
  BY DEF RunTimers, Emit
<1>2. /\ SendInv(tcp, app.written, Held(peer)) /\ DOMAIN peer = {"got", "edge", "shut"}
      /\ Outgoing(app.written, Held(peer))
  BY SInvHeld DEF SInv, Shapes
<1>3. /\ SendInv(t, app.written, Held(peer)) /\ t.fin_wanted = tcp.fin_wanted
      /\ RInv => RecvInv(t, app.read, plan.peer, peer.edge)
  BY <1>1, <1>2, TickInv DEF RInv
<1> HIDE DEF t
<1> QED  BY <1>1, <1>2, <1>3, CallKeeps

\* What the peer holds of the stream only grows.
LEMMA PeerTakesKeeps ==
    ASSUME SInv, PeerTakes, UNCHANGED plan
    PROVE  SInv' /\ (RInv => RInv')
<1>1. PICK x \in wire \ peer.got :
        peer' = [peer EXCEPT !.got = @ \cup {x}] /\ UNCHANGED <<tcp, wire, app>>
  BY DEF PeerTakes
<1>2. /\ Shapes /\ plan' = plan /\ peer.got \subseteq wire /\ IsFiniteSet(peer.got)
      /\ Link(app.written, tcp.fin_wanted) /\ SendInv(tcp, app.written, Held(peer))
  BY DEF SInv
<1>3. peer'.got = peer.got \cup {x} /\ peer'.edge = peer.edge /\ DOMAIN peer' = {"got", "edge", "shut"}
  BY <1>1, <1>2 DEF Shapes
<1>4. IsFiniteSet(peer'.got) /\ peer'.got \subseteq wire /\ peer.got \subseteq peer'.got
  BY <1>1, <1>2, <1>3, FS_AddElement
<1>5. /\ app.written \in Nat /\ app.written + 2 \in Within /\ Held(peer) \in Nat
      /\ Outgoing(app.written, Held(peer))
  BY SInvHeld
<1>6. \A y \in peer'.got : Sent(y, app.written, tcp.fin_wanted)
  BY <1>2, <1>4 DEF Link
<1>7. Held(peer') \in Nat /\ Outgoing(app.written, Held(peer'))
  BY <1>4, <1>5, <1>6, HeldIs
<1>8. Held(peer) <= Held(peer')
  BY <1>2, <1>4, <1>5, <1>6, HeldGrows
<1>9. SendInv(tcp, app.written, Held(peer'))
  <2>1. app.written + 2 <= Held(peer) => app.written + 2 <= Held(peer')
    BY <1>5, <1>7, <1>8
  <2>2. Typed(tcp)
    BY <1>2 DEF SendInv
  <2>3. Una(tcp) \in Int
    BY <2>2, Places
  <2>4. Una(tcp) <= Held(peer) => Una(tcp) <= Held(peer')
    BY <1>5, <1>7, <1>8, <2>3
  <2>5. Sender(tcp, app.written, Held(peer)) => Sender(tcp, app.written, Held(peer'))
    BY <2>4 DEF Sender
  <2> QED  BY <1>2, <2>1, <2>5 DEF SendInv
<1>10. SInv'
  <2>1. Shapes'
    BY <1>1, <1>2, <1>3 DEF Shapes
  <2>2. Link(app.written, tcp.fin_wanted)'
    BY <1>1, <1>2 DEF Link
  <2> QED  BY <1>1, <1>2, <1>4, <1>9, <2>1, <2>2 DEF SInv
<1>11. RInv => RInv'
  BY <1>1, <1>2, <1>3 DEF RInv
<1> QED  BY <1>10, <1>11

\* A segment of the peer's comes in.
LEMMA InputKeeps ==
    ASSUME SInv, UNCHANGED plan, NEW s, Input(s), Answer(s, tcp.st, Held(peer))
    PROVE  SInv' /\ (RInv /\ Data(s, tcp.st, plan.peer) => RInv')
<1> DEFINE t == tcp_input(tcp, s)
           p == [peer EXCEPT !.shut = @ \/ s.win = 0]
<1>1. EmitTo(p, t) /\ UNCHANGED app
  BY DEF Input
<1>2. /\ SendInv(tcp, app.written, Held(peer)) /\ DOMAIN peer = {"got", "edge", "shut"}
      /\ Outgoing(app.written, Held(peer)) /\ plan \in Plans /\ plan' = plan
  BY SInvHeld DEF SInv, Shapes
<1>3. DOMAIN p = {"got", "edge", "shut"} /\ p.got = peer.got /\ p.edge = peer.edge
  BY <1>2
<1>4. /\ SendInv(t, app.written, Held(peer)) /\ (tcp.fin_wanted => t.fin_wanted)
      /\ \A rd, P, e : Incoming(P) /\ RecvInv(tcp, rd, P, e) /\ Data(s, tcp.st, P) => RecvInv(t, rd, P, e)
  BY <1>2, InputInv
<1> HIDE DEF t, p
<1>5. app.written \in Nat /\ app.written <= plan.app /\ Shapes
  BY DEF SInv
<1>6. app.written <= app.written /\ DOMAIN app' = {"starts", "written", "read", "ticked"}
  BY <1>1, <1>5 DEF Shapes
<1>7. SInv'
  BY <1>1, <1>2, <1>3, <1>4, <1>5, <1>6, CallSends
<1>8. ASSUME RInv, Data(s, tcp.st, plan.peer) PROVE RInv'
  <2>1. RecvInv(t, app.read, plan.peer, peer.edge)
    BY <1>2, <1>4, <1>8, PlanIs DEF RInv
  <2>2. RecvInv(tcp', app.read, plan.peer, peer'.edge)
    BY <1>1, <1>3, <2>1, EmitReceives
  <2> QED  BY <1>1, <1>2, <2>2 DEF RInv
<1> QED  BY <1>7, <1>8

\* The bytes from the (i + 1)-th on are what follows place i + 1.
LEMMA ChunkIs ==
    ASSUME NEW i \in Nat, NEW n \in Nat
    PROVE  LET d == PeerChunk(i, n) IN
           d \in Seq(Nat) /\ Len(d) = n /\ Continues(d, i + 1)
<1> DEFINE d == PeerChunk(i, n)
<1>1. \A k \in 1..n : i + k \in Nat /\ i + k = i + 1 + k - 1
  OBVIOUS
<1>2. d = [k \in 1..n |-> i + k]
  BY DEF PeerChunk
<1>3. d \in Seq(Nat) /\ Len(d) = n
  BY <1>1, <1>2
<1> QED  BY <1>1, <1>2, <1>3 DEF Continues

\* A place of the peer's stream and its sequence number.
LEMMA PlaceIs ==
    ASSUME NEW P, Incoming(P), NEW i \in 0..P
    PROVE  At(IRS, i + 1) \in SeqNo /\ Dist(IRS, At(IRS, i + 1)) = i + 1
<1>1. P \in Int /\ P + RCV_BUF + 2 < Middle /\ RCV_BUF \in Nat /\ 2 * Middle = SeqMod /\ Middle \in Int /\ IRS \in SeqNo
  BY SeqFacts DEF Incoming
<1>2. i + 1 \in SeqNo
  BY <1>1 DEF SeqNo
<1> QED  BY <1>1, <1>2, AtIs

LEMMA PeerSynAckKeeps ==
    ASSUME SInv, PeerSynAck, UNCHANGED plan
    PROVE  SInv' /\ (RInv /\ SynDataAgain = FALSE => RInv')
<1>1. PICK n \in 0..plan.seg, w \in plan.windows :
        /\ n <= plan.peer
        /\ n > 0 => tcp.st = "SYN_SENT" \/ SynDataAgain
        /\ Input([seq |-> IRS, flags |-> {"SYN", "ACK"}, ack |-> At(ISS, 1),
                  data |-> PeerChunk(0, n), win |-> w])
  BY DEF PeerSynAck
<1> DEFINE d == PeerChunk(0, n)
           s == [seq |-> IRS, flags |-> {"SYN", "ACK"}, ack |-> At(ISS, 1), data |-> d, win |-> w]
<1>2. /\ Held(peer) \in Nat /\ Held(peer) > 0 /\ plan \in Plans /\ plan \in Plan /\ Incoming(plan.peer)
  BY SInvHeld, PlanIs, ConnectionAssumption DEF SInv, PeerSynAck
<1>3. n \in Nat /\ w \in Nat
  BY <1>2 DEF Plan
<1>4. d \in Seq(Nat) /\ Len(d) = n /\ Continues(d, 0 + 1)
  BY <1>3, ChunkIs
<1> HIDE DEF d
<1>5. /\ At(ISS, 1) \in SeqNo /\ IRS \in SeqNo /\ {"SYN", "ACK"} \in Flags /\ 1 \in 1..Held(peer)
  BY <1>2, FirstByte, SeqFacts DEF Flags, Flag
<1>6. s \in Seg /\ s.seq = IRS /\ s.flags = {"SYN", "ACK"} /\ s.ack = At(ISS, 1) /\ s.data = d
  BY <1>3, <1>4, <1>5 DEF Seg
<1> HIDE DEF s
<1>7. Input(s)
  BY <1>1 DEF s, d
<1>8. Answer(s, tcp.st, Held(peer))
  BY <1>5, <1>6 DEF Answer, Honoured, SynAck
<1>9. ASSUME SynDataAgain = FALSE PROVE Data(s, tcp.st, plan.peer)
  <2>1. CASE tcp.st = "SYN_SENT"
    BY <1>1, <1>4, <1>6, <2>1 DEF Data
  <2>2. CASE tcp.st # "SYN_SENT"
    <3>1. n = 0
      BY <1>1, <1>3, <1>9, <2>2
    <3>2. Place(s) = 0
      <4>1. Dist(IRS, IRS) = IRS - IRS
        BY <1>5, DistIs, SeqNoInt
      <4> QED  BY <1>5, <1>6, <4>1, SeqNoInt DEF Place
    <3>3. Place(s) + Len(s.data) <= plan.peer + 1
      BY <1>2, <1>4, <1>6, <3>1, <3>2 DEF Incoming
    <3>4. Len(s.data) = 0 /\ "FIN" \notin s.flags
      BY <1>4, <1>6, <3>1
    <3>5. Honest(s, plan.peer)
      BY <1>6, <3>3, <3>4 DEF Honest
    <3> QED  BY <2>2, <3>5 DEF Data
  <2> QED  BY <2>1, <2>2
<1> QED  BY <1>7, <1>8, <1>9, InputKeeps

LEMMA PeerSegmentKeeps ==
    ASSUME SInv, PeerSegment, UNCHANGED plan
    PROVE  SInv' /\ (RInv => RInv')
<1>1. PICK i \in 0..plan.peer, n \in 0..plan.seg, a \in 1..Held(peer), w \in plan.windows, fin \in BOOLEAN :
        /\ i + n <= plan.peer
        /\ fin => i + n = plan.peer
        /\ Input([seq |-> At(IRS, i + 1), data |-> PeerChunk(i, n), ack |-> At(ISS, a),
                  flags |-> IF fin THEN {"FIN", "ACK"} ELSE {"ACK"}, win |-> w])
  BY DEF PeerSegment
<1> DEFINE d == PeerChunk(i, n)
           fl == IF fin THEN {"FIN", "ACK"} ELSE {"ACK"}
           s == [seq |-> At(IRS, i + 1), data |-> d, ack |-> At(ISS, a), flags |-> fl, win |-> w]
<1>2. /\ Held(peer) \in Nat /\ plan \in Plans /\ plan \in Plan /\ Incoming(plan.peer) /\ plan.peer \in Nat
      /\ tcp.st \notin {"CLOSED", "SYN_SENT"}
  BY SInvHeld, PlanIs, ConnectionAssumption DEF SInv, PeerSegment
<1>3. n \in Nat /\ w \in Nat /\ i \in Nat /\ a \in Int
  BY <1>2 DEF Plan
<1>4. d \in Seq(Nat) /\ Len(d) = n /\ Continues(d, i + 1)
  BY <1>3, ChunkIs
<1>5. At(IRS, i + 1) \in SeqNo /\ Dist(IRS, At(IRS, i + 1)) = i + 1
  BY <1>2, PlaceIs
<1>6. At(ISS, a) \in SeqNo
  BY <1>3, SeqFacts, SeqNoInt, PlusTyped DEF At
<1>7. fl \in Flags /\ "ACK" \in fl /\ ("FIN" \in fl => fin)
  BY DEF Flags, Flag
<1> HIDE DEF d, fl
<1>8. s \in Seg /\ s.seq = At(IRS, i + 1) /\ s.flags = fl /\ s.ack = At(ISS, a) /\ s.data = d
  BY <1>3, <1>4, <1>5, <1>6, <1>7 DEF Seg
<1> HIDE DEF s
<1>9. Input(s)
  BY <1>1 DEF s, d, fl
<1>10. Answer(s, tcp.st, Held(peer))
  BY <1>2, <1>7, <1>8 DEF Answer, Honoured
<1>11. Data(s, tcp.st, plan.peer)
  <2>1. Place(s) = i + 1
    BY <1>5, <1>8 DEF Place
  <2>2. Place(s) + Len(s.data) = i + n + 1
    BY <1>3, <1>4, <1>8, <2>1
  <2>3. Place(s) + Len(s.data) <= plan.peer + 1 /\ (fin => Place(s) + Len(s.data) = plan.peer + 1)
    BY <1>1, <1>2, <1>3, <2>2
  <2>4. 1 <= Place(s) /\ Continues(s.data, Place(s))
    BY <1>3, <1>4, <1>8, <2>1
  <2>5. Honest(s, plan.peer)
    BY <1>7, <1>8, <2>3, <2>4 DEF Honest
  <2> QED  BY <1>2, <2>5 DEF Data
<1> QED  BY <1>9, <1>10, <1>11, InputKeeps

LEMMA PeerResetKeeps ==
    ASSUME SInv, PeerReset, UNCHANGED plan
    PROVE  SInv' /\ (RInv => RInv')
<1>1. PICK i \in 0..plan.peer, w \in plan.windows :
        Input([seq |-> At(IRS, i + 1), data |-> <<>>, ack |-> PeerAck(peer),
               flags |-> {"RST", "ACK"}, win |-> w])
  BY DEF PeerReset
<1> DEFINE s == [seq |-> At(IRS, i + 1), data |-> <<>>, ack |-> PeerAck(peer),
                 flags |-> {"RST", "ACK"}, win |-> w]
<1>2. /\ Held(peer) \in Nat /\ Held(peer) > 0 /\ plan \in Plans /\ plan \in Plan /\ Incoming(plan.peer)
      /\ plan.peer \in Nat
  BY SInvHeld, PlanIs, ConnectionAssumption DEF SInv, PeerReset
<1>3. w \in Nat /\ i \in Nat /\ i <= plan.peer
  BY <1>2 DEF Plan
<1>4. <<>> \in Seq(Nat) /\ Len(<<>>) = 0
  OBVIOUS
<1>5. At(IRS, i + 1) \in SeqNo /\ Dist(IRS, At(IRS, i + 1)) = i + 1
  BY <1>2, PlaceIs
<1>6. PeerAck(peer) = At(ISS, Held(peer)) /\ PeerAck(peer) \in SeqNo /\ Held(peer) \in 1..Held(peer)
  <2>1. Held(peer) \in Int /\ ISS \in Int
    BY <1>2, SeqFacts, SeqNoInt
  <2>2. At(ISS, Held(peer)) \in SeqNo
    BY <2>1, PlusTyped DEF At
  <2> QED  BY <1>2, <2>2 DEF PeerAck
<1>7. {"RST", "ACK"} \in Flags
  BY DEF Flags, Flag
<1>8. /\ s \in Seg /\ s.seq = At(IRS, i + 1) /\ s.flags = {"RST", "ACK"} /\ s.ack = PeerAck(peer)
      /\ Len(s.data) = 0
  BY <1>3, <1>4, <1>5, <1>6, <1>7 DEF Seg
<1> HIDE DEF s
<1>9. Input(s)
  BY <1>1 DEF s
<1>10. Answer(s, tcp.st, Held(peer))
  BY <1>6, <1>8 DEF Answer, Honoured
<1>11. Data(s, tcp.st, plan.peer)
  <2>1. Place(s) = i + 1
    BY <1>5, <1>8 DEF Place
  <2>2. Place(s) + Len(s.data) <= plan.peer + 1
    BY <1>2, <1>3, <1>8, <2>1
  <2>3. Honest(s, plan.peer)
    BY <1>8, <2>2 DEF Honest
  <2> QED  BY <1>8, <2>3 DEF Data
<1> QED  BY <1>9, <1>10, <1>11, InputKeeps
-----------------------------------------------------------------------------
\* One step of the specification, on either side.
\* A fetch that ends on a kept connection, or begins on one, only changes who ticks it.
LEMMA FetchKeeps ==
    ASSUME SInv, KeepAlive \/ Reuse, UNCHANGED plan
    PROVE  SInv' /\ (RInv => RInv')
<1>1. UNCHANGED <<tcp, wire, peer, plan>>
  BY DEF KeepAlive, Reuse
<1>2. app' = [app EXCEPT !.ticked = FALSE] \/ app' = [app EXCEPT !.ticked = TRUE]
  BY DEF KeepAlive, Reuse
<1>3. DOMAIN app = {"starts", "written", "read", "ticked"}
  BY DEF SInv, Shapes
<1>4. DOMAIN app' = DOMAIN app /\ app'.written = app.written /\ app'.read = app.read
  BY <1>2, <1>3
<1>5. SInv'
  BY <1>1, <1>4 DEF SInv, Shapes, Link, Held
<1>6. RInv => RInv'
  BY <1>1, <1>4 DEF RInv
<1> QED  BY <1>5, <1>6

LEMMA StepKeeps ==
    ASSUME SInv, [TcpNext]_tcpvars
    PROVE  SInv' /\ (RInv /\ SynDataAgain = FALSE => RInv')
<1>1. CASE UNCHANGED tcpvars
  <2>1. UNCHANGED <<tcp, wire, peer, app, plan>>
    BY <1>1 DEF tcpvars
  <2>2. SInv'
    BY <2>1 DEF SInv, Shapes, Link, Held
  <2>3. RInv => RInv'
    BY <2>1 DEF RInv
  <2> QED  BY <2>2, <2>3
<1>2. CASE TcpNext
  <2> USE <1>2 DEF TcpNext
  <2>1. CASE Start  BY <2>1, StartKeeps
  <2>2. CASE Write  BY <2>2, WriteKeeps
  <2>3. CASE Read  BY <2>3, ReadKeeps
  <2>4. CASE Close  BY <2>4, CloseKeeps
  <2>5. CASE Abort  BY <2>5, AbortKeeps
  <2>6. CASE RunTimers  BY <2>6, TickKeepsBoth
  <2>7. CASE PeerTakes  BY <2>7, PeerTakesKeeps
  <2>8. CASE PeerSynAck  BY <2>8, PeerSynAckKeeps
  <2>9. CASE PeerSegment  BY <2>9, PeerSegmentKeeps
  <2>10. CASE PeerReset  BY <2>10, PeerResetKeeps
  <2>11. CASE KeepAlive \/ Reuse  BY <2>11, FetchKeeps
  <2> QED  BY <2>1, <2>2, <2>3, <2>4, <2>5, <2>6, <2>7, <2>8, <2>9, <2>10, <2>11 DEF Step
<1> QED  BY <1>1, <1>2

LEMMA SInvHolds == TcpSpec => []SInv
<1>1. TcpInit => SInv
  BY Begins
<1>2. SInv /\ [TcpNext]_tcpvars => SInv'
  BY StepKeeps
<1> QED  BY <1>1, <1>2, PTL DEF TcpSpec

LEMMA RInvHolds == SynDataAgain = FALSE => (TcpSpec => [](SInv /\ RInv))
<1> SUFFICES ASSUME SynDataAgain = FALSE PROVE TcpSpec => [](SInv /\ RInv)
  OBVIOUS
<1>1. TcpInit => SInv /\ RInv
  BY Begins
<1>2. SInv /\ RInv /\ [TcpNext]_tcpvars => SInv' /\ RInv'
  BY StepKeeps
<1> QED  BY <1>1, <1>2, PTL DEF TcpSpec

\* The buffers of tcp.c stay within their arrays and the tries within their
\* limits, whatever the peer does.
THEOREM BuffersStayInBounds == TcpSpec => []TcpTypeOK
<1>1. SInv => TcpTypeOK
  <2> SUFFICES ASSUME SInv PROVE TcpTypeOK
    OBVIOUS
  <2>1. tcp \in Conn /\ tcp.rcv_head <= Len(tcp.rcvbuf)
    BY DEF SInv, SendInv, Typed
  <2>2. /\ tcp.st \in States /\ tcp.snd_una \in SeqNo /\ tcp.snd_nxt \in SeqNo /\ tcp.rcv_nxt \in SeqNo
        /\ tcp.rexmit_tries \in 0..DATA_TRIES /\ tcp.syn_tries \in 0..SYN_TRIES
        /\ tcp.fin_tries \in 0..SYN_TRIES
    BY <2>1 DEF Conn
  <2>3. /\ Len(tcp.sndbuf) <= SND_BUF /\ Len(tcp.rcvbuf) <= RCV_BUF /\ Len(tcp.ooo) <= OOO_BUF
        /\ tcp.rcv_head \in 0..Len(tcp.rcvbuf)
    BY <2>1, Fields
  <2> QED  BY <2>2, <2>3 DEF TcpTypeOK, SeqNo
<1> QED  BY <1>1, SInvHolds, PTL

\* pump_send, duplicate_ack, tcp_tick: whatever leaves, first or resent, is the
\* SYN, a byte that was written, under its own sequence number, or the FIN after
\* the last of them - for any plan, and over any number of connections.
THEOREM SegmentsAlwaysMatch == TcpSpec => []SegmentsMatchStream
<1>1. ASSUME SInv PROVE SegmentsMatchStream
  <2>1. /\ app.written \in Nat /\ app.written + 2 \in Within
        /\ Link(app.written, tcp.fin_wanted)
    BY <1>1, SInvHeld DEF SInv
  <2> DEFINE W == app.written
  <2>2. W \in Nat /\ W + 1 \in Within /\ 0 \in Within /\ W + 1 # 0 /\ \A n \in 1..W : n \in Nat /\ n # 0
    BY <2>1, SeqFacts DEF Within
  <2>3. ISS = At(ISS, 0)
    <3>1. ISS \in SeqNo /\ ISS \in Int /\ 0 <= ISS /\ ISS < SeqMod /\ SeqMod \in Nat /\ 0 \in SeqNo
      BY SeqFacts DEF SeqNo
    <3> QED  BY <3>1, PlusIs DEF At
  <2>4. At(ISS, W + 1) # ISS
    BY <2>2, <2>3, SeqFacts, Compare
  <2> SUFFICES ASSUME NEW x \in wire
               PROVE  x[1] = At(ISS, IF x[2] # 0 THEN x[2] ELSE IF x[1] = ISS THEN 0 ELSE W + 1)
    BY DEF SegmentsMatchStream
  <2>5. Sent(x, W, tcp.fin_wanted)
    BY <2>1 DEF Link
  <2> HIDE DEF W
  <2>6. CASE x = <<ISS, 0>>  BY <2>6, <2>3
  <2>7. CASE \E n \in 1..W : x = <<At(ISS, n), n>>  BY <2>7, <2>2
  <2>8. CASE x = <<At(ISS, W + 1), 0>>  BY <2>8, <2>4
  <2> QED  BY <2>5, <2>6, <2>7, <2>8 DEF Sent
<1> QED  BY <1>1, SInvHolds, PTL

\* new_ack: the send buffer gives a byte up only when the peer has it, whatever
\* acknowledgements come in, old, repeated or early, and whatever was resent in
\* between; a FIN among them is never counted as a byte.
THEOREM BytesKeptUntilReceived == TcpSpec => []KeptUntilReceived
<1>1. ASSUME SInv, Synchronized PROVE KeptUntilReceived
  <2>1. /\ app.written \in Nat /\ app.written + 2 \in Within /\ Held(peer) \in Nat
        /\ \A x \in peer.got : Sent(x, app.written, tcp.fin_wanted)
        /\ \A i \in 0..(Held(peer) - 1) : Covers(peer.got, i)
    BY <1>1, SInvHeld
  <2> DEFINE W == app.written
             L == Len(tcp.sndbuf)
             H == Held(peer)
  <2>2. Typed(tcp) /\ Sender(tcp, W, H)
    BY <1>1 DEF SInv, SendInv, Synchronized, Up
  <2>3. tcp.sndbuf \in Seq(Nat) /\ L \in Nat /\ DOMAIN tcp.sndbuf = 1..L /\ Una(tcp) \in Int
    BY <2>2, Fields, Places DEF Typed
  <2>4. \A i \in 1..L : tcp.sndbuf[i] = W - L + i
    BY <2>2 DEF Sender
  <2>5. W - L < H
    <3>1. /\ Una(tcp) <= H
          /\ (Una(tcp) = W + 2 /\ L = 0) \/ L = W + 1 - Una(tcp)
      BY <2>2 DEF Sender
    <3> HIDE DEF W, L, H
    <3> QED  BY <3>1, <2>1, <2>3 DEF W, H
  <2>6. ASSUME NEW n \in 1..(W - L) PROVE <<At(ISS, n), n>> \in peer.got
    <3>1. n \in 0..(H - 1) /\ n \in Within /\ n \in 1..W
      <4> HIDE DEF W, L, H
      <4>1. n \in Int /\ 1 <= n /\ n <= W - L /\ W \in Nat /\ L \in Nat /\ H \in Nat
        BY <2>1, <2>3 DEF W, H
      <4>2. W + 2 < Middle /\ Middle \in Int
        BY <2>1, SeqFacts DEF Within, W
      <4> QED  BY <4>1, <4>2, <2>5 DEF Within
    <3>2. PICK x \in peer.got : x[1] = At(ISS, n)
      BY <3>1, <2>1 DEF Covers
    <3>3. x = <<At(ISS, n), n>>
      BY <2>1, <3>1, <3>2, SentPlace
    <3> QED  BY <3>3
  <2> QED  BY <2>3, <2>4, <2>6 DEF KeptUntilReceived
<1>2. SInv => KeptUntilReceived
  BY <1>1 DEF KeptUntilReceived
<1> QED  BY <1>2, SInvHolds, PTL

\* new_ack, st_peer_done: a FIN counted as acknowledged, the close http_poll waits
\* for, means the peer has every byte that was written and the FIN.
THEOREM CloseAlwaysComplete == TcpSpec => []OrderlyCloseIsComplete
<1>1. ASSUME SInv, tcp.fin_acked PROVE Held(peer) = app.written + 2
  <2>1. app.written + 2 <= Held(peer)
    BY <1>1 DEF SInv, SendInv
  <2>2. Outgoing(app.written, Held(peer))
    BY <1>1, SInvHeld
  <2> QED  BY <2>1, <2>2 DEF Outgoing
<1>2. SInv => OrderlyCloseIsComplete
  BY <1>1 DEF OrderlyCloseIsComplete
<1> QED  BY <1>2, SInvHolds, PTL

\* take_data, deliver, take_fin and the out-of-order slot: what the application
\* reads is the peer's stream from its first byte, without gap or repeat, rcv_nxt
\* acknowledges exactly that, and the peer's FIN is believed only at its end -
\* whatever is lost, repeated or reordered, if no SYN with data is repeated once
\* it was taken.
THEOREM ReceivedAlwaysPrefix == SynDataAgain = FALSE => (TcpSpec => []ReceivedIsPrefix)
<1> SUFFICES ASSUME SynDataAgain = FALSE PROVE TcpSpec => []ReceivedIsPrefix
  OBVIOUS
<1>1. ASSUME SInv, RInv PROVE ReceivedIsPrefix
  <2> DEFINE n == app.read + tcp_available(tcp)
             r == IF tcp.fin_seen THEN 2 ELSE 1
  <2>1. /\ Typed(tcp) /\ Reads(tcp, app.read, plan.peer)
        /\ Up(tcp) => Receives(tcp, app.read, plan.peer)
    BY <1>1 DEF RInv, RecvInv
  <2>2. ASSUME Synchronized PROVE tcp.rcv_nxt = At(IRS, n + r)
    <3>1. Dist(IRS, tcp.rcv_nxt) = n + r
      BY <2>1, <2>2 DEF Synchronized, Up, Receives, Rcv, Got
    <3>2. tcp.rcv_nxt \in SeqNo /\ IRS \in SeqNo
      BY <2>1, Fields, SeqFacts DEF Typed
    <3> HIDE DEF n, r
    <3> QED  BY <3>1, <3>2, IsAt
  <2>3. tcp.fin_seen => n = plan.peer
    BY <2>1 DEF Reads, Got
  <2> QED  BY <2>1, <2>2, <2>3 DEF ReceivedIsPrefix, Reads
<1>2. SInv /\ RInv => ReceivedIsPrefix
  BY <1>1
<1> QED  BY <1>2, RInvHolds, PTL

\* rcv_space, send_seg: the right edge of the window the peer was ever told is
\* never taken back - there is room in rcvbuf for every byte it was allowed to
\* send, if no SYN with data is repeated once it was taken.
THEOREM EdgeNeverTakenBack == SynDataAgain = FALSE => (TcpSpec => []EdgeIsKept)
<1> SUFFICES ASSUME SynDataAgain = FALSE PROVE TcpSpec => []EdgeIsKept
  OBVIOUS
<1>1. SInv /\ RInv => EdgeIsKept
  BY DEF RInv, RecvInv, EdgesFit, Room, Up, EdgeIsKept, Synchronized
<1> QED  BY <1>1, RInvHolds, PTL
=============================================================================
