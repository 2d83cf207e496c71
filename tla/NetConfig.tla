------------------------------ MODULE NetConfig ------------------------------
(***************************************************************************)
(* Who may use the one UDP sink of net.c, and what the stack does with     *)
(* what it hears: net/dhcp.c, net/dns.c with its cache, the address        *)
(* settings of net.c and tcp.c, and the two that drive them, dhcp_work of  *)
(* the main loop and navigate/browser_tick of web/browser.c. The network   *)
(* loses, repeats and delays: what was once said (offers, acks, reply) can *)
(* arrive at any time. The fetch that follows a lookup is TcpConnection's  *)
(* subject. Names, addresses and options are values; a tick of the model   *)
(* is one second. Left out: the diagnostics of the shell, which re-run     *)
(* dns_server and ip_up by hand, ARP's tables, and the lease's time, which *)
(* is only shown.                                                          *)
(***************************************************************************)
EXTENDS Integers, Sequences, FiniteSets

CONSTANTS
    Servers,        \* DHCP servers; a server's name stands for the mask, the gateway and the
                    \* resolver that it names too
    Says,           \* bound: the sets of those options that each server's messages carry
    Resolvers,      \* those whose resolver there is a way to
    Unsigned,       \* those that leave out who they are
    Pool,           \* the addresses each gives out
    Names,          \* what is looked up
    Ttls,           \* bound: the lifetimes a resolver says
    RETRY_MAX,      \* DHCP_RETRY_MAX
    CACHE_N,
    MAX_TTL,        \* 3600 seconds
    AskTicks,       \* three seconds
    TickMod,        \* the range of idt_ticks()
    MaxDelay,       \* bound: how old a reply may be when it comes in
    ClassC,         \* the mask 255.255.255.0
    None,           \* no address, option, name, entry or reply
    MaxQueries      \* bound: queries sent; txid and local_port come round later than that
Half == TickMod \div 2
Settings == {"mask", "gateway", "dns"}

ASSUME NetAssumption ==
    /\ RETRY_MAX \in Nat /\ CACHE_N \in Nat \ {0} /\ MaxQueries \in Nat
    /\ TickMod \in Nat /\ TickMod % 2 = 0
    /\ MAX_TTL \in 1..(Half - 1) /\ AskTicks \in 1..(Half - 1)
    /\ Ttls \subseteq Nat /\ MaxDelay \in Nat
    /\ Says \in [Servers -> SUBSET SUBSET Settings] /\ Unsigned \cup Resolvers \subseteq Servers
    /\ Pool \in [Servers -> SUBSET UNION {Pool[s] : s \in Servers}]
    /\ None \notin Servers \cup Names \cup UNION {Pool[s] : s \in Servers}
    /\ None \notin [kind : {"A", "NX", "BAD"}, ttl : Nat, age : Nat]  \* a reply

VARIABLES
    now,            \* idt_ticks()
    dhcp,           \* state, retry_n, deadline, offered, server, and opts: mask, gateway, dns
    ip, route,      \* my_ip, and my_mask with my_gw, of net.c
    tcp_ip,         \* local_ip of tcp.c
    sink17,         \* who gets UDP: "dhcp" or "dns"
    dns,            \* state, server_ip, answer, asking, deadline
    cache, cache_next,
    page,           \* the browser: status and req_host, which is cleared when it has no more use;
                    \* a fetch that is over, well or not, is IDLE
    sent,           \* messages DHCP has broadcast
    offers, acks, naks,     \* what servers ever said to them: from whom (src), whether the message
                    \* says so itself (option 54), the address, and the options it carries
    asked,          \* the names of the queries sent, the last with txid and local_port
    reply           \* what the resolver said to each, and how long ago; each is about an address
                    \* of its own, the number of the query

netvars == <<ip, route, tcp_ip, sink17>>
answers == <<offers, acks, naks>>
vars == <<now, dhcp, ip, route, tcp_ip, sink17, dns, cache, cache_next, page, sent, offers, acks, naks,
          asked, reply>>

Entry == [name : Names, ip : 1..MaxQueries, expires : 0..(TickMod - 1)]
Slot == 1..CACHE_N
Asking == {"SELECTING", "REQUESTING"}
-----------------------------------------------------------------------------
\* (int)(now - t) >= 0
Reached(t) == (now - t) % TickMod < Half
In(n) == (now + n) % TickMod

\* DHCP is over: what only the exchange needed is cleared.
Ended(s) == [dhcp EXCEPT !.state = s, !.retry = 0, !.deadline = 0]

\* DISCOVER while SELECTING, REQUEST after that; to everybody, so ARP is not needed,
\* but the driver may refuse the frame.
send_message(d) ==
    \E goes \in BOOLEAN :
        /\ dhcp' = IF goes THEN [d EXCEPT !.deadline = In(1)] ELSE Ended("FAILED")
        /\ sent' = IF ~goes THEN {}
                   ELSE sent \cup {IF d.state = "SELECTING" THEN [type |-> "DISCOVER"]
                                   ELSE [type |-> "REQUEST", server |-> d.server, addr |-> d.offered]}

Nothing == [x \in Settings |-> None]
\* What a message makes of the options: those it does not carry stay.
Options(m, before) == [x \in Settings |-> IF x \in m.says THEN m.src ELSE before[x]]

\* Mutant of TakesOffer: an offer is taken as long as the lease is open.
TakesAnyOffer == dhcp.state \in Asking
TakesOffer == dhcp.state = "SELECTING"
\* An offer that does not name its server is of whom it comes from: signed or not, it is the same.
Offer(m) ==
    /\ TakesOffer
    /\ send_message([dhcp EXCEPT !.state = "REQUESTING", !.retry = 0, !.offered = m.addr,
                                 !.server = m.src, !.opts = Options(m, Nothing)])
    /\ UNCHANGED <<ip, route>>

\* Mutant of Another: an acknowledgement is an acknowledgement.
AnotherNever(m) == FALSE
\* It names a server, and not the one that was chosen. Who sends one that names none is not asked.
Another(m) == m.named /\ m.src # dhcp.server
Ack(m) ==
    /\ dhcp.state = "REQUESTING" /\ ~Another(m)
    /\ LET opts == Options(m, dhcp.opts) IN
        /\ dhcp' = [Ended("BOUND") EXCEPT
                        !.offered = m.addr, !.server = IF m.named THEN m.src ELSE @,
                        !.opts = [opts EXCEPT !["mask"] = IF @ = None THEN ClassC ELSE @]]
        /\ route' = [mask |-> dhcp'.opts["mask"], gateway |-> opts["gateway"]]
    /\ ip' = m.addr /\ sent' = {} /\ acks' = {m}

\* Retry, or give up: the second half of dhcp_poll.
Timer(d) ==
    IF d.state \in Asking /\ Reached(d.deadline)
    THEN IF d.retry + 1 > RETRY_MAX
         THEN dhcp' = Ended("FAILED") /\ sent' = {}
         ELSE send_message([d EXCEPT !.retry = @ + 1])
    ELSE dhcp' = d /\ UNCHANGED sent

-----------------------------------------------------------------------------
\* receive() on one message of a DHCP server that has come in, and the timer after it:
\* an offer or an acknowledgement that counts leaves the timer with nothing to do.
dhcp_poll ==
    /\ dhcp.state \in Asking
    /\ \/ sink17 = "dhcp" /\ \E m \in offers : Offer(m)
       \/ sink17 = "dhcp" /\ \E m \in acks : Ack(m)
       \/ /\ sink17 = "dhcp" /\ naks # {}
          /\ dhcp' = Ended("FAILED") /\ sent' = {} /\ UNCHANGED <<ip, route>>
       \/ Timer(dhcp) /\ UNCHANGED <<ip, route>>

\* The main loop, once a frame: when the lease comes in, everybody is told. What is still under
\* way when DHCP no longer asks goes nowhere, and is forgotten, but for what the lease rests on.
dhcp_work ==
    /\ dhcp_poll
    /\ CASE dhcp'.state \in Asking -> UNCHANGED answers
         [] dhcp'.state = "FAILED" -> offers' = {} /\ acks' = {} /\ naks' = {}
         [] OTHER -> offers' = {m \in offers : m.src = dhcp'.server} /\ naks' = {}
    /\ IF dhcp'.state = "BOUND"
       THEN /\ sink17' = "dns" /\ tcp_ip' = ip'
            /\ dns' = [dns EXCEPT !.server = dhcp'.opts["dns"]]
            /\ cache' = [i \in Slot |-> None] /\ cache_next' = 1
       ELSE UNCHANGED <<tcp_ip, sink17, dns, cache, cache_next>>
    /\ UNCHANGED <<now, page, asked, reply>>
-----------------------------------------------------------------------------
Expired(e) == Reached(e.expires)
Hits(n) == {i \in Slot : cache[i] # None /\ ~Expired(cache[i]) /\ cache[i].name = n}
cache_find(n) == IF Hits(n) = {} THEN 0 ELSE CHOOSE i \in Hits(n) : \A j \in Hits(n) : i <= j
\* What cache_find leaves: the expired entries it walked over are no longer valid.
Walked(n) ==
    [i \in Slot |->
        IF cache[i] # None /\ Expired(cache[i]) /\ (\A j \in Hits(n) : i < j) THEN None ELSE cache[i]]

Life(ttl) == IF ttl > MAX_TTL THEN MAX_TTL ELSE IF ttl < 1 THEN 1 ELSE ttl
cache_put(n, q) ==
    LET i == IF cache_find(n) = 0 THEN cache_next ELSE cache_find(n) IN
    /\ cache' = [Walked(n) EXCEPT ![i] = [name |-> n, ip |-> q, expires |-> In(Life(reply[q].ttl))]]
    /\ cache_next' = IF cache_find(n) = 0 THEN (cache_next % CACHE_N) + 1 ELSE cache_next

\* Mutant of ToUs: any reply of the resolver, to whatever it was.
FromServer(q) == TRUE
\* The port and the transaction are those of the last query.
ToUs(q) == q = Len(asked)
\* A lookup is over: what only it needed is cleared.
Over(s) == [dns EXCEPT !.state = s, !.asking = None, !.deadline = 0]

\* dns_input on the reply to query q, which has come in. Anything else that comes in is dropped.
dns_input(q) ==
    /\ sink17 = "dns" /\ dns.state = "ASKING" /\ ToUs(q)
    /\ reply[q] # None /\ reply[q].age <= MaxDelay
    /\ IF reply[q].kind = "A" /\ asked[q] = dns.asking
       THEN /\ dns' = [Over("DONE") EXCEPT !.answer = q]
            /\ cache_put(dns.asking, q)
       ELSE /\ dns' = Over(IF reply[q].kind = "NX" THEN "NXDOMAIN" ELSE "REFUSED")
            /\ UNCHANGED <<cache, cache_next>>
Queries == 1..Len(asked)

\* dns_reset and dns_start. A hit does not disturb asking; the resolver's hardware address
\* may not be found, and the query may not go out: it never does without a way to the resolver.
dns_start(n) ==
    LET reset == [Over("IDLE") EXCEPT !.answer = None] IN
    IF dns.server = None
    THEN dns' = reset /\ UNCHANGED <<cache, asked>>
    ELSE /\ cache' = Walked(n)
         /\ IF cache_find(n) # 0
            THEN /\ dns' = [reset EXCEPT !.state = "DONE", !.answer = cache[cache_find(n)].ip]
                 /\ UNCHANGED asked
            ELSE \/ dns' = reset /\ UNCHANGED asked
                 \/ /\ dns' = [reset EXCEPT !.state = "REFUSED"]
                    /\ UNCHANGED asked
                 \/ /\ dns.server \in Resolvers /\ Len(asked) < MaxQueries
                    /\ dns' = [reset EXCEPT !.state = "ASKING", !.asking = n, !.deadline = In(AskTicks)]
                    /\ asked' = Append(asked, n)
-----------------------------------------------------------------------------
Page(status, name) == [status |-> status, name |-> name]
\* navigate() with a name, whatever is going on: the user, a link or a redirection.
navigate(n) ==
    /\ tcp_ip' = ip /\ sink17' = "dns"
    /\ dns_start(n)
    /\ page' = IF dns'.state \in {"ASKING", "DONE"} THEN Page("RESOLVING", n) ELSE Page("NO_DNS", None)
    /\ UNCHANGED <<now, dhcp, ip, route, cache_next, sent, answers, reply>>

\* navigate() with a dotted address: the resolver is left as it is.
NavigateNumber ==
    /\ tcp_ip' = ip /\ sink17' = "dns"
    /\ \E s \in {"FETCHING", "IDLE"} : page' = Page(s, None)
    /\ UNCHANGED <<now, dhcp, ip, route, dns, cache, cache_next, sent, answers, asked, reply>>

\* navigate() to about:home, or to what is not an address: what was fetched is abandoned.
NavigateHome ==
    /\ page' = Page("IDLE", None)
    /\ UNCHANGED <<now, dhcp, netvars, dns, cache, cache_next, sent, answers, asked, reply>>

TimesOut == dns.state = "ASKING" /\ Reached(dns.deadline)
dns_poll ==
    /\ dns' = IF TimesOut THEN Over("TIMEOUT") ELSE dns
    /\ UNCHANGED <<cache, cache_next>>

\* What a page that waits for its lookup does with the resolver's state.
Resolved ==
    CASE dns'.state = "DONE" -> page' \in {Page("FETCHING", page.name), Page("IDLE", None)}
      [] dns'.state = "ASKING" -> page' = page
      [] OTHER -> page' = Page("NO_DNS", None)

\* One frame of the browser: what has come in, at most one reply that counts since dns_input
\* leaves ASKING with it, and then the lookup or the fetch.
browser_tick ==
    /\ \/ /\ page.status = "RESOLVING"
          /\ (\E q \in Queries : dns_input(q)) \/ dns_poll
          /\ Resolved
       \/ /\ page.status = "FETCHING"
          /\ (\E q \in Queries : dns_input(q)) \/ UNCHANGED <<dns, cache, cache_next>>
          /\ page' \in {page, Page("IDLE", None)}
    /\ UNCHANGED <<now, dhcp, netvars, sent, answers, asked, reply>>

\* net_ping of the network window, which is open to it once there is an address: it takes
\* every frame that comes in while it waits.
net_ping ==
    /\ ip # None
    /\ \E q \in Queries : dns_input(q)
    /\ UNCHANGED <<now, dhcp, netvars, page, sent, answers, asked, reply>>
-----------------------------------------------------------------------------
\* DHCP servers answer what they have heard, each one offer and one verdict. A REQUEST is
\* broadcast, so servers that were not chosen answer it as well, one that names itself or not.
\* What they say to a machine that no longer asks is dropped, and so is what they say when UDP goes
\* to the resolver, which it does for good.
Message(s, a, x) == [src |-> s, named |-> s \notin Unsigned, addr |-> a, says |-> x]
ServerOffers(s) ==
    /\ [type |-> "DISCOVER"] \in sent /\ \A m \in offers : m.src # s
    /\ \E a \in Pool[s], x \in Says[s] : offers' = offers \cup {Message(s, a, x)}
    /\ UNCHANGED <<acks, naks>>
ServerDecides(s) ==
    /\ \E m \in sent : m.type = "REQUEST"
    /\ s \notin naks /\ \A m \in acks : m.src # s
    /\ \/ naks' = naks \cup {s} /\ UNCHANGED acks
       \/ /\ \E a \in Pool[s], x \in Says[s] : acks' = acks \cup {Message(s, a, x)}
          /\ UNCHANGED naks
    /\ UNCHANGED offers
DhcpServer ==
    /\ dhcp.state \in Asking /\ sink17 = "dhcp"
    /\ \E s \in Servers : ServerOffers(s) \/ ServerDecides(s)
    /\ UNCHANGED <<now, dhcp, netvars, dns, cache, cache_next, page, sent, asked, reply>>

\* The resolver answers each query once; the answer may come in any number of times.
Resolver ==
    /\ \E q \in Queries :
        /\ reply[q] = None
        /\ \/ \E t \in Ttls : reply' = [reply EXCEPT ![q] = [kind |-> "A", ttl |-> t, age |-> 0]]
           \/ \E k \in {"NX", "BAD"} :
                reply' = [reply EXCEPT ![q] = [kind |-> k, ttl |-> 0, age |-> 0]]
    /\ UNCHANGED <<now, dhcp, netvars, dns, cache, cache_next, page, sent, answers, asked>>

\* A second passes. Bounds: the main loop goes round more than once a second, and a cache
\* entry is not left alone for half the range of the clock, 248 days at 100 Hz.
Due ==
    \/ dhcp.state \in Asking /\ Reached(dhcp.deadline)
    \/ page.status = "RESOLVING" /\ TimesOut
Timing ==
    \/ dhcp.state \in Asking \/ dns.state = "ASKING"
    \/ \E i \in Slot : cache[i] # None
Tick ==
    /\ ~Due /\ Timing
    /\ \A i \in Slot : cache[i] # None => In(1) # (cache[i].expires + Half) % TickMod
    /\ now' = In(1)
    /\ reply' = [q \in DOMAIN reply |->
                    IF reply[q] = None \/ reply[q].age > MAX_TTL + AskTicks THEN reply[q]
                    ELSE [reply[q] EXCEPT !.age = @ + 1]]
    /\ UNCHANGED <<dhcp, netvars, dns, cache, cache_next, page, sent, answers, asked>>
-----------------------------------------------------------------------------
\* ip_auto at boot has linked the card and dhcp_start has asked. Every instant to start at is
\* like every other, so the clock starts where it soon wraps.
Init ==
    /\ now = TickMod - 2
    /\ dhcp = [state |-> "SELECTING", retry |-> 0, deadline |-> In(1), offered |-> None,
               server |-> None, opts |-> Nothing]
    /\ ip = None /\ route = [mask |-> None, gateway |-> None] /\ tcp_ip = None /\ sink17 = "dhcp"
    /\ dns = [state |-> "IDLE", server |-> None, answer |-> None, asking |-> None, deadline |-> 0]
    /\ cache = [i \in Slot |-> None] /\ cache_next = 1
    /\ page = Page("IDLE", None)
    /\ sent = {[type |-> "DISCOVER"]}
    /\ offers = {} /\ acks = {} /\ naks = {}
    /\ asked = <<>> /\ reply = [q \in 1..MaxQueries |-> None]

Next ==
    \/ dhcp_work \/ browser_tick \/ net_ping
    \/ NavigateNumber \/ NavigateHome \/ \E n \in Names : navigate(n)
    \/ DhcpServer \/ Resolver \/ Tick

Spec == Init /\ [][Next]_vars

\* The main loop goes round (dhcp_work, and the open browser window's tick), and so does the
\* clock. Nothing is assumed of the network.
FairSpec == Spec /\ WF_vars(dhcp_work) /\ WF_vars(browser_tick) /\ WF_vars(Tick)
-----------------------------------------------------------------------------
TypeOK ==
    /\ now \in 0..(TickMod - 1)
    /\ dhcp.state \in Asking \cup {"BOUND", "FAILED"} /\ dhcp.retry \in 0..(RETRY_MAX + 1)
    /\ sink17 \in {"dhcp", "dns"}
    /\ dns.state \in {"IDLE", "ASKING", "DONE", "NXDOMAIN", "REFUSED", "TIMEOUT"}
    /\ cache \in [Slot -> Entry \cup {None}] /\ cache_next \in Slot
    /\ page.status \in {"IDLE", "RESOLVING", "FETCHING", "NO_DNS"}
    /\ asked \in Seq(Names) /\ Len(asked) <= MaxQueries

\* What option x is by an offer and an acknowledgement: what the later says, or else the earlier.
InForce(x, offer, ack) ==
    IF x \in ack.says THEN ack.src ELSE IF x \in offer.says THEN offer.src ELSE None
\* What a lease and the offer before it put in force is what everybody uses: the address that
\* packets carry and that connections are made from, the card's mask and gateway, the resolver's
\* server, and who gets UDP.
Wired(offer, ack) ==
    /\ ip = ack.addr /\ tcp_ip = ip
    /\ route.mask = IF InForce("mask", offer, ack) = None THEN ClassC
                     ELSE InForce("mask", offer, ack)
    /\ route.gateway = InForce("gateway", offer, ack)
    /\ dns.server = InForce("dns", offer, ack) /\ sink17 = "dns"
\* With a lease, dhcp.c has taken an offer of the chosen server and then one acknowledgement, which
\* another server cannot have signed, and every part of the stack is set up by these two - whoever
\* else offered, acknowledged or refused, whoever navigated, and whatever was repeated or late.
BoundMeansWired ==
    dhcp.state = "BOUND" =>
        \E offer \in offers, ack \in acks :
            /\ offer.src = dhcp.server /\ (ack.named => ack.src = dhcp.server)
            /\ Wired(offer, ack)

\* Known to fail: the lease is all of one server. An unsigned acknowledgement counts whoever sent it.
LeaseOfOneServer ==
    dhcp.state = "BOUND" =>
        /\ ip \in Pool[dhcp.server]
        /\ {route.mask, route.gateway, dns.server} \subseteq {dhcp.server, ClassC, None}

\* Known to fail: whoever waits for an answer by UDP is the one who gets it.
AskerHears ==
    /\ dhcp.state \in Asking => sink17 = "dhcp"
    /\ dns.state = "ASKING" => sink17 = "dns"

\* A reply about name n that says what the page is told, not older than its life and the three
\* seconds a query waits.
Backs(q, n, kind, host) ==
    /\ q \in Queries /\ asked[q] = n /\ reply[q] # None
    /\ reply[q].kind = kind
    /\ kind = "A" => q = host /\ reply[q].age <= Life(reply[q].ttl) + AskTicks
Told == page.name # None /\ page.status \in {"RESOLVING", "FETCHING"}
Answered == Told /\ dns.state = "DONE"
\* Whenever a page gets its address, from the resolver or from the cache, the resolver gave that
\* address for that name, recently enough; and when it is told that a name does not exist, the
\* resolver said so of that name: late replies to lookups given up, and entries whose time is over,
\* are never used.
AnswerIsCurrent ==
    [][/\ (Answered' /\ (page'.status = "RESOLVING" \/ ~Answered) /\ <<dns, page>>' # <<dns, page>>) =>
            \E q \in DOMAIN reply : Backs(q, page.name, "A", dns.answer)'
       /\ (page'.status = "NO_DNS" /\ dns'.state = "NXDOMAIN" /\ page.status = "RESOLVING") =>
            \E q \in DOMAIN reply : Backs(q, page.name, "NX", None)]_vars

\* DHCP comes to an end, with or without a lease, and so does every lookup of the browser.
Settles ==
    /\ dhcp.state \in Asking ~> dhcp.state \notin Asking
    /\ page.status = "RESOLVING" ~> page.status # "RESOLVING"
==============================================================================
