----------------------------- MODULE DnsResolve -----------------------------
(***************************************************************************)
(* dns.resolve of protocol/dns.lua: coroutines that want the address of a  *)
(* domain while another one is asking the name server for it join that     *)
(* one's list and are woken with its answer.                               *)
(*                                                                         *)
(* cos maps a domain to the list of the query under way.  A coroutine runs *)
(* at most one query, so its list is wlist[c] and cos[d] names the         *)
(* coroutine whose list is entered.  dns_query starts over with the other  *)
(* address family when an answer holds no address: that is a new list.     *)
(*                                                                         *)
(* The coroutine that sends the request again and again (dns.lua 235-247)  *)
(* ends with the recv it belongs to and is left out; so are the encoding   *)
(* of messages and the choice of a server.                                 *)
(***************************************************************************)
EXTENDS Naturals, Sequences, FiniteSets

CONSTANTS
    Procs,     \* coroutines that resolve
    Domains,
    Hosts,     \* domains with an entry in the hosts file
    Literals,  \* "domains" that are IP addresses
    Nobody,    \* cos[domain] = nil
    Replies,   \* what recv may give: subset of {"address", "none", "error", "garbled"}
    MaxCalls   \* bound: calls of dns.resolve by a coroutine

ASSUME DomainsAssumption == Domains # {} /\ Hosts \subseteq Domains /\ Literals \subseteq Domains
ASSUME RepliesAssumption == Replies \subseteq {"address", "none", "error", "garbled"}
ASSUME NobodyAssumption == Nobody \notin Procs
ASSUME BoundAssumption == MaxCalls \in Nat

VARIABLES
    dns_cache,  \* domain -> "absent", "timed" (has a ttl) or "forever"
    cos,        \* domain -> whose query is under way, or Nobody
    wlist,      \* coroutine -> the list of its query
    domain,     \* coroutine -> what it resolves
    ip_version, \* coroutine -> is the address family of its query fixed?
    pc,         \* coroutine -> where it waits
    calls

vars == <<dns_cache, cos, wlist, domain, ip_version, pc, calls>>

Elements(list) == {list[i] : i \in 1..Len(list)}

\* The table gen_cache builds from the hosts file.
gen_cache == [d \in Domains |-> IF d \in Hosts THEN "forever" ELSE "absent"]

Init ==
    /\ dns_cache = gen_cache
    /\ cos = [d \in Domains |-> Nobody]
    /\ wlist = [c \in Procs |-> <<>>]
    /\ domain \in [Procs -> {CHOOSE d \in Domains : TRUE}]
    /\ ip_version = [c \in Procs |-> FALSE]
    /\ pc = [c \in Procs |-> "idle"]
    /\ calls = [c \in Procs |-> 0]

-----------------------------------------------------------------------------
Call(c, d) ==
    /\ pc[c] = "idle"
    /\ calls[c] < MaxCalls
    /\ calls' = [calls EXCEPT ![c] = @ + 1]
    /\ domain' = [domain EXCEPT ![c] = d]

\* dns.resolve: the domain is in the cache (what has expired is not).
ResolveCached(c, d) ==
    /\ Call(c, d)
    /\ dns_cache[d] # "absent"
    /\ UNCHANGED <<dns_cache, cos, wlist, ip_version, pc>>

\* The domain is an IP address, which is cached as its own address.
ResolveLiteral(c, d) ==
    /\ Call(c, d)
    /\ dns_cache[d] = "absent" /\ d \in Literals
    /\ dns_cache' = [dns_cache EXCEPT ![d] = "forever"]
    /\ UNCHANGED <<cos, wlist, ip_version, pc>>

MustAsk(d) == d \notin Literals /\ cos[d] = Nobody

\* Slip: what joins the list is not the coroutine.
ResolveJoins_Domain(c, d) ==
    /\ Call(c, d)
    /\ dns_cache[d] = "absent" /\ d \notin Literals /\ ~MustAsk(d)
    /\ wlist' = [wlist EXCEPT ![cos[d]] = Append(@, d)]
    /\ pc' = [pc EXCEPT ![c] = "waiting"]
    /\ UNCHANGED <<dns_cache, cos, ip_version>>

\* Another coroutine is asking: join its list.
ResolveJoins(c, d) ==
    /\ Call(c, d)
    /\ dns_cache[d] = "absent" /\ d \notin Literals /\ ~MustAsk(d)
    /\ wlist' = [wlist EXCEPT ![cos[d]] = Append(@, c)]
    /\ pc' = [pc EXCEPT ![c] = "waiting"]
    /\ UNCHANGED <<dns_cache, cos, ip_version>>

\* Nobody is: dns_query enters a list of its own, and either gets a socket and
\* waits in recv, or does not, which fails at once and leaves nothing behind.
ResolveAsks(c, d, version) ==
    /\ Call(c, d)
    /\ dns_cache[d] = "absent" /\ MustAsk(d)
    /\ \/ /\ cos' = [cos EXCEPT ![d] = c]
          /\ wlist' = [wlist EXCEPT ![c] = <<>>]
          /\ ip_version' = [ip_version EXCEPT ![c] = version]
          /\ pc' = [pc EXCEPT ![c] = "recv"]
       \/ UNCHANGED <<cos, wlist, ip_version, pc>>
    /\ UNCHANGED dns_cache

-----------------------------------------------------------------------------
\* Slip: the list is left in cos.
check_wait_Kept(c) ==
    /\ pc' = [p \in Procs |-> IF p = c \/ p \in Elements(wlist[c]) THEN "idle" ELSE pc[p]]
    /\ wlist' = [wlist EXCEPT ![c] = <<>>]
    /\ UNCHANGED cos

\* Slip: only the first of the list is woken.
check_wait_First(c) ==
    /\ pc' = [p \in Procs |-> IF p = c \/ (wlist[c] # <<>> /\ p = Head(wlist[c]))
                              THEN "idle" ELSE pc[p]]
    /\ wlist' = [wlist EXCEPT ![c] = <<>>]
    /\ cos' = [cos EXCEPT ![domain[c]] = Nobody]

\* check_wait: whoever waits for c's query gets c's answer, and so does c.
check_wait(c) ==
    /\ pc' = [p \in Procs |-> IF p = c \/ p \in Elements(wlist[c]) THEN "idle" ELSE pc[p]]
    /\ wlist' = [wlist EXCEPT ![c] = <<>>]
    /\ cos' = [cos EXCEPT ![domain[c]] = Nobody]

\* An answer with an address arrives, with a ttl, or with ttl 0 (no ttl).
Address(c) ==
    /\ pc[c] = "recv" /\ "address" \in Replies
    /\ \E kind \in {"timed", "forever"} :
          dns_cache' = [dns_cache EXCEPT ![domain[c]] = kind]
    /\ check_wait(c)
    /\ UNCHANGED <<domain, ip_version, calls>>

\* A timeout, a short message, another question's answer - or an answer without
\* an address from the last family to try.
Error(c) ==
    /\ pc[c] = "recv"
    /\ "error" \in Replies \/ ("none" \in Replies /\ ip_version[c])
    /\ check_wait(c)
    /\ UNCHANGED <<dns_cache, domain, ip_version, calls>>

\* An answer without an address, and another family to try: dns_query calls
\* itself.  The new query's list replaces the old one; a socket may be missing.
NoAddress(c) ==
    /\ pc[c] = "recv" /\ "none" \in Replies
    /\ ~ip_version[c]
    /\ wlist' = [wlist EXCEPT ![c] = <<>>]
    /\ \/ /\ ip_version' = [ip_version EXCEPT ![c] = TRUE]
          /\ UNCHANGED <<cos, pc>>
       \/ /\ pc' = [pc EXCEPT ![c] = "idle"]
          /\ cos' = [cos EXCEPT ![domain[c]] = Nobody]
          /\ UNCHANGED ip_version
    /\ UNCHANGED <<dns_cache, domain, calls>>

\* A message shorter than its own counts and lengths: string.unpack raises, the
\* coroutine ends there.
Garbled(c) ==
    /\ pc[c] = "recv" /\ "garbled" \in Replies
    /\ pc' = [pc EXCEPT ![c] = "raised"]
    /\ UNCHANGED <<dns_cache, cos, wlist, domain, ip_version, calls>>

\* The ttl of an entry passes.
Expire(d) ==
    /\ dns_cache[d] = "timed"
    /\ dns_cache' = [dns_cache EXCEPT ![d] = "absent"]
    /\ UNCHANGED <<cos, wlist, domain, ip_version, pc, calls>>

\* dns.flush
Flush ==
    /\ dns_cache' = gen_cache
    /\ UNCHANGED <<cos, wlist, domain, ip_version, pc, calls>>

Next ==
    \/ \E c \in Procs, d \in Domains : ResolveCached(c, d)
    \/ \E c \in Procs, d \in Domains : ResolveLiteral(c, d)
    \/ \E c \in Procs, d \in Domains : ResolveJoins(c, d)
    \/ \E c \in Procs, d \in Domains, v \in BOOLEAN : ResolveAsks(c, d, v)
    \/ \E c \in Procs : Address(c)
    \/ \E c \in Procs : Error(c)
    \/ \E c \in Procs : NoAddress(c)
    \/ \E c \in Procs : Garbled(c)
    \/ \E d \in Domains : Expire(d)
    \/ Flush

SafeSpec == Init /\ [][Next]_vars

\* recv returns: UDP:recv has a timer of dns._timeout (30 by default) seconds.
Fairness == \A c \in Procs :
    WF_vars(Address(c) \/ Error(c) \/ NoAddress(c) \/ Garbled(c))

Spec == SafeSpec /\ Fairness

-----------------------------------------------------------------------------
(* Properties *)

TypeOK ==
    /\ dns_cache \in [Domains -> {"absent", "timed", "forever"}]
    /\ cos \in [Domains -> Procs \union {Nobody}]
    /\ wlist \in [Procs -> Seq(Procs)]
    /\ domain \in [Procs -> Domains]
    /\ ip_version \in [Procs -> BOOLEAN]
    /\ pc \in [Procs -> {"idle", "recv", "waiting", "raised"}]
    /\ calls \in [Procs -> 0..MaxCalls]

Asking(d) == {c \in Procs : domain[c] = d /\ pc[c] \in {"recv", "raised"}}

\* The list entered for a domain is that of the one coroutine that asks for it
\* (or died asking): no two coroutines query a domain at a time, and nobody
\* joins the list of a query that is over.
OneQuery == \A d \in Domains :
    Asking(d) = IF cos[d] = Nobody THEN {} ELSE {cos[d]}

\* Nobody is in two lists, or twice in one, or in a list while it does not wait
\* for that list's domain: otherwise check_wait would wake a coroutine that
\* waits for something else.
ListsAreOfWaiters ==
    /\ \A q \in Procs : \A c \in Elements(wlist[q]) :
          pc[c] = "waiting" /\ domain[c] = domain[q]
    /\ \A q, r \in Procs : \A i \in 1..Len(wlist[q]), j \in 1..Len(wlist[r]) :
          wlist[q][i] = wlist[r][j] => q = r /\ i = j

\* One query per domain, and everybody who waits in the list of his query once: what
\* check_wait needs to wake the right ones.
ListsAreSound == OneQuery /\ ListsAreOfWaiters

Dropped(c) == pc[c] = "waiting" /\ \A q \in Procs : c \notin Elements(wlist[q])

\* Of all the ways a query can go on or end, only starting over for the other
\* address family drops coroutines that wait for it.
OnlyRestartDrops ==
    [][\A c \in Procs : ~Dropped(c) /\ Dropped(c)' => \E q \in Procs : NoAddress(q)]_vars

\* Whoever waits for another one's query is woken with it.
WaitersAreWoken == \A c \in Procs : pc[c] = "waiting" ~> pc[c] = "idle"
=============================================================================
