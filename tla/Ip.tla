--------------------------------- MODULE Ip ---------------------------------
(* ip.c and icmp.c: the interfaces and the routing table, built before       *)
(* net_run() and read by every thread after it, and the decisions of         *)
(* ip_input, ip_output and icmp_input that depend on them.  Addresses have    *)
(* Bits bits and a netmask is its prefix length.  The list "ifaces" is left   *)
(* out: only ip_iface_select reads it, and no code calls that.               *)
EXTENDS Integers, SequencesExt

CONSTANTS
  Bits,         \* width of an address
  Devs,         \* network devices
  NeedArp,      \* those with NET_DEVICE_FLAG_NEED_ARP
  Unicasts,     \* addresses given to ip_iface_alloc
  Lens,         \* prefix lengths given to ip_iface_alloc
  Gateways,     \* addresses given to ip_route_set_default_gateway
  Remotes,      \* addresses of other hosts and broadcast addresses
  MaxGateways   \* bound: calls of ip_route_set_default_gateway

ASSUME AddressAssumption ==
  /\ Bits \in Nat \ {0}
  /\ NeedArp \subseteq Devs
  /\ Lens \subseteq 1..Bits
  /\ Unicasts \cup Gateways \subseteq 1..(2^Bits - 2)
  /\ Remotes \subseteq 1..(2^Bits - 1)
  /\ MaxGateways \in Nat

VARIABLES
  attached,   \* the IP interface of each device, or NoIface
  routes,     \* the list of routes, its head first
  running,    \* net_run() has returned
  bound,      \* a local address chosen for a foreign one, kept by a PCB
  request,    \* the echo request the last step answered, or NoRequest
  sent        \* the frame the last step handed to a device, or NoFrame

vars == <<attached, routes, running, bound, request, sent>>

IP_ADDR_ANY == 0
IP_ADDR_BROADCAST == 2^Bits - 1
Addr == 0..IP_ADDR_BROADCAST

NoIface == [dev |-> "none"]
NoRoute == [iface |-> NoIface]
NoBound == [foreign |-> IP_ADDR_ANY]
NoRequest == [src |-> IP_ADDR_ANY]
NoFrame == [dst |-> IP_ADDR_ANY]

\* struct ip_iface, struct ip_route
Iface == [dev : Devs, unicast : Unicasts, len : Lens]
Route == [network : Addr, len : Lens \cup {0}, nexthop : Addr, iface : Iface]

\* The header and the hardware destination of a datagram: "none" on a device
\* without addresses, "broadcast", or "unicast", the host with address hop.
\* asked is the source address the caller named.
Frame == [dev : Devs, src : Addr, dst : Addr, hop : Addr, asked : Addr,
          link : {"none", "broadcast", "unicast"}]

TypeOK ==
  /\ attached \in [Devs -> Iface \cup {NoIface}]
  /\ routes \in Seq(Route)
  /\ running \in BOOLEAN
  /\ bound \in [local : Unicasts, foreign : Remotes] \cup {NoBound}
  /\ request \in [src : Remotes, dst : Addr, iface : Iface] \cup {NoRequest}
  /\ sent \in Frame \cup {NoFrame}

Init ==
  /\ attached = [d \in Devs |-> NoIface]
  /\ routes = <<>>
  /\ running = FALSE
  /\ bound = NoBound
  /\ request = NoRequest
  /\ sent = NoFrame
-----------------------------------------------------------------------------
(* Addresses *)

Size(len) == 2^(Bits - len)

Netmask(len) == 2^Bits - Size(len)

\* addr & netmask
Network(addr, len) == addr - (addr % Size(len))

\* iface->broadcast, set by ip_iface_alloc
Broadcast(iface) == Network(iface.unicast, iface.len) + Size(iface.len) - 1
-----------------------------------------------------------------------------
(* The routing table *)

Matches(route, dst) == Network(dst, route.len) = route.network

\* Mutant: of two routes with one netmask, the later in the list wins.
SupersedesEqual(route, candidate) ==
  candidate = NoRoute \/ Netmask(candidate.len) <= Netmask(route.len)

\* The comparison of ip_route_lookup; NoRoute is the null candidate.
Supersedes(route, candidate) ==
  candidate = NoRoute \/ Netmask(candidate.len) < Netmask(route.len)

\* ip_route_lookup
RouteLookup(dst) ==
  FoldLeft(LAMBDA candidate, route :
             IF Matches(route, dst) /\ Supersedes(route, candidate)
             THEN route ELSE candidate,
           NoRoute, routes)

Reachable(dst) == RouteLookup(dst) # NoRoute

\* Mutant: the interface of the head of the list that matches.
RouteGetIfaceFirst(dst) ==
  SelectSeq(routes, LAMBDA route : Matches(route, dst))[1].iface

\* ip_route_get_iface, where it does not return null
RouteGetIface(dst) == RouteLookup(dst).iface

\* ip_route_add
RouteAdd(network, len, nexthop, iface) ==
  routes' = <<[network |-> network, len |-> len, nexthop |-> nexthop,
               iface |-> iface]>> \o routes
-----------------------------------------------------------------------------
(* Configuration, before net_run() *)

\* ip_iface_alloc and ip_iface_register.  When ip_route_add has no memory the
\* interface stays attached to its device and has no route.
IfaceRegister(dev, unicast, len) ==
  LET iface == [dev |-> dev, unicast |-> unicast, len |-> len]
  IN  /\ ~running
      /\ attached[dev] = NoIface
      /\ attached' = [attached EXCEPT ![dev] = iface]
      /\ \/ RouteAdd(Network(unicast, len), len, IP_ADDR_ANY, iface)
         \/ UNCHANGED routes
      /\ UNCHANGED <<running, bound, request, sent>>

\* ip_route_set_default_gateway
SetDefaultGateway(dev, gateway) ==
  /\ ~running
  /\ attached[dev] # NoIface
  /\ Len(SelectSeq(routes, LAMBDA route : route.len = 0)) < MaxGateways
  /\ RouteAdd(IP_ADDR_ANY, 0, gateway, attached[dev])
  /\ UNCHANGED <<attached, running, bound, request, sent>>

\* net_run
Run ==
  /\ ~running
  /\ running' = TRUE
  /\ UNCHANGED <<attached, routes, bound, request, sent>>
-----------------------------------------------------------------------------
(* Output *)

\* Mutant: the source address is not compared with the interface's.
SourceOkAny(src, iface) == TRUE

SourceOk(src, iface) == src \in {IP_ADDR_ANY, iface.unicast}

\* The conditions of ip_output on its addresses
Sendable(src, dst) ==
  /\ ~(src = IP_ADDR_ANY /\ dst = IP_ADDR_BROADCAST)
  /\ Reachable(dst)
  /\ SourceOk(src, RouteLookup(dst).iface)

\* Mutant: the next hop is the route's, set or not.
NexthopRoute(route, dst) == route.nexthop

Nexthop(route, dst) ==
  IF route.nexthop # IP_ADDR_ANY THEN route.nexthop ELSE dst

\* The hardware destination ip_output_device chooses
Link(iface, hop) ==
  IF iface.dev \notin NeedArp THEN "none"
  ELSE IF hop \in {Broadcast(iface), IP_ADDR_BROADCAST} THEN "broadcast"
  ELSE "unicast"

FrameTo(src, dst) ==
  LET route == RouteLookup(dst)
      hop == Nexthop(route, dst)
  IN  [dev |-> route.iface.dev, src |-> route.iface.unicast, dst |-> dst,
       hop |-> hop, asked |-> src, link |-> Link(route.iface, hop)]

\* ip_output.  It hands a frame to the device, or nothing: the datagram is
\* refused, is longer than the MTU, its next hop is not in the ARP cache (and
\* the caller is told it was sent), or the device fails.
IpOutput(src, dst) ==
  \/ Sendable(src, dst) /\ sent' = FrameTo(src, dst)
  \/ sent' = NoFrame

\* The choice of the local address in tcp_connect and udp_sendto
Choose(dst) ==
  /\ running
  /\ Reachable(dst)
  /\ bound' = [local |-> RouteGetIface(dst).unicast, foreign |-> dst]
  /\ request' = NoRequest
  /\ sent' = NoFrame
  /\ UNCHANGED <<attached, routes, running>>

\* A datagram of a PCB bound to an address of the host, or of no PCB
Send(src, dst) ==
  /\ running
  /\ IpOutput(src, dst)
  /\ request' = NoRequest
  /\ UNCHANGED <<attached, routes, running, bound>>

\* tcp_output and udp_output of the PCB that chose its local address
SendBound == bound # NoBound /\ Send(bound.local, bound.foreign)
-----------------------------------------------------------------------------
(* Input *)

\* The conditions of ip_input on the interface and the destination
ForUs(dev, dst) ==
  /\ attached[dev] # NoIface
  /\ dst \in {attached[dev].unicast, Broadcast(attached[dev]),
              IP_ADDR_BROADCAST}

\* Mutant: the reply comes from the address the request was sent to.
EchoSourceAsked(dst, iface) == dst

\* The source of the reply icmp_input sends
EchoSource(dst, iface) == IF dst # iface.unicast THEN iface.unicast ELSE dst

\* ip_input of an echo request: icmp_input replies by icmp_output
EchoInput(dev, src, dst) ==
  /\ running
  /\ ForUs(dev, dst)
  /\ request' = [src |-> src, dst |-> dst, iface |-> attached[dev]]
  /\ IpOutput(EchoSource(dst, attached[dev]), src)
  /\ UNCHANGED <<attached, routes, running, bound>>

Locals == {attached[d].unicast : d \in {e \in Devs : attached[e] # NoIface}}

Next ==
  \/ \E d \in Devs, a \in Unicasts, l \in Lens : IfaceRegister(d, a, l)
  \/ \E d \in Devs, g \in Gateways : SetDefaultGateway(d, g)
  \/ Run
  \/ \E dst \in Remotes : Choose(dst)
  \/ SendBound
  \/ \E src \in Locals \cup {IP_ADDR_ANY}, dst \in Remotes : Send(src, dst)
  \/ \E d \in Devs, src \in Remotes, dst \in Remotes \cup Locals :
       EchoInput(d, src, dst)

Spec == Init /\ [][Next]_vars
-----------------------------------------------------------------------------
(* Properties *)

Candidates(dst) == {k \in DOMAIN routes : Matches(routes[k], dst)}

\* Of the routes that match an address, whatever the order of the calls that
\* made them, ip_route_lookup returns the one with the longest prefix, and of
\* several with that prefix the one added last; it returns null only when none
\* matches.
BestRoute ==
  \A dst \in Addr :
    \/ ~Reachable(dst) /\ Candidates(dst) = {}
    \/ \E k \in Candidates(dst) :
         /\ RouteLookup(dst) = routes[k]
         /\ \A j \in Candidates(dst) :
              \/ routes[j].len < routes[k].len
              \/ routes[j].len = routes[k].len /\ k <= j

\* Route k leads straight to dst.
OnLink(k, dst) == k \in Candidates(dst) /\ routes[k].nexthop = IP_ADDR_ANY

\* A datagram to a host of an attached subnet never goes to a gateway: it leaves
\* by an interface whose subnet holds the host, by the narrowest such subnet,
\* and when it is for all of that subnet it leaves as a hardware broadcast
\* (ip_route_lookup, the next hop of ip_output, ip_output_device).
OnLinkDirect ==
  (sent # NoFrame /\ \E k \in DOMAIN routes : OnLink(k, sent.dst)) =>
    LET iface == attached[sent.dev]
    IN  /\ sent.hop = sent.dst
        /\ Network(sent.dst, iface.len) = Network(iface.unicast, iface.len)
        /\ \A k \in DOMAIN routes :
             OnLink(k, sent.dst) => routes[k].len <= iface.len
        /\ (sent.dst = Broadcast(iface) /\ sent.dev \in NeedArp
              => sent.link = "broadcast")

\* The source address of a datagram is the address of the interface attached to
\* the device it leaves by, and the address the caller named if it named one:
\* the checksums of TCP and UDP were computed over that address (ip_output).
SourceOwned ==
  sent # NoFrame =>
    /\ sent.src = attached[sent.dev].unicast
    /\ sent.asked \in {IP_ADDR_ANY, sent.src}

\* The local address that tcp_connect or udp_sendto chose for a foreign address
\* is never refused by a later ip_output to it: both ask the same table, and
\* the table does not change after net_run().
ChosenUsable ==
  bound # NoBound => Sendable(bound.local, bound.foreign)

\* dst is in the subnet of iface, and no other route to dst is as narrow.
Nearest(iface, dst) ==
  \E k \in DOMAIN routes :
    /\ OnLink(k, dst)
    /\ routes[k].iface = iface
    /\ \A j \in Candidates(dst) \ {k} : routes[j].len < routes[k].len

\* An echo request of a neighbour, sent to the interface or to all of its
\* subnet, is not refused its reply; and a reply goes to the sender of the
\* request, from the address of the interface the request came in by
\* (icmp_input, ip_output).
EchoReturns ==
  request # NoRequest =>
    /\ Nearest(request.iface, request.src) =>
         Sendable(EchoSource(request.dst, request.iface), request.src)
    /\ sent # NoFrame =>
         sent.dst = request.src /\ sent.src = request.iface.unicast
=============================================================================
