------------------------------ MODULE MCStartup ------------------------------
(* Values of the constants of Startup for TLC.                             *)
EXTENDS Startup

Acceptors == [ip_version : {Undefined, 4, 6}, port : {Undefined, 9090, 70000}]
Loggings == [console : {Undefined, "debug", Junk}, file : {Undefined, "debug"}]

IpOf(ip, port, weight) == [url |-> Undefined, ip |-> ip, port |-> port, weight |-> weight]
Ip(port, weight) == IpOf("127.0.0.1", port, weight)
Named(protocol, port) ==
  [url |-> [protocol |-> protocol, port |-> port], ip |-> Undefined, port |-> Undefined,
   weight |-> 1]

\* No endpoints; complete ones of every kind; numbers that are no ports; an IPv6
\* address and something that is no address; endpoints without a port, without a
\* weight, and of a protocol that has no port.
EndpointLists ==
  { Undefined, Junk, <<>>,
    <<Ip(8081, 2), Named("https", Undefined), Named(Undefined, 8082)>>,
    <<Ip(0, 1), Ip(65535, 1), Named("http", 10), Named("http", 65535)>>,
    <<Ip(65536, 1), Ip(70000, 1), Ip(-1, 1)>>,
    <<Named("ftp", 5), Named(Undefined, 99999), Named(Undefined, 808080)>>,
    <<Ip(8081, 2), Ip(Undefined, 2)>>, <<Ip(Junk, 2)>>,
    <<Ip(8081, Undefined)>>, <<IpOf("::1", 8081, 2)>>, <<IpOf(Junk, 8081, 2)>>,
    <<Named("ws", Undefined)>>, <<Named("ws", 5)>>, <<Named("ws", 8083)>> }

Good ==
  [logging |-> [console |-> "debug", file |-> Undefined],
   acceptor |-> [ip_version |-> 4, port |-> 9090],
   algorithm |-> "least_connections", replicas |-> Undefined,
   endpoints |-> <<Ip(8081, 2), Named(Undefined, Undefined)>>,
   threads_number |-> 3]

\* All values of the fields that one part of the start-up reads, together.
SomeConfigs ==
  {[Good EXCEPT !.logging = l] : l \in {Undefined, Junk} \cup Loggings}
    \cup {[Good EXCEPT !.acceptor = a, !.threads_number = n] :
            a \in {Undefined, Junk} \cup Acceptors, n \in {Undefined, Junk, AutoThreads, 0, 1, 2, 3}}
    \cup {[Good EXCEPT !.algorithm = a, !.replicas = r, !.endpoints = e, !.threads_number = 1] :
            a \in {Undefined, "fastest", "least_connections", "weighted_round_robin",
                   "consistent_hash"},
            r \in {Undefined, Junk, 0, 1, 5},
            e \in EndpointLists}
=============================================================================
