---------------------------- MODULE MCDiscovery ----------------------------
(***************************************************************************)
(* A network for Discovery: a renderer that moves between two addresses    *)
(* and has an embedded device, and a datagram in its name that is no SSDP. *)
(***************************************************************************)
EXTENDS Discovery

CONSTANTS u1, u2, all, s1, s2, ip1, ip2, l1, l2, l3

Targets == <<all, s1>>

Hosts == [l \in Location |-> IF l = l1 THEN ip1 ELSE ip2]

Packets ==
    {[type |-> "HTTP Response", st |-> s1, uuid |-> u1, ip |-> ip1, location |-> l1],
     [type |-> "HTTP Response", st |-> s2, uuid |-> u1, ip |-> ip1, location |-> NoLocation],
     [type |-> "HTTP Response", st |-> s1, uuid |-> u1, ip |-> ip2, location |-> l2],
     [type |-> "Unknown", st |-> s2, uuid |-> u1, ip |-> ip1, location |-> l1]}

Device(uuid, icons, services) ==
    [uuid |-> uuid, named |-> TRUE, icons |-> icons, services |-> services]

\* All descriptions are of the renderer.  At its first address it has an
\* embedded device; at the second its icons have no sizes.
Descriptions ==
    [l \in Location |->
        CASE l = l1 -> [root     |-> Device(u1, "none", {s1}),
                        embedded |-> <<Device(u2, "sized", {s2})>>]
          [] l = l2 -> [root |-> Device(u1, "unsized", {s1}), embedded |-> <<>>]
          [] l = l3 -> [root |-> Device(u1, "sized", {s1}), embedded |-> <<>>]]

PageOf(code, to, encoding, size) ==
    [code |-> code, to |-> to, encoding |-> encoding, size |-> size]

\* The first description comes in chunks that part the embedded device, or up
\* to the end of the connection; the server at the new address has one of its
\* own or refers to another, which announces the length of what it sends, or
\* less, or refers back.
Answering ==
    [l \in Location |->
        CASE l = l1 -> {PageOf(200, NoLocation, "chunked", 4),
                        PageOf(200, NoLocation, "close", 0)}
          [] l = l2 -> {PageOf(302, l3, "close", 0),
                        PageOf(200, NoLocation, "close", 0)}
          [] l = l3 -> {PageOf(302, l2, "close", 0)} \cup
                       {PageOf(200, NoLocation, "length", n) :
                            n \in {3, Len(Description(Device(u1, "sized", {s1}),
                                                     <<>>))}}]
=============================================================================
