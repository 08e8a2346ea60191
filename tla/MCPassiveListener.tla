------------------------- MODULE MCPassiveListener --------------------------
(***************************************************************************)
(* Traffic for PassiveListener: a device that announces itself at two      *)
(* addresses and says good-bye, which is an announcement without a         *)
(* location, and the search of another host.                               *)
(***************************************************************************)
EXTENDS PassiveListener

CONSTANTS u1, all, s1, ip1, ip2, l1

Notify(ip, location) ==
    [type |-> "NOTIFY", st |-> s1, uuid |-> u1, ip |-> ip, location |-> location]

Datagrams ==
    {Notify(ip1, l1), Notify(ip1, NoLocation), Notify(ip2, l1),
     [type |-> "M-SEARCH", st |-> all, uuid |-> NoUuid, ip |-> ip2,
      location |-> NoLocation]}

\* What earlier sessions left: the name of a first announcement is taken
\* once, twice or not at all.
Left ==
    {[name    |-> [number |-> 1, type |-> "NOTIFY", ip |-> ip1, again |-> k],
      session |-> "earlier",
      packet  |-> Notify(ip1, l1)] : k \in {0, 1}}
=============================================================================
