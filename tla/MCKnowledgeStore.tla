-------------------------- MODULE MCKnowledgeStore --------------------------
(***************************************************************************)
(* Instances of KnowledgeStore for TLC.  Each configuration picks the set  *)
(* of devices discovery may report; the other sets are kept as small as    *)
(* the question of the run allows.                                         *)
(***************************************************************************)
EXTENDS KnowledgeStore, Sequences, TLC

CONSTANTS d1, d2, d3, c1, c2, k1, k2, ip1, ip2, a1, s1, s2, l1, tv, f1, f2

\* One file for each of d1 and d2; or one for both, and another for d3.
OwnFiles == [i \in Id |-> IF i = d1 THEN f1 ELSE f2]
SharedFiles == [i \in Id |-> IF i = d3 THEN f2 ELSE f1]

\* ActionResolver makes one profile for each capability, with every action.
ProfilesOf(caps) ==
    [c \in Cap |->
        IF c \in caps
        THEN [present |-> TRUE, limits |-> l1,
              support |-> [a \in Action |-> "supported"]]
        ELSE NoProfiles[c]]

\* A device as discovery reports it, without endpoints.
Plain(i, name, caps, ctrls) ==
    [id |-> i, name |-> name, caps |-> caps, profiles |-> ProfilesOf(caps),
     ctrls |-> ctrls, eps |-> NoEndpoints]

\* One observation of each device.
LiveSingle == {Plain(i, tv, {c1}, {k1}) : i \in Id}

SlotOf(s, named) == [server |-> s, uuid |-> TRUE, urls |-> named]

At(at, slots) ==
    [ip \in Ip |-> [p \in Pos |->
        IF ip = at /\ p <= Len(slots) THEN slots[p] ELSE NoSlot]]

Seen(eps) == [Plain(d1, tv, {c1}, {k1}) EXCEPT !.eps = eps]

\* Two devices: the first with two endpoints at one address, or at another
\* address with one that has no uuid, and then with other capabilities.
LiveRecords ==
    {Seen(At(ip1, <<SlotOf(s1, "location"), SlotOf(s2, "none")>>)),
     [Plain(d1, NoName, {c2}, {}) EXCEPT
        !.eps = At(ip2, <<[SlotOf(s1, "none") EXCEPT !.uuid = FALSE]>>)],
     Plain(d2, tv, {c1}, {})}
=============================================================================
