-------------------------- MODULE DurableKnowledge --------------------------
(***************************************************************************)
(* What the knowledge layer promises about the facts it keeps for a        *)
(* device: what a process that starts now would know of it.  Knowledge     *)
(* only grows; a fault while a record is written may cost the facts of the *)
(* one device that is being written, all of them and never those of        *)
(* another device; and starting a process costs nothing.                   *)
(***************************************************************************)
EXTENDS Integers

CONSTANTS
    Id,         \* devices
    Network,    \* networks, each with knowledge of its own
    Cap,        \* capabilities
    Ctrl,       \* controllers
    MaxNow,     \* bound: the last value of the clock
    Unknown     \* nothing is known of a device

VARIABLES
    running,    \* a process runs
    known       \* what is durably known, by network and device

abstractVars == <<running, known>>

\* The time of the first discovery, the capabilities and the controllers.
Fact == [first : 0 .. MaxNow, caps : SUBSET Cap, ctrls : SUBSET Ctrl]

\* What was found out first stays; capabilities join.
Extends(r, q) ==
    /\ r.first = q.first
    /\ r.ctrls = q.ctrls
    /\ q.caps \subseteq r.caps

AbstractInit ==
    /\ running = FALSE
    /\ known = [n \in Network |-> [i \in Id |-> Unknown]]

Start ==
    /\ running' = TRUE
    /\ UNCHANGED known

Leave ==
    /\ running' = FALSE
    /\ UNCHANGED known

Learn(n, i) ==
    /\ running
    /\ \E r \in Fact :
         /\ known[n][i] # Unknown => Extends(r, known[n][i])
         /\ known' = [known EXCEPT ![n][i] = r]
    /\ UNCHANGED running

\* A write that fails, and perhaps takes the process with it.
Damage(n, i) ==
    /\ running
    /\ known[n][i] # Unknown
    /\ known' = [known EXCEPT ![n][i] = Unknown]
    /\ running' \in BOOLEAN

AbstractNext ==
    \/ Start
    \/ Leave
    \/ \E n \in Network, i \in Id : Learn(n, i) \/ Damage(n, i)

AbstractSpec == AbstractInit /\ [][AbstractNext]_abstractVars
=============================================================================
