-------------------------- MODULE PassiveListener ---------------------------
(***************************************************************************)
(* The listening mode of main.cpp: SSDPClient::ListenPassive with its      *)
(* MulticastSocket, the callback that captures and dispatches each         *)
(* datagram, and the console control handler.                              *)
(*                                                                         *)
(* Windows runs the handlers of a console event in a thread it makes for   *)
(* the event, at any time, so that the stop flag is written while the      *)
(* main thread receives, captures, or puts its handler in or out.  An      *)
(* event that no handler takes ends the process.                           *)
(***************************************************************************)
EXTENDS DeviceRegistry

CONSTANTS
    Thread,     \* bound: events that are handled at the same time
    Traffic,    \* bound: the datagrams other hosts may multicast
    Duration,   \* the values of durationSeconds; 0 is for no limit
    Earlier,    \* bound: files that earlier sessions may have left
    MaxFiles,   \* bound: after so many captures each further one fails
    MaxLate,    \* bound: late datagrams are counted so far
    NoPacket    \* no packet in hand

ASSUME ListenerAssumption ==
    /\ NoPacket \notin Packet
    /\ Traffic \subseteq Packet
    /\ Duration \subseteq Nat
    /\ MaxFiles \in Nat
    /\ MaxLate \in Nat \ {0, 1}

\* BuildFilename: the number in the session, the type and the sender of the
\* packet, and how many of these names were taken.
FileName == [number : Nat, type : PacketType, ip : Ip, again : Nat]

\* A file that was cut short counts as written: nothing reads the captures.
CaptureFile ==
    [name : FileName, session : {"earlier", "this"}, packet : Packet]

ASSUME EarlierAssumption ==
    Earlier \subseteq {f \in CaptureFile : f.session = "earlier"}

VARIABLES
    pc,         \* where the main thread is
    duration,   \* durationSeconds
    elapsed,    \* seconds since the loop began, up to the limit
    stop,       \* s_stopListening
    installed,  \* CtrlHandler is on the list of handlers
    threads,    \* threads that handle an event
    bound,      \* the socket is open and bound
    member,     \* m_groupJoined
    pkt,        \* the packet the callback was called with
    fileCount,  \* m_fileCount
    again,      \* disambig
    files,      \* the passive directory
    registry,   \* m_evidence
    late        \* history: datagrams received after the listener was due to
                \* stop, counted up to MaxLate

vars == <<pc, duration, elapsed, stop, installed, threads, bound, member, pkt,
          fileCount, again, files, registry, late>>

clock == <<duration, elapsed>>
control == <<stop, installed, threads>>
socket == <<bound, member>>
captures == <<fileCount, again, files>>
data == <<pkt, captures, registry, late>>

Over == {"done", "failed", "killed"}

Init ==
    /\ pc = "open"
    /\ duration \in Duration
    /\ elapsed = 0
    /\ stop = FALSE
    /\ installed = FALSE
    /\ threads = {}
    /\ bound = FALSE
    /\ member = FALSE
    /\ pkt = NoPacket
    /\ fileCount = 0
    /\ again = 0
    /\ files \in SUBSET Earlier
    /\ registry = <<>>
    /\ late = 0

-----------------------------------------------------------------------------
(* Setting up.                                                             *)

\* Open, JoinGroup, SetReceiveTimeout and Receive throw; nothing up to main
\* catches that, and the program ends.
SocketFails ==
    /\ pc \in {"open", "join", "timeout", "receive"}
    /\ pc' = "failed"
    /\ UNCHANGED <<clock, control, socket, data>>

\* socket(), SO_REUSEADDR and bind().
Open ==
    /\ pc = "open"
    /\ bound' = TRUE
    /\ pc' = "join"
    /\ UNCHANGED <<clock, control, member, data>>

JoinGroup ==
    /\ pc = "join"
    /\ member' = TRUE
    /\ pc' = "timeout"
    /\ UNCHANGED <<clock, control, bound, data>>

SetReceiveTimeout ==
    /\ pc = "timeout"
    /\ pc' = "reset"
    /\ UNCHANGED <<clock, control, socket, data>>

\* Fault: the handler is there before the flag is reset.
InstallThenReset ==
    /\ pc = "reset"
    /\ IF installed THEN stop' = FALSE /\ pc' = "install" /\ UNCHANGED installed
       ELSE installed' = TRUE /\ UNCHANGED <<stop, pc>>
    /\ UNCHANGED <<clock, threads, socket, data>>

ResetStopFlag ==
    /\ pc = "reset"
    /\ stop' = FALSE
    /\ pc' = "install"
    /\ UNCHANGED <<clock, installed, threads, socket, data>>

InstallHandler ==
    /\ pc = "install"
    /\ installed' = TRUE
    /\ elapsed' = 0
    /\ pc' = "test"
    /\ UNCHANGED <<duration, stop, threads, socket, data>>

-----------------------------------------------------------------------------
(* The loop.                                                               *)

LimitReached == duration > 0 /\ elapsed >= duration

\* The loop has a reason to end.
Due == stop \/ LimitReached

\* The flag is read first, the clock after it.
TestStopFlag ==
    /\ pc = "test"
    /\ pc' = IF stop THEN "close" ELSE "limit"
    /\ UNCHANGED <<clock, control, socket, data>>

TestLimit ==
    /\ pc = "limit"
    /\ pc' = IF LimitReached THEN "close" ELSE "receive"
    /\ UNCHANGED <<clock, control, socket, data>>

\* A timeout, or a datagram without payload.
ReceiveNothing ==
    /\ pc = "receive"
    /\ pc' = "test"
    /\ UNCHANGED <<clock, control, socket, data>>

\* Fault: the limit counts from the last datagram.
ReceiveDatagramRestarting ==
    /\ pc = "receive"
    /\ \E p \in Traffic : pkt' = p
    /\ elapsed' = 0
    /\ pc' = "capture"
    /\ UNCHANGED <<duration, control, socket, captures, registry, late>>

ReceiveDatagram ==
    /\ pc = "receive"
    /\ \E p \in Traffic : pkt' = p
    /\ late' = IF Due /\ late < MaxLate THEN late + 1 ELSE late
    /\ pc' = "capture"
    /\ UNCHANGED <<clock, control, socket, captures, registry>>

-----------------------------------------------------------------------------
(* The callback of main.                                                   *)

candidate ==
    [number |-> fileCount, type |-> pkt.type, ip |-> pkt.ip, again |-> again]

\* PrintPacket, and SavePassivePacket begins.
SavePassivePacket ==
    /\ pc = "capture"
    /\ fileCount < MaxFiles
    /\ fileCount' = fileCount + 1
    /\ again' = 0
    /\ pc' = "name"
    /\ UNCHANGED <<clock, control, socket, pkt, files, registry, late>>

\* Fault: names of earlier sessions are used again.
BuildFilenameAnyway ==
    /\ pc = "name"
    /\ pc' = "write"
    /\ UNCHANGED <<clock, control, socket, data>>

\* One turn of the loop that looks for a name nobody has.
BuildFilename ==
    /\ pc = "name"
    /\ IF \E f \in files : f.name = candidate
       THEN again' = again + 1 /\ UNCHANGED pc
       ELSE pc' = "write" /\ UNCHANGED again
    /\ UNCHANGED <<clock, control, socket, pkt, fileCount, files, registry, late>>

\* The file is opened, truncated if it exists, and written.
WritePacketFile ==
    /\ pc = "write"
    /\ files' = {f \in files : f.name # candidate}
                \cup {[name |-> candidate, session |-> "this", packet |-> pkt]}
    /\ pc' = "dispatch"
    /\ UNCHANGED <<clock, control, socket, pkt, fileCount, again, registry, late>>

\* Fault: the exception ends in main, and the packet is dispatched after all.
CallbackThrowsLate ==
    /\ pc \in {"capture", "name", "write"}
    /\ pc' = "dispatch"
    /\ UNCHANGED <<clock, control, socket, data>>

\* The file cannot be looked for or opened: ListenPassive catches what the
\* callback throws.
CallbackThrows ==
    /\ pc \in {"capture", "name", "write"}
    /\ pkt' = NoPacket
    /\ pc' = "test"
    /\ UNCHANGED <<clock, control, socket, captures, registry, late>>

\* Fault: the loop goes on to receive as long as there are datagrams.
DispatchAndReceive ==
    /\ pc = "dispatch"
    /\ registry' = AnalyzeSsdp(registry, pkt)
    /\ pkt' = NoPacket
    /\ pc' = "receive"
    /\ UNCHANGED <<clock, control, socket, captures, late>>

\* AnalyzerDispatcher::Dispatch; XmlAnalyzer takes no SSDP packets.
Dispatch ==
    /\ pc = "dispatch"
    /\ registry' = AnalyzeSsdp(registry, pkt)
    /\ pkt' = NoPacket
    /\ pc' = "test"
    /\ UNCHANGED <<clock, control, socket, captures, late>>

-----------------------------------------------------------------------------
(* Cleaning up.                                                            *)

\* Close leaves the group first.
Close ==
    /\ pc = "close"
    /\ bound' = FALSE
    /\ member' = FALSE
    /\ pc' = "remove"
    /\ UNCHANGED <<clock, control, data>>

RemoveHandler ==
    /\ pc = "remove"
    /\ installed' = FALSE
    /\ pc' = "resolve"
    /\ UNCHANGED <<clock, stop, threads, socket, data>>

\* main resolves the evidence, prints the devices and returns.
Resolve ==
    /\ pc = "resolve"
    /\ pc' = "done"
    /\ UNCHANGED <<clock, control, socket, data>>

-----------------------------------------------------------------------------
(* Console events and time.                                                *)

\* Ctrl+C or Ctrl+Break while the handler is on the list.
EventIsTaken(t) ==
    /\ pc \notin Over
    /\ installed
    /\ t \notin threads
    /\ threads' = threads \cup {t}
    /\ UNCHANGED <<pc, clock, stop, installed, socket, data>>

\* CtrlHandler writes the flag and returns TRUE.
CtrlHandler(t) ==
    /\ pc \notin Over
    /\ t \in threads
    /\ stop' = TRUE
    /\ threads' = threads \ {t}
    /\ UNCHANGED <<pc, clock, installed, socket, data>>

\* Any event before the handler is put in or after it is taken out, and at
\* any time one that CtrlHandler returns FALSE for.
EventKills ==
    /\ pc \notin Over
    /\ pc' = "killed"
    /\ UNCHANGED <<clock, control, socket, data>>

Tick ==
    /\ pc \notin Over
    /\ elapsed < duration
    /\ elapsed' = elapsed + 1
    /\ UNCHANGED <<pc, duration, control, socket, data>>

Main ==
    \/ SocketFails
    \/ Open
    \/ JoinGroup
    \/ SetReceiveTimeout
    \/ ResetStopFlag
    \/ InstallHandler
    \/ TestStopFlag
    \/ TestLimit
    \/ ReceiveNothing
    \/ ReceiveDatagram
    \/ SavePassivePacket
    \/ BuildFilename
    \/ WritePacketFile
    \/ CallbackThrows
    \/ Dispatch
    \/ Close
    \/ RemoveHandler
    \/ Resolve

Next ==
    \/ Main
    \/ \E t \in Thread : EventIsTaken(t)
    \/ \E t \in Thread : CtrlHandler(t)
    \/ EventKills
    \/ Tick

Spec == Init /\ [][Next]_vars

\* Main does not block, as Receive returns after a second at the latest; the
\* threads run; time goes on.
FairSpec ==
    /\ Spec
    /\ WF_vars(Main)
    /\ \A t \in Thread : WF_vars(CtrlHandler(t))
    /\ WF_vars(Tick)

-----------------------------------------------------------------------------
(* What must hold.                                                         *)

Locations == {"open", "join", "timeout", "reset", "install", "test", "limit",
              "receive", "capture", "name", "write", "dispatch", "close", "remove", "resolve"}

TypeOK ==
    /\ pc \in Locations \cup Over
    /\ duration \in Duration
    /\ elapsed \in 0 .. duration
    /\ stop \in BOOLEAN
    /\ installed \in BOOLEAN
    /\ threads \subseteq Thread
    /\ bound \in BOOLEAN
    /\ member \in BOOLEAN
    /\ pkt \in Traffic \cup {NoPacket}
    /\ fileCount \in 0 .. MaxFiles
    /\ again \in Nat
    /\ files \subseteq CaptureFile
    /\ registry \in Seq(Evidence)
    /\ late \in 0 .. MaxLate

\* Once Ctrl+C was handled, or the limit was reached, one more datagram is
\* received at the most, however many arrive and whenever the flag is
\* written (ListenPassive).
AtMostOneMore == late <= 1

Captured == {f.packet : f \in {g \in files : g.session = "this"}}

\* What the device list will be made of is on disk: every piece of evidence
\* is that of a packet captured in this session, and whoever was captured is
\* evidence unless the dispatch of the packet is still to come or was cut off
\* by an event, over captures that fail and devices that announce themselves
\* again (the callback of main, Analyze, Register).
CapturesMatchEvidence ==
    /\ \A k \in DOMAIN registry :
         \E p \in Captured : IsEvidence(p) /\ registry[k] = SsdpEvidence(p)
    /\ \A p \in Captured :
         IsEvidence(p) /\ (pc \in {"dispatch", "killed"} => p # pkt) =>
            \E k \in DOMAIN registry : SameKey(registry[k], SsdpEvidence(p))

\* No capture is ever overwritten, neither one of this session nor one of
\* an earlier one, although the numbers begin anew in each (BuildFilename).
CapturesAreKept == [][files \subseteq files']_vars

\* No two pieces of evidence are of the same device at the same address, over
\* any number of announcements (Register).
NoDoubles ==
    \A j, k \in DOMAIN registry : SameKey(registry[j], registry[k]) => j = k

\* Ctrl+C ends the listening, however much traffic there is: no handling of
\* the event is lost to the reset of the flag or between two tests of it
\* (ListenPassive, CtrlHandler).
StopsWhenTold == threads # {} ~> pc \in Over

\* So does the limit, when there is one.
LimitIsKept == duration > 0 => <>(pc \in Over)
=============================================================================
