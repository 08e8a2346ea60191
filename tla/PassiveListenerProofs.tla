------------------------ MODULE PassiveListenerProofs -----------------------
(***************************************************************************)
(* The listening mode, for every traffic, every number of events at a time *)
(* and every limit: what it registers is captured, no capture is           *)
(* overwritten, and it stops within one datagram.                          *)
(***************************************************************************)
EXTENDS PassiveListener, DescriptionProofs

\* A datagram received late is the one in hand, or the last: the loop does
\* not reach Receive again.  Lateness is not inductive without the reason the
\* listener is due, which neither the reset nor time takes back.
LateOnlyOnce ==
    /\ late <= 1
    /\ late = 1 => Due
    /\ late = 1 => pc \notin {"open", "join", "timeout", "reset", "install",
                              "receive"}
    /\ late = 1 /\ pc = "limit" => LimitReached

\* The name that was found free is still free when it is written to.
NameIsFree == pc = "write" => \A f \in files : f.name # candidate

\* There is a packet from Receive to the end of the callback.
InHand == pc \in {"capture", "name", "write", "dispatch"} => pkt \in Traffic

\* A packet that is to be dispatched has its file.
CapturedFirst == pc = "dispatch" => pkt \in Captured

IInv ==
    /\ TypeOK
    /\ LateOnlyOnce
    /\ NameIsFree
    /\ InHand
    /\ CapturedFirst
    /\ CapturesMatchEvidence
    /\ NoDoubles

-----------------------------------------------------------------------------
(* The initial states, and the steps that leave packets, captures and      *)
(* evidence alone.                                                         *)

LEMMA InitInvariant == Init => IInv
<1> SUFFICES ASSUME Init
             PROVE  IInv
  OBVIOUS
<1>1. TypeOK
  <2>1. duration \in Duration /\ elapsed \in 0 .. duration
    BY ListenerAssumption DEF Init
  <2>2. fileCount \in 0 .. MaxFiles /\ again \in Nat /\ late \in 0 .. MaxLate
    BY ListenerAssumption DEF Init
  <2>3. files \subseteq CaptureFile
    BY EarlierAssumption DEF Init
  <2>4. registry \in Seq(Evidence)
    BY DEF Init
  <2>. QED
    BY <2>1, <2>2, <2>3, <2>4 DEF Init, TypeOK, Locations
<1>2. Captured = {}
  BY EarlierAssumption DEF Init, Captured, CaptureFile
<1>3. CapturesMatchEvidence /\ NoDoubles
  BY <1>2 DEF Init, CapturesMatchEvidence, NoDoubles
<1>. QED
  BY <1>1, <1>3
  DEF Init, IInv, LateOnlyOnce, NameIsFree, InHand, CapturedFirst

InCallback == {"capture", "name", "write", "dispatch"}

Quiet ==
    \/ SocketFails
    \/ Open
    \/ JoinGroup
    \/ SetReceiveTimeout
    \/ ResetStopFlag
    \/ InstallHandler
    \/ TestStopFlag
    \/ TestLimit
    \/ ReceiveNothing
    \/ Close
    \/ RemoveHandler
    \/ Resolve
    \/ \E t \in Thread : EventIsTaken(t)
    \/ \E t \in Thread : CtrlHandler(t)
    \/ EventKills
    \/ Tick
    \/ UNCHANGED vars

LEMMA QuietFacts ==
    ASSUME Quiet
    PROVE  /\ UNCHANGED <<pkt, fileCount, again, files, registry, late>>
           /\ \/ pc' = pc
              \/ pc' \notin InCallback /\ pc \notin InCallback
              \/ pc' = "killed"
<1>1. UNCHANGED data
  BY DEF Quiet, SocketFails, Open, JoinGroup, SetReceiveTimeout, ResetStopFlag,
         InstallHandler, TestStopFlag, TestLimit, ReceiveNothing, Close,
         RemoveHandler, Resolve, EventIsTaken, CtrlHandler, EventKills, Tick,
         vars, data, captures
<1>2. \/ pc' = pc
      \/ pc' \notin InCallback /\ pc \notin InCallback
      \/ pc' = "killed"
  BY DEF Quiet, SocketFails, Open, JoinGroup, SetReceiveTimeout, ResetStopFlag,
         InstallHandler, TestStopFlag, TestLimit, ReceiveNothing, Close,
         RemoveHandler, Resolve, EventIsTaken, CtrlHandler, EventKills, Tick,
         vars, InCallback
<1>. QED
  BY <1>1, <1>2 DEF data, captures

LEMMA StepCases ==
    ASSUME [Next]_vars
    PROVE  \/ Quiet
           \/ ReceiveDatagram
           \/ SavePassivePacket
           \/ BuildFilename
           \/ WritePacketFile
           \/ CallbackThrows
           \/ Dispatch
  BY DEF Next, Main, Quiet

\* The name found free makes a write an addition.
LEMMA WriteAdds ==
    ASSUME IInv, WritePacketFile
    PROVE  /\ files' = files \cup {[name |-> candidate, session |-> "this",
                                    packet |-> pkt]}
           /\ Captured' = Captured \cup {pkt}
<1>1. files' = files \cup {[name |-> candidate, session |-> "this",
                            packet |-> pkt]}
  <2>1. \A f \in files : f.name # candidate
    BY DEF IInv, NameIsFree, WritePacketFile
  <2>2. {f \in files : f.name # candidate} = files
    BY <2>1
  <2>. QED
    BY <2>2 DEF WritePacketFile
<1> DEFINE new == [name |-> candidate, session |-> "this", packet |-> pkt]
           ours == {f \in files : f.session = "this"}
<1>2. new.session = "this" /\ new.packet = pkt
  OBVIOUS
<1>3. {f \in files' : f.session = "this"} = ours \cup {new}
  BY <1>1, <1>2
<1> HIDE DEF new, ours
<1>4. Captured' = {f.packet : f \in ours \cup {new}}
  BY <1>3 DEF Captured
<1>5. Captured = {f.packet : f \in ours}
  BY DEF Captured, ours
<1>6. {f.packet : f \in ours \cup {new}} = {f.packet : f \in ours} \cup {pkt}
  BY <1>2
<1>. QED
  BY <1>1, <1>4, <1>5, <1>6

LEMMA CapturedStays == ASSUME UNCHANGED files PROVE Captured' = Captured
  BY DEF Captured

-----------------------------------------------------------------------------
(* Types.                                                                  *)

LEMMA TypeStep == IInv /\ [Next]_vars => TypeOK'
<1> SUFFICES ASSUME IInv, [Next]_vars
             PROVE  TypeOK'
  OBVIOUS
<1> USE ListenerAssumption DEF IInv, TypeOK, Locations, Over
<1>1. CASE Quiet
  <2>1. /\ pkt' = pkt /\ fileCount' = fileCount /\ again' = again
        /\ files' = files /\ registry' = registry /\ late' = late
    BY <1>1, QuietFacts
  <2>2. pc' \in Locations \cup Over
    BY <1>1 DEF Quiet, SocketFails, Open, JoinGroup, SetReceiveTimeout,
         ResetStopFlag, InstallHandler, TestStopFlag, TestLimit,
         ReceiveNothing, Close, RemoveHandler, Resolve, EventIsTaken,
         CtrlHandler, EventKills, Tick, vars
  <2>3. duration' = duration /\ elapsed' \in 0 .. duration
    BY <1>1 DEF Quiet, SocketFails, Open, JoinGroup, SetReceiveTimeout,
         ResetStopFlag, InstallHandler, TestStopFlag, TestLimit,
         ReceiveNothing, Close, RemoveHandler, Resolve, EventIsTaken,
         CtrlHandler, EventKills, Tick, vars, clock
  <2>4. stop' \in BOOLEAN /\ installed' \in BOOLEAN /\ threads' \subseteq Thread
    BY <1>1 DEF Quiet, SocketFails, Open, JoinGroup, SetReceiveTimeout,
         ResetStopFlag, InstallHandler, TestStopFlag, TestLimit,
         ReceiveNothing, Close, RemoveHandler, Resolve, EventIsTaken,
         CtrlHandler, EventKills, Tick, vars, control
  <2>5. bound' \in BOOLEAN /\ member' \in BOOLEAN
    BY <1>1 DEF Quiet, SocketFails, Open, JoinGroup, SetReceiveTimeout,
         ResetStopFlag, InstallHandler, TestStopFlag, TestLimit,
         ReceiveNothing, Close, RemoveHandler, Resolve, EventIsTaken,
         CtrlHandler, EventKills, Tick, vars, socket
  <2>. QED
    BY <2>1, <2>2, <2>3, <2>4, <2>5
<1>2. CASE ReceiveDatagram
  BY <1>2 DEF ReceiveDatagram, clock, control, socket, captures
<1>3. CASE SavePassivePacket
  BY <1>3 DEF SavePassivePacket, clock, control, socket
<1>4. CASE BuildFilename
  BY <1>4 DEF BuildFilename, clock, control, socket
<1>5. CASE WritePacketFile
  <2>1. pkt \in Packet
    BY <1>5 DEF WritePacketFile, InHand
  <2>2. candidate \in FileName
    BY <2>1 DEF candidate, FileName, Packet
  <2>3. [name |-> candidate, session |-> "this", packet |-> pkt] \in CaptureFile
    BY <2>1, <2>2 DEF CaptureFile
  <2>4. files' \subseteq CaptureFile
    BY <1>5, <2>3, WriteAdds
  <2>. QED
    BY <1>5, <2>4 DEF WritePacketFile, clock, control, socket
<1>6. CASE CallbackThrows
  BY <1>6 DEF CallbackThrows, clock, control, socket, captures
<1>7. CASE Dispatch
  <2>1. pkt \in Packet /\ Unique(registry)
    BY <1>7 DEF Dispatch, InHand, NoDoubles, Unique
  <2>2. registry' \in Seq(Evidence)
    BY <1>7, <2>1, AnalyzeSsdpFacts DEF Dispatch
  <2>. QED
    BY <1>7, <2>2 DEF Dispatch, clock, control, socket, captures
<1>. QED
  BY <1>1, <1>2, <1>3, <1>4, <1>5, <1>6, <1>7, StepCases

-----------------------------------------------------------------------------
(* Lateness.                                                               *)

\* A due listener stays due once the loop has begun.
LEMMA DueStays ==
    ASSUME IInv, [Next]_vars, Due, pc \notin {"open", "join", "timeout", "reset", "install"}
    PROVE  Due'
<1> USE DEF IInv, TypeOK, Due, LimitReached
<1>1. duration' = duration
  BY DEF Next, Main, SocketFails, Open, JoinGroup, SetReceiveTimeout,
         ResetStopFlag, InstallHandler, TestStopFlag, TestLimit,
         ReceiveNothing, ReceiveDatagram, SavePassivePacket, BuildFilename,
         WritePacketFile, CallbackThrows, Dispatch, Close, RemoveHandler,
         Resolve, EventIsTaken, CtrlHandler, EventKills, Tick, vars, clock
<1>2. elapsed' = elapsed \/ elapsed' = elapsed + 1
  BY DEF Next, Main, SocketFails, Open, JoinGroup, SetReceiveTimeout,
         ResetStopFlag, InstallHandler, TestStopFlag, TestLimit,
         ReceiveNothing, ReceiveDatagram, SavePassivePacket, BuildFilename,
         WritePacketFile, CallbackThrows, Dispatch, Close, RemoveHandler,
         Resolve, EventIsTaken, CtrlHandler, EventKills, Tick, vars, clock
<1>3. stop' = stop \/ stop'
  BY DEF Next, Main, SocketFails, Open, JoinGroup, SetReceiveTimeout,
         ResetStopFlag, InstallHandler, TestStopFlag, TestLimit,
         ReceiveNothing, ReceiveDatagram, SavePassivePacket, BuildFilename,
         WritePacketFile, CallbackThrows, Dispatch, Close, RemoveHandler,
         Resolve, EventIsTaken, CtrlHandler, EventKills, Tick, vars, control
<1>4. duration \in Nat /\ elapsed \in Nat
  BY ListenerAssumption
<1>. QED
  BY <1>1, <1>2, <1>3, <1>4

LEMMA LateStep == IInv /\ [Next]_vars => LateOnlyOnce'
<1> SUFFICES ASSUME IInv, [Next]_vars
             PROVE  LateOnlyOnce'
  OBVIOUS
<1>0. /\ late \in 0 .. 1 /\ duration \in Nat /\ elapsed \in Nat
      /\ stop \in BOOLEAN /\ MaxLate \in Nat \ {0, 1}
  BY ListenerAssumption DEF IInv, TypeOK, LateOnlyOnce
<1>1. CASE ReceiveDatagram
  <2>1. late = 0
    BY <1>0, <1>1 DEF ReceiveDatagram, IInv, LateOnlyOnce
  <2>2. late' = IF Due THEN 1 ELSE 0
    BY <1>0, <1>1, <2>1 DEF ReceiveDatagram
  <2>3. Due' <=> Due
    BY <1>1 DEF ReceiveDatagram, clock, control, Due, LimitReached
  <2>4. pc' = "capture"
    BY <1>1 DEF ReceiveDatagram
  <2>. QED
    BY <2>2, <2>3, <2>4 DEF LateOnlyOnce
<1>2. CASE ~ ReceiveDatagram
  <2>1. late' = late
    BY <1>2, StepCases, QuietFacts
    DEF SavePassivePacket, BuildFilename, WritePacketFile, CallbackThrows,
        Dispatch
  <2>2. CASE late = 0
    BY <2>1, <2>2 DEF LateOnlyOnce
  <2>3. CASE late = 1
    <3>1. /\ Due
          /\ pc \notin {"open", "join", "timeout", "reset", "install", "receive"}
          /\ pc = "limit" => LimitReached
      BY <2>3 DEF IInv, LateOnlyOnce
    <3>2. Due'
      BY <3>1, DueStays
    <3>3. /\ pc' \notin {"open", "join", "timeout", "reset", "install", "receive"}
          /\ pc' = "limit" => pc = "limit" \/ (pc = "test" /\ ~ stop /\ TestStopFlag)
      BY <1>2, <3>1
      DEF Next, Main, SocketFails, Open, JoinGroup, SetReceiveTimeout,
         ResetStopFlag, InstallHandler, TestStopFlag, TestLimit,
         ReceiveNothing, SavePassivePacket, BuildFilename,
         WritePacketFile, CallbackThrows, Dispatch, Close, RemoveHandler,
         Resolve, EventIsTaken, CtrlHandler, EventKills, Tick, vars
    <3>4. ASSUME pc' = "limit"
          PROVE  LimitReached'
      <4>1. LimitReached
        BY <3>1, <3>3, <3>4 DEF Due
      <4>2. duration' = duration /\ elapsed' \in {elapsed, elapsed + 1}
        BY <1>2, <3>1
        DEF Next, Main, SocketFails, Open, JoinGroup, SetReceiveTimeout,
         ResetStopFlag, InstallHandler, TestStopFlag, TestLimit,
         ReceiveNothing, SavePassivePacket, BuildFilename,
         WritePacketFile, CallbackThrows, Dispatch, Close, RemoveHandler,
         Resolve, EventIsTaken, CtrlHandler, EventKills, Tick, vars, clock
      <4>. QED
        BY <1>0, <4>1, <4>2 DEF LimitReached
    <3>. QED
      BY <2>1, <2>3, <3>2, <3>3, <3>4 DEF LateOnlyOnce
  <2>. QED
    BY <1>0, <2>2, <2>3
<1>. QED
  BY <1>1, <1>2

-----------------------------------------------------------------------------
(* Captures and evidence.                                                  *)

LEMMA NameStep == IInv /\ [Next]_vars => (NameIsFree /\ InHand /\ CapturedFirst)'
<1> SUFFICES ASSUME IInv, [Next]_vars
             PROVE  (NameIsFree /\ InHand /\ CapturedFirst)'
  OBVIOUS
<1> USE DEF IInv, NameIsFree, InHand, CapturedFirst
<1>1. CASE Quiet
  <2>1. /\ UNCHANGED <<pkt, fileCount, again, files, registry, late>>
        /\ \/ pc' = pc
           \/ pc' \notin InCallback /\ pc \notin InCallback
           \/ pc' = "killed"
    BY <1>1, QuietFacts
  <2>2. candidate' = candidate /\ Captured' = Captured
    BY <2>1, CapturedStays DEF candidate
  <2>. QED
    BY <2>1, <2>2 DEF InCallback
<1>2. CASE ReceiveDatagram
  BY <1>2 DEF ReceiveDatagram
<1>3. CASE SavePassivePacket
  BY <1>3 DEF SavePassivePacket
<1>4. CASE BuildFilename
  <2>1. pc' \in {"name", "write"} /\ pkt' = pkt /\ files' = files
        /\ fileCount' = fileCount
    BY <1>4 DEF BuildFilename
  <2>2. pc' = "write" => /\ again' = again
                         /\ \A f \in files : f.name # candidate
    BY <1>4 DEF BuildFilename
  <2>3. pc' = "write" => candidate' = candidate
    BY <2>1, <2>2 DEF candidate
  <2>. QED
    BY <1>4, <2>1, <2>2, <2>3 DEF BuildFilename
<1>5. CASE WritePacketFile
  BY <1>5, WriteAdds DEF WritePacketFile
<1>6. CASE CallbackThrows
  BY <1>6 DEF CallbackThrows
<1>7. CASE Dispatch
  BY <1>7 DEF Dispatch
<1>. QED
  BY <1>1, <1>2, <1>3, <1>4, <1>5, <1>6, <1>7, StepCases

\* Packets, captures and evidence do not change, and the callback does not
\* end with a dispatch.
LEMMA EvidenceStays ==
    ASSUME IInv, UNCHANGED <<files, registry>>, pc # "dispatch" \/ UNCHANGED pkt,
           pc = "dispatch" => pc' \in {"dispatch", "killed"},
           pc = "killed" => pc' = "killed" /\ UNCHANGED pkt
    PROVE  CapturesMatchEvidence' /\ NoDoubles'
<1>1. Captured' = Captured
  BY CapturedStays
<1>. QED
  BY <1>1 DEF IInv, CapturesMatchEvidence, NoDoubles

LEMMA EvidenceStep == IInv /\ [Next]_vars => (CapturesMatchEvidence /\ NoDoubles)'
<1> SUFFICES ASSUME IInv, [Next]_vars
             PROVE  CapturesMatchEvidence' /\ NoDoubles'
  OBVIOUS
<1>1. CASE Quiet
  <2>1. /\ UNCHANGED <<pkt, fileCount, again, files, registry, late>>
        /\ \/ pc' = pc
           \/ pc' \notin InCallback /\ pc \notin InCallback
           \/ pc' = "killed"
    BY <1>1, QuietFacts
  <2>2. pc = "killed" => pc' = "killed"
    BY <1>1
    DEF Quiet, SocketFails, Open, JoinGroup, SetReceiveTimeout, ResetStopFlag,
        InstallHandler, TestStopFlag, TestLimit, ReceiveNothing, Close,
        RemoveHandler, Resolve, EventIsTaken, CtrlHandler, EventKills, Tick,
        vars, Over
  <2>. QED
    BY <2>1, <2>2, EvidenceStays DEF InCallback
<1>2. CASE ReceiveDatagram
  BY <1>2, EvidenceStays DEF ReceiveDatagram, captures
<1>3. CASE SavePassivePacket
  BY <1>3, EvidenceStays DEF SavePassivePacket
<1>4. CASE BuildFilename
  BY <1>4, EvidenceStays DEF BuildFilename
<1>5. CASE WritePacketFile
  <2>1. /\ Captured' = Captured \cup {pkt} /\ registry' = registry
        /\ pc = "write" /\ pc' = "dispatch" /\ pkt' = pkt
    BY <1>5, WriteAdds DEF WritePacketFile
  <2>. QED
    BY <2>1 DEF IInv, CapturesMatchEvidence, NoDoubles
<1>6. CASE CallbackThrows
  BY <1>6, EvidenceStays DEF CallbackThrows, captures
<1>7. CASE Dispatch
  <2>1. /\ pc = "dispatch" /\ pc' = "test" /\ files' = files
        /\ registry' = AnalyzeSsdp(registry, pkt)
    BY <1>7 DEF Dispatch, captures
  <2>2. Captured' = Captured /\ pkt \in Captured
    BY <2>1, CapturedStays DEF IInv, CapturedFirst
  <2>3. registry \in Seq(Evidence) /\ Unique(registry) /\ pkt \in Packet
    BY <2>1, ListenerAssumption DEF IInv, TypeOK, NoDoubles, Unique, InHand
  <2>4. /\ Unique(registry')
        /\ \A k \in DOMAIN registry' :
             \/ IsEvidence(pkt) /\ registry'[k] = SsdpEvidence(pkt)
             \/ k \in DOMAIN registry /\ registry'[k] = registry[k]
        /\ IsEvidence(pkt) =>
             \E k \in DOMAIN registry' : registry'[k] = SsdpEvidence(pkt)
        /\ \A j \in DOMAIN registry :
             \E k \in DOMAIN registry' : SameKey(registry'[k], registry[j])
    BY <2>1, <2>3, AnalyzeSsdpFacts
  <2>5. NoDoubles'
    BY <2>4 DEF NoDoubles, Unique
  <2>6. \A k \in DOMAIN registry' :
          \E p \in Captured : IsEvidence(p) /\ registry'[k] = SsdpEvidence(p)
    BY <2>2, <2>4 DEF IInv, CapturesMatchEvidence
  <2>7. ASSUME NEW p \in Captured, IsEvidence(p)
        PROVE  \E k \in DOMAIN registry' : SameKey(registry'[k], SsdpEvidence(p))
    <3>1. CASE p = pkt
      BY <2>4, <2>7, <3>1 DEF SameKey
    <3>2. CASE p # pkt
      <4>1. PICK j \in DOMAIN registry : SameKey(registry[j], SsdpEvidence(p))
        BY <2>7, <3>2 DEF IInv, CapturesMatchEvidence
      <4>2. PICK k \in DOMAIN registry' : SameKey(registry'[k], registry[j])
        BY <2>4
      <4>. QED
        BY <4>1, <4>2 DEF SameKey
    <3>. QED
      BY <3>1, <3>2
  <2>. QED
    BY <2>1, <2>2, <2>5, <2>6, <2>7 DEF CapturesMatchEvidence
<1>. QED
  BY <1>1, <1>2, <1>3, <1>4, <1>5, <1>6, <1>7, StepCases

-----------------------------------------------------------------------------
(* The theorems.                                                           *)

\* The invariant holds in every reachable state.
THEOREM Inductive == Spec => []IInv
<1>1. IInv /\ [Next]_vars => IInv'
  BY TypeStep, LateStep, NameStep, EvidenceStep DEF IInv
<1>. QED
  BY <1>1, InitInvariant, PTL DEF Spec

\* The listener stays within its types.
THEOREM TypeCorrect == Spec => []TypeOK
  BY Inductive, PTL DEF IInv

\* Once told to stop, or past its limit, the listener receives one datagram
\* more at the most, whatever the traffic and whenever the flag is written.
THEOREM StopsWithinOne == Spec => []AtMostOneMore
<1>1. IInv => AtMostOneMore
  BY DEF IInv, LateOnlyOnce, AtMostOneMore
<1>. QED
  BY <1>1, Inductive, PTL

\* The evidence of a session and its captures match.
THEOREM EvidenceIsCaptured == Spec => []CapturesMatchEvidence
  BY Inductive, PTL DEF IInv

\* No device is listed twice at one address.
THEOREM ListedOnce == Spec => []NoDoubles
  BY Inductive, PTL DEF IInv

\* No capture is overwritten, of this session or of an earlier one.
THEOREM NothingIsOverwritten == Spec => CapturesAreKept
<1>1. IInv /\ [Next]_vars => [files \subseteq files']_vars
  <2> SUFFICES ASSUME IInv, [Next]_vars
               PROVE  files \subseteq files'
    OBVIOUS
  <2>1. CASE WritePacketFile
    BY <2>1, WriteAdds
  <2>2. CASE ~ WritePacketFile
    BY <2>2, StepCases, QuietFacts
    DEF ReceiveDatagram, SavePassivePacket, BuildFilename, CallbackThrows,
        Dispatch, captures
  <2>. QED
    BY <2>1, <2>2
<1>. QED
  BY <1>1, Inductive, PTL DEF Spec, CapturesAreKept
=============================================================================
