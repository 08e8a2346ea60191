------------------------------ MODULE Pairing ------------------------------
(***************************************************************************)
(* The validation scenarios of main.cpp and the pairing with a TV on the   *)
(* way: ExecutionValidator::RunScenario gives the engine one action after  *)
(* the other; ExecutionEngine::Execute has the AuthenticationManager       *)
(* inject what KnowledgeStore holds of the device, SamsungWebSocketStrategy*)
(* puts the token into the path, WebSocketTransport reads one frame, and   *)
(* the token in it comes back through onCredentialUpdated.                 *)
(*                                                                         *)
(* A TV grants tokens, forgets them, and asks its user about whoever       *)
(* brings none that it knows.  A frame arrives in pieces: each Receive     *)
(* returns some of the units that were asked for, or none after a timeout, *)
(* or throws.  ReceiveFrame does not look at how many came of the extended *)
(* length and the mask: what is missing is whatever the memory held.       *)
(* DoHandshake does not keep what its last Receive returned of the frames  *)
(* behind the upgrade: the first header may be looked for anywhere in      *)
(* them.                                                                   *)
(***************************************************************************)
EXTENDS ExecutionEngine, SequencesExt

CONSTANTS
    Id,         \* the ids of the logical devices
    DeviceOf,   \* the device with an id
    Devices,    \* logicalDevices, by id
    Scenarios,  \* what main has validated
    Token,      \* what TVs hand out
    NoToken,
    MaxLength   \* bound: lengths of a frame, garbage included

ASSUME PairingAssumption ==
    /\ DeviceOf \in [Id -> LogicalDevice]
    /\ Devices \in Seq(Id)
    /\ Scenarios \in Seq([capability : STRING, actions : Seq(ActionId) \ {<<>>}])
    /\ NoToken \notin Token
    /\ MaxLength \in Nat /\ MaxLength >= 5  \* an announcement, as it is

VARIABLES
    phase,        \* where RunScenario, or the transport, is
    scenario,     \* which scenario,
    target,       \*   its targetDevice
    action,       \*   and which of its actions
    path,         \* the token in the path of the WebSocket
    sent,         \* what the TV sends over the connection
    at,           \* where in it the next Receive begins
    frame,        \* what ReceiveFrame has read of the frame so far
    result,       \* the status of the last action
    credentials,  \* the auth_token of the entity of each device
    granted,      \* the tokens each TV honours
    issued,       \* history: those it ever handed out
    learnt,       \* history: the last that came whole in a frame that was read
    asked,        \* history: how often the user of each TV was asked
    executed      \* history: the actions given to the engine

tv == <<granted, issued, asked>>
validator == <<scenario, target, action>>
connection == <<path, sent, at, frame>>

vars == <<phase, validator, connection, result, credentials, tv, learnt, executed>>

-----------------------------------------------------------------------------
(* What a TV sends.                                                        *)

\* A unit is what Receive cannot part without making it unrecognisable: a
\* byte of the header, half of a field, a word of the text.
Unit(kind, value) == [kind |-> kind, value |-> value]

Header(length, extended, masked) ==
    <<Unit("length", [length |-> length, extended |-> extended, masked |-> masked])>>
    \o (IF extended THEN <<Unit("extended", 1), Unit("extended", 2)>> ELSE <<>>)
    \o (IF masked THEN <<Unit("mask", 1), Unit("mask", 2)>> ELSE <<>>)

Frame(opcode, text, extended, masked) ==
    <<Unit("opcode", opcode)>> \o Header(Len(text), extended, masked) \o text

\* A token is a text of its own: it may be cut in the middle.
Text(token) == <<Unit("first", token), Unit("rest", token)>>

Event(name) == <<Unit("event", name)>>

\* The announcement of the channel, with a token.
Announcement(token) ==
    Event("ms.channel.connect")
    \o <<Unit("mark", "token")>> \o Text(token) \o <<Unit("quote", "token")>>

Refusal == Unit("event", "ms.channel.unauthorized")

\* An event comes in one frame, alone, before another one, or after a ping;
\* or the TV closes the channel instead.
Replies(text) ==
    {Frame("text", text, extended, masked) : extended, masked \in BOOLEAN}
    \cup {Frame("text", text, TRUE, FALSE)
            \o Frame("text", Event("ed.edenTV.update"), FALSE, FALSE),
          Frame("ping", <<>>, FALSE, FALSE) \o Frame("text", text, TRUE, FALSE),
          Frame("close", Event("status"), FALSE, FALSE)}

-----------------------------------------------------------------------------
(* The pieces of the pairing.                                              *)

NoFrame ==
    [opcode |-> "none", length |-> 0, start |-> 1, extended |-> FALSE,
     masked |-> FALSE, garbled |-> FALSE]

\* KnowledgeStore::GetLoadedEntities has an entity for each device by now.
InjectCredentials(id) == credentials[id]

\* Fault: the key is only inserted.
UpdateCredentialsOnce(id, value) ==
    credentials' = [credentials EXCEPT ![id] = IF @ = <<>> THEN value ELSE @]

UpdateCredentials(id, value) ==
    credentials' = [credentials EXCEPT ![id] = value]

Places(text, kind, from) == {k \in DOMAIN text : k >= from /\ text[k].kind = kind}

\* find, as a set.
First(places) == {k \in places : \A j \in places : k <= j}

\* Fault: without a closing quote the rest of the text is taken.
TokensOrRest(text) ==
    UNION {{SubSeq(text, k + 1, j - 1) :
                j \in First(Places(text, "quote", k) \cup {Len(text) + 1})} :
            k \in First(Places(text, "mark", 1))}

\* ProcessResponse: the token in a text, as a set.
Tokens(text) ==
    UNION {{SubSeq(text, k + 1, j - 1) : j \in First(Places(text, "quote", k))} :
            k \in First(Places(text, "mark", 1))}

\* A text under a wrong mask.
Noise(text) == [k \in DOMAIN text |-> Unit("noise", "mask")]

\* The text of the frame as far as it came; the text of a close frame is
\* dropped.
Arrived ==
    IF frame.opcode = "close" THEN <<>>
    ELSE LET text == SubSeq(sent, frame.start, at - 1)
         IN IF frame.garbled THEN Noise(text) ELSE text

-----------------------------------------------------------------------------
(* ExecutionValidator::RunScenario.                                        *)

Init ==
    /\ phase = "scenario"
    /\ scenario = 1
    /\ target \in Id
    /\ action = 1
    /\ path = <<>>
    /\ sent = <<>>
    /\ at = 1
    /\ frame = NoFrame
    /\ result = "ExecutionFailed"
    /\ credentials = [id \in Id |-> <<>>]
    /\ granted = [id \in Id |-> {}]
    /\ issued = [id \in Id |-> {}]
    /\ learnt = [id \in Id |-> NoToken]
    /\ asked = [id \in Id |-> 0]
    /\ executed = <<>>

\* Fault: the next scenario begins at the action where the last ended.
NextScenarioHere ==
    /\ scenario' = scenario + 1
    /\ phase' = "scenario"
    /\ UNCHANGED <<target, action>>

NextScenario ==
    /\ scenario' = scenario + 1
    /\ action' = 1
    /\ phase' = "scenario"
    /\ UNCHANGED target

\* The first device that has the capability.
Capable(capability) ==
    First({k \in DOMAIN Devices : capability \in DeviceOf[Devices[k]].caps})

RunScenario ==
    /\ phase = "scenario"
    /\ scenario \in DOMAIN Scenarios
    /\ LET capable == Capable(Scenarios[scenario].capability)
       IN \/ capable = {} /\ NextScenario
          \/ \E k \in capable :
                /\ target' = Devices[k]
                /\ phase' = "execute"
                /\ UNCHANGED <<scenario, action>>
    /\ UNCHANGED <<connection, result, credentials, tv, learnt, executed>>

Done ==
    /\ phase = "scenario"
    /\ scenario \notin DOMAIN Scenarios
    /\ phase' = "done"
    /\ UNCHANGED <<validator, connection, result, credentials, tv, learnt, executed>>

\* Fault: an action that fails ends its scenario.
ReturnOrGiveUp(status) ==
    /\ result' = status
    /\ path' = <<>> /\ sent' = <<>> /\ at' = 1 /\ frame' = NoFrame
    /\ IF status = "Success" /\ action < Len(Scenarios[scenario].actions)
       THEN action' = action + 1 /\ phase' = "execute" /\ UNCHANGED <<scenario, target>>
       ELSE NextScenario

\* The engine returns; what it returns is only printed.
Return(status) ==
    /\ result' = status
    /\ path' = <<>> /\ sent' = <<>> /\ at' = 1 /\ frame' = NoFrame
    /\ IF action < Len(Scenarios[scenario].actions)
       THEN action' = action + 1 /\ phase' = "execute" /\ UNCHANGED <<scenario, target>>
       ELSE NextScenario

-----------------------------------------------------------------------------
(* ExecutionEngine::Execute.                                               *)

\* What comes of a route that is not a WebSocket's.
Elsewhere(route) ==
    LET transport == GetTransport(route.transport)
    IN CASE transport = "none"      -> {"TransportUnavailable"}
         [] transport = "Unknown"   -> {"Success"}
         [] transport = "WakeOnLAN" -> {"Success", "ExecutionFailed"}
         [] OTHER                   -> Verdicts(transport, route.command)

IsWebSocket(route) == GetTransport(route.transport) = "WebSocket"

\* The category of the action is whatever the memory held.
Execute ==
    /\ phase = "execute"
    /\ LET actionId == Scenarios[scenario].actions[action]
           device == DeviceOf[target]
       IN /\ executed' = Append(executed, [target |-> target, action |-> actionId])
          /\ \E service \in Category :
               LET routes == SelectRoute(device, actionId, service)
               IN \/ routes = {} /\ \E status \in Unroutable(device) : Return(status)
                  \/ \E route \in routes :
                        \/ ~ IsWebSocket(route) /\ \E status \in Elsewhere(route) : Return(status)
                        \/ IsWebSocket(route) /\ Return("TransportUnavailable")
                        \/ /\ IsWebSocket(route)
                           /\ path' = InjectCredentials(target)
                           /\ phase' = "handshake"
                           /\ UNCHANGED <<validator, sent, at, frame, result>>
    /\ UNCHANGED <<credentials, tv, learnt>>

-----------------------------------------------------------------------------
(* The TV.                                                                 *)

Answers(text) == sent' \in Replies(text) \cup {<<>>}

\* The Receive that returns the blank line may return any part of what the TV
\* has sent behind it; that part is not looked at again.
Upgraded ==
    /\ phase' = "header"
    /\ at' \in 1 .. Len(sent') + 1
    /\ UNCHANGED <<validator, path, frame, result, credentials, learnt, executed>>

Recognizes ==
    /\ phase = "handshake"
    /\ \E token \in granted[target] :
         /\ path = Text(token)
         /\ \/ Answers(Event("ms.channel.connect"))
            \/ Answers(Announcement(token))
    /\ Upgraded
    /\ UNCHANGED tv

Asks ==
    /\ \A token \in granted[target] : path # Text(token)
    /\ asked' = [asked EXCEPT ![target] = @ + 1]

UserAllows ==
    /\ phase = "handshake"
    /\ Asks
    /\ \E token \in Token \ UNION {issued[id] : id \in Id} :
         /\ granted' = [granted EXCEPT ![target] = @ \cup {token}]
         /\ issued' = [issued EXCEPT ![target] = @ \cup {token}]
         /\ Answers(Announcement(token))
    /\ Upgraded

UserDenies ==
    /\ phase = "handshake"
    /\ Asks
    /\ Answers(<<Refusal>>)
    /\ Upgraded
    /\ UNCHANGED <<granted, issued>>

\* A TV that forgets a token.
Revoke ==
    /\ phase # "done"
    /\ \E id \in Id : \E token \in granted[id] :
         granted' = [granted EXCEPT ![id] = @ \ {token}]
    /\ UNCHANGED <<phase, validator, connection, result, credentials, issued, asked,
                   learnt, executed>>

-----------------------------------------------------------------------------
(* WebSocketTransport::Execute, behind the upgrade request.                *)

\* The TV refuses the upgrade or closes the connection.
HandshakeFails ==
    /\ phase = "handshake"
    /\ Return("ExecutionFailed")
    /\ UNCHANGED <<credentials, tv, learnt, executed>>

\* A Receive throws.
ReceiveFails ==
    /\ \/ phase \in {"handshake", "header", "length", "mask"}
       \/ phase = "payload" /\ at - frame.start < frame.length
    /\ Return("TransportUnavailable")
    /\ UNCHANGED <<credentials, tv, learnt, executed>>

\* How much a Receive of so many units may return.
Pieces(wanted) == {n \in 0 .. wanted : at + n <= Len(sent) + 1}

\* What ReceiveFrame reads next of the frame.
Then(read) ==
    CASE phase = "header" /\ read.extended                 -> "length"
      [] phase = "header" /\ ~ read.extended /\ read.masked -> "mask"
      [] phase = "length" /\ read.masked                   -> "mask"
      [] OTHER                                             -> "payload"

Reading == UNCHANGED <<validator, path, sent, result, credentials, tv, learnt, executed>>

ReadHeader ==
    /\ phase = "header"
    /\ 2 \in Pieces(2)
    /\ sent[at].kind = "opcode"
    /\ LET length == sent[at + 1].value
           read == [opcode |-> sent[at].value, length |-> length.length, start |-> at + 2,
                    extended |-> length.extended, masked |-> length.masked,
                    garbled |-> FALSE]
       IN frame' = read /\ phase' = Then(read)
    /\ at' = at + 2
    /\ Reading

\* History: the token of the first announcement that is in a text as a whole.
LearntFrom(text) ==
    {text[k + 1].value : k \in {j \in First(Places(text, "mark", 1)) : j + 3 <= Len(text)}}

\* ProcessResponse.
Process(text) ==
    /\ Return(IF \E k \in DOMAIN text : text[k] = Refusal
              THEN "AuthenticationRequired" ELSE "Success")
    /\ \/ Tokens(text) = {} /\ UNCHANGED credentials
       \/ \E value \in Tokens(text) : UpdateCredentials(target, value)
    /\ learnt' = IF LearntFrom(text) = {} THEN learnt
                 ELSE [learnt EXCEPT ![target] = CHOOSE t \in LearntFrom(text) : TRUE]

\* ProcessResponse for what came of a frame, if anything did.
Response(text) ==
    /\ \/ text = <<>> /\ Return("AuthenticationRequired") /\ UNCHANGED <<credentials, learnt>>
       \/ text # <<>> /\ Process(text)
    /\ UNCHANGED <<tv, executed>>

\* How many units the two bytes of a header part or take up.
Spoilt(unit) == IF unit.kind \in {"length", "extended", "quote"} THEN 2 ELSE 1

\* A header that is looked for in the middle of a frame says anything: some
\* stretch behind it is taken for the text, with what is left of the unit it
\* parts or under a mask, or nothing is.
Misread ==
    /\ phase = "header"
    /\ at \in DOMAIN sent
    /\ sent[at].kind # "opcode"
    /\ \E start \in at + Spoilt(sent[at]) .. Len(sent) + 1 :
         \E end \in start - 1 .. Len(sent) :
            LET text == SubSeq(sent, start, end)
            IN Response(text) \/ Response(Noise(<<sent[at]>> \o text))

\* Fewer than two bytes: an empty response.
NoHeader ==
    /\ phase = "header"
    /\ Return("AuthenticationRequired")
    /\ UNCHANGED <<credentials, tv, learnt, executed>>

\* A length that no memory is there for, or that is no int.
Vast == MaxLength + 1

ReadLength ==
    /\ phase = "length"
    /\ \E n \in Pieces(2) :
         /\ at' = at + n
         /\ \E length \in IF n = 2 THEN {frame.length} ELSE 0 .. Vast :
              frame' = [frame EXCEPT !.length = length, !.start = at + n]
    /\ phase' = Then(frame)
    /\ Reading

ReadMask ==
    /\ phase = "mask"
    /\ \E n \in Pieces(2) :
         /\ at' = at + n
         /\ frame' = [frame EXCEPT !.start = at + n,
                          !.garbled = SubSeq(sent, at, at + n - 1)
                                          # <<Unit("mask", 1), Unit("mask", 2)>>]
    /\ phase' = Then(frame)
    /\ Reading

ReadPayload ==
    /\ phase = "payload"
    /\ frame.length # Vast
    /\ \E n \in Pieces(frame.length - (at - frame.start)) \ {0} : at' = at + n
    /\ UNCHANGED <<phase, frame>>
    /\ Reading

\* The vector throws, or Receive is asked for less than nothing.
NoMemory ==
    /\ phase = "payload"
    /\ frame.length = Vast
    /\ \E status \in {"TransportUnavailable", "AuthenticationRequired"} : Return(status)
    /\ UNCHANGED <<credentials, tv, learnt, executed>>

\* Fault: silence does not end the loop.
FrameEndsWhenFull ==
    /\ phase = "payload"
    /\ frame.length = at - frame.start
    /\ Response(Arrived)

\* All of the frame is there, or the TV is silent.
FrameEnds ==
    /\ phase = "payload"
    /\ frame.length # Vast
    /\ Response(Arrived)

-----------------------------------------------------------------------------
Program ==
    \/ RunScenario
    \/ Done
    \/ Execute
    \/ HandshakeFails
    \/ ReadHeader
    \/ Misread
    \/ NoHeader
    \/ ReadLength
    \/ ReadMask
    \/ ReadPayload
    \/ NoMemory
    \/ FrameEnds

Next ==
    \/ Program
    \/ ReceiveFails
    \/ Recognizes
    \/ UserAllows
    \/ UserDenies
    \/ Revoke

Spec == Init /\ [][Next]_vars

\* The program goes on: every Receive returns within the timeout of its
\* socket.  None has to throw.  The handshake is one step here, so that a TV
\* that sends its answer to the upgrade byte by byte for ever is assumed away
\* (CallsEnd of SemanticOrchestrator is about that one).
FairSpec == Spec /\ WF_vars(Program)

-----------------------------------------------------------------------------
(* What must hold.                                                         *)

FrameType ==
    [opcode : {"none", "text", "ping", "close"}, length : 0 .. Vast, start : Nat,
     extended : BOOLEAN, masked : BOOLEAN, garbled : BOOLEAN]

TypeOK ==
    /\ phase \in {"scenario", "execute", "handshake", "header", "length", "mask",
                  "payload", "done"}
    /\ scenario \in 1 .. Len(Scenarios) + 1
    /\ target \in Id
    /\ action \in Nat \ {0}
    /\ phase \notin {"scenario", "done"} => action \in DOMAIN Scenarios[scenario].actions
    /\ at \in 1 .. Len(sent) + 1
    /\ frame \in FrameType
    /\ result \in ExecutionStatus
    /\ DOMAIN credentials = Id
    /\ granted \in [Id -> SUBSET Token]
    /\ issued \in [Id -> SUBSET Token]
    /\ learnt \in [Id -> Token \cup {NoToken}]
    /\ asked \in [Id -> Nat]

\* What is stored as the token of a device is a token its own TV handed out,
\* as a whole, wherever the frame that brought it was cut and whatever stood
\* for its length and its mask (ReceiveFrame, ProcessResponse).
TokensAreWhole ==
    \A id \in Id :
        credentials[id] # <<>> => \E token \in issued[id] : credentials[id] = Text(token)

\* The user of a TV is not asked again while the TV honours the last token
\* that came whole in a frame that was read: that token is the one that is
\* stored, injected and carried (UpdateCredentials, InjectCredentials,
\* BuildRequest).  That each token is read is UpgradeTakesNoToken, below.
NotAskedAgain ==
    [][\A id \in Id : asked'[id] # asked[id] => learnt[id] \notin granted[id]]_vars

\* What a scenario has executed: its actions on the first device that has the
\* capability, if there is one.
Tried(s) ==
    LET capable == Capable(s.capability)
        device == Devices[CHOOSE k \in capable : TRUE]
    IN IF capable = {} THEN <<>>
       ELSE [j \in DOMAIN s.actions |-> [target |-> device, action |-> s.actions[j]]]

Planned == FlattenSeq([n \in DOMAIN Scenarios |-> Tried(Scenarios[n])])

\* Every scenario tries all its actions, once and in their order, on the first
\* device that has the capability, whatever becomes of each (RunScenario).
ActionsAreTried == phase = "done" => executed = Planned

\* The scenarios come to an end: a TV that falls silent in the middle of a
\* frame, or of a length that was never sent, ends the wait for the rest
\* (ReceiveFrame).
ScenariosEnd == <>(phase = "done")

-----------------------------------------------------------------------------
(* What comments of the code say and the code does not do.                 *)

\* WebSocketTransport.cpp:78, "Read the response until \r\n\r\n": the
\* handshake reads no further, so that no token is read away with it.
UpgradeTakesNoToken == phase = "header" => LearntFrom(SubSeq(sent, 1, at - 1)) = {}
=============================================================================
