------------------------ MODULE SemanticOrchestrator ------------------------
(***************************************************************************)
(* One call of SemanticOrchestrator::Orchestrate, the calls of the         *)
(* ExecutionEngine it makes, the exchanges of the transports with the      *)
(* device, and a thread that may set the cancel token at any time.         *)
(*                                                                         *)
(* The orchestrator reads the token between steps and between polls only;  *)
(* every such read is a step of its own here.  A poll of the wait loop and *)
(* a command over the network take time: the network exchanges are split   *)
(* at each point at which the device may have received something and the   *)
(* program not yet heard of it.  Nothing calls Orchestrate without an      *)
(* engine; that case is left out.                                          *)
(***************************************************************************)
EXTENDS ExecutionEngine

CONSTANTS
    Device,         \* availableDevices
    MaxWait,        \* bound: after so much waiting a wait policy gives up
    UnknownOutcome  \* what the transport registered for Unknown may report:
                    \* DummyTransport says Success, a real probe also fails

ASSUME OrchestratorAssumption ==
    /\ Device \subseteq LogicalDevice
    /\ MaxWait \in Nat \ {0}
    /\ UnknownOutcome \subseteq ExecutionStatus

VARIABLES
    phase,      \* where in Orchestrate, or in a transport, the thread is
    request,    \* the intent, the devices its description matches, and
                \* whether the parameters name an application
    target,     \* targetDevice
    step,       \* the current step of the plan
    waited,     \* how long its wait policy has been waiting
    call,       \* the route of the transport call, and which exchange it is in
    heard,      \* bytes of the current exchange, counted modulo 2
    cancelled,  \* the cancel token
    outcome,    \* running, or what Orchestrate returned
    executed,   \* history: the actions given to the engine as steps
    late,       \* history: how many of them after the token was set
    received    \* history: the commands that reached the device, with the
                \* step each belongs to

vars == <<phase, request, target, step, waited, call, heard, cancelled,
          outcome, executed, late, received>>

-----------------------------------------------------------------------------
(* Intents and plans.                                                      *)

\* The results of IntentCanonicalizer::Normalize.
Intent == (ActionId \ {"GetVolume", "Seek"}) \cup {"Unknown"}

\* CapabilityFilter::Filter; CheckReachable needs no capability.
RequiredCapability ==
    [PowerOn   |-> "PowerControl",   PowerOff   |-> "PowerControl",
     VolumeUp  |-> "VolumeControl",  VolumeDown |-> "VolumeControl",
     SetVolume |-> "VolumeControl",  Mute       |-> "Mute",
     Unmute    |-> "Mute",           Play       |-> "MediaPlayback",
     Pause     |-> "MediaPlayback",  Stop       |-> "MediaPlayback",
     Next      |-> "MediaTransport", Previous   |-> "MediaTransport",
     LaunchApplication |-> "ApplicationLaunching",
     SendKey           |-> "RemoteControl"]

Filter(devices, intent) ==
    {d \in devices :
        intent \in DOMAIN RequiredCapability => RequiredCapability[intent] \in d.caps}

\* A step waits until the device is reachable, or not at all: no template
\* uses another policy.
Step(action, isOptional, waits) ==
    [action |-> action, isOptional |-> isOptional, waits |-> waits]

\* WorkflowPlanner::CreatePlan; its retry policies are never looked at.
PlanOf(intent) ==
    CASE intent = "LaunchApplication" ->
            <<Step("PowerOn", TRUE, TRUE),
              Step("LaunchApplication", FALSE, FALSE)>>
      [] intent = "PowerOn" -> <<Step("PowerOn", FALSE, TRUE)>>
      [] OTHER -> <<Step(intent, FALSE, FALSE)>>

plan == PlanOf(request.intent)

NoDevice ==
    [ctrls |-> <<>>, mac |-> FALSE, dial |-> FALSE,
     services |-> [c \in Category |-> "absent"], eps |-> <<>>, caps |-> {}]

\* HttpClient follows so many redirects of a GET.
MAX_REDIRECTS == 3

NoCall == [route |-> Probe, exchange |-> "none", redirects |-> 0]

Running == "running"

SemanticError ==
    {"None", "DeviceNotFound", "AmbiguousTarget", "DeviceUnreachable",
     "MissingCapability", "WorkflowGenerationFailed", "ExecutionFailed",
     "Cancelled"}

Init ==
    /\ phase = "resolve"
    /\ request \in [intent : Intent, matched : SUBSET Device, named : BOOLEAN]
    /\ target = NoDevice
    /\ step = 1
    /\ waited = 0
    /\ call = NoCall
    /\ heard = 0
    /\ cancelled = FALSE
    /\ outcome = Running
    /\ executed = <<>>
    /\ late = 0
    /\ received = <<>>

-----------------------------------------------------------------------------
(* Orchestrate.                                                            *)

\* Orchestrate returns.
Finish(error) ==
    /\ phase' = "done"
    /\ outcome' = error
    /\ call' = NoCall
    /\ UNCHANGED step

Goto(p) ==
    /\ phase' = p
    /\ UNCHANGED <<outcome, step>>

Resolve ==
    LET valid == Filter(request.matched, request.intent)
        Refused(error) == Finish(error) /\ UNCHANGED target
    IN /\ phase = "resolve"
       /\ \/ /\ request.intent = "Unknown"
             /\ Refused("WorkflowGenerationFailed")
          \/ /\ request.intent # "Unknown" /\ request.matched = {}
             /\ Refused("DeviceNotFound")
          \/ /\ request.intent # "Unknown" /\ request.matched # {} /\ valid = {}
             /\ Refused("MissingCapability")
          \/ /\ request.intent # "Unknown"
             /\ \E d, e \in valid : d # e
             /\ Refused("AmbiguousTarget")
          \/ /\ request.intent # "Unknown"
             /\ \E d \in valid : valid = {d} /\ target' = d
             /\ Goto("preflight")
             /\ UNCHANGED call
       /\ UNCHANGED <<request, waited, heard, cancelled, executed, late, received>>

\* ExecutionEngine::Execute of CheckReachable.
ProbeStatus ==
    IF SelectRoute(target, "CheckReachable", "RenderingControl") = {}
    THEN Unroutable(target)
    ELSE IF GetTransport("Unknown") = "none" THEN {"TransportUnavailable"}
    ELSE UnknownOutcome

Preflight ==
    /\ phase = "preflight"
    /\ \E status \in ProbeStatus :
         IF status = "Success"
         THEN Goto("step") /\ UNCHANGED call
         ELSE Finish("DeviceUnreachable")
    /\ UNCHANGED <<request, target, waited, heard, cancelled, executed, late,
                   received>>

\* Fault: the token is not looked at between two steps.
StepBeginsUnasked ==
    /\ phase = "step"
    /\ Goto(IF plan[step].waits THEN "wait" ELSE "fire") /\ UNCHANGED call
    /\ waited' = 0
    /\ UNCHANGED <<request, target, heard, cancelled, executed, late, received>>

StepBegins ==
    /\ phase = "step"
    /\ IF cancelled
       THEN Finish("Cancelled")
       ELSE Goto(IF plan[step].waits THEN "wait" ELSE "fire") /\ UNCHANGED call
    /\ waited' = 0
    /\ UNCHANGED <<request, target, heard, cancelled, executed, late, received>>

\* One round of the wait loop; a probe and the pause after it take a while.
Poll ==
    /\ phase = "wait"
    /\ waited < MaxWait
    /\ IF cancelled
       THEN Finish("Cancelled") /\ UNCHANGED waited
       ELSE /\ \E status \in ProbeStatus :
                 IF status = "Success"
                 THEN Goto("fire") /\ UNCHANGED waited
                 ELSE Goto("wait") /\ waited' \in (waited + 1)..MaxWait
            /\ UNCHANGED call
    /\ UNCHANGED <<request, target, heard, cancelled, executed, late, received>>

WaitTimesOut ==
    /\ phase = "wait"
    /\ waited = MaxWait
    /\ IF plan[step].isOptional
       THEN Goto("fire") /\ UNCHANGED call
       ELSE Finish("DeviceUnreachable")
    /\ UNCHANGED <<request, target, waited, heard, cancelled, executed, late,
                   received>>

-----------------------------------------------------------------------------
(* ExecutionEngine::Execute of a step.                                     *)

\* Fault: the last step is missed.
ReturnPastEnd(status) ==
    /\ call' = NoCall
    /\ IF status # "Success" /\ ~ plan[step].isOptional
       THEN phase' = "done" /\ outcome' = "ExecutionFailed" /\ UNCHANGED step
       ELSE IF step > Len(plan)
       THEN phase' = "done" /\ outcome' = "None" /\ UNCHANGED step
       ELSE phase' = "step" /\ step' = step + 1 /\ UNCHANGED outcome

\* The engine's result, and what the orchestration loop makes of it.
Return(status) ==
    /\ call' = NoCall
    /\ IF status # "Success" /\ ~ plan[step].isOptional
       THEN phase' = "done" /\ outcome' = "ExecutionFailed" /\ UNCHANGED step
       ELSE IF step = Len(plan)
       THEN phase' = "done" /\ outcome' = "None" /\ UNCHANGED step
       ELSE phase' = "step" /\ step' = step + 1 /\ UNCHANGED outcome

\* What a transport refuses before it opens a socket.
Refusals(route) ==
    {status \in {"ExecutionFailed"} : route.transport = "DIAL" /\ ~ request.named}
    \cup {status \in {"TransportUnavailable"} :
             /\ route.url = "none"
             /\ \/ route.transport = "SOAP"
                \/ route.transport = "DIAL" /\ request.named}

\* DIAL asks for the Application-URL first if the endpoint has none.
CallOf(route) ==
    [route     |-> route,
     exchange  |-> IF route.url = "location" THEN "locate" ELSE "command",
     redirects |-> 0]

\* The route is taken as far as the first socket.  The category of the action
\* is whatever the memory held.
Dispatch(route) ==
    LET transport == GetTransport(route.transport)
    IN CASE transport = "none" -> Return("TransportUnavailable")
         [] transport = "Unknown" ->
               \E status \in UnknownOutcome : Return(status)
         [] OTHER ->
               \/ \E status \in Refusals(route) : Return(status)
               \/ /\ Refusals(route) = {}
                  /\ Goto("connect")
                  /\ call' = CallOf(route)

Fire ==
    /\ phase = "fire"
    /\ executed' = Append(executed, plan[step].action)
    /\ late' = late + (IF cancelled THEN 1 ELSE 0)
    /\ \E service \in Category :
         LET routes == SelectRoute(target, plan[step].action, service)
         IN \/ routes = {} /\ \E status \in Unroutable(target) : Return(status)
            \/ \E route \in routes : Dispatch(route)
    /\ UNCHANGED <<request, target, waited, heard, cancelled, received>>

-----------------------------------------------------------------------------
(* Transports.                                                             *)

\* The device gets the command of the call, or it does not.
Deliver ==
    received' \in {received} \cup
        {Append(received, [step |-> step, command |-> c]) :
            c \in {call.route.command} \ {Nothing}}

Transporting == UNCHANGED <<request, target, waited, cancelled, executed, late>>

\* WakeOnLANTransport: one datagram, which nobody confirms.
Broadcast ==
    /\ phase = "connect"
    /\ call.route.transport = "WakeOnLAN"
    /\ \/ Deliver /\ Return("Success")
       \/ Return("ExecutionFailed") /\ UNCHANGED received
    /\ UNCHANGED heard
    /\ Transporting

\* Connect, or the first Send, throws.
ConnectFails ==
    /\ phase = "connect"
    /\ call.route.transport # "WakeOnLAN"
    /\ Return("TransportUnavailable")
    /\ UNCHANGED <<heard, received>>
    /\ Transporting

\* The connection is up and the first request is out: the upgrade request of
\* a WebSocket, the GET that asks for the Application-URL, or the command.
Connect ==
    /\ phase = "connect"
    /\ call.route.transport # "WakeOnLAN"
    /\ IF call.route.transport = "WebSocket"
       THEN Goto("handshake") /\ UNCHANGED received
       ELSE /\ Goto("reply")
            /\ IF call.exchange = "locate" THEN UNCHANGED received ELSE Deliver
    /\ UNCHANGED <<call, heard>>
    /\ Transporting

\* Receive returned some bytes and the loop asks for more.  Its limit is per
\* call of Receive; nothing limits the loop, whatever request.timeoutMs says.
\* The answer over a WebSocket is one frame, which has a length.
ReceiveMore ==
    /\ \/ phase = "handshake"
       \/ phase = "reply" /\ call.route.transport # "WebSocket"
    /\ heard' = (heard + 1) % 2
    /\ UNCHANGED <<phase, step, outcome, call, received>>
    /\ Transporting

\* The upgrade response is complete, or the device closed the connection or
\* fell silent.  The command follows, if the strategy had one.
HandshakeEnds ==
    /\ phase = "handshake"
    /\ \/ Goto("reply") /\ Deliver /\ UNCHANGED call
       \/ /\ \E status \in {"ExecutionFailed", "TransportUnavailable"} :
                Return(status)
          /\ UNCHANGED received
    /\ heard' = 0
    /\ Transporting

\* DIALTransport: the answer to the GET has an Application-URL, or is a
\* redirect, or neither.
Located ==
    /\ phase = "reply"
    /\ call.exchange = "locate"
    /\ \/ Goto("connect") /\ call' = [call EXCEPT !.exchange = "command"]
       \/ /\ call.redirects < MAX_REDIRECTS
          /\ Goto("connect") /\ call' = [call EXCEPT !.redirects = @ + 1]
       \/ \E status \in {"ProtocolError", "TransportUnavailable", "Timeout"} :
            Return(status)
    /\ heard' = 0
    /\ UNCHANGED received
    /\ Transporting

\* The command of the current step has reached the device.
Delivered == \E k \in DOMAIN received : received[k].step = step

\* Fault: the retry policy is obeyed, and a request without an answer is sent
\* again.
ReplyEndsRetrying ==
    /\ phase = "reply"
    /\ call.exchange = "command"
    /\ \/ /\ Delivered \/ call.route.transport = "WebSocket"
          /\ \E status \in Verdicts(call.route.transport, call.route.command) :
                Return(status)
       \/ Goto("connect") /\ UNCHANGED call
    /\ heard' = 0
    /\ UNCHANGED received
    /\ Transporting

\* Over HTTP a device that did not get the request does not answer it.  The
\* first frame of a WebSocket need not be an answer: Samsung TVs announce the
\* channel.
ReplyEnds ==
    /\ phase = "reply"
    /\ call.exchange = "command"
    /\ \E status \in
            IF Delivered \/ call.route.transport = "WebSocket"
            THEN Verdicts(call.route.transport, call.route.command)
            ELSE {"TransportUnavailable"} :
         Return(status)
    /\ heard' = 0
    /\ UNCHANGED received
    /\ Transporting

-----------------------------------------------------------------------------
\* Another thread sets the token.
Cancel ==
    /\ phase # "done"
    /\ cancelled' = TRUE
    /\ UNCHANGED <<phase, request, target, step, waited, call, heard, outcome,
                   executed, late, received>>

\* The device stops sending: it has answered, closed the connection, or been
\* silent for the 15 seconds of SO_RCVTIMEO.
DeviceStops == HandshakeEnds \/ Located \/ ReplyEnds

Thread ==
    \/ Resolve
    \/ Preflight
    \/ StepBegins
    \/ Poll
    \/ WaitTimesOut
    \/ Fire
    \/ Broadcast
    \/ ConnectFails
    \/ Connect
    \/ ReceiveMore
    \/ DeviceStops

Next == Thread \/ Cancel

Spec == Init /\ [][Next]_vars

\* The thread of Orchestrate is scheduled.
LiveSpec == Spec /\ WF_vars(Thread)

\* And no device sends for ever.
FairSpec == LiveSpec /\ WF_vars(DeviceStops)

-----------------------------------------------------------------------------
(* What must hold.                                                         *)

CallType ==
    [route     : RouteType,
     exchange  : {"none", "locate", "command"},
     redirects : 0..MAX_REDIRECTS]

\* A command that reached the device, and the step it belongs to.
Message == [step : Nat, command : Command]

TypeOK ==
    /\ phase \in {"resolve", "preflight", "step", "wait", "fire", "connect",
                  "handshake", "reply", "done"}
    /\ request \in [intent : Intent, matched : SUBSET Device, named : BOOLEAN]
    /\ target \in Device \cup {NoDevice}
    /\ step \in 1..Len(plan)
    /\ waited \in 0..MaxWait
    /\ call \in CallType
    /\ heard \in {0, 1}
    /\ cancelled \in BOOLEAN
    /\ outcome \in SemanticError \cup {Running}
    /\ executed \in Seq(ActionId)
    /\ late \in {0, 1}
    /\ received \in Seq(Message)

\* The call keeps the promise of Workflow: steps in order, an answer that
\* fits what was begun, one late step at the most.
Promise == INSTANCE Workflow WITH length <- Len(plan), begun <- Len(executed)

KeepsPromise == Promise!AbstractSpec

\* The device is told each step once at the most and in the order of the plan,
\* never a step that was not begun, whatever becomes of the answers.
OncePerStep ==
    /\ \A j, k \in DOMAIN received : j < k => received[j].step < received[k].step
    /\ \A k \in DOMAIN received : received[k].step <= Len(executed)

\* What each command has a device do, as an action.  Reading the volume does
\* nothing to a device, nor does a key that it does not know.
Effect ==
    [MagicPacket |-> {"PowerOn"},    KEY_POWER   |-> {"PowerOff"},
     KEY_VOLUP   |-> {"VolumeUp"},   KEY_VOLDOWN |-> {"VolumeDown"},
     KEY_MUTE    |-> {"Mute"},       KEY_UNKNOWN |-> {},
     SetVolume   |-> {"SetVolume"},  GetVolume   |-> {},
     SetMuteOn   |-> {"Mute"},       SetMuteOff  |-> {"Unmute"},
     Play        |-> {"Play"},       Pause       |-> {"Pause"},
     Stop        |-> {"Stop"},       Next        |-> {"Next"},
     Previous    |-> {"Previous"},   Seek        |-> {"Seek"},
     Launch      |-> {"LaunchApplication"}]

\* Nothing is done to a device but the action of the step at hand, whichever
\* controller routed it (GetExecutionRoute, BuildRequest) and whatever the
\* uninitialised category held.  That it is done is SuccessMeansDone, below.
NothingElseIsDone ==
    \A k \in DOMAIN received :
        Effect[received[k].command] \subseteq {plan[received[k].step].action}

\* Orchestrate returns, if the device stops sending at some time.
Terminates == <>(phase = "done")

-----------------------------------------------------------------------------
(* What comments of the code say and the code does not do.                 *)

\* SemanticOrchestrator.h:27 returns "None on success": an exchange with a
\* device of which Orchestrate makes its success did what the step says.
SuccessMeansDone ==
    [][ phase = "reply" /\ outcome' = "None" =>
            \E k \in DOMAIN received :
                /\ received[k].step = step
                /\ plan[step].action \in Effect[received[k].command] ]_vars

\* ICommunicationTransport.h:18 has Execute "utilizing internal timeouts": a
\* call that was begun ends.
CallsEnd == phase \in {"handshake", "reply"} ~> phase \notin {"handshake", "reply"}
=============================================================================
