-------------------------- MODULE OrchestratorProofs -------------------------
(***************************************************************************)
(* Theorems about SemanticOrchestrator, for every set of devices, of       *)
(* registered transports and every length of a wait: its types, the order  *)
(* in which a device is told the steps of a plan, and that Orchestrate     *)
(* keeps the promise of Workflow.                                          *)
(***************************************************************************)
EXTENDS SemanticOrchestrator, TLAPS

-----------------------------------------------------------------------------
(* The inductive invariant.                                                *)

\* The step at hand has not been given to the engine yet.
Before == {"resolve", "preflight", "step", "wait", "fire"}

\* It has, and a transport is at work.
Calling == {"connect", "handshake", "reply"}

Phase == Before \cup Calling \cup {"done"}

\* What was begun, what is at hand and what was answered fit.
Progress ==
    /\ phase \in Before => Len(executed) = step - 1 /\ outcome = Running
    /\ phase \in Calling => Len(executed) = step /\ outcome = Running
    /\ phase = "done" => outcome # Running
    /\ phase \in {"resolve", "preflight", "wait"} => step = 1
    /\ phase \notin {"resolve", "done"} => request.intent # "Unknown"

\* A step is begun late only where nobody has looked at the token since.
Lateness ==
    /\ late = 1 => cancelled
    /\ phase \in {"resolve", "preflight", "wait", "fire"} => late = 0

\* Only DIAL asks for the location first, and what it sends then is not the
\* command.
Locating == call.exchange = "locate" => call.route.transport = "DIAL"

\* The device has yet to get the command of the call.
Untold ==
    \/ phase = "connect"
    \/ phase = "handshake"
    \/ phase = "reply" /\ call.exchange = "locate"

NotYetTold ==
    Untold => \A k \in DOMAIN received : received[k].step < step

HandshakeIsWebSocket ==
    phase = "handshake" => call.route.transport = "WebSocket"

IInv ==
    /\ TypeOK
    /\ Progress
    /\ Lateness
    /\ Locating
    /\ HandshakeIsWebSocket
    /\ NotYetTold
    /\ OncePerStep

-----------------------------------------------------------------------------
(* Routes and plans.                                                       *)

\* Every route has a type, and only DIAL starts from a location.
GoodRoute(r) == r \in RouteType /\ (r.url = "location" => r.transport = "DIAL")

\* A device without anything is a device.
LEMMA NoDeviceIsDevice == NoDevice \in LogicalDevice
<1>1. <<>> \in Seq(Controller) /\ <<>> \in Seq(Endpoint)
  OBVIOUS
<1>2. [c \in Category |-> "absent"] \in
          [Category -> {"absent", "none", "control"}]
  OBVIOUS
<1>. QED
  BY <1>1, <1>2 DEF NoDevice, LogicalDevice

\* GetExecutionRoute of each controller returns good routes only.
LEMMA SamsungRouteIsGood ==
    ASSUME NEW device \in LogicalDevice, NEW action \in ActionId,
           NEW r \in SamsungRoute(device, action)
    PROVE  GoodRoute(r)
<1>1. Payload(action) \in Command \cup {Nothing}
  BY DEF Payload, KeyFromAction, Command
<1>2. r \in {Probe, Route("WakeOnLAN", "MagicPacket", "none"),
            Route("WebSocket", Payload(action), "none")}
  BY DEF SamsungRoute
<1>. QED
  BY <1>1, <1>2 DEF Probe, Route, Nothing, GoodRoute, RouteType, Command

LEMMA DialRouteIsGood ==
    ASSUME NEW device \in LogicalDevice,
           NEW indices \in SUBSET DOMAIN device.eps,
           NEW r \in DialRoute(device, indices)
    PROVE  GoodRoute(r)
<1>1. PICK k \in FirstOf(indices) : r = Route("DIAL", "Launch", device.eps[k].url)
  BY DEF DialRoute
<1>2. k \in DOMAIN device.eps /\ device.eps \in Seq(Endpoint)
  BY <1>1 DEF FirstOf, LogicalDevice
<1>3. device.eps[k] \in Endpoint
  BY <1>2
<1>. QED
  BY <1>1, <1>3 DEF Endpoint, Route, GoodRoute, RouteType, Command

LEMMA DLNARouteIsGood ==
    ASSUME NEW device \in LogicalDevice, NEW action \in ActionId,
           NEW service \in Category, NEW r \in DLNARoute(device, action, service)
    PROVE  GoodRoute(r)
<1>1. CASE r = Probe
  BY <1>1 DEF Probe, Route, Nothing, GoodRoute, RouteType, Command
<1>2. CASE r \in DialRoute(device, {k \in DOMAIN device.eps : device.eps[k].upnp})
  BY <1>2, DialRouteIsGood
<1>3. CASE \E a \in DOMAIN SoapAction[service] :
              /\ r = Route("SOAP", SoapAction[service][a], device.services[service])
              /\ device.services[service] # "absent"
  <2>1. PICK a \in DOMAIN SoapAction[service] :
           /\ r = Route("SOAP", SoapAction[service][a], device.services[service])
           /\ device.services[service] # "absent"
    BY <1>3
  <2>2. device.services[service] \in {"none", "control"}
    BY <2>1 DEF LogicalDevice
  <2>3. SoapAction[service][a] \in Command
    <3>1. CASE service = "RenderingControl"
      <4>1. /\ a \in {"SetVolume", "GetVolume", "VolumeUp", "VolumeDown", "Mute",
                      "Unmute"}
            /\ SoapAction[service] = SoapAction["RenderingControl"]
        BY <2>1, <3>1 DEF SoapAction
      <4>. QED
        BY <4>1 DEF SoapAction, Command
    <3>2. CASE service = "AVTransport"
      <4>1. /\ a \in {"Play", "Pause", "Stop", "Next", "Previous", "Seek"}
            /\ SoapAction[service] = SoapAction["AVTransport"]
        BY <2>1, <3>2 DEF SoapAction
      <4>. QED
        BY <4>1 DEF SoapAction, Command
    <3>. QED
      BY <3>1, <3>2 DEF Category
  <2>. QED
    BY <2>1, <2>2, <2>3 DEF Route, GoodRoute, RouteType, Command
<1>. QED
  BY <1>1, <1>2, <1>3 DEF DLNARoute

LEMMA UnknownRouteIsGood ==
    ASSUME NEW device \in LogicalDevice, NEW action \in ActionId,
           NEW r \in UnknownRoute(device, action)
    PROVE  GoodRoute(r)
<1>1. CASE r = Probe
  BY <1>1 DEF Probe, Route, Nothing, GoodRoute, RouteType, Command
<1>2. CASE r \in DialRoute(device,
                   {k \in DOMAIN device.eps :
                      /\ device.eps[k].upnp
                      /\ device.eps[k].dial \/ device.eps[k].url = "application"})
  BY <1>2, DialRouteIsGood
<1>. QED
  BY <1>1, <1>2 DEF UnknownRoute

\* So does SelectRoute.
LEMMA RoutesAreGood ==
    ASSUME NEW device \in LogicalDevice, NEW action \in ActionId,
           NEW service \in Category, NEW r \in SelectRoute(device, action, service)
    PROVE  GoodRoute(r)
<1>1. PICK k \in DOMAIN device.ctrls :
         r \in GetExecutionRoute(device.ctrls[k], device, action, service)
  BY DEF SelectRoute, FirstOf
<1>2. device.ctrls[k] \in Controller
  BY <1>1 DEF LogicalDevice
<1>. QED
  BY <1>1, <1>2, SamsungRouteIsGood, DLNARouteIsGood, UnknownRouteIsGood
  DEF GetExecutionRoute, Controller

\* A route that carries a command carries one that does nothing but the action.
DoesOnly(r, action) == r.command # Nothing => Effect[r.command] \subseteq {action}

LEMMA ProbeDoesOnly == ASSUME NEW action PROVE DoesOnly(Probe, action)
  BY DEF Probe, Route, DoesOnly

LEMMA SamsungRouteDoesOnly ==
    ASSUME NEW device, NEW action \in ActionId, NEW r \in SamsungRoute(device, action)
    PROVE  DoesOnly(r, action)
<1>1. CASE r = Probe
  BY <1>1, ProbeDoesOnly
<1>2. CASE action = "PowerOn" /\ r = Route("WakeOnLAN", "MagicPacket", "none")
  BY <1>2 DEF Route, DoesOnly, Effect
<1>3. CASE action \in SamsungKeyed /\ r = Route("WebSocket", Payload(action), "none")
  <2>1. CASE action = "SetVolume"
    BY <1>3, <2>1 DEF Route, DoesOnly, Payload, KeyFromAction
  <2>2. CASE action \in {"PowerOff", "SendKey", "VolumeUp", "VolumeDown", "Mute"}
    BY <1>3, <2>2 DEF Route, DoesOnly, Payload, KeyFromAction, Effect
  <2>. QED
    BY <1>3, <2>1, <2>2 DEF SamsungKeyed, KeyFromAction
<1>. QED
  BY <1>1, <1>2, <1>3 DEF SamsungRoute

LEMMA DialRouteDoesOnly ==
    ASSUME NEW device, NEW indices, NEW r \in DialRoute(device, indices)
    PROVE  DoesOnly(r, "LaunchApplication")
  BY DEF DialRoute, Route, DoesOnly, Effect

LEMMA SoapActionDoesOnly ==
    ASSUME NEW service \in Category, NEW action \in DOMAIN SoapAction[service]
    PROVE  Effect[SoapAction[service][action]] \subseteq {action}
<1>1. CASE service = "RenderingControl"
  <2>1. /\ action \in {"SetVolume", "GetVolume", "VolumeUp", "VolumeDown", "Mute",
                        "Unmute"}
        /\ SoapAction[service] = SoapAction["RenderingControl"]
    BY <1>1 DEF SoapAction
  <2>. QED
    BY <2>1 DEF SoapAction, Effect
<1>2. CASE service = "AVTransport"
  <2>1. /\ action \in {"Play", "Pause", "Stop", "Next", "Previous", "Seek"}
        /\ SoapAction[service] = SoapAction["AVTransport"]
    BY <1>2 DEF SoapAction
  <2>. QED
    BY <2>1 DEF SoapAction, Effect
<1>. QED
  BY <1>1, <1>2 DEF Category

LEMMA DLNARouteDoesOnly ==
    ASSUME NEW device, NEW action \in ActionId,
           NEW service \in Category, NEW r \in DLNARoute(device, action, service)
    PROVE  DoesOnly(r, action)
<1>1. CASE r = Probe
  BY <1>1, ProbeDoesOnly
<1>2. CASE /\ r \in DialRoute(device, {k \in DOMAIN device.eps : device.eps[k].upnp})
           /\ action = "LaunchApplication"
  BY <1>2, DialRouteDoesOnly
<1>3. CASE /\ action \in DOMAIN SoapAction[service]
           /\ r = Route("SOAP", SoapAction[service][action], device.services[service])
  BY <1>3, SoapActionDoesOnly DEF Route, DoesOnly
<1>. QED
  BY <1>1, <1>2, <1>3 DEF DLNARoute

LEMMA UnknownRouteDoesOnly ==
    ASSUME NEW device, NEW action \in ActionId, NEW r \in UnknownRoute(device, action)
    PROVE  DoesOnly(r, action)
<1>1. CASE r = Probe
  BY <1>1, ProbeDoesOnly
<1>2. CASE /\ r \in DialRoute(device,
                       {k \in DOMAIN device.eps :
                          /\ device.eps[k].upnp
                          /\ device.eps[k].dial \/ device.eps[k].url = "application"})
           /\ action = "LaunchApplication"
  BY <1>2, DialRouteDoesOnly
<1>. QED
  BY <1>1, <1>2 DEF UnknownRoute

\* Whichever controller routes an action, and whatever the category says.
LEMMA RoutesDoOnly ==
    ASSUME NEW device \in LogicalDevice, NEW action \in ActionId,
           NEW service \in Category, NEW r \in SelectRoute(device, action, service)
    PROVE  DoesOnly(r, action)
<1>1. PICK k \in DOMAIN device.ctrls :
         r \in GetExecutionRoute(device.ctrls[k], device, action, service)
  BY DEF SelectRoute, FirstOf
<1>2. device.ctrls[k] \in Controller
  BY <1>1 DEF LogicalDevice
<1>. QED
  BY <1>1, <1>2, SamsungRouteDoesOnly, DLNARouteDoesOnly, UnknownRouteDoesOnly
  DEF GetExecutionRoute, Controller

\* A plan has steps, they are actions once the intent is known, and only the
\* first of them waits without being optional.
LEMMA PlanFacts ==
    ASSUME NEW intent \in Intent
    PROVE  /\ Len(PlanOf(intent)) \in Nat \ {0}
           /\ intent # "Unknown" =>
                \A k \in 1..Len(PlanOf(intent)) : PlanOf(intent)[k].action \in ActionId
           /\ \A k \in 1..Len(PlanOf(intent)) : PlanOf(intent)[k].waits => k = 1
<1>1. CASE intent = "LaunchApplication"
  <2>1. /\ Len(PlanOf(intent)) = 2
        /\ PlanOf(intent)[1] = Step("PowerOn", TRUE, TRUE)
        /\ PlanOf(intent)[2] = Step("LaunchApplication", FALSE, FALSE)
    BY <1>1 DEF PlanOf
  <2>2. \A k \in 1..2 : k = 1 \/ k = 2
    OBVIOUS
  <2>3. /\ PlanOf(intent)[1].action \in ActionId
        /\ PlanOf(intent)[2].action \in ActionId
    BY <2>1 DEF Step, ActionId
  <2>4. ~ PlanOf(intent)[2].waits
    BY <2>1 DEF Step
  <2>5. \A k \in 1..2 : PlanOf(intent)[k].waits => k = 1
    BY <2>2, <2>4, Zenon
  <2>6. \A k \in 1..2 : PlanOf(intent)[k].action \in ActionId
    BY <2>2, <2>3, Zenon
  <2>. QED
    BY <2>1, <2>5, <2>6
<1>2. CASE intent # "LaunchApplication"
  <2>1. /\ Len(PlanOf(intent)) = 1
        /\ \/ PlanOf(intent)[1] = Step("PowerOn", FALSE, TRUE)
           \/ PlanOf(intent)[1] = Step(intent, FALSE, FALSE)
    BY <1>2 DEF PlanOf
  <2>2. \A k \in 1..1 : k = 1
    OBVIOUS
  <2>3. intent # "Unknown" => PlanOf(intent)[1].action \in ActionId
    BY <2>1 DEF Step, Intent, ActionId
  <2>. QED
    BY <2>1, <2>2, <2>3
<1>. QED
  BY <1>1, <1>2

-----------------------------------------------------------------------------
(* The invariant is inductive.                                             *)

\* What a result of the engine does to the call of Orchestrate.
LEMMA ReturnFacts ==
    ASSUME TypeOK, NEW status, Return(status)
    PROVE  /\ call' = NoCall
           /\ \/ phase' = "done" /\ outcome' = "ExecutionFailed" /\ step' = step
              \/ /\ phase' = "done" /\ outcome' = "None" /\ step' = step
                 /\ step = Len(plan)
              \/ /\ phase' = "step" /\ outcome' = outcome /\ step' = step + 1
                 /\ step < Len(plan)
<1>1. \/ phase' = "done" /\ outcome' = "ExecutionFailed" /\ step' = step
      \/ /\ phase' = "done" /\ outcome' = "None" /\ step' = step
         /\ step = Len(plan)
      \/ /\ phase' = "step" /\ outcome' = outcome /\ step' = step + 1
         /\ step # Len(plan)
  BY Zenon DEF Return
<1>2. Len(plan) \in Nat /\ step \in 1..Len(plan)
  BY PlanFacts DEF TypeOK, plan
<1>. QED
  BY <1>1, <1>2 DEF Return

\* The plan is determined by the request.
LEMMA PlanStays ==
    ASSUME TypeOK, UNCHANGED request
    PROVE  /\ plan' = plan
           /\ Len(plan) \in Nat \ {0}
           /\ step \in 1..Len(plan)
           /\ request.intent # "Unknown" => plan[step].action \in ActionId
           /\ plan[step].waits => step = 1
<1>1. plan' = plan
  BY DEF plan
<1>2. request.intent \in Intent /\ step \in 1..Len(plan)
  BY DEF TypeOK
<1>3. /\ Len(plan) \in Nat \ {0}
      /\ request.intent # "Unknown" => plan[step].action \in ActionId
  BY <1>2, PlanFacts DEF plan
<1>4. plan[step].waits => step = 1
  BY <1>2, PlanFacts, Zenon DEF plan
<1>. QED
  BY <1>1, <1>2, <1>3, <1>4

LEMMA NoCallIsTyped == NoCall \in CallType /\ NoCall.exchange = "none"
  BY DEF NoCall, MAX_REDIRECTS, CallType, RouteType, Probe, Route, Nothing, Command

LEMMA InitHolds == Init => IInv
<1>. SUFFICES ASSUME Init PROVE IInv
  OBVIOUS
<1>1. step \in 1..Len(plan)
  BY PlanFacts DEF Init, plan
<1>2. TypeOK
  <2>1. request \in [intent : Intent, matched : SUBSET Device, named : BOOLEAN]
    BY DEF Init
  <2>2. executed \in Seq(ActionId) /\ received \in Seq(Message)
    BY DEF Init
  <2>3. waited \in 0..MaxWait
    BY OrchestratorAssumption DEF Init
  <2>. QED
    BY <1>1, <2>1, <2>2, <2>3, NoCallIsTyped DEF Init, TypeOK
<1>3. Progress /\ Lateness /\ Locating /\ HandshakeIsWebSocket
  BY NoCallIsTyped DEF Init, Progress, Lateness, Locating, HandshakeIsWebSocket,
     Before, Calling
<1>4. NotYetTold /\ OncePerStep
  BY DEF Init, NotYetTold, OncePerStep, Untold
<1>. QED
  BY <1>2, <1>3, <1>4 DEF IInv

\* The actions of Orchestrate that neither begin a step nor talk to a device.
Deciding == Resolve \/ Preflight \/ StepBegins \/ Poll \/ WaitTimesOut

\* What they may do: go on, stop because of the token, or refuse the first step.
Decided ==
    /\ phase \in {"resolve", "preflight", "step", "wait"}
    /\ target' \in Device \cup {NoDevice}
    /\ waited' \in 0..MaxWait
    /\ call' \in {call, NoCall}
    /\ \/ /\ phase' \in {"preflight", "step", "wait", "fire"}
          /\ phase' = "preflight" => phase = "resolve"
          /\ phase' = "wait" => step = 1
          /\ phase = "step" => ~ cancelled
          /\ UNCHANGED outcome
          /\ request.intent # "Unknown"
       \/ phase' = "done" /\ outcome' = "Cancelled" /\ cancelled
       \/ phase' = "done" /\ outcome' \in Promise!Refusal /\ step = 1

LEMMA DecidingFacts ==
    ASSUME IInv, Deciding
    PROVE  /\ UNCHANGED <<request, step, heard, cancelled, executed, late, received>>
           /\ Decided
<1>. USE DEF Decided
<1>1. UNCHANGED <<request, step, heard, cancelled, executed, late, received>>
  BY DEF Deciding, Resolve, Preflight, StepBegins, Poll, WaitTimesOut, Goto, Finish
<1>2. TypeOK /\ Progress
  BY DEF IInv
<1>3. ASSUME Resolve PROVE Decided
  <2>. Filter(request.matched, request.intent) \subseteq Device
    BY <1>2 DEF TypeOK, Filter
  <2>. QED
    BY <1>2, <1>3 DEF Resolve, Goto, Finish, TypeOK, Progress, Promise!Refusal
<1>4. ASSUME Preflight PROVE Decided
  BY <1>2, <1>4 DEF Preflight, Goto, Finish, TypeOK, Progress, Promise!Refusal
<1>5. ASSUME StepBegins PROVE Decided
  <2>1. plan[step].waits => step = 1
    BY <1>1, <1>2, PlanStays
  <2>2. 0 \in 0..MaxWait
    BY OrchestratorAssumption
  <2>3. CASE cancelled
    BY <1>2, <1>5, <2>2, <2>3 DEF StepBegins, Finish, TypeOK
  <2>4. CASE ~ cancelled /\ plan[step].waits
    <3>1. step = 1
      BY <2>1, <2>4
    <3>2. phase' = "wait"
      BY <1>5, <2>4, Zenon DEF StepBegins, Goto
    <3>. QED
      BY <1>2, <1>5, <2>2, <2>4, <3>1, <3>2 DEF StepBegins, Goto, TypeOK, Progress
  <2>5. CASE ~ cancelled /\ ~ plan[step].waits
    <3>1. phase' = "fire"
      BY <1>5, <2>5, Zenon DEF StepBegins, Goto
    <3>. QED
      BY <1>2, <1>5, <2>2, <2>5, <3>1 DEF StepBegins, Goto, TypeOK, Progress
  <2>. QED
    BY <2>3, <2>4, <2>5
<1>6. ASSUME Poll PROVE Decided
  <2>1. waited' \in 0..MaxWait
    BY <1>2, <1>6, OrchestratorAssumption DEF Poll, TypeOK
  <2>. QED
    BY <1>2, <1>6, <2>1 DEF Poll, Goto, Finish, TypeOK, Progress
<1>7. ASSUME WaitTimesOut PROVE Decided
  <2>1. \/ Goto("fire") /\ UNCHANGED call
        \/ Finish("DeviceUnreachable")
    BY <1>7, Zenon DEF WaitTimesOut
  <2>2. phase = "wait" /\ UNCHANGED <<target, waited>>
    BY <1>7 DEF WaitTimesOut
  <2>. QED
    BY <1>2, <2>1, <2>2 DEF Goto, Finish, TypeOK, Progress, Promise!Refusal
<1>. QED
  BY <1>1, <1>3, <1>4, <1>5, <1>6, <1>7 DEF Deciding

LEMMA DecidingPreserves == ASSUME IInv, Deciding PROVE IInv'
<1>1. /\ UNCHANGED <<request, step, heard, cancelled, executed, late, received>>
      /\ Decided
  BY DecidingFacts
<1>2. TypeOK /\ plan' = plan
  BY <1>1, PlanStays DEF IInv
<1>3. phase' \in {"preflight", "step", "wait", "fire", "done"}
  BY <1>1 DEF Decided
<1>4. TypeOK'
  <2>1. outcome' \in SemanticError \cup {Running}
    BY <1>1, <1>2 DEF Decided, TypeOK, SemanticError, Promise!Refusal
  <2>2. call' \in CallType
    BY <1>1, <1>2, NoCallIsTyped DEF Decided, TypeOK
  <2>3. target' \in Device \cup {NoDevice} /\ waited' \in 0..MaxWait
    BY <1>1 DEF Decided
  <2>. QED
    BY <1>1, <1>2, <1>3, <2>1, <2>2, <2>3 DEF TypeOK
<1>5. Progress'
  BY <1>1, <1>2 DEF IInv, Progress, Decided, Before, Calling, SemanticError,
     Running, Promise!Refusal
<1>6. Lateness'
  BY <1>1, <1>2 DEF IInv, Lateness, Decided, TypeOK
<1>7. Locating' /\ HandshakeIsWebSocket'
  BY <1>1, <1>3, NoCallIsTyped DEF IInv, Locating, HandshakeIsWebSocket, Decided
<1>8. NotYetTold'
  BY <1>3 DEF NotYetTold, Untold
<1>9. OncePerStep'
  BY <1>1 DEF IInv, OncePerStep
<1>. QED
  BY <1>4, <1>5, <1>6, <1>7, <1>8, <1>9 DEF IInv

\* Whatever routing finds, the engine returns at once or opens a connection
\* for a good route.
LEMMA FireFacts ==
    ASSUME IInv, Fire
    PROVE  /\ phase = "fire"
           /\ UNCHANGED <<request, target, waited, heard, cancelled, received>>
           /\ executed' = Append(executed, plan[step].action)
           /\ late' = late + (IF cancelled THEN 1 ELSE 0)
           /\ \/ \E status : Return(status)
              \/ /\ phase' = "connect" /\ UNCHANGED <<outcome, step>>
                 /\ \E r : /\ GoodRoute(r) /\ DoesOnly(r, plan[step].action)
                           /\ call' = CallOf(r)
<1>1. /\ phase = "fire"
      /\ UNCHANGED <<request, target, waited, heard, cancelled, received>>
      /\ executed' = Append(executed, plan[step].action)
      /\ late' = late + (IF cancelled THEN 1 ELSE 0)
  BY DEF Fire
<1>2. target \in LogicalDevice /\ plan[step].action \in ActionId
  BY <1>1, PlanStays, NoDeviceIsDevice, OrchestratorAssumption
  DEF IInv, TypeOK, Progress
<1>3. PICK service \in Category :
         \/ \E status : Return(status)
         \/ \E r \in SelectRoute(target, plan[step].action, service) : Dispatch(r)
  BY Zenon DEF Fire
<1>4. CASE \E status : Return(status)
  BY <1>1, <1>4
<1>5. ASSUME NEW r \in SelectRoute(target, plan[step].action, service), Dispatch(r)
      PROVE  \/ \E status : Return(status)
             \/ /\ phase' = "connect" /\ UNCHANGED <<outcome, step>>
                /\ \E rr : /\ GoodRoute(rr) /\ DoesOnly(rr, plan[step].action)
                           /\ call' = CallOf(rr)
  <2>1. GoodRoute(r) /\ DoesOnly(r, plan[step].action)
    BY <1>2, RoutesAreGood, RoutesDoOnly
  <2>2. \/ \E status : Return(status)
        \/ /\ Goto("connect")
           /\ call' = CallOf(r)
    <3>. DEFINE transport == GetTransport(r.transport)
    <3>1. CASE transport = "none"
      BY <1>5, <3>1, Zenon DEF Dispatch
    <3>2. CASE transport = "Unknown"
      BY <1>5, <3>2 DEF Dispatch
    <3>3. CASE transport \notin {"none", "Unknown"}
      BY <1>5, <3>3 DEF Dispatch
    <3>. QED
      BY <3>1, <3>2, <3>3
  <2>. QED
    BY <2>1, <2>2 DEF Goto
<1>. QED
  BY <1>1, <1>3, <1>4, <1>5

LEMMA FirePreserves == ASSUME IInv, Fire PROVE IInv'
<1>1. /\ phase = "fire"
      /\ UNCHANGED <<request, target, waited, heard, cancelled, received>>
      /\ executed' = Append(executed, plan[step].action)
      /\ late' = late + (IF cancelled THEN 1 ELSE 0)
  BY FireFacts
<1>2. \/ \E status : Return(status)
      \/ /\ phase' = "connect" /\ UNCHANGED <<outcome, step>>
         /\ \E r : /\ GoodRoute(r)
                   /\ call' = CallOf(r)
  BY FireFacts
<1>3. /\ call' \in CallType
      /\ call'.exchange = "locate" => call'.route.transport = "DIAL"
      /\ \/ phase' = "done" /\ outcome' = "ExecutionFailed" /\ step' = step
         \/ phase' = "done" /\ outcome' = "None" /\ step' = step
         \/ /\ phase' = "step" /\ outcome' = outcome /\ step' = step + 1
            /\ step < Len(plan)
         \/ phase' = "connect" /\ outcome' = outcome /\ step' = step
  <2>1. CASE \E status : Return(status)
    BY <2>1, ReturnFacts, NoCallIsTyped DEF IInv
  <2>2. CASE /\ phase' = "connect" /\ UNCHANGED <<outcome, step>>
             /\ \E r : /\ GoodRoute(r)
                       /\ call' = CallOf(r)
    BY <2>2 DEF GoodRoute, CallType, CallOf, MAX_REDIRECTS
  <2>. QED
    BY <1>2, <2>1, <2>2
<1>4. /\ TypeOK
      /\ plan' = plan
      /\ Len(plan) \in Nat \ {0}
      /\ step \in 1..Len(plan)
      /\ plan[step].action \in ActionId
  BY <1>1, PlanStays DEF IInv, Progress
<1>5. /\ Len(executed) = step - 1 /\ outcome = Running /\ late = 0
      /\ request.intent # "Unknown"
  BY <1>1 DEF IInv, Progress, Lateness, Before
<1>6. executed' \in Seq(ActionId) /\ Len(executed') = step
  BY <1>1, <1>4, <1>5 DEF TypeOK
<1>7. TypeOK'
  BY <1>1, <1>3, <1>4, <1>5, <1>6 DEF TypeOK, SemanticError
<1>8. Progress'
  BY <1>1, <1>3, <1>4, <1>5, <1>6
  DEF Progress, Before, Calling, Running
<1>9. Lateness'
  BY <1>1, <1>3, <1>5 DEF Lateness
<1>10. Locating' /\ HandshakeIsWebSocket'
  BY <1>3 DEF Locating, HandshakeIsWebSocket
<1>11. \A k \in DOMAIN received : received[k].step \in Nat /\ received[k].step < step
  <2>. SUFFICES ASSUME NEW k \in DOMAIN received
                PROVE  received[k].step \in Nat /\ received[k].step < step
    OBVIOUS
  <2>1. received \in Seq(Message)
    BY <1>4 DEF TypeOK
  <2>2. received[k] \in Message
    BY <2>1
  <2>3. received[k].step <= Len(executed)
    BY DEF IInv, OncePerStep
  <2>. QED
    BY <1>4, <1>5, <2>2, <2>3 DEF Message
<1>12. NotYetTold'
  BY <1>1, <1>3, <1>11 DEF NotYetTold, Untold
<1>13. OncePerStep'
  BY <1>1, <1>4, <1>6, <1>11 DEF IInv, OncePerStep
<1>. QED
  BY <1>7, <1>8, <1>9, <1>10, <1>12, <1>13 DEF IInv

\* The actions of the transports.
Transport == Broadcast \/ ConnectFails \/ Connect \/ ReceiveMore \/ DeviceStops

\* What they may do: go on, end the call, and tell a device that has not been
\* told.
Told ==
    \/ UNCHANGED received /\ (Untold' => Untold)
    \/ /\ Untold /\ ~ Untold'
       /\ call.route.command \in Command
       /\ call.route.command # Nothing
       /\ received' = Append(received, [step |-> step, command |-> call.route.command])

Transported ==
    /\ phase \in Calling
    /\ heard' \in {0, 1}
    /\ \/ \E status : Return(status)
       \/ /\ phase' \in Calling
          /\ UNCHANGED <<outcome, step>>
          /\ \/ call' \in {call, [call EXCEPT !.exchange = "command"]}
             \/ /\ call.redirects < MAX_REDIRECTS
                /\ call' = [call EXCEPT !.redirects = @ + 1]
          /\ phase' = "handshake" => call'.route.transport = "WebSocket"
    /\ Told

LEMMA DeliverFacts ==
    ASSUME TypeOK, Deliver
    PROVE  \/ UNCHANGED received
           \/ /\ call.route.command \in Command
              /\ call.route.command # Nothing
              /\ received' = Append(received, [step |-> step, command |-> call.route.command])
  BY DEF Deliver, TypeOK, CallType, RouteType

LEMMA ReturnEndsCall ==
    ASSUME TypeOK, NEW status, Return(status)
    PROVE  ~ Untold'
  BY ReturnFacts DEF Untold

LEMMA TransportFacts ==
    ASSUME IInv, Transport
    PROVE  /\ UNCHANGED <<request, target, waited, cancelled, executed, late>>
           /\ Transported
<1>1. UNCHANGED <<request, target, waited, cancelled, executed, late>>
  BY DEF Transport, Broadcast, ConnectFails, Connect, ReceiveMore, DeviceStops,
     HandshakeEnds, Located, ReplyEnds, Transporting
<1>2. TypeOK
  BY DEF IInv
<1>3. ASSUME Broadcast PROVE Transported
  <2>1. phase = "connect" /\ heard' \in {0, 1} /\ Untold
    BY <1>2, <1>3 DEF Broadcast, TypeOK, Untold
  <2>2. /\ \E status : Return(status)
        /\ Deliver \/ UNCHANGED received
    BY <1>3, Zenon DEF Broadcast
  <2>3. Told
    BY <1>2, <2>1, <2>2, DeliverFacts, ReturnEndsCall DEF Told
  <2>. QED
    BY <2>1, <2>2, <2>3 DEF Transported, Calling
<1>4. ASSUME ConnectFails PROVE Transported
  BY <1>2, <1>4, ReturnEndsCall
  DEF ConnectFails, TypeOK, Transported, Told, Calling
<1>5. ASSUME Connect PROVE Transported
  <2>1. phase = "connect" /\ call' = call /\ heard' \in {0, 1} /\ Untold
    BY <1>2, <1>5 DEF Connect, TypeOK, Untold
  <2>2. /\ UNCHANGED <<outcome, step>>
        /\ \/ /\ call.route.transport = "WebSocket"
              /\ phase' = "handshake" /\ UNCHANGED received
           \/ /\ phase' = "reply"
              /\ IF call.exchange = "locate" THEN UNCHANGED received ELSE Deliver
    BY <1>5 DEF Connect, Goto
  <2>3. Told
    BY <1>2, <2>1, <2>2, DeliverFacts DEF Told, Untold
  <2>. QED
    BY <2>1, <2>2, <2>3 DEF Transported, Calling
<1>6. ASSUME ReceiveMore PROVE Transported
  <2>1. heard' \in {0, 1}
    BY <1>2, <1>6 DEF ReceiveMore, TypeOK
  <2>. QED
    BY <1>6, <2>1 DEF IInv, ReceiveMore, Transported, Told, Untold, Calling,
       HandshakeIsWebSocket
<1>7. ASSUME HandshakeEnds PROVE Transported
  <2>1. phase = "handshake" /\ heard' = 0 /\ Untold
    BY <1>7 DEF HandshakeEnds, Untold
  <2>2. call.exchange # "locate"
    BY <2>1 DEF IInv, HandshakeIsWebSocket, Locating
  <2>3. \/ Goto("reply") /\ Deliver /\ UNCHANGED call
        \/ (\E status : Return(status)) /\ UNCHANGED received
    BY <1>7, Zenon DEF HandshakeEnds
  <2>4. Told
    BY <1>2, <2>1, <2>2, <2>3, DeliverFacts, ReturnEndsCall DEF Told, Untold, Goto
  <2>. QED
    BY <2>1, <2>3, <2>4 DEF Transported, Calling, Goto
<1>8. ASSUME Located PROVE Transported
  <2>1. phase = "reply" /\ heard' = 0 /\ Untold /\ UNCHANGED received
    BY <1>8 DEF Located, Untold
  <2>2. \/ Goto("connect") /\ call' = [call EXCEPT !.exchange = "command"]
        \/ /\ call.redirects < MAX_REDIRECTS
           /\ Goto("connect") /\ call' = [call EXCEPT !.redirects = @ + 1]
        \/ \E status : Return(status)
    BY <1>8, Zenon DEF Located
  <2>3. Told
    BY <2>1 DEF Told
  <2>. QED
    BY <2>1, <2>2, <2>3 DEF Transported, Calling, Goto
<1>9. ASSUME ReplyEnds PROVE Transported
  <2>1. phase = "reply" /\ heard' = 0 /\ UNCHANGED received
    BY <1>9 DEF ReplyEnds
  <2>2. \E status : Return(status)
    BY <1>9, Zenon DEF ReplyEnds
  <2>3. Told
    BY <1>2, <2>1, <2>2, ReturnEndsCall DEF Told
  <2>. QED
    BY <2>1, <2>2, <2>3 DEF Transported, Calling
<1>. QED
  BY <1>1, <1>3, <1>4, <1>5, <1>6, <1>7, <1>8, <1>9 DEF Transport, DeviceStops

\* A device that hears of the current step for the first time hears it last.
LEMMA TellingKeepsOrder ==
    ASSUME IInv, phase \in Calling, Told, UNCHANGED <<executed>>
    PROVE  OncePerStep' /\ received' \in Seq(Message)
<1>1. /\ received \in Seq(Message)
      /\ step \in Nat /\ Len(executed) = step
  BY PlanFacts DEF IInv, TypeOK, Progress, plan
<1>2. CASE UNCHANGED received
  BY <1>1, <1>2 DEF IInv, OncePerStep
<1>3. CASE /\ Untold
           /\ call.route.command \in Command
           /\ received' = Append(received, [step |-> step, command |-> call.route.command])
  <2>1. PICK m \in Message : received' = Append(received, m) /\ m.step = step
    BY <1>1, <1>3 DEF Message
  <2>. DEFINE new == Len(received) + 1
  <2>2. /\ received' \in Seq(Message)
        /\ DOMAIN received = 1..(new - 1)
        /\ DOMAIN received' = 1..new
        /\ received'[new].step = step
        /\ \A k \in DOMAIN received : received'[k] = received[k]
    BY <1>1, <2>1
  <2>3. \A k \in DOMAIN received : received[k].step < step
    BY <1>3 DEF IInv, NotYetTold
  <2>4. \A j, k \in DOMAIN received :
           j < k => received[j].step < received[k].step
    BY DEF IInv, OncePerStep
  <2>5. \A k \in DOMAIN received' : k = new \/ k \in DOMAIN received
    BY <2>2
  <2>6. ASSUME NEW j \in DOMAIN received', NEW k \in DOMAIN received', j < k
        PROVE  received'[j].step < received'[k].step
    <3>1. j \in DOMAIN received
      BY <2>2, <2>6
    <3>2. CASE k = new
      BY <2>2, <2>3, <3>1, <3>2
    <3>3. CASE k \in DOMAIN received
      BY <2>2, <2>4, <2>6, <3>1, <3>3
    <3>. QED
      BY <2>5, <3>2, <3>3
  <2>7. ASSUME NEW k \in DOMAIN received'
        PROVE  received'[k].step <= Len(executed')
    <3>1. CASE k = new
      BY <1>1, <2>2, <3>1
    <3>2. CASE k \in DOMAIN received
      BY <2>2, <3>2 DEF IInv, OncePerStep
    <3>. QED
      BY <2>5, <3>1, <3>2
  <2>. QED
    BY <2>2, <2>6, <2>7 DEF OncePerStep
<1>. QED
  BY <1>2, <1>3 DEF Told

LEMMA TransportPreserves == ASSUME IInv, Transport PROVE IInv'
<1>1. /\ UNCHANGED <<request, target, waited, cancelled, executed, late>>
      /\ Transported
  BY TransportFacts
<1>2. /\ TypeOK
      /\ phase \in Calling /\ heard' \in {0, 1} /\ Told
      /\ Len(executed) = step /\ outcome = Running
      /\ request.intent # "Unknown"
  BY <1>1 DEF IInv, Progress, Transported, Calling
<1>3. /\ plan' = plan
      /\ Len(plan) \in Nat \ {0}
      /\ step \in 1..Len(plan)
  BY <1>1, <1>2, PlanStays
<1>4. /\ call' \in CallType
      /\ call'.exchange = "locate" => call'.route.transport = "DIAL"
      /\ phase' = "handshake" => call'.route.transport = "WebSocket"
      /\ \/ phase' = "done" /\ outcome' = "ExecutionFailed" /\ step' = step
         \/ phase' = "done" /\ outcome' = "None" /\ step' = step
         \/ /\ phase' = "step" /\ outcome' = outcome /\ step' = step + 1
            /\ step < Len(plan)
         \/ phase' \in Calling /\ outcome' = outcome /\ step' = step
  <2>1. CASE \E status : Return(status)
    BY <1>2, <2>1, ReturnFacts, NoCallIsTyped
  <2>2. CASE /\ phase' \in Calling
             /\ UNCHANGED <<outcome, step>>
             /\ \/ call' \in {call, [call EXCEPT !.exchange = "command"]}
                \/ /\ call.redirects < MAX_REDIRECTS
                   /\ call' = [call EXCEPT !.redirects = @ + 1]
             /\ phase' = "handshake" => call'.route.transport = "WebSocket"
    BY <1>2, <2>2 DEF IInv, TypeOK, CallType, Locating, MAX_REDIRECTS
  <2>. QED
    BY <1>1, <2>1, <2>2 DEF Transported
<1>5. OncePerStep' /\ received' \in Seq(Message)
  BY <1>1, <1>2, TellingKeepsOrder
<1>6. TypeOK'
  BY <1>1, <1>2, <1>3, <1>4, <1>5 DEF TypeOK, SemanticError, Calling
<1>7. Progress'
  BY <1>1, <1>2, <1>3, <1>4 DEF Progress, Before, Calling, Running
<1>8. Lateness'
  BY <1>1, <1>4 DEF IInv, Lateness, Calling
<1>9. Locating' /\ HandshakeIsWebSocket'
  BY <1>4 DEF Locating, HandshakeIsWebSocket
<1>10. NotYetTold'
  <2>. SUFFICES ASSUME Untold' PROVE \A k \in DOMAIN received' : received'[k].step < step'
    BY DEF NotYetTold
  <2>1. UNCHANGED received /\ Untold
    BY <1>2 DEF Told
  <2>2. step' = step
    BY <1>4 DEF Untold
  <2>. QED
    BY <2>1, <2>2 DEF IInv, NotYetTold
<1>. QED
  BY <1>5, <1>6, <1>7, <1>8, <1>9, <1>10 DEF IInv

LEMMA CancelPreserves == ASSUME IInv, Cancel PROVE IInv'
<1>1. /\ UNCHANGED <<phase, request, target, step, waited, call, heard, outcome,
                     executed, late, received>>
      /\ cancelled' = TRUE /\ plan' = plan
  BY DEF Cancel, plan
<1>. QED
  BY <1>1 DEF IInv, TypeOK, Progress, Lateness, Locating, HandshakeIsWebSocket,
     NotYetTold, OncePerStep, Untold

\* Every step is one of those.
LEMMA StepCases ==
    ASSUME Next
    PROVE  Deciding \/ Fire \/ Transport \/ Cancel
  BY DEF Next, Thread, Deciding, Transport

LEMMA StepPreserves == ASSUME IInv, [Next]_vars PROVE IInv'
<1>1. CASE UNCHANGED vars
  <2>. plan' = plan
    BY <1>1 DEF vars, plan
  <2>. QED
    BY <1>1 DEF vars, IInv, TypeOK, Progress, Lateness, Locating,
       HandshakeIsWebSocket, NotYetTold, OncePerStep, Untold
<1>2. CASE Next
  BY <1>2, StepCases, DecidingPreserves, FirePreserves, TransportPreserves,
     CancelPreserves
<1>. QED
  BY <1>1, <1>2

\* The invariant holds in every reachable state of every specification that
\* starts from Spec, the fair ones included.
THEOREM Inductive == Spec => []IInv
<1>1. Init => IInv
  BY InitHolds
<1>2. IInv /\ [Next]_vars => IInv'
  BY StepPreserves
<1>. QED
  BY <1>1, <1>2, PTL DEF Spec

\* Orchestrate stays within its types: no step past the end of the plan, no
\* route a controller cannot build, one late step at the most.
THEOREM TypeCorrect == Spec => []TypeOK
<1>1. IInv => TypeOK
  BY DEF IInv
<1>. QED
  BY <1>1, Inductive, PTL

\* A device is told the steps in the order of the plan and each one once at
\* the most, whatever the transports lose.
THEOREM StepsAreToldOnce == Spec => []OncePerStep
<1>1. IInv => OncePerStep
  BY DEF IInv
<1>. QED
  BY <1>1, Inductive, PTL

-----------------------------------------------------------------------------
(* What a device is told.                                                  *)

\* The route of the call does nothing but the step at hand.
CallDoesOnly == phase \in Calling => DoesOnly(call.route, plan[step].action)

Doing == IInv /\ CallDoesOnly /\ NothingElseIsDone

LEMMA InitDoesOnly == Init => Doing
  BY InitHolds
  DEF Init, Doing, CallDoesOnly, NothingElseIsDone, Calling

LEMMA DecidingDoesOnly == ASSUME Doing, Deciding PROVE Doing'
<1>1. /\ UNCHANGED <<request, step, received>>
      /\ phase' \notin Calling
  BY DecidingFacts DEF Doing, Decided, Calling
<1>2. plan' = plan
  BY <1>1 DEF plan
<1>3. IInv'
  BY DecidingPreserves DEF Doing
<1>. QED
  BY <1>1, <1>2, <1>3 DEF Doing, CallDoesOnly, NothingElseIsDone

LEMMA FireDoesOnly == ASSUME Doing, Fire PROVE Doing'
<1>1. IInv /\ IInv'
  BY FirePreserves DEF Doing
<1>2. /\ UNCHANGED <<request, received>>
      /\ plan' = plan
  BY <1>1, FireFacts DEF plan
<1>3. CallDoesOnly'
  <2>1. CASE \E status : Return(status)
    BY <1>1, <2>1, ReturnFacts DEF IInv, CallDoesOnly, Calling
  <2>2. CASE /\ UNCHANGED step
             /\ \E r : /\ DoesOnly(r, plan[step].action)
                       /\ call' = CallOf(r)
    <3>1. PICK r : DoesOnly(r, plan[step].action) /\ call' = CallOf(r)
      BY <2>2
    <3>2. call'.route = r
      BY <3>1 DEF CallOf
    <3>. QED
      BY <1>2, <2>2, <3>1, <3>2 DEF CallDoesOnly
  <2>. QED
    BY <1>1, <2>1, <2>2, FireFacts
<1>. QED
  BY <1>1, <1>2, <1>3 DEF Doing, NothingElseIsDone

LEMMA TransportDoesOnly == ASSUME Doing, Transport PROVE Doing'
<1>1. IInv /\ IInv'
  BY TransportPreserves DEF Doing
<1>2. Transported /\ plan' = plan /\ phase \in Calling
  BY <1>1, TransportFacts DEF Transported, plan
<1>3. CallDoesOnly'
  <2>1. CASE \E status : Return(status)
    BY <1>1, <2>1, ReturnFacts DEF IInv, CallDoesOnly, Calling
  <2>2. CASE /\ UNCHANGED step
             /\ \/ call' \in {call, [call EXCEPT !.exchange = "command"]}
                \/ call' = [call EXCEPT !.redirects = @ + 1]
    <3>1. call'.route = call.route
      BY <1>1, <2>2 DEF IInv, TypeOK, CallType
    <3>. QED
      BY <1>2, <2>2, <3>1 DEF Doing, CallDoesOnly
  <2>. QED
    BY <1>2, <2>1, <2>2 DEF Transported
<1>4. NothingElseIsDone'
  <2>1. CASE UNCHANGED received
    BY <1>2, <2>1 DEF Doing, NothingElseIsDone
  <2>2. CASE /\ call.route.command # Nothing
             /\ received' = Append(received, [step |-> step, command |-> call.route.command])
    <3>1. received \in Seq(Message)
      BY <1>1 DEF IInv, TypeOK
    <3>2. Effect[call.route.command] \subseteq {plan[step].action}
      BY <1>2, <2>2 DEF Doing, CallDoesOnly, DoesOnly
    <3>3. SUFFICES ASSUME NEW k \in DOMAIN received'
                   PROVE  Effect[received'[k].command] \subseteq {plan[received'[k].step].action}
      BY <1>2 DEF NothingElseIsDone
    <3>4. CASE k = Len(received) + 1
      <4>1. received'[k] = [step |-> step, command |-> call.route.command]
        BY <2>2, <3>1, <3>4
      <4>. QED
        BY <3>2, <4>1
    <3>5. CASE k \in DOMAIN received
      <4>1. received'[k] = received[k]
        BY <2>2, <3>1, <3>5
      <4>. QED
        BY <3>5, <4>1 DEF Doing, NothingElseIsDone
    <3>. QED
      BY <2>2, <3>1, <3>4, <3>5
  <2>. QED
    BY <1>2, <2>1, <2>2 DEF Transported, Told
<1>. QED
  BY <1>1, <1>3, <1>4 DEF Doing

LEMMA StepDoesOnly == ASSUME Doing, [Next]_vars PROVE Doing'
<1>1. IInv /\ IInv'
  BY StepPreserves DEF Doing
<1>2. CASE Cancel
  BY <1>1, <1>2 DEF Cancel, Doing, CallDoesOnly, NothingElseIsDone, plan
<1>3. CASE UNCHANGED vars
  BY <1>1, <1>3 DEF vars, Doing, CallDoesOnly, NothingElseIsDone, plan
<1>. QED
  BY <1>2, <1>3, StepCases, DecidingDoesOnly, FireDoesOnly, TransportDoesOnly DEF Next

\* Nothing is done to a device but the action of the step at hand, whatever
\* controllers it has, whatever they route the action to, and whatever the
\* category that nobody initialises held.
THEOREM OnlyTheStepIsDone == Spec => []NothingElseIsDone
<1>1. Init => Doing
  BY InitDoesOnly
<1>2. Doing /\ [Next]_vars => Doing'
  BY StepDoesOnly
<1>3. Doing => NothingElseIsDone
  BY DEF Doing
<1>. QED
  BY <1>1, <1>2, <1>3, PTL DEF Spec

-----------------------------------------------------------------------------
(* SemanticOrchestrator implements Workflow.                               *)

LEMMA InitRefines == Init => Promise!AbstractInit
<1>. SUFFICES ASSUME Init PROVE Promise!AbstractInit
  OBVIOUS
<1>1. Len(plan) \in Nat \ {0}
  BY PlanFacts DEF Init, plan
<1>. QED
  BY <1>1 DEF Init, Promise!AbstractInit, Running, Promise!Running

LEMMA DecidingRefines ==
    ASSUME IInv, Deciding
    PROVE  [Promise!AbstractNext]_Promise!workflowVars
<1>1. /\ UNCHANGED <<request, step, cancelled, executed, late>>
      /\ Decided
  BY DecidingFacts
<1>2. /\ plan' = plan /\ Len(plan) \in Nat \ {0} /\ step \in 1..Len(plan)
      /\ Len(executed) = step - 1 /\ outcome = Running
  BY <1>1, PlanStays DEF IInv, Progress, Decided, Before
<1>3. CASE UNCHANGED outcome
  BY <1>1, <1>2, <1>3 DEF Promise!workflowVars
<1>4. CASE outcome' = "Cancelled" /\ cancelled
  <2>1. Promise!StopEarly
    BY <1>1, <1>2, <1>4
    DEF Promise!StopEarly, Promise!Answer, Promise!Running, Running
  <2>. QED
    BY <2>1 DEF Promise!AbstractNext
<1>5. CASE outcome' \in Promise!Refusal /\ step = 1
  <2>1. Promise!Refuse
    BY <1>1, <1>2, <1>5
    DEF Promise!Refuse, Promise!Answer, Promise!Running, Running
  <2>. QED
    BY <2>1 DEF Promise!AbstractNext
<1>. QED
  BY <1>1, <1>3, <1>4, <1>5 DEF Decided

LEMMA FireRefines ==
    ASSUME IInv, Fire
    PROVE  [Promise!AbstractNext]_Promise!workflowVars
<1>1. /\ phase = "fire"
      /\ UNCHANGED <<request, cancelled>>
      /\ executed' = Append(executed, plan[step].action)
      /\ late' = late + (IF cancelled THEN 1 ELSE 0)
      /\ (\E status : Return(status)) \/ UNCHANGED outcome
  BY FireFacts
<1>2. /\ plan' = plan /\ Len(plan) \in Nat \ {0} /\ step \in 1..Len(plan)
      /\ Len(executed) = step - 1 /\ outcome = Running /\ late = 0
      /\ executed \in Seq(ActionId) /\ plan[step].action \in ActionId
      /\ cancelled \in BOOLEAN
  BY <1>1, PlanStays DEF IInv, TypeOK, Progress, Lateness, Before
<1>3. \/ outcome' = "ExecutionFailed" \/ UNCHANGED outcome
      \/ outcome' = "None" /\ step = Len(plan)
  BY <1>1, ReturnFacts DEF IInv
<1>4. Len(executed') = step /\ late' = IF cancelled THEN 1 ELSE 0
  BY <1>1, <1>2
<1>5. Promise!BeginStep
  BY <1>1, <1>2, <1>3, <1>4 DEF Promise!BeginStep, Promise!Running, Running
<1>. QED
  BY <1>5 DEF Promise!AbstractNext

LEMMA TransportRefines ==
    ASSUME IInv, Transport
    PROVE  [Promise!AbstractNext]_Promise!workflowVars
<1>1. UNCHANGED <<request, cancelled, executed, late>> /\ Transported
  BY TransportFacts
<1>2. /\ plan' = plan /\ Len(plan) \in Nat \ {0} /\ step \in 1..Len(plan)
      /\ Len(executed) = step /\ outcome = Running
  BY <1>1, PlanStays DEF IInv, Progress, Transported
<1>3. \/ outcome' = "ExecutionFailed" \/ UNCHANGED outcome
      \/ outcome' = "None" /\ step = Len(plan)
  BY <1>1, ReturnFacts DEF IInv, Transported
<1>4. CASE UNCHANGED outcome
  BY <1>1, <1>2, <1>4 DEF Promise!workflowVars
<1>5. CASE outcome' = "ExecutionFailed"
  <2>1. Promise!Fail
    BY <1>1, <1>2, <1>5 DEF Promise!Fail, Promise!Answer, Promise!Running, Running
  <2>. QED
    BY <2>1 DEF Promise!AbstractNext
<1>6. CASE outcome' = "None" /\ step = Len(plan)
  <2>1. Promise!Succeed
    BY <1>1, <1>2, <1>6
    DEF Promise!Succeed, Promise!Answer, Promise!Running, Running
  <2>. QED
    BY <2>1 DEF Promise!AbstractNext
<1>. QED
  BY <1>3, <1>4, <1>5, <1>6

LEMMA StepRefines ==
    ASSUME IInv, [Next]_vars
    PROVE  [Promise!AbstractNext]_Promise!workflowVars
<1>1. CASE UNCHANGED vars
  BY <1>1 DEF vars, plan, Promise!workflowVars
<1>2. CASE Cancel
  <2>1. Promise!RequestStop
    BY <1>2 DEF Cancel, plan, Promise!RequestStop
  <2>. QED
    BY <2>1 DEF Promise!AbstractNext
<1>. QED
  BY <1>1, <1>2, StepCases, DecidingRefines, FireRefines, TransportRefines

\* Orchestrate keeps its promise: the steps of a plan are begun in order and
\* once each, the answer tells how far it came, and once the token is set one
\* step more is begun at the most.
THEOREM KeepsItsPromise == Spec => KeepsPromise
<1>1. Init => Promise!AbstractInit
  BY InitRefines
<1>2. IInv /\ [Next]_vars => [Promise!AbstractNext]_Promise!workflowVars
  BY StepRefines
<1>. QED
  BY <1>1, <1>2, Inductive, PTL DEF Spec, KeepsPromise, Promise!AbstractSpec
=============================================================================
