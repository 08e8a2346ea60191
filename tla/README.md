# NetDiscovery: TLA+ specifications and proofs

NetDiscovery is a C++17 program that discovers devices on a local network with
SSDP, downloads and reads their UPnP descriptions, decides which pieces of
evidence belong to one device, classifies it, finds out what it can do and who
can control it, remembers it in a knowledge store, and carries out intents
("turn the TV on", "launch YouTube") through vendor-neutral routes and
transports.

This directory holds TLA+ models of that program, the TLC configurations that
check them, and theorems about them that TLAPS proves. Sections 1 to 3 are the
inventory, sections 4 to 7 what is modelled, checked and proved, section 8 the
plan. All source paths are relative to the repository root (`src/...` is
the repository's own `src/`, `include/...` its headers).

## 1. The system

The main thread runs a pipeline of synchronous stages (`src/main.cpp`), the
description downloads included. Other threads exist in two places: those in
which the system handles console events (Ctrl+C) while the program listens, and
whoever sets the cancel token of an orchestration. What is concurrent with the
program is the network: devices answer when they like, and may stop in the
middle.

| Part | State it keeps | Operations | Talks to |
|---|---|---|---|
| Knowledge records (`core/KnowledgeEntity.h`, `core/KnowledgeModels.h`) | identity, capabilities with profiles, compatible controllers, endpoints by address, credentials, journal, learning state | merge, serialise, deserialise | knowledge store |
| Knowledge store (`services/KnowledgeStore.cpp`) | current network, `m_entities` by persistent id | ResolveKnownNetwork, UpdateFromDiscovery, UpdateCredentials, AppendCommunicationRecord, ArchiveEntity, confidence | persistence backend, authentication manager |
| File persistence backend (`persistence/FileKnowledgeStore.cpp`) | one directory per network, one file per sanitised id | SaveEntityData (truncate, then write), LoadAllEntities, Delete, Exists | file system |
| Authentication manager | reference to the store | InjectCredentials, UpdateCredentials | store, engine |
| Knowledge synchronizer | none | Synchronize, never constructed | store |
| Execution engine (`ExecutionEngine.cpp`) | registered strategies and transports | Execute: controllers in order, route, strategy, transport | controllers, strategies, transports |
| Controllers (`include/controllers/*.h`) | none | IsMatch, Evaluate, GetExecutionRoute | resolver, engine |
| Transports: SOAP, DIAL, WebSocket, WakeOnLAN, Dummy | none between calls | Execute: refuse, connect, exchange, verdict; ReceiveFrame of the WebSocket | sockets, devices |
| Samsung strategy (`transports/websocket/SamsungWebSocketStrategy.h`) | none | BuildRequest puts the key and the token into a request, ProcessResponse takes a token or a refusal from an answer | engine, authentication manager |
| Validation (`validation/ExecutionValidator.cpp`, device executor) | the capability found first | RunScenario: each action of a scenario on the first device that has its capability | engine |
| Semantic orchestrator (`semantic/SemanticOrchestrator.cpp`) | local to one call: plan, step, wait, cancel token | Orchestrate: normalise, resolve target, filter, preflight, plan, steps | engine |
| HTTP client and TCP socket | a descriptor, a buffer | connect, send, receive with SO_RCVTIMEO, headers, chunks, lengths, redirects | devices |
| SSDP client, UDP and multicast sockets | a bound socket, a group membership, a stop flag | Initialize, Discover, DiscoverAll, ListenPassive | registry through the analyzer |
| Capture (`CaptureWriter.cpp`) | a counter, a directory | SaveActivePacket, SavePassivePacket under a free name | file system |
| Device registry (`DeviceRegistry.cpp`) | evidence by source, uuid and address | register or replace, pending descriptions | analyzers, downloader, fusion |
| SSDP analyzer, downloader, XML analyzer | none | turn packets and descriptions into evidence | registry |
| Identity resolution, device fusion | none (functions of the evidence) | votes; parent chains, groups, heuristic merge | classification |
| Classification, capabilities, actions, controller resolution | none (functions of fused devices) | stages that extend or replace the result of earlier ones | store, engine |
| Presentation, text helpers, SOAP builders, packet tools | none with a protocol | formatting, parsing | - |

The way a device takes through the program:

```
SSDP packets -> SSDPAnalyzer -> DeviceRegistry <- XmlAnalyzer <- downloader
                                      |
             identity resolution -> fusion -> classification -> capabilities
                                      |                -> actions -> controllers
                                      v
                      KnowledgeStore.UpdateFromDiscovery -> one file per device
                                      ^
   SemanticOrchestrator -> ExecutionEngine -> controller route -> strategy
     ExecutionValidator ->     |                 -> transport -> the device
                       AuthenticationManager
```

The listening mode is a program of its own: datagrams of the multicast group are
captured, analysed into the registry, resolved and printed. The resolution fuses the
evidence (`main.cpp:182`, `IdentityResolutionEngine.cpp:16`), but nothing is
classified, executed or stored. `main.cpp` constructs neither the orchestrator nor the synchronizer;
the orchestrator's interface (`SemanticOrchestrator.h`) is what is modelled. What
main itself executes is the validator's scenarios.

## 2. What is hard about it

- **Crashes and failed saves.** A save truncates the file before it writes it,
  a failed save is only logged, and the process may stop between any two steps.
- **Stale and mixed-up records.** Ids are sanitised into file names, an id is
  compared with two fields of each entity, endpoints are matched by address,
  text lines are read back by position.
- **Cancellation and unanswered requests.** The cancel token is read at two
  places only; a device may obey a command whose answer is lost; the transports
  wait in loops whose limit is per receive.
- **Uninitialised data.** The category of an action that the planner or the
  validator creates is never set, and GenericDLNAController.h:158 branches on it.
- **Tables kept twice.** Controllers and strategies each know which actions
  have a command.
- **Late, lost and copied answers.** All searches share one socket, so that a
  search may read what an earlier one asked for; a later packet replaces the
  evidence of an earlier one; a description may come cut short.
- **Restarts in the middle.** Whatever goes wrong in the combined search starts
  single searches, on top of what the registry and the lists already hold.
- **Order of evidence** in fusion.
- **The stop flag** of the passive listener, which threads of the system write at
  any time, the time of its reset and of its last test included.
- **Names of captures**, whose numbers begin anew in each session in a directory
  that keeps the files of earlier ones.
- **Answers in pieces.** A frame, a chunk or a header ends where a Receive ended;
  a length or a mask of which nothing came is whatever the memory held. The
  Receive that ends the handshake may hold the beginning of a frame, and drops it.
- **Tokens.** A device grants one, forgets it, asks its user again; the program
  stores what it read, and a second device has tokens of its own.

`PROJECT.json` lists each of these at its line under `hazards`, with the
properties that would catch it, or the reason why none does yet.

## 3. What makes each component correct

| Component | Correct means |
|---|---|
| Knowledge records | what one observation lacks is not taken from what earlier ones gave; save and load give the record back, except for what the file has no line for |
| Knowledge store and its files | every handler's change is on disk unless its save failed; a known device is never taken for a new one; a failed save costs the one record that is written; a credential only goes to the device that issued it |
| Orchestrator | steps in order and once each, an answer that fits what was done, one step at the most after a cancellation, an end |
| Engine, controllers, strategies | nothing is done to a device but the action of the step; a success stands for a step that was done, which is broken today (`bad_success`) |
| Discovery | every search is listed, whatever failed; the registry is the digest of what was listed, one piece of evidence per device, address and source; every announced description is asked for, and one that came as a whole and could be read is not lost again; the downloads end |
| HTTP client | what is analysed is what the server sent, up to where it was cut |
| Listening mode | the listener stops when it is told to and within one datagram; what is in the list is on disk, and the other way round; no capture is overwritten |
| Pairing, validation | a stored token is one the device gave, as a whole; the user is not asked while the device honours it; each action of each scenario is tried; a silent device ends the wait |
| Fusion | every piece of evidence ends in one device, with the services it names; what is joined has enough in common |
| Classification, capabilities, actions | a device offers what its own evidence speaks for, nothing of it is lost from stage to stage; that the vendor's actions stay is broken today (`bad_vendor`) |
| Controller resolution | the accepted candidates come first, in the order of their scores; a vendor's controller is accepted for the vendor's devices only |

## 4. The modules

| Module | Models | How its state and actions correspond to the code |
|---|---|---|
| `KnowledgeEntity` | a record, its merge, its text | operators: `NewEntity`, `MergedEntity` with `MergeEndpoints` and `MergeCapabilityProfiles` (KnowledgeStore.cpp:40-220), `SerializeEntity` and `DeserializeEntity` (242-420), `CutTexts` the prefixes of a text that may be left on disk, as far as loading tells them apart |
| `KnowledgeStore` | the store, its files and the process | `m_entities`, `net`, `disk` (network, then file); one action per handler; `saving` and `opened` split `PersistEntity` into open, truncate, write; `Stop` may cut the file that is open; `unsaved` is a history variable |
| `DurableKnowledge` | the promise of the store: knowledge only grows; a damaged write costs one device | `running`, `known` |
| `ExecutionEngine` | routes: `GetExecutionRoute` of the three controllers, selection in `ExecutionEngine::Execute`, transport lookup, the strategy's commands, verdicts of each transport | constant-level operators |
| `SemanticOrchestrator` | one call of `Orchestrate` with the engine and the transports below it, and a thread that may cancel | `phase` is the program point; `call` the transport call in progress; `received` (history) what reached the device, with its step; `executed`, `late` histories |
| `Workflow` | the promise of `Orchestrate` | `length`, `begun`, `late`, `cancelled`, `outcome` |
| `DeviceDescription` | a UPnP description and how `XmlAnalyzer` finds elements in it | a text is a sequence of tokens: the tags that nest, and an element with a text as one token. `ExtractElement`, `ExtractElements` and `ParseDeviceNode` are the analyzer's functions (XmlAnalyzer.cpp:96-193) |
| `DeviceRegistry` | what `SSDPAnalyzer` takes from a packet and how `DeviceRegistry::Register` keeps it | operators that return the registry after the call; used by both modes |
| `HttpClient` | `SendRequest`: what a server may send, what of it may have come, and what the client makes of the buffer (headers, chunks, lengths, redirects) | operators; `Outcomes` is all that one answer can come to |
| `Discovery` | `main.cpp:207-266`: the combined search, the fallback to single searches, capture and analysis of packets, the registry, the downloads | `phase` is the program point; `net` the answers under way; `buckets` what the current call has received, `results` the program's `allResults`, `registry` the `m_evidence`; `request` and `body` the GET under way; `abandoned`, `tried`, `sent` and `fetched` are histories |
| `PassiveListener` | the listening mode: `ListenPassive`, the multicast socket, the callback with its capture, the console handler | `pc` is the place of the main thread; `stop` the stop flag, `installed` and `threads` the handler and the threads it runs in; `files` the directory, `registry` the evidence; `late` is a history |
| `Pairing` | the validation scenarios with the engine below them: injection of the token, the request, what the handshake reads away, `ReceiveFrame` field by field, `ProcessResponse`, and a TV that grants, forgets and asks | `phase` is the program point; `sent` and `at` are the connection, `frame` what was read; `credentials` what the store has; `granted` the TVs; `issued`, `learnt`, `asked` and `executed` are histories |
| `DeviceFusion` | `DeviceFusionEngine::Fuse` | operators, one for each step of the function: `BaseDevices` (groups by uuid, endpoints by address, both in the order of the code's `std::map`: `Ascending`, and what belongs to each in the order it came: `Selected`), `Place` (the heuristic merge, a fold over the base devices) and `Services` |
| `DevicePipeline` | `main.cpp:270-331`: fusion, the five stages for one device after the other, the hand-over to the store | `stage` and `at` are the program point; `devices` is `logicalDevices`; `merged` what `UpdateFromDiscovery` was given. `Registries`, what the registry may hold, is an input; `PipelineAssumption` states what `Discovery` guarantees of it, and that an answer to a search says nothing of a device type, which `SSDPAnalyzer` leaves empty |
| `MC...` | instances for TLC | devices, observations and descriptions as small sets |
| `Folding`, `KnowledgeStoreProofs`, `OrchestratorProofs`, `DescriptionProofs`, `DiscoveryProofs`, `PassiveListenerProofs`, `PairingProofs`, `PipelineProofs` | the theorems | section 7 |

Operators whose comment begins with *Fault* are deliberately wrong variants of
the definition that follows them, the kind of slip a change to the code could
make. No action uses them; they show that the properties notice such a slip.
`PROJECT.json` pairs each property with one.

What composes what: `Discovery` is built on `DeviceRegistry`, `DeviceDescription`
and `HttpClient`; `PassiveListener` on `DeviceRegistry`; `DevicePipeline` takes its
input from what `Discovery` guarantees; `SemanticOrchestrator` and `Pairing` are
two callers of `ExecutionEngine`. `KnowledgeStore` implements `DurableKnowledge`,
`SemanticOrchestrator` implements `Workflow`.

What the models abstract:

- **Names and texts** are model values. A record's text is modelled by the
  fields a load can get back from it, without the parts that a load drops: it
  loses an empty last part of a line, so that an endpoint with neither a uuid nor URLs is
  gone, and one with a location only loses its URLs. A cut text is a
  record with fewer lines; a cut inside a line behaves as one of those.
- **Time** is a clock in days, as far as first and last discovery need it.
- **URLs** of an endpoint are one of none, a location, an application URL,
  or both.
- **Packets** carry their type, the search target they name, a uuid, the sender's address
  and a location: what the registry tells apart.
- **Descriptions** are sequences of tokens; a cut one is a prefix, because an
  element that is cut in the middle is not found, like one that is not there.
  Namespace prefixes, attributes and texts are left out. Of the icons of a device there is
  whether it has none, some whose sizes are numbers, or one with a size at which
  `std::stoi` throws (`ParseThrows`). Lengths and chunk sizes
  count tokens; a buffer may end in the fragment of a line.
- **Frames** are sequences of units: what a Receive cannot part without making it
  unrecognisable. A token has two, so that it can be cut in the middle. Under a
  wrong mask a text is noise. The handshake may read away any part of what the
  TV sent (`Upgraded`); a header that is then looked for in the middle of a frame makes
  any stretch behind it the text, spoilt or not (`Misread`). Fragmented messages (a first frame without FIN) are
  left out: a TV that sends them is not told apart from one that sends a cut text.
- **Console events** are those that `CtrlHandler` takes, each in a thread of its
  own, and those that end the process.
- **A capture** is its name and its packet; a cut file counts as written, nothing
  reads captures.
- **Device and service types** are records of a domain, a kind, a name and
  a version; the search for a word in a type compares its name or domain. A service
  has one URL of its own or none, which stands for its id and its three URLs.
- **The candidates** are put in order once: the code pushes them in three places and
  sorts twice, and the last sort decides.
- **Keys that toggle.** What `KEY_POWER` and `KEY_MUTE` do depends on the state of the TV;
  they count as turning it off and as muting it, which is what they are sent for.
- **Normalised services, roles, capabilities and actions** are sets: the code keeps
  lists without duplicates, whose order no later stage reads.
- **Bytes** of an answer are counted modulo two in the orchestrator: enough to tell that a
  receive loop goes on, and to let it do so for ever.
- **The uninitialised category** of an action is a free choice at each use.
- **UnknownOutcome** is what the transport registered for `Unknown` may report.
  The program registers `DummyTransport`, which always reports Success; the
  model also allows TransportUnavailable, what a probe that asks the device
  would report, so that the refusals and the wait loop behind it are reached.

## 5. The runs

| Run | Question | Distinct states |
|---|---|---|
| `store` | Is what a handler saved on disk, whatever stops or fails in between? Does the store implement `DurableKnowledge`? Do merges and reloads keep every address and learnt action, and does a token stay with its device? | 1,109,248 |
| `store_files` | Two networks, three ids, two of which share a file: is every device with a record known after a change of network, and no file ever another's? | 435,888 |
| `orchestrator` | Every intent at a TV and a player, cancelled at any time, with every exchange failing or losing its answer at every point: order, at-most-once, nothing done but the steps, the promise of `Workflow`, termination | 2,430 |
| `discovery` | A device that moves between two addresses and a datagram in its name that is no SSDP, over a network that loses, delays and copies answers, with searches, captures and downloads failing at any point, with redirects, loops of them, chunks, wrong lengths and sizes that are no numbers: are the lists complete, is the registry what they say, is every description asked for and none forgotten or made up, and do the downloads end? | 1,556,413 |
| `pipeline` | Three uuids, two or three of which may be one device, with any of their answers and descriptions missing: is the evidence placed and joined as it should be, and do the stages give each device the actions of its evidence and a list of controllers the engine can go through? | 18,426 |
| `listening` | A device that announces itself at two addresses and leaves, events in two threads at any time, captures that fail, files of earlier sessions, a limit or none: does the listener stop when told and within one datagram, and does the disk say what the list says? | 633,108 |
| `pairing` | Five scenarios on two TVs that grant, forget and ask, over a connection that may end or fall silent after every unit and whose beginning the handshake may read away: is what is stored a token, is it carried, is every action tried, do the scenarios end? | 1,871,133 |
| `bad_credentials` | violation: credentials called "persisted" are gone after a reload | |
| `bad_success` | violation: success is returned although nothing that reached the device does the action of the step | |
| `bad_timeout` | violation: a device that keeps sending keeps the caller, whatever the request's timeout | |
| `bad_vendor` | violation: the actions of the controller that accepted a device are not among those of the device | |
| `bad_upgrade` | violation: a token that arrives with the end of the upgrade is in no frame that is read | |

What the properties say, beyond the type invariants:

- `DiskIsCurrent`: between two handlers the file of an entity says what memory
  says, unless its last save failed or another id shares the file.
- `RecordsAreKnown`: whatever a file of the current network holds is in memory.
- `FilesHoldTheirOwn`: a record is only in the file of its own id.
- `OneEntityPerDevice`, `CredentialsStayWithTheirDevice`: the two-field
  comparison of ids picks one entity, and a credential is sent to its issuer only.
- `AddressesAreKept`: an address at which all endpoints have a uuid is not lost. The
  condition is needed: a line without a uuid and without URLs has two parts when it is
  read back, and an endpoint of less than three is dropped.
- `ActionsStayLearnt`: a later observation without a capability, or a reload,
  never unlearns an action.
- `KeepsDurableKnowledge`: refinement of `DurableKnowledge`. While a file is
  open its record counts as known: the text is on its way; if the write or
  the process fails, that step is the `Damage` of the abstract specification.
- `OncePerStep`: the device is told the steps in the order of the plan, each at
  the most once, none that was not begun.
- `NothingElseIsDone`: what a device receives does nothing to it (a volume is read, a
  key is unknown) or it does the action of the step, for every value of the uninitialised
  category. `Effect` says what each command does to a device, apart from the tables
  of the code. That a success stands for an action that was done, `SuccessMeansDone`,
  does not hold (`bad_success`).
- `KeepsPromise`: refinement of `Workflow`.
- `Terminates`: `Orchestrate` returns.
- `SearchesAreListed`: when the searches are over each is on the list of results
  once, however many failed; twice if a capture failed after the combined
  search had been taken over, which the code does not undo.
- `RegistryIsTheDigest`: of what searches brought the registry holds, for each device
  at each address, the evidence of the last listed packet that is evidence at all (with a
  uuid, and neither a search of somebody else nor of an unknown type), and nothing
  else, unless a combined search was abandoned half analysed. It relates two
  things the code keeps separately, over failures, fallbacks and answers that
  are read by the wrong search.
- `NoDoubles`: no two pieces of evidence share source, uuid and address.
- `LocationsAreTried`: the downloader works on a snapshot while the registry
  grows; at the end no location is left that was not asked for.
- `RootsAreKnown`: a root device whose description came once as a whole, with numbers for
  the sizes of its icons, is known and stays known when the description is fetched again
  and cut or when another one throws, redirects included, and no
  evidence of a description names a device that is in no description its
  location leads to.
- `BodyIsServed`: what is analysed is what the server sent, without headers and
  without what only parts its chunks, up to where the answer was cut.
- `DownloadsEnd`: the downloads are over in the end, although servers refer to each
  other in a circle.
- `AtMostOneMore`: once the stop flag is written, or the limit reached, one datagram
  is received at the most, whenever and in however many threads the flag is written.
- `CapturesMatchEvidence`: the list is made of captured packets, and who was captured
  is on it, over captures that fail and announcements that are repeated.
- `CapturesAreKept`: no step changes or removes a capture of this or of an earlier session.
  The model has one process: two that capture at the same time may lose captures
  (section 6).
- `StopsWhenTold`, `LimitIsKept`: an event that is handled ends the listening, and so
  does the limit. The first holds because the flag is reset before the handler is
  put in; the run's mutant swaps the two.
- `TokensAreWhole`: what is stored for a device is a token its own TV handed out, not
  a part of one, not one and what followed it, not noise.
- `NotAskedAgain`: the user is not asked while the TV honours the last token it
  sent that came whole in a frame that was read: storing, injecting and carrying it fit
  together. A token that the handshake reads away is in no such frame, and its user is
  asked again: `UpgradeTakesNoToken` says that there is none, and does not hold
  (`bad_upgrade`).
- `ActionsAreTried`: every action of every scenario is given to the engine once and
  in order, on the first device that has the capability, whatever becomes of each.
- `ScenariosEnd`: they come to an end although a TV may fall silent anywhere.
- `EvidenceIsPlaced`: after fusion, and again in what the store is given, each
  piece of evidence is in one device, and the endpoint of its address names all its
  services.
- `FusionIsJustified`: a uuid that was taken into a device of another has enough in
  common with the evidence that is there, counted from the evidence itself and
  without regard to order. It notices a comparison of two empty texts.
- `ActionsMirrorEvidence`: a device has all actions its evidence speaks for, computed
  from the raw types without the stages in between, and of others only those of
  a controller that accepted it. That it has these, `VendorActionsAreKept`, does not
  hold (`bad_vendor`).
- `BestControllerFirst`: no rejected candidate stands before an accepted one, and no
  lower score before a higher; an accepted Samsung controller means that some
  evidence names the vendor, as the maker or by a type of its own.

**Bounds.** Two devices are enough for one to be damaged or credited in the
place of another; a third id is there where two share a file. Two capabilities
and two observations let each lack what the other has. Two slots per address
and two addresses let endpoints collide, move and lose their uuid. The clock
has two or three values: first and later. Two networks are the old one and the new
one. One token serial is enough, because a token also carries its issuer.
`MaxWait` = 2 gives a wait that ends in time, one that is cancelled between polls
and one that gives up. The TV has every route of the Samsung controller and the DLNA
controller; the player lacks a MAC address and an application URL, so that
refusals and fallbacks of each transport occur. Redirects use the program's own
limit of 3. Plans have one or two steps because those are all the templates
there are.

The `store` run has one network and one name, because a change of network is the
question of `store_files`, where addresses, actions and tokens are left out.

`discovery` has two searches instead of six, `ssdp:all` and one for a service: the
first, a middle and a last search differ in nothing else. Four answers give
two packets of one key, one device at two addresses, a packet without a
location and one that is of an unknown type although it has a uuid; the search of
another host, which has no uuid, is part of `listening`. s2 is nobody's search, so that
its answers take the way over `ssdp:all`. `MaxHeard` = 2 datagrams in a receive window let one
replace another and let a copy follow; over the combined and the two single
searches six may be read. The device that moves has a description at each of its two locations, so that a
second description replaces what the first one gave. The icons of the second have no
sizes that are numbers, so that it throws; those of the embedded device and of `l3` have. `Pages` says how the servers
answer: the first in chunks that part the embedded device, or up to the end of the
connection; the second refers to a third server (`l3`), which refers back or
announces the length of what it sends, or less. A circle of redirects is as long
as the client follows it.

`listening` has two threads (`Thread`): one event may come while another is handled.
`Traffic` has a device at two addresses, its good-bye and a search of another host.
`Duration` is none or two seconds. `MaxFiles` = 3 captures let the packets of one
address and of two be captured; from then on each capture fails, which the code
survives in the same way. `Earlier` is the files of earlier sessions that have the name of a
first announcement, or also its second choice. `MaxLate` = 2 is one more than
the property allows.

`pairing` has two TVs and two tokens (`Token`), so that a TV may hand out a second
one after it forgot the first, and the two TVs one each. The scenarios ask for an
action that is routed elsewhere, one that has no key, one that no device is capable
of, one for the second TV, and keys. An announcement is five units long, which the length of a
frame may exceed or fall short of when it is garbage: `MaxLength` = 10 leaves room
for both; that an announcement is not longer than `MaxLength` is assumed
(`PairingAssumption`). Connections are bounded by the scenarios.

`pipeline` has three uuids. The first two are described at one host, at one address
or two: with their location, address, name and maker in common they join,
with one of these missing they may not. The third is a server that resembles
neither, a router that shares the name (50) or the name and the maker with one of
them (80, the threshold itself), or the serial number with the other, so that it resembles two
devices that do not resemble each other. Answers of one uuid come in both orders;
the order of different uuids is lost when they are grouped. There are 1,365
registries, and a registry has one behaviour.

**Fairness.** The properties of the store and of the pipeline are safety properties
and their specifications have none. `FairSpec` of the orchestrator has two assumptions:
`WF(Thread)`, the operating system schedules the calling thread, all of whose
actions are local or a socket call with a limit; and `WF(DeviceStops)`, a
device does not go on sending for ever. The second is about the environment, the
code does not enforce it, and `bad_timeout` shows what happens under the first
alone. Nothing is assumed of the thread that cancels.

`FairSpec` of the listening mode: `WF(Main)`, because no step of the main thread
blocks: `Receive` returns within its timeout of a second, which `SetReceiveTimeout`
set or the program ended; `WF(CtrlHandler(t))`, a thread the system has started
runs; `WF(Tick)`, time goes on. Nothing is assumed of the traffic or of events.
`FairSpec` of the discovery: a GET returns. `TcpSocket` limits how long a server may be
silent; that a server does not send for ever is an assumption about it, the same one as
`DeviceStops`. Whether the searches end is not asked (see `hazards`,
`SSDPClient.cpp:102`). `FairSpec` of the pairing: `WF(Program)`, every Receive returns within the
timeout of its socket. None has to throw: `ReceiveFails` is not in `Program`, nor
is anything the TV does, so that a TV may leave the upgrade unanswered for ever and the
program goes on by its own timeout (`HandshakeFails`). The handshake is one step there,
so that a TV that sends its answer drop by drop for ever, which keeps the loop of
`WebSocketTransport.cpp:81`, is assumed away in this run; `bad_timeout` is about it.

Deadlock is not checked where the program stops: when the call of the orchestrator
has returned, the downloads are over, the devices are merged, the listener is done, the
scenarios are done. That it does not stop before that is what the liveness
properties say.

## 6. Where the code and its comments differ

Shown by a run (see `findings` in `PROJECT.json`): credentials are read but
never written (`KnowledgeStore.cpp:286`); receive loops ignore the request's timeout
(`HttpClient.cpp:99`); `Orchestrate` returns success for a step that was not done
(compare `SemanticOrchestrator.h:27`), because VolumeUp and VolumeDown at a DLNA
device read the volume (`GenericDLNAController.h:196`, compare `README.md:132`), and by the same
property, in longer counterexamples, because the Samsung controller routes SetVolume, for which its strategy
has no command (`SamsungController.h:155`, compare `WebSocketTransport.cpp:243`), and because the first
frame of a TV counts as the answer to a command that never reached it
(`WebSocketTransport.cpp:257`); `ControllerResolver` adds the actions of the vendor
to a device, and `ActionResolver`, which runs after it, clears the list first
(`main.cpp:308`, `:316`, `ActionResolver.cpp:12`, compare `ControllerResolver.cpp:61`), so that
a SmartTV without `RemoteControlTarget` ends without power actions; and the handshake
reads past the blank line and drops what it finds there, a token with it
(`WebSocketTransport.cpp:87`, compare `:78`).

Met while reading, without a run because the model abstracts the data or
a single reading settles it:

- embedded devices of a description are never registered, because an element ends at
  the first closing tag of its name (`XmlAnalyzer.cpp:154`, compare `:43` and `:71`), so
  that `parentUuid` is never set. The model has it: a root device is found in spite of it
  (`RootsAreKnown`);
- a service named by an SSDP answer keeps the empty URLs it has there and the one its
  description gives is dropped (`DeviceFusionEngine.cpp:203`, compare `SSDPAnalyzer.cpp:100`). The
  model has it, and `EvidenceIsPlaced` speaks of the types of services;
- two processes that capture into one directory may pick the same name, between the test and
  the opening of the file (`CaptureWriter.cpp:122`, compare `CaptureWriter.h:6`); two may listen,
  as the socket is opened with SO_REUSEADDR (`MulticastSocket.cpp:89`);
- a byebye is registered like any announcement (`SSDPAnalyzer.cpp:51`), so that the device
  that is leaving becomes evidence;
- an endpoint with a location URL and no application URL loses it over a reload: the
  line ends in an empty part, which the reader drops together with the part before
  (`KnowledgeStore.cpp:382`; compare the comments at `:286` and `:370`). The model of
  the text has it (`KnowledgeEntity`), and `AddressesAreKept` speaks of
  addresses, not of URLs;
- `std::stoul` on a MAC address is outside the `try` of the transport, so that a
  malformed one ends `Orchestrate` with an exception
  (`WakeOnLANTransport.cpp:39`); no code fills the address;
- a socket whose receive timeout cannot be set is closed and its handle kept
  (`TcpSocket.cpp:66`): the connection to the last address of a host then counts as made;
- the orchestrator waits for a device to answer before it sends `PowerOn`
  (`SemanticOrchestrator.cpp:78`): with a transport for `Unknown` that asks the
  device, one that is off would never be woken. The program registers
  `DummyTransport`;
- a second Ctrl+C after the handler was taken out, and any other event that
  closes the console, ends the process without the list of devices
  (`SSDPClient.cpp:331`);
- the header `Application-URL` is looked up with its case
  (`DescriptionDownloader.cpp:44`), though names of headers have none;
- a width, a height or a depth of an icon that is no number throws the whole description
  away, its devices and services included (`XmlAnalyzer.cpp:230`,
  `DescriptionDownloader.cpp:59`), which `RootsAreKnown` makes an exception for;
- an action for which the Samsung controller has no key is routed as `KEY_UNKNOWN`
  (`SamsungController.h:142`);
- the status of a description is not looked at beyond redirects: the text of an
  error page is analysed as a description;
- a token that a TV has forgotten is kept and injected until a new one replaces it;
  a TV that refuses it each time is asked each time;
- a frame whose first read has one byte is reported as `AuthenticationRequired`, and a
  refusal that was cut as `Success` (`WebSocketTransport.cpp:162`,
  `SamsungWebSocketStrategy.h`): the answer is judged by what came of it;
- endpoints are matched by address only, and compatible controllers are never
  refreshed (`KnowledgeStore.cpp:62`, `:173`; compare `KnowledgeStore.h:40`);
- nothing computes the confidence state Archived, and the archived mark is not
  written to the file (`KnowledgeModels.h:33`, `KnowledgeStore.cpp:105`);
- the age behind a confidence counts from the last discovery
  (`KnowledgeStore.cpp:141`, `KnowledgeModels.h:30`);
- an empty plan is announced for unknown intents but never returned
  (`WorkflowPlanner.h:16`), and no code returns `InvalidParameter`;
- no code fills `signature.mac`, on which the WakeOnLAN route of a device relies;
- the registry "deduplicates identical packets" (`DeviceRegistry.h:31`), but a
  packet of the same device that is not identical replaces the evidence as a
  whole, so that of the services a device answers with only the last is kept
  until its description is read (`DeviceRegistry.cpp:20`);
- `Discover` promises the packets "for this search target" (`SSDPClient.h:139`)
  and returns whatever arrives at the socket, late answers to earlier searches
  included (`SSDPClient.cpp:127`);
- `DiscoverAll` speaks of a single shared window of `timeoutSeconds`
  (`SSDPClient.h:168`); the timeout counts anew for each datagram;
- the repository's README lists "Concurrent HTTP fetching" (`README.md:22`); the
  downloads are sequential, a slow device holds up all others;
- retry policies of a plan are never looked at (`WorkflowPlanner.cpp:11`);
- a score that is "set high enough to always outrank generic protocol matches"
  (`SamsungController.h:59`) does not outrank those of a device with a service in two
  versions, each of which counts;
- no normalised domain is `samsung.com` (`SamsungController.h:46`); it is
  `urn:samsung.com`. No service is named `DIAL` (`GenericDLNAController.h:77`);
  the name is `dial`;
- services are told apart by `serviceId`, which those that only an answer named lack:
  of these a device keeps one (`DeviceFusionEngine.cpp:341`).

## 7. The proofs

Every invariant, every action property and both refinements that a passing run checks
are theorems, proved for all values of the constants. The assumptions are those named
in the modules: `EntityAssumption`, `StoreAssumption`, `RegisteredAssumption`,
`OrchestratorAssumption`, `DescriptionAssumption`, `DiscoveryAssumption`,
`ListenerAssumption`, `EarlierAssumption`, `PairingAssumption`, `FusionAssumption` and
`PipelineAssumption`. They type the constants and say that the marks for "none" are
none of the values. Five say more:

- `DiscoveryAssumption`: `ssdp:all` is searched for, and no chunk has size 0, which would end
  the document;
- `ListenerAssumption`: the histories have room (`MaxLate` is 2 or more);
- `PairingAssumption`: an announcement is not longer than `MaxLength`;
- `FusionAssumption`: uuids and addresses are numbers, because the order of a
  `std::map` is one of them;
- `PipelineAssumption`: of the registry, what the code of the discovery guarantees: one
  piece of evidence per source, uuid and address (`NoDoubles`, proved of
  `Discovery`), descriptions behind answers, and no device type in an answer.

**Folds** (`Folding`). The models use the folds of the community modules and
functions that call themselves. What these compute for all inputs needs induction; the library's
induction theorems take an operator, which the provers cannot instantiate. `SetInduction`
states induction over a set of numbers instead, `FoldSteps` gives the equations of a
`FoldLeft`, `FoldKeeps` and `FoldInduction` what a fold keeps and what may come of its
first elements, `FlattenSteps` the equations of `FlattenSeq`. A module that proves
something about a fold makes an instance of `Folding` for it.

**Knowledge store** (`KnowledgeStoreProofs`). `TypeOK`, `FilesHoldTheirOwn`,
`RecordsAreKnown`, `DiskIsCurrent`, `OneEntityPerDevice` and
`CredentialsStayWithTheirDevice` follow from the one inductive invariant

    IInv == TypeOK /\ SaveInOrder /\ LastIsOwn /\ CredentialIsOwn
            /\ FilesHoldTheirOwn /\ RecordsAreKnown /\ DiskIsCurrent

None of the goals is inductive alone. A write puts the record of `saving`
into the file of `saving`, so that it needs a known entity (`SaveInOrder`: a
save under way is that of a known entity of a running process). A load keeps the
identity apart only if the files do (`FilesHoldTheirOwn`); that two devices are never
taken for one needs that the last identity of an entity is its own
(`LastIsOwn`), and that credentials stay needs that each was stored under
its own id (`CredentialIsOwn`).

The action properties `AddressesAreKept` and `ActionsStayLearnt` (theorems `AddressesStay`,
`LearntForGood`) follow from `StepFollows`: whatever a step within one network does, the
endpoints and profiles of an entity whose last save did not fail, and which shares its file
with no other, are afterwards the same, or merged with an observation, or what its own text
reads back as. That a reload finds the entity's own text is `DiskIsCurrent`. What remains are lemmas on the record:
a merge keeps occupied what was occupied, a round trip through the text keeps an endpoint
where all endpoints of the address have a uuid, and no merge unlists an action.

That the store implements `DurableKnowledge` (`KeepsKnowledge`) is proved under the
assumption `OwnFile`, that no two ids share a file, which the sanitising of names does
not guarantee: with a shared file the save of one device replaces the record of another.
`RInv` adds to `IInv` that what memory knows extends what the disk knows and that an
open file is empty; each step of the store is then a step of the abstract
specification or a stutter.

**Orchestrator** (`OrchestratorProofs`). `TypeOK`, `OncePerStep`,
`NothingElseIsDone` and the refinement `KeepsPromise` follow from

    IInv == TypeOK /\ Progress /\ Lateness /\ Locating
            /\ HandshakeIsWebSocket /\ NotYetTold /\ OncePerStep

`Progress` ties the number of begun steps to the phase and the outcome,
`Lateness` says that a step begun late is the last (the token is read before each
step, so that a late step can only be one whose token was set between that read and
the call), `NotYetTold` says in which phases the device cannot have got the
current command yet: before a call, while a connection is up without its
request, and while a location is asked for. `Locating` and
`HandshakeIsWebSocket` tie the exchange in progress to its transport. `RoutesAreGood` is the lemma
on the controllers that this rests on: every route has a type and only
DIAL asks for a location. For `NothingElseIsDone` (theorem
`OnlyTheStepIsDone`) the lemma `RoutesDoOnly` goes through the controllers: whatever
the category of the action held, a route carries no command that does anything but
the action. `CallDoesOnly` keeps that for the call under way, and each step that
tells the device something tells it the command of the call.

**Discovery** (`DiscoveryProofs`, lemmas in `DescriptionProofs`), in three layers.

1. The searches. `SearchesAreListed`, for any number of searches and whatever answers and
   failures there are, follows from `IInv == Types /\ Counted`. `Counted` says at every point
   how often each search is on the list: not at all or once in the combined mode,
   once if it came before the current one in the single mode, and one more time if a
   combined search had been taken over before. The counting itself is the lemma
   `AppendOccurs`.
2. The downloads. `TypeOK`, `LocationsAreTried`, `BodyIsServed`, `RootsAreKnown` and
   `NoDoubles` follow from

       JInv == MoreTypes /\ Getting /\ Undescribed /\ Asked /\ RootsAreKnown

   `Getting` ties the GET under way to the description that is next: its URL is as many
   redirects away from the location as were followed, and what came is a beginning of
   what is served there. `Asked` says that each announced location was asked for or is
   still on the list; that the list, when it is taken, has all that was announced, is
   `Undescribed`: before the downloads no evidence is of a description.
   `DescriptionProofs` has what this says of the parts: what comes of an answer, wherever it
   is cut and however its chunks lie, is a beginning of the document and all of it if all
   came; what `XmlAnalyzer` finds in a beginning of a description is named in it, and
   it finds the root device of a whole one, and registers it unless a device of the
   description has an icon whose size is no number; `Register` keeps keys, types and
   uniqueness.
3. The digest. `RegistryIsTheDigest` from `Digested`, which states it for the part of a
   list that main is through with, in the combined mode and in the single one. A later packet of a key takes the place of an earlier one,
   and downloads change no evidence of a search.

**Listening mode** (`PassiveListenerProofs`, lemmas on the registry in
`DescriptionProofs`). `TypeOK`, `AtMostOneMore`, `CapturesMatchEvidence`,
`NoDoubles` and `CapturesAreKept`, for any traffic and any number of threads, from

    IInv == TypeOK /\ LateOnlyOnce /\ NameIsFree /\ InHand /\ CapturedFirst
            /\ CapturesMatchEvidence /\ NoDoubles

`LateOnlyOnce` adds to the bound the reason: while the listener is due to stop and one
datagram came late, it is not in a place from which it reaches `Receive`.
`CapturesAreKept` needs that the name that was found free is still free when it is
written to (`NameIsFree`), which holds because one process writes.

**Pairing** (`PairingProofs`). `TypeOK`, `TokensAreWhole`, `ActionsAreTried` and the action
property `NotAskedAgain`, for any TVs, tokens, scenarios and garbage. `Good` says how a TV
names tokens: behind a mark, in two halves, before a quote; it holds of everything a TV sends
(`RepliesAreGood`). `Reads` says that a frame is read without a gap, from wherever the
handshake left off, so that what has arrived is a part of what was sent, or noise.
`PartsNameTokens` then is the heart: a part of a good text either has no token that would be stored and none that
came whole, or one and the same that is both. `Carries` puts it together over
connections: the last token that came whole in a frame is what is stored, and what is stored is in
the path of the request. `TypeOK` needs `Framed`: in what a TV sends every opcode stands
before a bounded length (`Opens`), so that a frame that is read from an opcode, wherever
the handshake left off, has a length a TV sent, or bounded garbage; a header that
is read elsewhere is over at once (`MisreadFacts`). `ActionsAreTried` (theorem
`AllActionsAreTried`) follows from `Progress`: what was executed is the plan of the
scenarios before the one in hand, and of that one the actions before the one in hand.

**Pipeline** (`PipelineProofs`). All five invariants, for any registry that
`PipelineAssumption` allows.

1. The fusion, a fold in a fold in a fold. `Joins`: an endpoint has the services, a location and a
   device type of the evidence of its uuid and address. `Speaks`: a device has an endpoint for
   all evidence of its uuids, and each of its texts is one that some of it has. `Fused`: after
   each `Place` the uuids that were placed are each in one device, and `Justified` there.
   That the score the code computes is no more than `FusionIsJustified` counts from the
   evidence itself is `ScoreIsShared`, with lemmas on sums over finite sets.
2. The stages. `PipelineInvariant` says where the program is (`Position`), that the devices
   hold the evidence (`Holding`), and which fields of each device are what their stage makes
   of the evidence, by the stage that comes next for it (`Progress`, `Passed`). It is inductive
   because no stage writes what an earlier one was made from. `ActionsMirrorEvidence` then
   is a calculation over the tables of the stages, and the order of the candidates
   (`BestControllerFirst`) one over the three controllers (`ThreeInOrder`).

The invariants were checked with TLC before they were proved (`Good` without the
type of its units, whose values TLC cannot compare).

**Only model-checked.** The liveness properties, `Terminates`, `DownloadsEnd`,
`StopsWhenTold`, `LimitIsKept` and `ScenariosEnd`: proofs under fairness need ENABLED,
which the provers do not support; and the violations, which a counterexample settles. No
module that is proved about declares a RECURSIVE operator, for which the prover has no
rules; functions that call themselves are given by their equations, whose solution is
proved to exist before it is used (`ExtractsExists`, `ChunksExist`, `ReachingExists`).

## 8. The plan

The order put the behaviour that the program's promises depend on first. Done:

1. Knowledge store with its files; the orchestrator with engine and transports;
   active discovery with the registry and the analyzers; the device pipeline from
   the registry to the store.
2. The pairing session with the validation scenarios, the Samsung strategy and the
   frames of the WebSocket; the HTTP client below the downloads; the listening
   mode with its socket, threads and captures.
3. Proofs of all safety properties of 1 and 2, as section 7 says.

Left, in the order of what it would add:

1. The handle of a `TcpSocket` over several addresses of a host, and masking and
   fragmentation of frames, as modules of their own.
2. `Pairing` on top of `KnowledgeStore` instead of its table of credentials, once
   credentials are written to the file: today a restart forgets them all, which
   `bad_credentials` shows.
3. A variant for the downloads, whose end is only model-checked: that each of their steps
   decreases what is left of the list and of the redirects is a safety property, and
   could be proved. The receive loops of the transports have none.

## 9. What is not modelled

- The knowledge synchronizer: no code constructs one. `DeleteEntityData`,
  `DiscoverMultiple`, `Clear` and other operations nothing calls.
- The connectivity probe of Samsung devices in `main.cpp` (lines 363-423): it prints what four
  ports answer and keeps nothing.
- The handle of `TcpSocket` over several addresses, moves of sockets, the
  masking in `SendFrame`, fragmented messages (section 4 and `components`).
- The SOAP builders and parsers, semantic text helpers (pure functions of a text; the
  orchestrator's model takes any result they may give), presentation and packet
  tools (output and texts).
- The manual test program, the vendored XML library, and the downloaded service
  descriptions, which the program does not read.

`components` in `PROJECT.json` gives the reason for each; `hazards` names, for each
hazard without a property, why there is none.
