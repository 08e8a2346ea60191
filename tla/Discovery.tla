----------------------------- MODULE Discovery -----------------------------
(***************************************************************************)
(* The active discovery of main.cpp: the searches of SSDPClient over one   *)
(* UDP socket, the evidence that SSDPAnalyzer and XmlAnalyzer register,    *)
(* and the descriptions that DescriptionDownloader fetches.                *)
(*                                                                         *)
(* The network loses, delays, duplicates and reorders answers, so that an  *)
(* answer may be read long after the search it answers.  A search, the     *)
(* capture of a packet and a download may fail at any point, a download is *)
(* redirected or cut short; main first tries all searches at once and      *)
(* falls back to one after the other.                                      *)
(***************************************************************************)
EXTENDS DeviceDescription, HttpClient

CONSTANTS
    SearchTargets,  \* DEFAULT_SEARCH_TARGETS
    All,            \* ssdp:all
    Host,           \* the address in a URL
    Answer,         \* bound: the answers devices may send
    Served,         \* the root device at each location, and its embedded ones
    Pages,          \* how the server behind a location may answer
    MaxHeard        \* bound: datagrams read in one receive window

ASSUME DiscoveryAssumption ==
    /\ SearchTargets \in Seq(Service \cup Generic)
    /\ All \in Range(SearchTargets) \cap Generic
    /\ Service \cap Generic = {}
    /\ NoLocation \notin Location
    /\ Host \in [Location -> Ip]
    /\ Answer \subseteq Packet
    /\ Served \in [Location -> [root : Node, embedded : Seq(Node)]]
    /\ Pages \in [Location -> SUBSET [code : Nat, to : Location \cup {NoLocation},
                                      encoding : Encoding, size : Nat]]
    \* A chunk of size 0 would end the document.
    /\ \A l \in Location : \A page \in Pages[l] :
          page.encoding = "chunked" => page.size > 0
    /\ MaxHeard \in Nat

VARIABLES
    phase,      \* where main is
    combined,   \* the searches are tried all at once
    next,       \* the search that comes next, or is under way
    net,        \* answers on their way to the socket
    buckets,    \* what the current call has received, by search
    todo,       \* packets main has yet to capture and dispatch
    results,    \* allResults
    registry,   \* m_evidence
    pending,    \* the snapshot ProcessPending works on
    request,    \* the GET under way: its URL and how often it was redirected
    body,       \* what it brought
    abandoned,  \* history: a capture failed in the combined mode
    tried,      \* history: locations a download was tried for
    sent,       \* history: what the server meant, and whether all of it came
    fetched     \* history: where the descriptions that came as a whole were

vars == <<phase, combined, next, net, buckets, todo, results, registry,
          pending, request, body, abandoned, tried, sent, fetched>>

\* What only the downloads change.
downloads == <<request, body, tried, sent, fetched>>

Search == DOMAIN SearchTargets

NoPackets == [s \in Search |-> <<>>]

NoRequest == [url |-> NoLocation, redirects |-> 0]

NoAnswer == [document |-> <<>>, whole |-> FALSE]

Init ==
    /\ phase = "init"
    /\ combined = TRUE
    /\ next = 1
    /\ net = {}
    /\ buckets = NoPackets
    /\ todo = <<>>
    /\ results = <<>>
    /\ registry = <<>>
    /\ pending = <<>>
    /\ request = NoRequest
    /\ body = <<>>
    /\ abandoned = FALSE
    /\ tried = {}
    /\ sent = NoAnswer
    /\ fetched = {}

-----------------------------------------------------------------------------
(* Searches.                                                               *)

InitializeFails ==
    /\ phase = "init"
    /\ phase' = "failed"
    /\ UNCHANGED <<combined, next, net, buckets, todo, results, registry,
                   pending, abandoned, downloads>>

Initialize ==
    /\ phase = "init"
    /\ phase' = "send"
    /\ UNCHANGED <<combined, next, net, buckets, todo, results, registry,
                   pending, abandoned, downloads>>

\* Who answers a search, and how: an answer to ssdp:all names any service.
AnswersTo(target) == {p \in Answer : target = All \/ p.st = target}

\* DiscoverAll sends all requests before it receives.
Send ==
    /\ phase = "send"
    /\ \E answers \in SUBSET AnswersTo(SearchTargets[next]) :
         net' = net \cup answers
    /\ IF combined /\ next < Len(SearchTargets)
       THEN next' = next + 1 /\ UNCHANGED phase
       ELSE phase' = "receive" /\ UNCHANGED next
    /\ buckets' = NoPackets
    /\ UNCHANGED <<combined, todo, results, registry, pending, abandoned, downloads>>

\* Fault: the fallback goes on where the combined search was.
FallBackHere ==
    /\ combined' = FALSE
    /\ phase' = "send"
    /\ todo' = <<>>
    /\ UNCHANGED <<next, net, results, pending>>

\* The catch-all of the combined search.
FallBack ==
    /\ combined' = FALSE
    /\ next' = 1
    /\ phase' = "send"
    /\ todo' = <<>>
    /\ UNCHANGED <<net, results, pending>>

\* Nothing reads the socket any more.
Fetch(evidences) ==
    /\ phase' = "fetch"
    /\ net' = {}
    /\ pending' = Pending(evidences)

\* A single search is over; packets is what goes on its list.
SearchDone(packets) ==
    /\ results' = Append(results, [search |-> next, packets |-> packets])
    /\ IF next < Len(SearchTargets)
       THEN phase' = "send" /\ next' = next + 1 /\ UNCHANGED <<net, pending>>
       ELSE Fetch(registry) /\ UNCHANGED next
    /\ todo' = <<>>
    /\ UNCHANGED combined

\* An exception in DiscoverAll or Discover: what it has received is lost.
SearchFails ==
    /\ phase \in {"send", "receive"}
    /\ IF combined THEN FallBack ELSE SearchDone(<<>>)
    /\ buckets' = NoPackets
    /\ UNCHANGED <<registry, abandoned, downloads>>

\* DiscoverAll lists an answer under the first target it names, otherwise
\* under ssdp:all; Discover under the search that is under way.
Bucket(p) ==
    LET First(target) == {s \in Search :
                            /\ SearchTargets[s] = target
                            /\ \A r \in Search : SearchTargets[r] = target => s <= r}
    IN IF ~ combined THEN {next}
       ELSE IF First(p.st) # {} THEN First(p.st)
       ELSE First(All)

Heard == FoldLeft(LAMBDA n, s : n + Len(buckets[s]), 0, [s \in Search |-> s])

\* One datagram; a second copy of it may follow.
Receive ==
    /\ phase = "receive"
    /\ Heard < MaxHeard
    /\ \E p \in net :
         /\ buckets' = [s \in Search |->
                            IF s \in Bucket(p) THEN Append(buckets[s], p)
                            ELSE buckets[s]]
         /\ net' \in {net, net \ {p}}
    /\ UNCHANGED <<phase, combined, next, todo, results, registry, pending,
                   abandoned, downloads>>

\* Nothing arrives for a while, or a datagram without payload does.
WindowCloses ==
    /\ phase = "receive"
    /\ phase' = "dispatch"
    /\ todo' = FlattenSeq(buckets)
    /\ results' = IF combined
                  THEN [s \in Search |-> [search |-> s, packets |-> buckets[s]]]
                  ELSE results
    /\ UNCHANGED <<combined, next, net, buckets, registry, pending, abandoned, downloads>>

Lose ==
    /\ phase \in {"send", "receive", "dispatch"}
    /\ \E p \in net : net' = net \ {p}
    /\ UNCHANGED <<phase, combined, next, buckets, todo, results, registry,
                   pending, abandoned, downloads>>

-----------------------------------------------------------------------------
(* Dispatch.                                                               *)

\* Capture and analysis of one packet.
Dispatch ==
    /\ phase = "dispatch"
    /\ todo # <<>>
    /\ registry' = AnalyzeSsdp(registry, Head(todo))
    /\ todo' = Tail(todo)
    /\ UNCHANGED <<phase, combined, next, net, buckets, results, pending,
                   abandoned, downloads>>

\* SaveActivePacket cannot open its file and throws.  Nothing catches that in
\* the single searches.
CaptureFails ==
    /\ phase = "dispatch"
    /\ todo # <<>>
    /\ IF combined
       THEN FallBack /\ abandoned' = TRUE
       ELSE /\ phase' = "failed"
            /\ UNCHANGED <<combined, next, net, todo, results, pending, abandoned>>
    /\ UNCHANGED <<buckets, registry, downloads>>

DispatchDone ==
    /\ phase = "dispatch"
    /\ todo = <<>>
    /\ IF combined
       THEN Fetch(registry) /\ UNCHANGED <<combined, next, todo, results>>
       ELSE SearchDone(buckets[next])
    /\ buckets' = NoPackets
    /\ UNCHANGED <<registry, abandoned, downloads>>

-----------------------------------------------------------------------------
(* DescriptionDownloader::ProcessPending.                                  *)

Document(url) == Description(Served[url].root, Served[url].embedded)

\* The pending evidence is done with.
Advance(rest) ==
    /\ pending' = rest
    /\ phase' = "fetch"
    /\ request' = NoRequest
    /\ body' = <<>>
    /\ sent' = NoAnswer

BeginGet ==
    /\ phase = "fetch"
    /\ pending # <<>>
    /\ request = NoRequest
    /\ request' = [url |-> Head(pending).location, redirects |-> 0]
    /\ tried' = tried \cup {Head(pending).location}
    /\ UNCHANGED <<phase, combined, next, net, buckets, todo, results, registry,
                   pending, body, abandoned, sent, fetched>>

\* Fault: redirects are not counted.
FollowAnywhere(url) ==
    /\ url \in Location
    /\ request' = [request EXCEPT !.url = url]
    /\ UNCHANGED <<phase, body, sent>>

\* Fault: one redirect too many is followed.
FollowOnceMore(url) ==
    /\ url \in Location
    /\ request.redirects <= MAX_REDIRECTS
    /\ request' = [url |-> url, redirects |-> request.redirects + 1]
    /\ UNCHANGED <<phase, body, sent>>

\* A redirect of a GET is a GET of its own.
Follow(url) ==
    /\ url \in Location
    /\ request.redirects < MAX_REDIRECTS
    /\ request' = [url |-> url, redirects |-> request.redirects + 1]
    /\ UNCHANGED <<phase, body, sent>>

\* The answers that the server behind each URL may give.  The status is not
\* looked at beyond the redirects.
Responses ==
    [url \in Location |->
        UNION {Outcomes(page, IF IsRedirect(page.code) THEN <<>> ELSE Document(url)) :
                    page \in Pages[url]}]

\* SendRequest has read some of an answer.
Respond ==
    /\ phase = "fetch"
    /\ request # NoRequest
    /\ \E answer \in Responses[request.url] :
         \/ \E url \in answer.to : Follow(url)
         \/ /\ answer.to = {}
            /\ body' = answer.body
            /\ sent' = answer.sent
            /\ phase' = "analyze"
            /\ UNCHANGED request
    /\ UNCHANGED <<combined, next, net, buckets, todo, results, registry,
                   pending, abandoned, tried, fetched>>

\* Fault: the exception of one download ends the loop.
GetFailsForAll ==
    /\ phase = "fetch"
    /\ request # NoRequest
    /\ Advance(<<>>)
    /\ UNCHANGED <<combined, next, net, buckets, todo, results, registry,
                   abandoned, tried, fetched>>

\* No connection, no status line, too many redirects, or one to no absolute
\* URL: Get throws, and the next description follows.
GetFails ==
    /\ phase = "fetch"
    /\ request # NoRequest
    /\ Advance(Tail(pending))
    /\ UNCHANGED <<combined, next, net, buckets, todo, results, registry,
                   abandoned, tried, fetched>>

\* The packet names the location the device announced, wherever the answer
\* came from.  An analyzer that throws registers nothing; its exception ends
\* where that of Get does, and the next description follows.
Analyze ==
    /\ phase = "analyze"
    /\ LET location == Head(pending).location
       IN registry' = AnalyzeXml(registry, body, Host[location], location)
    /\ fetched' = IF sent.whole /\ sent.document = Document(request.url)
                  THEN fetched \cup {[location |-> Head(pending).location,
                                     url |-> request.url]}
                  ELSE fetched
    /\ Advance(Tail(pending))
    /\ UNCHANGED <<combined, next, net, buckets, todo, results, abandoned, tried>>

DownloadsDone ==
    /\ phase = "fetch"
    /\ pending = <<>>
    /\ phase' = "done"
    /\ UNCHANGED <<combined, next, net, buckets, todo, results, registry,
                   pending, abandoned, downloads>>

Next ==
    \/ InitializeFails
    \/ Initialize
    \/ Send
    \/ SearchFails
    \/ Receive
    \/ WindowCloses
    \/ Lose
    \/ Dispatch
    \/ CaptureFails
    \/ DispatchDone
    \/ BeginGet
    \/ Respond
    \/ GetFails
    \/ Analyze
    \/ DownloadsDone

Spec == Init /\ [][Next]_vars

\* A GET returns: TcpSocket limits how long a server may be silent, and no
\* server sends for ever.  So does the analysis of what it brought.
FairSpec ==
    /\ Spec
    /\ WF_vars(BeginGet \/ Respond \/ GetFails \/ DownloadsDone)
    /\ WF_phase(phase = "analyze" /\ phase' = "fetch")

-----------------------------------------------------------------------------
(* What must hold.                                                         *)

TypeOK ==
    /\ phase \in {"init", "send", "receive", "dispatch", "fetch", "analyze",
                  "done", "failed"}
    /\ combined \in BOOLEAN
    /\ next \in Search
    /\ net \subseteq Packet
    /\ buckets \in [Search -> Seq(Packet)]
    /\ todo \in Seq(Packet)
    /\ results \in Seq([search : Search, packets : Seq(Packet)])
    /\ registry \in Seq(Evidence)
    /\ pending \in Seq(Evidence)
    /\ abandoned \in BOOLEAN
    /\ sent.whole \in BOOLEAN
    /\ request \in [url : Location, redirects : 0 .. MAX_REDIRECTS] \cup {NoRequest}
    /\ tried \subseteq Location
    /\ fetched \subseteq [location : tried, url : Location]

Listed == phase \in {"fetch", "analyze", "done"}

\* When the searches are over each is listed once, however many of them
\* failed; a second time if a capture failed in the combined mode.
SearchesAreListed ==
    Listed => \A s \in Search :
        Cardinality({k \in DOMAIN results : results[k].search = s})
            = IF abandoned THEN 2 ELSE 1

\* Every packet of the lists, in the order of the lists.
ListedPackets == FlattenSeq([k \in DOMAIN results |-> results[k].packets])

\* The registry is the digest of the lists: for each device at each address
\* the evidence of its last packet, and nothing else, whichever searches
\* failed, fell back, or read the answers of others (Register, Analyze, main).
RegistryIsTheDigest ==
    Listed /\ ~ abandoned =>
        LET packets == ListedPackets
            Latest == {j \in DOMAIN packets :
                        /\ IsEvidence(packets[j])
                        /\ \A i \in DOMAIN packets :
                              i > j /\ IsEvidence(packets[i]) =>
                                ~ SameKey(SsdpEvidence(packets[i]),
                                          SsdpEvidence(packets[j]))}
        IN {e \in Range(registry) : e.source = "SSDP"}
               = {SsdpEvidence(packets[j]) : j \in Latest}

\* No two pieces of evidence are of the same device at the same address from
\* the same source, over fallbacks, copies and repeated downloads (Register).
NoDoubles ==
    \A j, k \in DOMAIN registry : SameKey(registry[j], registry[k]) => j = k

\* When the downloads are over, the description behind every location a
\* device announced was asked for, though the registry changes meanwhile
\* (ProcessPending works on a snapshot).
LocationsAreTried ==
    phase = "done" =>
        \A e \in Range(registry) : e.location # NoLocation => e.location \in tried

Describes(e, uuid, location) ==
    e.source = "UPnP_XML" /\ e.uuid = uuid /\ e.ip = Host[location]

\* Where the server behind a location may answer a description from, or refer
\* to for one.
LeadsTo(location) ==
    LET at(l)  == \E page \in Pages[l] : ~ IsRedirect(page.code)
        hop(l) == {page.to : page \in {p \in Pages[l] : IsRedirect(p.code)}}
        from[n \in Nat] ==
            IF n = 0 THEN {location}
            ELSE from[n - 1] \cup ((UNION {hop(l) : l \in from[n - 1]}) \cap Location)
    IN {l \in from[MAX_REDIRECTS] : at(l)}

\* The body that is analysed is what the server sent, without what only
\* transports it, up to where the answer was cut: whole chunks, no more than
\* was announced, and all of it when all came; an answer that was cut in its
\* headers yields no part of a description (SendRequest).
BodyIsServed ==
    phase = "analyze" =>
        /\ body = <<Fragment>> \/ IsPrefix(body, sent.document)
        /\ sent.whole => body = sent.document

\* Every size in the description behind a URL is a number.
IconsAreSized(url) ==
    \A d \in {Served[url].root} \cup Range(Served[url].embedded) :
        d.icons # "unsized"

\* A description that came as a whole, redirects included, makes its root
\* device known at the location the device announced, if the sizes of its
\* icons are numbers, and keeps it known when it is fetched again and cut
\* short, or when another description throws; nobody is described by a
\* description its location does not lead to (XmlAnalyzer, HttpClient).
RootsAreKnown ==
    /\ \A f \in fetched :
         LET root == Served[f.url].root
         IN root.uuid # NoUuid /\ IconsAreSized(f.url) =>
              \E e \in Range(registry) : Describes(e, root.uuid, f.location)
    /\ \A e \in Range(registry) :
         e.source = "UPnP_XML" =>
            \E l \in LeadsTo(e.location) :
                e.uuid \in {Served[l].root.uuid}
                            \cup {d.uuid : d \in Range(Served[l].embedded)}

\* The downloads come to an end, also where a server refers to itself
\* (SendRequest, ProcessPending).
DownloadsEnd == phase = "fetch" ~> phase = "done"
=============================================================================
