--------------------------- MODULE DiscoveryProofs ---------------------------
(***************************************************************************)
(* The active discovery, for any searches, devices, servers and losses, in *)
(* three layers:                                                           *)
(*                                                                         *)
(*  - whatever fails in the searches, main ends with a list for each of    *)
(*    them: one, or two if the capture of a packet failed in the combined  *)
(*    mode.  Counted says how often each search is listed at every point   *)
(*    of the way there;                                                    *)
(*  - what the downloads ask for, take for an answer and make known.       *)
(*    Getting relates the GET under way to the description that is next,   *)
(*    Asked says which locations are still to be tried;                    *)
(*  - the registry is the digest of what was dispatched.  Digested has it  *)
(*    for the part of a list that main is through with.                    *)
(***************************************************************************)
EXTENDS Discovery, DescriptionProofs, FiniteSetTheorems

Entry == [search : Search, packets : Seq(Packet)]

Occurs(list, s) == Cardinality({k \in DOMAIN list : list[k].search = s})

\* What an abandoned combined search has left on the list.
Before == IF abandoned THEN 1 ELSE 0

Searching == {"init", "send", "receive"}

After == {"fetch", "analyze", "done"}

Types ==
    /\ phase \in Searching \cup {"dispatch", "failed"} \cup After
    /\ combined \in BOOLEAN
    /\ abandoned \in BOOLEAN
    /\ next \in Search
    /\ net \subseteq Packet
    /\ buckets \in [Search -> Seq(Packet)]
    /\ results \in Seq(Entry)

Counted ==
    /\ combined => ~ abandoned
    /\ phase = "init" => combined
    /\ combined /\ phase \in Searching => results = <<>>
    /\ combined /\ phase \in {"dispatch"} \cup After
         => \A s \in Search : Occurs(results, s) = 1
    /\ ~ combined /\ phase \in {"send", "receive", "dispatch"}
         => \A s \in Search :
              Occurs(results, s) = Before + (IF s < next THEN 1 ELSE 0)
    /\ ~ combined /\ phase \in After
         => \A s \in Search : Occurs(results, s) = Before + 1

IInv == Types /\ Counted

-----------------------------------------------------------------------------
(* Lists.                                                                  *)

LEMMA SearchesAreNumbered ==
    /\ Len(SearchTargets) \in Nat
    /\ Search = 1 .. Len(SearchTargets)
    /\ 1 \in Search
<1>1. Len(SearchTargets) \in Nat /\ Search = 1 .. Len(SearchTargets)
  BY DiscoveryAssumption DEF Search
<1>2. All \in Range(SearchTargets)
  BY DiscoveryAssumption
<1>3. Search # {}
  BY <1>2 DEF Range, Search
<1>. QED
  BY <1>1, <1>3

LEMMA EmptyOccurs == \A s : Occurs(<<>>, s) = 0
<1>1. \A s : {k \in DOMAIN <<>> : <<>>[k].search = s} = {}
  OBVIOUS
<1>. QED
  BY <1>1, FS_EmptySet DEF Occurs

LEMMA AppendOccurs ==
    ASSUME NEW list \in Seq(Entry), NEW entry \in Entry, NEW s \in Search
    PROVE  Occurs(Append(list, entry), s)
             = Occurs(list, s) + (IF entry.search = s THEN 1 ELSE 0)
<1> DEFINE longer == Append(list, entry)
           before == {k \in DOMAIN list : list[k].search = s}
           after == {k \in DOMAIN longer : longer[k].search = s}
<1>1. /\ Len(list) \in Nat /\ DOMAIN list = 1 .. Len(list)
      /\ DOMAIN longer = 1 .. Len(list) + 1
      /\ longer[Len(list) + 1] = entry
      /\ \A k \in 1 .. Len(list) : longer[k] = list[k]
  OBVIOUS
<1>2. IsFiniteSet(before) /\ Cardinality(before) \in Nat
  <2>1. IsFiniteSet(1 .. Len(list))
    BY <1>1, FS_Interval
  <2>2. before \subseteq 1 .. Len(list)
    BY <1>1
  <2>. QED
    BY <2>1, <2>2, FS_Subset, FS_CardinalityType
<1> HIDE DEF longer
<1>3. Occurs(longer, s) = Cardinality(after) /\ Occurs(list, s) = Cardinality(before)
  BY DEF Occurs
<1>4. CASE entry.search = s
  <2>1. after = before \cup {Len(list) + 1} /\ Len(list) + 1 \notin before
    BY <1>1, <1>4
  <2>2. Cardinality(after) = Cardinality(before) + 1
    BY <1>2, <2>1, FS_AddElement
  <2>. QED
    BY <1>2, <1>4, <1>3, <2>2 DEF longer
<1>5. CASE entry.search # s
  <2>1. after = before
    BY <1>1, <1>5
  <2>. QED
    <3> HIDE DEF before, after
    <3>. QED
      BY <1>2, <1>5, <1>3, <2>1 DEF longer
<1>. QED
  BY <1>4, <1>5

LEMMA OneEach ==
    ASSUME NEW lists \in [Search -> Seq(Packet)]
    PROVE  LET list == [s \in Search |-> [search |-> s, packets |-> lists[s]]]
           IN list \in Seq(Entry) /\ \A s \in Search : Occurs(list, s) = 1
<1> DEFINE list == [s \in Search |-> [search |-> s, packets |-> lists[s]]]
<1>1. list \in [Search -> Entry]
  BY DEF Entry
<1>2. list \in Seq(Entry)
  BY <1>1, SearchesAreNumbered
<1>3. ASSUME NEW s \in Search PROVE Occurs(list, s) = 1
  <2>1. {k \in DOMAIN list : list[k].search = s} = {s}
    OBVIOUS
  <2>. QED
    BY <2>1, FS_Singleton DEF Occurs
<1>. QED
  BY <1>2, <1>3

-----------------------------------------------------------------------------
(* The searches.                                                           *)

LEMMA InitHolds == Init => IInv
<1> SUFFICES ASSUME Init PROVE IInv
  OBVIOUS
<1>1. Types
  <2>1. NoPackets \in [Search -> Seq(Packet)] /\ 1 \in Search
    BY SearchesAreNumbered DEF NoPackets
  <2>2. /\ phase = "init" /\ combined = TRUE /\ next = 1 /\ net = {}
        /\ buckets = NoPackets /\ results = <<>> /\ abandoned = FALSE
    BY DEF Init
  <2>3. phase \in Searching /\ <<>> \in Seq(Entry) /\ {} \subseteq Packet
    BY <2>2 DEF Searching
  <2>. QED
    BY <2>1, <2>2, <2>3 DEF Types
<1>2. Counted
  BY DEF Init, Counted, Searching, After
<1>. QED
  BY <1>1, <1>2 DEF IInv

\* Steps that leave main between the same two searches.
LEMMA SamePlace ==
    ASSUME IInv, UNCHANGED <<combined, next, results, abandoned>>,
           net' \subseteq Packet, buckets' \in [Search -> Seq(Packet)],
           \/ phase' = phase
           \/ phase' = "failed"
           \/ phase \in Searching /\ phase' \in Searching \ {"init"}
           \/ phase \in After /\ phase' \in After
    PROVE  IInv'
<1>1. Types'
  BY DEF IInv, Types, Searching, After
<1>2. Before' = Before
  BY DEF Before
<1>3. Counted'
  BY <1>2 DEF IInv, Counted, Searching, After
<1>. QED
  BY <1>1, <1>3 DEF IInv

LEMMA NoPacketsType == NoPackets \in [Search -> Seq(Packet)]
  BY DEF NoPackets

LEMMA InitializeKeeps == ASSUME IInv, InitializeFails \/ Initialize PROVE IInv'
<1>1. /\ UNCHANGED <<combined, next, net, buckets, results, abandoned>>
      /\ phase = "init" /\ phase' \in {"failed", "send"}
  BY DEF InitializeFails, Initialize
<1>2. net' \subseteq Packet /\ buckets' \in [Search -> Seq(Packet)]
  BY <1>1 DEF IInv, Types
<1>. QED
  BY <1>1, <1>2, SamePlace DEF Searching

LEMMA SendKeeps == ASSUME IInv, Send PROVE IInv'
<1>1. net' \subseteq Packet
  <2>1. AnswersTo(SearchTargets[next]) \subseteq Packet
    BY DiscoveryAssumption DEF AnswersTo
  <2>. QED
    BY <2>1 DEF Send, IInv, Types
<1>2. buckets' \in [Search -> Seq(Packet)]
  BY NoPacketsType DEF Send
<1>3. /\ UNCHANGED <<combined, results, abandoned>>
      /\ phase = "send" /\ phase' \in {"send", "receive"}
  BY DEF Send
<1>4. CASE UNCHANGED next
  BY <1>1, <1>2, <1>3, <1>4, SamePlace DEF Searching
<1>5. CASE combined /\ next < Len(SearchTargets) /\ next' = next + 1
  <2>1. next' \in Search
    BY <1>5, SearchesAreNumbered DEF IInv, Types
  <2>2. Types'
    BY <1>1, <1>2, <1>3, <2>1 DEF IInv, Types, Searching
  <2>3. Counted'
    BY <1>3, <1>5 DEF IInv, Counted, Searching, After
  <2>. QED
    BY <2>2, <2>3 DEF IInv
<1>. QED
  BY <1>4, <1>5 DEF Send

\* The combined search is given up: nothing of it is listed, or all of it.
LEMMA FallBackKeeps ==
    ASSUME IInv, combined, FallBack, buckets' \in [Search -> Seq(Packet)],
           \/ phase \in {"send", "receive"} /\ UNCHANGED abandoned
           \/ phase = "dispatch" /\ abandoned' = TRUE
    PROVE  IInv'
<1>1. /\ combined' = FALSE /\ next' = 1 /\ phase' = "send"
      /\ UNCHANGED <<net, results>>
  BY DEF FallBack
<1>2. Types'
  BY <1>1, SearchesAreNumbered DEF IInv, Types, Searching
<1>3. ASSUME NEW s \in Search
      PROVE  Occurs(results, s) = Before' + (IF s < next' THEN 1 ELSE 0)
  <2>1. s >= 1 /\ s \in Nat
    BY SearchesAreNumbered
  <2>2. ~ (s < next')
    BY <1>1, <2>1
  <2>3. CASE phase \in {"send", "receive"} /\ UNCHANGED abandoned
    <3>1. results = <<>> /\ abandoned' = FALSE
      BY <2>3 DEF IInv, Types, Counted, Searching
    <3>2. Occurs(results, s) = 0
      BY <3>1, EmptyOccurs
    <3>. QED
      BY <2>2, <3>1, <3>2 DEF Before
  <2>4. CASE phase = "dispatch" /\ abandoned' = TRUE
    <3>1. Occurs(results, s) = 1
      BY <2>4 DEF IInv, Counted
    <3>. QED
      BY <2>2, <2>4, <3>1 DEF Before
  <2>. QED
    BY <2>3, <2>4
<1>4. Counted'
  BY <1>1, <1>3 DEF Counted, Searching, After
<1>. QED
  BY <1>2, <1>4 DEF IInv

\* A single search is over, whatever it has brought.
LEMMA SearchDoneKeeps ==
    ASSUME IInv, ~ combined, phase \in {"send", "receive", "dispatch"},
           NEW packets \in Seq(Packet), SearchDone(packets),
           buckets' \in [Search -> Seq(Packet)], UNCHANGED abandoned
    PROVE  IInv'
<1> DEFINE entry == [search |-> next, packets |-> packets]
<1>1. /\ results' = Append(results, entry) /\ UNCHANGED combined
      /\ net' \subseteq Packet
      /\ \/ next < Len(SearchTargets) /\ phase' = "send" /\ next' = next + 1
         \/ ~ (next < Len(SearchTargets)) /\ phase' = "fetch" /\ next' = next
  BY DEF SearchDone, Fetch, IInv, Types
<1>2. entry \in Entry /\ entry.search = next
  BY DEF IInv, Types, Entry
<1>3. results \in Seq(Entry) /\ Before \in Nat /\ Before' = Before
  BY DEF IInv, Types, Before
<1>4. next \in 1 .. Len(SearchTargets) /\ Len(SearchTargets) \in Nat
  BY SearchesAreNumbered DEF IInv, Types
<1> HIDE DEF entry
<1>5. Types'
  <2>1. results' \in Seq(Entry)
    BY <1>1, <1>2, <1>3
  <2>2. next' \in Search
    BY <1>1, <1>4, SearchesAreNumbered
  <2>. QED
    BY <1>1, <2>1, <2>2 DEF IInv, Types, Searching, After
<1>6. ASSUME NEW s \in Search
      PROVE  Occurs(results', s)
               = Before + (IF s < next THEN 1 ELSE 0) + (IF s = next THEN 1 ELSE 0)
  <2>1. Occurs(results', s) = Occurs(results, s) + (IF next = s THEN 1 ELSE 0)
    BY <1>1, <1>2, <1>3, AppendOccurs
  <2>2. Occurs(results, s) = Before + (IF s < next THEN 1 ELSE 0)
    BY DEF IInv, Counted
  <2>. QED
    BY <2>1, <2>2
<1>7. CASE next < Len(SearchTargets) /\ phase' = "send" /\ next' = next + 1
  <2>1. ASSUME NEW s \in Search
        PROVE  Occurs(results', s) = Before' + (IF s < next' THEN 1 ELSE 0)
    <3>1. s \in Nat /\ next \in Nat
      BY <1>4, SearchesAreNumbered
    <3>2. (IF s < next THEN 1 ELSE 0) + (IF s = next THEN 1 ELSE 0)
            = IF s < next + 1 THEN 1 ELSE 0
      BY <3>1
    <3>3. Occurs(results', s)
            = Before + ((IF s < next THEN 1 ELSE 0) + (IF s = next THEN 1 ELSE 0))
      BY <1>3, <1>6
    <3>. QED
      BY <1>3, <1>7, <3>2, <3>3
  <2>. QED
    BY <1>1, <1>5, <1>7, <2>1 DEF IInv, Counted, Searching, After
<1>8. CASE ~ (next < Len(SearchTargets)) /\ phase' = "fetch" /\ next' = next
  <2>1. ASSUME NEW s \in Search PROVE Occurs(results', s) = Before' + 1
    <3>1. s \in Nat /\ s <= next
      BY <1>4, <1>8, SearchesAreNumbered
    <3>. QED
      BY <1>3, <1>4, <1>6, <3>1
  <2>. QED
    BY <1>1, <1>5, <1>8, <2>1 DEF IInv, Counted, Searching, After
<1>. QED
  BY <1>1, <1>7, <1>8

LEMMA SearchFailsKeeps == ASSUME IInv, SearchFails PROVE IInv'
<1>1. /\ phase \in {"send", "receive"} /\ UNCHANGED abandoned
      /\ buckets' \in [Search -> Seq(Packet)]
  BY NoPacketsType DEF SearchFails
<1>2. CASE combined
  BY <1>1, <1>2, FallBackKeeps DEF SearchFails
<1>3. CASE ~ combined
  <2>1. <<>> \in Seq(Packet) /\ SearchDone(<<>>)
    BY <1>3 DEF SearchFails
  <2>. QED
    BY <1>1, <1>3, <2>1, SearchDoneKeeps
<1>. QED
  BY <1>2, <1>3

LEMMA ReceiveKeeps == ASSUME IInv, Receive PROVE IInv'
<1>1. UNCHANGED <<phase, combined, next, results, abandoned>>
  BY DEF Receive
<1>2. PICK p \in net :
         /\ buckets' = [s \in Search |-> IF s \in Bucket(p) THEN Append(buckets[s], p)
                                         ELSE buckets[s]]
         /\ net' \in {net, net \ {p}}
  BY DEF Receive
<1>3. net' \subseteq Packet /\ buckets' \in [Search -> Seq(Packet)]
  BY <1>2 DEF IInv, Types
<1>. QED
  BY <1>1, <1>3, SamePlace

LEMMA WindowClosesKeeps == ASSUME IInv, WindowCloses PROVE IInv'
<1>1. /\ phase = "receive" /\ phase' = "dispatch"
      /\ UNCHANGED <<combined, next, net, buckets, abandoned>>
  BY DEF WindowCloses
<1>2. CASE combined
  <2>1. results' = [s \in Search |-> [search |-> s, packets |-> buckets[s]]]
    BY <1>2 DEF WindowCloses
  <2>2. results' \in Seq(Entry) /\ \A s \in Search : Occurs(results', s) = 1
    BY <2>1, OneEach DEF IInv, Types
  <2>3. Types'
    BY <1>1, <2>2 DEF IInv, Types
  <2>4. Counted'
    BY <1>1, <1>2, <2>2 DEF IInv, Counted, Searching, After
  <2>. QED
    BY <2>3, <2>4 DEF IInv
<1>3. CASE ~ combined
  <2>1. UNCHANGED results
    BY <1>3 DEF WindowCloses
  <2>2. Types' /\ Before' = Before
    BY <1>1, <2>1 DEF IInv, Types, Before
  <2>3. Counted'
    BY <1>1, <1>3, <2>1, <2>2 DEF IInv, Counted, Searching, After
  <2>. QED
    BY <2>2, <2>3 DEF IInv
<1>. QED
  BY <1>2, <1>3

-----------------------------------------------------------------------------
(* Dispatch and downloads.                                                 *)

LEMMA CaptureFailsKeeps == ASSUME IInv, CaptureFails PROVE IInv'
<1>1. phase = "dispatch" /\ buckets' \in [Search -> Seq(Packet)]
  BY DEF CaptureFails, IInv, Types
<1>2. CASE combined
  BY <1>1, <1>2, FallBackKeeps DEF CaptureFails
<1>3. CASE ~ combined
  <2>1. /\ UNCHANGED <<combined, next, net, results, abandoned>>
        /\ phase' = "failed"
    BY <1>3 DEF CaptureFails
  <2>2. net' \subseteq Packet
    BY <2>1 DEF IInv, Types
  <2>. QED
    BY <1>1, <2>1, <2>2, SamePlace
<1>. QED
  BY <1>2, <1>3

LEMMA DispatchDoneKeeps == ASSUME IInv, DispatchDone PROVE IInv'
<1>1. /\ phase = "dispatch" /\ UNCHANGED abandoned
      /\ buckets' \in [Search -> Seq(Packet)]
  BY NoPacketsType DEF DispatchDone
<1>2. CASE combined
  <2>1. /\ phase' = "fetch" /\ net' = {}
        /\ UNCHANGED <<combined, next, results>>
    BY <1>2 DEF DispatchDone, Fetch
  <2>2. Types'
    BY <1>1, <2>1 DEF IInv, Types, After
  <2>3. Counted'
    BY <1>1, <1>2, <2>1 DEF IInv, Counted, Searching, After
  <2>. QED
    BY <2>2, <2>3 DEF IInv
<1>3. CASE ~ combined
  <2>1. SearchDone(buckets[next]) /\ buckets[next] \in Seq(Packet)
    BY <1>3 DEF DispatchDone, IInv, Types
  <2>. QED
    BY <1>1, <1>3, <2>1, SearchDoneKeeps
<1>. QED
  BY <1>2, <1>3

LEMMA OtherStepsKeep ==
    ASSUME IInv, Lose \/ Dispatch \/ BeginGet \/ Respond \/ GetFails \/ Analyze
                   \/ DownloadsDone \/ UNCHANGED vars
    PROVE  IInv'
<1>1. UNCHANGED <<combined, next, buckets, results, abandoned>>
  BY DEF Lose, Dispatch, BeginGet, Respond, GetFails, Analyze, DownloadsDone, vars
<1>2. net' \subseteq net
  BY DEF Lose, Dispatch, BeginGet, Respond, GetFails, Analyze, DownloadsDone, vars
<1>3. phase' = phase \/ (phase \in After /\ phase' \in After)
  BY DEF Lose, Dispatch, BeginGet, Respond, GetFails, Analyze, DownloadsDone, vars,
         Advance, Follow, After
<1>4. net' \subseteq Packet /\ buckets' \in [Search -> Seq(Packet)]
  BY <1>1, <1>2 DEF IInv, Types
<1>. QED
  BY <1>1, <1>3, <1>4, SamePlace

LEMMA StepKeeps == ASSUME IInv, [Next]_vars PROVE IInv'
  BY InitializeKeeps, SendKeeps, SearchFailsKeeps, ReceiveKeeps, WindowClosesKeeps,
     CaptureFailsKeeps, DispatchDoneKeeps, OtherStepsKeep DEF Next

\* The counts, and the types of what the searches keep, hold in every
\* reachable state.
THEOREM Inductive == Spec => []IInv
<1>1. Init => IInv
  BY InitHolds
<1>2. IInv /\ [Next]_vars => IInv'
  BY StepKeeps
<1>. QED
  BY <1>1, <1>2, PTL DEF Spec

\* For any number of searches, whatever answers there are and wherever a
\* search or a capture fails, each is listed once in the end, or twice.
THEOREM ListedWhateverFails == Spec => []SearchesAreListed
<1>1. IInv => SearchesAreListed
  <2> SUFFICES ASSUME IInv, Listed, NEW s \in Search
               PROVE  Occurs(results, s) = IF abandoned THEN 2 ELSE 1
    BY DEF SearchesAreListed, Occurs
  <2>1. phase \in After
    BY DEF Listed, After
  <2>2. CASE combined
    BY <2>1, <2>2 DEF IInv, Counted
  <2>3. CASE ~ combined
    BY <2>1, <2>3 DEF IInv, Types, Counted, Before
  <2>. QED
    BY <2>2, <2>3
<1>. QED
  BY <1>1, Inductive, PTL

-----------------------------------------------------------------------------
(* Where a location leads.                                                 *)

Hops(l) == {page.to : page \in {p \in Pages[l] : IsRedirect(p.code)}}

Answers(l) == \E page \in Pages[l] : ~ IsRedirect(page.code)

Reaching(location) ==
    LET from[n \in Nat] ==
            IF n = 0 THEN {location}
            ELSE from[n - 1] \cup ((UNION {Hops(l) : l \in from[n - 1]}) \cap Location)
    IN from

\* The UDNs and icon lists of the description at a URL, if one is answered.
NamesAt(url) ==
    IF Answers(url) THEN Names(Served[url].root, Served[url].embedded)
    ELSE [uuids |-> {}, icons |-> {}]

Announced == {e \in Evidence : e.location # NoLocation}

MoreTypes ==
    /\ todo \in Seq(Packet)
    /\ registry \in Registries
    /\ pending \in Seq(Announced)
    /\ request \in [url : Location, redirects : 0 .. MAX_REDIRECTS] \cup {NoRequest}
    /\ tried \subseteq Location
    /\ fetched \subseteq [location : tried, url : Location]
    /\ sent.whole \in BOOLEAN

\* A GET is under way for the description that is next, where its location
\* leads to; what it brought is what was served there.
Getting ==
    /\ request # NoRequest =>
         /\ phase \in {"fetch", "analyze"}
         /\ pending # <<>>
         /\ pending[1].location \in tried
         /\ request.url \in Reaching(pending[1].location)[request.redirects]
    /\ phase = "analyze" =>
         /\ request # NoRequest
         /\ body \in Seq(PartsOf(NamesAt(request.url)))
         /\ Honest(body, sent.document, sent.whole)

\* Nothing is described before the searches are over.
Undescribed ==
    phase \notin After =>
        /\ request = NoRequest
        /\ fetched = {}
        /\ \A k \in DOMAIN registry : registry[k].source = "SSDP" /\ ~ registry[k].named

\* What was announced has been asked for, or will be.
Asked ==
    /\ phase \in After =>
         \A k \in DOMAIN registry :
            registry[k].location # NoLocation =>
                \/ registry[k].location \in tried
                \/ \E j \in DOMAIN pending : pending[j].location = registry[k].location
    /\ phase = "done" => pending = <<>>

JInv == MoreTypes /\ Getting /\ Undescribed /\ Asked /\ RootsAreKnown

Ssdp(evidences) == {e \in Range(evidences) : e.source = "SSDP"}

Latest(packets) ==
    {j \in DOMAIN packets :
        /\ IsEvidence(packets[j])
        /\ \A i \in DOMAIN packets :
              i > j /\ IsEvidence(packets[i]) =>
                ~ SameKey(SsdpEvidence(packets[i]), SsdpEvidence(packets[j]))}

Digest(packets) == {SsdpEvidence(packets[j]) : j \in Latest(packets)}

\* The registry is the digest of what was dispatched, search by search.
Digested ==
    /\ ~ combined /\ phase \in {"receive", "dispatch"} =>
         \A s \in Search \ {next} : buckets[s] = <<>>
    /\ phase \in Searching \cup After /\ ~ abandoned =>
         Ssdp(registry) = Digest(ListedPackets)
    /\ phase = "dispatch" /\ ~ abandoned =>
         \E done \in Seq(Packet) :
            IF combined
            THEN /\ ListedPackets = done \o todo
                 /\ Ssdp(registry) = Digest(done)
            ELSE /\ buckets[next] = done \o todo
                 /\ Ssdp(registry) = Digest(ListedPackets \o done)

LEMMA ServedFacts ==
    ASSUME NEW url \in Location
    PROVE  /\ Served[url].root \in Node /\ Served[url].embedded \in Seq(Node)
           /\ Host[url] \in Ip
           /\ url # NoLocation
           /\ NamesAt(url).uuids \in SUBSET Uuid
           /\ Document(url) \in Seq(TokensOf(Names(Served[url].root, Served[url].embedded)))
<1>1. /\ Served[url].root \in Node /\ Served[url].embedded \in Seq(Node)
      /\ Host[url] \in Ip /\ url # NoLocation
  BY DiscoveryAssumption
<1>2. NamesAt(url).uuids \in SUBSET Uuid
  <2>1. \A d \in Range(Served[url].embedded) : d \in Node
    <3> DEFINE list == Served[url].embedded
    <3>1. list \in Seq(Node)
      BY <1>1
    <3> HIDE DEF list
    <3>2. \A d \in Range(list) : d \in Node
      BY <3>1 DEF Range
    <3>. QED
      BY <3>2 DEF list
  <2>. QED
    BY <1>1, <2>1 DEF NamesAt, Names, Node
<1>3. Document(url) \in Seq(TokensOf(Names(Served[url].root, Served[url].embedded)))
  BY <1>1, DescriptionType DEF Document
<1>. QED
  BY <1>1, <1>2, <1>3

\* What comes of an answer, wherever it is cut.
LEMMA AnswerHonest ==
    ASSUME NEW url \in Location, NEW answer \in Responses[url]
    PROVE  /\ answer.to \subseteq Hops(url)
           /\ answer.sent.whole \in BOOLEAN
           /\ answer.body \in Seq(PartsOf(NamesAt(url)))
           /\ Honest(answer.body, answer.sent.document, answer.sent.whole)
<1>1. PICK page \in Pages[url] :
         answer \in Outcomes(page, IF IsRedirect(page.code) THEN <<>> ELSE Document(url))
  BY DEF Responses
<1>2. /\ page.encoding \in Encoding /\ page.size \in Nat
      /\ page.encoding = "chunked" => page.size > 0
  BY DiscoveryAssumption
<1> DEFINE document == IF IsRedirect(page.code) THEN <<>> ELSE Document(url)
           Tokens == TokensOf(NamesAt(url))
<1>3. document \in Seq(Tokens)
  <2>1. CASE IsRedirect(page.code)
    BY <2>1
  <2>2. CASE ~ IsRedirect(page.code)
    <3>1. NamesAt(url) = Names(Served[url].root, Served[url].embedded)
      BY <1>1, <2>2 DEF NamesAt, Answers
    <3>. QED
      BY <2>2, <3>1, ServedFacts
  <2>. QED
    BY <2>1, <2>2
<1>4. Plain(Tokens)
  BY TokensArePlain
<1>5. answer \in Outcomes(page, document)
  BY <1>1
<1> HIDE DEF document, Tokens
<1>6. /\ answer.to \subseteq {page.to}
      /\ answer.to # {} => IsRedirect(page.code)
      /\ answer.sent.whole \in BOOLEAN
      /\ answer.body \in Seq(Tokens \cup {Fragment})
      /\ Honest(answer.body, answer.sent.document, answer.sent.whole)
  BY <1>2, <1>3, <1>4, <1>5, OutcomesFacts
<1>7. answer.to \subseteq Hops(url)
  <2>1. CASE answer.to = {}
    BY <2>1
  <2>2. CASE answer.to # {}
    <3>1. page \in {p \in Pages[url] : IsRedirect(p.code)}
      BY <1>1, <1>6, <2>2
    <3>2. page.to \in Hops(url)
      BY <3>1 DEF Hops
    <3>. QED
      BY <1>6, <3>2
  <2>. QED
    BY <2>1, <2>2
<1>. QED
  BY <1>6, <1>7 DEF Tokens, PartsOf

-----------------------------------------------------------------------------
(* Where a location leads, redirect by redirect.                           *)

ReachesAt(g, location, n) ==
    g[n] = IF n = 0 THEN {location}
           ELSE g[n - 1] \cup ((UNION {Hops(l) : l \in g[n - 1]}) \cap Location)

LEMMA ReachingExists ==
    ASSUME NEW location
    PROVE  \E g : g = [n \in Nat |->
                IF n = 0 THEN {location}
                ELSE g[n - 1] \cup ((UNION {Hops(l) : l \in g[n - 1]}) \cap Location)]
<1> DEFINE At(g, n) == IF n = 0 THEN {location}
                       ELSE g[n - 1] \cup ((UNION {Hops(l) : l \in g[n - 1]}) \cap Location)
           Upto(g, m) == \A n \in 0 .. m : g[n] = At(g, n)
           Exists(m) == \E g : Upto(g, m)
           T == {m \in Nat : Exists(m)}
<1>1. Exists(0)
  <2> DEFINE g == [n \in Nat |-> {location}]
  <2>1. Upto(g, 0)
    OBVIOUS
  <2>. QED
    BY <2>1
<1>2. ASSUME NEW m \in Nat, Exists(m) PROVE Exists(m + 1)
  <2>1. PICK g : Upto(g, m)
    BY <1>2
  <2> DEFINE h == [n \in Nat |-> IF n <= m THEN g[n] ELSE At(g, n)]
  <2>2. ASSUME NEW n \in 0 .. m + 1 PROVE h[n] = At(h, n)
    <3>1. n \in Nat /\ (n # 0 => n - 1 \in Nat /\ n - 1 <= m)
      OBVIOUS
    <3>2. n # 0 => h[n - 1] = g[n - 1]
      BY <3>1
    <3>3. h[n] = At(g, n)
      <4>1. n <= m => g[n] = At(g, n)
        <5>1. n <= m => n \in 0 .. m
          BY <3>1
        <5> HIDE DEF At
        <5>. QED
          BY <2>1, <5>1
      <4>2. h[n] = IF n <= m THEN g[n] ELSE At(g, n)
        BY <3>1
      <4> HIDE DEF At, h
      <4>. QED
        BY <4>1, <4>2
    <3> HIDE DEF h
    <3>. QED
      BY <3>2, <3>3
  <2> HIDE DEF h, At
  <2>3. Upto(h, m + 1)
    BY <2>2
  <2>. QED
    BY <2>3
<1> HIDE DEF Exists
<1>3. T \in SUBSET Nat /\ 0 \in T /\ \A m \in T : m + 1 \in T
  BY <1>1, <1>2
<1>4. T = Nat
  <2> HIDE DEF T
  <2>. QED
    BY <1>3, Collecting!SetInduction
<1> DEFINE G(m) == CHOOSE g : Upto(g, m)
           f == [n \in Nat |-> G(n)[n]]
<1>5. \A m \in Nat : Upto(G(m), m)
  BY <1>4 DEF Exists
<1>6. \A m, n \in Nat : n <= m => G(m)[n] = f[n]
  <2> DEFINE U == {n \in Nat : \A m \in Nat : n <= m => G(m)[n] = f[n]}
  <2>1. 0 \in U
    <3>1. ASSUME NEW m \in Nat PROVE G(m)[0] = {location}
      <4>1. 0 \in 0 .. m
        OBVIOUS
      <4> HIDE DEF G
      <4>. QED
        BY <1>5, <4>1
    <3> HIDE DEF G
    <3>. QED
      BY <3>1
  <2>2. ASSUME NEW n \in U PROVE n + 1 \in U
    <3>1. ASSUME NEW m \in Nat, n + 1 <= m
          PROVE  G(m)[n + 1] = f[n] \cup ((UNION {Hops(l) : l \in f[n]}) \cap Location)
      <4>1. n + 1 \in 0 .. m /\ n + 1 # 0 /\ n + 1 - 1 = n /\ n <= m /\ n \in Nat
        BY <3>1
      <4>2. G(m)[n] = f[n]
        BY <4>1
      <4>3. G(m)[n + 1] = At(G(m), n + 1)
        BY <1>5, <4>1
      <4> HIDE DEF G, f
      <4>. QED
        BY <4>1, <4>2, <4>3
    <3>2. n \in Nat
      OBVIOUS
    <3> HIDE DEF G
    <3>3. f[n + 1] = G(n + 1)[n + 1]
      BY <3>2
    <3>4. G(n + 1)[n + 1] = f[n] \cup ((UNION {Hops(l) : l \in f[n]}) \cap Location)
      BY <3>1, <3>2
    <3> HIDE DEF f
    <3>5. ASSUME NEW m \in Nat, n + 1 <= m PROVE G(m)[n + 1] = f[n + 1]
      BY <3>1, <3>3, <3>4, <3>5
    <3>6. n + 1 \in Nat
      BY <3>2
    <3>. QED
      BY <3>5, <3>6
  <2>3. U \in SUBSET Nat
    OBVIOUS
  <2> HIDE DEF U
  <2>4. U = Nat
    BY <2>1, <2>2, <2>3, Collecting!SetInduction
  <2>. QED
    BY <2>4 DEF U
<1>7. ASSUME NEW n \in Nat PROVE f[n] = At(f, n)
  <2>1. n \in 0 .. n /\ (n # 0 => n - 1 \in Nat /\ n - 1 <= n)
    OBVIOUS
  <2>2. G(n)[n] = At(G(n), n)
    BY <1>5, <2>1
  <2>3. n # 0 => G(n)[n - 1] = f[n - 1]
    BY <1>6, <2>1
  <2>4. f[n] = G(n)[n]
    OBVIOUS
  <2> HIDE DEF f, G
  <2>. QED
    BY <2>2, <2>3, <2>4
<1>8. f = [n \in Nat |-> f[n]]
  OBVIOUS
<1> HIDE DEF f
<1>9. f = [n \in Nat |-> At(f, n)]
  BY <1>7, <1>8
<1>. QED
  BY <1>9

LEMMA ReachingFacts ==
    ASSUME NEW location
    PROVE  /\ Reaching(location)[0] = {location}
           /\ \A n \in Nat :
                Reaching(location)[n + 1] =
                  Reaching(location)[n]
                    \cup ((UNION {Hops(l) : l \in Reaching(location)[n]}) \cap Location)
<1> DEFINE Is(g) == g = [n \in Nat |->
                IF n = 0 THEN {location}
                ELSE g[n - 1] \cup ((UNION {Hops(l) : l \in g[n - 1]}) \cap Location)]
           f == CHOOSE g : Is(g)
<1>1. Is(f)
  <2>1. \E g : Is(g)
    BY ReachingExists
  <2>. QED
    BY <2>1
<1>2. Reaching(location) = f
  BY DEF Reaching
<1> HIDE DEF f
<1>3. f[0] = {location}
  BY <1>1
<1>4. ASSUME NEW n \in Nat
      PROVE  f[n + 1] = f[n] \cup ((UNION {Hops(l) : l \in f[n]}) \cap Location)
  <2>1. n + 1 \in Nat /\ n + 1 # 0 /\ n + 1 - 1 = n
    OBVIOUS
  <2>. QED
    BY <1>1, <2>1
<1>. QED
  BY <1>2, <1>3, <1>4

LEMMA ReachingGrows ==
    ASSUME NEW location, NEW n \in 0 .. MAX_REDIRECTS
    PROVE  Reaching(location)[n] \subseteq Reaching(location)[MAX_REDIRECTS]
<1> DEFINE R == Reaching(location)
<1>1. \A m \in Nat : R[m] \subseteq R[m + 1]
  BY ReachingFacts
<1> HIDE DEF R
<1>2. R[0] \subseteq R[1] /\ R[1] \subseteq R[2] /\ R[2] \subseteq R[3]
  <2>1. R[0] \subseteq R[0 + 1] /\ R[1] \subseteq R[1 + 1] /\ R[2] \subseteq R[2 + 1]
    BY <1>1
  <2>. QED
    BY <2>1
<1>3. n \in {0, 1, 2, 3}
  BY DEF MAX_REDIRECTS
<1>. QED
  BY <1>2, <1>3 DEF R, MAX_REDIRECTS

LEMMA LeadsToIs ==
    ASSUME NEW location
    PROVE  LeadsTo(location) = {l \in Reaching(location)[MAX_REDIRECTS] : Answers(l)}
  BY DEF LeadsTo, Reaching, Hops, Answers

-----------------------------------------------------------------------------
(* The searches leave the downloads alone.                                 *)

LEMMA RequestFacts ==
    ASSUME MoreTypes, request # NoRequest
    PROVE  request \in [url : Location, redirects : 0 .. MAX_REDIRECTS]
  BY DEF MoreTypes

LEMMA JInit == Init => JInv
<1> SUFFICES ASSUME Init PROVE JInv
  OBVIOUS
<1>1. /\ phase = "init" /\ todo = <<>> /\ registry = <<>> /\ pending = <<>>
      /\ request = NoRequest /\ tried = {} /\ fetched = {} /\ sent = NoAnswer
  BY DEF Init
<1>2. MoreTypes
  <2>1. registry \in Registries
    BY <1>1 DEF Registries, Unique
  <2>2. todo \in Seq(Packet) /\ pending \in Seq(Announced)
    BY <1>1
  <2>3. sent.whole \in BOOLEAN
    BY <1>1 DEF NoAnswer
  <2>. QED
    BY <1>1, <2>1, <2>2, <2>3 DEF MoreTypes
<1>3. Getting /\ Undescribed /\ Asked
  BY <1>1 DEF Getting, Undescribed, Asked, After
<1>4. RootsAreKnown
  BY <1>1 DEF RootsAreKnown, Range
<1>. QED
  BY <1>2, <1>3, <1>4 DEF JInv

\* What nothing but the downloads changes.
LEMMA KnownRootsStay ==
    ASSUME RootsAreKnown, UNCHANGED <<registry, fetched>>
    PROVE  RootsAreKnown'
  BY DEF RootsAreKnown

LEMMA SearchingKeeps ==
    ASSUME JInv, phase \notin After, UNCHANGED <<registry, downloads>>,
           todo' \in Seq(Packet),
           \/ phase' \notin After /\ UNCHANGED pending
           \/ phase' = "fetch" /\ pending' = Pending(registry)
    PROVE  JInv'
<1>1. UNCHANGED <<registry, request, body, tried, sent, fetched>>
  BY DEF downloads
<1>2. request = NoRequest /\ request' = NoRequest /\ fetched' = {}
  BY <1>1 DEF JInv, Undescribed
<1>3. /\ Pending(registry) \in Seq(Announced)
      /\ \A k \in DOMAIN registry :
            IsPending(registry[k]) =>
                \E j \in DOMAIN Pending(registry) : Pending(registry)[j] = registry[k]
  <2>1. registry \in Seq(Evidence)
    BY DEF JInv, MoreTypes, Registries
  <2> DEFINE P == {e \in Evidence : IsPending(e)}
             list == Pending(registry)
  <2>2. list \in Seq(P)
    BY <2>1, PendingFacts
  <2>3. P \subseteq Announced
    BY DEF IsPending, Announced
  <2> HIDE DEF P, list
  <2>4. list \in Seq(Announced)
    BY <2>2, <2>3
  <2>. QED
    BY <2>1, <2>4, PendingFacts DEF list
<1>4. MoreTypes'
  <2>1. pending' \in Seq(Announced)
    BY <1>3 DEF JInv, MoreTypes
  <2>. QED
    BY <1>1, <1>2, <2>1 DEF JInv, MoreTypes
<1>5. Getting'
  <2>1. phase' # "analyze"
    BY DEF After
  <2>. QED
    BY <1>2, <2>1 DEF Getting
<1>6. Undescribed'
  BY <1>1 DEF JInv, Undescribed
<1>7. Asked'
  <2>1. CASE phase' \notin After
    BY <2>1 DEF Asked, After
  <2>2. CASE phase' = "fetch" /\ pending' = Pending(registry)
    <3>1. ASSUME NEW k \in DOMAIN registry, registry[k].location # NoLocation
          PROVE  \E j \in DOMAIN pending' : pending'[j].location = registry[k].location
      <4>1. IsPending(registry[k])
        BY <3>1 DEF JInv, Undescribed, IsPending
      <4>2. PICK j \in DOMAIN Pending(registry) : Pending(registry)[j] = registry[k]
        BY <1>3, <4>1
      <4>. QED
        BY <2>2, <4>2
    <3>. QED
      BY <1>1, <2>2, <3>1 DEF Asked
  <2>. QED
    BY <2>1, <2>2
<1>8. RootsAreKnown'
  BY <1>1, KnownRootsStay DEF JInv
<1>. QED
  BY <1>4, <1>5, <1>6, <1>7, <1>8 DEF JInv

LEMMA SearchesKeepJ ==
    ASSUME IInv, JInv,
           \/ InitializeFails \/ Initialize \/ Send \/ SearchFails \/ Receive
           \/ WindowCloses \/ Lose \/ CaptureFails \/ DispatchDone
    PROVE  JInv'
<1>1. todo \in Seq(Packet) /\ <<>> \in Seq(Packet)
  BY DEF JInv, MoreTypes
<1>2. CASE InitializeFails \/ Initialize
  <2>1. phase \notin After /\ phase' \notin After
        /\ UNCHANGED <<registry, downloads, pending, todo>>
    BY <1>2 DEF InitializeFails, Initialize, After
  <2>. QED
    BY <1>1, <2>1, SearchingKeeps
<1>3. CASE Send
  <2>1. phase \notin After /\ phase' \notin After
        /\ UNCHANGED <<registry, downloads, pending, todo>>
    BY <1>3 DEF Send, After
  <2>. QED
    BY <1>1, <2>1, SearchingKeeps
<1>4. CASE SearchFails
  <2>1. /\ phase \notin After /\ UNCHANGED <<registry, downloads>>
        /\ todo' = <<>>
        /\ \/ phase' \notin After /\ UNCHANGED pending
           \/ phase' = "fetch" /\ pending' = Pending(registry)
    BY <1>4 DEF SearchFails, FallBack, SearchDone, Fetch, After
  <2>. QED
    BY <1>1, <2>1, SearchingKeeps
<1>5. CASE Receive \/ Lose
  <2>1. /\ phase \notin After /\ phase' \notin After
        /\ UNCHANGED <<registry, downloads, pending, todo>>
    BY <1>5 DEF Receive, Lose, After
  <2>. QED
    BY <1>1, <2>1, SearchingKeeps
<1>6. CASE WindowCloses
  <2>1. /\ phase \notin After /\ phase' \notin After
        /\ UNCHANGED <<registry, downloads, pending>>
        /\ todo' = FlattenSeq(buckets)
    BY <1>6 DEF WindowCloses, After
  <2>2. buckets \in Seq(Seq(Packet))
    <3> DEFINE Lists == Seq(Packet)
               n == Len(SearchTargets)
    <3>1. n \in Nat /\ buckets \in [1 .. n -> Lists]
      BY SearchesAreNumbered DEF IInv, Types
    <3> HIDE DEF Lists, n
    <3>2. buckets \in Seq(Lists)
      BY <3>1
    <3>. QED
      BY <3>2 DEF Lists
  <2>3. todo' \in Seq(Packet)
    BY <2>1, <2>2, FlattenType
  <2>. QED
    BY <2>1, <2>3, SearchingKeeps
<1>7. CASE CaptureFails
  <2>1. /\ phase \notin After /\ phase' \notin After
        /\ UNCHANGED <<registry, downloads, pending>>
        /\ todo' \in {todo, <<>>}
    BY <1>7 DEF CaptureFails, FallBack, After
  <2>. QED
    BY <1>1, <2>1, SearchingKeeps
<1>8. CASE DispatchDone
  <2>1. /\ phase \notin After /\ UNCHANGED <<registry, downloads>>
        /\ todo' \in {todo, <<>>}
        /\ \/ phase' \notin After /\ UNCHANGED pending
           \/ phase' = "fetch" /\ pending' = Pending(registry)
    BY <1>8 DEF DispatchDone, SearchDone, Fetch, After
  <2>. QED
    BY <1>1, <2>1, SearchingKeeps
<1>. QED
  BY <1>2, <1>3, <1>4, <1>5, <1>6, <1>7, <1>8

LEMMA DispatchKeepsJ == ASSUME JInv, Dispatch PROVE JInv'
<1>1. /\ phase = "dispatch" /\ todo # <<>>
      /\ registry' = AnalyzeSsdp(registry, Head(todo)) /\ todo' = Tail(todo)
      /\ UNCHANGED <<phase, pending, request, body, tried, sent, fetched>>
  BY DEF Dispatch, downloads
<1>2. todo \in Seq(Packet) /\ registry \in Seq(Evidence) /\ Unique(registry)
  BY DEF JInv, MoreTypes, Registries
<1>3. Head(todo) \in Packet /\ todo' \in Seq(Packet)
  BY <1>1, <1>2
<1>4. /\ registry' \in Seq(Evidence) /\ Unique(registry')
      /\ \A k \in DOMAIN registry' :
            \/ registry'[k] = SsdpEvidence(Head(todo))
            \/ k \in DOMAIN registry /\ registry'[k] = registry[k]
  BY <1>1, <1>2, <1>3, AnalyzeSsdpFacts
<1>5. registry' \in Registries
  BY <1>4 DEF Registries
<1>6. phase \notin After
  BY <1>1 DEF After
<1>7. \A k \in DOMAIN registry' : registry'[k].source = "SSDP" /\ ~ registry'[k].named
  <2>1. SsdpEvidence(Head(todo)).source = "SSDP" /\ ~ SsdpEvidence(Head(todo)).named
    BY DEF SsdpEvidence
  <2>2. \A k \in DOMAIN registry : registry[k].source = "SSDP" /\ ~ registry[k].named
    BY <1>6 DEF JInv, Undescribed
  <2>. QED
    BY <1>4, <2>1, <2>2
<1>8. request = NoRequest /\ fetched = {}
  BY <1>6 DEF JInv, Undescribed
<1>9. MoreTypes' /\ Getting' /\ Undescribed' /\ Asked'
  <2>1. MoreTypes'
    BY <1>1, <1>3, <1>5 DEF JInv, MoreTypes
  <2>2. Getting' /\ Undescribed' /\ Asked'
    BY <1>1, <1>6, <1>7, <1>8 DEF Getting, Undescribed, Asked
  <2>. QED
    BY <2>1, <2>2
<1>10. RootsAreKnown'
  <2>1. \A e \in Range(registry') : e.source = "SSDP"
    BY <1>7 DEF Range
  <2>2. fetched' = {}
    BY <1>1, <1>8
  <2>. QED
    BY <2>1, <2>2 DEF RootsAreKnown
<1>. QED
  BY <1>9, <1>10 DEF JInv

-----------------------------------------------------------------------------
(* The downloads.                                                          *)

LEMMA FirstPending ==
    ASSUME MoreTypes, pending # <<>>
    PROVE  /\ Head(pending) = pending[1] /\ 1 \in DOMAIN pending
           /\ pending[1] \in Evidence /\ pending[1].location \in Location
           /\ Tail(pending) \in Seq(Announced)
           /\ \A j \in DOMAIN pending :
                j = 1 \/ \E i \in DOMAIN Tail(pending) : Tail(pending)[i] = pending[j]
<1>1. pending \in Seq(Announced)
  BY DEF MoreTypes
<1>2. /\ Head(pending) = pending[1] /\ 1 \in DOMAIN pending
      /\ Tail(pending) \in Seq(Announced)
      /\ Len(pending) \in Nat /\ Len(Tail(pending)) = Len(pending) - 1
      /\ \A i \in 1 .. Len(pending) - 1 : Tail(pending)[i] = pending[i + 1]
  BY <1>1
<1>3. pending[1] \in Announced
  BY <1>1, <1>2
<1>4. pending[1] \in Evidence /\ pending[1].location \in Location
  BY <1>3 DEF Announced, Evidence
<1>5. ASSUME NEW j \in DOMAIN pending, j # 1
      PROVE  \E i \in DOMAIN Tail(pending) : Tail(pending)[i] = pending[j]
  <2>1. j \in 1 .. Len(pending)
    BY <1>1
  <2>2. j - 1 \in 1 .. Len(pending) - 1 /\ j - 1 + 1 = j
    BY <1>2, <1>5, <2>1
  <2>3. j - 1 \in DOMAIN Tail(pending)
    BY <1>2, <2>2
  <2>4. Tail(pending)[j - 1] = pending[j]
    BY <1>2, <2>2
  <2>. QED
    BY <2>3, <2>4
<1>. QED
  BY <1>2, <1>4, <1>5

LEMMA BeginGetKeepsJ == ASSUME JInv, BeginGet PROVE JInv'
<1>1. /\ phase = "fetch" /\ pending # <<>> /\ request = NoRequest
      /\ request' = [url |-> pending[1].location, redirects |-> 0]
      /\ tried' = tried \cup {pending[1].location}
      /\ pending[1].location \in Location
      /\ UNCHANGED <<phase, todo, registry, pending, body, sent, fetched>>
  BY FirstPending DEF BeginGet, JInv
<1>2. MoreTypes'
  <2>1. request' \in [url : Location, redirects : 0 .. MAX_REDIRECTS]
    BY <1>1 DEF MAX_REDIRECTS
  <2>2. fetched' \subseteq [location : tried', url : Location]
    BY <1>1 DEF JInv, MoreTypes
  <2>. QED
    BY <1>1, <2>1, <2>2 DEF JInv, MoreTypes
<1>3. Getting'
  <2>1. pending[1].location \in Reaching(pending[1].location)[0]
    BY ReachingFacts
  <2>2. request'.url = pending[1].location /\ request'.redirects = 0
    BY <1>1
  <2>. QED
    BY <1>1, <2>1, <2>2 DEF Getting
<1>4. Undescribed' /\ Asked'
  BY <1>1 DEF JInv, Undescribed, Asked, After
<1>5. RootsAreKnown'
  BY <1>1, KnownRootsStay DEF JInv
<1>. QED
  BY <1>2, <1>3, <1>4, <1>5 DEF JInv

LEMMA RespondKeepsJ == ASSUME JInv, Respond PROVE JInv'
<1>1. /\ phase = "fetch" /\ request # NoRequest
      /\ UNCHANGED <<todo, registry, pending, tried, fetched>>
  BY DEF Respond
<1>2. request \in [url : Location, redirects : 0 .. MAX_REDIRECTS]
  BY <1>1, RequestFacts DEF JInv
<1>3. PICK answer \in Responses[request.url] :
         \/ \E url \in answer.to : Follow(url)
         \/ /\ answer.to = {} /\ body' = answer.body /\ sent' = answer.sent
            /\ phase' = "analyze" /\ UNCHANGED request
  BY DEF Respond
<1> DEFINE place == Reaching(pending[1].location)
<1>4. /\ pending # <<>> /\ pending[1].location \in tried
      /\ request.url \in place[request.redirects]
  BY <1>1 DEF JInv, Getting
<1>5. /\ answer.to \subseteq Hops(request.url)
      /\ answer.sent.whole \in BOOLEAN
      /\ answer.body \in Seq(PartsOf(NamesAt(request.url)))
      /\ Honest(answer.body, answer.sent.document, answer.sent.whole)
  BY <1>2, <1>3, AnswerHonest
<1>6. RootsAreKnown'
  BY <1>1, KnownRootsStay DEF JInv
<1>7. phase \in After
  BY <1>1 DEF After
<1>8. CASE \E url \in answer.to : Follow(url)
  <2>1. PICK url \in answer.to : Follow(url)
    BY <1>8
  <2>2. /\ url \in Location /\ request.redirects < MAX_REDIRECTS
        /\ request' = [url |-> url, redirects |-> request.redirects + 1]
        /\ UNCHANGED <<phase, body, sent>>
    BY <2>1 DEF Follow
  <2>3. MoreTypes'
    <3>1. request.redirects + 1 \in 0 .. MAX_REDIRECTS
      BY <1>2, <2>2 DEF MAX_REDIRECTS
    <3>2. request' \in [url : Location, redirects : 0 .. MAX_REDIRECTS]
      BY <2>2, <3>1
    <3>. QED
      BY <1>1, <2>2, <3>2 DEF JInv, MoreTypes
  <2>4. Getting'
    <3>1. request.redirects \in Nat
      BY <1>2
    <3>2. place[request.redirects + 1] =
            place[request.redirects]
              \cup ((UNION {Hops(l) : l \in place[request.redirects]}) \cap Location)
      BY <3>1, ReachingFacts
    <3>3. url \in Hops(request.url)
      BY <1>5, <2>1
    <3> HIDE DEF place
    <3>4. url \in place[request.redirects + 1]
      BY <1>4, <2>2, <3>2, <3>3
    <3>5. request'.url = url /\ request'.redirects = request.redirects + 1
      BY <2>2
    <3>. QED
      BY <1>1, <1>4, <2>2, <3>4, <3>5 DEF Getting, place
  <2>5. Undescribed' /\ Asked'
    BY <1>1, <1>7, <2>2 DEF JInv, Undescribed, Asked, After
  <2>. QED
    BY <1>6, <2>3, <2>4, <2>5 DEF JInv
<1>9. CASE /\ answer.to = {} /\ body' = answer.body /\ sent' = answer.sent
           /\ phase' = "analyze" /\ UNCHANGED request
  <2>1. MoreTypes'
    BY <1>1, <1>5, <1>9 DEF JInv, MoreTypes
  <2>2. Getting'
    BY <1>1, <1>4, <1>5, <1>9 DEF Getting
  <2>3. Undescribed' /\ Asked'
    BY <1>1, <1>7, <1>9 DEF JInv, Undescribed, Asked, After
  <2>. QED
    BY <1>6, <2>1, <2>2, <2>3 DEF JInv
<1>. QED
  BY <1>3, <1>8, <1>9

\* The description that was next is done with, and was asked for.
LEMMA AdvanceKeeps ==
    ASSUME JInv, request # NoRequest, Advance(Tail(pending)),
           UNCHANGED <<todo, tried>>,
           registry' \in Registries, fetched' \subseteq [location : tried, url : Location],
           \A k \in DOMAIN registry' :
              \/ \E j \in DOMAIN registry : registry'[k] = registry[j]
              \/ registry'[k].location = pending[1].location,
           RootsAreKnown'
    PROVE  JInv'
<1>1. /\ pending' = Tail(pending) /\ phase' = "fetch" /\ request' = NoRequest
      /\ sent' = NoAnswer
  BY DEF Advance
<1>2. /\ phase \in {"fetch", "analyze"} /\ pending # <<>>
      /\ pending[1].location \in tried
  BY DEF JInv, Getting
<1>3. MoreTypes'
  <2>1. pending' \in Seq(Announced)
    BY <1>1, <1>2, FirstPending DEF JInv
  <2>2. sent'.whole \in BOOLEAN
    BY <1>1 DEF NoAnswer
  <2>. QED
    BY <1>1, <2>1, <2>2 DEF JInv, MoreTypes
<1>4. Getting'
  BY <1>1 DEF Getting
<1>5. Undescribed'
  BY <1>1 DEF Undescribed, After
<1>6. Asked'
  <2>1. ASSUME NEW k \in DOMAIN registry', registry'[k].location # NoLocation
        PROVE  \/ registry'[k].location \in tried'
               \/ \E j \in DOMAIN pending' : pending'[j].location = registry'[k].location
    <3>1. CASE registry'[k].location = pending[1].location
      BY <1>2, <3>1
    <3>2. CASE \E j \in DOMAIN registry : registry'[k] = registry[j]
      <4>1. PICK j \in DOMAIN registry : registry'[k] = registry[j]
        BY <3>2
      <4>2. \/ registry[j].location \in tried
            \/ \E i \in DOMAIN pending : pending[i].location = registry[j].location
        BY <1>2, <2>1, <4>1 DEF JInv, Asked, After
      <4>3. CASE registry[j].location \in tried
        BY <4>1, <4>3
      <4>4. CASE \E i \in DOMAIN pending : pending[i].location = registry[j].location
        <5>1. PICK i \in DOMAIN pending : pending[i].location = registry[j].location
          BY <4>4
        <5>2. i = 1 \/ \E m \in DOMAIN pending' : pending'[m] = pending[i]
          BY <1>1, <1>2, FirstPending DEF JInv
        <5>3. CASE i = 1
          BY <1>2, <4>1, <5>1, <5>3
        <5>4. CASE \E m \in DOMAIN pending' : pending'[m] = pending[i]
          <6>1. PICK m \in DOMAIN pending' : pending'[m] = pending[i]
            BY <5>4
          <6>2. pending'[m].location = registry'[k].location
            BY <4>1, <5>1, <6>1
          <6>. QED
            BY <6>2
        <5>. QED
          BY <5>2, <5>3, <5>4
      <4>. QED
        BY <4>2, <4>3, <4>4
    <3>. QED
      BY <3>1, <3>2
  <2>2. phase' # "done"
    BY <1>1
  <2>. QED
    BY <2>1, <2>2 DEF Asked
<1>. QED
  BY <1>3, <1>4, <1>5, <1>6 DEF JInv

LEMMA GetFailsKeepsJ == ASSUME JInv, GetFails PROVE JInv'
<1>1. /\ request # NoRequest /\ Advance(Tail(pending))
      /\ UNCHANGED <<todo, registry, tried, fetched>>
  BY DEF GetFails
<1>2. /\ registry' \in Registries /\ fetched' \subseteq [location : tried, url : Location]
      /\ \A k \in DOMAIN registry' : \E j \in DOMAIN registry : registry'[k] = registry[j]
  BY <1>1 DEF JInv, MoreTypes
<1>3. RootsAreKnown'
  BY <1>1, KnownRootsStay DEF JInv
<1>. QED
  BY <1>1, <1>2, <1>3, AdvanceKeeps

LEMMA DownloadsDoneKeepsJ == ASSUME JInv, DownloadsDone PROVE JInv'
<1>1. /\ phase = "fetch" /\ pending = <<>> /\ phase' = "done"
      /\ UNCHANGED <<todo, registry, pending, request, body, tried, sent, fetched>>
  BY DEF DownloadsDone, downloads
<1>2. request = NoRequest
  BY <1>1 DEF JInv, Getting
<1>3. MoreTypes' /\ Getting' /\ Undescribed'
  BY <1>1, <1>2 DEF JInv, MoreTypes, Getting, Undescribed, After
<1>4. Asked'
  BY <1>1 DEF JInv, Asked, After
<1>5. RootsAreKnown'
  BY <1>1, KnownRootsStay DEF JInv
<1>. QED
  BY <1>3, <1>4, <1>5 DEF JInv

\* What the description that is analysed does to the registry.
LEMMA AnalyzeFacts ==
    ASSUME JInv, Analyze
    PROVE  /\ phase = "analyze" /\ request # NoRequest
           /\ Advance(Tail(pending)) /\ UNCHANGED <<todo, tried>>
           /\ pending # <<>> /\ pending[1].location \in Location
           /\ request.url \in Location
           /\ registry' \in Registries
           /\ \A k \in DOMAIN registry' :
                \/ \E j \in DOMAIN registry : registry'[k] = registry[j]
                \/ /\ registry'[k].source = "UPnP_XML"
                   /\ registry'[k].uuid \in NamesAt(request.url).uuids
                   /\ registry'[k].location = pending[1].location
           /\ \A j \in DOMAIN registry :
                \E k \in DOMAIN registry' :
                   /\ SameKey(registry'[k], registry[j])
                   /\ registry[j].source = "SSDP" => registry'[k] = registry[j]
           /\ RootUdn(body) # NoUuid /\ "unsized" \notin NamesAt(request.url).icons =>
                \E k \in DOMAIN registry' :
                   /\ registry'[k].source = "UPnP_XML"
                   /\ registry'[k].uuid = RootUdn(body)
                   /\ registry'[k].ip = Host[pending[1].location]
<1>1. /\ phase = "analyze" /\ Advance(Tail(pending)) /\ UNCHANGED <<todo, tried>>
  BY DEF Analyze
<1>2. /\ request # NoRequest /\ pending # <<>>
      /\ body \in Seq(PartsOf(NamesAt(request.url)))
  BY <1>1 DEF JInv, Getting
<1>3. request.url \in Location
  BY <1>2, RequestFacts DEF JInv
<1>4. Head(pending) = pending[1] /\ pending[1].location \in Location
  BY <1>2, FirstPending DEF JInv
<1> DEFINE location == pending[1].location
           ip == Host[location]
           names == NamesAt(request.url)
<1>5. ip \in Ip /\ names.uuids \in SUBSET Uuid
  BY <1>3, <1>4, ServedFacts
<1>6. registry' = AnalyzeXml(registry, body, ip, location)
  BY <1>4 DEF Analyze
<1>7. registry \in Registries
  BY DEF JInv, MoreTypes
<1> HIDE DEF ip, names
<1>8. body \in Seq(PartsOf(names))
  BY <1>2 DEF names
<1> HIDE DEF location
<1>9. location \in Location
  BY <1>4 DEF location
<1>10. /\ registry' \in Registries
       /\ \A k \in DOMAIN registry' :
            \/ \E j \in DOMAIN registry : registry'[k] = registry[j]
            \/ /\ registry'[k].source = "UPnP_XML"
               /\ registry'[k].uuid \in names.uuids
               /\ registry'[k].location = location
       /\ \A j \in DOMAIN registry :
            \E k \in DOMAIN registry' :
               /\ SameKey(registry'[k], registry[j])
               /\ registry[j].source = "SSDP" => registry'[k] = registry[j]
       /\ RootUdn(body) # NoUuid /\ "unsized" \notin names.icons =>
            \E k \in DOMAIN registry' :
               /\ registry'[k].source = "UPnP_XML"
               /\ registry'[k].uuid = RootUdn(body)
               /\ registry'[k].ip = ip
  BY <1>5, <1>6, <1>7, <1>8, <1>9, AnalyzeXmlFacts
<1>. QED
  BY <1>1, <1>2, <1>3, <1>4, <1>10 DEF ip, names, location

LEMMA AnalyzeKnowsRoots == ASSUME JInv, Analyze PROVE RootsAreKnown'
<1> DEFINE location == pending[1].location
           url == request.url
<1>1. /\ phase = "analyze" /\ request # NoRequest
      /\ pending # <<>> /\ location \in Location /\ url \in Location
      /\ registry' \in Registries
      /\ \A k \in DOMAIN registry' :
           \/ \E j \in DOMAIN registry : registry'[k] = registry[j]
           \/ /\ registry'[k].source = "UPnP_XML"
              /\ registry'[k].uuid \in NamesAt(url).uuids
              /\ registry'[k].location = location
      /\ \A j \in DOMAIN registry : \E k \in DOMAIN registry' :
           SameKey(registry'[k], registry[j])
      /\ RootUdn(body) # NoUuid /\ "unsized" \notin NamesAt(url).icons =>
           \E k \in DOMAIN registry' :
              /\ registry'[k].source = "UPnP_XML"
              /\ registry'[k].uuid = RootUdn(body)
              /\ registry'[k].ip = Host[location]
  BY AnalyzeFacts
<1>2. /\ Honest(body, sent.document, sent.whole)
      /\ url \in Reaching(location)[request.redirects]
      /\ request.redirects \in 0 .. MAX_REDIRECTS
  BY <1>1, RequestFacts DEF JInv, Getting
<1>3. fetched' \subseteq fetched \cup {[location |-> location, url |-> url]}
      /\ (fetched' = fetched \/ (sent.whole /\ sent.document = Document(url)))
  <2>1. Head(pending) = pending[1]
    BY <1>1, FirstPending DEF JInv
  <2>2. fetched' = IF sent.whole /\ sent.document = Document(url)
                   THEN fetched \cup {[location |-> location, url |-> url]}
                   ELSE fetched
    BY <2>1 DEF Analyze
  <2>. QED
    BY <2>2
<1> HIDE DEF location, url
<1>4. ASSUME NEW f \in fetched', Served[f.url].root.uuid # NoUuid, IconsAreSized(f.url)
      PROVE  \E e \in Range(registry') : Describes(e, Served[f.url].root.uuid, f.location)
  <2>1. CASE f \in fetched
    <3>1. PICK e \in Range(registry) : Describes(e, Served[f.url].root.uuid, f.location)
      BY <1>4, <2>1 DEF JInv, RootsAreKnown
    <3>2. PICK j \in DOMAIN registry : registry[j] = e
      BY <3>1 DEF Range
    <3>3. PICK k \in DOMAIN registry' : SameKey(registry'[k], registry[j])
      BY <1>1
    <3>4. Describes(registry'[k], Served[f.url].root.uuid, f.location)
      BY <3>1, <3>2, <3>3 DEF SameKey, Describes
    <3>. QED
      BY <3>4 DEF Range
  <2>2. CASE f \notin fetched
    <3>1. /\ f = [location |-> location, url |-> url]
          /\ sent.whole /\ sent.document = Document(url)
      BY <1>3, <2>2
    <3>2. f.location = location /\ f.url = url
      BY <3>1
    <3>3. body = Document(url)
      BY <1>2, <3>1 DEF Honest
    <3>4. RootUdn(body) = Served[url].root.uuid
      <4>1. Served[url].root \in Node /\ Served[url].embedded \in Seq(Node)
        BY <1>1, ServedFacts
      <4>. QED
        BY <1>4, <3>2, <3>3, <4>1, RootUdnIs DEF Document
    <3>5. PICK k \in DOMAIN registry' :
             /\ registry'[k].source = "UPnP_XML"
             /\ registry'[k].uuid = RootUdn(body)
             /\ registry'[k].ip = Host[location]
      <4>1. "unsized" \notin NamesAt(url).icons
        BY <1>4, <3>2 DEF IconsAreSized, NamesAt, Names
      <4>. QED
        BY <1>1, <1>4, <3>2, <3>4, <4>1
    <3>6. Describes(registry'[k], Served[f.url].root.uuid, f.location)
      BY <3>2, <3>4, <3>5 DEF Describes
    <3>. QED
      BY <3>6 DEF Range
  <2>. QED
    BY <2>1, <2>2
<1>5. ASSUME NEW e \in Range(registry'), e.source = "UPnP_XML"
      PROVE  \E l \in LeadsTo(e.location) :
                e.uuid \in {Served[l].root.uuid}
                            \cup {d.uuid : d \in Range(Served[l].embedded)}
  <2>1. PICK k \in DOMAIN registry' : registry'[k] = e
    BY DEF Range
  <2>2. CASE \E j \in DOMAIN registry : registry'[k] = registry[j]
    <3>1. e \in Range(registry)
      BY <2>1, <2>2 DEF Range
    <3>. QED
      BY <1>5, <3>1 DEF JInv, RootsAreKnown
  <2>3. CASE e.uuid \in NamesAt(url).uuids /\ e.location = location
    <3>1. /\ Answers(url)
          /\ e.uuid \in {Served[url].root.uuid}
                         \cup {d.uuid : d \in Range(Served[url].embedded)}
      BY <2>3 DEF NamesAt, Names
    <3>2. url \in Reaching(location)[MAX_REDIRECTS]
      BY <1>2, ReachingGrows
    <3>3. url \in LeadsTo(e.location)
      BY <2>3, <3>1, <3>2, LeadsToIs
    <3>. QED
      BY <3>1, <3>3
  <2>. QED
    BY <1>1, <2>1, <2>2, <2>3
<1>. QED
  BY <1>4, <1>5 DEF RootsAreKnown

LEMMA AnalyzeKeepsJ == ASSUME JInv, Analyze PROVE JInv'
<1>1. /\ request # NoRequest
      /\ Advance(Tail(pending)) /\ UNCHANGED <<todo, tried>>
      /\ registry' \in Registries
      /\ \A k \in DOMAIN registry' :
           \/ \E j \in DOMAIN registry : registry'[k] = registry[j]
           \/ registry'[k].location = pending[1].location
  BY AnalyzeFacts
<1>2. fetched' \subseteq [location : tried, url : Location]
  <2>1. request.url \in Location /\ Head(pending).location \in tried
    <3>1. phase = "analyze" /\ pending # <<>> /\ request.url \in Location
      BY AnalyzeFacts
    <3>. QED
      BY <1>1, <3>1, FirstPending DEF JInv, Getting
  <2>2. [location |-> Head(pending).location, url |-> request.url]
           \in [location : tried, url : Location]
    BY <2>1
  <2>. QED
    BY <2>2 DEF Analyze, JInv, MoreTypes
<1>. QED
  BY <1>1, <1>2, AnalyzeKnowsRoots, AdvanceKeeps

LEMMA StepKeepsJ == ASSUME IInv, JInv, [Next]_vars PROVE JInv'
<1>1. CASE UNCHANGED vars
  <2>1. UNCHANGED <<phase, todo, registry, pending, request, body, tried, sent, fetched>>
    BY <1>1 DEF vars
  <2>2. MoreTypes' /\ Getting' /\ Undescribed' /\ Asked'
    BY <2>1 DEF JInv, MoreTypes, Getting, Undescribed, Asked
  <2>3. RootsAreKnown'
    BY <2>1, KnownRootsStay DEF JInv
  <2>. QED
    BY <2>2, <2>3 DEF JInv
<1>. QED
  BY <1>1, SearchesKeepJ, DispatchKeepsJ, BeginGetKeepsJ, RespondKeepsJ, GetFailsKeepsJ,
     AnalyzeKeepsJ, DownloadsDoneKeepsJ DEF Next

\* What the searches and the downloads keep together holds in every reachable
\* state.
THEOREM DownloadsInductive == Spec => [](IInv /\ JInv)
<1>1. Init => JInv
  BY JInit
<1>2. IInv /\ JInv /\ [Next]_vars => JInv'
  BY StepKeepsJ
<1>. QED
  BY <1>1, <1>2, Inductive, PTL DEF Spec

\* For any devices, servers and searches, every variable has its type; among
\* others no answer is redirected more than MAX_REDIRECTS times.
THEOREM TypesHold == Spec => []TypeOK
<1>1. IInv /\ JInv => TypeOK
  <2> SUFFICES ASSUME IInv, JInv PROVE TypeOK
    OBVIOUS
  <2>1. registry \in Seq(Evidence)
    BY DEF JInv, MoreTypes, Registries
  <2>2. pending \in Seq(Evidence)
    <3>1. Announced \subseteq Evidence
      BY DEF Announced
    <3>. QED
      BY <3>1 DEF JInv, MoreTypes
  <2>3. results \in Seq([search : Search, packets : Seq(Packet)])
    BY DEF IInv, Types, Entry
  <2>4. phase \in {"init", "send", "receive", "dispatch", "fetch", "analyze",
                   "done", "failed"}
    BY DEF IInv, Types, Searching, After
  <2>. QED
    BY <2>1, <2>2, <2>3, <2>4 DEF TypeOK, IInv, Types, JInv, MoreTypes
<1>. QED
  BY <1>1, DownloadsInductive, PTL

\* Register leaves no two pieces of evidence of the same device at the same
\* address from the same source, whatever was analysed, and how often.
THEOREM NoDoublesEver == Spec => []NoDoubles
<1>1. JInv => NoDoubles
  BY DEF JInv, MoreTypes, Registries, Unique, NoDoubles
<1>. QED
  BY <1>1, DownloadsInductive, PTL

\* When ProcessPending is through, every location a device announced was asked
\* for, however many downloads failed or what the descriptions named.
THEOREM AllLocationsAreTried == Spec => []LocationsAreTried
<1>1. JInv => LocationsAreTried
  <2> SUFFICES ASSUME JInv, phase = "done", NEW e \in Range(registry),
                      e.location # NoLocation
               PROVE  e.location \in tried
    BY DEF LocationsAreTried
  <2>1. PICK k \in DOMAIN registry : registry[k] = e
    BY DEF Range
  <2>2. pending = <<>> /\ phase \in After
    BY DEF JInv, Asked, After
  <2>3. DOMAIN pending = {}
    BY <2>2
  <2>. QED
    BY <2>1, <2>2, <2>3 DEF JInv, Asked
<1>. QED
  BY <1>1, DownloadsInductive, PTL

\* What XmlAnalyzer gets is a beginning of what the server meant, for every
\* answer and wherever it was cut, and all of it when all came.
THEOREM OnlyWhatIsServed == Spec => []BodyIsServed
<1>1. JInv => BodyIsServed
  BY DEF JInv, Getting, Honest, BodyIsServed
<1>. QED
  BY <1>1, DownloadsInductive, PTL

\* A description that came as a whole makes its root device known for good,
\* and nobody is described by what its location does not lead to.
THEOREM RootsStayKnown == Spec => []RootsAreKnown
<1>1. JInv => RootsAreKnown
  BY DEF JInv
<1>. QED
  BY <1>1, DownloadsInductive, PTL

-----------------------------------------------------------------------------
(* The digest.                                                             *)

\* f[k] is the concatenation of the first k lists.
NextIsJoined(f, k, ss) == f[k + 1] = f[k] \o ss[k + 1]

Concatenates(f, n, ss) == \A k \in 1 .. n : f[k] = f[k - 1] \o ss[k]

LEMMA NextList ==
    ASSUME NEW n \in Nat, NEW f, NEW ss, Concatenates(f, n, ss),
           NEW k \in Nat, k + 1 <= n
    PROVE  NextIsJoined(f, k, ss)
<1> DEFINE m == k + 1
<1>1. m \in 1 .. n /\ k = m - 1
  OBVIOUS
<1> HIDE DEF m
<1>2. f[m] = f[k] \o ss[m]
  BY <1>1, Zenon DEF Concatenates
<1>. QED
  BY <1>2 DEF m, NextIsJoined

\* Concatenation of one list more.
LEMMA FlattenOneMore ==
    ASSUME NEW S, NEW ss \in Seq(Seq(S)), NEW s \in Seq(S)
    PROVE  FlattenSeq(Append(ss, s)) = FlattenSeq(ss) \o s
<1> DEFINE Lists == Seq(S)
           n == Len(ss)
           longer == Append(ss, s)
<1>1. ss \in Seq(Lists) /\ s \in Lists
  OBVIOUS
<1> HIDE DEF Lists
<1>2. /\ n \in Nat /\ longer \in Seq(Lists) /\ Len(longer) = n + 1
      /\ longer[n + 1] = s
      /\ \A k \in 1 .. n : longer[k] = ss[k]
  BY <1>1
<1>3. PICK f \in [0 .. n -> Seq(S)] :
         /\ f[0] = <<>>
         /\ Concatenates(f, n, ss)
         /\ f[n] = FlattenSeq(ss)
  BY FlattenSteps DEF Concatenates
<1> HIDE DEF longer
<1>4. longer \in Seq(Seq(S))
  BY <1>2 DEF Lists
<1>5. PICK g \in [0 .. Len(longer) -> Seq(S)] :
         /\ g[0] = <<>>
         /\ Concatenates(g, Len(longer), longer)
         /\ g[Len(longer)] = FlattenSeq(longer)
  BY <1>4, FlattenSteps DEF Concatenates
<1> HIDE DEF n
<1> DEFINE T == {k \in Nat : k <= n => g[k] = f[k]}
<1>6. T \in SUBSET Nat /\ 0 \in T
  BY <1>3, <1>5
<1>7. \A k \in T : k + 1 \in T
  <2> SUFFICES ASSUME NEW k \in T, k + 1 <= n PROVE g[k + 1] = f[k + 1]
    OBVIOUS
  <2>1. k \in Nat /\ k + 1 \in 1 .. n /\ k + 1 - 1 = k /\ k + 1 \in 1 .. Len(longer)
    BY <1>2
  <2>2. g[k] = f[k]
    BY <1>2, <2>1
  <2>3. g[k + 1] = g[k] \o longer[k + 1] /\ f[k + 1] = f[k] \o ss[k + 1]
    <3>1. NextIsJoined(g, k, longer)
      BY <1>2, <1>5, <2>1, NextList
    <3>2. NextIsJoined(f, k, ss)
      BY <1>2, <1>3, <2>1, NextList
    <3>. QED
      BY <3>1, <3>2 DEF NextIsJoined
  <2>4. longer[k + 1] = ss[k + 1]
    BY <1>2, <2>1
  <2>. QED
    BY <2>2, <2>3, <2>4
<1>8. T = Nat
  <2> HIDE DEF T
  <2>. QED
    BY <1>6, <1>7, Collecting!SetInduction
<1>9. g[n] = f[n]
  <2>1. n \in T
    BY <1>2, <1>8
  <2>. QED
    BY <1>2, <2>1
<1>10. n + 1 \in 1 .. Len(longer) /\ n + 1 - 1 = n
  BY <1>2
<1>11. g[n + 1] = g[n] \o longer[n + 1]
  <2>1. Concatenates(g, n + 1, longer) /\ n \in Nat /\ n + 1 \in Nat /\ n + 1 <= n + 1
    BY <1>2, <1>5
  <2>2. NextIsJoined(g, n, longer)
    BY <2>1, NextList
  <2>. QED
    BY <2>2 DEF NextIsJoined
<1>. QED
  BY <1>2, <1>3, <1>5, <1>9, <1>11 DEF longer, n

\* Only one list holds anything.
LEMMA OnlyOneList ==
    ASSUME NEW S, NEW ss \in Seq(Seq(S)), NEW i \in DOMAIN ss,
           \A k \in DOMAIN ss \ {i} : ss[k] = <<>>
    PROVE  FlattenSeq(ss) = ss[i]
<1> DEFINE n == Len(ss)
<1>1. PICK f \in [0 .. n -> Seq(S)] :
         /\ f[0] = <<>>
         /\ Concatenates(f, n, ss)
         /\ f[n] = FlattenSeq(ss)
  BY FlattenSteps DEF Concatenates
<1>2. n \in Nat /\ DOMAIN ss = 1 .. n /\ \A k \in 1 .. n : ss[k] \in Seq(S)
  OBVIOUS
<1> HIDE DEF n
<1> DEFINE T == {k \in Nat : k <= n => f[k] = IF k < i THEN <<>> ELSE ss[i]}
<1>3. i \in 1 .. n
  BY <1>2
<1>4. T \in SUBSET Nat /\ 0 \in T
  BY <1>1, <1>3
<1>5. \A k \in T : k + 1 \in T
  <2> SUFFICES ASSUME NEW k \in T, k + 1 <= n
               PROVE  f[k + 1] = IF k + 1 < i THEN <<>> ELSE ss[i]
    OBVIOUS
  <2>1. k \in Nat /\ k + 1 \in 1 .. n /\ k + 1 - 1 = k /\ k <= n
    BY <1>2
  <2>2. f[k] = IF k < i THEN <<>> ELSE ss[i]
    BY <2>1
  <2>3. f[k + 1] = f[k] \o ss[k + 1]
    <3>1. NextIsJoined(f, k, ss)
      BY <1>1, <1>2, <2>1, NextList
    <3>. QED
      BY <3>1 DEF NextIsJoined
  <2>4. ss[i] \in Seq(S) /\ <<>> \o ss[i] = ss[i] /\ ss[i] \o <<>> = ss[i]
        /\ <<>> \o <<>> = <<>>
    BY <1>2, <1>3
  <2>5. k + 1 # i => ss[k + 1] = <<>>
    BY <1>2, <2>1
  <2>6. CASE k + 1 = i
    <3>1. k < i /\ ~ (k + 1 < i)
      BY <1>3, <2>1, <2>6
    <3>. QED
      BY <2>2, <2>3, <2>4, <2>6, <3>1
  <2>7. CASE k + 1 < i
    <3>1. k < i
      BY <1>3, <2>1, <2>7
    <3>. QED
      BY <1>3, <2>2, <2>3, <2>4, <2>5, <2>7, <3>1
  <2>8. CASE k >= i
    <3>1. ~ (k < i) /\ ~ (k + 1 < i) /\ k + 1 # i
      BY <1>3, <2>1, <2>8
    <3>. QED
      BY <2>2, <2>3, <2>4, <2>5, <3>1
  <2>. QED
    BY <1>3, <2>1, <2>6, <2>7, <2>8
<1>6. T = Nat
  <2> HIDE DEF T
  <2>. QED
    BY <1>4, <1>5, Collecting!SetInduction
<1>7. n \in T /\ n <= n /\ ~ (n < i)
  <2>1. n \in T
    BY <1>2, <1>6
  <2>. QED
    BY <1>2, <1>3, <2>1
<1>8. f[n] = ss[i]
  BY <1>7
<1>. QED
  BY <1>1, <1>8

-----------------------------------------------------------------------------
(* One packet more.                                                        *)

LEMMA KeyIsShared ==
    \A e, f, g :
        /\ SameKey(e, f) => SameKey(f, e)
        /\ SameKey(e, f) /\ SameKey(f, g) => SameKey(e, g)
        /\ SameKey(e, e)
  BY DEF SameKey

LEMMA DigestOfMore ==
    ASSUME NEW packets \in Seq(Packet), NEW p \in Packet
    PROVE  Digest(Append(packets, p)) =
             IF IsEvidence(p)
             THEN {SsdpEvidence(p)}
                   \cup {f \in Digest(packets) : ~ SameKey(SsdpEvidence(p), f)}
             ELSE Digest(packets)
<1> DEFINE more == Append(packets, p)
           n == Len(packets)
<1>1. /\ n \in Nat /\ DOMAIN packets = 1 .. n /\ DOMAIN more = 1 .. n + 1
      /\ more[n + 1] = p
      /\ \A k \in 1 .. n : more[k] = packets[k]
  OBVIOUS
<1> HIDE DEF more, n
<1>2. ASSUME NEW j \in 1 .. n
      PROVE  j \in Latest(more) <=>
               /\ j \in Latest(packets)
               /\ IsEvidence(p) => ~ SameKey(SsdpEvidence(p), SsdpEvidence(packets[j]))
  <2>1. more[j] = packets[j] /\ n + 1 > j /\ n + 1 \in 1 .. n + 1 /\ j \in 1 .. n + 1
    BY <1>1
  <2>2. (\A i \in 1 .. n + 1 :
            i > j /\ IsEvidence(more[i]) =>
              ~ SameKey(SsdpEvidence(more[i]), SsdpEvidence(more[j])))
        <=> /\ \A i \in 1 .. n :
                 i > j /\ IsEvidence(packets[i]) =>
                    ~ SameKey(SsdpEvidence(packets[i]), SsdpEvidence(packets[j]))
            /\ IsEvidence(p) => ~ SameKey(SsdpEvidence(p), SsdpEvidence(packets[j]))
    <3>1. \A i : i \in 1 .. n + 1 <=> i \in 1 .. n \/ i = n + 1
      BY <1>1
    <3>. QED
      BY <1>1, <2>1, <3>1
  <2>. QED
    BY <1>1, <2>1, <2>2 DEF Latest
<1>3. n + 1 \in Latest(more) <=> IsEvidence(p)
  <2>1. \A i \in 1 .. n + 1 : ~ (i > n + 1)
    BY <1>1
  <2>2. n + 1 \in 1 .. n + 1
    BY <1>1
  <2>. QED
    BY <1>1, <2>1, <2>2 DEF Latest
<1>4. Latest(more) \subseteq 1 .. n + 1 /\ Latest(packets) \subseteq 1 .. n
  BY <1>1 DEF Latest
<1>5. Digest(more) = {SsdpEvidence(more[j]) : j \in Latest(more)}
      /\ Digest(packets) = {SsdpEvidence(packets[j]) : j \in Latest(packets)}
  BY DEF Digest
<1>6. \A j \in Latest(more) : j \in 1 .. n \/ j = n + 1
  BY <1>1, <1>4
<1>7. \A j \in 1 .. n : j \in 1 .. n + 1 /\ j # n + 1
  BY <1>1
<1>8. CASE IsEvidence(p)
  <2>1. ASSUME NEW f \in Digest(more)
        PROVE  \/ f = SsdpEvidence(p)
               \/ f \in Digest(packets) /\ ~ SameKey(SsdpEvidence(p), f)
    <3>1. PICK j \in Latest(more) : f = SsdpEvidence(more[j])
      BY <1>5
    <3>. QED
      BY <1>1, <1>2, <1>5, <1>6, <1>8, <3>1
  <2>2. SsdpEvidence(p) \in Digest(more)
    BY <1>1, <1>3, <1>5, <1>8
  <2>3. ASSUME NEW f \in Digest(packets), ~ SameKey(SsdpEvidence(p), f)
        PROVE  f \in Digest(more)
    <3>1. PICK j \in Latest(packets) : f = SsdpEvidence(packets[j])
      BY <1>5
    <3>. QED
      BY <1>1, <1>2, <1>4, <1>5, <2>3, <3>1
  <2>. QED
    BY <1>8, <2>1, <2>2, <2>3 DEF more
<1>9. CASE ~ IsEvidence(p)
  <2>1. Latest(more) = Latest(packets)
    BY <1>2, <1>3, <1>4, <1>6, <1>9
  <2>2. \A j \in Latest(packets) : more[j] = packets[j]
    BY <1>1, <1>4
  <2>3. Digest(more) = Digest(packets)
    BY <1>5, <2>1, <2>2
  <2>. QED
    BY <1>9, <2>3 DEF more
<1>. QED
  BY <1>8, <1>9

\* The analysis of a packet makes of the digest that of one packet more.
LEMMA DispatchDigests ==
    ASSUME NEW evidences \in Registries, NEW packets \in Seq(Packet), NEW p \in Packet,
           Ssdp(evidences) = Digest(packets)
    PROVE  Ssdp(AnalyzeSsdp(evidences, p)) = Digest(Append(packets, p))
<1>1. evidences \in Seq(Evidence) /\ Unique(evidences)
  BY DEF Registries
<1>2. CASE ~ IsEvidence(p)
  BY <1>2, DigestOfMore DEF AnalyzeSsdp
<1>3. CASE IsEvidence(p)
  <2> DEFINE after == AnalyzeSsdp(evidences, p)
             e == SsdpEvidence(p)
  <2>1. /\ Unique(after)
        /\ \A k \in DOMAIN after :
             after[k] = e \/ (k \in DOMAIN evidences /\ after[k] = evidences[k])
        /\ \E k \in DOMAIN after : after[k] = e
        /\ \A j \in DOMAIN evidences : \E k \in DOMAIN after : SameKey(after[k], evidences[j])
    BY <1>1, <1>3, AnalyzeSsdpFacts
  <2>2. e.source = "SSDP"
    BY DEF SsdpEvidence
  <2>3. Digest(Append(packets, p)) = {e} \cup {f \in Ssdp(evidences) : ~ SameKey(e, f)}
    BY <1>3, DigestOfMore
  <2> HIDE DEF after, e
  <2>4. ASSUME NEW f \in Ssdp(after)
        PROVE  f = e \/ (f \in Ssdp(evidences) /\ ~ SameKey(e, f))
    <3>1. PICK k \in DOMAIN after : f = after[k]
      BY DEF Ssdp, Range
    <3>2. PICK i \in DOMAIN after : after[i] = e
      BY <2>1
    <3>3. CASE SameKey(e, f)
      <4>1. i = k
        BY <2>1, <3>1, <3>2, <3>3 DEF Unique
      <4>. QED
        BY <3>1, <3>2, <4>1
    <3>4. CASE ~ SameKey(e, f)
      <4>1. k \in DOMAIN evidences /\ f = evidences[k]
        BY <2>1, <3>1, <3>4, KeyIsShared
      <4>2. f.source = "SSDP"
        BY DEF Ssdp
      <4>. QED
        BY <3>4, <4>1, <4>2 DEF Ssdp, Range
    <3>. QED
      BY <3>3, <3>4
  <2>5. e \in Ssdp(after)
    BY <2>1, <2>2 DEF Ssdp, Range
  <2>6. ASSUME NEW f \in Ssdp(evidences), ~ SameKey(e, f)
        PROVE  f \in Ssdp(after)
    <3>1. PICK j \in DOMAIN evidences : f = evidences[j]
      BY DEF Ssdp, Range
    <3>2. PICK k \in DOMAIN after : SameKey(after[k], evidences[j])
      BY <2>1
    <3>3. after[k] # e
      BY <2>6, <3>1, <3>2
    <3>4. k \in DOMAIN evidences /\ after[k] = evidences[k]
      BY <2>1, <3>3
    <3>5. k = j
      BY <1>1, <3>2, <3>4 DEF Unique
    <3>6. f.source = "SSDP"
      BY DEF Ssdp
    <3>. QED
      BY <3>1, <3>4, <3>5, <3>6 DEF Ssdp, Range
  <2>7. Ssdp(after) = {e} \cup {f \in Ssdp(evidences) : ~ SameKey(e, f)}
    BY <2>4, <2>5, <2>6
  <2>. QED
    BY <2>3, <2>7 DEF after
<1>. QED
  BY <1>2, <1>3

-----------------------------------------------------------------------------
(* The registry is the digest.                                             *)

LEMMA BucketsAreLists ==
    ASSUME IInv
    PROVE  /\ buckets \in Seq(Seq(Packet)) /\ DOMAIN buckets = Search
           /\ next \in Search /\ buckets[next] \in Seq(Packet)
<1> DEFINE Lists == Seq(Packet)
           n == Len(SearchTargets)
<1>1. n \in Nat /\ buckets \in [1 .. n -> Lists] /\ Search = 1 .. n
  BY SearchesAreNumbered DEF IInv, Types
<1>2. next \in Search
  BY DEF IInv, Types
<1> HIDE DEF Lists, n
<1>3. buckets \in Seq(Lists) /\ DOMAIN buckets = Search /\ buckets[next] \in Lists
  BY <1>1, <1>2
<1>. QED
  BY <1>2, <1>3 DEF Lists

LEMMA ListsAreLists ==
    ASSUME NEW list \in Seq(Entry)
    PROVE  /\ [k \in DOMAIN list |-> list[k].packets] \in Seq(Seq(Packet))
           /\ FlattenSeq([k \in DOMAIN list |-> list[k].packets]) \in Seq(Packet)
<1> DEFINE Lists == Seq(Packet)
           n == Len(list)
           lists == [k \in DOMAIN list |-> list[k].packets]
<1>1. n \in Nat /\ DOMAIN list = 1 .. n /\ \A k \in 1 .. n : list[k].packets \in Lists
  <2>1. \A entry \in Entry : entry.packets \in Seq(Packet)
    BY DEF Entry
  <2>2. n \in Nat /\ DOMAIN list = 1 .. n /\ \A k \in 1 .. n : list[k] \in Entry
    OBVIOUS
  <2>. QED
    BY <2>1, <2>2
<1> HIDE DEF Lists, n
<1>2. lists \in [1 .. n -> Lists]
  BY <1>1
<1>3. lists \in Seq(Lists)
  BY <1>1, <1>2
<1>4. lists \in Seq(Seq(Packet))
  BY <1>3 DEF Lists
<1> HIDE DEF lists
<1>5. FlattenSeq(lists) \in Seq(Packet)
  BY <1>4, FlattenType
<1>. QED
  BY <1>4, <1>5 DEF lists

\* One list more.
LEMMA OneListMore ==
    ASSUME NEW list \in Seq(Entry), NEW s \in Search, NEW packets \in Seq(Packet)
    PROVE  LET more == Append(list, [search |-> s, packets |-> packets])
           IN FlattenSeq([k \in DOMAIN more |-> more[k].packets])
                = FlattenSeq([k \in DOMAIN list |-> list[k].packets]) \o packets
<1> DEFINE Lists == Seq(Packet)
           entry == [search |-> s, packets |-> packets]
           more == Append(list, entry)
           lists == [k \in DOMAIN list |-> list[k].packets]
           longer == [k \in DOMAIN more |-> more[k].packets]
           n == Len(list)
<1>1. entry \in Entry /\ entry.packets = packets
  BY DEF Entry
<1> HIDE DEF entry
<1>2. /\ n \in Nat /\ DOMAIN list = 1 .. n /\ DOMAIN more = 1 .. n + 1
      /\ more[n + 1] = entry /\ \A k \in 1 .. n : more[k] = list[k]
  BY <1>1
<1>3. lists \in Seq(Seq(Packet)) /\ packets \in Seq(Packet)
  BY ListsAreLists
<1> HIDE DEF more, n, Lists
<1>4. \A k \in 1 .. n + 1 : longer[k] = IF k = n + 1 THEN packets ELSE lists[k]
  BY <1>1, <1>2
<1>5. DOMAIN longer = 1 .. n + 1 /\ DOMAIN lists = 1 .. n
  BY <1>2
<1>6. longer = [k \in 1 .. n + 1 |-> longer[k]]
  BY <1>2
<1>7. lists \in Seq(Lists) /\ packets \in Lists
  BY <1>3 DEF Lists
<1> HIDE DEF longer, lists
<1>8. Append(lists, packets) = longer
  <2>1. Len(lists) = n
    BY <1>2, <1>5, <1>7
  <2> DEFINE appended == Append(lists, packets)
  <2>2. /\ appended \in Seq(Lists) /\ Len(appended) = n + 1
        /\ \A k \in 1 .. n + 1 : appended[k] = IF k = n + 1 THEN packets ELSE lists[k]
    BY <1>2, <1>7, <2>1
  <2> HIDE DEF appended
  <2>3. appended = [k \in 1 .. n + 1 |-> appended[k]]
    BY <2>2
  <2>. QED
    BY <1>4, <1>6, <2>2, <2>3 DEF appended
<1>9. FlattenSeq(Append(lists, packets)) = FlattenSeq(lists) \o packets
  BY <1>3, FlattenOneMore
<1>. QED
  BY <1>8, <1>9 DEF longer, lists, more, entry

\* The lists of a combined search.
LEMMA CombinedLists ==
    ASSUME IInv,
           results' = [s \in Search |-> [search |-> s, packets |-> buckets[s]]]
    PROVE  ListedPackets' = FlattenSeq(buckets)
<1>1. buckets \in [Search -> Seq(Packet)]
  BY DEF IInv, Types
<1>2. DOMAIN results' = Search
  BY SearchesAreNumbered
<1>3. [k \in DOMAIN results' |-> results'[k].packets] = buckets
  BY <1>1, <1>2
<1>. QED
  BY <1>3 DEF ListedPackets

LEMMA NothingIsDigested == Digest(<<>>) = {} /\ Ssdp(<<>>) = {}
  BY DEF Digest, Latest, Ssdp, Range

LEMMA ListedIsSeq == ASSUME IInv PROVE ListedPackets \in Seq(Packet)
<1>1. results \in Seq(Entry)
  BY DEF IInv, Types
<1>. QED
  BY <1>1, ListsAreLists DEF ListedPackets

\* What is dispatched next goes from one list to the other.
LEMMA OneDispatched ==
    ASSUME NEW done \in Seq(Packet), NEW rest \in Seq(Packet), rest # <<>>
    PROVE  /\ Head(rest) \in Packet /\ Tail(rest) \in Seq(Packet)
           /\ Append(done, Head(rest)) \in Seq(Packet)
           /\ done \o rest = Append(done, Head(rest)) \o Tail(rest)
  OBVIOUS

LEMMA AppendedBehind ==
    ASSUME NEW before \in Seq(Packet), NEW done \in Seq(Packet), NEW p \in Packet
    PROVE  /\ before \o done \in Seq(Packet)
           /\ before \o Append(done, p) = Append(before \o done, p)
  OBVIOUS

LEMMA NothingBehind ==
    ASSUME NEW s \in Seq(Packet)
    PROVE  s \o <<>> = s /\ <<>> \o s = s
  OBVIOUS

\* Steps that neither register nor list anything.
LEMMA SameDigest ==
    ASSUME Digested, UNCHANGED <<registry, results, abandoned>>,
           phase \in Searching \cup After, phase' # "dispatch",
           phase' = "receive" =>
              \/ UNCHANGED <<phase, combined, next>>
                 /\ (~ combined => \A s \in Search \ {next} : buckets'[s] = buckets[s])
              \/ \A s \in Search : buckets'[s] = <<>>
    PROVE  Digested'
<1>1. ListedPackets' = ListedPackets /\ Ssdp(registry)' = Ssdp(registry)
  BY DEF ListedPackets, Ssdp
<1>2. ~ abandoned' => Ssdp(registry)' = Digest(ListedPackets)'
  BY <1>1 DEF Digested
<1>3. ~ combined' /\ phase' \in {"receive", "dispatch"} =>
         \A s \in Search \ {next'} : buckets'[s] = <<>>
  BY DEF Digested
<1>. QED
  BY <1>2, <1>3 DEF Digested

LEMMA SearchDoneDigests ==
    ASSUME IInv, Digested, ~ combined, phase \in {"send", "receive", "dispatch"},
           NEW packets \in Seq(Packet), SearchDone(packets),
           UNCHANGED <<registry, abandoned>>,
           ~ abandoned => Ssdp(registry) = Digest(ListedPackets \o packets)
    PROVE  Digested'
<1>1. /\ results' = Append(results, [search |-> next, packets |-> packets])
      /\ phase' \in {"send", "fetch"}
  BY DEF SearchDone, Fetch
<1>2. results \in Seq(Entry) /\ next \in Search
  BY DEF IInv, Types
<1>3. ListedPackets' = ListedPackets \o packets
  BY <1>1, <1>2, OneListMore DEF ListedPackets
<1>. QED
  BY <1>1, <1>3 DEF Digested, Searching, After, Ssdp

LEMMA SearchFailsDigests == ASSUME IInv, Digested, SearchFails PROVE Digested'
<1>1. /\ phase \in {"send", "receive"} /\ UNCHANGED <<registry, abandoned>>
      /\ IF combined THEN FallBack ELSE SearchDone(<<>>)
  BY DEF SearchFails
<1>2. CASE combined
  <2>1. UNCHANGED results /\ phase' = "send"
    BY <1>1, <1>2 DEF FallBack
  <2>2. phase \in Searching \cup After
    BY <1>1 DEF Searching
  <2>. QED
    BY <1>1, <2>1, <2>2, SameDigest
<1>3. CASE ~ combined
  <2>1. ListedPackets \o <<>> = ListedPackets
    BY ListedIsSeq, NothingBehind
  <2>2. ~ abandoned => Ssdp(registry) = Digest(ListedPackets)
    BY <1>1 DEF Digested, Searching
  <2>3. <<>> \in Seq(Packet)
    OBVIOUS
  <2>. QED
    BY <1>1, <1>3, <2>1, <2>2, <2>3, SearchDoneDigests
<1>. QED
  BY <1>2, <1>3

LEMMA ReceiveDigests == ASSUME IInv, Digested, Receive PROVE Digested'
<1>1. /\ phase = "receive"
      /\ UNCHANGED <<phase, combined, next, registry, results, abandoned>>
  BY DEF Receive
<1>2. PICK p \in net :
         buckets' = [s \in Search |-> IF s \in Bucket(p) THEN Append(buckets[s], p)
                                      ELSE buckets[s]]
  BY DEF Receive
<1>3. ~ combined => Bucket(p) = {next}
  BY DEF Bucket
<1>4. ~ combined => \A s \in Search \ {next} : buckets'[s] = buckets[s]
  BY <1>2, <1>3
<1>5. phase \in Searching \cup After
  BY <1>1 DEF Searching
<1>. QED
  BY <1>1, <1>4, <1>5, SameDigest

LEMMA WindowClosesDigests == ASSUME IInv, Digested, WindowCloses PROVE Digested'
<1>1. /\ phase = "receive" /\ phase' = "dispatch" /\ todo' = FlattenSeq(buckets)
      /\ UNCHANGED <<combined, next, buckets, registry, abandoned>>
  BY DEF WindowCloses
<1>2. /\ buckets \in Seq(Seq(Packet)) /\ DOMAIN buckets = Search
      /\ next \in Search /\ buckets[next] \in Seq(Packet)
      /\ FlattenSeq(buckets) \in Seq(Packet)
  BY BucketsAreLists, FlattenType
<1>3. ~ abandoned => Ssdp(registry) = Digest(ListedPackets)
  BY <1>1 DEF Digested, Searching
<1>4. <<>> \in Seq(Packet)
  OBVIOUS
<1>5. Ssdp(registry)' = Ssdp(registry)
  BY <1>1 DEF Ssdp
<1>6. CASE combined
  <2>1. results = <<>>
    BY <1>1, <1>6 DEF IInv, Counted, Searching
  <2>2. ListedPackets = <<>>
    <3>1. [k \in DOMAIN results |-> results[k].packets] = <<>>
      BY <2>1
    <3>. QED
      BY <3>1 DEF ListedPackets, FlattenSeq
  <2>3. ListedPackets' = <<>> \o todo'
    <3>1. ListedPackets' = FlattenSeq(buckets)
      BY <1>6, CombinedLists DEF WindowCloses
    <3>. QED
      BY <1>1, <1>2, <3>1, NothingBehind
  <2>4. ~ abandoned => Ssdp(registry)' = Digest(<<>>)
    BY <1>3, <1>5, <2>2
  <2>. QED
    BY <1>1, <1>4, <1>6, <2>3, <2>4 DEF Digested, Searching, After
<1>7. CASE ~ combined
  <2>1. UNCHANGED results /\ ListedPackets' = ListedPackets
    BY <1>7 DEF WindowCloses, ListedPackets
  <2>2. \A s \in Search \ {next} : buckets[s] = <<>>
    BY <1>1, <1>7 DEF Digested
  <2>3. FlattenSeq(buckets) = buckets[next]
    BY <1>2, <2>2, OnlyOneList
  <2>4. buckets'[next'] = <<>> \o todo'
    BY <1>1, <1>2, <2>3, NothingBehind
  <2>5. ~ abandoned => Ssdp(registry)' = Digest(ListedPackets' \o <<>>)
    BY <1>3, <1>5, <2>1, ListedIsSeq, NothingBehind
  <2>. QED
    BY <1>1, <1>4, <1>7, <2>2, <2>4, <2>5 DEF Digested, Searching, After
<1>. QED
  BY <1>6, <1>7

LEMMA DispatchKeepsDigest == ASSUME IInv, JInv, Digested, Dispatch PROVE Digested'
<1>1. /\ phase = "dispatch" /\ todo # <<>>
      /\ registry' = AnalyzeSsdp(registry, Head(todo)) /\ todo' = Tail(todo)
      /\ UNCHANGED <<phase, combined, next, buckets, results, abandoned>>
  BY DEF Dispatch
<1>2. todo \in Seq(Packet) /\ registry \in Registries
  BY DEF JInv, MoreTypes
<1>3. ListedPackets' = ListedPackets /\ ListedPackets \in Seq(Packet)
  BY <1>1, ListedIsSeq DEF ListedPackets
<1>4. ~ combined' /\ phase' \in {"receive", "dispatch"} =>
         \A s \in Search \ {next'} : buckets'[s] = <<>>
  BY <1>1 DEF Digested
<1>5. phase' \notin Searching \cup After
  BY <1>1 DEF Searching, After
<1>6. ASSUME ~ abandoned
      PROVE  \E done \in Seq(Packet) :
                IF combined'
                THEN /\ ListedPackets' = done \o todo'
                     /\ Ssdp(registry)' = Digest(done)
                ELSE /\ buckets'[next'] = done \o todo'
                     /\ Ssdp(registry)' = Digest(ListedPackets' \o done)
  <2>1. PICK done \in Seq(Packet) :
           IF combined
           THEN /\ ListedPackets = done \o todo
                /\ Ssdp(registry) = Digest(done)
           ELSE /\ buckets[next] = done \o todo
                /\ Ssdp(registry) = Digest(ListedPackets \o done)
    BY <1>1, <1>6 DEF Digested
  <2> DEFINE p == Head(todo)
             more == Append(done, p)
  <2>2. /\ p \in Packet /\ more \in Seq(Packet)
        /\ done \o todo = more \o todo'
    BY <1>1, <1>2, OneDispatched
  <2>3. /\ ListedPackets \o done \in Seq(Packet)
        /\ ListedPackets \o more = Append(ListedPackets \o done, p)
    BY <1>3, <2>2, AppendedBehind
  <2>4. Ssdp(registry)' = Ssdp(AnalyzeSsdp(registry, p))
    BY <1>1 DEF Ssdp
  <2> HIDE DEF p
  <2>5. CASE combined
    <3>1. Ssdp(registry)' = Digest(more)
      BY <1>2, <2>1, <2>2, <2>4, <2>5, DispatchDigests
    <3>2. ListedPackets' = more \o todo'
      BY <1>3, <2>1, <2>2, <2>5
    <3> HIDE DEF more
    <3>. QED
      BY <1>1, <2>2, <2>5, <3>1, <3>2
  <2>6. CASE ~ combined
    <3>1. Ssdp(registry)' = Digest(ListedPackets' \o more)
      BY <1>2, <1>3, <2>1, <2>2, <2>3, <2>4, <2>6, DispatchDigests
    <3>2. buckets'[next'] = more \o todo'
      BY <1>1, <2>1, <2>2, <2>6
    <3> HIDE DEF more
    <3>. QED
      BY <1>1, <2>2, <2>6, <3>1, <3>2
  <2>. QED
    BY <2>5, <2>6
<1>. QED
  BY <1>1, <1>4, <1>5, <1>6 DEF Digested

LEMMA DispatchDoneDigests == ASSUME IInv, Digested, DispatchDone PROVE Digested'
<1>1. /\ phase = "dispatch" /\ todo = <<>> /\ UNCHANGED <<registry, abandoned>>
  BY DEF DispatchDone
<1>2. buckets[next] \in Seq(Packet) /\ ListedPackets \in Seq(Packet)
  BY BucketsAreLists, ListedIsSeq
<1>3. CASE combined
  <2>1. phase' = "fetch" /\ UNCHANGED results /\ ListedPackets' = ListedPackets
    BY <1>3 DEF DispatchDone, Fetch, ListedPackets
  <2>2. ASSUME ~ abandoned PROVE Ssdp(registry) = Digest(ListedPackets)
    <3>1. PICK done \in Seq(Packet) :
             ListedPackets = done \o todo /\ Ssdp(registry) = Digest(done)
      BY <1>1, <1>3, <2>2 DEF Digested
    <3>. QED
      BY <1>1, <3>1, NothingBehind
  <2>. QED
    BY <1>1, <2>1, <2>2 DEF Digested, Ssdp
<1>4. CASE ~ combined
  <2>1. SearchDone(buckets[next])
    BY <1>4 DEF DispatchDone
  <2>2. ASSUME ~ abandoned PROVE Ssdp(registry) = Digest(ListedPackets \o buckets[next])
    <3>1. PICK done \in Seq(Packet) :
             buckets[next] = done \o todo /\ Ssdp(registry) = Digest(ListedPackets \o done)
      BY <1>1, <1>4, <2>2 DEF Digested
    <3>2. buckets[next] = done
      BY <1>1, <3>1, NothingBehind
    <3>. QED
      BY <3>1, <3>2
  <2>. QED
    BY <1>1, <1>2, <1>4, <2>1, <2>2, SearchDoneDigests
<1>. QED
  BY <1>3, <1>4

LEMMA AnalyzeDigests == ASSUME JInv, Digested, Analyze PROVE Digested'
<1>1. /\ phase = "analyze" /\ phase' = "fetch" /\ UNCHANGED <<results, abandoned>>
      /\ ListedPackets' = ListedPackets
  BY DEF Analyze, Advance, ListedPackets
<1>2. /\ registry \in Registries /\ registry' \in Registries
      /\ \A k \in DOMAIN registry' :
           \/ \E j \in DOMAIN registry : registry'[k] = registry[j]
           \/ registry'[k].source = "UPnP_XML"
      /\ \A j \in DOMAIN registry :
           \E k \in DOMAIN registry' :
              registry[j].source = "SSDP" => registry'[k] = registry[j]
  BY AnalyzeFacts DEF JInv, MoreTypes
<1>3. ASSUME NEW e \in Ssdp(registry)' PROVE e \in Ssdp(registry)
  <2>1. PICK k \in DOMAIN registry' : registry'[k] = e /\ e.source = "SSDP"
    BY DEF Ssdp, Range
  <2>2. PICK j \in DOMAIN registry : registry'[k] = registry[j]
    BY <1>2, <2>1
  <2>. QED
    BY <2>1, <2>2 DEF Ssdp, Range
<1>4. ASSUME NEW e \in Ssdp(registry) PROVE e \in Ssdp(registry)'
  <2>1. PICK j \in DOMAIN registry : registry[j] = e /\ e.source = "SSDP"
    BY DEF Ssdp, Range
  <2>2. PICK k \in DOMAIN registry' : registry'[k] = registry[j]
    BY <1>2, <2>1
  <2>. QED
    BY <2>1, <2>2 DEF Ssdp, Range
<1>5. Ssdp(registry)' = Ssdp(registry)
  BY <1>3, <1>4
<1>. QED
  BY <1>1, <1>5 DEF Digested, Searching, After

LEMMA StepDigests == ASSUME IInv, JInv, Digested, [Next]_vars PROVE Digested'
<1>1. CASE InitializeFails
  BY <1>1 DEF InitializeFails, Digested, Searching, After
<1>2. CASE Initialize
  <2>1. /\ UNCHANGED <<registry, results, abandoned>> /\ phase' = "send"
        /\ phase \in Searching \cup After
    BY <1>2 DEF Initialize, Searching
  <2>. QED
    BY <2>1, SameDigest
<1>3. CASE Send
  <2>1. /\ UNCHANGED <<registry, results, abandoned>> /\ phase' # "dispatch"
        /\ phase \in Searching \cup After
        /\ \A s \in Search : buckets'[s] = <<>>
    BY <1>3 DEF Send, Searching, NoPackets
  <2>. QED
    BY <2>1, SameDigest
<1>4. CASE CaptureFails
  BY <1>4 DEF CaptureFails, FallBack, Digested, Searching, After
<1>5. CASE BeginGet \/ Respond \/ GetFails \/ DownloadsDone
  <2>1. /\ UNCHANGED <<registry, results, abandoned>> /\ phase' \in After /\ phase \in After
    BY <1>5 DEF BeginGet, Respond, Follow, GetFails, Advance, DownloadsDone, After
  <2>2. phase' # "dispatch" /\ phase' # "receive"
    BY <2>1 DEF After
  <2>. QED
    BY <2>1, <2>2, SameDigest
<1>6. CASE Lose \/ UNCHANGED vars
  <2>1. UNCHANGED <<phase, combined, next, buckets, todo, results, registry, abandoned>>
    BY <1>6 DEF Lose, vars
  <2>2. ListedPackets' = ListedPackets
    BY <2>1 DEF ListedPackets
  <2>. QED
    BY <2>1, <2>2 DEF Digested, Ssdp
<1>. QED
  BY <1>1, <1>2, <1>3, <1>4, <1>5, <1>6, SearchFailsDigests, ReceiveDigests,
     WindowClosesDigests, DispatchKeepsDigest, DispatchDoneDigests, AnalyzeDigests DEF Next

LEMMA InitDigests == Init => Digested
<1> SUFFICES ASSUME Init PROVE Digested
  OBVIOUS
<1>1. phase = "init" /\ registry = <<>> /\ results = <<>>
  BY DEF Init
<1>2. ListedPackets = <<>>
  <2>1. [k \in DOMAIN results |-> results[k].packets] = <<>>
    BY <1>1
  <2>. QED
    BY <2>1 DEF ListedPackets, FlattenSeq
<1>. QED
  BY <1>1, <1>2, NothingIsDigested DEF Digested

\* However the searches fell back, failed, or read the answers of others, the
\* registry holds of each device at each address the last packet main listed,
\* and no other.
THEOREM AlwaysTheDigest == Spec => []RegistryIsTheDigest
<1>1. Init => Digested
  BY InitDigests
<1>2. IInv /\ JInv /\ Digested /\ [Next]_vars => Digested'
  BY StepDigests
<1>3. Digested => RegistryIsTheDigest
  <2> SUFFICES ASSUME Digested, Listed, ~ abandoned
               PROVE  Ssdp(registry) = Digest(ListedPackets)
    BY DEF RegistryIsTheDigest, Ssdp, Digest, Latest
  <2>. QED
    BY DEF Digested, Listed, After
<1>. QED
  BY <1>1, <1>2, <1>3, DownloadsInductive, PTL DEF Spec
=============================================================================
