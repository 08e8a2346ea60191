------------------------- MODULE DescriptionProofs -------------------------
(***************************************************************************)
(* What one answer of the network does to the registry, for every          *)
(* description, whatever of it came:                                       *)
(*                                                                         *)
(*  - Register keeps a registry free of doubles and keeps every key        *)
(*    (RegisterKeepsUnique, RegisterKeepsKeys); the snapshot of            *)
(*    ProcessPending has what is announced and undescribed (PendingFacts); *)
(*  - XmlAnalyzer finds no device that the description does not name,      *)
(*    wherever it was cut, and finds the root of one that was not          *)
(*    (AnalyzeXmlFacts, RootUdnIs);                                        *)
(*  - HttpClient takes for the body a beginning of what the server meant,  *)
(*    chunks put together, and all of it where all came (DecodesPrefix,    *)
(*    OutcomesFacts).                                                      *)
(***************************************************************************)
EXTENDS DeviceDescription, HttpClient, TLAPS

Unique(evidences) ==
    \A j, k \in DOMAIN evidences : SameKey(evidences[j], evidences[k]) => j = k

\* Where Register puts evidence whose key is known.
LEMMA KnownPlace ==
    ASSUME NEW evidences \in Seq(Evidence), Unique(evidences), NEW e,
           NEW k \in DOMAIN evidences, SameKey(evidences[k], e)
    PROVE  Register(evidences, e) = [evidences EXCEPT ![k] = e]
<1> DEFINE found == {i \in DOMAIN evidences : SameKey(evidences[i], e)}
<1>1. \A i \in found : i = k
  BY DEF Unique, SameKey
<1>2. found = {k}
  BY <1>1
<1>3. k <= k
  OBVIOUS
<1>4. (CHOOSE i \in found : \A j \in found : i <= j) = k
  BY <1>2, <1>3
<1>. QED
  BY <1>2, <1>4 DEF Register

LEMMA NewPlace ==
    ASSUME NEW evidences, NEW e,
           \A k \in DOMAIN evidences : ~ SameKey(evidences[k], e)
    PROVE  Register(evidences, e) = Append(evidences, e)
  BY DEF Register

\* The two cases of Register, position by position.
LEMMA RegisterCases ==
    ASSUME NEW evidences \in Seq(Evidence), Unique(evidences),
           NEW e \in Evidence
    PROVE  LET after == Register(evidences, e)
           IN /\ after \in Seq(Evidence)
              /\ \/ /\ \A k \in DOMAIN evidences : ~ SameKey(evidences[k], e)
                    /\ Len(after) = Len(evidences) + 1
                    /\ after[Len(evidences) + 1] = e
                    /\ \A k \in DOMAIN evidences : after[k] = evidences[k]
                 \/ \E i \in DOMAIN evidences :
                      /\ SameKey(evidences[i], e)
                      /\ Len(after) = Len(evidences)
                      /\ after[i] = e
                      /\ \A k \in DOMAIN evidences \ {i} : after[k] = evidences[k]
<1>1. CASE \E i \in DOMAIN evidences : SameKey(evidences[i], e)
  <2>1. PICK i \in DOMAIN evidences : SameKey(evidences[i], e)
    BY <1>1
  <2>2. Register(evidences, e) = [evidences EXCEPT ![i] = e]
    BY <2>1, KnownPlace
  <2>3. [evidences EXCEPT ![i] = e] \in Seq(Evidence)
    OBVIOUS
  <2>4. Len([evidences EXCEPT ![i] = e]) = Len(evidences)
    OBVIOUS
  <2>. QED
    BY <2>1, <2>2, <2>3, <2>4
<1>2. CASE \A i \in DOMAIN evidences : ~ SameKey(evidences[i], e)
  <2>1. Register(evidences, e) = Append(evidences, e)
    BY <1>2, NewPlace
  <2>. QED
    BY <1>2, <2>1
<1>. QED
  BY <1>1, <1>2

LEMMA RegisterType ==
    ASSUME NEW evidences \in Seq(Evidence), Unique(evidences),
           NEW e \in Evidence
    PROVE  Register(evidences, e) \in Seq(Evidence)
  BY RegisterCases

\* Every entry was there before or is the new one.
LEMMA RegisterAddsOne ==
    ASSUME NEW evidences \in Seq(Evidence), Unique(evidences),
           NEW e \in Evidence, NEW k \in DOMAIN Register(evidences, e)
    PROVE  \/ Register(evidences, e)[k] = e
           \/ k \in DOMAIN evidences /\ Register(evidences, e)[k] = evidences[k]
<1> DEFINE after == Register(evidences, e)
<1>1. /\ after \in Seq(Evidence)
      /\ \/ /\ Len(after) = Len(evidences) + 1
            /\ after[Len(evidences) + 1] = e
            /\ \A j \in DOMAIN evidences : after[j] = evidences[j]
         \/ \E i \in DOMAIN evidences :
              /\ Len(after) = Len(evidences)
              /\ after[i] = e
              /\ \A j \in DOMAIN evidences \ {i} : after[j] = evidences[j]
  BY RegisterCases
<1> HIDE DEF after
<1>2. Len(evidences) \in Nat /\ k \in 1 .. Len(after)
  BY <1>1 DEF after
<1>3. CASE /\ Len(after) = Len(evidences) + 1
           /\ after[Len(evidences) + 1] = e
           /\ \A j \in DOMAIN evidences : after[j] = evidences[j]
  <2>1. k \in DOMAIN evidences \/ k = Len(evidences) + 1
    BY <1>2, <1>3
  <2>. QED
    BY <1>3, <2>1 DEF after
<1>4. CASE \E i \in DOMAIN evidences :
              /\ Len(after) = Len(evidences)
              /\ after[i] = e
              /\ \A j \in DOMAIN evidences \ {i} : after[j] = evidences[j]
  <2>1. k \in DOMAIN evidences
    BY <1>2, <1>4
  <2>. QED
    BY <1>4, <2>1 DEF after
<1>. QED
  BY <1>1, <1>3, <1>4

\* The new evidence is there, and no key is lost.
LEMMA RegisterKeepsKeys ==
    ASSUME NEW evidences \in Seq(Evidence), Unique(evidences),
           NEW e \in Evidence
    PROVE  /\ \E k \in DOMAIN Register(evidences, e) :
                Register(evidences, e)[k] = e
           /\ \A j \in DOMAIN evidences :
                \E k \in DOMAIN Register(evidences, e) :
                    SameKey(Register(evidences, e)[k], evidences[j])
<1> DEFINE after == Register(evidences, e)
<1>1. CASE /\ Len(after) = Len(evidences) + 1
           /\ after[Len(evidences) + 1] = e
           /\ \A k \in DOMAIN evidences : after[k] = evidences[k]
  <2>1. after \in Seq(Evidence)
    BY RegisterType
  <2>2. Len(evidences) + 1 \in DOMAIN after
    BY <1>1, <2>1
  <2>3. \A j \in DOMAIN evidences : j \in DOMAIN after
    BY <1>1, <2>1
  <2>. QED
    BY <1>1, <2>2, <2>3 DEF SameKey
<1>2. ASSUME NEW i \in DOMAIN evidences,
             SameKey(evidences[i], e),
             Len(after) = Len(evidences),
             after[i] = e,
             \A k \in DOMAIN evidences \ {i} : after[k] = evidences[k]
      PROVE  /\ \E k \in DOMAIN after : after[k] = e
             /\ \A j \in DOMAIN evidences :
                  \E k \in DOMAIN after : SameKey(after[k], evidences[j])
  <2>1. after \in Seq(Evidence)
    BY RegisterType
  <2>2. DOMAIN after = DOMAIN evidences
    BY <1>2, <2>1
  <2>3. \A j \in DOMAIN evidences : SameKey(after[j], evidences[j])
    BY <1>2 DEF SameKey
  <2>. QED
    BY <1>2, <2>2, <2>3
<1>. QED
  BY <1>1, <1>2, RegisterCases

LEMMA RegisterKeepsUnique ==
    ASSUME NEW evidences \in Seq(Evidence), Unique(evidences),
           NEW e \in Evidence
    PROVE  Unique(Register(evidences, e))
<1> DEFINE after == Register(evidences, e)
<1>0. after \in Seq(Evidence)
  BY RegisterType
<1>1. CASE /\ \A k \in DOMAIN evidences : ~ SameKey(evidences[k], e)
           /\ Len(after) = Len(evidences) + 1
           /\ after[Len(evidences) + 1] = e
           /\ \A k \in DOMAIN evidences : after[k] = evidences[k]
  <2>1. \A k \in DOMAIN after :
            k \in DOMAIN evidences \/ k = Len(evidences) + 1
    BY <1>0, <1>1
  <2>. QED
    BY <1>1, <2>1 DEF Unique, SameKey
<1>2. ASSUME NEW i \in DOMAIN evidences,
             SameKey(evidences[i], e),
             Len(after) = Len(evidences),
             after[i] = e,
             \A k \in DOMAIN evidences \ {i} : after[k] = evidences[k]
      PROVE  Unique(after)
  <2>1. DOMAIN after = DOMAIN evidences
    BY <1>0, <1>2
  <2>2. \A j \in DOMAIN evidences : SameKey(after[j], evidences[j])
    BY <1>2 DEF SameKey
  <2>. QED
    BY <2>1, <2>2 DEF Unique, SameKey
<1>. QED
  BY <1>1, <1>2, RegisterCases

-----------------------------------------------------------------------------
(* Analyze.                                                                *)

LEMMA SsdpEvidenceType ==
    ASSUME NEW p \in Packet, IsEvidence(p)
    PROVE  SsdpEvidence(p) \in Evidence
  BY DEF IsEvidence, SsdpEvidence, Packet, Evidence

\* The registry after the analysis of a packet.
LEMMA AnalyzeSsdpFacts ==
    ASSUME NEW evidences \in Seq(Evidence), Unique(evidences), NEW p \in Packet
    PROVE  LET after == AnalyzeSsdp(evidences, p)
           IN /\ after \in Seq(Evidence)
              /\ Unique(after)
              /\ \A k \in DOMAIN after :
                   \/ IsEvidence(p) /\ after[k] = SsdpEvidence(p)
                   \/ k \in DOMAIN evidences /\ after[k] = evidences[k]
              /\ IsEvidence(p) => \E k \in DOMAIN after : after[k] = SsdpEvidence(p)
              /\ \A j \in DOMAIN evidences :
                   \E k \in DOMAIN after : SameKey(after[k], evidences[j])
<1>1. CASE IsEvidence(p)
  <2>1. AnalyzeSsdp(evidences, p) = Register(evidences, SsdpEvidence(p))
    BY <1>1 DEF AnalyzeSsdp
  <2>2. SsdpEvidence(p) \in Evidence
    BY <1>1, SsdpEvidenceType
  <2> DEFINE e == SsdpEvidence(p)
             after == Register(evidences, e)
  <2> HIDE DEF e
  <2>3. after \in Seq(Evidence) /\ Unique(after)
    BY <2>2, RegisterType, RegisterKeepsUnique DEF e
  <2>4. \A k \in DOMAIN after :
            after[k] = e \/ (k \in DOMAIN evidences /\ after[k] = evidences[k])
    BY <2>2, RegisterAddsOne DEF e
  <2>5. /\ \E k \in DOMAIN after : after[k] = e
        /\ \A j \in DOMAIN evidences :
             \E k \in DOMAIN after : SameKey(after[k], evidences[j])
    BY <2>2, RegisterKeepsKeys DEF e
  <2> HIDE DEF after
  <2>. QED
    BY <1>1, <2>1, <2>3, <2>4, <2>5 DEF e, after
<1>2. CASE ~ IsEvidence(p)
  <2>1. AnalyzeSsdp(evidences, p) = evidences
    BY <1>2 DEF AnalyzeSsdp
  <2>. QED
    BY <1>2, <2>1 DEF SameKey
<1>. QED
  BY <1>1, <1>2

-----------------------------------------------------------------------------
(* GetEvidencePendingDescription.                                          *)

Collecting == INSTANCE Folding WITH
    Op <- AddPending, Element <- Evidence, Value <- Seq({e \in Evidence : IsPending(e)})

LEMMA CollectingClosed == Collecting!Closed
  BY DEF Collecting!Closed, AddPending

LEMMA PendingFolds ==
    \A evidences : Pending(evidences) = Collecting!Fold(<<>>, evidences)
  BY DEF Pending, Collecting!Fold, FoldLeft, Collecting!FoldLeft,
         MapThenFoldSet, Collecting!MapThenFoldSet, Max, Collecting!Max

\* Whatever evidence is pending is on the list, and nothing else is.
LEMMA PendingFacts ==
    ASSUME NEW evidences \in Seq(Evidence)
    PROVE  /\ Pending(evidences) \in Seq({e \in Evidence : IsPending(e)})
           /\ \A k \in DOMAIN evidences :
                IsPending(evidences[k]) =>
                    \E j \in DOMAIN Pending(evidences) :
                        Pending(evidences)[j] = evidences[k]
<1> DEFINE Lists == Seq({e \in Evidence : IsPending(e)})
           n == Len(evidences)
           Has(list, k) == \E j \in DOMAIN list : list[j] = evidences[k]
<1>0. n \in Nat /\ DOMAIN evidences = 1 .. n /\ <<>> \in Lists
  OBVIOUS
<1>1. PICK h \in [0 .. n -> Lists] :
         /\ \A k \in 1 .. n : h[k] = AddPending(h[k - 1], evidences[k])
         /\ h[n] = Pending(evidences)
  BY <1>0, CollectingClosed, Collecting!FoldSteps, PendingFolds
<1> DEFINE Listed(m) == \A k \in 1 .. m : IsPending(evidences[k]) => Has(h[m], k)
           T == {m \in Nat : m <= n => Listed(m)}
<1>2. ASSUME NEW m \in Nat, m + 1 <= n, Listed(m) PROVE Listed(m + 1)
  <2>1. /\ m \in 0 .. n /\ m + 1 \in 1 .. n /\ m + 1 - 1 = m
        /\ h[m] \in Lists /\ h[m + 1] \in Lists
    BY <1>0, <1>2
  <2>2. h[m + 1] = AddPending(h[m], evidences[m + 1])
    BY <1>1, <2>1
  <2>3. ASSUME NEW k \in 1 .. m + 1, IsPending(evidences[k]) PROVE Has(h[m + 1], k)
    <3>1. CASE k = m + 1
      <4>1. h[m + 1] = Append(h[m], evidences[k])
        BY <2>2, <2>3, <3>1 DEF AddPending
      <4>2. Len(h[m]) + 1 \in DOMAIN h[m + 1] /\ h[m + 1][Len(h[m]) + 1] = evidences[k]
        BY <2>1, <4>1
      <4>. QED
        BY <4>2
    <3>2. CASE k # m + 1
      <4>1. PICK j \in DOMAIN h[m] : h[m][j] = evidences[k]
        BY <1>2, <2>3, <3>2
      <4>2. h[m + 1] = h[m] \/ h[m + 1] = Append(h[m], evidences[m + 1])
        BY <2>2 DEF AddPending
      <4>3. j \in DOMAIN h[m + 1] /\ h[m + 1][j] = h[m][j]
        <5> DEFINE old == h[m]
        <5>1. old \in Seq(Evidence) /\ j \in DOMAIN old /\ evidences[m + 1] \in Evidence
          BY <1>2, <2>1, <4>1
        <5> HIDE DEF old
        <5>2. /\ j \in DOMAIN Append(old, evidences[m + 1])
              /\ Append(old, evidences[m + 1])[j] = old[j]
          BY <5>1
        <5>. QED
          BY <4>2, <5>1, <5>2 DEF old
      <4>. QED
        BY <4>1, <4>3
    <3>. QED
      BY <3>1, <3>2
  <2>. QED
    BY <2>3
<1>3. 0 \in T
  OBVIOUS
<1> HIDE DEF Listed
<1>4. \A m \in T : m + 1 \in T
  <2> SUFFICES ASSUME NEW m \in T, m + 1 <= n PROVE Listed(m + 1)
    OBVIOUS
  <2>1. m \in Nat /\ m <= n
    BY <1>0
  <2>. QED
    BY <1>2, <2>1
<1>5. T = Nat
  <2>1. T \in SUBSET Nat
    OBVIOUS
  <2> HIDE DEF T
  <2>. QED
    BY <1>3, <1>4, <2>1, Collecting!SetInduction
<1>6. Listed(n)
  BY <1>0, <1>5
<1>7. Pending(evidences) \in Lists
  BY <1>0, <1>1
<1>. QED
  BY <1>0, <1>1, <1>6, <1>7 DEF Listed

-----------------------------------------------------------------------------
(* What a description holds.                                               *)

\* The tokens of descriptions of devices with these UDNs and icon lists.
TokensOf(names) ==
    [mark : {"open", "close"}, tag : {"device", "deviceList"}]
    \cup [mark : {"leaf"}, tag : {"friendlyName"}, text : {"name"}]
    \cup [mark : {"leaf"}, tag : {"UDN"}, text : names.uuids]
    \cup [mark : {"leaf"}, tag : {"iconList"}, text : names.icons]
    \cup [mark : {"leaf"}, tag : {"serviceList"}, text : SUBSET Service]

\* The UDNs and the icon lists of a root device and its embedded devices.
Names(root, embedded) ==
    [uuids |-> ({root.uuid} \cup {d.uuid : d \in Range(embedded)}) \ {NoUuid},
     icons |-> {root.icons} \cup {d.icons : d \in Range(embedded)}]

\* Folding's facts on FlattenSeq.
LEMMA FlattenSteps ==
    ASSUME NEW S, NEW ss \in Seq(Seq(S))
    PROVE  \E f \in [0 .. Len(ss) -> Seq(S)] :
             /\ f[0] = <<>>
             /\ \A k \in 1 .. Len(ss) : f[k] = f[k - 1] \o ss[k]
             /\ f[Len(ss)] = FlattenSeq(ss)
<1>1. FlattenSeq(ss) = Collecting!FlattenSeq(ss)
  BY DEF FlattenSeq, Collecting!FlattenSeq
<1>. QED
  BY <1>1, Collecting!FlattenSteps

LEMMA FlattenType ==
    ASSUME NEW S, NEW ss \in Seq(Seq(S))
    PROVE  FlattenSeq(ss) \in Seq(S)
<1>1. PICK f \in [0 .. Len(ss) -> Seq(S)] : f[Len(ss)] = FlattenSeq(ss)
  BY FlattenSteps
<1>2. Len(ss) \in 0 .. Len(ss)
  OBVIOUS
<1>. QED
  BY <1>1, <1>2

LEMMA DeviceTokensType ==
    ASSUME NEW names, NEW node \in Node, node.uuid # NoUuid => node.uuid \in names.uuids,
           node.icons \in names.icons,
           NEW inner \in Seq(TokensOf(names))
    PROVE  DeviceTokens(node, inner) \in Seq(TokensOf(names))
<1> DEFINE Tokens == TokensOf(names)
           name == IF node.named THEN <<Leaf("friendlyName", "name")>> ELSE <<>>
           udn == IF node.uuid = NoUuid THEN <<>> ELSE <<Leaf("UDN", node.uuid)>>
           icons == IF node.icons = "none" THEN <<>> ELSE <<Leaf("iconList", node.icons)>>
           services == IF node.services = {} THEN <<>>
                       ELSE <<Leaf("serviceList", node.services)>>
<1>1. OpenTag("device") \in Tokens /\ CloseTag("device") \in Tokens
  BY DEF OpenTag, CloseTag, TokensOf
<1>2. Leaf("friendlyName", "name") \in Tokens
  BY DEF Leaf, TokensOf
<1>3. node.uuid # NoUuid => Leaf("UDN", node.uuid) \in Tokens
  BY DEF Leaf, TokensOf
<1>4. Leaf("serviceList", node.services) \in Tokens /\ Leaf("iconList", node.icons) \in Tokens
  BY DEF Leaf, TokensOf, Node
<1> HIDE DEF Tokens
<1>5. /\ name \in Seq(Tokens) /\ udn \in Seq(Tokens)
      /\ icons \in Seq(Tokens) /\ services \in Seq(Tokens)
  <2>1. name \in Seq(Tokens)
    BY <1>2
  <2>2. udn \in Seq(Tokens)
    BY <1>3
  <2>3. services \in Seq(Tokens) /\ icons \in Seq(Tokens)
    BY <1>4
  <2>. QED
    BY <2>1, <2>2, <2>3
<1>6. <<OpenTag("device")>> \in Seq(Tokens) /\ <<CloseTag("device")>> \in Seq(Tokens)
  BY <1>1
<1> HIDE DEF name, udn, icons, services
<1>7. inner \in Seq(Tokens)
  BY DEF Tokens
<1>8. <<OpenTag("device")>> \o name \o udn \o icons \o services \o inner
          \o <<CloseTag("device")>> \in Seq(Tokens)
  BY <1>5, <1>6, <1>7
<1>. QED
  BY <1>8 DEF DeviceTokens, Tokens, name, udn, icons, services

LEMMA InnerType ==
    ASSUME NEW root \in Node, NEW embedded \in Seq(Node)
    PROVE  (IF embedded = <<>> THEN <<>>
            ELSE <<OpenTag("deviceList")>>
                 \o FlattenSeq([k \in DOMAIN embedded |->
                                    DeviceTokens(embedded[k], <<>>)])
                 \o <<CloseTag("deviceList")>>)
               \in Seq(TokensOf(Names(root, embedded)))
<1> DEFINE names == Names(root, embedded)
           Tokens == TokensOf(names)
           list == [k \in DOMAIN embedded |-> DeviceTokens(embedded[k], <<>>)]
<1>1. \A k \in DOMAIN embedded :
          /\ embedded[k].uuid # NoUuid => embedded[k].uuid \in names.uuids
          /\ embedded[k].icons \in names.icons
  BY DEF Names, Range
<1>2. list \in Seq(Seq(Tokens))
  <2>1. \A k \in DOMAIN embedded : list[k] \in Seq(Tokens)
    <3> TAKE k \in DOMAIN embedded
    <3>1. embedded[k] \in Node /\ <<>> \in Seq(TokensOf(names))
      OBVIOUS
    <3> HIDE DEF names
    <3>2. DeviceTokens(embedded[k], <<>>) \in Seq(TokensOf(names))
      BY <1>1, <3>1, DeviceTokensType
    <3>. QED
      BY <3>2
  <2>2. DOMAIN list = 1 .. Len(embedded) /\ Len(embedded) \in Nat
    OBVIOUS
  <2>3. list = [k \in 1 .. Len(embedded) |-> list[k]]
    BY <2>2
  <2> DEFINE Lists == Seq(Tokens)
             n == Len(embedded)
  <2>. n \in Nat /\ DOMAIN list = 1 .. n
    BY <2>2
  <2>. \A k \in 1 .. n : list[k] \in Lists
    BY <2>1, <2>2
  <2>. list = [k \in 1 .. n |-> list[k]]
    BY <2>3
  <2> HIDE DEF list, Lists, n
  <2>4. list \in [1 .. n -> Lists]
    OBVIOUS
  <2>5. list \in Seq(Lists)
    BY <2>4
  <2>. QED
    BY <2>5 DEF Lists
<1>3. <<OpenTag("deviceList")>> \in Seq(Tokens) /\ <<CloseTag("deviceList")>> \in Seq(Tokens)
  BY DEF OpenTag, CloseTag, TokensOf
<1>4. <<>> \in Seq(Tokens)
  OBVIOUS
<1> HIDE DEF list, Tokens
<1>5. FlattenSeq(list) \in Seq(Tokens)
  BY <1>2, FlattenType
<1>6. (IF embedded = <<>> THEN <<>>
       ELSE <<OpenTag("deviceList")>> \o FlattenSeq(list) \o <<CloseTag("deviceList")>>)
          \in Seq(Tokens)
  BY <1>3, <1>4, <1>5
<1>. QED
  BY <1>6 DEF list, Tokens

LEMMA DescriptionType ==
    ASSUME NEW root \in Node, NEW embedded \in Seq(Node)
    PROVE  Description(root, embedded) \in Seq(TokensOf(Names(root, embedded)))
<1> DEFINE names == Names(root, embedded)
           inner == IF embedded = <<>> THEN <<>>
                    ELSE <<OpenTag("deviceList")>>
                         \o FlattenSeq([k \in DOMAIN embedded |->
                                            DeviceTokens(embedded[k], <<>>)])
                         \o <<CloseTag("deviceList")>>
<1>1. (root.uuid # NoUuid => root.uuid \in names.uuids) /\ root.icons \in names.icons
  BY DEF Names
<1>2. inner \in Seq(TokensOf(names))
  BY InnerType
<1> HIDE DEF inner, names
<1>3. DeviceTokens(root, inner) \in Seq(TokensOf(names))
  BY <1>1, <1>2, DeviceTokensType
<1>. QED
  BY <1>3 DEF Description, inner, names

-----------------------------------------------------------------------------
(* Elements.                                                               *)

LEMMA FindFacts ==
    ASSUME NEW S, NEW xml \in Seq(S), NEW token, NEW from,
           Positions(xml, token, from) # {}
    PROVE  /\ Find(xml, token, from) \in Positions(xml, token, from)
           /\ \A j \in Positions(xml, token, from) : Find(xml, token, from) <= j
<1>1. Positions(xml, token, from) \in SUBSET Nat
  BY DEF Positions
<1>. QED
  BY <1>1, Collecting!LeastNumber DEF Find

\* The text of an element.
Inside(xml, tag, from) ==
    SubSeq(xml, ContentStart(xml, tag, from), ElementEnd(xml, tag, from) - 1)

LEMMA ElementPlace ==
    ASSUME NEW S, NEW xml \in Seq(S), NEW tag, NEW from \in Nat, 
           HasElement(xml, tag, from)
    PROVE  /\ ContentStart(xml, tag, from) \in 2 .. Len(xml) + 1
           /\ from < ContentStart(xml, tag, from)
           /\ ElementEnd(xml, tag, from) \in ContentStart(xml, tag, from) .. Len(xml)
<1> DEFINE open == Find(xml, OpenTag(tag), from)
           start == ContentStart(xml, tag, from)
<1>0. DOMAIN xml = 1 .. Len(xml) /\ Len(xml) \in Nat
  OBVIOUS
<1>1. open \in Positions(xml, OpenTag(tag), from)
  BY FindFacts DEF HasElement
<1>2. open \in 1 .. Len(xml) /\ open >= from /\ xml[open] = OpenTag(tag)
  BY <1>0, <1>1 DEF Positions
<1>3. start = open + 1
  BY DEF ContentStart
<1>4. Positions(xml, CloseTag(tag), start) = Positions(xml, CloseTag(tag), open)
  <2>1. xml[open] # CloseTag(tag)
    BY <1>2 DEF OpenTag, CloseTag
  <2> HIDE DEF open, start
  <2>. QED
    BY <1>0, <1>2, <1>3, <2>1 DEF Positions
<1>5. Positions(xml, CloseTag(tag), start) # {}
  BY <1>4 DEF HasElement
<1>6. ElementEnd(xml, tag, from) \in Positions(xml, CloseTag(tag), start)
  BY <1>5, FindFacts DEF ElementEnd
<1> HIDE DEF open, start
<1>7. ElementEnd(xml, tag, from) \in 1 .. Len(xml) /\ ElementEnd(xml, tag, from) >= start
  BY <1>0, <1>6 DEF Positions
<1>. QED
  BY <1>0, <1>2, <1>3, <1>7 DEF start

LEMMA InsideType ==
    ASSUME NEW S, NEW xml \in Seq(S), NEW tag, NEW from \in Nat, 
           HasElement(xml, tag, from)
    PROVE  Inside(xml, tag, from) \in Seq(S)
<1> DEFINE a == ContentStart(xml, tag, from)
           b == ElementEnd(xml, tag, from)
<1>1. a \in 2 .. Len(xml) + 1 /\ b \in a .. Len(xml) /\ Len(xml) \in Nat
  BY ElementPlace
<1> HIDE DEF a, b
<1>2. \A i \in a .. b - 1 : i \in 1 .. Len(xml)
  BY <1>1
<1>3. SubSeq(xml, a, b - 1) \in Seq(S)
  BY <1>1, <1>2
<1>. QED
  BY <1>3 DEF Inside, a, b

LEMMA ExtractElementType ==
    ASSUME NEW S, NEW xml \in Seq(S), NEW tag
    PROVE  ExtractElement(xml, tag) \in Seq(S)
<1>1. CASE HasElement(xml, tag, 1)
  BY <1>1, InsideType DEF ExtractElement, Inside
<1>2. CASE ~ HasElement(xml, tag, 1)
  BY <1>2 DEF ExtractElement
<1>. QED
  BY <1>1, <1>2

\* The equation of the function in ExtractElements, at a position.
ExtractsAt(g, xml, tag, p) ==
    g[p] = IF HasElement(xml, tag, p)
           THEN <<SubSeq(xml, ContentStart(xml, tag, p), ElementEnd(xml, tag, p) - 1)>>
                   \o g[ElementEnd(xml, tag, p) + 1]
           ELSE <<>>

LEMMA ExtractsExists ==
    ASSUME NEW S, NEW xml \in Seq(S), NEW tag
    PROVE  \E g \in [1 .. Len(xml) + 1 -> Seq(Seq(S))] :
              \A p \in 1 .. Len(xml) + 1 : ExtractsAt(g, xml, tag, p)
<1> DEFINE L == Len(xml) + 1
           Functions == [1 .. L -> Seq(Seq(S))]
           Exists(n) == \E g \in Functions :
                           \A p \in 1 .. L : p + n > L => ExtractsAt(g, xml, tag, p)
           T == {n \in Nat : Exists(n)}
<1>0. L \in Nat /\ L >= 1
  OBVIOUS
<1>1. Exists(0)
  <2>1. [p \in 1 .. L |-> <<>>] \in Functions
    OBVIOUS
  <2> HIDE DEF L, Functions
  <2>. QED
    BY <1>0, <2>1
<1>2. ASSUME NEW n \in Nat, Exists(n) PROVE Exists(n + 1)
  <2>1. PICK g \in Functions :
           \A p \in 1 .. L : p + n > L => ExtractsAt(g, xml, tag, p)
    BY <1>2
  <2> DEFINE At(p) == IF HasElement(xml, tag, p)
                      THEN <<Inside(xml, tag, p)>> \o g[ElementEnd(xml, tag, p) + 1]
                      ELSE <<>>
             h == [p \in 1 .. L |-> IF p + n > L THEN g[p] ELSE At(p)]
  <2>2. ASSUME NEW p \in 1 .. L, HasElement(xml, tag, p)
        PROVE  /\ ElementEnd(xml, tag, p) + 1 \in 1 .. L
               /\ ElementEnd(xml, tag, p) + 1 > p
    BY <2>2, ElementPlace
  <2> HIDE DEF L
  <2>3. \A p \in 1 .. L : At(p) \in Seq(Seq(S))
    <3> TAKE p \in 1 .. L
    <3>1. CASE HasElement(xml, tag, p)
      <4>1. Inside(xml, tag, p) \in Seq(S)
        BY <1>0, <3>1, InsideType
      <4>2. g[ElementEnd(xml, tag, p) + 1] \in Seq(Seq(S))
        BY <2>2, <3>1
      <4>. QED
        BY <3>1, <4>1, <4>2
    <3>2. CASE ~ HasElement(xml, tag, p)
      BY <3>2
    <3>. QED
      BY <3>1, <3>2
  <2> HIDE DEF At
  <2>4. h \in Functions
    BY <2>3
  <2>5. ASSUME NEW p \in 1 .. L, p + (n + 1) > L PROVE ExtractsAt(h, xml, tag, p)
    <3>1. h[p] = IF HasElement(xml, tag, p)
                 THEN <<Inside(xml, tag, p)>> \o g[ElementEnd(xml, tag, p) + 1]
                 ELSE <<>>
      BY <2>1 DEF ExtractsAt, At, Inside
    <3>2. HasElement(xml, tag, p)
            => h[ElementEnd(xml, tag, p) + 1] = g[ElementEnd(xml, tag, p) + 1]
      <4> SUFFICES ASSUME HasElement(xml, tag, p)
                   PROVE  h[ElementEnd(xml, tag, p) + 1] = g[ElementEnd(xml, tag, p) + 1]
        OBVIOUS
      <4> DEFINE q == ElementEnd(xml, tag, p) + 1
      <4>1. q \in 1 .. L /\ q > p
        BY <2>2
      <4> HIDE DEF q
      <4>2. q + n > L
        BY <1>0, <2>5, <4>1
      <4>3. h[q] = g[q]
        BY <4>1, <4>2
      <4>. QED
        BY <4>3 DEF q
    <3> HIDE DEF h
    <3>. QED
      BY <3>1, <3>2 DEF ExtractsAt, Inside
  <2> HIDE DEF h
  <2>. QED
    BY <2>4, <2>5
<1> HIDE DEF Exists
<1>3. T \in SUBSET Nat /\ 0 \in T /\ \A n \in T : n + 1 \in T
  BY <1>1, <1>2
<1>4. T = Nat
  <2> HIDE DEF T
  <2>. QED
    BY <1>3, Collecting!SetInduction
<1>5. Exists(L)
  BY <1>0, <1>4
<1>. QED
  BY <1>0, <1>5 DEF Exists

LEMMA ExtractElementsType ==
    ASSUME NEW S, NEW xml \in Seq(S), NEW tag
    PROVE  ExtractElements(xml, tag) \in Seq(Seq(S))
<1> DEFINE L == Len(xml) + 1
           Is(g) == g = [p \in 1 .. L |->
                           IF HasElement(xml, tag, p)
                           THEN <<SubSeq(xml, ContentStart(xml, tag, p),
                                         ElementEnd(xml, tag, p) - 1)>>
                                   \o g[ElementEnd(xml, tag, p) + 1]
                           ELSE <<>>]
           from == CHOOSE g : Is(g)
           T == {n \in Nat : \A p \in 1 .. L : p + n > L => from[p] \in Seq(Seq(S))}
<1>0. L \in Nat /\ L >= 1
  OBVIOUS
<1>1. \E g : Is(g)
  <2>1. PICK g \in [1 .. L -> Seq(Seq(S))] :
           \A p \in 1 .. L : ExtractsAt(g, xml, tag, p)
    BY ExtractsExists
  <2>2. g = [p \in 1 .. L |-> g[p]]
    OBVIOUS
  <2>3. Is(g)
    BY <2>1, <2>2 DEF ExtractsAt
  <2>. QED
    BY <2>3
<1>2. Is(from)
  BY <1>1
<1>3. ExtractElements(xml, tag) = from[1]
  BY DEF ExtractElements
<1> HIDE DEF from
<1>4. \A p \in 1 .. L : ExtractsAt(from, xml, tag, p)
  BY <1>2 DEF ExtractsAt
<1> HIDE DEF Is
<1>5. T \in SUBSET Nat /\ 0 \in T
  BY <1>0
<1>6. \A n \in T : n + 1 \in T
  <2> SUFFICES ASSUME NEW n \in T PROVE n + 1 \in T
    OBVIOUS
  <2> SUFFICES ASSUME NEW p \in 1 .. L, p + (n + 1) > L
               PROVE  from[p] \in Seq(Seq(S))
    OBVIOUS
  <2>0. n \in Nat /\ \A q \in 1 .. L : q + n > L => from[q] \in Seq(Seq(S))
    OBVIOUS
  <2>1. CASE HasElement(xml, tag, p)
    <3> DEFINE q == ElementEnd(xml, tag, p) + 1
    <3>1. q \in 1 .. L /\ q > p
      BY <2>1, ElementPlace
    <3>2. from[p] = <<Inside(xml, tag, p)>> \o from[q]
      BY <1>4, <2>1 DEF ExtractsAt, Inside
    <3>3. Inside(xml, tag, p) \in Seq(S)
      BY <1>0, <2>1, InsideType
    <3> HIDE DEF q, L
    <3>4. from[q] \in Seq(Seq(S))
      BY <1>0, <2>0, <3>1
    <3>. QED
      BY <3>2, <3>3, <3>4
  <2>2. CASE ~ HasElement(xml, tag, p)
    <3>1. from[p] = <<>>
      BY <1>4, <2>2 DEF ExtractsAt
    <3>. QED
      BY <3>1
  <2>. QED
    BY <2>1, <2>2
<1>7. T = Nat
  <2> HIDE DEF T
  <2>. QED
    BY <1>5, <1>6, Collecting!SetInduction
<1>8. from[1] \in Seq(Seq(S))
  BY <1>0, <1>7
<1>. QED
  BY <1>3, <1>8

-----------------------------------------------------------------------------
(* XmlAnalyzer.                                                            *)

\* What may be left of a description: its tokens, and where it was cut, a
\* fragment.
PartsOf(names) == TokensOf(names) \cup {Fragment}

\* What ParseDeviceNode may find in it.
NodesOf(names) ==
    [uuid     : names.uuids \cup {NoUuid}, named : BOOLEAN,
     icons    : names.icons \cup {"none"}, services : SUBSET Service]

LEMMA TextFacts ==
    ASSUME NEW S, NEW xml \in Seq(S), NEW tag, NEW none,
           ExtractText(xml, tag, none) # none
    PROVE  \E k \in DOMAIN xml : /\ xml[k].mark = "leaf" /\ xml[k].tag = tag
                                 /\ ExtractText(xml, tag, none) = xml[k].text
<1> DEFINE there == {k \in DOMAIN xml : xml[k].mark = "leaf" /\ xml[k].tag = tag}
           first == CHOOSE k \in there : \A j \in there : k <= j
<1>1. there # {}
  BY DEF ExtractText
<1>2. there \in SUBSET Nat
  OBVIOUS
<1>3. first \in there
  <2> HIDE DEF there
  <2>. QED
    BY <1>1, <1>2, Collecting!LeastNumber
<1>4. ExtractText(xml, tag, none) = xml[first].text
  BY <1>1 DEF ExtractText
<1>. QED
  BY <1>3, <1>4

LEMMA LeafFacts ==
    ASSUME NEW names, NEW t \in PartsOf(names), t.mark = "leaf"
    PROVE  /\ t.tag = "UDN" => t.text \in names.uuids
           /\ t.tag = "iconList" => t.text \in names.icons
           /\ t.tag = "serviceList" => t.text \in SUBSET Service
<1>1. t # Fragment
  BY DEF Fragment
<1>2. CASE t \in [mark : {"open", "close"}, tag : {"device", "deviceList"}]
  BY <1>2
<1>3. CASE t \in [mark : {"leaf"}, tag : {"friendlyName"}, text : {"name"}]
  BY <1>3
<1>4. CASE t \in [mark : {"leaf"}, tag : {"UDN"}, text : names.uuids]
  BY <1>4
<1>6. CASE t \in [mark : {"leaf"}, tag : {"iconList"}, text : names.icons]
  BY <1>6
<1>5. CASE t \in [mark : {"leaf"}, tag : {"serviceList"}, text : SUBSET Service]
  BY <1>5
<1>. QED
  BY <1>1, <1>2, <1>3, <1>4, <1>5, <1>6 DEF PartsOf, TokensOf

LEMMA ParseType ==
    ASSUME NEW names, NEW xml \in Seq(PartsOf(names))
    PROVE  ParseDeviceNode(xml) \in NodesOf(names)
<1>1. ExtractText(xml, "UDN", NoUuid) \in names.uuids \cup {NoUuid}
  <2> SUFFICES ASSUME ExtractText(xml, "UDN", NoUuid) # NoUuid
               PROVE  ExtractText(xml, "UDN", NoUuid) \in names.uuids
    OBVIOUS
  <2>1. PICK k \in DOMAIN xml : /\ xml[k].mark = "leaf" /\ xml[k].tag = "UDN"
                                /\ ExtractText(xml, "UDN", NoUuid) = xml[k].text
    BY TextFacts
  <2>2. xml[k] \in PartsOf(names)
    OBVIOUS
  <2>. QED
    BY <2>1, <2>2, LeafFacts
<1>2. ExtractText(xml, "serviceList", {}) \in SUBSET Service
  <2> SUFFICES ASSUME ExtractText(xml, "serviceList", {}) # {}
               PROVE  ExtractText(xml, "serviceList", {}) \in SUBSET Service
    OBVIOUS
  <2>1. PICK k \in DOMAIN xml : /\ xml[k].mark = "leaf" /\ xml[k].tag = "serviceList"
                                /\ ExtractText(xml, "serviceList", {}) = xml[k].text
    BY TextFacts
  <2>2. xml[k] \in PartsOf(names)
    OBVIOUS
  <2>. QED
    BY <2>1, <2>2, LeafFacts
<1>3. (ExtractText(xml, "friendlyName", "none") # "none") \in BOOLEAN
  OBVIOUS
<1>4. ExtractText(xml, "iconList", "none") \in names.icons \cup {"none"}
  <2> SUFFICES ASSUME ExtractText(xml, "iconList", "none") # "none"
               PROVE  ExtractText(xml, "iconList", "none") \in names.icons
    OBVIOUS
  <2>1. PICK k \in DOMAIN xml : /\ xml[k].mark = "leaf" /\ xml[k].tag = "iconList"
                                /\ ExtractText(xml, "iconList", "none") = xml[k].text
    BY TextFacts
  <2>2. xml[k] \in PartsOf(names)
    OBVIOUS
  <2>. QED
    BY <2>1, <2>2, LeafFacts
<1>. QED
  BY <1>1, <1>2, <1>3, <1>4 DEF ParseDeviceNode, NodesOf

LEMMA EmbeddedType ==
    ASSUME NEW names, NEW rootXml \in Seq(PartsOf(names))
    PROVE  EmbeddedDevices(rootXml) \in Seq(NodesOf(names))
<1> DEFINE Parts == PartsOf(names)
           Nodes == NodesOf(names)
           inner == ExtractElement(rootXml, "deviceList")
           list == ExtractElements(inner, "device")
<1>1. list \in Seq(Seq(Parts))
  <2> HIDE DEF Parts, inner
  <2>1. rootXml \in Seq(Parts)
    BY DEF Parts
  <2>2. inner \in Seq(Parts)
    BY <2>1, ExtractElementType DEF inner
  <2>. QED
    BY <2>2, ExtractElementsType
<1> HIDE DEF list
<1>2. \A k \in DOMAIN list : ParseDeviceNode(list[k]) \in Nodes
  <2> TAKE k \in DOMAIN list
  <2>1. list[k] \in Seq(Parts)
    BY <1>1
  <2>. QED
    BY <2>1, ParseType
<1>3. [k \in DOMAIN list |-> ParseDeviceNode(list[k])] \in Seq(Nodes)
  <2>1. DOMAIN list = 1 .. Len(list) /\ Len(list) \in Nat
    BY <1>1
  <2> HIDE DEF Nodes
  <2>. QED
    BY <1>2, <2>1
<1>. QED
  BY <1>3 DEF EmbeddedDevices, list, inner

LEMMA DescribedType ==
    ASSUME NEW names, NEW xml \in Seq(PartsOf(names))
    PROVE  DescribedDevices(xml) \in Seq(NodesOf(names))
<1> DEFINE Nodes == NodesOf(names)
           rootXml == ExtractElement(xml, "device")
<1>1. rootXml \in Seq(PartsOf(names))
  BY ExtractElementType
<1> HIDE DEF rootXml, Nodes
<1>2. ParseDeviceNode(rootXml) \in Nodes /\ EmbeddedDevices(rootXml) \in Seq(Nodes)
  BY <1>1, ParseType, EmbeddedType DEF Nodes
<1>3. DescribedDevices(xml) = IF rootXml = <<>> THEN <<>>
                              ELSE <<ParseDeviceNode(rootXml)>> \o EmbeddedDevices(rootXml)
  BY DEF DescribedDevices, rootXml
<1>4. <<ParseDeviceNode(rootXml)>> \in Seq(Nodes) /\ <<>> \in Seq(Nodes)
  BY <1>2
<1>5. DescribedDevices(xml) \in Seq(Nodes)
  BY <1>2, <1>3, <1>4
<1>. QED
  BY <1>5 DEF Nodes

-----------------------------------------------------------------------------
(* Registries.                                                             *)

Registries == {r \in Seq(Evidence) : Unique(r)}

\* What the analyzer hands over: a device may be without a UDN.
Parsed ==
    [source : {"UPnP_XML"}, uuid : Uuid \cup {NoUuid}, ip : Ip,
     services : SUBSET Service, location : Location, named : BOOLEAN]

Registering == INSTANCE Folding WITH
    Op <- RegisterNamed, Element <- Parsed, Value <- Registries

LEMMA RegistersAll ==
    \A evidences, list : RegisterAll(evidences, list) = Registering!Fold(evidences, list)
  BY DEF RegisterAll, Registering!Fold, FoldLeft, Registering!FoldLeft,
         MapThenFoldSet, Registering!MapThenFoldSet, Max, Registering!Max

LEMMA NamedIsEvidence ==
    ASSUME NEW e \in Parsed, e.uuid # NoUuid
    PROVE  e \in Evidence
  BY DEF Parsed, Evidence

LEMMA RegisteringClosed == Registering!Closed
<1> SUFFICES ASSUME NEW evidences \in Registries, NEW e \in Parsed
             PROVE  RegisterNamed(evidences, e) \in Registries
  BY DEF Registering!Closed
<1>1. CASE e.uuid = NoUuid
  BY <1>1 DEF RegisterNamed
<1>2. CASE e.uuid # NoUuid
  <2>1. evidences \in Seq(Evidence) /\ Unique(evidences) /\ e \in Evidence
    BY <1>2, NamedIsEvidence DEF Registries
  <2>2. Register(evidences, e) \in Seq(Evidence) /\ Unique(Register(evidences, e))
    BY <2>1, RegisterType, RegisterKeepsUnique
  <2>. QED
    BY <1>2, <2>2 DEF RegisterNamed, Registries
<1>. QED
  BY <1>1, <1>2

\* What is in a registry after some evidence was registered with another.
Grown(after, before, added) ==
    /\ \A k \in DOMAIN after :
         \/ \E j \in DOMAIN before : after[k] = before[j]
         \/ after[k] \in added
    /\ \A j \in DOMAIN before :
         \E k \in DOMAIN after :
            /\ SameKey(after[k], before[j])
            /\ before[j].source = "SSDP" => after[k] = before[j]
    /\ \A e \in added : \E k \in DOMAIN after : SameKey(after[k], e)

NamedOnes(list) == {e \in Range(list) : e.uuid # NoUuid}

LEMMA GrownByOne ==
    ASSUME NEW before \in Registries, NEW e \in Parsed
    PROVE  Grown(RegisterNamed(before, e), before, {d \in {e} : d.uuid # NoUuid})
<1> DEFINE after == RegisterNamed(before, e)
<1>0. before \in Seq(Evidence) /\ Unique(before)
  BY DEF Registries
<1>1. CASE e.uuid = NoUuid
  <2>1. after = before
    BY <1>1 DEF RegisterNamed
  <2> HIDE DEF after
  <2>2. \A j \in DOMAIN before : SameKey(before[j], before[j])
    BY DEF SameKey
  <2>3. \A d : d \in {c \in {e} : c.uuid # NoUuid} <=> FALSE
    BY <1>1
  <2>4. Grown(before, before, {d \in {e} : d.uuid # NoUuid})
    BY <2>2, <2>3 DEF Grown
  <2>. QED
    BY <2>1, <2>4 DEF after
<1>2. CASE e.uuid # NoUuid
  <2>1. after = Register(before, e)
    BY <1>2 DEF RegisterNamed
  <2>2. e \in Evidence /\ e.source = "UPnP_XML"
    BY <1>2, NamedIsEvidence DEF Parsed
  <2>3. after \in Seq(Evidence)
    BY <1>0, <2>1, <2>2, RegisterType
  <2>4. \E k \in DOMAIN after : after[k] = e
    BY <1>0, <2>1, <2>2, RegisterKeepsKeys
  <2>5. \A k \in DOMAIN after : after[k] = e \/ (k \in DOMAIN before /\ after[k] = before[k])
    BY <1>0, <2>1, <2>2, RegisterAddsOne
  <2>6. ASSUME NEW j \in DOMAIN before
        PROVE  \E k \in DOMAIN after :
                 /\ SameKey(after[k], before[j])
                 /\ before[j].source = "SSDP" => after[k] = before[j]
    <3>1. PICK k \in DOMAIN after : SameKey(after[k], before[j])
      BY <1>0, <2>1, <2>2, RegisterKeepsKeys
    <3>2. before[j].source = "SSDP" => after[k] # e
      BY <2>2, <3>1 DEF SameKey
    <3>3. before[j].source = "SSDP" => after[k] = before[k] /\ k \in DOMAIN before
      BY <2>5, <3>2
    <3>4. before[j].source = "SSDP" => k = j
      BY <1>0, <3>1, <3>3 DEF Unique
    <3>. QED
      BY <3>1, <3>3, <3>4
  <2> HIDE DEF after
  <2>7. \A d : d \in {c \in {e} : c.uuid # NoUuid} <=> d = e
    BY <1>2
  <2>8. SameKey(e, e)
    BY DEF SameKey
  <2>9. \A k \in DOMAIN after :
         \/ \E j \in DOMAIN before : after[k] = before[j]
         \/ after[k] = e
    BY <2>5
  <2>10. \E k \in DOMAIN after : SameKey(after[k], e)
    BY <2>4, <2>8
  <2>11. Grown(after, before, {d \in {e} : d.uuid # NoUuid})
    BY <2>6, <2>7, <2>9, <2>10 DEF Grown
  <2>. QED
    BY <2>11 DEF after
<1>. QED
  BY <1>1, <1>2

LEMMA GrownTwice ==
    ASSUME NEW before, NEW middle, NEW after, NEW some, NEW more,
           Grown(middle, before, some), Grown(after, middle, more),
           \A e \in more : e.source # "SSDP"
    PROVE  Grown(after, before, some \cup more)
<1>1. ASSUME NEW k \in DOMAIN after
      PROVE  \/ \E j \in DOMAIN before : after[k] = before[j]
             \/ after[k] \in some \cup more
  BY DEF Grown
<1>2. ASSUME NEW j \in DOMAIN before
      PROVE  \E k \in DOMAIN after :
               /\ SameKey(after[k], before[j])
               /\ before[j].source = "SSDP" => after[k] = before[j]
  <2>1. PICK i \in DOMAIN middle :
           /\ SameKey(middle[i], before[j])
           /\ before[j].source = "SSDP" => middle[i] = before[j]
    BY DEF Grown
  <2>2. PICK k \in DOMAIN after :
           /\ SameKey(after[k], middle[i])
           /\ middle[i].source = "SSDP" => after[k] = middle[i]
    BY DEF Grown
  <2>. QED
    BY <2>1, <2>2 DEF SameKey
<1>3. ASSUME NEW e \in some \cup more
      PROVE  \E k \in DOMAIN after : SameKey(after[k], e)
  <2>1. CASE e \in more
    BY <2>1 DEF Grown
  <2>2. CASE e \in some
    <3>1. PICK i \in DOMAIN middle : SameKey(middle[i], e)
      BY <2>2 DEF Grown
    <3>2. PICK k \in DOMAIN after : SameKey(after[k], middle[i])
      BY DEF Grown
    <3>. QED
      BY <3>1, <3>2 DEF SameKey
  <2>. QED
    BY <2>1, <2>2
<1>. QED
  BY <1>1, <1>2, <1>3 DEF Grown

LEMMA RegisterAllFacts ==
    ASSUME NEW evidences \in Registries, NEW list \in Seq(Parsed)
    PROVE  /\ RegisterAll(evidences, list) \in Registries
           /\ Grown(RegisterAll(evidences, list), evidences, NamedOnes(list))
<1> DEFINE n == Len(list)
           Named(m) == {e \in {list[k] : k \in 1 .. m} : e.uuid # NoUuid}
<1>0. n \in Nat /\ DOMAIN list = 1 .. n /\ \A k \in 1 .. n : list[k] \in Parsed
  OBVIOUS
<1>1. PICK h \in [0 .. n -> Registries] :
         /\ h[0] = evidences
         /\ \A k \in 1 .. n : h[k] = RegisterNamed(h[k - 1], list[k])
         /\ h[n] = RegisterAll(evidences, list)
  BY RegisteringClosed, Registering!FoldSteps, RegistersAll
<1> DEFINE T == {m \in Nat : m <= n => Grown(h[m], evidences, Named(m))}
<1> HIDE DEF n
<1>2. 0 \in T
  <2>1. \A j \in DOMAIN evidences : SameKey(evidences[j], evidences[j])
    BY DEF SameKey
  <2>2. Named(0) = {}
    OBVIOUS
  <2> HIDE DEF Named
  <2>3. Grown(evidences, evidences, {})
    BY <2>1 DEF Grown
  <2>. QED
    BY <1>1, <2>2, <2>3
<1>3. ASSUME NEW m \in T PROVE m + 1 \in T
  <2> SUFFICES ASSUME m + 1 <= n PROVE Grown(h[m + 1], evidences, Named(m + 1))
    BY <1>0
  <2>1. /\ m \in Nat /\ m \in 0 .. n /\ m + 1 \in 1 .. n /\ m + 1 - 1 = m
        /\ Grown(h[m], evidences, Named(m))
    BY <1>0
  <2> DEFINE e == list[m + 1]
             new == {d \in {e} : d.uuid # NoUuid}
  <2>2. h[m + 1] = RegisterNamed(h[m], e) /\ e \in Parsed
    BY <1>0, <1>1, <2>1
  <2>3. Grown(h[m + 1], h[m], new)
    <3>1. h[m] \in Registries
      BY <2>1
    <3> HIDE DEF e
    <3>. QED
      BY <2>2, <3>1, GrownByOne
  <2>4. \A d \in new : d.source # "SSDP"
    BY <2>2 DEF Parsed
  <2>5. Named(m + 1) = Named(m) \cup new
    <3>1. 1 .. m + 1 = (1 .. m) \cup {m + 1}
      BY <2>1
    <3>. QED
      BY <3>1
  <2> HIDE DEF Named, new
  <2>6. Grown(h[m + 1], evidences, Named(m) \cup new)
    BY <2>1, <2>3, <2>4, GrownTwice
  <2>. QED
    BY <2>5, <2>6
<1>4. T = Nat
  <2>1. T \in SUBSET Nat
    OBVIOUS
  <2> HIDE DEF T
  <2>. QED
    BY <1>2, <1>3, <2>1, Registering!SetInduction
<1>5. Grown(h[n], evidences, Named(n))
  BY <1>0, <1>4
<1>6. Named(n) = NamedOnes(list)
  BY <1>0 DEF NamedOnes, Range
<1>7. h[n] \in Registries
  BY <1>0
<1>. QED
  BY <1>1, <1>5, <1>6, <1>7

\* The UDN that Analyze finds for the root device.
RootUdn(xml) ==
    IF ExtractElement(xml, "device") = <<>> THEN NoUuid
    ELSE ParseDeviceNode(ExtractElement(xml, "device")).uuid

LEMMA XmlEvidenceType ==
    ASSUME NEW names, names.uuids \in SUBSET Uuid, NEW node \in NodesOf(names),
           NEW ip \in Ip, NEW location \in Location
    PROVE  /\ XmlEvidence(node, ip, location) \in Parsed
           /\ XmlEvidence(node, ip, location).uuid \in names.uuids \cup {NoUuid}
           /\ XmlEvidence(node, ip, location).location = location
           /\ XmlEvidence(node, ip, location).ip = ip
  BY DEF XmlEvidence, NodesOf, Parsed

\* The registry after the analysis of a description, or of what came of it.
LEMMA AnalyzeXmlFacts ==
    ASSUME NEW evidences \in Registries, NEW names, names.uuids \in SUBSET Uuid,
           NEW xml \in Seq(PartsOf(names)), NEW ip \in Ip, NEW location \in Location
    PROVE  LET after == AnalyzeXml(evidences, xml, ip, location)
           IN /\ after \in Registries
              /\ \A k \in DOMAIN after :
                   \/ \E j \in DOMAIN evidences : after[k] = evidences[j]
                   \/ /\ after[k].source = "UPnP_XML"
                      /\ after[k].uuid \in names.uuids
                      /\ after[k].location = location
              /\ \A j \in DOMAIN evidences :
                   \E k \in DOMAIN after :
                      /\ SameKey(after[k], evidences[j])
                      /\ evidences[j].source = "SSDP" => after[k] = evidences[j]
              /\ RootUdn(xml) # NoUuid /\ "unsized" \notin names.icons =>
                   \E k \in DOMAIN after : /\ after[k].source = "UPnP_XML"
                                           /\ after[k].uuid = RootUdn(xml)
                                           /\ after[k].ip = ip
<1> DEFINE devices == DescribedDevices(xml)
           list == [k \in DOMAIN devices |-> XmlEvidence(devices[k], ip, location)]
           after == RegisterAll(evidences, list)
<1>1. devices \in Seq(NodesOf(names))
  BY DescribedType
<1>2. /\ RootUdn(xml) # NoUuid =>
            1 \in DOMAIN devices /\ devices[1].uuid = RootUdn(xml)
  <2> SUFFICES ASSUME RootUdn(xml) # NoUuid
               PROVE  1 \in DOMAIN devices /\ devices[1].uuid = RootUdn(xml)
    OBVIOUS
  <2> DEFINE rootXml == ExtractElement(xml, "device")
             root == ParseDeviceNode(rootXml)
  <2>1. rootXml # <<>> /\ root.uuid = RootUdn(xml)
    BY DEF RootUdn
  <2>2. devices = <<root>> \o EmbeddedDevices(rootXml)
    BY <2>1 DEF DescribedDevices
  <2>3. EmbeddedDevices(rootXml) \in Seq(NodesOf(names)) /\ root \in NodesOf(names)
    <3>1. rootXml \in Seq(PartsOf(names))
      BY ExtractElementType
    <3>. QED
      BY <3>1, ParseType, EmbeddedType
  <2> HIDE DEF devices, root, rootXml
  <2>4. devices[1] = root /\ 1 \in DOMAIN devices
    BY <2>2, <2>3
  <2>. QED
    BY <2>1, <2>4
<1> HIDE DEF devices
<1>3. \A k \in DOMAIN devices :
         /\ list[k] \in Parsed
         /\ list[k].uuid = devices[k].uuid
         /\ list[k].uuid \in names.uuids \cup {NoUuid}
         /\ list[k].location = location
         /\ list[k].ip = ip
  <2> TAKE k \in DOMAIN devices
  <2>1. devices[k] \in NodesOf(names)
    BY <1>1
  <2>2. list[k] = XmlEvidence(devices[k], ip, location)
    OBVIOUS
  <2>3. XmlEvidence(devices[k], ip, location).uuid = devices[k].uuid
    BY DEF XmlEvidence
  <2> HIDE DEF list
  <2>. QED
    BY <2>1, <2>2, <2>3, XmlEvidenceType
<1>4. DOMAIN list = DOMAIN devices /\ DOMAIN devices = 1 .. Len(devices)
      /\ Len(devices) \in Nat /\ list = [k \in 1 .. Len(devices) |-> list[k]]
  BY <1>1
<1> HIDE DEF list
<1>5. list \in Seq(Parsed)
  BY <1>3, <1>4
<1>6. after \in Registries /\ Grown(after, evidences, NamedOnes(list))
  BY <1>5, RegisterAllFacts
<1>7. \A e \in NamedOnes(list) :
         /\ e.source = "UPnP_XML" /\ e.uuid \in names.uuids /\ e.location = location /\ e.ip = ip
  BY <1>3, <1>4 DEF NamedOnes, Range, Parsed
<1> HIDE DEF after
<1>8. RootUdn(xml) # NoUuid =>
        \E k \in DOMAIN after : /\ after[k].source = "UPnP_XML"
                                /\ after[k].uuid = RootUdn(xml)
                                /\ after[k].ip = ip
  <2> SUFFICES ASSUME RootUdn(xml) # NoUuid
               PROVE  \E k \in DOMAIN after : /\ after[k].source = "UPnP_XML"
                                              /\ after[k].uuid = RootUdn(xml)
                                              /\ after[k].ip = ip
    OBVIOUS
  <2>1. list[1] \in NamedOnes(list) /\ list[1].uuid = RootUdn(xml)
    BY <1>2, <1>3, <1>4 DEF NamedOnes, Range
  <2>2. PICK k \in DOMAIN after : SameKey(after[k], list[1])
    BY <1>6, <2>1 DEF Grown
  <2>. QED
    BY <1>7, <2>1, <2>2 DEF SameKey
<1>9. CASE ~ ParseThrows(devices)
  <2>1. AnalyzeXml(evidences, xml, ip, location) = after
    BY <1>9 DEF AnalyzeXml, after, list, devices
  <2>. QED
    BY <1>6, <1>7, <1>8, <2>1 DEF Grown
<1>10. CASE ParseThrows(devices)
  <2>1. AnalyzeXml(evidences, xml, ip, location) = evidences
    BY <1>10 DEF AnalyzeXml, devices
  <2>2. "unsized" \in names.icons
    <3>1. PICK k \in DOMAIN devices : devices[k].icons = "unsized"
      BY <1>10 DEF ParseThrows
    <3>2. devices[k] \in NodesOf(names)
      BY <1>1, <3>1
    <3>. QED
      BY <3>1, <3>2 DEF NodesOf
  <2>. QED
    BY <2>1, <2>2 DEF SameKey
<1>. QED
  BY <1>9, <1>10

LEMMA Longer ==
    ASSUME NEW S, NEW s \in Seq(S), NEW t \in Seq(S)
    PROVE  /\ s \o t \in Seq(S)
           /\ Len(s \o t) = Len(s) + Len(t)
           /\ \A k \in 1 .. Len(s) : (s \o t)[k] = s[k]
           /\ \A k \in 1 .. Len(t) : (s \o t)[Len(s) + k] = t[k]
  OBVIOUS

\* The UDN is the first element of a device, or the second.
LEMMA UdnPlace ==
    ASSUME NEW S, NEW node, NEW inner \in Seq(S), node.uuid # NoUuid,
           node.named \in BOOLEAN,
           DeviceTokens(node, inner) \in Seq(S),
           OpenTag("device") \in S, CloseTag("device") \in S,
           Leaf("friendlyName", "name") \in S, Leaf("UDN", node.uuid) \in S,
           Leaf("iconList", node.icons) \in S,
           Leaf("serviceList", node.services) \in S
    PROVE  LET xml == DeviceTokens(node, inner)
           IN /\ xml[1] = OpenTag("device")
              /\ xml[Len(xml)] = CloseTag("device")
              /\ \E p \in 2 .. Len(xml) - 1 :
                   /\ xml[p] = Leaf("UDN", node.uuid)
                   /\ \A j \in 2 .. p - 1 : xml[j] = Leaf("friendlyName", "name")
<1> DEFINE name == IF node.named THEN <<Leaf("friendlyName", "name")>> ELSE <<>>
           services == IF node.services = {} THEN <<>>
                       ELSE <<Leaf("serviceList", node.services)>>
           a == <<OpenTag("device")>> \o name
           icons == IF node.icons = "none" THEN <<>> ELSE <<Leaf("iconList", node.icons)>>
           b == a \o <<Leaf("UDN", node.uuid)>>
           i == b \o icons
           c == i \o services
           d == c \o inner
           xml == d \o <<CloseTag("device")>>
<1>1. /\ a \in Seq(S) /\ a[1] = OpenTag("device") /\ Len(a) \in {1, 2}
      /\ \A j \in 2 .. Len(a) : a[j] = Leaf("friendlyName", "name")
  <2>1. CASE node.named
    BY <2>1
  <2>2. CASE ~ node.named
    BY <2>2
  <2>. QED
    BY <2>1, <2>2
<1> HIDE DEF name, a
<1>2. /\ b \in Seq(S) /\ Len(b) = Len(a) + 1 /\ b[Len(a) + 1] = Leaf("UDN", node.uuid)
      /\ \A k \in 1 .. Len(a) : b[k] = a[k]
  BY <1>1
<1>3. /\ services \in Seq(S) /\ Len(services) \in Nat
      /\ icons \in Seq(S) /\ Len(icons) \in Nat
  OBVIOUS
<1> HIDE DEF b, services, icons
<1>4. /\ c \in Seq(S) /\ Len(c) >= Len(b) /\ \A k \in 1 .. Len(b) : c[k] = b[k]
  <2>1. /\ i \in Seq(S) /\ Len(i) = Len(b) + Len(icons)
        /\ \A k \in 1 .. Len(b) : i[k] = b[k]
    BY <1>2, <1>3, Longer
  <2> HIDE DEF i
  <2>2. c \in Seq(S) /\ Len(c) >= Len(i) /\ \A k \in 1 .. Len(i) : c[k] = i[k]
    BY <1>3, <2>1, Longer
  <2>3. Len(b) \in Nat /\ Len(i) \in Nat /\ Len(c) \in Nat
    BY <1>2, <2>1, <2>2
  <2> HIDE DEF c
  <2>. QED
    BY <1>3, <2>1, <2>2, <2>3
<1> HIDE DEF c
<1>5. /\ d \in Seq(S) /\ Len(d) >= Len(c) /\ \A k \in 1 .. Len(c) : d[k] = c[k]
  BY <1>4, Longer
<1> HIDE DEF d
<1>6. /\ xml \in Seq(S) /\ Len(xml) = Len(d) + 1 /\ xml[Len(d) + 1] = CloseTag("device")
      /\ \A k \in 1 .. Len(d) : xml[k] = d[k]
  <2>1. <<CloseTag("device")>> \in Seq(S)
    OBVIOUS
  <2>. QED
    BY <1>5
<1> HIDE DEF xml
<1>7. /\ Len(a) \in Nat /\ Len(b) \in Nat /\ Len(c) \in Nat /\ Len(d) \in Nat
  BY <1>1, <1>2, <1>4, <1>5
<1>8. \A k \in 1 .. Len(b) : xml[k] = b[k]
  BY <1>4, <1>5, <1>6, <1>7
<1>9. xml[1] = OpenTag("device")
  BY <1>1, <1>2, <1>7, <1>8
<1>10. xml[Len(a) + 1] = Leaf("UDN", node.uuid)
  BY <1>2, <1>7, <1>8
<1>11. \A j \in 2 .. Len(a) : xml[j] = Leaf("friendlyName", "name")
  BY <1>1, <1>2, <1>7, <1>8
<1>12. Len(a) + 1 \in 2 .. Len(xml) - 1
  BY <1>1, <1>2, <1>4, <1>5, <1>6, <1>7
<1>13. xml = DeviceTokens(node, inner)
  BY DEF DeviceTokens, xml, d, c, i, b, a, name, icons, services
<1> DEFINE p == Len(a) + 1
<1>14. /\ xml[Len(xml)] = CloseTag("device")
       /\ p \in 2 .. Len(xml) - 1
       /\ xml[p] = Leaf("UDN", node.uuid)
       /\ \A j \in 2 .. p - 1 : xml[j] = Leaf("friendlyName", "name")
  <2> HIDE DEF a, xml
  <2>1. p - 1 = Len(a)
    BY <1>7
  <2>. QED
    BY <1>6, <1>10, <1>11, <1>12, <2>1
<1> HIDE DEF a, xml, p
<1>15. \E q \in 2 .. Len(xml) - 1 :
          /\ xml[q] = Leaf("UDN", node.uuid)
          /\ \A j \in 2 .. q - 1 : xml[j] = Leaf("friendlyName", "name")
  BY <1>14
<1>. QED
  BY <1>9, <1>13, <1>14, <1>15

LEMMA RootUdnIs ==
    ASSUME NEW root \in Node, NEW embedded \in Seq(Node), root.uuid # NoUuid
    PROVE  RootUdn(Description(root, embedded)) = root.uuid
<1> DEFINE S == TokensOf(Names(root, embedded))
           inner == IF embedded = <<>> THEN <<>>
                    ELSE <<OpenTag("deviceList")>>
                         \o FlattenSeq([k \in DOMAIN embedded |->
                                            DeviceTokens(embedded[k], <<>>)])
                         \o <<CloseTag("deviceList")>>
           xml == Description(root, embedded)
<1>1. xml \in Seq(S) /\ inner \in Seq(S)
  BY DescriptionType, InnerType
<1>2. xml = DeviceTokens(root, inner)
  BY DEF Description
<1>3. /\ OpenTag("device") \in S /\ CloseTag("device") \in S
      /\ Leaf("friendlyName", "name") \in S /\ Leaf("UDN", root.uuid) \in S
      /\ Leaf("serviceList", root.services) \in S
      /\ Leaf("iconList", root.icons) \in S
  BY DEF OpenTag, CloseTag, Leaf, TokensOf, Names, Node
<1>4. root.named \in BOOLEAN
  BY DEF Node
<1> HIDE DEF S, inner, xml
<1>5. PICK p \in 2 .. Len(xml) - 1 :
         /\ xml[p] = Leaf("UDN", root.uuid)
         /\ \A j \in 2 .. p - 1 : xml[j] = Leaf("friendlyName", "name")
  BY <1>1, <1>2, <1>3, <1>4, UdnPlace
<1>6. xml[1] = OpenTag("device") /\ xml[Len(xml)] = CloseTag("device")
  BY <1>1, <1>2, <1>3, <1>4, UdnPlace
<1>7. Len(xml) \in Nat /\ DOMAIN xml = 1 .. Len(xml)
  BY <1>1
<1>8. \A k \in 1 .. p : xml[k] # CloseTag("device")
  <2>1. Leaf("UDN", root.uuid).mark = "leaf" /\ Leaf("friendlyName", "name").mark = "leaf"
        /\ OpenTag("device").mark = "open" /\ CloseTag("device").mark = "close"
    BY DEF Leaf, OpenTag, CloseTag
  <2>. QED
    BY <1>5, <1>6, <2>1
<1>9. HasElement(xml, "device", 1) /\ ContentStart(xml, "device", 1) = 2
  <2>1. 1 \in Positions(xml, OpenTag("device"), 1)
    BY <1>5, <1>6, <1>7 DEF Positions
  <2>2. Find(xml, OpenTag("device"), 1) = 1
    <3>1. /\ Find(xml, OpenTag("device"), 1) \in Positions(xml, OpenTag("device"), 1)
          /\ Find(xml, OpenTag("device"), 1) <= 1
      BY <1>1, <2>1, FindFacts
    <3>. QED
      BY <1>7, <3>1 DEF Positions
  <2>3. Len(xml) \in Positions(xml, CloseTag("device"), 1)
    BY <1>5, <1>6, <1>7 DEF Positions
  <2>. QED
    BY <2>1, <2>2, <2>3 DEF HasElement, ContentStart
<1> DEFINE e == ElementEnd(xml, "device", 1)
           inside == SubSeq(xml, 2, e - 1)
<1>10. e \in 2 .. Len(xml) /\ xml[e] = CloseTag("device")
  <2>1. Positions(xml, CloseTag("device"), 2) # {}
    <3>1. Len(xml) \in Positions(xml, CloseTag("device"), 2)
      BY <1>5, <1>6, <1>7 DEF Positions
    <3>. QED
      BY <3>1
  <2>2. e \in Positions(xml, CloseTag("device"), 2)
    BY <1>1, <1>9, <2>1, FindFacts DEF ElementEnd
  <2> HIDE DEF e
  <2>. QED
    BY <1>7, <2>2 DEF Positions
<1> HIDE DEF e
<1>11. p < e
  BY <1>7, <1>8, <1>10
<1>12. /\ ExtractElement(xml, "device") = inside
  BY <1>9 DEF ExtractElement, e
<1>13. /\ Len(inside) = e - 2 /\ inside \in Seq(S)
       /\ \A k \in 1 .. e - 2 : inside[k] = xml[k + 1]
  <2>1. \A i \in 2 .. e - 1 : i \in 1 .. Len(xml)
    BY <1>7, <1>10
  <2>. QED
    BY <1>1, <1>7, <1>10, <2>1
<1> HIDE DEF inside
<1>14. inside # <<>>
  <2>1. Len(inside) # 0
    BY <1>11, <1>13
  <2>. QED
    BY <2>1
<1>15. ExtractText(inside, "UDN", NoUuid) = root.uuid
  <2> DEFINE there == {k \in DOMAIN inside : inside[k].mark = "leaf" /\ inside[k].tag = "UDN"}
             first == CHOOSE k \in there : \A j \in there : k <= j
  <2>1. p - 1 \in there /\ inside[p - 1] = Leaf("UDN", root.uuid)
    <3>1. p - 1 \in 1 .. e - 2 /\ p - 1 + 1 = p /\ DOMAIN inside = 1 .. e - 2
      BY <1>7, <1>10, <1>11, <1>13
    <3>2. inside[p - 1] = Leaf("UDN", root.uuid)
      BY <1>5, <1>13, <3>1
    <3>. QED
      BY <3>1, <3>2 DEF Leaf
  <2>2. \A k \in there : p - 1 <= k
    <3> SUFFICES ASSUME NEW k \in there, k < p - 1 PROVE FALSE
      BY <1>7, <1>13
    <3>1. k \in 1 .. e - 2 /\ k + 1 \in 2 .. p - 1
      BY <1>7, <1>10, <1>13
    <3>2. inside[k] = Leaf("friendlyName", "name")
      BY <1>5, <1>13, <3>1
    <3>. QED
      BY <3>2 DEF Leaf
  <2>3. there \in SUBSET Nat
    BY <1>13
  <2> HIDE DEF there
  <2>4. first \in there /\ \A j \in there : first <= j
    BY <2>1, <2>3, Collecting!LeastNumber
  <2> HIDE DEF first
  <2>5. first = p - 1
    <3>1. first <= p - 1 /\ p - 1 <= first /\ first \in Nat /\ p \in Nat
      BY <1>7, <2>1, <2>2, <2>3, <2>4
    <3>. QED
      BY <3>1
  <2>6. ExtractText(inside, "UDN", NoUuid) = inside[first].text
    BY <2>1 DEF ExtractText, there, first
  <2>7. inside[first].text = root.uuid
    BY <2>1, <2>5 DEF Leaf
  <2>. QED
    BY <2>6, <2>7
<1>. QED
  BY <1>12, <1>14, <1>15 DEF RootUdn, ParseDeviceNode, xml

-----------------------------------------------------------------------------
(* Chunks.                                                                 *)

LEMMA PartType ==
    ASSUME NEW S, NEW s \in Seq(S), NEW a \in Nat \ {0}, NEW b \in Nat, b <= Len(s)
    PROVE  /\ SubSeq(s, a, b) \in Seq(S)
           /\ Len(SubSeq(s, a, b)) = IF a <= b THEN b + 1 - a ELSE 0
           /\ \A i \in 1 .. b + 1 - a : SubSeq(s, a, b)[i] = s[a + i - 1]
<1>1. \A i \in a .. b : i \in 1 .. Len(s)
  OBVIOUS
<1>. QED
  BY <1>1

LEMMA SameSequence ==
    ASSUME NEW S, NEW s \in Seq(S), NEW t \in Seq(S), Len(s) = Len(t),
           \A i \in 1 .. Len(s) : s[i] = t[i]
    PROVE  s = t
  OBVIOUS

LEMMA PartsJoin ==
    ASSUME NEW S, NEW s \in Seq(S), NEW a \in Nat \ {0}, NEW b \in Nat, NEW c \in Nat,
           a <= b + 1, b <= c, c <= Len(s)
    PROVE  SubSeq(s, a, b) \o SubSeq(s, b + 1, c) = SubSeq(s, a, c)
<1> DEFINE u == SubSeq(s, a, b)
           v == SubSeq(s, b + 1, c)
           w == SubSeq(s, a, c)
<1>1. /\ u \in Seq(S) /\ v \in Seq(S) /\ w \in Seq(S)
      /\ Len(u) = b + 1 - a /\ Len(v) = c - b /\ Len(w) = c + 1 - a
      /\ \A i \in 1 .. b + 1 - a : u[i] = s[a + i - 1]
      /\ \A i \in 1 .. c - b : v[i] = s[b + 1 + i - 1]
      /\ \A i \in 1 .. c + 1 - a : w[i] = s[a + i - 1]
  <2>0. /\ b <= Len(s) /\ b + 1 \in Nat \ {0} /\ c + 1 - (b + 1) = c - b
        /\ c + 1 - (b + 1) = IF b + 1 <= c THEN c + 1 - (b + 1) ELSE 0
        /\ b + 1 - a = IF a <= b THEN b + 1 - a ELSE 0
        /\ c + 1 - a = IF a <= c THEN c + 1 - a ELSE 0
    OBVIOUS
  <2>1. /\ u \in Seq(S) /\ Len(u) = IF a <= b THEN b + 1 - a ELSE 0
        /\ \A i \in 1 .. b + 1 - a : u[i] = s[a + i - 1]
    BY <2>0, PartType
  <2>2. /\ v \in Seq(S) /\ Len(v) = IF b + 1 <= c THEN c + 1 - (b + 1) ELSE 0
        /\ \A i \in 1 .. c + 1 - (b + 1) : v[i] = s[b + 1 + i - 1]
    BY <2>0, PartType
  <2>3. /\ w \in Seq(S) /\ Len(w) = IF a <= c THEN c + 1 - a ELSE 0
        /\ \A i \in 1 .. c + 1 - a : w[i] = s[a + i - 1]
    BY PartType
  <2> HIDE DEF u, v, w
  <2>. QED
    BY <2>0, <2>1, <2>2, <2>3
<1> HIDE DEF u, v, w
<1>2. /\ u \o v \in Seq(S) /\ Len(u \o v) = Len(u) + Len(v)
      /\ \A k \in 1 .. Len(u) : (u \o v)[k] = u[k]
      /\ \A k \in 1 .. Len(v) : (u \o v)[Len(u) + k] = v[k]
  <2>1. u \in Seq(S) /\ v \in Seq(S)
    BY <1>1
  <2>. QED
    BY <2>1, Longer
<1> DEFINE m == b + 1 - a
           n == c - b
<1>3. m \in Nat /\ n \in Nat /\ Len(u) = m /\ Len(v) = n /\ m + n = c + 1 - a
  BY <1>1
<1>4. Len(u \o v) = Len(w)
  BY <1>1, <1>2, <1>3
<1>5. ASSUME NEW i \in 1 .. Len(u \o v) PROVE (u \o v)[i] = w[i]
  <2>0. i \in 1 .. m + n /\ w[i] = s[a + i - 1]
    BY <1>1, <1>2, <1>3
  <2>1. CASE i <= m
    <3>1. i \in 1 .. m
      BY <2>0, <2>1
    <3>2. (u \o v)[i] = u[i] /\ u[i] = s[a + i - 1]
      BY <1>1, <1>2, <1>3, <3>1
    <3>. QED
      BY <2>0, <3>2
  <2>2. CASE i > m
    <3> DEFINE k == i - m
    <3>1. k \in 1 .. n /\ m + k = i
      BY <1>3, <2>0, <2>2
    <3>2. b + 1 + k - 1 = a + i - 1
      OBVIOUS
    <3> HIDE DEF k, m, n
    <3>3. (u \o v)[m + k] = v[k]
      BY <1>2, <1>3, <3>1
    <3>4. v[k] = s[b + 1 + k - 1]
      BY <1>1, <3>1 DEF n
    <3>. QED
      BY <2>0, <3>1, <3>2, <3>3, <3>4
  <2>. QED
    BY <1>3, <2>0, <2>1, <2>2
<1>6. u \o v = w
  BY <1>1, <1>2, <1>4, <1>5, SameSequence
<1>. QED
  BY <1>6 DEF u, v, w

\* The lines and tokens of chunks.
Chunked(S) == S \cup [line : {"size", "end"}, value : Nat]

\* Tokens of a document.
Plain(S) == \A t \in S : ~ IsLine(t)

LEMMA LineFacts ==
    /\ \A kind, value : IsLine(Line(kind, value))
    /\ ~ IsLine(Fragment)
  BY DEF IsLine, Line, Fragment

LEMMA ChunkFacts ==
    ASSUME NEW S, NEW c \in Seq(S)
    PROVE  /\ ChunkLines(c) \in Seq(Chunked(S))
           /\ Len(ChunkLines(c)) = Len(c) + 2
           /\ ChunkLines(c)[1] = Line("size", Len(c))
           /\ \A i \in 1 .. Len(c) : ChunkLines(c)[1 + i] = c[i]
           /\ ChunkLines(c)[Len(c) + 2] = Line("end", 0)
<1> DEFINE C == Chunked(S)
           a == <<Line("size", Len(c))>>
           z == <<Line("end", 0)>>
<1>1. Line("size", Len(c)) \in C /\ Line("end", 0) \in C
  BY DEF Line, Chunked
<1>2. c \in Seq(C)
  <2>1. S \subseteq C
    BY DEF Chunked
  <2> HIDE DEF C
  <2>. QED
    BY <2>1
<1> HIDE DEF C
<1>3. /\ a \in Seq(C) /\ Len(a) = 1 /\ a[1] = Line("size", Len(c))
      /\ z \in Seq(C) /\ Len(z) = 1 /\ z[1] = Line("end", 0)
  BY <1>1
<1> HIDE DEF a, z
<1>4. /\ a \o c \in Seq(C) /\ Len(a \o c) = 1 + Len(c)
      /\ (a \o c)[1] = Line("size", Len(c))
      /\ \A i \in 1 .. Len(c) : (a \o c)[1 + i] = c[i]
  <2>1. /\ a \o c \in Seq(C) /\ Len(a \o c) = Len(a) + Len(c)
        /\ \A i \in 1 .. Len(a) : (a \o c)[i] = a[i]
        /\ \A i \in 1 .. Len(c) : (a \o c)[Len(a) + i] = c[i]
    <3>1. a \in Seq(C) /\ c \in Seq(C)
      BY <1>2, <1>3
    <3>. QED
      BY <3>1, Longer
  <2>2. 1 \in 1 .. Len(a)
    BY <1>3
  <2>. QED
    BY <1>3, <2>1, <2>2
<1> DEFINE b == a \o c
<1>5. Len(c) \in Nat
  OBVIOUS
<1> HIDE DEF b
<1>6. b \in Seq(C) /\ Len(b) = 1 + Len(c)
  BY <1>4 DEF b
<1>7. /\ b \o z \in Seq(C) /\ Len(b \o z) = Len(c) + 2
      /\ \A i \in 1 .. Len(c) + 1 : (b \o z)[i] = b[i]
      /\ (b \o z)[Len(c) + 2] = Line("end", 0)
  <2>1. /\ b \o z \in Seq(C) /\ Len(b \o z) = Len(b) + Len(z)
        /\ \A i \in 1 .. Len(b) : (b \o z)[i] = b[i]
        /\ \A i \in 1 .. Len(z) : (b \o z)[Len(b) + i] = z[i]
    BY <1>3, <1>6, Longer
  <2>2. Len(b) + 1 = Len(c) + 2 /\ 1 \in 1 .. Len(z)
    BY <1>3, <1>5, <1>6
  <2>3. (b \o z)[Len(b) + 1] = z[1]
    BY <2>1, <2>2
  <2>. QED
    BY <1>3, <1>5, <1>6, <2>1, <2>2, <2>3
<1>8. ChunkLines(c) = b \o z
  BY DEF ChunkLines, a, b, z
<1>9. \A i \in 1 .. Len(c) : 1 + i \in 1 .. Len(c) + 1
  BY <1>5
<1>10. 1 \in 1 .. Len(c) + 1
  BY <1>5
<1>. QED
  BY <1>4, <1>7, <1>8, <1>9, <1>10 DEF b, C

\* The equation of the function in Chunks, at a position.
ChunksAt(g, document, size, k) ==
    g[k] = IF k + size > Len(document)
           THEN ChunkLines(SubSeq(document, k, Len(document))) \o ChunkLines(<<>>)
           ELSE ChunkLines(SubSeq(document, k, k + size - 1)) \o g[k + size]

LEMMA ChunksExist ==
    ASSUME NEW document, Len(document) \in Nat, NEW size \in Nat \ {0}
    PROVE  \E g : g = [k \in Nat |->
              IF k + size > Len(document)
              THEN ChunkLines(SubSeq(document, k, Len(document))) \o ChunkLines(<<>>)
              ELSE ChunkLines(SubSeq(document, k, k + size - 1)) \o g[k + size]]
<1> DEFINE L == Len(document)
           At(g, k) == IF k + size > L
                       THEN ChunkLines(SubSeq(document, k, L)) \o ChunkLines(<<>>)
                       ELSE ChunkLines(SubSeq(document, k, k + size - 1)) \o g[k + size]
           Exists(n) == \E g : \A k \in Nat : k + n > L => g[k] = At(g, k)
           T == {n \in Nat : Exists(n)}
<1>0. L \in Nat
  OBVIOUS
<1>1. Exists(0)
  <2> DEFINE g == [k \in Nat |-> ChunkLines(SubSeq(document, k, L)) \o ChunkLines(<<>>)]
  <2>1. \A k \in Nat : k + 0 > L => k + size > L
    BY <1>0
  <2>2. \A k \in Nat : k + 0 > L => g[k] = At(g, k)
    BY <2>1
  <2>. QED
    BY <2>2
<1>2. ASSUME NEW n \in Nat, Exists(n) PROVE Exists(n + 1)
  <2>1. PICK g : \A k \in Nat : k + n > L => g[k] = At(g, k)
    BY <1>2
  <2> DEFINE h == [k \in Nat |-> IF k + n > L THEN g[k] ELSE At(g, k)]
  <2>2. ASSUME NEW k \in Nat, k + (n + 1) > L PROVE h[k] = At(h, k)
    <3>1. h[k] = At(g, k)
      BY <2>1
    <3>2. k + size \in Nat /\ k + size + n > L
      BY <1>0, <2>2
    <3>3. h[k + size] = g[k + size]
      BY <3>2
    <3> HIDE DEF h
    <3>. QED
      BY <3>1, <3>3
  <2>. QED
    BY <2>2
<1> HIDE DEF Exists
<1>3. T \in SUBSET Nat /\ 0 \in T /\ \A n \in T : n + 1 \in T
  BY <1>1, <1>2
<1>4. T = Nat
  <2> HIDE DEF T
  <2>. QED
    BY <1>3, Collecting!SetInduction
<1>5. Exists(L + 1)
  BY <1>0, <1>4
<1>6. PICK g : \A k \in Nat : k + (L + 1) > L => g[k] = At(g, k)
  BY <1>5 DEF Exists
<1> DEFINE h == [k \in Nat |-> g[k]]
<1>7. \A k \in Nat : h[k] = At(h, k)
  <2> TAKE k \in Nat
  <2>1. k + (L + 1) > L /\ k + size \in Nat
    BY <1>0
  <2>2. g[k] = At(g, k)
    BY <1>6, <2>1
  <2>3. h[k] = g[k] /\ h[k + size] = g[k + size]
    BY <2>1
  <2> HIDE DEF h
  <2>. QED
    BY <2>2, <2>3
<1>8. h = [k \in Nat |-> h[k]]
  OBVIOUS
<1> HIDE DEF h
<1>9. h = [k \in Nat |-> At(h, k)]
  BY <1>7, <1>8
<1>. QED
  BY <1>9

\* Chunks is a function of the position in the document, ...
IsChunks(f, document, size) ==
    f = [k \in Nat |->
           IF k + size > Len(document)
           THEN ChunkLines(SubSeq(document, k, Len(document))) \o ChunkLines(<<>>)
           ELSE ChunkLines(SubSeq(document, k, k + size - 1)) \o f[k + size]]

LEMMA ChunksFunction ==
    ASSUME NEW document, Len(document) \in Nat, NEW size \in Nat \ {0}
    PROVE  \E f : IsChunks(f, document, size) /\ Chunks(document, size) = f[1]
<1> DEFINE f == CHOOSE g : IsChunks(g, document, size)
<1>1. IsChunks(f, document, size)
  <2>1. \E g : IsChunks(g, document, size)
    BY ChunksExist DEF IsChunks
  <2>. QED
    BY <2>1
<1>2. Chunks(document, size) = f[1]
  BY DEF Chunks, IsChunks
<1>. QED
  BY <1>1, <1>2

\* ... which has the lines of one chunk and then those of the next.
ChunkAt(document, size, k) ==
    SubSeq(document, k, IF k + size > Len(document) THEN Len(document) ELSE k + size - 1)

BehindChunk(f, document, size, k) ==
    IF k + size > Len(document) THEN ChunkLines(<<>>) ELSE f[k + size]

LEMMA ChunksEquation ==
    ASSUME NEW f, NEW document, NEW size, IsChunks(f, document, size), NEW k \in Nat
    PROVE  f[k] = ChunkLines(ChunkAt(document, size, k))
                     \o BehindChunk(f, document, size, k)
  BY DEF IsChunks, ChunkAt, BehindChunk

LEMMA ChunkAtFacts ==
    ASSUME NEW S, NEW document \in Seq(S), NEW size \in Nat \ {0},
           NEW k \in 1 .. Len(document) + 1
    PROVE  /\ ChunkAt(document, size, k) \in Seq(S)
           /\ Len(ChunkAt(document, size, k)) =
                IF k + size > Len(document) THEN Len(document) + 1 - k ELSE size
           /\ \A i \in 1 .. Len(ChunkAt(document, size, k)) :
                ChunkAt(document, size, k)[i] = document[k + i - 1]
<1> DEFINE last == IF k + size > Len(document) THEN Len(document) ELSE k + size - 1
<1>1. k \in Nat \ {0} /\ last \in Nat /\ last <= Len(document) /\ k <= last + 1
  OBVIOUS
<1>2. last + 1 - k = IF k + size > Len(document) THEN Len(document) + 1 - k ELSE size
  OBVIOUS
<1> HIDE DEF last
<1>3. /\ SubSeq(document, k, last) \in Seq(S)
      /\ Len(SubSeq(document, k, last)) = IF k <= last THEN last + 1 - k ELSE 0
      /\ \A i \in 1 .. last + 1 - k : SubSeq(document, k, last)[i] = document[k + i - 1]
  BY <1>1, PartType
<1>4. Len(SubSeq(document, k, last)) = last + 1 - k
  BY <1>1, <1>3
<1>5. ChunkAt(document, size, k) = SubSeq(document, k, last)
  BY DEF ChunkAt, last
<1>. QED
  BY <1>2, <1>3, <1>4, <1>5

LEMMA ChunksType ==
    ASSUME NEW S, NEW document \in Seq(S), NEW size \in Nat \ {0},
           NEW f, IsChunks(f, document, size)
    PROVE  \A k \in 1 .. Len(document) + 1 : f[k] \in Seq(Chunked(S))
<1> DEFINE L == Len(document)
           T == {n \in Nat : \A k \in 1 .. L + 1 : k + n > L => f[k] \in Seq(Chunked(S))}
<1>0. L \in Nat
  OBVIOUS
<1>1. <<>> \in Seq(S)
  OBVIOUS
<1>2. ChunkLines(<<>>) \in Seq(Chunked(S))
  BY <1>1, ChunkFacts
<1>3. ASSUME NEW k \in 1 .. L + 1, BehindChunk(f, document, size, k) \in Seq(Chunked(S))
      PROVE  f[k] \in Seq(Chunked(S))
  <2>1. ChunkLines(ChunkAt(document, size, k)) \in Seq(Chunked(S))
    BY ChunkAtFacts, ChunkFacts
  <2>2. f[k] = ChunkLines(ChunkAt(document, size, k)) \o BehindChunk(f, document, size, k)
    BY ChunksEquation
  <2>. QED
    BY <1>3, <2>1, <2>2, Longer
<1> HIDE DEF L
<1>4. 0 \in T
  <2>1. \A k \in 1 .. L + 1 : k + 0 > L => k + size > L
    BY <1>0
  <2>. QED
    BY <1>2, <1>3, <2>1 DEF BehindChunk, L
<1>5. ASSUME NEW n \in T PROVE n + 1 \in T
  <2> SUFFICES ASSUME NEW k \in 1 .. L + 1, k + (n + 1) > L PROVE f[k] \in Seq(Chunked(S))
    OBVIOUS
  <2>0. n \in Nat /\ \A j \in 1 .. L + 1 : j + n > L => f[j] \in Seq(Chunked(S))
    OBVIOUS
  <2>1. CASE k + size > L
    BY <1>2, <1>3, <2>1 DEF BehindChunk, L
  <2>2. CASE ~ (k + size > L)
    <3>1. k + size \in 1 .. L + 1 /\ k + size + n > L
      BY <1>0, <2>0, <2>2
    <3>2. f[k + size] \in Seq(Chunked(S))
      BY <2>0, <3>1
    <3>. QED
      BY <1>3, <2>2, <3>2 DEF BehindChunk, L
  <2>. QED
    BY <2>1, <2>2
<1>6. T = Nat
  <2>1. T \in SUBSET Nat
    OBVIOUS
  <2> HIDE DEF T
  <2>. QED
    BY <1>4, <1>5, <2>1, Collecting!SetInduction
<1>7. \A k \in 1 .. L + 1 : k + (L + 1) > L
  BY <1>0
<1>. QED
  BY <1>0, <1>6, <1>7 DEF L

-----------------------------------------------------------------------------
(* DecodeChunks.                                                           *)

\* The size of the chunk that begins at a position is there, and so is all
\* of the chunk.
ChunkThere(buffer, k) ==
    /\ ~ (k > Len(buffer))
    /\ IsLine(buffer[k])
    /\ buffer[k].line = "size"
    /\ buffer[k].value # 0
    /\ ~ (k + buffer[k].value > Len(buffer))

DecodesAt(g, buffer, k) ==
    g[k] = IF ChunkThere(buffer, k)
           THEN SubSeq(buffer, k + 1, k + buffer[k].value) \o g[k + buffer[k].value + 2]
           ELSE <<>>

LEMMA DecodeFunction ==
    ASSUME NEW buffer, Len(buffer) \in Nat,
           \A k \in 1 .. Len(buffer) : ChunkThere(buffer, k) => buffer[k].value \in Nat
    PROVE  \E g : /\ \A k \in 1 .. Len(buffer) + 2 : DecodesAt(g, buffer, k)
                  /\ DecodeChunks(buffer) = g[1]
<1> DEFINE L == Len(buffer)
           At(g, k) == IF k > L \/ ~ IsLine(buffer[k]) THEN <<>>
                       ELSE IF buffer[k].line # "size" THEN <<>>
                       ELSE IF buffer[k].value = 0 \/ k + buffer[k].value > L THEN <<>>
                       ELSE SubSeq(buffer, k + 1, k + buffer[k].value)
                            \o g[k + buffer[k].value + 2]
           Is(g) == g = [k \in 1 .. L + 2 |-> At(g, k)]
           Exists(n) == \E g : \A k \in 1 .. L + 2 : k + n > L + 2 => g[k] = At(g, k)
           T == {n \in Nat : Exists(n)}
           from == CHOOSE g : Is(g)
<1>0. L \in Nat
  OBVIOUS
<1>1. ASSUME NEW k \in 1 .. L + 2, ChunkThere(buffer, k)
      PROVE  /\ buffer[k].value \in Nat /\ k + buffer[k].value + 2 \in 1 .. L + 2
             /\ k + buffer[k].value + 2 > k + 1
  <2>1. k \in 1 .. L
    BY <1>0, <1>1 DEF ChunkThere
  <2>. QED
    BY <1>0, <1>1, <2>1 DEF ChunkThere
<1>2. ASSUME NEW g, NEW h, NEW k \in 1 .. L + 2,
             ChunkThere(buffer, k) =>
                g[k + buffer[k].value + 2] = h[k + buffer[k].value + 2]
      PROVE  At(g, k) = At(h, k)
  BY <1>2 DEF ChunkThere
<1>3. Exists(0)
  <2>1. \A k \in 1 .. L + 2 : ~ (k + 0 > L + 2)
    BY <1>0
  <2>. QED
    BY <2>1
<1>4. ASSUME NEW n \in Nat, Exists(n) PROVE Exists(n + 1)
  <2>1. PICK g : \A k \in 1 .. L + 2 : k + n > L + 2 => g[k] = At(g, k)
    BY <1>4
  <2> DEFINE h == [k \in 1 .. L + 2 |-> IF k + n > L + 2 THEN g[k] ELSE At(g, k)]
  <2>2. ASSUME NEW k \in 1 .. L + 2, k + (n + 1) > L + 2 PROVE h[k] = At(h, k)
    <3>1. h[k] = At(g, k)
      BY <2>1
    <3>2. ChunkThere(buffer, k) =>
            h[k + buffer[k].value + 2] = g[k + buffer[k].value + 2]
      <4> SUFFICES ASSUME ChunkThere(buffer, k)
                   PROVE  h[k + buffer[k].value + 2] = g[k + buffer[k].value + 2]
        OBVIOUS
      <4> DEFINE j == k + buffer[k].value + 2
      <4>1. j \in 1 .. L + 2 /\ j > k + 1
        BY <1>1
      <4> HIDE DEF j
      <4>2. j + n > L + 2
        BY <1>0, <2>2, <4>1
      <4>3. h[j] = g[j]
        BY <4>1, <4>2
      <4>. QED
        BY <4>3 DEF j
    <3> HIDE DEF h, At
    <3>3. At(g, k) = At(h, k)
      BY <1>2, <3>2
    <3>. QED
      BY <3>1, <3>3
  <2> HIDE DEF h, At
  <2>. QED
    BY <2>2
<1> HIDE DEF Exists, At
<1>5. T \in SUBSET Nat /\ 0 \in T /\ \A n \in T : n + 1 \in T
  BY <1>3, <1>4
<1>6. T = Nat
  <2> HIDE DEF T
  <2>. QED
    BY <1>5, Collecting!SetInduction
<1>7. \E g : Is(g)
  <2>1. Exists(L + 2)
    BY <1>0, <1>6
  <2>2. PICK g : \A k \in 1 .. L + 2 : k + (L + 2) > L + 2 => g[k] = At(g, k)
    BY <2>1 DEF Exists
  <2> DEFINE h == [k \in 1 .. L + 2 |-> g[k]]
  <2>3. \A k \in 1 .. L + 2 : h[k] = At(h, k)
    <3> TAKE k \in 1 .. L + 2
    <3>1. g[k] = At(g, k) /\ h[k] = g[k]
      BY <1>0, <2>2
    <3>2. ChunkThere(buffer, k) =>
            h[k + buffer[k].value + 2] = g[k + buffer[k].value + 2]
      BY <1>1
    <3> HIDE DEF h
    <3>3. At(g, k) = At(h, k)
      BY <1>2, <3>2
    <3>. QED
      BY <3>1, <3>3
  <2>4. h = [k \in 1 .. L + 2 |-> h[k]]
    OBVIOUS
  <2> HIDE DEF h
  <2>5. Is(h)
    BY <2>3, <2>4
  <2>. QED
    BY <2>5
<1>8. Is(from)
  BY <1>7
<1>9. DecodeChunks(buffer) = from[1]
  BY DEF DecodeChunks, At
<1> HIDE DEF from
<1>10. \A k \in 1 .. L + 2 : from[k] = At(from, k)
  BY <1>8
<1>11. \A k \in 1 .. L + 2 : DecodesAt(from, buffer, k)
  BY <1>10 DEF At, DecodesAt, ChunkThere
<1>. QED
  BY <1>9, <1>11

\* From a position on, a buffer holds the beginning of s; a line of it may be
\* a fragment.
Fits(buffer, p, s) ==
    \A i \in p .. Len(buffer) :
        /\ i - p + 1 <= Len(s)
        /\ \/ buffer[i] = s[i - p + 1]
           \/ buffer[i] = Fragment /\ IsLine(s[i - p + 1])

\* It holds all of s.
Holds(buffer, p, s) ==
    /\ Len(buffer) = p + Len(s) - 1
    /\ \A i \in p .. Len(buffer) : buffer[i] = s[i - p + 1]

LEMMA FitsBehind ==
    ASSUME NEW S, NEW s \in Seq(S), NEW t \in Seq(S), NEW B, NEW buffer \in Seq(B),
           NEW p \in Nat \ {0}, Fits(buffer, p, s \o t)
    PROVE  /\ Fits(buffer, p + Len(s), t)
           /\ Holds(buffer, p, s \o t) => Holds(buffer, p + Len(s), t)
<1> DEFINE q == p + Len(s)
           st == s \o t
<1>1. /\ st \in Seq(S) /\ Len(st) = Len(s) + Len(t)
      /\ \A k \in 1 .. Len(t) : st[Len(s) + k] = t[k]
  BY Longer
<1>2. Len(s) \in Nat /\ Len(t) \in Nat /\ Len(buffer) \in Nat /\ q \in Nat
  OBVIOUS
<1> HIDE DEF st
<1>3. ASSUME NEW i \in q .. Len(buffer), i - p + 1 <= Len(st)
      PROVE  i \in p .. Len(buffer) /\ i - q + 1 <= Len(t) /\ st[i - p + 1] = t[i - q + 1]
  <2>1. i \in p .. Len(buffer) /\ i - q + 1 \in 1 .. Len(t)
        /\ Len(s) + (i - q + 1) = i - p + 1
    BY <1>1, <1>2, <1>3
  <2>2. st[Len(s) + (i - q + 1)] = t[i - q + 1]
    BY <1>1, <2>1
  <2>3. st[i - p + 1] = t[i - q + 1]
    BY <2>1, <2>2
  <2>4. i - q + 1 <= Len(t)
    BY <1>2, <2>1
  <2>. QED
    BY <2>1, <2>3, <2>4
<1>4. ASSUME NEW i \in q .. Len(buffer)
      PROVE  /\ i - q + 1 <= Len(t)
             /\ \/ buffer[i] = t[i - q + 1]
                \/ buffer[i] = Fragment /\ IsLine(t[i - q + 1])
  <2>1. i \in p .. Len(buffer)
    BY <1>2
  <2>2. /\ i - p + 1 <= Len(st)
        /\ \/ buffer[i] = st[i - p + 1]
           \/ buffer[i] = Fragment /\ IsLine(st[i - p + 1])
    BY <2>1 DEF Fits, st
  <2>3. i - q + 1 <= Len(t) /\ st[i - p + 1] = t[i - q + 1]
    BY <1>3, <2>2
  <2> HIDE DEF q
  <2>. QED
    BY <2>2, <2>3
<1>5. ASSUME Holds(buffer, p, st) PROVE Holds(buffer, q, t)
  <2>1. Len(buffer) = q + Len(t) - 1
    BY <1>1, <1>2, <1>5 DEF Holds
  <2>2. ASSUME NEW i \in q .. Len(buffer) PROVE buffer[i] = t[i - q + 1]
    <3>1. i \in p .. Len(buffer)
      BY <1>2
    <3>2. buffer[i] = st[i - p + 1] /\ i - p + 1 <= Len(st)
      BY <1>5, <3>1 DEF Holds, Fits, st
    <3>. QED
      BY <1>3, <3>2
  <2> HIDE DEF q
  <2>. QED
    BY <2>1, <2>2 DEF Holds
<1>6. Fits(buffer, q, t)
  <2> HIDE DEF q
  <2>. QED
    BY <1>4 DEF Fits
<1>. QED
  BY <1>5, <1>6 DEF st

\* Nothing is decoded of a chunk without tokens, or with a fragment for its
\* size.
LEMMA EmptyChunk ==
    ASSUME NEW B, NEW buffer \in Seq(B), NEW p \in Nat \ {0},
           Fits(buffer, p, ChunkLines(<<>>))
    PROVE  ~ ChunkThere(buffer, p)
<1>1. ChunkLines(<<>>)[1] = Line("size", 0)
  <2>1. <<>> \in Seq(B) /\ Len(<<>>) = 0
    OBVIOUS
  <2>. QED
    BY <2>1, ChunkFacts
<1>2. CASE p > Len(buffer)
  BY <1>2 DEF ChunkThere
<1>3. CASE p <= Len(buffer)
  <2>1. p \in p .. Len(buffer) /\ p - p + 1 = 1
    BY <1>3
  <2>2. buffer[p] = Line("size", 0) \/ buffer[p] = Fragment
    BY <1>1, <2>1 DEF Fits
  <2>3. Line("size", 0).value = 0
    BY DEF Line
  <2>. QED
    BY <2>2, <2>3, LineFacts DEF ChunkThere
<1>. QED
  BY <1>2, <1>3

\* A chunk at a position, as a whole or not.
LEMMA FirstChunk ==
    ASSUME NEW S, Plain(S), NEW c \in Seq(S), NEW t \in Seq(Chunked(S)),
           NEW B, NEW buffer \in Seq(B), NEW p \in Nat \ {0},
           Fits(buffer, p, ChunkLines(c) \o t)
    PROVE  /\ ChunkThere(buffer, p) =>
                /\ Len(c) > 0
                /\ buffer[p].value = Len(c)
                /\ SubSeq(buffer, p + 1, p + Len(c)) = c
                /\ Fits(buffer, p + Len(c) + 2, t)
                /\ Holds(buffer, p, ChunkLines(c) \o t) => Holds(buffer, p + Len(c) + 2, t)
           /\ Holds(buffer, p, ChunkLines(c) \o t) /\ Len(c) > 0 => ChunkThere(buffer, p)
<1> DEFINE lines == ChunkLines(c)
           all == lines \o t
           n == Len(c)
           L == Len(buffer)
<1>1. /\ lines \in Seq(Chunked(S)) /\ Len(lines) = n + 2 /\ lines[1] = Line("size", n)
      /\ \A i \in 1 .. n : lines[1 + i] = c[i]
  BY ChunkFacts
<1>2. n \in Nat /\ L \in Nat /\ Len(t) \in Nat
  OBVIOUS
<1> HIDE DEF lines
<1>3. /\ all \in Seq(Chunked(S)) /\ Len(all) = n + 2 + Len(t)
      /\ \A k \in 1 .. n + 2 : all[k] = lines[k]
  <2>0. lines \in Seq(Chunked(S)) /\ t \in Seq(Chunked(S))
    BY <1>1
  <2>1. /\ all \in Seq(Chunked(S)) /\ Len(all) = Len(lines) + Len(t)
        /\ \A k \in 1 .. Len(lines) : all[k] = lines[k]
    BY <2>0, Longer
  <2> HIDE DEF all, n
  <2>. QED
    BY <1>1, <2>1
<1> HIDE DEF all, n, L
<1>4. all[1] = Line("size", n) /\ \A i \in 1 .. n : all[1 + i] = c[i]
  <2>1. 1 \in 1 .. n + 2 /\ \A i \in 1 .. n : 1 + i \in 1 .. n + 2
    BY <1>2
  <2>. QED
    BY <1>1, <1>3, <2>1
<1>5. Fits(buffer, p, all)
  BY DEF all, lines
<1>6. p <= L => buffer[p] = Line("size", n) \/ buffer[p] = Fragment
  <2> SUFFICES ASSUME p <= L PROVE buffer[p] = Line("size", n) \/ buffer[p] = Fragment
    OBVIOUS
  <2>1. p \in p .. Len(buffer) /\ p - p + 1 = 1
    BY <1>2 DEF L
  <2>. QED
    BY <1>4, <1>5, <2>1 DEF Fits
<1>7. Line("size", n).value = n /\ Line("size", n).line = "size"
  BY DEF Line
<1>8. ASSUME ChunkThere(buffer, p)
      PROVE  n > 0 /\ buffer[p].value = n /\ p + n <= L
  <2>1. p <= L
    BY <1>2, <1>8 DEF ChunkThere, L
  <2>2. buffer[p] = Line("size", n)
    BY <1>6, <1>8, <2>1, LineFacts DEF ChunkThere
  <2>3. buffer[p].value = n
    BY <1>7, <2>2
  <2>. QED
    BY <1>2, <1>8, <2>3 DEF ChunkThere, L
<1>9. ASSUME ChunkThere(buffer, p) PROVE SubSeq(buffer, p + 1, p + n) = c
  <2>1. n > 0 /\ p + n <= L
    BY <1>8, <1>9
  <2> DEFINE part == SubSeq(buffer, p + 1, p + n)
  <2>2. p + 1 \in Nat \ {0} /\ p + n \in Nat /\ p + n <= Len(buffer)
    BY <1>2, <2>1 DEF L
  <2>3. /\ part \in Seq(B)
        /\ Len(part) = IF p + 1 <= p + n THEN p + n + 1 - (p + 1) ELSE 0
        /\ \A i \in 1 .. p + n + 1 - (p + 1) : part[i] = buffer[p + 1 + i - 1]
    BY <2>2, PartType
  <2> HIDE DEF part
  <2>4. Len(part) = n
    BY <1>2, <2>1, <2>3
  <2>5. ASSUME NEW i \in 1 .. n PROVE part[i] = c[i]
    <3>1. p + i \in p .. Len(buffer) /\ p + i - p + 1 = 1 + i
          /\ i \in 1 .. p + n + 1 - (p + 1) /\ p + 1 + i - 1 = p + i
      BY <1>2, <2>1 DEF L
    <3>2. \/ buffer[p + i] = all[1 + i]
          \/ buffer[p + i] = Fragment /\ IsLine(all[1 + i])
      BY <1>5, <3>1 DEF Fits
    <3>3. all[1 + i] = c[i] /\ c[i] \in S
      BY <1>4 DEF n
    <3>4. part[i] = buffer[p + i]
      BY <2>3, <3>1
    <3>. QED
      BY <3>2, <3>3, <3>4 DEF Plain
  <2>6. part = c
    <3>1. part \in Seq(B) /\ c \in Seq(S) /\ Len(part) = Len(c)
      BY <2>3, <2>4 DEF n
    <3>2. \A i \in 1 .. Len(c) : part[i] = c[i]
      BY <2>5 DEF n
    <3>. QED
      BY <3>1, <3>2
  <2>. QED
    BY <2>6 DEF part
<1>10. /\ Fits(buffer, p + n + 2, t)
       /\ Holds(buffer, p, all) => Holds(buffer, p + n + 2, t)
  <2>1. p + Len(lines) = p + n + 2
    BY <1>1, <1>2
  <2>2. /\ Fits(buffer, p + Len(lines), t)
        /\ Holds(buffer, p, lines \o t) => Holds(buffer, p + Len(lines), t)
    <3>1. Fits(buffer, p, lines \o t)
      BY <1>5 DEF all
    <3>2. lines \in Seq(Chunked(S))
      BY <1>1
    <3>. QED
      BY <3>1, <3>2, FitsBehind
  <2>. QED
    BY <2>1, <2>2 DEF all
<1>11. ASSUME Holds(buffer, p, all), n > 0 PROVE ChunkThere(buffer, p)
  <2>1. L = p + (n + 2 + Len(t)) - 1
    BY <1>3, <1>11 DEF Holds, L
  <2>2. p \in p .. Len(buffer) /\ p - p + 1 = 1 /\ p + n <= L /\ p <= L
    BY <1>2, <2>1 DEF L
  <2>3. buffer[p] = Line("size", n)
    BY <1>4, <1>11, <2>2 DEF Holds
  <2>. QED
    BY <1>2, <1>7, <1>11, <2>2, <2>3, LineFacts DEF ChunkThere, L
<1>. QED
  BY <1>8, <1>9, <1>10, <1>11 DEF all, lines, n

\* Of a buffer that begins like the chunks of a document, a beginning of the
\* document is decoded; all of it, if the buffer holds all of the chunks.
LEMMA DecodesPrefix ==
    ASSUME NEW S, Plain(S), NEW document \in Seq(S), NEW size \in Nat \ {0},
           NEW B, NEW buffer \in Seq(B), Fits(buffer, 1, Chunks(document, size))
    PROVE  \E m \in 0 .. Len(document) :
              /\ DecodeChunks(buffer) = SubSeq(document, 1, m)
              /\ Holds(buffer, 1, Chunks(document, size)) => m = Len(document)
<1> DEFINE L == Len(document)
           N == Len(buffer)
<1>0. L \in Nat /\ N \in Nat
  OBVIOUS
<1>1. PICK f : IsChunks(f, document, size) /\ Chunks(document, size) = f[1]
  BY <1>0, ChunksFunction
<1>2. \A k \in 1 .. L + 1 : f[k] \in Seq(Chunked(S))
  BY <1>1, ChunksType
<1>3. PICK D : /\ \A p \in 1 .. N + 2 : DecodesAt(D, buffer, p)
               /\ DecodeChunks(buffer) = D[1]
  <2>1. ASSUME NEW k \in 1 .. N, ChunkThere(buffer, k) PROVE buffer[k].value \in Nat
    <3>1. k \in 1 .. Len(buffer) /\ k - 1 + 1 = k
      OBVIOUS
    <3>2. k <= Len(f[1]) /\ buffer[k] \in {f[1][k], Fragment}
      BY <1>1, <3>1 DEF Fits
    <3>3. buffer[k] = f[1][k]
      BY <2>1, <3>2, LineFacts DEF ChunkThere
    <3>4. f[1][k] \in Chunked(S)
      <4>1. f[1] \in Seq(Chunked(S)) /\ k \in 1 .. Len(f[1])
        BY <1>0, <1>2, <3>2
      <4>. QED
        BY <4>1
    <3>5. f[1][k] \notin S
      BY <2>1, <3>3 DEF Plain, ChunkThere
    <3>6. f[1][k] \in [line : {"size", "end"}, value : Nat]
      BY <3>4, <3>5 DEF Chunked
    <3>. QED
      BY <3>3, <3>6
  <2>. QED
    BY <1>0, <2>1, DecodeFunction
<1> DEFINE Good(k, p) == \E m \in k - 1 .. L : /\ D[p] = SubSeq(document, k, m)
                                               /\ Holds(buffer, p, f[k]) => m = L
           T == {n \in Nat : \A k \in 1 .. L + 1 : \A p \in 1 .. N + 2 :
                                k + n > L /\ Fits(buffer, p, f[k]) => Good(k, p)}
<1>4. ASSUME NEW k \in 1 .. L + 1, NEW p \in 1 .. N + 2, Fits(buffer, p, f[k]),
             \A q \in 1 .. N + 2 :
                k + size <= L /\ Fits(buffer, q, f[k + size]) => Good(k + size, q)
      PROVE  Good(k, p)
  <2> DEFINE c == ChunkAt(document, size, k)
             t == BehindChunk(f, document, size, k)
             q == p + Len(c) + 2
  <2>1. /\ c \in Seq(S) /\ Len(c) \in Nat
        /\ Len(c) = IF k + size > L THEN L + 1 - k ELSE size
        /\ c = SubSeq(document, k, IF k + size > L THEN L ELSE k + size - 1)
    <3>1. /\ c \in Seq(S) /\ Len(c) = IF k + size > L THEN L + 1 - k ELSE size
      BY ChunkAtFacts
    <3>2. Len(c) \in Nat
      BY <3>1
    <3>. QED
      BY <3>1, <3>2 DEF ChunkAt
  <2>2. t \in Seq(Chunked(S))
    <3>1. CASE k + size > L
      <4>1. <<>> \in Seq(S)
        OBVIOUS
      <4>. QED
        BY <3>1, <4>1, ChunkFacts DEF BehindChunk
    <3>2. CASE ~ (k + size > L)
      <4>1. k + size \in 1 .. L + 1
        BY <3>2
      <4>. QED
        BY <1>2, <3>2, <4>1 DEF BehindChunk
    <3>. QED
      BY <3>1, <3>2
  <2>3. f[k] = ChunkLines(c) \o t
    BY <1>1, ChunksEquation
  <2> HIDE DEF c, t, L, N
  <2>4. /\ ChunkThere(buffer, p) =>
             /\ buffer[p].value = Len(c)
             /\ SubSeq(buffer, p + 1, p + Len(c)) = c
             /\ Fits(buffer, p + Len(c) + 2, t)
             /\ Holds(buffer, p, f[k]) => Holds(buffer, p + Len(c) + 2, t)
        /\ Holds(buffer, p, f[k]) /\ Len(c) > 0 => ChunkThere(buffer, p)
    <3>1. p \in Nat \ {0} /\ Fits(buffer, p, ChunkLines(c) \o t)
      BY <1>4, <2>3
    <3>2. c \in Seq(S) /\ t \in Seq(Chunked(S)) /\ buffer \in Seq(B)
      BY <2>1, <2>2
    <3>3. /\ ChunkThere(buffer, p) =>
                /\ buffer[p].value = Len(c)
                /\ SubSeq(buffer, p + 1, p + Len(c)) = c
                /\ Fits(buffer, p + Len(c) + 2, t)
                /\ Holds(buffer, p, ChunkLines(c) \o t)
                        => Holds(buffer, p + Len(c) + 2, t)
          /\ Holds(buffer, p, ChunkLines(c) \o t) /\ Len(c) > 0 => ChunkThere(buffer, p)
      BY <3>1, <3>2, FirstChunk
    <3>. QED
      BY <2>3, <3>3
  <2>5. CASE ~ ChunkThere(buffer, p)
    <3>1. D[p] = <<>>
      BY <1>3, <2>5 DEF DecodesAt
    <3>2. SubSeq(document, k, k - 1) = <<>>
      OBVIOUS
    <3>3. k - 1 \in k - 1 .. L
      BY <1>0
    <3>4. Holds(buffer, p, f[k]) => k - 1 = L
      <4>1. Holds(buffer, p, f[k]) => Len(c) = 0
        BY <2>1, <2>4, <2>5
      <4>2. Len(c) = 0 => k - 1 = L
        BY <1>0, <2>1
      <4>. QED
        BY <4>1, <4>2
    <3>. QED
      BY <3>1, <3>2, <3>3, <3>4
  <2>6. CASE ChunkThere(buffer, p)
    <3>1. D[p] = c \o D[q]
      BY <1>3, <2>4, <2>6 DEF DecodesAt
    <3>2. q \in 1 .. N + 2
      <4>1. ~ (p + Len(c) > N)
        BY <2>4, <2>6 DEF ChunkThere, N
      <4>. QED
        BY <1>0, <2>1, <4>1
    <3>3. CASE k + size > L
      <4>1. t = ChunkLines(<<>>)
        BY <3>3 DEF t, BehindChunk, L
      <4>2. ~ ChunkThere(buffer, q)
        BY <2>4, <2>6, <3>2, <4>1, EmptyChunk
      <4>3. D[q] = <<>>
        BY <1>3, <3>2, <4>2 DEF DecodesAt
      <4>4. D[p] = c
        BY <2>1, <3>1, <4>3
      <4>5. c = SubSeq(document, k, L) /\ L \in k - 1 .. L
        BY <1>0, <2>1, <3>3
      <4>. QED
        BY <4>4, <4>5
    <3>4. CASE ~ (k + size > L)
      <4>1. t = f[k + size]
        BY <3>4 DEF t, BehindChunk, L
      <4>2. k + size <= L
        BY <1>0, <3>4
      <4>3. Good(k + size, q)
        BY <1>4, <2>4, <2>6, <3>2, <4>1, <4>2 DEF N
      <4>4. PICK m \in k + size - 1 .. L : /\ D[q] = SubSeq(document, k + size, m)
                                           /\ Holds(buffer, q, f[k + size]) => m = L
        BY <4>3
      <4>5. c = SubSeq(document, k, k + size - 1)
        BY <2>1, <3>4
      <4>6. SubSeq(document, k, k + size - 1) \o SubSeq(document, k + size, m)
              = SubSeq(document, k, m)
        <5> DEFINE b == k + size - 1
        <5>1. k \in Nat \ {0} /\ b \in Nat /\ m \in Nat /\ k <= b + 1 /\ b <= m
              /\ m <= Len(document) /\ b + 1 = k + size
          BY <1>0 DEF L
        <5> HIDE DEF b
        <5>2. SubSeq(document, k, b) \o SubSeq(document, b + 1, m) = SubSeq(document, k, m)
          BY <5>1, PartsJoin
        <5>. QED
          BY <5>1, <5>2 DEF b
      <4>7. m \in k - 1 .. L
        BY <1>0
      <4>8. Holds(buffer, p, f[k]) => m = L
        BY <2>4, <2>6, <4>1, <4>4
      <4>. QED
        BY <3>1, <4>4, <4>5, <4>6, <4>7, <4>8
    <3>. QED
      BY <3>3, <3>4
  <2>. QED
    BY <2>5, <2>6
<1> HIDE DEF Good, L, N
<1>5. T \in SUBSET Nat /\ 0 \in T
  <2>1. ASSUME NEW k \in 1 .. L + 1, k + 0 > L PROVE ~ (k + size <= L)
    BY <1>0, <2>1
  <2>. QED
    BY <1>4, <2>1
<1>6. ASSUME NEW n \in T PROVE n + 1 \in T
  <2> SUFFICES ASSUME NEW k \in 1 .. L + 1, NEW p \in 1 .. N + 2, k + (n + 1) > L,
                      Fits(buffer, p, f[k])
               PROVE  Good(k, p)
    OBVIOUS
  <2>0. n \in Nat /\ \A j \in 1 .. L + 1 : \A q \in 1 .. N + 2 :
                        j + n > L /\ Fits(buffer, q, f[j]) => Good(j, q)
    OBVIOUS
  <2>1. k + size <= L => k + size \in 1 .. L + 1 /\ k + size + n > L
    BY <1>0, <2>0
  <2> HIDE DEF T
  <2>2. \A q \in 1 .. N + 2 :
            k + size <= L /\ Fits(buffer, q, f[k + size]) => Good(k + size, q)
    BY <2>0, <2>1
  <2>. QED
    BY <1>4, <2>2
<1>7. T = Nat
  <2> HIDE DEF T
  <2>. QED
    BY <1>5, <1>6, Collecting!SetInduction
<1>8. Good(1, 1)
  <2>1. 1 \in 1 .. L + 1 /\ 1 \in 1 .. N + 2 /\ 1 + L > L
    BY <1>0
  <2>2. L \in T
    BY <1>0, <1>7
  <2>. QED
    BY <1>1, <2>1, <2>2
<1>. QED
  BY <1>1, <1>3, <1>8 DEF Good, L

-----------------------------------------------------------------------------
(* Headers.                                                                *)

HeadLines(page) ==
    <<Line("status", page.code)>>
    \o (IF IsRedirect(page.code) THEN <<Line("Location", page.to)>> ELSE <<>>)
    \o (CASE page.encoding = "length"  -> <<Line("Content-Length", page.size)>>
          [] page.encoding = "chunked" -> <<Line("Transfer-Encoding", "chunked")>>
          [] page.encoding = "close"   -> <<>>)
    \o <<Line("blank", 0)>>

BodyLines(page, document) ==
    IF page.encoding = "chunked" THEN Chunks(document, page.size) ELSE document

\* All lines of an answer.
LinesOf(page) ==
    [line  : {"status", "Location", "Content-Length", "Transfer-Encoding", "blank",
              "size", "end"},
     value : Nat \cup {page.code, page.to, page.size, "chunked"}]

LEMMA WireParts ==
    ASSUME NEW page, NEW document
    PROVE  Wire(page, document) = HeadLines(page) \o BodyLines(page, document)
  BY DEF Wire, HeadLines, BodyLines

LEMMA OneMore ==
    ASSUME NEW S, NEW s \in Seq(S), NEW x \in S
    PROVE  /\ s \o <<x>> \in Seq(S)
           /\ Len(s \o <<x>>) = Len(s) + 1
           /\ (s \o <<x>>)[Len(s) + 1] = x
           /\ \A k \in 1 .. Len(s) : (s \o <<x>>)[k] = s[k]
<1> DEFINE t == <<x>>
<1>1. t \in Seq(S) /\ Len(t) = 1 /\ t[1] = x
  OBVIOUS
<1> HIDE DEF t
<1>2. /\ s \o t \in Seq(S)
      /\ Len(s \o t) = Len(s) + Len(t)
      /\ \A k \in 1 .. Len(s) : (s \o t)[k] = s[k]
      /\ \A k \in 1 .. Len(t) : (s \o t)[Len(s) + k] = t[k]
  BY <1>1, Longer
<1>3. (s \o t)[Len(s) + 1] = x
  BY <1>1, <1>2
<1>. QED
  BY <1>1, <1>2, <1>3 DEF t

LEMMA OneOrTwo ==
    ASSUME NEW S, NEW x \in S, NEW y \in S, NEW t, NEW two,
           two => t = <<y>>, ~ two => t = <<>>
    PROVE  /\ <<x>> \o t \in Seq(S)
           /\ Len(<<x>> \o t) >= 1
           /\ (<<x>> \o t)[1] = x
           /\ \A k \in 1 .. Len(<<x>> \o t) :
                (<<x>> \o t)[k] = x \/ (two /\ (<<x>> \o t)[k] = y)
<1> DEFINE one == <<x>>
<1>1. one \in Seq(S) /\ Len(one) = 1 /\ one[1] = x
  OBVIOUS
<1> HIDE DEF one
<1>2. /\ one \o t \in Seq(S)
      /\ Len(one \o t) >= 1
      /\ (one \o t)[1] = x
      /\ \A k \in 1 .. Len(one \o t) :
           (one \o t)[k] = x \/ (two /\ (one \o t)[k] = y)
  <2>1. CASE two
    <3>1. t = <<y>>
      BY <2>1
    <3> DEFINE both == one \o <<y>>
    <3>a. one \in Seq(S)
      BY <1>1
    <3>2. /\ both \in Seq(S) /\ Len(both) = Len(one) + 1
          /\ both[Len(one) + 1] = y
          /\ \A k \in 1 .. Len(one) : both[k] = one[k]
      BY <3>a, OneMore
    <3> HIDE DEF both, one
    <3>3. Len(both) = 2 /\ both[1] = x /\ both[2] = y
      BY <1>1, <3>2
    <3>4. /\ Len(both) >= 1 /\ both[1] = x
          /\ \A k \in 1 .. Len(both) : both[k] = x \/ (two /\ both[k] = y)
      BY <2>1, <3>3
    <3>. QED
      BY <3>1, <3>2, <3>4 DEF both
  <2>2. CASE ~ two
    <3>1. t = <<>> /\ one \o <<>> = one
      BY <1>1, <2>2
    <3>2. one \o t = one
      BY <3>1
    <3>3. /\ Len(one) >= 1
          /\ \A k \in 1 .. Len(one) : one[k] = x
      BY <1>1
    <3>. QED
      BY <1>1, <3>2, <3>3
  <2>. QED
    BY <2>1, <2>2
<1>. QED
  BY <1>2 DEF one

LEMMA HeadFacts ==
    ASSUME NEW page, page.encoding \in Encoding
    PROVE  LET head == HeadLines(page)
           IN /\ head \in Seq(LinesOf(page)) /\ Len(head) >= 1
              /\ head[1] = Line("status", page.code)
              /\ \A k \in 1 .. Len(head) :
                   /\ head[k].line = "blank" <=> k = Len(head)
                   /\ head[k].line = "Location" =>
                        IsRedirect(page.code) /\ head[k].value = page.to
                   /\ head[k].line = "Content-Length" =>
                        page.encoding = "length" /\ head[k].value = page.size
                   /\ head[k].line = "Transfer-Encoding" => page.encoding = "chunked"
              /\ page.encoding = "length" =>
                   \E k \in 1 .. Len(head) : head[k].line = "Content-Length"
              /\ page.encoding = "chunked" =>
                   \E k \in 1 .. Len(head) : head[k].line = "Transfer-Encoding"
<1> DEFINE s == Line("status", page.code)
           l == Line("Location", page.to)
           n == Line("Content-Length", page.size)
           c == Line("Transfer-Encoding", "chunked")
           b == Line("blank", 0)
           X == LinesOf(page)
<1>1. s \in X /\ l \in X /\ n \in X /\ c \in X /\ b \in X
  BY DEF Line, LinesOf
<1>2. /\ s.line = "status" /\ l.line = "Location" /\ n.line = "Content-Length"
      /\ c.line = "Transfer-Encoding" /\ b.line = "blank"
      /\ l.value = page.to /\ n.value = page.size
  BY DEF Line
<1>3. \/ page.encoding = "length" \/ page.encoding = "chunked" \/ page.encoding = "close"
  BY DEF Encoding
<1>4. HeadLines(page)
        = <<s>> \o (IF IsRedirect(page.code) THEN <<l>> ELSE <<>>)
           \o (CASE page.encoding = "length"  -> <<n>>
                 [] page.encoding = "chunked" -> <<c>>
                 [] page.encoding = "close"   -> <<>>)
           \o <<b>>
  BY DEF HeadLines
<1> HIDE DEF s, l, n, c, b, X
<1> DEFINE to == IF IsRedirect(page.code) THEN <<l>> ELSE <<>>
           how == CASE page.encoding = "length"  -> <<n>>
                    [] page.encoding = "chunked" -> <<c>>
                    [] page.encoding = "close"   -> <<>>
           A == <<s>> \o to
           C == A \o how
           D == C \o <<b>>
<1>5. HeadLines(page) = D
  BY <1>4
<1>6. /\ IsRedirect(page.code) => to = <<l>>
      /\ ~ IsRedirect(page.code) => to = <<>>
  OBVIOUS
<1>7. /\ page.encoding = "length" => how = <<n>>
      /\ page.encoding = "chunked" => how = <<c>>
      /\ page.encoding = "close" => how = <<>>
  BY Zenon
<1> HIDE DEF to, how
<1>8. /\ A \in Seq(X) /\ Len(A) >= 1 /\ A[1] = s
      /\ \A k \in 1 .. Len(A) : A[k] = s \/ (IsRedirect(page.code) /\ A[k] = l)
  BY <1>1, <1>6, OneOrTwo
<1> HIDE DEF A
<1>9. /\ C \in Seq(X) /\ Len(C) >= 1 /\ C[1] = s
      /\ \A k \in 1 .. Len(C) :
           \/ C[k] = s
           \/ IsRedirect(page.code) /\ C[k] = l
           \/ page.encoding = "length" /\ C[k] = n
           \/ page.encoding = "chunked" /\ C[k] = c
      /\ page.encoding = "length" => \E k \in 1 .. Len(C) : C[k] = n
      /\ page.encoding = "chunked" => \E k \in 1 .. Len(C) : C[k] = c
  <2>1. CASE page.encoding = "length"
    <3>1. C = A \o <<n>>
      BY <1>7, <2>1
    <3>2. /\ C \in Seq(X) /\ Len(C) = Len(A) + 1 /\ C[Len(A) + 1] = n
          /\ \A k \in 1 .. Len(A) : C[k] = A[k]
      BY <1>1, <1>8, <3>1, OneMore
    <3>. QED
      BY <1>8, <2>1, <3>2
  <2>2. CASE page.encoding = "chunked"
    <3>1. C = A \o <<c>>
      BY <1>7, <2>2
    <3>2. /\ C \in Seq(X) /\ Len(C) = Len(A) + 1 /\ C[Len(A) + 1] = c
          /\ \A k \in 1 .. Len(A) : C[k] = A[k]
      BY <1>1, <1>8, <3>1, OneMore
    <3>. QED
      BY <1>8, <2>2, <3>2
  <2>3. CASE page.encoding = "close"
    <3>1. C = A
      BY <1>7, <1>8, <2>3
    <3>. QED
      BY <1>8, <2>3, <3>1
  <2>. QED
    BY <1>3, <2>1, <2>2, <2>3
<1> HIDE DEF C
<1>10. /\ D \in Seq(X) /\ Len(D) = Len(C) + 1 /\ D[Len(C) + 1] = b
       /\ \A k \in 1 .. Len(C) : D[k] = C[k]
  BY <1>1, <1>9, OneMore
<1> HIDE DEF D
<1>11. \A k \in 1 .. Len(D) : k \in 1 .. Len(C) \/ k = Len(C) + 1
  BY <1>9, <1>10
<1>12. /\ D \in Seq(X) /\ Len(D) >= 1
       /\ D[1] = s
       /\ \A k \in 1 .. Len(D) :
           /\ D[k].line = "blank" <=> k = Len(D)
           /\ D[k].line = "Location" =>
                IsRedirect(page.code) /\ D[k].value = page.to
           /\ D[k].line = "Content-Length" =>
                page.encoding = "length" /\ D[k].value = page.size
           /\ D[k].line = "Transfer-Encoding" => page.encoding = "chunked"
       /\ page.encoding = "length" =>
           \E k \in 1 .. Len(D) : D[k].line = "Content-Length"
       /\ page.encoding = "chunked" =>
           \E k \in 1 .. Len(D) : D[k].line = "Transfer-Encoding"
  <2>1. D[1] = s
    BY <1>9, <1>10
  <2>2. ASSUME NEW k \in 1 .. Len(D)
        PROVE  /\ D[k].line = "blank" <=> k = Len(D)
               /\ D[k].line = "Location" =>
                    IsRedirect(page.code) /\ D[k].value = page.to
               /\ D[k].line = "Content-Length" =>
                    page.encoding = "length" /\ D[k].value = page.size
               /\ D[k].line = "Transfer-Encoding" => page.encoding = "chunked"
    <3>1. CASE k \in 1 .. Len(C)
      <4>1. k # Len(D)
        BY <1>9, <1>10, <3>1
      <4>. QED
        BY <1>2, <1>9, <1>10, <3>1, <4>1
    <3>2. CASE k = Len(C) + 1
      BY <1>2, <1>10, <3>2
    <3>. QED
      BY <1>11, <3>1, <3>2
  <2>3. \A k \in 1 .. Len(C) : k \in 1 .. Len(D)
    BY <1>9, <1>10
  <2>4. Len(D) >= 1
    BY <1>9, <1>10
  <2>. QED
    BY <1>2, <1>9, <1>10, <2>1, <2>2, <2>3, <2>4
<1>. QED
  BY <1>5, <1>12 DEF s, X

-----------------------------------------------------------------------------
(* What was received.                                                      *)

\* The first k lines and tokens, and perhaps a fragment of the next line.
Begins(buffer, wire, k) ==
    /\ k \in 0 .. Len(wire)
    /\ \A i \in 1 .. k : buffer[i] = wire[i]
    /\ \/ Len(buffer) = k
       \/ /\ Len(buffer) = k + 1 /\ buffer[k + 1] = Fragment
          /\ k < Len(wire) /\ IsLine(wire[k + 1])

LEMMA ReceivedFacts ==
    ASSUME NEW X, NEW wire \in Seq(X), NEW buffer \in Received(wire)
    PROVE  /\ buffer \in Seq(X \cup {Fragment})
           /\ \E k \in 0 .. Len(wire) : Begins(buffer, wire, k)
<1> DEFINE B == X \cup {Fragment}
<1>1. ASSUME NEW k \in 0 .. Len(wire)
      PROVE  /\ SubSeq(wire, 1, k) \in Seq(B)
             /\ Len(SubSeq(wire, 1, k)) = k
             /\ \A i \in 1 .. k : SubSeq(wire, 1, k)[i] = wire[i]
  <2> DEFINE part == SubSeq(wire, 1, k)
  <2>1. k \in Nat /\ k <= Len(wire) /\ 1 \in Nat \ {0}
    OBVIOUS
  <2>2. /\ part \in Seq(X)
        /\ Len(part) = IF 1 <= k THEN k + 1 - 1 ELSE 0
        /\ \A i \in 1 .. k + 1 - 1 : part[i] = wire[1 + i - 1]
    BY <2>1, PartType
  <2> HIDE DEF part
  <2>3. part \in Seq(B)
    BY <2>2
  <2>4. Len(part) = k
    BY <2>1, <2>2
  <2>5. \A i \in 1 .. k : i \in 1 .. k + 1 - 1 /\ 1 + i - 1 = i
    BY <2>1
  <2>. QED
    BY <2>2, <2>3, <2>4, <2>5 DEF part
<1>2. ASSUME NEW k \in 0 .. Len(wire), buffer = SubSeq(wire, 1, k)
      PROVE  buffer \in Seq(B) /\ Begins(buffer, wire, k)
  BY <1>1, <1>2 DEF Begins
<1>3. ASSUME NEW k \in 0 .. Len(wire) - 1, IsLine(wire[k + 1]),
             buffer = Append(SubSeq(wire, 1, k), Fragment)
      PROVE  buffer \in Seq(B) /\ Begins(buffer, wire, k)
  <2> DEFINE part == SubSeq(wire, 1, k)
  <2>0. k \in 0 .. Len(wire) /\ k < Len(wire)
    OBVIOUS
  <2>1. /\ part \in Seq(B) /\ Len(part) = k
        /\ \A i \in 1 .. k : part[i] = wire[i]
    BY <1>1, <2>0
  <2> HIDE DEF part
  <2>2. buffer = Append(part, Fragment)
    BY <1>3 DEF part
  <2>3. /\ buffer \in Seq(B) /\ Len(buffer) = k + 1 /\ buffer[k + 1] = Fragment
        /\ \A i \in 1 .. k : buffer[i] = part[i]
    BY <2>1, <2>2
  <2>. QED
    BY <1>3, <2>0, <2>1, <2>3 DEF Begins
<1>4. CASE buffer \in {SubSeq(wire, 1, k) : k \in 0 .. Len(wire)}
  BY <1>2, <1>4
<1>5. CASE buffer \in {Append(SubSeq(wire, 1, k), Fragment) :
                          k \in {j \in 0 .. Len(wire) - 1 : IsLine(wire[j + 1])}}
  <2>1. PICK k \in 0 .. Len(wire) - 1 :
           IsLine(wire[k + 1]) /\ buffer = Append(SubSeq(wire, 1, k), Fragment)
    BY <1>5
  <2>2. k \in 0 .. Len(wire)
    OBVIOUS
  <2>. QED
    BY <1>3, <2>1, <2>2
<1>. QED
  BY <1>4, <1>5 DEF Received

\* The headers end at the blank line, or before it where the answer was cut.
LEMMA HeadEndIs ==
    ASSUME NEW X, NEW wire \in Seq(X), NEW B, NEW buffer \in Seq(B),
           NEW k \in 0 .. Len(wire), Begins(buffer, wire, k),
           NEW H \in 1 .. Len(wire),
           \A i \in 1 .. H : IsLine(wire[i]) /\ (wire[i].line = "blank" <=> i = H)
    PROVE  HeadEnd(buffer) = IF H <= k THEN H ELSE k
<1> DEFINE end == IF H <= k THEN H ELSE k
           L == Len(buffer)
           Ends(n) == /\ \A j \in 1 .. n - 1 : IsLine(buffer[j]) /\ buffer[j].line # "blank"
                      /\ n > 0 => IsLine(buffer[n])
                      /\ \/ n > 0 /\ buffer[n].line = "blank"
                         \/ n = L
                         \/ ~ IsLine(buffer[n + 1])
<1>0. L \in Nat /\ k \in Nat /\ H \in Nat /\ L \in {k, k + 1} /\ end \in 0 .. L
      /\ end <= k /\ end <= H
  BY DEF Begins
<1>1. \A i \in 1 .. end : IsLine(buffer[i]) /\ (buffer[i].line = "blank" <=> i = H)
  BY DEF Begins
<1>2. ~ (H <= k) => end = L \/ ~ IsLine(buffer[end + 1])
  BY LineFacts DEF Begins
<1> HIDE DEF end, L
<1>3. Ends(end)
  <2>1. \A j \in 1 .. end - 1 : j \in 1 .. end /\ j # H
    BY <1>0
  <2>2. end > 0 => end \in 1 .. end
    BY <1>0
  <2>3. H <= k => end = H /\ end > 0
    BY <1>0 DEF end
  <2>. QED
    BY <1>1, <1>2, <2>1, <2>2, <2>3
<1>4. ASSUME NEW n \in 0 .. L, Ends(n) PROVE n = end
  <2>1. CASE n < end
    <3>1. n \in 1 .. end => buffer[n].line # "blank"
      BY <1>0, <1>1, <2>1
    <3>2. n # L /\ n + 1 \in 1 .. end
      BY <1>0, <2>1
    <3>3. IsLine(buffer[n + 1])
      BY <1>1, <3>2
    <3>4. n > 0 => n \in 1 .. end
      BY <1>0, <2>1
    <3>. QED
      BY <1>4, <3>1, <3>2, <3>3, <3>4
  <2>2. CASE n > end
    <3>1. CASE H <= k
      <4>1. end = H /\ H \in 1 .. n - 1 /\ H \in 1 .. end
        BY <1>0, <2>2, <3>1 DEF end
      <4>. QED
        BY <1>1, <1>4, <4>1
    <3>2. CASE ~ (H <= k)
      <4>1. end # L /\ ~ IsLine(buffer[end + 1])
        BY <1>0, <1>2, <2>2, <3>2
      <4>2. end + 1 \in 1 .. n - 1 \/ (end + 1 = n /\ n > 0)
        BY <1>0, <2>2
      <4>. QED
        BY <1>4, <4>1, <4>2
    <3>. QED
      BY <3>1, <3>2
  <2>. QED
    BY <1>0, <2>1, <2>2
<1>5. HeadEnd(buffer) = CHOOSE n \in 0 .. L : Ends(n)
  BY DEF HeadEnd, L
<1> HIDE DEF Ends
<1>6. HeadEnd(buffer) = end
  BY <1>0, <1>3, <1>4, <1>5
<1>. QED
  BY <1>6 DEF end

-----------------------------------------------------------------------------
(* The body.                                                               *)

LEMMA PrefixOf ==
    ASSUME NEW S, NEW s \in Seq(S), NEW m \in Nat, NEW n \in Nat, m <= n, n <= Len(s)
    PROVE  IsPrefix(SubSeq(s, 1, m), SubSeq(s, 1, n))
<1> DEFINE u == SubSeq(s, 1, m)
           v == SubSeq(s, 1, n)
<1>1. /\ u \in Seq(S) /\ Len(u) = m
      /\ \A i \in 1 .. m : u[i] = s[i]
  <2>1. /\ u \in Seq(S) /\ Len(u) = IF 1 <= m THEN m + 1 - 1 ELSE 0
        /\ \A i \in 1 .. m + 1 - 1 : u[i] = s[1 + i - 1]
    BY PartType
  <2> HIDE DEF u
  <2>. QED
    BY <2>1
<1>2. /\ v \in Seq(S) /\ Len(v) = n
      /\ \A i \in 1 .. n : v[i] = s[i]
  <2>1. /\ v \in Seq(S) /\ Len(v) = IF 1 <= n THEN n + 1 - 1 ELSE 0
        /\ \A i \in 1 .. n + 1 - 1 : v[i] = s[1 + i - 1]
    BY PartType
  <2> HIDE DEF v
  <2>. QED
    BY <2>1
<1> HIDE DEF u, v
<1>3. SubSeq(u, 1, m) = SubSeq(v, 1, m)
  <2>1. /\ SubSeq(u, 1, m) \in Seq(S) /\ Len(SubSeq(u, 1, m)) = IF 1 <= m THEN m + 1 - 1 ELSE 0
        /\ \A i \in 1 .. m + 1 - 1 : SubSeq(u, 1, m)[i] = u[1 + i - 1]
    BY <1>1, PartType
  <2>2. /\ SubSeq(v, 1, m) \in Seq(S) /\ Len(SubSeq(v, 1, m)) = IF 1 <= m THEN m + 1 - 1 ELSE 0
        /\ \A i \in 1 .. m + 1 - 1 : SubSeq(v, 1, m)[i] = v[1 + i - 1]
    BY <1>2, PartType
  <2> DEFINE x == SubSeq(u, 1, m)
             y == SubSeq(v, 1, m)
  <2> HIDE DEF x, y
  <2>3. /\ x \in Seq(S) /\ y \in Seq(S) /\ Len(x) = Len(y)
        /\ \A i \in 1 .. Len(x) : x[i] = y[i]
    BY <1>1, <1>2, <2>1, <2>2 DEF x, y
  <2>4. x = y
    BY <2>3, SameSequence
  <2>. QED
    BY <2>4 DEF x, y
<1>4. IsPrefix(u, v)
  BY <1>1, <1>2, <1>3 DEF IsPrefix
<1>. QED
  BY <1>4 DEF u, v

LEMMA WholePrefix ==
    ASSUME NEW S, NEW s \in Seq(S)
    PROVE  SubSeq(s, 1, Len(s)) = s
  OBVIOUS

\* Where no size of a chunk begins, nothing is decoded.
LEMMA NothingDecoded ==
    ASSUME NEW buffer, Len(buffer) \in Nat, \A k \in 1 .. Len(buffer) : ~ ChunkThere(buffer, k)
    PROVE  DecodeChunks(buffer) = <<>>
<1>1. PICK g : /\ \A k \in 1 .. Len(buffer) + 2 : DecodesAt(g, buffer, k)
               /\ DecodeChunks(buffer) = g[1]
  BY DecodeFunction
<1>2. ~ ChunkThere(buffer, 1)
  BY DEF ChunkThere
<1>3. DecodesAt(g, buffer, 1)
  BY <1>1
<1>. QED
  BY <1>1, <1>2, <1>3 DEF DecodesAt

\* An answer with a status line, and what is read of its headers.
Answered(page, buffer, k) ==
    LET head == HeadLines(page)
        end == IF Len(head) <= k THEN Len(head) ELSE k
    IN /\ k \in Nat \ {0}
       /\ HeadEnd(buffer) = end
       /\ \A i \in 1 .. end : i \in 1 .. Len(head) /\ buffer[i] = head[i]

LEMMA AnswerFacts ==
    ASSUME NEW S, NEW page, page.encoding \in Encoding,
           NEW rest \in Seq(S), NEW buffer,
           buffer \in Received(HeadLines(page) \o rest), HasStatus(buffer)
    PROVE  \E k \in 1 .. Len(HeadLines(page)) + Len(rest) :
              /\ buffer \in Seq(LinesOf(page) \cup S \cup {Fragment})
              /\ Begins(buffer, HeadLines(page) \o rest, k)
              /\ Answered(page, buffer, k)
<1> DEFINE head == HeadLines(page)
           X == LinesOf(page) \cup S
           wire == head \o rest
           H == Len(head)
<1>1. head \in Seq(LinesOf(page)) /\ Len(head) >= 1
      /\ \A k \in 1 .. H : head[k].line = "blank" <=> k = H
  BY HeadFacts
<1>2. H \in Nat \ {0}
  <2> HIDE DEF head
  <2>. QED
    BY <1>1
<1>3. head \in Seq(X) /\ rest \in Seq(X)
  <2> HIDE DEF head
  <2>. QED
    BY <1>1
<1> HIDE DEF X, head
<1>4. /\ wire \in Seq(X) /\ Len(wire) = H + Len(rest)
      /\ \A i \in 1 .. H : wire[i] = head[i]
  BY <1>3, Longer
<1> HIDE DEF wire
<1>5. PICK k \in 0 .. Len(wire) : buffer \in Seq(X \cup {Fragment}) /\ Begins(buffer, wire, k)
  BY <1>4, ReceivedFacts DEF wire, head
<1>6. k # 0
  <2> SUFFICES ASSUME k = 0 PROVE FALSE
    OBVIOUS
  <2>1. Len(buffer) = 0 \/ buffer[1] = Fragment
    BY <1>5 DEF Begins
  <2>. QED
    BY <1>5, <2>1, LineFacts DEF HasStatus
<1>7. H \in 1 .. Len(wire)
  BY <1>2, <1>4
<1>8. ASSUME NEW i \in 1 .. H
      PROVE  IsLine(wire[i]) /\ (wire[i].line = "blank" <=> i = H)
  <2>1. head[i] \in LinesOf(page)
    BY <1>1
  <2>2. IsLine(head[i])
    BY <2>1 DEF IsLine, LinesOf
  <2>. QED
    BY <1>1, <1>4, <2>2
<1>9. HeadEnd(buffer) = IF H <= k THEN H ELSE k
  <2> DEFINE B == X \cup {Fragment}
  <2>1. wire \in Seq(X) /\ buffer \in Seq(B)
    BY <1>4, <1>5
  <2>2. Begins(buffer, wire, k)
    BY <1>5
  <2>3. \A i \in 1 .. H : IsLine(wire[i]) /\ (wire[i].line = "blank" <=> i = H)
    BY <1>8
  <2> HIDE DEF B, H
  <2>. QED
    BY <1>7, <2>1, <2>2, <2>3, HeadEndIs
<1> DEFINE end == IF H <= k THEN H ELSE k
<1>10. ASSUME NEW i \in 1 .. end PROVE i \in 1 .. H /\ buffer[i] = head[i]
  <2>1. i \in 1 .. k /\ i \in 1 .. H
    BY <1>2, <1>5
  <2>. QED
    BY <1>4, <1>5, <2>1 DEF Begins
<1>11. Answered(page, buffer, k)
  BY <1>5, <1>6, <1>9, <1>10 DEF Answered, head
<1>12. k \in 1 .. H + Len(rest)
  BY <1>4, <1>5, <1>6
<1>. QED
  BY <1>5, <1>11, <1>12 DEF wire, head, X

\* What the headers say.
LEMMA HeaderFacts ==
    ASSUME NEW page, page.encoding \in Encoding, NEW buffer, NEW k,
           Answered(page, buffer, k)
    PROVE  /\ buffer[1] = Line("status", page.code)
           /\ Headers(buffer, "Location") # {} => IsRedirect(page.code)
           /\ Headers(buffer, "Location") \subseteq {page.to}
           /\ Headers(buffer, "Content-Length") # {} => page.encoding = "length"
           /\ Headers(buffer, "Content-Length") \subseteq {page.size}
           /\ Headers(buffer, "Transfer-Encoding") # {} => page.encoding = "chunked"
           /\ Len(HeadLines(page)) <= k =>
                /\ page.encoding = "length" => Headers(buffer, "Content-Length") # {}
                /\ page.encoding = "chunked" => Headers(buffer, "Transfer-Encoding") # {}
<1> DEFINE head == HeadLines(page)
           H == Len(head)
           end == IF H <= k THEN H ELSE k
<1>1. /\ head \in Seq(LinesOf(page)) /\ H >= 1
      /\ head[1] = Line("status", page.code)
      /\ \A j \in 1 .. H :
           /\ head[j].line = "Location" =>
                IsRedirect(page.code) /\ head[j].value = page.to
           /\ head[j].line = "Content-Length" =>
                page.encoding = "length" /\ head[j].value = page.size
           /\ head[j].line = "Transfer-Encoding" => page.encoding = "chunked"
      /\ page.encoding = "length" => \E j \in 1 .. H : head[j].line = "Content-Length"
      /\ page.encoding = "chunked" => \E j \in 1 .. H : head[j].line = "Transfer-Encoding"
  BY HeadFacts
<1>2. /\ k \in Nat \ {0} /\ HeadEnd(buffer) = end
      /\ \A i \in 1 .. end : i \in 1 .. H /\ buffer[i] = head[i]
  BY DEF Answered
<1> HIDE DEF head
<1>3. H \in Nat /\ 1 \in 1 .. end /\ (H <= k => end = H)
  BY <1>1, <1>2
<1> HIDE DEF end, H
<1>4. \A name : Headers(buffer, name) =
                   {buffer[j].value : j \in {i \in 1 .. end : buffer[i].line = name}}
  BY <1>2 DEF Headers
<1>5. \A name : \A v \in Headers(buffer, name) :
        \E j \in 1 .. H : head[j].line = name /\ head[j].value = v
  BY <1>2, <1>4
<1>6. ASSUME H <= k, NEW name, NEW j \in 1 .. H, head[j].line = name
      PROVE  Headers(buffer, name) # {}
  <2>1. j \in 1 .. end /\ buffer[j].line = name
    BY <1>2, <1>3, <1>6
  <2>2. j \in {i \in 1 .. end : buffer[i].line = name}
    BY <2>1
  <2>3. buffer[j].value \in {buffer[l].value : l \in {i \in 1 .. end : buffer[i].line = name}}
    BY <2>2
  <2>. QED
    BY <1>4, <2>3
<1>. QED
  BY <1>1, <1>2, <1>3, <1>5, <1>6 DEF head, H

\* What was received behind the headers.
Behind(buffer) == SubSeq(buffer, HeadEnd(buffer) + 1, Len(buffer))

BehindIs(page, rest, buffer, k) ==
    LET H == Len(HeadLines(page))
        behind == Behind(buffer)
    IN /\ k < H => behind = <<>> \/ (Len(behind) = 1 /\ behind[1] = Fragment)
       /\ k < H => buffer # HeadLines(page) \o rest
       /\ k >= H => Fits(behind, 1, rest)
       /\ buffer = HeadLines(page) \o rest => k >= H /\ Holds(behind, 1, rest)

LEMMA BehindFacts ==
    ASSUME NEW S, NEW page, page.encoding \in Encoding,
           NEW rest \in Seq(S), NEW k \in 1 .. Len(HeadLines(page)) + Len(rest),
           NEW B, NEW buffer \in Seq(B), Begins(buffer, HeadLines(page) \o rest, k),
           Answered(page, buffer, k)
    PROVE  Behind(buffer) \in Seq(B) /\ BehindIs(page, rest, buffer, k)
<1> DEFINE head == HeadLines(page)
           H == Len(head)
           wire == head \o rest
           X == LinesOf(page) \cup S
           behind == Behind(buffer)
           end == IF H <= k THEN H ELSE k
           N == Len(buffer)
<1>1. head \in Seq(LinesOf(page)) /\ H >= 1
  BY HeadFacts
<1>2. head \in Seq(X) /\ rest \in Seq(X)
  <2> HIDE DEF head
  <2>. QED
    BY <1>1
<1> HIDE DEF head, X
<1>3. /\ wire \in Seq(X) /\ Len(wire) = H + Len(rest)
      /\ \A i \in 1 .. H : wire[i] = head[i]
      /\ \A i \in 1 .. Len(rest) : wire[H + i] = rest[i]
  BY <1>2, Longer
<1>4. H \in Nat \ {0} /\ Len(rest) \in Nat /\ N \in Nat /\ k \in Nat
  BY <1>1, <1>2 DEF head
<1> HIDE DEF wire
<1>5. /\ N \in {k, k + 1}
      /\ \A i \in 1 .. k : buffer[i] = wire[i]
      /\ N = k + 1 => buffer[k + 1] = Fragment /\ k < Len(wire) /\ IsLine(wire[k + 1])
  BY <1>4 DEF Begins, wire, head
<1>6. HeadEnd(buffer) = end
  BY DEF Answered, head
<1> HIDE DEF H, N
<1>7. end \in Nat /\ end <= k /\ end <= N /\ end + 1 \in Nat \ {0} /\ N <= Len(buffer)
  BY <1>4, <1>5 DEF N
<1>8. /\ behind \in Seq(B)
      /\ Len(behind) = N - end
      /\ \A i \in 1 .. N - end : behind[i] = buffer[end + i]
  <2>1. /\ SubSeq(buffer, end + 1, N) \in Seq(B)
        /\ Len(SubSeq(buffer, end + 1, N))
             = IF end + 1 <= N THEN N + 1 - (end + 1) ELSE 0
        /\ \A i \in 1 .. N + 1 - (end + 1) :
             SubSeq(buffer, end + 1, N)[i] = buffer[end + 1 + i - 1]
    BY <1>4, <1>7, PartType
  <2>2. behind = SubSeq(buffer, end + 1, N)
    BY <1>6 DEF Behind, N
  <2> HIDE DEF end, behind
  <2>3. N + 1 - (end + 1) = N - end
    BY <1>4, <1>7
  <2>4. Len(behind) = N - end
    BY <1>4, <1>7, <2>1, <2>2, <2>3
  <2>5. ASSUME NEW i \in 1 .. N - end PROVE behind[i] = buffer[end + i]
    <3>1. end + 1 + i - 1 = end + i
      BY <1>4, <1>7
    <3>. QED
      BY <2>1, <2>2, <2>3, <3>1
  <2>. QED
    BY <2>1, <2>2, <2>4, <2>5
<1> HIDE DEF behind
<1>9. CASE k < H
  <2>1. end = k
    BY <1>4, <1>9
  <2>2. behind = <<>> \/ (Len(behind) = 1 /\ behind[1] = Fragment)
    <3>1. CASE N = k
      <4>1. Len(behind) = 0
        BY <1>4, <1>8, <2>1, <3>1
      <4>. QED
        BY <1>8, <4>1
    <3>2. CASE N = k + 1
      <4>1. Len(behind) = 1 /\ 1 \in 1 .. N - end
        BY <1>4, <1>8, <2>1, <3>2
      <4>2. behind[1] = buffer[k + 1]
        BY <1>8, <2>1, <4>1
      <4>. QED
        BY <1>5, <3>2, <4>1, <4>2
    <3>. QED
      BY <1>5, <3>1, <3>2
  <2>3. buffer # wire
    <3> SUFFICES ASSUME buffer = wire PROVE FALSE
      OBVIOUS
    <3>1. N = H + Len(rest)
      BY <1>3 DEF N
    <3>2. N = k + 1 /\ k + 1 = H
      BY <1>4, <1>5, <1>9, <3>1
    <3>3. buffer[H] = Fragment /\ IsLine(wire[H])
      BY <1>5, <3>2
    <3>. QED
      BY <3>3, LineFacts
  <2>. QED
    BY <1>4, <1>8, <1>9, <2>2, <2>3 DEF BehindIs, behind, wire, head, H
<1>10. CASE k >= H
  <2>1. end = H
    BY <1>4, <1>10
  <2>2. Len(behind) = N - H /\ N - H \in Nat /\ N - H \in {k - H, k - H + 1}
    BY <1>4, <1>5, <1>7, <1>8, <1>10, <2>1
  <2>3. ASSUME NEW i \in 1 .. Len(behind)
        PROVE  /\ i <= Len(rest)
               /\ \/ behind[i] = rest[i]
                  \/ behind[i] = Fragment /\ IsLine(rest[i])
               /\ i <= k - H => behind[i] = rest[i]
    <3>1. i \in 1 .. N - end /\ H + i <= N
      BY <1>4, <2>1, <2>2
    <3>2. behind[i] = buffer[H + i]
      BY <1>8, <2>1, <3>1
    <3>3. CASE i <= k - H
      <4>1. H + i \in 1 .. k /\ H + i <= Len(wire)
        <5>1. k <= Len(wire)
          BY <1>3, <1>4 DEF H, head
        <5>. QED
          BY <1>4, <1>10, <3>3, <5>1
      <4>2. i \in 1 .. Len(rest)
        BY <1>3, <1>4, <4>1
      <4>3. buffer[H + i] = rest[i]
        BY <1>3, <1>5, <4>1, <4>2
      <4>. QED
        BY <3>2, <4>2, <4>3
    <3>4. CASE ~ (i <= k - H)
      <4>1. N = k + 1 /\ H + i = k + 1
        BY <1>4, <1>5, <1>10, <3>1, <3>4
      <4>2. i \in 1 .. Len(rest)
        BY <1>3, <1>4, <1>5, <4>1
      <4>3. wire[k + 1] = rest[i]
        BY <1>3, <4>1, <4>2
      <4>. QED
        BY <1>5, <3>2, <3>4, <4>1, <4>2, <4>3
    <3>. QED
      BY <3>3, <3>4
  <2>4. Fits(behind, 1, rest)
    <3>1. \A i \in 1 .. Len(behind) : i - 1 + 1 = i
      BY <2>2
    <3>. QED
      BY <2>3, <3>1 DEF Fits
  <2>5. ASSUME buffer = wire PROVE Holds(behind, 1, rest)
    <3>1. N = H + Len(rest)
      BY <1>3, <2>5 DEF N
    <3>2. Len(behind) = 1 + Len(rest) - 1
      BY <1>4, <2>2, <3>1
    <3>3. ASSUME NEW i \in 1 .. Len(behind) PROVE behind[i] = rest[i - 1 + 1]
      <4>1. i \in 1 .. N - end /\ i \in 1 .. Len(rest) /\ i - 1 + 1 = i
        BY <1>4, <2>1, <2>2, <3>1
      <4>. QED
        BY <1>3, <1>8, <2>1, <2>5, <4>1
    <3>. QED
      BY <3>2, <3>3 DEF Holds
  <2>6. \A i \in 1 .. Len(behind) : i <= k - H => behind[i] = rest[i]
    BY <2>3
  <2>7. ~ (k < H)
    BY <1>4, <1>10
  <2>. QED
    BY <1>8, <1>10, <2>2, <2>4, <2>5, <2>6, <2>7 DEF BehindIs, behind, wire, head, H
<1>. QED
  BY <1>4, <1>9, <1>10 DEF BehindIs, behind, wire, head, H

LEMMA LineOfWire ==
    ASSUME NEW S, Plain(S), NEW document \in Seq(S), NEW buffer,
           Len(buffer) \in Nat, Fits(buffer, 1, document)
    PROVE  /\ Len(buffer) <= Len(document)
           /\ \A i \in 1 .. Len(buffer) : buffer[i] = document[i]
<1>1. ASSUME NEW i \in 1 .. Len(buffer)
      PROVE  i <= Len(document) /\ buffer[i] = document[i]
  <2>1. i - 1 + 1 = i
    OBVIOUS
  <2>2. /\ i <= Len(document)
        /\ buffer[i] = document[i] \/ IsLine(document[i])
    BY <2>1 DEF Fits
  <2>3. document[i] \in S
    BY <2>2
  <2>. QED
    BY <2>2, <2>3 DEF Plain
<1>2. Len(buffer) > 0 => Len(buffer) \in 1 .. Len(buffer)
  OBVIOUS
<1>. QED
  BY <1>1, <1>2

\* What comes of one answer: the body begins as the content does, and is the
\* content if the answer is whole.
Honest(body, content, whole) ==
    /\ body = <<Fragment>> \/ IsPrefix(body, content)
    /\ whole => body = content

\* A body that begins as the document does.
LEMMA PlainBody ==
    ASSUME NEW S, Plain(S), NEW document \in Seq(S), NEW page, page.size \in Nat,
           page.encoding # "chunked", NEW B, NEW behind \in Seq(B),
           Fits(behind, 1, document), NEW lengths,
           lengths = IF page.encoding = "length" THEN {page.size} ELSE {},
           NEW whole, whole => Holds(behind, 1, document)
    PROVE  /\ Trim(behind, lengths) \in Seq(S)
           /\ Honest(Trim(behind, lengths), Content(page, document), whole)
<1> DEFINE n == Len(behind)
           L == Len(document)
           c == IF page.encoding = "length" /\ page.size < L THEN page.size ELSE L
           m == IF page.encoding = "length" /\ page.size < n THEN page.size ELSE n
<1>1. n \in Nat /\ n <= L /\ L \in Nat
      /\ \A i \in 1 .. n : behind[i] = document[i]
  BY LineOfWire
<1>2. behind = SubSeq(document, 1, n)
  <2>1. /\ SubSeq(document, 1, n) \in Seq(S)
        /\ Len(SubSeq(document, 1, n)) = IF 1 <= n THEN n + 1 - 1 ELSE 0
        /\ \A i \in 1 .. n + 1 - 1 : SubSeq(document, 1, n)[i] = document[1 + i - 1]
    BY <1>1, PartType
  <2> DEFINE u == SubSeq(document, 1, n)
             BS == B \cup S
  <2> HIDE DEF n, u
  <2>2. /\ u \in Seq(S) /\ Len(u) = n /\ \A i \in 1 .. n : u[i] = behind[i]
    BY <1>1, <2>1 DEF u
  <2>3. behind \in Seq(BS) /\ u \in Seq(BS) /\ Len(behind) = Len(u)
    BY <2>2 DEF n
  <2>4. behind = u
    BY <2>2, <2>3, SameSequence
  <2>. QED
    BY <2>4 DEF u
<1>3. c \in Nat /\ c <= L /\ m \in Nat /\ m <= n /\ m <= c
  BY <1>1
<1>4. Content(page, document) = SubSeq(document, 1, c)
  BY WholePrefix DEF Content
<1>5. Trim(behind, lengths) = SubSeq(document, 1, m)
  <2>1. CASE page.encoding = "length" /\ page.size < n
    <3>1. lengths = {page.size} /\ n > page.size
      BY <1>1, <2>1
    <3>2. Trim(behind, lengths) = SubSeq(behind, 1, page.size)
      <4>1. \E l \in lengths : n > l
        BY <3>1
      <4>2. (CHOOSE l \in lengths : TRUE) = page.size
        BY <3>1
      <4>. QED
        BY <4>1, <4>2 DEF Trim
    <3>3. SubSeq(behind, 1, page.size) = SubSeq(document, 1, page.size)
      <4>0. page.size \in Nat /\ page.size <= n /\ page.size <= L
        BY <1>1, <2>1
      <4> DEFINE k == page.size
                 u == SubSeq(behind, 1, k)
                 v == SubSeq(document, 1, k)
      <4>1. /\ u \in Seq(B)
            /\ Len(u) = IF 1 <= k THEN k + 1 - 1 ELSE 0
            /\ \A i \in 1 .. k + 1 - 1 : u[i] = behind[1 + i - 1]
        BY <4>0, PartType
      <4>2. /\ v \in Seq(S)
            /\ Len(v) = IF 1 <= k THEN k + 1 - 1 ELSE 0
            /\ \A i \in 1 .. k + 1 - 1 : v[i] = document[1 + i - 1]
        BY <4>0, PartType
      <4> HIDE DEF u, v, k
      <4>3. k \in Nat /\ k <= n
        BY <4>0 DEF k
      <4>4. Len(u) = k /\ Len(v) = k /\ \A i \in 1 .. k : u[i] = v[i]
        BY <1>1, <4>1, <4>2, <4>3
      <4> DEFINE BS == B \cup S
      <4>5. u \in Seq(BS) /\ v \in Seq(BS)
        BY <4>1, <4>2
      <4>6. u = v
        BY <4>3, <4>4, <4>5, SameSequence
      <4>. QED
        BY <4>6 DEF u, v, k
    <3>. QED
      BY <2>1, <3>2, <3>3
  <2>2. CASE ~ (page.encoding = "length" /\ page.size < n)
    <3>1. \A l \in lengths : ~ (n > l)
      BY <1>1, <2>2
    <3>. QED
      BY <1>2, <2>2, <3>1 DEF Trim
  <2>. QED
    BY <2>1, <2>2
<1>6. SubSeq(document, 1, m) \in Seq(S)
  <2>1. m \in Nat /\ m <= Len(document)
    BY <1>1, <1>3
  <2>. QED
    BY <2>1, PartType
<1>7. ASSUME whole PROVE m = c
  <2>1. n = L
    BY <1>1, <1>7 DEF Holds
  <2>. QED
    BY <2>1
<1> HIDE DEF m, c, n, L
<1>8. IsPrefix(SubSeq(document, 1, m), SubSeq(document, 1, c))
  BY <1>3, PrefixOf DEF L
<1>. QED
  BY <1>4, <1>5, <1>6, <1>7, <1>8 DEF Honest

LEMMA ChunkedBody ==
    ASSUME NEW S, Plain(S), NEW document \in Seq(S), NEW page, page.size \in Nat \ {0},
           page.encoding = "chunked", NEW B, NEW behind \in Seq(B),
           Fits(behind, 1, Chunks(document, page.size)),
           NEW whole, whole => Holds(behind, 1, Chunks(document, page.size))
    PROVE  /\ DecodeChunks(behind) \in Seq(S)
           /\ Honest(DecodeChunks(behind), Content(page, document), whole)
<1>1. PICK m \in 0 .. Len(document) :
         /\ DecodeChunks(behind) = SubSeq(document, 1, m)
         /\ Holds(behind, 1, Chunks(document, page.size)) => m = Len(document)
  BY DecodesPrefix
<1>2. Content(page, document) = SubSeq(document, 1, Len(document))
  BY WholePrefix DEF Content
<1>3. m \in Nat /\ m <= Len(document) /\ Len(document) \in Nat
  OBVIOUS
<1>4. IsPrefix(SubSeq(document, 1, m), SubSeq(document, 1, Len(document)))
  BY <1>3, PrefixOf
<1>5. SubSeq(document, 1, m) \in Seq(S)
  BY <1>3, PartType
<1>. QED
  BY <1>1, <1>2, <1>4, <1>5 DEF Honest

\* Behind headers that were cut there is nothing, or a fragment.
LEMMA CutBody ==
    ASSUME NEW behind, behind = <<>> \/ (Len(behind) = 1 /\ behind[1] = Fragment),
           NEW B, behind \in Seq(B), NEW n \in Nat, NEW lengths \in SUBSET {n}
    PROVE  /\ DecodeChunks(behind) = <<>>
           /\ Trim(behind, lengths) \in {<<>>, <<Fragment>>}
<1>1. Len(behind) \in Nat /\ Len(behind) <= 1
  OBVIOUS
<1>2. DecodeChunks(behind) = <<>>
  <2>1. \A k \in 1 .. Len(behind) : ~ ChunkThere(behind, k)
    BY <1>1, LineFacts DEF ChunkThere
  <2>. QED
    BY <1>1, <2>1, NothingDecoded
<1>3. behind \in {<<>>, <<Fragment>>}
  <2>1. CASE Len(behind) = 1 /\ behind[1] = Fragment
    <3> DEFINE one == <<Fragment>>
               C == B \cup {Fragment}
    <3>1. one \in Seq(C) /\ Len(one) = 1 /\ one[1] = Fragment
      OBVIOUS
    <3> HIDE DEF one
    <3>2. behind \in Seq(C)
      OBVIOUS
    <3>3. \A i \in 1 .. Len(behind) : behind[i] = one[i]
      BY <2>1, <3>1
    <3>4. behind = one
      BY <2>1, <3>1, <3>2, <3>3, SameSequence
    <3>. QED
      BY <3>4 DEF one
  <2>. QED
    BY <2>1
<1>4. CASE \E l \in lengths : Len(behind) > l
  <2>1. lengths = {n} /\ Len(behind) > n
    BY <1>4
  <2>2. n = 0
    BY <1>1, <2>1
  <2>3. Trim(behind, lengths) = SubSeq(behind, 1, 0)
    <3>1. (CHOOSE l \in lengths : TRUE) = 0
      BY <2>1, <2>2
    <3>. QED
      BY <1>4, <3>1 DEF Trim
  <2>4. SubSeq(behind, 1, 0) = <<>>
    OBVIOUS
  <2>. QED
    BY <1>2, <2>3, <2>4
<1>5. CASE ~ \E l \in lengths : Len(behind) > l
  BY <1>2, <1>3, <1>5 DEF Trim
<1>. QED
  BY <1>2, <1>4, <1>5

LEMMA BodyLinesType ==
    ASSUME NEW S, NEW document \in Seq(S), NEW page,
           page.encoding = "chunked" => page.size \in Nat \ {0}
    PROVE  BodyLines(page, document) \in Seq(Chunked(S))
<1>1. CASE page.encoding = "chunked"
  <2>1. PICK f : IsChunks(f, document, page.size) /\ Chunks(document, page.size) = f[1]
    BY <1>1, ChunksFunction
  <2>2. f[1] \in Seq(Chunked(S))
    <3>1. 1 \in 1 .. Len(document) + 1
      OBVIOUS
    <3>. QED
      BY <1>1, <2>1, <3>1, ChunksType
  <2>. QED
    BY <1>1, <2>1, <2>2 DEF BodyLines
<1>2. CASE page.encoding # "chunked"
  <2>1. S \subseteq Chunked(S)
    BY DEF Chunked
  <2>. QED
    BY <1>2, <2>1 DEF BodyLines
<1>. QED
  BY <1>1, <1>2

LEMMA ContentType ==
    ASSUME NEW S, NEW document \in Seq(S), NEW page, page.size \in Nat
    PROVE  Content(page, document) \in Seq(S)
<1>1. page.size < Len(document) => SubSeq(document, 1, page.size) \in Seq(S)
  BY PartType
<1>. QED
  BY <1>1 DEF Content

\* What may come of the answers to a request.  What is taken for the body
\* begins like the document the server means, without what transports it, and
\* is all of that document if all of the answer came.
LEMMA OutcomesFacts ==
    ASSUME NEW S, Plain(S), NEW document \in Seq(S), NEW page,
           page.encoding \in Encoding, page.size \in Nat,
           page.encoding = "chunked" => page.size > 0,
           NEW answer \in Outcomes(page, document)
    PROVE  /\ answer.to \subseteq {page.to}
           /\ answer.to # {} => IsRedirect(page.code)
           /\ answer.sent = [document |-> Content(page, document),
                             whole |-> answer.sent.whole]
           /\ answer.sent.whole \in BOOLEAN
           /\ answer.body \in Seq(S \cup {Fragment})
           /\ Honest(answer.body, answer.sent.document, answer.sent.whole)
<1> DEFINE rest == BodyLines(page, document)
           wire == HeadLines(page) \o rest
           H == Len(HeadLines(page))
           C == Chunked(S)
           content == Content(page, document)
<1>1. PICK buffer \in Received(wire) :
         /\ HasStatus(buffer)
         /\ answer = [to |-> Redirect(buffer), body |-> Body(buffer),
                      sent |-> [document |-> content, whole |-> buffer = wire]]
  BY WireParts DEF Outcomes
<1>2. rest \in Seq(C)
  BY BodyLinesType
<1> DEFINE whole == buffer = wire
           B == LinesOf(page) \cup C \cup {Fragment}
           behind == Behind(buffer)
<1> HIDE DEF C, rest
<1>3. PICK k \in 1 .. H + Len(rest) :
         /\ buffer \in Seq(B)
         /\ Begins(buffer, wire, k)
         /\ Answered(page, buffer, k)
  BY <1>1, <1>2, AnswerFacts
<1>4. /\ buffer[1] = Line("status", page.code)
      /\ Headers(buffer, "Location") # {} => IsRedirect(page.code)
      /\ Headers(buffer, "Location") \subseteq {page.to}
      /\ Headers(buffer, "Content-Length") # {} => page.encoding = "length"
      /\ Headers(buffer, "Content-Length") \subseteq {page.size}
      /\ Headers(buffer, "Transfer-Encoding") # {} => page.encoding = "chunked"
      /\ H <= k =>
           /\ page.encoding = "length" => Headers(buffer, "Content-Length") # {}
           /\ page.encoding = "chunked" => Headers(buffer, "Transfer-Encoding") # {}
  BY <1>3, HeaderFacts
<1> HIDE DEF B
<1>5. /\ behind \in Seq(B)
      /\ k < H => behind = <<>> \/ (Len(behind) = 1 /\ behind[1] = Fragment)
      /\ k < H => ~ whole
      /\ k >= H => Fits(behind, 1, rest)
      /\ whole => k >= H /\ Holds(behind, 1, rest)
  <2>1. k \in 1 .. Len(HeadLines(page)) + Len(rest) /\ buffer \in Seq(B)
        /\ Begins(buffer, HeadLines(page) \o rest, k) /\ Answered(page, buffer, k)
    BY <1>3
  <2>2. page.encoding \in Encoding /\ rest \in Seq(C)
    BY <1>2
  <2>3. behind \in Seq(B) /\ BehindIs(page, rest, buffer, k)
    BY <2>1, <2>2, BehindFacts
  <2>. QED
    BY <2>3 DEF BehindIs
<1>6. Body(buffer) = IF Headers(buffer, "Transfer-Encoding") # {}
                     THEN DecodeChunks(behind)
                     ELSE Trim(behind, Headers(buffer, "Content-Length"))
  BY DEF Body, Behind
<1>7. H \in Nat /\ k \in Nat
  <2>1. HeadLines(page) \in Seq(LinesOf(page))
    BY HeadFacts
  <2>2. H \in Nat
    BY <2>1
  <2>3. Len(rest) \in Nat
    BY <1>2
  <2> HIDE DEF H
  <2>. QED
    BY <2>2, <2>3
<1> HIDE DEF whole, wire, behind, H, content
<1>8. Body(buffer) \in Seq(S \cup {Fragment}) /\ Honest(Body(buffer), content, whole)
  <2>1. CASE k < H
    <3>1. DecodeChunks(behind) = <<>>
          /\ Trim(behind, Headers(buffer, "Content-Length")) \in {<<>>, <<Fragment>>}
      BY <1>4, <1>5, <2>1, CutBody
    <3>2. Body(buffer) \in {<<>>, <<Fragment>>}
      BY <1>6, <3>1
    <3>3. IsPrefix(<<>>, content)
      <4>1. content \in Seq(S)
        BY ContentType DEF content
      <4>2. /\ SubSeq(content, 1, 0) = <<>> /\ SubSeq(<<>>, 1, 0) = <<>>
            /\ Len(<<>>) = 0 /\ Len(content) \in Nat
        BY <4>1
      <4>. QED
        BY <4>2 DEF IsPrefix
    <3>4. <<>> \in Seq(S \cup {Fragment}) /\ <<Fragment>> \in Seq(S \cup {Fragment})
      OBVIOUS
    <3>. QED
      BY <1>5, <2>1, <3>2, <3>3, <3>4 DEF Honest
  <2>2. CASE k >= H /\ page.encoding = "chunked"
    <3>1. rest = Chunks(document, page.size)
      BY <2>2 DEF rest, BodyLines
    <3>2. Headers(buffer, "Transfer-Encoding") # {}
      BY <1>4, <1>7, <2>2
    <3>3. DecodeChunks(behind) \in Seq(S) /\ Honest(DecodeChunks(behind), content, whole)
      <4>1. page.size \in Nat \ {0}
        BY <2>2
      <4>2. /\ behind \in Seq(B) /\ Fits(behind, 1, Chunks(document, page.size))
            /\ whole => Holds(behind, 1, Chunks(document, page.size))
        BY <1>5, <2>2, <3>1
      <4>. QED
        BY <2>2, <4>1, <4>2, ChunkedBody DEF content
    <3>. QED
      BY <1>6, <3>2, <3>3
  <2>3. CASE k >= H /\ page.encoding # "chunked"
    <3>1. rest = document
      BY <2>3 DEF rest, BodyLines
    <3>2. Headers(buffer, "Transfer-Encoding") = {}
      BY <1>4, <2>3
    <3> DEFINE lengths == Headers(buffer, "Content-Length")
    <3>3. lengths = IF page.encoding = "length" THEN {page.size} ELSE {}
      BY <1>4, <1>7, <2>3
    <3> HIDE DEF lengths
    <3>4. Trim(behind, lengths) \in Seq(S) /\ Honest(Trim(behind, lengths), content, whole)
      <4>1. /\ behind \in Seq(B) /\ Fits(behind, 1, document)
            /\ whole => Holds(behind, 1, document)
        BY <1>5, <2>3, <3>1
      <4>. QED
        BY <2>3, <3>3, <4>1, PlainBody DEF content
    <3>. QED
      BY <1>6, <3>2, <3>4 DEF lengths
  <2>. QED
    BY <1>7, <2>1, <2>2, <2>3
<1>9. /\ Redirect(buffer) \subseteq {page.to}
      /\ Redirect(buffer) # {} => IsRedirect(page.code)
  BY <1>4 DEF Redirect
<1>10. answer = [to |-> Redirect(buffer), body |-> Body(buffer),
                 sent |-> [document |-> content, whole |-> whole]]
  BY <1>1 DEF whole
<1>11. whole \in BOOLEAN
  BY DEF whole
<1>. QED
  BY <1>8, <1>9, <1>10, <1>11 DEF content

\* What a description consists of is no line.
LEMMA TokensArePlain == ASSUME NEW names PROVE Plain(TokensOf(names))
  BY DEF Plain, TokensOf, IsLine
=============================================================================
