--------------------------- MODULE PipelineProofs ---------------------------
(***************************************************************************)
(* Every piece of evidence ends in one device with all it says, and what   *)
(* the knowledge store is given follows from the evidence.                 *)
(*                                                                         *)
(* First the fusion, as a fold over a fold over a fold: an endpoint has    *)
(* what the evidence of its uuid and address says (Joins), a device has    *)
(* all the evidence of its uuids (Speaks), and placing the base devices    *)
(* one after the other puts each uuid in one device, and in one that it    *)
(* shares enough with (Fused).  Then the stages: none writes what an       *)
(* earlier one was made from (PipelineInvariant), so that in the end each  *)
(* field is what its stage makes of the evidence.                          *)
(***************************************************************************)
EXTENDS DevicePipeline, FiniteSetTheorems, FunctionTheorems, WellFoundedInduction, TLAPS

Merging == INSTANCE Folding WITH Op <- MergeUpnp, Element <- IdentityEvidence,
                                 Value <- ProtocolEndpoint
Adding == INSTANCE Folding WITH Op <- AddService, Element <- Service,
                                Value <- Seq(Service)
Voicing == INSTANCE Folding WITH Op <- AddTraits, Element <- IdentityEvidence,
                                 Value <- [Trait -> Text \cup {NoText}]

-----------------------------------------------------------------------------
(* Sets of numbers in order.                                               *)

InOrder(f, n, S) ==
    /\ f \in [1 .. n -> S]
    /\ \A j, k \in 1 .. n : j < k => f[j] < f[k]

\* The least element comes before the others in order.
LEMMA LeastFirst ==
    ASSUME NEW S \in SUBSET Nat, NEW m \in S, \A x \in S : m <= x,
           NEW n \in Nat, NEW g, InOrder(g, n, S \ {m})
    PROVE  \E f : InOrder(f, n + 1, S)
<1> DEFINE f == [k \in 1 .. n + 1 |-> IF k = 1 THEN m ELSE g[k - 1]]
<1>1. \A k \in 1 .. n : g[k] \in S /\ m < g[k]
  <2> TAKE k \in 1 .. n
  <2>1. g[k] \in S \ {m}
    BY DEF InOrder
  <2>2. g[k] \in Nat /\ m \in Nat /\ m <= g[k] /\ m # g[k]
    BY <2>1
  <2>. QED
    BY <2>1, <2>2
<1>2. \A k \in 1 .. n + 1 : k # 1 => k - 1 \in 1 .. n
  OBVIOUS
<1>3. f \in [1 .. n + 1 -> S]
  <2> SUFFICES ASSUME NEW k \in 1 .. n + 1 PROVE f[k] \in S
    OBVIOUS
  <2>. QED
    BY <1>1, <1>2
<1>4. ASSUME NEW j \in 1 .. n + 1, NEW k \in 1 .. n + 1, j < k
      PROVE  f[j] < f[k]
  <2>1. k # 1 /\ k - 1 \in 1 .. n /\ f[k] = g[k - 1]
    BY <1>4
  <2>2. CASE j = 1
    BY <1>1, <2>1, <2>2
  <2>3. CASE j # 1
    <3>1. j - 1 \in 1 .. n /\ j - 1 < k - 1 /\ f[j] = g[j - 1]
      BY <1>4, <2>3
    <3>. QED
      BY <2>1, <3>1 DEF InOrder
  <2>. QED
    BY <2>2, <2>3
<1> HIDE DEF f
<1>5. InOrder(f, n + 1, S)
  BY <1>3, <1>4 DEF InOrder
<1>. QED
  BY <1>5

\* Every finite set of numbers can be put in order.
LEMMA OrderExists ==
    ASSUME NEW S \in SUBSET Nat, IsFiniteSet(S)
    PROVE  \E f : InOrder(f, Cardinality(S), S)
<1> DEFINE Holds1(n) == \A T \in SUBSET Nat :
                          IsFiniteSet(T) /\ Cardinality(T) = n
                            => \E f : InOrder(f, n, T)
           N == {n \in Nat : Holds1(n)}
<1>1. Holds1(0)
  <2> SUFFICES ASSUME NEW T \in SUBSET Nat PROVE \E f : InOrder(f, 0, T)
    OBVIOUS
  <2>1. InOrder([k \in 1 .. 0 |-> 0], 0, T)
    BY DEF InOrder
  <2>. QED
    BY <2>1
<1>2. ASSUME NEW n \in Nat, Holds1(n) PROVE Holds1(n + 1)
  <2> SUFFICES ASSUME NEW T \in SUBSET Nat, IsFiniteSet(T), Cardinality(T) = n + 1
               PROVE  \E f : InOrder(f, n + 1, T)
    OBVIOUS
  <2>1. T # {}
    BY FS_EmptySet
  <2>2. PICK m \in T : \A x \in T : m <= x
    BY <2>1, Merging!LeastNumber
  <2>3. IsFiniteSet(T \ {m}) /\ Cardinality(T \ {m}) = n
    <3>1. /\ IsFiniteSet(T \ {m})
          /\ Cardinality(T \ {m}) = IF m \in T THEN Cardinality(T) - 1
                                    ELSE Cardinality(T)
      BY FS_RemoveElement, Zenon
    <3>2. Cardinality(T \ {m}) = n + 1 - 1
      BY <3>1
    <3>. QED
      BY <3>1, <3>2
  <2>4. \E g : InOrder(g, n, T \ {m})
    BY <1>2, <2>3
  <2>. QED
    BY <2>2, <2>4, LeastFirst
<1> HIDE DEF Holds1
<1>3. N \in SUBSET Nat /\ 0 \in N /\ \A n \in N : n + 1 \in N
  BY <1>1, <1>2
<1>4. N = Nat
  <2> HIDE DEF N
  <2>. QED
    BY <1>3, Merging!SetInduction
<1>5. Cardinality(S) \in Nat
  BY FS_CardinalityType
<1>6. Holds1(Cardinality(S))
  BY <1>4, <1>5
<1>. QED
  BY <1>6 DEF Holds1

\* Ascending lists each element of a finite set of numbers once, in order.
LEMMA AscendingIs ==
    ASSUME NEW S \in SUBSET Nat, IsFiniteSet(S)
    PROVE  /\ Cardinality(S) \in Nat
           /\ Ascending(S) \in [1 .. Cardinality(S) -> S]
           /\ \A j, k \in 1 .. Cardinality(S) :
                j < k => Ascending(S)[j] < Ascending(S)[k]
           /\ \A x \in S : \E k \in 1 .. Cardinality(S) : Ascending(S)[k] = x
<1> DEFINE n == Cardinality(S)
           f == Ascending(S)
<1>1. n \in Nat
  BY FS_CardinalityType
<1>2. PICK g : InOrder(g, n, S)
  BY OrderExists
<1>3. f \in [1 .. n -> S] /\ \A j, k \in DOMAIN f : j < k => f[j] < f[k]
  BY <1>2 DEF InOrder, Ascending
<1> HIDE DEF n, f
<1>4. \A j, k \in 1 .. n : j < k => f[j] < f[k]
  BY <1>3
<1>5. ASSUME NEW j \in 1 .. n, NEW k \in 1 .. n, f[j] = f[k]
      PROVE  j = k
  <2>1. f[j] \in Nat /\ f[k] \in Nat
    BY <1>3
  <2>2. ~ (j < k) /\ ~ (k < j)
    BY <1>4, <1>5, <2>1
  <2>. QED
    BY <1>1, <2>2
<1>6. f \in Injection(1 .. n, S)
  BY <1>3, <1>5, Fun_IsInj
<1>7. Cardinality(1 .. n) = n
  BY <1>1, FS_Interval
<1>8. Cardinality(1 .. n) = Cardinality(S)
  BY <1>7 DEF n
<1>9. f \in Surjection(1 .. n, S)
  BY <1>6, <1>8, FS_Injection
<1>10. \A x \in S : \E k \in 1 .. n : f[k] = x
  BY <1>9 DEF Surjection
<1>. QED
  BY <1>1, <1>3, <1>4, <1>10 DEF n, f

\* What Selected returns, as a set.
LEMMA SelectedIs ==
    ASSUME NEW E, NEW s \in Seq(E), NEW P \in SUBSET (DOMAIN s)
    PROVE  /\ Selected(s, P) \in Seq(E)
           /\ Range(Selected(s, P)) = {s[p] : p \in P}
           /\ P # {} => Selected(s, P) # <<>>
<1> DEFINE n == Cardinality(P)
           f == Ascending(P)
           t == [k \in 1 .. n |-> s[f[k]]]
<1>1. P \in SUBSET Nat /\ IsFiniteSet(P)
  <2>1. Len(s) \in Nat /\ DOMAIN s = 1 .. Len(s)
    OBVIOUS
  <2>2. IsFiniteSet(1 .. Len(s))
    BY <2>1, FS_Interval
  <2>. QED
    BY <2>1, <2>2, FS_Subset
<1>2. /\ n \in Nat /\ f \in [1 .. n -> P]
      /\ \A x \in P : \E k \in 1 .. n : f[k] = x
  BY <1>1, AscendingIs
<1>3. Selected(s, P) = t
  BY <1>2 DEF Selected
<1> HIDE DEF n, f
<1>4. t \in Seq(E)
  <2>1. \A k \in 1 .. n : s[f[k]] \in E
    BY <1>2
  <2>. QED
    BY <1>2, <2>1
<1>5. Range(t) = {s[p] : p \in P}
  <2>1. \A k \in 1 .. n : t[k] = s[f[k]] /\ f[k] \in P
    BY <1>2
  <2>2. DOMAIN t = 1 .. n
    OBVIOUS
  <2> HIDE DEF t
  <2>3. \A x \in Range(t) : x \in {s[p] : p \in P}
    BY <2>1, <2>2 DEF Range
  <2>4. \A p \in P : s[p] \in Range(t)
    BY <1>2, <2>1, <2>2 DEF Range
  <2>. QED
    BY <2>3, <2>4
<1>6. P # {} => t # <<>>
  <2> SUFFICES ASSUME NEW p \in P PROVE t # <<>>
    OBVIOUS
  <2>1. PICK k \in 1 .. n : f[k] = p
    BY <1>2
  <2>2. k \in DOMAIN t
    OBVIOUS
  <2> HIDE DEF t
  <2>. QED
    BY <2>2
<1>. QED
  BY <1>3, <1>4, <1>5, <1>6

\* What a sequence names is a finite set.
LEMMA NamesAreFinite ==
    ASSUME NEW s \in Seq(IdentityEvidence)
    PROVE  /\ {e.uuid : e \in Range(s)} \in SUBSET Nat
           /\ {e.ip : e \in Range(s)} \in SUBSET Nat
           /\ IsFiniteSet({e.uuid : e \in Range(s)})
           /\ IsFiniteSet({e.ip : e \in Range(s)})
<1>1. \A e \in Range(s) : e \in IdentityEvidence
  BY DEF Range
<1>2. /\ {e.uuid : e \in Range(s)} \in SUBSET Nat
      /\ {e.ip : e \in Range(s)} \in SUBSET Nat
  BY <1>1, FusionAssumption DEF IdentityEvidence
<1>3. Len(s) \in Nat /\ DOMAIN s = 1 .. Len(s) /\ IsFiniteSet(1 .. Len(s))
  BY FS_Interval
<1>4. IsFiniteSet({e.uuid : e \in Range(s)})
  <2> DEFINE f == [k \in 1 .. Len(s) |-> s[k].uuid]
             T == {e.uuid : e \in Range(s)}
  <2>1. f \in Surjection(1 .. Len(s), T)
    BY <1>3 DEF Surjection, Range
  <2> HIDE DEF f, T
  <2>2. IsFiniteSet(T)
    BY <1>3, <2>1, FS_Surjection
  <2>. QED
    BY <2>2 DEF T
<1>5. IsFiniteSet({e.ip : e \in Range(s)})
  <2> DEFINE f == [k \in 1 .. Len(s) |-> s[k].ip]
             T == {e.ip : e \in Range(s)}
  <2>1. f \in Surjection(1 .. Len(s), T)
    BY <1>3 DEF Surjection, Range
  <2> HIDE DEF f, T
  <2>2. IsFiniteSet(T)
    BY <1>3, <2>1, FS_Surjection
  <2>. QED
    BY <2>2 DEF T
<1>. QED
  BY <1>2, <1>4, <1>5

-----------------------------------------------------------------------------
(* An endpoint says what its evidence says.                                *)

\* A service adds its type.
LEMMA AddServiceIs ==
    ASSUME NEW v \in Seq(Service), NEW e \in Service
    PROVE  /\ AddService(v, e) \in Seq(Service)
           /\ TypesOf(AddService(v, e)) = TypesOf(v) \cup {e.type}
<1>1. CASE \E k \in DOMAIN v : v[k].type = e.type
  <2>1. AddService(v, e) = v
    BY <1>1 DEF AddService
  <2>2. e.type \in TypesOf(v)
    BY <1>1 DEF TypesOf, Range
  <2>. QED
    BY <2>1, <2>2
<1>2. CASE ~ \E k \in DOMAIN v : v[k].type = e.type
  <2> DEFINE w == Append(v, e)
  <2>1. AddService(v, e) = w
    BY <1>2 DEF AddService
  <2>2. /\ w \in Seq(Service) /\ Len(v) \in Nat /\ DOMAIN v = 1 .. Len(v)
        /\ DOMAIN w = 1 .. Len(v) + 1
        /\ w[Len(v) + 1] = e
        /\ \A k \in 1 .. Len(v) : w[k] = v[k]
    OBVIOUS
  <2> HIDE DEF w
  <2>3. \A x \in TypesOf(w) : x \in TypesOf(v) \cup {e.type}
    <3> TAKE x \in TypesOf(w)
    <3>1. PICK k \in DOMAIN w : x = w[k].type
      BY DEF TypesOf, Range
    <3>2. CASE k = Len(v) + 1
      BY <2>2, <3>1, <3>2
    <3>3. CASE k # Len(v) + 1
      <4>1. k \in DOMAIN v /\ w[k] = v[k]
        BY <2>2, <3>1, <3>3
      <4>. QED
        BY <3>1, <4>1 DEF TypesOf, Range
    <3>. QED
      BY <3>2, <3>3
  <2>4. \A x \in TypesOf(v) : x \in TypesOf(w)
    <3> TAKE x \in TypesOf(v)
    <3>1. PICK k \in DOMAIN v : x = v[k].type
      BY DEF TypesOf, Range
    <3>2. k \in DOMAIN w /\ w[k] = v[k]
      BY <2>2, <3>1
    <3>. QED
      BY <3>1, <3>2 DEF TypesOf, Range
  <2>5. e.type \in TypesOf(w)
    BY <2>2 DEF TypesOf, Range
  <2>. QED
    BY <2>1, <2>2, <2>3, <2>4, <2>5
<1>. QED
  BY <1>1, <1>2

\* FoldLeft is the fold of Folding.
LEMMA ServicesFold ==
    \A v, s : FoldLeft(AddService, v, s) = Adding!Fold(v, s)
  BY DEF Adding!Fold, FoldLeft, Adding!FoldLeft, MapThenFoldSet, Adding!MapThenFoldSet,
         Max, Adding!Max

\* Services add their types.
LEMMA AddServicesIs ==
    ASSUME NEW v \in Seq(Service), NEW s \in Seq(Service)
    PROVE  /\ FoldLeft(AddService, v, s) \in Seq(Service)
           /\ TypesOf(FoldLeft(AddService, v, s)) = TypesOf(v) \cup TypesOf(s)
<1> DEFINE UpTo(k) == TypesOf(v) \cup {s[j].type : j \in 1 .. k}
           R == [k \in 0 .. Len(s) |-> {w \in Seq(Service) : TypesOf(w) = UpTo(k)}]
<1>0. Len(s) \in Nat /\ \A k \in 1 .. Len(s) : s[k] \in Service /\ k - 1 \in 0 .. Len(s)
  OBVIOUS
<1>1. Adding!Closed
  BY AddServiceIs DEF Adding!Closed
<1>2. R \in [0 .. Len(s) -> SUBSET Seq(Service)]
  OBVIOUS
<1>3. UpTo(0) = TypesOf(v) /\ 0 \in 0 .. Len(s)
  OBVIOUS
<1>4. \A k \in 1 .. Len(s) : UpTo(k) = UpTo(k - 1) \cup {s[k].type}
  <2> TAKE k \in 1 .. Len(s)
  <2>1. 1 .. k = (1 .. k - 1) \cup {k}
    BY <1>0
  <2>. QED
    BY <2>1
<1>5. UpTo(Len(s)) = TypesOf(v) \cup TypesOf(s)
  BY DEF TypesOf, Range
<1> HIDE DEF UpTo
<1>6. v \in R[0]
  BY <1>3
<1>7. \A k \in 1 .. Len(s) : \A w \in R[k - 1] : AddService(w, s[k]) \in R[k]
  <2> TAKE k \in 1 .. Len(s)
  <2> TAKE w \in R[k - 1]
  <2>1. w \in Seq(Service) /\ TypesOf(w) = UpTo(k - 1)
    BY <1>0
  <2>2. /\ AddService(w, s[k]) \in Seq(Service)
        /\ TypesOf(AddService(w, s[k])) = UpTo(k)
    BY <1>0, <1>4, <2>1, AddServiceIs
  <2>. QED
    BY <1>0, <2>2
<1> HIDE DEF R
<1>8. Adding!Fold(v, s) \in R[Len(s)]
  BY <1>1, <1>2, <1>6, <1>7, Adding!FoldInduction
<1>9. FoldLeft(AddService, v, s) \in R[Len(s)]
  BY <1>8, ServicesFold
<1>. QED
  BY <1>0, <1>5, <1>9 DEF R

\* What an endpoint has of a set of evidence of its uuid and address.
Joins(ep, uuid, ip, evidences) ==
    /\ ep \in ProtocolEndpoint
    /\ ep.uuid = uuid
    /\ ep.ip = ip
    /\ TypesOf(ep.services) = UNION {TypesOf(e.services) : e \in evidences}
    /\ ep.location \in {e.location : e \in evidences}
    /\ ep.deviceType \in {e.deviceType : e \in evidences}
    /\ ep.deviceType = NoUrn => \A e \in evidences : e.deviceType = NoUrn

\* A piece of evidence joins those an endpoint speaks for.
LEMMA MergeUpnpIs ==
    ASSUME NEW uuid, NEW ip, NEW evidences, NEW ep, Joins(ep, uuid, ip, evidences),
           NEW e \in IdentityEvidence
    PROVE  Joins(MergeUpnp(ep, e), uuid, ip, evidences \cup {e})
<1> DEFINE services == FoldLeft(AddService, ep.services, e.services)
           new == MergeUpnp(ep, e)
<1>1. ep \in ProtocolEndpoint /\ ep.uuid = uuid /\ ep.ip = ip
  BY DEF Joins
<1>2. ep.services \in Seq(Service) /\ e.services \in Seq(Service)
  BY <1>1 DEF ProtocolEndpoint, IdentityEvidence
<1>3. /\ services \in Seq(Service)
      /\ TypesOf(services) = TypesOf(ep.services) \cup TypesOf(e.services)
  BY <1>2, AddServicesIs
<1>4. new = [ep EXCEPT !.location = FirstOf(ep.location, e.location, NoLocation),
                       !.deviceType = FirstOf(ep.deviceType, e.deviceType, NoUrn),
                       !.services = services]
  BY DEF MergeUpnp
<1> HIDE DEF services, new
<1>5. /\ FirstOf(ep.location, e.location, NoLocation) \in Location \cup {NoLocation}
      /\ FirstOf(ep.deviceType, e.deviceType, NoUrn) \in Urn \cup {NoUrn}
  BY <1>1 DEF FirstOf, ProtocolEndpoint, IdentityEvidence
<1>6. new \in ProtocolEndpoint
  BY <1>1, <1>3, <1>4, <1>5 DEF ProtocolEndpoint
<1>7. /\ new.uuid = uuid /\ new.ip = ip /\ new.services = services
      /\ new.location = FirstOf(ep.location, e.location, NoLocation)
      /\ new.deviceType = FirstOf(ep.deviceType, e.deviceType, NoUrn)
  BY <1>1, <1>4 DEF ProtocolEndpoint
<1>8. TypesOf(new.services) = UNION {TypesOf(f.services) : f \in evidences \cup {e}}
  <2>1. TypesOf(ep.services) = UNION {TypesOf(f.services) : f \in evidences}
    BY DEF Joins
  <2>. QED
    BY <1>3, <1>7, <2>1
<1>9. new.location \in {f.location : f \in evidences \cup {e}}
  BY <1>7 DEF FirstOf, Joins
<1>10. /\ new.deviceType \in {f.deviceType : f \in evidences \cup {e}}
       /\ new.deviceType = NoUrn
             => \A f \in evidences \cup {e} : f.deviceType = NoUrn
  BY <1>7 DEF FirstOf, Joins
<1>. QED
  BY <1>6, <1>7, <1>8, <1>9, <1>10 DEF Joins, new

\* An endpoint speaks for the evidence it is made of.
LEMMA NewEndpointIs ==
    ASSUME NEW e \in IdentityEvidence
    PROVE  Joins(NewEndpoint(e), e.uuid, e.ip, {e})
<1> DEFINE ep == NewEndpoint(e)
<1>1. /\ ep \in ProtocolEndpoint /\ ep.uuid = e.uuid /\ ep.ip = e.ip
      /\ ep.services = e.services /\ ep.location = e.location
      /\ ep.deviceType = e.deviceType
  BY DEF NewEndpoint, ProtocolEndpoint, IdentityEvidence
<1> HIDE DEF ep
<1>. QED
  BY <1>1 DEF Joins, ep

\* FoldLeft is the fold of Folding.
LEMMA MergeFold ==
    \A ep, s : FoldLeft(MergeUpnp, ep, s) = Merging!Fold(ep, s)
  BY DEF Merging!Fold, FoldLeft, Merging!FoldLeft, MapThenFoldSet, Merging!MapThenFoldSet,
         Max, Merging!Max

\* An endpoint stays an endpoint.
LEMMA MergeClosed == Merging!Closed
<1> SUFFICES ASSUME NEW ep \in ProtocolEndpoint, NEW e \in IdentityEvidence
             PROVE  MergeUpnp(ep, e) \in ProtocolEndpoint
  BY DEF Merging!Closed
<1>1. Joins(ep, ep.uuid, ep.ip, {ep})
  BY DEF Joins
<1>2. Joins(MergeUpnp(ep, e), ep.uuid, ep.ip, {ep} \cup {e})
  BY <1>1, MergeUpnpIs
<1>. QED
  BY <1>2 DEF Joins

\* The elements of a sequence but the first, as far as they have been read.
LEMMA HeadAndTail ==
    ASSUME NEW E, NEW s \in Seq(E), s # <<>>
    PROVE  /\ Head(s) \in E /\ Head(s) \in Range(s) /\ Tail(s) \in Seq(E)
           /\ Range(s) = {Head(s)} \cup {Tail(s)[j] : j \in 1 .. Len(Tail(s))}
<1>1. /\ Len(s) \in Nat /\ Len(s) >= 1 /\ DOMAIN s = 1 .. Len(s) /\ Head(s) = s[1]
      /\ Tail(s) \in Seq(E) /\ Len(Tail(s)) = Len(s) - 1
      /\ \A j \in 1 .. Len(s) - 1 : Tail(s)[j] = s[j + 1]
  OBVIOUS
<1>2. Head(s) \in E /\ Head(s) \in Range(s)
  BY <1>1 DEF Range
<1> DEFINE others == {Tail(s)[j] : j \in 1 .. Len(Tail(s))}
<1>3. \A x \in others : x \in Range(s)
  <2> TAKE x \in others
  <2>1. PICK j \in 1 .. Len(s) - 1 : x = s[j + 1]
    BY <1>1
  <2>2. j + 1 \in DOMAIN s
    BY <1>1
  <2>. QED
    BY <2>1, <2>2 DEF Range
<1>4. \A x \in Range(s) : x = Head(s) \/ x \in others
  <2> TAKE x \in Range(s)
  <2>1. PICK k \in 1 .. Len(s) : x = s[k]
    BY <1>1 DEF Range
  <2>2. CASE k = 1
    BY <1>1, <2>1, <2>2
  <2>3. CASE k # 1
    <3>1. k - 1 \in 1 .. Len(Tail(s)) /\ k - 1 \in 1 .. Len(s) - 1 /\ k - 1 + 1 = k
      BY <1>1, <2>3
    <3>2. x = Tail(s)[k - 1]
      BY <1>1, <2>1, <3>1
    <3>. QED
      BY <3>1, <3>2
  <2>. QED
    BY <2>2, <2>3
<1> HIDE DEF others
<1>5. Range(s) = {Head(s)} \cup others
  BY <1>2, <1>3, <1>4
<1>. QED
  BY <1>1, <1>2, <1>5 DEF others

\* The endpoint of a sequence of evidence speaks for all of it.
LEMMA EndpointIs ==
    ASSUME NEW uuid, NEW ip, NEW s \in Seq(IdentityEvidence), s # <<>>,
           \A e \in Range(s) : e.uuid = uuid /\ e.ip = ip
    PROVE  Joins(Endpoint(s), uuid, ip, Range(s))
<1> DEFINE tail == Tail(s)
           UpTo(k) == {Head(s)} \cup {tail[j] : j \in 1 .. k}
           R == [k \in 0 .. Len(tail) |->
                    {ep \in ProtocolEndpoint : Joins(ep, uuid, ip, UpTo(k))}]
           base == NewEndpoint(Head(s))
<1>1. /\ Head(s) \in IdentityEvidence /\ Head(s) \in Range(s)
      /\ tail \in Seq(IdentityEvidence) /\ UpTo(Len(tail)) = Range(s)
  BY HeadAndTail
<1>2. Joins(base, uuid, ip, {Head(s)})
  BY <1>1, NewEndpointIs
<1> HIDE DEF tail, base
<1>3. /\ Len(tail) \in Nat
      /\ \A k \in 1 .. Len(tail) : tail[k] \in IdentityEvidence /\ k - 1 \in 0 .. Len(tail)
  BY <1>1
<1>4. UpTo(0) = {Head(s)} /\ 0 \in 0 .. Len(tail)
  BY <1>3
<1>5. \A k \in 1 .. Len(tail) : UpTo(k) = UpTo(k - 1) \cup {tail[k]}
  <2> TAKE k \in 1 .. Len(tail)
  <2>1. 1 .. k = (1 .. k - 1) \cup {k}
    BY <1>3
  <2>. QED
    BY <2>1
<1>6. R \in [0 .. Len(tail) -> SUBSET ProtocolEndpoint]
  OBVIOUS
<1> HIDE DEF UpTo
<1>7. base \in R[0] /\ base \in ProtocolEndpoint
  BY <1>2, <1>4 DEF Joins
<1>8. \A k \in 1 .. Len(tail) : \A ep \in R[k - 1] : MergeUpnp(ep, tail[k]) \in R[k]
  <2> TAKE k \in 1 .. Len(tail)
  <2> TAKE ep \in R[k - 1]
  <2>1. Joins(ep, uuid, ip, UpTo(k - 1))
    BY <1>3
  <2>2. Joins(MergeUpnp(ep, tail[k]), uuid, ip, UpTo(k - 1) \cup {tail[k]})
    BY <1>3, <2>1, MergeUpnpIs
  <2>3. Joins(MergeUpnp(ep, tail[k]), uuid, ip, UpTo(k))
    BY <1>5, <2>2
  <2>4. MergeUpnp(ep, tail[k]) \in ProtocolEndpoint
    BY <2>3 DEF Joins
  <2>. QED
    BY <1>3, <2>3, <2>4
<1> HIDE DEF R
<1>9. Merging!Fold(base, tail) \in R[Len(tail)]
  BY <1>1, <1>6, <1>7, <1>8, MergeClosed, Merging!FoldInduction
<1>10. Endpoint(s) = Merging!Fold(base, tail)
  BY MergeFold DEF Endpoint, base, tail
<1>11. Endpoint(s) \in R[Len(tail)]
  BY <1>9, <1>10
<1>12. Joins(Endpoint(s), uuid, ip, UpTo(Len(tail)))
  BY <1>3, <1>11 DEF R
<1>. QED
  BY <1>1, <1>12

-----------------------------------------------------------------------------
(* A device says what its evidence says.                                   *)

Texts == [Trait -> Text \cup {NoText}]

\* Each trait is that of some evidence.
Voices(traits, evidences) ==
    /\ traits \in Texts
    /\ \A t \in Trait : \E e \in evidences : traits[t] = e.traits[t]

\* The traits of two speak for the evidence of both.
LEMMA FirstTraitsIs ==
    ASSUME NEW mine, NEW others, NEW some, NEW more,
           Voices(mine, some), Voices(others, more)
    PROVE  Voices(FirstTraits(mine, others), some \cup more)
<1> DEFINE new == FirstTraits(mine, others)
<1>1. \A t \in Trait : new[t] \in {mine[t], others[t]}
  BY DEF FirstTraits, FirstOf
<1>2. new = [t \in Trait |-> new[t]]
  BY DEF FirstTraits
<1> HIDE DEF new
<1>3. \A t \in Trait : new[t] \in Text \cup {NoText}
  BY <1>1 DEF Voices, Texts
<1>4. new \in Texts
  BY <1>2, <1>3 DEF Texts
<1>5. \A t \in Trait : \E e \in some \cup more : new[t] = e.traits[t]
  BY <1>1 DEF Voices
<1>. QED
  BY <1>4, <1>5 DEF Voices, new

\* FoldLeft is the fold of Folding.
LEMMA TraitsFold ==
    \A traits, s : FoldLeft(AddTraits, traits, s) = Voicing!Fold(traits, s)
  BY DEF Voicing!Fold, FoldLeft, Voicing!FoldLeft, MapThenFoldSet, Voicing!MapThenFoldSet,
         Max, Voicing!Max

\* The traits of a group are those of some of its evidence.
LEMMA TraitsIs ==
    ASSUME NEW s \in Seq(IdentityEvidence), s # <<>>
    PROVE  Voices(FoldLeft(AddTraits, Head(s).traits, Tail(s)), Range(s))
<1> DEFINE tail == Tail(s)
           UpTo(k) == {Head(s)} \cup {tail[j] : j \in 1 .. k}
           R == [k \in 0 .. Len(tail) |-> {v \in Texts : Voices(v, UpTo(k))}]
           base == Head(s).traits
<1>0. \A e \in IdentityEvidence : e.traits \in Texts /\ Voices(e.traits, {e})
  BY DEF IdentityEvidence, Texts, Voices
<1>1. /\ Head(s) \in IdentityEvidence
      /\ tail \in Seq(IdentityEvidence) /\ UpTo(Len(tail)) = Range(s)
  BY HeadAndTail
<1>2. Voices(base, {Head(s)})
  BY <1>0, <1>1
<1> HIDE DEF tail, base
<1>3. /\ Len(tail) \in Nat
      /\ \A k \in 1 .. Len(tail) : tail[k] \in IdentityEvidence /\ k - 1 \in 0 .. Len(tail)
  BY <1>1
<1>4. UpTo(0) = {Head(s)} /\ 0 \in 0 .. Len(tail)
  BY <1>3
<1>5. \A k \in 1 .. Len(tail) : UpTo(k) = UpTo(k - 1) \cup {tail[k]}
  <2> TAKE k \in 1 .. Len(tail)
  <2>1. 1 .. k = (1 .. k - 1) \cup {k}
    BY <1>3
  <2>. QED
    BY <2>1
<1>6. R \in [0 .. Len(tail) -> SUBSET Texts]
  OBVIOUS
<1> HIDE DEF UpTo
<1>7. base \in R[0] /\ base \in Texts
  BY <1>2, <1>4 DEF Voices
<1>8. \A k \in 1 .. Len(tail) : \A v \in R[k - 1] : AddTraits(v, tail[k]) \in R[k]
  <2> TAKE k \in 1 .. Len(tail)
  <2> TAKE v \in R[k - 1]
  <2>1. Voices(v, UpTo(k - 1)) /\ Voices(tail[k].traits, {tail[k]})
    BY <1>0, <1>3
  <2>2. Voices(AddTraits(v, tail[k]), UpTo(k - 1) \cup {tail[k]})
    BY <2>1, FirstTraitsIs DEF AddTraits
  <2>3. Voices(AddTraits(v, tail[k]), UpTo(k))
    BY <1>5, <2>2
  <2>4. AddTraits(v, tail[k]) \in Texts
    BY <2>3 DEF Voices
  <2>. QED
    BY <1>3, <2>3, <2>4
<1>9. Voicing!Closed
  <2> SUFFICES ASSUME NEW v \in Texts, NEW e \in IdentityEvidence
               PROVE  AddTraits(v, e) \in Texts
    BY DEF Voicing!Closed, Texts
  <2>1. \A t \in Trait : FirstOf(v[t], e.traits[t], NoText) \in Text \cup {NoText}
    BY <1>0 DEF FirstOf, Texts
  <2>. QED
    BY <2>1 DEF AddTraits, FirstTraits, Texts
<1> HIDE DEF R
<1>10. Voicing!Fold(base, tail) \in R[Len(tail)]
  BY <1>1, <1>6, <1>7, <1>8, <1>9, Voicing!FoldInduction DEF Texts
<1>11. Voices(Voicing!Fold(base, tail), UpTo(Len(tail)))
  BY <1>3, <1>10 DEF R
<1>. QED
  BY <1>1, <1>11, TraitsFold DEF base, tail

\* What a fused device is made of.
Device ==
    [id : Uuid, primaryIp : Ip, traits : Texts, endpoints : Seq(ProtocolEndpoint)]

\* The endpoints are those of the evidence, and each has all that is said at
\* its address.
Covers(endpoints, evidences) ==
    /\ endpoints \in Seq(ProtocolEndpoint)
    /\ \A k \in DOMAIN endpoints :
         LET ep == endpoints[k]
         IN Joins(ep, ep.uuid, ep.ip,
                  {e \in evidences : e.uuid = ep.uuid /\ e.ip = ep.ip})
    /\ \A e \in evidences :
         \E k \in DOMAIN endpoints : endpoints[k].uuid = e.uuid /\ endpoints[k].ip = e.ip

\* A device made of a set of evidence.
Speaks(d, evidences) ==
    /\ d \in Device
    /\ d.primaryIp \in {e.ip : e \in evidences}
    /\ Voices(d.traits, evidences)
    /\ Covers(d.endpoints, evidences)

\* The endpoints of a group cover all its evidence.
LEMMA EndpointsIs ==
    ASSUME NEW uuid, NEW group \in Seq(IdentityEvidence),
           \A e \in Range(group) : e.uuid = uuid
    PROVE  /\ Covers(Endpoints(group), Range(group))
           /\ \A k \in DOMAIN Endpoints(group) : Endpoints(group)[k].uuid = uuid
<1> DEFINE S == {e.ip : e \in Range(group)}
           ips == Ascending(S)
           n == Cardinality(S)
           positions(i) == {k \in DOMAIN group : group[k].ip = ips[i]}
           part(i) == Selected(group, positions(i))
           list == [i \in 1 .. n |-> Endpoint(part(i))]
<1>0. \A e \in Range(group) : e \in IdentityEvidence
  BY DEF Range
<1>1. /\ n \in Nat /\ ips \in [1 .. n -> S]
      /\ \A x \in S : \E i \in 1 .. n : ips[i] = x
  BY NamesAreFinite, AscendingIs
<1>2. Endpoints(group) = list
  BY <1>1 DEF Endpoints
<1>3. ASSUME NEW i \in 1 .. n
      PROVE  /\ part(i) \in Seq(IdentityEvidence) /\ part(i) # <<>>
             /\ Range(part(i)) = {e \in Range(group) : e.ip = ips[i]}
  <2>1. positions(i) \in SUBSET (DOMAIN group)
    OBVIOUS
  <2>2. positions(i) # {}
    BY <1>1 DEF Range
  <2> HIDE DEF positions
  <2>3. /\ part(i) \in Seq(IdentityEvidence) /\ part(i) # <<>>
        /\ Range(part(i)) = {group[k] : k \in positions(i)}
    BY <2>1, <2>2, SelectedIs
  <2>4. {group[k] : k \in positions(i)} = {e \in Range(group) : e.ip = ips[i]}
    BY DEF positions, Range
  <2>. QED
    BY <2>3, <2>4
<1> HIDE DEF n, ips, part
<1>4. ASSUME NEW i \in 1 .. n
      PROVE  /\ Joins(list[i], uuid, ips[i], {e \in Range(group) : e.ip = ips[i]})
             /\ list[i] \in ProtocolEndpoint
             /\ list[i].uuid = uuid /\ list[i].ip = ips[i]
  <2>1. \A e \in Range(part(i)) : e.uuid = uuid /\ e.ip = ips[i]
    BY <1>3
  <2>2. Joins(Endpoint(part(i)), uuid, ips[i], Range(part(i)))
    BY <1>3, <2>1, EndpointIs
  <2>3. Joins(list[i], uuid, ips[i], {e \in Range(group) : e.ip = ips[i]})
    BY <1>3, <2>2
  <2>. QED
    BY <2>3 DEF Joins
<1>5. DOMAIN list = 1 .. n
  OBVIOUS
<1>6. list \in Seq(ProtocolEndpoint)
  <2>1. list = [i \in 1 .. n |-> list[i]]
    OBVIOUS
  <2>2. \A i \in 1 .. n : list[i] \in ProtocolEndpoint
    BY <1>4
  <2> HIDE DEF list
  <2>. QED
    BY <1>1, <2>1, <2>2
<1> HIDE DEF list
<1>7. ASSUME NEW i \in DOMAIN list
      PROVE  Joins(list[i], list[i].uuid, list[i].ip,
                   {e \in Range(group) : e.uuid = list[i].uuid /\ e.ip = list[i].ip})
  <2>1. i \in 1 .. n
    BY <1>5
  <2>2. {e \in Range(group) : e.uuid = list[i].uuid /\ e.ip = list[i].ip}
           = {e \in Range(group) : e.ip = ips[i]}
    BY <1>4, <2>1
  <2>. QED
    BY <1>4, <2>1, <2>2
<1>8. ASSUME NEW e \in Range(group)
      PROVE  \E i \in DOMAIN list : list[i].uuid = e.uuid /\ list[i].ip = e.ip
  <2>1. PICK i \in 1 .. n : ips[i] = e.ip
    BY <1>1
  <2>. QED
    BY <1>4, <1>5, <2>1
<1>. QED
  BY <1>2, <1>4, <1>5, <1>6, <1>7, <1>8 DEF Covers

\* A base device speaks for its group.
LEMMA BaseDeviceIs ==
    ASSUME NEW uuid, NEW group \in Seq(IdentityEvidence), group # <<>>,
           \A e \in Range(group) : e.uuid = uuid
    PROVE  /\ Speaks(BaseDevice(group), Range(group))
           /\ BaseDevice(group).id = uuid
           /\ {ep.uuid : ep \in Range(BaseDevice(group).endpoints)} = {uuid}
<1> DEFINE d == BaseDevice(group)
           traits == FoldLeft(AddTraits, Head(group).traits, Tail(group))
           endpoints == Endpoints(group)
<1>1. Head(group) \in IdentityEvidence /\ Head(group) \in Range(group)
  BY HeadAndTail
<1>2. Voices(traits, Range(group))
  BY TraitsIs
<1>3. /\ Covers(endpoints, Range(group))
      /\ \A k \in DOMAIN endpoints : endpoints[k].uuid = uuid
  BY EndpointsIs
<1>4. d = [id |-> Head(group).uuid, primaryIp |-> Head(group).ip,
           traits |-> traits, endpoints |-> endpoints]
  BY DEF BaseDevice
<1> HIDE DEF d, traits, endpoints
<1>5. /\ d.id = uuid /\ d.primaryIp = Head(group).ip /\ d.traits = traits
      /\ d.endpoints = endpoints
  BY <1>1, <1>4
<1>6. d \in Device
  BY <1>1, <1>2, <1>3, <1>4 DEF Device, Voices, Covers, IdentityEvidence
<1>7. Speaks(d, Range(group))
  BY <1>1, <1>2, <1>3, <1>5, <1>6 DEF Speaks
<1>8. {ep.uuid : ep \in Range(endpoints)} = {uuid}
  <2>1. \A x \in {ep.uuid : ep \in Range(endpoints)} : x = uuid
    BY <1>3 DEF Range
  <2>2. \E k \in DOMAIN endpoints : endpoints[k].uuid = uuid
    BY <1>1, <1>3 DEF Covers
  <2>3. uuid \in {ep.uuid : ep \in Range(endpoints)}
    BY <2>2 DEF Range
  <2>. QED
    BY <2>1, <2>3
<1>. QED
  BY <1>5, <1>7, <1>8 DEF d

\* The evidence of one uuid.
Own(evidences, uuid) == {e \in Range(evidences) : e.uuid = uuid}

\* The base devices: one for each uuid, made of all its evidence.
LEMMA BaseDevicesIs ==
    ASSUME NEW s \in Seq(IdentityEvidence)
    PROVE  LET bases == BaseDevices(s)
           IN /\ bases \in Seq(Device)
              /\ \A j \in DOMAIN bases :
                   /\ Speaks(bases[j], Own(s, bases[j].id))
                   /\ {ep.uuid : ep \in Range(bases[j].endpoints)} = {bases[j].id}
              /\ \A j, k \in DOMAIN bases : j # k => bases[j].id # bases[k].id
              /\ \A e \in Range(s) : \E j \in DOMAIN bases : bases[j].id = e.uuid
<1> DEFINE S == {e.uuid : e \in Range(s)}
           uuids == Ascending(S)
           n == Cardinality(S)
           positions(j) == {k \in DOMAIN s : s[k].uuid = uuids[j]}
           group(j) == Group(s, uuids[j])
           bases == [j \in 1 .. n |-> BaseDevice(group(j))]
<1>0. \A e \in Range(s) : e \in IdentityEvidence
  BY DEF Range
<1>1. /\ n \in Nat /\ uuids \in [1 .. n -> S]
      /\ \A j, k \in 1 .. n : j < k => uuids[j] < uuids[k]
      /\ \A x \in S : \E j \in 1 .. n : uuids[j] = x
      /\ S \in SUBSET Nat
  BY NamesAreFinite, AscendingIs
<1>2. BaseDevices(s) = bases
  BY <1>1 DEF BaseDevices
<1>3. ASSUME NEW j \in 1 .. n
      PROVE  /\ group(j) \in Seq(IdentityEvidence) /\ group(j) # <<>>
             /\ Range(group(j)) = Own(s, uuids[j])
  <2>1. positions(j) \in SUBSET (DOMAIN s)
    OBVIOUS
  <2>2. positions(j) # {}
    BY <1>1 DEF Range
  <2>3. group(j) = Selected(s, positions(j))
    BY DEF Group
  <2> HIDE DEF positions, group
  <2>4. /\ group(j) \in Seq(IdentityEvidence) /\ group(j) # <<>>
        /\ Range(group(j)) = {s[k] : k \in positions(j)}
    BY <2>1, <2>2, <2>3, SelectedIs
  <2>5. {s[k] : k \in positions(j)} = Own(s, uuids[j])
    BY DEF positions, Range, Own
  <2>. QED
    BY <2>4, <2>5
<1> HIDE DEF n, uuids, group
<1>4. ASSUME NEW j \in 1 .. n
      PROVE  /\ Speaks(bases[j], Own(s, uuids[j]))
             /\ bases[j].id = uuids[j]
             /\ {ep.uuid : ep \in Range(bases[j].endpoints)} = {uuids[j]}
             /\ bases[j] \in Device
  <2>1. \A e \in Range(group(j)) : e.uuid = uuids[j]
    BY <1>3 DEF Own
  <2>2. /\ Speaks(BaseDevice(group(j)), Range(group(j)))
        /\ BaseDevice(group(j)).id = uuids[j]
        /\ {ep.uuid : ep \in Range(BaseDevice(group(j)).endpoints)} = {uuids[j]}
    BY <1>3, <2>1, BaseDeviceIs
  <2>3. bases[j] = BaseDevice(group(j))
    OBVIOUS
  <2> HIDE DEF bases
  <2>. QED
    BY <1>3, <2>2, <2>3 DEF Speaks
<1>5. DOMAIN bases = 1 .. n
  OBVIOUS
<1>6. bases \in Seq(Device)
  BY <1>1, <1>4
<1> HIDE DEF bases
<1>7. ASSUME NEW j \in 1 .. n, NEW k \in 1 .. n, j # k
      PROVE  bases[j].id # bases[k].id
  <2>1. uuids[j] \in Nat /\ uuids[k] \in Nat
    BY <1>1
  <2>2. j < k \/ k < j
    BY <1>1, <1>7
  <2>3. uuids[j] # uuids[k]
    BY <1>1, <2>1, <2>2
  <2>. QED
    BY <1>4, <2>3
<1>8. ASSUME NEW e \in Range(s)
      PROVE  \E j \in 1 .. n : bases[j].id = e.uuid
  <2>1. PICK j \in 1 .. n : uuids[j] = e.uuid
    BY <1>1
  <2>. QED
    BY <1>4, <2>1
<1>. QED
  BY <1>2, <1>4, <1>5, <1>6, <1>7, <1>8

-----------------------------------------------------------------------------
(* Sums.                                                                   *)

One(s) == CHOOSE x \in s : TRUE

\* The equations of the function SumFunction chooses, for sets up to a size.
Adds(g, f, n) ==
    g = [s \in {t \in SUBSET (DOMAIN f) : Cardinality(t) <= n} |->
            IF s = {} THEN 0 ELSE f[One(s)] + g[s \ {One(s)}]]

Small(S, n) == {t \in SUBSET S : Cardinality(t) <= n}

\* A set is one smaller without one of its elements.
LEMMA LessOne ==
    ASSUME NEW S, IsFiniteSet(S), NEW s \in SUBSET S, s # {}
    PROVE  /\ One(s) \in s /\ One(s) \in S
           /\ Cardinality(s) \in Nat /\ Cardinality(s) # 0
           /\ s \ {One(s)} \in SUBSET S
           /\ Cardinality(s \ {One(s)}) = Cardinality(s) - 1
<1>1. One(s) \in s
  BY DEF One
<1>2. IsFiniteSet(s)
  BY FS_Subset
<1>3. Cardinality(s) \in Nat /\ Cardinality(s) # 0
  BY <1>2, FS_CardinalityType, FS_EmptySet
<1>4. Cardinality(s \ {One(s)}) = IF One(s) \in s THEN Cardinality(s) - 1
                                  ELSE Cardinality(s)
  BY <1>2, FS_RemoveElement, Zenon
<1>. QED
  BY <1>1, <1>3, <1>4

\* The equations have a solution.
LEMMA AddsExists ==
    ASSUME NEW S, IsFiniteSet(S), NEW f \in [S -> Nat], NEW m \in Nat
    PROVE  \E g \in [Small(S, m) -> Nat] : Adds(g, f, m)
<1> DEFINE Exists(n) == \E g \in [Small(S, n) -> Nat] : Adds(g, f, n)
           N == {n \in Nat : Exists(n)}
<1>0. \A s \in SUBSET S : IsFiniteSet(s) /\ Cardinality(s) \in Nat
  BY FS_Subset, FS_CardinalityType
<1>1. Exists(0)
  <2> DEFINE g == [s \in Small(S, 0) |-> 0]
  <2>1. \A s \in Small(S, 0) : s = {}
    BY <1>0, FS_EmptySet DEF Small
  <2>2. g \in [Small(S, 0) -> Nat]
    OBVIOUS
  <2>3. Adds(g, f, 0)
    BY <2>1 DEF Adds, Small
  <2>. QED
    BY <2>2, <2>3
<1>2. ASSUME NEW n \in Nat, Exists(n) PROVE Exists(n + 1)
  <2>1. PICK g \in [Small(S, n) -> Nat] : Adds(g, f, n)
    BY <1>2
  <2> DEFINE h == [s \in Small(S, n + 1) |->
                      IF s = {} THEN 0 ELSE f[One(s)] + g[s \ {One(s)}]]
  <2>2. ASSUME NEW s \in Small(S, n + 1), s # {}
        PROVE  /\ s \ {One(s)} \in Small(S, n)
               /\ One(s) \in S
    <3>1. s \in SUBSET S /\ Cardinality(s) <= n + 1
      BY DEF Small
    <3>2. /\ One(s) \in S /\ s \ {One(s)} \in SUBSET S
          /\ Cardinality(s) \in Nat /\ Cardinality(s \ {One(s)}) = Cardinality(s) - 1
      BY <2>2, <3>1, LessOne
    <3>. QED
      BY <3>1, <3>2 DEF Small
  <2>3. ASSUME NEW s \in Small(S, n + 1) PROVE h[s] \in Nat
    <3>1. CASE s = {}
      BY <3>1
    <3>2. CASE s # {}
      <4>1. f[One(s)] \in Nat /\ g[s \ {One(s)}] \in Nat
        BY <2>2, <3>2
      <4>. QED
        BY <3>2, <4>1
    <3>. QED
      BY <3>1, <3>2
  <2>4. DOMAIN h = Small(S, n + 1) /\ h = [s \in Small(S, n + 1) |-> h[s]]
    OBVIOUS
  <2>5. ASSUME NEW s \in Small(S, n) PROVE h[s] = g[s]
    <3>1. s \in Small(S, n + 1)
      BY <1>0 DEF Small
    <3>2. g[s] = IF s = {} THEN 0 ELSE f[One(s)] + g[s \ {One(s)}]
      BY <2>1 DEF Adds, Small
    <3>. QED
      BY <3>1, <3>2
  <2>6. ASSUME NEW s \in Small(S, n + 1)
        PROVE  h[s] = IF s = {} THEN 0 ELSE f[One(s)] + h[s \ {One(s)}]
    <3>1. h[s] = IF s = {} THEN 0 ELSE f[One(s)] + g[s \ {One(s)}]
      OBVIOUS
    <3> HIDE DEF h
    <3>. QED
      BY <2>2, <2>5, <3>1
  <2> HIDE DEF h
  <2>7. h \in [Small(S, n + 1) -> Nat]
    BY <2>3, <2>4
  <2>8. Adds(h, f, n + 1)
    BY <2>4, <2>6 DEF Adds, Small
  <2>. QED
    BY <2>7, <2>8
<1> HIDE DEF Exists
<1>3. N \in SUBSET Nat /\ 0 \in N /\ \A n \in N : n + 1 \in N
  BY <1>1, <1>2
<1>4. N = Nat
  <2> HIDE DEF N
  <2>. QED
    BY <1>3, Merging!SetInduction
<1>5. Exists(m)
  BY <1>4
<1>. QED
  BY <1>5 DEF Exists

\* The function SumFunction chooses.
Sums(f) ==
    CHOOSE g : g = [s \in SUBSET (DOMAIN f) |->
                       IF s = {} THEN 0 ELSE f[One(s)] + g[s \ {One(s)}]]

\* The function that SumFunction chooses satisfies its equations.
LEMMA SumsIs ==
    ASSUME NEW S, IsFiniteSet(S), NEW f \in [S -> Nat]
    PROVE  /\ Sums(f) \in [SUBSET S -> Nat]
           /\ Sums(f) = [s \in SUBSET S |->
                            IF s = {} THEN 0
                            ELSE f[One(s)] + Sums(f)[s \ {One(s)}]]
           /\ SumFunction(f) = Sums(f)[S]
<1> DEFINE m == Cardinality(S)
<1>1. m \in Nat
  BY FS_CardinalityType
<1>2. Small(S, m) = SUBSET S
  <2>1. \A s \in SUBSET S : Cardinality(s) <= m
    BY FS_Subset
  <2>. QED
    BY <2>1 DEF Small
<1> HIDE DEF m
<1>3. PICK g \in [SUBSET S -> Nat] : Adds(g, f, m)
  BY <1>1, <1>2, AddsExists
<1>4. DOMAIN f = S
  OBVIOUS
<1>5. g = [s \in SUBSET (DOMAIN f) |->
              IF s = {} THEN 0 ELSE f[One(s)] + g[s \ {One(s)}]]
  BY <1>2, <1>3, <1>4 DEF Adds, Small
<1>6. Sums(f) = [s \in SUBSET (DOMAIN f) |->
                    IF s = {} THEN 0 ELSE f[One(s)] + Sums(f)[s \ {One(s)}]]
  BY <1>5 DEF Sums
<1>7. SumFunction(f) = Sums(f)[DOMAIN f]
  BY DEF SumFunction, SumFunctionOnSet, FoldFunctionOnSet, MapThenFoldSet, Sums, One
<1>8. Sums(f) = [s \in SUBSET S |->
                    IF s = {} THEN 0 ELSE f[One(s)] + Sums(f)[s \ {One(s)}]]
  BY <1>4, <1>6
<1> DEFINE g2 == Sums(f)
           N == {n \in Nat : \A s \in SUBSET S : Cardinality(s) = n => g2[s] \in Nat}
<1>9. \A s \in SUBSET S :
        g2[s] = IF s = {} THEN 0 ELSE f[One(s)] + g2[s \ {One(s)}]
  BY <1>8
<1>10. DOMAIN g2 = SUBSET S /\ g2 = [s \in SUBSET S |-> g2[s]]
  BY <1>8
<1> HIDE DEF g2
<1>11. 0 \in N
  <2> SUFFICES ASSUME NEW s \in SUBSET S, Cardinality(s) = 0 PROVE g2[s] \in Nat
    OBVIOUS
  <2>1. s = {}
    BY FS_Subset, FS_EmptySet
  <2>. QED
    BY <1>9, <2>1
<1>12. ASSUME NEW n \in N PROVE n + 1 \in N
  <2> SUFFICES ASSUME NEW s \in SUBSET S, Cardinality(s) = n + 1 PROVE g2[s] \in Nat
    OBVIOUS
  <2>1. n \in Nat /\ s # {}
    <3>1. n \in Nat /\ n + 1 # 0
      OBVIOUS
    <3>. QED
      BY <3>1, FS_EmptySet
  <2>2. /\ One(s) \in S /\ s \ {One(s)} \in SUBSET S
        /\ Cardinality(s \ {One(s)}) = n + 1 - 1
    BY <2>1, LessOne
  <2>3. g2[s \ {One(s)}] \in Nat
    BY <2>1, <2>2
  <2>4. f[One(s)] \in Nat
    BY <2>2
  <2>5. g2[s] = f[One(s)] + g2[s \ {One(s)}]
    BY <1>9, <2>1
  <2>. QED
    BY <2>3, <2>4, <2>5
<1>13. N = Nat
  <2>1. N \in SUBSET Nat
    OBVIOUS
  <2> HIDE DEF N
  <2>. QED
    BY <1>11, <1>12, <2>1, Merging!SetInduction
<1>14. \A s \in SUBSET S : g2[s] \in Nat
  <2> TAKE s \in SUBSET S
  <2>1. Cardinality(s) \in Nat
    BY FS_Subset, FS_CardinalityType
  <2>. QED
    BY <1>13, <2>1
<1>15. g2 \in [SUBSET S -> Nat]
  BY <1>10, <1>14
<1>. QED
  BY <1>4, <1>7, <1>8, <1>15 DEF g2

\* A sum of naturals is a natural.
LEMMA SumIsNat ==
    ASSUME NEW S, IsFiniteSet(S), NEW f \in [S -> Nat]
    PROVE  SumFunction(f) \in Nat
<1>1. Sums(f) \in [SUBSET S -> Nat] /\ SumFunction(f) = Sums(f)[S]
  BY SumsIs
<1>. QED
  BY <1>1

\* More in each place is more in all.
LEMMA SumGrows ==
    ASSUME NEW S, IsFiniteSet(S), NEW f \in [S -> Nat], NEW h \in [S -> Nat],
           \A x \in S : f[x] <= h[x]
    PROVE  SumFunction(f) <= SumFunction(h)
<1> DEFINE g1 == Sums(f)
           g2 == Sums(h)
           N == {n \in Nat : \A s \in SUBSET S : Cardinality(s) = n => g1[s] <= g2[s]}
<1>1. /\ g1 \in [SUBSET S -> Nat]
      /\ g1 = [s \in SUBSET S |-> IF s = {} THEN 0 ELSE f[One(s)] + g1[s \ {One(s)}]]
      /\ SumFunction(f) = g1[S]
  BY SumsIs, Zenon
<1>2. /\ g2 \in [SUBSET S -> Nat]
      /\ g2 = [s \in SUBSET S |-> IF s = {} THEN 0 ELSE h[One(s)] + g2[s \ {One(s)}]]
      /\ SumFunction(h) = g2[S]
  BY SumsIs, Zenon
<1> HIDE DEF g1, g2
<1>3. \A s \in SUBSET S :
        /\ g1[s] = IF s = {} THEN 0 ELSE f[One(s)] + g1[s \ {One(s)}]
        /\ g2[s] = IF s = {} THEN 0 ELSE h[One(s)] + g2[s \ {One(s)}]
  BY <1>1, <1>2
<1>4. 0 \in N
  <2> SUFFICES ASSUME NEW s \in SUBSET S, Cardinality(s) = 0 PROVE g1[s] <= g2[s]
    OBVIOUS
  <2>1. s = {}
    BY FS_Subset, FS_EmptySet
  <2>. QED
    BY <1>3, <2>1
<1>5. ASSUME NEW n \in N PROVE n + 1 \in N
  <2> SUFFICES ASSUME NEW s \in SUBSET S, Cardinality(s) = n + 1 PROVE g1[s] <= g2[s]
    OBVIOUS
  <2>1. n \in Nat /\ s # {}
    <3>1. n \in Nat /\ n + 1 # 0
      OBVIOUS
    <3>. QED
      BY <3>1, FS_EmptySet
  <2>2. /\ One(s) \in S /\ s \ {One(s)} \in SUBSET S
        /\ Cardinality(s \ {One(s)}) = n + 1 - 1
    BY <2>1, LessOne
  <2>3. g1[s \ {One(s)}] <= g2[s \ {One(s)}]
    BY <2>1, <2>2
  <2>4. /\ f[One(s)] <= h[One(s)] /\ f[One(s)] \in Nat /\ h[One(s)] \in Nat
        /\ g1[s \ {One(s)}] \in Nat /\ g2[s \ {One(s)}] \in Nat
    BY <1>1, <1>2, <2>2
  <2>5. /\ g1[s] = f[One(s)] + g1[s \ {One(s)}]
        /\ g2[s] = h[One(s)] + g2[s \ {One(s)}]
    BY <1>3, <2>1
  <2>. QED
    BY <2>3, <2>4, <2>5
<1>6. N = Nat
  <2>1. N \in SUBSET Nat
    OBVIOUS
  <2> HIDE DEF N
  <2>. QED
    BY <1>4, <1>5, <2>1, Merging!SetInduction
<1>7. Cardinality(S) \in Nat
  BY FS_CardinalityType
<1>8. g1[S] <= g2[S]
  BY <1>6, <1>7
<1>. QED
  BY <1>1, <1>2, <1>8

-----------------------------------------------------------------------------
(* What two devices score, their evidence has in common.                   *)

\* The location of a device is that of some evidence.
LEMMA LocationIs ==
    ASSUME NEW d, NEW E, Covers(d.endpoints, E), LocationUrl(d) \in Location
    PROVE  \E e \in E : e.location = LocationUrl(d)
<1> DEFINE located == {k \in DOMAIN d.endpoints :
                          d.endpoints[k].location # NoLocation}
<1>1. located # {} /\ LocationUrl(d) = d.endpoints[Min(located)].location
  BY FusionAssumption DEF LocationUrl
<1>2. located \in SUBSET Nat /\ located \subseteq DOMAIN d.endpoints
  <2>1. d.endpoints \in Seq(ProtocolEndpoint)
    BY DEF Covers
  <2>2. Len(d.endpoints) \in Nat /\ DOMAIN d.endpoints = 1 .. Len(d.endpoints)
    BY <2>1
  <2>. QED
    BY <2>2
<1> HIDE DEF located
<1>3. Min(located) \in located
  <2>1. \E x \in located : \A y \in located : x <= y
    BY <1>1, <1>2, Merging!LeastNumber
  <2>. QED
    BY <2>1 DEF Min
<1>4. Min(located) \in DOMAIN d.endpoints
  BY <1>2, <1>3
<1> DEFINE ep == d.endpoints[Min(located)]
<1>5. Joins(ep, ep.uuid, ep.ip, {e \in E : e.uuid = ep.uuid /\ e.ip = ep.ip})
  BY <1>4 DEF Covers
<1>6. ep.location = LocationUrl(d)
  BY <1>1
<1> HIDE DEF ep
<1>. QED
  BY <1>5, <1>6 DEF Joins

\* There are five traits, each with its weight.
LEMMA TraitsAreFinite ==
    /\ IsFiniteSet(Trait)
    /\ \A t \in Trait : Weight[t] \in Nat
<1>1. IsFiniteSet({"serialNumber"} \cup {"presentationUrl"} \cup {"displayName"}
                    \cup {"manufacturer"} \cup {"model"})
  BY FS_Singleton, FS_Union, Zenon
<1>2. Trait = {"serialNumber"} \cup {"presentationUrl"} \cup {"displayName"}
                  \cup {"manufacturer"} \cup {"model"}
  BY DEF Trait
<1>3. \A t \in Trait : Weight[t] \in Nat
  BY DEF Trait, Weight
<1>. QED
  BY <1>1, <1>2, <1>3

\* What scores two devices, the evidence of the one has in common with any
\* evidence that includes that of the other.
LEMMA ScoreIsShared ==
    ASSUME NEW base, NEW d, NEW E1, NEW E2, NEW E3,
           Speaks(base, E1), Speaks(d, E2), E2 \subseteq E3,
           base.id # d.id, Score(base, d) >= FusionThreshold
    PROVE  Resemblance(E1, E3) >= FusionThreshold
<1> DEFINE Says(evidences, t) == {e.traits[t] : e \in evidences} \ {NoText}
           At(evidences) == {e.ip : e \in evidences}
           Bases(evidences) == {Base[e.location] :
                                  e \in {f \in evidences : f.location # NoLocation}}
           scored == [t \in Trait |-> IF /\ base.traits[t] # NoText
                                         /\ base.traits[t] = d.traits[t]
                                      THEN Weight[t] ELSE 0]
           shared == [t \in Trait |-> IF Says(E1, t) \cap Says(E3, t) # {}
                                      THEN Weight[t] ELSE 0]
           url == IF SameUrl(LocationUrl(base), LocationUrl(d)) THEN SameUrlWeight ELSE 0
           ip == IF base.primaryIp = d.primaryIp THEN SameIpWeight ELSE 0
           sharedUrl == IF Bases(E1) \cap Bases(E3) # {} THEN SameUrlWeight ELSE 0
           sharedIp == IF At(E1) \cap At(E3) # {} THEN SameIpWeight ELSE 0
<1>1. Score(base, d) = SumFunction(scored) + 0 + url + ip
  BY DEF Score
<1>2. Resemblance(E1, E3) = SumFunction(shared) + sharedUrl + sharedIp
  BY DEF Resemblance
<1>3. scored \in [Trait -> Nat] /\ shared \in [Trait -> Nat]
  BY TraitsAreFinite
<1>4. ASSUME NEW t \in Trait PROVE scored[t] <= shared[t]
  <2>1. CASE base.traits[t] # NoText /\ base.traits[t] = d.traits[t]
    <3>1. PICK e \in E1 : base.traits[t] = e.traits[t]
      BY DEF Speaks, Voices
    <3>2. PICK f \in E2 : d.traits[t] = f.traits[t]
      BY DEF Speaks, Voices
    <3>3. base.traits[t] \in Says(E1, t) \cap Says(E3, t)
      BY <2>1, <3>1, <3>2
    <3>4. shared[t] = Weight[t] /\ scored[t] = Weight[t]
      BY <2>1, <3>3
    <3> HIDE DEF scored, shared
    <3>. QED
      BY <3>4, TraitsAreFinite
  <2>2. CASE ~ (base.traits[t] # NoText /\ base.traits[t] = d.traits[t])
    <3>1. scored[t] = 0 /\ shared[t] \in Nat
      BY <1>3, <2>2
    <3> HIDE DEF scored, shared
    <3>. QED
      BY <3>1
  <2>. QED
    BY <2>1, <2>2
<1>5. url <= sharedUrl
  <2>1. CASE SameUrl(LocationUrl(base), LocationUrl(d))
    <3>1. /\ LocationUrl(base) \in Location /\ LocationUrl(d) \in Location
          /\ Base[LocationUrl(base)] = Base[LocationUrl(d)]
      BY <2>1 DEF SameUrl
    <3>2. PICK e \in E1 : e.location = LocationUrl(base)
      BY <3>1, LocationIs DEF Speaks
    <3>3. PICK f \in E2 : f.location = LocationUrl(d)
      BY <3>1, LocationIs DEF Speaks
    <3>4. Base[e.location] \in Bases(E1) \cap Bases(E3)
      BY <3>1, <3>2, <3>3, FusionAssumption
    <3>5. sharedUrl = SameUrlWeight
      BY <3>4
    <3> HIDE DEF Bases
    <3>. QED
      BY <3>5 DEF SameUrlWeight
  <2>2. CASE ~ SameUrl(LocationUrl(base), LocationUrl(d))
    <3> HIDE DEF Bases
    <3>. QED
      BY <2>2 DEF SameUrlWeight
  <2>. QED
    BY <2>1, <2>2
<1>6. ip <= sharedIp
  <2>1. CASE base.primaryIp = d.primaryIp
    <3>1. base.primaryIp \in At(E1) \cap At(E3)
      BY <2>1 DEF Speaks
    <3>2. sharedIp = SameIpWeight
      BY <3>1
    <3> HIDE DEF At
    <3>. QED
      BY <3>2 DEF SameIpWeight
  <2>2. CASE base.primaryIp # d.primaryIp
    <3> HIDE DEF At
    <3>. QED
      BY <2>2 DEF SameIpWeight
  <2>. QED
    BY <2>1, <2>2
<1>7. /\ url \in Nat /\ ip \in Nat /\ sharedUrl \in Nat /\ sharedIp \in Nat
  <2> HIDE DEF At, Bases
  <2>. QED
    BY DEF SameUrlWeight, SameIpWeight
<1> HIDE DEF scored, shared, url, ip, sharedUrl, sharedIp, At, Bases, Says
<1>8. SumFunction(scored) <= SumFunction(shared)
  BY <1>3, <1>4, SumGrows, TraitsAreFinite
<1>9. SumFunction(scored) \in Nat /\ SumFunction(shared) \in Nat
  BY <1>3, SumIsNat, TraitsAreFinite
<1>. QED
  BY <1>1, <1>2, <1>5, <1>6, <1>7, <1>8, <1>9 DEF FusionThreshold

-----------------------------------------------------------------------------
(* The fused devices.                                                      *)

UuidsOf(d) == {ep.uuid : ep \in Range(d.endpoints)}

\* The evidence of some uuids.
Of(s, uuids) == {e \in Range(s) : e.uuid \in uuids}

\* An endpoint has evidence, and the evidence has its uuid.
LEMMA CoveredUuids ==
    ASSUME NEW endpoints, NEW E, Covers(endpoints, E), NEW k \in DOMAIN endpoints
    PROVE  \E e \in E : e.uuid = endpoints[k].uuid
  BY DEF Covers, Joins

\* A sequence holds what two others hold.
JoinOf(c, a, b) ==
    /\ \A k \in DOMAIN c : \/ \E i \in DOMAIN a : c[k] = a[i]
                           \/ \E i \in DOMAIN b : c[k] = b[i]
    /\ \A i \in DOMAIN a : \E k \in DOMAIN c : c[k] = a[i]
    /\ \A i \in DOMAIN b : \E k \in DOMAIN c : c[k] = b[i]

\* What two sequences hold, their concatenation holds.
LEMMA RangeOfJoin ==
    ASSUME NEW S, NEW a \in Seq(S), NEW b \in Seq(S)
    PROVE  a \o b \in Seq(S) /\ JoinOf(a \o b, a, b)
<1> DEFINE c == a \o b
<1>1. /\ Len(a) \in Nat /\ Len(b) \in Nat /\ c \in Seq(S)
      /\ DOMAIN a = 1 .. Len(a) /\ DOMAIN b = 1 .. Len(b)
      /\ DOMAIN c = 1 .. Len(a) + Len(b)
      /\ \A k \in 1 .. Len(a) + Len(b) :
           c[k] = IF k <= Len(a) THEN a[k] ELSE b[k - Len(a)]
  OBVIOUS
<1> HIDE DEF c
<1>2. \A k \in DOMAIN c : \/ \E i \in DOMAIN a : c[k] = a[i]
                          \/ \E i \in DOMAIN b : c[k] = b[i]
  <2> TAKE k \in DOMAIN c
  <2>1. CASE k <= Len(a)
    BY <1>1, <2>1
  <2>2. CASE k > Len(a)
    <3>1. k - Len(a) \in DOMAIN b /\ c[k] = b[k - Len(a)]
      BY <1>1, <2>2
    <3>. QED
      BY <3>1
  <2>. QED
    BY <1>1, <2>1, <2>2
<1>3. \A i \in DOMAIN a : \E k \in DOMAIN c : c[k] = a[i]
  BY <1>1
<1>4. \A i \in DOMAIN b : \E k \in DOMAIN c : c[k] = b[i]
  <2> TAKE i \in DOMAIN b
  <2>1. /\ Len(a) + i \in DOMAIN c /\ c[Len(a) + i] = b[Len(a) + i - Len(a)]
        /\ Len(a) + i - Len(a) = i
    BY <1>1
  <2>. QED
    BY <2>1
<1>. QED
  BY <1>1, <1>2, <1>3, <1>4 DEF c, JoinOf

\* A device that takes another one in speaks for the evidence of both.
LEMMA AbsorbIs ==
    ASSUME NEW d, NEW base, NEW E, NEW F, Speaks(d, E), Speaks(base, F),
           \A e \in E, f \in F : e.uuid # f.uuid
    PROVE  /\ Speaks(Absorb(d, base), E \cup F)
           /\ UuidsOf(Absorb(d, base)) = UuidsOf(d) \cup UuidsOf(base)
           /\ Absorb(d, base).id = d.id
<1> DEFINE new == Absorb(d, base)
           a == d.endpoints
           b == base.endpoints
           c == a \o b
           traits == FirstTraits(d.traits, base.traits)
<1>1. d \in Device /\ base \in Device /\ Covers(a, E) /\ Covers(b, F)
  BY DEF Speaks
<1>2. a \in Seq(ProtocolEndpoint) /\ b \in Seq(ProtocolEndpoint)
  BY <1>1 DEF Covers
<1>3. new = [d EXCEPT !.endpoints = c, !.traits = traits]
  BY DEF Absorb
<1>4. Voices(traits, E \cup F)
  BY FirstTraitsIs DEF Speaks
<1>5. /\ c \in Seq(ProtocolEndpoint)
      /\ \A k \in DOMAIN c : \/ \E i \in DOMAIN a : c[k] = a[i]
                             \/ \E i \in DOMAIN b : c[k] = b[i]
      /\ \A i \in DOMAIN a : \E k \in DOMAIN c : c[k] = a[i]
      /\ \A i \in DOMAIN b : \E k \in DOMAIN c : c[k] = b[i]
  <2>1. c \in Seq(ProtocolEndpoint) /\ JoinOf(c, a, b)
    BY <1>2, RangeOfJoin
  <2> HIDE DEF a, b, c
  <2>. QED
    BY <2>1 DEF JoinOf
<1> HIDE DEF c, traits, new
<1>6. /\ new \in Device /\ new.id = d.id /\ new.primaryIp = d.primaryIp
      /\ new.traits = traits /\ new.endpoints = c
  BY <1>1, <1>3, <1>4, <1>5 DEF Device, Voices
<1>7. ASSUME NEW k \in DOMAIN c
      PROVE  Joins(c[k], c[k].uuid, c[k].ip,
                   {e \in E \cup F : e.uuid = c[k].uuid /\ e.ip = c[k].ip})
  <2>1. ASSUME NEW i \in DOMAIN a, c[k] = a[i]
        PROVE  Joins(c[k], c[k].uuid, c[k].ip,
                     {e \in E \cup F : e.uuid = c[k].uuid /\ e.ip = c[k].ip})
    <3>1. PICK f \in E : f.uuid = a[i].uuid
      BY <1>1, CoveredUuids
    <3>2. {e \in E \cup F : e.uuid = c[k].uuid /\ e.ip = c[k].ip}
             = {e \in E : e.uuid = a[i].uuid /\ e.ip = a[i].ip}
      BY <2>1, <3>1
    <3>. QED
      BY <1>1, <2>1, <3>2 DEF Covers
  <2>2. ASSUME NEW i \in DOMAIN b, c[k] = b[i]
        PROVE  Joins(c[k], c[k].uuid, c[k].ip,
                     {e \in E \cup F : e.uuid = c[k].uuid /\ e.ip = c[k].ip})
    <3>1. PICK f \in F : f.uuid = b[i].uuid
      BY <1>1, CoveredUuids
    <3>2. {e \in E \cup F : e.uuid = c[k].uuid /\ e.ip = c[k].ip}
             = {e \in F : e.uuid = b[i].uuid /\ e.ip = b[i].ip}
      BY <2>2, <3>1
    <3>. QED
      BY <1>1, <2>2, <3>2 DEF Covers
  <2>. QED
    BY <1>5, <2>1, <2>2
<1>8. ASSUME NEW e \in E \cup F
      PROVE  \E k \in DOMAIN c : c[k].uuid = e.uuid /\ c[k].ip = e.ip
  <2>1. \/ \E i \in DOMAIN a : a[i].uuid = e.uuid /\ a[i].ip = e.ip
        \/ \E i \in DOMAIN b : b[i].uuid = e.uuid /\ b[i].ip = e.ip
    BY <1>1 DEF Covers
  <2>. QED
    BY <1>5, <2>1
<1>9. Covers(c, E \cup F)
  BY <1>5, <1>7, <1>8 DEF Covers
<1>10. new.primaryIp \in {e.ip : e \in E \cup F}
  BY <1>6 DEF Speaks
<1>11. Speaks(new, E \cup F)
  BY <1>4, <1>6, <1>9, <1>10 DEF Speaks
<1>12. UuidsOf(new) = UuidsOf(d) \cup UuidsOf(base)
  BY <1>5, <1>6 DEF UuidsOf, Range
<1>. QED
  BY <1>6, <1>11, <1>12 DEF new

\* The devices after the base devices of some uuids have been placed: each
\* uuid in one device, with all its evidence, and only where the evidence
\* has enough in common.
Justified(d, s) ==
    \A u \in UuidsOf(d) : u # d.id =>
        Resemblance(Own(s, u), Of(s, UuidsOf(d)) \ Own(s, u)) >= FusionThreshold

FusedDevice(d, s) ==
    /\ Speaks(d, Of(s, UuidsOf(d)))
    /\ d.id \in UuidsOf(d)
    /\ Justified(d, s)

Fused(list, s, uuids) ==
    /\ list \in Seq(Device)
    /\ \A i \in DOMAIN list : FusedDevice(list[i], s) /\ UuidsOf(list[i]) \subseteq uuids
    /\ \A u \in uuids : \E i \in DOMAIN list : u \in UuidsOf(list[i])
    /\ \A i, j \in DOMAIN list :
         i # j => UuidsOf(list[i]) \cap UuidsOf(list[j]) = {}

\* More evidence has more in common.
LEMMA MoreResemblance ==
    ASSUME NEW E1, NEW E2, NEW E3, E2 \subseteq E3,
           Resemblance(E1, E2) >= FusionThreshold
    PROVE  Resemblance(E1, E3) >= FusionThreshold
<1> DEFINE Says(evidences, t) == {e.traits[t] : e \in evidences} \ {NoText}
           At(evidences) == {e.ip : e \in evidences}
           Bases(evidences) == {Base[e.location] :
                                  e \in {f \in evidences : f.location # NoLocation}}
           less == [t \in Trait |-> IF Says(E1, t) \cap Says(E2, t) # {}
                                    THEN Weight[t] ELSE 0]
           more == [t \in Trait |-> IF Says(E1, t) \cap Says(E3, t) # {}
                                    THEN Weight[t] ELSE 0]
           url(E) == IF Bases(E1) \cap Bases(E) # {} THEN SameUrlWeight ELSE 0
           ip(E) == IF At(E1) \cap At(E) # {} THEN SameIpWeight ELSE 0
<1>1. /\ Resemblance(E1, E2) = SumFunction(less) + url(E2) + ip(E2)
      /\ Resemblance(E1, E3) = SumFunction(more) + url(E3) + ip(E3)
  BY DEF Resemblance
<1>2. less \in [Trait -> Nat] /\ more \in [Trait -> Nat]
  BY TraitsAreFinite
<1>3. \A t \in Trait : Says(E2, t) \subseteq Says(E3, t)
  OBVIOUS
<1>4. At(E2) \subseteq At(E3) /\ Bases(E2) \subseteq Bases(E3)
  OBVIOUS
<1> HIDE DEF At, Bases, Says
<1>5. \A t \in Trait : less[t] <= more[t]
  BY <1>3, TraitsAreFinite
<1>6. url(E2) <= url(E3) /\ ip(E2) <= ip(E3)
  BY <1>4 DEF SameUrlWeight, SameIpWeight
<1>7. url(E2) \in Nat /\ url(E3) \in Nat /\ ip(E2) \in Nat /\ ip(E3) \in Nat
  BY DEF SameUrlWeight, SameIpWeight
<1> HIDE DEF less, more, url, ip
<1>8. SumFunction(less) <= SumFunction(more)
  BY <1>2, <1>5, SumGrows, TraitsAreFinite
<1>9. SumFunction(less) \in Nat /\ SumFunction(more) \in Nat
  BY <1>2, SumIsNat, TraitsAreFinite
<1>. QED
  BY <1>1, <1>6, <1>7, <1>8, <1>9 DEF FusionThreshold

\* A device of one uuid, made of all its evidence.
BaseOf(base, s) ==
    /\ Speaks(base, Own(s, base.id))
    /\ UuidsOf(base) = {base.id}

\* A base device is a fused device of one uuid.
LEMMA BaseIsFused ==
    ASSUME NEW s, NEW base, BaseOf(base, s)
    PROVE  FusedDevice(base, s)
<1>1. Of(s, UuidsOf(base)) = Own(s, base.id)
  BY DEF BaseOf, Of, Own
<1>2. \A u \in UuidsOf(base) : u = base.id
  BY DEF BaseOf
<1>3. Justified(base, s)
  BY <1>2 DEF Justified
<1>. QED
  BY <1>1, <1>2, <1>3 DEF FusedDevice, BaseOf

\* A fused device that takes in one like it is a fused device.
LEMMA AbsorbIsFused ==
    ASSUME NEW s, NEW base, NEW d, BaseOf(base, s), FusedDevice(d, s),
           base.id \notin UuidsOf(d), Score(base, d) >= FusionThreshold
    PROVE  /\ FusedDevice(Absorb(d, base), s)
           /\ UuidsOf(Absorb(d, base)) = UuidsOf(d) \cup {base.id}
<1> DEFINE new == Absorb(d, base)
           E == Of(s, UuidsOf(d))
           F == Own(s, base.id)
<1>1. /\ Speaks(d, E) /\ Speaks(base, F) /\ UuidsOf(base) = {base.id}
      /\ d.id \in UuidsOf(d) /\ Justified(d, s)
  BY DEF BaseOf, FusedDevice
<1>2. \A e \in E, f \in F : e.uuid # f.uuid
  BY DEF Of, Own
<1> HIDE DEF E, F
<1>3. /\ Speaks(new, E \cup F) /\ UuidsOf(new) = UuidsOf(d) \cup {base.id}
      /\ new.id = d.id
  BY <1>1, <1>2, AbsorbIs
<1> HIDE DEF new
<1>4. Of(s, UuidsOf(new)) = E \cup F
  BY <1>3 DEF Of, Own, E, F
<1>5. ASSUME NEW u \in UuidsOf(new), u # new.id
      PROVE  Resemblance(Own(s, u), Of(s, UuidsOf(new)) \ Own(s, u)) >= FusionThreshold
  <2>1. CASE u = base.id
    <3>1. base.id # d.id
      BY <1>1
    <3>2. E \subseteq Of(s, UuidsOf(new)) \ F
      BY <1>2, <1>4 DEF Of, E, F, Own
    <3>3. Resemblance(F, Of(s, UuidsOf(new)) \ F) >= FusionThreshold
      BY <1>1, <3>1, <3>2, ScoreIsShared
    <3>. QED
      BY <2>1, <3>3 DEF F
  <2>2. CASE u # base.id
    <3>1. u \in UuidsOf(d) /\ u # d.id
      BY <1>3, <1>5, <2>2
    <3>2. Resemblance(Own(s, u), E \ Own(s, u)) >= FusionThreshold
      BY <1>1, <3>1 DEF Justified, E
    <3>3. E \ Own(s, u) \subseteq Of(s, UuidsOf(new)) \ Own(s, u)
      BY <1>4
    <3>. QED
      BY <3>2, <3>3, MoreResemblance
  <2>. QED
    BY <2>1, <2>2
<1>6. Justified(new, s)
  BY <1>5 DEF Justified
<1>7. FusedDevice(new, s)
  BY <1>1, <1>3, <1>4, <1>6 DEF FusedDevice
<1>. QED
  BY <1>3, <1>7 DEF new

\* A base device is placed, and the others stay.
LEMMA PlaceIs ==
    ASSUME NEW s, NEW list, NEW uuids, Fused(list, s, uuids),
           NEW base, BaseOf(base, s), base.id \notin uuids
    PROVE  Fused(Place(list, base), s, uuids \cup {base.id})
<1> DEFINE alike == Alike(list, base)
           all == uuids \cup {base.id}
<1>1. /\ list \in Seq(Device) /\ Len(list) \in Nat /\ DOMAIN list = 1 .. Len(list)
      /\ base \in Device /\ UuidsOf(base) = {base.id}
      /\ \A i \in DOMAIN list : FusedDevice(list[i], s) /\ UuidsOf(list[i]) \subseteq uuids
      /\ \A u \in uuids : \E i \in DOMAIN list : u \in UuidsOf(list[i])
      /\ \A i, j \in DOMAIN list :
           i # j => UuidsOf(list[i]) \cap UuidsOf(list[j]) = {}
  BY DEF Fused, BaseOf, Speaks
<1>2. CASE alike = {}
  <2> DEFINE new == Append(list, base)
             n == Len(list) + 1
  <2>1. Place(list, base) = new
    BY <1>2 DEF Place
  <2>2. /\ new \in Seq(Device) /\ DOMAIN new = 1 .. n /\ new[n] = base
        /\ \A i \in 1 .. n : i # n => i \in DOMAIN list /\ new[i] = list[i]
        /\ n \in 1 .. n
    BY <1>1
  <2>3. \A i \in DOMAIN list : i \in 1 .. n /\ i # n
    BY <1>1
  <2> HIDE DEF new, n
  <2>4. \A i \in DOMAIN new : FusedDevice(new[i], s) /\ UuidsOf(new[i]) \subseteq all
    BY <1>1, <2>2, BaseIsFused
  <2>5. \A u \in all : \E i \in DOMAIN new : u \in UuidsOf(new[i])
    <3> TAKE u \in all
    <3>1. CASE u = base.id
      BY <1>1, <2>2, <3>1
    <3>2. CASE u \in uuids
      BY <1>1, <2>2, <2>3, <3>2
    <3>. QED
      BY <3>1, <3>2
  <2>6. \A i, j \in DOMAIN new : i # j => UuidsOf(new[i]) \cap UuidsOf(new[j]) = {}
    <3> TAKE i, j \in DOMAIN new
    <3>1. CASE i # n /\ j # n
      BY <1>1, <2>2, <3>1
    <3>2. CASE i = n /\ j # n
      BY <1>1, <2>2, <3>2
    <3>3. CASE i # n /\ j = n
      BY <1>1, <2>2, <3>3
    <3>. QED
      BY <3>1, <3>2, <3>3
  <2>. QED
    BY <2>1, <2>2, <2>4, <2>5, <2>6 DEF Fused
<1>3. CASE alike # {}
  <2> DEFINE k == Min(alike)
             taken == Absorb(list[k], base)
             new == [list EXCEPT ![k] = taken]
  <2>1. k \in alike
    <3>1. alike \in SUBSET Nat
      BY <1>1 DEF Alike
    <3> HIDE DEF alike
    <3>2. PICK m \in alike : \A x \in alike : m <= x
      BY <1>3, <3>1, Merging!LeastNumber
    <3>. QED
      BY <3>2 DEF Min
  <2>2. k \in DOMAIN list /\ Score(base, list[k]) >= FusionThreshold
    BY <2>1 DEF Alike
  <2> HIDE DEF k
  <2>3. Place(list, base) = new
    BY <1>3 DEF Place, k
  <2>4. FusedDevice(taken, s) /\ UuidsOf(taken) = UuidsOf(list[k]) \cup {base.id}
    BY <1>1, <2>2, AbsorbIsFused
  <2>5. taken \in Device
    BY <2>4 DEF FusedDevice, Speaks
  <2> HIDE DEF taken
  <2>6. /\ new \in Seq(Device) /\ DOMAIN new = DOMAIN list /\ new[k] = taken
        /\ \A i \in DOMAIN list : i # k => new[i] = list[i]
    BY <1>1, <2>2, <2>5
  <2> HIDE DEF new
  <2>7. \A i \in DOMAIN new : FusedDevice(new[i], s) /\ UuidsOf(new[i]) \subseteq all
    <3> TAKE i \in DOMAIN new
    <3>1. CASE i = k
      BY <1>1, <2>2, <2>4, <2>6, <3>1
    <3>2. CASE i # k
      BY <1>1, <2>6, <3>2
    <3>. QED
      BY <3>1, <3>2
  <2>8. \A u \in all : \E i \in DOMAIN new : u \in UuidsOf(new[i])
    <3> TAKE u \in all
    <3>1. CASE u = base.id
      BY <2>2, <2>4, <2>6, <3>1
    <3>2. CASE u \in uuids
      <4>1. PICK i \in DOMAIN list : u \in UuidsOf(list[i])
        BY <1>1, <3>2
      <4>. QED
        BY <2>4, <2>6, <4>1
    <3>. QED
      BY <3>1, <3>2
  <2>9. \A i, j \in DOMAIN new : i # j => UuidsOf(new[i]) \cap UuidsOf(new[j]) = {}
    <3> TAKE i, j \in DOMAIN new
    <3>1. CASE i # k /\ j # k
      BY <1>1, <2>6, <3>1
    <3>2. CASE i = k /\ j # k
      BY <1>1, <2>2, <2>4, <2>6, <3>2
    <3>3. CASE i # k /\ j = k
      BY <1>1, <2>2, <2>4, <2>6, <3>3
    <3>. QED
      BY <3>1, <3>2, <3>3
  <2>. QED
    BY <2>3, <2>6, <2>7, <2>8, <2>9 DEF Fused
<1>. QED
  BY <1>2, <1>3

Placing == INSTANCE Folding WITH Op <- Place, Value <- Seq(Device), Element <- Device
Describing == INSTANCE Folding WITH Op <- AddDescriptor, Value <- Seq(Service),
                                    Element <- Service

\* FoldLeft is the fold of Folding.
LEMMA PlaceFold ==
    \A list, s : FoldLeft(Place, list, s) = Placing!Fold(list, s)
  BY DEF Placing!Fold, FoldLeft, Placing!FoldLeft, MapThenFoldSet, Placing!MapThenFoldSet,
         Max, Placing!Max

\* FoldLeft is the fold of Folding.
LEMMA DescriptorFold ==
    \A list, s : FoldLeft(AddDescriptor, list, s) = Describing!Fold(list, s)
  BY DEF Describing!Fold, FoldLeft, Describing!FoldLeft, MapThenFoldSet, Describing!MapThenFoldSet,
         Max, Describing!Max

\* Devices stay devices.
LEMMA PlaceClosed == Placing!Closed
<1> SUFFICES ASSUME NEW list \in Seq(Device), NEW base \in Device
             PROVE  Place(list, base) \in Seq(Device)
  BY DEF Placing!Closed
<1>1. CASE Alike(list, base) = {}
  BY <1>1 DEF Place
<1>2. CASE Alike(list, base) # {}
  <2> DEFINE k == Min(Alike(list, base))
  <2>1. Place(list, base) = [list EXCEPT ![k] = Absorb(list[k], base)]
    BY <1>2 DEF Place
  <2>2. ASSUME NEW d \in Device PROVE Absorb(d, base) \in Device
    <3> DEFINE endpoints == d.endpoints \o base.endpoints
               traits == FirstTraits(d.traits, base.traits)
    <3>1. endpoints \in Seq(ProtocolEndpoint)
      BY DEF Device
    <3>2. traits \in Texts
      BY DEF Device, Texts, FirstTraits, FirstOf
    <3>3. Absorb(d, base) = [d EXCEPT !.endpoints = endpoints, !.traits = traits]
      BY DEF Absorb
    <3> HIDE DEF endpoints, traits
    <3>. QED
      BY <3>1, <3>2, <3>3 DEF Device
  <2> HIDE DEF k
  <2> DEFINE new == [list EXCEPT ![k] = Absorb(list[k], base)]
  <2>3. Len(list) \in Nat /\ DOMAIN list = 1 .. Len(list) /\ DOMAIN new = 1 .. Len(list)
    OBVIOUS
  <2>4. \A i \in DOMAIN list : new[i] \in Device
    <3> TAKE i \in DOMAIN list
    <3>1. list[i] \in Device
      OBVIOUS
    <3>2. new[i] = IF i = k THEN Absorb(list[k], base) ELSE list[i]
      OBVIOUS
    <3>. QED
      BY <2>2, <3>1, <3>2
  <2>5. new = [i \in 1 .. Len(list) |-> new[i]]
    BY <2>3
  <2> HIDE DEF new
  <2>6. new \in Seq(Device)
    BY <2>3, <2>4, <2>5
  <2>. QED
    BY <2>1, <2>6 DEF new
<1>. QED
  BY <1>1, <1>2

\* Services stay services.
LEMMA DescriptorsClosed == Describing!Closed
  BY DEF Describing!Closed, AddDescriptor

\* The devices that the fusion makes, without their services.
LEMMA AllArePlaced ==
    ASSUME NEW s \in Seq(IdentityEvidence)
    PROVE  Fused(FoldLeft(Place, <<>>, BaseDevices(s)), s, {e.uuid : e \in Range(s)})
<1> DEFINE bases == BaseDevices(s)
           UpTo(k) == {bases[j].id : j \in 1 .. k}
           R == [k \in 0 .. Len(bases) |-> {v \in Seq(Device) : Fused(v, s, UpTo(k))}]
<1>1. /\ bases \in Seq(Device)
      /\ \A j \in DOMAIN bases : BaseOf(bases[j], s)
      /\ \A j, k \in DOMAIN bases : j # k => bases[j].id # bases[k].id
      /\ \A e \in Range(s) : \E j \in DOMAIN bases : bases[j].id = e.uuid
  BY BaseDevicesIs DEF BaseOf, UuidsOf
<1> HIDE DEF bases
<1>2. Len(bases) \in Nat /\ DOMAIN bases = 1 .. Len(bases)
  BY <1>1
<1>3. <<>> \in R[0]
  <2>1. <<>> \in Seq(Device) /\ DOMAIN <<>> = {}
    OBVIOUS
  <2>2. UpTo(0) = {}
    OBVIOUS
  <2> HIDE DEF UpTo
  <2>3. Fused(<<>>, s, UpTo(0))
    BY <2>1, <2>2 DEF Fused
  <2>. QED
    BY <1>2, <2>1, <2>3
<1>4. ASSUME NEW k \in 1 .. Len(bases), NEW v \in R[k - 1]
      PROVE  Place(v, bases[k]) \in R[k]
  <2>1. k - 1 \in 0 .. Len(bases) /\ k \in 0 .. Len(bases) /\ k \in DOMAIN bases
    BY <1>2
  <2>2. v \in Seq(Device) /\ Fused(v, s, UpTo(k - 1))
    BY <2>1
  <2>3. bases[k].id \notin UpTo(k - 1)
    <3>1. \A j \in 1 .. k - 1 : j \in DOMAIN bases /\ j # k
      BY <1>2
    <3>. QED
      BY <1>1, <2>1, <3>1
  <2>4. UpTo(k) = UpTo(k - 1) \cup {bases[k].id}
    <3>1. 1 .. k = (1 .. k - 1) \cup {k}
      BY <1>2
    <3>. QED
      BY <3>1
  <2> HIDE DEF UpTo
  <2>5. Fused(Place(v, bases[k]), s, UpTo(k))
    BY <1>1, <2>1, <2>2, <2>3, <2>4, PlaceIs
  <2>6. Place(v, bases[k]) \in Seq(Device)
    BY <2>5 DEF Fused
  <2>. QED
    BY <2>1, <2>5, <2>6
<1>5. R \in [0 .. Len(bases) -> SUBSET Seq(Device)]
  OBVIOUS
<1>6. <<>> \in Seq(Device)
  OBVIOUS
<1>7. Len(bases) \in 0 .. Len(bases)
  BY <1>2
<1> DEFINE list == FoldLeft(Place, <<>>, bases)
<1>8. list = Placing!Fold(<<>>, bases)
  BY PlaceFold
<1> HIDE DEF R, list
<1>9. list \in R[Len(bases)]
  BY <1>1, <1>3, <1>4, <1>5, <1>6, <1>8, PlaceClosed, Placing!FoldInduction
<1>10. Fused(list, s, UpTo(Len(bases)))
  BY <1>7, <1>9 DEF R
<1>11. UpTo(Len(bases)) = {e.uuid : e \in Range(s)}
  <2>1. \A x \in UpTo(Len(bases)) : x \in {e.uuid : e \in Range(s)}
    <3> TAKE x \in UpTo(Len(bases))
    <3>1. PICK j \in DOMAIN bases : x = bases[j].id
      BY <1>2
    <3>2. bases[j].primaryIp \in {e.ip : e \in Own(s, bases[j].id)}
      BY <1>1, <3>1 DEF BaseOf, Speaks
    <3>3. PICK e \in Own(s, bases[j].id) : TRUE
      BY <3>2
    <3>. QED
      BY <3>1, <3>3 DEF Own
  <2>2. \A e \in Range(s) : e.uuid \in UpTo(Len(bases))
    BY <1>1, <1>2
  <2>. QED
    BY <2>1, <2>2
<1>. QED
  BY <1>10, <1>11 DEF list, bases

\* The services of a device are services.
LEMMA ServicesAreServices ==
    ASSUME NEW d \in Device
    PROVE  Services(d) \in Seq(Service)
<1> DEFINE ss == [k \in DOMAIN d.endpoints |-> d.endpoints[k].services]
<1>1. d.endpoints \in Seq(ProtocolEndpoint)
  BY DEF Device
<1>2. ss \in Seq(Seq(Service))
  <2>1. Len(d.endpoints) \in Nat /\ DOMAIN d.endpoints = 1 .. Len(d.endpoints)
    BY <1>1
  <2>2. \A k \in DOMAIN d.endpoints : d.endpoints[k].services \in Seq(Service)
    <3> TAKE k \in DOMAIN d.endpoints
    <3>1. d.endpoints[k] \in ProtocolEndpoint
      BY <1>1
    <3>. QED
      BY <3>1 DEF ProtocolEndpoint
  <2> DEFINE Value == Seq(Service)
  <2>3. ss \in [1 .. Len(d.endpoints) -> Value]
    BY <2>1, <2>2
  <2> HIDE DEF Value, ss
  <2>4. ss \in Seq(Value)
    BY <2>1, <2>3
  <2>. QED
    BY <2>4 DEF Value
<1>3. Services(d) = FoldLeft(AddDescriptor, <<>>, FlattenSeq(ss))
  BY DEF Services
<1> HIDE DEF ss
<1>4. FlattenSeq(ss) \in Seq(Service)
  <2>1. FlattenSeq(ss) = Describing!FlattenSeq(ss)
    BY DEF FlattenSeq, Describing!FlattenSeq
  <2>2. PICK f \in [0 .. Len(ss) -> Seq(Service)] : f[Len(ss)] = Describing!FlattenSeq(ss)
    BY <1>2, Describing!FlattenSteps
  <2>3. Len(ss) \in 0 .. Len(ss)
    BY <1>2
  <2>. QED
    BY <2>1, <2>2, <2>3
<1>5. <<>> \in Seq(Service)
  OBVIOUS
<1>. QED
  BY <1>3, <1>4, <1>5, DescriptorFold, DescriptorsClosed, Describing!FoldKeeps

\* What a fused device keeps of the fusion through all stages.
FusedFields(d, s) ==
    /\ d.id \in Uuid
    /\ d.primaryIp \in Ip
    /\ d.traits \in Texts
    /\ Voices(d.traits, Of(s, UuidsOf(d)))
    /\ Covers(d.endpoints, Of(s, UuidsOf(d)))
    /\ Justified(d, s)
    /\ d.services \in Seq(Service)

\* The devices hold the evidence, each piece in one.
Holding(list, s) ==
    /\ \A i \in DOMAIN list : FusedFields(list[i], s)
    /\ \A e \in Range(s) : \E i \in DOMAIN list : e.uuid \in UuidsOf(list[i])
    /\ \A i, j \in DOMAIN list :
         i # j => UuidsOf(list[i]) \cap UuidsOf(list[j]) = {}

\* The fusion holds all the evidence.
LEMMA FuseIs ==
    ASSUME NEW s \in Seq(IdentityEvidence)
    PROVE  Holding(Fuse(s), s) /\ Len(Fuse(s)) \in Nat /\ DOMAIN Fuse(s) = 1 .. Len(Fuse(s))
<1> DEFINE list == FoldLeft(Place, <<>>, BaseDevices(s))
           new == Fuse(s)
<1>1. Fused(list, s, {e.uuid : e \in Range(s)})
  BY AllArePlaced
<1>2. new = [k \in DOMAIN list |->
               [id |-> list[k].id, primaryIp |-> list[k].primaryIp,
                traits |-> list[k].traits, endpoints |-> list[k].endpoints,
                services |-> Services(list[k])]]
  BY DEF Fuse
<1> HIDE DEF list, new
<1>3. list \in Seq(Device) /\ DOMAIN new = DOMAIN list
  BY <1>1, <1>2 DEF Fused
<1>4. ASSUME NEW i \in DOMAIN list
      PROVE  FusedFields(new[i], s) /\ UuidsOf(new[i]) = UuidsOf(list[i])
  <2> DEFINE d == list[i]
             f == new[i]
  <2>1. /\ f.id = d.id /\ f.primaryIp = d.primaryIp /\ f.traits = d.traits
        /\ f.endpoints = d.endpoints /\ f.services = Services(d)
    BY <1>2
  <2>2. d \in Device /\ FusedDevice(d, s)
    BY <1>1, <1>3 DEF Fused
  <2> HIDE DEF d, f
  <2>3. UuidsOf(f) = UuidsOf(d)
    BY <2>1 DEF UuidsOf
  <2>4. f.services \in Seq(Service)
    BY <2>1, <2>2, ServicesAreServices
  <2>5. f.id \in Uuid /\ f.primaryIp \in Ip /\ f.traits \in Texts
    BY <2>1, <2>2 DEF Device
  <2>6. Voices(f.traits, Of(s, UuidsOf(f))) /\ Covers(f.endpoints, Of(s, UuidsOf(f)))
    BY <2>1, <2>2, <2>3 DEF FusedDevice, Speaks
  <2>7. Justified(f, s)
    BY <2>1, <2>2, <2>3 DEF FusedDevice, Justified
  <2>. QED
    BY <2>3, <2>4, <2>5, <2>6, <2>7 DEF FusedFields, d, f
<1>5. \A e \in Range(s) : \E i \in DOMAIN new : e.uuid \in UuidsOf(new[i])
  BY <1>1, <1>3, <1>4 DEF Fused
<1>6. \A i, j \in DOMAIN new : i # j => UuidsOf(new[i]) \cap UuidsOf(new[j]) = {}
  BY <1>1, <1>3, <1>4 DEF Fused
<1>7. Len(new) \in Nat /\ DOMAIN new = 1 .. Len(new)
  <2>1. Len(list) \in Nat /\ DOMAIN list = 1 .. Len(list)
    BY <1>3
  <2>2. new \in Seq({new[k] : k \in DOMAIN list})
    BY <1>2, <2>1
  <2>. QED
    BY <2>2
<1>. QED
  BY <1>3, <1>4, <1>5, <1>6, <1>7 DEF Holding, new

-----------------------------------------------------------------------------
(* What the stages make of a device.                                       *)

LogicalDevice ==
    [id : Uuid, primaryIp : Ip, traits : Texts, endpoints : Seq(ProtocolEndpoint),
     services : Seq(Service),
     normalizedServices : SUBSET {Normalized(u) : u \in Urn},
     primaryClass : PrimaryDeviceClass, roles : SUBSET Role,
     capabilities : SUBSET DOMAIN ActionsOf,
     candidates : Seq(ControllerCandidate),
     actions : SUBSET UNION Range(ActionsOf)]

\* What is made of each element of a finite set, by a function.
LEMMA ImageIsFinite ==
    ASSUME NEW X, IsFiniteSet(X), NEW f, DOMAIN f = X,
           NEW Y, Y = {f[x] : x \in X}
    PROVE  IsFiniteSet(Y)
<1> DEFINE g == [x \in X |-> f[x]]
<1>1. g \in Surjection(X, Y)
  BY DEF Surjection
<1> HIDE DEF g
<1>. QED
  BY <1>1, FS_Surjection

\* A sequence holds finitely many things.
LEMMA RangeIsFinite ==
    ASSUME NEW E, NEW s \in Seq(E)
    PROVE  IsFiniteSet(Range(s))
<1>1. Len(s) \in Nat /\ DOMAIN s = 1 .. Len(s) /\ IsFiniteSet(1 .. Len(s))
  BY FS_Interval
<1>2. Range(s) = {s[k] : k \in DOMAIN s}
  BY DEF Range
<1>. QED
  BY <1>1, <1>2, ImageIsFinite

\* An endpoint names finitely many types.
LEMMA TypesAreFinite ==
    ASSUME NEW ep \in ProtocolEndpoint
    PROVE  Types(ep) \subseteq Urn /\ IsFiniteSet(Types(ep))
<1> DEFINE own == {ep.deviceType} \ {NoUrn}
           named == {x.type : x \in Range(ep.services)}
           f == [x \in Range(ep.services) |-> x.type]
<1>1. ep.services \in Seq(Service) /\ ep.deviceType \in Urn \cup {NoUrn}
  BY DEF ProtocolEndpoint
<1>2. \A x \in Range(ep.services) : x \in Service
  BY <1>1 DEF Range
<1>3. named \subseteq Urn
  BY <1>2 DEF Service
<1>4. IsFiniteSet(Range(ep.services))
  BY <1>1, RangeIsFinite
<1>5. IsFiniteSet(named)
  <2>1. named = {f[x] : x \in Range(ep.services)} /\ DOMAIN f = Range(ep.services)
    OBVIOUS
  <2> HIDE DEF named, f
  <2>. QED
    BY <1>4, <2>1, ImageIsFinite
<1>6. IsFiniteSet(own)
  <2>1. IsFiniteSet({ep.deviceType}) /\ own \in SUBSET {ep.deviceType}
    BY FS_Singleton
  <2> HIDE DEF own
  <2>. QED
    BY <2>1, FS_Subset
<1>7. own \subseteq Urn
  BY <1>1
<1>8. Types(ep) = named \cup own
  BY DEF Types
<1> HIDE DEF named, own
<1>9. IsFiniteSet(named \cup own)
  BY <1>5, <1>6, FS_Union, Zenon
<1>. QED
  BY <1>3, <1>7, <1>8, <1>9

\* What is normalised is a finite set of normalised types.
LEMMA NormalizeIs ==
    ASSUME NEW d, d.endpoints \in Seq(ProtocolEndpoint)
    PROVE  /\ Normalize(d) \subseteq {Normalized(u) : u \in Urn}
           /\ IsFiniteSet(Normalize(d))
<1> DEFINE types == {Types(ep) : ep \in Range(d.endpoints)}
           f == [ep \in Range(d.endpoints) |-> Types(ep)]
           g == [u \in UNION types |-> Normalized(u)]
<1>1. \A ep \in Range(d.endpoints) : ep \in ProtocolEndpoint
  BY DEF Range
<1>2. IsFiniteSet(Range(d.endpoints))
  BY RangeIsFinite
<1>3. IsFiniteSet(types)
  <2>1. types = {f[ep] : ep \in Range(d.endpoints)} /\ DOMAIN f = Range(d.endpoints)
    OBVIOUS
  <2> HIDE DEF types, f
  <2>. QED
    BY <1>2, <2>1, ImageIsFinite
<1>4. \A T \in types : IsFiniteSet(T) /\ T \subseteq Urn
  BY <1>1, TypesAreFinite
<1>5. Normalize(d) = {Normalized(u) : u \in UNION types}
  BY DEF Normalize
<1> HIDE DEF types
<1>6. IsFiniteSet(UNION types)
  BY <1>3, <1>4, FS_UNION
<1>7. Normalize(d) = {g[u] : u \in UNION types} /\ DOMAIN g = UNION types
  BY <1>5
<1>8. IsFiniteSet(Normalize(d))
  <2> HIDE DEF g
  <2>. QED
    BY <1>6, <1>7, ImageIsFinite
<1>. QED
  BY <1>4, <1>5, <1>8

\* Each stage makes what its field may hold.
LEMMA RolesAre ==
    \A d : Roles(d) \subseteq Role
  BY DEF Roles, Role, RoleNames

LEMMA PrimaryClassIs ==
    \A d, roles : PrimaryClass(d, roles) \in PrimaryDeviceClass
  BY DEF PrimaryClass, PrimaryDeviceClass

LEMMA CapabilitiesAre ==
    \A d : Capabilities(d) \subseteq DOMAIN ActionsOf
<1>1. \A n \in DOMAIN NameCapabilities : NameCapabilities[n] \subseteq DOMAIN ActionsOf
  BY DEF NameCapabilities, ActionsOf
<1>2. \A r \in DOMAIN RoleCapabilities : RoleCapabilities[r] \subseteq DOMAIN ActionsOf
  BY DEF RoleCapabilities, ActionsOf
<1>. QED
  BY <1>1, <1>2 DEF Capabilities

LEMMA ActionsAre ==
    /\ \A able \in SUBSET DOMAIN ActionsOf :
         UNION {ActionsOf[c] : c \in able} \subseteq UNION Range(ActionsOf)
    /\ \A name \in Range(Controllers) : VendorActions[name] \subseteq UNION Range(ActionsOf)
<1>1. \A able \in SUBSET DOMAIN ActionsOf :
         UNION {ActionsOf[c] : c \in able} \subseteq UNION Range(ActionsOf)
  BY DEF Range
<1>2. "PowerControl" \in DOMAIN ActionsOf
  BY DEF ActionsOf
<1>3. ActionsOf["PowerControl"] = {"PowerOn", "PowerOff"}
  BY DEF ActionsOf
<1>4. {"PowerOn", "PowerOff"} \subseteq UNION Range(ActionsOf)
  BY <1>2, <1>3 DEF Range
<1>5. \A name \in Range(Controllers) : VendorActions[name] \subseteq {"PowerOn", "PowerOff"}
  BY DEF Controllers, Range, VendorActions
<1>. QED
  BY <1>1, <1>4, <1>5

-----------------------------------------------------------------------------
(* The candidates are in order.                                            *)

\* The score of a controller is a natural.
LEMMA PointsIs ==
    ASSUME NEW d, IsFiniteSet(d.normalizedServices),
           NEW known, \A n \in DOMAIN known : known[n] \in Nat
    PROVE  Points(d, known) \in Nat
<1> DEFINE f == [x \in d.normalizedServices |->
                   IF x.name \in DOMAIN known THEN known[x.name] ELSE 0]
<1>1. f \in [d.normalizedServices -> Nat]
  OBVIOUS
<1>2. Points(d, known) = SumFunction(f)
  BY DEF Points
<1> HIDE DEF f
<1>. QED
  BY <1>1, <1>2, SumIsNat

LEMMA EvaluateIs ==
    ASSUME NEW d, IsFiniteSet(d.normalizedServices), NEW c \in Range(Controllers)
    PROVE  Evaluate(c, d) \in Nat
<1> DEFINE samsung == [RenderingControl |-> 5, AVTransport |-> 5, dial |-> 2]
           dlna == [MediaRenderer |-> 40, AVTransport |-> 30,
                    RenderingControl |-> 10, DIAL |-> 30]
<1>1. Points(d, samsung) \in Nat /\ Points(d, dlna) \in Nat
  <2>1. /\ \A n \in DOMAIN samsung : samsung[n] \in Nat
        /\ \A n \in DOMAIN dlna : dlna[n] \in Nat
    OBVIOUS
  <2> HIDE DEF samsung, dlna
  <2>. QED
    BY <2>1, PointsIs
<1>2. c \in {"SamsungController", "GenericDLNAController", "UnknownController"}
  BY DEF Controllers, Range
<1>. QED
  BY <1>1, <1>2 DEF Evaluate

\* A candidate that was not rejected matches.
LEMMA CandidateIs ==
    ASSUME NEW d, IsFiniteSet(d.normalizedServices), NEW c \in Range(Controllers)
    PROVE  /\ Candidate(c, d) \in ControllerCandidate
           /\ Candidate(c, d).name = c
           /\ ~ Candidate(c, d).isRejected => IsMatch(c, d)
<1>1. Evaluate(c, d) \in Nat
  BY EvaluateIs
<1>. QED
  BY <1>1 DEF Candidate, ControllerCandidate

\* One thing after another, of three.
Follows(R, f) == \A j, k \in 1 .. 3 : j < k => <<f[j], f[k]>> \in R

\* Three can be put in any total order.
LEMMA ThreeInOrder ==
    ASSUME NEW R,
           \A x, y \in 1 .. 3 : x # y => <<x, y>> \in R \/ <<y, x>> \in R,
           \A x, y, z \in 1 .. 3 : <<x, y>> \in R /\ <<y, z>> \in R => <<x, z>> \in R
    PROVE  \E f \in [1 .. 3 -> 1 .. 3] : Follows(R, f)
<1> DEFINE Order(x, y, z) == [k \in 1 .. 3 |-> IF k = 1 THEN x ELSE IF k = 2 THEN y ELSE z]
<1>1. ASSUME NEW x \in 1 .. 3, NEW y \in 1 .. 3, NEW z \in 1 .. 3,
             <<x, y>> \in R, <<y, z>> \in R
      PROVE  \E f \in [1 .. 3 -> 1 .. 3] : Follows(R, f)
  <2> DEFINE f == Order(x, y, z)
  <2>1. f \in [1 .. 3 -> 1 .. 3] /\ f[1] = x /\ f[2] = y /\ f[3] = z
    OBVIOUS
  <2> HIDE DEF f
  <2>2. <<f[1], f[2]>> \in R /\ <<f[2], f[3]>> \in R /\ <<f[1], f[3]>> \in R
    BY <1>1, <2>1
  <2>3. \A j, k \in 1 .. 3 : j < k =>
          (j = 1 /\ k = 2) \/ (j = 2 /\ k = 3) \/ (j = 1 /\ k = 3)
    OBVIOUS
  <2>4. Follows(R, f)
    BY <2>2, <2>3 DEF Follows
  <2>. QED
    BY <2>1, <2>4
<1>2. \/ <<1, 2>> \in R /\ <<2, 3>> \in R
      \/ <<1, 3>> \in R /\ <<3, 2>> \in R
      \/ <<2, 1>> \in R /\ <<1, 3>> \in R
      \/ <<2, 3>> \in R /\ <<3, 1>> \in R
      \/ <<3, 1>> \in R /\ <<1, 2>> \in R
      \/ <<3, 2>> \in R /\ <<2, 1>> \in R
  <2>1. /\ <<1, 2>> \in R \/ <<2, 1>> \in R
        /\ <<1, 3>> \in R \/ <<3, 1>> \in R
        /\ <<2, 3>> \in R \/ <<3, 2>> \in R
    OBVIOUS
  <2>. QED
    BY <2>1
<1>3. 1 \in 1 .. 3 /\ 2 \in 1 .. 3 /\ 3 \in 1 .. 3
  OBVIOUS
<1>. QED
  BY <1>1, <1>2, <1>3

\* The accepted candidates come first, the higher score before the lower.
BestFirst(candidates) ==
    \A j, k \in DOMAIN candidates :
        j < k /\ ~ candidates[k].isRejected =>
            /\ ~ candidates[j].isRejected
            /\ candidates[j].confidence >= candidates[k].confidence

\* A function of the first numbers is a sequence.
LEMMA FunctionIsSequence ==
    ASSUME NEW E, NEW n \in Nat, NEW f \in [1 .. n -> E]
    PROVE  f \in Seq(E)
  OBVIOUS

\* The candidates are candidates, the best first.
LEMMA CandidatesAre ==
    ASSUME NEW d, IsFiniteSet(d.normalizedServices)
    PROVE  /\ Candidates(d) \in Seq(ControllerCandidate)
           /\ Candidates(d)[1].name \in Range(Controllers)
           /\ BestFirst(Candidates(d))
           /\ \A c \in Range(Candidates(d)) :
                ~ c.isRejected => IsMatch(c.name, d)
<1> DEFINE candidate == [k \in DOMAIN Controllers |-> Candidate(Controllers[k], d)]
           Before(j, k) == \/ Better(candidate[j], candidate[k])
                           \/ ~ Better(candidate[k], candidate[j]) /\ j < k
           IsOrder(f) == \A j, k \in DOMAIN f : j < k => Before(f[j], f[k])
           order == CHOOSE f \in [DOMAIN Controllers -> DOMAIN Controllers] : IsOrder(f)
           list == [k \in DOMAIN order |-> candidate[order[k]]]
           R == {p \in (1 .. 3) \X (1 .. 3) : Before(p[1], p[2])}
<1>1. DOMAIN Controllers = 1 .. 3
  BY DEF Controllers
<1>2. Candidates(d) = list
  BY DEF Candidates
<1>3. \A k \in 1 .. 3 : Controllers[k] \in Range(Controllers)
  BY <1>1 DEF Range
<1>4. ASSUME NEW k \in 1 .. 3
      PROVE  /\ candidate[k] \in ControllerCandidate
             /\ candidate[k].name \in Range(Controllers)
             /\ ~ candidate[k].isRejected => IsMatch(candidate[k].name, d)
  <2>1. candidate[k] = Candidate(Controllers[k], d) /\ Controllers[k] \in Range(Controllers)
    BY <1>1, <1>3
  <2> HIDE DEF candidate
  <2>. QED
    BY <2>1, CandidateIs
<1> HIDE DEF candidate
<1>5. \A k \in 1 .. 3 : candidate[k].isRejected \in BOOLEAN /\ candidate[k].confidence \in Nat
  BY <1>4 DEF ControllerCandidate
<1>6. \A x, y \in 1 .. 3 : x # y => Before(x, y) \/ Before(y, x)
  BY <1>5
<1>7. \A x, y, z \in 1 .. 3 : Before(x, y) /\ Before(y, z) => Before(x, z)
  BY <1>5 DEF Better
<1> HIDE DEF Before
<1>8. \A x, y \in 1 .. 3 : <<x, y>> \in R <=> Before(x, y)
  OBVIOUS
<1> HIDE DEF R
<1>9. PICK f \in [1 .. 3 -> 1 .. 3] : Follows(R, f)
  BY <1>6, <1>7, <1>8, ThreeInOrder
<1>10. IsOrder(f)
  BY <1>8, <1>9 DEF Follows
<1>11. order \in [1 .. 3 -> 1 .. 3] /\ IsOrder(order)
  <2> HIDE DEF IsOrder
  <2>. QED
    BY <1>1, <1>10
<1> HIDE DEF order
<1>12. /\ DOMAIN list = 1 .. 3
       /\ \A k \in 1 .. 3 : list[k] = candidate[order[k]] /\ order[k] \in 1 .. 3
  BY <1>11
<1>13. list \in Seq(ControllerCandidate)
  <2>1. list \in [1 .. 3 -> ControllerCandidate]
    BY <1>4, <1>11
  <2>2. 3 \in Nat
    OBVIOUS
  <2> HIDE DEF list
  <2>. QED
    BY <2>1, <2>2, FunctionIsSequence
<1> HIDE DEF list
<1>14. 1 \in 1 .. 3
  OBVIOUS
<1>15. list[1].name \in Range(Controllers)
  BY <1>4, <1>12, <1>14
<1>16. BestFirst(list)
  <2> SUFFICES ASSUME NEW j \in 1 .. 3, NEW k \in 1 .. 3, j < k, ~ list[k].isRejected
               PROVE  /\ ~ list[j].isRejected
                      /\ list[j].confidence >= list[k].confidence
    BY <1>12 DEF BestFirst
  <2> DEFINE a == order[j]
             b == order[k]
  <2>1. a \in 1 .. 3 /\ b \in 1 .. 3 /\ list[j] = candidate[a] /\ list[k] = candidate[b]
    BY <1>12
  <2>2. Before(a, b)
    BY <1>11
  <2> HIDE DEF a, b
  <2>. QED
    BY <1>5, <2>1, <2>2 DEF Before, Better
<1>17. \A c \in Range(list) : ~ c.isRejected => IsMatch(c.name, d)
  <2> TAKE c \in Range(list)
  <2>1. PICK k \in 1 .. 3 : c = candidate[k]
    BY <1>12 DEF Range
  <2>. QED
    BY <1>4, <2>1
<1>. QED
  BY <1>2, <1>13, <1>15, <1>16, <1>17

-----------------------------------------------------------------------------
(* A device of the fusion and its evidence.                                *)

\* A device was made of the evidence of its uuids.
LEMMA EvidenceIs ==
    ASSUME NEW d, FusedFields(d, registry)
    PROVE  EvidenceOf(d) = Of(registry, UuidsOf(d))
<1> DEFINE E == Of(registry, UuidsOf(d))
<1>1. /\ \A k \in DOMAIN d.endpoints : \E e \in E : e.uuid = d.endpoints[k].uuid
      /\ \A e \in E : \E k \in DOMAIN d.endpoints :
            d.endpoints[k].uuid = e.uuid /\ d.endpoints[k].ip = e.ip
  BY CoveredUuids DEF FusedFields, Covers
<1>2. \A e \in EvidenceOf(d) : e \in E
  BY DEF EvidenceOf, Holds, Of, UuidsOf
<1>3. \A e \in E : e \in Range(registry)
  BY DEF Of
<1> HIDE DEF E
<1>4. \A e \in E : Holds(d, e)
  BY <1>1 DEF Holds, Range
<1>5. \A e \in E : e \in EvidenceOf(d)
  BY <1>3, <1>4 DEF EvidenceOf
<1>. QED
  BY <1>2, <1>5 DEF E

\* A device holds the evidence of its uuids.
LEMMA HoldsIs ==
    ASSUME NEW d, FusedFields(d, registry), NEW e \in Range(registry)
    PROVE  Holds(d, e) <=> e.uuid \in UuidsOf(d)
  BY EvidenceIs DEF EvidenceOf, Of

\* Devices that hold the evidence have it in its place.
LEMMA HoldingIsPlaced ==
    ASSUME NEW list, Holding(list, registry)
    PROVE  Placed(list)
<1> SUFFICES ASSUME NEW e \in Range(registry)
             PROVE  /\ Cardinality(Holders(list, e)) = 1
                    /\ \A k \in Holders(list, e) :
                         \E ep \in Range(list[k].endpoints) :
                            /\ ep.uuid = e.uuid /\ ep.ip = e.ip
                            /\ TypesOf(e.services) \subseteq TypesOf(ep.services)
  BY DEF Placed
<1>1. \A i \in DOMAIN list : Holds(list[i], e) <=> e.uuid \in UuidsOf(list[i])
  BY HoldsIs DEF Holding
<1>2. PICK i \in DOMAIN list : e.uuid \in UuidsOf(list[i])
  BY DEF Holding
<1>3. \A k \in DOMAIN list : e.uuid \in UuidsOf(list[k]) => k = i
  BY <1>2 DEF Holding
<1>4. Holders(list, e) = {i}
  BY <1>1, <1>2, <1>3 DEF Holders
<1>5. Cardinality(Holders(list, e)) = 1
  BY <1>4, FS_Singleton
<1> DEFINE d == list[i]
           E == Of(registry, UuidsOf(d))
<1>6. Covers(d.endpoints, E) /\ e \in E
  BY <1>2 DEF Holding, FusedFields, Of
<1> HIDE DEF d, E
<1>7. PICK k \in DOMAIN d.endpoints : d.endpoints[k].uuid = e.uuid /\ d.endpoints[k].ip = e.ip
  BY <1>6 DEF Covers
<1> DEFINE ep == d.endpoints[k]
<1>8. Joins(ep, ep.uuid, ep.ip, {f \in E : f.uuid = ep.uuid /\ f.ip = ep.ip})
  BY <1>6 DEF Covers
<1>9. TypesOf(e.services) \subseteq TypesOf(ep.services)
  BY <1>6, <1>7, <1>8 DEF Joins
<1>10. ep \in Range(d.endpoints)
  BY DEF Range
<1>. QED
  BY <1>4, <1>5, <1>7, <1>9, <1>10 DEF d

\* Devices that hold the evidence share enough.
LEMMA HoldingIsJustified ==
    ASSUME NEW list, Holding(list, registry), NEW i \in DOMAIN list,
           NEW e \in EvidenceOf(list[i]), e.uuid # list[i].id,
           NEW own, own = {f \in EvidenceOf(list[i]) : f.uuid = e.uuid}
    PROVE  Resemblance(own, EvidenceOf(list[i]) \ own) >= FusionThreshold
<1> DEFINE d == list[i]
<1>1. FusedFields(d, registry)
  BY DEF Holding
<1>2. EvidenceOf(d) = Of(registry, UuidsOf(d))
  BY <1>1, EvidenceIs
<1>3. e.uuid \in UuidsOf(d) /\ own = Own(registry, e.uuid)
  BY <1>2 DEF Of, Own
<1>. QED
  BY <1>1, <1>2, <1>3 DEF FusedFields, Justified

\* Of one uuid and address, at most one piece of evidence has a type.
LEMMA OneIsTyped ==
    ASSUME registry \in Registries, NEW e \in Range(registry), NEW f \in Range(registry),
           e.uuid = f.uuid, e.ip = f.ip, e.deviceType # NoUrn, f.deviceType # NoUrn
    PROVE  e.deviceType = f.deviceType
<1>1. PICK j \in DOMAIN registry : e = registry[j]
  BY DEF Range
<1>2. PICK k \in DOMAIN registry : f = registry[k]
  BY DEF Range
<1>3. registry \in Seq(IdentityEvidence)
  BY PipelineAssumption
<1>4. e \in IdentityEvidence /\ f \in IdentityEvidence /\ j \in Nat /\ k \in Nat
  BY <1>1, <1>2, <1>3
<1>5. e.source # "SSDP" /\ f.source # "SSDP"
  BY <1>1, <1>2, PipelineAssumption
<1>6. e.source = f.source
  BY <1>4, <1>5 DEF IdentityEvidence
<1>7. ~ j < k /\ ~ k < j
  BY <1>1, <1>2, <1>6, PipelineAssumption
<1>8. j = k
  BY <1>4, <1>7
<1>. QED
  BY <1>1, <1>2, <1>8

\* The endpoints name the types that the evidence names, and no others.
LEMMA TypesAreNamed ==
    ASSUME registry \in Registries, NEW d, FusedFields(d, registry)
    PROVE  /\ UNION {Types(ep) : ep \in Range(d.endpoints)}
                = UNION {Named(e) : e \in EvidenceOf(d)}
           /\ DeviceTypes(d) = {e.deviceType : e \in EvidenceOf(d)} \ {NoUrn}
<1> DEFINE E == EvidenceOf(d)
           At(ep) == {e \in E : e.uuid = ep.uuid /\ e.ip = ep.ip}
<1>1. E \subseteq Range(registry)
  BY DEF EvidenceOf
<1>2. Covers(d.endpoints, E)
  BY EvidenceIs DEF FusedFields
<1> HIDE DEF E
<1>3. ASSUME NEW ep \in Range(d.endpoints)
      PROVE  /\ TypesOf(ep.services) = UNION {TypesOf(e.services) : e \in At(ep)}
             /\ ep.deviceType \in {e.deviceType : e \in At(ep)}
             /\ ep.deviceType = NoUrn => \A e \in At(ep) : e.deviceType = NoUrn
  <2>1. PICK k \in DOMAIN d.endpoints : ep = d.endpoints[k]
    BY DEF Range
  <2>2. Joins(ep, ep.uuid, ep.ip, At(ep))
    BY <1>2, <2>1 DEF Covers
  <2>. QED
    BY <2>2 DEF Joins
<1>4. ASSUME NEW e \in E
      PROVE  \E ep \in Range(d.endpoints) : e \in At(ep)
  <2>1. PICK k \in DOMAIN d.endpoints :
          d.endpoints[k].uuid = e.uuid /\ d.endpoints[k].ip = e.ip
    BY <1>2 DEF Covers
  <2>. QED
    BY <2>1 DEF Range
<1>5. ASSUME NEW ep \in Range(d.endpoints), NEW e \in At(ep), e.deviceType # NoUrn
      PROVE  ep.deviceType = e.deviceType
  <2>1. PICK f \in At(ep) : ep.deviceType = f.deviceType
    BY <1>3
  <2>2. f.deviceType # NoUrn
    BY <1>3, <1>5, <2>1
  <2>. QED
    BY <1>1, <1>5, <2>1, <2>2, OneIsTyped
<1>6. ASSUME NEW ep \in Range(d.endpoints)
      PROVE  Types(ep) = UNION {Named(e) : e \in At(ep)}
  <2>1. Types(ep) = TypesOf(ep.services) \cup ({ep.deviceType} \ {NoUrn})
    BY DEF Types, TypesOf
  <2>2. \A e \in At(ep) : Named(e) = TypesOf(e.services) \cup ({e.deviceType} \ {NoUrn})
    BY DEF Named
  <2>3. \A e \in At(ep) : {e.deviceType} \ {NoUrn} \subseteq {ep.deviceType} \ {NoUrn}
    BY <1>5
  <2>4. \E e \in At(ep) : e.deviceType = ep.deviceType
    BY <1>3
  <2> HIDE DEF At
  <2>. QED
    BY <1>3, <2>1, <2>2, <2>3, <2>4
<1>7. UNION {Types(ep) : ep \in Range(d.endpoints)} = UNION {Named(e) : e \in E}
  <2>1. \A ep \in Range(d.endpoints) : At(ep) \subseteq E
    OBVIOUS
  <2> HIDE DEF At
  <2>. QED
    BY <1>4, <1>6, <2>1
<1>8. DeviceTypes(d) = {e.deviceType : e \in E} \ {NoUrn}
  <2>1. \A x \in DeviceTypes(d) : x \in {e.deviceType : e \in E} \ {NoUrn}
    BY <1>3 DEF DeviceTypes
  <2>2. ASSUME NEW e \in E, e.deviceType # NoUrn PROVE e.deviceType \in DeviceTypes(d)
    <3>1. PICK ep \in Range(d.endpoints) : e \in At(ep)
      BY <1>4
    <3>2. ep.deviceType = e.deviceType
      BY <1>5, <2>2, <3>1
    <3>. QED
      BY <2>2, <3>2 DEF DeviceTypes
  <2>. QED
    BY <2>1, <2>2
<1>. QED
  BY <1>7, <1>8 DEF E

-----------------------------------------------------------------------------
(* The stages a device has been through.                                   *)

IsNormal(d) == d.normalizedServices = Normalize(d)
IsClassed(d) == d.roles = Roles(d) /\ d.primaryClass = PrimaryClass(d, d.roles)
IsAble(d) == d.capabilities = Capabilities(d)
IsMatched(d) == d.candidates = Candidates(d)
IsActive(d) == d.actions = UNION {ActionsOf[c] : c \in d.capabilities}

\* The names of the normalised services are those of the types.
LEMMA NamesAre ==
    ASSUME registry \in Registries, NEW d, FusedFields(d, registry), IsNormal(d)
    PROVE  {x.name : x \in d.normalizedServices}
              = {u.name : u \in UNION {Named(e) : e \in EvidenceOf(d)}}
<1> DEFINE types == UNION {Types(ep) : ep \in Range(d.endpoints)}
<1>1. d.normalizedServices = {Normalized(u) : u \in types}
  BY DEF IsNormal, Normalize
<1>2. types = UNION {Named(e) : e \in EvidenceOf(d)}
  BY TypesAreNamed
<1> HIDE DEF types
<1>3. \A u : Normalized(u).name = u.name
  BY DEF Normalized
<1>4. {x.name : x \in d.normalizedServices} = {u.name : u \in types}
  BY <1>1, <1>3
<1>. QED
  BY <1>2, <1>4

\* Classes, capabilities and actions follow from what the evidence names.
LEMMA ActionsAreFromEvidence ==
    ASSUME registry \in Registries, NEW d, FusedFields(d, registry),
           IsNormal(d), IsClassed(d), IsAble(d)
    PROVE  UNION {ActionsOf[c] : c \in d.capabilities} = ActionsFrom(EvidenceOf(d))
<1> DEFINE E == EvidenceOf(d)
           types == UNION {Named(e) : e \in E}
           names == {u.name : u \in types}
           dials == {u \in {e.deviceType : e \in E} \ {NoUrn} :
                       u.name = "dialreceiver" \/ u.domain = "urn:dial-multiscreen-org"}
           roles == {r \in Role : names \cap RoleNames[r] # {}}
                      \cup (IF dials = {} THEN {} ELSE {"DIALReceiver"})
           able == (UNION {NameCapabilities[n] : n \in names \cap DOMAIN NameCapabilities})
                   \cup (UNION {RoleCapabilities[r] : r \in roles \cap DOMAIN RoleCapabilities})
<1>1. ActionsFrom(E) = UNION {ActionsOf[c] : c \in able}
  BY DEF ActionsFrom
<1>2. names = {x.name : x \in d.normalizedServices}
  BY NamesAre
<1>3. DeviceTypes(d) = {e.deviceType : e \in E} \ {NoUrn}
  BY TypesAreNamed
<1>4. dials = {u \in DeviceTypes(d) :
                 u.name = "dialreceiver" \/ u.domain = "urn:dial-multiscreen-org"}
  BY <1>3
<1> HIDE DEF E, names, dials
<1>5. d.roles = roles
  <2>1. {r \in Role : \E x \in d.normalizedServices : x.name \in RoleNames[r]}
          = {r \in Role : names \cap RoleNames[r] # {}}
    BY <1>2
  <2>2. {r \in {"DIALReceiver"} :
            \E u \in DeviceTypes(d) :
                u.name = "dialreceiver" \/ u.domain = "urn:dial-multiscreen-org"}
          = IF dials = {} THEN {} ELSE {"DIALReceiver"}
    BY <1>4
  <2>. QED
    BY <2>1, <2>2 DEF IsClassed, Roles
<1> HIDE DEF roles
<1>6. d.capabilities = able
  <2>1. d.capabilities =
          (UNION {NameCapabilities[n] :
                     n \in DOMAIN NameCapabilities \cap names})
          \cup (UNION {RoleCapabilities[r] : r \in DOMAIN RoleCapabilities \cap roles})
    BY <1>2, <1>5 DEF IsAble, Capabilities
  <2>2. /\ DOMAIN NameCapabilities \cap names = names \cap DOMAIN NameCapabilities
        /\ DOMAIN RoleCapabilities \cap roles = roles \cap DOMAIN RoleCapabilities
    OBVIOUS
  <2>. QED
    BY <2>1, <2>2
<1> HIDE DEF able
<1>. QED
  BY <1>1, <1>6 DEF E

\* The vendor's controller matches only what some evidence says is the
\* vendor's.
LEMMA VendorIsNamed ==
    ASSUME registry \in Registries, NEW d, FusedFields(d, registry), IsNormal(d),
           IsMatch("SamsungController", d)
    PROVE  \E e \in EvidenceOf(d) :
             \/ e.traits["manufacturer"] \in SamsungText
             \/ \E u \in Named(e) : u.domain \in {"samsung.com", "samsung"}
<1>1. SamsungMaker(d) \/ SamsungDomain(d)
  BY DEF IsMatch
<1>2. CASE SamsungMaker(d)
  <2>1. Voices(d.traits, EvidenceOf(d))
    BY EvidenceIs DEF FusedFields
  <2>2. "manufacturer" \in Trait
    BY DEF Trait
  <2>3. PICK e \in EvidenceOf(d) : d.traits["manufacturer"] = e.traits["manufacturer"]
    BY <2>1, <2>2 DEF Voices
  <2>. QED
    BY <1>2, <2>3 DEF SamsungMaker
<1>3. CASE SamsungDomain(d)
  <2>1. PICK x \in d.normalizedServices : x.domain \in {"samsung.com", "samsung"}
    BY <1>3 DEF SamsungDomain
  <2>2. PICK u \in UNION {Types(ep) : ep \in Range(d.endpoints)} : x = Normalized(u)
    BY <2>1 DEF IsNormal, Normalize
  <2>3. x.domain = IF u.domain = "urn:schemas-upnp-org" THEN "upnp" ELSE u.domain
    BY <2>2 DEF Normalized, Domain
  <2>4. u.domain \in {"samsung.com", "samsung"}
    BY <2>1, <2>3
  <2>5. \E e \in EvidenceOf(d) : u \in Named(e)
    BY <2>2, TypesAreNamed
  <2>. QED
    BY <2>4, <2>5
<1>. QED
  BY <1>1, <1>2, <1>3

-----------------------------------------------------------------------------
(* The inductive invariant.                                                *)

\* What the stages before one have left in a device.
Passed(d, next) ==
    /\ next # "normalize" => IsNormal(d)
    /\ next \notin {"normalize", "classify"} => IsClassed(d)
    /\ next \in {"controllers", "actions", "merge"} => IsAble(d)
    /\ next \in {"actions", "merge"} => IsMatched(d)
    /\ next = "merge" => IsActive(d)

\* The stage that comes next for a device.
NextStage(k) ==
    IF stage = "merge" \/ k < at THEN "merge"
    ELSE IF k = at THEN stage ELSE "normalize"

Progress == \A k \in DOMAIN devices : Passed(devices[k], NextStage(k))

\* Where the program is, and what it has handed on.
Position ==
    \/ stage \in Stage /\ at \in DOMAIN devices /\ merged = <<>>
    \/ stage = "fuse" /\ at = 1 /\ devices = <<>> /\ merged = <<>>
    \/ /\ stage = "merge" /\ at = Len(merged) + 1
       /\ Len(merged) <= Len(devices)
       /\ \A k \in DOMAIN merged : merged[k] = devices[k]

PipelineInvariant ==
    /\ registry \in Registries
    /\ devices \in Seq(LogicalDevice)
    /\ merged \in Seq(LogicalDevice)
    /\ stage # "fuse" => Holding(devices, registry)
    /\ Progress
    /\ Position

\* The fields that no stage writes.
SameFields(d, f) ==
    /\ f.id = d.id
    /\ f.primaryIp = d.primaryIp
    /\ f.traits = d.traits
    /\ f.endpoints = d.endpoints
    /\ f.services = d.services

\* The uuids and evidence of a device are in the fields no stage writes.
LEMMA FieldsStay ==
    ASSUME NEW d, NEW f, SameFields(d, f), NEW s
    PROVE  /\ UuidsOf(f) = UuidsOf(d)
           /\ FusedFields(d, s) => FusedFields(f, s)
<1>1. UuidsOf(f) = UuidsOf(d)
  BY DEF UuidsOf, SameFields
<1>2. Justified(d, s) => Justified(f, s)
  BY <1>1 DEF Justified, SameFields
<1>. QED
  BY <1>1, <1>2 DEF FusedFields, SameFields

LEMMA HoldingStays ==
    ASSUME NEW list, NEW new, NEW s, Holding(list, s), DOMAIN new = DOMAIN list,
           \A k \in DOMAIN list : SameFields(list[k], new[k])
    PROVE  Holding(new, s)
<1>1. \A k \in DOMAIN list : /\ UuidsOf(new[k]) = UuidsOf(list[k])
                             /\ FusedFields(list[k], s) => FusedFields(new[k], s)
  BY FieldsStay
<1>. QED
  BY <1>1 DEF Holding

\* The invariant holds at first, and each stage keeps it.
LEMMA InitPipeline == Init => PipelineInvariant
<1> SUFFICES ASSUME Init PROVE PipelineInvariant
  OBVIOUS
<1>1. <<>> \in Seq(LogicalDevice) /\ DOMAIN <<>> = {}
  OBVIOUS
<1>. QED
  BY <1>1 DEF Init, PipelineInvariant, Progress, Position

\* A stage has changed the device it is for.
LEMMA DeviceChanges ==
    ASSUME PipelineInvariant, stage \in Stage,
           NEW new \in LogicalDevice, SameFields(devices[at], new),
           devices' = [devices EXCEPT ![at] = new], UNCHANGED <<registry, merged>>
    PROVE  /\ registry' \in Registries
           /\ devices' \in Seq(LogicalDevice) /\ merged' \in Seq(LogicalDevice)
           /\ Holding(devices', registry')
           /\ merged' = <<>>
           /\ Len(devices) \in Nat /\ Len(devices') = Len(devices)
           /\ DOMAIN devices = 1 .. Len(devices) /\ DOMAIN devices' = DOMAIN devices
           /\ at \in DOMAIN devices /\ devices'[at] = new
           /\ \A k \in DOMAIN devices : k # at => devices'[k] = devices[k]
<1>1. /\ devices \in Seq(LogicalDevice) /\ merged \in Seq(LogicalDevice)
      /\ registry \in Registries /\ Holding(devices, registry)
      /\ at \in DOMAIN devices /\ merged = <<>>
  BY DEF PipelineInvariant, Position, Stage
<1>2. /\ Len(devices) \in Nat /\ DOMAIN devices = 1 .. Len(devices)
      /\ devices' \in Seq(LogicalDevice) /\ Len(devices') = Len(devices)
      /\ DOMAIN devices' = DOMAIN devices /\ devices'[at] = new
      /\ \A k \in DOMAIN devices : k # at => devices'[k] = devices[k]
  BY <1>1
<1>3. \A k \in DOMAIN devices : SameFields(devices[k], devices'[k])
  <2> TAKE k \in DOMAIN devices
  <2>1. SameFields(devices[k], devices[k])
    BY DEF SameFields
  <2>. QED
    BY <1>2, <2>1
<1>4. Holding(devices', registry)
  BY <1>1, <1>2, <1>3, HoldingStays
<1>. QED
  BY <1>1, <1>2, <1>4

\* The next stage is for the same device.
LEMMA NextStageForIt ==
    ASSUME PipelineInvariant, stage \in Stage, stage' \in Stage, at' = at,
           NEW new \in LogicalDevice, SameFields(devices[at], new), Passed(new, stage'),
           devices' = [devices EXCEPT ![at] = new], UNCHANGED <<registry, merged>>
    PROVE  PipelineInvariant'
<1>1. /\ registry' \in Registries
      /\ devices' \in Seq(LogicalDevice) /\ merged' \in Seq(LogicalDevice)
      /\ Holding(devices', registry')
      /\ merged' = <<>>
      /\ Len(devices) \in Nat
      /\ DOMAIN devices = 1 .. Len(devices) /\ DOMAIN devices' = DOMAIN devices
      /\ at \in DOMAIN devices /\ devices'[at] = new
      /\ \A k \in DOMAIN devices : k # at => devices'[k] = devices[k]
  BY DeviceChanges
<1>2. stage # "merge" /\ stage' # "merge" /\ at \in Nat
  BY <1>1 DEF Stage
<1>3. ASSUME NEW k \in DOMAIN devices PROVE Passed(devices'[k], NextStage(k)')
  <2>1. CASE k = at
    <3>1. NextStage(k)' = stage'
      BY <1>2, <2>1 DEF NextStage
    <3>. QED
      BY <1>1, <2>1, <3>1
  <2>2. CASE k # at
    <3>1. NextStage(k)' = NextStage(k)
      BY <1>2, <2>2 DEF NextStage
    <3>. QED
      BY <1>1, <2>2, <3>1 DEF PipelineInvariant, Progress
  <2>. QED
    BY <2>1, <2>2
<1>4. Progress'
  BY <1>1, <1>3 DEF Progress
<1>5. Position'
  BY <1>1 DEF Position
<1>. QED
  BY <1>1, <1>4, <1>5 DEF PipelineInvariant

\* The last stage is done with a device.
LEMMA NextDevice ==
    ASSUME PipelineInvariant, stage \in Stage,
           stage' = AfterDevice.stage, at' = AfterDevice.at,
           NEW new \in LogicalDevice, SameFields(devices[at], new), Passed(new, "merge"),
           devices' = [devices EXCEPT ![at] = new], UNCHANGED <<registry, merged>>
    PROVE  PipelineInvariant'
<1>1. /\ registry' \in Registries
      /\ devices' \in Seq(LogicalDevice) /\ merged' \in Seq(LogicalDevice)
      /\ Holding(devices', registry')
      /\ merged' = <<>>
      /\ Len(devices) \in Nat /\ Len(devices') = Len(devices)
      /\ DOMAIN devices = 1 .. Len(devices) /\ DOMAIN devices' = DOMAIN devices
      /\ at \in DOMAIN devices /\ devices'[at] = new
      /\ \A k \in DOMAIN devices : k # at => devices'[k] = devices[k]
  BY DeviceChanges
<1>2. stage # "merge" /\ stage # "fuse" /\ at \in Nat
  BY <1>1 DEF Stage
<1>3. \A k \in DOMAIN devices : Passed(devices[k], NextStage(k))
  BY DEF PipelineInvariant, Progress
<1>4. \A d : Passed(d, "normalize")
  BY DEF Passed
<1>5. \A k \in DOMAIN devices : k < at => Passed(devices'[k], "merge")
  <2> TAKE k \in DOMAIN devices
  <2>1. k < at => NextStage(k) = "merge" /\ k # at
    BY <1>1 DEF NextStage
  <2>. QED
    BY <1>1, <1>3, <2>1
<1>6. CASE at < Len(devices)
  <2>1. stage' = "normalize" /\ at' = at + 1 /\ at + 1 \in DOMAIN devices
    BY <1>1, <1>6 DEF AfterDevice
  <2>2. ASSUME NEW k \in DOMAIN devices PROVE Passed(devices'[k], NextStage(k)')
    <3>0. k \in Nat
      BY <1>1
    <3>1. CASE k <= at
      <4>1. NextStage(k)' = "merge"
        BY <1>2, <2>1, <3>0, <3>1 DEF NextStage
      <4>2. k = at \/ k < at
        BY <1>2, <3>0, <3>1
      <4>. QED
        BY <1>1, <1>5, <4>1, <4>2
    <3>2. CASE k > at
      <4>1. NextStage(k)' = "normalize"
        BY <1>2, <2>1, <3>0, <3>2 DEF NextStage
      <4>. QED
        BY <1>4, <4>1
    <3>. QED
      BY <1>2, <3>0, <3>1, <3>2
  <2>3. Progress'
    BY <1>1, <2>2 DEF Progress
  <2>4. Position'
    BY <1>1, <2>1 DEF Position, Stage
  <2>. QED
    BY <1>1, <2>3, <2>4 DEF PipelineInvariant
<1>7. CASE ~ at < Len(devices)
  <2>1. stage' = "merge" /\ at' = 1 /\ at = Len(devices)
    BY <1>1, <1>7 DEF AfterDevice
  <2>2. ASSUME NEW k \in DOMAIN devices PROVE Passed(devices'[k], NextStage(k)')
    <3>1. NextStage(k)' = "merge"
      BY <2>1 DEF NextStage
    <3>2. k = at \/ k < at
      BY <1>1, <2>1
    <3>. QED
      BY <1>1, <1>5, <3>1, <3>2
  <2>3. Progress'
    BY <1>1, <2>2 DEF Progress
  <2>4. Len(<<>>) = 0 /\ DOMAIN <<>> = {}
    OBVIOUS
  <2>5. Position'
    BY <1>1, <2>1, <2>4 DEF Position
  <2>. QED
    BY <1>1, <2>3, <2>5 DEF PipelineInvariant
<1>. QED
  BY <1>6, <1>7

\* The fusion makes devices that no stage has changed yet.
LEMMA ResolveStep == PipelineInvariant /\ Resolve => PipelineInvariant'
<1> SUFFICES ASSUME PipelineInvariant, Resolve PROVE PipelineInvariant'
  OBVIOUS
<1> DEFINE fused == Fuse(registry)
           new == [k \in DOMAIN fused |-> Unresolved(fused[k])]
<1>1. /\ devices' = new /\ stage' = IF new = <<>> THEN "merge" ELSE "normalize"
      /\ registry' = registry /\ at' = at /\ merged' = merged /\ stage = "fuse"
  BY DEF Resolve
<1>2. registry \in Registries /\ registry \in Seq(IdentityEvidence)
  BY PipelineAssumption DEF PipelineInvariant
<1>3. at = 1 /\ merged = <<>>
  BY <1>1 DEF PipelineInvariant, Position, Stage
<1>4. Holding(fused, registry) /\ Len(fused) \in Nat /\ DOMAIN fused = 1 .. Len(fused)
  BY <1>2, FuseIs
<1> HIDE DEF fused
<1>5. ASSUME NEW k \in DOMAIN fused
      PROVE  /\ new[k] \in LogicalDevice
             /\ SameFields(fused[k], new[k])
  <2> DEFINE f == fused[k]
             d == Unresolved(f)
  <2>1. new[k] = d
    OBVIOUS
  <2>2. /\ f.id \in Uuid /\ f.primaryIp \in Ip /\ f.traits \in Texts
        /\ f.endpoints \in Seq(ProtocolEndpoint) /\ f.services \in Seq(Service)
    BY <1>4 DEF Holding, FusedFields, Covers
  <2> HIDE DEF f
  <2>3. <<>> \in Seq(ControllerCandidate)
    OBVIOUS
  <2>4. d \in LogicalDevice
    BY <2>2, <2>3 DEF Unresolved, LogicalDevice, PrimaryDeviceClass
  <2>5. SameFields(f, d)
    BY DEF Unresolved, SameFields
  <2>. QED
    BY <2>1, <2>4, <2>5 DEF f
<1>6. DOMAIN new = DOMAIN fused /\ new = [k \in 1 .. Len(fused) |-> new[k]]
  BY <1>4
<1> HIDE DEF new
<1>7. new \in [1 .. Len(fused) -> LogicalDevice]
  BY <1>4, <1>5, <1>6
<1>8. new \in Seq(LogicalDevice)
  BY <1>4, <1>7, FunctionIsSequence
<1>9. Holding(new, registry)
  BY <1>4, <1>5, <1>6, HoldingStays
<1>10. \A d : Passed(d, "normalize")
  BY DEF Passed
<1>11. <<>> \in Seq(LogicalDevice) /\ Len(<<>>) = 0 /\ DOMAIN <<>> = {}
  OBVIOUS
<1>12. CASE new = <<>>
  <2>1. Progress'
    BY <1>1, <1>11, <1>12 DEF Progress
  <2>2. Position'
    BY <1>1, <1>3, <1>11, <1>12 DEF Position
  <2>. QED
    BY <1>1, <1>2, <1>3, <1>8, <1>9, <1>11, <2>1, <2>2 DEF PipelineInvariant
<1>13. CASE new # <<>>
  <2>1. /\ Len(new) \in Nat /\ Len(new) >= 1 /\ DOMAIN new = 1 .. Len(new)
    BY <1>8, <1>13
  <2>2. stage' = "normalize" /\ at' = 1
    BY <1>1, <1>3, <1>13
  <2>3. ASSUME NEW k \in DOMAIN new PROVE NextStage(k)' = "normalize"
    <3>1. ~ k < 1
      BY <2>1
    <3>. QED
      BY <2>2, <3>1 DEF NextStage
  <2>4. Progress'
    BY <1>1, <1>10, <2>3 DEF Progress
  <2>5. 1 \in DOMAIN new
    BY <2>1
  <2>6. Position'
    BY <1>1, <1>3, <2>2, <2>5 DEF Position, Stage
  <2>. QED
    BY <1>1, <1>2, <1>3, <1>8, <1>9, <1>11, <2>4, <2>6 DEF PipelineInvariant
<1>. QED
  BY <1>12, <1>13

\* The device that a stage is for.
LEMMA DeviceAt ==
    ASSUME PipelineInvariant, stage \in Stage
    PROVE  /\ at \in DOMAIN devices
           /\ devices[at] \in LogicalDevice
           /\ Passed(devices[at], stage)
           /\ FusedFields(devices[at], registry)
<1>1. /\ at \in DOMAIN devices /\ devices \in Seq(LogicalDevice)
      /\ Holding(devices, registry)
  BY DEF PipelineInvariant, Position, Stage
<1>2. at \in Nat
  BY <1>1
<1>3. NextStage(at) = stage
  BY <1>2 DEF NextStage, Stage
<1>. QED
  BY <1>1, <1>3 DEF PipelineInvariant, Progress, Holding

\* Each stage fills its own fields, and what was read before stays.
LEMMA NormalizeStep == PipelineInvariant /\ ProtocolNormalizer => PipelineInvariant'
<1> SUFFICES ASSUME PipelineInvariant, ProtocolNormalizer PROVE PipelineInvariant'
  OBVIOUS
<1> DEFINE d == devices[at]
           value == Normalize(d)
           new == [d EXCEPT !.normalizedServices = value]
<1>1. /\ stage = "normalize" /\ stage' = "classify" /\ at' = at
      /\ UNCHANGED <<registry, merged>>
      /\ devices' = [devices EXCEPT ![at] = new]
  BY DEF ProtocolNormalizer
<1>2. stage \in Stage /\ stage' \in Stage
  BY <1>1 DEF Stage
<1>3. d \in LogicalDevice
  BY <1>2, DeviceAt
<1>4. value \in SUBSET {Normalized(u) : u \in Urn}
  BY <1>3, NormalizeIs DEF LogicalDevice
<1> HIDE DEF d
<1>5. new \in LogicalDevice /\ SameFields(d, new) /\ new.normalizedServices = value
  <2> HIDE DEF value
  <2>. QED
    BY <1>3, <1>4 DEF LogicalDevice, SameFields
<1> HIDE DEF new
<1>6. Passed(new, "classify")
  BY <1>5 DEF Passed, IsNormal, Normalize, SameFields, value
<1>. QED
  BY <1>1, <1>2, <1>5, <1>6, NextStageForIt DEF d

LEMMA ClassifyStep == PipelineInvariant /\ DeviceClassifier => PipelineInvariant'
<1> SUFFICES ASSUME PipelineInvariant, DeviceClassifier PROVE PipelineInvariant'
  OBVIOUS
<1> DEFINE d == devices[at]
           roles == Roles(d)
           class == PrimaryClass(d, roles)
           new == [d EXCEPT !.roles = roles, !.primaryClass = class]
<1>1. /\ stage = "classify" /\ stage' = "capabilities" /\ at' = at
      /\ UNCHANGED <<registry, merged>>
      /\ devices' = [devices EXCEPT ![at].roles = roles, ![at].primaryClass = class]
  BY DEF DeviceClassifier
<1>2. stage \in Stage /\ stage' \in Stage
  BY <1>1 DEF Stage
<1>3. d \in LogicalDevice /\ IsNormal(d) /\ at \in DOMAIN devices
  BY <1>1, <1>2, DeviceAt DEF Passed
<1>4. roles \in SUBSET Role /\ class \in PrimaryDeviceClass
  BY RolesAre, PrimaryClassIs
<1>5. devices' = [devices EXCEPT ![at] = new]
  <2> HIDE DEF roles, class
  <2>. QED
    BY <1>1, <1>3
<1> HIDE DEF d
<1>6. /\ new \in LogicalDevice /\ SameFields(d, new)
      /\ new.normalizedServices = d.normalizedServices
      /\ new.roles = roles /\ new.primaryClass = class
  <2> HIDE DEF roles, class
  <2>. QED
    BY <1>3, <1>4 DEF LogicalDevice, SameFields
<1> HIDE DEF new
<1>7. IsNormal(new)
  BY <1>3, <1>6 DEF IsNormal, Normalize, SameFields
<1>8. Roles(new) = roles
  BY <1>6 DEF Roles, DeviceTypes, SameFields
<1>9. PrimaryClass(new, new.roles) = class
  BY <1>6 DEF PrimaryClass, Namespaces, DeviceTypes, SameFields
<1>10. Passed(new, "capabilities")
  BY <1>6, <1>7, <1>8, <1>9 DEF Passed, IsClassed
<1>. QED
  BY <1>1, <1>2, <1>5, <1>6, <1>10, NextStageForIt DEF d

\* A device that has been classified, and what the classes read of it.
LEMMA ClassesStay ==
    ASSUME NEW d, NEW f, SameFields(d, f), IsNormal(d), IsClassed(d),
           f.normalizedServices = d.normalizedServices, f.roles = d.roles,
           f.primaryClass = d.primaryClass
    PROVE  IsNormal(f) /\ IsClassed(f)
<1>1. IsNormal(f)
  BY DEF IsNormal, Normalize, SameFields
<1>2. Roles(f) = Roles(d)
  BY DEF Roles, DeviceTypes, SameFields
<1>3. PrimaryClass(f, f.roles) = PrimaryClass(d, d.roles)
  BY DEF PrimaryClass, Namespaces, DeviceTypes, SameFields
<1>. QED
  BY <1>1, <1>2, <1>3 DEF IsClassed

\* The candidates are found by the services, the class and the maker.
LEMMA CandidatesStay ==
    ASSUME NEW d, NEW f, f.normalizedServices = d.normalizedServices,
           f.primaryClass = d.primaryClass, f.traits = d.traits
    PROVE  Candidates(f) = Candidates(d)
<1> DEFINE each(x) == [k \in DOMAIN Controllers |-> Candidate(Controllers[k], x)]
           Ordered(candidate) ==
             LET Before(j, k) == \/ Better(candidate[j], candidate[k])
                                 \/ ~ Better(candidate[k], candidate[j]) /\ j < k
                 order == CHOOSE g \in [DOMAIN Controllers -> DOMAIN Controllers] :
                            \A j, k \in DOMAIN g : j < k => Before(g[j], g[k])
             IN [k \in DOMAIN order |-> candidate[order[k]]]
<1>1. SamsungDomain(f) = SamsungDomain(d) /\ SamsungMaker(f) = SamsungMaker(d)
  BY DEF SamsungDomain, SamsungMaker
<1>2. \A known : Points(f, known) = Points(d, known)
  BY DEF Points
<1>3. \A c : IsMatch(c, f) = IsMatch(c, d)
  BY <1>1 DEF IsMatch
<1> DEFINE names == {"SamsungController", "GenericDLNAController", "UnknownController"}
<1>4. \A c \in names : Evaluate(c, f) = Evaluate(c, d)
  <2> TAKE c \in names
  <2>1. CASE c = "SamsungController"
    BY <1>1, <1>2, <2>1 DEF Evaluate
  <2>2. CASE c = "GenericDLNAController"
    BY <1>2, <2>2 DEF Evaluate
  <2>3. CASE c = "UnknownController"
    BY <2>3 DEF Evaluate
  <2>. QED
    BY <2>1, <2>2, <2>3
<1>5. \A c : ValidateEndpoints(c, f) = ValidateEndpoints(c, d)
  BY DEF ValidateEndpoints
<1>6. \A c \in names : Candidate(c, f) = Candidate(c, d)
  BY <1>3, <1>4, <1>5 DEF Candidate
<1>7. each(f) = each(d)
  <2>1. \A k \in DOMAIN Controllers : Controllers[k] \in names
    BY DEF Controllers
  <2>. QED
    BY <1>6, <2>1
<1>8. \A x : Candidates(x) = Ordered(each(x))
  BY DEF Candidates
<1> HIDE DEF Ordered, each
<1>. QED
  BY <1>7, <1>8

LEMMA CapabilityStep == PipelineInvariant /\ CapabilityResolver => PipelineInvariant'
<1> SUFFICES ASSUME PipelineInvariant, CapabilityResolver PROVE PipelineInvariant'
  OBVIOUS
<1> DEFINE d == devices[at]
           value == Capabilities(d)
           new == [d EXCEPT !.capabilities = value]
<1>1. /\ stage = "capabilities" /\ stage' = "controllers" /\ at' = at
      /\ UNCHANGED <<registry, merged>>
      /\ devices' = [devices EXCEPT ![at] = new]
  BY DEF CapabilityResolver
<1>2. stage \in Stage /\ stage' \in Stage
  BY <1>1 DEF Stage
<1>3. d \in LogicalDevice /\ IsNormal(d) /\ IsClassed(d)
  BY <1>1, <1>2, DeviceAt DEF Passed
<1>4. value \in SUBSET DOMAIN ActionsOf
  BY CapabilitiesAre
<1> HIDE DEF d
<1>5. /\ new \in LogicalDevice /\ SameFields(d, new)
      /\ new.normalizedServices = d.normalizedServices
      /\ new.roles = d.roles /\ new.primaryClass = d.primaryClass
      /\ new.capabilities = value
  <2> HIDE DEF value
  <2>. QED
    BY <1>3, <1>4 DEF LogicalDevice, SameFields
<1> HIDE DEF new
<1>6. IsNormal(new) /\ IsClassed(new)
  BY <1>3, <1>5, ClassesStay
<1>7. IsAble(new)
  BY <1>5 DEF IsAble, Capabilities
<1>8. Passed(new, "controllers")
  BY <1>6, <1>7 DEF Passed
<1>. QED
  BY <1>1, <1>2, <1>5, <1>8, NextStageForIt DEF d

LEMMA ControllerStep == PipelineInvariant /\ ControllerResolver => PipelineInvariant'
<1> SUFFICES ASSUME PipelineInvariant, ControllerResolver PROVE PipelineInvariant'
  OBVIOUS
<1> DEFINE d == devices[at]
           candidates == Candidates(d)
           actions == d.actions \cup VendorActions[candidates[1].name]
           new == [d EXCEPT !.candidates = candidates, !.actions = actions]
<1>1. /\ stage = "controllers" /\ stage' = "actions" /\ at' = at
      /\ UNCHANGED <<registry, merged>>
      /\ devices' = [devices EXCEPT ![at].candidates = candidates,
                        ![at].actions = @ \cup VendorActions[candidates[1].name]]
  BY DEF ControllerResolver
<1>2. stage \in Stage /\ stage' \in Stage
  BY <1>1 DEF Stage
<1>3. /\ d \in LogicalDevice /\ IsNormal(d) /\ IsClassed(d) /\ IsAble(d)
      /\ at \in DOMAIN devices
  BY <1>1, <1>2, DeviceAt DEF Passed
<1>4. IsFiniteSet(d.normalizedServices)
  BY <1>3, NormalizeIs DEF IsNormal, LogicalDevice
<1>5. candidates \in Seq(ControllerCandidate) /\ candidates[1].name \in Range(Controllers)
  BY <1>4, CandidatesAre
<1>6. devices' = [devices EXCEPT ![at] = new]
  <2> HIDE DEF candidates
  <2>. QED
    BY <1>1, <1>3 DEF LogicalDevice
<1> HIDE DEF d
<1>7. actions \in SUBSET UNION Range(ActionsOf)
  <2>1. d.actions \in SUBSET UNION Range(ActionsOf)
    BY <1>3 DEF LogicalDevice
  <2> HIDE DEF candidates
  <2>. QED
    BY <1>5, <2>1, ActionsAre
<1>8. /\ new \in LogicalDevice /\ SameFields(d, new)
      /\ new.normalizedServices = d.normalizedServices
      /\ new.roles = d.roles /\ new.primaryClass = d.primaryClass
      /\ new.capabilities = d.capabilities /\ new.candidates = candidates
  <2> HIDE DEF candidates, actions
  <2>. QED
    BY <1>3, <1>5, <1>7 DEF LogicalDevice, SameFields
<1> HIDE DEF new
<1>9. IsNormal(new) /\ IsClassed(new)
  BY <1>3, <1>8, ClassesStay
<1>10. IsAble(new)
  BY <1>3, <1>8 DEF IsAble, Capabilities
<1>11. IsMatched(new)
  BY <1>8, CandidatesStay DEF IsMatched, SameFields
<1>12. Passed(new, "actions")
  BY <1>9, <1>10, <1>11 DEF Passed
<1>. QED
  BY <1>1, <1>2, <1>6, <1>8, <1>12, NextStageForIt DEF d

LEMMA ActionStep == PipelineInvariant /\ ActionResolver => PipelineInvariant'
<1> SUFFICES ASSUME PipelineInvariant, ActionResolver PROVE PipelineInvariant'
  OBVIOUS
<1> DEFINE d == devices[at]
           value == UNION {ActionsOf[c] : c \in d.capabilities}
           new == [d EXCEPT !.actions = value]
<1>1. /\ stage = "actions" /\ stage' = AfterDevice.stage /\ at' = AfterDevice.at
      /\ UNCHANGED <<registry, merged>>
      /\ devices' = [devices EXCEPT ![at] = new]
  BY DEF ActionResolver
<1>2. stage \in Stage
  BY <1>1 DEF Stage
<1>3. d \in LogicalDevice /\ IsNormal(d) /\ IsClassed(d) /\ IsAble(d) /\ IsMatched(d)
  BY <1>1, <1>2, DeviceAt DEF Passed
<1> HIDE DEF d
<1>4. value \in SUBSET UNION Range(ActionsOf)
  <2>1. d.capabilities \in SUBSET DOMAIN ActionsOf
    BY <1>3 DEF LogicalDevice
  <2>. QED
    BY <2>1, ActionsAre
<1>5. /\ new \in LogicalDevice /\ SameFields(d, new)
      /\ new.normalizedServices = d.normalizedServices
      /\ new.roles = d.roles /\ new.primaryClass = d.primaryClass
      /\ new.capabilities = d.capabilities /\ new.candidates = d.candidates
      /\ new.actions = value
  <2> HIDE DEF value
  <2>. QED
    BY <1>3, <1>4 DEF LogicalDevice, SameFields
<1> HIDE DEF new
<1>6. IsNormal(new) /\ IsClassed(new)
  BY <1>3, <1>5, ClassesStay
<1>7. IsAble(new)
  BY <1>3, <1>5 DEF IsAble, Capabilities
<1>8. IsMatched(new)
  BY <1>3, <1>5, CandidatesStay DEF IsMatched, SameFields
<1>9. IsActive(new)
  BY <1>5 DEF IsActive
<1>10. Passed(new, "merge")
  BY <1>6, <1>7, <1>8, <1>9 DEF Passed
<1>. QED
  BY <1>1, <1>2, <1>5, <1>10, NextDevice DEF d

LEMMA MergeStep == PipelineInvariant /\ UpdateFromDiscovery => PipelineInvariant'
<1> SUFFICES ASSUME PipelineInvariant, UpdateFromDiscovery PROVE PipelineInvariant'
  OBVIOUS
<1> DEFINE new == Append(merged, devices[at])
<1>1. /\ stage = "merge" /\ stage' = stage /\ at <= Len(devices) /\ at' = at + 1
      /\ merged' = new /\ registry' = registry /\ devices' = devices
  BY DEF UpdateFromDiscovery
<1>2. /\ devices \in Seq(LogicalDevice) /\ merged \in Seq(LogicalDevice)
      /\ at = Len(merged) + 1 /\ Len(merged) <= Len(devices)
      /\ \A k \in DOMAIN merged : merged[k] = devices[k]
  BY <1>1 DEF PipelineInvariant, Position, Stage
<1>3. at \in DOMAIN devices /\ devices[at] \in LogicalDevice
  BY <1>1, <1>2
<1>4. /\ new \in Seq(LogicalDevice) /\ Len(new) = at
      /\ \A k \in DOMAIN new : new[k] = devices[k]
  BY <1>2, <1>3
<1> HIDE DEF new
<1>5. Position'
  BY <1>1, <1>4 DEF Position
<1>6. Progress'
  <2>1. \A k \in DOMAIN devices : NextStage(k) = "merge" /\ NextStage(k)' = "merge"
    BY <1>1 DEF NextStage
  <2>. QED
    BY <1>1, <2>1 DEF PipelineInvariant, Progress
<1>. QED
  BY <1>1, <1>4, <1>5, <1>6 DEF PipelineInvariant

LEMMA StutterPipeline == PipelineInvariant /\ UNCHANGED vars => PipelineInvariant'
<1> SUFFICES ASSUME PipelineInvariant, UNCHANGED vars PROVE PipelineInvariant'
  OBVIOUS
<1>1. \A k : NextStage(k)' = NextStage(k)
  BY DEF vars, NextStage
<1>2. Progress'
  BY <1>1 DEF PipelineInvariant, Progress, vars
<1>3. Position'
  BY DEF PipelineInvariant, Position, vars
<1>. QED
  BY <1>2, <1>3 DEF PipelineInvariant, vars

\* The fused devices hold the evidence, and each has what the stages it has
\* been through make of it, at every step of the pipeline (main).
THEOREM PipelineInductive == Spec => []PipelineInvariant
<1>1. PipelineInvariant /\ [Next]_vars => PipelineInvariant'
  <2> SUFFICES ASSUME PipelineInvariant, [Next]_vars PROVE PipelineInvariant'
    OBVIOUS
  <2>1. CASE Resolve
    BY <2>1, ResolveStep
  <2>2. CASE ProtocolNormalizer
    BY <2>2, NormalizeStep
  <2>3. CASE DeviceClassifier
    BY <2>3, ClassifyStep
  <2>4. CASE CapabilityResolver
    BY <2>4, CapabilityStep
  <2>5. CASE ControllerResolver
    BY <2>5, ControllerStep
  <2>6. CASE ActionResolver
    BY <2>6, ActionStep
  <2>7. CASE UpdateFromDiscovery
    BY <2>7, MergeStep
  <2>8. CASE UNCHANGED vars
    BY <2>8, StutterPipeline
  <2>. QED
    BY <2>1, <2>2, <2>3, <2>4, <2>5, <2>6, <2>7, <2>8 DEF Next
<1>. QED
  BY InitPipeline, <1>1, PTL DEF Spec

\* What the knowledge store was given has been through every stage.
LEMMA MergedIs ==
    ASSUME PipelineInvariant, NEW d \in Range(merged)
    PROVE  /\ d \in LogicalDevice
           /\ \E k \in DOMAIN devices : d = devices[k]
           /\ registry \in Registries
           /\ Holding(devices, registry)
           /\ FusedFields(d, registry)
           /\ Passed(d, "merge")
<1>1. PICK k \in DOMAIN merged : d = merged[k]
  BY DEF Range
<1>2. merged # <<>>
  BY <1>1
<1>3. /\ stage = "merge" /\ Len(merged) <= Len(devices)
      /\ \A j \in DOMAIN merged : merged[j] = devices[j]
  BY <1>2 DEF PipelineInvariant, Position
<1>4. devices \in Seq(LogicalDevice) /\ merged \in Seq(LogicalDevice)
  BY DEF PipelineInvariant
<1>5. k \in DOMAIN devices /\ d = devices[k] /\ d \in LogicalDevice
  BY <1>1, <1>3, <1>4
<1>6. NextStage(k) = "merge"
  BY <1>3 DEF NextStage
<1>7. Passed(d, "merge")
  BY <1>5, <1>6 DEF PipelineInvariant, Progress
<1>8. registry \in Registries /\ Holding(devices, registry)
  BY <1>3 DEF PipelineInvariant
<1>. QED
  BY <1>5, <1>7, <1>8 DEF Holding

\* Every device has the fields that its stages fill, of their types (main).
THEOREM TypesHold == Spec => []TypeOK
<1>1. PipelineInvariant => TypeOK
  <2> SUFFICES ASSUME PipelineInvariant PROVE TypeOK
    OBVIOUS
  <2>1. registry \in Seq(IdentityEvidence)
    BY PipelineAssumption DEF PipelineInvariant
  <2>2. \A d \in Range(devices) \cup Range(merged) : d \in LogicalDevice
    BY DEF PipelineInvariant, Range
  <2>3. \A d \in LogicalDevice : DeviceOK(d)
    BY DEF LogicalDevice, DeviceOK, Texts
  <2>4. \/ stage \in Stage /\ at \in DOMAIN devices
        \/ stage = "fuse" /\ at = 1 /\ devices = <<>>
        \/ stage = "merge" /\ at = Len(merged) + 1
    BY DEF PipelineInvariant, Position
  <2>. QED
    BY <2>1, <2>2, <2>3, <2>4 DEF TypeOK
<1>. QED
  BY <1>1, PipelineInductive, PTL

\* Every piece of evidence is part of one device, and of one only, with all
\* the services it names (Fuse, main).
THEOREM EvidenceHasItsPlace == Spec => []EvidenceIsPlaced
<1>1. PipelineInvariant => EvidenceIsPlaced
  <2> SUFFICES ASSUME PipelineInvariant PROVE EvidenceIsPlaced
    OBVIOUS
  <2>1. stage # "fuse" => Placed(devices)
    BY HoldingIsPlaced DEF PipelineInvariant
  <2>2. ASSUME Finished PROVE Placed(merged)
    <3>1. stage = "merge" /\ at > Len(devices)
      BY <2>2 DEF Finished
    <3>2. /\ at = Len(merged) + 1 /\ Len(merged) <= Len(devices)
          /\ \A k \in DOMAIN merged : merged[k] = devices[k]
      BY <3>1 DEF PipelineInvariant, Position, Stage
    <3>3. devices \in Seq(LogicalDevice) /\ merged \in Seq(LogicalDevice)
      BY DEF PipelineInvariant
    <3>4. Holding(devices, registry)
      BY <3>1 DEF PipelineInvariant
    <3>5. DOMAIN merged = DOMAIN devices
      BY <3>1, <3>2, <3>3
    <3>6. \A k \in DOMAIN devices : SameFields(devices[k], merged[k])
      BY <3>2, <3>5 DEF SameFields
    <3>7. Holding(merged, registry)
      BY <3>4, <3>5, <3>6, HoldingStays
    <3>. QED
      BY <3>7, HoldingIsPlaced
  <2>. QED
    BY <2>1, <2>2 DEF EvidenceIsPlaced
<1>. QED
  BY <1>1, PipelineInductive, PTL

\* A uuid is only taken into a device of other uuids if its evidence and
\* theirs have enough in common (Fuse).
THEOREM FusionHasAReason == Spec => []FusionIsJustified
<1>1. PipelineInvariant => FusionIsJustified
  <2> SUFFICES ASSUME PipelineInvariant, NEW d \in Range(devices),
                      NEW e \in EvidenceOf(d), e.uuid # d.id,
                      NEW own, own = {f \in EvidenceOf(d) : f.uuid = e.uuid}
               PROVE  Resemblance(own, EvidenceOf(d) \ own) >= FusionThreshold
    BY DEF FusionIsJustified
  <2>1. PICK i \in DOMAIN devices : d = devices[i]
    BY DEF Range
  <2>2. DOMAIN <<>> = {}
    OBVIOUS
  <2>3. stage # "fuse"
    BY <2>1, <2>2 DEF PipelineInvariant, Position, Stage
  <2>4. Holding(devices, registry)
    BY <2>3 DEF PipelineInvariant
  <2>. QED
    BY <2>1, <2>4, HoldingIsJustified
<1>. QED
  BY <1>1, PipelineInductive, PTL

\* A device ends up with every action its evidence speaks for and with no
\* other, but for those of a controller that accepted it (Normalize, Classify,
\* Resolve).
THEOREM ActionsComeFromEvidence == Spec => []ActionsMirrorEvidence
<1>1. PipelineInvariant => ActionsMirrorEvidence
  <2> SUFFICES ASSUME PipelineInvariant, NEW d \in Range(merged)
               PROVE  d.actions = ActionsFrom(EvidenceOf(d))
    BY DEF ActionsMirrorEvidence
  <2>1. /\ registry \in Registries /\ FusedFields(d, registry)
        /\ IsNormal(d) /\ IsClassed(d) /\ IsAble(d) /\ IsActive(d)
    BY MergedIs DEF Passed
  <2>. QED
    BY <2>1, ActionsAreFromEvidence DEF IsActive
<1>. QED
  BY <1>1, PipelineInductive, PTL

\* The accepted candidates come first, the higher score before the lower, and
\* the vendor's controller only for a device of which some evidence names the
\* vendor (ControllerResolver::Resolve).
THEOREM BestIsTriedFirst == Spec => []BestControllerFirst
<1>1. PipelineInvariant => BestControllerFirst
  <2> SUFFICES ASSUME PipelineInvariant, NEW d \in Range(merged)
               PROVE  /\ BestFirst(d.candidates)
                      /\ \A c \in Range(d.candidates) :
                           c.name = "SamsungController" /\ ~ c.isRejected =>
                             \E e \in EvidenceOf(d) :
                                \/ e.traits["manufacturer"] \in SamsungText
                                \/ \E u \in Named(e) :
                                     u.domain \in {"samsung.com", "samsung"}
    BY DEF BestControllerFirst, BestFirst
  <2>1. /\ registry \in Registries /\ FusedFields(d, registry)
        /\ IsNormal(d) /\ IsMatched(d) /\ d \in LogicalDevice
    BY MergedIs DEF Passed
  <2>2. IsFiniteSet(d.normalizedServices)
    BY <2>1, NormalizeIs DEF IsNormal, LogicalDevice
  <2>3. /\ BestFirst(d.candidates)
        /\ \A c \in Range(d.candidates) : ~ c.isRejected => IsMatch(c.name, d)
    BY <2>1, <2>2, CandidatesAre DEF IsMatched
  <2>. QED
    BY <2>1, <2>3, VendorIsNamed
<1>. QED
  BY <1>1, PipelineInductive, PTL
=============================================================================
