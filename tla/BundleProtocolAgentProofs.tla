--------------------- MODULE BundleProtocolAgentProofs ---------------------
(***************************************************************************)
(* What TLAPS proves of BundleProtocolAgent, for every value of its        *)
(* constants.                                                              *)
(***************************************************************************)
EXTENDS BundleProtocolAgent, SequenceTheorems, FiniteSetTheorems,
        WellFoundedInduction, TLAPS

(* A dict stays a dict when a key is set or deleted. *)
LEMMA PutMap ==
    ASSUME NEW f, NEW D, NEW S, Map(f, D, S), NEW x \in D, NEW v \in S
    PROVE  Map(Put(f, x, v), D, S)
BY DEF Map, Put

(* Deleting keys keeps the type of a dict. *)
LEMMA WithoutMap ==
    ASSUME NEW f, NEW D, NEW S, Map(f, D, S), NEW K
    PROVE  Map(Without(f, K), D, S)
BY DEF Map, Without

(* A dict of values of one type is a dict of values of any wider one. *)
LEMMA WiderMap ==
    ASSUME NEW f, NEW D, NEW S, NEW T, Map(f, D, S), S \subseteq T
    PROVE  Map(f, D, T)
BY DEF Map

(* list.remove leaves a list of the same elements. *)
LEMMA RemoveFirstType ==
    ASSUME NEW S, NEW s \in Seq(S), NEW x, x \in Range(s)
    PROVE  RemoveFirst(s, x) \in Seq(S)
<1> DEFINE I == {i \in 1 .. Len(s) : s[i] = x}
           at == Min(I)
<1>1. I # {} /\ I \subseteq Nat
  BY DEF Range
<1>2. at \in I
  <2> DEFINE R == {p \in Nat \X Nat : p[1] < p[2]}
  <2>1. IsWellFoundedOn(R, Nat)
    BY NatLessThanWellFounded, Zenon DEF OpToRel
  <2>2. PICK m \in I : \A y \in I : ~ (<<y, m>> \in R)
    <3> HIDE DEF R
    <3> QED BY <1>1, <2>1, WFMin
  <2>3. ASSUME NEW y \in I PROVE m <= y
    <3>1. y \in Nat /\ m \in Nat
      BY <1>1
    <3>2. y < m => <<y, m>> \in R
      BY <3>1
    <3> QED BY <2>2, <3>1, <3>2
  <2> QED BY <2>3 DEF Min
<1>3. RemoveFirst(s, x) = SubSeq(s, 1, at - 1) \o SubSeq(s, at + 1, Len(s))
  BY <1>1 DEF RemoveFirst, RemoveAt, SelectInSeq
<1>4. SubSeq(s, 1, at - 1) \in Seq(S)
  <2>1. \A i \in 1 .. at - 1 : s[i] \in S
    BY <1>2
  <2> QED BY <2>1, <1>2, SubSeqProperties
<1>5. SubSeq(s, at + 1, Len(s)) \in Seq(S)
  <2>1. \A i \in at + 1 .. Len(s) : s[i] \in S
    BY <1>2
  <2> QED BY <2>1, <1>2, SubSeqProperties
<1> QED BY <1>3, <1>4, <1>5

(* A list over one set is a list over any larger one. *)
LEMMA WiderSeq ==
    ASSUME NEW S, NEW T, S \subseteq T, NEW s \in Seq(S)
    PROVE  s \in Seq(T)
OBVIOUS

(* The lists in a BundleInformation are made of one node, or none, again   *)
(* and again.                                                              *)
LEMMA ConstantSeq ==
    ASSUME NEW S, NEW x \in S, NEW k \in Nat
    PROVE  [i \in 1 .. k |-> x] \in Seq(S)
OBVIOUS

(* A new BundleInformation is none of those that exist. *)
LEMMA NewInfoFresh ==
    ASSUME Infos \ DOMAIN info # {}
    PROVE  NewInfo \in Infos /\ NewInfo \notin DOMAIN info
BY DEF NewInfo
-----------------------------------------------------------------------------
(* Type correctness, one part of the state at a time.                      *)

(* A node that was just set up has every variable in its type. *)
LEMMA TypeInit == Init => TypeOK
<1> SUFFICES ASSUME Init PROVE TypeOK
  OBVIOUS
<1>1. StorageTypeOK
  BY DEF Init, StorageInit, StorageTypeOK, Map
<1>2. RouterTypeOK
  BY DEF Init, RouterInit, RouterTypeOK
<1>3. EndpointTypeOK
  BY DEF Init, EndpointInit, EndpointTypeOK
<1>4. AgentTypeOK
  BY DEF Init, AgentTypeOK, Map, Phases, Stages, NoIteration
<1>5. delivered \in [Endpoints -> Seq(DOMAIN info)]
  BY DEF Init, EndpointInit
<1> QED BY <1>1, <1>2, <1>3, <1>4, <1>5 DEF TypeOK

(* The loop of immediate_forwarding_attempt visits known addresses only,   *)
(* and its reason stays one of the three codes it assigns.                 *)
LEMMA RouterTypeStep ==
    ASSUME TypeOK, Next
    PROVE  RouterTypeOK'
<1> USE DEF TypeOK, RouterTypeOK, StorageTypeOK, Map
<1>1. CASE UNCHANGED routerVars
  BY <1>1 DEF routerVars
<1>2. CASE BeginForwarding
  BY <1>2 DEF BeginForwarding, BeginForwardingAttempt
<1>3. ASSUME NEW n \in targets, NEW sent \in SUBSET UnicastClas, Send(n, sent)
      PROVE  RouterTypeOK'
  BY <1>3 DEF Send, SendToNode
<1>4. CASE EndForwarding
  BY <1>4 DEF EndForwarding
<1>5. CASE Update
  <2>1. CASE Procedure
    BY <2>1, <1>1, <1>2, <1>3, <1>4
    DEF Procedure, Dispatching, BeginDelivery, DeliveryRaises, CallbackRaises, Deliver, EndDelivery,
        Forwarded, Delayed
  <2> QED
    BY <2>1, <1>1, <1>5
    DEF Update, Processing, Poll, Discover, DiscoveryRaises,
        UpdateDiscovery, RetryOne, RetryExhausted, ReceiveLocal, NothingLocal,
        NothingRemote, ReceiveRemote
<1>6. CASE Application
  BY <1>1, <1>6
  DEF Application, StartTransmission, CancelTransmission, RegisterEndpoint,
      RegisterEndpointFails, UnregisterEndpoint, RegisterGroupEndpoint,
      UnregisterGroupEndpoint
<1>7. CASE TimePasses
  BY <1>1, <1>7 DEF TimePasses
<1> QED BY <1>5, <1>6, <1>7 DEF Next

(* start_transmission, registration and the passing of time keep the       *)
(* clock and the counters of the endpoints natural numbers.                *)
LEMMA EndpointTypeStep ==
    ASSUME TypeOK, Next
    PROVE  EndpointTypeOK'
<1> USE DEF TypeOK, EndpointTypeOK
<1>1. CASE UNCHANGED <<clock, bpa, last_time, last_num>>
  BY <1>1
<1>2. CASE UNCHANGED endpointVars
  BY <1>1, <1>2 DEF endpointVars
<1>3. CASE Update
  BY <1>1, <1>2, <1>3
  DEF Update, Processing, Poll, Procedure, Discover, DiscoveryRaises,
      UpdateDiscovery, RetryOne, RetryExhausted, ReceiveLocal,
      NothingLocal, NothingRemote, ReceiveRemote, Dispatching, BeginDelivery,
      DeliveryRaises, CallbackRaises, Deliver, EndDelivery, BeginForwarding, Forwarded, Send, Delayed
<1>4. ASSUME NEW e \in Endpoints, NEW destination, NEW anonymous,
             StartTransmission(e, destination, anonymous)
      PROVE  EndpointTypeOK'
  BY <1>4 DEF StartTransmission, AdvanceNumber, NextTime, NextNum
<1>5. ASSUME NEW e \in Endpoints,
             RegisterEndpoint(e) \/ RegisterEndpointFails(e) \/ UnregisterEndpoint(e)
      PROVE  EndpointTypeOK'
  BY <1>5 DEF RegisterEndpoint, RegisterEndpointFails, UnregisterEndpoint, SetBpa
<1>6. CASE Application
  BY <1>2, <1>4, <1>5, <1>6
  DEF Application, CancelTransmission, RegisterGroupEndpoint, UnregisterGroupEndpoint
<1>7. CASE TimePasses
  BY <1>7 DEF TimePasses, Tick
<1> QED BY <1>3, <1>6, <1>7 DEF Next

(* The records the heap is made of. *)
LEMMA NewBundleType ==
    ASSUME EndpointTypeOK, NEW e \in Endpoints, NEW destination \in Uris, NEW anonymous
    PROVE  NextBundle(e, destination, anonymous) \in Bundles
<1>1. NextTime(e) \in Nat /\ NextNum(e) \in Nat
  BY DEF EndpointTypeOK, NextTime, NextNum
<1>2. [source |-> IF anonymous THEN Anonymous ELSE Uri[e],
       time |-> NextTime(e), num |-> NextNum(e)] \in BundleIds
  BY <1>1, EndpointAssumption DEF BundleIds
<1> QED BY <1>2, EndpointAssumption DEF NextBundle, Bundles, NoAge

(* What prepare_and_serialize_bundle makes of a bundle is a bundle. *)
LEMMA OutgoingCopyType ==
    ASSUME NEW b \in Bundles, NEW now \in Nat
    PROVE  OutgoingCopy(b, now, now) \in Bundles
<1>1. b.hop_count + 1 \in Nat
  BY DEF Bundles
<1>2. (IF b.age = NoAge THEN NoAge ELSE b.age + (now - now)) \in Nat \union {NoAge}
  BY DEF Bundles, NoAge
<1> QED BY <1>1, <1>2 DEF OutgoingCopy, Bundles

(* The constructor of BundleInformation makes one. *)
LEMMA NewInformationType ==
    ASSUME NEW b \in Bundles, NEW now \in Nat, NEW f \in Seq(Addresses), NEW o \in Origins
    PROVE  NewBundleInformation(b, now, f, o) \in BundleInformations
BY DEF NewBundleInformation, BundleInformations, RetentionConstraints

(* So do the poll generators, for known and unknown senders. *)
LEMMA PolledType ==
    ASSUME StorageTypeOK, NEW b \in Bundles, NEW now \in Nat,
           NEW a \in Addresses \union {None}
    PROVE  PolledInformation(b, a, now) \in BundleInformations
<1>1. (IF a \in DOMAIN nodes THEN <<a>> ELSE << >>) \in Seq(Addresses)
  BY DEF StorageTypeOK, Map
<1> QED BY <1>1, NewInformationType DEF PolledInformation, Origins

(* Changing one field of an object of the heap. *)
LEMMA RetentionType ==
    ASSUME NEW h, NEW D, Map(h, D, BundleInformations), NEW r,
           NEW c \in RetentionConstraints
    PROVE  /\ Map([h EXCEPT ![r].retention_constraint = c], D, BundleInformations)
           /\ DOMAIN [h EXCEPT ![r].retention_constraint = c] = DOMAIN h
<1>1. ASSUME NEW x \in DOMAIN h
      PROVE  [h EXCEPT ![r].retention_constraint = c][x] \in BundleInformations
  <2>1. h[x] \in BundleInformations
    BY DEF Map
  <2>2. [h[x] EXCEPT !.retention_constraint = c] \in BundleInformations
    BY <2>1 DEF BundleInformations
  <2> QED BY <2>1, <2>2
<1> QED BY <1>1 DEF Map

(* bundle_reception only changes the constraint of its object. *)
LEMMA ReceiveType ==
    ASSUME NEW r, NEW h, Map(h, Infos, BundleInformations), Receive(r, h)
    PROVE  Map(info', Infos, BundleInformations) /\ DOMAIN info' = DOMAIN h
<1>1. PICK c \in RetentionConstraints :
          info' = [h EXCEPT ![r].retention_constraint = c]
  BY DEF Receive, RetentionConstraints
<1>2. /\ Map([h EXCEPT ![r].retention_constraint = c], Infos, BundleInformations)
      /\ DOMAIN [h EXCEPT ![r].retention_constraint = c] = DOMAIN h
  BY RetentionType
<1> QED BY <1>1, <1>2

(* The copies that arrive are bundles. *)
LEMMA ArrivalType ==
    ASSUME TypeOK, NEW b \in RemoteBundles \union Echoes
    PROVE  b \in Bundles
<1>1. \A r \in DOMAIN info : info[r].bundle \in Bundles
  BY DEF TypeOK, StorageTypeOK, Map, BundleInformations
<1>2. clock \in Nat
  BY DEF TypeOK, EndpointTypeOK
<1> QED BY <1>1, <1>2, OutgoingCopyType, AgentAssumption DEF Echoes

(* What a step does to the heap: it changes and adds objects, and forgets  *)
(* none.                                                                   *)
HeapGrows == Map(info', Infos, BundleInformations) /\ DOMAIN info \subseteq DOMAIN info'

(* A new object joins the heap. *)
LEMMA CreateGrows ==
    ASSUME Map(info, Infos, BundleInformations), NEW record \in BundleInformations,
           Infos \ DOMAIN info # {}
    PROVE  /\ Map(Put(info, NewInfo, record), Infos, BundleInformations)
           /\ DOMAIN Put(info, NewInfo, record) = DOMAIN info \union {NewInfo}
BY NewInfoFresh, PutMap DEF Put

(* A turn of the router's loop keeps every object one. *)
LEMMA SendGrows ==
    ASSUME TypeOK, NEW n \in targets, NEW sent \in SUBSET UnicastClas, Send(n, sent)
    PROVE  HeapGrows
<1> DEFINE more == [i \in 1 .. Cardinality(sent) |-> n]
<1>1. more \in Seq(Addresses)
  <2>1. Cardinality(sent) \in Nat
    BY RouterAssumption, FS_Subset, FS_CardinalityType
  <2>2. n \in Addresses
    BY DEF TypeOK, RouterTypeOK
  <2> QED BY <2>1, <2>2, ConstantSeq
<1>2. info' = [info EXCEPT ![current].forwarded_to = @ \o more]
  BY DEF Send, SendToNode
<1> HIDE DEF more
<1>3. Map(info, Infos, BundleInformations)
  BY DEF TypeOK, StorageTypeOK
<1>4. ASSUME NEW x \in DOMAIN info
      PROVE  info'[x] \in BundleInformations
  <2>1. info[x] \in BundleInformations
    BY <1>3 DEF Map
  <2>2. info[x].forwarded_to \o more \in Seq(Addresses)
    BY <2>1, <1>1 DEF BundleInformations
  <2>3. [info[x] EXCEPT !.forwarded_to = @ \o more] \in BundleInformations
    BY <2>1, <2>2 DEF BundleInformations
  <2> QED BY <2>1, <2>3, <1>2
<1> QED BY <1>2, <1>3, <1>4 DEF HeapGrows, Map

(* So do delay_bundle and the deletion of what it evicts. *)
LEMMA DelayedGrows ==
    ASSUME TypeOK, NEW evicted, Delayed(evicted)
    PROVE  HeapGrows
<1>1. Map(info, Infos, BundleInformations)
  BY DEF TypeOK, StorageTypeOK
<1>2. ASSUME NEW x \in DOMAIN info
      PROVE  /\ info[x] \in BundleInformations
             /\ [info[x] EXCEPT !.retention_constraint = None] \in BundleInformations
  <2>1. info[x] \in BundleInformations
    BY <1>1 DEF Map
  <2> QED BY <2>1 DEF BundleInformations, RetentionConstraints
<1> QED BY <1>1, <1>2 DEF Delayed, HeapGrows, Map

(* So does marking an object as locally delivered. *)
LEMMA DeliveredFlagGrows ==
    ASSUME TypeOK, info' = [info EXCEPT ![current].locally_delivered = TRUE]
    PROVE  HeapGrows
<1>1. Map(info, Infos, BundleInformations)
  BY DEF TypeOK, StorageTypeOK
<1>2. ASSUME NEW x \in DOMAIN info
      PROVE  /\ info[x] \in BundleInformations
             /\ [info[x] EXCEPT !.locally_delivered = TRUE] \in BundleInformations
  <2>1. info[x] \in BundleInformations
    BY <1>1 DEF Map
  <2> QED BY <2>1 DEF BundleInformations
<1> QED BY <1>1, <1>2 DEF HeapGrows, Map

(* Every step of the node changes or adds objects and forgets none. *)
LEMMA HeapStep ==
    ASSUME TypeOK, Next
    PROVE  HeapGrows
<1>0. Map(info, Infos, BundleInformations) /\ clock \in Nat
  BY DEF TypeOK, StorageTypeOK, EndpointTypeOK
<1>1. CASE UNCHANGED info
  BY <1>0, <1>1 DEF HeapGrows
<1>2. CASE UNCHANGED storageVars
  BY <1>1, <1>2 DEF storageVars
<1>3. ASSUME NEW r, Receive(r, info) PROVE HeapGrows
  BY <1>0, <1>3, ReceiveType DEF HeapGrows
<1>4. ASSUME NEW b \in RemoteBundles \union Echoes, NEW a \in Addresses \union {None},
             ReceiveRemote(b, a)
      PROVE  HeapGrows
  <2>1. PolledInformation(b, a, clock) \in BundleInformations
    BY <1>0, ArrivalType, PolledType DEF TypeOK
  <2> DEFINE heap == Put(info, NewInfo, PolledInformation(b, a, clock))
  <2>2. Map(heap, Infos, BundleInformations) /\ DOMAIN info \subseteq DOMAIN heap
    BY <1>0, <1>4, <2>1, CreateGrows DEF ReceiveRemote
  <2>3. Receive(NewInfo, heap)
    BY <1>4 DEF ReceiveRemote
  <2> HIDE DEF heap
  <2> QED BY <2>2, <2>3, ReceiveType DEF HeapGrows
<1>5. CASE BeginDelivery \/ DeliveryRaises
  BY <1>5, DeliveredFlagGrows DEF BeginDelivery, DeliveryRaises
<1>6. CASE BeginForwarding \/ Forwarded
  <2>1. PICK c \in RetentionConstraints :
            info' = [info EXCEPT ![current].retention_constraint = c]
    BY <1>6 DEF BeginForwarding, Forwarded, RetentionConstraints
  <2>2. /\ Map([info EXCEPT ![current].retention_constraint = c], Infos, BundleInformations)
        /\ DOMAIN [info EXCEPT ![current].retention_constraint = c] = DOMAIN info
    BY <1>0, RetentionType
  <2> QED BY <2>1, <2>2 DEF HeapGrows
<1>7. CASE Procedure
  <2>1. CASE Dispatching \/ Deliver \/ CallbackRaises \/ EndDelivery
    BY <2>1, <1>2 DEF Dispatching, Deliver, CallbackRaises, EndDelivery
  <2> QED BY <2>1, <1>5, <1>6, <1>7, SendGrows, DelayedGrows DEF Procedure
<1>8. CASE Update
  <2>1. CASE Discover \/ DiscoveryRaises
    BY <2>1, <1>1 DEF Discover, DiscoveryRaises, UpdateDiscovery
  <2>2. CASE RetryOne \/ RetryExhausted \/ NothingLocal \/ NothingRemote
    BY <2>2, <1>2 DEF RetryOne, RetryExhausted, NothingLocal, NothingRemote
  <2>3. CASE ReceiveLocal
    BY <2>3, <1>3 DEF ReceiveLocal
  <2> QED BY <2>1, <2>2, <2>3, <1>4, <1>7, <1>8 DEF Update, Processing, Poll
<1>9. ASSUME NEW e \in Endpoints, NEW destination \in Uris, NEW anonymous,
             StartTransmission(e, destination, anonymous)
      PROVE  HeapGrows
  <2>1. NextBundle(e, destination, anonymous) \in Bundles
    BY NewBundleType DEF TypeOK
  <2> DEFINE record == NewBundleInformation(NextBundle(e, destination, anonymous),
                                            clock, << >>, "application")
  <2>2. record \in BundleInformations
    <3>1. << >> \in Seq(Addresses) /\ "application" \in Origins
      BY DEF Origins
    <3> QED BY <1>0, <2>1, <3>1, NewInformationType
  <2>3. Infos \ DOMAIN info # {} /\ info' = Put(info, NewInfo, record)
    BY <1>9 DEF StartTransmission, Create
  <2> HIDE DEF record
  <2> QED BY <1>0, <2>2, <2>3, CreateGrows DEF HeapGrows
<1>10. CASE Application
  BY <1>1, <1>2, <1>9, <1>10
  DEF Application, CancelTransmission, RegisterEndpoint, RegisterEndpointFails,
      UnregisterEndpoint, RegisterGroupEndpoint, UnregisterGroupEndpoint
<1>11. CASE TimePasses
  BY <1>2, <1>11 DEF TimePasses
<1> QED BY <1>8, <1>10, <1>11 DEF Next

(* The tables of the storage. *)
LEMMA StoreSeenType ==
    ASSUME StorageTypeOK, NEW id \in BundleIds, NEW a \in Addresses \union {None},
           StoreSeen(id, a)
    PROVE  Map(bundle_ids', BundleIds, Addresses \union {None})
<1>1. Map(bundle_ids, BundleIds, Addresses \union {None})
  BY DEF StorageTypeOK
<1>2. \A K : Map(Without(bundle_ids, K), BundleIds, Addresses \union {None})
  BY <1>1, WithoutMap
<1>3. \A f : Map(f, BundleIds, Addresses \union {None}) =>
                 Map(Put(f, id, a), BundleIds, Addresses \union {None})
  BY PutMap
<1> QED BY <1>1, <1>2, <1>3 DEF StoreSeen

(* Every object has a bundle id. *)
LEMMA IdType ==
    ASSUME StorageTypeOK, NEW r \in DOMAIN info
    PROVE  IdOf(r) \in BundleIds
BY DEF StorageTypeOK, Map, BundleInformations, Bundles, IdOf

(* Every step keeps the tables of the storage in their types. *)
LEMMA StorageTypeStep ==
    ASSUME TypeOK, Next
    PROVE  StorageTypeOK'
<1>0. /\ StorageTypeOK /\ HeapGrows
      /\ Map(bundles, BundleIds, DOMAIN info)
      /\ Map(bundles, BundleIds, DOMAIN info')
      /\ Map(bundle_ids, BundleIds, Addresses \union {None})
      /\ Map(nodes, Addresses, SUBSET Clas)
  <2>1. StorageTypeOK /\ HeapGrows
    BY HeapStep DEF TypeOK
  <2> QED BY <2>1, WiderMap DEF StorageTypeOK, HeapGrows
<1>1. SUFFICES /\ Map(bundles', BundleIds, DOMAIN info')
               /\ Map(bundle_ids', BundleIds, Addresses \union {None})
               /\ Map(nodes', Addresses, SUBSET Clas)
  BY <1>0 DEF StorageTypeOK, HeapGrows, Map
<1>2. CASE UNCHANGED <<bundles, bundle_ids, nodes>>
  BY <1>0, <1>2
<1>3. CASE UNCHANGED storageVars
  BY <1>2, <1>3 DEF storageVars
<1>4. CASE Discover \/ DiscoveryRaises
  <2>1. CASE UNCHANGED nodes
    BY <1>4, <2>1, <1>0 DEF Discover, DiscoveryRaises, UpdateDiscovery
  <2>2. ASSUME NEW n \in Addresses, NEW clas \in SUBSET Clas, SetNode(n, clas)
        PROVE  Map(nodes', Addresses, SUBSET Clas)
    BY <2>2, <1>0, PutMap DEF SetNode
  <2> QED BY <1>4, <2>1, <2>2, <1>0 DEF Discover, DiscoveryRaises, UpdateDiscovery
<1>5. ASSUME NEW b \in RemoteBundles \union Echoes, NEW a \in Addresses \union {None},
             ReceiveRemote(b, a)
      PROVE  /\ Map(bundles', BundleIds, DOMAIN info')
             /\ Map(bundle_ids', BundleIds, Addresses \union {None})
             /\ Map(nodes', Addresses, SUBSET Clas)
  <2>1. b.id \in BundleIds
    BY ArrivalType DEF Bundles
  <2> QED BY <1>5, <1>0, <2>1, StoreSeenType DEF ReceiveRemote
<1>6. ASSUME NEW n \in targets, NEW sent \in SUBSET UnicastClas, Send(n, sent)
      PROVE  /\ Map(bundles', BundleIds, DOMAIN info')
             /\ Map(bundle_ids', BundleIds, Addresses \union {None})
             /\ Map(nodes', Addresses, SUBSET Clas)
  <2>1. Map(nodes', Addresses, SUBSET Clas)
    BY <1>0, <1>6 DEF Send, SendToNode, Map
  <2> QED BY <2>1, <1>0, <1>6 DEF Send
<1>7. ASSUME NEW evicted, Delayed(evicted)
      PROVE  /\ Map(bundles', BundleIds, DOMAIN info')
             /\ Map(bundle_ids', BundleIds, Addresses \union {None})
             /\ Map(nodes', Addresses, SUBSET Clas)
  <2>1. current \in DOMAIN info
    BY <1>7 DEF Delayed, EndForwarding, TypeOK, AgentTypeOK
  <2>2. IdOf(current) \in BundleIds /\ current \in DOMAIN info'
    BY <1>0, <2>1, IdType DEF HeapGrows
  <2>3. CASE UNCHANGED <<bundles, bundle_ids>>
    BY <2>3, <1>0, <1>7 DEF Delayed
  <2>4. CASE /\ StoreSeen(IdOf(current), None)
             /\ bundles' = Put(Without(Kept, evicted), IdOf(current), current)
    <3>1. Map(Kept, BundleIds, DOMAIN info')
      BY <1>0, WithoutMap DEF Kept
    <3>2. Map(Without(Kept, evicted), BundleIds, DOMAIN info')
      BY <3>1, WithoutMap
    <3>3. Map(bundles', BundleIds, DOMAIN info')
      BY <2>4, <3>2, <2>2, PutMap
    <3>4. Map(bundle_ids', BundleIds, Addresses \union {None})
      BY <2>4, <2>2, <1>0, StoreSeenType
    <3> QED BY <3>3, <3>4, <1>0, <1>7 DEF Delayed
  <2> QED BY <2>3, <2>4, <1>7 DEF Delayed, DelayBundle
<1>8. CASE Procedure
  <2>1. CASE \/ Dispatching \/ BeginDelivery \/ DeliveryRaises \/ CallbackRaises \/ Deliver
             \/ EndDelivery \/ BeginForwarding \/ Forwarded
    BY <2>1, <1>2, <1>3
    DEF Dispatching, BeginDelivery, DeliveryRaises, CallbackRaises, Deliver, EndDelivery,
        BeginForwarding, Forwarded
  <2> QED BY <2>1, <1>6, <1>7, <1>8 DEF Procedure
<1>9. CASE Update
  <2>1. CASE \/ RetryOne \/ RetryExhausted \/ ReceiveLocal \/ NothingLocal
             \/ NothingRemote
    BY <2>1, <1>2, <1>3
    DEF RetryOne, RetryExhausted, ReceiveLocal, NothingLocal, NothingRemote
  <2> QED BY <2>1, <1>4, <1>5, <1>8, <1>9 DEF Update, Processing, Poll
<1>10. ASSUME NEW e \in Endpoints, NEW r \in DOMAIN info, CancelTransmission(e, r)
       PROVE  /\ Map(bundles', BundleIds, DOMAIN info')
              /\ Map(bundle_ids', BundleIds, Addresses \union {None})
              /\ Map(nodes', Addresses, SUBSET Clas)
  BY <1>10, <1>0, WithoutMap DEF CancelTransmission, RemoveBundle
<1>11. CASE Application
  BY <1>2, <1>3, <1>10, <1>11
  DEF Application, StartTransmission, RegisterEndpoint, RegisterEndpointFails,
      UnregisterEndpoint, RegisterGroupEndpoint, UnregisterGroupEndpoint
<1>12. CASE TimePasses
  BY <1>3, <1>12 DEF TimePasses
<1> QED BY <1>9, <1>11, <1>12 DEF Next

(* The agent's own state.  Control is the part that says where update()    *)
(* stands, Lists the part that the application's calls change.             *)
Control ==
    /\ retry = None \/ retry \subseteq DOMAIN info
    /\ phase \in Phases /\ stage \in Stages
    /\ current \in DOMAIN info \union {None}
    /\ stage = "none" <=> current = None
    /\ stage # "none" => phase # "idle"

Lists ==
    /\ Map(registered, Uris, Seq(Endpoints \union GroupEndpoints))
    /\ queue \in Seq(DOMAIN info)
    /\ iter \in [members : Seq(Endpoints \union GroupEndpoints),
                 next : Nat \ {0}, live : BOOLEAN]
    /\ cancelled \subseteq BundleIds

(* Every step leaves update() at one of its points, with an object in      *)
(* hand exactly when a procedure runs.                                     *)
LEMMA ControlStep ==
    ASSUME TypeOK, Next
    PROVE  Control'
<1>0. /\ Control /\ HeapGrows
      /\ None \notin DOMAIN info
      /\ None \notin DOMAIN info'
  <2>1. Control /\ HeapGrows
    BY HeapStep DEF TypeOK, AgentTypeOK, Control
  <2>2. DOMAIN info \subseteq Infos
    BY DEF TypeOK, StorageTypeOK, Map
  <2> QED BY <2>1, <2>2, StorageAssumption DEF HeapGrows, Map
<1> USE <1>0 DEF Control, HeapGrows, Phases, Stages
<1>1. CASE UNCHANGED <<phase, stage, current, retry>>
  BY <1>1
<1>2. CASE /\ phase \in {"retry", "local", "poll"} /\ Finish
           /\ retry' \in {retry, None}
  BY <1>2 DEF Finish, PhaseAfter
<1>3. ASSUME NEW r \in DOMAIN info', Dispatch(r), phase # "idle",
             retry' = None \/ retry' \subseteq DOMAIN info
      PROVE  Control'
  BY <1>3 DEF Dispatch
<1>4. ASSUME NEW r \in DOMAIN info', NEW h, Receive(r, h),
             phase \in {"retry", "local", "poll"}, retry' = retry
      PROVE  Control'
  BY <1>2, <1>3, <1>4 DEF Receive
<1>5. ToRetry \subseteq DOMAIN info
  BY DEF ToRetry, Stored, TypeOK, StorageTypeOK, Map
<1>6. ASSUME NEW b, NEW a, ReceiveRemote(b, a)
      PROVE  Control'
  <2>1. PICK h : Receive(NewInfo, h)
    BY <1>6 DEF ReceiveRemote
  <2>2. NewInfo \in DOMAIN info'
    BY <1>6 DEF ReceiveRemote, Receive, Put
  <2> QED BY <2>1, <2>2, <1>4, <1>6 DEF ReceiveRemote
<1>7. CASE ReceiveLocal
  <2>1. Head(queue) \in DOMAIN info
    BY <1>7 DEF ReceiveLocal, TypeOK, AgentTypeOK
  <2> QED BY <2>1, <1>4, <1>7 DEF ReceiveLocal
<1>8. CASE Procedure
  <2>1. ASSUME NEW next \in Stages \ {"none"}, GoTo(next), stage # "none", retry' = retry
        PROVE  Control'
    BY <2>1 DEF GoTo
  <2>2. CASE Dispatching \/ BeginDelivery \/ EndDelivery \/ BeginForwarding
    BY <2>1, <2>2 DEF Dispatching, BeginDelivery, EndDelivery, BeginForwarding
  <2>3. CASE DeliveryRaises \/ CallbackRaises
    BY <2>3 DEF DeliveryRaises, CallbackRaises
  <2>4. CASE Deliver
    BY <2>4, <1>1 DEF Deliver
  <2>5. CASE EndForwarding /\ retry' = retry
    BY <2>5, <1>2 DEF EndForwarding
  <2>6. ASSUME NEW n, NEW sent, Send(n, sent) PROVE Control'
    BY <2>6, <1>1 DEF Send, updateVars
  <2> QED BY <2>2, <2>3, <2>4, <2>5, <2>6, <1>8 DEF Procedure, Forwarded, Delayed
<1>9. CASE Update
  <2>1. CASE Discover \/ DiscoveryRaises
    BY <2>1 DEF Discover, DiscoveryRaises, UpdateDiscovery
  <2>2. CASE RetryOne
    BY <2>2, <1>3, <1>5 DEF RetryOne
  <2>3. CASE RetryExhausted
    BY <2>3, <1>2 DEF RetryExhausted
  <2>4. CASE NothingLocal \/ NothingRemote
    BY <2>4, <1>2 DEF NothingLocal, NothingRemote
  <2> QED BY <2>1, <2>2, <2>3, <2>4, <1>6, <1>7, <1>8, <1>9 DEF Update, Processing, Poll
<1>10. CASE Application
  BY <1>1, <1>10
  DEF Application, StartTransmission, CancelTransmission, RegisterEndpoint,
      RegisterEndpointFails, UnregisterEndpoint, RegisterGroupEndpoint,
      UnregisterGroupEndpoint, updateVars
<1>11. CASE TimePasses
  BY <1>1, <1>11 DEF TimePasses, updateVars
<1> QED BY <1>9, <1>10, <1>11 DEF Next

(* Every step keeps the registrations, the dispatch queue and the list of  *)
(* the delivery loop in their types.                                       *)
LEMMA ListsStep ==
    ASSUME TypeOK, Next
    PROVE  Lists'
<1> DEFINE Members == Seq(Endpoints \union GroupEndpoints)
           IterType == [members : Members, next : Nat \ {0}, live : BOOLEAN]
<1>0. /\ Map(registered, Uris, Members) /\ iter \in IterType
      /\ queue \in Seq(DOMAIN info) /\ queue \in Seq(DOMAIN info')
      /\ cancelled \subseteq BundleIds
      /\ DOMAIN info \subseteq DOMAIN info'
      /\ StorageTypeOK
  <2>1. HeapGrows
    BY HeapStep
  <2> QED BY <2>1, WiderSeq DEF TypeOK, AgentTypeOK, HeapGrows
<1>1. SUFFICES /\ Map(registered', Uris, Members)
               /\ queue' \in Seq(DOMAIN info')
               /\ iter' \in IterType
               /\ cancelled' \subseteq BundleIds
  BY DEF Lists
<1> DEFINE Goal == /\ Map(registered', Uris, Members)
                   /\ queue' \in Seq(DOMAIN info')
                   /\ iter' \in IterType
                   /\ cancelled' \subseteq BundleIds
<1>2. CASE UNCHANGED <<registered, queue, iter, cancelled>>
  BY <1>0, <1>2
<1>3. CASE UNCHANGED <<registered, iter, cancelled>> /\ queue # << >>
           /\ queue' = Tail(queue)
  <2>1. queue' \in Seq(DOMAIN info')
    BY <1>0, <1>3
  <2> QED BY <2>1, <1>0, <1>3
<1>4. CASE UNCHANGED <<registered, queue, cancelled>> /\ iter' \in IterType
  BY <1>0, <1>4
<1>5. CASE BeginDelivery
  <2>1. registered[info[current].bundle.destination] \in Members
    BY <1>0, <1>5 DEF BeginDelivery, Map
  <2> QED BY <2>1, <1>4, <1>5 DEF BeginDelivery
<1>6. CASE Deliver \/ CallbackRaises \/ EndDelivery
  <2>1. [iter EXCEPT !.next = @ + 1] \in IterType
    BY <1>0
  <2>2. NoIteration \in IterType
    BY DEF NoIteration
  <2> HIDE DEF IterType
  <2> QED BY <2>1, <2>2, <1>4, <1>6 DEF Deliver, CallbackRaises, EndDelivery
<1>7. CASE Update
  BY <1>2, <1>3, <1>5, <1>6, <1>7
  DEF Update, Processing, Poll, Discover, DiscoveryRaises,
      UpdateDiscovery, RetryOne, RetryExhausted, ReceiveLocal, NothingLocal,
      NothingRemote, ReceiveRemote, Procedure, Dispatching, DeliveryRaises,
      BeginForwarding, Send, Forwarded, Delayed, updateVars
<1>8. ASSUME NEW e \in Endpoints, NEW destination, NEW anonymous,
             StartTransmission(e, destination, anonymous)
      PROVE  Goal
  <2>1. NewInfo \in DOMAIN info'
    BY <1>8 DEF StartTransmission, Create, Put
  <2>2. queue' \in Seq(DOMAIN info')
    BY <2>1, <1>0, <1>8 DEF StartTransmission
  <2> QED BY <2>2, <1>0, <1>8 DEF StartTransmission, updateVars
<1>9. ASSUME NEW e \in Endpoints, NEW r \in DOMAIN info, CancelTransmission(e, r)
      PROVE  Goal
  BY <1>9, <1>0, IdType DEF CancelTransmission, updateVars
<1>10. ASSUME NEW e \in Endpoints,
              RegisterEndpoint(e) \/ RegisterEndpointFails(e) \/ UnregisterEndpoint(e)
       PROVE  Goal
  <2>1. Map(registered', Uris, Members)
    <3>1. Uri[e] \in Uris /\ <<e>> \in Members
      BY EndpointAssumption
    <3>2. Map(Put(registered, Uri[e], <<e>>), Uris, Members)
      BY <3>1, <1>0, PutMap
    <3>3. Map(Without(registered, {Uri[e]}), Uris, Members)
      BY <1>0, WithoutMap
    <3> HIDE DEF Members
    <3> QED
      BY <3>2, <3>3, <1>0, <1>10
      DEF RegisterEndpoint, RegisterEndpointFails, UnregisterEndpoint
  <2> QED
    BY <2>1, <1>0, <1>10
    DEF RegisterEndpoint, RegisterEndpointFails, UnregisterEndpoint, updateVars
<1>11. ASSUME NEW uri, NEW members \in Members, LoopSees(uri, members)
       PROVE  iter' \in IterType
  <2>1. [iter EXCEPT !.members = members, !.live = members # << >>] \in IterType
    <3>1. (members # << >>) \in BOOLEAN
      OBVIOUS
    <3> HIDE DEF Members
    <3> QED BY <3>1, <1>0
  <2> HIDE DEF IterType
  <2> QED BY <2>1, <1>0, <1>11 DEF LoopSees
<1>12. ASSUME NEW g \in GroupEndpoints, RegisterGroupEndpoint(g)
       PROVE  Goal
  <2> DEFINE members == IF Uri[g] \in DOMAIN registered
                        THEN Append(registered[Uri[g]], g) ELSE <<g>>
  <2>1. members \in Members
    <3>1. CASE Uri[g] \in DOMAIN registered
      <4>1. registered[Uri[g]] \in Members
        BY <1>0, <3>1 DEF Map
      <4>2. Append(registered[Uri[g]], g) \in Members
        BY <4>1
      <4> QED BY <3>1, <4>2
    <3>2. CASE Uri[g] \notin DOMAIN registered
      BY <3>2
    <3> QED BY <3>1, <3>2
  <2>2. registered' = Put(registered, Uri[g], members) /\ LoopSees(Uri[g], members)
    BY <1>12 DEF RegisterGroupEndpoint
  <2> HIDE DEF members
  <2>3. Map(registered', Uris, Members)
    BY <2>1, <2>2, <1>0, PutMap, EndpointAssumption
  <2> QED BY <2>1, <2>2, <2>3, <1>0, <1>11, <1>12 DEF RegisterGroupEndpoint
<1>13. ASSUME NEW g \in GroupEndpoints, UnregisterGroupEndpoint(g)
       PROVE  Goal
  <2> DEFINE members == RemoveFirst(registered[Uri[g]], g)
  <2>1. members \in Members
    <3>1. registered[Uri[g]] \in Members /\ g \in Range(registered[Uri[g]])
      BY <1>0, <1>13 DEF UnregisterGroupEndpoint, Map
    <3> QED BY <3>1, RemoveFirstType
  <2>2. /\ \/ registered' = Without(registered, {Uri[g]})
           \/ registered' = Put(registered, Uri[g], members)
        /\ LoopSees(Uri[g], members)
    BY <1>13 DEF UnregisterGroupEndpoint
  <2> HIDE DEF members
  <2>3. Map(registered', Uris, Members)
    BY <2>1, <2>2, <1>0, PutMap, WithoutMap, EndpointAssumption
  <2> QED BY <2>1, <2>2, <2>3, <1>0, <1>11, <1>13 DEF UnregisterGroupEndpoint
<1>14. CASE Application
  BY <1>8, <1>9, <1>10, <1>12, <1>13, <1>14 DEF Application
<1>15. CASE TimePasses
  BY <1>2, <1>15 DEF TimePasses, updateVars
<1> QED BY <1>7, <1>14, <1>15 DEF Next

(* Only objects of the heap are handed to endpoints. *)
LEMMA DeliveredStep ==
    ASSUME TypeOK, Next
    PROVE  delivered' \in [Endpoints -> Seq(DOMAIN info')]
<1>0. delivered \in [Endpoints -> Seq(DOMAIN info)] /\ DOMAIN info \subseteq DOMAIN info'
  BY HeapStep DEF TypeOK, HeapGrows
<1>1. delivered \in [Endpoints -> Seq(DOMAIN info')]
  BY <1>0, WiderSeq
<1>2. CASE UNCHANGED delivered
  BY <1>1, <1>2
<1>3. CASE Deliver
  <2>1. current \in DOMAIN info'
    BY <1>0, <1>3 DEF Deliver, TypeOK, AgentTypeOK
  <2>2. \A e \in Endpoints : Append(delivered[e], current) \in Seq(DOMAIN info')
    BY <2>1, <1>1
  <2> QED BY <2>2, <1>1, <1>3 DEF Deliver, HandOver
<1>4. CASE Update
  BY <1>2, <1>3, <1>4
  DEF Update, Processing, Poll, Discover, DiscoveryRaises,
      UpdateDiscovery, RetryOne, RetryExhausted, ReceiveLocal, NothingLocal,
      NothingRemote, ReceiveRemote, Procedure, Dispatching, BeginDelivery,
      DeliveryRaises, CallbackRaises, EndDelivery, BeginForwarding, Send, Forwarded, Delayed,
      endpointVars
<1>5. CASE Application
  BY <1>2, <1>5
  DEF Application, StartTransmission, CancelTransmission, RegisterEndpoint,
      RegisterEndpointFails, UnregisterEndpoint, RegisterGroupEndpoint,
      UnregisterGroupEndpoint, endpointVars
<1>6. CASE TimePasses
  BY <1>2, <1>6 DEF TimePasses, Tick
<1> QED BY <1>4, <1>5, <1>6 DEF Next

(* Every step keeps all types. *)
LEMMA TypeStep == TypeOK /\ [Next]_vars => TypeOK'
<1> SUFFICES ASSUME TypeOK, [Next]_vars PROVE TypeOK'
  OBVIOUS
<1>1. CASE Next
  BY <1>1, StorageTypeStep, RouterTypeStep, EndpointTypeStep, ControlStep, ListsStep,
     DeliveredStep
  DEF TypeOK, AgentTypeOK, Control, Lists
<1>2. CASE UNCHANGED vars
  BY <1>2
  DEF vars, storageVars, routerVars, endpointVars, updateVars, TypeOK, StorageTypeOK,
      RouterTypeOK, EndpointTypeOK, AgentTypeOK, Map
<1> QED BY <1>1, <1>2

(* In every behaviour, every variable of the node keeps its type: in       *)
(* particular the reason the router returns is always one for which        *)
(* bundle_forwarding stores the bundle, and the agent never looks at an    *)
(* object that is not there.                                               *)
THEOREM TypeCorrect == Spec => []TypeOK
BY TypeInit, TypeStep, PTL DEF Spec
-----------------------------------------------------------------------------
(* The bundles in the store.                                               *)

(* An object is stored under its own id, so under one id only. *)
KeysMatch == \A id \in DOMAIN bundles : IdOf(bundles[id]) = id

(* What the application queued is queued once, and is nowhere else yet. *)
QueueFresh ==
    /\ IsInjective(queue)
    /\ \A r \in Range(queue) : r \notin Stored \union ToRetry \union {current}

(* The object being sent is in need of forwarding.                         *)
SendingPending ==
    stage = "sending" => info[current].retention_constraint = "Forward pending"

(* None of the nodes still to be visited is on the list already. *)
TargetsNew ==
    /\ stage = "sending" => targets \intersect ForwardedTo(current) = {}
    /\ stage # "sending" => targets = {}

(* The tables are finite, although there are infinitely many bundle ids.   *)
FiniteTables == IsFiniteSet(DOMAIN bundles) /\ IsFiniteSet(DOMAIN bundle_ids)

(* OnlyForwardedCollected made inductive: what bundle_reception deletes is *)
(* not in the store (QueueFresh), and what is added there is pending.      *)
StoreInv ==
    /\ TypeOK
    /\ KeysMatch /\ QueueFresh /\ SendingPending
    /\ OnlyForwardedCollected

(* What delay_bundle leaves in the store. *)
LEMMA DelayedStore ==
    ASSUME TypeOK, KeysMatch, NEW evicted, Delayed(evicted)
    PROVE  /\ current \in DOMAIN info
           /\ KeysMatch'
           /\ Stored' \subseteq Stored \union {current}
           /\ \A r \in Stored' : r \notin {bundles[id] : id \in evicted \intersect DOMAIN bundles}
           /\ evicted \subseteq DOMAIN bundles
<1>0. current \in DOMAIN info /\ None \notin DOMAIN info
  BY StorageAssumption
  DEF Delayed, EndForwarding, TypeOK, AgentTypeOK, StorageTypeOK, Map
<1>1. ASSUME NEW r \in DOMAIN info PROVE IdOf(r)' = IdOf(r)
  BY <1>1 DEF Delayed, IdOf
<1>2. \A id \in DOMAIN bundles : bundles[id] \in DOMAIN info
  BY DEF TypeOK, StorageTypeOK, Map
<1>3. CASE evicted = {} /\ UNCHANGED bundles
  BY <1>0, <1>1, <1>2, <1>3 DEF KeysMatch, Stored
<1>4. CASE /\ IdOf(current) \notin DOMAIN bundles
           /\ evicted \in Evictions
           /\ bundles' = Put(Without(Kept, evicted), IdOf(current), current)
  <2>1. /\ DOMAIN Kept \subseteq DOMAIN bundles
        /\ \A id \in DOMAIN Kept : Kept[id] = bundles[id]
    BY DEF Kept, Without
  <2>2. evicted \subseteq DOMAIN bundles
    BY <1>4, <2>1 DEF Evictions, OldestStored
  <2>3. /\ DOMAIN bundles' \subseteq (DOMAIN bundles \ evicted) \union {IdOf(current)}
        /\ \A id \in DOMAIN bundles' :
              bundles'[id] = IF id = IdOf(current) THEN current ELSE bundles[id]
    BY <1>4, <2>1 DEF Put, Without
  <2>4. KeysMatch'
    BY <1>0, <1>1, <1>2, <2>3 DEF KeysMatch
  <2>5. Stored' \subseteq Stored \union {current}
    BY <2>3 DEF Stored
  <2>6. ASSUME NEW r \in Stored', NEW id \in evicted, r = bundles[id] PROVE FALSE
    <3>1. IdOf(r) = id /\ id \in DOMAIN bundles /\ r \in DOMAIN info
      BY <2>2, <2>6, <1>2 DEF KeysMatch
    <3>2. PICK k \in DOMAIN bundles' : r = bundles'[k]
      BY DEF Stored
    <3>3. IdOf(r) = k
      BY <3>1, <3>2, <2>4, <1>1 DEF KeysMatch
    <3> QED BY <3>1, <3>3, <2>3, <1>4
  <2> QED BY <1>0, <2>2, <2>4, <2>5, <2>6
<1> QED BY <1>3, <1>4 DEF Delayed, DelayBundle

(* start_transmission queues a new object, and update() takes it off the   *)
(* queue before anything else gets hold of it.                             *)
LEMMA QueueFreshStep ==
    ASSUME TypeOK, KeysMatch, QueueFresh, Next
    PROVE  QueueFresh'
<1>0. /\ queue \in Seq(DOMAIN info) /\ Range(queue) \subseteq DOMAIN info
      /\ None \notin DOMAIN info
      /\ Stored \subseteq DOMAIN info /\ ToRetry \subseteq DOMAIN info
      /\ current \in DOMAIN info \union {None}
  <2>1. Stored \subseteq DOMAIN info /\ DOMAIN info \subseteq Infos
    BY DEF TypeOK, StorageTypeOK, Map, Stored
  <2> QED BY <2>1, StorageAssumption DEF TypeOK, AgentTypeOK, Range, ToRetry
<1>1. CASE /\ UNCHANGED <<queue, bundles, retry>>
           /\ current' \notin Range(queue)
  BY <1>1 DEF QueueFresh, Stored, ToRetry
<1>2. CASE UNCHANGED <<queue, bundles, retry>> /\ current' \in {current, None}
  BY <1>0, <1>1, <1>2 DEF QueueFresh
<1>3. CASE RetryOne
  BY <1>3 DEF RetryOne, Dispatch, QueueFresh, Stored, ToRetry, storageVars
<1>4. CASE RetryExhausted
  BY <1>0, <1>4 DEF RetryExhausted, Finish, QueueFresh, Stored, ToRetry, storageVars
<1>5. CASE ReceiveLocal
  <2>1. /\ Tail(queue) \in Seq(DOMAIN info)
        /\ Len(Tail(queue)) = Len(queue) - 1
        /\ \A i \in 1 .. Len(Tail(queue)) : Tail(queue)[i] = queue[i + 1]
    BY <1>0, <1>5, HeadTailProperties DEF ReceiveLocal
  <2>2. IsInjective(Tail(queue))
    BY <1>0, <2>1 DEF QueueFresh, IsInjective
  <2>3. Range(Tail(queue)) \subseteq Range(queue) \ {Head(queue)}
    <3>1. ASSUME NEW i \in 1 .. Len(Tail(queue))
          PROVE  Tail(queue)[i] \in Range(queue) /\ Tail(queue)[i] # queue[1]
      BY <1>0, <2>1 DEF QueueFresh, IsInjective, Range
    <3> QED BY <3>1, <2>1, <1>0, <1>5 DEF Range, ReceiveLocal
  <2>4. current' \in {Head(queue), None} /\ queue' = Tail(queue)
    BY <1>5 DEF ReceiveLocal, Receive, Dispatch, Finish
  <2> QED BY <1>0, <2>2, <2>3, <2>4, <1>5 DEF ReceiveLocal, QueueFresh, Stored, ToRetry
<1>6. ASSUME NEW b, NEW a, ReceiveRemote(b, a)
      PROVE  QueueFresh'
  <2>1. current' \in {NewInfo, None}
    BY <1>6 DEF ReceiveRemote, Receive, Dispatch, Finish
  <2>2. NewInfo \notin DOMAIN info
    BY <1>6, NewInfoFresh DEF ReceiveRemote
  <2> QED BY <2>1, <2>2, <1>0, <1>1, <1>6 DEF ReceiveRemote
<1>7. ASSUME NEW evicted, Delayed(evicted)
      PROVE  QueueFresh'
  <2>1. Stored' \subseteq Stored \union {current} /\ current' = None
    BY <1>7, DelayedStore DEF Delayed, EndForwarding, Finish
  <2>2. ToRetry' \subseteq ToRetry \union Stored'
    BY <1>7 DEF Delayed, ToRetry
  <2> QED BY <2>1, <2>2, <1>0, <1>7 DEF Delayed, QueueFresh
<1>8. CASE Update
  BY <1>2, <1>3, <1>4, <1>5, <1>6, <1>7, <1>8
  DEF Update, Processing, Poll, Procedure, Discover, DiscoveryRaises,
      UpdateDiscovery, NothingLocal, NothingRemote, Dispatching,
      BeginDelivery, DeliveryRaises, CallbackRaises, Deliver, EndDelivery, BeginForwarding, Send,
      Forwarded, EndForwarding, Finish, GoTo, storageVars, updateVars
<1>9. ASSUME NEW e \in Endpoints, NEW destination, NEW anonymous,
             StartTransmission(e, destination, anonymous)
      PROVE  QueueFresh'
  <2>1. NewInfo \notin DOMAIN info /\ queue' = Append(queue, NewInfo)
    BY <1>9, NewInfoFresh DEF StartTransmission, Create
  <2>2. IsInjective(queue')
    BY <2>1, <1>0 DEF QueueFresh, IsInjective, Range
  <2>3. Range(queue') = Range(queue) \union {NewInfo}
    BY <2>1, <1>0 DEF Range
  <2>4. NewInfo \notin Stored \union ToRetry \union {current}
    <3>1. NewInfo \in Infos
      BY <1>9, NewInfoFresh DEF StartTransmission, Create
    <3> QED BY <3>1, <2>1, <1>0, StorageAssumption
  <2> QED
    BY <2>2, <2>3, <2>4, <1>9
    DEF StartTransmission, QueueFresh, Stored, ToRetry, updateVars
<1>10. ASSUME NEW e, NEW r, CancelTransmission(e, r)
       PROVE  QueueFresh'
  <2>1. Stored' \subseteq Stored
    BY <1>10 DEF CancelTransmission, RemoveBundle, Without, Stored
  <2> QED BY <2>1, <1>10 DEF CancelTransmission, QueueFresh, ToRetry, updateVars
<1>11. CASE Application
  BY <1>2, <1>9, <1>10, <1>11
  DEF Application, RegisterEndpoint, RegisterEndpointFails, UnregisterEndpoint,
      RegisterGroupEndpoint, UnregisterGroupEndpoint, storageVars, updateVars
<1>12. CASE TimePasses
  BY <1>2, <1>12 DEF TimePasses, storageVars, updateVars
<1> QED BY <1>8, <1>11, <1>12 DEF Next
(* What a step does to an object: it never changes its bundle nor takes a  *)
(* node from its list, and drops the constraint of a stored object only if *)
(* MinNodes nodes have it.                                                 *)
Preserved(r) ==
    /\ info'[r].bundle = info[r].bundle
    /\ Len(info'[r].forwarded_to) >= Len(info[r].forwarded_to)
    /\ r \in Stored' /\ info'[r].retention_constraint = None =>
          \/ info[r].retention_constraint = None
          \/ Len(info'[r].forwarded_to) >= MinNodes

(* Every step treats every object so: of the objects bundle_reception may  *)
(* delete none is in the store yet, and delay_bundle evicts what it frees. *)
LEMMA ObjectStep ==
    ASSUME TypeOK, KeysMatch, QueueFresh, Next, NEW r \in DOMAIN info
    PROVE  Preserved(r)
<1>0. /\ Map(info, Infos, BundleInformations)
      /\ info[r] \in BundleInformations
      /\ Len(info[r].forwarded_to) \in Nat
  BY DEF TypeOK, StorageTypeOK, Map, BundleInformations
<1>1. CASE info'[r] = info[r]
  BY <1>0, <1>1 DEF Preserved
<1>2. CASE UNCHANGED storageVars
  BY <1>1, <1>2 DEF storageVars
<1>3. ASSUME NEW x, NEW h, Receive(x, h), x # r, r \in DOMAIN h, h[r] = info[r]
      PROVE  Preserved(r)
  BY <1>3, <1>1 DEF Receive
<1>4. CASE ReceiveLocal
  <2>1. CASE r = Head(queue)
    <3>1. r \in Range(queue)
      BY <1>4, <2>1 DEF ReceiveLocal, TypeOK, AgentTypeOK, Range
    <3>2. r \notin Stored'
      BY <3>1, <1>4 DEF QueueFresh, ReceiveLocal, Stored
    <3>3. /\ info'[r].bundle = info[r].bundle
          /\ info'[r].forwarded_to = info[r].forwarded_to
      BY <1>4, <1>0 DEF ReceiveLocal, Receive, BundleInformations
    <3> QED BY <1>0, <3>2, <3>3 DEF Preserved
  <2> QED BY <2>1, <1>3, <1>4 DEF ReceiveLocal
<1>5. ASSUME NEW b, NEW a, ReceiveRemote(b, a)
      PROVE  Preserved(r)
  <2>1. NewInfo # r
    BY <1>5, NewInfoFresh DEF ReceiveRemote
  <2> QED BY <2>1, <1>3, <1>5 DEF ReceiveRemote, Put
<1>6. ASSUME info'[r].bundle = info[r].bundle,
             info'[r].forwarded_to = info[r].forwarded_to,
             \/ info'[r].retention_constraint = info[r].retention_constraint
             \/ info'[r].retention_constraint # None
      PROVE  Preserved(r)
  BY <1>0, <1>6 DEF Preserved
<1>6a. CASE BeginDelivery \/ DeliveryRaises
  <2>1. info' = [info EXCEPT ![current].locally_delivered = TRUE]
    BY <1>6a DEF BeginDelivery, DeliveryRaises
  <2> QED BY <2>1, <1>0, <1>6 DEF BundleInformations
<1>6b. CASE BeginForwarding
  <2>1. info' = [info EXCEPT ![current].retention_constraint = "Forward pending"]
    BY <1>6b DEF BeginForwarding
  <2>2. None # "Forward pending"
    BY DataAssumption
  <2> QED BY <2>1, <2>2, <1>0, <1>6 DEF BundleInformations
<1>7. CASE Forwarded
  BY <1>0, <1>7 DEF Forwarded, Success, BundleInformations, Preserved
<1>8. ASSUME NEW n \in targets, NEW sent \in SUBSET UnicastClas, Send(n, sent)
      PROVE  Preserved(r)
  <2> DEFINE more == [i \in 1 .. Cardinality(sent) |-> n]
  <2>1. more \in Seq(Addresses)
    <3>1. Cardinality(sent) \in Nat
      BY RouterAssumption, FS_Subset, FS_CardinalityType
    <3>2. n \in Addresses
      BY DEF TypeOK, RouterTypeOK
    <3> QED BY <3>1, <3>2, ConstantSeq
  <2>2. info' = [info EXCEPT ![current].forwarded_to = @ \o more]
    BY <1>8 DEF Send, SendToNode
  <2> HIDE DEF more
  <2>3. info[r].forwarded_to \in Seq(Addresses)
    BY <1>0 DEF BundleInformations
  <2>4. Len(info[r].forwarded_to \o more) >= Len(info[r].forwarded_to)
    BY <2>1, <2>3
  <2> QED BY <2>2, <2>4, <1>0 DEF BundleInformations, Preserved
<1>9. ASSUME NEW evicted, Delayed(evicted)
      PROVE  Preserved(r)
  <2>1. /\ evicted \subseteq DOMAIN bundles
        /\ r \in Stored' => r \notin {bundles[id] : id \in evicted}
    BY <1>9, DelayedStore
  <2> QED BY <2>1, <1>0, <1>9 DEF Delayed, BundleInformations, Preserved
<1>10. CASE Procedure
  <2>1. CASE Dispatching \/ Deliver \/ CallbackRaises \/ EndDelivery
    BY <2>1, <1>2 DEF Dispatching, Deliver, CallbackRaises, EndDelivery
  <2> QED BY <2>1, <1>6a, <1>6b, <1>7, <1>8, <1>9, <1>10 DEF Procedure
<1>11. CASE Update
  <2>1. CASE RetryOne \/ RetryExhausted \/ NothingLocal \/ NothingRemote
    BY <2>1, <1>2 DEF RetryOne, RetryExhausted, NothingLocal, NothingRemote
  <2>2. CASE Discover \/ DiscoveryRaises
    BY <2>2, <1>1 DEF Discover, DiscoveryRaises, UpdateDiscovery
  <2> QED BY <2>1, <2>2, <1>4, <1>5, <1>10, <1>11 DEF Update, Processing, Poll
<1>12. ASSUME NEW e, NEW destination, NEW anonymous,
              StartTransmission(e, destination, anonymous)
       PROVE  Preserved(r)
  <2>1. NewInfo # r
    BY <1>12, NewInfoFresh DEF StartTransmission, Create
  <2> QED BY <2>1, <1>1, <1>12 DEF StartTransmission, Create, Put
<1>13. CASE Application
  BY <1>1, <1>2, <1>12, <1>13
  DEF Application, CancelTransmission, RegisterEndpoint, RegisterEndpointFails,
      UnregisterEndpoint, RegisterGroupEndpoint, UnregisterGroupEndpoint
<1>14. CASE TimePasses
  BY <1>2, <1>14 DEF TimePasses
<1> QED BY <1>11, <1>13, <1>14 DEF Next

(* Only cancel_transmission and delay_bundle write to the store.           *)
LEMMA StoreWrites ==
    ASSUME Next
    PROVE  \/ UNCHANGED bundles
           \/ \E evicted : Delayed(evicted)
           \/ \E id : RemoveBundle(id)
<1>1. CASE Update
  BY <1>1
  DEF Update, Processing, Poll, Discover, DiscoveryRaises,
      UpdateDiscovery, RetryOne, RetryExhausted, ReceiveLocal, NothingLocal,
      NothingRemote, ReceiveRemote, Procedure, Dispatching, BeginDelivery,
      DeliveryRaises, CallbackRaises, Deliver, EndDelivery, BeginForwarding, Send, Forwarded,
      storageVars
<1>2. CASE Application
  BY <1>2
  DEF Application, StartTransmission, CancelTransmission, RegisterEndpoint,
      RegisterEndpointFails, UnregisterEndpoint, RegisterGroupEndpoint,
      UnregisterGroupEndpoint, storageVars
<1>3. CASE TimePasses
  BY <1>3 DEF TimePasses, storageVars
<1> QED BY <1>1, <1>2, <1>3 DEF Next

(* The object being sent keeps its constraint until the attempt is over.   *)
LEMMA SendingPendingStep ==
    ASSUME TypeOK, SendingPending, Next
    PROVE  SendingPending'
<1>0. /\ Map(info, Infos, BundleInformations)
      /\ stage # "none" => current \in DOMAIN info
      /\ stage = "none" => stage # "sending"
  <2>1. current \in DOMAIN info \union {None} /\ (stage = "none" <=> current = None)
    BY DEF TypeOK, AgentTypeOK
  <2> QED BY <2>1 DEF TypeOK, StorageTypeOK
<1>1. CASE stage' # "sending"
  BY <1>1 DEF SendingPending
<1>2. CASE UNCHANGED <<stage, current, info>>
  BY <1>2 DEF SendingPending
<1>3. CASE BeginForwarding
  <2>1. info[current] \in BundleInformations /\ current \in DOMAIN info
    BY <1>0, <1>3 DEF BeginForwarding, Map
  <2> QED BY <2>1, <1>3 DEF BeginForwarding, GoTo, SendingPending, BundleInformations
<1>4. ASSUME NEW n, NEW sent, Send(n, sent)
      PROVE  SendingPending'
  <2>1. info[current] \in BundleInformations /\ current \in DOMAIN info
    BY <1>0, <1>4 DEF Send, Map
  <2> QED
    BY <2>1, <1>4
    DEF Send, SendToNode, updateVars, SendingPending, BundleInformations
<1>5. CASE Update
  <2>1. CASE Discover \/ DiscoveryRaises
    BY <2>1, <1>1 DEF Discover, DiscoveryRaises, UpdateDiscovery
  <2>2. CASE RetryOne \/ RetryExhausted \/ NothingLocal \/ NothingRemote
    BY <2>2, <1>1
    DEF RetryOne, RetryExhausted, NothingLocal, NothingRemote, Dispatch, Finish
  <2>3. CASE ReceiveLocal
    BY <2>3, <1>1 DEF ReceiveLocal, Receive, Dispatch, Finish
  <2>4. ASSUME NEW b, NEW a, ReceiveRemote(b, a) PROVE stage' # "sending"
    BY <2>4 DEF ReceiveRemote, Receive, Dispatch, Finish
  <2>5. CASE Procedure
    BY <2>5, <1>1, <1>3, <1>4
    DEF Procedure, Dispatching, BeginDelivery, DeliveryRaises, CallbackRaises, Deliver, EndDelivery,
        Forwarded, Delayed, EndForwarding, Finish, GoTo
  <2> QED BY <2>1, <2>2, <2>3, <2>4, <2>5, <1>1, <1>5 DEF Update, Processing, Poll
<1>6. ASSUME NEW e, NEW destination, NEW anonymous,
             StartTransmission(e, destination, anonymous)
      PROVE  SendingPending'
  <2>1. NewInfo \notin DOMAIN info
    BY <1>6, NewInfoFresh DEF StartTransmission, Create
  <2> QED
    BY <2>1, <1>0, <1>6
    DEF StartTransmission, Create, Put, updateVars, SendingPending
<1>7. CASE Application
  BY <1>2, <1>6, <1>7
  DEF Application, CancelTransmission, RegisterEndpoint, RegisterEndpointFails,
      UnregisterEndpoint, RegisterGroupEndpoint, UnregisterGroupEndpoint,
      storageVars, updateVars
<1>8. CASE TimePasses
  BY <1>2, <1>8 DEF TimePasses, storageVars, updateVars
<1> QED BY <1>5, <1>7, <1>8 DEF Next

(* The invariant of the store holds at first, and every step keeps it.     *)
LEMMA StoreInit == Init => StoreInv
<1> SUFFICES ASSUME Init PROVE StoreInv
  OBVIOUS
<1>1. TypeOK
  BY TypeInit
<1>2. KeysMatch /\ SendingPending /\ OnlyForwardedCollected
  BY DEF Init, StorageInit, KeysMatch, SendingPending, OnlyForwardedCollected, Stored
<1>3. QueueFresh
  BY DEF Init, QueueFresh, IsInjective, Range
<1> QED BY <1>1, <1>2, <1>3 DEF StoreInv

(* Every step keeps the invariant of the store. *)
LEMMA StoreStep == StoreInv /\ [Next]_vars => StoreInv'
<1> SUFFICES ASSUME StoreInv, [Next]_vars PROVE StoreInv'
  OBVIOUS
<1> USE DEF StoreInv
<1>1. CASE Next
  <2>1. TypeOK' /\ QueueFresh' /\ SendingPending'
    BY <1>1, TypeStep, QueueFreshStep, SendingPendingStep
  <2>2. \A r \in DOMAIN info : Preserved(r)
    BY <1>1, ObjectStep
  <2>3. \A id \in DOMAIN bundles : bundles[id] \in DOMAIN info
    BY DEF TypeOK, StorageTypeOK, Map
  <2>4. \A r \in DOMAIN info : IdOf(r)' = IdOf(r)
    BY <2>2 DEF Preserved, IdOf
  <2>5. KeysMatch'
    <3>1. CASE UNCHANGED bundles
      BY <3>1, <2>3, <2>4 DEF KeysMatch
    <3>2. ASSUME NEW id, RemoveBundle(id) PROVE KeysMatch'
      BY <3>2, <2>3, <2>4 DEF RemoveBundle, Without, KeysMatch
    <3> QED BY <3>1, <3>2, <1>1, StoreWrites, DelayedStore
  <2>6. ASSUME NEW r \in Stored',
               info'[r].retention_constraint = None
        PROVE  Len(info'[r].forwarded_to) >= MinNodes
    <3>1. r \in DOMAIN info /\ (info[r].retention_constraint = None => r \in Stored)
      <4>1. ASSUME Stored' \subseteq Stored
            PROVE  r \in DOMAIN info /\ r \in Stored
        BY <4>1, <2>3 DEF Stored
      <4>2. ASSUME NEW evicted, Delayed(evicted)
            PROVE  r \in DOMAIN info /\ (info[r].retention_constraint = None => r \in Stored)
        <5>1. Stored' \subseteq Stored \union {current} /\ current \in DOMAIN info
          BY <4>2, DelayedStore
        <5>2. info[current].retention_constraint # None
          BY <4>2, DataAssumption DEF Delayed, EndForwarding, SendingPending
        <5> QED BY <5>1, <5>2, <2>3 DEF Stored
      <4>3. ASSUME NEW id, RemoveBundle(id) PROVE Stored' \subseteq Stored
        BY <4>3 DEF RemoveBundle, Without, Stored
      <4>4. CASE UNCHANGED bundles
        BY <4>1, <4>4 DEF Stored
      <4> QED BY <4>1, <4>2, <4>3, <4>4, <1>1, StoreWrites
    <3>2. Preserved(r)
      BY <2>2, <3>1
    <3>3. CASE info[r].retention_constraint # None
      BY <2>6, <3>2, <3>3 DEF Preserved
    <3>4. CASE info[r].retention_constraint = None
      <4>1. Len(info[r].forwarded_to) >= MinNodes
        BY <3>1, <3>4 DEF OnlyForwardedCollected
      <4>2. Len(info'[r].forwarded_to) >= Len(info[r].forwarded_to)
        BY <3>2 DEF Preserved
      <4>3. Len(info[r].forwarded_to) \in Nat /\ Len(info'[r].forwarded_to) \in Nat
        <5>1. r \in DOMAIN info /\ r \in DOMAIN info'
          BY <3>1, <1>1, HeapStep DEF HeapGrows
        <5> QED BY <5>1, <2>1 DEF TypeOK, StorageTypeOK, Map, BundleInformations
      <4> QED BY <4>1, <4>2, <4>3, RouterAssumption
    <3> QED BY <3>3, <3>4
  <2>7. OnlyForwardedCollected'
    BY <2>6 DEF OnlyForwardedCollected
  <2> QED BY <2>1, <2>5, <2>7
<1>2. CASE UNCHANGED vars
  <2>1. TypeOK'
    BY <1>2, TypeStep
  <2> QED
    BY <1>2, <2>1
    DEF vars, storageVars, routerVars, endpointVars, updateVars, KeysMatch, IdOf,
        QueueFresh, Stored, ToRetry, SendingPending, OnlyForwardedCollected
<1> QED BY <1>1, <1>2

(* Whatever is received, retried, cancelled or evicted meanwhile, garbage  *)
(* collection only ever meets bundles that went to MinNodes nodes: a       *)
(* stored bundle that still waits for a neighbour keeps its constraint.    *)
THEOREM PendingNotCollected == Spec => []OnlyForwardedCollected
<1>1. StoreInv => OnlyForwardedCollected
  BY DEF StoreInv
<1> QED BY <1>1, StoreInit, StoreStep, PTL DEF Spec
-----------------------------------------------------------------------------
(* The configured sizes.                                                   *)

(* A dict grows by at most one key when one is set, and shrinks by one     *)
(* when one of its keys is deleted.                                        *)
LEMMA PutCardinality ==
    ASSUME NEW f, IsFiniteSet(DOMAIN f), NEW x, NEW v
    PROVE  /\ IsFiniteSet(DOMAIN Put(f, x, v))
           /\ Cardinality(DOMAIN Put(f, x, v)) \in Nat
           /\ Cardinality(DOMAIN f) \in Nat
           /\ Cardinality(DOMAIN Put(f, x, v)) <= Cardinality(DOMAIN f) + 1
<1>1. DOMAIN Put(f, x, v) = DOMAIN f \union {x}
  BY DEF Put
<1>2. /\ IsFiniteSet(DOMAIN f \union {x})
      /\ \/ Cardinality(DOMAIN f \union {x}) = Cardinality(DOMAIN f)
         \/ Cardinality(DOMAIN f \union {x}) = Cardinality(DOMAIN f) + 1
  BY FS_AddElement
<1>3. Cardinality(DOMAIN f) \in Nat
  BY FS_CardinalityType
<1> QED BY <1>1, <1>2, <1>3

(* Deleting keys from a dict makes it no larger, and deleting one of its   *)
(* own keys makes it smaller by one.                                       *)
LEMMA WithoutCardinality ==
    ASSUME NEW f, IsFiniteSet(DOMAIN f), NEW K
    PROVE  /\ IsFiniteSet(DOMAIN Without(f, K))
           /\ Cardinality(DOMAIN Without(f, K)) \in Nat
           /\ Cardinality(DOMAIN f) \in Nat
           /\ Cardinality(DOMAIN Without(f, K)) <= Cardinality(DOMAIN f)
           /\ \A x \in DOMAIN f :
                 K = {x} => Cardinality(DOMAIN Without(f, K)) = Cardinality(DOMAIN f) - 1
<1>1. DOMAIN Without(f, K) = DOMAIN f \ K
  BY DEF Without
<1>2. /\ IsFiniteSet(DOMAIN f \ K)
      /\ Cardinality(DOMAIN f \ K) <= Cardinality(DOMAIN f)
  BY FS_Subset
<1>3. Cardinality(DOMAIN f) \in Nat /\ Cardinality(DOMAIN f \ K) \in Nat
  BY <1>2, FS_CardinalityType
<1>4. \A x \in DOMAIN f : Cardinality(DOMAIN f \ {x}) = Cardinality(DOMAIN f) - 1
  BY FS_RemoveElement
<1> QED BY <1>1, <1>2, <1>3, <1>4

BoundedInv == TypeOK /\ FiniteTables /\ Bounded

(* store_seen drops an id before it adds one to a full table.              *)
LEMMA StoreSeenBounded ==
    ASSUME BoundedInv, NEW id, NEW address, StoreSeen(id, address)
    PROVE  /\ IsFiniteSet(DOMAIN bundle_ids')
           /\ Cardinality(DOMAIN bundle_ids') <= MaxKnown
<1>0. /\ IsFiniteSet(DOMAIN bundle_ids)
      /\ Cardinality(DOMAIN bundle_ids) <= MaxKnown
      /\ MaxKnown \in Nat
  BY StorageAssumption DEF BoundedInv, FiniteTables, Bounded
<1>1. CASE UNCHANGED bundle_ids
  BY <1>0, <1>1
<1>2. CASE /\ Cardinality(DOMAIN bundle_ids) < MaxKnown
           /\ bundle_ids' = Put(bundle_ids, id, address)
  BY <1>0, <1>2, PutCardinality
<1>3. ASSUME NEW oldest \in OldestBundleIds(DOMAIN bundle_ids),
             bundle_ids' = Put(Without(bundle_ids, {oldest}), id, address)
      PROVE  /\ IsFiniteSet(DOMAIN bundle_ids')
             /\ Cardinality(DOMAIN bundle_ids') <= MaxKnown
  <2> DEFINE rest == Without(bundle_ids, {oldest})
  <2>1. oldest \in DOMAIN bundle_ids
    BY DEF OldestBundleIds
  <2>2. /\ IsFiniteSet(DOMAIN rest)
        /\ Cardinality(DOMAIN rest) = Cardinality(DOMAIN bundle_ids) - 1
    BY <2>1, <1>0, WithoutCardinality
  <2>3. Cardinality(DOMAIN bundle_ids) \in Nat
    BY <1>0, FS_CardinalityType
  <2>4. bundle_ids' = Put(rest, id, address)
    BY <1>3
  <2> HIDE DEF rest
  <2>5. /\ IsFiniteSet(DOMAIN bundle_ids')
        /\ Cardinality(DOMAIN bundle_ids') \in Nat
        /\ Cardinality(DOMAIN bundle_ids') <= Cardinality(DOMAIN rest) + 1
    BY <2>2, <2>4, PutCardinality
  <2> QED BY <1>0, <2>2, <2>3, <2>5
<1> QED BY <1>1, <1>2, <1>3 DEF StoreSeen

(* delay_bundle adds to a store that is not full, after collecting and, if *)
(* that was not enough, evicting.                                          *)
LEMMA DelayBounded ==
    ASSUME BoundedInv, NEW r, NEW evicted \in Evictions
    PROVE  LET store == Put(Without(Kept, evicted), IdOf(r), r)
           IN  IsFiniteSet(DOMAIN store) /\ Cardinality(DOMAIN store) <= MaxStored
<1> DEFINE left == Without(Kept, evicted)
<1>0. /\ IsFiniteSet(DOMAIN bundles)
      /\ Cardinality(DOMAIN bundles) <= MaxStored
      /\ MaxStored \in Nat
  BY StorageAssumption DEF BoundedInv, FiniteTables, Bounded
<1>1. /\ IsFiniteSet(DOMAIN Kept) /\ Cardinality(DOMAIN Kept) \in Nat
      /\ Cardinality(DOMAIN Kept) <= MaxStored
  <2>1. CASE Full(bundles)
    <3>1. Kept = Without(bundles, Collectable)
      BY <2>1 DEF Kept
    <3> QED BY <3>1, <1>0, WithoutCardinality
  <2>2. CASE ~ Full(bundles)
    BY <2>2, <1>0, FS_CardinalityType DEF Kept
  <2> QED BY <2>1, <2>2
<1>2. /\ IsFiniteSet(DOMAIN left) /\ Cardinality(DOMAIN left) \in Nat
      /\ Cardinality(DOMAIN left) < MaxStored
  <2>1. CASE Full(Kept)
    <3>1. PICK id \in DOMAIN Kept : evicted = {id}
      BY <2>1 DEF Evictions, OldestStored
    <3>2. Cardinality(DOMAIN left) = Cardinality(DOMAIN Kept) - 1
      BY <3>1, <1>1, WithoutCardinality
    <3>3. IsFiniteSet(DOMAIN left) /\ Cardinality(DOMAIN left) \in Nat
      BY <1>1, WithoutCardinality
    <3> HIDE DEF left
    <3> QED BY <3>2, <3>3, <1>0, <1>1
  <2>2. CASE ~ Full(Kept)
    <3>1. /\ IsFiniteSet(DOMAIN left) /\ Cardinality(DOMAIN left) \in Nat
          /\ Cardinality(DOMAIN left) <= Cardinality(DOMAIN Kept)
      BY <1>1, WithoutCardinality
    <3>2. Cardinality(DOMAIN Kept) < MaxStored
      BY <2>2, <1>0, <1>1 DEF Full
    <3> HIDE DEF left
    <3> QED BY <3>1, <3>2, <1>0, <1>1
  <2> QED BY <2>1, <2>2
<1> HIDE DEF left
<1>3. /\ IsFiniteSet(DOMAIN Put(left, IdOf(r), r))
      /\ Cardinality(DOMAIN Put(left, IdOf(r), r)) \in Nat
      /\ Cardinality(DOMAIN Put(left, IdOf(r), r)) <= Cardinality(DOMAIN left) + 1
  BY <1>2, PutCardinality
<1> QED BY <1>0, <1>2, <1>3 DEF left

(* Only the poll generator and delay_bundle write to the table of seen ids. *)
LEMMA SeenWrites ==
    ASSUME Next
    PROVE  \/ UNCHANGED bundle_ids
           \/ \E id, address : StoreSeen(id, address)
<1>1. ASSUME NEW evicted, Delayed(evicted)
      PROVE  UNCHANGED bundle_ids \/ StoreSeen(IdOf(current), None)
  BY <1>1 DEF Delayed, DelayBundle
<1>2. CASE Update
  BY <1>1, <1>2
  DEF Update, Processing, Poll, Discover, DiscoveryRaises,
      UpdateDiscovery, RetryOne, RetryExhausted, ReceiveLocal, NothingLocal,
      NothingRemote, ReceiveRemote, Procedure, Dispatching, BeginDelivery,
      DeliveryRaises, CallbackRaises, Deliver, EndDelivery, BeginForwarding, Send, Forwarded,
      storageVars
<1>3. CASE Application
  BY <1>3
  DEF Application, StartTransmission, CancelTransmission, RegisterEndpoint,
      RegisterEndpointFails, UnregisterEndpoint, RegisterGroupEndpoint,
      UnregisterGroupEndpoint, storageVars
<1>4. CASE TimePasses
  BY <1>4 DEF TimePasses, storageVars
<1> QED BY <1>2, <1>3, <1>4 DEF Next

(* The tables are empty at first.                                          *)
LEMMA BoundedInit == Init => BoundedInv
<1> SUFFICES ASSUME Init PROVE BoundedInv
  OBVIOUS
<1>1. DOMAIN bundles = {} /\ DOMAIN bundle_ids = {}
  BY DEF Init, StorageInit
<1>2. IsFiniteSet({}) /\ Cardinality({}) = 0
  BY FS_EmptySet
<1> QED BY <1>1, <1>2, TypeInit, StorageAssumption DEF BoundedInv, FiniteTables, Bounded

(* Every step keeps the tables finite and within their sizes.              *)
LEMMA BoundedStep == BoundedInv /\ [Next]_vars => BoundedInv'
<1> SUFFICES ASSUME BoundedInv, [Next]_vars PROVE BoundedInv'
  OBVIOUS
<1>0. /\ TypeOK'
      /\ IsFiniteSet(DOMAIN bundles) /\ IsFiniteSet(DOMAIN bundle_ids)
      /\ Cardinality(DOMAIN bundles) <= MaxStored
      /\ Cardinality(DOMAIN bundle_ids) <= MaxKnown
  BY TypeStep DEF BoundedInv, FiniteTables, Bounded
<1>1. CASE Next
  <2>1. IsFiniteSet(DOMAIN bundle_ids') /\ Cardinality(DOMAIN bundle_ids') <= MaxKnown
    BY <1>0, <1>1, SeenWrites, StoreSeenBounded
  <2>2. IsFiniteSet(DOMAIN bundles') /\ Cardinality(DOMAIN bundles') <= MaxStored
    <3>1. CASE UNCHANGED bundles
      BY <3>1, <1>0
    <3>2. ASSUME NEW evicted, Delayed(evicted)
          PROVE  IsFiniteSet(DOMAIN bundles') /\ Cardinality(DOMAIN bundles') <= MaxStored
      BY <3>1, <3>2, DelayBounded DEF Delayed, DelayBundle
    <3>3. ASSUME NEW id, RemoveBundle(id)
          PROVE  IsFiniteSet(DOMAIN bundles') /\ Cardinality(DOMAIN bundles') <= MaxStored
      <4>1. /\ IsFiniteSet(DOMAIN bundles') /\ Cardinality(DOMAIN bundles') \in Nat
            /\ Cardinality(DOMAIN bundles) \in Nat
            /\ Cardinality(DOMAIN bundles') <= Cardinality(DOMAIN bundles)
        BY <3>3, <1>0, WithoutCardinality DEF RemoveBundle
      <4> QED BY <4>1, <1>0, StorageAssumption
    <3> QED BY <3>1, <3>2, <3>3, <1>1, StoreWrites
  <2> QED BY <1>0, <2>1, <2>2 DEF BoundedInv, FiniteTables, Bounded
<1>2. CASE UNCHANGED vars
  BY <1>0, <1>2 DEF vars, storageVars, BoundedInv, FiniteTables, Bounded
<1> QED BY <1>1, <1>2

(* However many bundles arrive and whatever the sizes, the store never     *)
(* holds more than MaxStored bundles nor the table of seen ids more than   *)
(* MaxKnown: delay_bundle and store_seen make room before they add.        *)
THEOREM TablesBounded == Spec => []Bounded
<1>1. BoundedInv => Bounded
  BY DEF BoundedInv
<1> QED BY <1>1, BoundedInit, BoundedStep, PTL DEF Spec
-----------------------------------------------------------------------------
(* What leaves the store.                                                  *)

(* delay_bundle collects what was forwarded and, if nothing was, evicts    *)
(* what was received first.                                                *)
LEMMA DelayedLeaves ==
    ASSUME StoreInv, BoundedInv, NEW evicted, Delayed(evicted),
           NEW id \in DOMAIN bundles \ DOMAIN bundles'
    PROVE  LET r == bundles[id]
           IN  \/ Len(info[r].forwarded_to) >= MinNodes
               \/ /\ Cardinality(DOMAIN bundles) = MaxStored
                  /\ \A s \in Stored :
                       /\ info[s].retention_constraint # None
                       /\ info[r].received_at <= info[s].received_at
<1>1. /\ evicted \in Evictions
      /\ bundles' = Put(Without(Kept, evicted), IdOf(current), current)
  BY DEF Delayed, DelayBundle
<1>2. CASE id \notin DOMAIN Kept
  <2>1. id \in Collectable
    BY <1>2 DEF Kept, Without
  <2> QED BY <2>1 DEF Collectable, StoreInv, OnlyForwardedCollected, Stored
<1>3. CASE id \in DOMAIN Kept
  <2>1. id \in evicted
    BY <1>1, <1>3 DEF Put, Without
  <2>2. Full(Kept) /\ id \in OldestStored(Kept)
    BY <1>1, <2>1 DEF Evictions
  <2>3. /\ DOMAIN Kept \subseteq DOMAIN bundles
        /\ \A k \in DOMAIN Kept : Kept[k] = bundles[k]
    BY DEF Kept, Without
  <2>4. /\ IsFiniteSet(DOMAIN bundles)
        /\ Cardinality(DOMAIN bundles) \in Nat /\ MaxStored \in Nat
        /\ Cardinality(DOMAIN bundles) <= MaxStored
    BY StorageAssumption, FS_CardinalityType DEF BoundedInv, FiniteTables, Bounded
  <2>5. /\ Cardinality(DOMAIN Kept) \in Nat
        /\ Cardinality(DOMAIN Kept) <= Cardinality(DOMAIN bundles)
        /\ Cardinality(DOMAIN bundles) = Cardinality(DOMAIN Kept)
              => DOMAIN bundles = DOMAIN Kept
    <3>1. IsFiniteSet(DOMAIN Kept)
      BY <2>3, <2>4, FS_Subset
    <3> QED BY <2>3, <2>4, <3>1, FS_Subset, FS_CardinalityType
  <2>6. Cardinality(DOMAIN bundles) = MaxStored /\ DOMAIN Kept = DOMAIN bundles
    BY <2>2, <2>4, <2>5 DEF Full
  <2>7. Collectable = {}
    <3>1. Full(bundles)
      BY <2>4, <2>6 DEF Full
    <3> QED BY <2>6, <3>1 DEF Kept, Without, Collectable
  <2>8. ASSUME NEW k \in DOMAIN bundles
        PROVE  /\ info[bundles[k]].retention_constraint # None
               /\ info[bundles[id]].received_at <= info[bundles[k]].received_at
    BY <2>2, <2>3, <2>6, <2>7, <2>8 DEF Collectable, OldestStored
  <2> QED BY <2>6, <2>8 DEF Stored
<1> QED BY <1>2, <1>3

(* Whatever the sizes and the traffic, a bundle leaves the store only when *)
(* it was forwarded to MinNodes nodes, was cancelled, or was the first     *)
(* received in a store full of bundles that still wait.                    *)
THEOREM PendingLeaveRightly == Spec => PendingLeavesStoreRightly
<1>1. ASSUME StoreInv, BoundedInv, [Next]_vars
      PROVE  [LeavesStore]_vars
  <2>1. CASE UNCHANGED vars
    BY <2>1
  <2>2. CASE Next
    <3> SUFFICES ASSUME NEW id \in DOMAIN bundles \ DOMAIN bundles'
                 PROVE  LET r == bundles[id]
                        IN  \/ Len(info[r].forwarded_to) >= MinNodes
                            \/ id \in cancelled'
                            \/ /\ Cardinality(DOMAIN bundles) = MaxStored
                               /\ \A s \in Stored :
                                    /\ info[s].retention_constraint # None
                                    /\ info[r].received_at <= info[s].received_at
      BY DEF LeavesStore
    <3>1. \/ \E evicted : Delayed(evicted)
          \/ \E e, r : CancelTransmission(e, r)
      BY <2>2
      DEF Next, Update, Processing, Poll, Discover, DiscoveryRaises,
          UpdateDiscovery, RetryOne, RetryExhausted, ReceiveLocal, NothingLocal,
          NothingRemote, ReceiveRemote, Procedure, Dispatching, BeginDelivery,
          DeliveryRaises, CallbackRaises, Deliver, EndDelivery, BeginForwarding, Send, Forwarded,
          Application, StartTransmission, RegisterEndpoint, RegisterEndpointFails,
          UnregisterEndpoint, RegisterGroupEndpoint, UnregisterGroupEndpoint,
          TimePasses, storageVars
    <3>2. ASSUME NEW e, NEW r, CancelTransmission(e, r)
          PROVE  id \in cancelled'
      BY <3>2 DEF CancelTransmission, RemoveBundle, Without
    <3> QED BY <3>1, <3>2, <1>1, DelayedLeaves
  <2> QED BY <1>1, <2>1, <2>2
<1>2. Init => BoundedInv
  BY BoundedInit
<1> QED
  BY <1>1, <1>2, StoreInit, StoreStep, BoundedStep, PTL
  DEF Spec, PendingLeavesStoreRightly
-----------------------------------------------------------------------------
(* The nodes a bundle was sent to.                                         *)

(* Only a turn of the router's loop extends the list of an object; a new   *)
(* object's list names at most the node it came from.                      *)
LEMMA ListsOfNodes ==
    ASSUME TypeOK, Next, NEW r \in DOMAIN info',
           ~ \E n \in targets, sent \in SUBSET UnicastClas : Send(n, sent)
    PROVE  IF r \in DOMAIN info
           THEN info'[r].forwarded_to = info[r].forwarded_to
           ELSE info'[r].forwarded_to = << >> \/ \E a : info'[r].forwarded_to = <<a>>
<1> DEFINE Goal == IF r \in DOMAIN info
                   THEN info'[r].forwarded_to = info[r].forwarded_to
                   ELSE \/ info'[r].forwarded_to = << >>
                        \/ \E a : info'[r].forwarded_to = <<a>>
<1> SUFFICES Goal
  OBVIOUS
<1>0. /\ Map(info, Infos, BundleInformations)
      /\ r \in DOMAIN info => info[r] \in BundleInformations
  BY DEF TypeOK, StorageTypeOK, Map
<1>1. CASE UNCHANGED info
  BY <1>1
<1>2. CASE UNCHANGED storageVars
  BY <1>1, <1>2 DEF storageVars
<1>3. ASSUME NEW x, NEW h, Receive(x, h), r \in DOMAIN h => h[r] \in BundleInformations
      PROVE  r \in DOMAIN h /\ info'[r].forwarded_to = h[r].forwarded_to
  BY <1>3 DEF Receive, BundleInformations
<1>4. CASE ReceiveLocal
  BY <1>0, <1>3, <1>4 DEF ReceiveLocal
<1>5. ASSUME NEW b \in RemoteBundles \union Echoes, NEW a \in Addresses \union {None},
             ReceiveRemote(b, a)
      PROVE  Goal
  <2> DEFINE heap == Put(info, NewInfo, PolledInformation(b, a, clock))
  <2>1. PolledInformation(b, a, clock) \in BundleInformations
    BY ArrivalType, PolledType DEF TypeOK, EndpointTypeOK
  <2>2. r \in DOMAIN heap => heap[r] \in BundleInformations
    BY <1>0, <2>1 DEF Put
  <2>3. Receive(NewInfo, heap)
    BY <1>5 DEF ReceiveRemote
  <2>4. r \in DOMAIN heap /\ info'[r].forwarded_to = heap[r].forwarded_to
    <3> HIDE DEF heap
    <3> QED BY <2>2, <2>3, <1>3
  <2>5. NewInfo \notin DOMAIN info
    BY <1>5, NewInfoFresh DEF ReceiveRemote
  <2>6. CASE r \in DOMAIN info
    BY <2>4, <2>5, <2>6 DEF Put
  <2>7. CASE r \notin DOMAIN info
    <3>1. heap[r] = PolledInformation(b, a, clock)
      BY <2>4, <2>7 DEF Put
    <3>2. \/ PolledInformation(b, a, clock).forwarded_to = << >>
          \/ PolledInformation(b, a, clock).forwarded_to = <<a>>
      BY DEF PolledInformation, NewBundleInformation
    <3> QED BY <3>1, <3>2, <2>4, <2>7
  <2> QED BY <2>6, <2>7
<1>6. CASE BeginDelivery \/ DeliveryRaises
  BY <1>0, <1>6 DEF BeginDelivery, DeliveryRaises, CallbackRaises, BundleInformations
<1>7. CASE BeginForwarding \/ Forwarded
  BY <1>0, <1>7 DEF BeginForwarding, Forwarded, BundleInformations
<1>8. ASSUME NEW evicted, Delayed(evicted)
      PROVE  Goal
  BY <1>0, <1>8 DEF Delayed, BundleInformations
<1>9. CASE Procedure
  <2>1. CASE Dispatching \/ Deliver \/ CallbackRaises \/ EndDelivery
    BY <2>1, <1>2 DEF Dispatching, Deliver, CallbackRaises, EndDelivery
  <2> QED BY <2>1, <1>6, <1>7, <1>8, <1>9 DEF Procedure
<1>10. CASE Update
  <2>1. CASE RetryOne \/ RetryExhausted \/ NothingLocal \/ NothingRemote
    BY <2>1, <1>2 DEF RetryOne, RetryExhausted, NothingLocal, NothingRemote
  <2>2. CASE Discover \/ DiscoveryRaises
    BY <2>2, <1>1 DEF Discover, DiscoveryRaises, UpdateDiscovery
  <2> QED BY <2>1, <2>2, <1>4, <1>5, <1>9, <1>10 DEF Update, Processing, Poll
<1>11. ASSUME NEW e, NEW destination, NEW anonymous,
              StartTransmission(e, destination, anonymous)
       PROVE  Goal
  <2>1. NewInfo \notin DOMAIN info
    BY <1>11, NewInfoFresh DEF StartTransmission, Create
  <2> QED
    BY <2>1, <1>11 DEF StartTransmission, Create, Put, NewBundleInformation
<1>12. CASE Application
  BY <1>1, <1>2, <1>11, <1>12
  DEF Application, CancelTransmission, RegisterEndpoint, RegisterEndpointFails,
      UnregisterEndpoint, RegisterGroupEndpoint, UnregisterGroupEndpoint
<1>13. CASE TimePasses
  BY <1>2, <1>13 DEF TimePasses
<1> QED BY <1>10, <1>12, <1>13 DEF Next

SentInv == TypeOK /\ TargetsNew /\ SentOncePerNode

(* A turn of the loop takes its node off targets and, with one layer,      *)
(* enters it in the list at most once.                                     *)
LEMMA SendOnce ==
    ASSUME Cardinality(UnicastClas) <= 1, SentInv,
           NEW n \in targets, NEW sent \in SUBSET UnicastClas, Send(n, sent)
    PROVE  TargetsNew' /\ SentOncePerNode'
<1> DEFINE more == [i \in 1 .. Cardinality(sent) |-> n]
           old == info[current].forwarded_to
<1>1. /\ current \in DOMAIN info /\ stage = "sending" /\ n \in Addresses
      /\ info[current] \in BundleInformations
      /\ \A r \in DOMAIN info : info[r] \in BundleInformations
  BY DEF Send, SentInv, TypeOK, AgentTypeOK, RouterTypeOK, StorageTypeOK, Map
<1>2. old \in Seq(Addresses) /\ IsInjective(old) /\ n \notin Range(old)
  BY <1>1 DEF BundleInformations, SentInv, TargetsNew, SentOncePerNode, ForwardedTo
<1>3. Cardinality(sent) \in Nat /\ Cardinality(sent) <= 1
  <2>1. IsFiniteSet(sent) /\ Cardinality(sent) <= Cardinality(UnicastClas)
    BY RouterAssumption, FS_Subset
  <2>2. Cardinality(sent) \in Nat /\ Cardinality(UnicastClas) \in Nat
    BY <2>1, RouterAssumption, FS_CardinalityType
  <2> QED BY <2>1, <2>2
<1>4. more = << >> \/ more = <<n>>
  BY <1>3
<1>5. info' = [info EXCEPT ![current].forwarded_to = @ \o more]
  BY DEF Send, SendToNode
<1> HIDE DEF more
<1>6. /\ DOMAIN info' = DOMAIN info
      /\ info'[current].forwarded_to = old \o more
      /\ \A r \in DOMAIN info \ {current} : info'[r] = info[r]
  BY <1>1, <1>5 DEF BundleInformations
<1>7. IsInjective(old \o more) /\ Range(old \o more) \subseteq Range(old) \union {n}
  <2> HIDE DEF old
  <2>1. CASE more = << >>
    BY <2>1, <1>2
  <2>2. CASE more = <<n>>
    <3>1. /\ DOMAIN old = 1 .. Len(old) /\ Len(old) \in Nat
          /\ DOMAIN (old \o <<n>>) = 1 .. Len(old) + 1
          /\ \A i \in 1 .. Len(old) : (old \o <<n>>)[i] = old[i]
          /\ (old \o <<n>>)[Len(old) + 1] = n
      BY <1>1, <1>2
    <3>2. \A i \in 1 .. Len(old) : old[i] # n
      BY <3>1, <1>2 DEF Range
    <3>3. IsInjective(old \o <<n>>)
      BY <3>1, <3>2, <1>2 DEF IsInjective
    <3>4. Range(old \o <<n>>) \subseteq Range(old) \union {n}
      BY <3>1 DEF Range
    <3> QED BY <3>3, <3>4, <2>2
  <2> QED BY <2>1, <2>2, <1>4
<1>8. SentOncePerNode'
  BY <1>6, <1>7 DEF SentInv, SentOncePerNode
<1>9. TargetsNew'
  <2>1. targets' = targets \ {n} /\ stage' = "sending" /\ current' = current
    BY <1>1 DEF Send, SendToNode, updateVars
  <2> QED BY <2>1, <1>1, <1>2, <1>6, <1>7 DEF SentInv, TargetsNew, ForwardedTo
<1> QED BY <1>8, <1>9

(* The nodes still to be visited are not on the list: they are chosen so,  *)
(* and only the turns of the loop change either.                           *)
LEMMA TargetsStep ==
    ASSUME TypeOK, TargetsNew, Next,
           ~ \E n \in targets, sent \in SUBSET UnicastClas : Send(n, sent)
    PROVE  TargetsNew'
<1>0. /\ current \in DOMAIN info \union {None}
      /\ stage # "none" => current \in DOMAIN info
      /\ \A r \in DOMAIN info : r \in DOMAIN info' /\ ForwardedTo(r)' = ForwardedTo(r)
  <2>1. \A r \in DOMAIN info : r \in DOMAIN info'
    BY HeapStep DEF HeapGrows
  <2> QED BY <2>1, ListsOfNodes DEF TypeOK, AgentTypeOK, ForwardedTo
<1>1. CASE targets' = {} /\ stage' # "sending"
  BY <1>1 DEF TargetsNew
<1>2. CASE UNCHANGED targets /\ stage # "sending" /\ stage' # "sending"
  BY <1>2 DEF TargetsNew
<1>3. CASE UNCHANGED <<targets, stage, current>>
  BY <1>0, <1>3 DEF TargetsNew
<1>4. CASE BeginForwarding
  <2>1. targets' = DOMAIN nodes \ ForwardedTo(current) /\ stage' = "sending"
        /\ current' = current /\ current \in DOMAIN info
    BY <1>0, <1>4 DEF BeginForwarding, BeginForwardingAttempt, GoTo
  <2> QED BY <2>1, <1>0 DEF TargetsNew
<1>5. CASE Update
  <2>1. CASE \/ Discover \/ DiscoveryRaises \/ RetryOne \/ RetryExhausted \/ ReceiveLocal
             \/ NothingLocal \/ NothingRemote
    BY <2>1, <1>2
    DEF Discover, DiscoveryRaises, UpdateDiscovery,
        RetryOne, RetryExhausted, ReceiveLocal, NothingLocal,
        NothingRemote, Receive, Dispatch, Finish, routerVars
  <2>2. ASSUME NEW b, NEW a, ReceiveRemote(b, a) PROVE TargetsNew'
    BY <2>2, <1>2 DEF ReceiveRemote, Receive, Dispatch, Finish, routerVars
  <2>3. CASE Procedure
    BY <2>3, <1>1, <1>2, <1>3, <1>4
    DEF Procedure, Dispatching, BeginDelivery, DeliveryRaises, CallbackRaises, Deliver, EndDelivery,
        Forwarded, Delayed, EndForwarding, Finish, GoTo, routerVars
  <2> QED BY <2>1, <2>2, <2>3, <1>5 DEF Update, Processing, Poll
<1>6. CASE Application
  BY <1>3, <1>6
  DEF Application, StartTransmission, CancelTransmission, RegisterEndpoint,
      RegisterEndpointFails, UnregisterEndpoint, RegisterGroupEndpoint,
      UnregisterGroupEndpoint, routerVars, updateVars
<1>7. CASE TimePasses
  BY <1>3, <1>7 DEF TimePasses, routerVars, updateVars
<1> QED BY <1>5, <1>6, <1>7 DEF Next

(* With one unicast layer every step keeps the lists free of repetitions.  *)
LEMMA SentStep ==
    ASSUME Cardinality(UnicastClas) <= 1
    PROVE  SentInv /\ [Next]_vars => SentInv'
<1> SUFFICES ASSUME SentInv, [Next]_vars PROVE SentInv'
  OBVIOUS
<1>0. TypeOK'
  BY TypeStep DEF SentInv
<1>1. CASE \E n \in targets, sent \in SUBSET UnicastClas : Send(n, sent)
  BY <1>0, <1>1, SendOnce DEF SentInv
<1>2. CASE Next /\ ~ \E n \in targets, sent \in SUBSET UnicastClas : Send(n, sent)
  <2>1. TargetsNew'
    BY <1>2, TargetsStep DEF SentInv
  <2>2. ASSUME NEW r \in DOMAIN info' PROVE IsInjective(info'[r].forwarded_to)
    <3>1. CASE r \in DOMAIN info
      BY <3>1, <1>2, ListsOfNodes DEF SentInv, SentOncePerNode
    <3>2. CASE r \notin DOMAIN info
      <4>1. info'[r].forwarded_to = << >> \/ \E a : info'[r].forwarded_to = <<a>>
        BY <3>2, <1>2, ListsOfNodes DEF SentInv
      <4> QED BY <4>1 DEF IsInjective
    <3> QED BY <3>1, <3>2
  <2> QED BY <1>0, <2>1, <2>2 DEF SentInv, SentOncePerNode
<1>3. CASE UNCHANGED vars
  BY <1>0, <1>3
  DEF vars, storageVars, routerVars, updateVars, SentInv, TargetsNew, ForwardedTo,
      SentOncePerNode
<1> QED BY <1>1, <1>2, <1>3

(* On a node with a single unicast layer, whatever is discovered while a   *)
(* bundle is sent and however often it is retried, the router never enters *)
(* a neighbour twice in the bundle's list, so it sends the bundle to each  *)
(* neighbour at most once and MinNodes counts nodes.                       *)
THEOREM NodesSentOnce ==
    ASSUME Cardinality(UnicastClas) <= 1
    PROVE  Spec => []SentOncePerNode
<1>1. Init => SentInv
  <2> SUFFICES ASSUME Init PROVE SentInv
    OBVIOUS
  <2> QED
    BY TypeInit
    DEF Init, StorageInit, RouterInit, SentInv, TargetsNew, SentOncePerNode
<1>2. SentInv /\ [Next]_vars => SentInv'
  BY SentStep
<1>3. SentInv => SentOncePerNode
  BY DEF SentInv
<1> QED BY <1>1, <1>2, <1>3, PTL DEF Spec
=============================================================================
