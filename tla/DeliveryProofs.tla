--------------------------- MODULE DeliveryProofs ---------------------------
(***************************************************************************)
(* More of what TLAPS proves of BundleProtocolAgent: the registrations fit *)
(* what the delivery loop expects of them, an endpoint is handed a bundle  *)
(* once, and exceptions lose nothing but what was marked as delivered.     *)
(***************************************************************************)
EXTENDS BundleProtocolAgentProofs

(* list.remove leaves no element that was not in the list. *)
LEMMA RemoveFirstRange ==
    ASSUME NEW S, NEW s \in Seq(S), NEW x, x \in Range(s)
    PROVE  Range(RemoveFirst(s, x)) \subseteq Range(s)
<1>1. s \in Seq(Range(s))
  BY DEF Range
<1>2. RemoveFirst(s, x) \in Seq(Range(s))
  BY <1>1, RemoveFirstType
<1> QED BY <1>2 DEF Range

(* A list that grows by one element. *)
LEMMA AppendRange ==
    ASSUME NEW S, NEW s \in Seq(S), NEW x
    PROVE  Range(Append(s, x)) \subseteq Range(s) \union {x}
<1> SUFFICES ASSUME NEW i \in 1 .. Len(s) + 1
             PROVE  Append(s, x)[i] \in Range(s) \union {x}
  BY DEF Range
<1> QED BY DEF Range

(* The members of a list that is registered are endpoints of its URI. *)
RegisteredAt(uri, members) ==
    /\ members # << >>
    /\ uri \notin GroupUris => Len(members) = 1
    /\ \A e \in Range(members) : Uri[e] = uri

(* Every step keeps the registrations in order: a group's list leaves the  *)
(* table when its last member does.                                        *)
LEMMA RegistrationsStep ==
    ASSUME TypeOK, RegistrationsMatch, Next
    PROVE  RegistrationsMatch'
<1> DEFINE Members == Seq(Endpoints \union GroupEndpoints)
<1>0. Map(registered, Uris, Members)
  BY DEF TypeOK, AgentTypeOK
<1>1. CASE UNCHANGED registered
  BY <1>1 DEF RegistrationsMatch
<1>2. ASSUME NEW uri, NEW members, RegisteredAt(uri, members),
             registered' = Put(registered, uri, members)
      PROVE  RegistrationsMatch'
  BY <1>2 DEF RegistrationsMatch, RegisteredAt, Put
<1>3. ASSUME NEW uris, registered' = Without(registered, uris)
      PROVE  RegistrationsMatch'
  BY <1>3 DEF RegistrationsMatch, Without
<1>4. ASSUME NEW e \in Endpoints, RegisterEndpoint(e)
      PROVE  RegistrationsMatch'
  <2>1. RegisteredAt(Uri[e], <<e>>)
    BY DEF RegisteredAt, Range
  <2> QED BY <2>1, <1>2, <1>4 DEF RegisterEndpoint
<1>5. ASSUME NEW e \in Endpoints, UnregisterEndpoint(e)
      PROVE  RegistrationsMatch'
  BY <1>3, <1>5 DEF UnregisterEndpoint
<1>6. ASSUME NEW g \in GroupEndpoints, RegisterGroupEndpoint(g)
      PROVE  RegistrationsMatch'
  <2>1. Uri[g] \in GroupUris
    BY DEF GroupUris
  <2>2. CASE Uri[g] \in DOMAIN registered
    <3>1. /\ registered[Uri[g]] \in Members
          /\ \A e \in Range(registered[Uri[g]]) : Uri[e] = Uri[g]
      BY <1>0, <2>2 DEF RegistrationsMatch, Map
    <3>2. Append(registered[Uri[g]], g) # << >>
      BY <3>1
    <3>3. RegisteredAt(Uri[g], Append(registered[Uri[g]], g))
      BY <2>1, <3>1, <3>2, AppendRange DEF RegisteredAt
    <3> QED BY <2>2, <3>3, <1>2, <1>6 DEF RegisterGroupEndpoint
  <2>3. CASE Uri[g] \notin DOMAIN registered
    <3>1. RegisteredAt(Uri[g], <<g>>)
      BY <2>1 DEF RegisteredAt, Range
    <3> QED BY <2>3, <3>1, <1>2, <1>6 DEF RegisterGroupEndpoint
  <2> QED BY <2>2, <2>3
<1>7. ASSUME NEW g \in GroupEndpoints, UnregisterGroupEndpoint(g)
      PROVE  RegistrationsMatch'
  <2> DEFINE members == RemoveFirst(registered[Uri[g]], g)
  <2>1. /\ registered[Uri[g]] \in Members /\ g \in Range(registered[Uri[g]])
        /\ \A e \in Range(registered[Uri[g]]) : Uri[e] = Uri[g]
    BY <1>0, <1>7 DEF UnregisterGroupEndpoint, RegistrationsMatch, Map
  <2>2. \A e \in Range(members) : Uri[e] = Uri[g]
    BY <2>1, RemoveFirstRange
  <2>3. IF members = << >> THEN registered' = Without(registered, {Uri[g]})
                           ELSE registered' = Put(registered, Uri[g], members)
    BY <1>7 DEF UnregisterGroupEndpoint
  <2> HIDE DEF members
  <2>4. members # << >> => RegisteredAt(Uri[g], members)
    BY <2>2 DEF RegisteredAt, GroupUris
  <2> QED BY <2>3, <2>4, <1>2, <1>3
<1>8. CASE Update \/ TimePasses
  BY <1>1, <1>8
  DEF Update, Processing, Poll, TimePasses, Discover, DiscoveryRaises,
      UpdateDiscovery, RetryOne, RetryExhausted, ReceiveLocal, NothingLocal,
      NothingRemote, ReceiveRemote, Procedure, Dispatching, BeginDelivery, DeliveryRaises,
      CallbackRaises, Deliver, EndDelivery, BeginForwarding, Send, Forwarded, Delayed
<1>9. CASE Application
  BY <1>1, <1>4, <1>5, <1>6, <1>7, <1>9
  DEF Application, StartTransmission, CancelTransmission, RegisterEndpointFails
<1> QED BY <1>8, <1>9 DEF Next

(* A unicast URI has one registration, a group's at least one, and all are *)
(* endpoints of that URI, whatever is registered, refused or unregistered  *)
(* and in whatever order: unregister_endpoint's [0] is the endpoint.       *)
THEOREM RegistrationsKept == Spec => []RegistrationsMatch
<1>1. Init => RegistrationsMatch
  BY DEF Init, RegistrationsMatch
<1>2. TypeOK /\ RegistrationsMatch /\ [Next]_vars => RegistrationsMatch'
  BY RegistrationsStep DEF vars, RegistrationsMatch
<1> QED BY <1>1, <1>2, TypeInit, TypeStep, PTL DEF Spec

(* Every step keeps the sender of a URI the one registered there.          *)
LEMMA SendersStep ==
    ASSUME TypeOK, SendersRegistered, Next
    PROVE  SendersRegistered'
<1>0. bpa \in [Endpoints -> BOOLEAN]
  BY DEF TypeOK, EndpointTypeOK
<1> SUFFICES ASSUME NEW s \in Endpoints \ Malformed, bpa'[s]
             PROVE  Uri[s] \in DOMAIN registered' /\ registered'[Uri[s]] = <<s>>
  BY DEF SendersRegistered
<1>1. CASE UNCHANGED <<bpa, registered>>
  BY <1>1 DEF SendersRegistered
<1>2. ASSUME NEW e \in Endpoints, RegisterEndpoint(e)
      PROVE  Uri[s] \in DOMAIN registered' /\ registered'[Uri[s]] = <<s>>
  <2>1. CASE s = e
    BY <1>2, <2>1 DEF RegisterEndpoint, Put
  <2>2. CASE s # e
    BY <1>0, <1>2, <2>2 DEF RegisterEndpoint, SetBpa, Put, SendersRegistered
  <2> QED BY <2>1, <2>2
<1>3. ASSUME NEW e \in Endpoints, RegisterEndpointFails(e)
      PROVE  Uri[s] \in DOMAIN registered' /\ registered'[Uri[s]] = <<s>>
  BY <1>0, <1>3 DEF RegisterEndpointFails, SetBpa, SendersRegistered
<1>4. ASSUME NEW e \in Endpoints, UnregisterEndpoint(e)
      PROVE  Uri[s] \in DOMAIN registered' /\ registered'[Uri[s]] = <<s>>
  <2>1. s # registered[Uri[e]][1] /\ bpa[s]
    BY <1>0, <1>4 DEF UnregisterEndpoint, SetBpa
  <2>2. Uri[s] \in DOMAIN registered /\ registered[Uri[s]] = <<s>> /\ Uri[s] # Uri[e]
    BY <2>1 DEF SendersRegistered
  <2> QED BY <1>4, <2>2 DEF UnregisterEndpoint, Without
<1>5. ASSUME NEW g \in GroupEndpoints, RegisterGroupEndpoint(g) \/ UnregisterGroupEndpoint(g)
      PROVE  Uri[s] \in DOMAIN registered' /\ registered'[Uri[s]] = <<s>>
  <2>1. Uri[s] # Uri[g] /\ bpa[s]
    BY <1>5, EndpointAssumption
    DEF RegisterGroupEndpoint, UnregisterGroupEndpoint, endpointVars
  <2>2. Uri[s] \in DOMAIN registered /\ registered[Uri[s]] = <<s>>
    BY <2>1 DEF SendersRegistered
  <2> QED BY <1>5, <2>1, <2>2
    DEF RegisterGroupEndpoint, UnregisterGroupEndpoint, Put, Without
<1>6. CASE Update \/ TimePasses
  BY <1>1, <1>6
  DEF Update, Processing, Poll, TimePasses, Tick, Discover, DiscoveryRaises,
      UpdateDiscovery, RetryOne, RetryExhausted, ReceiveLocal, NothingLocal,
      NothingRemote, ReceiveRemote, Procedure, Dispatching, BeginDelivery, DeliveryRaises,
      CallbackRaises, Deliver, HandOver, EndDelivery, BeginForwarding, Send, Forwarded,
      Delayed, endpointVars
<1>7. CASE Application
  BY <1>1, <1>2, <1>3, <1>4, <1>5, <1>7
  DEF Application, StartTransmission, CancelTransmission, AdvanceNumber, endpointVars
<1> QED BY <1>6, <1>7 DEF Next

(* Only the endpoint registered at a URI can send from it, whatever calls  *)
(* register and unregister endpoints and which of them are refused.        *)
THEOREM SendersKept == Spec => []SendersRegistered
<1>1. Init => SendersRegistered
  BY DEF Init, EndpointInit, SendersRegistered
<1>2. TypeOK /\ SendersRegistered /\ [Next]_vars => SendersRegistered'
  BY SendersStep DEF vars, endpointVars, SendersRegistered
<1> QED BY <1>1, <1>2, TypeInit, TypeStep, PTL DEF Spec
-----------------------------------------------------------------------------
(* What a step does to an object in the heap: its bundle and origin stay,  *)
(* and so does the mark that it was delivered; only the object in hand can *)
(* get a constraint again once it has none.                                *)
ObjectStays(r) ==
    /\ r \in DOMAIN info'
    /\ info'[r].bundle = info[r].bundle
    /\ info'[r].origin = info[r].origin
    /\ info[r].locally_delivered => info'[r].locally_delivered
    /\ info'[r].retention_constraint # None =>
           info[r].retention_constraint # None \/ r = current'

(* Every step treats every object so. *)
LEMMA ObjectKept ==
    ASSUME TypeOK, Next, NEW r \in DOMAIN info
    PROVE  ObjectStays(r)
<1>0. /\ info[r] \in BundleInformations
      /\ Map(info, Infos, BundleInformations)
      /\ r \in DOMAIN info'
  BY HeapStep DEF TypeOK, StorageTypeOK, Map, HeapGrows
<1>1. CASE info'[r] = info[r]
  BY <1>0, <1>1 DEF ObjectStays
<1>2. CASE UNCHANGED storageVars
  BY <1>1, <1>2 DEF storageVars
<1>3. ASSUME NEW x, NEW h, Receive(x, h), r \in DOMAIN h, h[r] = info[r]
      PROVE  ObjectStays(r)
  <2>1. CASE x # r
    BY <1>1, <1>3, <2>1 DEF Receive
  <2>2. CASE x = r
    <3>1. PICK c : /\ info' = [h EXCEPT ![r].retention_constraint = c]
                   /\ c = None \/ current' = r
      BY <1>3, <2>2 DEF Receive, Dispatch
    <3>2. info'[r] = [info[r] EXCEPT !.retention_constraint = c]
      BY <3>1, <1>3
    <3> QED BY <3>1, <3>2, <1>0 DEF BundleInformations, ObjectStays
  <2> QED BY <2>1, <2>2
<1>4. ASSUME NEW b, NEW a, ReceiveRemote(b, a)
      PROVE  ObjectStays(r)
  <2>1. NewInfo # r
    BY <1>4, NewInfoFresh DEF ReceiveRemote
  <2> QED BY <2>1, <1>3, <1>4 DEF ReceiveRemote, Put
<1>5. CASE BeginDelivery \/ DeliveryRaises
  <2>1. info' = [info EXCEPT ![current].locally_delivered = TRUE]
    BY <1>5 DEF BeginDelivery, DeliveryRaises
  <2> QED BY <2>1, <1>0 DEF BundleInformations, ObjectStays
<1>6. CASE BeginForwarding
  <2>1. /\ info' = [info EXCEPT ![current].retention_constraint = "Forward pending"]
        /\ current' = current
    BY <1>6 DEF BeginForwarding, GoTo
  <2>2. r = current \/ info'[r] = info[r]
    BY <2>1, <1>0
  <2> QED BY <2>1, <2>2, <1>0, <1>1 DEF BundleInformations, ObjectStays
<1>7. CASE Forwarded
  BY <1>0, <1>7 DEF Forwarded, BundleInformations, ObjectStays
<1>8. ASSUME NEW n \in targets, NEW sent \in SUBSET UnicastClas, Send(n, sent)
      PROVE  ObjectStays(r)
  <2>1. info' = [info EXCEPT ![current].forwarded_to =
                     @ \o [i \in 1 .. Cardinality(sent) |-> n]]
    BY <1>8 DEF Send, SendToNode
  <2> QED BY <2>1, <1>0 DEF BundleInformations, ObjectStays
<1>9. ASSUME NEW evicted, Delayed(evicted)
      PROVE  ObjectStays(r)
  BY <1>0, <1>9 DEF Delayed, BundleInformations, ObjectStays
<1>10. CASE Update
  <2>1. CASE RetryOne \/ RetryExhausted \/ NothingLocal \/ NothingRemote
    BY <2>1, <1>2 DEF RetryOne, RetryExhausted, NothingLocal, NothingRemote
  <2>2. CASE Discover \/ DiscoveryRaises
    BY <2>2, <1>1 DEF Discover, DiscoveryRaises, UpdateDiscovery
  <2>3. CASE ReceiveLocal
    BY <2>3, <1>3 DEF ReceiveLocal
  <2>4. CASE Dispatching \/ Deliver \/ CallbackRaises \/ EndDelivery
    BY <2>4, <1>2 DEF Dispatching, Deliver, CallbackRaises, EndDelivery
  <2> QED
    BY <2>1, <2>2, <2>3, <2>4, <1>4, <1>5, <1>6, <1>7, <1>8, <1>9, <1>10
    DEF Update, Processing, Poll, Procedure
<1>11. ASSUME NEW e, NEW destination, NEW anonymous,
              StartTransmission(e, destination, anonymous)
       PROVE  ObjectStays(r)
  <2>1. NewInfo # r
    BY <1>11, NewInfoFresh DEF StartTransmission, Create
  <2> QED BY <2>1, <1>1, <1>11 DEF StartTransmission, Create, Put
<1>12. CASE Application \/ TimePasses
  BY <1>1, <1>2, <1>11, <1>12
  DEF Application, TimePasses, CancelTransmission, RegisterEndpoint,
      RegisterEndpointFails, UnregisterEndpoint, RegisterGroupEndpoint,
      UnregisterGroupEndpoint
<1> QED BY <1>10, <1>12 DEF Next

(* A new object is in hand or has no constraint yet.                       *)
LEMMA ObjectMade ==
    ASSUME TypeOK, Next, NEW r \in DOMAIN info' \ DOMAIN info
    PROVE  r = current' \/ info'[r].retention_constraint = None
<1>1. ASSUME NEW b, NEW a, ReceiveRemote(b, a)
      PROVE  r = current' \/ info'[r].retention_constraint = None
  <2> DEFINE heap == Put(info, NewInfo, PolledInformation(b, a, clock))
  <2>1. Receive(NewInfo, heap) /\ DOMAIN heap = DOMAIN info \union {NewInfo}
    BY <1>1 DEF ReceiveRemote, Put
  <2>2. heap[NewInfo].retention_constraint = None
        /\ [heap[NewInfo] EXCEPT !.retention_constraint = None].retention_constraint = None
    BY DEF Put, PolledInformation, NewBundleInformation
  <2> HIDE DEF heap
  <2> QED BY <2>1, <2>2 DEF Receive, Dispatch
<1>2. ASSUME NEW e, NEW destination, NEW anonymous,
             StartTransmission(e, destination, anonymous)
      PROVE  info'[r].retention_constraint = None
  BY <1>2 DEF StartTransmission, Create, Put, NewBundleInformation
<1>3. CASE DOMAIN info' = DOMAIN info
  BY <1>3
<1>4. CASE Update
  BY <1>1, <1>3, <1>4
  DEF Update, Processing, Poll, Discover, DiscoveryRaises,
      UpdateDiscovery, RetryOne, RetryExhausted, ReceiveLocal, Receive, NothingLocal,
      NothingRemote, Procedure, Dispatching, BeginDelivery, DeliveryRaises,
      CallbackRaises, Deliver, EndDelivery, BeginForwarding, Send, SendToNode, Forwarded,
      Delayed, storageVars
<1>5. CASE Application \/ TimePasses
  BY <1>2, <1>3, <1>5
  DEF Application, TimePasses, CancelTransmission, RegisterEndpoint,
      RegisterEndpointFails, UnregisterEndpoint, RegisterGroupEndpoint,
      UnregisterGroupEndpoint, storageVars
<1> QED BY <1>4, <1>5 DEF Next
-----------------------------------------------------------------------------
(* Whether the object in hand is marked, as the procedures find it.        *)
MarkMatches ==
    /\ stage = "delivery" => ~ info[current].locally_delivered
    /\ stage = "callbacks" => info[current].locally_delivered

(* What was handed to an endpoint is marked.                               *)
HandedMarked ==
    \A e \in Endpoints : \A r \in Range(delivered[e]) : info[r].locally_delivered

(* The delivery loop runs over a group's list, or over one endpoint that   *)
(* is handed the object in its first turn.                                 *)
LoopOnce ==
    stage = "callbacks" =>
        \/ Range(iter.members) \intersect Endpoints = {}
        \/ \E e \in Endpoints :
              /\ iter.members = <<e>> /\ ~ iter.live
              /\ iter.next = 1 => current \notin Range(delivered[e])

(* DeliveredOnce made inductive: an object is delivered only before it is  *)
(* marked, and the list of a unicast URI has one member.                   *)
DeliveryInv ==
    TypeOK /\ RegistrationsMatch /\ MarkMatches /\ HandedMarked /\ LoopOnce /\ DeliveredOnce

(* No endpoint of the application is registered for a group. *)
LEMMA GroupLists ==
    ASSUME TypeOK, RegistrationsMatch, NEW uri \in DOMAIN registered, uri \in GroupUris
    PROVE  Range(registered[uri]) \intersect Endpoints = {}
BY EndpointAssumption DEF RegistrationsMatch, GroupUris

(* Outside update() no object changes, and the loop only sees changes of   *)
(* the list of a group.                                                    *)
LEMMA CallsKeepDelivery ==
    ASSUME TypeOK, RegistrationsMatch, RegistrationsMatch', Application \/ TimePasses
    PROVE  /\ UNCHANGED <<stage, current, delivered>>
           /\ \A r \in DOMAIN info : info'[r] = info[r]
           /\ \/ iter' = iter
              \/ iter.live /\ iter'.members = << >>
              \/ /\ iter.live
                 /\ \E uri \in DOMAIN registered' \intersect GroupUris :
                        iter'.members = registered'[uri]
<1> DEFINE Goal == /\ UNCHANGED <<stage, current, delivered>>
                   /\ \A r \in DOMAIN info : info'[r] = info[r]
                   /\ \/ iter' = iter
                      \/ iter.live /\ iter'.members = << >>
                      \/ /\ iter.live
                         /\ \E uri \in DOMAIN registered' \intersect GroupUris :
                                iter'.members = registered'[uri]
<1>1. CASE UNCHANGED <<info, delivered, stage, current, iter>>
  BY <1>1
<1>2. ASSUME NEW e, NEW destination, NEW anonymous,
             StartTransmission(e, destination, anonymous)
      PROVE  Goal
  BY <1>2, NewInfoFresh DEF StartTransmission, Create, Put, updateVars
<1>3. ASSUME NEW uri \in GroupUris, NEW members, LoopSees(uri, members),
             members # << >> => registered' = Put(registered, uri, members)
      PROVE  \/ iter' = iter
             \/ iter.live /\ iter'.members = << >>
             \/ /\ iter.live
                /\ \E u \in DOMAIN registered' \intersect GroupUris :
                       iter'.members = registered'[u]
  <2>1. iter.members \in Seq(Endpoints \union GroupEndpoints)
        /\ iter \in [members : Seq(Endpoints \union GroupEndpoints),
                     next : Nat \ {0}, live : BOOLEAN]
    BY DEF TypeOK, AgentTypeOK
  <2>2. \/ iter' = iter
        \/ iter.live /\ iter'.members = members
    BY <1>3, <2>1 DEF LoopSees
  <2> QED BY <1>3, <2>2 DEF Put
<1>4. ASSUME NEW g \in GroupEndpoints, RegisterGroupEndpoint(g) \/ UnregisterGroupEndpoint(g)
      PROVE  Goal
  <2>1. Uri[g] \in GroupUris
    BY DEF GroupUris
  <2>2. UNCHANGED <<stage, current, delivered, info>>
    BY <1>4
    DEF RegisterGroupEndpoint, UnregisterGroupEndpoint, storageVars, endpointVars
  <2>3. CASE RegisterGroupEndpoint(g)
    BY <2>1, <2>2, <2>3, <1>3 DEF RegisterGroupEndpoint
  <2>4. CASE UnregisterGroupEndpoint(g)
    BY <2>1, <2>2, <2>4, <1>3 DEF UnregisterGroupEndpoint
  <2> QED BY <1>4, <2>3, <2>4
<1>5. CASE TimePasses
  BY <1>1, <1>5 DEF TimePasses, Tick, storageVars, updateVars
<1>6. CASE Application
  BY <1>1, <1>2, <1>4, <1>6
  DEF Application, CancelTransmission, RegisterEndpoint, RegisterEndpointFails,
      UnregisterEndpoint, storageVars, endpointVars, updateVars
<1> QED BY <1>5, <1>6

(* Every step keeps the invariant of the delivery. *)
LEMMA DeliveryStep == DeliveryInv /\ [Next]_vars => DeliveryInv'
<1> SUFFICES ASSUME DeliveryInv, [Next]_vars PROVE DeliveryInv'
  OBVIOUS
<1> USE DEF DeliveryInv
<1>1. CASE UNCHANGED vars
  <2>1. TypeOK'
    BY <1>1, TypeStep
  <2> QED
    BY <1>1, <2>1
    DEF vars, storageVars, routerVars, endpointVars, updateVars, RegistrationsMatch,
        MarkMatches, HandedMarked, LoopOnce, DeliveredOnce
<1> SUFFICES ASSUME Next PROVE DeliveryInv'
  BY <1>1
<1>2. TypeOK' /\ RegistrationsMatch'
  BY TypeStep, RegistrationsStep
<1>3. /\ \A r \in DOMAIN info : ObjectStays(r)
      /\ delivered \in [Endpoints -> Seq(DOMAIN info)]
      /\ current \in DOMAIN info \union {None}
      /\ stage # "none" => current \in DOMAIN info
      /\ iter \in [members : Seq(Endpoints \union GroupEndpoints),
                   next : Nat \ {0}, live : BOOLEAN]
      /\ Map(info, Infos, BundleInformations)
  BY ObjectKept DEF TypeOK, AgentTypeOK, StorageTypeOK
<1>4. \A e \in Endpoints : Range(delivered[e]) \subseteq DOMAIN info
  BY <1>3 DEF Range
<1>5. CASE UNCHANGED delivered
  <2>1. HandedMarked' /\ DeliveredOnce'
    BY <1>3, <1>4, <1>5 DEF HandedMarked, DeliveredOnce, ObjectStays
  <2>2. CASE stage' \notin {"delivery", "callbacks"}
    BY <1>2, <2>1, <2>2 DEF MarkMatches, LoopOnce
  <2>3. CASE Dispatching
    BY <1>2, <1>3, <2>1, <2>3 DEF Dispatching, GoTo, MarkMatches, LoopOnce, storageVars
  <2>4. CASE BeginDelivery
    <3> DEFINE uri == info[current].bundle.destination
    <3>1. /\ current \in DOMAIN info /\ current' = current /\ stage = "delivery"
          /\ stage' = "callbacks" /\ uri \in DOMAIN registered
          /\ iter' = [members |-> registered[uri], next |-> 1, live |-> uri \in GroupUris]
          /\ info' = [info EXCEPT ![current].locally_delivered = TRUE]
      BY <2>4, <1>3 DEF BeginDelivery, GoTo
    <3>2. info'[current].locally_delivered
      BY <3>1, <1>3 DEF Map, BundleInformations
    <3>3. \A e \in Endpoints : current \notin Range(delivered[e])
      BY <3>1 DEF MarkMatches, HandedMarked
    <3> HIDE DEF uri
    <3>4. CASE uri \in GroupUris
      <4>1. Range(registered[uri]) \intersect Endpoints = {}
        BY <3>1, <3>4, GroupLists
      <4> QED BY <1>2, <2>1, <3>1, <3>2, <4>1 DEF MarkMatches, LoopOnce
    <3>5. CASE uri \notin GroupUris
      <4>1. /\ registered[uri] \in Seq(Endpoints \union GroupEndpoints)
            /\ Len(registered[uri]) = 1
        BY <3>1, <3>5 DEF RegistrationsMatch, TypeOK, AgentTypeOK, Map
      <4>2. PICK e \in Endpoints \union GroupEndpoints : registered[uri] = <<e>>
        BY <4>1
      <4>3. Uri[e] = uri
        BY <3>1, <4>2 DEF RegistrationsMatch, Range
      <4>4. e \in Endpoints
        BY <3>5, <4>2, <4>3 DEF GroupUris
      <4>5. iter'.members = <<e>> /\ ~ iter'.live
        BY <3>1, <3>5, <4>2
      <4> QED BY <1>2, <1>5, <2>1, <3>1, <3>2, <3>3, <4>4, <4>5 DEF MarkMatches, LoopOnce
    <3> QED BY <3>4, <3>5
  <2>5. CASE Application \/ TimePasses
    <3>1. /\ UNCHANGED <<stage, current, delivered>>
          /\ \A r \in DOMAIN info : info'[r] = info[r]
          /\ \/ iter' = iter
             \/ iter.live /\ iter'.members = << >>
             \/ /\ iter.live
                /\ \E uri \in DOMAIN registered' \intersect GroupUris :
                       iter'.members = registered'[uri]
      BY <1>2, <2>5, CallsKeepDelivery
    <3>2. MarkMatches'
      BY <1>3, <3>1 DEF MarkMatches
    <3>3. CASE iter' = iter
      BY <1>2, <2>1, <3>1, <3>2, <3>3 DEF LoopOnce
    <3>4. CASE iter'.members = << >>
      <4>1. Range(iter'.members) = {}
        BY <3>4 DEF Range
      <4> QED BY <1>2, <2>1, <3>2, <4>1 DEF LoopOnce
    <3>5. ASSUME NEW uri \in DOMAIN registered' \intersect GroupUris,
                 iter'.members = registered'[uri]
          PROVE  DeliveryInv'
      <4>1. (\A u \in DOMAIN registered : u \in GroupUris =>
                Range(registered[u]) \intersect Endpoints = {})'
        BY <1>2, EndpointAssumption DEF RegistrationsMatch, GroupUris
      <4>2. Range(iter'.members) \intersect Endpoints = {}
        BY <3>5, <4>1
      <4> QED BY <1>2, <2>1, <3>2, <4>2 DEF LoopOnce
    <3> QED BY <3>1, <3>3, <3>4, <3>5
  <2>6. CASE Update
    <3>1. CASE Discover \/ DiscoveryRaises \/ RetryOne \/ RetryExhausted \/ NothingLocal \/ NothingRemote
      BY <2>2, <3>1, <1>3
      DEF Discover, DiscoveryRaises, UpdateDiscovery,
          RetryOne, RetryExhausted, NothingLocal, NothingRemote, Dispatch, Finish
    <3>2. CASE ReceiveLocal
      BY <2>2, <3>2 DEF ReceiveLocal, Receive, Dispatch, Finish
    <3>3. ASSUME NEW b, NEW a, ReceiveRemote(b, a)
          PROVE  DeliveryInv'
      BY <2>2, <3>3 DEF ReceiveRemote, Receive, Dispatch, Finish
    <3>4. CASE DeliveryRaises \/ CallbackRaises \/ EndDelivery \/ BeginForwarding \/ Forwarded
      BY <2>2, <3>4
      DEF DeliveryRaises, CallbackRaises, EndDelivery, BeginForwarding, Forwarded,
          EndForwarding, GoTo, Finish
    <3>5. ASSUME NEW n, NEW sent, Send(n, sent)
          PROVE  DeliveryInv'
      BY <2>2, <3>5 DEF Send, updateVars
    <3>6. ASSUME NEW evicted, Delayed(evicted)
          PROVE  DeliveryInv'
      BY <2>2, <3>6 DEF Delayed, EndForwarding, Finish
    <3>7. CASE Deliver
      <4>1. iter'.members = iter.members /\ iter'.live = iter.live /\ iter'.next # 1
            /\ UNCHANGED <<info, stage, current>>
        BY <1>3, <3>7 DEF Deliver, storageVars
      <4> QED BY <1>2, <1>5, <2>1, <4>1 DEF MarkMatches, LoopOnce
    <3> QED
      BY <2>3, <2>4, <2>6, <3>1, <3>2, <3>3, <3>4, <3>5, <3>6, <3>7 DEF Update, Processing, Poll, Procedure
  <2> QED BY <2>5, <2>6 DEF Next
<1>6. CASE Deliver
  <2>1. /\ stage = "callbacks" /\ iter.next \in 1 .. Len(iter.members)
        /\ current \in DOMAIN info
        /\ iter'.members = iter.members /\ iter'.live = iter.live
        /\ iter'.next = iter.next + 1 /\ iter'.next # 1
        /\ UNCHANGED <<info, stage, current>>
    BY <1>3, <1>6 DEF Deliver, storageVars
  <2>2. MarkMatches'
    BY <2>1 DEF MarkMatches
  <2>3. LoopOnce'
    BY <2>1 DEF LoopOnce
  <2>4. CASE iter.members[iter.next] \notin Endpoints
    <3>1. UNCHANGED delivered
      BY <1>6, <2>4 DEF Deliver, HandOver
    <3> QED BY <1>5, <3>1
  <2>5. CASE iter.members[iter.next] \in Endpoints
    <3>1. PICK e \in Endpoints :
              /\ iter.members = <<e>>
              /\ iter.next = 1 => current \notin Range(delivered[e])
      BY <2>1, <2>5 DEF LoopOnce, Range
    <3>2. iter.next = 1
      BY <2>1, <3>1
    <3>3. delivered' = [delivered EXCEPT ![e] = Append(@, current)]
      BY <1>6, <2>1, <3>1, <3>2 DEF Deliver, HandOver
    <3>4. current \notin Range(delivered[e]) /\ delivered[e] \in Seq(DOMAIN info)
      BY <1>3, <3>1, <3>2
    <3>5. IsInjective(Append(delivered[e], current))
      BY <3>4 DEF DeliveredOnce, IsInjective, Range
    <3>6. Range(Append(delivered[e], current)) \subseteq Range(delivered[e]) \union {current}
      BY <3>4, AppendRange
    <3>7. delivered'[e] = Append(delivered[e], current)
          /\ \A d \in Endpoints \ {e} : delivered'[d] = delivered[d]
      BY <1>3, <3>3
    <3>8. DeliveredOnce'
      BY <3>5, <3>7 DEF DeliveredOnce
    <3>9. HandedMarked'
      BY <2>1, <3>6, <3>7 DEF HandedMarked, MarkMatches
    <3> QED BY <1>2, <2>2, <2>3, <3>8, <3>9
  <2> QED BY <2>4, <2>5
<1>7. CASE Update
  BY <1>5, <1>6, <1>7
  DEF Update, Processing, Poll, Discover, DiscoveryRaises,
      UpdateDiscovery, RetryOne, RetryExhausted, ReceiveLocal, NothingLocal,
      NothingRemote, ReceiveRemote, Procedure, Dispatching, BeginDelivery,
      DeliveryRaises, CallbackRaises, EndDelivery, BeginForwarding, Send, Forwarded,
      Delayed, endpointVars
<1>8. CASE Application \/ TimePasses
  BY <1>2, <1>5, <1>8, CallsKeepDelivery
<1> QED BY <1>7, <1>8 DEF Next

(* Nothing has been registered or delivered at first. *)
LEMMA DeliveryInit == Init => DeliveryInv
<1> SUFFICES ASSUME Init PROVE DeliveryInv
  OBVIOUS
<1>1. RegistrationsMatch /\ MarkMatches /\ LoopOnce
  BY DEF Init, RegistrationsMatch, MarkMatches, LoopOnce
<1>2. HandedMarked /\ DeliveredOnce
  BY DEF Init, EndpointInit, HandedMarked, DeliveredOnce, IsInjective, Range
<1> QED BY <1>1, <1>2, TypeInit DEF DeliveryInv

(* However often a bundle is retried and whatever the application registers *)
(* or unregisters meanwhile, also inside the receive callbacks, a unicast   *)
(* endpoint is handed each object at most once.                             *)
THEOREM HandedOverOnce == Spec => []DeliveredOnce
<1>1. DeliveryInv => DeliveredOnce
  BY DEF DeliveryInv
<1> QED BY <1>1, DeliveryInit, DeliveryStep, PTL DEF Spec
-----------------------------------------------------------------------------
(* What is in the store stays there until it is cancelled or has no        *)
(* constraint: collected because it has none, or evicted, which takes it.  *)
LEMMA StoredStays ==
    ASSUME TypeOK, KeysMatch, Next, NEW r \in Stored
    PROVE  \/ r \in Stored'
           \/ IdOf(r) \in cancelled'
           \/ info'[r].retention_constraint = None
<1>0. PICK id \in DOMAIN bundles : r = bundles[id]
  BY DEF Stored
<1>1. r \in DOMAIN info /\ IdOf(r) = id /\ info[r] \in BundleInformations
  BY <1>0 DEF KeysMatch, TypeOK, StorageTypeOK, Map
<1>2. CASE UNCHANGED bundles
  BY <1>2 DEF Stored
<1>3. ASSUME NEW e, NEW x, CancelTransmission(e, x)
      PROVE  r \in Stored' \/ IdOf(r) \in cancelled'
  <2>1. /\ cancelled' = cancelled \union {IdOf(x)}
        /\ bundles' = Without(bundles, {IdOf(x)})
    BY <1>3 DEF CancelTransmission, RemoveBundle
  <2>2. CASE id = IdOf(x)
    BY <1>1, <2>1, <2>2
  <2>3. CASE id # IdOf(x)
    BY <1>0, <2>1, <2>3 DEF Without, Stored
  <2> QED BY <2>2, <2>3
<1>4. ASSUME NEW evicted, Delayed(evicted)
      PROVE  r \in Stored' \/ info'[r].retention_constraint = None
  <2>1. info' = [x \in DOMAIN info |-> IF x \in {bundles[i] : i \in evicted}
                     THEN [info[x] EXCEPT !.retention_constraint = None] ELSE info[x]]
    BY <1>4 DEF Delayed
  <2>2. CASE id \in evicted \/ info[r].retention_constraint = None
    BY <1>0, <1>1, <2>1, <2>2 DEF BundleInformations
  <2>3. CASE id \notin evicted /\ info[r].retention_constraint # None /\ ~ UNCHANGED bundles
    <3>1. /\ IdOf(current) \notin DOMAIN bundles
          /\ bundles' = Put(Without(Kept, evicted), IdOf(current), current)
      BY <1>4, <2>3 DEF Delayed, DelayBundle
    <3>2. id \in DOMAIN Kept /\ Kept[id] = r
      BY <1>0, <2>3 DEF Kept, Without, Collectable
    <3>3. id \in DOMAIN bundles' /\ bundles'[id] = r
      BY <2>3, <3>1, <3>2 DEF Put, Without
    <3> QED BY <3>3 DEF Stored
  <2>4. CASE UNCHANGED bundles
    BY <2>4 DEF Stored
  <2> QED BY <2>2, <2>3, <2>4
<1>5. CASE Update \/ TimePasses
  BY <1>2, <1>4, <1>5
  DEF Update, Processing, Poll, TimePasses, Discover, DiscoveryRaises,
      UpdateDiscovery, RetryOne, RetryExhausted, ReceiveLocal, NothingLocal,
      NothingRemote, ReceiveRemote, Procedure, Dispatching, BeginDelivery, DeliveryRaises,
      CallbackRaises, Deliver, EndDelivery, BeginForwarding, Send, Forwarded, storageVars
<1>6. CASE Application
  BY <1>2, <1>3, <1>6
  DEF Application, StartTransmission, RegisterEndpoint, RegisterEndpointFails,
      UnregisterEndpoint, RegisterGroupEndpoint, UnregisterGroupEndpoint, storageVars
<1> QED BY <1>5, <1>6 DEF Next

(* The object in hand stays there until it is stored or forwarded; an      *)
(* exception meets it marked, and delay_bundle drops it only for another   *)
(* object with its id.                                                     *)
LEMMA HandStays ==
    ASSUME TypeOK, KeysMatch, MarkMatches, Next, current \in DOMAIN info
    PROVE  \/ current' = current
           \/ current \in Stored'
           \/ info'[current].retention_constraint = None
           \/ (DeliveryRaises \/ CallbackRaises) /\ info'[current].locally_delivered
           \/ \E s \in DOMAIN info \ {current} : IdOf(s) = IdOf(current)
<1> DEFINE Goal == \/ current' = current
                   \/ current \in Stored'
                   \/ info'[current].retention_constraint = None
                   \/ (DeliveryRaises \/ CallbackRaises) /\ info'[current].locally_delivered
                   \/ \E s \in DOMAIN info \ {current} : IdOf(s) = IdOf(current)
<1>0. /\ stage # "none"
      /\ info[current] \in BundleInformations
  <2>1. None \notin DOMAIN info /\ Map(info, Infos, BundleInformations)
    BY StorageAssumption DEF TypeOK, StorageTypeOK, Map
  <2> QED BY <2>1 DEF TypeOK, AgentTypeOK, Map
<1>1. CASE DeliveryRaises
  BY <1>0, <1>1 DEF DeliveryRaises, BundleInformations
<1>2. CASE CallbackRaises
  BY <1>2 DEF CallbackRaises, MarkMatches, storageVars
<1>3. CASE Forwarded
  BY <1>0, <1>3 DEF Forwarded, BundleInformations
<1>4. ASSUME NEW evicted, Delayed(evicted) PROVE Goal
  <2>1. CASE IdOf(current) \in DOMAIN bundles
    <3>1. /\ bundles[IdOf(current)] \in DOMAIN info
          /\ IdOf(bundles[IdOf(current)]) = IdOf(current)
      BY <2>1 DEF KeysMatch, TypeOK, StorageTypeOK, Map
    <3>2. CASE bundles[IdOf(current)] = current
      BY <1>4, <2>1, <3>2 DEF Delayed, DelayBundle, Stored
    <3> QED BY <3>1, <3>2
  <2>2. CASE IdOf(current) \notin DOMAIN bundles
    <3>1. bundles' = Put(Without(Kept, evicted), IdOf(current), current)
      BY <1>4, <2>2 DEF Delayed, DelayBundle
    <3>2. IdOf(current) \in DOMAIN bundles' /\ bundles'[IdOf(current)] = current
      BY <3>1 DEF Put
    <3> QED BY <3>2 DEF Stored
  <2> QED BY <2>1, <2>2
<1>5. CASE Update
  BY <1>0, <1>1, <1>2, <1>3, <1>4, <1>5
  DEF Update, Processing, Poll, Discover, DiscoveryRaises,
      UpdateDiscovery, RetryOne, RetryExhausted, ReceiveLocal, NothingLocal,
      NothingRemote, ReceiveRemote, Procedure, Dispatching, BeginDelivery, Deliver,
      EndDelivery, BeginForwarding, Send, GoTo, updateVars
<1>6. CASE Application \/ TimePasses
  BY <1>6
  DEF Application, TimePasses, StartTransmission, CancelTransmission, RegisterEndpoint,
      RegisterEndpointFails, UnregisterEndpoint, RegisterGroupEndpoint,
      UnregisterGroupEndpoint, updateVars
<1> QED BY <1>5, <1>6 DEF Next

(* Cancellations are noted for good. *)
LEMMA CancelledGrows ==
    ASSUME Next
    PROVE  cancelled \subseteq cancelled'
<1>1. CASE Update \/ TimePasses
  BY <1>1
  DEF Update, Processing, Poll, TimePasses, Discover, DiscoveryRaises,
      UpdateDiscovery, RetryOne, RetryExhausted, ReceiveLocal, NothingLocal,
      NothingRemote, ReceiveRemote, Procedure, Dispatching, BeginDelivery, DeliveryRaises,
      CallbackRaises, Deliver, EndDelivery, BeginForwarding, Send, Forwarded, Delayed
<1>2. CASE Application
  BY <1>2
  DEF Application, StartTransmission, CancelTransmission, RegisterEndpoint,
      RegisterEndpointFails, UnregisterEndpoint, RegisterGroupEndpoint,
      UnregisterGroupEndpoint
<1> QED BY <1>1, <1>2 DEF Next

(* Every step loses only what LostOnlyDelivered names.                     *)
LEMMA LostStep ==
    ASSUME TypeOK, KeysMatch, MarkMatches, LostOnlyDelivered, Next
    PROVE  LostOnlyDelivered'
<1>1. ASSUME NEW r \in DOMAIN info', info'[r].retention_constraint # None
      PROVE  \/ r = current' \/ r \in Stored' \/ IdOf(r)' \in cancelled'
             \/ info'[r].locally_delivered
             \/ \E s \in DOMAIN info' \ {r} : IdOf(s)' = IdOf(r)'
  <2>1. CASE r \notin DOMAIN info
    BY <1>1, <2>1, ObjectMade
  <2>2. CASE r \in DOMAIN info /\ info[r].retention_constraint = None
    BY <1>1, <2>2, ObjectKept DEF ObjectStays
  <2>3. CASE r \in DOMAIN info /\ info[r].retention_constraint # None
    <3>1. \A s \in DOMAIN info : s \in DOMAIN info' /\ IdOf(s)' = IdOf(s)
      BY ObjectKept DEF ObjectStays, IdOf
    <3>2. CASE IdOf(r) \in cancelled
      BY <2>3, <3>1, <3>2, CancelledGrows
    <3>3. CASE info[r].locally_delivered
      BY <2>3, <3>3, ObjectKept DEF ObjectStays
    <3>4. CASE \E s \in DOMAIN info \ {r} : IdOf(s) = IdOf(r)
      BY <2>3, <3>1, <3>4
    <3>5. CASE r \in Stored
      BY <1>1, <2>3, <3>1, <3>5, StoredStays
    <3>6. CASE r = current
      BY <1>1, <2>3, <3>1, <3>4, <3>6, HandStays
    <3> QED BY <2>3, <3>2, <3>3, <3>4, <3>5, <3>6 DEF LostOnlyDelivered
  <2> QED BY <2>1, <2>2, <2>3
<1> QED BY <1>1 DEF LostOnlyDelivered

(* Exceptions, retries of an old snapshot, evictions and the application's *)
(* calls at any time lose no bundle the agent has begun to process, but    *)
(* for those it marked as delivered and those with another one's id.       *)
THEOREM OnlyDeliveredLost == Spec => []LostOnlyDelivered
<1>1. Init => DeliveryInv /\ StoreInv /\ LostOnlyDelivered
  BY DeliveryInit, StoreInit DEF Init, StorageInit, LostOnlyDelivered
<1>2. DeliveryInv /\ StoreInv /\ LostOnlyDelivered /\ [Next]_vars => LostOnlyDelivered'
  <2>1. ASSUME UNCHANGED vars, LostOnlyDelivered PROVE LostOnlyDelivered'
    BY <2>1 DEF vars, storageVars, updateVars, LostOnlyDelivered, Stored, IdOf
  <2> QED BY <2>1, LostStep DEF DeliveryInv, StoreInv
<1> QED BY <1>1, <1>2, DeliveryStep, StoreStep, PTL DEF Spec

-----------------------------------------------------------------------------
(* No two objects are of bundles with the same id. *)
IdsUnique == \A r, s \in DOMAIN info : IdOf(r) = IdOf(s) => r = s

(* Without a background thread nobody unregisters the endpoint between the *)
(* look of bundle_dispatching and that of local_bundle_delivery.           *)
StillRegistered ==
    stage = "delivery" => info[current].bundle.destination \in DOMAIN registered

(* Every step that the application does not interrupt keeps that so. *)
LEMMA RegisteredStep ==
    ASSUME ~ BackgroundThread, TypeOK, StillRegistered, Next
    PROVE  StillRegistered'
<1>1. CASE stage' # "delivery"
  BY <1>1 DEF StillRegistered
<1>2. CASE Dispatching
  BY <1>2 DEF Dispatching, GoTo, StillRegistered, storageVars
<1>3. CASE TimePasses
  BY <1>3 DEF TimePasses, StillRegistered, storageVars, updateVars
<1>4. CASE Application
  <2>1. AppMayCall /\ stage' = stage
    BY <1>4
    DEF Application, StartTransmission, CancelTransmission, RegisterEndpoint,
        RegisterEndpointFails, UnregisterEndpoint, RegisterGroupEndpoint,
        UnregisterGroupEndpoint, updateVars
  <2> QED BY <2>1, <1>1 DEF AppMayCall
<1>5. CASE Update
  <2>1. CASE Discover \/ DiscoveryRaises \/ RetryOne \/ RetryExhausted \/ NothingLocal \/ NothingRemote
    BY <2>1, <1>1
    DEF Discover, DiscoveryRaises, UpdateDiscovery,
        RetryOne, RetryExhausted, NothingLocal, NothingRemote, Dispatch, Finish
  <2>2. CASE ReceiveLocal
    BY <2>2, <1>1 DEF ReceiveLocal, Receive, Dispatch, Finish
  <2>3. ASSUME NEW b, NEW a, ReceiveRemote(b, a) PROVE stage' # "delivery"
    BY <2>3 DEF ReceiveRemote, Receive, Dispatch, Finish
  <2>4. CASE Procedure
    BY <2>4, <1>1, <1>2
    DEF Procedure, BeginDelivery, DeliveryRaises, CallbackRaises, Deliver, EndDelivery,
        BeginForwarding, Send, Forwarded, Delayed, EndForwarding, GoTo, Finish, updateVars
  <2> QED BY <2>1, <2>2, <2>3, <2>4, <1>1, <1>5 DEF Update, Processing, Poll
<1> QED BY <1>3, <1>4, <1>5 DEF Next

(* A node whose updates no thread runs in the background and whose receive *)
(* callbacks do not raise loses no bundle it has begun to process, for as  *)
(* long as the ids it meets tell bundles apart.                            *)
THEOREM NothingIsLost ==
    ASSUME ~ BackgroundThread, ~ CallbacksRaise
    PROVE  Spec /\ []IdsUnique => []NothingLost
<1>1. Init => DeliveryInv /\ StoreInv /\ StillRegistered /\ NothingLost
  BY DeliveryInit, StoreInit DEF Init, StorageInit, StillRegistered, NothingLost
<1>2. TypeOK /\ StillRegistered /\ [Next]_vars => StillRegistered'
  <2>1. ASSUME UNCHANGED vars, StillRegistered PROVE StillRegistered'
    BY <2>1 DEF vars, storageVars, updateVars, StillRegistered
  <2> QED BY <2>1, RegisteredStep
<1>3. ASSUME DeliveryInv, StoreInv, StillRegistered, NothingLost, IdsUnique, IdsUnique',
             [Next]_vars
      PROVE  NothingLost'
  <2>1. CASE UNCHANGED vars
    BY <1>3, <2>1 DEF vars, storageVars, updateVars, NothingLost, Stored, IdOf
  <2> SUFFICES ASSUME Next,
                      NEW r \in DOMAIN info', info'[r].retention_constraint # None
               PROVE  r = current' \/ r \in Stored' \/ IdOf(r)' \in cancelled'
    BY <1>3, <2>1 DEF NothingLost
  <2>2. TypeOK /\ KeysMatch /\ MarkMatches
    BY <1>3 DEF StoreInv, DeliveryInv
  <2>3. CASE r \notin DOMAIN info
    BY <2>2, <2>3, ObjectMade
  <2>4. CASE r \in DOMAIN info /\ info[r].retention_constraint = None
    BY <2>2, <2>4, ObjectKept DEF ObjectStays
  <2>5. CASE r \in DOMAIN info /\ info[r].retention_constraint # None
    <3>1. IdOf(r)' = IdOf(r)
      BY <2>2, <2>5, ObjectKept DEF ObjectStays, IdOf
    <3>2. CASE IdOf(r) \in cancelled
      BY <3>1, <3>2, CancelledGrows
    <3>3. CASE r \in Stored
      BY <2>2, <3>1, <3>3, StoredStays
    <3>4. CASE r = current
      <4>1. ~ DeliveryRaises /\ ~ CallbackRaises
        BY <1>3 DEF DeliveryRaises, CallbackRaises, StillRegistered
      <4> QED BY <1>3, <2>2, <2>5, <3>4, <4>1, HandStays DEF IdsUnique
    <3> QED BY <1>3, <2>5, <3>2, <3>3, <3>4 DEF NothingLost
  <2> QED BY <2>3, <2>4, <2>5
<1>4. DeliveryInv => TypeOK
  BY DEF DeliveryInv
<1> QED
  BY <1>1, <1>2, <1>3, <1>4, DeliveryStep, StoreStep, PTL DEF Spec

=============================================================================
