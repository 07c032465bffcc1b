--------------------------- MODULE ReceptionProofs ---------------------------
(***************************************************************************)
(* What TLAPS proves of bundle ids in BundleProtocolAgent: endpoints make  *)
(* each once, and the table of seen ids lets each in once.                 *)
(***************************************************************************)
EXTENDS DeliveryProofs

(* Where a new object comes from. *)
LEMMA ObjectOrigin ==
    ASSUME TypeOK, Next, NEW r \in DOMAIN info' \ DOMAIN info
    PROVE  \/ \E e \in Endpoints, destination \in Uris, anonymous \in AnonymousUse :
                  StartTransmission(e, destination, anonymous)
           \/ \E b \in RemoteBundles \union Echoes, a \in Addresses \union {None} :
                  ReceiveRemote(b, a)
<1>1. CASE DOMAIN info' = DOMAIN info
  BY <1>1
<1>2. CASE Update
  BY <1>1, <1>2
  DEF Update, Processing, Poll, Discover, DiscoveryRaises,
      UpdateDiscovery, RetryOne, RetryExhausted, ReceiveLocal, Receive, NothingLocal,
      NothingRemote, Procedure, Dispatching, BeginDelivery, DeliveryRaises,
      CallbackRaises, Deliver, EndDelivery, BeginForwarding, Send, SendToNode,
      Forwarded, Delayed, storageVars
<1>3. CASE Application \/ TimePasses
  BY <1>1, <1>3
  DEF Application, TimePasses, CancelTransmission, RegisterEndpoint,
      RegisterEndpointFails, UnregisterEndpoint, RegisterGroupEndpoint,
      UnregisterGroupEndpoint, storageVars
<1> QED BY <1>2, <1>3 DEF Next

(* The object start_transmission makes. *)
LEMMA ObjectSent ==
    ASSUME NEW e, NEW destination, NEW anonymous,
           StartTransmission(e, destination, anonymous)
    PROVE  \E x : /\ x \notin DOMAIN info /\ DOMAIN info' = DOMAIN info \union {x}
                  /\ info'[x].bundle = NextBundle(e, destination, anonymous)
                  /\ info'[x].origin = "application"
BY NewInfoFresh DEF StartTransmission, Create, Put, NewBundleInformation

(* The object the poll generator makes. *)
LEMMA ObjectPolled ==
    ASSUME NEW b, NEW a \in Addresses \union {None}, ReceiveRemote(b, a)
    PROVE  \E x : /\ x \notin DOMAIN info /\ DOMAIN info' = DOMAIN info \union {x}
                  /\ info'[x].bundle = b
                  /\ info'[x].origin # "application"
<1> DEFINE heap == Put(info, NewInfo, PolledInformation(b, a, clock))
<1>1. /\ Receive(NewInfo, heap)
      /\ DOMAIN heap = DOMAIN info \union {NewInfo}
      /\ heap[NewInfo] = PolledInformation(b, a, clock)
  BY DEF ReceiveRemote, Put
<1>2. a # "application"
  BY DataAssumption
<1>3. \A c : LET made == [heap[NewInfo] EXCEPT !.retention_constraint = c]
             IN  made.bundle = b /\ made.origin = a
  BY <1>1 DEF PolledInformation, NewBundleInformation
<1>4. NewInfo \notin DOMAIN info
  BY NewInfoFresh DEF ReceiveRemote
<1> HIDE DEF heap
<1>5. PICK c : info' = [heap EXCEPT ![NewInfo].retention_constraint = c]
  BY <1>1 DEF Receive
<1>6. /\ DOMAIN info' = DOMAIN info \union {NewInfo}
      /\ info'[NewInfo] = [heap[NewInfo] EXCEPT !.retention_constraint = c]
  BY <1>1, <1>5
<1> QED BY <1>2, <1>3, <1>4, <1>6
-----------------------------------------------------------------------------
(* An id an endpoint has made is not after its last one. *)
Before(id, e) ==
    \/ id.time < last_time[e]
    \/ id.time = last_time[e] /\ id.num <= last_num[e]

Numbered ==
    \A r \in {r \in DOMAIN info : info[r].origin = "application"} :
        \E e \in Endpoints : IdOf(r).source = Uri[e] /\ Before(IdOf(r), e)

TimesPast == \A e \in Endpoints : last_time[e] <= clock

NumberingInv == TypeOK /\ Numbered /\ TimesPast /\ LocalIdsUnique

(* The numbers of an endpoint only change when it sends, and the clock     *)
(* goes forward.                                                           *)
LEMMA NumbersStay ==
    ASSUME TypeOK, Next
    PROVE  /\ clock' >= clock
           /\ \/ UNCHANGED <<last_time, last_num>>
              \/ \E e \in Endpoints, destination \in Uris, anonymous \in AnonymousUse :
                     StartTransmission(e, destination, anonymous)
<1>0. clock \in Nat
  BY DEF TypeOK, EndpointTypeOK
<1>1. CASE UNCHANGED endpointVars \/ UNCHANGED <<clock, last_time, last_num>>
  BY <1>0, <1>1 DEF endpointVars
<1>2. CASE Update
  BY <1>0, <1>1, <1>2
  DEF Update, Processing, Poll, Discover, DiscoveryRaises,
      UpdateDiscovery, RetryOne, RetryExhausted, ReceiveLocal, NothingLocal,
      NothingRemote, ReceiveRemote, Procedure, Dispatching, BeginDelivery,
      DeliveryRaises, CallbackRaises, Deliver, EndDelivery, BeginForwarding, Send,
      Forwarded, Delayed
<1>3. ASSUME NEW e, NEW destination, NEW anonymous,
             StartTransmission(e, destination, anonymous)
      PROVE  clock' >= clock
  BY <1>0, <1>3 DEF StartTransmission
<1>4. CASE Application
  BY <1>1, <1>3, <1>4
  DEF Application, CancelTransmission, RegisterEndpoint, RegisterEndpointFails,
      UnregisterEndpoint, RegisterGroupEndpoint, UnregisterGroupEndpoint
<1>5. CASE TimePasses
  BY <1>0, <1>5 DEF TimePasses, Tick
<1> QED BY <1>2, <1>4, <1>5 DEF Next

(* Each number an endpoint gives out comes after all it gave out before.   *)
LEMMA NumberingStep ==
    ASSUME AnonymousUse \subseteq {FALSE},
           \A d, e \in Endpoints : Uri[d] = Uri[e] => d = e,
           NumberingInv, Next
    PROVE  NumberingInv'
<1> DEFINE Sent == {r \in DOMAIN info : info[r].origin = "application"}
<1>0. /\ TypeOK /\ Numbered /\ TimesPast /\ LocalIdsUnique
      /\ clock \in Nat
      /\ last_time \in [Endpoints -> Nat] /\ last_num \in [Endpoints -> Nat]
      /\ MicroPython \in BOOLEAN
  BY DataAssumption DEF NumberingInv, TypeOK, EndpointTypeOK
<1>1. TypeOK'
  BY <1>0, TypeStep
<1>2. \A r \in DOMAIN info : ObjectStays(r)
  BY <1>0, ObjectKept
<1>3. \A r \in Sent : info'[r].origin = "application" /\ IdOf(r)' = IdOf(r)
  BY <1>2 DEF ObjectStays, IdOf
<1>4. \A r \in Sent : IdOf(r).time \in Nat /\ IdOf(r).num \in Nat
  BY <1>0 DEF TypeOK, StorageTypeOK, Map, BundleInformations, Bundles, BundleIds, IdOf
<1>5. ASSUME NEW e \in Endpoints, NEW destination \in Uris,
             NEW anonymous \in AnonymousUse, StartTransmission(e, destination, anonymous)
      PROVE  NumberingInv'
  <2>1. ~ anonymous
    OBVIOUS
  <2> DEFINE id == [source |-> Uri[e], time |-> NextTime(e), num |-> NextNum(e)]
  <2>2. PICK x : /\ x \notin DOMAIN info /\ DOMAIN info' = DOMAIN info \union {x}
                 /\ info'[x].bundle = NextBundle(e, destination, anonymous)
                 /\ info'[x].origin = "application"
    BY <1>5, ObjectSent
  <2>3. PICK new : new = id
    OBVIOUS
  <2>4. new = id /\ IdOf(x)' = new
    BY <2>1, <2>2, <2>3 DEF IdOf, NextBundle
  <2>5. /\ clock' = clock
        /\ last_time' = [last_time EXCEPT ![e] = new.time]
        /\ last_num' = [last_num EXCEPT ![e] = new.num]
        /\ new.source = Uri[e] /\ new.time \in Nat /\ new.num \in Nat
    BY <1>0, <1>5, <2>4 DEF StartTransmission, AdvanceNumber, NextTime, NextNum
  <2>6. \/ last_time[e] < new.time
        \/ last_time[e] = new.time /\ last_num[e] < new.num
    BY <1>0, <2>4 DEF NextTime, NextNum, TimesPast
  <2>7. new.time <= clock
    BY <1>0, <2>4 DEF NextTime, TimesPast
  <2> HIDE DEF id
  <2>8. Before(new, e)'
    BY <1>0, <2>5 DEF Before
  <2>9. \A r \in Sent, d \in Endpoints :
            Before(IdOf(r), d) =>
                \/ last_time'[d] > IdOf(r).time
                \/ last_time'[d] = IdOf(r).time /\ last_num'[d] >= IdOf(r).num
    BY <1>0, <1>4, <2>5, <2>6 DEF Before
  <2>10. \A r \in Sent : IdOf(r) # new
    BY <1>0, <1>4, <2>5, <2>6 DEF Before, Numbered
  <2>11. Sent' \subseteq Sent \union {x}
    BY <1>2, <2>2 DEF ObjectStays
  <2>12. Numbered'
    BY <1>3, <2>2, <2>4, <2>5, <2>8, <2>9, <2>11, <1>0, <1>4 DEF Numbered, Before
  <2>13. TimesPast'
    BY <1>0, <2>5, <2>7 DEF TimesPast
  <2>14. LocalIdsUnique'
    BY <1>0, <1>3, <2>2, <2>4, <2>10, <2>11 DEF LocalIdsUnique
  <2> QED BY <1>1, <2>12, <2>13, <2>14 DEF NumberingInv
<1>6. CASE UNCHANGED <<last_time, last_num>> /\ Sent' \subseteq Sent
  <2>1. Numbered' /\ LocalIdsUnique'
    BY <1>0, <1>3, <1>6 DEF Numbered, Before, LocalIdsUnique
  <2>2. TimesPast'
    BY <1>0, <1>6, NumbersStay, <1>1 DEF TimesPast, TypeOK, EndpointTypeOK
  <2> QED BY <1>1, <2>1, <2>2 DEF NumberingInv
<1>7. CASE Sent' \subseteq Sent
  BY <1>0, <1>5, <1>6, <1>7, NumbersStay
<1>8. ASSUME NEW b \in RemoteBundles \union Echoes, NEW a \in Addresses \union {None},
             ReceiveRemote(b, a)
      PROVE  Sent' \subseteq Sent
  <2>1. PICK x : DOMAIN info' = DOMAIN info \union {x} /\ info'[x].origin # "application"
    BY <1>8, ObjectPolled
  <2> QED BY <1>2, <2>1 DEF ObjectStays
<1>9. CASE DOMAIN info' \subseteq DOMAIN info
  BY <1>2, <1>7, <1>9 DEF ObjectStays
<1> QED BY <1>0, <1>5, <1>7, <1>8, <1>9, ObjectOrigin

(* "uniquely created from an endpoint": endpoints with URIs of their own   *)
(* that do not send anonymously never make two bundles with one id, with   *)
(* a clock or without one, whenever they are registered or unregistered.   *)
THEOREM IdsMadeOnce ==
    ASSUME AnonymousUse \subseteq {FALSE},
           \A d, e \in Endpoints : Uri[d] = Uri[e] => d = e
    PROVE  Spec => []LocalIdsUnique
<1>1. Init => NumberingInv
  BY TypeInit DEF Init, StorageInit, EndpointInit, NumberingInv, Numbered, TimesPast,
                  LocalIdsUnique
<1>2. NumberingInv /\ [Next]_vars => NumberingInv'
  <2>1. ASSUME NumberingInv, UNCHANGED vars PROVE NumberingInv'
    BY <2>1, TypeStep
    DEF NumberingInv, Numbered, TimesPast, LocalIdsUnique, Before, IdOf, vars,
        storageVars, endpointVars
  <2> QED BY <2>1, NumberingStep
<1>3. NumberingInv => LocalIdsUnique
  BY DEF NumberingInv
<1> QED BY <1>1, <1>2, <1>3, PTL DEF Spec
-----------------------------------------------------------------------------
(* What came from elsewhere has been seen. *)
ForeignSeen ==
    \A r \in {r \in DOMAIN info : info[r].origin # "application"} :
        IdOf(r) \in DOMAIN bundle_ids

TableNotFull == Cardinality(DOMAIN bundle_ids) < MaxKnown

(* A table of seen ids that is not full loses none. *)
LEMMA SeenStays ==
    ASSUME BoundedInv, TableNotFull, Next
    PROVE  DOMAIN bundle_ids \subseteq DOMAIN bundle_ids'
<1>1. Cardinality(DOMAIN bundle_ids) \in Nat /\ MaxKnown \in Nat
  BY StorageAssumption, FS_CardinalityType DEF BoundedInv, FiniteTables
<1>2. ~ (Cardinality(DOMAIN bundle_ids) >= MaxKnown)
  BY <1>1 DEF TableNotFull
<1> QED BY <1>2, SeenWrites DEF StoreSeen, Put

(* So what is polled is new. *)
LEMMA ForeignStep ==
    ASSUME BoundedInv, TypeOK, TableNotFull, ForeignSeen, ForeignReceivedOnce, Next
    PROVE  ForeignSeen' /\ ForeignReceivedOnce'
<1> DEFINE Foreign == {r \in DOMAIN info : info[r].origin # "application"}
<1>1. \A r \in DOMAIN info : ObjectStays(r)
  BY ObjectKept
<1>2. \A r \in Foreign : r \in Foreign' /\ IdOf(r)' = IdOf(r)
  BY <1>1 DEF ObjectStays, IdOf
<1>3. CASE Foreign' \subseteq Foreign
  BY <1>2, <1>3, SeenStays DEF ForeignSeen, ForeignReceivedOnce
<1>4. ASSUME NEW b \in RemoteBundles \union Echoes, NEW a \in Addresses \union {None},
             ReceiveRemote(b, a)
      PROVE  ForeignSeen' /\ ForeignReceivedOnce'
  <2>1. PICK x, id : /\ DOMAIN info' = DOMAIN info \union {x} /\ IdOf(x)' = id
                     /\ id = b.id
    BY <1>4, ObjectPolled DEF IdOf
  <2>2. id \notin DOMAIN bundle_ids /\ id \in DOMAIN bundle_ids'
    <3>1. StoreSeen(b.id, a) /\ b.id \notin DOMAIN bundle_ids
      BY <1>4 DEF ReceiveRemote
    <3>2. ~ (a = None /\ GetSeen(b.id) # None)
      BY <3>1 DEF GetSeen
    <3> QED BY <2>1, <3>1, <3>2 DEF StoreSeen, Put
  <2>3. Foreign' \subseteq Foreign \union {x}
    BY <1>1, <2>1 DEF ObjectStays
  <2> QED BY <1>2, <2>1, <2>2, <2>3, SeenStays DEF ForeignSeen, ForeignReceivedOnce
<1>5. ASSUME NEW e, NEW destination, NEW anonymous,
             StartTransmission(e, destination, anonymous)
      PROVE  Foreign' \subseteq Foreign
  <2>1. PICK x : DOMAIN info' = DOMAIN info \union {x} /\ info'[x].origin = "application"
    BY <1>5, ObjectSent
  <2> QED BY <1>1, <2>1 DEF ObjectStays
<1>6. CASE DOMAIN info' \subseteq DOMAIN info
  BY <1>1, <1>3, <1>6 DEF ObjectStays
<1> QED BY <1>3, <1>4, <1>5, <1>6, ObjectOrigin

(* A foreign bundle is received once, however often and from wherever it   *)
(* is flooded, as long as the table of seen ids is not full.               *)
THEOREM ForeignReceived ==
    Spec /\ []TableNotFull => []ForeignReceivedOnce
<1>1. Init => ForeignSeen /\ ForeignReceivedOnce
  BY DEF Init, StorageInit, ForeignSeen, ForeignReceivedOnce
<1>2. BoundedInv /\ TypeOK /\ TableNotFull /\ ForeignSeen /\ ForeignReceivedOnce
      /\ [Next]_vars => ForeignSeen' /\ ForeignReceivedOnce'
  <2>1. ASSUME ForeignSeen, ForeignReceivedOnce, UNCHANGED vars
        PROVE  ForeignSeen' /\ ForeignReceivedOnce'
    BY <2>1 DEF ForeignSeen, ForeignReceivedOnce, IdOf, vars, storageVars
  <2> QED BY <2>1, ForeignStep
<1> QED
  BY <1>1, <1>2, TypeInit, TypeStep, BoundedInit, BoundedStep, PTL DEF Spec
=============================================================================
