------------------------ MODULE BundleProtocolAgent ------------------------
(***************************************************************************)
(* One dtn7zero node: bundle_protocol_agent.py with the storage, router    *)
(* and endpoints it drives.                                                *)
(*                                                                         *)
(* update() is cut at the points where something else may run: phase says  *)
(* which of its four parts comes next and stage how far the procedures of  *)
(* RFC 9171 have got with the object in hand.  The application's calls     *)
(* happen between updates and inside the callbacks, or at any time when a  *)
(* background thread runs the updates.                                     *)
(***************************************************************************)
EXTENDS SimpleEpidemicRouter, LocalEndpoints, SequencesExt

CONSTANTS
    RemoteBundles,      \* the foreign bundle copies neighbours may deliver
    BackgroundThread,   \* start_background_update_thread() drives update()
    CallbacksRaise      \* receive callbacks may raise exceptions

ASSUME AgentAssumption ==
    /\ RemoteBundles \subseteq Bundles
    /\ BackgroundThread \in BOOLEAN
    /\ CallbacksRaise \in BOOLEAN

VARIABLES
    registered,    \* local_registered_endpoints: URI -> endpoints
    queue,         \* local_bundle_dispatch_queue
    retry,         \* what storage_retry_generator has still to yield, or None
    phase,         \* the part of update() that comes next
    stage,         \* where the agent is with the object in hand
    current,       \* the object in hand, or None
    iter,          \* the delivery loop's list and position
    cancelled      \* ids whose cancellation found a bundle to delete

updateVars == <<phase, stage, current, iter>>
vars == <<storageVars, routerVars, endpointVars, registered, queue, retry,
          updateVars, cancelled>>

Phases == {"idle", "retry", "local", "poll"}
Stages == {"none", "dispatching", "delivery", "callbacks", "forwarding", "sending"}

(* live: members is the list object that is in registered right now. *)
NoIteration == [members |-> << >>, next |-> 1, live |-> FALSE]

AgentTypeOK ==
    /\ Map(registered, Uris, Seq(Endpoints \union GroupEndpoints))
    /\ queue \in Seq(DOMAIN info)
    /\ retry = None \/ retry \subseteq DOMAIN info
    /\ phase \in Phases /\ stage \in Stages
    /\ current \in DOMAIN info \union {None}
    /\ stage = "none" <=> current = None
    /\ stage # "none" => phase # "idle"
    /\ iter \in [members : Seq(Endpoints \union GroupEndpoints),
                 next : Nat \ {0}, live : BOOLEAN]
    /\ cancelled \subseteq BundleIds

TypeOK ==
    /\ StorageTypeOK /\ RouterTypeOK /\ EndpointTypeOK /\ AgentTypeOK
    /\ delivered \in [Endpoints -> Seq(DOMAIN info)]

Init ==
    /\ StorageInit /\ RouterInit /\ EndpointInit
    /\ registered = << >>
    /\ queue = << >>
    /\ retry = None
    /\ phase = "idle" /\ stage = "none" /\ current = None
    /\ iter = NoIteration
    /\ cancelled = {}
-----------------------------------------------------------------------------
(* The application.                                                        *)

AppMayCall ==
    \/ BackgroundThread
    \/ stage = "none" /\ phase = "idle"
    \/ stage = "callbacks" /\ iter.next > 1

NewInfo == CHOOSE r \in Infos : r \notin DOMAIN info

Create(record) ==
    /\ Infos \ DOMAIN info # {}
    /\ info' = Put(info, NewInfo, record)

StartTransmission(e, destination, anonymous) ==
    /\ AppMayCall
    /\ bpa[e]
    /\ Create(NewBundleInformation(NextBundle(e, destination, anonymous),
                                   clock, << >>, "application"))
    /\ AdvanceNumber(e)
    /\ queue' = Append(queue, NewInfo)
    /\ UNCHANGED <<bundles, bundle_ids, nodes, routerVars, clock, bpa, delivered,
                   registered, retry, updateVars, cancelled>>

(* cancel_transmission: whatever the store holds under the id is removed.  *)
CancelTransmission(e, r) ==
    /\ AppMayCall
    /\ bpa[e]
    /\ IdOf(r) \in DOMAIN bundles
    /\ RemoveBundle(IdOf(r))
    /\ cancelled' = cancelled \union {IdOf(r)}
    /\ UNCHANGED <<info, bundle_ids, nodes, routerVars, endpointVars,
                   registered, queue, retry, updateVars>>

RegisterEndpoint(e) ==
    /\ AppMayCall
    /\ e \notin Malformed
    /\ Uri[e] \notin DOMAIN registered
    /\ SetBpa(e, TRUE)
    /\ registered' = Put(registered, Uri[e], <<e>>)
    /\ UNCHANGED <<storageVars, routerVars, clock, last_time, last_num, delivered,
                   queue, retry, updateVars, cancelled>>

(* With a bug: the endpoint that is refused keeps its reference. *)
RefusedKeepsReference(e) ==
    /\ AppMayCall
    /\ e \in Malformed \/ Uri[e] \in DOMAIN registered
    /\ SetBpa(e, TRUE)
    /\ UNCHANGED <<storageVars, routerVars, clock, last_time, last_num, delivered,
                   registered, queue, retry, updateVars, cancelled>>

(* The exceptions of register_endpoint: a URI that fails the assertion     *)
(* leaves the bpa reference set, a URI already registered clears it.       *)
RegisterEndpointFails(e) ==
    /\ AppMayCall
    /\ \/ e \in Malformed /\ SetBpa(e, TRUE)
       \/ e \notin Malformed /\ Uri[e] \in DOMAIN registered /\ SetBpa(e, FALSE)
    /\ UNCHANGED <<storageVars, routerVars, clock, last_time, last_num, delivered,
                   registered, queue, retry, updateVars, cancelled>>

(* Whatever endpoint is registered at e's URI is the one unregistered.     *)
UnregisterEndpoint(e) ==
    /\ AppMayCall
    /\ bpa[e]
    /\ Uri[e] \in DOMAIN registered
    /\ SetBpa(registered[Uri[e]][1], FALSE)
    /\ registered' = Without(registered, {Uri[e]})
    /\ UNCHANGED <<storageVars, routerVars, clock, last_time, last_num, delivered,
                   queue, retry, updateVars, cancelled>>

(* The delivery loop runs over the list object itself and sees its changes *)
(* until the list leaves the table, which happens when it is empty.        *)
LoopSees(uri, members) ==
    iter' = IF iter.live /\ info[current].bundle.destination = uri
            THEN [iter EXCEPT !.members = members, !.live = members # << >>]
            ELSE iter

RegisterGroupEndpoint(g) ==
    LET members == IF Uri[g] \in DOMAIN registered
                   THEN Append(registered[Uri[g]], g) ELSE <<g>>
    IN  /\ AppMayCall
        /\ Len(members) <= MaxMembers
        /\ registered' = Put(registered, Uri[g], members)
        /\ LoopSees(Uri[g], members)
        /\ UNCHANGED <<storageVars, routerVars, endpointVars, queue, retry,
                       phase, stage, current, cancelled>>

(* With a bug: an empty list stays in the table. *)
UnregisterKeepsList(g) ==
    /\ AppMayCall
    /\ Uri[g] \in DOMAIN registered
    /\ g \in Range(registered[Uri[g]])
    /\ LET members == RemoveFirst(registered[Uri[g]], g)
       IN  /\ registered' = Put(registered, Uri[g], members)
           /\ LoopSees(Uri[g], members)
    /\ UNCHANGED <<storageVars, routerVars, endpointVars, queue, retry,
                   phase, stage, current, cancelled>>

UnregisterGroupEndpoint(g) ==
    /\ AppMayCall
    /\ Uri[g] \in DOMAIN registered
    /\ g \in Range(registered[Uri[g]])
    /\ LET members == RemoveFirst(registered[Uri[g]], g)
       IN  /\ registered' = IF members = << >>
                            THEN Without(registered, {Uri[g]})
                            ELSE Put(registered, Uri[g], members)
           /\ LoopSees(Uri[g], members)
    /\ UNCHANGED <<storageVars, routerVars, endpointVars, queue, retry,
                   phase, stage, current, cancelled>>
-----------------------------------------------------------------------------
(* update(), the parts that pick what to process.                          *)

PhaseAfter == [retry |-> "local", local |-> "poll", poll |-> "idle"]

(* The object in hand is done with: on to the next part of update(). *)
Finish ==
    /\ phase' = PhaseAfter[phase]
    /\ stage' = "none" /\ current' = None

Dispatch(r) ==
    /\ stage' = "dispatching" /\ current' = r
    /\ UNCHANGED phase

(* ipnd.update() takes at most one beacon from the socket: it adds the     *)
(* node it came from, or replaces the CLAs known of it.                    *)
UpdateDiscovery ==
    /\ phase = "idle" /\ stage = "none"
    /\ \/ UNCHANGED nodes
       \/ \E n \in Addresses, clas \in SUBSET Clas : SetNode(n, clas)
    /\ UNCHANGED <<info, bundles, bundle_ids, routerVars, endpointVars, registered,
                   queue, retry, stage, current, iter, cancelled>>

Discover == UpdateDiscovery /\ phase' = "retry"

(* Then it sends: the OSError of sendto leaves update() before any bundle  *)
(* had its turn, and while the network is down it does so in every call,   *)
(* as the time of the last broadcast is only set after it.                 *)
DiscoveryRaises == UpdateDiscovery /\ UNCHANGED phase

(* get_bundles_to_retry takes its snapshot when the generator is made, and *)
(* the generator goes on yielding from it in later updates.                *)
ToRetry == IF retry = None THEN Stored ELSE retry

RetryOne ==
    /\ phase = "retry" /\ stage = "none"
    /\ \E r \in ToRetry : Dispatch(r) /\ retry' = ToRetry \ {r}
    /\ UNCHANGED <<storageVars, routerVars, endpointVars, registered, queue,
                   iter, cancelled>>


RetryExhausted ==
    /\ phase = "retry" /\ stage = "none"
    /\ ToRetry = {}
    /\ retry' = None
    /\ Finish
    /\ UNCHANGED <<storageVars, routerVars, endpointVars, registered, queue,
                   iter, cancelled>>

(* The checks of bundle_reception, from the block flags to the lifetime.   *)
Unacceptable(bundle) ==
    \/ bundle.must_delete
    \/ HopLimitExceeded(bundle)
    \/ LifetimeExpired(bundle, clock)

(* bundle_reception of the object r of the heap: the bundle is deleted or  *)
(* goes on to dispatching.                                                 *)
Receive(r, heap) ==
    IF Unacceptable(heap[r].bundle)
    THEN info' = [heap EXCEPT ![r].retention_constraint = None] /\ Finish
    ELSE info' = [heap EXCEPT ![r].retention_constraint = "Dispatch pending"]
         /\ Dispatch(r)


ReceiveLocal ==
    /\ phase = "local" /\ stage = "none"
    /\ queue # << >>
    /\ Receive(Head(queue), info)
    /\ queue' = Tail(queue)
    /\ UNCHANGED <<bundles, bundle_ids, nodes, routerVars, endpointVars, registered,
                   retry, iter, cancelled>>

NothingLocal ==
    /\ phase = "local" /\ stage = "none"
    /\ queue = << >>
    /\ Finish
    /\ UNCHANGED <<storageVars, routerVars, endpointVars, registered, queue,
                   retry, iter, cancelled>>

(* A bundle of this node that some neighbour got can come back from there, *)
(* or from a third node that got it there.                                 *)
Echoes ==
    {OutgoingCopy(OutgoingCopy(info[r].bundle, clock, clock), clock, clock) :
        r \in {r \in DOMAIN info : /\ info[r].origin = "application"
                                   /\ info[r].forwarded_to # << >>}}

(* next(router_poll_generator) yields a copy whose id was not seen; seen   *)
(* ones are skipped without a trace.                                       *)
ReceiveRemote(bundle, address) ==
    /\ phase = "poll" /\ stage = "none"
    /\ bundle.id \notin DOMAIN bundle_ids
    /\ Infos \ DOMAIN info # {}
    /\ StoreSeen(bundle.id, address)
    /\ Receive(NewInfo, Put(info, NewInfo, PolledInformation(bundle, address, clock)))
    /\ UNCHANGED <<bundles, nodes, routerVars, endpointVars, registered, queue,
                   retry, iter, cancelled>>

NothingRemote ==
    /\ phase = "poll" /\ stage = "none"
    /\ Finish
    /\ UNCHANGED <<storageVars, routerVars, endpointVars, registered, queue,
                   retry, iter, cancelled>>
-----------------------------------------------------------------------------
(* update(), the procedures the object in hand goes through.               *)

GoTo(next) == stage' = next /\ UNCHANGED <<phase, current>>

(* With a bug: locally_delivered is not looked at. *)
DispatchingAgain ==
    /\ stage = "dispatching"
    /\ GoTo(IF info[current].bundle.destination \in DOMAIN registered
            THEN "delivery" ELSE "forwarding")
    /\ UNCHANGED <<storageVars, routerVars, endpointVars, registered, queue,
                   retry, iter, cancelled>>

(* bundle_dispatching: is there something to deliver here? *)
Dispatching ==
    /\ stage = "dispatching"
    /\ GoTo(IF /\ ~ info[current].locally_delivered
               /\ info[current].bundle.destination \in DOMAIN registered
            THEN "delivery" ELSE "forwarding")
    /\ UNCHANGED <<storageVars, routerVars, endpointVars, registered, queue,
                   retry, iter, cancelled>>

(* With a bug: the bundle is to be marked when all of it is delivered. *)
BeginDeliveryUnmarked ==
    LET uri == info[current].bundle.destination
    IN  /\ stage = "delivery"
        /\ uri \in DOMAIN registered
        /\ iter' = [members |-> registered[uri], next |-> 1,
                    live |-> uri \in GroupUris]
        /\ GoTo("callbacks")
        /\ UNCHANGED <<storageVars, routerVars, endpointVars, registered, queue,
                       retry, cancelled>>

(* local_bundle_delivery marks the bundle, then looks the endpoints up. *)
BeginDelivery ==
    LET uri == info[current].bundle.destination
    IN  /\ stage = "delivery"
        /\ uri \in DOMAIN registered
        /\ info' = [info EXCEPT ![current].locally_delivered = TRUE]
        /\ iter' = [members |-> registered[uri], next |-> 1,
                    live |-> uri \in GroupUris]
        /\ GoTo("callbacks")
        /\ UNCHANGED <<bundles, bundle_ids, nodes, routerVars, endpointVars,
                       registered, queue, retry, cancelled>>


(* The endpoint was unregistered since: KeyError leaves update(), and the  *)
(* bundle in hand is dropped with what was still to be done for it.  (It   *)
(* takes a background thread to get here, and ends that thread; later      *)
(* updates are then the application's own.)                                *)
DeliveryRaises ==
    /\ stage = "delivery"
    /\ info[current].bundle.destination \notin DOMAIN registered
    /\ info' = [info EXCEPT ![current].locally_delivered = TRUE]
    /\ phase' = "idle" /\ stage' = "none" /\ current' = None
    /\ UNCHANGED <<bundles, bundle_ids, nodes, routerVars, endpointVars, registered,
                   queue, retry, iter, cancelled>>

Deliver ==
    /\ stage = "callbacks"
    /\ iter.next <= Len(iter.members)
    /\ HandOver(iter.members[iter.next], current)
    /\ iter' = [iter EXCEPT !.next = @ + 1]
    /\ UNCHANGED <<storageVars, routerVars, clock, bpa, last_time, last_num,
                   registered, queue, retry, phase, stage, current, cancelled>>

(* The exception of a receive callback leaves update() as well: the other  *)
(* members of the group and the forwarding are skipped.                    *)
CallbackRaises ==
    /\ CallbacksRaise
    /\ stage = "callbacks" /\ iter.next > 1
    /\ iter' = NoIteration
    /\ phase' = "idle" /\ stage' = "none" /\ current' = None
    /\ UNCHANGED <<storageVars, routerVars, endpointVars, registered, queue,
                   retry, cancelled>>

EndDelivery ==
    /\ stage = "callbacks"
    /\ iter.next > Len(iter.members)
    /\ iter' = NoIteration
    /\ GoTo("forwarding")
    /\ UNCHANGED <<storageVars, routerVars, endpointVars, registered, queue,
                   retry, cancelled>>

BeginForwarding ==
    /\ stage = "forwarding"
    /\ info' = [info EXCEPT ![current].retention_constraint = "Forward pending"]
    /\ BeginForwardingAttempt(current)
    /\ GoTo("sending")
    /\ UNCHANGED <<bundles, bundle_ids, nodes, endpointVars, registered, queue,
                   retry, iter, cancelled>>

Send(n, sent) ==
    /\ stage = "sending"
    /\ SendToNode(current, n, sent)
    /\ UNCHANGED <<bundles, bundle_ids, endpointVars, registered, queue, retry,
                   updateVars, cancelled>>

EndForwarding ==
    /\ stage = "sending" /\ targets = {}
    /\ reason' = None /\ UNCHANGED targets
    /\ Finish

Forwarded ==
    /\ EndForwarding
    /\ Success(current)
    /\ info' = [info EXCEPT ![current].retention_constraint = None]
    /\ UNCHANGED <<bundles, bundle_ids, nodes, endpointVars, registered, queue,
                   retry, iter, cancelled>>

NoFailureCodes == {NoKnownRoute, NoTimelyContact, TrafficPared, Unidirectional}

(* Forwarding contraindicated: the bundle waits in the store, and what is  *)
(* evicted for it is deleted.  The router never returns another reason and *)
(* the store never refuses, so forwarding is never declared failed.        *)
Delayed(evicted) ==
    /\ EndForwarding
    /\ ~ Success(current)
    /\ FinalReason \in NoFailureCodes
    /\ DelayBundle(current, evicted)
    /\ info' = [r \in DOMAIN info |->
                    IF r \in {bundles[id] : id \in evicted}
                    THEN [info[r] EXCEPT !.retention_constraint = None]
                    ELSE info[r]]
    /\ UNCHANGED <<nodes, endpointVars, registered, queue, retry, iter, cancelled>>
-----------------------------------------------------------------------------
Procedure ==
    \/ Dispatching \/ BeginDelivery \/ DeliveryRaises
    \/ Deliver \/ CallbackRaises \/ EndDelivery
    \/ BeginForwarding \/ Forwarded
    \/ \E n \in targets, sent \in SUBSET UnicastClas : Send(n, sent)
    \/ \E evicted \in Evictions \union {{}} : Delayed(evicted)

Poll ==
    \/ NothingRemote
    \/ \E bundle \in RemoteBundles \union Echoes, address \in Addresses \union {None} :
            ReceiveRemote(bundle, address)

Processing ==
    \/ RetryOne \/ RetryExhausted \/ ReceiveLocal \/ NothingLocal
    \/ Procedure

Update == Discover \/ DiscoveryRaises \/ Processing \/ Poll

Application ==
    \/ \E e \in Endpoints :
          \/ \E destination \in Uris, anonymous \in AnonymousUse :
                StartTransmission(e, destination, anonymous)
          \/ \E r \in DOMAIN info : CancelTransmission(e, r)
          \/ RegisterEndpoint(e) \/ RegisterEndpointFails(e) \/ UnregisterEndpoint(e)
    \/ \E g \in GroupEndpoints : RegisterGroupEndpoint(g) \/ UnregisterGroupEndpoint(g)

TimePasses ==
    /\ Tick
    /\ UNCHANGED <<storageVars, routerVars, registered, queue, retry, updateVars,
                   cancelled>>

Next == Update \/ Application \/ TimePasses

Spec == Init /\ [][Next]_vars

(* run_forever, and an application that calls update() in a loop of its    *)
(* own, call it again and again, past its exceptions, and receive          *)
(* callbacks return.  Of the network it is assumed that it does not fail   *)
(* in the discovery of every call for ever, and of the neighbours that     *)
(* none keeps poll() waiting for ever for the rest of a bundle.            *)
FairSpec ==
    /\ Spec
    /\ WF_vars(Processing)
    /\ WF_vars(Discover)
    /\ WF_vars(Poll)
-----------------------------------------------------------------------------
(* Properties.                                                             *)

(* The store and the table of seen ids stay within their configured sizes, *)
(* the store because delay_bundle collects or evicts before it adds, the   *)
(* table because store_seen drops its oldest id.                           *)
Bounded ==
    /\ Cardinality(DOMAIN bundles) <= MaxStored
    /\ Cardinality(DOMAIN bundle_ids) <= MaxKnown

(* garbage_collect takes what has no retention constraint.  A stored       *)
(* bundle only loses its constraint once it has gone to MinNodes nodes, so *)
(* a bundle that still waits for a neighbour is never collected.           *)
OnlyForwardedCollected ==
    \A r \in Stored : 
        info[r].retention_constraint = None =>
            Len(info[r].forwarded_to) >= MinNodes

(* The agent never loses an object whose processing it began and did not   *)
(* complete: it is in hand, in the store or was cancelled.  (Deletion and  *)
(* eviction complete it: they take its constraints away.)                  *)
NothingLost ==
    \A r \in DOMAIN info :
        info[r].retention_constraint # None =>
            r = current \/ r \in Stored \/ IdOf(r) \in cancelled

(* Whatever exceptions end update() in the middle of a delivery, the       *)
(* application's calls in between and the ids the agent has forgotten: the *)
(* agent only loses an object that it marked as delivered or that has the  *)
(* id of another one.                                                      *)
LostOnlyDelivered ==
    \A r \in DOMAIN info :
        info[r].retention_constraint # None =>
            \/ r = current \/ r \in Stored \/ IdOf(r) \in cancelled
            \/ info[r].locally_delivered
            \/ \E s \in DOMAIN info \ {r} : IdOf(s) = IdOf(r)

(* The router's list of nodes that have the bundle names none twice: no    *)
(* node is sent an object twice, nor one that it was entered for as the    *)
(* sender when the copy was polled, and MinNodes really counts nodes.  (A  *)
(* sender unknown then is not in the list, and may be sent it back.)       *)
SentOncePerNode ==
    \A r \in DOMAIN info : IsInjective(info[r].forwarded_to)

(* A bundle leaves the store only if it was forwarded, was cancelled, or   *)
(* was received first of all when the store was full of pending bundles.   *)
LeavesStore ==
    \A id \in DOMAIN bundles \ DOMAIN bundles' :
        LET r == bundles[id]
        IN  \/ Len(info[r].forwarded_to) >= MinNodes
            \/ id \in cancelled'
            \/ /\ Cardinality(DOMAIN bundles) = MaxStored
               /\ \A s \in Stored :
                    /\ info[s].retention_constraint # None
                    /\ info[r].received_at <= info[s].received_at
PendingLeavesStoreRightly == [][LeavesStore]_vars

(* However often a bundle is retried, and whatever is registered meanwhile, *)
(* a unicast endpoint is handed each object at most once.                  *)
DeliveredOnce == \A e \in Endpoints : IsInjective(delivered[e])

(* A unicast URI has one registration, a group URI at least one, and all   *)
(* are for that URI: the [0] of unregister_endpoint finds its endpoint.    *)
RegistrationsMatch ==
    \A uri \in DOMAIN registered :
        /\ registered[uri] # << >>
        /\ uri \notin GroupUris => Len(registered[uri]) = 1
        /\ \A e \in Range(registered[uri]) : Uri[e] = uri

(* An endpoint with a well-formed URI can only send while it is the one    *)
(* that is registered there, and answers find it: whether register_endpoint *)
(* refuses it or another endpoint of its URI, and whoever is unregistered. *)
SendersRegistered ==
    \A e \in Endpoints \ Malformed :
        bpa[e] => Uri[e] \in DOMAIN registered /\ registered[Uri[e]] = <<e>>

(* "uniquely created from an endpoint" (bundle_reception): the application *)
(* never makes two bundles with one id.                                    *)
LocalIdsUnique ==
    \A r, s \in {r \in DOMAIN info : info[r].origin = "application"} :
        IdOf(r) = IdOf(s) => r = s

(* "bundles with the same ID should never land here" (bundle_reception):   *)
(* two objects of the same bundle are never both received.                 *)
ReceivedOnce ==
    \A r, s \in DOMAIN info \ Range(queue) : IdOf(r) = IdOf(s) => r = s

(* A foreign bundle is received once, as long as the table of seen ids     *)
(* never overflows: what the poll generators filter, and delay_bundle's    *)
(* own note of the id, never makes the agent forget where it had it.       *)
ForeignReceivedOnce ==
    \A r, s \in {r \in DOMAIN info : info[r].origin # "application"} :
        IdOf(r) = IdOf(s) => r = s

(* "canceling a transmission" (cancel_transmission): an object that was     *)
(* cancelled and is no longer in storage is not taken up for another       *)
(* transmission.                                                           *)
CancelledNotRetried ==
    [][\A r \in DOMAIN info :
          current' = r /\ current # r /\ IdOf(r) \in cancelled => r \in Stored]_vars

(* "When a bundle's hop count exceeds its hop limit, the bundle SHOULD be  *)
(* deleted" (bundle_reception): one that only reached it is dispatched.    *)
HopLimitReached ==
    [][\A r \in DOMAIN info' :
          LET bundle == info'[r].bundle
          IN  /\ r \notin DOMAIN info
              /\ info'[r].origin # "application"
              /\ bundle.hop_count = bundle.hop_limit
              /\ ~ bundle.must_delete /\ ~ LifetimeExpired(bundle, clock)
              => info'[r].retention_constraint = "Dispatch pending"]_vars


(* A stored bundle whose endpoint is registered later is still delivered,  *)
(* unless it leaves the store or the endpoint leaves again before that.    *)
Deliverable(r) ==
    /\ r \in Stored
    /\ ~ info[r].locally_delivered
    /\ info[r].bundle.destination \in DOMAIN registered
=============================================================================
