-------------------------------- MODULE IPND --------------------------------
(***************************************************************************)
(* Neighbour discovery: nodes that broadcast beacons on their networks and *)
(* answer the beacons of strangers, over a network that loses, duplicates  *)
(* and reorders datagrams.  Nodes restart, sendto raises, discovery is     *)
(* switched off and on.                                                    *)
(***************************************************************************)
EXTENDS Integers, FiniteSets, Sequences

CONSTANTS
    None,            \* Python's None
    Hosts,           \* the nodes that run dtn7zero; each is its own EID
    Late,            \* those of them that are configured with discovery off
    Networks,        \* the broadcast domains
    Interfaces,      \* the networks of each host, in the order netifaces names them
    Whitelist,       \* INTERFACE_WHITELIST of each host
    Faulty,          \* the hosts that may restart, fail to send or be switched off
    Periods,         \* beacon periods other implementations announce
    Width,           \* sequence numbers are taken modulo Width (2^32)
    MaxInFlight,     \* bound: datagrams in flight, but for those just sent
    MaxFaults        \* bound: restarts, failing sends, switching off, together

(* A host's address on a network is the pair of both. *)
Addresses == Hosts \X Networks
Numbers == 0 .. Width - 1

(* The service block: the announced layers and the private entry 42.       *)
Services == [clas : SUBSET {"mtcp"}, unicast : BOOLEAN]
NoServices == [clas |-> {}, unicast |-> FALSE]

Beacons == [eid : Hosts \union {None}, number : Numbers,
            services : Services \union {None}, period : Periods \union {None}]

(* The encoding is a list of integers and lists after a set of flags for   *)
(* the optional ones.  The decoder tells the items apart by their type and *)
(* by the order of those of one type, and that is what is kept of it here. *)
Flags == {"eid", "services", "period"}

Present(value) == IF value = None THEN << >> ELSE <<value>>

ToBlockData(beacon) ==
    [flags |-> {flag \in Flags : beacon[flag] # None},
     ints |-> <<beacon.number>> \o Present(beacon.period),
     lists |-> Present(beacon.eid) \o Present(beacon.services)]

(* With a bug: the first list is taken for the EID whatever the flags say. *)
FromBlockDataUnflagged(block) ==
    [eid |-> IF block.lists # << >> THEN block.lists[1] ELSE None,
     number |-> block.ints[1],
     services |-> IF "services" \in block.flags
                  THEN block.lists[Len(block.lists)] ELSE NoServices,
     period |-> IF "period" \in block.flags THEN block.ints[2] ELSE None]

FromBlockData(block) ==
    [eid |-> IF "eid" \in block.flags THEN block.lists[1] ELSE None,
     number |-> block.ints[1],
     services |-> IF "services" \in block.flags
                  THEN block.lists[Len(block.lists)] ELSE NoServices,
     period |-> IF "period" \in block.flags THEN block.ints[2] ELSE None]

ASSUME IPNDAssumption ==
    /\ Width \in Nat \ {0}
    /\ MaxInFlight \in Nat
    /\ MaxFaults \in Nat
    /\ Interfaces \in [Hosts -> Seq(Networks)]
    /\ Whitelist \in [Hosts -> SUBSET Networks]
    /\ None \notin Hosts \union Services \union Periods

VARIABLES
    own_beacon,   \* the Beacon object each host sends
    due,          \* SEND_INTERVAL_MILLISECONDS have passed since its last broadcast
    nodes,        \* the Node objects in its storage, by address
    enabled,      \* CONFIGURATION.IPND.ENABLED
    bound,        \* the socket has been bound (_was_enabled_once)
    net,          \* the datagrams in flight
    faults,       \* what has gone wrong so far (bounds the model)
    failed        \* its last answer could not be sent (for the properties)

vars == <<own_beacon, due, nodes, enabled, bound, net, faults, failed>>

Nodes == [eid : Hosts \union {None}, clas : SUBSET {"mtcp"}, number : Numbers]

(* depth counts the answers that led to a datagram (for the properties).   *)
Datagram(source, to, block, depth) ==
    [source |-> source, to |-> to, block |-> block, depth |-> depth]

TypeOK ==
    /\ own_beacon \in [Hosts -> Beacons]
    /\ due \in [Hosts -> BOOLEAN]
    /\ DOMAIN nodes = Hosts
    /\ \A n \in Hosts :
           /\ DOMAIN nodes[n] \subseteq Addresses
           /\ \A a \in DOMAIN nodes[n] : nodes[n][a] \in Nodes
    /\ enabled \in [Hosts -> BOOLEAN]
    /\ bound \in [Hosts -> BOOLEAN]
    /\ \A d \in net :
           /\ d = Datagram(d.source, d.to, d.block, d.depth)
           /\ d.source \in Addresses /\ d.to \in Addresses
           /\ d.depth \in Nat
           /\ FromBlockData(d.block) \in Beacons
           /\ d.block = ToBlockData(FromBlockData(d.block))
    /\ faults \in 0 .. MaxFaults
    /\ failed \in [Hosts -> BOOLEAN]

-----------------------------------------------------------------------------
Attached(n) == {Interfaces[n][i] : i \in DOMAIN Interfaces[n]}

(* The interfaces that are broadcast on: all, or those on the whitelist.   *)
(* A MicroPython node made while its WLAN was down has none, for good.     *)
Broadcasts(n) == {w \in Attached(n) : Whitelist[n] = {} \/ w \in Whitelist[n]}

OwnAddresses(n) == {n} \X Broadcasts(n)

FirstBeacon(n) ==
    [eid |-> n, number |-> 0,
     services |-> [clas |-> {"mtcp"}, unicast |-> FALSE], period |-> None]

Marked(beacon, mark) == [beacon EXCEPT !.services = [@ EXCEPT !.unicast = mark]]

(* With a bug: the sequence number does not wrap. *)
IncrementedUnbounded(beacon) == [beacon EXCEPT !.number = @ + 1]

Incremented(beacon) == [beacon EXCEPT !.number = (@ + 1) % Width]

Init ==
    /\ own_beacon = [n \in Hosts |-> FirstBeacon(n)]
    /\ due \in [Hosts -> BOOLEAN]
    /\ nodes = [n \in Hosts |-> << >>]
    /\ enabled = [n \in Hosts |-> n \notin Late]
    /\ bound = enabled
    /\ net = {}
    /\ faults = 0
    /\ failed = [n \in Hosts |-> FALSE]

-----------------------------------------------------------------------------
(* What recvfrom may return: a datagram in flight or its own broadcast.    *)
Heard(n) ==
    {d \in net : d.to[1] = n}
    \union {Datagram(a, a, ToBlockData(own_beacon[n]), 0) : a \in OwnAddresses(n)}

(* With a bug: the host's own addresses are not looked at. *)
RelevantFromAnyone(n, d) == d # None

Relevant(n, d) ==
    d # None /\ d.source \notin OwnAddresses(n)

AdvanceSequenceNumber(node, number) == node.number + 1 = number

(* With a bug: the layers of a known node are not replaced. *)
NodeAfterKeepingClas(n, d) ==
    LET beacon == FromBlockData(d.block)
        known == d.source \in DOMAIN nodes[n]
    IN  [eid |-> IF known /\ beacon.eid = None
                 THEN nodes[n][d.source].eid ELSE beacon.eid,
         clas |-> IF known THEN nodes[n][d.source].clas ELSE beacon.services.clas,
         number |-> beacon.number]

(* The Node object for the sender of d, made or updated. *)
NodeAfter(n, d) ==
    LET beacon == FromBlockData(d.block)
        known == d.source \in DOMAIN nodes[n]
    IN  [eid |-> IF known /\ beacon.eid = None
                 THEN nodes[n][d.source].eid ELSE beacon.eid,
         clas |-> beacon.services.clas, number |-> beacon.number]

SequenceNumberMatches(n, d) ==
    /\ d.source \in DOMAIN nodes[n]
    /\ AdvanceSequenceNumber(nodes[n][d.source], FromBlockData(d.block).number)

(* With a bug: a marked beacon is answered like any other. *)
ToAnswerAlways(n, d) == Relevant(n, d) /\ ~ SequenceNumberMatches(n, d)

ToAnswer(n, d) ==
    /\ Relevant(n, d)
    /\ ~ SequenceNumberMatches(n, d)
    /\ ~ FromBlockData(d.block).services.unicast

Answers(n, d) ==
    IF ToAnswer(n, d)
    THEN {Datagram(<<n, d.source[2]>>, d.source,
                   ToBlockData(Marked(own_beacon[n], TRUE)), d.depth + 1)}
    ELSE {}

(* With a bug: the mark is not deleted after the answer. *)
BeaconAfterAnswerMarked(n, d) ==
    IF ToAnswer(n, d) THEN Marked(own_beacon[n], TRUE) ELSE own_beacon[n]

(* The mark is deleted after the answer. *)
BeaconAfterAnswer(n, d) ==
    IF ToAnswer(n, d) THEN Marked(own_beacon[n], FALSE) ELSE own_beacon[n]

(* A broadcast reaches all hosts on the network (the sender: see Heard).   *)
BroadcastOn(n, beacon, networks) ==
    {Datagram(<<n, a[2]>>, a, ToBlockData(beacon), 0) :
         a \in {a \in Hosts \X networks : a[1] # n /\ a[2] \in Attached(a[1])}}

(* What was received may come again; what does not fit any more is lost.   *)
Transmit(received, sent) ==
    \E rest \in {net, net \ {received}} :
        IF Cardinality(rest \union sent) <= MaxInFlight
        THEN net' = rest \union sent
        ELSE \E kept \in SUBSET rest :
                 /\ \/ Cardinality(kept \union sent) = MaxInFlight
                    \/ kept = {} /\ Cardinality(sent) > MaxInFlight
                 /\ net' = kept \union sent

(* With a bug: the socket is not bound when discovery is switched on late. *)
TakeBeaconUnbound(n, d) ==
    /\ enabled[n]
    /\ bound[n] \/ d = None
    /\ nodes' = IF Relevant(n, d)
                THEN [nodes EXCEPT ![n] = [a \in DOMAIN @ \union {d.source} |->
                          IF a = d.source THEN NodeAfter(n, d) ELSE @[a]]]
                ELSE nodes
    /\ UNCHANGED <<enabled, bound>>

(* The first half of update(): bind the socket, take one datagram or none. *)
TakeBeacon(n, d) ==
    /\ enabled[n]
    /\ bound' = [bound EXCEPT ![n] = TRUE]
    /\ bound'[n] \/ d = None
    /\ nodes' = IF Relevant(n, d)
                THEN [nodes EXCEPT ![n] = [a \in DOMAIN @ \union {d.source} |->
                          IF a = d.source THEN NodeAfter(n, d) ELSE @[a]]]
                ELSE nodes
    /\ UNCHANGED enabled

FinishQuietly(n, d) ==
    /\ ~ due[n]
    /\ own_beacon' = [own_beacon EXCEPT ![n] = BeaconAfterAnswer(n, d)]
    /\ failed' = [failed EXCEPT ![n] = @ /\ ~ ToAnswer(n, d)]
    /\ Transmit(d, Answers(n, d))
    /\ UNCHANGED <<due, faults>>

FinishWithBroadcast(n, d) ==
    /\ due[n]
    /\ due' = [due EXCEPT ![n] = FALSE]
    /\ own_beacon' = [own_beacon EXCEPT ![n] = Incremented(BeaconAfterAnswer(n, d))]
    /\ failed' = [failed EXCEPT ![n] = @ /\ ~ ToAnswer(n, d)]
    /\ Transmit(d, Answers(n, d) \union BroadcastOn(n, own_beacon'[n], Broadcasts(n)))
    /\ UNCHANGED faults

Fault(n) == n \in Faulty /\ faults < MaxFaults /\ faults' = faults + 1

(* sendto raises and the exception leaves update().  If it was the answer, *)
(* the mark stays in the beacon.                                           *)
AnswerRaises(n, d) ==
    /\ ToAnswer(n, d)
    /\ Fault(n)
    /\ own_beacon' = [own_beacon EXCEPT ![n] = Marked(@, TRUE)]
    /\ failed' = [failed EXCEPT ![n] = TRUE]
    /\ Transmit(d, {})
    /\ UNCHANGED due

(* If it was a broadcast, the interfaces before it were served, and the    *)
(* next update begins again with a new number.                             *)
BroadcastRaises(n, d, i) ==
    /\ due[n]
    /\ Fault(n)
    /\ Interfaces[n][i] \in Broadcasts(n)
    /\ own_beacon' = [own_beacon EXCEPT ![n] = Incremented(BeaconAfterAnswer(n, d))]
    /\ failed' = [failed EXCEPT ![n] = @ /\ ~ ToAnswer(n, d)]
    /\ LET served == {Interfaces[n][j] : j \in 1 .. i - 1} \intersect Broadcasts(n)
       IN  Transmit(d, Answers(n, d) \union BroadcastOn(n, own_beacon'[n], served))
    /\ UNCHANGED due

Update(n, d) ==
    /\ TakeBeacon(n, d)
    /\ \/ FinishQuietly(n, d)
       \/ FinishWithBroadcast(n, d)
       \/ AnswerRaises(n, d)
       \/ \E i \in DOMAIN Interfaces[n] : BroadcastRaises(n, d, i)

-----------------------------------------------------------------------------
IntervalPasses(n) ==
    /\ ~ due[n]
    /\ due' = [due EXCEPT ![n] = TRUE]
    /\ UNCHANGED <<own_beacon, nodes, enabled, bound, net, faults, failed>>

SwitchOn(n) ==
    /\ ~ enabled[n]
    /\ enabled' = [enabled EXCEPT ![n] = TRUE]
    /\ UNCHANGED <<own_beacon, due, nodes, bound, net, faults, failed>>

SwitchOff(n) ==
    /\ enabled[n]
    /\ Fault(n)
    /\ enabled' = [enabled EXCEPT ![n] = FALSE]
    /\ UNCHANGED <<own_beacon, due, nodes, bound, net, failed>>

(* Nothing is kept over a restart, and numbering begins again. *)
Restart(n) ==
    /\ Fault(n)
    /\ own_beacon' = [own_beacon EXCEPT ![n] = FirstBeacon(n)]
    /\ due' \in {due, [due EXCEPT ![n] = TRUE]}
    /\ nodes' = [nodes EXCEPT ![n] = << >>]
    /\ bound' = [bound EXCEPT ![n] = enabled[n]]
    /\ failed' = [failed EXCEPT ![n] = FALSE]
    /\ UNCHANGED <<enabled, net>>

WithoutLayer(node) == [node EXCEPT !.clas = @ \ {"mtcp"}]

(* MTcpCLA.send_to could not reach the node and takes the layer from it.   *)
LayerFails(n, a) ==
    /\ n \in Faulty
    /\ "mtcp" \in nodes[n][a].clas
    /\ nodes' = [nodes EXCEPT ![n] = [@ EXCEPT ![a] = WithoutLayer(nodes[n][a])]]
    /\ UNCHANGED <<own_beacon, due, enabled, bound, net, faults, failed>>

Next ==
    \E n \in Hosts :
        \/ Update(n, None)
        \/ \E d \in Heard(n) : Update(n, d)
        \/ IntervalPasses(n)
        \/ SwitchOn(n)
        \/ SwitchOff(n)
        \/ Restart(n)
        \/ \E a \in DOMAIN nodes[n] : LayerFails(n, a)

Spec == Init /\ [][Next]_vars

(* update() is called for ever, the clock runs, and of the beacons a host  *)
(* sends again and again to another some arrive.                           *)
Reaches(m, w, n) == m # n /\ w \in Broadcasts(m) /\ w \in Attached(n)

Hears(n, a) ==
    \E d \in net :
        /\ d.source = a /\ d.to[1] = n
        /\ TakeBeacon(n, d)
        /\ FinishQuietly(n, d) \/ FinishWithBroadcast(n, d)

Broadcasting(n) ==
    /\ due[n]
    /\ due' = [due EXCEPT ![n] = FALSE]
    /\ \E d \in {None} \union Heard(n) : TakeBeacon(n, d) /\ FinishWithBroadcast(n, d)

Fairness ==
    \A n \in Hosts :
        /\ WF_vars(IntervalPasses(n))
        /\ WF_vars(Broadcasting(n))
        /\ \A m \in Hosts, w \in Networks :
               Reaches(m, w, n) => SF_vars(Hears(n, <<m, w>>))

FairSpec == Spec /\ Fairness

-----------------------------------------------------------------------------
(* Properties.                                                             *)

(* Decoding an encoded beacon gives it back, whichever of the optional     *)
(* parts it has; a missing service block is an empty one.                  *)
BeaconsDecoded ==
    \A n \in Hosts : \A eid \in {n, None}, period \in Periods \union {None},
                        services \in {own_beacon[n].services, None} :
        LET beacon == [own_beacon[n] EXCEPT !.eid = eid, !.services = services,
                                            !.period = period]
        IN  FromBlockData(ToBlockData(beacon)) =
                IF services = None
                THEN [beacon EXCEPT !.services = NoServices] ELSE beacon

(* Whoever a host knows is somebody else, and known by its own EID: its    *)
(* own broadcasts, which come back to it on every interface it broadcasts  *)
(* on, are told apart from a neighbour's.                                  *)
NeighboursAreOthers ==
    \A n \in Hosts : \A a \in DOMAIN nodes[n] :
        a[1] # n /\ nodes[n][a].eid = a[1]

(* No answer answers an answer, so two hosts never keep each other busy,   *)
(* whatever is lost, repeated or out of order, however often a sequence    *)
(* number does not match, and whatever fails.                              *)
AnswersEnd == \A d \in net : d.depth <= 1

(* The mark is in a broadcast, or left in the beacon between updates, only *)
(* after an answer could not be sent.                                      *)
MarkOnlyAfterFailure ==
    \A n \in Hosts : own_beacon[n].services.unicast => failed[n]

(* Hosts that keep discovery on find whoever broadcasts where they listen, *)
(* on each of its interfaces, and again after a restart or a failure.      *)
Discovered ==
    \A m, n \in Hosts, w \in Networks :
        Reaches(m, w, n) =>
            (<>[](enabled[m] /\ enabled[n]) => <>[](<<m, w>> \in DOMAIN nodes[n]))

(* A layer that was taken from a node because a connection failed is       *)
(* announced again.                                                        *)
LayerReannounced ==
    \A m, n \in Hosts, w \in Networks :
        Reaches(m, w, n) =>
            (<>[](enabled[m] /\ enabled[n])
             => []<>(<<m, w>> \in DOMAIN nodes[n] /\ "mtcp" \in nodes[n][<<m, w>>].clas))
=============================================================================
