----------------------------- MODULE IPNDProofs -----------------------------
(***************************************************************************)
(* Proofs about the discovery, for every value of its constants: what a    *)
(* host sends is its own beacon, what it hears from somebody else decodes  *)
(* to that host's beacon, and an answer is never answered.                 *)
(***************************************************************************)
EXTENDS IPND, TLAPS

(* The beacons host n sends: only the number and the mark ever change.     *)
HostServices == [clas : {{"mtcp"}}, unicast : BOOLEAN]

HostBeacons(n) ==
    [eid : {n}, number : Numbers, services : HostServices, period : {None}]

OwnBeaconsInv ==
    /\ own_beacon \in [Hosts -> Beacons]
    /\ \A n \in Hosts : own_beacon[n] \in HostBeacons(n)

(* A datagram in flight carries a beacon of its source to another host,    *)
(* and one that is an answer is marked.                                    *)
DatagramOK(d) ==
    \E a \in Addresses, to \in Addresses, depth \in 0 .. 1 :
        \E beacon \in HostBeacons(a[1]) :
            /\ d = Datagram(a, to, ToBlockData(beacon), depth)
            /\ a[1] # to[1]
            /\ depth = 1 => beacon.services.unicast

NetInv == \A d \in net : DatagramOK(d)

NodesInv ==
    /\ DOMAIN nodes = Hosts
    /\ \A n \in Hosts : \A a \in DOMAIN nodes[n] :
           /\ a \in Addresses
           /\ nodes[n][a] \in Nodes
           /\ a[1] # n
           /\ nodes[n][a].eid = a[1]

MarkInv == \A n \in Hosts : own_beacon[n].services.unicast => failed[n]

FlagsInv ==
    /\ due \in [Hosts -> BOOLEAN]
    /\ enabled \in [Hosts -> BOOLEAN]
    /\ bound \in [Hosts -> BOOLEAN]
    /\ failed \in [Hosts -> BOOLEAN]
    /\ faults \in 0 .. MaxFaults

IInv == OwnBeaconsInv /\ NetInv /\ NodesInv /\ MarkInv /\ FlagsInv

-----------------------------------------------------------------------------
(* Taking a layer from a node leaves a node with the same EID. *)
LEMMA WithoutLayerType ==
    ASSUME NEW node \in Nodes
    PROVE  WithoutLayer(node) \in Nodes /\ WithoutLayer(node).eid = node.eid
  <1>1. PICK eid \in Hosts \union {None}, clas \in SUBSET {"mtcp"}, number \in Numbers :
            node = [eid |-> eid, clas |-> clas, number |-> number]
    BY DEF Nodes
  <1> DEFINE left == clas \ {"mtcp"}
  <1>2. WithoutLayer(node) = [eid |-> eid, clas |-> left, number |-> number]
    BY <1>1 DEF WithoutLayer
  <1>3. left \in SUBSET {"mtcp"}
    OBVIOUS
  <1> HIDE DEF left
  <1>4. [eid |-> eid, clas |-> left, number |-> number] \in Nodes
    BY <1>3 DEF Nodes
  <1>5. [eid |-> eid, clas |-> left, number |-> number].eid = node.eid
    BY <1>1
  <1> QED
    BY <1>2, <1>4, <1>5

(* What from_block_data makes of an encoded beacon is that beacon, with an *)
(* empty service block where there was none.                               *)
LEMMA Decoding ==
    ASSUME NEW beacon \in Beacons
    PROVE  FromBlockData(ToBlockData(beacon)) =
               IF beacon.services = None
               THEN [beacon EXCEPT !.services = NoServices] ELSE beacon
  <1> DEFINE block == ToBlockData(beacon)
             result == IF beacon.services = None
                       THEN [beacon EXCEPT !.services = NoServices] ELSE beacon
  <1>0. None \notin Hosts /\ None \notin Services /\ None \notin Periods
    BY IPNDAssumption
  <1>1. /\ block.flags = {flag \in Flags : beacon[flag] # None}
        /\ block.ints = <<beacon.number>> \o Present(beacon.period)
        /\ block.lists = Present(beacon.eid) \o Present(beacon.services)
    BY DEF ToBlockData
  <1>2. /\ "eid" \in block.flags <=> beacon.eid # None
        /\ "services" \in block.flags <=> beacon.services # None
        /\ "period" \in block.flags <=> beacon.period # None
    BY <1>1 DEF Flags, Beacons
  <1>3. block.ints[1] = beacon.number
    BY <1>1 DEF Present, Beacons
  <1>4. beacon.period # None => block.ints[2] = beacon.period
    BY <1>1 DEF Present, Beacons
  <1>5. beacon.eid # None => block.lists[1] = beacon.eid
    BY <1>1 DEF Present, Beacons
  <1>6. beacon.services # None => block.lists[Len(block.lists)] = beacon.services
    BY <1>1 DEF Present, Beacons
  <1>7. FromBlockData(block) =
            [eid |-> beacon.eid, number |-> beacon.number,
             services |-> IF beacon.services = None THEN NoServices ELSE beacon.services,
             period |-> beacon.period]
    BY <1>2, <1>3, <1>4, <1>5, <1>6 DEF FromBlockData
  <1> QED
    BY <1>7 DEF Beacons

-----------------------------------------------------------------------------
(* IInv holds in every state: an own broadcast is not relevant, so what    *)
(* changes the nodes or is answered came from another host, and an answer  *)
(* is made only to an unmarked datagram, which is none itself.             *)
LEMMA Inductive == Spec => []IInv
  <1> USE IPNDAssumption
  <1>0. \A n \in Hosts : HostBeacons(n) \subseteq Beacons
    BY DEF HostBeacons, HostServices, Beacons, Services
  <1>1. Init => IInv
    <2> SUFFICES ASSUME Init PROVE IInv
      OBVIOUS
    <2>1. \A n \in Hosts : own_beacon[n] = FirstBeacon(n)
      BY DEF Init
    <2>2. 0 \in Numbers
      BY DEF Numbers
    <2>3. OwnBeaconsInv
      <3>1. \A n \in Hosts : FirstBeacon(n) \in HostBeacons(n)
        BY <2>2 DEF HostBeacons, HostServices, FirstBeacon
      <3> QED
        BY <1>0, <2>1, <3>1 DEF Init, OwnBeaconsInv
    <2>4. MarkInv
      <3>1. \A n \in Hosts : FirstBeacon(n).services.unicast = FALSE
        BY DEF FirstBeacon
      <3> QED
        BY <2>1, <3>1, Zenon DEF MarkInv
    <2>5. NetInv /\ NodesInv /\ FlagsInv
      BY DEF Init, NetInv, NodesInv, FlagsInv
    <2> QED
      BY <2>3, <2>4, <2>5 DEF IInv
  <1>2. ASSUME IInv, [Next]_vars PROVE IInv'
    <2> USE <1>2 DEF IInv
    <2>1. \A n \in Hosts : Attached(n) \subseteq Networks
      BY DEF Attached
    <2>2. ASSUME NEW n \in Hosts, NEW mark \in BOOLEAN
          PROVE  /\ Marked(own_beacon[n], mark) \in HostBeacons(n)
                 /\ Marked(own_beacon[n], mark).services.unicast = mark
      <3>1. own_beacon[n] \in HostBeacons(n)
        BY DEF OwnBeaconsInv
      <3>2. own_beacon[n].services \in HostServices
        BY <3>1 DEF HostBeacons
      <3>3. /\ [own_beacon[n].services EXCEPT !.unicast = mark] \in HostServices
            /\ [own_beacon[n].services EXCEPT !.unicast = mark].unicast = mark
        BY <3>2 DEF HostServices
      <3> QED
        BY <3>1, <3>3 DEF HostBeacons, Marked
    <2>3. ASSUME NEW n \in Hosts, NEW beacon \in HostBeacons(n)
          PROVE  /\ Incremented(beacon) \in HostBeacons(n)
                 /\ Incremented(beacon).services = beacon.services
      <3>1. (beacon.number + 1) % Width \in Numbers
        BY DEF HostBeacons, Numbers
      <3> QED
        BY <3>1 DEF HostBeacons, Incremented
    <2>4. ASSUME NEW n \in Hosts, NEW beacon \in HostBeacons(n)
          PROVE  FromBlockData(ToBlockData(beacon)) = beacon
      <3>1. beacon \in Beacons /\ beacon.services # None
        BY DEF HostBeacons, HostServices, Beacons, Services
      <3> QED
        BY <3>1, Decoding
    <2>5. ASSUME NEW n \in Hosts, Update(n, None) \/ \E d \in Heard(n) : Update(n, d)
          PROVE  IInv'
      <3> PICK d \in {None} \union Heard(n) : Update(n, d)
        BY <2>5
      <3>1. ASSUME Relevant(n, d)
            PROVE  /\ d.source \in Addresses /\ d.source[1] \in Hosts \ {n}
                   /\ d.depth \in 0 .. 1
                   /\ FromBlockData(d.block) \in HostBeacons(d.source[1])
                   /\ d.depth = 1 => FromBlockData(d.block).services.unicast
        <4>1. d \in net /\ d.to[1] = n
          BY <3>1 DEF Relevant, Heard, Datagram
        <4>2. PICK a \in Addresses, to \in Addresses, depth \in 0 .. 1 :
                 \E beacon \in HostBeacons(a[1]) :
                    /\ d = Datagram(a, to, ToBlockData(beacon), depth)
                    /\ a[1] # to[1]
                    /\ depth = 1 => beacon.services.unicast
          BY <4>1 DEF NetInv, DatagramOK
        <4>3. PICK beacon \in HostBeacons(a[1]) :
                 /\ d = Datagram(a, to, ToBlockData(beacon), depth)
                 /\ a[1] # to[1]
                 /\ depth = 1 => beacon.services.unicast
          BY <4>2
        <4>4. d.source = a /\ d.to = to /\ d.block = ToBlockData(beacon) /\ d.depth = depth
          BY <4>3 DEF Datagram
        <4>5. a[1] \in Hosts
          BY DEF Addresses
        <4>6. FromBlockData(d.block) = beacon
          BY <2>4, <4>4, <4>5
        <4> QED
          BY <4>1, <4>3, <4>4, <4>5, <4>6
      <3>2. NodesInv' /\ bound' \in [Hosts -> BOOLEAN] /\ enabled' \in [Hosts -> BOOLEAN]
        <4>1. TakeBeacon(n, d)
          BY DEF Update
        <4>2. bound' \in [Hosts -> BOOLEAN] /\ enabled' \in [Hosts -> BOOLEAN]
          BY <4>1 DEF TakeBeacon, FlagsInv
        <4>3. ASSUME Relevant(n, d) PROVE NodesInv'
          <5>1. NodeAfter(n, d) \in Nodes /\ NodeAfter(n, d).eid = d.source[1]
            BY <3>1, <4>3 DEF NodeAfter, Nodes, HostBeacons, HostServices
          <5>2. nodes' = [nodes EXCEPT ![n] = [a \in DOMAIN nodes[n] \union {d.source} |->
                    IF a = d.source THEN NodeAfter(n, d) ELSE nodes[n][a]]]
            BY <4>1, <4>3 DEF TakeBeacon
          <5>3. /\ DOMAIN nodes' = Hosts
                /\ \A m \in Hosts \ {n} : nodes'[m] = nodes[m]
                /\ nodes'[n] = [a \in DOMAIN nodes[n] \union {d.source} |->
                        IF a = d.source THEN NodeAfter(n, d) ELSE nodes[n][a]]
            BY <5>2 DEF NodesInv
          <5>4. /\ DOMAIN nodes'[n] = DOMAIN nodes[n] \union {d.source}
                /\ nodes'[n][d.source] = NodeAfter(n, d)
                /\ \A a \in DOMAIN nodes[n] \ {d.source} : nodes'[n][a] = nodes[n][a]
            BY <5>3
          <5>5. ASSUME NEW m \in Hosts, NEW a \in DOMAIN nodes'[m]
                PROVE  /\ a \in Addresses
                       /\ nodes'[m][a] \in Nodes
                       /\ a[1] # m
                       /\ nodes'[m][a].eid = a[1]
            <6>1. CASE m = n /\ a = d.source
              BY <3>1, <4>3, <5>1, <5>4, <6>1
            <6>2. CASE m = n /\ a # d.source
              BY <5>4, <6>2 DEF NodesInv
            <6>3. CASE m # n
              BY <5>3, <6>3 DEF NodesInv
            <6> QED
              BY <6>1, <6>2, <6>3
          <5> QED
            BY <5>3, <5>5 DEF NodesInv
        <4>4. ASSUME ~ Relevant(n, d) PROVE NodesInv'
          BY <4>1, <4>4 DEF TakeBeacon, NodesInv
        <4> QED
          BY <4>2, <4>3, <4>4
      <3>3. /\ BeaconAfterAnswer(n, d) \in HostBeacons(n)
            /\ ToAnswer(n, d) => BeaconAfterAnswer(n, d).services.unicast = FALSE
            /\ ~ ToAnswer(n, d) => BeaconAfterAnswer(n, d) = own_beacon[n]
        BY <2>2 DEF BeaconAfterAnswer, OwnBeaconsInv
      <3>4. \A x \in Answers(n, d) : DatagramOK(x)
        <4> SUFFICES ASSUME ToAnswer(n, d)
                     PROVE  DatagramOK(Datagram(<<n, d.source[2]>>, d.source,
                                ToBlockData(Marked(own_beacon[n], TRUE)), d.depth + 1))
          BY DEF Answers
        <4> DEFINE a == <<n, d.source[2]>>
                   beacon == Marked(own_beacon[n], TRUE)
        <4>1. Relevant(n, d) /\ ~ FromBlockData(d.block).services.unicast
          BY DEF ToAnswer
        <4>2. a \in Addresses /\ d.source \in Addresses /\ a[1] = n /\ a[1] # d.source[1]
          BY <3>1, <4>1 DEF Addresses
        <4>3. d.depth + 1 \in 0 .. 1
          BY <3>1, <4>1
        <4>4. beacon \in HostBeacons(a[1]) /\ beacon.services.unicast = TRUE
          BY <2>2, <4>2
        <4> HIDE DEF a, beacon
        <4>5. DatagramOK(Datagram(a, d.source, ToBlockData(beacon), d.depth + 1))
          BY <4>2, <4>3, <4>4, Zenon DEF DatagramOK
        <4> QED
          BY <4>5 DEF a, beacon
      <3>5. ASSUME NEW networks \in SUBSET Networks, NEW beacon \in HostBeacons(n),
                   NEW x \in BroadcastOn(n, beacon, networks)
            PROVE  DatagramOK(x)
        <4>1. PICK to \in Hosts \X networks :
                 to[1] # n /\ x = Datagram(<<n, to[2]>>, to, ToBlockData(beacon), 0)
          BY DEF BroadcastOn
        <4> DEFINE a == <<n, to[2]>>
        <4>2. a \in Addresses /\ to \in Addresses /\ a[1] = n /\ a[1] # to[1]
          BY <4>1 DEF Addresses
        <4>3. x = Datagram(a, to, ToBlockData(beacon), 0)
          BY <4>1
        <4>4. 0 \in 0 .. 1 /\ 0 # 1
          OBVIOUS
        <4> HIDE DEF a
        <4> QED
          BY <4>2, <4>3, <4>4, Zenon DEF DatagramOK
      <3>6. ASSUME NEW sent, Transmit(d, sent), \A x \in sent : DatagramOK(x)
            PROVE  NetInv'
        <4>1. \A x \in net' : x \in net \/ x \in sent
          BY <3>6 DEF Transmit
        <4> QED
          BY <3>6, <4>1 DEF NetInv
      <3>7. ASSUME NEW beacon \in HostBeacons(n), NEW f \in BOOLEAN,
                   own_beacon' = [own_beacon EXCEPT ![n] = beacon],
                   failed' = [failed EXCEPT ![n] = f],
                   beacon.services.unicast => f
            PROVE  OwnBeaconsInv' /\ MarkInv' /\ failed' \in [Hosts -> BOOLEAN]
        <4>1. OwnBeaconsInv' /\ failed' \in [Hosts -> BOOLEAN]
          BY <1>0, <3>7 DEF OwnBeaconsInv, FlagsInv
        <4>2. \A m \in Hosts :
                 /\ own_beacon'[m] = IF m = n THEN beacon ELSE own_beacon[m]
                 /\ failed'[m] = IF m = n THEN f ELSE failed[m]
          BY <3>7 DEF OwnBeaconsInv, FlagsInv
        <4>3. MarkInv'
          BY <3>7, <4>2, Zenon DEF MarkInv
        <4> QED
          BY <4>1, <4>3
      <3>8. /\ (failed[n] /\ ~ ToAnswer(n, d)) \in BOOLEAN
            /\ BeaconAfterAnswer(n, d).services.unicast => failed[n] /\ ~ ToAnswer(n, d)
        BY <3>3, Zenon DEF MarkInv
      <3>9. Incremented(BeaconAfterAnswer(n, d)) \in HostBeacons(n)
            /\ Incremented(BeaconAfterAnswer(n, d)).services = BeaconAfterAnswer(n, d).services
        BY <2>3, <3>3
      <3>10. \A networks \in SUBSET Networks :
                own_beacon'[n] \in HostBeacons(n) =>
                    \A x \in Answers(n, d) \union BroadcastOn(n, own_beacon'[n], networks) :
                        DatagramOK(x)
        BY <3>4, <3>5
      <3>11. CASE FinishQuietly(n, d)
        <4>1. OwnBeaconsInv' /\ MarkInv' /\ failed' \in [Hosts -> BOOLEAN]
          BY <3>3, <3>7, <3>8, <3>11 DEF FinishQuietly
        <4>2. NetInv'
          BY <3>4, <3>6, <3>11 DEF FinishQuietly
        <4> QED
          BY <3>2, <3>11, <4>1, <4>2 DEF FinishQuietly, FlagsInv
      <3>12. CASE FinishWithBroadcast(n, d)
        <4>1. OwnBeaconsInv' /\ MarkInv' /\ failed' \in [Hosts -> BOOLEAN]
          BY <3>7, <3>8, <3>9, <3>12 DEF FinishWithBroadcast
        <4>2. NetInv'
          BY <2>1, <3>6, <3>10, <3>12, <4>1 DEF FinishWithBroadcast, Broadcasts, OwnBeaconsInv
        <4>3. due' \in [Hosts -> BOOLEAN]
          BY <3>12 DEF FinishWithBroadcast, FlagsInv
        <4> QED
          BY <3>2, <3>12, <4>1, <4>2, <4>3 DEF FinishWithBroadcast, FlagsInv
      <3>13. CASE AnswerRaises(n, d)
        <4>1. OwnBeaconsInv' /\ MarkInv' /\ failed' \in [Hosts -> BOOLEAN]
          BY <2>2, <3>7, <3>13 DEF AnswerRaises
        <4>2. NetInv'
          BY <3>6, <3>13 DEF AnswerRaises
        <4>3. faults' \in 0 .. MaxFaults
          BY <3>13 DEF AnswerRaises, Fault, FlagsInv
        <4> QED
          BY <3>2, <3>13, <4>1, <4>2, <4>3 DEF AnswerRaises, FlagsInv
      <3>14. CASE \E i \in DOMAIN Interfaces[n] : BroadcastRaises(n, d, i)
        <4> PICK i \in DOMAIN Interfaces[n] : BroadcastRaises(n, d, i)
          BY <3>14
        <4>1. OwnBeaconsInv' /\ MarkInv' /\ failed' \in [Hosts -> BOOLEAN]
          BY <3>7, <3>8, <3>9 DEF BroadcastRaises
        <4>2. NetInv'
          BY <2>1, <3>6, <3>10, <4>1 DEF BroadcastRaises, Broadcasts, OwnBeaconsInv
        <4>3. faults' \in 0 .. MaxFaults
          BY DEF BroadcastRaises, Fault, FlagsInv
        <4> QED
          BY <3>2, <4>1, <4>2, <4>3 DEF BroadcastRaises, FlagsInv
      <3> QED
        BY <3>11, <3>12, <3>13, <3>14 DEF Update
    <2>6. ASSUME NEW n \in Hosts, IntervalPasses(n) \/ SwitchOn(n) \/ SwitchOff(n)
          PROVE  IInv'
      <3>1. /\ due' \in [Hosts -> BOOLEAN]
            /\ enabled' \in [Hosts -> BOOLEAN]
        BY <2>6 DEF IntervalPasses, SwitchOn, SwitchOff, FlagsInv
      <3>2. faults' \in 0 .. MaxFaults
        BY <2>6 DEF IntervalPasses, SwitchOn, SwitchOff, Fault, FlagsInv
      <3>3. FlagsInv'
        BY <2>6, <3>1, <3>2 DEF IntervalPasses, SwitchOn, SwitchOff, FlagsInv
      <3>4. UNCHANGED <<own_beacon, net, nodes, failed>>
        BY <2>6 DEF IntervalPasses, SwitchOn, SwitchOff
      <3> QED
        BY <3>3, <3>4 DEF OwnBeaconsInv, NetInv, NodesInv, MarkInv
    <2>7. ASSUME NEW n \in Hosts, Restart(n) PROVE IInv'
      <3>1. FirstBeacon(n) \in HostBeacons(n) /\ ~ FirstBeacon(n).services.unicast
        BY DEF FirstBeacon, HostBeacons, HostServices, Numbers
      <3>2. OwnBeaconsInv'
        BY <1>0, <2>7, <3>1 DEF Restart, OwnBeaconsInv
      <3>3. NodesInv'
        <4>1. /\ DOMAIN nodes' = Hosts
              /\ DOMAIN nodes'[n] = {}
              /\ \A m \in Hosts \ {n} : nodes'[m] = nodes[m]
          BY <2>7 DEF Restart, NodesInv
        <4> QED
          BY <4>1 DEF NodesInv
      <3>4. MarkInv'
        BY <2>7, <3>1 DEF Restart, MarkInv, OwnBeaconsInv, FlagsInv
      <3>5. FlagsInv'
        <4>1. due' \in [Hosts -> BOOLEAN] /\ failed' \in [Hosts -> BOOLEAN]
          BY <2>7 DEF Restart, FlagsInv
        <4>2. bound' \in [Hosts -> BOOLEAN]
          BY <2>7 DEF Restart, FlagsInv
        <4>3. faults' \in 0 .. MaxFaults
          BY <2>7 DEF Restart, Fault, FlagsInv
        <4> QED
          BY <2>7, <4>1, <4>2, <4>3 DEF Restart, FlagsInv
      <3> QED
        BY <2>7, <3>2, <3>3, <3>4, <3>5 DEF Restart, NetInv
    <2>8. ASSUME NEW n \in Hosts, NEW a \in DOMAIN nodes[n], LayerFails(n, a)
          PROVE  IInv'
      <3>1. NodesInv'
        <4> DEFINE after == WithoutLayer(nodes[n][a])
        <4>1. after \in Nodes /\ after.eid = nodes[n][a].eid
          BY WithoutLayerType DEF NodesInv
        <4>2. nodes' = [nodes EXCEPT ![n] = [nodes[n] EXCEPT ![a] = after]]
          BY <2>8 DEF LayerFails
        <4> HIDE DEF after
        <4>3. /\ DOMAIN nodes' = Hosts
              /\ \A m \in Hosts \ {n} : nodes'[m] = nodes[m]
              /\ nodes'[n] = [nodes[n] EXCEPT ![a] = after]
          BY <4>2 DEF NodesInv
        <4>4. /\ DOMAIN nodes'[n] = DOMAIN nodes[n]
              /\ nodes'[n][a] = after
              /\ \A b \in DOMAIN nodes[n] \ {a} : nodes'[n][b] = nodes[n][b]
          BY <4>3
        <4>5. ASSUME NEW m \in Hosts, NEW b \in DOMAIN nodes'[m]
              PROVE  /\ b \in Addresses
                     /\ nodes'[m][b] \in Nodes
                     /\ b[1] # m
                     /\ nodes'[m][b].eid = b[1]
          <5>1. CASE m = n /\ b = a
            BY <4>1, <4>4, <5>1 DEF NodesInv
          <5>2. CASE m = n /\ b # a
            BY <4>4, <5>2 DEF NodesInv
          <5>3. CASE m # n
            BY <4>3, <5>3 DEF NodesInv
          <5> QED
            BY <5>1, <5>2, <5>3
        <4> QED
          BY <4>3, <4>5 DEF NodesInv
      <3> QED
        BY <2>8, <3>1 DEF LayerFails, OwnBeaconsInv, NetInv, MarkInv, FlagsInv
    <2>9. CASE UNCHANGED vars
      BY <2>9 DEF vars, OwnBeaconsInv, NetInv, NodesInv, MarkInv, FlagsInv
    <2> QED
      BY <2>5, <2>6, <2>7, <2>8, <2>9 DEF Next
  <1> QED
    BY <1>1, <1>2, PTL DEF Spec

-----------------------------------------------------------------------------
(* Every variable keeps its type; in particular whatever is in flight is   *)
(* the encoding of a beacon.                                               *)
THEOREM DiscoveryTypeCorrect == Spec => []TypeOK
  <1>1. IInv => TypeOK
    <2> SUFFICES ASSUME IInv PROVE TypeOK
      OBVIOUS
    <2>1. ASSUME NEW d \in net
          PROVE  /\ d = Datagram(d.source, d.to, d.block, d.depth)
                 /\ d.source \in Addresses /\ d.to \in Addresses
                 /\ d.depth \in Nat
                 /\ FromBlockData(d.block) \in Beacons
                 /\ d.block = ToBlockData(FromBlockData(d.block))
      <3>1. PICK a \in Addresses, to \in Addresses, depth \in 0 .. 1 :
               \E beacon \in HostBeacons(a[1]) :
                   d = Datagram(a, to, ToBlockData(beacon), depth)
        BY DEF IInv, NetInv, DatagramOK
      <3>2. PICK beacon \in HostBeacons(a[1]) :
               d = Datagram(a, to, ToBlockData(beacon), depth)
        BY <3>1
      <3>3. beacon \in Beacons /\ beacon.services # None
        BY IPNDAssumption DEF Addresses, HostBeacons, HostServices, Beacons, Services
      <3>4. FromBlockData(ToBlockData(beacon)) = beacon
        BY <3>3, Decoding
      <3> QED
        BY <3>2, <3>3, <3>4 DEF Datagram
    <2> QED
      BY <2>1 DEF IInv, OwnBeaconsInv, NodesInv, FlagsInv, TypeOK
  <1> QED
    BY Inductive, <1>1, PTL

(* Decoding an encoded beacon gives it back, in every state: see Decoding. *)
THEOREM BeaconsAlwaysDecoded == Spec => []BeaconsDecoded
  <1>1. TypeOK => BeaconsDecoded
    <2> SUFFICES ASSUME TypeOK,
                        NEW n \in Hosts, NEW eid \in {n, None},
                        NEW period \in Periods \union {None},
                        NEW services \in {own_beacon[n].services, None}
                 PROVE  LET beacon == [own_beacon[n] EXCEPT !.eid = eid,
                                                !.services = services, !.period = period]
                        IN  FromBlockData(ToBlockData(beacon)) =
                                IF services = None
                                THEN [beacon EXCEPT !.services = NoServices] ELSE beacon
      BY DEF BeaconsDecoded
    <2> DEFINE beacon == [own_beacon[n] EXCEPT !.eid = eid,
                                !.services = services, !.period = period]
    <2>1. own_beacon[n] \in Beacons
      BY DEF TypeOK
    <2>2. beacon \in Beacons /\ beacon.services = services
      BY <2>1 DEF Beacons
    <2> QED
      BY <2>2, Decoding
  <1> QED
    BY DiscoveryTypeCorrect, <1>1, PTL

(* No answer answers an answer, whatever the network and the hosts do.     *)
THEOREM AnswersAlwaysEnd == Spec => []AnswersEnd
  <1>1. IInv => AnswersEnd
    BY DEF IInv, NetInv, DatagramOK, Datagram, AnswersEnd
  <1> QED
    BY Inductive, <1>1, PTL

(* A host never takes itself for a neighbour, nor a neighbour for another. *)
THEOREM NeighboursAlwaysOthers == Spec => []NeighboursAreOthers
  <1>1. IInv => NeighboursAreOthers
    BY DEF IInv, NodesInv, NeighboursAreOthers
  <1> QED
    BY Inductive, <1>1, PTL

(* The mark stays in a beacon only after an answer could not be sent.      *)
THEOREM MarksDeleted == Spec => []MarkOnlyAfterFailure
  <1>1. IInv => MarkOnlyAfterFailure
    BY DEF IInv, MarkInv, MarkOnlyAfterFailure
  <1> QED
    BY Inductive, <1>1, PTL
=============================================================================
