------------------------------ MODULE Network ------------------------------
(***************************************************************************)
(* Several nodes that flood bundles to one group over contacts that fail,  *)
(* meet again after restarts, and remember a limited number of bundle ids. *)
(* A node handles a bundle in one step here: what may happen within it is  *)
(* the business of BundleProtocolAgent, how a copy travels that of MTCP,   *)
(* and how nodes find each other that of IPND.                             *)
(***************************************************************************)
EXTENDS Integers, FiniteSets, Sequences

CONSTANTS
    None,           \* Python's None
    Nodes,
    Senders,        \* those of them whose application sends
    MicroPython,    \* those of them that have no clock
    Links,          \* the pairs of nodes that can meet
    Strangers,      \* those of them that do not know each other at first
    Faulty,         \* the nodes that may restart
    MinNodes,       \* SIMPLE_EPIDEMIC_ROUTER_MIN_NODES_TO_FORWARD_TO
    MaxKnown,       \* SIMPLE_IN_MEMORY_STORAGE_MAX_KNOWN_BUNDLE_IDS
    HopLimit,       \* the hop limit of the bundles
    MaxBundles,     \* bound: the bundles made in a behaviour
    StartTime,      \* the time on each node's clock when it first starts
    MaxPause,       \* bound: the milliseconds from one bundle of a node to its
                    \* next, when a restart does not come between and take one
    MaxFaults       \* bound: restarts, lost copies and attempts with failing
                    \* sends, together

ASSUME NetworkAssumption ==
    /\ Links \subseteq Nodes \X Nodes
    /\ \A l \in Links : l[1] # l[2] /\ <<l[2], l[1]>> \in Links
    /\ Strangers \subseteq Links
    /\ Senders \subseteq Nodes /\ Faulty \subseteq Nodes
    /\ MicroPython \subseteq Nodes
    /\ MinNodes \in Nat /\ MaxKnown \in Nat \ {0} /\ HopLimit \in Nat \ {0}
    /\ StartTime \in [Nodes -> Nat \ {0}]
    /\ MaxBundles \in Nat /\ MaxPause \in Nat /\ MaxFaults \in Nat

Data == INSTANCE BundleData
            WITH Addresses <- Nodes, Uris <- Nodes, Anonymous <- None,
                 MicroPython <- FALSE

VARIABLES
    made,         \* the ids of the bundles made so far
    clock,        \* the time of each node's last bundle, or of its start
    last_time,    \* the last_bundle_creation_time of each node's endpoint
    last_num,     \* its last_sequence_number
    store,        \* each node's stored bundles: id -> object
    seen,         \* each node's table of seen ids
    nodes,        \* each node's table of neighbours
    copies,       \* the copies that have been sent and not yet received
    delivered,    \* the bundles delivered since a node was started
    again,        \* those of them delivered more than once
    expired,      \* the bundles it deleted at their last hop since
    overflowed,   \* whether its table of seen ids has lost an id since
    faults,       \* what has gone wrong so far (bounds the model)
    harmed,       \* the bundles there were when something went wrong
    restarted     \* and those there were when each node last restarted

numberVars == <<clock, last_time, last_num>>

vars == <<made, numberVars, store, seen, nodes, copies, delivered, again, expired,
          overflowed, faults, harmed, restarted>>

(* A bundle is its place in made: two bundles may have the same id.        *)
Ids == [source : Nodes, time : Nat, num : Nat]
Bundles == DOMAIN made
Objects == [bundle : Bundles, hops : 0 .. HopLimit - 1, to : SUBSET Nodes]
Copies == [bundle : Bundles, hops : 0 .. HopLimit, from : Nodes, to : Nodes]

TypeOK ==
    /\ made \in Seq(Ids)
    /\ clock \in [Nodes -> Nat \ {0}]
    /\ last_time \in [Nodes -> Nat]
    /\ last_num \in [Nodes -> Nat]
    /\ DOMAIN store = Nodes
    /\ \A n \in Nodes : \A id \in DOMAIN store[n] :
           store[n][id] \in Objects /\ made[store[n][id].bundle] = id
    /\ seen \in [Nodes -> SUBSET Ids]
    /\ \A n \in Nodes : Cardinality(seen[n]) <= MaxKnown
    /\ nodes \in [Nodes -> SUBSET Nodes]
    /\ copies \subseteq Copies
    /\ delivered \in [Nodes -> SUBSET Bundles]
    /\ again \in [Nodes -> SUBSET Bundles]
    /\ expired \in [Nodes -> SUBSET Bundles]
    /\ overflowed \in [Nodes -> BOOLEAN]
    /\ faults \in 0 .. MaxFaults
    /\ harmed \subseteq Bundles
    /\ restarted \in [Nodes -> SUBSET Bundles]

Init ==
    /\ made = << >>
    /\ clock = StartTime
    /\ last_time = [n \in Nodes |-> 0]
    /\ last_num = [n \in Nodes |-> 0]
    /\ store = [n \in Nodes |-> << >>]
    /\ seen = [n \in Nodes |-> {}]
    /\ nodes = [n \in Nodes |-> {m \in Nodes : <<n, m>> \in Links \ Strangers}]
    /\ copies = {}
    /\ delivered = [n \in Nodes |-> {}]
    /\ again = [n \in Nodes |-> {}]
    /\ expired = [n \in Nodes |-> {}]
    /\ overflowed = [n \in Nodes |-> FALSE]
    /\ faults = 0
    /\ harmed = {}
    /\ restarted = [n \in Nodes |-> {}]

-----------------------------------------------------------------------------
(* With a bug: the table grows by one more. *)
AfterSeeingOneMore(known, id) ==
    IF id \in known \/ Cardinality(known) <= MaxKnown THEN {known \union {id}}
    ELSE {(known \ {oldest}) \union {id} : oldest \in Data!OldestBundleIds(known)}

(* store_seen: a full table loses its oldest id. *)
AfterSeeing(known, id) ==
    IF id \in known \/ Cardinality(known) < MaxKnown THEN {known \union {id}}
    ELSE {(known \ {oldest}) \union {id} : oldest \in Data!OldestBundleIds(known)}

See(n, id) ==
    /\ \E known \in AfterSeeing(seen[n], id) : seen' = [seen EXCEPT ![n] = known]
    /\ overflowed' = [overflowed EXCEPT ![n] = @ \/ ~ seen[n] \subseteq seen'[n]]

Deliver(n, bundle) ==
    /\ delivered' = [delivered EXCEPT ![n] = @ \union {bundle}]
    /\ again' = [again EXCEPT ![n] = @ \union ({bundle} \intersect delivered[n])]

Send(n, object, reached) ==
    {[bundle |-> object.bundle, hops |-> object.hops + 1, from |-> n, to |-> m] : m \in reached}

(* The nodes a forwarding attempt tries, and those it reaches.             *)
Targets(n, object) == nodes[n] \ object.to

Reaches(n, object, reached) ==
    /\ reached \subseteq Targets(n, object)
    /\ \/ reached = Targets(n, object) /\ UNCHANGED faults
       \/ /\ reached # Targets(n, object)
          /\ faults < MaxFaults
          /\ faults' = faults + 1

After(object, reached) == [object EXCEPT !.to = @ \union reached]

Success(object) == Cardinality(object.to) >= MinNodes

(* With a bug: an object there is nobody left to send to is not kept. *)
KeptForNeighbours(n, object) ==
    IF Success(object) \/ Targets(n, object) = {} THEN store
    ELSE [store EXCEPT ![n] = [id \in DOMAIN @ \union {made'[object.bundle]} |->
              IF id \in DOMAIN @ THEN @[id] ELSE object]]

(* Without success delay_bundle keeps the object, unless one with its id   *)
(* is in the store.  (The store has room for all bundles here.)            *)
Kept(n, object) ==
    IF Success(object) \/ made'[object.bundle] \in DOMAIN store[n] THEN store
    ELSE [store EXCEPT ![n] = [id \in DOMAIN @ \union {made'[object.bundle]} |->
              IF id \in DOMAIN @ THEN @[id] ELSE object]]

-----------------------------------------------------------------------------
(* The times at which a node may make a bundle: the first after a start at *)
(* the time of that, which is any, others within MaxPause of the last.     *)
Readings(n) ==
    IF n \in MicroPython \/ last_time[n] # clock[n] THEN {clock[n]}
    ELSE clock[n] .. clock[n] + MaxPause

(* With a bug: the number stands still within a millisecond. *)
SameNum(n, now) == IF n \in MicroPython THEN last_num[n] + 1 ELSE 0

(* Without a clock a plain counter, otherwise the time, and a counter that *)
(* goes on within one millisecond.                                         *)
NextTime(n, now) == IF n \in MicroPython THEN last_time[n] ELSE now

NextNum(n, now) ==
    IF n \in MicroPython \/ now = last_time[n] THEN last_num[n] + 1 ELSE 0

NextId(n, now) == [source |-> n, time |-> NextTime(n, now), num |-> NextNum(n, now)]

(* start_transmission and the reception of the bundle.  The id is entered  *)
(* in the table of seen ids only if the bundle is stored.                  *)
Originate(n, now, reached) ==
    LET object == [bundle |-> Len(made) + 1, hops |-> 0, to |-> {}]
    IN  /\ Len(made) < MaxBundles
        /\ made' = Append(made, NextId(n, now))
        /\ clock' = [clock EXCEPT ![n] = now]
        /\ last_time' = [last_time EXCEPT ![n] = NextTime(n, now)]
        /\ last_num' = [last_num EXCEPT ![n] = NextNum(n, now)]
        /\ Reaches(n, object, reached)
        /\ Deliver(n, object.bundle)
        /\ copies' = copies \union Send(n, object, reached)
        /\ store' = Kept(n, After(object, reached))
        /\ IF store' = store THEN UNCHANGED <<seen, overflowed>> ELSE See(n, NextId(n, now))
        /\ UNCHANGED <<nodes, expired, harmed, restarted>>

(* With a bug: a copy that is skipped comes again. *)
SkipLeaving(n, c) ==
    /\ c.to = n
    /\ made[c.bundle] \in seen[n]
    /\ UNCHANGED vars

(* The poll generator takes a copy and skips one whose id was seen.        *)
Skip(n, c) ==
    /\ c.to = n
    /\ made[c.bundle] \in seen[n]
    /\ copies' = copies \ {c}
    /\ UNCHANGED <<made, numberVars, store, seen, nodes, delivered, again, expired,
                   overflowed, faults, harmed, restarted>>

(* Or notes its id; bundle_reception deletes it at its last hop.           *)
LastHop(n, c) ==
    /\ c.to = n
    /\ made[c.bundle] \notin seen[n]
    /\ c.hops >= HopLimit
    /\ See(n, made[c.bundle])
    /\ expired' = [expired EXCEPT ![n] = @ \union {c.bundle}]
    /\ copies' = copies \ {c}
    /\ UNCHANGED <<made, numberVars, store, nodes, delivered, again, faults, harmed,
                   restarted>>

(* With a bug: the id is not noted. *)
ReceiveUnseen(n, c, reached) ==
    LET object == [bundle |-> c.bundle, hops |-> c.hops, to |-> {c.from} \intersect nodes[n]]
    IN  /\ c.to = n
        /\ made[c.bundle] \notin seen[n]
        /\ c.hops < HopLimit
        /\ Deliver(n, c.bundle)
        /\ Reaches(n, object, reached)
        /\ copies' = (copies \ {c}) \union Send(n, object, reached)
        /\ UNCHANGED made
        /\ store' = Kept(n, After(object, reached))
        /\ UNCHANGED <<numberVars, seen, expired, overflowed, nodes, harmed, restarted>>

(* With a bug: the sender is taken for a neighbour that has yet to get it. *)
ReceiveForAll(n, c, reached) ==
    LET object == [bundle |-> c.bundle, hops |-> c.hops, to |-> {}]
    IN  /\ c.to = n
        /\ made[c.bundle] \notin seen[n]
        /\ c.hops < HopLimit
        /\ Deliver(n, c.bundle)
        /\ Reaches(n, object, reached)
        /\ copies' = (copies \ {c}) \union Send(n, object, reached)
        /\ UNCHANGED made
        /\ store' = Kept(n, After(object, reached))
        /\ See(n, made[c.bundle])
        /\ UNCHANGED <<numberVars, nodes, expired, harmed, restarted>>

(* Or delivers and forwards it; a sender that is known has it already.     *)
Receive(n, c, reached) ==
    LET object == [bundle |-> c.bundle, hops |-> c.hops, to |-> {c.from} \intersect nodes[n]]
    IN  /\ c.to = n
        /\ made[c.bundle] \notin seen[n]
        /\ c.hops < HopLimit
        /\ Reaches(n, object, reached)
        /\ copies' = (copies \ {c}) \union Send(n, object, reached)
        /\ Deliver(n, c.bundle)
        /\ UNCHANGED made
        /\ store' = Kept(n, After(object, reached))
        /\ See(n, made[c.bundle])
        /\ UNCHANGED <<numberVars, nodes, expired, harmed, restarted>>

(* With a bug: whom a retry has reached is not noted. *)
RetryUnnoted(n, id, reached) ==
    LET object == store[n][id]
    IN  /\ reached # {}
        /\ Reaches(n, object, reached)
        /\ copies' = copies \union Send(n, object, reached)
        /\ UNCHANGED <<made, numberVars, store, seen, nodes, delivered, again, expired,
                       overflowed, harmed, restarted>>

(* The retry of a stored bundle, which stays in the store.                 *)
Retry(n, id, reached) ==
    LET object == store[n][id]
    IN  /\ reached # {}
        /\ Reaches(n, object, reached)
        /\ copies' = copies \union Send(n, object, reached)
        /\ store' = [store EXCEPT ![n][id] = After(object, reached)]
        /\ UNCHANGED <<made, numberVars, seen, nodes, delivered, again, expired,
                       overflowed, harmed, restarted>>

Discover(n, m) ==
    /\ m \notin nodes[n]
    /\ nodes' = [nodes EXCEPT ![n] = @ \union {m}]
    /\ UNCHANGED <<made, numberVars, store, seen, copies, delivered, again, expired,
                   overflowed, faults, harmed, restarted>>

Fault ==
    /\ faults < MaxFaults
    /\ faults' = faults + 1
    /\ harmed' = Bundles

(* Nothing is kept over a restart, and what was sent to the node is lost.  *)
(* It takes a millisecond at least, and nobody sets the clock back.        *)
Restart(n) ==
    /\ Fault
    /\ restarted' = [restarted EXCEPT ![n] = Bundles]
    /\ \E pause \in 0 .. MaxPause : clock' = [clock EXCEPT ![n] = @ + 1 + pause]
    /\ last_time' = [last_time EXCEPT ![n] = 0]
    /\ last_num' = [last_num EXCEPT ![n] = 0]
    /\ store' = [store EXCEPT ![n] = << >>]
    /\ seen' = [seen EXCEPT ![n] = {}]
    /\ nodes' = [nodes EXCEPT ![n] = {}]
    /\ copies' = {c \in copies : c.to # n}
    /\ delivered' = [delivered EXCEPT ![n] = {}]
    /\ again' = [again EXCEPT ![n] = {}]
    /\ expired' = [expired EXCEPT ![n] = {}]
    /\ overflowed' = [overflowed EXCEPT ![n] = FALSE]
    /\ UNCHANGED made

(* MicroPython may close a connection with a bundle on its way.            *)
Lose(c) ==
    /\ c.to \in MicroPython
    /\ Fault
    /\ copies' = copies \ {c}
    /\ UNCHANGED <<made, numberVars, store, seen, nodes, delivered, again, expired,
                   overflowed, restarted>>

-----------------------------------------------------------------------------
Poll(n) ==
    \E c \in copies :
        \/ Skip(n, c) \/ LastHop(n, c)
        \/ \E reached \in SUBSET nodes[n] : Receive(n, c, reached)

RetryOne(n) ==
    \E id \in DOMAIN store[n], reached \in SUBSET nodes[n] : Retry(n, id, reached)

Next ==
    \/ \E n \in Senders : \E now \in Readings(n), reached \in SUBSET nodes[n] :
           Originate(n, now, reached)
    \/ \E n \in Nodes : Poll(n) \/ RetryOne(n)
    \/ \E l \in Links : Discover(l[1], l[2])
    \/ \E n \in Faulty : Restart(n)
    \/ \E c \in copies : Lose(c)

Spec == Init /\ [][Next]_vars

(* update() is called for ever at every node, so it takes what has come.   *)
(* That some node does, whenever there is a copy to take, is enough.       *)
FairSpec == Spec /\ WF_vars(\E n \in Nodes : Poll(n))

-----------------------------------------------------------------------------
(* Properties.                                                             *)

(* While a node runs and its table of seen ids has not overflowed, it      *)
(* delivers a foreign bundle once, over however many ways it comes.        *)
DeliveredOncePerRun ==
    \A n \in Nodes : ~ overflowed[n] => \A b \in again[n] : made[b].source = n

(* Ids tell bundles apart: within a millisecond, by the clock after that   *)
(* and across restarts.  Only a node without a clock uses an id again, and *)
(* only once it has restarted since.                                       *)
IdsTellApart ==
    \A a, b \in Bundles :
        a < b /\ made[a] = made[b] =>
            made[a].source \in MicroPython /\ a \in restarted[made[a].source]

(* Nothing is left to do: no copy to take, no stored bundle to send to a   *)
(* neighbour, and all nodes that can meet have met.                        *)
Quiet ==
    /\ copies = {}
    /\ \A n \in Nodes : \A id \in DOMAIN store[n] : Targets(n, store[n][id]) = {}
    /\ \A l \in Links : l[2] \in nodes[l[1]]

(* When a network comes to rest, every bundle made since the last restart  *)
(* or loss has reached every node, if MinNodes is at least the number of   *)
(* neighbours of a node and the id of the bundle is its own.               *)
SpreadWhenQuiet ==
    Quiet => \A b \in Bundles \ harmed, n \in Nodes :
                 \/ b \in delivered[n] \union expired[n]
                 \/ \E a \in Bundles : a # b /\ made[a] = made[b]

(* What each node keeps for a retry. *)
KeptObjects == [n \in Nodes |-> {store[n][id] : id \in DOMAIN store[n]}]

(* The network keeps the promise of Flooding: what a node knows, keeps for *)
(* a retry and remembers never makes it send what it has not delivered,    *)
(* return a copy to its sender in the step that takes it, retry a bundle   *)
(* with a neighbour it has sent it to, count a hop too few, or ignore a    *)
(* copy if it has had nothing with its id.                                 *)
Promise == INSTANCE Flooding WITH kept <- KeptObjects

FloodingKept == Promise!Spec

(* Traffic dies out, whatever the nodes have forgotten: what the tables of *)
(* seen ids let pass a second time ends with its hop limit.                *)
FloodEnds == <>[](copies = {})
=============================================================================
