---------------------------- MODULE SpreadProofs ----------------------------
(***************************************************************************)
(* More of what TLAPS proves of Network, for any number of nodes, links,   *)
(* bundles and faults: a network that has come to rest has spread every    *)
(* bundle that no fault happened to, and every network implements Flooding.*)
(***************************************************************************)
EXTENDS NetworkProofs

-----------------------------------------------------------------------------
(* Where a bundle is spread to.                                            *)

Neighbours(n) == {m \in Nodes : <<n, m>> \in Links}

(* An object leaves a store when it has been sent to MinNodes nodes: that  *)
(* all neighbours get it takes a number not below theirs.                  *)
Enough ==
    \A n \in Nodes : IsFiniteSet(Neighbours(n)) /\ Cardinality(Neighbours(n)) <= MinNodes

(* Either all nodes can meet, or there is a way between any two of them    *)
(* (there is one out of every set of nodes) and a bundle has hops enough.  *)
AllMeet == \A n, m \in Nodes : n # m => <<n, m>> \in Links

Connected ==
    \A S \in SUBSET Nodes : S = {} \/ S = Nodes \/ \E n \in S : ~ Neighbours(n) \subseteq S

HopsSuffice == IsFiniteSet(Nodes) /\ Cardinality(Nodes) < HopLimit

-----------------------------------------------------------------------------
(* The inductive invariant.                                                *)

(* A bundle that nothing has happened to, with an id of its own.           *)
Own(b) == b \notin harmed /\ \A a \in Bundles : made[a] = made[b] => a = b

Had(b, n) == b \in delivered[n] \union expired[n]

(* What a node keeps it has delivered, and sent to neighbours only.        *)
StoreOK(n) ==
    \A id \in DOMAIN store[n] :
        store[n][id].bundle \in delivered[n] /\ store[n][id].to \subseteq Neighbours(n)

(* The ids it remembers are those of bundles it has had.                   *)
SeenOK(n) == \A id \in seen[n] : \E b \in Bundles : made[b] = id /\ Had(b, n)

KeptInv == \A n \in Nodes : nodes[n] \subseteq Neighbours(n) /\ StoreOK(n) /\ SeenOK(n)

(* What a node sends it has delivered, and so has the source of a bundle.  *)
OriginInv ==
    /\ \A c \in copies : c.bundle \notin harmed => c.bundle \in delivered[c.from]
    /\ \A b \in Bundles \ harmed : b \in delivered[made[b].source]

(* A node that has delivered a bundle has sent it to all its neighbours or *)
(* remembers whom it has still to send it to, and what it has sent has not *)
(* been lost.                                                              *)
Reached(b, m) == Had(b, m) \/ \E c \in copies : c.bundle = b /\ c.to = m

Forwarded(b, n) ==
    \A m \in IF made[b] \in DOMAIN store[n] THEN store[n][made[b]].to ELSE Neighbours(n) :
        Reached(b, m)

SpreadInv == \A b \in Bundles : Own(b) => \A n \in Nodes : b \in delivered[n] => Forwarded(b, n)

(* While no table of seen ids has overflowed, a copy has made no more hops *)
(* than there are nodes that have delivered the bundle, and one more after *)
(* the source has taken its own bundle back: it expires nowhere.           *)
Remembering == \A n \in Nodes : ~ overflowed[n]

Holders(b) == {n \in Nodes : b \in delivered[n]}

Returned(b) == IF b \in again[made[b].source] THEN 1 ELSE 0

HopsOK(b) ==
    /\ \A n \in Nodes : b \notin expired[n]
    /\ b \in again[made[b].source] => made[b] \in seen[made[b].source]
    /\ \A c \in copies : c.bundle = b => c.hops <= Cardinality(Holders(b)) + Returned(b)
    /\ \A n \in Nodes : \A id \in DOMAIN store[n] :
           store[n][id].bundle = b => store[n][id].hops < Cardinality(Holders(b)) + Returned(b)

HopsInv == Remembering => \A b \in Bundles : Own(b) => HopsOK(b)

-----------------------------------------------------------------------------
(* What every step but a fault does.                                       *)

Faultless ==
    \/ \E n \in Senders : \E now \in Readings(n), reached \in SUBSET nodes[n] :
           Originate(n, now, reached)
    \/ \E n \in Nodes : Poll(n) \/ RetryOne(n)
    \/ \E l \in Links : Discover(l[1], l[2])
    \/ UNCHANGED vars

(* Bundles keep their ids, and what a node has had it has had.             *)
Grown ==
    /\ \A b \in Bundles : b \in Bundles' /\ made'[b] = made[b]
    /\ harmed' = harmed
    /\ \A n \in Nodes : delivered[n] \subseteq delivered'[n] /\ expired[n] \subseteq expired'[n]

(* Every step but a fault only adds to what the nodes have had. *)
LEMMA Grows ==
    ASSUME TypeInv, Faultless
    PROVE  Grown
  <1> USE DEF Grown, Bundles, TypeInv, TypeOK
  <1>1. ASSUME NEW n \in Senders, NEW now \in Readings(n), NEW reached \in SUBSET nodes[n],
               Originate(n, now, reached)
        PROVE  Grown
    <2>1. made' = Append(made, NextId(n, now)) /\ made \in Seq(Ids) /\ NextId(n, now) \in Ids
      BY <1>1, NextIdType, NetworkAssumption DEF Originate
    <2>2. \A b \in DOMAIN made : b \in DOMAIN made' /\ made'[b] = made[b]
      BY <2>1
    <2> QED
      BY <1>1, <2>2 DEF Originate, Deliver
  <1>2. ASSUME NEW n \in Nodes, NEW c \in copies, Skip(n, c) \/ LastHop(n, c)
        PROVE  Grown
    <2>1. CASE Skip(n, c)
      BY <2>1 DEF Skip
    <2>2. CASE LastHop(n, c)
      <3>1. UNCHANGED <<made, harmed, delivered>>
        BY <2>2 DEF LastHop
      <3>2. expired' = [expired EXCEPT ![n] = @ \union {c.bundle}]
        BY <2>2 DEF LastHop
      <3> QED
        BY <3>1, <3>2
    <2> QED
      BY <1>2, <2>1, <2>2
  <1>3. ASSUME NEW n \in Nodes, NEW c \in copies, NEW reached, Receive(n, c, reached)
        PROVE  Grown
    BY <1>3 DEF Receive, Deliver
  <1>4. ASSUME NEW n \in Nodes, NEW id, NEW reached, Retry(n, id, reached)
        PROVE  Grown
    BY <1>4 DEF Retry
  <1>5. ASSUME NEW n, NEW m, Discover(n, m)
        PROVE  Grown
    BY <1>5 DEF Discover
  <1> QED
    BY <1>1, <1>2, <1>3, <1>4, <1>5 DEF Faultless, Poll, RetryOne, vars

(* A bundle that is its own then was it before.                            *)
LEMMA OwnBefore ==
    ASSUME Grown, NEW b \in Bundles, Own(b)'
    PROVE  Own(b)
  BY DEF Grown, Own

(* Every bundle has an id.                                                 *)
LEMMA IdOf ==
    ASSUME TypeInv, NEW b \in Bundles
    PROVE  made[b] \in Ids /\ made[b].source \in Nodes
  <1>1. made[b] \in Ids
    BY DEF TypeInv, TypeOK, Bundles
  <1> QED
    BY <1>1 DEF Ids

(* After a fault there is nothing to say of the bundles there are.         *)
LEMMA AllHarmed ==
    ASSUME Fault, UNCHANGED made
    PROVE  \A b \in Bundles' : b \in harmed' /\ ~ Own(b)'
  BY DEF Fault, Own, Bundles

(* store_seen enters one id.                                               *)
LEMMA SeeOne ==
    ASSUME TypeInv, NEW n \in Nodes, NEW id, See(n, id)
    PROVE  /\ \A m \in Nodes : m # n => seen'[m] = seen[m] /\ overflowed'[m] = overflowed[m]
           /\ seen'[n] \subseteq seen[n] \union {id} /\ id \in seen'[n]
           /\ ~ overflowed'[n] => ~ overflowed[n] /\ seen[n] \subseteq seen'[n]
  <1>1. PICK known \in AfterSeeing(seen[n], id) : seen' = [seen EXCEPT ![n] = known]
    BY DEF See
  <1>2. known \subseteq seen[n] \union {id} /\ id \in known
    BY <1>1 DEF AfterSeeing
  <1>3. overflowed' = [overflowed EXCEPT ![n] = @ \/ ~ seen[n] \subseteq seen'[n]]
    BY DEF See
  <1>4. overflowed'[n] = (overflowed[n] \/ ~ seen[n] \subseteq seen'[n])
    BY <1>3 DEF TypeInv, TypeOK
  <1> QED
    BY <1>1, <1>2, <1>3, <1>4 DEF TypeInv, TypeOK

(* delay_bundle keeps an object at most once.                              *)
LEMMA KeepOne ==
    ASSUME TypeInv, NEW n \in Nodes, NEW object, store' = Kept(n, object)
    PROVE  /\ \A m \in Nodes : m # n => store'[m] = store[m]
           /\ \A id \in DOMAIN store[n] : id \in DOMAIN store'[n] /\ store'[n][id] = store[n][id]
           /\ \A id \in DOMAIN store'[n] :
                  id \in DOMAIN store[n] \/ (id = made'[object.bundle] /\ store'[n][id] = object)
           /\ Success(object) \/ made'[object.bundle] \in DOMAIN store'[n]
  <1> DEFINE new == made'[object.bundle]
  <1>1. CASE store' = store
    BY <1>1 DEF Kept, TypeInv, TypeOK
  <1>2. CASE store' # store
    <2>1. store' = [store EXCEPT ![n] = [id \in DOMAIN store[n] \union {new} |->
                        IF id \in DOMAIN store[n] THEN store[n][id] ELSE object]]
      BY <1>2 DEF Kept
    <2> HIDE DEF new
    <2>2. /\ \A m \in Nodes : m # n => store'[m] = store[m]
          /\ store'[n] = [id \in DOMAIN store[n] \union {new} |->
                              IF id \in DOMAIN store[n] THEN store[n][id] ELSE object]
      BY <2>1 DEF TypeInv, TypeOK
    <2>3. \A id \in DOMAIN store[n] : id \in DOMAIN store'[n] /\ store'[n][id] = store[n][id]
      BY <2>2
    <2>4. \A id \in DOMAIN store'[n] : id \in DOMAIN store[n] \/ (id = new /\ store'[n][id] = object)
      BY <2>2
    <2>5. new \in DOMAIN store'[n]
      BY <2>2
    <2> QED
      BY <2>2, <2>3, <2>4, <2>5 DEF new
  <1> QED
    BY <1>1, <1>2

-----------------------------------------------------------------------------
(* What nodes keep and remember.                                           *)

(* A bundle that a node remembers it goes on to have had.                  *)
LEMMA SeenStays ==
    ASSUME Grown, NEW n \in Nodes, NEW id,
           \E b \in Bundles : made[b] = id /\ Had(b, n)
    PROVE  \E b \in Bundles' : made'[b] = id /\ Had(b, n)'
  BY DEF Grown, Had

(* Every step of a node that has handled a bundle.                         *)
LEMMA SeenStep ==
    ASSUME TypeInv, KeptInv, Grown, NEW n \in Nodes, NEW b \in Bundles', Had(b, n)',
           \/ UNCHANGED seen
           \/ See(n, made'[b])
    PROVE  \A m \in Nodes : SeenOK(m)'
  <1> SUFFICES ASSUME NEW m \in Nodes, NEW id \in seen'[m]
               PROVE  \E a \in Bundles' : made'[a] = id /\ Had(a, m)'
    BY DEF SeenOK
  <1>1. CASE id \in seen[m]
    BY <1>1, SeenStays DEF KeptInv, SeenOK
  <1>2. CASE id \notin seen[m]
    <2>1. m = n /\ id = made'[b]
      BY <1>2, SeeOne
    <2> QED
      BY <2>1
  <1> QED
    BY <1>1, <1>2

(* A stored object comes from before, or is what the node keeps now.       *)
LEMMA StoreStep ==
    ASSUME TypeInv, KeptInv, Grown, NEW n \in Nodes, NEW object, store' = Kept(n, object),
           object.bundle \in delivered'[n], object.to \subseteq Neighbours(n)
    PROVE  \A m \in Nodes : StoreOK(m)'
  <1> SUFFICES ASSUME NEW m \in Nodes, NEW id \in DOMAIN store'[m]
               PROVE  /\ store'[m][id].bundle \in delivered'[m]
                      /\ store'[m][id].to \subseteq Neighbours(m)
    BY DEF StoreOK, Neighbours
  <1>1. CASE id \in DOMAIN store[m]
    <2>1. store'[m][id] = store[m][id]
      BY <1>1, KeepOne
    <2> QED
      BY <1>1, <2>1 DEF KeptInv, StoreOK, Grown
  <1>2. CASE id \notin DOMAIN store[m]
    <2>1. m = n /\ store'[m][id] = object
      BY <1>2, KeepOne
    <2> QED
      BY <2>1
  <1> QED
    BY <1>1, <1>2

(* Neighbours stay neighbours, and objects and ids what they are.          *)
LEMMA KeptStep ==
    ASSUME TypeInv, KeptInv, [Next]_vars
    PROVE  KeptInv'
  <1> USE NetworkAssumption
  <1>1. ASSUME NEW n \in Senders, NEW now \in Readings(n), NEW reached \in SUBSET nodes[n],
               Originate(n, now, reached)
        PROVE  KeptInv'
    <2> DEFINE object == [bundle |-> Len(made) + 1, hops |-> 0, to |-> {}]
               after  == After(object, reached)
    <2>1. n \in Nodes /\ Grown
      BY <1>1, Grows DEF Faultless
    <2>2. /\ Len(made) + 1 \in Bundles' /\ made'[Len(made) + 1] = NextId(n, now)
      BY <1>1, <2>1, NextIdType DEF Originate, TypeInv, TypeOK, Bundles
    <2>3. Len(made) + 1 \in delivered'[n] /\ UNCHANGED nodes
      BY <1>1, <2>1 DEF Originate, Deliver, TypeInv, TypeOK
    <2>4. after.bundle = Len(made) + 1 /\ after.to = reached /\ store' = Kept(n, after)
      BY <1>1 DEF Originate, After
    <2>5. reached \subseteq Neighbours(n)
      BY <2>1 DEF KeptInv
    <2>6. UNCHANGED seen \/ See(n, NextId(n, now))
      BY <1>1 DEF Originate
    <2> HIDE DEF after
    <2>7. \A m \in Nodes : StoreOK(m)'
      BY <2>1, <2>3, <2>4, <2>5, StoreStep
    <2>8. \A m \in Nodes : SeenOK(m)'
      BY <2>1, <2>2, <2>3, <2>6, SeenStep DEF Had
    <2> QED
      BY <2>3, <2>7, <2>8 DEF KeptInv, Neighbours
  <1>2. ASSUME NEW n \in Nodes, NEW c \in copies, Skip(n, c)
        PROVE  KeptInv'
    BY <1>2 DEF Skip, KeptInv, StoreOK, SeenOK, Neighbours, Had, Bundles
  <1>3. ASSUME NEW n \in Nodes, NEW c \in copies, LastHop(n, c)
        PROVE  KeptInv'
    <2>1. Grown
      BY <1>3, Grows DEF Faultless, Poll
    <2>2. c.bundle \in Bundles' /\ UNCHANGED <<made, nodes, store, delivered>>
      BY <1>3 DEF LastHop, TypeInv, TypeOK, Copies, Bundles
    <2>3. Had(c.bundle, n)'
      BY <1>3 DEF LastHop, Had, TypeInv, TypeOK
    <2>4. \A m \in Nodes : SeenOK(m)'
      BY <1>3, <2>1, <2>2, <2>3, SeenStep DEF LastHop
    <2> QED
      BY <2>2, <2>4 DEF KeptInv, Neighbours, StoreOK
  <1>4. ASSUME NEW n \in Nodes, NEW c \in copies, NEW reached \in SUBSET nodes[n],
               Receive(n, c, reached)
        PROVE  KeptInv'
    <2> DEFINE object == [bundle |-> c.bundle, hops |-> c.hops,
                          to |-> {c.from} \intersect nodes[n]]
               after  == After(object, reached)
    <2>1. Grown
      BY <1>4, Grows DEF Faultless, Poll
    <2>2. c.bundle \in Bundles' /\ UNCHANGED <<made, nodes>>
      BY <1>4 DEF Receive, TypeInv, TypeOK, Copies, Bundles
    <2>3. c.bundle \in delivered'[n]
      BY <1>4 DEF Receive, Deliver, TypeInv, TypeOK
    <2>4. /\ after.bundle = c.bundle /\ after.to = ({c.from} \intersect nodes[n]) \union reached
          /\ store' = Kept(n, after)
      BY <1>4 DEF Receive, After
    <2>5. after.to \subseteq Neighbours(n)
      BY <2>4 DEF KeptInv
    <2> HIDE DEF after
    <2>6. \A m \in Nodes : StoreOK(m)'
      BY <2>1, <2>3, <2>4, <2>5, StoreStep
    <2>7. \A m \in Nodes : SeenOK(m)'
      BY <1>4, <2>1, <2>2, <2>3, SeenStep DEF Had, Receive
    <2> QED
      BY <2>2, <2>6, <2>7 DEF KeptInv, Neighbours
  <1>5. ASSUME NEW n \in Nodes, NEW id \in DOMAIN store[n], NEW reached \in SUBSET nodes[n],
               Retry(n, id, reached)
        PROVE  KeptInv'
    <2>1. /\ store' = [store EXCEPT ![n] = [store[n] EXCEPT ![id] = After(store[n][id], reached)]]
          /\ UNCHANGED <<made, nodes, seen, harmed, delivered, expired>>
      BY <1>5 DEF Retry
    <2> DEFINE object == store[n][id]
               after  == After(object, reached)
    <2>2. after.bundle = object.bundle /\ after.to = object.to \union reached
      BY DEF After, TypeInv, TypeOK, Objects
    <2> HIDE DEF after
    <2>3. /\ \A m \in Nodes : DOMAIN store'[m] = DOMAIN store[m]
          /\ \A m \in Nodes : \A i \in DOMAIN store[m] :
                 store'[m][i] = IF m = n /\ i = id THEN after ELSE store[m][i]
      BY <2>1 DEF TypeInv, TypeOK, after
    <2>4. \A m \in Nodes : StoreOK(m)'
      <3> SUFFICES ASSUME NEW m \in Nodes, NEW i \in DOMAIN store[m]
                   PROVE  /\ store'[m][i].bundle \in delivered[m]
                          /\ store'[m][i].to \subseteq Neighbours(m)
        BY <2>1, <2>3 DEF StoreOK, Neighbours
      <3>1. /\ store[m][i].bundle \in delivered[m] /\ store[m][i].to \subseteq Neighbours(m)
            /\ reached \subseteq Neighbours(n)
        BY DEF KeptInv, StoreOK
      <3> QED
        BY <2>2, <2>3, <3>1
    <2> QED
      BY <2>1, <2>4 DEF KeptInv, Neighbours, SeenOK, Had, Bundles
  <1>6. ASSUME NEW l \in Links, Discover(l[1], l[2])
        PROVE  KeptInv'
    <2>1. l = <<l[1], l[2]>> /\ l[1] \in Nodes /\ l[2] \in Nodes
      OBVIOUS
    <2>2. \A m \in Nodes : nodes'[m] \subseteq Neighbours(m)
      <3>1. nodes' = [nodes EXCEPT ![l[1]] = @ \union {l[2]}] /\ nodes \in [Nodes -> SUBSET Nodes]
        BY <1>6 DEF Discover, TypeInv, TypeOK
      <3>2. \A m \in Nodes : nodes'[m] \subseteq nodes[m] \union (IF m = l[1] THEN {l[2]} ELSE {})
        BY <2>1, <3>1
      <3>3. l[2] \in Neighbours(l[1])
        BY <2>1 DEF Neighbours
      <3> QED
        BY <3>2, <3>3 DEF KeptInv
    <2> QED
      BY <1>6, <2>2 DEF Discover, KeptInv, StoreOK, SeenOK, Neighbours, Had, Bundles
  <1>7. ASSUME NEW n \in Nodes, Restart(n)
        PROVE  KeptInv'
    <2>1. /\ \A m \in Nodes : nodes'[m] \subseteq nodes[m]
          /\ \A m \in Nodes : m # n => store'[m] = store[m] /\ delivered'[m] = delivered[m]
          /\ UNCHANGED made
      BY <1>7 DEF Restart, TypeInv, TypeOK
    <2>2. /\ seen'[n] = {}
          /\ \A m \in Nodes : m # n => seen'[m] = seen[m] /\ expired'[m] = expired[m]
      BY <1>7 DEF Restart, TypeInv, TypeOK
    <2>3. DOMAIN store'[n] = {}
      BY <1>7 DEF Restart, TypeInv, TypeOK
    <2>4. \A m \in Nodes : StoreOK(m)'
      BY <2>1, <2>3 DEF KeptInv, StoreOK, Neighbours
    <2>5. \A m \in Nodes : SeenOK(m)'
      BY <2>1, <2>2 DEF KeptInv, SeenOK, Had, Bundles
    <2> QED
      BY <2>1, <2>4, <2>5 DEF KeptInv, Neighbours
  <1>8. ASSUME NEW c \in copies, Lose(c)
        PROVE  KeptInv'
    BY <1>8 DEF Lose, KeptInv, StoreOK, SeenOK, Had, Neighbours, Bundles
  <1>9. CASE UNCHANGED vars
    BY <1>9 DEF vars, KeptInv, StoreOK, SeenOK, Neighbours, Had, Bundles
  <1> QED
    BY <1>1, <1>2, <1>3, <1>4, <1>5, <1>6, <1>7, <1>8, <1>9 DEF Next, Poll, RetryOne

-----------------------------------------------------------------------------
(* Who has delivered what.                                                 *)

(* Nobody sends what it has not delivered, and the source delivers first.  *)
LEMMA OriginStep ==
    ASSUME TypeInv, KeptInv, OriginInv, [Next]_vars
    PROVE  OriginInv'
  <1> USE NetworkAssumption
  <1>1. ASSUME NEW n \in Nodes, NEW object, NEW reached, Grown,
               copies' \subseteq copies \union Send(n, object, reached),
               object.bundle \in delivered'[n],
               \A b \in Bundles' \ Bundles : b \in delivered'[made'[b].source]
        PROVE  OriginInv'
    <2>1. ASSUME NEW c \in copies', c.bundle \notin harmed'
          PROVE  c.bundle \in delivered'[c.from]
      <3>1. CASE c \in copies
        <4>1. c.bundle \in delivered[c.from] /\ c.from \in Nodes
          BY <1>1, <2>1, <3>1 DEF OriginInv, Grown, TypeInv, TypeOK, Copies
        <4> QED
          BY <1>1, <4>1 DEF Grown
      <3>2. CASE c \notin copies
        <4>1. c.bundle = object.bundle /\ c.from = n
          BY <1>1, <3>2 DEF Send
        <4> QED
          BY <1>1, <4>1
      <3> QED
        BY <3>1, <3>2
    <2>2. ASSUME NEW b \in Bundles' \ harmed'
          PROVE  b \in delivered'[made'[b].source]
      <3>1. CASE b \in Bundles
        <4>1. b \in delivered[made[b].source] /\ made[b].source \in Nodes /\ made'[b] = made[b]
          <5>1. b \notin harmed /\ made'[b] = made[b]
            BY <1>1, <2>2, <3>1 DEF Grown
          <5>2. b \in delivered[made[b].source]
            BY <3>1, <5>1 DEF OriginInv
          <5> QED
            BY <3>1, <5>1, <5>2, IdOf
        <4> QED
          BY <1>1, <4>1 DEF Grown
      <3> QED
        BY <1>1, <3>1
    <2> QED
      BY <2>1, <2>2 DEF OriginInv
  <1>2. ASSUME NEW n \in Senders, NEW now \in Readings(n), NEW reached \in SUBSET nodes[n],
               Originate(n, now, reached)
        PROVE  OriginInv'
    <2> DEFINE object == [bundle |-> Len(made) + 1, hops |-> 0, to |-> {}]
    <2>1. n \in Nodes /\ Grown
      BY <1>2, Grows DEF Faultless
    <2>2. \A b \in Bundles' \ Bundles : b = Len(made) + 1 /\ made'[b] = NextId(n, now)
      <3>1. made' = Append(made, NextId(n, now)) /\ made \in Seq(Ids) /\ NextId(n, now) \in Ids
        BY <1>2, <2>1, NextIdType DEF Originate, TypeInv, TypeOK
      <3> QED
        BY <3>1 DEF Bundles
    <2>3. NextId(n, now).source = n
      BY DEF NextId
    <2>4. Len(made) + 1 \in delivered'[n]
      BY <1>2, <2>1 DEF Originate, Deliver, TypeInv, TypeOK
    <2>5. copies' = copies \union Send(n, object, reached)
      BY <1>2 DEF Originate
    <2>6. \A b \in Bundles' \ Bundles : b \in delivered'[made'[b].source]
      BY <2>2, <2>3, <2>4
    <2>7. object.bundle \in delivered'[n]
      BY <2>4
    <2> HIDE DEF object
    <2> QED
      BY <1>1, <2>1, <2>5, <2>6, <2>7
  <1>3. ASSUME NEW n \in Nodes, NEW c \in copies, Skip(n, c) \/ LastHop(n, c)
        PROVE  OriginInv'
    BY <1>3 DEF Skip, LastHop, OriginInv, Bundles
  <1>4. ASSUME NEW n \in Nodes, NEW c \in copies, NEW reached \in SUBSET nodes[n],
               Receive(n, c, reached)
        PROVE  OriginInv'
    <2> DEFINE object == [bundle |-> c.bundle, hops |-> c.hops,
                          to |-> {c.from} \intersect nodes[n]]
    <2>1. Grown /\ UNCHANGED made
      BY <1>4, Grows DEF Faultless, Poll, Receive
    <2>2. object.bundle \in delivered'[n]
      BY <1>4 DEF Receive, Deliver, TypeInv, TypeOK
    <2>3. copies' \subseteq copies \union Send(n, object, reached)
      BY <1>4 DEF Receive
    <2>4. Bundles' = Bundles
      BY <2>1 DEF Bundles
    <2> HIDE DEF object
    <2> QED
      BY <1>1, <2>1, <2>2, <2>3, <2>4
  <1>5. ASSUME NEW n \in Nodes, NEW id \in DOMAIN store[n], NEW reached \in SUBSET nodes[n],
               Retry(n, id, reached)
        PROVE  OriginInv'
    <2>1. /\ Grown /\ UNCHANGED <<made, delivered>>
          /\ copies' \subseteq copies \union Send(n, store[n][id], reached)
      BY <1>5, Grows DEF Faultless, RetryOne, Retry
    <2>2. store[n][id].bundle \in delivered'[n] /\ Bundles' = Bundles
      BY <2>1 DEF KeptInv, StoreOK, Bundles
    <2> QED
      BY <1>1, <2>1, <2>2
  <1>6. ASSUME NEW n, NEW m, Discover(n, m)
        PROVE  OriginInv'
    BY <1>6 DEF Discover, OriginInv, Bundles
  <1>7. ASSUME Fault, UNCHANGED made, copies' \subseteq copies
        PROVE  OriginInv'
    <2>1. \A c \in copies' : c.bundle \in harmed'
      BY <1>7 DEF Fault, TypeInv, TypeOK, Copies
    <2>2. Bundles' \ harmed' = {}
      BY <1>7, AllHarmed
    <2> QED
      BY <2>1, <2>2 DEF OriginInv
  <1>8. CASE UNCHANGED vars
    BY <1>8 DEF vars, OriginInv, Bundles
  <1>9. ASSUME NEW n \in Nodes, Restart(n)
        PROVE  OriginInv'
    BY <1>7, <1>9 DEF Restart
  <1>10. ASSUME NEW c \in copies, Lose(c)
         PROVE  OriginInv'
    BY <1>7, <1>10 DEF Lose
  <1> QED
    BY <1>2, <1>3, <1>4, <1>5, <1>6, <1>8, <1>9, <1>10 DEF Next, Poll, RetryOne

-----------------------------------------------------------------------------
(* A bundle reaches all to whom it was sent.                               *)

(* A copy leaves the network for a node that has had the bundle.           *)
LEMMA ReachedStays ==
    ASSUME TypeInv, KeptInv, Faultless, NEW b \in Bundles, Own(b), NEW m \in Nodes, Reached(b, m)
    PROVE  Reached(b, m)'
  <1>1. Grown
    BY Grows
  <1>2. CASE Had(b, m)
    BY <1>1, <1>2 DEF Grown, Had, Reached
  <1>3. ASSUME NEW d \in copies, d.bundle = b, d.to = m
        PROVE  Reached(b, m)'
    <2>1. CASE d \in copies'
      BY <1>3, <2>1 DEF Reached
    <2>2. ASSUME NEW n \in Nodes, Skip(n, d)
          PROVE  Reached(b, m)'
      <3>1. n = m /\ made[b] \in seen[m]
        BY <1>3, <2>2 DEF Skip
      <3>2. PICK a \in Bundles : made[a] = made[b] /\ (a \in harmed \/ Had(a, m))
        BY <3>1 DEF KeptInv, SeenOK
      <3>3. a = b
        BY <3>2 DEF Own
      <3>4. Had(b, m)
        BY <3>2, <3>3 DEF Own
      <3> QED
        BY <1>2, <3>4
    <2>3. ASSUME NEW n \in Nodes, LastHop(n, d)
          PROVE  Reached(b, m)'
      BY <1>3, <2>3 DEF LastHop, Reached, Had, TypeInv, TypeOK
    <2>4. ASSUME NEW n \in Nodes, NEW reached, Receive(n, d, reached)
          PROVE  Reached(b, m)'
      BY <1>3, <2>4 DEF Receive, Deliver, Reached, Had, TypeInv, TypeOK
    <2>5. ASSUME d \notin copies'
          PROVE  \E n \in Nodes : \/ Skip(n, d) \/ LastHop(n, d)
                                  \/ \E reached : Receive(n, d, reached)
      <3>1. ASSUME NEW n \in Nodes, NEW c \in copies,
                   Skip(n, c) \/ LastHop(n, c) \/ \E reached : Receive(n, c, reached)
            PROVE  c = d
        BY <2>5, <3>1 DEF Skip, LastHop, Receive
      <3>2. \A n, now, reached : ~ Originate(n, now, reached)
        BY <2>5 DEF Originate
      <3>3. \A n, id, reached : ~ Retry(n, id, reached)
        BY <2>5 DEF Retry
      <3>4. \A n, l : ~ Discover(n, l)
        BY <2>5 DEF Discover
      <3> QED
        BY <2>5, <3>1, <3>2, <3>3, <3>4 DEF Faultless, Poll, RetryOne, vars
    <2> QED
      BY <2>1, <2>2, <2>3, <2>4, <2>5
  <1> QED
    BY <1>2, <1>3 DEF Reached

(* Success has reached all neighbours.                                     *)
LEMMA SuccessReaches ==
    ASSUME Enough, NEW n \in Nodes, NEW object, Success(object), object.to \subseteq Neighbours(n)
    PROVE  object.to = Neighbours(n)
  <1>1. /\ IsFiniteSet(Neighbours(n)) /\ Cardinality(Neighbours(n)) \in Nat
        /\ Cardinality(Neighbours(n)) <= MinNodes
    BY FS_CardinalityType DEF Enough
  <1>2. /\ IsFiniteSet(object.to) /\ Cardinality(object.to) <= Cardinality(Neighbours(n))
        /\ Cardinality(Neighbours(n)) = Cardinality(object.to) => Neighbours(n) = object.to
    BY <1>1, FS_Subset
  <1>3. Cardinality(object.to) \in Nat
    BY <1>2, FS_CardinalityType
  <1>4. Cardinality(object.to) >= MinNodes
    BY DEF Success
  <1> QED
    BY <1>1, <1>2, <1>3, <1>4, NetworkAssumption

(* A node that keeps what it knows of a bundle has still forwarded it.     *)
LEMMA ForwardedStays ==
    ASSUME TypeInv, KeptInv, Faultless, NEW b \in Bundles, Own(b), NEW n \in Nodes,
           Forwarded(b, n),
           made[b] \in DOMAIN store[n] =>
               made[b] \in DOMAIN store'[n] /\ store'[n][made[b]].to = store[n][made[b]].to,
           made[b] \in DOMAIN store'[n] => made[b] \in DOMAIN store[n]
    PROVE  Forwarded(b, n)'
  <1>1. made'[b] = made[b]
    BY Grows DEF Grown
  <1>2. \A m \in Neighbours(n) : Reached(b, m) => Reached(b, m)'
    BY ReachedStays DEF Neighbours
  <1>3. CASE made[b] \in DOMAIN store[n]
    <2>1. store[n][made[b]].to \subseteq Neighbours(n)
      BY <1>3 DEF KeptInv, StoreOK
    <2>2. \A m \in store[n][made[b]].to : Reached(b, m)
      BY <1>3 DEF Forwarded
    <2> QED
      BY <1>1, <1>2, <1>3, <2>1, <2>2 DEF Forwarded
  <1>4. CASE made[b] \notin DOMAIN store[n]
    <2>1. \A m \in Neighbours(n) : Reached(b, m)
      BY <1>4 DEF Forwarded
    <2>2. \A m \in Neighbours(n) : Reached(b, m)'
      BY <1>2, <2>1
    <2>3. (made[b] \notin DOMAIN store[n])'
      BY <1>1, <1>4
    <2> QED
      BY <2>2, <2>3 DEF Forwarded, Neighbours
  <1> QED
    BY <1>3, <1>4

(* A node that has just handled a bundle it does not keep has forwarded it.*)
LEMMA ForwardedNow ==
    ASSUME TypeInv, Enough, NEW n \in Nodes, NEW b, NEW object, object.bundle = b,
           store' = Kept(n, object), object.to \subseteq Neighbours(n),
           made'[b] \notin DOMAIN store[n], \A m \in object.to : Reached(b, m)'
    PROVE  Forwarded(b, n)'
  <1>1. CASE made'[b] \in DOMAIN store'[n]
    <2>1. store'[n][made'[b]] = object
      BY <1>1, KeepOne
    <2> QED
      BY <1>1, <2>1 DEF Forwarded
  <1>2. CASE made'[b] \notin DOMAIN store'[n]
    <2>1. Success(object)
      BY <1>2, KeepOne
    <2>2. object.to = Neighbours(n)
      BY <2>1, SuccessReaches
    <2> QED
      BY <1>2, <2>2 DEF Forwarded, Neighbours
  <1> QED
    BY <1>1, <1>2

(* The copies of a bundle reach those they are sent to.                    *)
LEMMA SentReached ==
    ASSUME NEW n, NEW object, NEW reached, NEW m \in reached,
           Send(n, object, reached) \subseteq copies'
    PROVE  Reached(object.bundle, m)'
  <1> DEFINE c == [bundle |-> object.bundle, hops |-> object.hops + 1, from |-> n, to |-> m]
  <1>1. c \in copies' /\ c.bundle = object.bundle /\ c.to = m
    BY DEF Send
  <1> QED
    BY <1>1 DEF Reached

(* What a node delivers it forwards: now, or later out of its store.       *)
LEMMA SpreadStep ==
    ASSUME TypeInv, KeptInv, OriginInv, Enough, SpreadInv, [Next]_vars
    PROVE  SpreadInv'
  <1> USE NetworkAssumption
  <1>1. ASSUME Faultless, NEW b \in Bundles, Own(b)', NEW n \in Nodes, b \in delivered[n],
               UNCHANGED store \/ \A id \in DOMAIN store'[n] :
                   id \in DOMAIN store[n] \/ id # made[b],
               \A id \in DOMAIN store[n] :
                   id \in DOMAIN store'[n] /\ (id = made[b] => store'[n][id].to = store[n][id].to)
        PROVE  Forwarded(b, n)'
    <2>1. Own(b)
      BY <1>1, Grows, OwnBefore
    <2>2. Forwarded(b, n)
      BY <1>1, <2>1 DEF SpreadInv
    <2> QED
      BY <1>1, <2>1, <2>2, ForwardedStays
  <1>2. ASSUME NEW n \in Senders, NEW now \in Readings(n), NEW reached \in SUBSET nodes[n],
               Originate(n, now, reached)
        PROVE  SpreadInv'
    <2> PICK new \in Nat : new = Len(made) + 1
      BY DEF TypeInv, TypeOK
    <2> DEFINE object == [bundle |-> new, hops |-> 0, to |-> {}]
               after  == After(object, reached)
    <2>1. n \in Nodes /\ Faultless /\ Grown
      BY <1>2, Grows DEF Faultless
    <2>2. Bundles' = Bundles \union {new} /\ new \notin Bundles /\ made'[new] = NextId(n, now)
      <3>1. made' = Append(made, NextId(n, now)) /\ made \in Seq(Ids) /\ NextId(n, now) \in Ids
        BY <1>2, <2>1, NextIdType DEF Originate, TypeInv, TypeOK
      <3> QED
        BY <3>1 DEF Bundles
    <2>3. /\ delivered \in [Nodes -> SUBSET Bundles]
          /\ delivered' = [delivered EXCEPT ![n] = @ \union {new}]
      BY <1>2 DEF Originate, Deliver, TypeInv, TypeOK
    <2>4. after.bundle = new /\ after.to = reached /\ store' = Kept(n, after)
      BY <1>2 DEF Originate, After
    <2>5. object.bundle = new /\ Send(n, object, reached) \subseteq copies'
      BY <1>2 DEF Originate
    <2>6. \A m \in Nodes : \A id \in DOMAIN store[m] : \E a \in Bundles : made[a] = id
      <3> SUFFICES ASSUME NEW m \in Nodes, NEW id \in DOMAIN store[m]
                   PROVE  \E a \in Bundles : made[a] = id
        OBVIOUS
      <3>1. store[m][id] \in Objects /\ made[store[m][id].bundle] = id
        BY DEF TypeInv, TypeOK
      <3> QED
        BY <3>1 DEF Objects
    <2>7. reached \subseteq Neighbours(n)
      BY <2>1 DEF KeptInv
    <2> HIDE DEF after, object
    <2>8. ASSUME NEW k \in Nodes, NEW b \in Bundles, Own(b)', b \in delivered'[k]
          PROVE  Forwarded(b, k)'
      <3>1. b \in delivered[k]
        BY <2>2, <2>3, <2>8
      <3>2. NextId(n, now) # made[b]
        BY <2>1, <2>2, <2>8 DEF Own, Grown
      <3>3. \A id \in DOMAIN store'[k] : id \in DOMAIN store[k] \/ id = NextId(n, now)
        BY <2>1, <2>2, <2>4, KeepOne
      <3>4. \A id \in DOMAIN store[k] : id \in DOMAIN store'[k] /\ store'[k][id] = store[k][id]
        BY <2>1, <2>4, KeepOne
      <3> QED
        BY <1>1, <2>1, <2>8, <3>1, <3>2, <3>3, <3>4
    <2>9. ASSUME NEW k \in Nodes, Own(new)', new \in delivered'[k]
          PROVE  Forwarded(new, k)'
      <3>1. k = n
        BY <2>2, <2>3, <2>9
      <3>2. made'[new] \notin DOMAIN store[n]
        <4> SUFFICES ASSUME made'[new] \in DOMAIN store[n] PROVE FALSE
          OBVIOUS
        <4>1. PICK a \in Bundles : made[a] = made'[new]
          BY <2>1, <2>6
        <4>2. a \in Bundles' /\ made'[a] = made'[new]
          BY <2>1, <4>1 DEF Grown
        <4>3. a = new
          BY <2>9, <4>2 DEF Own
        <4> QED
          BY <2>2, <4>3
      <3>3. \A m \in after.to : Reached(new, m)'
        BY <2>4, <2>5, SentReached
      <3> QED
        BY <2>1, <2>4, <2>7, <3>1, <3>2, <3>3, ForwardedNow
    <2> QED
      BY <2>2, <2>8, <2>9 DEF SpreadInv
  <1>3. ASSUME NEW n \in Nodes, NEW c \in copies, Skip(n, c) \/ LastHop(n, c)
        PROVE  SpreadInv'
    <2>1. UNCHANGED <<made, store, delivered>> /\ Bundles' = Bundles
      BY <1>3 DEF Skip, LastHop, Bundles
    <2>2. Faultless
      BY <1>3 DEF Faultless, Poll
    <2> QED
      BY <1>1, <2>1, <2>2 DEF SpreadInv
  <1>4. ASSUME NEW n \in Nodes, NEW c \in copies, NEW reached \in SUBSET nodes[n],
               Receive(n, c, reached)
        PROVE  SpreadInv'
    <2> DEFINE object == [bundle |-> c.bundle, hops |-> c.hops,
                          to |-> {c.from} \intersect nodes[n]]
               after  == After(object, reached)
    <2>1. /\ Faultless /\ Grown /\ UNCHANGED made /\ Bundles' = Bundles
          /\ c.bundle \in Bundles /\ c.from \in Nodes
      BY <1>4, Grows DEF Faultless, Poll, Receive, Bundles, TypeInv, TypeOK, Copies
    <2>2. /\ delivered \in [Nodes -> SUBSET Bundles]
          /\ delivered' = [delivered EXCEPT ![n] = @ \union {c.bundle}]
      BY <1>4 DEF Receive, Deliver, TypeInv, TypeOK
    <2>3. /\ after.bundle = c.bundle /\ after.to = ({c.from} \intersect nodes[n]) \union reached
          /\ store' = Kept(n, after)
      BY <1>4 DEF Receive, After
    <2>4. object.bundle = c.bundle /\ Send(n, object, reached) \subseteq copies'
      BY <1>4 DEF Receive
    <2> HIDE DEF after, object
    <2>5. after.to \subseteq Neighbours(n)
      BY <2>3 DEF KeptInv
    <2>6. ASSUME NEW b \in Bundles, Own(b)', NEW k \in Nodes, b \in delivered'[k]
          PROVE  Forwarded(b, k)'
      <3>1. \A id \in DOMAIN store[k] : id \in DOMAIN store'[k] /\ store'[k][id] = store[k][id]
        BY <2>3, KeepOne
      <3>2. \A id \in DOMAIN store'[k] : id \in DOMAIN store[k] \/ (k = n /\ id = made[c.bundle])
        BY <2>1, <2>3, KeepOne
      <3>3. CASE b # c.bundle \/ k # n
        <4>1. b \in delivered[k]
          BY <2>2, <2>6, <3>3
        <4>2. made[b] # made[c.bundle] \/ k # n
          BY <2>1, <2>6, <3>3 DEF Own
        <4> QED
          BY <1>1, <2>1, <2>6, <3>1, <3>2, <4>1, <4>2
      <3>4. CASE b = c.bundle /\ k = n /\ made[b] \in DOMAIN store[n]
        <4>1. store[n][made[b]].bundle = b
          <5>1. store[n][made[b]] \in Objects /\ made[store[n][made[b]].bundle] = made[b]
            BY <3>4 DEF TypeInv, TypeOK
          <5>2. Own(b)
            BY <2>1, <2>6, OwnBefore
          <5> QED
            BY <5>1, <5>2 DEF Own, Objects
        <4>2. b \in delivered[n]
          BY <3>4, <4>1 DEF KeptInv, StoreOK
        <4> QED
          BY <1>1, <2>1, <2>6, <3>1, <3>2, <3>4, <4>2
      <3>5. CASE b = c.bundle /\ k = n /\ made[b] \notin DOMAIN store[n]
        <4>1. Reached(b, c.from)'
          <5>1. b \in delivered[c.from]
            BY <2>1, <2>6, <3>5 DEF OriginInv, Own, Grown
          <5> QED
            BY <2>1, <5>1 DEF Reached, Had, Grown
        <4>2. \A m \in reached : Reached(b, m)'
          BY <2>4, <3>5, SentReached
        <4> QED
          BY <2>1, <2>3, <2>5, <3>5, <4>1, <4>2, ForwardedNow
      <3> QED
        BY <3>3, <3>4, <3>5
    <2> QED
      BY <2>1, <2>6 DEF SpreadInv
  <1>5. ASSUME NEW n \in Nodes, NEW id \in DOMAIN store[n], NEW reached \in SUBSET nodes[n],
               Retry(n, id, reached)
        PROVE  SpreadInv'
    <2> DEFINE object == store[n][id]
               after  == After(object, reached)
    <2>1. /\ Faultless /\ Grown /\ UNCHANGED <<made, delivered>> /\ Bundles' = Bundles
          /\ Send(n, object, reached) \subseteq copies'
      BY <1>5, Grows DEF Faultless, RetryOne, Retry, Bundles
    <2>2. object \in Objects /\ made[object.bundle] = id
      BY DEF TypeInv, TypeOK
    <2>3. after.to = object.to \union reached
      BY <2>2 DEF After, Objects
    <2>4. store' = [store EXCEPT ![n] = [store[n] EXCEPT ![id] = after]]
      BY <1>5 DEF Retry
    <2> HIDE DEF after
    <2>5. /\ \A m \in Nodes : DOMAIN store'[m] = DOMAIN store[m]
          /\ \A m \in Nodes : \A i \in DOMAIN store[m] :
                 store'[m][i] = IF m = n /\ i = id THEN after ELSE store[m][i]
      BY <2>4 DEF TypeInv, TypeOK
    <2>6. ASSUME NEW b \in Bundles, Own(b)', NEW k \in Nodes, b \in delivered[k]
          PROVE  Forwarded(b, k)'
      <3>1. CASE made[b] # id \/ k # n
        BY <1>1, <2>1, <2>5, <2>6, <3>1
      <3>2. CASE made[b] = id /\ k = n
        <4>1. Own(b) /\ object.bundle = b
          <5>1. Own(b)
            BY <2>1, <2>6, OwnBefore
          <5>2. object.bundle \in Bundles /\ made[object.bundle] = made[b]
            BY <2>2, <3>2 DEF Objects
          <5> QED
            BY <5>1, <5>2 DEF Own
        <4>2. \A m \in object.to : Reached(b, m)
          BY <2>6, <3>2, <4>1 DEF SpreadInv, Forwarded
        <4>3. object.to \subseteq Nodes
          BY <2>2 DEF Objects
        <4>4. \A m \in object.to : Reached(b, m)'
          BY <2>1, <4>1, <4>2, <4>3, ReachedStays
        <4>5. \A m \in reached : Reached(b, m)'
          BY <2>1, <4>1, SentReached
        <4>6. \A m \in after.to : Reached(b, m)'
          BY <2>3, <4>4, <4>5
        <4>7. made'[b] \in DOMAIN store'[n] /\ store'[n][made'[b]] = after
          BY <2>1, <2>5, <3>2
        <4> QED
          BY <3>2, <4>6, <4>7 DEF Forwarded
      <3> QED
        BY <3>1, <3>2
    <2> QED
      BY <2>1, <2>6 DEF SpreadInv
  <1>6. ASSUME NEW l \in Links, Discover(l[1], l[2])
        PROVE  SpreadInv'
    <2>1. Faultless /\ UNCHANGED <<made, store, delivered>> /\ Bundles' = Bundles
      BY <1>6 DEF Faultless, Discover, Bundles
    <2> QED
      BY <1>1, <2>1 DEF SpreadInv
  <1>7. ASSUME NEW n \in Nodes, Restart(n)
        PROVE  SpreadInv'
    BY <1>7, AllHarmed DEF Restart, SpreadInv
  <1>8. ASSUME NEW c \in copies, Lose(c)
        PROVE  SpreadInv'
    BY <1>8, AllHarmed DEF Lose, SpreadInv
  <1>9. CASE UNCHANGED vars
    <2>1. Faultless /\ UNCHANGED <<made, store, delivered>> /\ Bundles' = Bundles
      BY <1>9 DEF Faultless, vars, Bundles
    <2> QED
      BY <1>1, <2>1 DEF SpreadInv
  <1> QED
    BY <1>2, <1>3, <1>4, <1>5, <1>6, <1>7, <1>8, <1>9 DEF Next, Poll, RetryOne

(* At rest, the neighbours of a node that has delivered a bundle have had  *)
(* it, too.                                                                *)
LEMMA NeighboursHad ==
    ASSUME TypeInv, KeptInv, SpreadInv, Quiet, NEW b \in Bundles, Own(b),
           NEW n \in Nodes, b \in delivered[n], NEW m \in Neighbours(n)
    PROVE  Had(b, m)
  <1>1. Forwarded(b, n) /\ copies = {}
    BY DEF SpreadInv, Quiet
  <1>2. m \in nodes[n]
    BY DEF Quiet, Neighbours
  <1>3. CASE made[b] \in DOMAIN store[n]
    <2>1. m \in store[n][made[b]].to
      BY <1>2, <1>3 DEF Quiet, Targets
    <2> QED
      BY <1>1, <1>3, <2>1 DEF Forwarded, Reached
  <1>4. CASE made[b] \notin DOMAIN store[n]
    BY <1>1, <1>4 DEF Forwarded, Reached
  <1> QED
    BY <1>3, <1>4

(* The invariant holds in every behaviour.                                 *)
LEMMA SpreadInductive == Spec => [](TypeInv /\ KeptInv /\ OriginInv /\ (Enough => SpreadInv))
  <1> DEFINE Inv == TypeInv /\ KeptInv /\ OriginInv /\ (Enough => SpreadInv)
  <1>1. Init => Inv
    <2> SUFFICES ASSUME Init PROVE Inv
      OBVIOUS
    <2>1. Bundles = {} /\ \A n \in Nodes : DOMAIN store[n] = {}
      BY DEF Init, Bundles
    <2>2. KeptInv
      BY <2>1 DEF Init, KeptInv, StoreOK, SeenOK, Neighbours
    <2> QED
      BY <2>1, <2>2, TypeInit DEF Init, OriginInv, SpreadInv
  <1>2. Inv /\ [Next]_vars => Inv'
    BY TypeStep, KeptStep, OriginStep, SpreadStep DEF Enough, Neighbours
  <1> QED
    BY <1>1, <1>2, PTL DEF Spec

(* Where all nodes can meet, a network at rest has spread every bundle to  *)
(* every node, over whatever failed attempts: forward() hands on what it   *)
(* could not send to MinNodes nodes, and the table of seen ids, though it  *)
(* overflows, skips no bundle a node has not had.                          *)
THEOREM SpreadAmongAll == Spec => [](Enough /\ AllMeet => SpreadWhenQuiet)
  <1>1. TypeInv /\ KeptInv /\ OriginInv /\ (Enough => SpreadInv)
            => (Enough /\ AllMeet => SpreadWhenQuiet)
    <2> SUFFICES ASSUME TypeInv, KeptInv, OriginInv, SpreadInv, AllMeet, Quiet,
                        NEW b \in Bundles \ harmed, NEW n \in Nodes,
                        ~ \E a \in Bundles : a # b /\ made[a] = made[b]
                 PROVE  Had(b, n)
      BY DEF SpreadWhenQuiet, Had
    <2> DEFINE source == made[b].source
    <2>1. Own(b) /\ source \in Nodes /\ b \in delivered[source]
      BY IdOf DEF Own, OriginInv
    <2> HIDE DEF source
    <2>2. CASE n = source
      BY <2>1, <2>2 DEF Had
    <2>3. CASE n # source
      <3>1. n \in Neighbours(source)
        BY <2>1, <2>3 DEF AllMeet, Neighbours
      <3> QED
        BY <2>1, <3>1, NeighboursHad
    <2> QED
      BY <2>2, <2>3
  <1> QED
    BY <1>1, SpreadInductive, PTL

-----------------------------------------------------------------------------
(* How far a copy has come.                                                *)

(* The size of a set of nodes. *)
LEMMA HoldersBound ==
    ASSUME HopsSuffice, NEW H \in SUBSET Nodes
    PROVE  /\ IsFiniteSet(H) /\ Cardinality(H) \in Nat /\ Cardinality(Nodes) \in Nat
           /\ Cardinality(H) <= Cardinality(Nodes)
           /\ \A n \in Nodes \ H : /\ Cardinality(H \union {n}) = Cardinality(H) + 1
                                   /\ Cardinality(H) < Cardinality(Nodes)
           /\ \A G \in SUBSET H : Cardinality(G) \in Nat /\ Cardinality(G) <= Cardinality(H)
  <1> USE DEF HopsSuffice
  <1>1. /\ IsFiniteSet(H) /\ Cardinality(H) \in Nat /\ Cardinality(Nodes) \in Nat
        /\ Cardinality(H) <= Cardinality(Nodes)
    BY FS_Subset, FS_CardinalityType
  <1>2. ASSUME NEW n \in Nodes \ H
        PROVE  /\ Cardinality(H \union {n}) = Cardinality(H) + 1
               /\ Cardinality(H) < Cardinality(Nodes)
    <2>1. Cardinality(H \union {n}) = Cardinality(H) + 1
      BY <1>1, FS_AddElement
    <2>2. Cardinality(H \union {n}) <= Cardinality(Nodes)
      BY FS_Subset
    <2> QED
      BY <1>1, <2>1, <2>2
  <1>3. ASSUME NEW G \in SUBSET H
        PROVE  Cardinality(G) \in Nat /\ Cardinality(G) <= Cardinality(H)
    BY <1>1, <1>3, FS_Subset, FS_CardinalityType
  <1> QED
    BY <1>1, <1>2, <1>3

(* The hops a copy of a bundle may have made. *)
Bound(b) == Cardinality(Holders(b)) + Returned(b)

(* A copy may have made more hops when more nodes have the bundle. *)
LEMMA BoundGrows ==
    ASSUME TypeInv, HopsSuffice, Grown, \A n \in Nodes : again[n] \subseteq again'[n],
           NEW b \in Bundles
    PROVE  Bound(b) \in Nat /\ Bound(b)' \in Nat /\ Bound(b) <= Bound(b)'
  <1> DEFINE G == Holders(b)
             H == Holders(b)'
  <1>1. G \subseteq H /\ H \subseteq Nodes
    BY DEF Grown, Holders
  <1>2. Cardinality(G) \in Nat /\ Cardinality(H) \in Nat /\ Cardinality(G) <= Cardinality(H)
    BY <1>1, HoldersBound
  <1>3. made'[b] = made[b] /\ made[b].source \in Nodes
    BY IdOf DEF Grown
  <1>4. Returned(b) \in {0, 1} /\ Returned(b)' \in {0, 1} /\ Returned(b) <= Returned(b)'
    BY <1>3 DEF Returned
  <1>5. Bound(b) = Cardinality(G) + Returned(b) /\ Bound(b)' = Cardinality(H) + Returned(b)'
    BY DEF Bound
  <1> HIDE DEF G, H
  <1> QED
    BY <1>2, <1>4, <1>5

(* A step whose new copies and objects have made few enough.               *)
LEMMA HopsStays ==
    ASSUME TypeInv, HopsSuffice, Grown, \A n \in Nodes : again[n] \subseteq again'[n],
           NEW b \in Bundles, HopsOK(b),
           \A n \in Nodes : b \notin expired'[n],
           b \in again'[made[b].source] => made[b] \in seen'[made[b].source],
           \A c \in copies' : c.bundle = b => c \in copies \/ c.hops <= Bound(b)',
           \A n \in Nodes : \A id \in DOMAIN store'[n] : store'[n][id].bundle = b =>
               \/ id \in DOMAIN store[n] /\ store[n][id].bundle = b
                  /\ store'[n][id].hops = store[n][id].hops
               \/ store'[n][id].hops < Bound(b)'
    PROVE  HopsOK(b)'
  <1>1. Bound(b) \in Nat /\ Bound(b)' \in Nat /\ Bound(b) <= Bound(b)'
    BY BoundGrows
  <1>2. ASSUME NEW c \in copies', c.bundle = b
        PROVE  c.hops <= Bound(b)'
    <2>1. CASE c \in copies
      <3>1. c.hops <= Bound(b) /\ c.hops \in Nat
        BY <1>2, <2>1, NetworkAssumption DEF HopsOK, Bound, TypeInv, TypeOK, Copies
      <3> QED
        BY <1>1, <3>1
    <2> QED
      BY <1>2, <2>1
  <1>3. ASSUME NEW n \in Nodes, NEW id \in DOMAIN store'[n], store'[n][id].bundle = b
        PROVE  store'[n][id].hops < Bound(b)'
    <2>1. CASE /\ id \in DOMAIN store[n] /\ store[n][id].bundle = b
               /\ store'[n][id].hops = store[n][id].hops
      <3>1. store[n][id].hops < Bound(b)
        BY <2>1 DEF HopsOK, Bound
      <3>2. store[n][id].hops \in Nat
        <4>1. store[n][id] \in Objects
          BY <2>1 DEF TypeInv, TypeOK
        <4> QED
          BY <4>1, NetworkAssumption DEF Objects
      <3> QED
        BY <1>1, <2>1, <3>1, <3>2
    <2> QED
      BY <1>3, <2>1
  <1>4. made'[b] = made[b]
    BY DEF Grown
  <1> QED
    BY <1>2, <1>3, <1>4 DEF HopsOK, Bound

(* A copy that a node has not seen brings the bundle to a new node, or for *)
(* the first time back to its source.                                      *)
LEMMA NewOrReturned ==
    ASSUME TypeInv, DeliveredSeen, Remembering, NEW b \in Bundles, HopsOK(b),
           NEW n \in Nodes, made[b] \notin seen[n]
    PROVE  n \notin Holders(b) \/ (n = made[b].source /\ b \notin again[n])
  BY DEF DeliveredSeen, Remembering, HopsOK, Holders

(* No copy makes more hops than there are nodes, or expires, while no node *)
(* forgets a bundle it has seen.                                           *)
LEMMA HopsStep ==
    ASSUME TypeInv, KeptInv, OriginInv, DeliveredSeen, HopsSuffice, HopsInv, [Next]_vars
    PROVE  HopsInv'
  <1> USE NetworkAssumption
  <1> SUFFICES ASSUME Remembering', NEW b \in Bundles', Own(b)'
               PROVE  HopsOK(b)'
    BY DEF HopsInv
  <1>1. ASSUME Faultless, UNCHANGED <<again, overflowed, expired, seen>>, b \in Bundles,
               \A c \in copies' : c.bundle = b => c \in copies \/ c.hops <= Bound(b)',
               \A n \in Nodes : \A id \in DOMAIN store'[n] :
                   /\ id \in DOMAIN store[n] /\ store'[n][id].bundle = store[n][id].bundle
                   /\ store'[n][id].hops = store[n][id].hops
        PROVE  HopsOK(b)'
    <2>1. Grown /\ Own(b) /\ Remembering
      BY <1>1, Grows, OwnBefore DEF Remembering
    <2>2. HopsOK(b)
      BY <1>1, <2>1 DEF HopsInv
    <2>3. /\ \A n \in Nodes : b \notin expired'[n]
          /\ b \in again'[made[b].source] => made[b] \in seen'[made[b].source]
      BY <1>1, <2>2 DEF HopsOK
    <2> QED
      BY <1>1, <2>1, <2>2, <2>3, HopsStays
  <1>2. ASSUME NEW n \in Senders, NEW now \in Readings(n), NEW reached \in SUBSET nodes[n],
               Originate(n, now, reached)
        PROVE  HopsOK(b)'
    <2> PICK new \in Nat : new = Len(made) + 1
      BY DEF TypeInv, TypeOK
    <2> DEFINE object == [bundle |-> new, hops |-> 0, to |-> {}]
               after  == After(object, reached)
    <2>1. n \in Nodes /\ Faultless /\ Grown
      BY <1>2, Grows DEF Faultless
    <2>2. Bundles' = Bundles \union {new} /\ new \notin Bundles /\ made'[new] = NextId(n, now)
      <3>1. made' = Append(made, NextId(n, now)) /\ made \in Seq(Ids) /\ NextId(n, now) \in Ids
        BY <1>2, <2>1, NextIdType DEF Originate, TypeInv, TypeOK
      <3> QED
        BY <3>1 DEF Bundles
    <2>3. /\ delivered \in [Nodes -> SUBSET Bundles]
          /\ delivered' = [delivered EXCEPT ![n] = @ \union {new}]
          /\ again' = [again EXCEPT ![n] = @ \union ({new} \intersect delivered[n])]
          /\ again \in [Nodes -> SUBSET Bundles] /\ UNCHANGED expired
          /\ expired \in [Nodes -> SUBSET Bundles]
      BY <1>2 DEF Originate, Deliver, TypeInv, TypeOK
    <2>4. again' = again
      BY <2>2, <2>3
    <2>5. after.bundle = new /\ after.hops = 0 /\ store' = Kept(n, after)
      BY <1>2 DEF Originate, After
    <2>6. \A c \in copies' \ copies : c.bundle = new /\ c.hops = 1
      BY <1>2 DEF Originate, Send
    <2> HIDE DEF object, after
    <2>7. CASE b \in Bundles
      <3>1. UNCHANGED <<seen, overflowed>> \/ See(n, NextId(n, now))
        BY <1>2 DEF Originate
      <3>2. Remembering /\ \A m \in Nodes : seen[m] \subseteq seen'[m]
        BY <2>1, <3>1, SeeOne DEF Remembering
      <3>3. HopsOK(b) /\ made[b].source \in Nodes
        BY <2>1, <2>7, <3>2, OwnBefore, IdOf DEF HopsInv
      <3>4. \A c \in copies' : c.bundle = b => c \in copies
        BY <2>2, <2>6, <2>7
      <3>5. \A m \in Nodes : \A id \in DOMAIN store'[m] : store'[m][id].bundle = b =>
                id \in DOMAIN store[m] /\ store'[m][id] = store[m][id]
        BY <2>1, <2>2, <2>5, <2>7, KeepOne
      <3>6. /\ \A m \in Nodes : b \notin expired'[m]
            /\ b \in again'[made[b].source] => made[b] \in seen'[made[b].source]
        BY <2>3, <2>4, <3>2, <3>3 DEF HopsOK
      <3> QED
        BY <2>1, <2>4, <2>7, <3>3, <3>4, <3>5, <3>6, HopsStays
    <2>8. CASE b = new
      <3>1. \A m \in Nodes : b \notin expired'[m] /\ b \notin again'[m]
        BY <2>2, <2>3, <2>4, <2>8
      <3>2. Holders(b)' = {n}
        BY <2>1, <2>2, <2>3, <2>8 DEF Holders
      <3>3. Bound(b)' = 1
        <4>1. made'[b].source = n
          BY <2>2, <2>8 DEF NextId
        <4>2. Returned(b)' = 0
          BY <2>1, <3>1, <4>1 DEF Returned
        <4>3. Cardinality({n}) = 1
          BY FS_Singleton
        <4> QED
          BY <3>2, <4>2, <4>3 DEF Bound
      <3>4. \A c \in copies' : c.bundle = b => c.hops = 1
        <4>1. \A c \in copies : c.bundle \in Bundles
          BY DEF TypeInv, TypeOK, Copies
        <4>2. \A c \in copies : c.bundle # b
          BY <2>2, <2>8, <4>1
        <4> QED
          BY <2>6, <4>2
      <3>5. \A m \in Nodes : \A id \in DOMAIN store'[m] :
                store'[m][id].bundle = b => store'[m][id].hops = 0
        <4> SUFFICES ASSUME NEW m \in Nodes, NEW id \in DOMAIN store'[m], store'[m][id].bundle = b
                     PROVE  store'[m][id].hops = 0
          OBVIOUS
        <4>1. CASE id \in DOMAIN store[m]
          <5>1. store[m][id] \in Objects
            BY <4>1 DEF TypeInv, TypeOK
          <5>2. store'[m][id] = store[m][id]
            BY <2>1, <2>5, <4>1, KeepOne
          <5>3. store[m][id].bundle \in Bundles
            BY <5>1 DEF Objects
          <5> QED
            BY <2>2, <2>8, <5>2, <5>3
        <4>2. CASE id \notin DOMAIN store[m]
          BY <2>1, <2>5, <4>2, KeepOne
        <4> QED
          BY <4>1, <4>2
      <3>6. made'[b].source = n
        BY <2>2, <2>8 DEF NextId
      <3> QED
        BY <2>1, <3>1, <3>3, <3>4, <3>5, <3>6 DEF HopsOK, Bound
    <2> QED
      BY <2>2, <2>7, <2>8
  <1>3. ASSUME NEW n \in Nodes, NEW c \in copies, Skip(n, c)
        PROVE  HopsOK(b)'
    BY <1>1, <1>3 DEF Skip, Faultless, Poll, Bundles
  <1>4. ASSUME NEW n \in Nodes, NEW c \in copies, LastHop(n, c)
        PROVE  HopsOK(b)'
    <2>1. /\ Faultless /\ Grown /\ b \in Bundles /\ copies' \subseteq copies
          /\ UNCHANGED <<store, again>> /\ See(n, made[c.bundle])
      BY <1>4, Grows DEF Faultless, Poll, LastHop, Bundles
    <2>2. Remembering /\ \A m \in Nodes : seen[m] \subseteq seen'[m]
      BY <2>1, SeeOne DEF Remembering
    <2>3. HopsOK(b) /\ made[b].source \in Nodes
      BY <2>1, <2>2, OwnBefore, IdOf DEF HopsInv
    <2>4. CASE c.bundle = b
      <3>1. made[b] \notin seen[n] /\ c.hops >= HopLimit /\ c.hops <= Bound(b)
        BY <1>4, <2>3, <2>4 DEF LastHop, HopsOK, Bound
      <3>2. c.hops \in Nat
        BY DEF TypeInv, TypeOK, Copies
      <3>3. Bound(b) <= Cardinality(Nodes) /\ Cardinality(Nodes) \in Nat /\ Bound(b) \in Nat
        <4>1. /\ Cardinality(Holders(b)) \in Nat /\ Cardinality(Nodes) \in Nat
              /\ Cardinality(Holders(b)) <= Cardinality(Nodes)
              /\ n \notin Holders(b) => Cardinality(Holders(b)) < Cardinality(Nodes)
          BY HoldersBound DEF Holders
        <4>2. Returned(b) \in {0, 1} /\ (b \notin again[made[b].source] => Returned(b) = 0)
          BY DEF Returned
        <4>3. n \notin Holders(b) \/ b \notin again[made[b].source]
          BY <2>1, <2>2, <2>3, <3>1, NewOrReturned
        <4> QED
          BY <4>1, <4>2, <4>3 DEF Bound
      <3> QED
        BY <3>1, <3>2, <3>3 DEF HopsSuffice
    <2>5. CASE c.bundle # b
      <3>1. \A m \in Nodes : b \notin expired'[m]
        <4>1. expired' = [expired EXCEPT ![n] = @ \union {c.bundle}]
          BY <1>4 DEF LastHop
        <4> QED
          BY <2>3, <2>5, <4>1 DEF HopsOK, TypeInv, TypeOK
      <3>2. b \in again'[made[b].source] => made[b] \in seen'[made[b].source]
        BY <2>1, <2>2, <2>3 DEF HopsOK
      <3> QED
        BY <2>1, <2>3, <3>1, <3>2, HopsStays
    <2> QED
      BY <2>4, <2>5
  <1>5. ASSUME NEW n \in Nodes, NEW c \in copies, NEW reached \in SUBSET nodes[n],
               Receive(n, c, reached)
        PROVE  HopsOK(b)'
    <2> DEFINE object == [bundle |-> c.bundle, hops |-> c.hops,
                          to |-> {c.from} \intersect nodes[n]]
               after  == After(object, reached)
    <2>1. /\ Faultless /\ Grown /\ b \in Bundles /\ UNCHANGED <<made, expired>>
          /\ See(n, made[c.bundle]) /\ made[c.bundle] \notin seen[n]
      BY <1>5, Grows DEF Faultless, Poll, Receive, Bundles
    <2>2. Remembering /\ \A m \in Nodes : seen[m] \subseteq seen'[m]
      BY <2>1, SeeOne DEF Remembering
    <2>3. HopsOK(b) /\ made[b].source \in Nodes
      BY <2>1, <2>2, OwnBefore, IdOf DEF HopsInv
    <2>4. /\ delivered' = [delivered EXCEPT ![n] = @ \union {c.bundle}]
          /\ again' = [again EXCEPT ![n] = @ \union ({c.bundle} \intersect delivered[n])]
          /\ delivered \in [Nodes -> SUBSET Bundles] /\ again \in [Nodes -> SUBSET Bundles]
      BY <1>5 DEF Receive, Deliver, TypeInv, TypeOK
    <2>5. \A m \in Nodes : again[m] \subseteq again'[m]
      BY <2>4
    <2>6. after.bundle = c.bundle /\ after.hops = c.hops /\ store' = Kept(n, after)
      BY <1>5 DEF Receive, After
    <2>7. \A d \in copies' \ copies : d.bundle = c.bundle /\ d.hops = c.hops + 1
      BY <1>5 DEF Receive, Send
    <2> HIDE DEF object, after
    <2>8. \A m \in Nodes : b \notin expired'[m]
      BY <2>1, <2>3 DEF HopsOK
    <2>9. \A m \in Nodes : \A id \in DOMAIN store'[m] :
              \/ id \in DOMAIN store[m] /\ store'[m][id] = store[m][id]
              \/ store'[m][id] = after
      BY <2>6, KeepOne
    <2>10. CASE c.bundle # b
      <3>1. b \in again'[made[b].source] => made[b] \in seen'[made[b].source]
        BY <2>2, <2>3, <2>4, <2>10 DEF HopsOK
      <3>2. \A d \in copies' : d.bundle = b => d \in copies
        BY <2>7, <2>10
      <3>3. \A m \in Nodes : \A id \in DOMAIN store'[m] : store'[m][id].bundle = b =>
                id \in DOMAIN store[m] /\ store'[m][id] = store[m][id]
        BY <2>6, <2>9, <2>10
      <3> QED
        BY <2>1, <2>3, <2>5, <2>8, <3>1, <3>2, <3>3, HopsStays
    <2>11. CASE c.bundle = b
      <3>1. c.hops <= Bound(b) /\ c.hops \in Nat
        BY <2>3, <2>11 DEF HopsOK, Bound, TypeInv, TypeOK, Copies
      <3>2. n \notin Holders(b) \/ (n = made[b].source /\ b \notin again[n] /\ n \in Holders(b))
        BY <2>1, <2>2, <2>3, <2>11, NewOrReturned
      <3>3. Bound(b) \in Nat /\ Bound(b)' \in Nat /\ Bound(b) + 1 <= Bound(b)'
        <4> DEFINE G == Holders(b)
                   H == Holders(b)'
        <4>1. H = G \union {n}
          BY <2>4, <2>11 DEF Holders
        <4>2. /\ Cardinality(G) \in Nat
              /\ n \notin G => Cardinality(G \union {n}) = Cardinality(G) + 1
              /\ n \in G => G \union {n} = G
          BY HoldersBound DEF Holders
        <4>3. /\ Returned(b) \in {0, 1} /\ Returned(b)' \in {0, 1} /\ Returned(b) <= Returned(b)'
              /\ n \in G => Returned(b) = 0 /\ Returned(b)' = 1
          <5>1. made'[b] = made[b]
            BY <2>1
          <5>2. n \in G => b \notin again[made[b].source] /\ b \in again'[made[b].source]
            BY <2>3, <2>4, <2>11, <3>2 DEF Holders
          <5> QED
            BY <2>3, <2>5, <5>1, <5>2 DEF Returned
        <4>4. Bound(b) = Cardinality(G) + Returned(b) /\ Bound(b)' = Cardinality(H) + Returned(b)'
          BY DEF Bound
        <4> HIDE DEF G, H
        <4>5. CASE n \in G
          <5>1. H = G
            BY <4>1, <4>2, <4>5
          <5> QED
            BY <4>2, <4>3, <4>4, <4>5, <5>1
        <4>6. CASE n \notin G
          <5>1. Cardinality(H) = Cardinality(G) + 1
            BY <4>1, <4>2, <4>6
          <5> QED
            BY <4>2, <4>3, <4>4, <5>1
        <4> QED
          BY <4>5, <4>6
      <3>4. \A d \in copies' : d \in copies \/ d.hops <= Bound(b)'
        BY <2>7, <3>1, <3>3
      <3>5. after.hops < Bound(b)'
        BY <2>6, <3>1, <3>3
      <3>6. b \in again'[made[b].source] => made[b] \in seen'[made[b].source]
        <4>1. CASE n = made[b].source
          BY <2>1, <2>11, <4>1, SeeOne
        <4>2. CASE n # made[b].source
          BY <2>2, <2>3, <2>4, <4>2 DEF HopsOK
        <4> QED
          BY <4>1, <4>2
      <3> QED
        BY <2>1, <2>3, <2>5, <2>8, <2>9, <3>4, <3>5, <3>6, HopsStays
    <2> QED
      BY <2>10, <2>11
  <1>6. ASSUME NEW n \in Nodes, NEW id \in DOMAIN store[n], NEW reached \in SUBSET nodes[n],
               Retry(n, id, reached)
        PROVE  HopsOK(b)'
    <2> DEFINE object == store[n][id]
               after  == After(object, reached)
    <2>1. /\ Faultless /\ Grown /\ b \in Bundles
          /\ UNCHANGED <<made, delivered, again, seen, expired, overflowed>>
      BY <1>6, Grows DEF Faultless, RetryOne, Retry, Bundles
    <2>2. /\ object \in Objects
          /\ after.bundle = object.bundle /\ after.hops = object.hops
      BY DEF After, TypeInv, TypeOK, Objects
    <2>3. store' = [store EXCEPT ![n] = [store[n] EXCEPT ![id] = after]]
      BY <1>6 DEF Retry
    <2>4. \A d \in copies' \ copies : d.bundle = object.bundle /\ d.hops = object.hops + 1
      BY <1>6 DEF Retry, Send
    <2>5. HopsOK(b)
      BY <2>1, OwnBefore DEF HopsInv, Remembering
    <2> HIDE DEF after
    <2>6. \A m \in Nodes : \A i \in DOMAIN store'[m] :
              /\ i \in DOMAIN store[m] /\ store'[m][i].bundle = store[m][i].bundle
              /\ store'[m][i].hops = store[m][i].hops
      BY <2>2, <2>3 DEF TypeInv, TypeOK
    <2>7. \A d \in copies' : d.bundle = b => d \in copies \/ d.hops <= Bound(b)'
      <3> SUFFICES ASSUME NEW d \in copies' \ copies, d.bundle = b
                   PROVE  d.hops <= Bound(b)'
        OBVIOUS
      <3>1. object.hops < Bound(b) /\ object.hops \in Nat /\ d.hops = object.hops + 1
        BY <2>2, <2>4, <2>5 DEF HopsOK, Bound, Objects
      <3>2. Bound(b) \in Nat /\ Bound(b)' \in Nat /\ Bound(b) <= Bound(b)'
        BY <2>1, BoundGrows
      <3> QED
        BY <3>1, <3>2
    <2> QED
      BY <1>1, <2>1, <2>6, <2>7
  <1>7. ASSUME NEW l \in Links, Discover(l[1], l[2])
        PROVE  HopsOK(b)'
    BY <1>1, <1>7 DEF Discover, Faultless, Bundles
  <1>8. ASSUME NEW n \in Nodes, Restart(n)
        PROVE  HopsOK(b)'
    BY <1>8, AllHarmed DEF Restart
  <1>9. ASSUME NEW c \in copies, Lose(c)
        PROVE  HopsOK(b)'
    BY <1>9, AllHarmed DEF Lose
  <1>10. CASE UNCHANGED vars
    BY <1>1, <1>10 DEF vars, Faultless, Bundles
  <1> QED
    BY <1>2, <1>3, <1>4, <1>5, <1>6, <1>7, <1>8, <1>9, <1>10 DEF Next, Poll, RetryOne

(* While no table of seen ids overflows, a network of which the nodes can  *)
(* not all meet spreads every bundle to every node too, if its hop limit   *)
(* is above the number of nodes: on its way, and over the one detour that  *)
(* a source takes when its own bundle comes back, no copy expires.         *)
THEOREM SpreadOverHops ==
    Spec => [](Enough /\ Connected /\ HopsSuffice /\ Remembering => SpreadWhenQuiet)
  <1> DEFINE Inv == /\ TypeInv /\ KeptInv /\ OriginInv /\ (Enough => SpreadInv)
                    /\ DeliveredSeen /\ (HopsSuffice => HopsInv)
  <1>1. Init => DeliveredSeen /\ (HopsSuffice => HopsInv)
    BY DEF Init, DeliveredSeen, HopsInv, Bundles
  <1>2. Inv /\ [Next]_vars => DeliveredSeen' /\ (HopsSuffice => HopsInv)'
    BY DeliveredStep, HopsStep DEF HopsSuffice
  <1>3. Inv => (Enough /\ Connected /\ HopsSuffice /\ Remembering => SpreadWhenQuiet)
    <2> SUFFICES ASSUME TypeInv, KeptInv, OriginInv, SpreadInv, HopsInv, Connected, Remembering,
                        Quiet, NEW b \in Bundles \ harmed, NEW n \in Nodes,
                        ~ \E a \in Bundles : a # b /\ made[a] = made[b]
                 PROVE  Had(b, n)
      BY DEF SpreadWhenQuiet, Had
    <2>1. Own(b) /\ made[b].source \in Holders(b)
      BY IdOf DEF Own, OriginInv, Holders
    <2>2. \A m \in Nodes : b \notin expired[m]
      BY <2>1 DEF HopsInv, HopsOK
    <2>3. \A k \in Holders(b) : Neighbours(k) \subseteq Holders(b)
      BY <2>1, <2>2, NeighboursHad DEF Holders, Neighbours, Had
    <2>4. Holders(b) = Nodes
      BY <2>1, <2>3 DEF Connected, Holders
    <2> QED
      BY <2>4 DEF Holders, Had
  <1> QED
    BY <1>1, <1>2, <1>3, SpreadInductive, PTL DEF Spec

-----------------------------------------------------------------------------
(* The network keeps the promise of Flooding.                              *)

(* The copies of an object for the nodes that it reaches. *)
LEMMA SendPasses ==
    ASSUME NEW n, NEW object, NEW reached
    PROVE  Send(n, object, reached)
               = Promise!Passed(object.bundle, object.hops + 1, n, reached)
  BY DEF Send, Promise!Passed

(* Keeping an object for a retry, or none. *)
LEMMA KeepingKeeps ==
    ASSUME TypeInv, NEW n \in Nodes, NEW object, store' = Kept(n, object)
    PROVE  \/ UNCHANGED KeptObjects
           \/ KeptObjects' = [KeptObjects EXCEPT ![n] = @ \union {object}]
  <1> DEFINE Old == {store[n][id] : id \in DOMAIN store[n]}
             New == {store'[n][id] : id \in DOMAIN store'[n]}
  <1>1. /\ \A m \in Nodes : m # n => store'[m] = store[m]
        /\ \A id \in DOMAIN store[n] : id \in DOMAIN store'[n] /\ store'[n][id] = store[n][id]
        /\ \A id \in DOMAIN store'[n] : id \in DOMAIN store[n] \/ store'[n][id] = object
    BY KeepOne
  <1>2. New = Old \/ New = Old \union {object}
    <2>1. Old \subseteq New /\ New \subseteq Old \union {object}
      BY <1>1
    <2> QED
      BY ONLY <2>1
  <1>3. /\ KeptObjects' = [m \in Nodes |-> {store'[m][id] : id \in DOMAIN store'[m]}]
        /\ KeptObjects = [m \in Nodes |-> {store[m][id] : id \in DOMAIN store[m]}]
    BY DEF KeptObjects
  <1>4. \A m \in Nodes : KeptObjects'[m] = IF m = n THEN New ELSE KeptObjects[m]
    BY <1>1, <1>3
  <1>5. KeptObjects[n] = Old
    BY <1>3
  <1> HIDE DEF Old, New
  <1> QED
    BY <1>2, <1>3, <1>4, <1>5

(* Making a bundle and sending it to the first neighbours. *)
LEMMA OriginateMakes ==
    ASSUME TypeInv, KeptInv, NEW n \in Senders, NEW now \in Readings(n),
           NEW reached \in SUBSET nodes[n], Originate(n, now, reached)
    PROVE  Promise!Make(n)
  <1> DEFINE bundle == Len(made) + 1
             id     == NextId(n, now)
             object == [bundle |-> bundle, hops |-> 0, to |-> {}]
  <1>1. n \in Nodes /\ made \in Seq(Ids) /\ id \in Ids /\ id.source = n
    BY NextIdType, NetworkAssumption DEF TypeInv, TypeOK
  <1>2. made' = Append(made, id) /\ UNCHANGED <<expired, harmed>>
    BY DEF Originate
  <1>3. /\ delivered' = [delivered EXCEPT ![n] = @ \union {bundle}]
        /\ copies' = copies \union Promise!Passed(bundle, 1, n, reached)
    BY SendPasses DEF Originate, Deliver
  <1>4. reached \in SUBSET Promise!Neighbours(n)
    BY <1>1 DEF KeptInv, Neighbours, Promise!Neighbours
  <1>5. Promise!MayKeep(n, bundle, 0, reached)
    <2>1. store' = Kept(n, After(object, reached))
      BY DEF Originate
    <2>2. After(object, reached) = [bundle |-> bundle, hops |-> 0, to |-> reached]
      BY DEF After
    <2> QED
      BY <1>1, <2>1, <2>2, KeepingKeeps DEF Promise!MayKeep
  <1> HIDE DEF id
  <1>6. Len(made') = bundle /\ made'[bundle] = id
    BY <1>1, <1>2
  <1> QED
    BY <1>1, <1>2, <1>3, <1>4, <1>5, <1>6 DEF Promise!Make

(* Delivering a copy and sending it on, but not to its sender. *)
LEMMA ReceiveTakesCopy ==
    ASSUME TypeInv, KeptInv, NEW n \in Nodes, NEW c \in copies, NEW reached \in SUBSET nodes[n],
           Receive(n, c, reached)
    PROVE  Promise!Take(n, c)
  <1> DEFINE known  == {c.from} \intersect nodes[n]
             object == [bundle |-> c.bundle, hops |-> c.hops, to |-> known]
  <1>1. /\ c.to = n /\ c.hops < HopLimit /\ Reaches(n, object, reached)
        /\ delivered' = [delivered EXCEPT ![n] = @ \union {c.bundle}]
        /\ copies' = (copies \ {c}) \union Promise!Passed(c.bundle, c.hops + 1, n, reached)
        /\ UNCHANGED <<made, expired, harmed>>
    BY SendPasses DEF Receive, Deliver
  <1>2. reached \subseteq Promise!Neighbours(n) \ {c.from}
    <2>1. reached \subseteq nodes[n] \ ({c.from} \intersect nodes[n])
      BY <1>1 DEF Reaches, Targets
    <2> QED
      BY <2>1 DEF KeptInv, Neighbours, Promise!Neighbours
  <1>3. Promise!MayKeep(n, c.bundle, c.hops, known \union reached)
    <2>1. store' = Kept(n, After(object, reached))
      BY DEF Receive
    <2>2. After(object, reached)
              = [bundle |-> c.bundle, hops |-> c.hops, to |-> known \union reached]
      BY DEF After
    <2> HIDE DEF known, object
    <2> QED
      BY <2>1, <2>2, KeepingKeeps DEF Promise!MayKeep
  <1>4. known \in SUBSET {c.from}
    OBVIOUS
  <1> HIDE DEF known, object
  <1> QED
    BY <1>1, <1>2, <1>3, <1>4 DEF Promise!Take

(* A copy that is skipped is of a bundle whose id the node has had.        *)
LEMMA SkipIgnores ==
    ASSUME KeptInv, NEW n \in Nodes, NEW c \in copies, Skip(n, c)
    PROVE  Promise!Ignore(n, c)
  <1>1. \E b \in Bundles : made[b] = made[c.bundle] /\ Had(b, n)
    BY DEF Skip, KeptInv, SeenOK
  <1> QED
    BY <1>1 DEF Skip, Had, KeptObjects, Promise!Ignore, Promise!Had

(* What is sent later has been kept, and is new to the neighbours it goes  *)
(* to.                                                                     *)
LEMMA RetryPassesOn ==
    ASSUME TypeInv, KeptInv, NEW n \in Nodes, NEW id \in DOMAIN store[n],
           NEW reached \in SUBSET nodes[n], Retry(n, id, reached)
    PROVE  Promise!PassOn(n)
  <1> DEFINE object == store[n][id]
             after  == After(object, reached)
  <1>1. /\ copies' = copies \union Promise!Passed(object.bundle, object.hops + 1, n, reached)
        /\ UNCHANGED <<made, delivered, expired, harmed>>
    BY SendPasses DEF Retry
  <1>2. reached \in SUBSET (Promise!Neighbours(n) \ object.to)
    <2>1. reached \subseteq nodes[n] \ object.to
      BY DEF Retry, Reaches, Targets
    <2> QED
      BY <2>1 DEF KeptInv, Neighbours, Promise!Neighbours
  <1>3. object \in KeptObjects[n]
    BY DEF KeptObjects
  <1>4. after = [object EXCEPT !.to = @ \union reached]
    BY DEF After
  <1>5. KeptObjects' = [KeptObjects EXCEPT ![n] = (@ \ {object}) \union {after}]
    <2> DEFINE New == {store'[n][i] : i \in DOMAIN store'[n]}
    <2>1. store' = [store EXCEPT ![n] = [store[n] EXCEPT ![id] = after]]
      BY DEF Retry
    <2> HIDE DEF after
    <2>2. /\ \A m \in Nodes : m # n => store'[m] = store[m]
          /\ DOMAIN store'[n] = DOMAIN store[n]
          /\ \A i \in DOMAIN store[n] : store'[n][i] = IF i = id THEN after ELSE store[n][i]
      BY <2>1 DEF TypeInv, TypeOK
    <2>3. \A i \in DOMAIN store[n] : i # id => store[n][i] # object
      <3>1. \A i \in DOMAIN store[n] : made[store[n][i].bundle] = i
        BY DEF TypeInv, TypeOK
      <3>2. made[object.bundle] = id
        BY <3>1
      <3> HIDE DEF object
      <3> QED
        BY <3>1, <3>2
    <2>4. /\ KeptObjects' = [m \in Nodes |-> {store'[m][i] : i \in DOMAIN store'[m]}]
          /\ KeptObjects = [m \in Nodes |-> {store[m][i] : i \in DOMAIN store[m]}]
      BY DEF KeptObjects
    <2>5. New = (KeptObjects[n] \ {object}) \union {after}
      <3>1. KeptObjects[n] = {store[n][i] : i \in DOMAIN store[n]}
        BY <2>4
      <3> QED
        BY <2>2, <2>3, <3>1
    <2>6. \A m \in Nodes : KeptObjects'[m] = IF m = n THEN New ELSE KeptObjects[m]
      BY <2>2, <2>4
    <2> HIDE DEF New, object
    <2> QED
      BY <2>4, <2>5, <2>6
  <1> HIDE DEF object, after
  <1> QED
    BY <1>1, <1>2, <1>3, <1>4, <1>5 DEF Promise!PassOn

(* A node that restarts keeps nothing. *)
LEMMA RestartForgets ==
    ASSUME TypeInv, NEW n \in Nodes, Restart(n)
    PROVE  Promise!Restart(n)
  <1>1. KeptObjects' = [KeptObjects EXCEPT ![n] = {}]
    <2>1. /\ store'[n] = << >> /\ DOMAIN store'[n] = {}
          /\ \A m \in Nodes : m # n => store'[m] = store[m]
      BY DEF Restart, TypeInv, TypeOK
    <2>2. /\ KeptObjects' = [m \in Nodes |-> {store'[m][i] : i \in DOMAIN store'[m]}]
          /\ KeptObjects = [m \in Nodes |-> {store[m][i] : i \in DOMAIN store[m]}]
      BY DEF KeptObjects
    <2>3. \A m \in Nodes : KeptObjects'[m] = IF m = n THEN {} ELSE KeptObjects[m]
      BY <2>1, <2>2
    <2> QED
      BY <2>2, <2>3
  <1> QED
    BY <1>1 DEF Restart, Fault, Bundles, Promise!Restart

(* Every step of Network is a step of Flooding, or one it does not see.    *)
LEMMA StepFloods ==
    ASSUME TypeInv, KeptInv, [Next]_vars
    PROVE  [Promise!Next]_(Promise!vars)
  <1>1. ASSUME NEW n \in Senders, NEW now \in Readings(n), NEW reached \in SUBSET nodes[n],
               Originate(n, now, reached)
        PROVE  Promise!Next
    BY <1>1, OriginateMakes, NetworkAssumption DEF Promise!Next
  <1>2. ASSUME NEW n \in Nodes, NEW c \in copies, Skip(n, c)
        PROVE  Promise!Next
    BY <1>2, SkipIgnores DEF Promise!Next
  <1>3. ASSUME NEW n \in Nodes, NEW c \in copies, LastHop(n, c)
        PROVE  Promise!Next
    <2>1. Promise!GiveUp(n, c)
      BY <1>3 DEF LastHop, KeptObjects, Promise!GiveUp
    <2> QED
      BY <2>1 DEF Promise!Next
  <1>4. ASSUME NEW n \in Nodes, NEW c \in copies, NEW reached \in SUBSET nodes[n],
               Receive(n, c, reached)
        PROVE  Promise!Next
    BY <1>4, ReceiveTakesCopy DEF Promise!Next
  <1>5. ASSUME NEW n \in Nodes, NEW id \in DOMAIN store[n], NEW reached \in SUBSET nodes[n],
               Retry(n, id, reached)
        PROVE  Promise!Next
    BY <1>5, RetryPassesOn DEF Promise!Next
  <1>6. ASSUME NEW l \in Links, Discover(l[1], l[2])
        PROVE  UNCHANGED Promise!vars
    BY <1>6 DEF Discover, KeptObjects, Promise!vars
  <1>7. ASSUME NEW n \in Faulty, Restart(n)
        PROVE  Promise!Next
    BY <1>7, RestartForgets, NetworkAssumption DEF Promise!Next
  <1>8. ASSUME NEW c \in copies, Lose(c)
        PROVE  Promise!Next
    BY <1>8 DEF Lose, Fault, Bundles, KeptObjects, Promise!Lose, Promise!Next
  <1>9. CASE UNCHANGED vars
    BY <1>9 DEF vars, KeptObjects, Promise!vars
  <1> QED
    BY <1>1, <1>2, <1>3, <1>4, <1>5, <1>6, <1>7, <1>8, <1>9 DEF Next, Poll, RetryOne

(* The network keeps the promise of Flooding: copies go along links only,  *)
(* from nodes that have delivered the bundle, at once to others than their *)
(* sender, and on a retry only to neighbours that the node has not sent    *)
(* the bundle to; each has one hop more than what the node has, and no     *)
(* copy is ignored by a node that has not had a bundle with its id.        *)
THEOREM FloodingImplemented == Spec => FloodingKept
  <1>1. Init => Promise!Init
    <2>1. Init => KeptObjects = [n \in Nodes |-> {}]
      <3> SUFFICES ASSUME Init PROVE \A n \in Nodes : {store[n][id] : id \in DOMAIN store[n]} = {}
        BY DEF KeptObjects
      <3> QED
        BY DEF Init
    <2> QED
      BY <2>1 DEF Init, Promise!Init
  <1>2. TypeInv /\ KeptInv /\ [Next]_vars => [Promise!Next]_(Promise!vars)
    BY StepFloods
  <1> QED
    BY <1>1, <1>2, SpreadInductive, PTL DEF Spec, FloodingKept, Promise!Spec
=============================================================================
