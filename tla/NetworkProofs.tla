--------------------------- MODULE NetworkProofs ---------------------------
(***************************************************************************)
(* Proofs about the network, for every number of nodes, every topology and *)
(* every bound: types, ids that tell bundles apart across restarts, and    *)
(* one delivery of a bundle at each node.                                  *)
(***************************************************************************)
EXTENDS Network, FiniteSetTheorems, TLAPS

TypeInv == TypeOK /\ \A n \in Nodes : IsFiniteSet(seen[n])

(* What the time and the number of an id say of the bundle that has it: it *)
(* was made before the clock's time, or within it with a number that the   *)
(* counter has reached, or without a clock, with such a number as well     *)
(* unless the node has restarted since.                                    *)
Dated(b) ==
    LET n == made[b].source
    IN  IF n \in MicroPython
        THEN made[b].time = 0 /\ (b \in restarted[n] \/ made[b].num <= last_num[n])
        ELSE \/ made[b].time < clock[n]
             \/ /\ made[b].time = clock[n] /\ last_time[n] = clock[n]
                /\ made[b].num <= last_num[n]

IdsInv ==
    /\ \A n \in Nodes : last_time[n] = 0 \/ (n \notin MicroPython /\ last_time[n] = clock[n])
    /\ \A b \in Bundles : Dated(b)

(* What a node has delivered of others' bundles is in its table of seen    *)
(* ids for as long as the table has not overflowed.                        *)
DeliveredSeen ==
    \A n \in Nodes : ~ overflowed[n] =>
        /\ \A b \in delivered[n] : made[b].source # n => made[b] \in seen[n]
        /\ \A b \in again[n] : made[b].source = n

-----------------------------------------------------------------------------
(* store_seen keeps the table within its size and enters the id.           *)
LEMMA SeenAfter ==
    ASSUME NEW known \in SUBSET Ids, IsFiniteSet(known),
           Cardinality(known) <= MaxKnown,
           NEW id \in Ids, NEW after \in AfterSeeing(known, id)
    PROVE  /\ after \in SUBSET Ids /\ IsFiniteSet(after)
           /\ Cardinality(after) <= MaxKnown
           /\ id \in after
  <1> USE NetworkAssumption
  <1>1. CASE id \in known \/ Cardinality(known) < MaxKnown
    <2>1. after = known \union {id}
      BY <1>1 DEF AfterSeeing
    <2>2. Cardinality(known) \in Nat
      BY FS_CardinalityType
    <2>3. /\ IsFiniteSet(known \union {id})
          /\ Cardinality(known \union {id}) =
                 IF id \in known THEN Cardinality(known) ELSE Cardinality(known) + 1
      BY FS_AddElement
    <2>4. Cardinality(known \union {id}) <= MaxKnown
      BY <1>1, <2>2, <2>3
    <2> QED
      BY <2>1, <2>3, <2>4
  <1>2. CASE ~ (id \in known \/ Cardinality(known) < MaxKnown)
    <2>1. PICK oldest \in Data!OldestBundleIds(known) :
              after = (known \ {oldest}) \union {id}
      BY <1>2 DEF AfterSeeing
    <2>2. oldest \in known
      BY DEF Data!OldestBundleIds
    <2>3. IsFiniteSet(known \ {oldest}) /\ Cardinality(known \ {oldest}) = Cardinality(known) - 1
      BY <2>2, FS_RemoveElement
    <2>4. /\ IsFiniteSet((known \ {oldest}) \union {id})
          /\ Cardinality((known \ {oldest}) \union {id}) =
                 IF id \in known \ {oldest} THEN Cardinality(known \ {oldest})
                 ELSE Cardinality(known \ {oldest}) + 1
      BY <2>3, FS_AddElement
    <2>5. Cardinality(known) \in Nat
      BY FS_CardinalityType
    <2>6. Cardinality((known \ {oldest}) \union {id}) <= MaxKnown
      BY <2>3, <2>4, <2>5
    <2> QED
      BY <2>1, <2>4, <2>6
  <1> QED
    BY <1>1, <1>2

(* The same for See, with what it says about overflowing.                  *)
LEMMA SeeType ==
    ASSUME TypeInv, NEW n \in Nodes, NEW id \in Ids, See(n, id)
    PROVE  /\ seen' \in [Nodes -> SUBSET Ids]
           /\ \A m \in Nodes : IsFiniteSet(seen'[m]) /\ Cardinality(seen'[m]) <= MaxKnown
           /\ overflowed' \in [Nodes -> BOOLEAN]
           /\ \A m \in Nodes : ~ overflowed'[m] => ~ overflowed[m] /\ seen[m] \subseteq seen'[m]
           /\ id \in seen'[n]
  <1>1. PICK after \in AfterSeeing(seen[n], id) : seen' = [seen EXCEPT ![n] = after]
    BY DEF See
  <1>2. /\ after \in SUBSET Ids /\ IsFiniteSet(after)
        /\ Cardinality(after) <= MaxKnown
        /\ id \in after
    BY SeenAfter DEF TypeInv, TypeOK
  <1>3. /\ overflowed' \in [Nodes -> BOOLEAN]
        /\ \A m \in Nodes \ {n} : overflowed'[m] = overflowed[m] /\ seen'[m] = seen[m]
        /\ overflowed'[n] = (overflowed[n] \/ ~ seen[n] \subseteq seen'[n])
        /\ seen'[n] = after
    BY <1>1 DEF See, TypeInv, TypeOK
  <1> QED
    BY <1>1, <1>2, <1>3 DEF TypeInv, TypeOK

(* The clock and the id of the next bundle. *)
LEMMA NextIdType ==
    ASSUME TypeInv, NEW n \in Nodes, NEW now \in Readings(n)
    PROVE  /\ now \in Nat \ {0} /\ now >= clock[n]
           /\ NextTime(n, now) \in Nat /\ NextNum(n, now) \in Nat
           /\ NextId(n, now) \in Ids /\ NextId(n, now).source = n
  <1>1. clock[n] \in Nat \ {0} /\ last_time[n] \in Nat /\ last_num[n] \in Nat
    BY DEF TypeInv, TypeOK
  <1>2. now \in Nat \ {0} /\ now >= clock[n]
    BY <1>1, NetworkAssumption DEF Readings
  <1>3. NextTime(n, now) \in Nat /\ NextNum(n, now) \in Nat
    BY <1>1, <1>2 DEF NextTime, NextNum
  <1> QED
    BY <1>2, <1>3 DEF NextId, Ids

(* The copies a node sends have one hop more than what it has.             *)
LEMMA SendType ==
    ASSUME NEW n \in Nodes, NEW object \in Objects, NEW reached \in SUBSET Nodes
    PROVE  Send(n, object, reached) \subseteq Copies
  BY NetworkAssumption DEF Send, Objects, Copies

(* The store after delay_bundle, of an object that may be new.             *)
LEMMA KeptType ==
    ASSUME TypeInv, NEW n \in Nodes, NEW object \in Objects', store' = Kept(n, object),
           \A b \in Bundles : b \in Bundles' /\ made'[b] = made[b]
    PROVE  /\ DOMAIN store' = Nodes
           /\ \A m \in Nodes : \A id \in DOMAIN store'[m] :
                  store'[m][id] \in Objects' /\ made'[store'[m][id].bundle] = id
  <1> DEFINE new == made'[object.bundle]
  <1>1. Objects \subseteq Objects'
    BY DEF Objects
  <1>2. \A m \in Nodes : \A id \in DOMAIN store[m] :
            store[m][id] \in Objects' /\ made'[store[m][id].bundle] = id
    BY <1>1 DEF TypeInv, TypeOK, Objects
  <1>3. CASE store' = store
    BY <1>2, <1>3 DEF TypeInv, TypeOK
  <1>4. CASE store' # store
    <2>1. store' = [store EXCEPT ![n] = [id \in DOMAIN store[n] \union {new} |->
                        IF id \in DOMAIN store[n] THEN store[n][id] ELSE object]]
      BY <1>4 DEF Kept
    <2> HIDE DEF new
    <2>2. /\ DOMAIN store' = Nodes
          /\ \A m \in Nodes \ {n} : store'[m] = store[m]
          /\ store'[n] = [id \in DOMAIN store[n] \union {new} |->
                              IF id \in DOMAIN store[n] THEN store[n][id] ELSE object]
      BY <2>1 DEF TypeInv, TypeOK
    <2>3. ASSUME NEW m \in Nodes, NEW id \in DOMAIN store'[m]
          PROVE  store'[m][id] \in Objects' /\ made'[store'[m][id].bundle] = id
      <3>1. CASE m # n
        BY <1>2, <2>2, <3>1
      <3>2. CASE m = n /\ id \in DOMAIN store[n]
        BY <1>2, <2>2, <3>2
      <3>3. CASE m = n /\ id \notin DOMAIN store[n]
        BY <2>2, <3>3 DEF new
      <3> QED
        BY <3>1, <3>2, <3>3
    <2> QED
      BY <2>2, <2>3
  <1> QED
    BY <1>3, <1>4

-----------------------------------------------------------------------------
(* The types are kept.  Objects and copies name bundles that have been     *)
(* made, and what has been made stays.                                     *)
LEMMA TypeStep == TypeInv /\ [Next]_vars => TypeInv'
  <1> USE NetworkAssumption
  <1> SUFFICES ASSUME TypeInv, [Next]_vars PROVE TypeInv'
    OBVIOUS
  <1> USE DEF TypeInv, TypeOK
  <1>1. ASSUME NEW n \in Senders, NEW now \in Readings(n), NEW reached \in SUBSET nodes[n],
               Originate(n, now, reached)
        PROVE  TypeInv'
    <2> DEFINE object == [bundle |-> Len(made) + 1, hops |-> 0, to |-> {}]
    <2>1. n \in Nodes /\ NextId(n, now) \in Ids
      BY NextIdType
    <2>2. made' = Append(made, NextId(n, now))
      BY <1>1 DEF Originate
    <2>3. /\ made' \in Seq(Ids)
          /\ Bundles' = Bundles \union {Len(made) + 1}
          /\ made'[Len(made) + 1] = NextId(n, now)
          /\ \A b \in Bundles : b \in Bundles' /\ made'[b] = made[b]
      BY <2>1, <2>2 DEF Bundles
    <2>4. object \in Objects' /\ After(object, reached) \in Objects'
      BY <2>3 DEF Objects, After
    <2>5. /\ DOMAIN store' = Nodes
          /\ \A m \in Nodes : \A id \in DOMAIN store'[m] :
                 store'[m][id] \in Objects' /\ made'[store'[m][id].bundle] = id
      BY <1>1, <2>1, <2>3, <2>4, KeptType DEF Originate
    <2>6. copies' \subseteq Copies'
      <3>1. Copies \subseteq Copies'
        BY <2>3 DEF Copies
      <3>2. Send(n, object, reached) \subseteq Copies'
        BY <2>1, <2>3 DEF Send, Copies
      <3> QED
        BY <1>1, <3>1, <3>2 DEF Originate
    <2>7. /\ seen' \in [Nodes -> SUBSET Ids]
          /\ \A m \in Nodes : IsFiniteSet(seen'[m]) /\ Cardinality(seen'[m]) <= MaxKnown
          /\ overflowed' \in [Nodes -> BOOLEAN]
      BY <1>1, <2>1, SeeType DEF Originate
    <2>8. /\ delivered' \in [Nodes -> SUBSET Bundles']
          /\ again' \in [Nodes -> SUBSET Bundles']
          /\ expired' \in [Nodes -> SUBSET Bundles']
          /\ harmed' \subseteq Bundles'
      BY <1>1, <2>1, <2>3 DEF Originate, Deliver
    <2>9. /\ clock' \in [Nodes -> Nat \ {0}]
          /\ last_time' \in [Nodes -> Nat] /\ last_num' \in [Nodes -> Nat]
      BY <1>1, <2>1, NextIdType DEF Originate
    <2>10. faults' \in 0 .. MaxFaults /\ restarted' \in [Nodes -> SUBSET Bundles']
      BY <1>1, <2>3 DEF Originate, Reaches
    <2> HIDE DEF object
    <2> QED
      BY <1>1, <2>3, <2>5, <2>6, <2>7, <2>8, <2>9, <2>10 DEF Originate
  <1>2. ASSUME NEW n \in Nodes, NEW c \in copies, Skip(n, c)
        PROVE  TypeInv'
    BY <1>2 DEF Skip, numberVars, Bundles, Objects, Copies
  <1>3. ASSUME NEW n \in Nodes, NEW c \in copies, LastHop(n, c)
        PROVE  TypeInv'
    <2>1. c \in Copies /\ made[c.bundle] \in Ids
      BY DEF Copies, Bundles
    <2>2. /\ seen' \in [Nodes -> SUBSET Ids]
          /\ \A m \in Nodes : IsFiniteSet(seen'[m]) /\ Cardinality(seen'[m]) <= MaxKnown
          /\ overflowed' \in [Nodes -> BOOLEAN]
      BY <1>3, <2>1, SeeType DEF LastHop
    <2>3. expired' \in [Nodes -> SUBSET Bundles]
      BY <1>3, <2>1 DEF LastHop, Copies
    <2> QED
      BY <1>3, <2>2, <2>3 DEF LastHop, numberVars, Bundles, Objects, Copies
  <1>4. ASSUME NEW n \in Nodes, NEW c \in copies, NEW reached \in SUBSET nodes[n],
               Receive(n, c, reached)
        PROVE  TypeInv'
    <2> DEFINE object == [bundle |-> c.bundle, hops |-> c.hops,
                          to |-> {c.from} \intersect nodes[n]]
    <2>1. c \in Copies /\ made[c.bundle] \in Ids /\ UNCHANGED made
      <3>1. c \in Copies /\ c.bundle \in DOMAIN made
        BY DEF Copies, Bundles
      <3>2. UNCHANGED made
        BY <1>4 DEF Receive
      <3> QED
        BY <3>1, <3>2
    <2>2. Bundles' = Bundles /\ Objects' = Objects /\ Copies' = Copies
      BY <2>1 DEF Bundles, Objects, Copies
    <2>3. object \in Objects /\ After(object, reached) \in Objects
      <3>1. c.bundle \in Bundles /\ c.hops \in 0 .. HopLimit - 1
        <4>1. c.bundle \in Bundles /\ c.hops \in 0 .. HopLimit
          BY <2>1 DEF Copies
        <4>2. c.hops < HopLimit
          BY <1>4 DEF Receive
        <4> QED
          BY <4>1, <4>2, NetworkAssumption
      <3>2. {c.from} \intersect nodes[n] \in SUBSET Nodes /\ reached \in SUBSET Nodes
        OBVIOUS
      <3>3. object \in Objects
        BY <3>1, <3>2 DEF Objects
      <3>4. After(object, reached) \in Objects
        <4> HIDE DEF object
        <4> QED
          BY ONLY <3>2, <3>3 DEF After, Objects
      <3> QED
        BY <3>3, <3>4
    <2>4. /\ DOMAIN store' = Nodes
          /\ \A m \in Nodes : \A id \in DOMAIN store'[m] :
                 store'[m][id] \in Objects' /\ made'[store'[m][id].bundle] = id
      <3>1. store' = Kept(n, After(object, reached))
        BY <1>4 DEF Receive
      <3> HIDE DEF object
      <3> QED
        BY <2>1, <2>2, <2>3, <3>1, KeptType
    <2>5. copies' \subseteq Copies'
      BY <1>4, <2>2, <2>3, SendType DEF Receive
    <2>6. /\ seen' \in [Nodes -> SUBSET Ids]
          /\ \A m \in Nodes : IsFiniteSet(seen'[m]) /\ Cardinality(seen'[m]) <= MaxKnown
          /\ overflowed' \in [Nodes -> BOOLEAN]
      BY <1>4, <2>1, SeeType DEF Receive
    <2>7. /\ delivered' \in [Nodes -> SUBSET Bundles]
          /\ again' \in [Nodes -> SUBSET Bundles]
      BY <1>4, <2>1 DEF Receive, Deliver, Copies
    <2>8. faults' \in 0 .. MaxFaults
      BY <1>4 DEF Receive, Reaches
    <2>9. UNCHANGED <<numberVars, nodes, expired, harmed, restarted>>
      BY <1>4 DEF Receive
    <2> HIDE DEF object
    <2> QED
      BY <2>1, <2>2, <2>4, <2>5, <2>6, <2>7, <2>8, <2>9 DEF numberVars
  <1>5. ASSUME NEW n \in Nodes, NEW id \in DOMAIN store[n], NEW reached \in SUBSET nodes[n],
               Retry(n, id, reached)
        PROVE  TypeInv'
    <2> DEFINE object == store[n][id]
               after == After(object, reached)
    <2>1. UNCHANGED made /\ Bundles' = Bundles /\ Objects' = Objects /\ Copies' = Copies
      BY <1>5 DEF Retry, Bundles, Objects, Copies
    <2>2. object \in Objects /\ made[object.bundle] = id
      OBVIOUS
    <2>3. after \in Objects /\ after.bundle = object.bundle
      BY <2>2 DEF After, Objects
    <2>4. store' = [store EXCEPT ![n] = [store[n] EXCEPT ![id] = after]]
      BY <1>5 DEF Retry
    <2>5. copies' \subseteq Copies'
      BY <1>5, <2>1, <2>2, SendType DEF Retry
    <2> HIDE DEF object, after
    <2>6. /\ DOMAIN store' = Nodes
          /\ \A m \in Nodes \ {n} : store'[m] = store[m]
          /\ store'[n] = [store[n] EXCEPT ![id] = after]
      BY <2>4
    <2>7. ASSUME NEW m \in Nodes, NEW i \in DOMAIN store'[m]
          PROVE  store'[m][i] \in Objects /\ made[store'[m][i].bundle] = i
      <3>1. CASE m = n /\ i = id
        BY <2>2, <2>3, <2>6, <3>1
      <3>2. CASE m = n /\ i # id
        BY <2>6, <3>2
      <3>3. CASE m # n
        BY <2>6, <3>3
      <3> QED
        BY <3>1, <3>2, <3>3
    <2>8. faults' \in 0 .. MaxFaults
      BY <1>5 DEF Retry, Reaches
    <2>9. UNCHANGED <<numberVars, seen, nodes, delivered, again, expired, overflowed, harmed,
                      restarted>>
      BY <1>5 DEF Retry
    <2> QED
      BY <2>1, <2>5, <2>6, <2>7, <2>8, <2>9 DEF numberVars
  <1>6. ASSUME NEW n \in Nodes, NEW m \in Nodes, Discover(n, m)
        PROVE  TypeInv'
    <2>1. UNCHANGED made /\ Bundles' = Bundles /\ Objects' = Objects /\ Copies' = Copies
      BY <1>6 DEF Discover, Bundles, Objects, Copies
    <2>2. nodes' \in [Nodes -> SUBSET Nodes]
      BY <1>6 DEF Discover
    <2>3. UNCHANGED <<numberVars, store, seen, copies, delivered, again, expired, overflowed,
                      faults, harmed, restarted>>
      BY <1>6 DEF Discover
    <2> QED
      BY <2>1, <2>2, <2>3 DEF numberVars
  <1>7. ASSUME NEW n \in Nodes, Restart(n)
        PROVE  TypeInv'
    <2>1. UNCHANGED made /\ Bundles' = Bundles /\ Objects' = Objects /\ Copies' = Copies
      BY <1>7 DEF Restart, Bundles, Objects, Copies
    <2>2. /\ DOMAIN store' = Nodes
          /\ DOMAIN store'[n] = {}
          /\ \A m \in Nodes \ {n} : store'[m] = store[m]
      BY <1>7 DEF Restart
    <2>3. ASSUME NEW m \in Nodes, NEW id \in DOMAIN store'[m]
          PROVE  store'[m][id] \in Objects /\ made[store'[m][id].bundle] = id
      <3>1. m # n
        BY <2>2
      <3>2. store'[m] = store[m]
        BY <2>2, <3>1
      <3> QED
        BY <3>2
    <2>4. /\ clock' \in [Nodes -> Nat \ {0}]
          /\ last_time' \in [Nodes -> Nat] /\ last_num' \in [Nodes -> Nat]
          /\ restarted' \in [Nodes -> SUBSET Bundles]
          /\ seen' \in [Nodes -> SUBSET Ids]
          /\ nodes' \in [Nodes -> SUBSET Nodes]
          /\ delivered' \in [Nodes -> SUBSET Bundles]
          /\ again' \in [Nodes -> SUBSET Bundles]
          /\ expired' \in [Nodes -> SUBSET Bundles]
          /\ overflowed' \in [Nodes -> BOOLEAN]
      BY <1>7 DEF Restart
    <2>5. \A m \in Nodes : IsFiniteSet(seen'[m]) /\ Cardinality(seen'[m]) <= MaxKnown
      <3>1. \A m \in Nodes : seen'[m] = seen[m] \/ seen'[m] = {}
        BY <1>7 DEF Restart
      <3>2. IsFiniteSet({}) /\ Cardinality({}) = 0
        BY FS_EmptySet
      <3>3. 0 <= MaxKnown
        OBVIOUS
      <3>4. \A m \in Nodes : IsFiniteSet(seen[m]) /\ Cardinality(seen[m]) <= MaxKnown
        OBVIOUS
      <3> QED
        BY ONLY <3>1, <3>2, <3>3, <3>4
    <2>6. faults' \in 0 .. MaxFaults /\ harmed' \subseteq Bundles
      BY <1>7 DEF Restart, Fault
    <2> QED
      BY <1>7, <2>1, <2>2, <2>3, <2>4, <2>5, <2>6 DEF Restart
  <1>8. ASSUME NEW c \in copies, Lose(c)
        PROVE  TypeInv'
    <2>1. /\ UNCHANGED <<made, numberVars, store, seen, nodes, delivered, again, expired,
                         overflowed, restarted>>
          /\ copies' \subseteq copies /\ faults' \in 0 .. MaxFaults /\ harmed' \subseteq Bundles
      BY <1>8 DEF Lose, Fault
    <2> QED
      BY <2>1 DEF numberVars, Bundles, Objects, Copies
  <1>9. CASE UNCHANGED vars
    BY <1>9 DEF vars, numberVars, Bundles, Objects, Copies
  <1> QED
    BY <1>1, <1>2, <1>3, <1>4, <1>5, <1>6, <1>7, <1>8, <1>9 DEF Next, Poll, RetryOne

(* The types hold at first: nothing has been made.                         *)
LEMMA TypeInit == Init => TypeInv
  <1> SUFFICES ASSUME Init PROVE TypeInv
    OBVIOUS
  <1> USE NetworkAssumption
  <1>1. made \in Seq(Ids)
    BY DEF Init
  <1>2. IsFiniteSet({}) /\ Cardinality({}) = 0
    BY FS_EmptySet
  <1>3. /\ DOMAIN store = Nodes
        /\ \A n \in Nodes : DOMAIN store[n] = {}
    BY DEF Init
  <1>4. \A n \in Nodes : \A id \in DOMAIN store[n] :
            store[n][id] \in Objects /\ made[store[n][id].bundle] = id
    BY <1>3
  <1>5. /\ clock \in [Nodes -> Nat \ {0}]
        /\ last_time \in [Nodes -> Nat] /\ last_num \in [Nodes -> Nat]
        /\ restarted \in [Nodes -> SUBSET Bundles]
        /\ seen \in [Nodes -> SUBSET Ids]
        /\ nodes \in [Nodes -> SUBSET Nodes]
        /\ copies \subseteq Copies
        /\ delivered \in [Nodes -> SUBSET Bundles]
        /\ again \in [Nodes -> SUBSET Bundles]
        /\ expired \in [Nodes -> SUBSET Bundles]
        /\ overflowed \in [Nodes -> BOOLEAN]
        /\ faults \in 0 .. MaxFaults
        /\ harmed \subseteq Bundles
    BY DEF Init
  <1>6. \A n \in Nodes : IsFiniteSet(seen[n]) /\ Cardinality(seen[n]) <= MaxKnown
    BY <1>2 DEF Init
  <1> QED
    BY <1>1, <1>3, <1>4, <1>5, <1>6 DEF TypeInv, TypeOK

(* The network's state has its types in every behaviour: what a node       *)
(* stores under an id is a bundle with that id, and no table of seen ids   *)
(* outgrows its bound (store_seen).                                        *)
THEOREM NetworkTypeCorrect == Spec => []TypeOK
  <1>1. TypeInv => TypeOK
    BY DEF TypeInv
  <1> QED
    BY TypeInit, TypeStep, <1>1, PTL DEF Spec

-----------------------------------------------------------------------------
(* Every step dates the bundles so and gives no bundle the id of another,  *)
(* but for a restart of a node without a clock, which is noted.            *)
LEMMA IdsStep == TypeInv /\ IdsInv /\ IdsTellApart /\ [Next]_vars => IdsInv' /\ IdsTellApart'
  <1> SUFFICES ASSUME TypeInv, IdsInv, IdsTellApart, [Next]_vars
               PROVE  IdsInv' /\ IdsTellApart'
    OBVIOUS
  <1> USE NetworkAssumption
  <1>0. /\ \A n \in Nodes : /\ clock[n] \in Nat \ {0} /\ last_time[n] \in Nat
                            /\ last_num[n] \in Nat /\ restarted[n] \subseteq Bundles
        /\ \A b \in Bundles : /\ made[b] \in Ids /\ made[b].source \in Nodes
                               /\ made[b].time \in Nat /\ made[b].num \in Nat
    <2>1. \A b \in Bundles : made[b] \in Ids
      BY DEF TypeInv, TypeOK, Bundles
    <2> QED
      BY <2>1 DEF TypeInv, TypeOK, Ids
  <1>1. ASSUME NEW n \in Senders, NEW now \in Readings(n), NEW reached \in SUBSET nodes[n],
               Originate(n, now, reached)
        PROVE  IdsInv' /\ IdsTellApart'
    <2> DEFINE id == NextId(n, now)
    <2>0. PICK new \in Nat : new = Len(made) + 1
      BY DEF TypeInv, TypeOK
    <2>1. n \in Nodes /\ now \in Nat \ {0} /\ now >= clock[n] /\ id \in Ids /\ id.source = n
      BY NextIdType
    <2>2. /\ Bundles' = Bundles \union {new}
          /\ \A b \in Bundles : b \in Nat /\ b < new /\ made'[b] = made[b]
          /\ made'[new] = id
      BY <1>1, <2>0, <2>1 DEF Originate, Bundles, TypeInv, TypeOK
    <2>3. /\ clock'[n] = now
          /\ last_time'[n] = NextTime(n, now) /\ last_num'[n] = NextNum(n, now)
          /\ \A m \in Nodes : m # n => /\ clock'[m] = clock[m] /\ last_time'[m] = last_time[m]
                                       /\ last_num'[m] = last_num[m]
          /\ restarted' = restarted
      BY <1>1, <2>1 DEF Originate, TypeInv, TypeOK
    <2>4. id.time = last_time'[n] /\ id.num = last_num'[n]
      BY <2>3 DEF NextId
    <2>5. last_time[n] = 0 \/ (n \notin MicroPython /\ last_time[n] = clock[n])
      BY <2>1 DEF IdsInv
    <2>6. CASE n \in MicroPython
      <3>1. id.time = 0 /\ last_time'[n] = 0 /\ id.num = last_num[n] + 1
        BY <2>3, <2>4, <2>5, <2>6 DEF NextTime, NextNum
      <3>2. \A b \in Bundles : made[b].source = n =>
                /\ Dated(b)'
                /\ b \in restarted[n] \/ made[b].num # id.num
        <4> SUFFICES ASSUME NEW b \in Bundles, made[b].source = n
                     PROVE  Dated(b)' /\ (b \in restarted[n] \/ made[b].num # id.num)
          OBVIOUS
        <4>1. made[b].time = 0 /\ (b \in restarted[n] \/ made[b].num <= last_num[n])
          BY <2>6 DEF IdsInv, Dated
        <4>2. made'[b] = made[b] /\ restarted'[n] = restarted[n] /\ last_num'[n] = last_num[n] + 1
          BY <2>2, <2>3, <2>4, <3>1
        <4> QED
          BY <1>0, <2>1, <2>6, <3>1, <4>1, <4>2 DEF Dated
      <3>3. Dated(new)'
        <4>1. last_num'[n] = id.num /\ id.num <= id.num
          BY <1>0, <2>1, <2>4, <3>1
        <4> HIDE DEF id
        <4> QED
          BY <2>1, <2>2, <2>6, <3>1, <4>1 DEF Dated
      <3> HIDE DEF id
      <3>4. \A b \in Bundles : Dated(b)'
        <4> SUFFICES ASSUME NEW b \in Bundles, made[b].source # n PROVE Dated(b)'
          BY <3>2
        <4> QED
          BY <1>0, <2>2, <2>3 DEF IdsInv, Dated
      <3>5. IdsInv'
        <4>1. \A m \in Nodes :
                  last_time'[m] = 0 \/ (m \notin MicroPython /\ last_time'[m] = clock'[m])
          BY <2>3, <3>1 DEF IdsInv
        <4> QED
          BY <2>2, <3>3, <3>4, <4>1 DEF IdsInv
      <3>6. IdsTellApart'
        <4> SUFFICES ASSUME NEW a \in Bundles', NEW b \in Bundles', a < b, made'[a] = made'[b]
                     PROVE  made'[a].source \in MicroPython /\ a \in restarted'[made'[a].source]
          BY DEF IdsTellApart
        <4>1. CASE b \in Bundles
          BY <2>2, <2>3, <4>1 DEF IdsTellApart
        <4>2. CASE b = new
          BY <2>1, <2>2, <2>3, <2>6, <3>2, <4>2
        <4> QED
          BY <2>2, <4>1, <4>2
      <3> QED
        BY <3>5, <3>6
    <2>7. CASE n \notin MicroPython
      <3>1. id.time = now /\ last_time'[n] = now
        BY <2>3, <2>4, <2>7 DEF NextTime
      <3>2. \/ last_time[n] = 0 /\ now = clock[n] /\ id.num = 0
            \/ last_time[n] = clock[n] /\ now = clock[n] /\ id.num = last_num[n] + 1
            \/ last_time[n] = clock[n] /\ now > clock[n] /\ id.num = 0
        <4>1. id.num = IF now = last_time[n] THEN last_num[n] + 1 ELSE 0
          BY <2>7 DEF NextId, NextNum
        <4>2. clock[n] \in Nat \ {0} /\ last_time[n] \in Nat
          BY <1>0, <2>1
        <4>3. last_time[n] = 0 => now = clock[n]
          BY <2>7, <4>2 DEF Readings
        <4> HIDE DEF id
        <4> QED
          BY <2>1, <2>5, <4>1, <4>2, <4>3
      <3>3. \A b \in Bundles : made[b].source = n =>
                Dated(b)' /\ (made[b].time # id.time \/ made[b].num # id.num)
        <4> SUFFICES ASSUME NEW b \in Bundles, made[b].source = n
                     PROVE  Dated(b)' /\ (made[b].time # id.time \/ made[b].num # id.num)
          OBVIOUS
        <4>1. \/ made[b].time < clock[n]
              \/ made[b].time = clock[n] /\ last_time[n] = clock[n] /\ made[b].num <= last_num[n]
          BY <2>7 DEF IdsInv, Dated
        <4>2. /\ made[b].time \in Nat /\ made[b].num \in Nat /\ last_num[n] \in Nat
              /\ clock[n] \in Nat \ {0}
          BY <1>0, <2>1
        <4>3. \/ made[b].time < now
              \/ made[b].time = now /\ made[b].num < id.num
          <5> HIDE DEF id
          <5> QED
            BY <2>1, <3>2, <4>1, <4>2
        <4>4. made'[b] = made[b] /\ clock'[n] = now /\ last_time'[n] = now /\ last_num'[n] = id.num
          BY <2>2, <2>3, <2>4, <3>1
        <4>5. id.num \in Nat
          BY <2>1 DEF Ids
        <4> HIDE DEF id
        <4> QED
          BY <2>1, <2>7, <3>1, <4>2, <4>3, <4>4, <4>5 DEF Dated
      <3>4. Dated(new)'
        <4>1. id.num \in Nat /\ id.num <= id.num
          BY <2>1 DEF Ids
        <4> HIDE DEF id
        <4> QED
          BY <2>1, <2>2, <2>3, <2>4, <2>7, <3>1, <4>1 DEF Dated
      <3> HIDE DEF id
      <3>5. \A b \in Bundles : Dated(b)'
        <4> SUFFICES ASSUME NEW b \in Bundles, made[b].source # n PROVE Dated(b)'
          BY <3>3
        <4> QED
          BY <1>0, <2>2, <2>3 DEF IdsInv, Dated
      <3>6. IdsInv'
        <4>1. \A m \in Nodes :
                  last_time'[m] = 0 \/ (m \notin MicroPython /\ last_time'[m] = clock'[m])
          BY <2>3, <2>7, <3>1 DEF IdsInv
        <4> QED
          BY <2>2, <3>4, <3>5, <4>1 DEF IdsInv
      <3>7. IdsTellApart'
        <4> SUFFICES ASSUME NEW a \in Bundles', NEW b \in Bundles', a < b, made'[a] = made'[b]
                     PROVE  made'[a].source \in MicroPython /\ a \in restarted'[made'[a].source]
          BY DEF IdsTellApart
        <4>1. CASE b \in Bundles
          BY <2>2, <2>3, <4>1 DEF IdsTellApart
        <4>2. CASE b = new
          BY <2>1, <2>2, <3>3, <4>2
        <4> QED
          BY <2>2, <4>1, <4>2
      <3> QED
        BY <3>6, <3>7
    <2> QED
      BY <2>6, <2>7
  <1>2. ASSUME UNCHANGED <<made, numberVars, restarted>>
        PROVE  IdsInv' /\ IdsTellApart'
    BY <1>2 DEF IdsInv, Dated, IdsTellApart, Bundles, numberVars
  <1>3. ASSUME NEW n \in Faulty, Restart(n)
        PROVE  IdsInv' /\ IdsTellApart'
    <2>1. /\ n \in Nodes /\ UNCHANGED made /\ Bundles' = Bundles
          /\ clock'[n] > clock[n] /\ last_time'[n] = 0 /\ last_num'[n] = 0
          /\ restarted'[n] = Bundles
          /\ \A m \in Nodes : m # n => /\ clock'[m] = clock[m] /\ last_time'[m] = last_time[m]
                                       /\ last_num'[m] = last_num[m]
                                       /\ restarted'[m] = restarted[m]
      <3>1. PICK pause \in 0 .. MaxPause : clock' = [clock EXCEPT ![n] = @ + 1 + pause]
        BY <1>3 DEF Restart
      <3>2. clock'[n] > clock[n]
        BY <1>0, <3>1 DEF TypeInv, TypeOK
      <3> QED
        BY <1>3, <3>1, <3>2 DEF Restart, Bundles, TypeInv, TypeOK
    <2>2. \A b \in Bundles : Dated(b)'
      <3> SUFFICES ASSUME NEW b \in Bundles PROVE Dated(b)'
        OBVIOUS
      <3>1. CASE made[b].source = n
        <4>1. n \in MicroPython => made[b].time = 0
          BY <3>1 DEF IdsInv, Dated
        <4>2. n \notin MicroPython => made[b].time < clock'[n]
          <5>1. n \notin MicroPython => made[b].time < clock[n] \/ made[b].time = clock[n]
            BY <3>1 DEF IdsInv, Dated
          <5>2. clock[n] \in Nat /\ clock'[n] \in Int /\ made[b].time \in Nat
            BY <1>0, <1>3, <2>1 DEF Restart, TypeInv, TypeOK
          <5> QED
            BY <2>1, <5>1, <5>2
        <4> QED
          BY <2>1, <3>1, <4>1, <4>2 DEF Dated
      <3>2. CASE made[b].source # n
        BY <1>0, <2>1, <3>2 DEF IdsInv, Dated
      <3> QED
        BY <3>1, <3>2
    <2>3. IdsInv'
      BY <2>1, <2>2 DEF IdsInv
    <2>4. \A m \in Nodes : restarted[m] \subseteq restarted'[m]
      BY <1>0, <2>1
    <2>5. IdsTellApart'
      BY <1>0, <2>1, <2>4 DEF IdsTellApart
    <2> QED
      BY <2>3, <2>5
  <1>4. CASE UNCHANGED vars
    BY <1>2, <1>4 DEF vars
  <1>5. ASSUME NEW n \in Nodes, Poll(n) \/ RetryOne(n)
        PROVE  IdsInv' /\ IdsTellApart'
    BY <1>2, <1>5 DEF Poll, RetryOne, Skip, LastHop, Receive, Retry
  <1>6. ASSUME NEW l \in Links, Discover(l[1], l[2])
        PROVE  IdsInv' /\ IdsTellApart'
    BY <1>2, <1>6 DEF Discover
  <1>7. ASSUME NEW c \in copies, Lose(c)
        PROVE  IdsInv' /\ IdsTellApart'
    BY <1>2, <1>7 DEF Lose
  <1> QED
    BY <1>1, <1>3, <1>4, <1>5, <1>6, <1>7 DEF Next

(* Two bundles with one id are one bundle, or come from a node without a   *)
(* clock that has restarted since the first: LocalEndpoint.start_trans-    *)
(* mission goes on counting within a millisecond, and begins again with    *)
(* the next; a restart forgets the count but takes a millisecond at least. *)
THEOREM IdsDistinguish == Spec => []IdsTellApart
  <1>1. Init => IdsInv /\ IdsTellApart
    BY DEF Init, IdsInv, IdsTellApart, Bundles
  <1> QED
    BY TypeInit, TypeStep, IdsStep, <1>1, PTL DEF Spec

-----------------------------------------------------------------------------
(* A delivered bundle of another node is in the table of seen ids: it gets *)
(* there in the step that delivers it, and only a full table loses ids.    *)
LEMMA DeliveredStep == TypeInv /\ DeliveredSeen /\ [Next]_vars => DeliveredSeen'
  <1> SUFFICES ASSUME TypeInv, DeliveredSeen, [Next]_vars PROVE DeliveredSeen'
    OBVIOUS
  <1> USE NetworkAssumption
  <1>1. ASSUME NEW n \in Senders, NEW now \in Readings(n), NEW reached \in SUBSET nodes[n],
               Originate(n, now, reached)
        PROVE  DeliveredSeen'
    <2> DEFINE new == Len(made) + 1
    <2>1. n \in Nodes /\ NextId(n, now) \in Ids /\ NextId(n, now).source = n
      BY NextIdType
    <2>2. /\ made'[new] = NextId(n, now)
          /\ \A b \in Bundles : made'[b] = made[b]
      BY <1>1, <2>1 DEF Originate, Bundles, TypeInv, TypeOK
    <2>3. \A m \in Nodes : ~ overflowed'[m] => ~ overflowed[m] /\ seen[m] \subseteq seen'[m]
      BY <1>1, <2>1, SeeType DEF Originate
    <2>4. /\ delivered'[n] \subseteq delivered[n] \union {new}
          /\ again'[n] \subseteq again[n] \union {new}
          /\ \A m \in Nodes \ {n} : delivered'[m] = delivered[m] /\ again'[m] = again[m]
          /\ \A m \in Nodes : delivered[m] \subseteq Bundles /\ again[m] \subseteq Bundles
      BY <1>1, <2>1 DEF Originate, Deliver, TypeInv, TypeOK
    <2> HIDE DEF new
    <2> QED
      BY <2>1, <2>2, <2>3, <2>4 DEF DeliveredSeen
  <1>2. ASSUME NEW n \in Nodes, NEW c \in copies, LastHop(n, c)
        PROVE  DeliveredSeen'
    <2>1. made[c.bundle] \in Ids /\ See(n, made[c.bundle])
      BY <1>2 DEF LastHop, TypeInv, TypeOK, Copies, Bundles
    <2>2. \A m \in Nodes : ~ overflowed'[m] => ~ overflowed[m] /\ seen[m] \subseteq seen'[m]
      BY <2>1, SeeType
    <2> QED
      BY <1>2, <2>2 DEF DeliveredSeen, LastHop
  <1>3. ASSUME NEW n \in Nodes, NEW c \in copies, NEW reached \in SUBSET nodes[n],
               Receive(n, c, reached)
        PROVE  DeliveredSeen'
    <2>1. made[c.bundle] \in Ids /\ See(n, made[c.bundle]) /\ made' = made
      BY <1>3 DEF Receive, TypeInv, TypeOK, Copies, Bundles
    <2>2. /\ \A m \in Nodes : ~ overflowed'[m] => ~ overflowed[m] /\ seen[m] \subseteq seen'[m]
          /\ made[c.bundle] \in seen'[n]
      BY <2>1, SeeType
    <2>3. /\ made[c.bundle] \notin seen[n]
          /\ delivered'[n] = delivered[n] \union {c.bundle}
          /\ again'[n] = again[n] \union ({c.bundle} \intersect delivered[n])
          /\ \A m \in Nodes \ {n} : delivered'[m] = delivered[m] /\ again'[m] = again[m]
      BY <1>3 DEF Receive, Deliver, TypeInv, TypeOK
    <2> QED
      BY <2>1, <2>2, <2>3 DEF DeliveredSeen
  <1>4. ASSUME UNCHANGED <<made, seen, delivered, again, overflowed>>
        PROVE  DeliveredSeen'
    BY <1>4 DEF DeliveredSeen
  <1>5. ASSUME NEW n \in Faulty, Restart(n)
        PROVE  DeliveredSeen'
    <2>1. /\ made' = made /\ delivered'[n] = {} /\ again'[n] = {}
          /\ \A m \in Nodes \ {n} : /\ delivered'[m] = delivered[m] /\ again'[m] = again[m]
                                    /\ seen'[m] = seen[m] /\ overflowed'[m] = overflowed[m]
      BY <1>5 DEF Restart, TypeInv, TypeOK
    <2> QED
      BY <2>1 DEF DeliveredSeen
  <1>6. ASSUME NEW n \in Nodes, Poll(n) \/ RetryOne(n)
        PROVE  DeliveredSeen'
    BY <1>2, <1>3, <1>4, <1>6 DEF Poll, RetryOne, Skip, Retry
  <1>7. ASSUME NEW l \in Links, Discover(l[1], l[2])
        PROVE  DeliveredSeen'
    BY <1>4, <1>7 DEF Discover
  <1>8. ASSUME NEW c \in copies, Lose(c)
        PROVE  DeliveredSeen'
    BY <1>4, <1>8 DEF Lose
  <1>9. CASE UNCHANGED vars
    BY <1>4, <1>9 DEF vars
  <1> QED
    BY <1>1, <1>5, <1>6, <1>7, <1>8, <1>9 DEF Next

(* A node delivers a foreign bundle once in a run, over however many ways  *)
(* it comes, as long as its table of seen ids has not overflowed.          *)
THEOREM ForeignDeliveredOnce == Spec => []DeliveredOncePerRun
  <1>1. Init => DeliveredSeen
    BY DEF Init, DeliveredSeen
  <1>2. DeliveredSeen => DeliveredOncePerRun
    BY DEF DeliveredSeen, DeliveredOncePerRun
  <1> QED
    BY TypeInit, TypeStep, DeliveredStep, <1>1, <1>2, PTL DEF Spec

=============================================================================
