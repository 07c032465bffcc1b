------------------------------ MODULE Flooding ------------------------------
(***************************************************************************)
(* What a network of nodes promises of a bundle: it goes from node to node *)
(* along the links, a copy at a time, and only from nodes that have        *)
(* delivered it.  No copy disappears but into a delivery, at the end of    *)
(* its hops, at a node that has had a bundle with its id, or in a fault.   *)
(* A node may keep a bundle and send it later to neighbours that it has    *)
(* not noted for what it keeps.  Whom it knows and which ids it remembers  *)
(* is not seen.                                                            *)
(***************************************************************************)
EXTENDS Integers, Sequences

CONSTANTS
    Nodes,
    MicroPython,  \* those of them that may lose a copy sent to them
    Links,        \* the pairs of nodes that can meet
    HopLimit      \* the hops a copy may make

VARIABLES
    made,         \* the ids of the bundles made so far
    delivered,    \* the bundles each node has delivered since it was started
    expired,      \* those it had at the end of their hops
    kept,         \* what each node keeps: the bundle, the hops it has made
                  \* and the nodes it has been sent to or come from
    copies,       \* the copies on their way
    harmed        \* the bundles there were at the last fault

Had(n) == delivered[n] \union expired[n]

Neighbours(n) == {m \in Nodes : <<n, m>> \in Links}

Passed(bundle, hops, n, to) ==
    {[bundle |-> bundle, hops |-> hops, from |-> n, to |-> m] : m \in to}

MayKeep(n, bundle, hops, to) ==
    \/ UNCHANGED kept
    \/ kept' = [kept EXCEPT ![n] = @ \union {[bundle |-> bundle, hops |-> hops, to |-> to]}]

Init ==
    /\ made = << >>
    /\ delivered = [n \in Nodes |-> {}]
    /\ expired = [n \in Nodes |-> {}]
    /\ kept = [n \in Nodes |-> {}]
    /\ copies = {}
    /\ harmed = {}

Make(n) ==
    LET bundle == Len(made) + 1
    IN  /\ Len(made') = bundle
        /\ made' = Append(made, made'[bundle]) /\ made'[bundle].source = n
        /\ delivered' = [delivered EXCEPT ![n] = @ \union {bundle}]
        /\ \E to \in SUBSET Neighbours(n) :
               /\ copies' = copies \union Passed(bundle, 1, n, to)
               /\ MayKeep(n, bundle, 0, to)
        /\ UNCHANGED <<expired, harmed>>

(* A node delivers a copy and passes it on at once, but not straight back. *)
(* If it keeps the bundle it may not know the sender for one that has it.  *)
Take(n, c) ==
    /\ c.to = n
    /\ c.hops < HopLimit
    /\ delivered' = [delivered EXCEPT ![n] = @ \union {c.bundle}]
    /\ \E to \in SUBSET (Neighbours(n) \ {c.from}) :
           /\ copies' = (copies \ {c}) \union Passed(c.bundle, c.hops + 1, n, to)
           /\ \E known \in SUBSET {c.from} : MayKeep(n, c.bundle, c.hops, known \union to)
    /\ UNCHANGED <<made, expired, harmed>>

(* Or ignores it, if it has had a bundle with its id.                      *)
Ignore(n, c) ==
    /\ c.to = n
    /\ \E bundle \in Had(n) : made[bundle] = made[c.bundle]
    /\ copies' = copies \ {c}
    /\ UNCHANGED <<made, delivered, expired, kept, harmed>>

(* Or deletes it at the end of its hops.                                   *)
GiveUp(n, c) ==
    /\ c.to = n
    /\ c.hops >= HopLimit
    /\ expired' = [expired EXCEPT ![n] = @ \union {c.bundle}]
    /\ copies' = copies \ {c}
    /\ UNCHANGED <<made, delivered, kept, harmed>>

(* A node passes on later what it has kept, to neighbours that are new.    *)
PassOn(n) ==
    /\ UNCHANGED <<made, delivered, expired, harmed>>
    /\ \E k \in kept[n] : \E to \in SUBSET (Neighbours(n) \ k.to) :
           /\ copies' = copies \union Passed(k.bundle, k.hops + 1, n, to)
           /\ kept' = [kept EXCEPT ![n] = (@ \ {k}) \union {[k EXCEPT !.to = @ \union to]}]

Restart(n) ==
    /\ delivered' = [delivered EXCEPT ![n] = {}]
    /\ expired' = [expired EXCEPT ![n] = {}]
    /\ kept' = [kept EXCEPT ![n] = {}]
    /\ copies' = {c \in copies : c.to # n}
    /\ harmed' = DOMAIN made
    /\ UNCHANGED made

Lose(c) ==
    /\ c.to \in MicroPython
    /\ copies' = copies \ {c}
    /\ harmed' = DOMAIN made
    /\ UNCHANGED <<made, delivered, expired, kept>>

Next ==
    \/ \E n \in Nodes : \/ Make(n) \/ PassOn(n) \/ Restart(n)
                        \/ \E c \in copies : Take(n, c) \/ Ignore(n, c) \/ GiveUp(n, c)
    \/ \E c \in copies : Lose(c)

vars == <<made, delivered, expired, kept, copies, harmed>>

Spec == Init /\ [][Next]_vars
=============================================================================
