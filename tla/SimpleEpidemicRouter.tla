------------------------ MODULE SimpleEpidemicRouter ------------------------
(***************************************************************************)
(* routers/simple_epidemic_router.py: flood every bundle to every known    *)
(* node that does not have it yet.  A forwarding attempt blocks in the     *)
(* network, so it is a sequence of steps, one per node: targets holds the  *)
(* nodes the loop has still to visit and reason the reason code so far.    *)
(***************************************************************************)
EXTENDS SimpleInMemoryStorage, Functions

CONSTANTS
    UnicastClas,     \* the node's own layers that send to one node
    BroadcastClas,   \* its layers that only broadcast (espnow, rf95_lora)
    MinNodes         \* SIMPLE_EPIDEMIC_ROUTER_MIN_NODES_TO_FORWARD_TO

ASSUME RouterAssumption ==
    /\ UnicastClas \subseteq Clas
    /\ IsFiniteSet(UnicastClas)
    /\ BroadcastClas \intersect UnicastClas = {}
    /\ MinNodes \in Nat

VARIABLES targets, reason

routerVars == <<targets, reason>>

NoTimelyContact == "No timely contact with next node on route"
TrafficPared == "Traffic pared"
Unidirectional == "Forwarded over unidirectional link"
NoKnownRoute == "No known route to destination from here"

RouterTypeOK ==
    /\ targets \subseteq Addresses
    /\ reason \in {None, NoTimelyContact, TrafficPared, Unidirectional}

RouterInit == targets = {} /\ reason = None

ForwardedTo(r) == Range(info[r].forwarded_to)

(* With a bug: the sender is entered without asking whether it is known. *)
PolledFromAnyone(bundle, address, now) ==
    NewBundleInformation(bundle, now, <<address>>, address)

(* Both poll generators: the object made for a copy that came from         *)
(* address, which a node known there is never sent back.                   *)
PolledInformation(bundle, address, now) ==
    NewBundleInformation(bundle, now,
        IF address \in DOMAIN nodes THEN <<address>> ELSE << >>, address)

(* With a bug: nodes that have the bundle are not skipped. *)
AttemptAllNodes(r) ==
    /\ targets' = DOMAIN nodes
    /\ reason' = NoTimelyContact

(* immediate_forwarding_attempt up to its loop. *)
BeginForwardingAttempt(r) ==
    /\ targets' = DOMAIN nodes \ ForwardedTo(r)
    /\ reason' = NoTimelyContact

(* One turn of the loop: every unicast CLA tries the node n, those in sent *)
(* deliver, and each of them appends n to the list.  A layer the node does *)
(* not announce fails; a failed mtcp send also forgets that it did.        *)
SendToNode(r, n, sent) ==
    LET failed == UnicastClas \ sent
    IN  /\ n \in targets
        /\ sent \subseteq UnicastClas \intersect nodes[n]
        /\ targets' = targets \ {n}
        /\ info' = [info EXCEPT ![r].forwarded_to =
                        @ \o [i \in 1 .. Cardinality(sent) |-> n]]
        /\ nodes' = [nodes EXCEPT ![n] = @ \ (failed \intersect {"mtcp"})]
        /\ reason' = IF failed = {} THEN reason ELSE TrafficPared

(* The reason code the attempt returns: a broadcast is the last word. *)
FinalReason == IF BroadcastClas = {} THEN reason ELSE Unidirectional

(* With a bug: one node is enough. *)
SentToAny(r) == info[r].forwarded_to # << >>

(* success, the first result of the attempt. *)
Success(r) == Len(info[r].forwarded_to) >= MinNodes
=============================================================================
