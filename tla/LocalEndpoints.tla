--------------------------- MODULE LocalEndpoints ---------------------------
(***************************************************************************)
(* endpoints.py: the objects through which an application sends and        *)
(* receives.  A unicast endpoint numbers the bundles it sends; it may      *)
(* transmit as soon as its bpa reference is set.                           *)
(***************************************************************************)
EXTENDS BundleData

CONSTANTS
    Endpoints,         \* the LocalEndpoint objects of the application
    GroupEndpoints,    \* its LocalGroupEndpoint objects
    Uri,               \* the URI of each endpoint
    Malformed,         \* the unicast endpoints whose URI fails the assertion
    LocalLifetime,     \* the lifetime argument of start_transmission
    LocalHopLimit,     \* the hop limit it sets (32)
    AnonymousUse,      \* the anonymous arguments the application passes it
    MaxMembers,        \* bound: the registrations of one group URI
    MaxTime            \* bound: the last instant of the clock

ASSUME EndpointAssumption ==
    /\ Endpoints \intersect GroupEndpoints = {}
    /\ Uri \in [Endpoints \union GroupEndpoints -> Uris]
    /\ \A e \in Endpoints, g \in GroupEndpoints : Uri[e] # Uri[g]
    /\ Malformed \subseteq Endpoints
    /\ AnonymousUse \subseteq BOOLEAN
    /\ MaxMembers \in Nat
    /\ LocalLifetime \in Nat /\ LocalHopLimit \in Nat /\ MaxTime \in Nat

VARIABLES
    clock,        \* the time, in milliseconds
    bpa,          \* is the endpoint's reference to the agent set?
    last_time,    \* last_bundle_creation_time
    last_num,     \* last_sequence_number
    delivered     \* the objects each unicast endpoint was handed, in order
                  \* (a record for the properties only)

endpointVars == <<clock, bpa, last_time, last_num, delivered>>

GroupUris == {Uri[g] : g \in GroupEndpoints}

EndpointTypeOK ==
    /\ clock \in Nat
    /\ bpa \in [Endpoints -> BOOLEAN]
    /\ last_time \in [Endpoints -> Nat]
    /\ last_num \in [Endpoints -> Nat]

EndpointInit ==
    /\ clock = 1
    /\ bpa = [e \in Endpoints |-> FALSE]
    /\ last_time = [e \in Endpoints |-> 0]
    /\ last_num = [e \in Endpoints |-> 0]
    /\ delivered = [e \in Endpoints |-> << >>]

(* With bugs: the counter stands still; MicroPython's is started again. *)
SameNum(e) == IF MicroPython \/ clock = last_time[e] THEN last_num[e] ELSE 0
ClockedNum(e) == IF clock = last_time[e] THEN last_num[e] + 1 ELSE 0

(* The creation time and sequence number of e's next bundle: without a     *)
(* clock a plain counter, otherwise the time, and a counter within it.     *)
NextTime(e) == IF MicroPython THEN last_time[e] ELSE clock
NextNum(e) == IF MicroPython \/ clock = last_time[e] THEN last_num[e] + 1 ELSE 0

NextBundle(e, destination, anonymous) ==
    [id |-> [source |-> IF anonymous THEN Anonymous ELSE Uri[e],
             time |-> NextTime(e), num |-> NextNum(e)],
     destination |-> destination, hop_count |-> 0,
     hop_limit |-> LocalHopLimit,
     age |-> IF MicroPython THEN 0 ELSE NoAge,
     lifetime |-> LocalLifetime, must_delete |-> FALSE]

AdvanceNumber(e) ==
    /\ last_time' = [last_time EXCEPT ![e] = NextTime(e)]
    /\ last_num' = [last_num EXCEPT ![e] = NextNum(e)]

(* bpa_register and bpa_unregister of a unicast endpoint. *)
SetBpa(e, value) == bpa' = [bpa EXCEPT ![e] = value]

(* bpa_local_bundle_delivery: the bundle of the object r goes to e. *)
HandOver(e, r) ==
    delivered' = IF e \in Endpoints
                 THEN [delivered EXCEPT ![e] = Append(@, r)]
                 ELSE delivered

Tick ==
    /\ clock < MaxTime
    /\ clock' = clock + 1
    /\ UNCHANGED <<bpa, last_time, last_num, delivered>>
=============================================================================
