----------------------------- MODULE BundleData -----------------------------
(***************************************************************************)
(* The data a dtn7zero node handles: bundle ids and the order utility.py   *)
(* puts on them, the parts of a bundle its agent looks at, and the         *)
(* BundleInformation objects of data.py.                                   *)
(***************************************************************************)
EXTENDS Integers, FiniteSets, Sequences

CONSTANTS
    None,          \* Python's None
    Addresses,     \* the addresses of the neighbour nodes
    Uris,          \* the endpoint URIs bundles are addressed to and sent from
    Anonymous,     \* the source URI "dtn:none" of anonymous bundles
    MicroPython    \* RUNNING_MICROPYTHON: no clock to date a bundle with

ASSUME DataAssumption ==
    /\ None \notin Addresses \union Uris
    /\ None \notin {"Dispatch pending", "Forward pending", "application"}
    /\ "application" \notin Addresses
    /\ Anonymous \notin Uris
    /\ MicroPython \in BOOLEAN

(* "<source>-<creation time>-<sequence number>", taken apart. *)
BundleIds == [source : Uris \union {Anonymous}, time : Nat, num : Nat]

(* is_x_older: a bundle made without a clock (time 0) counts as newer. *)
IsXOlder(x, y) ==
    \/ x.time # 0 /\ y.time = 0
    \/ y.time # 0 /\ 0 < x.time /\ x.time < y.time
    \/ x.time = y.time /\ x.num < y.num

(* What get_oldest_bundle_id may return.  It returns the first oldest id   *)
(* in the order of the dict, which MicroPython leaves open.                *)
OldestBundleIds(ids) == {x \in ids : \A y \in ids : ~ IsXOlder(y, x)}

NoAge == -1     \* the bundle has no bundle age block

(* must_delete: some block asks to be deleted with its bundle when it      *)
(* cannot be processed.                                                    *)
Bundles == [id : BundleIds, destination : Uris, hop_count : Nat,
            hop_limit : Nat, age : Nat \union {NoAge}, lifetime : Nat,
            must_delete : BOOLEAN]

RetentionConstraints == {None, "Dispatch pending", "Forward pending"}

(* Where a BundleInformation came from (a record for the properties only): *)
(* the application, or a neighbour, whose address may be unknown (None).   *)
Origins == {"application"} \union Addresses \union {None}

BundleInformations ==
    [bundle : Bundles, retention_constraint : RetentionConstraints,
     locally_delivered : BOOLEAN, received_at : Nat,
     forwarded_to : Seq(Addresses), origin : Origins]

NewBundleInformation(bundle, now, forwarded_to, origin) ==
    [bundle |-> bundle, retention_constraint |-> None,
     locally_delivered |-> FALSE, received_at |-> now,
     forwarded_to |-> forwarded_to, origin |-> origin]

(* The copy that prepare_and_serialize_bundle hands to the convergence     *)
(* layers: one hop more, and the time spent here added to its age.         *)
OutgoingCopy(bundle, received_at, now) ==
    [bundle EXCEPT !.hop_count = @ + 1,
                   !.age = IF @ = NoAge THEN NoAge ELSE @ + (now - received_at)]

HopLimitExceeded(bundle) == bundle.hop_count >= bundle.hop_limit

LifetimeExpired(bundle, now) ==
    \/ bundle.age # NoAge /\ bundle.age >= bundle.lifetime
    \/ /\ ~ MicroPython
       /\ bundle.id.time # 0
       /\ bundle.id.time + bundle.lifetime < now
=============================================================================
