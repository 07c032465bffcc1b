----------------------- MODULE SimpleInMemoryStorage -----------------------
(***************************************************************************)
(* simple_in_memory_storage.py: the node's bundle store, the table of the  *)
(* bundle ids it has seen, and its table of neighbour nodes.  The store    *)
(* holds references: the BundleInformation objects themselves are shared   *)
(* with the dispatch queue and the retry generator, and live in info.      *)
(*                                                                         *)
(* The dicts are functions: their iteration order is left open, as it is   *)
(* on MicroPython.                                                         *)
(***************************************************************************)
EXTENDS BundleData

CONSTANTS
    Infos,       \* bound: the BundleInformation objects a behaviour creates
    Clas,        \* the convergence layers a neighbour may announce
    MaxStored,   \* SIMPLE_IN_MEMORY_STORAGE_MAX_STORED_BUNDLES
    MaxKnown     \* SIMPLE_IN_MEMORY_STORAGE_MAX_KNOWN_BUNDLE_IDS

ASSUME StorageAssumption ==
    /\ IsFiniteSet(Infos)
    /\ None \notin Infos
    /\ MaxStored \in Nat \ {0}
    /\ MaxKnown \in Nat \ {0}

VARIABLES
    info,         \* the heap: reference -> BundleInformation
    bundles,      \* bundle id -> reference
    bundle_ids,   \* seen bundle id -> address it came from, or None
    nodes         \* address of a known node -> the CLAs it announces

storageVars == <<info, bundles, bundle_ids, nodes>>

Map(f, D, S) == DOMAIN f \subseteq D /\ f \in [DOMAIN f -> S]

StorageTypeOK ==
    /\ Map(info, Infos, BundleInformations)
    /\ Map(bundles, BundleIds, DOMAIN info)
    /\ Map(bundle_ids, BundleIds, Addresses \union {None})
    /\ Map(nodes, Addresses, SUBSET Clas)

StorageInit ==
    /\ info = << >>
    /\ bundles = << >>
    /\ bundle_ids = << >>
    /\ nodes = << >>

IdOf(r) == info[r].bundle.id

(* f with x mapped to v, and f without the keys in S. *)
Put(f, x, v) == [y \in DOMAIN f \union {x} |-> IF y = x THEN v ELSE f[y]]
Without(f, S) == [y \in DOMAIN f \ S |-> f[y]]

Stored == {bundles[id] : id \in DOMAIN bundles}

GetSeen(id) == IF id \in DOMAIN bundle_ids THEN bundle_ids[id] ELSE None

(* With bugs: an unknown sender is not noted; the table grows by one more. *)
StoreSeenKnownSender(id, address) ==
    IF address = None THEN UNCHANGED bundle_ids
    ELSE bundle_ids' = Put(bundle_ids, id, address)

StoreSeenOffByOne(id, address) ==
    IF Cardinality(DOMAIN bundle_ids) <= MaxKnown
    THEN bundle_ids' = Put(bundle_ids, id, address)
    ELSE \E oldest \in OldestBundleIds(DOMAIN bundle_ids) :
             bundle_ids' = Put(Without(bundle_ids, {oldest}), id, address)

(* store_seen.  A full table loses its oldest id even when id itself is    *)
(* already in it and is only overwritten.                                  *)
StoreSeen(id, address) ==
    \/ /\ address = None /\ GetSeen(id) # None
       /\ UNCHANGED bundle_ids
    \/ /\ address # None \/ GetSeen(id) = None
       /\ Cardinality(DOMAIN bundle_ids) < MaxKnown
       /\ bundle_ids' = Put(bundle_ids, id, address)
    \/ /\ address # None \/ GetSeen(id) = None
       /\ Cardinality(DOMAIN bundle_ids) >= MaxKnown
       /\ \E oldest \in OldestBundleIds(DOMAIN bundle_ids) :
             bundle_ids' = Put(Without(bundle_ids, {oldest}), id, address)

(* add_node, and a beacon that replaces the CLAs of a known node. *)
SetNode(address, clas) == nodes' = Put(nodes, address, clas)

Full(store) == Cardinality(DOMAIN store) >= MaxStored

(* With a bug: everything is garbage. *)
CollectableAll == DOMAIN bundles

(* garbage_collect drops the bundles nothing retains. *)
Collectable == {id \in DOMAIN bundles :
                    info[bundles[id]].retention_constraint = None}

(* With a bug: the comparison turned round. *)
NewestStored(store) ==
    {id \in DOMAIN store : \A other \in DOMAIN store :
        info[store[id]].received_at >= info[store[other]].received_at}

(* The ids whose bundle get_oldest_bundle may return: received first. *)
OldestStored(store) ==
    {id \in DOMAIN store : \A other \in DOMAIN store :
        info[store[id]].received_at <= info[store[other]].received_at}

(* With a bug: collecting is taken to be enough. *)
NoEvictions == {{}}

(* What delay_bundle keeps, and the sets of ids it may then throw out. *)
Kept == IF Full(bundles) THEN Without(bundles, Collectable) ELSE bundles
Evictions == IF Full(Kept) THEN {{id} : id \in OldestStored(Kept)} ELSE {{}}

(* delay_bundle for the object r.  An id that is already in the store      *)
(* leaves the store as it is, whatever object is stored under it.          *)
DelayBundle(r, evicted) ==
    \/ /\ IdOf(r) \in DOMAIN bundles
       /\ evicted = {}
       /\ UNCHANGED <<bundles, bundle_ids>>
    \/ /\ IdOf(r) \notin DOMAIN bundles
       /\ evicted \in Evictions
       /\ StoreSeen(IdOf(r), None)
       /\ bundles' = Put(Without(Kept, evicted), IdOf(r), r)

(* remove_bundle *)
RemoveBundle(id) == bundles' = Without(bundles, {id})
=============================================================================
