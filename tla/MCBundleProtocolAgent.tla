----------------------- MODULE MCBundleProtocolAgent -----------------------
(***************************************************************************)
(* Small instances of the agent: the values of its constants.              *)
(***************************************************************************)
EXTENDS BundleProtocolAgent, TLC

CONSTANTS n1, n2, e1, e2, e3, g1, g2

MCAddresses == {n1, n2}
OneAddress == {n1}

MCInfos3 == 1 .. 3
MCInfos2 == 1 .. 2

(* Uris are named after who owns them. *)
MCUris == {"here/1", "far"}
MCUriOne == (e1 :> "here/1")

NoUri == << >>

MCTwoUris == {"here/1", "here/2"}
MCUriTwo == (e1 :> "here/1") @@ (e2 :> "here/2")

(* Two endpoints share a URI, two groups another; e3 was given a name the  *)
(* assertion refuses.                                                      *)
MCGroupUris == {"here/1", "here/~2", "group"}
MCUriGroup == (e1 :> "here/1") @@ (e2 :> "here/1") @@ (e3 :> "here/~2")
              @@ (g1 :> "group") @@ (g2 :> "group")

Foreign(time, num, destination, hops, limit, lifetime, delete) ==
    [id |-> [source |-> "far", time |-> time, num |-> num],
     destination |-> destination, hop_count |-> hops, hop_limit |-> limit,
     age |-> NoAge, lifetime |-> lifetime, must_delete |-> delete]

(* Bundles that only pass through; the first expires at once.              *)
Transit == {Foreign(1, 0, "far", 0, 2, 0, FALSE),
            Foreign(1, 1, "far", 1, 2, 9, FALSE),
            Foreign(0, 1, "far", 0, 2, 9, FALSE)}

(* An anonymous bundle for the one endpoint there is; it passes through    *)
(* when that is not registered.                                            *)
HereOnly == {"here/1"}
ForHere == {[Foreign(1, 0, "here/1", 0, 2, 9, FALSE) EXCEPT !.id.source = "dtn:none"]}

(* A bundle for the endpoint here and one that passes through. *)
Mixed == {Foreign(1, 0, "here/1", 0, 2, 9, FALSE),
          Foreign(1, 1, "far", 0, 2, 9, FALSE)}

(* A bundle for the group, and one whose blocks ask for its deletion. *)
ToGroup == {[Foreign(1, 0, "group", 0, 2, 9, FALSE) EXCEPT !.id.source = "dtn:none"],
            [Foreign(1, 1, "group", 0, 2, 9, TRUE) EXCEPT !.id.source = "dtn:none"]}

(* A bundle whose hop count is its hop limit. *)
AtTheLimit == {Foreign(1, 0, "far", 2, 2, 9, FALSE)}

AddressSymmetry == Permutations(MCAddresses)

(* Endpoints of one URI, and groups of one URI, are interchangeable.       *)
EndpointSymmetry == Permutations({e1, e2}) \union Permutations({g1, g2})
=============================================================================
