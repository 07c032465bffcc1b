------------------------------- MODULE MCMTCP -------------------------------
(***************************************************************************)
(* Small instances of the MTCP layer: the values of its constants.         *)
(***************************************************************************)
EXTENDS MTCP, TLC

CONSTANTS n1, n2, p, bundle, empty, text

MCSize == (bundle :> 2) @@ (empty :> 1) @@ (text :> 1)

(* Two bundles over one connection, a keep alive, and no message at all. *)
MCScripts == {<<bundle, bundle>>, <<empty>>, <<text>>}
=============================================================================
