------------------------------- MODULE MCIPND -------------------------------
(***************************************************************************)
(* Small instances of the discovery: the values of its constants.          *)
(***************************************************************************)
EXTENDS IPND, TLC

CONSTANTS n1, n2

(* n1 serves an interface where nobody else is first; n2 listens on one    *)
(* that it does not broadcast on.                                          *)
MCInterfaces == (n1 :> <<"lo", "lan">>) @@ (n2 :> <<"wlan", "lan">>)
MCWhitelist == (n1 :> {}) @@ (n2 :> {"lan"})
=============================================================================
