--------------------------- MODULE MCProxyServer ----------------------------
(***************************************************************************)
(* Three connections from two addresses, a pool with two settings, or no   *)
(* pool at all, and two reloads: a reload may meet sessions of the one     *)
(* before it that are not aborted yet, and miners that reconnect in        *)
(* between.                                                                *)
(***************************************************************************)
EXTENDS ProxyServer

CONSTANTS c1, c2, c3, a1, a2
=============================================================================
