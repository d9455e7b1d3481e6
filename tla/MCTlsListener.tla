--------------------------- MODULE MCTlsListener ---------------------------
(***************************************************************************)
(* TLC instance of TlsListener: more connections than permits and places   *)
(* in the channel.                                                         *)
(***************************************************************************)
EXTENDS TlsListener

CONSTANTS k1, k2, k3, k4

FourConnections == {k1, k2, k3, k4}

=============================================================================
