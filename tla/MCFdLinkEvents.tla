--------------------------- MODULE MCFdLinkEvents ---------------------------
(***************************************************************************)
(* FdLinkEvents with the main loop and the loop of mtc_simple_peer_sync_   *)
(* io_step attached to one link.                                           *)
(***************************************************************************)
EXTENDS FdLinkEvents

CONSTANTS main, sync

=============================================================================
