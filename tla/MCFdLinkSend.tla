--------------------------- MODULE MCFdLinkSend ---------------------------
(***************************************************************************)
(* FdLinkSend with a vector of three entries, writev limited to two, a     *)
(* message of one block and one of two.                                    *)
(***************************************************************************)
EXTENDS FdLinkSend

CONSTANTS short, long

MCMsgs == {short, long}
MCBlocks == (short :> <<1>>) @@ (long :> <<2, 1>>)

(* Messages of more than twice as many blocks as the vector begins with.   *)
LargeBlocks == (short :> <<1>>) @@ (long :> <<1, 1, 1, 1>>)

=============================================================================
