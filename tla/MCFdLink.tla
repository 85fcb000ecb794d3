------------------------------ MODULE MCFdLink ------------------------------
(***************************************************************************)
(* FdLink with messages of one and of two blocks.                          *)
(***************************************************************************)
EXTENDS FdLink, TLC

CONSTANTS short, long

MCMsgs == {short, long}
MCBlocks == (short :> <<1>>) @@ (long :> <<2, 1>>)

LiveMsgs == {long}
LiveBlocks == long :> <<1, 1>>

=============================================================================
