---------------------------- MODULE MCFdLinkRecv ----------------------------
(***************************************************************************)
(* FdLinkRecvPeer with every kind of frame the receiver tells apart.       *)
(***************************************************************************)
EXTENDS FdLinkRecvPeer

F(magic, sizes, stop) == [magic |-> magic, sizes |-> sizes, stop |-> stop]

MCShapes ==
  {F(TRUE, <<2>>, FALSE), F(TRUE, <<1>>, TRUE), F(TRUE, <<2, 1, 2>>, TRUE),
   F(TRUE, <<1, 2>>, FALSE), F(TRUE, <<1, 1, 1, 1>>, FALSE),
   F(FALSE, <<1>>, FALSE), F(TRUE, <<>>, FALSE), F(TRUE, <<0>>, FALSE),
   F(TRUE, <<1, 0>>, FALSE)}

=============================================================================
