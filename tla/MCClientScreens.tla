--------------------------- MODULE MCClientScreens ---------------------------
(* The client over two matches.                                            *)
EXTENDS ClientScreens
=============================================================================
