--------------------------- MODULE MCServerLoop ---------------------------
(* ServerLoop for TLC: a server that sees at most MaxConn connections.     *)
EXTENDS ServerLoop
===========================================================================
