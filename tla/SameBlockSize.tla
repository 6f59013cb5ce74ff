--------------------------- MODULE SameBlockSize ---------------------------
(***************************************************************************)
(* Uploads whose two sides run with the same -b, as with -t, which hands   *)
(* the client's to the server.                                             *)
(***************************************************************************)
EXTENDS Upload

ASSUME SameSizeAssumption == ServerBlockSize = BlockSize
=============================================================================
