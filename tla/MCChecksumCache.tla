--------------------------- MODULE MCChecksumCache ---------------------------
(* ChecksumCache for TLC: two indices within the bound and one past it.    *)
EXTENDS ChecksumCache
=============================================================================
