--------------------------- MODULE MCDiskLruCache ---------------------------
(* Instances of DiskLruCache for TLC.                                       *)
EXTENDS DiskLruCache
=============================================================================
