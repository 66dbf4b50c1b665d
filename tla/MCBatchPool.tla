---------------------------- MODULE MCBatchPool ----------------------------
(* The instance of BatchPool for TLC.                                      *)
EXTENDS BatchPool

\* A negative hash that becomes the index 1.
MCHashes == {-2}
=============================================================================
