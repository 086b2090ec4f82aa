-------------------------- MODULE MCPublicDownload --------------------------
(* Small instances of PublicDownload for TLC. *)
EXTENDS PublicDownload, TLC

CONSTANTS pdf, csv, r1, r2

Threads == Permutations({r1, r2})
=============================================================================
