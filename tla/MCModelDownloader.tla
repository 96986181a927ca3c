-------------------------- MODULE MCModelDownloader --------------------------
(* Instances of ModelDownloader for TLC. *)
EXTENDS ModelDownloader
=============================================================================
