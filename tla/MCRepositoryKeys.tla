-------------------------- MODULE MCRepositoryKeys --------------------------
(* RepositoryKeys for TLC; the bounds are numbers given in the configuration. *)
EXTENDS RepositoryKeys
=============================================================================
