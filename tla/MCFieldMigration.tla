-------------------------- MODULE MCFieldMigration --------------------------
(* FieldMigration for TLC; all bounds are numbers of the configuration.     *)
EXTENDS FieldMigration
=============================================================================
