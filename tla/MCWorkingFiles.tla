--------------------------- MODULE MCWorkingFiles ---------------------------
(* The working files on small instances: two documents over two paths.      *)
EXTENDS WorkingFiles
MCDocument == {1, 2}
MCPath == {1, 2}
=============================================================================
