------------------------ MODULE MCRestoreTransaction ------------------------
(* Two or three files, and every hook and every piece of file work may fail. *)
EXTENDS RestoreTransaction

Everything == Jobs \cup Hooks
=============================================================================
