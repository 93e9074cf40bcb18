---------------------------- MODULE MCWorkspacePage ----------------------------
(* One user, two documents. *)
EXTENDS WorkspacePage
===============================================================================
