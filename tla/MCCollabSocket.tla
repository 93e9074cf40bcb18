---------------------------- MODULE MCCollabSocket ----------------------------
(* Four routes in turn; the second names no document. *)
EXTENDS CollabSocket

MCWorkspaces == 1..4

MCDocumentOf == <<1, 0, 2, 1>>

MCJoins == {1, 4}
================================================================================
