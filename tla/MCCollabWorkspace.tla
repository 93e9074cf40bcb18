--------------------------- MODULE MCCollabWorkspace ---------------------------
(* A workspace and one other participant, who is there from the start. *)
EXTENDS CollabWorkspace

MCPresent == {"ana"}
================================================================================
