------------------------------ MODULE MCYjsEditor ------------------------------
(* Two editors of one document. *)
EXTENDS YjsEditor
===============================================================================
