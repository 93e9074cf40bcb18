---------------------------- MODULE MCTokenRefresh ----------------------------
(* Two requests of the pages; one user of the browser after another. *)
EXTENDS TokenRefresh
================================================================================
