-------------------------- MODULE MCSessionProjection --------------------------
(* A small instance of the session projection: one prompt, two entries.    *)
EXTENDS SessionProjection
=============================================================================
