------------------------------- MODULE ImagesMC -------------------------------
(* A small instance of the image store.                                    *)
EXTENDS Images
=============================================================================
