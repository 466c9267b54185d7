----------------------------- MODULE MCReveDtm -----------------------------
(* Two addresses tell the answer of one request from that of another. *)
EXTENDS ReveDtm
=============================================================================
