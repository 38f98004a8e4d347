----------------------------- MODULE MCMidgard -----------------------------
(***************************************************************************)
(* A midgard heap small enough for TLC: headers of 2 bytes, requests that  *)
(* are shorter than, between and longer than two headers.                  *)
(***************************************************************************)
EXTENDS Midgard
=============================================================================
