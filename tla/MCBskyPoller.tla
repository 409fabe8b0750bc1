----------------------------- MODULE MCBskyPoller -----------------------------
(***************************************************************************)
(* An instance of BskyPoller for TLC: two replies, of which one may answer *)
(* the other, and three passes of which two may overlap.                   *)
(***************************************************************************)
EXTENDS BskyPoller

CONSTANTS r1, r2
=============================================================================
