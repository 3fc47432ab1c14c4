---------------------------- MODULE MCTokenVault ----------------------------
(* TLC instance of TokenVault: an exact token and another, addresses 1..N.  *)
EXTENDS TokenVault
=============================================================================
