--------------------------- MODULE MCP256Verifier ---------------------------
(***************************************************************************)
(* TLC instance of P256Verifier: y^2 = x^3 - 3 x + 15 over 23 elements has *)
(* 17 points, fewer than the field as on P-256, and some x beyond 17.      *)
(***************************************************************************)
EXTENDS P256Verifier

\* All keys, and keys off the curve, at infinity or out of the field.
MCKeys == Points \union {<<0, 0>>, <<1, 7>>, <<p + 1, 6>>, <<1, p + 6>>}

MCInputs ==
    [hash : 0..(n + 1), r : 0..n, s : 0..n, pubKey : MCKeys] \union {Malformed}
=============================================================================
