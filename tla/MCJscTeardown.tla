--------------------------- MODULE MCJscTeardown ---------------------------
(* Two runtimes and an attachment of one context group, and a runtime apart. *)
EXTENDS JscTeardown

CONSTANTS a, b, c, x

MCGroup == [r \in {a, b, c, x} |-> IF r = c THEN "own" ELSE "shared"]
============================================================================
