------------------------------ MODULE MCClient ------------------------------
EXTENDS Client

\* "use a", and the same with an accented e after it, in UTF-8: what follows a
\* statement is never parsed.
MCBytes ==
  [w \in Statement |->
     IF w = "s" THEN <<117, 115, 101, 32, 97>>
                ELSE <<117, 115, 101, 32, 97, 32, 195, 169>>]
=============================================================================
