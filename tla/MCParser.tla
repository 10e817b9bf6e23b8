------------------------------ MODULE MCParser ------------------------------
EXTENDS Parser

\* A letter; the keywords of the statements; a digit; the runes that begin or end
\* something; NUL; and another one.
MCKeyword == {"use", "create", "drop", "show", "namespace", "namespaces"}
MCLetter == MCKeyword \cup {"a"}
MCRune == MCLetter \cup {"1", " ", ".", "quote", "tick", "\\", "+", "nul", "o"}
=============================================================================
