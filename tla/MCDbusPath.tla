----------------------------- MODULE MCDbusPath -----------------------------
EXTENDS DbusPath

\* Ends of the ranges of digits, letters, bytes of one hex digit and negative
\* bytes, some of their neighbours, '_', and 'f'.
Chars == {15, 47, 48, 57, 64, 65, 95, 97, 102, 123, 128, 255}

\* "/", "a", "/a/"
Bases == {<<47>>, <<97>>, <<47, 97, 47>>}
=============================================================================
