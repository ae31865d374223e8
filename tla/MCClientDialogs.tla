--------------------------- MODULE MCClientDialogs ---------------------------
EXTENDS ClientDialogs

MCImages     == {<<12, 10>>}
MCFixedSizes == {<<4, 5>>}
MCShapes     == {"RECT", "SQUARE", "FIXED_ELLIPSE"}
MCPoints     == ({3, 5, 8} \X {1, 3, 5}) \cup {<<5, -1>>}

\* Four labels, two of them hints; the widest just fits into a line.
MCKeyOrder  == <<"a", "b", "c", "d">>
MCHintKeys  == {"b", "d"}
MCTextWidth == [a |-> 40, b |-> 120, c |-> 274, d |-> 200]
=============================================================================
