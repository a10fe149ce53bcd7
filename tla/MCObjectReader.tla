--------------------------- MODULE MCObjectReader ---------------------------
(* Every short input over a few telling byte values. *)
EXTENDS ObjectReader

\* Small counts and lengths, a reserved header (also the integer -2) and the
\* null header (also the integer -1).
MCByte == {0, 1, 2, 3, 254, 255}

MCMembers == <<"list", "string", "int">>
=============================================================================
