---------------------- MODULE MCVersionTolerantReader ----------------------
(* Objects of up to three members over telling byte values. *)
EXTENDS VersionTolerantReader

\* Small counts and lengths, the uint16 length marker, a reserved header (the
\* integer -2) and the null header (the integer -1).
MCByte == {0, 1, 2, 3, 132, 254, 255}
=============================================================================
