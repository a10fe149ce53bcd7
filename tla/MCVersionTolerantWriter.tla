---------------------- MODULE MCVersionTolerantWriter ----------------------
(* Calls and members of one, two and three appends into small buffers. *)
EXTENDS VersionTolerantWriter

\* An empty span, a header byte, and a string: length, length, text.
MCCalls == { << <<>> >>, << <<1>> >>, << <<2>>, <<2>>, <<1>> >> }

MCPrefix == <<9>>

MCValues == { << <<>> >>, << <<2>>, <<3>> >> }
=============================================================================
