------------------------------- MODULE MCApp -------------------------------
(* Small instances of App. *)
EXTENDS App

\* A short answer is one that a channel of the default capacity takes whole (64 of 64
\* tokens in the code); with the smaller one, send() suspends half way.
SmallBuffers == {1, NLen}
=============================================================================
