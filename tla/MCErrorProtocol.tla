-------------------------- MODULE MCErrorProtocol --------------------------
(* Small instance of ErrorProtocol: two messages (one ending in "<eof>"),  *)
(* two panic payloads, six frames (host, a protected call, a script, a     *)
(* protected call inside it, a script, a callback), two values per script. *)
EXTENDS ErrorProtocol
=============================================================================
