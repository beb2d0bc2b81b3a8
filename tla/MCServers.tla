------------------------------ MODULE MCServers ------------------------------
(* Two connections, with two lines and one, and three messages.             *)
EXTENDS Servers

LinesOf == <<2, 1>>
=============================================================================
