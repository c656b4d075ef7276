----------------------------- MODULE MCMainLoop -----------------------------
(***************************************************************************)
(* Model-checking MainLoop: two clients, two CPUs or one, and what the     *)
(* clients of each run send.                                               *)
(***************************************************************************)
EXTENDS MainLoop, TLC

CONSTANTS a, b, x, y

Requests == (a :> {<<"HELLO">>, <<"START", x>>, <<"STOP", x>>})
         @@ (b :> {<<"HELLO">>, <<"START", y>>})
Echo == [c \in Client |-> {<<"PING">>}]
=============================================================================
