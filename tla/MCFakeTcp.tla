----------------------------- MODULE MCFakeTcp -----------------------------
(***************************************************************************)
(* An instance of FakeTcp for TLC: both streams wrap around.               *)
(***************************************************************************)
EXTENDS FakeTcp

MCStarts == [client |-> {61}, server |-> {60}]

=============================================================================
