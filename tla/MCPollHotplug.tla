--------------------------- MODULE MCPollHotplug ---------------------------
(* A small instance of PollHotplug for TLC: one phone on one key. *)
EXTENDS PollHotplug

CONSTANT d1
OnePhone == [p \in Plugs |-> d1]
=============================================================================
