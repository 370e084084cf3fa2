----------------------------- MODULE MCSession -----------------------------
(* A small instance of Session for TLC. *)
EXTENDS Session

(* The events of each of two muxers; requests with and without an upstream; *)
(* a host with a phone and the record of another muxer.                     *)
Events(muxer) ==
  [shim |-> TRUE, kinds |-> {"Listen"}, requests |-> 1, devices |-> {muxer}, store |-> FALSE]
Answers(shim) ==
  [shim |-> shim, kinds |-> Kinds \ {"Listen"}, requests |-> 2,
   devices |-> {"local"}, store |-> FALSE]
OwnHost ==
  [shim |-> FALSE, kinds |-> {"ReadPairRecord", "SavePairRecord", "ReadBUID"}, requests |-> 1,
   devices |-> {}, store |-> TRUE]

FiveScenes == {Events("local"), Events("upstream"), Answers(TRUE), Answers(FALSE), OwnHost}
=============================================================================
