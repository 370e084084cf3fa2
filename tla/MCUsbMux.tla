------------------------------ MODULE MCUsbMux ------------------------------
(* Small instances of UsbMux for TLC. *)
EXTENDS UsbMux
CONSTANTS c1, c2

Silent == {[callers |-> {c1}, out |-> 0, in |-> 0]}

Upload == {[callers |-> {c1}, out |-> 7, in |-> 0]}

(* One client that writes, one that reads, or two that are given one port. *)
OneWayOrTwoCalls ==
  {[callers |-> {c1}, out |-> 4, in |-> 0], [callers |-> {c1}, out |-> 0, in |-> 4],
   [callers |-> {c1, c2}, out |-> 0, in |-> 0]}
=============================================================================
