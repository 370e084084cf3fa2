----------------------------- MODULE MCHotplug -----------------------------
(* Small instances of Hotplug for TLC: one phone, plugged in repeatedly. *)
EXTENDS Hotplug, TLC

CONSTANT d1
OnePhone == [p \in Plugs |-> d1]

(* All the attachments are of one phone, so they may be exchanged. *)
Replugs == Permutations(Plugs)
=============================================================================
