---------------------------- MODULE DeviceEvents ----------------------------
(***************************************************************************)
(* What the device manager promises the clients that sent Listen: a device *)
(* is announced once under an id of its own and withdrawn at most once, a  *)
(* client that joins is told of every device present at that moment, and   *)
(* from then on every attached client is told of every change, in order.   *)
(* Manager.tla is shown to implement this specification.                   *)
(***************************************************************************)
EXTENDS Naturals, Sequences, FiniteSets, Functions

CONSTANTS
  Ids,          \* device ids
  Listeners     \* clients that sent Listen

VARIABLES
  present,      \* ids a client may connect to
  announced,    \* ids that were ever announced
  subscribed,   \* listeners that receive every change
  log           \* everything each listener was sent, oldest first

vars == <<present, announced, subscribed, log>>

Attached(id) == [type |-> "Attached", id |-> id]
Detached(id) == [type |-> "Detached", id |-> id]

(* What a client that replays the events q believes is attached: the ids   *)
(* with an Attached event that no later Detached event takes back.         *)
Believed(q) ==
  {id \in Ids : \E i \in DOMAIN q :
                  /\ q[i] = Attached(id)
                  /\ \A j \in DOMAIN q : j > i => q[j] # Detached(id)}

(* The orders in which a snapshot of the devices S can be sent. *)
Snapshots(S) ==
  {[i \in 1..Cardinality(S) |-> Attached(order[i])] :
     order \in Bijection(1..Cardinality(S), S)}

Publish(e) == log' = [l \in Listeners |->
                        IF l \in subscribed THEN Append(log[l], e) ELSE log[l]]

Init ==
  /\ present = {}
  /\ announced = {}
  /\ subscribed = {}
  /\ log = [l \in Listeners |-> <<>>]

Announce(id) ==
  /\ id \notin announced
  /\ present' = present \cup {id}
  /\ announced' = announced \cup {id}
  /\ Publish(Attached(id))
  /\ UNCHANGED subscribed

Withdraw(id) ==
  /\ id \in present
  /\ present' = present \ {id}
  /\ Publish(Detached(id))
  /\ UNCHANGED <<announced, subscribed>>

Join(l) ==
  /\ l \notin subscribed
  /\ log[l] = <<>>
  /\ subscribed' = subscribed \cup {l}
  /\ \E s \in Snapshots(present) : log' = [log EXCEPT ![l] = s]
  /\ UNCHANGED <<present, announced>>

Leave(l) ==
  /\ l \in subscribed
  /\ subscribed' = subscribed \ {l}
  /\ UNCHANGED <<present, announced, log>>

Next ==
  \/ \E id \in Ids : Announce(id) \/ Withdraw(id)
  \/ \E l \in Listeners : Join(l) \/ Leave(l)

Spec == Init /\ [][Next]_vars

-----------------------------------------------------------------------------

(* What a listener was told agrees with what is there: replaying the       *)
(* events of a subscribed listener yields the devices that are present.    *)
Agreement == \A l \in subscribed : Believed(log[l]) = present

(* No client sees an id attached twice, and none sees a device detached    *)
(* that it was not told of before: an id names one device for ever.        *)
OneLife(q) ==
  \A j \in DOMAIN q :
    LET earlier == {q[i] : i \in 1..(j - 1)}
    IN  /\ Detached(q[j].id) \notin earlier
        /\ Attached(q[j].id) \in earlier <=> q[j] = Detached(q[j].id)

EventsMakeSense == \A l \in Listeners : OneLife(log[l])
=============================================================================
