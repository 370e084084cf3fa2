------------------------- MODULE DeviceEvents_proof -------------------------
(* The abstract specification keeps its promises. *)
EXTENDS DeviceEvents, FiniteSetTheorems, TLAPS

Event == [type : {"Attached", "Detached"}, id : Ids]

TypeOK ==
  /\ present \subseteq announced
  /\ announced \subseteq Ids
  /\ IsFiniteSet(present)
  /\ subscribed \subseteq Listeners
  /\ log \in [Listeners -> Seq(Event)]

(* Only announced ids occur in the events. *)
OnlyAnnounced == \A l \in Listeners : \A i \in DOMAIN log[l] : log[l][i].id \in announced

IndInv == TypeOK /\ OnlyAnnounced /\ Agreement /\ EventsMakeSense

LEMMA EventTyped ==
  ASSUME NEW id \in Ids
  PROVE  /\ Attached(id) \in Event /\ Detached(id) \in Event
         /\ Attached(id) # Detached(id)
  BY DEF Attached, Detached, Event

(* The effect of one more event on what a client believes. *)
LEMMA BelievedAppend ==
  ASSUME NEW q \in Seq(Event), NEW id \in Ids
  PROVE  /\ Believed(Append(q, Attached(id))) = Believed(q) \cup {id}
         /\ Believed(Append(q, Detached(id))) = Believed(q) \ {id}
<1> DEFINE a == Append(q, Attached(id))
           d == Append(q, Detached(id))
<1>1. /\ DOMAIN q = 1..Len(q) /\ Len(q) \in Nat
      /\ DOMAIN a = 1..(Len(q) + 1) /\ DOMAIN d = 1..(Len(q) + 1)
      /\ \A i \in 1..Len(q) : a[i] = q[i] /\ d[i] = q[i]
      /\ a[Len(q) + 1] = Attached(id) /\ d[Len(q) + 1] = Detached(id)
  BY EventTyped
<1>2. \A x \in Ids : /\ Attached(x) # Detached(id)
                     /\ Attached(x) # Detached(x)
                     /\ Attached(id) # Detached(x)
                     /\ Attached(x) = Attached(id) => x = id
                     /\ Detached(x) = Detached(id) => x = id
  BY DEF Attached, Detached
<1>3. Believed(a) = Believed(q) \cup {id}
  <2>1. ASSUME NEW x \in Believed(a) PROVE x \in Believed(q) \cup {id}
    <3>1. PICK i \in DOMAIN a : /\ a[i] = Attached(x)
                                /\ \A j \in DOMAIN a : j > i => a[j] # Detached(x)
      BY <2>1 DEF Believed
    <3>2. x \in Ids
      BY <2>1 DEF Believed
    <3>3. CASE i = Len(q) + 1
      BY <3>1, <3>2, <3>3, <1>1, <1>2
    <3>4. CASE i \in 1..Len(q)
      BY <3>1, <3>2, <3>4, <1>1 DEF Believed
    <3> QED BY <3>3, <3>4, <1>1
  <2>2. ASSUME NEW x \in Believed(q) PROVE x \in Believed(a)
    <3>1. PICK i \in DOMAIN q : /\ q[i] = Attached(x)
                                /\ \A j \in DOMAIN q : j > i => q[j] # Detached(x)
      BY <2>2 DEF Believed
    <3>2. x \in Ids
      BY <2>2 DEF Believed
    <3>3. i \in DOMAIN a /\ a[i] = Attached(x)
      BY <3>1, <1>1
    <3>4. \A j \in DOMAIN a : j > i => a[j] # Detached(x)
      BY <3>1, <3>2, <1>1, <1>2
    <3> QED BY <3>2, <3>3, <3>4 DEF Believed
  <2>3. id \in Believed(a)
    BY <1>1, <1>2 DEF Believed
  <2> QED BY <2>1, <2>2, <2>3
<1>4. Believed(d) = Believed(q) \ {id}
  <2>1. ASSUME NEW x \in Believed(d) PROVE x \in Believed(q) \ {id}
    <3>1. PICK i \in DOMAIN d : /\ d[i] = Attached(x)
                                /\ \A j \in DOMAIN d : j > i => d[j] # Detached(x)
      BY <2>1 DEF Believed
    <3>2. x \in Ids
      BY <2>1 DEF Believed
    <3>3. i \in DOMAIN q
      BY <3>1, <3>2, <1>1, <1>2
    <3>4. x # id
      BY <3>1, <3>3, <1>1
    <3> QED BY <3>1, <3>2, <3>3, <3>4, <1>1 DEF Believed
  <2>2. ASSUME NEW x \in Believed(q), x # id PROVE x \in Believed(d)
    <3>1. PICK i \in DOMAIN q : /\ q[i] = Attached(x)
                                /\ \A j \in DOMAIN q : j > i => q[j] # Detached(x)
      BY <2>2 DEF Believed
    <3>2. x \in Ids
      BY <2>2 DEF Believed
    <3>3. i \in DOMAIN d /\ d[i] = Attached(x)
      BY <3>1, <1>1
    <3>4. \A j \in DOMAIN d : j > i => d[j] # Detached(x)
      BY <3>1, <3>2, <2>2, <1>1, <1>2
    <3> QED BY <3>2, <3>3, <3>4 DEF Believed
  <2> QED BY <2>1, <2>2
<1> QED BY <1>3, <1>4

(* An event that says something new, or takes back what the client still   *)
(* believes, keeps a sensible log sensible.                                *)
LEMMA OneLifeAppend ==
  ASSUME NEW q \in Seq(Event), OneLife(q), NEW id \in Ids
  PROVE  /\ (\A i \in DOMAIN q : q[i].id # id) => OneLife(Append(q, Attached(id)))
         /\ id \in Believed(q) => OneLife(Append(q, Detached(id)))
<1> DEFINE Earlier(r, j) == {r[i] : i \in 1..(j - 1)}
           Sensible(r, j) == /\ Detached(r[j].id) \notin Earlier(r, j)
                             /\ Attached(r[j].id) \in Earlier(r, j)
                                  <=> r[j] = Detached(r[j].id)
<1>1. ASSUME NEW e \in Event, Sensible(Append(q, e), Len(q) + 1)
      PROVE  OneLife(Append(q, e))
  <2> DEFINE r == Append(q, e)
  <2>1. /\ DOMAIN r = 1..(Len(q) + 1) /\ Len(q) \in Nat /\ DOMAIN q = 1..Len(q)
        /\ \A i \in 1..Len(q) : r[i] = q[i]
    OBVIOUS
  <2>2. ASSUME NEW j \in 1..Len(q) PROVE Sensible(r, j)
    <3>1. Earlier(r, j) = Earlier(q, j)
      BY <2>1
    <3>2. Sensible(q, j)
      BY <2>1 DEF OneLife
    <3> QED BY <3>1, <3>2, <2>1
  <2>3. \A j \in DOMAIN r : Sensible(r, j)
    BY <2>1, <2>2, <1>1
  <2> QED BY <2>3 DEF OneLife
<1>2. ASSUME NEW e \in Event
      PROVE  /\ Append(q, e)[Len(q) + 1] = e
             /\ Earlier(Append(q, e), Len(q) + 1) = {q[i] : i \in DOMAIN q}
  <2>1. /\ Len(q) \in Nat /\ DOMAIN q = 1..Len(q) /\ (Len(q) + 1) - 1 = Len(q)
        /\ \A i \in 1..Len(q) : Append(q, e)[i] = q[i]
    OBVIOUS
  <2> QED BY <2>1
<1>3. ASSUME \A i \in DOMAIN q : q[i].id # id
      PROVE  OneLife(Append(q, Attached(id)))
  <2>1. Attached(id) \in Event /\ Attached(id).id = id /\ Attached(id) # Detached(id)
    BY DEF Attached, Detached, Event
  <2>2. Attached(id) \notin {q[i] : i \in DOMAIN q} /\ Detached(id) \notin {q[i] : i \in DOMAIN q}
    BY <1>3 DEF Attached, Detached
  <2>3. Sensible(Append(q, Attached(id)), Len(q) + 1)
    BY <1>2, <2>1, <2>2
  <2> QED BY <1>1, <2>1, <2>3
<1>4. ASSUME id \in Believed(q)
      PROVE  OneLife(Append(q, Detached(id)))
  <2>1. Detached(id) \in Event /\ Detached(id).id = id /\ Attached(id) # Detached(id)
        /\ Attached(id).id = id
    BY DEF Attached, Detached, Event
  <2>2. PICK i \in DOMAIN q : /\ q[i] = Attached(id)
                              /\ \A j \in DOMAIN q : j > i => q[j] # Detached(id)
    BY <1>4 DEF Believed
  <2>3. Attached(id) \in {q[k] : k \in DOMAIN q}
    BY <2>2
  <2>4. Detached(id) \notin {q[k] : k \in DOMAIN q}
    <3> SUFFICES ASSUME NEW k \in DOMAIN q, q[k] = Detached(id) PROVE FALSE
      OBVIOUS
    <3>1. k < i
      BY <2>1, <2>2
    <3>2. Sensible(q, i)
      BY <2>2 DEF OneLife
    <3>3. k \in 1..(i - 1)
      BY <3>1, <2>2
    <3> QED BY <3>2, <3>3, <2>1, <2>2
  <2>5. Sensible(Append(q, Detached(id)), Len(q) + 1)
    BY <1>2, <2>1, <2>3, <2>4
  <2> QED BY <1>1, <2>1, <2>5
<1> QED BY <1>3, <1>4

(* A snapshot of a finite set of devices tells of them all, once each. *)
LEMMA SnapshotTells ==
  ASSUME NEW S \in SUBSET Ids, IsFiniteSet(S), NEW s \in Snapshots(S)
  PROVE  /\ s \in Seq(Event) /\ Believed(s) = S /\ OneLife(s)
         /\ \A i \in DOMAIN s : s[i].id \in S
<1>1. Cardinality(S) \in Nat
  BY FS_CardinalityType
<1>2. PICK order \in Bijection(1..Cardinality(S), S) :
        s = [i \in 1..Cardinality(S) |-> Attached(order[i])]
  BY DEF Snapshots
<1>3. /\ order \in [1..Cardinality(S) -> S]
      /\ \A i, j \in 1..Cardinality(S) : order[i] = order[j] => i = j
      /\ \A x \in S : \E i \in 1..Cardinality(S) : order[i] = x
  BY <1>2 DEF Bijection, Injection, Surjection, IsInjective
<1>4. /\ DOMAIN s = 1..Cardinality(S)
      /\ \A i \in 1..Cardinality(S) : s[i] = Attached(order[i]) /\ order[i] \in S
  BY <1>2, <1>3
<1>5. s \in Seq(Event)
  BY <1>1, <1>2, <1>3, EventTyped
<1>6. \A x, y \in Ids : /\ Attached(x) # Detached(y) /\ Attached(x).id = x
                        /\ Attached(x) = Attached(y) => x = y
  BY DEF Attached, Detached
<1>7. Believed(s) = S
  BY <1>3, <1>4, <1>6 DEF Believed
<1>8. OneLife(s)
  <2> SUFFICES ASSUME NEW j \in DOMAIN s
               PROVE  LET earlier == {s[i] : i \in 1..(j - 1)}
                      IN  /\ Detached(s[j].id) \notin earlier
                          /\ Attached(s[j].id) \in earlier <=> s[j] = Detached(s[j].id)
    BY DEF OneLife
  <2>1. \A i \in 1..(j - 1) : i \in 1..Cardinality(S) /\ i # j
    BY <1>1, <1>4
  <2> QED BY <2>1, <1>3, <1>4, <1>6
<1> QED BY <1>4, <1>5, <1>6, <1>7, <1>8

LEMMA InitIndInv == Init => IndInv
<1> SUFFICES ASSUME Init PROVE IndInv
  OBVIOUS
<1>1. TypeOK
  BY FS_EmptySet DEF Init, TypeOK
<1>2. OnlyAnnounced /\ Agreement /\ EventsMakeSense
  BY DEF Init, OnlyAnnounced, Agreement, EventsMakeSense, OneLife
<1> QED BY <1>1, <1>2 DEF IndInv

LEMMA NextIndInv == IndInv /\ [Next]_vars => IndInv'
<1> SUFFICES ASSUME IndInv, [Next]_vars PROVE IndInv'
  OBVIOUS
<1> USE DEF IndInv
<1>0. /\ \A l \in Listeners : log[l] \in Seq(Event)
      /\ \A l \in Listeners : OneLife(log[l])
      /\ subscribed \subseteq Listeners
  BY DEF TypeOK, EventsMakeSense
<1>1. ASSUME NEW id \in Ids, Announce(id) PROVE IndInv'
  <2>1. /\ log' = [l \in Listeners |-> IF l \in subscribed
                                       THEN Append(log[l], Attached(id)) ELSE log[l]]
        /\ present' = present \cup {id} /\ announced' = announced \cup {id}
        /\ subscribed' = subscribed /\ id \notin announced
    BY <1>1 DEF Announce, Publish
  <2>2. TypeOK'
    BY <2>1, <1>0, EventTyped, FS_AddElement DEF TypeOK
  <2>3. OnlyAnnounced'
    <3> SUFFICES ASSUME NEW l \in Listeners, NEW i \in DOMAIN log'[l]
                 PROVE  log'[l][i].id \in announced'
      BY DEF OnlyAnnounced
    <3>1. CASE l \in subscribed /\ i = Len(log[l]) + 1
      BY <3>1, <2>1, <1>0, EventTyped DEF Attached
    <3>2. CASE i \in DOMAIN log[l]
      BY <3>2, <2>1, <1>0, EventTyped DEF OnlyAnnounced
    <3> QED BY <3>1, <3>2, <2>1, <1>0, EventTyped
  <2>4. Agreement'
    BY <2>1, <1>0, BelievedAppend DEF Agreement
  <2>5. EventsMakeSense'
    BY <2>1, <1>0, OneLifeAppend DEF EventsMakeSense, OnlyAnnounced
  <2> QED BY <2>2, <2>3, <2>4, <2>5
<1>2. ASSUME NEW id \in Ids, Withdraw(id) PROVE IndInv'
  <2>1. /\ log' = [l \in Listeners |-> IF l \in subscribed
                                       THEN Append(log[l], Detached(id)) ELSE log[l]]
        /\ present' = present \ {id} /\ announced' = announced
        /\ subscribed' = subscribed /\ id \in present
    BY <1>2 DEF Withdraw, Publish
  <2>2. TypeOK'
    BY <2>1, <1>0, EventTyped, FS_RemoveElement DEF TypeOK
  <2>3. OnlyAnnounced'
    <3> SUFFICES ASSUME NEW l \in Listeners, NEW i \in DOMAIN log'[l]
                 PROVE  log'[l][i].id \in announced'
      BY DEF OnlyAnnounced
    <3>1. CASE l \in subscribed /\ i = Len(log[l]) + 1
      BY <3>1, <2>1, <1>0, EventTyped DEF Detached, TypeOK
    <3>2. CASE i \in DOMAIN log[l]
      BY <3>2, <2>1, <1>0, EventTyped DEF OnlyAnnounced
    <3> QED BY <3>1, <3>2, <2>1, <1>0, EventTyped
  <2>4. Agreement'
    BY <2>1, <1>0, BelievedAppend DEF Agreement
  <2>5. EventsMakeSense'
    BY <2>1, <1>0, OneLifeAppend DEF EventsMakeSense, Agreement
  <2> QED BY <2>2, <2>3, <2>4, <2>5
<1>3. ASSUME NEW l \in Listeners, Join(l) PROVE IndInv'
  <2>1. PICK s \in Snapshots(present) :
          /\ log' = [log EXCEPT ![l] = s] /\ subscribed' = subscribed \cup {l}
          /\ present' = present /\ announced' = announced
    BY <1>3 DEF Join
  <2>2. /\ s \in Seq(Event) /\ Believed(s) = present /\ OneLife(s)
        /\ \A i \in DOMAIN s : s[i].id \in present
    BY SnapshotTells DEF TypeOK
  <2>3. TypeOK'
    BY <2>1, <2>2 DEF TypeOK
  <2>4. OnlyAnnounced' /\ Agreement' /\ EventsMakeSense'
    BY <2>1, <2>2, <1>0 DEF OnlyAnnounced, Agreement, EventsMakeSense, TypeOK
  <2> QED BY <2>3, <2>4
<1>4. ASSUME NEW l \in Listeners, Leave(l) PROVE IndInv'
  BY <1>4 DEF Leave, TypeOK, OnlyAnnounced, Agreement, EventsMakeSense
<1>5. CASE UNCHANGED vars
  BY <1>5 DEF vars, TypeOK, OnlyAnnounced, Agreement, EventsMakeSense
<1> QED BY <1>1, <1>2, <1>3, <1>4, <1>5 DEF Next

(* Every subscribed listener believes exactly what is present. *)
THEOREM AgreementHolds == Spec => []Agreement
<1>1. IndInv => Agreement
  BY DEF IndInv
<1> QED BY InitIndInv, NextIndInv, <1>1, PTL DEF Spec

(* Every log makes sense: one life per id. *)
THEOREM EventsMakeSenseHolds == Spec => []EventsMakeSense
<1>1. IndInv => EventsMakeSense
  BY DEF IndInv
<1> QED BY InitIndInv, NextIndInv, <1>1, PTL DEF Spec
=============================================================================
